SPECIFICATION FairSpec
CONSTANTS
    c1 = c1  c2 = c2  q1 = q1  t1 = t1  t2 = t2
    Item <- SingleItem
    Task = {t1}
    Role <- MCRoles
    Agent = {a1}
    Process = {p1, p2}
    TaskOf <- SingleTaskOf
    RoleOf <- SingleRoleOf
    Eligible <- MCEligible
    Capacity <- MCCapacity
    TTL = 1
    RetryDelay = 1
    MaxClock = 2
    MaxSeq = 2
    NoItem = NoItem
    NoLease = NoLease
    NoProcess = NoProcess
INVARIANTS
    ClaimAgreement CompletionReceiptsExact
PROPERTIES
    ClosedIsFinal
    ExpiredLeaseSettles
CHECK_DEADLOCK FALSE
