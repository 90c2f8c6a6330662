SPECIFICATION Spec
CONSTANTS
    c1 = c1  c2 = c2  q1 = q1  t1 = t1  t2 = t2
    Item <- SerialItem
    Task = {t1}
    Role <- MCRoles
    Agent = {a1, a2}
    Process = {p1, p2}
    TaskOf <- SerialTaskOf
    RoleOf <- SerialRoleOf
    Eligible <- MCEligible
    Capacity <- MCCapacity
    TTL = 1
    RetryDelay = 1
    MaxClock = 1
    MaxSeq = 1
    NoItem = NoItem
    NoLease = NoLease
    NoProcess = NoProcess
SYMMETRY MCSymmetry
INVARIANTS
    OneOpenStep RoleIndependence
CHECK_DEADLOCK FALSE
