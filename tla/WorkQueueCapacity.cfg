SPECIFICATION Spec
CONSTANTS
    c1 = c1  c2 = c2  q1 = q1  t1 = t1  t2 = t2
    Item <- PortfolioItem
    Task = {t1, t2}
    Role <- MCRoles
    Agent = {a1}
    Process = {p1, p2}
    TaskOf <- PortfolioTaskOf
    RoleOf <- PortfolioRoleOf
    Eligible <- MCEligible
    Capacity <- MCCapacity
    TTL = 2
    RetryDelay = 1
    MaxClock = 2
    MaxSeq = 1
    NoItem = NoItem
    NoLease = NoLease
    NoProcess = NoProcess
SYMMETRY MCSymmetry
INVARIANTS
    LiveCapacity LocalDeadlineConservative
CHECK_DEADLOCK FALSE
