SPECIFICATION FairSpec
CONSTANTS
    Thread = {t1, t2, t3}
    NoThread = NoThread
INVARIANTS
    OneTicker ClosedMeansStopped
PROPERTIES
    StopEnds
