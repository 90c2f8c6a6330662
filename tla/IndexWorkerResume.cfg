SPECIFICATION FairSpec
CONSTANTS
    Thread = {t1, t2, t3}
    NoThread = NoThread
PROPERTIES
    TickLoopNeverLost
