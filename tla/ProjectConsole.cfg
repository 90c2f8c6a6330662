SPECIFICATION FairSpec
CONSTANTS
    o1 = o1  o2 = o2  d1 = d1  d2 = d2
    Op <- MCOp
    Delivery = {d1, d2}
    DeliveryOf <- MCDeliveryOf
    Thread = {t1, t2}
    NoThread = NoThread
    NoOp = NoOp
    MaxCrash = 1
INVARIANTS
    ReadyMeansStopped UnconfirmedRefused NoLostSignal ExclusiveExecution OneDispatcher
PROPERTIES
    QueuedIsClaimed DrainCompletes
