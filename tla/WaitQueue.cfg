SPECIFICATION FairSpec
CONSTANTS
    Tasks = {t1, t2, t3}
    NoTask = NoTask
    Clis = {TRUE, FALSE}
    Kinds = {"interruptible", "uninterruptible"}
    MaxAcquire = 2
INVARIANTS QueueOK NoLostWakeup
PROPERTIES Refinement AllWoken
CHECK_DEADLOCK FALSE
