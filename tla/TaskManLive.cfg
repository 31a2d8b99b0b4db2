\* A small instance for liveness.
SPECIFICATION FairSpec
CONSTANTS
    t1 = t1
    t2 = t2
    Task = {t1, t2}
    HeadTask = HeadTask
    Null = Null
    Hz = 16
    Full = 8
    TickBases = {2}
    Priorities = {1, 2}
    Ending = {t1}
    Retiming = {}
    Careful = TRUE
    MaxBacklog = 0
PROPERTIES EveryTaskServed ImplementsQueue
