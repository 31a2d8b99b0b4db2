\* Three tasks, each of which may end itself and change its own rate.
SPECIFICATION Spec
CONSTANTS
    t1 = t1
    t2 = t2
    t3 = t3
    Task = {t1, t2, t3}
    HeadTask = HeadTask
    Null = Null
    Hz = 16
    Full = 8
    TickBases = {2, 4}
    Priorities = {1, 2}
    Ending = {t1, t2, t3}
    Retiming = {t1, t2, t3}
    Careful = TRUE
    MaxBacklog = 0
SYMMETRY TaskSymmetry
VIEW LiveView
INVARIANTS
    EveryTaskListed
    ListIsSorted
    ClockKeepsUp
    BiosClockExact
