\* Two workers, two queues and two timers of 0 or 1 ticks, in two ticks.
CONSTANTS
    Threads = {t1, t2}
    Queues = {q1, q2}
    Jobs = {j1, j2}
    None = None
    Delays = {0, 1}
    MaxTick = 2
SPECIFICATION FairTimerSpec
INVARIANTS
    EachOnce
    RunInOrder
PROPERTY
    EveryTimerFires
