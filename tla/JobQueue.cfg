\* Three threads, two queues, three jobs.
CONSTANTS
    Threads = {t1, t2, t3}
    Queues = {q1, q2}
    Jobs = {j1, j2, j3}
    None = None
SPECIFICATION FairSpec
INVARIANTS
    SingleExecutor
    HolderIffWork
    RunInPushOrder
PROPERTIES
    ImplementsSerialQueue
    EveryJobRuns
\* When all jobs have run, nothing is left to do.
CHECK_DEADLOCK FALSE
