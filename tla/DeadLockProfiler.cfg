\* Two threads, two sessions and two other objects with a lock.
CONSTANTS
    Threads = {t1, t2}
    s1 = s1
    s2 = s2
    service = service
    manager = manager
    Locks = {s1, s2, service, manager}
    Guards <- Writers
    Names = {"Session", "Service", "Manager"}
    NameOf <- ClassOf
    None = None
    MaxDepth = 2
SPECIFICATION FairSpec
INVARIANTS
    ReportsCycles
    NoSilentDeadlock
    NoFalseCrash
PROPERTY
    EveryCheckEnds
\* The process may crash, and deadlocks within one name are not reported.
CHECK_DEADLOCK FALSE
