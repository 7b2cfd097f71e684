\* Three threads, up to three nested guards each: W-W-W, W-R-R, R-R-R, ...
CONSTANTS
    Threads = {t1, t2, t3}
    None = None
    MaxDepth = 3
SPECIFICATION FairSpec
INVARIANTS
    Exclusion
    NoInvalidUnlock
PROPERTIES
    ImplementsReentrantLock
    NeverAllStuck
\* A crash is the end of the process.
CHECK_DEADLOCK FALSE
