\* WSASend fails in a way that leaves the session connected.
CONSTANTS
    Threads = {t1, t2}
    Messages = {m1, m2, m3}
    None = None
    Errors = {"other"}
SPECIFICATION FairSpec
PROPERTY
    QueuedIsSent
\* Nothing has to be sent.
CHECK_DEADLOCK FALSE
