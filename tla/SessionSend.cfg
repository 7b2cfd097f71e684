\* Three threads and four messages; WSASend fails in every way.
CONSTANTS
    Threads = {t1, t2, t3}
    Messages = {m1, m2, m3, m4}
    None = None
    Errors = {"reset", "other"}
SPECIFICATION FairSpec
INVARIANTS
    OneUser
PROPERTIES
    ImplementsSendQueue
    QueuedIsSentUnlessFailed
\* Nothing has to be sent.
CHECK_DEADLOCK FALSE
