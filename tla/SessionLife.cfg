\* Three threads and two sessions, of a server with one AcceptEvent or a client.
CONSTANTS
    Threads = {t1, t2, t3}
    Sessions = {s1, s2}
    AcceptEvents = {a1}
    None = None
SPECIFICATION Spec
SYMMETRY Symmetry
INVARIANTS
    KeptAlive
    NoFailure
    AcceptsKept
    ConnectedIsServed
    NothingLeaks
\* All sessions may be disconnected or in use.
CHECK_DEADLOCK FALSE
