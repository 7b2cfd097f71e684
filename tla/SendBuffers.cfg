\* Three buffers at a time in chunks of three bytes, between two threads;
\* a packet may be one byte too long.
CONSTANTS
    Threads = {t1, t2}
    Chunks = {c1, c2, c3}
    Buffers = {b1, b2, b3}
    None = None
    ChunkSize = 3
    MaxPacket = 4
SPECIFICATION Spec
SYMMETRY Symmetry
INVARIANTS
    Disjoint
    OnePlace
    OnlyTooLongFails
\* All buffers may be alive while a thread needs one more; a failure ends the process.
CHECK_DEADLOCK FALSE
