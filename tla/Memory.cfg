\* Two sizes of one pool, one of another, and one above MAX_ALLOC_SIZE, as well
\* as the largest size that should be pooled; a type with a pool of its own.
CONSTANTS
    Threads = {t1, t2, t3}
    Blocks = {b1, b2, b3, b4}
    None = None
    RequestSizes = {1, 32, 993, 4064, 4065}
    HeaderSize = 32
    Types = {job}
    SizeOf <- JobSize
SPECIFICATION Spec
SYMMETRY Symmetry
INVARIANTS
    BlocksFit
    NeverShared
    BlocksComeHome
    CountersSettle
\* The process ends when a pool is used that was never set.
CHECK_DEADLOCK FALSE
