\* The largest size that should be pooled: 4064 bytes and the header.
CONSTANTS
    Threads = {t1}
    Blocks = {b1}
    None = None
    RequestSizes = {4064}
    HeaderSize = 32
    Types = {}
    SizeOf <- JobSize
SPECIFICATION Spec
INVARIANT
    EverySizeHasPool
CHECK_DEADLOCK FALSE
