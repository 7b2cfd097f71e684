\* Buffers of 4 bytes, headers of 2: packets of 2 or 3 bytes in any order, in
\* chunks of any size, twice around the buffer.
CONSTANTS
    BufferSize = 4
    BUFFER_COUNT = 3
    HeaderSize = 2
    MaxStream = 18
    Period = 4
    Streams <- MCStreams
SPECIFICATION FairSpec
INVARIANTS
    CutsAtPackets
    RoomToReceive
PROPERTIES
    CopyDisjoint
    EveryPacketDelivered
\* The session may be closed.
CHECK_DEADLOCK FALSE
