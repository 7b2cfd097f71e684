----------------------------- MODULE RecvBuffer -----------------------------
(***************************************************************************)
(* RecvBuffer.h/.cpp: the bytes a session received and has not handled,    *)
(* between two cursors of a linear buffer of BUFFER_COUNT * bufferSize     *)
(* bytes.  A byte is represented by its offset in the peer's stream.       *)
(***************************************************************************)
EXTENDS Integers

CONSTANTS
    BufferSize,     \* m_bufferSize: Session::BUFFER_SIZE, 64 KB
    BUFFER_COUNT    \* 10

\* With three buffers or more, compacting never copies over its own source.
ASSUME BufferSizeAssumption == BufferSize \in Nat \ {0}
ASSUME BufferCountAssumption == BUFFER_COUNT \in Nat /\ BUFFER_COUNT >= 3

VARIABLES
    readPos, writePos,  \* m_readPos, m_writePos
    data                \* m_buffer

Capacity == BufferSize * BUFFER_COUNT
DataSize == writePos - readPos
FreeSize == Capacity - writePos

NoByte == -1

BufferInit ==
    /\ readPos = 0
    /\ writePos = 0
    /\ data = [p \in 0..(Capacity - 1) |-> NoByte]

\* OnWrite(n), after the kernel put n bytes of the stream at WritePos()
CanWrite(n) == n <= FreeSize

Fill(n, first) ==
    data' = [p \in DOMAIN data |->
               IF p \in writePos..(writePos + n - 1) THEN first + p - writePos ELSE data[p]]

\* OnRead(n)
CanRead(n) == n <= DataSize

\* Mutants of Compacts: only when nothing is free; whenever there is data.
CompactsLate(r) == r # writePos /\ FreeSize = 0
CompactsAlways(r) == r # writePos

\* Clean() with the read cursor at r: the cursors meet and go back to the
\* start, or the data moves to the front because less than one buffer is free.
Meets(r) == r = writePos
Compacts(r) == r # writePos /\ FreeSize < BufferSize

Clean(r) ==
    /\ readPos' = IF Meets(r) \/ Compacts(r) THEN 0 ELSE r
    /\ writePos' = IF Meets(r) THEN 0 ELSE IF Compacts(r) THEN writePos - r ELSE writePos
    /\ data' = IF Compacts(r)
               THEN [p \in DOMAIN data |-> IF p < writePos - r THEN data[r + p] ELSE data[p]]
               ELSE data
=============================================================================
