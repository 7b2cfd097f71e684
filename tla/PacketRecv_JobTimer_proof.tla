--------------------- MODULE PacketRecv_JobTimer_proof ---------------------
(***************************************************************************)
(* Proofs about PacketRecv, for any buffer size, at least three buffers,   *)
(* any header size and any stream: the buffer never overflows, every       *)
(* receive has room for a whole buffer, compacting never copies over its   *)
(* source, and OnRecvPacket is given exactly the packets of the stream.    *)
(*                                                                         *)
(* In the second half, proofs about JobTimer, which shares no variable     *)
(* with PacketRecv, for any sets of workers, queues, jobs and delays: a    *)
(* timer's job is pushed once, and the timers of a queue that wait         *)
(* together run in the order of their ticks.                               *)
(***************************************************************************)
EXTENDS PacketRecv, JobTimer, FiniteSetTheorems, SequenceTheorems, TLAPS

Sizes == HeaderSize..(BufferSize - 1)

(***************************************************************************)
(* What the properties lack to be inductive: OnRecv's loop stands where    *)
(* the next packet starts and has not passed the write cursor, and what a  *)
(* receive is posted behind is less than one packet.                       *)
(***************************************************************************)
AtPacket ==
    /\ pc = "parse" => /\ processLen <= DataSize
                       /\ NextAt = arrived - DataSize + processLen
    /\ pc = "posted" => NextAt = arrived - DataSize

IInv == /\ TypeOK
        /\ arrived >= DataSize
        /\ BufferHoldsStream
        /\ CutsAtPackets
        /\ NoOverflow
        /\ RoomToReceive
        /\ AtPacket

\* The buffer is at least three times as long as the longest receive asked for.
LEMMA CapacityFacts == Capacity \in Nat /\ Capacity >= 3 * BufferSize /\ BufferSize \in Nat
<1>1. PICK k \in Nat : BUFFER_COUNT = 3 + k
  BY BufferCountAssumption
<1>2. BufferSize \in Nat
  BY BufferSizeAssumption
<1>3. BufferSize * (3 + k) = 3 * BufferSize + BufferSize * k /\ BufferSize * k \in Nat
  BY <1>2
<1>4. Capacity = 3 * BufferSize + BufferSize * k
  BY <1>1, <1>3 DEF Capacity
<1> QED
  BY <1>2, <1>3, <1>4

\* A header read from the stream is one of the sizes a packet may have.
LEMMA SizeFacts == ASSUME TypeOK, NEW o \in 0..MaxStream
    PROVE  /\ sizeAt[o] \in Nat /\ sizeAt[o] >= HeaderSize /\ sizeAt[o] < BufferSize
           /\ HeaderSize \in Nat /\ HeaderSize > 0
<1>1. sizeAt \in [0..MaxStream -> HeaderSize..(BufferSize - 1)]
  BY SizesAssumption DEF TypeOK
<1>2. sizeAt[o] \in HeaderSize..(BufferSize - 1)
  BY <1>1
<1> QED
  BY <1>2, HeaderAssumption, BufferSizeAssumption

\* The end of the packets delivered so far is an offset of the stream.
LEMMA NextAtType == ASSUME TypeOK PROVE NextAt \in Int
<1>1. CASE delivered = <<>>
  BY <1>1 DEF NextAt
<1>2. CASE delivered # <<>>
  <2> DEFINE Packet == [at : Int, size : Nat]
  <2>2. delivered \in Seq(Packet)
    BY DEF TypeOK
  <2> HIDE DEF Packet
  <2>3. Len(delivered) \in 1..Len(delivered)
    BY <1>2, <2>2, EmptySeq, LenProperties
  <2>4. delivered[Len(delivered)] \in Packet
    BY <2>2, <2>3, ElementOfSeq
  <2>1. delivered[Len(delivered)] \in [at : Int, size : Nat]
    BY <2>4 DEF Packet
  <2> QED
    BY <1>2, <2>1 DEF NextAt
<1> QED
  BY <1>1, <1>2

\* The arithmetic of the cursors.
LEMMA CursorFacts == ASSUME TypeOK
    PROVE  /\ readPos \in Int /\ 0 <= readPos /\ readPos <= writePos
           /\ writePos \in Int /\ writePos <= Capacity
           /\ arrived \in Int /\ 0 <= arrived /\ arrived <= MaxStream /\ MaxStream \in Int
           /\ processLen \in Nat
           /\ data \in [0..(Capacity - 1) -> Int]
<1>1. /\ readPos \in 0..writePos /\ writePos \in 0..Capacity
      /\ arrived \in 0..MaxStream /\ processLen \in Nat
      /\ data \in [0..(Capacity - 1) -> Int]
  BY DEF TypeOK
<1>2. Capacity \in Nat /\ MaxStream \in Nat
  BY CapacityFacts, StreamAssumption
<1>3. writePos \in Int /\ writePos <= Capacity
  BY <1>1, <1>2
<1>4. readPos \in Int /\ 0 <= readPos /\ readPos <= writePos
  BY <1>1, <1>3
<1> QED
  BY <1>1, <1>2, <1>3, <1>4

\* A session starts with an empty buffer and a receive for all of it.
LEMMA InitInv == Init => IInv
<1> SUFFICES ASSUME Init PROVE IInv
  OBVIOUS
<1>1. Capacity \in Nat /\ Capacity >= BufferSize
  BY CapacityFacts
<1>2. TypeOK
  BY <1>1, StreamAssumption DEF Init, BufferInit, TypeOK, NoByte
<1> QED
  BY <1>1, <1>2
     DEF Init, BufferInit, IInv, BufferHoldsStream, CutsAtPackets, NoOverflow, RoomToReceive,
         AtPacket, NextAt, DataSize, FreeSize

\* A receive completes: the bytes are stored behind the ones that are there.
LEMMA RecvInv == ASSUME IInv, NEW n \in 1..Capacity, RecvBytes(n) PROVE IInv'
<1>1. TypeOK /\ arrived >= DataSize /\ BufferHoldsStream /\ CutsAtPackets /\ NoOverflow
      /\ RoomToReceive /\ AtPacket
  BY DEF IInv
<1>2. Capacity \in Nat /\ n \in Nat /\ n > 0
  BY CapacityFacts
<1>3. /\ readPos \in Int /\ 0 <= readPos /\ readPos <= writePos
      /\ writePos \in Int /\ writePos <= Capacity
      /\ arrived \in Int /\ 0 <= arrived /\ arrived + n <= MaxStream /\ MaxStream \in Int
      /\ data \in [0..(Capacity - 1) -> Int]
      /\ NextAt \in Int
  BY <1>1, NextAtType, CursorFacts DEF RecvBytes
<1>4. CanWrite(n)
  BY <1>1 DEF RecvBytes, CanWrite, RoomToReceive
<1>5. n <= Capacity - writePos
  BY <1>4 DEF CanWrite, FreeSize
<1>6. /\ writePos' = writePos + n /\ arrived' = arrived + n /\ processLen' = 0
      /\ pc' = "parse" /\ cause' = cause /\ connected' \in BOOLEAN
      /\ UNCHANGED <<readPos, sizeAt, recvLen, delivered>>
      /\ data' = [p \in 0..(Capacity - 1) |->
                    IF p \in writePos..(writePos + n - 1) THEN arrived + p - writePos ELSE data[p]]
  BY <1>1, <1>3, <1>4 DEF RecvBytes, Fill, TypeOK
<1>7. TypeOK'
  <2>1. data' \in [0..(Capacity - 1) -> Int]
    BY <1>3, <1>6
  <2>2. writePos' \in 0..Capacity /\ readPos' \in 0..writePos' /\ arrived' \in 0..MaxStream
    BY <1>2, <1>3, <1>5, <1>6
  <2> QED
    BY <1>1, <1>6, <2>1, <2>2 DEF TypeOK
<1>8. BufferHoldsStream'
  <2>1. ASSUME NEW p \in readPos'..(writePos' - 1)
        PROVE  data'[p] = arrived' - (writePos' - p)
    <3>1. p \in 0..(Capacity - 1) /\ p \in Int
      BY <1>2, <1>3, <1>5, <1>6
    <3>2. CASE p \in writePos..(writePos + n - 1)
      BY <1>2, <1>3, <1>6, <3>1, <3>2
    <3>3. CASE p \notin writePos..(writePos + n - 1)
      <4>1. p \in readPos..(writePos - 1)
        BY <1>2, <1>3, <1>6, <3>1, <3>3
      <4>2. data'[p] = data[p] /\ data[p] = arrived - (writePos - p)
        BY <1>1, <1>6, <3>1, <3>3, <4>1 DEF BufferHoldsStream
      <4> QED
        BY <1>2, <1>3, <1>6, <3>1, <4>2
    <3> QED
      BY <3>2, <3>3
  <2> QED
    BY <2>1 DEF BufferHoldsStream
<1>9. CutsAtPackets'
  <2>1. \A i \in DOMAIN delivered : delivered[i] \in [at : Int, size : Nat]
    BY <1>1, ElementOfSeq, LenProperties DEF TypeOK
  <2>2. \A i \in DOMAIN delivered : delivered[i].at + delivered[i].size <= arrived + n
    BY <1>1, <1>2, <1>3, <2>1 DEF CutsAtPackets
  <2> QED
    BY <1>1, <1>6, <2>2 DEF CutsAtPackets
<1>10. AtPacket' /\ (arrived >= DataSize)'
  <2>1. NextAt' = NextAt
    BY <1>6 DEF NextAt
  <2>2. NextAt = arrived - (writePos - readPos)
    BY <1>1 DEF AtPacket, RecvBytes, DataSize
  <2> QED
    BY <1>1, <1>2, <1>3, <1>6, <2>1, <2>2 DEF AtPacket, DataSize
<1> QED
  BY <1>1, <1>6, <1>7, <1>8, <1>9, <1>10 DEF IInv, NoOverflow, RoomToReceive

\* The next header in OnRecv's loop stands where the next packet starts.
LEMMA HeaderAtPacket == ASSUME IInv, pc = "parse", HeaderComplete
    PROVE  /\ data[readPos + processLen] = NextAt
           /\ NextAt \in 0..MaxStream
           /\ HeaderSizeField = sizeAt[NextAt]
           /\ HeaderSizeField \in Nat /\ HeaderSizeField >= HeaderSize /\ HeaderSizeField < BufferSize
<1>1. TypeOK /\ arrived >= DataSize /\ BufferHoldsStream /\ AtPacket
  BY DEF IInv
<1>2. HeaderSize \in Nat /\ HeaderSize > 0
  BY HeaderAssumption
<1>3. /\ readPos \in Int /\ 0 <= readPos /\ readPos <= writePos
      /\ writePos \in Int
      /\ arrived \in Int /\ 0 <= arrived /\ arrived <= MaxStream /\ MaxStream \in Int
      /\ processLen \in Nat
  BY <1>1, CursorFacts
<1>4. /\ writePos - readPos - processLen >= HeaderSize
      /\ NextAt = arrived - (writePos - readPos) + processLen
      /\ arrived >= writePos - readPos
  BY <1>1 DEF HeaderComplete, AtPacket, DataSize
<1>5. data[readPos + processLen] = NextAt
  <2>1. readPos + processLen \in readPos..(writePos - 1)
    BY <1>2, <1>3, <1>4
  <2>2. data[readPos + processLen] = arrived - (writePos - (readPos + processLen))
    BY <1>1, <2>1 DEF BufferHoldsStream
  <2> QED
    BY <1>3, <1>4, <2>2
<1>6. NextAt \in 0..MaxStream
  BY <1>2, <1>3, <1>4
<1> QED
  BY <1>1, <1>5, <1>6, SizeFacts DEF HeaderSizeField

\* A packet is handed over: it is the next one of the stream, and complete.
LEMMA ParseInv == ASSUME IInv, ParsePacket PROVE IInv'
<1>1. TypeOK /\ arrived >= DataSize /\ BufferHoldsStream /\ CutsAtPackets /\ NoOverflow
      /\ RoomToReceive /\ AtPacket
  BY DEF IInv
<1>2. pc = "parse" /\ HeaderComplete /\ DataSize - processLen >= HeaderSizeField
  BY DEF ParsePacket, PacketComplete
<1>3. PICK o \in 0..MaxStream : o = NextAt
  BY <1>2, HeaderAtPacket
<1>4. PICK sz \in Nat : sz = HeaderSizeField
  BY <1>2, HeaderAtPacket
<1>5. data[readPos + processLen] = o /\ sz = sizeAt[o] /\ o \in Int
  BY <1>2, <1>3, <1>4, HeaderAtPacket, StreamAssumption
<1>6. /\ readPos \in Int /\ writePos \in Int /\ arrived \in Int /\ processLen \in Nat
  BY <1>1, CursorFacts
<1>7. /\ delivered' = Append(delivered, [at |-> o, size |-> sz])
      /\ processLen' = processLen + sz
      /\ UNCHANGED <<readPos, writePos, data, sizeAt, arrived, connected, pc, recvLen, cause>>
  BY <1>4, <1>5 DEF ParsePacket
<1>8. /\ processLen + sz <= writePos - readPos
      /\ o = arrived - (writePos - readPos) + processLen
      /\ o + sz <= arrived
  <2>1. writePos - readPos - processLen >= sz
    BY <1>2, <1>4 DEF DataSize
  <2>2. o = arrived - (writePos - readPos) + processLen
    BY <1>1, <1>2, <1>3 DEF AtPacket, DataSize
  <2> QED
    BY <1>5, <1>6, <2>1, <2>2
<1> DEFINE Packet == [at : Int, size : Nat]
<1>9. delivered \in Seq(Packet) /\ [at |-> o, size |-> sz] \in Packet
  BY <1>1, <1>5 DEF TypeOK
<1> HIDE DEF Packet
<1>10. PICK k \in Nat : k = Len(delivered)
  BY <1>9
<1>11. /\ delivered' \in Seq(Packet)
       /\ Len(delivered') = k + 1
       /\ DOMAIN delivered' = 1..(k + 1) /\ DOMAIN delivered = 1..k
       /\ \A i \in 1..k : delivered'[i] = delivered[i]
       /\ delivered'[k + 1] = [at |-> o, size |-> sz]
  BY <1>7, <1>9, <1>10
<1>12. TypeOK'
  <2>1. processLen' \in Nat
    BY <1>6, <1>7
  <2>2. delivered' \in Seq([at : Int, size : Nat])
    BY <1>11 DEF Packet
  <2> QED
    BY <1>1, <1>7, <2>1, <2>2 DEF TypeOK
<1>13. CutsAtPackets'
  <2>1. k # 0 => delivered # <<>> /\ o = delivered[k].at + delivered[k].size
    BY <1>3, <1>10 DEF NextAt
  <2>2. k = 0 => o = 0
    <3>1. k = 0 => delivered = <<>>
      BY <1>9, <1>10, EmptySeq
    <3> QED
      BY <1>3, <3>1 DEF NextAt
  <2>3. delivered'[1].at = 0
    <3>1. CASE k = 0
      BY <1>11, <2>2, <3>1
    <3>2. CASE k # 0
      <4>1. delivered[1].at = 0 /\ 1 \in 1..k
        BY <1>1, <2>1, <3>2 DEF CutsAtPackets
      <4> QED
        BY <1>11, <4>1
    <3> QED
      BY <3>1, <3>2
  <2>4. ASSUME NEW i \in DOMAIN delivered'
        PROVE  /\ delivered'[i].size = sizeAt[delivered'[i].at]
               /\ delivered'[i].at + delivered'[i].size <= arrived
               /\ i > 1 => delivered'[i].at = delivered'[i-1].at + delivered'[i-1].size
    <3>1. CASE i \in 1..k
      <4>1. i > 1 => i - 1 \in 1..k
        BY <3>1
      <4>2. /\ delivered[i].size = sizeAt[delivered[i].at]
            /\ delivered[i].at + delivered[i].size <= arrived
            /\ i > 1 => delivered[i].at = delivered[i-1].at + delivered[i-1].size
        BY <1>1, <1>11, <3>1 DEF CutsAtPackets
      <4> QED
        BY <1>11, <3>1, <4>1, <4>2
    <3>2. CASE i = k + 1
      <4>1. delivered'[i].size = sizeAt[delivered'[i].at]
        BY <1>5, <1>11, <3>2
      <4>2. delivered'[i].at + delivered'[i].size <= arrived
        BY <1>8, <1>11, <3>2
      <4>3. ASSUME i > 1
            PROVE  delivered'[i].at = delivered'[i-1].at + delivered'[i-1].size
        <5>1. k # 0 /\ i - 1 = k /\ k \in 1..k
          BY <3>2, <4>3
        <5> QED
          BY <1>11, <2>1, <3>2, <5>1
      <4> QED
        BY <4>1, <4>2, <4>3
    <3> QED
      BY <1>11, <3>1, <3>2
  <2> QED
    BY <1>7, <2>3, <2>4 DEF CutsAtPackets
<1>14. AtPacket' /\ (arrived >= DataSize)'
  <2>1. NextAt' = o + sz
    <3>1. delivered' # <<>>
      BY <1>11
    <3> QED
      BY <1>11, <3>1 DEF NextAt
  <2>2. pc' = "parse" /\ arrived >= writePos - readPos
    BY <1>1, <1>2, <1>7 DEF DataSize
  <2>3. /\ processLen' <= writePos' - readPos'
        /\ NextAt' = arrived' - (writePos' - readPos') + processLen'
    <3>1. /\ processLen' = processLen + sz
          /\ readPos' = readPos /\ writePos' = writePos /\ arrived' = arrived
      BY <1>7
    <3>2. o \in Int
      BY <1>5
    <3> QED
      BY <1>6, <1>8, <2>1, <3>1, <3>2
  <2> QED
    BY <1>7, <2>2, <2>3 DEF AtPacket, DataSize
<1> QED
  BY <1>1, <1>7, <1>12, <1>13, <1>14
     DEF IInv, NoOverflow, RoomToReceive, BufferHoldsStream, FreeSize
\* The loop ends: what is left is less than a packet, and after Clean the
\* cursors enclose the same bytes with room for a whole buffer behind them.
LEMMA CleanEffect ==
    ASSUME IInv, pc = "parse", ~PacketComplete, Clean(readPos + processLen)
    PROVE  /\ readPos' \in 0..writePos' /\ writePos' \in 0..Capacity
           /\ data' \in [0..(Capacity - 1) -> Int]
           /\ writePos' - readPos' = writePos - readPos - processLen
           /\ Capacity - writePos' >= BufferSize
           /\ \A p \in readPos'..(writePos' - 1) : data'[p] = arrived - (writePos' - p)
           /\ LET r == readPos + processLen IN Compacts(r) => writePos - r <= r
<1>1. TypeOK /\ arrived >= DataSize /\ BufferHoldsStream /\ AtPacket
  BY DEF IInv
<1> DEFINE r == readPos + processLen
<1>2. /\ readPos \in Int /\ 0 <= readPos
      /\ writePos \in Int /\ writePos <= Capacity
      /\ arrived \in Int /\ processLen \in Nat
      /\ data \in [0..(Capacity - 1) -> Int]
  BY <1>1, CursorFacts
<1>3. Capacity \in Int /\ Capacity >= 3 * BufferSize /\ BufferSize \in Int /\ BufferSize > 0
  BY CapacityFacts, BufferSizeAssumption
<1>4. r \in Int /\ readPos <= r /\ r <= writePos
  BY <1>1, <1>2 DEF AtPacket, DataSize
<1>5. writePos - r < BufferSize
  <2>1. CASE ~HeaderComplete
    <3>1. HeaderSize \in Int /\ HeaderSize < BufferSize
      <4>1. 0 \in 0..MaxStream
        BY StreamAssumption
      <4>2. sizeAt[0] \in Nat /\ sizeAt[0] >= HeaderSize /\ sizeAt[0] < BufferSize /\ HeaderSize \in Nat
        BY <1>1, <4>1, SizeFacts
      <4> QED
        BY <1>3, <4>2
    <3>2. ~(writePos - readPos - processLen >= HeaderSize)
      BY <2>1 DEF HeaderComplete, DataSize
    <3> QED
      BY <1>2, <1>3, <3>1, <3>2
  <2>2. CASE HeaderComplete
    <3>1. HeaderSizeField \in Nat /\ HeaderSizeField < BufferSize
      BY <2>2, HeaderAtPacket
    <3>2. ~(writePos - readPos - processLen >= HeaderSizeField)
      BY <2>2 DEF PacketComplete, DataSize
    <3> QED
      BY <1>2, <1>3, <3>1, <3>2
  <2> QED
    BY <2>1, <2>2
<1>6. \A p \in r..(writePos - 1) : data[p] = arrived - (writePos - p)
  <2>1. \A p \in r..(writePos - 1) : p \in readPos..(writePos - 1)
    BY <1>2, <1>4
  <2> QED
    BY <1>1, <2>1 DEF BufferHoldsStream
<1> HIDE DEF r
<1>7. r = readPos + processLen /\ Clean(r)
  BY DEF r
<1>8. CASE Meets(r)
  <2>1. r = writePos /\ readPos' = 0 /\ writePos' = 0 /\ data' = data /\ ~Compacts(r)
    BY <1>7, <1>8 DEF Clean, Meets, Compacts
  <2>2. writePos' - readPos' = writePos - readPos - processLen /\ Capacity - writePos' >= BufferSize
    BY <1>2, <1>3, <1>7, <2>1
  <2>3. readPos' \in 0..writePos' /\ writePos' \in 0..Capacity /\ readPos'..(writePos' - 1) = {}
    BY <1>3, <2>1
  <2> QED
    BY <1>2, <2>1, <2>2, <2>3 DEF r
<1>9. CASE Compacts(r)
  <2>1. /\ Capacity - writePos < BufferSize
        /\ readPos' = 0 /\ writePos' = writePos - r
        /\ data' = [p \in 0..(Capacity - 1) |-> IF p < writePos - r THEN data[r + p] ELSE data[p]]
    BY <1>2, <1>7, <1>9 DEF Clean, Meets, Compacts, FreeSize
  <2>2. writePos - r <= r
    BY <1>2, <1>3, <1>4, <1>5, <2>1
  <2>3. /\ readPos' \in 0..writePos' /\ writePos' \in 0..Capacity
        /\ writePos' - readPos' = writePos - readPos - processLen
        /\ Capacity - writePos' >= BufferSize
    BY <1>2, <1>3, <1>4, <1>5, <1>7, <2>1
  <2>4. data' \in [0..(Capacity - 1) -> Int]
    <3>1. ASSUME NEW p \in 0..(Capacity - 1), p < writePos - r
          PROVE  r + p \in 0..(Capacity - 1)
      BY <1>2, <1>3, <1>4, <3>1
    <3> QED
      BY <1>2, <2>1, <3>1
  <2>5. ASSUME NEW p \in readPos'..(writePos' - 1)
        PROVE  data'[p] = arrived - (writePos' - p)
    <3>1. p \in 0..(Capacity - 1) /\ p < writePos - r /\ r + p \in r..(writePos - 1) /\ p \in Int
      BY <1>2, <1>3, <1>4, <2>1
    <3>2. data'[p] = data[r + p] /\ data[r + p] = arrived - (writePos - (r + p))
      BY <1>6, <2>1, <3>1
    <3> QED
      BY <1>2, <1>4, <2>1, <3>1, <3>2
  <2> QED
    BY <2>2, <2>3, <2>4, <2>5 DEF r
<1>10. CASE ~Meets(r) /\ ~Compacts(r)
  <2>1. readPos' = r /\ writePos' = writePos /\ data' = data
    BY <1>7, <1>10 DEF Clean
  <2>2. ~(Capacity - writePos < BufferSize)
    BY <1>10 DEF Meets, Compacts, FreeSize
  <2>3. /\ readPos' \in 0..writePos' /\ writePos' \in 0..Capacity
        /\ writePos' - readPos' = writePos - readPos - processLen
        /\ Capacity - writePos' >= BufferSize
    BY <1>2, <1>3, <1>4, <1>7, <2>1, <2>2
  <2> QED
    BY <1>2, <1>6, <1>10, <2>1, <2>3 DEF r
<1> QED
  BY <1>8, <1>9, <1>10

\* The end of ProcessRecv.
LEMMA StopInv == ASSUME IInv, ParseStop
    PROVE  IInv' /\ LET r == readPos + processLen IN Compacts(r) => writePos - r <= r
<1>1. TypeOK /\ arrived >= DataSize /\ BufferHoldsStream /\ CutsAtPackets /\ NoOverflow
      /\ RoomToReceive /\ AtPacket
  BY DEF IInv
<1>2. pc = "parse" /\ ~PacketComplete /\ UNCHANGED <<sizeAt, arrived, processLen, delivered>>
  BY DEF ParseStop
<1>3. CanRead(processLen)
  BY <1>1, <1>2 DEF AtPacket, CanRead
<1>4. Clean(readPos + processLen) /\ RegisterRecv /\ UNCHANGED cause
  BY <1>3 DEF ParseStop
<1>5. /\ readPos' \in 0..writePos' /\ writePos' \in 0..Capacity
      /\ data' \in [0..(Capacity - 1) -> Int]
      /\ writePos' - readPos' = writePos - readPos - processLen
      /\ Capacity - writePos' >= BufferSize
      /\ \A p \in readPos'..(writePos' - 1) : data'[p] = arrived - (writePos' - p)
      /\ LET r == readPos + processLen IN Compacts(r) => writePos - r <= r
  BY <1>2, <1>4, CleanEffect
<1>6. /\ pc' \in {"posted", "closed"} /\ connected' \in BOOLEAN
      /\ pc' = "posted" => recvLen' = Capacity - writePos'
      /\ pc' # "posted" => recvLen' = recvLen
  BY <1>1, <1>4 DEF RegisterRecv, TypeOK
<1>7. TypeOK'
  <2>1. recvLen' \in 0..Capacity
    <3>1. recvLen \in 0..Capacity /\ Capacity \in Nat
      BY <1>1, CapacityFacts DEF TypeOK
    <3> QED
      BY <1>5, <1>6, <3>1
  <2> QED
    BY <1>1, <1>2, <1>4, <1>5, <1>6, <2>1 DEF TypeOK
<1>8. BufferHoldsStream' /\ CutsAtPackets' /\ NoOverflow'
  BY <1>1, <1>2, <1>4, <1>5 DEF BufferHoldsStream, CutsAtPackets, NoOverflow
<1>9. RoomToReceive'
  BY <1>5, <1>6 DEF RoomToReceive, FreeSize
<1>10. AtPacket' /\ (arrived >= DataSize)'
  <2>1. NextAt' = NextAt /\ NextAt = arrived - (writePos - readPos) + processLen
    BY <1>1, <1>2 DEF NextAt, AtPacket, DataSize
  <2>2. arrived >= writePos - readPos
    BY <1>1 DEF DataSize
  <2>3. readPos \in Int /\ writePos \in Int /\ arrived \in Int /\ processLen \in Nat
    BY <1>1, CursorFacts
  <2>4. arrived' = arrived
    BY <1>2
  <2>5. /\ NextAt' = arrived' - (writePos' - readPos')
        /\ arrived' >= writePos' - readPos'
    <3>1. writePos' - readPos' = writePos - readPos - processLen
      BY <1>5
    <3>2. PICK d : d = writePos' - readPos'
      OBVIOUS
    <3>3. NextAt' = arrived - d /\ arrived >= d
      BY <2>1, <2>2, <2>3, <3>1, <3>2
    <3> QED
      BY <2>4, <3>2, <3>3
  <2> QED
    BY <1>6, <2>5 DEF AtPacket, DataSize
<1> QED
  BY <1>5, <1>7, <1>8, <1>9, <1>10 DEF IInv

-----------------------------------------------------------------------------
(* Theorems. *)

\* Every step preserves the invariant.
LEMMA StepInv == IInv /\ [Next]_vars => IInv'
<1> SUFFICES ASSUME IInv, [Next]_vars PROVE IInv'
  OBVIOUS
<1> USE DEF IInv, TypeOK, BufferHoldsStream, CutsAtPackets, NoOverflow, RoomToReceive,
            AtPacket, NextAt, DataSize, FreeSize
<1>1. CASE UNCHANGED vars
  BY <1>1 DEF vars
<1>2. CASE Disconnect
  BY <1>2 DEF Disconnect
<1>3. CASE RecvZero
  BY <1>3 DEF RecvZero
<1> QED
  BY <1>1, <1>2, <1>3, RecvInv, ParseInv, StopInv DEF Next

\* The inductive invariant holds throughout.
THEOREM Invariance == Spec => []IInv
BY InitInv, StepInv, PTL DEF Spec

\* The type invariant: the cursors never leave the buffer.
THEOREM TypeCorrectness == Spec => []TypeOK
<1>1. IInv => TypeOK
  BY DEF IInv
<1> QED
  BY <1>1, Invariance, PTL

\* Whatever the sizes of packets and chunks, OnRecvPacket is given the packets
\* of the stream, whole and in order, out of a buffer that holds its bytes.
THEOREM PacketsCorrect == Spec => [](BufferHoldsStream /\ CutsAtPackets)
<1>1. IInv => BufferHoldsStream /\ CutsAtPackets
  BY DEF IInv
<1> QED
  BY <1>1, Invariance, PTL

\* Neither overflow check ever fails, and every receive has room for a buffer.
THEOREM NeverFull == Spec => [](NoOverflow /\ RoomToReceive)
<1>1. IInv => NoOverflow /\ RoomToReceive
  BY DEF IInv
<1> QED
  BY <1>1, Invariance, PTL

\* Clean's memcpy never copies over its own source.
THEOREM CopiesDisjoint == Spec => CopyDisjoint
<1>1. IInv /\ [Next]_vars =>
        [ParseStop => LET r == readPos + processLen IN Compacts(r) => writePos - r <= r]_vars
  BY StopInv
<1> QED
  BY <1>1, Invariance, PTL DEF Spec, CopyDisjoint

-----------------------------------------------------------------------------
(* JobTimer: the invariant.                                                *)

\* One thread at a time is between the exchange of m_distributing and its
\* release, and only it has local items.
TurnOK ==
    /\ \A t \in Threads : phase[t] \in {"drain", "push"} =>
         /\ distributing
         /\ \A u \in Threads : phase[u] \in {"drain", "push"} => u = t
    /\ \A t \in Threads : phase[t] # "push" => batch[t] = <<>>

\* A job is reserved by one thread, in m_items, in one local list, entered or
\* expired, in one of these once, and has an owner exactly if it is somewhere.
PlacesOK ==
    /\ IsFiniteSet(items)
    /\ \A t \in Threads : IsInjective(batch[t])
    /\ IsInjective(entered)
    /\ \A t, u \in Threads : reserving[t] # None /\ reserving[t] = reserving[u] => t = u
    /\ \A t, u \in Threads : t # u => JobsIn(batch[t]) \cap JobsIn(batch[u]) = {}
    /\ \A t, u \in Threads : reserving[t] \notin JobsIn(batch[u])
    /\ \A t \in Threads : reserving[t] \notin items \cup JobsIn(entered) \cup expired
    /\ \A t \in Threads : JobsIn(batch[t]) \cap (items \cup JobsIn(entered) \cup expired) = {}
    /\ items \cap (JobsIn(entered) \cup expired) = {}
    /\ JobsIn(entered) \cap expired = {}
    /\ \A j \in Jobs : owner[j] # None <=> ~Fresh(j)

\* A job in the line of its queue, and that j is ahead of k there if k is there.
InLine(q, j) == j \in JobsIn(finished[q]) \cup running[q] \cup JobsIn(pending[q])

Ahead(q, j, k) ==
    /\ \A i \in DOMAIN finished[q] : finished[q][i] = k =>
         \E h \in 1..(i - 1) : finished[q][h] = j
    /\ k \in running[q] => j \in JobsIn(finished[q])
    /\ \A i \in DOMAIN pending[q] : pending[q][i] = k =>
         \/ j \in JobsIn(finished[q]) \cup running[q]
         \/ \E h \in 1..(i - 1) : pending[q][h] = j

\* A queue runs one job at a time, what was pushed is in the line of its owner and
\* nothing else is in a line, and what was dropped has no owner left.
LinesOK ==
    /\ \A q \in Queues : \A j, k \in running[q] : j = k
    /\ \A q \in Queues, j \in Jobs : InLine(q, j) <=> j \in JobsIn(entered) /\ owner[j] = q
    /\ \A j \in expired : owner[j] \notin alive

\* Jobs of one queue that met in m_items stay in the order of their ticks: in a
\* local list the later one has the earlier one ahead of it, unless that has left
\* the list, and so it is in the line of the queue.
Timed(j, k) == <<j, k>> \in met /\ tick[j] < tick[k] /\ owner[j] = owner[k]

MetOK == \A j, k \in Jobs : <<j, k>> \in met =>
    /\ owner[j] # None /\ owner[k] # None
    /\ \A t \in Threads : reserving[t] # j /\ reserving[t] # k

BatchesOK == \A j, k \in Jobs, t \in Threads : Timed(j, k) =>
    \A p \in DOMAIN batch[t] : batch[t][p] = k =>
        \/ \E h \in 1..(p - 1) : batch[t][h] = j
        \/ j \in JobsIn(entered) \cup expired

AheadOK == \A q \in Queues, j, k \in Jobs : Timed(j, k) /\ owner[k] = q => Ahead(q, j, k)

TimerInv ==
    /\ TimerTypeOK /\ TurnOK /\ PlacesOK /\ LinesOK
    /\ MetOK /\ BatchesOK /\ AheadOK

-----------------------------------------------------------------------------
(* Sequences of jobs.                                                      *)

\* What Append and Tail do to the jobs of a sequence, and that they keep each of
\* them once.
LEMMA JobsAtEnds == ASSUME NEW s \in Seq(Jobs)
    PROVE  /\ \A j \in Jobs : /\ JobsIn(Append(s, j)) = JobsIn(s) \cup {j}
                              /\ IsInjective(s) /\ j \notin JobsIn(s) => IsInjective(Append(s, j))
           /\ s # <<>> => /\ Head(s) \in Jobs /\ Tail(s) \in Seq(Jobs)
                          /\ JobsIn(s) = JobsIn(Tail(s)) \cup {Head(s)}
                          /\ IsInjective(s) => /\ IsInjective(Tail(s))
                                               /\ Head(s) \notin JobsIn(Tail(s))
<1> USE DEF JobsIn, IsInjective
<1>1. ASSUME NEW j \in Jobs
      PROVE  /\ JobsIn(Append(s, j)) = JobsIn(s) \cup {j}
             /\ IsInjective(s) /\ j \notin JobsIn(s) => IsInjective(Append(s, j))
  <2>1. /\ DOMAIN Append(s, j) = DOMAIN s \cup {Len(s) + 1}
        /\ Append(s, j)[Len(s) + 1] = j /\ Len(s) + 1 \notin DOMAIN s
        /\ \A i \in DOMAIN s : Append(s, j)[i] = s[i]
    OBVIOUS
  <2> QED
    BY <2>1
<1>2. ASSUME s # <<>>
      PROVE  /\ Head(s) \in Jobs /\ Tail(s) \in Seq(Jobs)
             /\ JobsIn(s) = JobsIn(Tail(s)) \cup {Head(s)}
             /\ IsInjective(s) => IsInjective(Tail(s)) /\ Head(s) \notin JobsIn(Tail(s))
  <2>1. /\ Tail(s) \in Seq(Jobs) /\ Head(s) \in Jobs /\ Head(s) = s[1] /\ 1 \in DOMAIN s
        /\ \A i \in DOMAIN Tail(s) : /\ Tail(s)[i] = s[i + 1] /\ i + 1 \in DOMAIN s
                                     /\ i \in Nat /\ i # 0
        /\ \A i \in DOMAIN s : i # 1 => i - 1 \in DOMAIN Tail(s) /\ Tail(s)[i - 1] = s[i]
    BY <1>2
  <2>2. JobsIn(s) = JobsIn(Tail(s)) \cup {Head(s)}
    <3>1. ASSUME NEW i \in DOMAIN s
          PROVE  s[i] \in JobsIn(Tail(s)) \cup {Head(s)}
      <4>1. CASE i = 1
        BY <2>1, <4>1
      <4>2. CASE i # 1
        <5>1. i - 1 \in DOMAIN Tail(s) /\ Tail(s)[i - 1] = s[i]
          BY <2>1, <4>2
        <5> QED
          BY <5>1
      <4> QED
        BY <4>1, <4>2
    <3>2. JobsIn(Tail(s)) \subseteq JobsIn(s)
      BY <2>1
    <3>3. Head(s) \in JobsIn(s)
      BY <2>1
    <3> QED
      BY <3>1, <3>2, <3>3
  <2>3. ASSUME IsInjective(s)
        PROVE  IsInjective(Tail(s)) /\ Head(s) \notin JobsIn(Tail(s))
    <3>1. ASSUME NEW a \in DOMAIN Tail(s), NEW b \in DOMAIN Tail(s), Tail(s)[a] = Tail(s)[b]
          PROVE  a = b
      <4>1. s[a + 1] = s[b + 1]
        BY <2>1, <3>1
      <4>2. a + 1 = b + 1
        BY <2>1, <2>3, <4>1
      <4> QED
        BY <2>1, <4>2
    <3>2. ASSUME NEW a \in DOMAIN Tail(s), Tail(s)[a] = s[1]
          PROVE  FALSE
      <4>1. a + 1 = 1
        BY <2>1, <2>3, <3>2
      <4> QED
        BY <2>1, <4>1
    <3> QED
      BY <2>1, <3>1, <3>2
  <2> QED
    BY <2>1, <2>2, <2>3
<1> QED
  BY <1>1, <1>2

\* The position that Append adds.
LEMMA LastOfAppend ==
    \A s \in Seq(Jobs), x \in Jobs : \A i \in DOMAIN Append(s, x) \ DOMAIN s :
        i = Len(s) + 1 /\ Append(s, x)[i] = x
OBVIOUS

\* A priority queue that returns a finite set returns each member once.
LEMMA SortedOnce == ASSUME NEW S, IsFiniteSet(S), S \subseteq Jobs, NEW s \in Sorted(S)
    PROVE  /\ s \in Seq(Jobs) /\ JobsIn(s) = S /\ IsInjective(s)
           /\ \A i, k \in DOMAIN s : i < k => tick[s[i]] <= tick[s[k]]
<1> DEFINE n == Cardinality(S)
<1>1. /\ n \in Nat /\ s \in [1..n -> S] /\ JobsIn(s) = S
      /\ \A i, k \in DOMAIN s : i < k => tick[s[i]] <= tick[s[k]]
  BY FS_CardinalityType DEF Sorted, JobsIn
<1>2. s \in Surjection(1..n, S)
  BY <1>1 DEF Surjection, JobsIn
<1>3. IsFiniteSet(1..n) /\ Cardinality(1..n) = n
  BY <1>1, FS_Interval
<1>4. s \in Injection(1..n, S)
  BY <1>2, <1>3, FS_Surjection
<1>5. IsInjective(s)
  BY <1>1, <1>4 DEF Injection, IsInjective
<1>6. s \in Seq(Jobs)
  <2>1. s \in [1..n -> Jobs]
    BY <1>1
  <2> HIDE DEF n
  <2> QED
    BY <1>1, <2>1
<1> QED
  BY <1>1, <1>5, <1>6

-----------------------------------------------------------------------------
(* The steps of JobTimer.                                                  *)

\* A step that moves no job and no queue.
NoJobMoves == UNCHANGED <<items, tick, owner, reserving, batch, alive, pending, running,
                          finished, entered, expired, met>>

LEMMA TimerSteps == ASSUME [TimerNext]_allVars
    PROVE  \/ NoJobMoves
           \/ \E t \in Threads, j \in Jobs, q \in Queues, delay \in Delays :
                Reserve(t, j, q, delay)
           \/ \E t \in Threads : \/ ReservePush(t) \/ Drain(t)
                                 \/ DistributePush(t) \/ DistributeDrop(t)
           \/ \E q \in Queues : Destroy(q) \/ Serve(q)
<1>1. CASE UNCHANGED allVars
  BY <1>1 DEF allVars, timerVars, queueVars, NoJobMoves
<1>2. CASE Tick
  BY <1>2 DEF Tick, queueVars, NoJobMoves
<1>3. ASSUME NEW t \in Threads, Distribute(t)
      PROVE  \/ NoJobMoves
             \/ Drain(t) \/ DistributePush(t) \/ DistributeDrop(t)
  BY <1>3 DEF Distribute, ReadClock, DistributeBusy, DistributeEnter,
              DistributeLeave, queueVars, NoJobMoves
<1> QED
  BY <1>1, <1>2, <1>3 DEF TimerNext

LEMMA TimerTypePreserved == ASSUME TimerTypeOK, PlacesOK, [TimerNext]_allVars
    PROVE  TimerTypeOK'
<1> USE DEF TimerTypeOK, queueVars
<1>1. CASE UNCHANGED allVars
  BY <1>1 DEF allVars, timerVars
<1>2. CASE Tick
  BY <1>2 DEF Tick
<1>3. ASSUME NEW t \in Threads, NEW j \in Jobs, NEW q \in Queues, NEW delay \in Delays,
             Reserve(t, j, q, delay)
      PROVE  TimerTypeOK'
  <2>1. now + delay \in Nat
    BY DelaysAssumption
  <2> QED
    BY <1>3, <2>1 DEF Reserve
<1>4. ASSUME NEW t \in Threads, ReservePush(t)
      PROVE  TimerTypeOK'
  BY <1>4 DEF ReservePush
<1>5. ASSUME NEW t \in Threads, Distribute(t)
      PROVE  TimerTypeOK'
  <2>1. CASE ReadClock(t) \/ DistributeBusy(t) \/ DistributeEnter(t)
             \/ DistributeLeave(t)
    BY <2>1 DEF ReadClock, DistributeBusy, DistributeEnter, DistributeLeave
  <2>2. CASE Drain(t)
    <3> DEFINE due == {j \in items : clock[t] >= tick[j]}
    <3>1. PICK s \in Sorted(due) : batch' = [batch EXCEPT ![t] = s]
      BY <2>2 DEF Drain
    <3>2. IsFiniteSet(due) /\ due \subseteq Jobs
      BY FS_Subset DEF PlacesOK
    <3> HIDE DEF due
    <3>3. s \in Seq(Jobs)
      BY <3>2, SortedOnce
    <3>4. items' \subseteq Jobs
      BY <2>2 DEF Drain
    <3> QED
      BY <2>2, <3>1, <3>3, <3>4 DEF Drain
  <2>3. CASE DistributePush(t)
    <3>1. batch[t] # <<>> /\ batch[t] \in Seq(Jobs) /\ batch' = [batch EXCEPT ![t] = Tail(@)]
          /\ owner[Head(batch[t])] \in Queues
      BY <2>3 DEF DistributePush, PushNext
    <3>2. Head(batch[t]) \in Jobs /\ Tail(batch[t]) \in Seq(Jobs)
      BY <3>1
    <3>3. pending' \in [Queues -> Seq(Jobs)] /\ running' = running /\ finished' = finished
      BY <2>3, <3>1, <3>2 DEF DistributePush, Queue!Submit
    <3>4. batch' \in [Threads -> Seq(Jobs)] /\ entered' \in Seq(Jobs)
      BY <2>3, <3>1, <3>2 DEF DistributePush
    <3>5. UNCHANGED <<now, items, distributing, tick, owner, reserving, phase, clock, alive, expired,
                      met>>
      BY <2>3 DEF DistributePush
    <3> QED
      BY <3>3, <3>4, <3>5
  <2>4. CASE DistributeDrop(t)
    <3>1. batch[t] # <<>> /\ batch[t] \in Seq(Jobs) /\ batch' = [batch EXCEPT ![t] = Tail(@)]
      BY <2>4 DEF DistributeDrop, PushNext
    <3>2. Head(batch[t]) \in Jobs /\ Tail(batch[t]) \in Seq(Jobs)
      BY <3>1
    <3> QED
      BY <2>4, <3>1, <3>2 DEF DistributeDrop
  <2> QED
    BY <1>5, <2>1, <2>2, <2>3, <2>4 DEF Distribute
<1>6. ASSUME NEW q \in Queues, Destroy(q)
      PROVE  TimerTypeOK'
  BY <1>6 DEF Destroy
<1>7. ASSUME NEW q \in Queues, Serve(q)
      PROVE  TimerTypeOK'
  <2>1. UNCHANGED timerVars
    BY <1>7 DEF Serve
  <2>2. CASE Queue!Start(q)
    <3>1. Head(pending[q]) \in Jobs /\ Tail(pending[q]) \in Seq(Jobs)
      BY <2>2 DEF Queue!Start
    <3> QED
      BY <2>1, <2>2, <3>1 DEF timerVars, Queue!Start
  <2>3. CASE Queue!Finish(q)
    BY <2>1, <2>3 DEF timerVars, Queue!Finish
  <2> QED
    BY <1>7, <2>2, <2>3 DEF Serve, Queue!Serve
<1> QED
  BY <1>1, <1>2, <1>3, <1>4, <1>5, <1>6, <1>7 DEF TimerNext

LEMMA TurnPreserved == ASSUME TimerTypeOK, TurnOK, [TimerNext]_allVars
    PROVE  TurnOK'
<1> USE DEF TimerTypeOK, TurnOK, queueVars
<1>1. CASE UNCHANGED <<phase, distributing, batch>>
  BY <1>1
<1>2. ASSUME NEW t \in Threads, Distribute(t)
      PROVE  TurnOK'
  <2>1. CASE ReadClock(t) \/ DistributeBusy(t)
    BY <2>1 DEF ReadClock, DistributeBusy
  <2>2. CASE DistributeEnter(t)
    BY <2>2 DEF DistributeEnter
  <2>3. CASE Drain(t)
    BY <2>3 DEF Drain
  <2>4. CASE DistributePush(t) \/ DistributeDrop(t)
    BY <2>4 DEF DistributePush, DistributeDrop, PushNext
  <2>5. CASE DistributeLeave(t)
    BY <2>5 DEF DistributeLeave
  <2> QED
    BY <1>2, <2>1, <2>2, <2>3, <2>4, <2>5 DEF Distribute
<1> QED
  BY <1>1, <1>2 DEF TimerNext, allVars, timerVars, Tick, Reserve,
                    ReservePush, Destroy, Serve

-----------------------------------------------------------------------------
(* Every job is in one place.                                              *)

Placed(j) ==
    \/ j \in items \cup JobsIn(entered) \cup expired
    \/ \E t \in Threads : reserving[t] = j \/ j \in JobsIn(batch[t])

LEMMA PlacedOrFresh == \A j : ~Fresh(j) <=> Placed(j)
BY DEF Fresh, Placed, JobsIn

LEMMA PlacesPreserved == ASSUME TimerTypeOK, PlacesOK, TurnOK, [TimerNext]_allVars
    PROVE  PlacesOK'
<1> USE NoneIsNull
<1>1. PlacesOK' <=>
        /\ IsFiniteSet(items')
        /\ \A t \in Threads : IsInjective(batch'[t])
        /\ IsInjective(entered')
        /\ \A t, u \in Threads : reserving'[t] # None /\ reserving'[t] = reserving'[u] => t = u
        /\ \A t, u \in Threads : t # u => JobsIn(batch'[t]) \cap JobsIn(batch'[u]) = {}
        /\ \A t, u \in Threads : reserving'[t] \notin JobsIn(batch'[u])
        /\ \A t \in Threads : reserving'[t] \notin items' \cup JobsIn(entered') \cup expired'
        /\ \A t \in Threads : JobsIn(batch'[t]) \cap (items' \cup JobsIn(entered') \cup expired') = {}
        /\ items' \cap (JobsIn(entered') \cup expired') = {}
        /\ JobsIn(entered') \cap expired' = {}
        /\ \A j \in Jobs : owner'[j] # None <=> Placed(j)'
  <2>1. \A j : ~Fresh(j)' <=> Placed(j)'
    BY DEF Fresh, Placed, JobsIn
  <2> QED
    BY <2>1 DEF PlacesOK, JobsIn
<1>2. \A j \in Jobs : owner[j] # None <=> Placed(j)
  BY PlacedOrFresh DEF PlacesOK
<1>3. ASSUME UNCHANGED <<items, owner, reserving, batch, entered, expired>>
      PROVE  PlacesOK'
  <2>1. \A j : Placed(j)' <=> Placed(j)
    BY <1>3 DEF Placed, JobsIn
  <2> QED
    BY <1>1, <1>2, <1>3, <2>1 DEF PlacesOK
<1>4. ASSUME NEW t \in Threads, NEW j \in Jobs, NEW q \in Queues, NEW delay \in Delays,
             Reserve(t, j, q, delay)
      PROVE  PlacesOK'
  <2>1. /\ ~Placed(j) /\ reserving[t] = None
        /\ reserving' = [reserving EXCEPT ![t] = j] /\ owner' = [owner EXCEPT ![j] = q]
        /\ UNCHANGED <<items, batch, entered, expired>>
    BY <1>4, PlacedOrFresh DEF Reserve
  <2>2. \A i \in Jobs : Placed(i)' <=> Placed(i) \/ i = j
    BY <2>1 DEF Placed, JobsIn, TimerTypeOK
  <2>3. \A i \in Jobs : owner'[i] # None <=> Placed(i)'
    BY <1>2, <2>1, <2>2 DEF TimerTypeOK
  <2>4. \A u \in Threads : reserving'[u] = IF u = t THEN j ELSE reserving[u]
    BY <2>1 DEF TimerTypeOK
  <2>5. /\ j \notin items \cup JobsIn(entered) \cup expired /\ j # None
        /\ \A u \in Threads : reserving[u] # j /\ j \notin JobsIn(batch[u])
    BY <2>1 DEF Placed
  <2>6. \A u, v \in Threads : reserving'[u] # None /\ reserving'[u] = reserving'[v] => u = v
    BY <2>4, <2>5 DEF PlacesOK
  <2>7. \A u, v \in Threads : reserving'[u] \notin JobsIn(batch[v])
    BY <2>4, <2>5 DEF PlacesOK
  <2>8. \A u \in Threads : reserving'[u] \notin items \cup JobsIn(entered) \cup expired
    BY <2>4, <2>5 DEF PlacesOK
  <2>9. /\ IsFiniteSet(items) /\ IsInjective(entered) /\ \A u \in Threads : IsInjective(batch[u])
        /\ \A u, v \in Threads : u # v => JobsIn(batch[u]) \cap JobsIn(batch[v]) = {}
        /\ \A u \in Threads : JobsIn(batch[u]) \cap (items \cup JobsIn(entered) \cup expired) = {}
        /\ items \cap (JobsIn(entered) \cup expired) = {} /\ JobsIn(entered) \cap expired = {}
    BY Zenon DEF PlacesOK
  <2> QED
    BY <1>1, <2>1, <2>3, <2>6, <2>7, <2>8, <2>9, Zenon
<1>5. ASSUME NEW t \in Threads, ReservePush(t)
      PROVE  PlacesOK'
  <2> DEFINE j == reserving[t]
  <2>1. /\ j \in Jobs /\ reserving' = [reserving EXCEPT ![t] = None] /\ items' = items \cup {j}
        /\ UNCHANGED <<owner, batch, entered, expired>>
    BY <1>5 DEF ReservePush, queueVars, TimerTypeOK
  <2>2. \A u \in Threads : reserving'[u] = IF u = t THEN None ELSE reserving[u]
    BY <2>1 DEF TimerTypeOK
  <2>3. \A i \in Jobs : Placed(i)' <=> Placed(i)
    BY <2>1, <2>2 DEF Placed, JobsIn
  <2>4. IsFiniteSet(items')
    BY <2>1, FS_AddElement DEF PlacesOK
  <2>5. \A u \in Threads : reserving'[u] \notin items'
    BY <2>1, <2>2 DEF PlacesOK, TimerTypeOK
  <2>6. None \notin JobsIn(entered) \cup expired /\ \A u \in Threads : None \notin JobsIn(batch[u])
    BY DEF TimerTypeOK, JobsIn
  <2> QED
    BY <1>1, <1>2, <2>1, <2>2, <2>3, <2>4, <2>5, <2>6 DEF PlacesOK
<1>6. ASSUME NEW t \in Threads, Drain(t)
      PROVE  PlacesOK'
  <2> DEFINE due == {j \in items : clock[t] >= tick[j]}
  <2>1. PICK s \in Sorted(due) : batch' = [batch EXCEPT ![t] = s]
    BY <1>6 DEF Drain
  <2>2. /\ items' = items \ due /\ batch[t] = <<>>
        /\ UNCHANGED <<owner, reserving, entered, expired>>
    BY <1>6 DEF Drain, TurnOK, queueVars
  <2>3. IsFiniteSet(due) /\ due \subseteq Jobs /\ due \subseteq items /\ IsFiniteSet(items')
    BY <2>2, FS_Subset DEF PlacesOK, TimerTypeOK
  <2> HIDE DEF due
  <2>4. JobsIn(s) = due /\ IsInjective(s)
    BY <2>1, <2>3, SortedOnce
  <2>5. \A u \in Threads : batch'[u] = IF u = t THEN s ELSE batch[u]
    BY <2>1 DEF TimerTypeOK
  <2>6. JobsIn(batch[t]) = {}
    BY <2>2 DEF JobsIn
  <2>7. \A u \in Threads : JobsIn(batch'[u]) = IF u = t THEN due ELSE JobsIn(batch[u])
    BY <2>4, <2>5
  <2>8. \A i \in Jobs : Placed(i)' <=> Placed(i)
    <3>1. (JobsIn(entered))' = JobsIn(entered) /\ \A u \in Threads : (JobsIn(batch[u]))' = JobsIn(batch'[u])
      BY <2>2 DEF JobsIn
    <3> QED
      BY <2>2, <2>3, <2>6, <2>7, <3>1 DEF Placed
  <2> QED
    BY <1>1, <1>2, <2>2, <2>3, <2>4, <2>5, <2>7, <2>8 DEF PlacesOK
<1>7. ASSUME NEW t \in Threads, PushNext(t), UNCHANGED <<items, owner, reserving>>,
             \/ entered' = Append(entered, Head(batch[t])) /\ UNCHANGED expired
             \/ expired' = expired \cup {Head(batch[t])} /\ UNCHANGED entered
      PROVE  PlacesOK'
  <2> DEFINE j == Head(batch[t])
  <2>1. batch[t] # <<>> /\ batch[t] \in Seq(Jobs) /\ batch' = [batch EXCEPT ![t] = Tail(@)]
    BY <1>7 DEF PushNext, TimerTypeOK
  <2>2. /\ j \in Jobs /\ JobsIn(batch[t]) = JobsIn(Tail(batch[t])) \cup {j}
        /\ IsInjective(Tail(batch[t])) /\ j \notin JobsIn(Tail(batch[t]))
    BY <2>1, JobsAtEnds DEF PlacesOK
  <2>3. \A u \in Threads : batch'[u] = IF u = t THEN Tail(batch[t]) ELSE batch[u]
    BY <2>1 DEF TimerTypeOK
  <2>4. \A u \in Threads : JobsIn(batch'[u]) =
          IF u = t THEN JobsIn(batch[t]) \ {j} ELSE JobsIn(batch[u])
    BY <2>2, <2>3
  <2>5. /\ JobsIn(Append(entered, j)) = JobsIn(entered) \cup {j}
        /\ IsInjective(Append(entered, j))
    <3>1. entered \in Seq(Jobs) /\ IsInjective(entered) /\ j \notin JobsIn(entered)
      BY <2>2 DEF PlacesOK, TimerTypeOK
    <3> QED
      BY <2>2, <3>1, JobsAtEnds
  <2>6. /\ JobsIn(entered') \cup expired' = JobsIn(entered) \cup expired \cup {j}
        /\ IsInjective(entered') /\ JobsIn(entered') \cap expired' = {}
    <3> HIDE DEF j
    <3>1. j \notin JobsIn(entered) \cup expired
      BY <2>2 DEF PlacesOK
    <3> QED
      BY <1>7, <2>5, <3>1 DEF PlacesOK, j
  <2>7. \A i \in Jobs : Placed(i)' <=> Placed(i)
    <3>1. (JobsIn(entered))' = JobsIn(entered') /\ \A u \in Threads : (JobsIn(batch[u]))' = JobsIn(batch'[u])
      BY DEF JobsIn
    <3> HIDE DEF j
    <3> QED
      BY <1>7, <2>2, <2>4, <2>6, <3>1 DEF Placed
  <2>8. \A u \in Threads : IsInjective(batch'[u])
    BY <2>2, <2>3 DEF PlacesOK
  <2> HIDE DEF j
  <2>9. j \in JobsIn(batch[t])
    BY <2>2
  <2>10. \A u \in Threads : JobsIn(batch'[u]) \subseteq JobsIn(batch[u]) \ {j}
    BY <2>4, <2>9 DEF PlacesOK
  <2>11. IsFiniteSet(items') /\ IsInjective(entered')
    BY <1>7, <2>6 DEF PlacesOK
  <2>12. \A u, v \in Threads : /\ reserving'[u] # None /\ reserving'[u] = reserving'[v] => u = v
                               /\ u # v => JobsIn(batch'[u]) \cap JobsIn(batch'[v]) = {}
                               /\ reserving'[u] \notin JobsIn(batch'[v])
    BY <1>7, <2>10 DEF PlacesOK
  <2>13. \A u \in Threads :
           /\ reserving'[u] \notin items' \cup JobsIn(entered') \cup expired'
           /\ JobsIn(batch'[u]) \cap (items' \cup JobsIn(entered') \cup expired') = {}
    <3>1. \A u \in Threads : JobsIn(batch'[u]) \subseteq JobsIn(batch[u]) /\ j \notin JobsIn(batch'[u])
      BY <2>10
    <3>2. items' = items /\ JobsIn(entered') \cup expired' = JobsIn(entered) \cup expired \cup {j}
      BY <1>7, <2>6
    <3>3. \A u \in Threads : JobsIn(batch'[u]) \cap (items' \cup JobsIn(entered') \cup expired') = {}
      BY <3>1, <3>2 DEF PlacesOK
    <3>4. \A u \in Threads : reserving'[u] \notin items' \cup JobsIn(entered') \cup expired'
      BY <1>7, <2>9, <3>2 DEF PlacesOK
    <3> QED
      BY <3>3, <3>4
  <2>14. items' \cap (JobsIn(entered') \cup expired') = {}
    BY <1>7, <2>6, <2>9 DEF PlacesOK
  <2>15. \A i \in Jobs : owner'[i] # None <=> Placed(i)'
    BY <1>2, <1>7, <2>7
  <2> QED
    BY <1>1, <2>6, <2>8, <2>11, <2>12, <2>13, <2>14, <2>15
<1>8. ASSUME NEW q \in Queues, Destroy(q) \/ Serve(q)
      PROVE  PlacesOK'
  BY <1>3, <1>8 DEF Destroy, Serve, timerVars
<1>9. ASSUME NEW t \in Threads, DistributePush(t) \/ DistributeDrop(t)
      PROVE  PlacesOK'
  BY <1>7, <1>9 DEF DistributePush, DistributeDrop, queueVars
<1>10. NoJobMoves => PlacesOK'
  BY <1>3 DEF NoJobMoves
<1> QED
  BY <1>4, <1>5, <1>6, <1>8, <1>9, <1>10, TimerSteps

-----------------------------------------------------------------------------
(* The lines of the queues.                                                *)

\* A queue that goes on with its work changes no line, and nothing overtakes.
LEMMA ServeLines == ASSUME TimerTypeOK, LinesOK, NEW q \in Queues, Serve(q)
    PROVE  /\ \A r \in Queues : \A j, k \in running'[r] : j = k
           /\ \A r \in Queues, j \in Jobs : InLine(r, j)' <=> InLine(r, j)
           /\ \A r \in Queues, j, k \in Jobs : Ahead(r, j, k) => Ahead(r, j, k)'
<1> USE DEF TimerTypeOK
<1>1. SUFFICES ASSUME NEW r \in Queues
               PROVE  /\ \A j, k \in running'[r] : j = k
                      /\ \A j \in Jobs : InLine(r, j)' <=> InLine(r, j)
                      /\ \A j, k \in Jobs : Ahead(r, j, k) => Ahead(r, j, k)'
  OBVIOUS
<1>2. CASE pending'[r] = pending[r] /\ running'[r] = running[r] /\ finished'[r] = finished[r]
  <2>1. \A j, k \in running'[r] : j = k
    BY <1>2 DEF LinesOK
  <2>2. \A j \in Jobs : InLine(r, j)' <=> InLine(r, j)
    BY <1>2 DEF InLine, JobsIn
  <2>3. \A j, k \in Jobs : Ahead(r, j, k) => Ahead(r, j, k)'
    BY <1>2 DEF Ahead, JobsIn
  <2> QED
    BY <2>1, <2>2, <2>3
<1>3. CASE Queue!Start(q) /\ r = q
  <2> DEFINE x == Head(pending[r])
  <2>1. /\ pending[r] # <<>> /\ pending[r] \in Seq(Jobs) /\ running[r] = {}
        /\ running'[r] = {x} /\ pending'[r] = Tail(pending[r])
        /\ finished'[r] = finished[r]
    BY <1>3 DEF Queue!Start
  <2>2. x \in Jobs /\ JobsIn(pending[r]) = JobsIn(Tail(pending[r])) \cup {x}
    BY <2>1, JobsAtEnds
  <2>3. ASSUME NEW i \in DOMAIN Tail(pending[r])
        PROVE  /\ Tail(pending[r])[i] = pending[r][i + 1] /\ i + 1 \in DOMAIN pending[r]
               /\ i \in Nat /\ i # 0
               /\ \A h \in 1..i : h = 1 \/ (h - 1 \in 1..(i - 1) /\ Tail(pending[r])[h - 1] = pending[r][h])
    <3>1. PICK s \in Seq(Jobs), n \in Nat : s = pending[r] /\ n = Len(s) /\ n # 0 /\ DOMAIN s = 1..n
      BY <2>1, EmptySeq, LenProperties
    <3>2. /\ DOMAIN Tail(s) = 1..(n - 1) /\ \A h \in 1..(n - 1) : Tail(s)[h] = s[h + 1]
      BY <2>1, <3>1, HeadTailProperties, LenProperties
    <3>3. i \in 1..(n - 1)
      BY <2>3, <3>1, <3>2
    <3>4. i \in Nat /\ i # 0 /\ i + 1 \in 1..n
      BY <3>1, <3>3
    <3>5. ASSUME NEW h \in 1..i, h # 1
          PROVE  h - 1 \in 1..(i - 1) /\ Tail(s)[h - 1] = s[h]
      <4>1. h - 1 \in 1..(i - 1) /\ h - 1 \in 1..(n - 1) /\ (h - 1) + 1 = h
        BY <3>1, <3>3, <3>5
      <4> QED
        BY <3>2, <4>1
    <3> QED
      BY <3>1, <3>2, <3>3, <3>4, <3>5
  <2>4. x = pending[r][1] /\ 1 \in DOMAIN pending[r]
    BY <2>1
  <2>5. \A j \in Jobs : InLine(r, j)' <=> InLine(r, j)
    BY <2>1, <2>2 DEF InLine, JobsIn
  <2>6. ASSUME NEW j \in Jobs, NEW k \in Jobs, Ahead(r, j, k)
        PROVE  Ahead(r, j, k)'
    <3> HIDE DEF x
    <3>1. (JobsIn(finished[r]))' = JobsIn(finished[r])
      BY <2>1 DEF JobsIn
    <3>2. k = x => j \in JobsIn(finished[r])
      BY <2>1, <2>4, <2>6 DEF Ahead
    <3>3. ASSUME NEW i \in DOMAIN Tail(pending[r]), Tail(pending[r])[i] = k
          PROVE  \/ j \in JobsIn(finished[r]) \cup {x}
                 \/ \E h \in 1..(i - 1) : Tail(pending[r])[h] = j
      <4>1. pending[r][i + 1] = k /\ i + 1 \in DOMAIN pending[r]
        BY <2>3, <3>3
      <4>2. CASE j \in JobsIn(finished[r])
        BY <4>2
      <4>3. ASSUME NEW h \in 1..((i + 1) - 1), pending[r][h] = j
            PROVE  j = x \/ \E g \in 1..(i - 1) : Tail(pending[r])[g] = j
        <5>1. h \in 1..i
          BY <2>3
        <5> QED
          BY <2>3, <2>4, <4>3, <5>1
      <4> QED
        BY <2>1, <2>6, <4>1, <4>2, <4>3 DEF Ahead
    <3> QED
      BY <2>1, <2>6, <3>1, <3>2, <3>3 DEF Ahead
  <2> QED
    BY <2>1, <2>5, <2>6
<1>4. CASE Queue!Finish(q) /\ r = q
  <2>1. PICK x \in running[r] : /\ running'[r] = {} /\ finished'[r] = Append(finished[r], x)
                                /\ pending'[r] = pending[r]
    BY <1>4 DEF Queue!Finish
  <2>2. running[r] = {x} /\ x \in Jobs /\ finished[r] \in Seq(Jobs)
    BY <2>1 DEF LinesOK
  <2>3. JobsIn(Append(finished[r], x)) = JobsIn(finished[r]) \cup {x}
    BY <2>2, JobsAtEnds
  <2>4. (JobsIn(finished[r]))' = JobsIn(finished[r]) \cup {x}
    BY <2>1, <2>3 DEF JobsIn
  <2>5. \A j \in Jobs : InLine(r, j)' <=> InLine(r, j)
    BY <2>1, <2>2, <2>4 DEF InLine, JobsIn
  <2>6. ASSUME NEW j \in Jobs, NEW k \in Jobs, Ahead(r, j, k)
        PROVE  Ahead(r, j, k)'
    <3>1. ASSUME NEW i \in DOMAIN Append(finished[r], x), Append(finished[r], x)[i] = k
          PROVE  \E h \in 1..(i - 1) : Append(finished[r], x)[h] = j
      <4>1. CASE i \in DOMAIN finished[r]
        <5>1. finished[r][i] = k
          BY <2>2, <3>1, <4>1
        <5>2. PICK h \in 1..(i - 1) : finished[r][h] = j
          BY <2>6, <4>1, <5>1 DEF Ahead
        <5>3. h \in 1..Len(finished[r])
          BY <2>2, <4>1, <5>2, LenProperties
        <5> QED
          BY <2>2, <5>2, <5>3, AppendProperties
      <4>2. CASE i \notin DOMAIN finished[r]
        <5>1. i = Len(finished[r]) + 1 /\ k = x
          BY <2>2, <3>1, <4>2, LastOfAppend
        <5>2. j \in JobsIn(finished[r])
          BY <2>2, <2>6, <5>1 DEF Ahead
        <5>3. PICK h \in DOMAIN finished[r] : finished[r][h] = j
          BY <5>2 DEF JobsIn
        <5>4. h \in 1..(i - 1) /\ Append(finished[r], x)[h] = j
          BY <2>2, <5>1, <5>3
        <5> QED
          BY <5>4
      <4> QED
        BY <4>1, <4>2
    <3>2. \A i \in DOMAIN pending[r] : pending[r][i] = k =>
            \/ j \in JobsIn(finished[r]) \cup {x}
            \/ \E h \in 1..(i - 1) : pending[r][h] = j
      BY <2>2, <2>6 DEF Ahead
    <3> QED
      BY <2>1, <2>4, <3>1, <3>2 DEF Ahead
  <2> QED
    BY <2>1, <2>5, <2>6
<1> QED
  BY <1>2, <1>3, <1>4 DEF Serve, Queue!Serve, Queue!Start, Queue!Finish

\* A job that is submitted joins the end of one line.
LEMMA SubmitLines == ASSUME TimerTypeOK, NEW q \in Queues, NEW x \in Jobs, Queue!Submit(q, x)
    PROVE  /\ running' = running
           /\ \A r \in Queues, j \in Jobs : InLine(r, j)' <=> InLine(r, j) \/ (r = q /\ j = x)
           /\ \A r \in Queues, j, k \in Jobs :
                Ahead(r, j, k) /\ (r = q /\ k = x => InLine(r, j)) => Ahead(r, j, k)'
<1> USE DEF TimerTypeOK
<1>1. /\ running' = running /\ finished' = finished
      /\ \A r \in Queues : pending'[r] = IF r = q THEN Append(pending[r], x) ELSE pending[r]
  BY DEF Queue!Submit
<1>2. SUFFICES ASSUME NEW r \in Queues
               PROVE  /\ \A j \in Jobs : InLine(r, j)' <=> InLine(r, j) \/ (r = q /\ j = x)
                      /\ \A j, k \in Jobs :
                           Ahead(r, j, k) /\ (r = q /\ k = x => InLine(r, j)) => Ahead(r, j, k)'
  BY <1>1
<1>3. CASE r # q
  <2>1. pending'[r] = pending[r] /\ running'[r] = running[r] /\ finished'[r] = finished[r]
    BY <1>1, <1>3
  <2>2. \A j \in Jobs : InLine(r, j)' <=> InLine(r, j)
    BY <2>1 DEF InLine, JobsIn
  <2>3. \A j, k \in Jobs : Ahead(r, j, k) => Ahead(r, j, k)'
    BY <2>1 DEF Ahead, JobsIn
  <2> QED
    BY <1>3, <2>2, <2>3
<1>4. CASE r = q
  <2>1. pending[r] \in Seq(Jobs) /\ pending'[r] = Append(pending[r], x)
    BY <1>1, <1>4
  <2>2. JobsIn(Append(pending[r], x)) = JobsIn(pending[r]) \cup {x}
    BY <2>1, JobsAtEnds
  <2>3. /\ (JobsIn(pending[r]))' = JobsIn(pending[r]) \cup {x}
        /\ (JobsIn(finished[r]))' = JobsIn(finished[r])
    <3>1. (JobsIn(pending[r]))' = JobsIn(pending'[r]) /\ (JobsIn(finished[r]))' = JobsIn(finished'[r])
      BY DEF JobsIn
    <3> QED
      BY <1>1, <2>1, <2>2, <3>1
  <2>4. \A j \in Jobs : InLine(r, j)' <=> InLine(r, j) \/ j = x
    BY <1>1, <2>3 DEF InLine
  <2>5. ASSUME NEW j \in Jobs, NEW k \in Jobs, Ahead(r, j, k), k = x => InLine(r, j)
        PROVE  Ahead(r, j, k)'
    <3>1. ASSUME NEW i \in DOMAIN Append(pending[r], x), Append(pending[r], x)[i] = k
          PROVE  \/ j \in JobsIn(finished[r]) \cup running[r]
                 \/ \E h \in 1..(i - 1) : Append(pending[r], x)[h] = j
      <4>1. CASE i \in DOMAIN pending[r]
        <5>1. pending[r][i] = k
          BY <2>1, <3>1, <4>1
        <5>2. ASSUME NEW h \in 1..(i - 1), pending[r][h] = j
              PROVE  Append(pending[r], x)[h] = j
          BY <2>1, <4>1, <5>2
        <5> QED
          BY <2>5, <4>1, <5>1, <5>2 DEF Ahead
      <4>2. CASE i \notin DOMAIN pending[r]
        <5>1. i = Len(pending[r]) + 1 /\ k = x
          BY <2>1, <3>1, <4>2, LastOfAppend
        <5>2. ASSUME NEW h \in DOMAIN pending[r], pending[r][h] = j
              PROVE  h \in 1..(i - 1) /\ Append(pending[r], x)[h] = j
          BY <2>1, <5>1, <5>2
        <5> QED
          BY <2>5, <5>1, <5>2 DEF InLine, JobsIn
      <4> QED
        BY <4>1, <4>2
    <3> QED
      BY <1>1, <2>1, <2>3, <2>5, <3>1 DEF Ahead
  <2> QED
    BY <1>4, <2>4, <2>5
<1> QED
  BY <1>3, <1>4

LEMMA LinesPreserved == ASSUME TimerTypeOK, PlacesOK, LinesOK, [TimerNext]_allVars
    PROVE  LinesOK'
<1> USE NoneIsNull
<1>1. LinesOK' <=>
        /\ \A q \in Queues : \A j, k \in running'[q] : j = k
        /\ \A q \in Queues, j \in Jobs :
             InLine(q, j)' <=> j \in JobsIn(entered') /\ owner'[j] = q
        /\ \A j \in expired' : owner'[j] \notin alive'
  <2>1. (JobsIn(entered))' = JobsIn(entered')
    BY DEF JobsIn
  <2> QED
    BY <2>1 DEF LinesOK
<1>2. JobsIn(entered) \subseteq Jobs /\ expired \subseteq Jobs
  BY DEF TimerTypeOK, JobsIn
<1>3. ASSUME UNCHANGED <<pending, running, finished, entered, expired>>, alive' \subseteq alive,
             \A j \in JobsIn(entered) \cup expired : owner'[j] = owner[j]
      PROVE  LinesOK'
  <2>1. \A q, j : InLine(q, j)' <=> InLine(q, j)
    BY <1>3 DEF InLine, JobsIn
  <2> QED
    BY <1>1, <1>3, <2>1 DEF LinesOK
<1>4. ASSUME NEW t \in Threads, NEW j \in Jobs, NEW q \in Queues, NEW delay \in Delays,
             Reserve(t, j, q, delay)
      PROVE  LinesOK'
  <2>1. j \notin JobsIn(entered) \cup expired /\ owner' = [owner EXCEPT ![j] = q]
    BY <1>4 DEF Reserve, Fresh, JobsIn
  <2>2. \A i \in JobsIn(entered) \cup expired : owner'[i] = owner[i]
    BY <1>2, <2>1 DEF TimerTypeOK
  <2> QED
    BY <1>3, <1>4, <2>2 DEF Reserve, queueVars
<1>5. ASSUME NEW t \in Threads, DistributePush(t)
      PROVE  LinesOK'
  <2> DEFINE x == Head(batch[t])
  <2>1. /\ x \in Jobs /\ owner[x] \in Queues /\ Queue!Submit(owner[x], x)
        /\ entered' = Append(entered, x) /\ UNCHANGED <<owner, alive, expired>>
    BY <1>5 DEF DistributePush, PushNext, TimerTypeOK
  <2> HIDE DEF x
  <2>2. JobsIn(entered') = JobsIn(entered) \cup {x}
    BY <2>1, JobsAtEnds DEF TimerTypeOK
  <2>3. /\ running' = running
        /\ \A r \in Queues, i \in Jobs : InLine(r, i)' <=> InLine(r, i) \/ (r = owner[x] /\ i = x)
    BY <2>1, SubmitLines
  <2> QED
    BY <1>1, <1>2, <2>1, <2>2, <2>3 DEF LinesOK
<1>6. ASSUME NEW t \in Threads, DistributeDrop(t)
      PROVE  LinesOK'
  <2>1. /\ owner[Head(batch[t])] \notin alive /\ expired' = expired \cup {Head(batch[t])}
        /\ UNCHANGED <<owner, alive, entered, pending, running, finished>>
    BY <1>6 DEF DistributeDrop, queueVars
  <2>2. \A q, j : InLine(q, j)' <=> InLine(q, j)
    BY <2>1 DEF InLine, JobsIn
  <2> QED
    BY <1>1, <2>1, <2>2 DEF LinesOK
<1>7. ASSUME NEW q \in Queues, Serve(q)
      PROVE  LinesOK'
  <2>1. UNCHANGED <<owner, alive, entered, expired>>
    BY <1>7 DEF Serve, timerVars
  <2> QED
    BY <1>1, <1>2, <1>7, <2>1, ServeLines DEF LinesOK
<1>8. ASSUME NEW q \in Queues, Destroy(q)
      PROVE  LinesOK'
  BY <1>3, <1>8 DEF Destroy, queueVars
<1>9. ASSUME NEW t \in Threads, ReservePush(t) \/ Drain(t)
      PROVE  LinesOK'
  BY <1>3, <1>9 DEF ReservePush, Drain, queueVars
<1>10. NoJobMoves => LinesOK'
  BY <1>3 DEF NoJobMoves
<1> QED
  BY <1>4, <1>5, <1>6, <1>7, <1>8, <1>9, <1>10, TimerSteps

-----------------------------------------------------------------------------
(* The order of the timers of one queue.                                   *)

-----------------------------------------------------------------------------
(* The order of the timers of one queue.                                   *)

LEMMA MetPreserved == ASSUME TimerTypeOK, PlacesOK, MetOK, [TimerNext]_allVars
    PROVE  /\ MetOK'
           /\ \A j, k \in Jobs : <<j, k>> \in met =>
                /\ tick'[j] = tick[j] /\ tick'[k] = tick[k]
                /\ owner'[j] = owner[j] /\ owner'[k] = owner[k]
<1> USE NoneIsNull DEF TimerTypeOK
<1>1. CASE UNCHANGED <<met, owner, reserving, tick>>
  BY <1>1 DEF MetOK
<1>2. ASSUME NEW t \in Threads, NEW x \in Jobs, NEW q \in Queues, NEW delay \in Delays,
             Reserve(t, x, q, delay)
      PROVE  /\ MetOK'
             /\ \A j, k \in Jobs : <<j, k>> \in met =>
                  /\ tick'[j] = tick[j] /\ tick'[k] = tick[k]
                  /\ owner'[j] = owner[j] /\ owner'[k] = owner[k]
  <2>1. /\ owner[x] = None /\ met' = met /\ tick' = [tick EXCEPT ![x] = now + delay]
        /\ owner' = [owner EXCEPT ![x] = q] /\ reserving' = [reserving EXCEPT ![t] = x]
    BY <1>2 DEF Reserve, PlacesOK
  <2> QED
    BY <2>1 DEF MetOK
<1>3. ASSUME NEW t \in Threads, ReservePush(t)
      PROVE  /\ MetOK'
             /\ \A j, k \in Jobs : <<j, k>> \in met =>
                  /\ tick'[j] = tick[j] /\ tick'[k] = tick[k]
                  /\ owner'[j] = owner[j] /\ owner'[k] = owner[k]
  <2> DEFINE x == reserving[t]
  <2>1. /\ x \in Jobs /\ met' = met \cup ({x} \X items) \cup (items \X {x})
        /\ reserving' = [reserving EXCEPT ![t] = None] /\ tick' = tick /\ owner' = owner
    BY <1>3 DEF ReservePush
  <2>2. \A i \in items \cup {x} : owner[i] # None /\ \A u \in Threads : reserving'[u] # i
    <3>1. \A i \in items \cup {x} : Placed(i)
      BY DEF Placed
    <3>2. \A i \in items \cup {x} : owner[i] # None
      BY <2>1, <3>1, PlacedOrFresh DEF PlacesOK
    <3> QED
      BY <2>1, <3>2 DEF PlacesOK
  <2>3. ASSUME NEW j \in Jobs, NEW k \in Jobs, <<j, k>> \in met'
        PROVE  /\ owner'[j] # None /\ owner'[k] # None
               /\ \A u \in Threads : reserving'[u] # j /\ reserving'[u] # k
    <3>1. CASE <<j, k>> \in met
      BY <2>1, <3>1 DEF MetOK
    <3>2. CASE <<j, k>> \notin met
      <4>1. j \in items \cup {x} /\ k \in items \cup {x}
        BY <2>1, <2>3, <3>2
      <4> QED
        BY <2>1, <2>2, <4>1
    <3> QED
      BY <3>1, <3>2
  <2> QED
    BY <2>1, <2>3 DEF MetOK
<1>4. ASSUME NEW t \in Threads, Drain(t) \/ DistributePush(t) \/ DistributeDrop(t)
      PROVE  UNCHANGED <<met, owner, reserving, tick>>
  BY <1>4 DEF Drain, DistributePush, DistributeDrop
<1>5. ASSUME NEW q \in Queues, Destroy(q) \/ Serve(q)
      PROVE  UNCHANGED <<met, owner, reserving, tick>>
  BY <1>5 DEF Destroy, Serve, timerVars
<1>6. NoJobMoves => UNCHANGED <<met, owner, reserving, tick>>
  BY DEF NoJobMoves
<1> QED
  BY <1>1, <1>2, <1>3, <1>4, <1>5, <1>6, TimerSteps

\* A pair that is new in met, or that was there before.
LEMMA TimedBefore == ASSUME TimerTypeOK, PlacesOK, MetOK, [TimerNext]_allVars,
                            NEW j \in Jobs, NEW k \in Jobs, Timed(j, k)'
    PROVE  \/ Timed(j, k) /\ owner'[j] = owner[j] /\ owner'[k] = owner[k]
           \/ \E t \in Threads : ReservePush(t) /\ k \in items \cup {reserving[t]}
<1>1. CASE <<j, k>> \in met
  BY <1>1, MetPreserved DEF Timed
<1>2. CASE <<j, k>> \notin met
  <2>1. met' # met
    BY <1>2 DEF Timed
  <2>2. PICK t \in Threads : ReservePush(t)
    BY <2>1, TimerSteps DEF NoJobMoves, Reserve, Drain, DistributePush,
       DistributeDrop, Destroy, Serve, timerVars
  <2>3. <<j, k>> \in met \cup ({reserving[t]} \X items) \cup (items \X {reserving[t]})
    BY <2>2 DEF Timed, ReservePush
  <2> QED
    BY <1>2, <2>2, <2>3
<1> QED
  BY <1>1, <1>2

LEMMA BatchesPreserved == ASSUME TimerTypeOK, TurnOK, PlacesOK, MetOK, BatchesOK,
                                 [TimerNext]_allVars
    PROVE  BatchesOK'
<1> USE NoneIsNull DEF TimerTypeOK
<1>1. SUFFICES ASSUME NEW j \in Jobs, NEW k \in Jobs, NEW t \in Threads, Timed(j, k)',
                      NEW p \in DOMAIN batch'[t], batch'[t][p] = k
               PROVE  \/ \E h \in 1..(p - 1) : batch'[t][h] = j
                      \/ j \in JobsIn(entered') \cup expired'
  <2>1. (JobsIn(entered))' = JobsIn(entered')
    BY DEF JobsIn
  <2> QED
    BY <1>1, <2>1 DEF BatchesOK
<1>2. \/ Timed(j, k)
      \/ \E u \in Threads : ReservePush(u) /\ k \in items \cup {reserving[u]}
  BY <1>1, TimedBefore
<1>3. ASSUME NEW u \in Threads, ReservePush(u)
      PROVE  \/ \E h \in 1..(p - 1) : batch'[t][h] = j
             \/ j \in JobsIn(entered') \cup expired'
  <2>1. batch' = batch /\ entered' = entered /\ expired' = expired
    BY <1>3 DEF ReservePush, queueVars
  <2>2. k \in JobsIn(batch[t])
    BY <1>1, <2>1 DEF JobsIn
  <2>3. \A v \in Threads : k \notin items \cup {reserving[v]}
    BY <2>2 DEF PlacesOK
  <2>4. Timed(j, k)
    BY <1>2, <2>3
  <2> QED
    BY <1>1, <2>1, <2>4 DEF BatchesOK
<1>4. ASSUME \A u \in Threads : ~ReservePush(u), batch'[t] = batch[t],
             JobsIn(entered) \cup expired \subseteq JobsIn(entered') \cup expired'
      PROVE  \/ \E h \in 1..(p - 1) : batch'[t][h] = j
             \/ j \in JobsIn(entered') \cup expired'
  BY <1>1, <1>2, <1>4 DEF BatchesOK
<1>5. ASSUME NEW u \in Threads, Drain(u), \A v \in Threads : ~ReservePush(v)
      PROVE  \/ \E h \in 1..(p - 1) : batch'[t][h] = j
             \/ j \in JobsIn(entered') \cup expired'
  <2> DEFINE due == {i \in items : clock[u] >= tick[i]}
  <2>1. PICK s \in Sorted(due) : batch' = [batch EXCEPT ![u] = s]
    BY <1>5 DEF Drain
  <2>2. IsFiniteSet(due) /\ due \subseteq Jobs
    BY FS_Subset DEF PlacesOK
  <2>3. Timed(j, k)
    BY <1>2, <1>5
  <2>4. \A v \in Threads : batch[v] = <<>>
    BY <1>5 DEF TurnOK, Drain
  <2>5. UNCHANGED <<entered, expired>>
    BY <1>5 DEF Drain
  <2>6. t = u /\ batch'[t] = s
    <3>1. t # u => batch'[t] = <<>>
      BY <2>1, <2>4
    <3> QED
      BY <1>1, <2>1, <3>1
  <2>7. /\ s \in Seq(Jobs) /\ JobsIn(s) = due
        /\ \A i, h \in DOMAIN s : i < h => tick[s[i]] <= tick[s[h]]
    <3> HIDE DEF due
    <3> QED
      BY <2>1, <2>2, SortedOnce
  <2>8. p \in DOMAIN s /\ s[p] = k /\ k \in due
    BY <1>1, <2>6, <2>7 DEF JobsIn
  <2>9. CASE j \in items
    <3>1. j \in due
      BY <2>3, <2>8, <2>9 DEF Timed
    <3>2. PICK h \in DOMAIN s : s[h] = j
      BY <2>7, <3>1 DEF JobsIn
    <3>3. tick[s[h]] < tick[s[p]]
      BY <2>3, <2>8, <3>2 DEF Timed
    <3>4. h \in Nat /\ p \in Nat /\ h # 0 /\ p # 0
      BY <2>7, <2>8, <3>2
    <3>5. ~(p < h) /\ p # h
      BY <2>7, <2>8, <3>2, <3>3
    <3>6. h \in 1..(p - 1)
      BY <3>4, <3>5
    <3> QED
      BY <2>6, <3>2, <3>6
  <2>10. CASE j \notin items
    <3>1. Placed(j) /\ \A v \in Threads : reserving[v] # j
      BY <2>3, PlacedOrFresh DEF Timed, MetOK, PlacesOK
    <3>2. \A v \in Threads : j \notin JobsIn(batch[v])
      BY <2>4 DEF JobsIn
    <3> QED
      BY <2>5, <2>10, <3>1, <3>2 DEF Placed
  <2> QED
    BY <2>9, <2>10
<1>6. ASSUME PushNext(t), \A v \in Threads : ~ReservePush(v),
             JobsIn(entered') \cup expired' = JobsIn(entered) \cup expired \cup {Head(batch[t])}
      PROVE  \/ \E h \in 1..(p - 1) : batch'[t][h] = j
             \/ j \in JobsIn(entered') \cup expired'
  <2>1. /\ batch[t] # <<>> /\ batch[t] \in Seq(Jobs) /\ batch'[t] = Tail(batch[t])
    BY <1>6 DEF PushNext
  <2>2. p + 1 \in DOMAIN batch[t] /\ batch[t][p + 1] = k /\ p \in Nat
    BY <1>1, <2>1
  <2>3. CASE j \in JobsIn(entered) \cup expired
    BY <1>6, <2>3
  <2>4. ASSUME NEW h \in 1..((p + 1) - 1), batch[t][h] = j
        PROVE  \/ \E g \in 1..(p - 1) : batch'[t][g] = j
               \/ j \in JobsIn(entered') \cup expired'
    <3>1. CASE h = 1
      BY <1>6, <2>1, <2>4, <3>1
    <3>2. CASE h # 1
      <4>1. h - 1 \in 1..(p - 1) /\ Tail(batch[t])[h - 1] = batch[t][h]
        BY <1>1, <2>1, <2>2, <3>2
      <4> QED
        BY <2>1, <2>4, <4>1
    <3> QED
      BY <3>1, <3>2
  <2>5. Timed(j, k)
    BY <1>2, <1>6
  <2> QED
    BY <2>2, <2>3, <2>4, <2>5 DEF BatchesOK
<1>7. ASSUME NEW u \in Threads, DistributePush(u) \/ DistributeDrop(u),
             \A v \in Threads : ~ReservePush(v)
      PROVE  \/ \E h \in 1..(p - 1) : batch'[t][h] = j
             \/ j \in JobsIn(entered') \cup expired'
  <2>1. /\ batch[u] # <<>> /\ batch[u] \in Seq(Jobs) /\ batch' = [batch EXCEPT ![u] = Tail(@)]
        /\ PushNext(u)
        /\ \/ entered' = Append(entered, Head(batch[u])) /\ UNCHANGED expired
           \/ expired' = expired \cup {Head(batch[u])} /\ UNCHANGED entered
    BY <1>7 DEF DistributePush, DistributeDrop, PushNext, queueVars
  <2>2. Head(batch[u]) \in Jobs
    BY <2>1
  <2>3. JobsIn(Append(entered, Head(batch[u]))) = JobsIn(entered) \cup {Head(batch[u])}
    BY <2>2, JobsAtEnds
  <2>4. JobsIn(entered') \cup expired' = JobsIn(entered) \cup expired \cup {Head(batch[u])}
    BY <2>1, <2>3
  <2>5. CASE u = t
    BY <1>6, <1>7, <2>1, <2>4, <2>5
  <2>6. CASE u # t
    BY <1>4, <1>7, <2>1, <2>4, <2>6
  <2> QED
    BY <2>5, <2>6
<1>8. ASSUME UNCHANGED <<batch, entered, expired>>, \A v \in Threads : ~ReservePush(v)
      PROVE  \/ \E h \in 1..(p - 1) : batch'[t][h] = j
             \/ j \in JobsIn(entered') \cup expired'
  BY <1>4, <1>8
<1>9. ASSUME NEW u \in Threads, NEW i \in Jobs, NEW q \in Queues, NEW delay \in Delays,
             Reserve(u, i, q, delay)
      PROVE  UNCHANGED <<batch, entered, expired>>
  BY <1>9 DEF Reserve
<1>10. ASSUME NEW q \in Queues, Destroy(q) \/ Serve(q)
       PROVE  UNCHANGED <<batch, entered, expired>>
  BY <1>10 DEF Destroy, Serve, timerVars
<1>11. NoJobMoves => UNCHANGED <<batch, entered, expired>>
  BY DEF NoJobMoves
<1> QED
  BY <1>3, <1>5, <1>7, <1>8, <1>9, <1>10, <1>11, TimerSteps

LEMMA AheadPreserved == ASSUME TimerTypeOK, PlacesOK, LinesOK, MetOK, BatchesOK, AheadOK,
                               [TimerNext]_allVars
    PROVE  AheadOK'
<1> USE NoneIsNull DEF TimerTypeOK
<1>1. SUFFICES ASSUME NEW q \in Queues, NEW j \in Jobs, NEW k \in Jobs,
                      Timed(j, k)', owner'[k] = q
               PROVE  Ahead(q, j, k)'
  BY DEF AheadOK
<1>2. \/ Timed(j, k) /\ owner'[j] = owner[j] /\ owner[k] = q
      \/ \E t \in Threads : ReservePush(t) /\ k \in items \cup {reserving[t]}
  BY <1>1, TimedBefore
<1>3. ASSUME UNCHANGED <<pending, running, finished>>
      PROVE  Ahead(q, j, k)' <=> Ahead(q, j, k)
  BY <1>3 DEF Ahead, JobsIn
<1>4. ASSUME NEW t \in Threads, ReservePush(t)
      PROVE  Ahead(q, j, k)'
  <2>1. UNCHANGED <<pending, running, finished>> /\ owner' = owner
    BY <1>4 DEF ReservePush, queueVars
  <2>2. CASE Timed(j, k)
    BY <1>1, <1>3, <2>1, <2>2 DEF AheadOK
  <2>3. CASE ~Timed(j, k)
    <3>1. k \in items \/ \E u \in Threads : reserving[u] = k
      BY <1>2, <2>3
    <3>2. k \notin JobsIn(entered)
      BY <3>1 DEF PlacesOK
    <3>3. ~InLine(q, k)
      BY <3>2 DEF LinesOK
    <3>4. Ahead(q, j, k)
      BY <3>3 DEF InLine, Ahead, JobsIn
    <3> QED
      BY <1>3, <2>1, <3>4
  <2> QED
    BY <2>2, <2>3
<1>5. ASSUME UNCHANGED <<pending, running, finished>>, \A t \in Threads : ~ReservePush(t)
      PROVE  Ahead(q, j, k)'
  BY <1>2, <1>3, <1>5 DEF AheadOK
<1>6. ASSUME NEW t \in Threads, DistributePush(t), \A u \in Threads : ~ReservePush(u)
      PROVE  Ahead(q, j, k)'
  <2> DEFINE x == Head(batch[t])
  <2>1. /\ batch[t] # <<>> /\ batch[t] \in Seq(Jobs) /\ owner[x] \in alive
        /\ Queue!Submit(owner[x], x)
    BY <1>6 DEF DistributePush, PushNext
  <2>2. x \in Jobs /\ owner[x] \in Queues /\ 1 \in DOMAIN batch[t] /\ batch[t][1] = x
    BY <2>1
  <2>3. Timed(j, k) /\ owner[k] = q /\ Ahead(q, j, k)
    BY <1>2, <1>6 DEF AheadOK
  <2>4. ASSUME k = x, owner[x] = q
        PROVE  InLine(q, j)
    <3>1. j \in JobsIn(entered) \cup expired
      BY <2>2, <2>3, <2>4 DEF BatchesOK
    <3>2. owner[j] = q
      BY <2>3 DEF Timed
    <3>3. j \notin expired
      BY <2>1, <2>4, <3>2 DEF LinesOK
    <3> QED
      BY <3>1, <3>2, <3>3 DEF LinesOK
  <2> HIDE DEF x
  <2> QED
    BY <2>1, <2>2, <2>3, <2>4, SubmitLines
<1>7. ASSUME NEW r \in Queues, Serve(r), \A t \in Threads : ~ReservePush(t)
      PROVE  Ahead(q, j, k)'
  <2>1. Ahead(q, j, k)
    BY <1>2, <1>7 DEF AheadOK
  <2> QED
    BY <1>7, <2>1, ServeLines
<1>8. ASSUME NEW t \in Threads, NEW i \in Jobs, NEW r \in Queues, NEW delay \in Delays,
             Reserve(t, i, r, delay)
      PROVE  UNCHANGED <<pending, running, finished>>
  BY <1>8 DEF Reserve, queueVars
<1>9. ASSUME NEW t \in Threads, Drain(t) \/ DistributeDrop(t)
      PROVE  UNCHANGED <<pending, running, finished>>
  BY <1>9 DEF Drain, DistributeDrop, queueVars
<1>10. ASSUME NEW r \in Queues, Destroy(r)
       PROVE  UNCHANGED <<pending, running, finished>>
  BY <1>10 DEF Destroy, queueVars
<1>11. NoJobMoves => UNCHANGED <<pending, running, finished>>
  BY DEF NoJobMoves
<1> QED
  BY <1>4, <1>5, <1>6, <1>7, <1>8, <1>9, <1>10, <1>11, TimerSteps

-----------------------------------------------------------------------------
(* The theorems about the timers.                                          *)

LEMMA TimerInitInv == TimerInit => TimerInv
<1> SUFFICES ASSUME TimerInit PROVE TimerInv
  OBVIOUS
<1> USE NoneIsNull DEF TimerInit, Queue!Init
<1>1. TimerTypeOK
  <2>1. /\ batch \in [Threads -> Seq(Jobs)] /\ entered \in Seq(Jobs)
        /\ pending \in [Queues -> Seq(Jobs)] /\ finished \in [Queues -> Seq(Jobs)]
    OBVIOUS
  <2>2. /\ now \in Nat /\ distributing \in BOOLEAN /\ alive \subseteq Queues
        /\ items \subseteq Jobs /\ expired \subseteq Jobs /\ met \subseteq Jobs \X Jobs
    OBVIOUS
  <2>3. /\ tick \in [Jobs -> Nat] /\ owner \in [Jobs -> Queues \cup {None}]
        /\ reserving \in [Threads -> Jobs \cup {None}]
        /\ phase \in [Threads -> {"idle", "enter", "drain", "push"}]
        /\ clock \in [Threads -> Nat] /\ running \in [Queues -> SUBSET Jobs]
    OBVIOUS
  <2> QED
    BY <2>1, <2>2, <2>3 DEF TimerTypeOK
<1>2. TurnOK
  BY DEF TurnOK
<1>3. PlacesOK
  <2>1. \A j \in Jobs : ~Placed(j)
    BY DEF Placed, JobsIn
  <2>2. \A j \in Jobs : owner[j] # None <=> ~Fresh(j)
    BY <2>1, PlacedOrFresh
  <2>3. IsFiniteSet(items)
    BY FS_EmptySet
  <2> QED
    BY <2>2, <2>3 DEF PlacesOK, JobsIn, IsInjective
<1>4. LinesOK
  BY DEF LinesOK, InLine, JobsIn
<1>5. MetOK /\ BatchesOK /\ AheadOK
  BY DEF MetOK, BatchesOK, AheadOK, Timed
<1> QED
  BY <1>1, <1>2, <1>3, <1>4, <1>5 DEF TimerInv

LEMMA TimerInvariance == TimerSpec => []TimerInv
<1>1. TimerInv /\ [TimerNext]_allVars => TimerInv'
  BY TimerTypePreserved, TurnPreserved, PlacesPreserved, LinesPreserved, MetPreserved,
     BatchesPreserved, AheadPreserved DEF TimerInv
<1> QED
  BY <1>1, TimerInitInv, PTL DEF TimerSpec

\* Every variable of JobTimer keeps its type.
THEOREM TimerTypes == TimerSpec => []TimerTypeOK
<1>1. TimerInv => TimerTypeOK
  BY DEF TimerInv
<1> QED
  BY <1>1, TimerInvariance, PTL

\* A job that was reserved is in one place, and there once: between Reserve and
\* m_items, in m_items, in the local items of one Distribute, pushed, or dropped.
THEOREM TimersOnce == TimerSpec => []EachOnce
<1>1. TimerInv => EachOnce
  <2> SUFFICES ASSUME TimerInv, NEW j \in Jobs, owner[j] # None
               PROVE  Cardinality(Holders(j)) + In(j, items)
                      + Times(j, entered) + In(j, expired) = 1
    BY DEF EachOnce
  <2> DEFINE at == {i \in DOMAIN entered : entered[i] = j}
  <2>1. Cardinality({}) = 0 /\ \A x : Cardinality({x}) = 1
    BY FS_EmptySet, FS_Singleton
  <2>2. PlacesOK /\ TimerTypeOK /\ Placed(j) /\ j # None
    BY NoneIsNull, PlacedOrFresh DEF TimerInv, PlacesOK
  <2>3. Holders(j) = {t \in Threads : reserving[t] = j \/ j \in JobsIn(batch[t])}
    BY DEF Holders, JobsIn
  <2>4. Times(j, entered) = IF j \in JobsIn(entered) THEN 1 ELSE 0
    <3>1. j \in JobsIn(entered) => \E i : at = {i}
      BY <2>2 DEF PlacesOK, JobsIn, IsInjective
    <3>2. j \notin JobsIn(entered) => at = {}
      BY DEF JobsIn
    <3> QED
      BY <2>1, <3>1, <3>2 DEF Times
  <2>5. CASE j \in items
    <3>1. Holders(j) = {} /\ j \notin JobsIn(entered) /\ j \notin expired
      BY <2>2, <2>3, <2>5 DEF PlacesOK
    <3> QED
      BY <2>1, <2>4, <2>5, <3>1 DEF In
  <2>6. CASE j \in JobsIn(entered)
    <3>1. Holders(j) = {} /\ j \notin items /\ j \notin expired
      BY <2>2, <2>3, <2>6 DEF PlacesOK
    <3> QED
      BY <2>1, <2>4, <2>6, <3>1 DEF In
  <2>7. CASE j \in expired
    <3>1. Holders(j) = {} /\ j \notin items /\ j \notin JobsIn(entered)
      BY <2>2, <2>3, <2>7 DEF PlacesOK
    <3> QED
      BY <2>1, <2>4, <2>7, <3>1 DEF In
  <2>8. CASE \E t \in Threads : reserving[t] = j \/ j \in JobsIn(batch[t])
    <3>1. PICK t \in Threads : reserving[t] = j \/ j \in JobsIn(batch[t])
      BY <2>8
    <3>2. j \notin items /\ j \notin JobsIn(entered) /\ j \notin expired
      BY <2>2, <3>1 DEF PlacesOK
    <3>3. ASSUME NEW u \in Threads, reserving[u] = j \/ j \in JobsIn(batch[u])
          PROVE  u = t
      <4>1. CASE reserving[u] = j /\ reserving[t] = j
        BY <2>2, <4>1 DEF PlacesOK
      <4>2. CASE j \in JobsIn(batch[u]) /\ j \in JobsIn(batch[t])
        BY <2>2, <4>2 DEF PlacesOK
      <4>3. \A v, w \in Threads : ~(reserving[v] = j /\ j \in JobsIn(batch[w]))
        BY <2>2 DEF PlacesOK
      <4> QED
        BY <3>1, <3>3, <4>1, <4>2, <4>3
    <3>4. Holders(j) = {t}
      BY <2>3, <3>1, <3>3
    <3>5. Cardinality(Holders(j)) = 1
      BY <2>1, <3>4
    <3>6. In(j, items) = 0 /\ In(j, expired) = 0 /\ Times(j, entered) = 0
      BY <2>4, <3>2 DEF In
    <3> QED
      BY <3>5, <3>6
  <2> QED
    BY <2>2, <2>5, <2>6, <2>7, <2>8 DEF Placed
<1> QED
  BY <1>1, TimerInvariance, PTL

\* Jobs of one queue that waited in m_items together run in the order of their
\* ticks, whichever threads distribute them.
THEOREM TimersInOrder == TimerSpec => []RunInOrder
<1>1. TimerInv => RunInOrder
  BY DEF TimerInv, AheadOK, Ahead, Timed, RunInOrder
<1> QED
  BY <1>1, TimerInvariance, PTL

\* SerialQueue takes a job once; the job that Distribute pushes next was never
\* pushed before, so that Push is not held up.
THEOREM TimersAreNew == TimerSpec => [](\A t \in Threads : batch[t] # <<>> => ~Queue!Known(Head(batch[t])))
<1>1. ASSUME TimerInv, NEW t \in Threads, batch[t] # <<>>
      PROVE  ~Queue!Known(Head(batch[t]))
  <2>1. batch[t] \in Seq(Jobs)
    BY <1>1 DEF TimerInv, TimerTypeOK
  <2>2. Head(batch[t]) \in Jobs /\ Head(batch[t]) \in JobsIn(batch[t])
    BY <1>1, <2>1, JobsAtEnds
  <2>3. Head(batch[t]) \notin JobsIn(entered)
    BY <1>1, <2>2 DEF TimerInv, PlacesOK
  <2>4. \A q \in Queues : ~InLine(q, Head(batch[t]))
    BY <1>1, <2>2, <2>3 DEF TimerInv, LinesOK
  <2> QED
    BY <2>4 DEF InLine, JobsIn, Queue!Known, Queue!JobsIn
<1>2. TimerInv => \A t \in Threads : batch[t] # <<>> => ~Queue!Known(Head(batch[t]))
  BY <1>1
<1> QED
  BY <1>2, TimerInvariance, PTL
=============================================================================
