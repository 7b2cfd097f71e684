----------------------------- MODULE PacketRecv -----------------------------
(***************************************************************************)
(* The receiving half of a PacketSession: RegisterRecv, ProcessRecv and    *)
(* the loop of PacketSession::OnRecv that cuts the byte stream into        *)
(* packets.  One WSARecv is outstanding at a time, so one thread at a time *)
(* is in here; Disconnect comes from any thread.                           *)
(*                                                                         *)
(* sizeAt describes the peer's stream: sizeAt[o] is the header.size field  *)
(* of a header read at offset o.  The packets start at 0, sizeAt[0], ...   *)
(* What it holds elsewhere is what a misplaced read would find.  A packet  *)
(* is at least a header, and header.size (16 bits) is below BUFFER_SIZE.   *)
(***************************************************************************)
EXTENDS RecvBuffer, Sequences

CONSTANTS
    HeaderSize,     \* sizeof(PacketHeader)
    MaxStream,      \* bound: bytes the peer sends
    Streams         \* the streams it may send

ASSUME HeaderAssumption == HeaderSize \in Nat \ {0}
ASSUME StreamAssumption == MaxStream \in Nat
ASSUME SizesAssumption == \A s \in Streams : s \in [0..MaxStream -> HeaderSize..(BufferSize - 1)]

VARIABLES
    sizeAt,         \* the stream
    arrived,        \* how many of its bytes were received
    connected,      \* m_connected
    pc,             \* "posted": WSARecv is outstanding; "parse": in OnRecv's loop; "closed"
    recvLen,        \* wsaBuf.len of the last WSARecv
    processLen,     \* OnRecv's local
    delivered,      \* history: offset and size of the packets given to OnRecvPacket
    cause           \* of the Disconnect that ProcessRecv made

vars == <<readPos, writePos, data, sizeAt, arrived, connected, pc, recvLen,
          processLen, delivered, cause>>

Init ==
    /\ BufferInit
    /\ sizeAt \in Streams
    /\ arrived = 0
    /\ connected = TRUE
    /\ pc = "posted"
    /\ recvLen = Capacity
    /\ processLen = 0
    /\ delivered = <<>>
    /\ cause = "none"

\* RegisterRecv: WSARecv into the free end of the buffer, unless disconnected.
\* If WSARecv fails nobody receives any more, and HandleError disconnects on a
\* reset or an abort only.
RegisterRecv ==
    \/ /\ connected
       /\ pc' = "posted" /\ recvLen' = Capacity - writePos'
       /\ UNCHANGED connected
    \/ /\ connected
       /\ pc' = "closed" /\ connected' \in BOOLEAN
       /\ UNCHANGED recvLen
    \/ /\ ~connected
       /\ pc' = "closed"
       /\ UNCHANGED <<recvLen, connected>>

\* Disconnect, from any thread; a WSARecv that is outstanding will complete.
Disconnect ==
    /\ connected
    /\ connected' = FALSE
    /\ UNCHANGED <<readPos, writePos, data, sizeAt, arrived, pc, recvLen,
                   processLen, delivered, cause>>

\* ProcessRecv(0): the peer closed, or DisconnectEx ended the WSARecv
RecvZero ==
    /\ pc = "posted"
    /\ connected' = FALSE
    /\ pc' = "closed"
    /\ cause' = "Recv 0"
    /\ UNCHANGED <<readPos, writePos, data, sizeAt, arrived, recvLen, processLen, delivered>>

\* ProcessRecv(n) up to OnRecv
RecvBytes(n) ==
    /\ pc = "posted" /\ n <= recvLen /\ arrived + n <= MaxStream
    /\ Fill(n, arrived)
    /\ arrived' = arrived + n
    /\ processLen' = 0
    /\ writePos' = IF CanWrite(n) THEN writePos + n ELSE writePos
    /\ pc' = IF CanWrite(n) THEN "parse" ELSE "closed"
    /\ connected' = (connected /\ CanWrite(n))
    /\ cause' = IF CanWrite(n) THEN cause ELSE "OnWrite Overflow"
    /\ UNCHANGED <<readPos, sizeAt, recvLen, delivered>>

\* OnRecv's loop: the header and the whole packet are there
HeaderComplete == DataSize - processLen >= HeaderSize
HeaderSizeField == sizeAt[data[readPos + processLen]]
\* Mutant of PacketComplete: a packet waits for a byte of the next one.
PacketCompleteLate == HeaderComplete /\ DataSize - processLen > HeaderSizeField

PacketComplete == HeaderComplete /\ DataSize - processLen >= HeaderSizeField

\* Mutant of ParsePacket: header.size is taken to leave the header out.
ParsePacketPastHeader ==
    /\ pc = "parse" /\ PacketComplete
    /\ delivered' = Append(delivered, [at |-> data[readPos + processLen], size |-> HeaderSizeField])
    /\ processLen' = processLen + HeaderSize + HeaderSizeField
    /\ UNCHANGED <<readPos, writePos, data, sizeAt, arrived, connected, pc, recvLen, cause>>

\* OnRecvPacket, and on to the next packet
ParsePacket ==
    /\ pc = "parse" /\ PacketComplete
    /\ delivered' = Append(delivered, [at |-> data[readPos + processLen], size |-> HeaderSizeField])
    /\ processLen' = processLen + HeaderSizeField
    /\ UNCHANGED <<readPos, writePos, data, sizeAt, arrived, connected, pc, recvLen, cause>>

\* The loop breaks: OnRead(processLen), Clean(), RegisterRecv()
ParseStop ==
    /\ pc = "parse" /\ ~PacketComplete
    /\ IF CanRead(processLen)
       THEN /\ Clean(readPos + processLen)
            /\ RegisterRecv
            /\ UNCHANGED cause
       ELSE /\ connected' = FALSE
            /\ pc' = "closed"
            /\ cause' = "OnRead Overflow"
            /\ UNCHANGED <<readPos, writePos, data, recvLen>>
    /\ UNCHANGED <<sizeAt, arrived, processLen, delivered>>

Next ==
    \/ Disconnect
    \/ RecvZero
    \/ \E n \in 1..Capacity : RecvBytes(n)
    \/ ParsePacket \/ ParseStop

Spec == Init /\ [][Next]_vars

\* The thread that dispatched a receive leaves OnRecv's loop in its own time.
FairSpec == Spec /\ WF_vars(ParsePacket) /\ WF_vars(ParseStop)

-----------------------------------------------------------------------------
(* Properties                                                              *)

\* Every variable has its type and the cursors stay inside the buffer.
TypeOK ==
    /\ readPos \in 0..writePos /\ writePos \in 0..Capacity
    /\ data \in [0..(Capacity - 1) -> Int]
    /\ sizeAt \in Streams
    /\ arrived \in 0..MaxStream
    /\ connected \in BOOLEAN
    /\ pc \in {"posted", "parse", "closed"}
    /\ recvLen \in 0..Capacity
    /\ processLen \in Nat
    /\ delivered \in Seq([at : Int, size : Nat])
    /\ cause \in {"none", "Recv 0", "OnWrite Overflow", "OnRead Overflow"}

\* Between the cursors lies the end of the stream received so far, byte for
\* byte: compacting and resetting lose, repeat and reorder nothing.
BufferHoldsStream == \A p \in readPos..(writePos - 1) : data[p] = arrived - (writePos - p)

\* The packets handed to OnRecvPacket are the packets of the stream: the first
\* starts at 0, each starts where the one before it ended, each has the size
\* its own header says and had arrived completely.
CutsAtPackets ==
    /\ delivered # <<>> => delivered[1].at = 0
    /\ \A i \in DOMAIN delivered :
         /\ delivered[i].size = sizeAt[delivered[i].at]
         /\ delivered[i].at + delivered[i].size <= arrived
         /\ i > 1 => delivered[i].at = delivered[i-1].at + delivered[i-1].size

\* Neither overflow that ProcessRecv disconnects for ever happens.
NoOverflow == cause \notin {"OnWrite Overflow", "OnRead Overflow"}

\* Every WSARecv has room for a whole buffer: however packets are cut, a
\* session never posts a receive that is short, let alone one of length 0.
RoomToReceive == pc = "posted" => recvLen >= BufferSize /\ recvLen = FreeSize

\* When Clean moves the data its memcpy does not copy between regions that
\* overlap (which would be undefined).
CopyDisjoint == [][ParseStop =>
    LET r == readPos + processLen IN Compacts(r) => writePos - r <= r]_vars

\* The offset of the first packet that OnRecvPacket has not been given.
NextAt == IF delivered = <<>> THEN 0
          ELSE delivered[Len(delivered)].at + delivered[Len(delivered)].size

\* A packet that has arrived completely is handed over, without waiting for
\* more bytes, even if the session is being disconnected meanwhile.
EveryPacketDelivered == \A o \in 0..MaxStream :
    (NextAt = o /\ o + HeaderSize <= arrived /\ o + sizeAt[o] <= arrived) ~> NextAt > o
=============================================================================
