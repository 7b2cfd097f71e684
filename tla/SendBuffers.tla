---------------------------- MODULE SendBuffers ----------------------------
(***************************************************************************)
(* SendBuffer.h/.cpp: every thread cuts the SendBuffers it fills out of a  *)
(* chunk of its own, without a lock.  A chunk is kept alive by the thread  *)
(* (LSendBufferChunk) and by the buffers cut out of it, which any thread   *)
(* may be the last to drop; when the last reference is gone its deleter,   *)
(* PushGlobal, gives it back to GSendBufferManager.                        *)
(*                                                                         *)
(* MakeSendBuffer, the only caller, opens a buffer of the size of its      *)
(* packet, fills it and closes it before its thread opens another one.     *)
(***************************************************************************)
EXTENDS Integers, Sequences, FiniteSets

CONSTANTS
    Threads,
    Chunks,     \* bound: the chunks there is memory for
    Buffers,    \* bound: the SendBuffers alive at a time
    None,       \* nullptr
    ChunkSize,  \* SEND_BUFFER_CHUNK_SIZE: 6000 bytes
    MaxPacket   \* the longest packet: its size is a uint16, 65535

ASSUME SendBufferThreadsAssumption == IsFiniteSet(Threads)
ASSUME ChunksAssumption == None \notin Chunks /\ None \notin Buffers
ASSUME ChunkSizeAssumption == ChunkSize \in Nat \ {0}
ASSUME MaxPacketAssumption == MaxPacket \in Nat

VARIABLES
    current,        \* LSendBufferChunk of every thread
    freeChunks,     \* m_sendBufferChunks
    created,        \* the chunks that were ever allocated
    open, usedSize, \* m_open and m_usedSize of every chunk
    owner,          \* m_owner of every SendBuffer; None: it does not exist
    start, size,    \* where it begins, and m_allocSize or, once closed, m_writeSize
    pc,             \* where each thread is
    want,           \* the bytes of the packet it makes, from Open to Close
    filling,        \* the buffer it has opened and not closed
    giving,         \* the chunk whose deleter it runs
    failed          \* "no", or what ended the process

vars == <<current, freeChunks, created, open, usedSize, owner, start, size, pc, want,
          filling, giving, failed>>

\* The buffers that keep chunk c, and the threads that do.
CutFrom(c) == {b \in Buffers : owner[b] = c}
Using(c) == {t \in Threads : current[t] = c}

FreeSize(c) == ChunkSize - usedSize[c]

Init ==
    /\ current = [t \in Threads |-> None]
    /\ freeChunks = <<>>
    /\ created = {}
    /\ open = [c \in Chunks |-> FALSE]
    /\ usedSize = [c \in Chunks |-> 0]
    /\ owner = [b \in Buffers |-> None]
    /\ start = [b \in Buffers |-> 0]
    /\ size = [b \in Buffers |-> 0]
    /\ pc = [t \in Threads |-> "idle"]
    /\ want = [t \in Threads |-> 0]
    /\ filling = [t \in Threads |-> None]
    /\ giving = [t \in Threads |-> None]
    /\ failed = "no"

\* Manager::Open of n bytes: a thread that has no chunk pops its first one.
Open(t, n) ==
    /\ pc[t] = "idle" /\ failed = "no"
    /\ want' = [want EXCEPT ![t] = n]
    /\ pc' = [pc EXCEPT ![t] = IF current[t] = None THEN "popFirst" ELSE "check"]
    /\ UNCHANGED <<current, freeChunks, created, open, usedSize, owner, start, size,
                   filling, giving, failed>>

\* The chunk must be closed.  If there is not enough of it left, it is replaced.
Check(t) == LET c == current[t] IN
    /\ pc[t] = "check" /\ failed = "no"
    /\ failed' = IF open[c] THEN "assert" ELSE "no"
    /\ pc' = [pc EXCEPT ![t] = IF want[t] <= FreeSize(c) THEN "open" ELSE "pop"]
    /\ UNCHANGED <<current, freeChunks, created, open, usedSize, owner, start, size, want,
                   filling, giving>>

\* LSendBufferChunk = Pop(): a free chunk or a new one.  The one it replaces
\* loses a reference, which may be its last.
Replace(t, c) ==
    /\ current' = [current EXCEPT ![t] = c]
    /\ IF current[t] # None /\ CutFrom(current[t]) = {}
       THEN /\ giving' = [giving EXCEPT ![t] = current[t]]
            /\ pc' = [pc EXCEPT ![t] = "giveOld"]
       ELSE /\ pc' = [pc EXCEPT ![t] = IF @ = "popFirst" THEN "resetFirst" ELSE "reset"]
            /\ UNCHANGED giving

PopFree(t) ==
    /\ pc[t] \in {"popFirst", "pop"} /\ failed = "no"
    /\ freeChunks # <<>>
    /\ Replace(t, freeChunks[Len(freeChunks)])
    /\ freeChunks' = SubSeq(freeChunks, 1, Len(freeChunks) - 1)
    /\ UNCHANGED <<created, open, usedSize, owner, start, size, want, filling, failed>>

PopNew(t) ==
    /\ pc[t] \in {"popFirst", "pop"} /\ failed = "no"
    /\ freeChunks = <<>>
    /\ \E c \in Chunks \ created :
         /\ Replace(t, c)
         /\ created' = created \cup {c}
    /\ UNCHANGED <<freeChunks, open, usedSize, owner, start, size, want, filling, failed>>

\* LSendBufferChunk->Reset()
Reset(t) == LET c == current[t] IN
    /\ pc[t] \in {"resetFirst", "reset"} /\ failed = "no"
    /\ open' = [open EXCEPT ![c] = FALSE]
    /\ usedSize' = [usedSize EXCEPT ![c] = 0]
    /\ pc' = [pc EXCEPT ![t] = IF @ = "resetFirst" THEN "check" ELSE "open"]
    /\ UNCHANGED <<current, freeChunks, created, owner, start, size, want, filling,
                   giving, failed>>

\* Chunk::Open of more than a chunk has, whether it was replaced or not, fails the
\* first assertion; the second is that nobody has the chunk open.  A buffer that does
\* not fit after all is a nullptr, which MakeSendBuffer writes to.
ChunkOpenFails(t) == LET c == current[t] IN
    /\ pc[t] = "open" /\ failed = "no"
    /\ want[t] > ChunkSize \/ open[c] \/ want[t] > FreeSize(c)
    /\ failed' = IF want[t] > ChunkSize THEN "tooLong" ELSE IF open[c] THEN "assert" ELSE "null"
    /\ UNCHANGED <<current, freeChunks, created, open, usedSize, owner, start, size, pc, want,
                   filling, giving>>

\* ... and otherwise makes a buffer that begins where the chunk is used up to.
ChunkOpen(t, b) == LET c == current[t] IN
    /\ pc[t] = "open" /\ failed = "no"
    /\ want[t] <= ChunkSize /\ ~open[c] /\ want[t] <= FreeSize(c)
    /\ owner[b] = None
    /\ open' = [open EXCEPT ![c] = TRUE]
    /\ owner' = [owner EXCEPT ![b] = c]
    /\ start' = [start EXCEPT ![b] = usedSize[c]]
    /\ size' = [size EXCEPT ![b] = want[t]]
    /\ filling' = [filling EXCEPT ![t] = b]
    /\ pc' = [pc EXCEPT ![t] = "filling"]
    /\ UNCHANGED <<current, freeChunks, created, usedSize, want, giving, failed>>

\* Mutants of Close: the bytes written are not counted; the chunk stays open.
CloseUncounted(t, n) == LET b == filling[t] IN
    /\ pc[t] = "filling" /\ failed = "no"
    /\ failed' = IF n > size[b] \/ ~open[owner[b]] THEN "assert" ELSE "no"
    /\ size' = [size EXCEPT ![b] = n]
    /\ open' = [open EXCEPT ![owner[b]] = FALSE]
    /\ filling' = [filling EXCEPT ![t] = None]
    /\ want' = [want EXCEPT ![t] = 0]
    /\ pc' = [pc EXCEPT ![t] = "idle"]
    /\ UNCHANGED <<current, freeChunks, created, usedSize, owner, start, giving>>

CloseOpen(t, n) == LET b == filling[t] IN
    /\ pc[t] = "filling" /\ failed = "no"
    /\ failed' = IF n > size[b] \/ ~open[owner[b]] THEN "assert" ELSE "no"
    /\ size' = [size EXCEPT ![b] = n]
    /\ usedSize' = [usedSize EXCEPT ![owner[b]] = @ + n]
    /\ filling' = [filling EXCEPT ![t] = None]
    /\ want' = [want EXCEPT ![t] = 0]
    /\ pc' = [pc EXCEPT ![t] = "idle"]
    /\ UNCHANGED <<current, freeChunks, created, open, owner, start, giving>>

\* SendBuffer::Close of n bytes, at most what was opened
Close(t, n) == LET b == filling[t] IN
    /\ pc[t] = "filling" /\ failed = "no"
    /\ failed' = IF n > size[b] \/ ~open[owner[b]] THEN "assert" ELSE "no"
    /\ size' = [size EXCEPT ![b] = n]
    /\ open' = [open EXCEPT ![owner[b]] = FALSE]
    /\ usedSize' = [usedSize EXCEPT ![owner[b]] = @ + n]
    /\ filling' = [filling EXCEPT ![t] = None]
    /\ want' = [want EXCEPT ![t] = 0]
    /\ pc' = [pc EXCEPT ![t] = "idle"]
    /\ UNCHANGED <<current, freeChunks, created, owner, start, giving>>

\* Mutant of LastReference: LSendBufferChunk does not count.
LastReferenceCut(b) == CutFrom(owner[b]) = {b}

\* b is the last reference to its chunk.
LastReference(b) == CutFrom(owner[b]) = {b} /\ Using(owner[b]) = {}

\* The last reference to a buffer goes, on any thread.
Drop(t, b) ==
    /\ pc[t] = "idle" /\ failed = "no"
    /\ owner[b] # None /\ \A u \in Threads : filling[u] # b
    /\ owner' = [owner EXCEPT ![b] = None]
    /\ start' = [start EXCEPT ![b] = 0]
    /\ size' = [size EXCEPT ![b] = 0]
    /\ IF LastReference(b)
       THEN /\ giving' = [giving EXCEPT ![t] = owner[b]]
            /\ pc' = [pc EXCEPT ![t] = "give"]
       ELSE UNCHANGED <<giving, pc>>
    /\ UNCHANGED <<current, freeChunks, created, open, usedSize, want,
                   filling, failed>>

\* PushGlobal, called by the assignment to LSendBufferChunk or the end of a buffer
PushGlobal(t) ==
    /\ pc[t] \in {"giveOld", "give"} /\ failed = "no"
    /\ freeChunks' = Append(freeChunks, giving[t])
    /\ giving' = [giving EXCEPT ![t] = None]
    /\ pc' = [pc EXCEPT ![t] = IF @ = "giveOld" THEN "reset" ELSE "idle"]
    /\ UNCHANGED <<current, created, open, usedSize, owner, start, size, want, filling, failed>>

Next == \E t \in Threads :
    \/ \E n \in 1..MaxPacket : Open(t, n) \/ (n <= want[t] /\ Close(t, n))
    \/ Check(t) \/ PopFree(t) \/ PopNew(t) \/ Reset(t) \/ ChunkOpenFails(t)
    \/ \E b \in Buffers : ChunkOpen(t, b) \/ Drop(t, b)
    \/ PushGlobal(t)

Spec == Init /\ [][Next]_vars

-----------------------------------------------------------------------------
(* Properties                                                              *)

\* No two buffers that are alive share a byte, whoever filled them and however
\* often their chunk was reused: what a WSASend is reading is never overwritten.
Disjoint == \A b, d \in Buffers :
    owner[b] # None /\ owner[d] = owner[b] /\ b # d =>
        start[b] + size[b] <= start[d] \/ start[d] + size[d] <= start[b]

\* A chunk on its way to m_sendBufferChunks or on it has no reference left, is
\* there once, and a chunk in use belongs to one thread: no two threads cut
\* buffers out of one chunk without a lock.  None is lost: it has a reference
\* or is free to be used again.
Returning(c) == {t \in Threads : giving[t] = c}
Listed(c) == {i \in DOMAIN freeChunks : freeChunks[i] = c}
Places(c) == Cardinality(Using(c)) + Cardinality(Returning(c)) + Cardinality(Listed(c))

OnePlace == \A c \in Chunks :
    /\ Places(c) <= 1
    /\ Using(c) = {} /\ Places(c) = 1 => CutFrom(c) = {}
    /\ c \in created => Places(c) = 1 \/ CutFrom(c) # {}

\* No buffer reaches beyond the end of its chunk, and a packet that is longer than a
\* chunk, whose Open fails its first assertion, is the only thing that ends the process:
\* no thread finds its chunk open, gets nullptr, or is given less than it asked for.
OnlyTooLongFails ==
    /\ failed \in {"no", "tooLong"}
    /\ \A b \in Buffers : owner[b] # None => start[b] + size[b] <= ChunkSize
=============================================================================
