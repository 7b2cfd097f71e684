--------------------- MODULE SendBuffers_GameRoom_proof ---------------------
(***************************************************************************)
(* Proofs about SendBuffers, for any finite set of threads and any chunks, *)
(* buffers, chunk size and packets: buffers that are alive share no byte,  *)
(* a chunk has one place, and Open and Close fail only for a packet longer *)
(* than a chunk.  Then about GameRoom with its clients (DummyClient), for  *)
(* any clients: the order of the chats, who sees them, and that            *)
(* OnDisconnected never comes too early nor Leave before Enter.  The two   *)
(* share no variable.                                                      *)
(***************************************************************************)
EXTENDS SendBuffers, DummyClient, FiniteSetTheorems, SequenceTheorems, TLAPS

Step == {"idle", "popFirst", "resetFirst", "check", "pop", "giveOld", "reset", "open", "filling", "give"}

TypeOK ==
    /\ current \in [Threads -> Chunks \cup {None}]
    /\ freeChunks \in Seq(Chunks)
    /\ created \subseteq Chunks
    /\ open \in [Chunks -> BOOLEAN]
    /\ usedSize \in [Chunks -> 0..ChunkSize]
    /\ owner \in [Buffers -> Chunks \cup {None}]
    /\ start \in [Buffers -> Nat]
    /\ size \in [Buffers -> Nat]
    /\ pc \in [Threads -> Step]
    /\ want \in [Threads -> 0..MaxPacket]
    /\ filling \in [Threads -> Buffers \cup {None}]
    /\ giving \in [Threads -> Chunks \cup {None}]

Free == {freeChunks[i] : i \in 1..Len(freeChunks)}
ListedOnce == \A i, k \in 1..Len(freeChunks) : freeChunks[i] = freeChunks[k] => i = k

(***************************************************************************)
(* What the safety properties lack to be inductive.  PlacesOK and          *)
(* ReturnedOK are OnePlace without Cardinality: a chunk belongs to one     *)
(* thread, is given back by one thread or is listed once, and no buffer    *)
(* is left of it in the last two cases.                                    *)
(***************************************************************************)
PlacesOK ==
    /\ \A t, u \in Threads : current[t] # None /\ current[u] = current[t] => u = t
    /\ \A t, u \in Threads : giving[t] # None /\ giving[u] = giving[t] => u = t
    /\ \A t, u \in Threads : giving[t] # None => current[u] # giving[t]
    /\ \A t \in Threads : current[t] \notin Free /\ giving[t] \notin Free
    /\ ListedOnce

ReturnedOK == \A b \in Buffers : owner[b] # None =>
    /\ \A t \in Threads : owner[b] # giving[t]
    /\ owner[b] \notin Free

\* What is referred to was created, and what was created is somewhere.
Somewhere(c) ==
    \/ \E t \in Threads : current[t] = c \/ giving[t] = c
    \/ c \in Free
    \/ \E b \in Buffers : owner[b] = c

CreatedOK ==
    /\ \A t \in Threads : current[t] \in created \cup {None} /\ giving[t] \in created \cup {None}
    /\ Free \subseteq created
    /\ \A b \in Buffers : owner[b] \in created \cup {None}
    /\ \A c \in created : Somewhere(c)

\* What a thread knows at each point of Open, Close and the deleter.
ThreadOK(t) ==
    /\ pc[t] = "filling" <=> filling[t] # None
    /\ pc[t] \in {"giveOld", "give"} <=> giving[t] # None
    /\ pc[t] \in {"check", "giveOld", "resetFirst", "reset", "open", "filling"} => current[t] # None
    /\ pc[t] \in {"giveOld", "resetFirst", "reset"} => \A b \in Buffers : owner[b] # current[t]
    /\ pc[t] = "open" => want[t] > ChunkSize \/ want[t] + usedSize[current[t]] <= ChunkSize
    /\ pc[t] = "filling" =>
         /\ owner[filling[t]] = current[t]
         /\ start[filling[t]] = usedSize[current[t]]
         /\ size[filling[t]] = want[t]
         /\ start[filling[t]] + size[filling[t]] <= ChunkSize
    /\ current[t] # None /\ pc[t] \notin {"giveOld", "resetFirst", "reset"} =>
         (open[current[t]] <=> pc[t] = "filling")

\* A chunk is used up to the end of its last buffer that was closed.
BufferOK(b) == owner[b] # None =>
    \/ \E t \in Threads : filling[t] = b
    \/ start[b] + size[b] <= usedSize[owner[b]]

ThreadsOK == \A t \in Threads : ThreadOK(t)
BuffersOK == \A b \in Buffers : BufferOK(b)

FailedOK == failed \in {"no", "tooLong"}

IInv == /\ TypeOK /\ PlacesOK /\ ReturnedOK /\ CreatedOK /\ ThreadsOK /\ BuffersOK
        /\ Disjoint /\ FailedOK

-----------------------------------------------------------------------------
\* Sequences: one more element, and the last one taken.
LEMMA FreeAppend ==
    ASSUME TypeOK, NEW c \in Chunks, freeChunks' = Append(freeChunks, c)
    PROVE  /\ Free' = Free \cup {c}
           /\ ListedOnce /\ c \notin Free => ListedOnce'
           /\ freeChunks' \in Seq(Chunks)
<1>1. PICK n \in Nat : n = Len(freeChunks)
  BY LenProperties DEF TypeOK
<1>2. /\ Len(freeChunks') = n + 1 /\ freeChunks' \in Seq(Chunks)
      /\ \A i \in 1..n : freeChunks'[i] = freeChunks[i]
      /\ freeChunks'[n + 1] = c
  BY <1>1, AppendProperties DEF TypeOK
<1>3. 1..(n + 1) = 1..n \cup {n + 1}
  BY <1>1
<1>4. Free' = Free \cup {c}
  BY <1>1, <1>2, <1>3 DEF Free
<1>5. ASSUME ListedOnce, c \notin Free PROVE ListedOnce'
  BY <1>1, <1>2, <1>3, <1>5 DEF Free, ListedOnce
<1> QED
  BY <1>2, <1>4, <1>5

LEMMA FreeLast ==
    ASSUME TypeOK, freeChunks # <<>>, freeChunks' = SubSeq(freeChunks, 1, Len(freeChunks) - 1)
    PROVE  /\ freeChunks[Len(freeChunks)] \in Free /\ Free \subseteq Chunks
           /\ ListedOnce => Free' = Free \ {freeChunks[Len(freeChunks)]} /\ ListedOnce'
           /\ freeChunks' \in Seq(Chunks)
<1>1. PICK n \in Nat : n = Len(freeChunks)
  BY LenProperties DEF TypeOK
<1>2. n # 0
  BY <1>1, EmptySeq DEF TypeOK
<1>3. /\ freeChunks' = SubSeq(freeChunks, 1, n - 1)
      /\ \A i \in 1..n : freeChunks[i] \in Chunks
  BY <1>1, LenProperties, ElementOfSeq DEF TypeOK
<1>4. /\ Len(freeChunks') = n - 1 /\ freeChunks' \in Seq(Chunks)
      /\ \A i \in 1..(n - 1) : freeChunks'[i] = freeChunks[i]
  <2>1. 1 \in 1..(n + 1) /\ n - 1 \in 0..n /\ \A i \in 1..(n - 1) : i \in 1..n
    BY <1>2
  <2>2. Len(SubSeq(freeChunks, 1, n - 1)) = n - 1
        /\ \A i \in 1..(n - 1) : SubSeq(freeChunks, 1, n - 1)[i] = freeChunks[i]
    BY <1>1, <1>2
  <2>3. SubSeq(freeChunks, 1, n - 1) \in Seq(Chunks)
    BY <1>1, <1>2, <1>3, <2>1, SubSeqProperties DEF TypeOK
  <2> QED
    BY <1>3, <2>2, <2>3
<1>5. 1..n = 1..(n - 1) \cup {n} /\ n \notin 1..(n - 1) /\ n \in 1..n
  BY <1>2
<1>6. freeChunks[n] \in Free /\ Free \subseteq Chunks
  BY <1>1, <1>3, <1>5 DEF Free
<1>7. ASSUME ListedOnce PROVE Free' = Free \ {freeChunks[n]} /\ ListedOnce'
  <2>1. \A i, k \in 1..n : freeChunks[i] = freeChunks[k] => i = k
    BY <1>1, <1>7 DEF ListedOnce
  <2>2. Free' = {freeChunks[i] : i \in 1..(n - 1)}
    BY <1>4 DEF Free
  <2>3. Free = {freeChunks[i] : i \in 1..n}
    BY <1>1 DEF Free
  <2>4. Free' = Free \ {freeChunks[n]}
    BY <1>5, <2>1, <2>2, <2>3
  <2>5. ListedOnce'
    BY <1>4, <1>5, <2>1 DEF ListedOnce
  <2> QED
    BY <2>4, <2>5
<1> QED
  BY <1>1, <1>4, <1>6, <1>7

\* Steps that leave the chunks, and where they are, alone.
LEMMA PlacesSame ==
    ASSUME IInv, UNCHANGED <<current, freeChunks, created, owner, giving>>
    PROVE  PlacesOK' /\ ReturnedOK' /\ CreatedOK' /\ Free' = Free
<1>1. Free' = Free /\ (ListedOnce' <=> ListedOnce)
  BY DEF Free, ListedOnce
<1>2. \A c : Somewhere(c)' <=> Somewhere(c)
  BY <1>1 DEF Somewhere
<1> QED
  BY <1>1, <1>2 DEF IInv, PlacesOK, ReturnedOK, CreatedOK

\* The threads that a step leaves alone
LEMMA ThreadSame ==
    ASSUME TypeOK, TypeOK', NEW u \in Threads, ThreadOK(u), current'[u] = current[u], pc'[u] = pc[u],
           filling'[u] = filling[u], giving'[u] = giving[u], want'[u] = want[u],
           current[u] # None => /\ open'[current[u]] = open[current[u]]
                                /\ usedSize'[current[u]] = usedSize[current[u]]
                                /\ \A b \in Buffers : owner'[b] = current[u] => owner[b] = current[u],
           filling[u] # None => /\ owner'[filling[u]] = owner[filling[u]]
                                /\ start'[filling[u]] = start[filling[u]]
                                /\ size'[filling[u]] = size[filling[u]]
    PROVE  ThreadOK(u)'
BY DEF ThreadOK

\* The beginning of Open: a thread without a chunk pops one.
LEMMA OpenPreserves ==
    ASSUME IInv, NEW t \in Threads, NEW n \in 1..MaxPacket, Open(t, n)
    PROVE  IInv'
<1> USE DEF IInv
<1>1. PICK step \in {"popFirst", "check"} :
         /\ pc[t] = "idle" /\ pc' = [pc EXCEPT ![t] = step] /\ want' = [want EXCEPT ![t] = n]
         /\ step = "check" => current[t] # None
         /\ UNCHANGED <<current, freeChunks, created, open, usedSize, owner, start, size, filling,
                        giving, failed>>
  BY DEF Open
<1>2. TypeOK'
  <2>1. n \in 0..MaxPacket
    BY MaxPacketAssumption
  <2> QED
    BY <1>1, <2>1 DEF TypeOK, Step
<1>3. PlacesOK' /\ ReturnedOK' /\ CreatedOK'
  BY <1>1, PlacesSame
<1>4. \A u \in Threads \ {t} : ThreadOK(u)'
  BY <1>1, <1>2, ThreadSame DEF TypeOK, ThreadsOK
<1>5. ThreadOK(t)'
  <2>1. ThreadOK(t) /\ pc'[t] = step
    BY <1>1 DEF TypeOK, ThreadsOK
  <2> QED
    BY <1>1, <2>1 DEF ThreadOK
<1>6. BuffersOK' /\ Disjoint' /\ FailedOK'
  BY <1>1 DEF BuffersOK, BufferOK, Disjoint, FailedOK
<1> QED
  BY <1>2, <1>3, <1>4, <1>5, <1>6 DEF ThreadsOK

\* ... and finds the one it has closed.
LEMMA CheckPreserves == ASSUME IInv, NEW t \in Threads, Check(t) PROVE IInv'
<1> USE DEF IInv
<1>1. PICK step \in {"pop", "open"} :
         /\ pc[t] = "check" /\ pc' = [pc EXCEPT ![t] = step]
         /\ step = "open" => want[t] <= FreeSize(current[t])
         /\ UNCHANGED <<current, freeChunks, created, open, usedSize, owner, start, size, want,
                        filling, giving>>
  BY DEF Check
<1>2. TypeOK'
  BY <1>1 DEF TypeOK, Step
<1>3. PICK c \in Chunks : c = current[t]
  BY <1>1 DEF TypeOK, ThreadsOK, ThreadOK
<1>4. ~open[c]
  BY <1>1, <1>3, ChunksAssumption DEF ThreadsOK, ThreadOK
<1>5. failed' = "no"
  BY <1>3, <1>4 DEF Check
<1>6. PlacesOK' /\ ReturnedOK' /\ CreatedOK'
  BY <1>1, PlacesSame
<1>7. \A u \in Threads \ {t} : ThreadOK(u)'
  BY <1>1, <1>2, ThreadSame DEF TypeOK, ThreadsOK
<1>8. ThreadOK(t)'
  <2>1. ThreadOK(t) /\ pc'[t] = step
    BY <1>1 DEF TypeOK, ThreadsOK
  <2>2. step = "open" => want[t] + usedSize[c] <= ChunkSize
    <3>1. want[t] \in Nat /\ usedSize[c] \in Nat
      BY DEF TypeOK
    <3>2. step = "open" => want[t] <= ChunkSize - usedSize[c]
      BY <1>1, <1>3 DEF FreeSize
    <3> QED
      BY <3>1, <3>2, ChunkSizeAssumption
  <2> QED
    BY <1>1, <1>3, <2>1, <2>2 DEF ThreadOK
<1>9. BuffersOK' /\ Disjoint' /\ FailedOK'
  BY <1>1, <1>5 DEF BuffersOK, BufferOK, Disjoint, FailedOK
<1> QED
  BY <1>2, <1>6, <1>7, <1>8, <1>9 DEF ThreadsOK

\* LSendBufferChunk gets a chunk that is nowhere else, and none of whose bytes
\* is in use; the old one, if no buffer keeps it, is about to be given back.
LEMMA ReplacePreserves ==
    ASSUME IInv, NEW t \in Threads, pc[t] \in {"popFirst", "pop"}, NEW c \in Chunks, Replace(t, c),
           c \in created' /\ created' \subseteq created \cup {c},
           freeChunks' \in Seq(Chunks), Free' = Free \ {c}, ListedOnce', created \subseteq created',
           \A u \in Threads : current[u] # c /\ giving[u] # c, \A b \in Buffers : owner[b] # c,
           UNCHANGED <<open, usedSize, owner, start, size, want, filling, failed>>
    PROVE  IInv'
<1> USE ChunksAssumption DEF IInv
<1>1. current'[t] = c /\ \A u \in Threads \ {t} : current'[u] = current[u]
  BY DEF Replace, TypeOK
<1>2. /\ \A u \in Threads \ {t} : pc'[u] = pc[u] /\ giving'[u] = giving[u]
      /\ pc'[t] \in {"giveOld", "resetFirst", "reset"} /\ (pc'[t] = "giveOld" <=> giving'[t] # None)
      /\ IF current[t] # None /\ CutFrom(current[t]) = {} THEN giving'[t] = current[t] ELSE giving'[t] = None
  BY DEF Replace, TypeOK, ThreadsOK, ThreadOK
<1>3. TypeOK'
  BY DEF TypeOK, Replace, Step
<1>4. PlacesOK'
  <2>1. \A u, w \in Threads : current'[u] # None /\ current'[w] = current'[u] => w = u
    BY <1>1 DEF PlacesOK
  <2>2. \A u, w \in Threads : giving'[u] # None /\ giving'[w] = giving'[u] => w = u
    BY <1>2 DEF PlacesOK
  <2>3. \A u, w \in Threads : giving'[u] # None => current'[w] # giving'[u]
    BY <1>1, <1>2 DEF PlacesOK
  <2>4. \A u \in Threads : current'[u] \notin Free' /\ giving'[u] \notin Free'
    <3>1. None \notin Free'
      BY DEF TypeOK, Free
    <3> QED
      BY <1>1, <1>2, <3>1 DEF PlacesOK
  <2> QED
    BY <2>1, <2>2, <2>3, <2>4 DEF PlacesOK
<1>5. ReturnedOK'
  BY <1>1, <1>2 DEF ReturnedOK, CutFrom
<1>6. CreatedOK'
  <2>1. \A u \in Threads : current'[u] \in created' \cup {None} /\ giving'[u] \in created' \cup {None}
    BY <1>1, <1>2 DEF CreatedOK
  <2>2. \A d \in created : d # c => Somewhere(d)'
    <3> SUFFICES ASSUME NEW d \in created, d # c PROVE Somewhere(d)'
      OBVIOUS
    <3>1. CASE current[t] = d
      <4>1. CASE CutFrom(d) = {}
        BY <1>2, <3>1, <4>1 DEF Somewhere, TypeOK
      <4>2. CASE CutFrom(d) # {}
        BY <4>2 DEF Somewhere, CutFrom
      <4> QED
        BY <4>1, <4>2
    <3>2. CASE current[t] # d
      <4>1. giving[t] = None
        BY DEF ThreadsOK, ThreadOK
      <4>2. d # None
        BY DEF TypeOK
      <4>3. Somewhere(d)
        BY DEF CreatedOK
      <4> QED
        BY <1>1, <1>2, <3>2, <4>1, <4>2, <4>3 DEF Somewhere
    <3> QED
      BY <3>1, <3>2
  <2>3. Somewhere(c)'
    BY <1>1 DEF Somewhere
  <2>4. Free' \subseteq created' /\ \A b \in Buffers : owner'[b] \in created' \cup {None}
    BY DEF CreatedOK
  <2> QED
    BY <2>1, <2>2, <2>3, <2>4 DEF CreatedOK
<1>7. \A u \in Threads \ {t} : ThreadOK(u)'
  BY <1>1, <1>2, <1>3, ThreadSame DEF TypeOK, ThreadsOK
<1>8. ThreadOK(t)'
  BY <1>1, <1>2 DEF ThreadOK, ThreadsOK
<1>9. BuffersOK' /\ Disjoint' /\ FailedOK'
  BY DEF BuffersOK, BufferOK, Disjoint, FailedOK
<1> QED
  BY <1>3, <1>4, <1>5, <1>6, <1>7, <1>8, <1>9 DEF ThreadsOK

LEMMA PopPreserves ==
    ASSUME IInv, NEW t \in Threads, PopFree(t) \/ PopNew(t)
    PROVE  IInv'
<1> USE ChunksAssumption DEF IInv
<1>1. CASE PopFree(t)
  <2>0. pc[t] \in {"popFirst", "pop"} /\ freeChunks # <<>> /\ freeChunks' = SubSeq(freeChunks, 1, Len(freeChunks) - 1)
    BY <1>1 DEF PopFree
  <2>1. PICK c \in Chunks : c = freeChunks[Len(freeChunks)] /\ c \in Free
    BY <2>0, FreeLast
  <2>2. Free' = Free \ {c} /\ ListedOnce' /\ freeChunks' \in Seq(Chunks)
    BY <2>0, <2>1, FreeLast DEF PlacesOK
  <2>3. c \in created /\ created' = created /\ Replace(t, c)
    BY <1>1, <2>1 DEF PopFree, CreatedOK
  <2>4. (\A u \in Threads : current[u] # c /\ giving[u] # c) /\ \A b \in Buffers : owner[b] # c
    BY <2>1 DEF PlacesOK, ReturnedOK
  <2>5. UNCHANGED <<open, usedSize, owner, start, size, want, filling, failed>>
    BY <1>1 DEF PopFree
  <2> QED
    BY <2>0, <2>2, <2>3, <2>4, <2>5, ReplacePreserves
<1>2. CASE PopNew(t)
  <2>1. PICK c \in Chunks \ created : Replace(t, c) /\ created' = created \cup {c}
    BY <1>2 DEF PopNew
  <2>2. Free' = Free /\ ListedOnce' /\ freeChunks' \in Seq(Chunks) /\ c \notin Free
    BY <1>2, <2>1 DEF PopNew, Free, ListedOnce, PlacesOK, TypeOK, CreatedOK
  <2>4. (\A u \in Threads : current[u] # c /\ giving[u] # c) /\ \A b \in Buffers : owner[b] # c
    BY <2>1 DEF CreatedOK
  <2>5. pc[t] \in {"popFirst", "pop"} /\ UNCHANGED <<open, usedSize, owner, start, size, want, filling, failed>>
    BY <1>2 DEF PopNew
  <2> QED
    BY <2>1, <2>2, <2>4, <2>5, ReplacePreserves
<1> QED
  BY <1>1, <1>2

\* Reset: the thread is alone with a chunk of which no buffer is left.
LEMMA ResetPreserves == ASSUME IInv, NEW t \in Threads, Reset(t) PROVE IInv'
<1> USE ChunksAssumption DEF IInv
<1>1. PICK c \in Chunks : c = current[t]
  BY DEF Reset, TypeOK, ThreadsOK, ThreadOK
<1>2. /\ pc[t] \in {"resetFirst", "reset"}
      /\ pc' = [pc EXCEPT ![t] = IF pc[t] = "resetFirst" THEN "check" ELSE "open"]
      /\ open' = [open EXCEPT ![c] = FALSE] /\ usedSize' = [usedSize EXCEPT ![c] = 0]
      /\ UNCHANGED <<current, freeChunks, created, owner, start, size, want, filling, giving, failed>>
  BY <1>1 DEF Reset
<1>3. TypeOK'
  BY <1>2, ChunkSizeAssumption DEF TypeOK, Step
<1>4. PlacesOK' /\ ReturnedOK' /\ CreatedOK'
  BY <1>2, PlacesSame
<1>5. \A b \in Buffers : owner[b] # c
  BY <1>1, <1>2 DEF ThreadsOK, ThreadOK
<1>6. \A u \in Threads \ {t} : current[u] # c
  BY <1>1 DEF PlacesOK
<1>7. \A u \in Threads \ {t} : ThreadOK(u)'
  BY <1>2, <1>3, <1>6, ThreadSame DEF TypeOK, ThreadsOK
<1>8. ThreadOK(t)'
  <2>1. want[t] > ChunkSize \/ want[t] + 0 <= ChunkSize
    BY ChunkSizeAssumption, MaxPacketAssumption DEF TypeOK
  <2>2. pc'[t] \in {"check", "open"} /\ open'[c] = FALSE /\ usedSize'[c] = 0 /\ current'[t] = c
    BY <1>1, <1>2 DEF TypeOK
  <2> QED
    BY <1>2, <2>1, <2>2 DEF ThreadOK, ThreadsOK
<1>9. BuffersOK' /\ Disjoint' /\ FailedOK'
  BY <1>2, <1>5 DEF BuffersOK, BufferOK, Disjoint, FailedOK, TypeOK
<1> QED
  BY <1>3, <1>4, <1>7, <1>8, <1>9 DEF ThreadsOK

\* Chunk::Open: the new buffer begins where the others of its chunk have ended.
LEMMA ChunkOpenPreserves ==
    ASSUME IInv, NEW t \in Threads, NEW b \in Buffers, ChunkOpen(t, b) PROVE IInv'
<1> USE ChunksAssumption DEF IInv
<1>1. PICK c \in Chunks : c = current[t]
  BY DEF ChunkOpen, TypeOK, ThreadsOK, ThreadOK
<1>2. PICK n \in Nat : n = want[t]
  BY MaxPacketAssumption DEF TypeOK
<1>3. PICK m \in 0..ChunkSize : m = usedSize[c]
  BY DEF TypeOK
<1>4. /\ pc[t] = "open" /\ owner[b] = None /\ pc' = [pc EXCEPT ![t] = "filling"]
      /\ open' = [open EXCEPT ![c] = TRUE] /\ owner' = [owner EXCEPT ![b] = c]
      /\ start' = [start EXCEPT ![b] = m] /\ size' = [size EXCEPT ![b] = n]
      /\ filling' = [filling EXCEPT ![t] = b]
      /\ UNCHANGED <<current, freeChunks, created, usedSize, want, giving, failed>>
  BY <1>1, <1>2, <1>3 DEF ChunkOpen
<1>5. TypeOK'
  BY <1>4, ChunkSizeAssumption DEF TypeOK, Step
<1>6. n + m <= ChunkSize /\ filling[t] = None /\ giving[t] = None
  <2>1. n <= ChunkSize - m
    BY <1>1, <1>2, <1>3 DEF ChunkOpen, FreeSize
  <2>2. n + m <= ChunkSize
    BY <2>1, ChunkSizeAssumption
  <2> QED
    BY <1>4, <2>2 DEF ThreadsOK, ThreadOK
<1>7. FailedOK'
  BY <1>4 DEF FailedOK
<1>8. Free' = Free /\ (ListedOnce' <=> ListedOnce)
  BY <1>4 DEF Free, ListedOnce
<1>9. owner'[b] = c /\ \A d \in Buffers \ {b} : owner'[d] = owner[d]
  BY <1>4 DEF TypeOK
<1>10. PlacesOK' /\ ReturnedOK'
  <2>1. \A u \in Threads : giving[u] # c
    BY <1>1 DEF PlacesOK
  <2>2. c \notin Free
    BY <1>1 DEF PlacesOK
  <2> QED
    BY <1>4, <1>8, <1>9, <2>1, <2>2 DEF PlacesOK, ReturnedOK
<1>11. CreatedOK'
  <2>1. c \in created
    BY <1>1 DEF CreatedOK
  <2>2. \A d \in created : Somewhere(d) => Somewhere(d)'
    BY <1>4, <1>8, <1>9 DEF Somewhere, TypeOK
  <2> QED
    BY <1>4, <1>8, <1>9, <2>1, <2>2 DEF CreatedOK
<1>12. \A u \in Threads \ {t} : current[u] # c
  BY <1>1 DEF PlacesOK
<1>13. \A u \in Threads : filling[u] # b
  <2> SUFFICES ASSUME NEW u \in Threads, filling[u] = b PROVE FALSE
    OBVIOUS
  <2>1. owner[b] = current[u] /\ current[u] # None
    BY DEF ThreadsOK, ThreadOK
  <2> QED
    BY <1>4, <2>1
<1>14. \A u \in Threads \ {t} : ThreadOK(u)'
  <2> SUFFICES ASSUME NEW u \in Threads \ {t} PROVE ThreadOK(u)'
    OBVIOUS
  <2>1. ThreadOK(u) /\ pc'[u] = pc[u] /\ filling'[u] = filling[u] /\ want'[u] = want[u]
        /\ current'[u] = current[u] /\ giving'[u] = giving[u]
    BY <1>4 DEF ThreadsOK, TypeOK
  <2>2. current[u] # None => open'[current[u]] = open[current[u]] /\ usedSize'[current[u]] = usedSize[current[u]]
                             /\ \A d \in Buffers : owner'[d] = current[u] => owner[d] = current[u]
    BY <1>4, <1>9, <1>12 DEF TypeOK
  <2>3. filling[u] # None => /\ owner'[filling[u]] = owner[filling[u]]
                             /\ start'[filling[u]] = start[filling[u]]
                             /\ size'[filling[u]] = size[filling[u]]
    BY <1>4, <1>13 DEF TypeOK
  <2> QED
    BY <1>5, <2>1, <2>2, <2>3, ThreadSame
<1>15. ThreadOK(t)'
  <2>1. /\ pc'[t] = "filling" /\ filling'[t] = b /\ current'[t] = c /\ giving'[t] = None
        /\ owner'[b] = c /\ start'[b] = m /\ size'[b] = n /\ want'[t] = n /\ usedSize'[c] = m
        /\ open'[c] = TRUE
    BY <1>1, <1>2, <1>3, <1>4, <1>6 DEF TypeOK
  <2>2. m + n <= ChunkSize
    BY <1>6
  <2> QED
    BY <2>1, <2>2 DEF ThreadOK
<1>16. ASSUME NEW d \in Buffers \ {b} PROVE start'[d] = start[d] /\ size'[d] = size[d]
  BY <1>4 DEF TypeOK
<1>17. ASSUME NEW d \in Buffers \ {b}, owner[d] = c PROVE start[d] + size[d] <= m
  <2>1. \A u \in Threads : filling[u] # d
    <3> SUFFICES ASSUME NEW u \in Threads, filling[u] = d PROVE FALSE
      OBVIOUS
    <3>1. current[u] = c
      BY <1>17 DEF ThreadsOK, ThreadOK
    <3> QED
      BY <1>6, <1>12, <3>1
  <2> QED
    BY <1>3, <1>17, <2>1 DEF BuffersOK, BufferOK
<1>18. BuffersOK'
  <2> SUFFICES ASSUME NEW d \in Buffers \ {b} PROVE BufferOK(d)'
    BY <1>4 DEF BuffersOK, BufferOK, TypeOK
  <2>1. ASSUME NEW u \in Threads, filling[u] = d PROVE filling'[u] = d
    BY <1>4, <1>6, <2>1 DEF TypeOK
  <2> QED
    BY <1>4, <1>9, <1>16, <2>1 DEF BuffersOK, BufferOK
<1>19. Disjoint'
  <2> SUFFICES ASSUME NEW d \in Buffers, NEW e \in Buffers, owner'[d] # None, owner'[e] = owner'[d], d # e
               PROVE  start'[d] + size'[d] <= start'[e] \/ start'[e] + size'[e] <= start'[d]
    BY DEF Disjoint
  <2>1. start'[b] = m
    BY <1>4 DEF TypeOK
  <2>2. CASE d = b
    BY <1>9, <1>16, <1>17, <2>1, <2>2
  <2>3. CASE e = b
    BY <1>9, <1>16, <1>17, <2>1, <2>3
  <2>4. CASE d # b /\ e # b
    BY <1>9, <1>16, <2>4 DEF Disjoint
  <2> QED
    BY <2>2, <2>3, <2>4
<1> QED
  BY <1>5, <1>7, <1>10, <1>11, <1>14, <1>15, <1>18, <1>19 DEF ThreadsOK

\* Its failure: what fits is given, and nobody else has the chunk open.
LEMMA ChunkOpenFailsPreserves == ASSUME IInv, NEW t \in Threads, ChunkOpenFails(t) PROVE IInv'
<1> USE DEF IInv
<1>1. PICK c \in Chunks : c = current[t]
  BY DEF ChunkOpenFails, TypeOK, ThreadsOK, ThreadOK
<1>2. /\ pc[t] = "open" /\ UNCHANGED <<current, freeChunks, created, open, usedSize, owner, start,
                                         size, pc, want, filling, giving>>
  BY DEF ChunkOpenFails
<1>3. ~open[c] /\ (want[t] > ChunkSize \/ want[t] + usedSize[c] <= ChunkSize)
  BY <1>1, <1>2, ChunksAssumption DEF ThreadsOK, ThreadOK
<1>4. want[t] > ChunkSize
  <2>1. want[t] > ChunkSize \/ want[t] > ChunkSize - usedSize[c]
    BY <1>1, <1>3 DEF ChunkOpenFails, FreeSize
  <2>2. want[t] \in Nat /\ usedSize[c] \in Nat
    BY DEF TypeOK
  <2> QED
    BY <1>3, <2>1, <2>2, ChunkSizeAssumption
<1>5. FailedOK'
  BY <1>4 DEF ChunkOpenFails, FailedOK
<1>6. PlacesOK' /\ ReturnedOK' /\ CreatedOK'
  BY <1>2, PlacesSame
<1>7. TypeOK' /\ ThreadsOK' /\ BuffersOK' /\ Disjoint'
  BY <1>2 DEF TypeOK, ThreadsOK, ThreadOK, BuffersOK, BufferOK, Disjoint
<1> QED
  BY <1>5, <1>6, <1>7

\* Close: the bytes written end where the next buffer will begin.
LEMMA ClosePreserves ==
    ASSUME IInv, NEW t \in Threads, NEW n \in 1..MaxPacket, n <= want[t], Close(t, n) PROVE IInv'
<1> USE ChunksAssumption DEF IInv
<1>1. PICK b \in Buffers : b = filling[t]
  BY DEF Close, TypeOK, ThreadsOK, ThreadOK
<1>2. PICK c \in Chunks : c = owner[b] /\ c = current[t]
  BY <1>1 DEF Close, TypeOK, ThreadsOK, ThreadOK
<1>3. PICK m \in 0..ChunkSize : m = usedSize[c] /\ start[b] = m
  BY <1>1, <1>2 DEF Close, TypeOK, ThreadsOK, ThreadOK
<1>4. PICK k \in Nat : k = size[b] /\ n <= k /\ m + k <= ChunkSize
  BY <1>1, <1>2, <1>3 DEF Close, TypeOK, ThreadsOK, ThreadOK
<1>5. /\ pc[t] = "filling" /\ open[c] /\ pc' = [pc EXCEPT ![t] = "idle"]
      /\ size' = [size EXCEPT ![b] = n] /\ open' = [open EXCEPT ![c] = FALSE]
      /\ usedSize' = [usedSize EXCEPT ![c] = m + n] /\ filling' = [filling EXCEPT ![t] = None]
      /\ want' = [want EXCEPT ![t] = 0]
      /\ UNCHANGED <<current, freeChunks, created, owner, start, giving>>
  BY <1>1, <1>2, <1>3 DEF Close, ThreadsOK, ThreadOK
<1>6. m + n \in 0..ChunkSize
  BY <1>4, ChunkSizeAssumption
<1>7. TypeOK'
  BY <1>5, <1>6, MaxPacketAssumption DEF TypeOK, Step
<1>8. FailedOK'
  <2>1. ~(n > k)
    BY <1>4
  <2> QED
    BY <1>1, <1>2, <1>4, <1>5, <2>1 DEF Close, FailedOK
<1>9. PlacesOK' /\ ReturnedOK' /\ CreatedOK'
  BY <1>5, PlacesSame
<1>10. \A u \in Threads \ {t} : current[u] # c
  BY <1>2 DEF PlacesOK
<1>11. \A u \in Threads \ {t} : filling[u] # b
  <2> SUFFICES ASSUME NEW u \in Threads \ {t}, filling[u] = b PROVE FALSE
    OBVIOUS
  <2>1. owner[b] = current[u]
    BY DEF ThreadsOK, ThreadOK
  <2> QED
    BY <1>2, <1>10, <2>1
<1>12. \A u \in Threads \ {t} : ThreadOK(u)'
  <2> SUFFICES ASSUME NEW u \in Threads \ {t} PROVE ThreadOK(u)'
    OBVIOUS
  <2>1. ThreadOK(u) /\ pc'[u] = pc[u] /\ filling'[u] = filling[u] /\ want'[u] = want[u]
        /\ current'[u] = current[u] /\ giving'[u] = giving[u]
    BY <1>5 DEF ThreadsOK, TypeOK
  <2>2. current[u] # None => open'[current[u]] = open[current[u]] /\ usedSize'[current[u]] = usedSize[current[u]]
    BY <1>5, <1>10 DEF TypeOK
  <2>3. filling[u] # None => size'[filling[u]] = size[filling[u]]
    BY <1>5, <1>11 DEF TypeOK
  <2> QED
    BY <1>5, <1>7, <2>1, <2>2, <2>3, ThreadSame
<1>13. ThreadOK(t)'
  <2>1. pc'[t] = "idle" /\ filling'[t] = None /\ open'[c] = FALSE
    BY <1>5 DEF TypeOK
  <2> QED
    BY <1>2, <1>5, <2>1 DEF ThreadOK, ThreadsOK
<1>14. BuffersOK'
  <2> SUFFICES ASSUME NEW d \in Buffers, owner[d] # None PROVE BufferOK(d)'
    BY <1>5 DEF BuffersOK, BufferOK
  <2>1. CASE d = b
    <3>1. start'[b] + size'[b] = usedSize'[c] /\ usedSize'[c] \in Nat
      BY <1>3, <1>5, <1>6 DEF TypeOK
    <3>2. start'[b] + size'[b] <= usedSize'[c]
      BY <3>1
    <3> QED
      BY <1>2, <1>5, <2>1, <3>2 DEF BufferOK
  <2>2. CASE d # b
    <3>1. ASSUME NEW u \in Threads, filling[u] = d PROVE filling'[u] = d
      BY <1>1, <1>5, <2>2, <3>1 DEF TypeOK
    <3>2. owner'[d] = owner[d] /\ start'[d] = start[d] /\ size'[d] = size[d] /\ start[d] \in Nat /\ size[d] \in Nat
      BY <1>5, <2>2 DEF TypeOK
    <3>3. owner[d] \in Chunks /\ usedSize[owner[d]] \in Nat
      BY DEF TypeOK
    <3>4. usedSize'[owner[d]] = IF owner[d] = c THEN m + n ELSE usedSize[owner[d]]
      BY <1>5, <3>3 DEF TypeOK
    <3>5. usedSize[owner[d]] <= usedSize'[owner[d]]
      BY <1>3, <3>3, <3>4
    <3>6. start[d] + size[d] <= usedSize[owner[d]] => start[d] + size[d] <= usedSize'[owner[d]]
      BY <1>6, <3>2, <3>3, <3>4, <3>5
    <3> QED
      BY <3>1, <3>2, <3>6 DEF BuffersOK, BufferOK
  <2> QED
    BY <2>1, <2>2
<1>15. Disjoint'
  <2> SUFFICES ASSUME NEW d \in Buffers, NEW e \in Buffers, owner[d] # None, owner[e] = owner[d], d # e
               PROVE  start[d] + size'[d] <= start[e] \/ start[e] + size'[e] <= start[d]
    BY <1>5 DEF Disjoint
  <2>1. \A x \in Buffers : size'[x] <= size[x] /\ size[x] \in Nat /\ size'[x] \in Nat /\ start[x] \in Nat
    BY <1>4, <1>5 DEF TypeOK
  <2>2. start[d] + size[d] <= start[e] \/ start[e] + size[e] <= start[d]
    BY DEF Disjoint
  <2> QED
    BY <2>1, <2>2
<1> QED
  BY <1>7, <1>8, <1>9, <1>12, <1>13, <1>14, <1>15 DEF ThreadsOK

\* The last reference to a buffer goes, and maybe with it the last to its chunk.
LEMMA DropPreserves ==
    ASSUME IInv, NEW t \in Threads, NEW b \in Buffers, Drop(t, b) PROVE IInv'
<1> USE ChunksAssumption DEF IInv
<1>1. PICK c \in Chunks : c = owner[b]
  BY DEF Drop, TypeOK
<1>2. /\ pc[t] = "idle" /\ \A u \in Threads : filling[u] # b
      /\ owner' = [owner EXCEPT ![b] = None]
      /\ start' = [start EXCEPT ![b] = 0] /\ size' = [size EXCEPT ![b] = 0]
      /\ UNCHANGED <<current, freeChunks, created, open, usedSize, want, filling, failed>>
  BY DEF Drop
<1>3. IF LastReference(b)
      THEN giving' = [giving EXCEPT ![t] = c] /\ pc' = [pc EXCEPT ![t] = "give"]
      ELSE UNCHANGED <<giving, pc>>
  BY <1>1 DEF Drop
<1>4. TypeOK'
  BY <1>2, <1>3 DEF TypeOK, Step
<1>5. Free' = Free /\ (ListedOnce' <=> ListedOnce)
  BY <1>2 DEF Free, ListedOnce
<1>6. giving[t] = None
  BY <1>2 DEF ThreadsOK, ThreadOK
<1>7. c \notin Free /\ \A u \in Threads : giving[u] # c
  BY <1>1 DEF ReturnedOK
<1>8. \A u \in Threads \ {t} : giving'[u] = giving[u] /\ pc'[u] = pc[u]
  BY <1>3 DEF TypeOK
<1>9. giving'[t] = IF LastReference(b) THEN c ELSE None
  BY <1>3, <1>6 DEF TypeOK
<1>10. owner'[b] = None /\ \A d \in Buffers \ {b} : owner'[d] = owner[d] /\ start'[d] = start[d] /\ size'[d] = size[d]
  BY <1>2 DEF TypeOK
<1>11. LastReference(b) => /\ \A u \in Threads : current[u] # c
                           /\ \A d \in Buffers \ {b} : owner[d] # c
  BY <1>1 DEF LastReference, CutFrom, Using
<1>12. PlacesOK'
  <2>1. \A u, w \in Threads : giving'[u] # None /\ giving'[w] = giving'[u] => w = u
    BY <1>7, <1>8, <1>9 DEF PlacesOK
  <2>2. \A u, w \in Threads : giving'[u] # None => current'[w] # giving'[u]
    BY <1>2, <1>8, <1>9, <1>11 DEF PlacesOK
  <2>3. None \notin Free
    BY LenProperties, ElementOfSeq DEF TypeOK, Free
  <2>4. \A u \in Threads : giving'[u] \notin Free'
    BY <1>5, <1>7, <1>8, <1>9, <2>3 DEF PlacesOK
  <2> QED
    BY <1>2, <1>5, <2>1, <2>2, <2>4 DEF PlacesOK
<1>13. ReturnedOK'
  BY <1>5, <1>8, <1>9, <1>10, <1>11 DEF ReturnedOK
<1>14. CreatedOK'
  <2>1. c \in created
    BY <1>1 DEF CreatedOK
  <2>2. ASSUME NEW d \in created PROVE Somewhere(d)'
    <3>0. Somewhere(d) /\ d # None
      BY DEF CreatedOK, TypeOK
    <3>1. CASE d # c
      <4>1. \A u \in Threads : giving[u] = d => giving'[u] = d
        BY <1>6, <1>8, <3>0
      <4>2. \A x \in Buffers : owner[x] = d => owner'[x] = d
        BY <1>1, <1>10, <3>1
      <4> QED
        BY <1>2, <1>5, <3>0, <4>1, <4>2 DEF Somewhere
    <3>2. CASE d = c
      <4>1. CASE LastReference(b)
        BY <1>9, <3>2, <4>1 DEF Somewhere
      <4>2. CASE ~LastReference(b)
        <5>1. (\E u \in Threads : current[u] = c) \/ \E x \in Buffers \ {b} : owner[x] = c
          BY <1>1, <4>2 DEF LastReference, CutFrom, Using
        <5> QED
          BY <1>2, <1>10, <3>2, <5>1 DEF Somewhere
      <4> QED
        BY <4>1, <4>2
    <3> QED
      BY <3>1, <3>2
  <2>3. \A u \in Threads : giving'[u] \in created \cup {None}
    BY <1>8, <1>9, <2>1 DEF CreatedOK
  <2>4. \A d \in Buffers : owner'[d] \in created \cup {None}
    BY <1>10 DEF CreatedOK
  <2> QED
    BY <1>2, <1>5, <2>2, <2>3, <2>4 DEF CreatedOK
<1>15. \A u \in Threads \ {t} : ThreadOK(u)'
  <2> SUFFICES ASSUME NEW u \in Threads \ {t} PROVE ThreadOK(u)'
    OBVIOUS
  <2>1. ThreadOK(u) /\ pc'[u] = pc[u] /\ giving'[u] = giving[u]
    BY <1>8 DEF ThreadsOK
  <2>2. current[u] # None => \A d \in Buffers : owner'[d] = current[u] => owner[d] = current[u]
    BY <1>10
  <2>3. filling[u] # None => /\ owner'[filling[u]] = owner[filling[u]]
                             /\ start'[filling[u]] = start[filling[u]]
                             /\ size'[filling[u]] = size[filling[u]]
    BY <1>2, <1>10 DEF TypeOK
  <2> QED
    BY <1>2, <1>4, <2>1, <2>2, <2>3, ThreadSame
<1>16. ThreadOK(t)'
  <2>1. pc'[t] = IF LastReference(b) THEN "give" ELSE "idle"
    BY <1>2, <1>3 DEF TypeOK
  <2> QED
    BY <1>2, <1>6, <1>9, <2>1 DEF ThreadOK, ThreadsOK
<1>17. BuffersOK' /\ Disjoint' /\ FailedOK'
  BY <1>2, <1>10 DEF BuffersOK, BufferOK, Disjoint, FailedOK
<1> QED
  BY <1>4, <1>12, <1>13, <1>14, <1>15, <1>16, <1>17 DEF ThreadsOK

\* PushGlobal: the chunk goes from its deleter to the list.
LEMMA PushGlobalPreserves == ASSUME IInv, NEW t \in Threads, PushGlobal(t) PROVE IInv'
<1> USE ChunksAssumption DEF IInv
<1>1. PICK c \in Chunks : c = giving[t]
  BY DEF PushGlobal, TypeOK, ThreadsOK, ThreadOK
<1>2. PICK step \in {"reset", "idle"} :
        /\ pc' = [pc EXCEPT ![t] = step] /\ (step = "reset" <=> pc[t] = "giveOld")
        /\ pc[t] \in {"giveOld", "give"}
        /\ freeChunks' = Append(freeChunks, c) /\ giving' = [giving EXCEPT ![t] = None]
        /\ UNCHANGED <<current, created, open, usedSize, owner, start, size, want, filling, failed>>
  BY <1>1 DEF PushGlobal, TypeOK
<1>3. c \notin Free
  BY <1>1 DEF PlacesOK
<1>4. Free' = Free \cup {c} /\ ListedOnce' /\ freeChunks' \in Seq(Chunks)
  BY <1>2, <1>3, FreeAppend DEF PlacesOK
<1>5. TypeOK'
  BY <1>2, <1>4 DEF TypeOK, Step
<1>6. giving'[t] = None /\ \A u \in Threads \ {t} : giving'[u] = giving[u] /\ pc'[u] = pc[u]
  BY <1>2 DEF TypeOK
<1>7. \A u \in Threads : giving'[u] # c /\ current[u] # c
  BY <1>1, <1>6 DEF PlacesOK
<1>8. PlacesOK'
  <2>1. None \notin Free
    BY LenProperties, ElementOfSeq DEF TypeOK, Free
  <2>2. \A u \in Threads : current'[u] \notin Free' /\ giving'[u] \notin Free'
    BY <1>2, <1>4, <1>6, <1>7, <2>1 DEF PlacesOK
  <2>3. \A u, w \in Threads : giving'[u] # None /\ giving'[w] = giving'[u] => w = u
    BY <1>6 DEF PlacesOK
  <2>4. \A u, w \in Threads : giving'[u] # None => current'[w] # giving'[u]
    BY <1>2, <1>6 DEF PlacesOK
  <2> QED
    BY <1>2, <1>4, <2>2, <2>3, <2>4 DEF PlacesOK
<1>9. ReturnedOK'
  BY <1>1, <1>2, <1>4, <1>6 DEF ReturnedOK
<1>10. CreatedOK'
  <2>1. c \in created
    BY <1>1 DEF CreatedOK
  <2>2. \A d \in created : Somewhere(d)'
    <3> TAKE d \in created
    <3>1. Somewhere(d)
      BY DEF CreatedOK
    <3>2. d # c => \A u \in Threads : giving[u] = d => giving'[u] = d
      BY <1>1, <1>6
    <3> QED
      BY <1>2, <1>4, <3>1, <3>2 DEF Somewhere
  <2> QED
    BY <1>2, <1>4, <1>6, <2>1, <2>2 DEF CreatedOK
<1>11. \A u \in Threads \ {t} : ThreadOK(u)'
  BY <1>2, <1>5, <1>6, ThreadSame DEF ThreadsOK
<1>12. ThreadOK(t)'
  <2>1. pc'[t] = step /\ ThreadOK(t)
    BY <1>2 DEF TypeOK, ThreadsOK
  <2> QED
    BY <1>2, <1>6, <2>1 DEF ThreadOK
<1>13. BuffersOK' /\ Disjoint' /\ FailedOK'
  BY <1>2 DEF BuffersOK, BufferOK, Disjoint, FailedOK
<1> QED
  BY <1>5, <1>8, <1>9, <1>10, <1>11, <1>12, <1>13 DEF ThreadsOK

-----------------------------------------------------------------------------
(* The theorems.                                                           *)

\* The inductive invariant holds at the start, when no chunk exists.
LEMMA InitInv == Init => IInv
<1> SUFFICES ASSUME Init PROVE IInv
  OBVIOUS
<1> USE DEF Init
<1>1. Free = {} /\ ListedOnce
  BY DEF Free, ListedOnce
<1>2. TypeOK
  BY ChunkSizeAssumption, MaxPacketAssumption, EmptySeq DEF TypeOK, Step
<1>3. PlacesOK /\ ReturnedOK /\ CreatedOK
  BY <1>1 DEF PlacesOK, ReturnedOK, CreatedOK
<1>4. ThreadsOK /\ BuffersOK /\ Disjoint /\ FailedOK
  BY DEF ThreadsOK, ThreadOK, BuffersOK, BufferOK, Disjoint, FailedOK
<1> QED
  BY <1>2, <1>3, <1>4 DEF IInv

\* The inductive invariant holds in every reachable state.
THEOREM Invariance == Spec => []IInv
<1>1. IInv /\ [Next]_vars => IInv'
  <2> SUFFICES ASSUME IInv, [Next]_vars PROVE IInv'
    OBVIOUS
  <2>1. CASE UNCHANGED vars
    <3>1. UNCHANGED <<current, freeChunks, created, owner, giving>>
      BY <2>1 DEF vars
    <3>2. PlacesOK' /\ ReturnedOK' /\ CreatedOK'
      BY <3>1, PlacesSame
    <3>3. TypeOK' /\ ThreadsOK' /\ BuffersOK' /\ Disjoint' /\ FailedOK'
      BY <2>1 DEF vars, IInv, TypeOK, ThreadsOK, ThreadOK, BuffersOK, BufferOK, Disjoint, FailedOK
    <3> QED
      BY <3>2, <3>3 DEF IInv
  <2>2. CASE Next
    BY <2>2, OpenPreserves, CheckPreserves, PopPreserves, ResetPreserves, ChunkOpenPreserves,
       ChunkOpenFailsPreserves, ClosePreserves, DropPreserves, PushGlobalPreserves DEF Next
  <2> QED
    BY <2>1, <2>2
<1> QED
  BY InitInv, <1>1, PTL DEF Spec

\* Every variable keeps its type: a chunk is never used beyond its size.
THEOREM TypeCorrectness == Spec => []TypeOK
<1>1. IInv => TypeOK
  BY DEF IInv
<1> QED
  BY Invariance, <1>1, PTL

\* What a WSASend is reading is never overwritten: two buffers that are alive
\* share no byte, however often their chunk was reused and by whichever threads.
THEOREM BuffersDisjoint == Spec => []Disjoint
<1>1. IInv => Disjoint
  BY DEF IInv
<1> QED
  BY Invariance, <1>1, PTL

\* Whatever the sizes of the packets, the only failure is that of one longer than a
\* chunk, and no buffer reaches beyond its chunk.
THEOREM OnlyTooLong == Spec => []OnlyTooLongFails
<1>1. ASSUME IInv PROVE OnlyTooLongFails
  <2>1. ASSUME NEW b \in Buffers, owner[b] # None PROVE start[b] + size[b] <= ChunkSize
    <3>1. owner[b] \in Chunks /\ start[b] \in Nat /\ size[b] \in Nat
      BY <1>1, <2>1 DEF IInv, TypeOK
    <3>2. CASE \E t \in Threads : filling[t] = b
      <4>1. PICK t \in Threads : filling[t] = b
        BY <3>2
      <4>2. b # None
        BY ChunksAssumption
      <4> QED
        BY <1>1, <4>1, <4>2 DEF IInv, ThreadsOK, ThreadOK
    <3>3. CASE start[b] + size[b] <= usedSize[owner[b]]
      <4>1. usedSize[owner[b]] \in 0..ChunkSize
        BY <1>1, <3>1 DEF IInv, TypeOK
      <4> QED
        BY <3>1, <3>3, <4>1, ChunkSizeAssumption
    <3> QED
      BY <1>1, <2>1, <3>2, <3>3 DEF IInv, BuffersOK, BufferOK
  <2> QED
    BY <1>1, <2>1 DEF IInv, FailedOK, OnlyTooLongFails
<1> QED
  BY Invariance, <1>1, PTL

\* A finite set with at most one element
LEMMA AtMostOne ==
    ASSUME NEW S, \A x, y \in S : x = y
    PROVE  /\ IsFiniteSet(S) /\ Cardinality(S) \in {0, 1}
           /\ Cardinality(S) = 0 <=> S = {}
<1>1. CASE S = {}
  BY <1>1, FS_EmptySet
<1>2. CASE S # {}
  <2>1. PICK x : S = {x}
    BY <1>2
  <2>2. IsFiniteSet({x}) /\ Cardinality({x}) = 1
    BY FS_Singleton
  <2> QED
    BY <1>2, <2>1, <2>2
<1> QED
  BY <1>1, <1>2

\* A chunk belongs to one thread, is on its way to m_sendBufferChunks or is
\* listed there once, and no chunk that was created is lost.
THEOREM ChunkHasOnePlace == Spec => []OnePlace
<1>1. IInv => OnePlace
  <2> SUFFICES ASSUME IInv, NEW c \in Chunks
               PROVE  /\ Places(c) <= 1
                      /\ Using(c) = {} /\ Places(c) = 1 => CutFrom(c) = {}
                      /\ c \in created => Places(c) = 1 \/ CutFrom(c) # {}
    BY DEF OnePlace
  <2> USE ChunksAssumption DEF IInv
  <2>0. c # None
    OBVIOUS
  <2>1. Cardinality(Using(c)) \in {0, 1} /\ (Cardinality(Using(c)) = 0 <=> Using(c) = {})
    <3>1. \A t, u \in Using(c) : t = u
      BY <2>0 DEF Using, PlacesOK
    <3> QED
      BY <3>1, AtMostOne
  <2>2. Cardinality(Returning(c)) \in {0, 1} /\ (Cardinality(Returning(c)) = 0 <=> Returning(c) = {})
    <3>1. \A t, u \in Returning(c) : t = u
      BY <2>0 DEF Returning, PlacesOK
    <3> QED
      BY <3>1, AtMostOne
  <2>3. DOMAIN freeChunks = 1..Len(freeChunks)
    BY LenProperties DEF TypeOK
  <2>4. Cardinality(Listed(c)) \in {0, 1} /\ (Cardinality(Listed(c)) = 0 <=> Listed(c) = {})
    <3>1. \A i, k \in Listed(c) : i = k
      BY <2>3 DEF Listed, PlacesOK, ListedOnce
    <3> QED
      BY <3>1, AtMostOne
  <2>5. Listed(c) # {} <=> c \in Free
    BY <2>3 DEF Listed, Free
  <2>6. /\ Using(c) # {} => Returning(c) = {} /\ c \notin Free
        /\ Returning(c) # {} => c \notin Free
    BY <2>0 DEF Using, Returning, PlacesOK
  <2>7. Returning(c) # {} \/ c \in Free => CutFrom(c) = {}
    BY <2>0 DEF Returning, ReturnedOK, CutFrom
  <2>8. c \in created => Using(c) # {} \/ Returning(c) # {} \/ c \in Free \/ CutFrom(c) # {}
    BY DEF CreatedOK, Somewhere, Using, Returning, CutFrom
  <2> QED
    BY <2>1, <2>2, <2>4, <2>5, <2>6, <2>7, <2>8 DEF Places
<1> QED
  BY Invariance, <1>1, PTL

-----------------------------------------------------------------------------
(* GameRoom and its clients.                                               *)

Elems(s) == {s[i] : i \in DOMAIN s}

\* Some a is ahead of some b in the sequence s.
Before(s, a, b) == \E i, k \in DOMAIN s : i < k /\ s[i] = a /\ s[k] = b

LoginPacket == <<"C_LOGIN">>
EnterPacket == <<"C_ENTER_GAME">>
IsNumbered(packet) == packet[1] = "C_CHAT"
EnterJob(player) == <<"enter", player>>
LeaveJob(player) == <<"leave", player>>

ToServer == {LoginPacket, EnterPacket} \cup ({"C_CHAT"} \X Nat)
RoomJobs == ({"enter", "leave"} \X (Clients \cup {NoPlayer})) \cup ({"chat"} \X Clients \X Nat)
ToClient == {<<"S_LOGIN">>, <<"S_ENTER_GAME">>} \cup ({"chat"} \X Clients \X Nat)

Line == pending[Room]
Now == running[Room]
Done == finished[Room]

GameTypeOK ==
    /\ connected \in [Clients -> BOOLEAN] /\ players \in [Clients -> BOOLEAN]
    /\ currentPlayer \in [Clients -> BOOLEAN] /\ inRoom \in [Clients -> BOOLEAN]
    /\ stage \in [Clients -> {"recv", "enterRoom", "enterPush", "enterSend", "closed", "deaf"}]
    /\ hook \in [Clients -> {"none", "pending", "reset", "clear", "done"}]
    /\ members \subseteq Clients /\ rest \subseteq Clients
    /\ pending \in [{Room} -> Seq(RoomJobs)] /\ finished \in [{Room} -> Seq(RoomJobs)]
    /\ running \in [{Room} -> SUBSET RoomJobs]
    /\ toServer \in [Clients -> Seq(ToServer)] /\ inbox \in [Clients -> Seq(ToClient)]
    /\ lost \subseteq Clients /\ refused \in [Clients -> Nat]
    /\ arrived \in [Clients -> Nat] /\ chats \in [Clients -> Nat]
    /\ greeted \in [Clients -> BOOLEAN] /\ enteredAt \in [Clients -> Nat \cup {NoPlayer}]

\* The ways to the room: C_LOGIN is under way, C_ENTER_GAME is, or its handler has yet
\* to push Enter.
LoginComes(s) == LoginPacket \in Elems(toServer[s])
EnterComes(s) == EnterPacket \in Elems(toServer[s])
EnterStarts(s) == stage[s] \in {"enterRoom", "enterPush"}
Outside(s) == enteredAt[s] = NoPlayer \/ EnterComes(s) \/ EnterStarts(s)

\* A session is greeted once; C_ENTER_GAME answers the first packet it was sent, and is
\* under way or being handled once, before anything else can make the session fail.
PacketsOK(s) ==
    /\ stage[s] = "closed" => toServer[s] = <<>>
    /\ ~greeted[s] => ~LoginComes(s) /\ inbox[s] = <<>> /\ (stage[s] = "closed" \/ hook[s] = "none")
    /\ LoginComes(s) => inbox[s] = <<>> /\ hook[s] = "none"
    /\ arrived[s] \in {0, 1} /\ (enteredAt[s] # NoPlayer => arrived[s] = 1)
    /\ arrived[s] = 0 /\ inbox[s] # <<>> => stage[s] = "closed" \/ hook[s] = "none" \/ s \in lost
    /\ arrived[s] = 1 => inbox[s] # <<>>
    /\ EnterComes(s) \/ EnterStarts(s) => enteredAt[s] # NoPlayer /\ hook[s] = "none"
    /\ EnterComes(s) => ~EnterStarts(s)
    /\ ~Before(toServer[s], LoginPacket, LoginPacket)
    /\ ~Before(toServer[s], EnterPacket, EnterPacket)

\* The players of a session are there from C_LOGIN on until OnDisconnected has reset
\* them, and the handler of C_ENTER_GAME has one.
PlayersOK(s) ==
    /\ connected[s] <=> hook[s] = "none"
    /\ inbox[s] # <<>> /\ hook[s] # "done" => players[s]
    /\ hook[s] = "done" => ~players[s]
    /\ hook[s] \in {"clear", "done"} => ~currentPlayer[s]
    /\ EnterStarts(s) => currentPlayer[s]
    /\ stage[s] = "enterPush" => inRoom[s]

\* Until Enter is pushed the session is not in the room and no job will bring it there.
OutsideOK(s) == Outside(s) =>
    /\ Len(inbox[s]) <= 1 /\ s \notin members /\ s \notin rest
    /\ EnterJob(s) \notin Elems(Line) \cup Now \cup Elems(Done)
    /\ stage[s] # "enterSend" /\ (currentPlayer[s] => EnterStarts(s))

\* Who is in the room, or about to be, has a player to leave it with, or leaves it:
\* Leave is in the line and not ahead of Enter.
MembersOK(s) ==
    /\ LeaveJob(s) \in Elems(Line) \cup Now \cup Elems(Done) => hook[s] \in {"reset", "clear", "done"}
    /\ s \in members \/ EnterJob(s) \in Elems(Line) =>
         \/ hook[s] \in {"none", "pending"} /\ currentPlayer[s] /\ inRoom[s]
         \/ hook[s] \in {"reset", "clear", "done"} /\ LeaveJob(s) \in Elems(Line)
    /\ ~Before(Line, LeaveJob(s), EnterJob(s))

JobsOK ==
    /\ \A j, k \in Now : j = k
    /\ rest # {} => \E j \in Now : IsChat(j)
    /\ EnterJob(NoPlayer) \notin Elems(Line)

\* A chat that s sent after its C_ENTER_GAME: Enter is ahead of it wherever both are,
\* so that s is a member when the room broadcasts it.
OwnLate(s, j) == IsChat(j) /\ j[2] = s /\ enteredAt[s] # NoPlayer /\ j[3] > enteredAt[s]

OwnOK(s) ==
    /\ ~Outside(s) /\ connected[s] => s \in members \/ EnterJob(s) \in Elems(Line)
    /\ \A p \in Elems(toServer[s]) : IsNumbered(p) /\ enteredAt[s] # NoPlayer /\ p[2] > enteredAt[s] =>
         ~Before(toServer[s], p, EnterPacket)
    /\ \A j \in Elems(Line) : OwnLate(s, j) /\ connected[s] =>
         ~Outside(s) /\ ~Before(Line, j, EnterJob(s))
    /\ \A j \in Now : OwnLate(s, j) /\ connected[s] => s \in rest \/ j \in Elems(inbox[s])
    /\ \A j \in Elems(Done) : OwnLate(s, j) /\ connected[s] => j \in Elems(inbox[s])

\* The chats of a client are numbered, and their numbers rise on the way to the server
\* and through the room's line.
NumbersOK(s) ==
    /\ \A p \in Elems(toServer[s]) : IsNumbered(p) => p[2] <= chats[s]
    /\ \A p, q \in Elems(toServer[s]) :
         IsNumbered(p) /\ IsNumbered(q) /\ Before(toServer[s], p, q) => p[2] < q[2]
    /\ \A j \in Elems(Done) \cup Now \cup Elems(Line) : IsChat(j) /\ j[2] = s =>
         /\ j[3] <= chats[s]
         /\ \A p \in Elems(toServer[s]) : IsNumbered(p) => j[3] < p[2]

SameSender(j, k) == IsChat(j) /\ IsChat(k) /\ j[2] = k[2]

LineOK ==
    /\ \A j, k \in Elems(Line) : SameSender(j, k) /\ Before(Line, j, k) => j[3] < k[3]
    /\ \A j, k \in Elems(Done) : SameSender(j, k) /\ Before(Done, j, k) => j[3] < k[3]
    /\ \A j \in Elems(Done), k \in Now \cup Elems(Line) : SameSender(j, k) => j[3] < k[3]
    /\ \A j \in Now, k \in Elems(Line) : SameSender(j, k) => j[3] < k[3]

\* The room has run a before b, which may be running.
Precedes(a, b) == Before(Done, a, b) \/ (a \in Elems(Done) /\ b \in Now)

\* A session was sent what the room has run or is running, in that order.
InboxOK(r) ==
    /\ \A a \in Elems(inbox[r]) : IsChat(a) => a \in Elems(Done) \/ (a \in Now /\ r \notin rest)
    /\ \A a, b \in Elems(inbox[r]) :
         IsChat(a) /\ IsChat(b) /\ Before(inbox[r], a, b) => Precedes(a, b)

ClientOK(s) ==
    PacketsOK(s) /\ PlayersOK(s) /\ OutsideOK(s) /\ MembersOK(s) /\ OwnOK(s) /\ NumbersOK(s) /\ InboxOK(s)

GameInv == /\ GameTypeOK /\ JobsOK /\ LineOK /\ PlayersThere
           /\ \A s \in Clients : ClientOK(s)

-----------------------------------------------------------------------------
\* What Append, Tail and a part cut out do to the elements of a sequence and their order.
LEMMA AppendElems == ASSUME NEW S, NEW s \in Seq(S), NEW e \in S
    PROVE  /\ Append(s, e) \in Seq(S) /\ Append(s, e) # <<>>
           /\ Len(Append(s, e)) = Len(s) + 1
           /\ Elems(Append(s, e)) = Elems(s) \cup {e}
           /\ \A a, b : Before(Append(s, e), a, b) <=> Before(s, a, b) \/ (a \in Elems(s) /\ b = e)
<1>1. /\ DOMAIN Append(s, e) = DOMAIN s \cup {Len(s) + 1}
      /\ Append(s, e)[Len(s) + 1] = e /\ Len(s) + 1 \notin DOMAIN s
      /\ \A i \in DOMAIN s : Append(s, e)[i] = s[i] /\ i \in Int /\ i < Len(s) + 1
      /\ Append(s, e) \in Seq(S) /\ Append(s, e) # <<>> /\ Len(Append(s, e)) = Len(s) + 1
      /\ Len(s) \in Nat
  OBVIOUS
<1> QED
  BY <1>1 DEF Elems, Before

LEMMA TailElems == ASSUME NEW S, NEW s \in Seq(S), s # <<>>
    PROVE  /\ Tail(s) \in Seq(S) /\ Head(s) \in S
           /\ Elems(s) = Elems(Tail(s)) \cup {Head(s)}
           /\ \A a, b : Before(s, a, b) <=> Before(Tail(s), a, b) \/ (a = Head(s) /\ b \in Elems(Tail(s)))
<1>1. /\ Tail(s) \in Seq(S) /\ Head(s) \in S /\ Head(s) = s[1] /\ 1 \in DOMAIN s
      /\ \A i \in DOMAIN Tail(s) : Tail(s)[i] = s[i + 1] /\ i + 1 \in DOMAIN s /\ i \in Nat /\ i # 0
      /\ \A i \in DOMAIN s : /\ i # 1 => i - 1 \in DOMAIN Tail(s) /\ Tail(s)[i - 1] = s[i]
                             /\ i \in Nat /\ i # 0
  OBVIOUS
<1>2. Elems(s) = Elems(Tail(s)) \cup {Head(s)}
  <2>1. ASSUME NEW i \in DOMAIN s PROVE s[i] \in Elems(Tail(s)) \cup {Head(s)}
    BY <1>1 DEF Elems
  <2>2. Elems(Tail(s)) \subseteq Elems(s) /\ Head(s) \in Elems(s)
    BY <1>1 DEF Elems
  <2> QED
    BY <2>1, <2>2 DEF Elems
<1>3. ASSUME NEW a, NEW b, Before(s, a, b)
      PROVE  Before(Tail(s), a, b) \/ (a = Head(s) /\ b \in Elems(Tail(s)))
  <2>1. PICK i, k \in DOMAIN s : i < k /\ s[i] = a /\ s[k] = b
    BY <1>3 DEF Before
  <2>2. k # 1 /\ k - 1 \in DOMAIN Tail(s) /\ Tail(s)[k - 1] = b
    BY <1>1, <2>1
  <2>3. CASE i = 1
    BY <1>1, <2>1, <2>2, <2>3 DEF Elems
  <2>4. CASE i # 1
    <3>1. i - 1 \in DOMAIN Tail(s) /\ Tail(s)[i - 1] = a /\ i - 1 < k - 1
      BY <1>1, <2>1, <2>4
    <3> QED
      BY <2>2, <3>1 DEF Before
  <2> QED
    BY <2>3, <2>4
<1>4. ASSUME NEW a, NEW b, Before(Tail(s), a, b) PROVE Before(s, a, b)
  <2>1. PICK i, k \in DOMAIN Tail(s) : i < k /\ Tail(s)[i] = a /\ Tail(s)[k] = b
    BY <1>4 DEF Before
  <2>2. i + 1 \in DOMAIN s /\ k + 1 \in DOMAIN s /\ i + 1 < k + 1 /\ s[i + 1] = a /\ s[k + 1] = b
    BY <1>1, <2>1
  <2> QED
    BY <2>2 DEF Before
<1>5. ASSUME NEW b \in Elems(Tail(s)) PROVE Before(s, Head(s), b)
  <2>1. PICK k \in DOMAIN Tail(s) : Tail(s)[k] = b
    BY DEF Elems
  <2>2. k + 1 \in DOMAIN s /\ 1 < k + 1 /\ s[k + 1] = b
    BY <1>1, <2>1
  <2> QED
    BY <1>1, <2>2 DEF Before
<1> QED
  BY <1>1, <1>2, <1>3, <1>4, <1>5

Cut(s, i, k) == SubSeq(s, 1, i - 1) \o SubSeq(s, k + 1, Len(s))

LEMMA CutElems == ASSUME NEW S, NEW s \in Seq(S), NEW i \in DOMAIN s, NEW k \in DOMAIN s, i <= k
    PROVE  /\ Cut(s, i, k) \in Seq(S)
           /\ Elems(Cut(s, i, k)) \subseteq Elems(s)
           /\ \A a, b : Before(Cut(s, i, k), a, b) => Before(s, a, b)
           /\ \A a \in Elems(s) : a \in Elems(Cut(s, i, k)) \/ \E n \in i..k : s[n] = a
           /\ \A n \in i..k : s[n] \in Elems(Cut(s, i, k)) => Before(s, s[n], s[n])
<1> DEFINE c == Cut(s, i, k)
           d == k - i + 1
<1>1. /\ Len(s) \in Nat /\ DOMAIN s = 1..Len(s) /\ i \in 1..Len(s) /\ k \in 1..Len(s) /\ d \in 1..Len(s)
  OBVIOUS
<1>2. /\ SubSeq(s, 1, i - 1) \in Seq(S) /\ Len(SubSeq(s, 1, i - 1)) = i - 1
      /\ \A m \in 1..(i - 1) : SubSeq(s, 1, i - 1)[m] = s[m]
  BY <1>1
<1> DEFINE end == SubSeq(s, k + 1, Len(s))
<1>3. end \in Seq(S) /\ Len(end) = Len(s) - k /\ \A m \in 1..(Len(s) - k) : end[m] = s[k + m]
  <2>1. end = [m \in 1..(Len(s) - k) |-> s[k + m]]
    BY <1>1
  <2>2. \A m \in 1..(Len(s) - k) : k + m \in 1..Len(s) /\ s[k + m] \in S
    BY <1>1
  <2>3. Len(s) - k \in Nat
    BY <1>1
  <2> QED
    BY <2>1, <2>2, <2>3
<1>4. /\ c \in Seq(S) /\ Len(c) = Len(s) - d /\ DOMAIN c = 1..(Len(s) - d)
      /\ \A m \in DOMAIN c : c[m] = IF m < i THEN s[m] ELSE s[m + d]
  <2>1. c \in Seq(S) /\ Len(c) = (i - 1) + (Len(s) - k)
    BY <1>2, <1>3 DEF Cut
  <2>2. DOMAIN c = 1..(Len(s) - d)
    BY <1>1, <2>1
  <2>3. ASSUME NEW m \in DOMAIN c PROVE c[m] = IF m < i THEN s[m] ELSE s[m + d]
    <3> DEFINE front == SubSeq(s, 1, i - 1)
    <3>1. c = front \o end /\ front \in Seq(S) /\ Len(front) = i - 1 /\ i \in Nat /\ m \in Nat \ {0}
      <4>1. c = front \o end
        BY DEF Cut
      <4>2. i \in Nat /\ m \in Nat \ {0}
        <5> HIDE DEF c
        <5> QED
          BY <1>1, <2>2
      <4> QED
        BY <1>2, <4>1, <4>2
    <3>2. CASE m < i
      <4>1. c[m] = front[m]
        <5> HIDE DEF front, end, c
        <5> QED
          BY <1>1, <1>3, <3>2, <3>1
      <4> QED
        BY <1>1, <1>2, <3>2, <3>1, <4>1
    <3>3. CASE ~(m < i)
      <4>1. m \in 1..((i - 1) + (Len(s) - k)) /\ m > i - 1
        BY <1>1, <2>2, <3>3
      <4>2. c[m] = end[m - (i - 1)]
        <5> HIDE DEF front, end, c
        <5> QED
          BY <1>1, <1>3, <3>1, <4>1
      <4>3. m - (i - 1) \in 1..(Len(s) - k) /\ k + (m - (i - 1)) = m + d
        BY <1>1, <2>2, <3>3
      <4> QED
        BY <1>3, <3>3, <4>2, <4>3
    <3> QED
      BY <3>2, <3>3
  <2> QED
    BY <1>1, <2>1, <2>2, <2>3
<1> DEFINE At1(m) == IF m < i THEN m ELSE m + d
<1> HIDE DEF c
<1>5. \A m \in DOMAIN c : At1(m) \in DOMAIN s /\ c[m] = s[At1(m)] /\ At1(m) \notin i..k
  BY <1>1, <1>4
<1>6. \A m, n \in DOMAIN c : m < n => At1(m) < At1(n)
  BY <1>1, <1>4
<1>7. \A m \in DOMAIN s : m \notin i..k => \E n \in DOMAIN c : At1(n) = m
  <2> SUFFICES ASSUME NEW m \in DOMAIN s, m \notin i..k PROVE \E n \in DOMAIN c : At1(n) = m
    OBVIOUS
  <2>1. CASE m < i
    BY <1>1, <1>4, <2>1
  <2>2. CASE m > k
    <3>1. m - d \in DOMAIN c /\ ~(m - d < i)
      BY <1>1, <1>4, <2>2
    <3> QED
      BY <1>1, <3>1
  <2> QED
    BY <1>1, <2>1, <2>2
<1> HIDE DEF At1
<1>8. Elems(c) \subseteq Elems(s)
  BY <1>5 DEF Elems
<1>9. \A a, b : Before(c, a, b) => Before(s, a, b)
  BY <1>5, <1>6 DEF Before
<1>10. \A a \in Elems(s) : a \in Elems(c) \/ \E n \in i..k : s[n] = a
  BY <1>5, <1>7 DEF Elems
<1>11. ASSUME NEW n \in i..k, s[n] \in Elems(c) PROVE Before(s, s[n], s[n])
  <2>1. PICK m \in DOMAIN s : s[m] = s[n] /\ m # n
    BY <1>5, <1>11 DEF Elems
  <2>2. n \in DOMAIN s /\ (m < n \/ n < m)
    BY <1>1, <2>1
  <2> QED
    BY <2>1, <2>2 DEF Before
<1> QED
  BY <1>4, <1>8, <1>9, <1>10, <1>11 DEF c

LEMMA EmptyElems == Elems(<<>>) = {} /\ \A a, b : ~Before(<<>>, a, b)
BY DEF Elems, Before

LEMMA BeforeElems == \A s, a, b : Before(s, a, b) => a \in Elems(s) /\ b \in Elems(s)
BY DEF Elems, Before

\* The kinds of packets and jobs
LEMMA PacketKinds ==
    /\ LoginPacket \in ToServer /\ EnterPacket \in ToServer /\ LoginPacket # EnterPacket
    /\ ~IsNumbered(LoginPacket) /\ ~IsNumbered(EnterPacket)
    /\ \A n \in Nat : /\ <<"C_CHAT", n>> \in ToServer /\ IsNumbered(<<"C_CHAT", n>>)
                      /\ <<"C_CHAT", n>>[2] = n
    /\ \A p \in ToServer : /\ p[1] = "C_LOGIN" => p = LoginPacket
                           /\ p[1] = "C_ENTER_GAME" => p = EnterPacket
                           /\ IsNumbered(p) => p[2] \in Nat
BY DEF LoginPacket, EnterPacket, IsNumbered, ToServer

LEMMA JobKinds ==
    /\ \A s \in Clients \cup {NoPlayer} :
         /\ EnterJob(s) \in RoomJobs /\ LeaveJob(s) \in RoomJobs
         /\ ~IsChat(EnterJob(s)) /\ ~IsChat(LeaveJob(s))
         /\ EnterJob(s)[2] = s /\ LeaveJob(s)[2] = s
         /\ \A r \in Clients \cup {NoPlayer} : EnterJob(s) # LeaveJob(r)
    /\ \A s \in Clients, n \in Nat :
         /\ <<"chat", s, n>> \in RoomJobs /\ IsChat(<<"chat", s, n>>)
         /\ <<"chat", s, n>>[2] = s /\ <<"chat", s, n>>[3] = n
    /\ \A j \in RoomJobs : /\ j[1] = "enter" => j = EnterJob(j[2]) /\ j[2] \in Clients \cup {NoPlayer}
                           /\ j[1] = "leave" => j = LeaveJob(j[2]) /\ j[2] \in Clients \cup {NoPlayer}
                           /\ IsChat(j) => j[2] \in Clients /\ j[3] \in Nat /\ j \in ToClient
    /\ \A a \in ToClient : IsChat(a) => a \in RoomJobs
    /\ <<"S_LOGIN">> \in ToClient /\ ~IsChat(<<"S_LOGIN">>)
    /\ <<"S_ENTER_GAME">> \in ToClient /\ ~IsChat(<<"S_ENTER_GAME">>)
BY DEF EnterJob, LeaveJob, RoomJobs, ToClient, IsChat

-----------------------------------------------------------------------------
\* What the parts of the steps do to the sequences
LEMMA HandlesEffect == ASSUME GameTypeOK, NEW s \in Clients, NEW kind, Handles(s, kind)
    PROVE  /\ stage[s] = "recv" /\ fault = "no"
           /\ toServer' \in [Clients -> Seq(ToServer)]
           /\ \A u \in Clients : u # s => toServer'[u] = toServer[u]
           /\ Head(toServer[s]) \in ToServer /\ Head(toServer[s])[1] = kind
           /\ Elems(toServer[s]) = Elems(toServer'[s]) \cup {Head(toServer[s])}
           /\ \A a, b : Before(toServer[s], a, b) <=>
                \/ Before(toServer'[s], a, b)
                \/ a = Head(toServer[s]) /\ b \in Elems(toServer'[s])
<1>1. /\ stage[s] = "recv" /\ fault = "no" /\ toServer[s] # <<>> /\ Head(toServer[s])[1] = kind
      /\ toServer' = [toServer EXCEPT ![s] = Tail(toServer[s])]
      /\ toServer \in [Clients -> Seq(ToServer)] /\ toServer[s] \in Seq(ToServer)
  BY DEF Handles, At, GameTypeOK
<1>2. Tail(toServer[s]) \in Seq(ToServer) /\ Head(toServer[s]) \in ToServer
  BY <1>1, TailElems
<1>3. toServer'[s] = Tail(toServer[s]) /\ \A u \in Clients : u # s => toServer'[u] = toServer[u]
  BY <1>1
<1>4. toServer' \in [Clients -> Seq(ToServer)]
  BY <1>1, <1>2
<1> QED
  BY <1>1, <1>2, <1>3, <1>4, TailElems

LEMMA ToServerEffect == ASSUME GameTypeOK, NEW s \in Clients, NEW p \in ToServer, SendToServer(s, p)
    PROVE  /\ stage[s] # "closed"
           /\ toServer' \in [Clients -> Seq(ToServer)]
           /\ \A u \in Clients : u # s => toServer'[u] = toServer[u]
           /\ Elems(toServer'[s]) = Elems(toServer[s]) \cup {p}
           /\ \A a, b : Before(toServer'[s], a, b) <=>
                \/ Before(toServer[s], a, b)
                \/ a \in Elems(toServer[s]) /\ b = p
<1>1. /\ stage[s] # "closed" /\ toServer' = [toServer EXCEPT ![s] = Append(toServer[s], p)]
      /\ toServer \in [Clients -> Seq(ToServer)] /\ toServer[s] \in Seq(ToServer)
  BY DEF SendToServer, Reads, GameTypeOK
<1>2. Append(toServer[s], p) \in Seq(ToServer)
  BY <1>1, AppendElems
<1>3. toServer'[s] = Append(toServer[s], p) /\ \A u \in Clients : u # s => toServer'[u] = toServer[u]
  BY <1>1
<1>4. toServer' \in [Clients -> Seq(ToServer)]
  BY <1>1, <1>2
<1> QED
  BY <1>1, <1>3, <1>4, AppendElems

LEMMA SendEffect == ASSUME GameTypeOK, NEW s \in Clients, NEW p \in ToClient, Send(s, p)
    PROVE  /\ inbox' \in [Clients -> Seq(ToClient)]
           /\ \A u \in Clients : u # s \/ ~connected[u] => inbox'[u] = inbox[u]
           /\ connected[s] =>
                /\ inbox'[s] # <<>> /\ Len(inbox'[s]) = Len(inbox[s]) + 1
                /\ Elems(inbox'[s]) = Elems(inbox[s]) \cup {p}
                /\ \A a, b : Before(inbox'[s], a, b) <=>
                     \/ Before(inbox[s], a, b)
                     \/ a \in Elems(inbox[s]) /\ b = p
<1>1. /\ inbox' = [inbox EXCEPT ![s] = IF connected[s] THEN Append(inbox[s], p) ELSE inbox[s]]
      /\ inbox \in [Clients -> Seq(ToClient)] /\ inbox[s] \in Seq(ToClient)
  BY DEF Send, GameTypeOK
<1>2. Append(inbox[s], p) \in Seq(ToClient)
  BY <1>1, AppendElems
<1>3. /\ connected[s] => inbox'[s] = Append(inbox[s], p)
      /\ \A u \in Clients : u # s \/ ~connected[u] => inbox'[u] = inbox[u]
  BY <1>1
<1>4. inbox' \in [Clients -> Seq(ToClient)]
  BY <1>1, <1>2
<1> QED
  BY <1>1, <1>3, <1>4, AppendElems

LEMMA SubmitEffect == ASSUME GameTypeOK, NEW j \in RoomJobs, Queue!Submit(Room, j)
    PROVE  /\ pending' \in [{Room} -> Seq(RoomJobs)] /\ UNCHANGED <<running, finished, Now, Done>>
           /\ Elems(Line') = Elems(Line) \cup {j}
           /\ \A a, b : Before(Line', a, b) <=> Before(Line, a, b) \/ (a \in Elems(Line) /\ b = j)
<1>1. /\ pending' = [pending EXCEPT ![Room] = Append(Line, j)] /\ UNCHANGED <<running, finished>>
      /\ pending \in [{Room} -> Seq(RoomJobs)] /\ Line \in Seq(RoomJobs)
  BY DEF Queue!Submit, GameTypeOK, Line
<1>2. Append(Line, j) \in Seq(RoomJobs)
  BY <1>1, AppendElems
<1>3. Line' = Append(Line, j) /\ UNCHANGED <<Now, Done>>
  BY <1>1 DEF Line, Now, Done
<1>4. pending' \in [{Room} -> Seq(RoomJobs)]
  BY <1>1, <1>2
<1> QED
  BY <1>1, <1>3, <1>4, AppendElems

LEMMA StartsEffect == ASSUME GameTypeOK, NEW kind, Starts(kind)
    PROVE  LET j == Head(Line) IN
           /\ j \in RoomJobs /\ j[1] = kind /\ fault = "no"
           /\ pending' \in [{Room} -> Seq(RoomJobs)] /\ running' \in [{Room} -> SUBSET RoomJobs]
           /\ UNCHANGED <<finished, Done, sessionVars, netVars>>
           /\ Now = {} /\ Now' = {j}
           /\ Elems(Line) = Elems(Line') \cup {j}
           /\ \A a, b : Before(Line, a, b) <=> Before(Line', a, b) \/ (a = j /\ b \in Elems(Line'))
<1>1. /\ running[Room] = {} /\ Line # <<>> /\ running' = [running EXCEPT ![Room] = {Head(Line)}]
      /\ pending' = [pending EXCEPT ![Room] = Tail(Line)]
      /\ Head(Line)[1] = kind /\ fault = "no" /\ UNCHANGED <<finished, sessionVars, netVars>>
  BY DEF Starts, Queue!Start, Line
<1>2. /\ pending \in [{Room} -> Seq(RoomJobs)] /\ Line \in Seq(RoomJobs)
      /\ running \in [{Room} -> SUBSET RoomJobs]
  BY DEF GameTypeOK, Line
<1>3. Tail(Line) \in Seq(RoomJobs) /\ Head(Line) \in RoomJobs
  BY <1>1, <1>2, TailElems
<1>4. Line' = Tail(Line) /\ Now = {} /\ Now' = {Head(Line)} /\ Done' = Done
  BY <1>1, <1>2 DEF Line, Now, Done
<1>5. pending' \in [{Room} -> Seq(RoomJobs)] /\ running' \in [{Room} -> SUBSET RoomJobs]
  BY <1>1, <1>2, <1>3
<1> QED
  BY <1>1, <1>2, <1>3, <1>4, <1>5, TailElems

-----------------------------------------------------------------------------
\* A step at one session leaves the others, and the room's line, alone.
RoomStays == UNCHANGED <<members, rest, pending, running, finished>>
OthersStay(s) == \A u \in Clients \ {s} :
    /\ connected'[u] = connected[u] /\ players'[u] = players[u]
    /\ currentPlayer'[u] = currentPlayer[u] /\ inRoom'[u] = inRoom[u]
    /\ stage'[u] = stage[u] /\ hook'[u] = hook[u]
    /\ toServer'[u] = toServer[u] /\ inbox'[u] = inbox[u] /\ arrived'[u] = arrived[u]
    /\ (u \in lost)' <=> u \in lost
    /\ greeted'[u] = greeted[u] /\ chats'[u] = chats[u] /\ enteredAt'[u] = enteredAt[u]

LEMMA LocalStep == ASSUME GameInv, NEW s \in Clients, RoomStays, OthersStay(s),
                          GameTypeOK', PlayersThere', ClientOK(s)'
    PROVE  GameInv'
<1>1. UNCHANGED <<Line, Now, Done>>
  BY DEF RoomStays, Line, Now, Done
<1>2. JobsOK' /\ LineOK'
  BY <1>1 DEF GameInv, JobsOK, LineOK, RoomStays
<1>3. ASSUME NEW u \in Clients \ {s} PROVE ClientOK(u)'
  <2>1. ClientOK(u)
    BY DEF GameInv
  <2> USE <1>1, <1>3, <2>1 DEF ClientOK, OthersStay, RoomStays, Outside, LoginComes, EnterComes, EnterStarts
  <2>2. PacketsOK(u)'
    BY DEF PacketsOK
  <2>3. PlayersOK(u)' /\ OutsideOK(u)' /\ MembersOK(u)'
    BY DEF PlayersOK, OutsideOK, MembersOK
  <2>4. OwnOK(u)'
    BY DEF OwnOK, OwnLate
  <2>5. NumbersOK(u)' /\ InboxOK(u)'
    BY DEF NumbersOK, InboxOK, Precedes
  <2> QED
    BY <2>2, <2>3, <2>4, <2>5
<1> QED
  BY <1>2, <1>3 DEF GameInv

\* The steps of one session
LEMMA LoginPreserves == ASSUME GameInv, NEW s \in Clients, Login(s), UNCHANGED clientVars PROVE GameInv'
<1>1. ClientOK(s) /\ GameTypeOK
  BY DEF GameInv
<1>2. /\ UNCHANGED <<connected, currentPlayer, inRoom, stage, hook, arrived, lost, refused, fault, greeted, chats,
                     enteredAt>>
      /\ players' = [players EXCEPT ![s] = TRUE] /\ RoomStays /\ UNCHANGED <<Line, Now, Done>>
      /\ Handles(s, "C_LOGIN") /\ Send(s, <<"S_LOGIN">>)
  BY DEF Login, clientVars, roomVars, farVars, queueVars, RoomStays, Line, Now, Done
<1>3. players' \in [Clients -> BOOLEAN] /\ players'[s] /\ \A u \in Clients \ {s} : players'[u] = players[u]
  BY <1>1, <1>2 DEF GameTypeOK
<1>4. /\ stage[s] = "recv" /\ toServer' \in [Clients -> Seq(ToServer)]
      /\ \A u \in Clients : u # s => toServer'[u] = toServer[u]
      /\ Elems(toServer[s]) = Elems(toServer'[s]) \cup {LoginPacket}
      /\ \A a, b : Before(toServer[s], a, b) <=>
           \/ Before(toServer'[s], a, b)
           \/ a = LoginPacket /\ b \in Elems(toServer'[s])
  <2>1. Head(toServer[s]) \in ToServer /\ Head(toServer[s])[1] = "C_LOGIN"
    BY <1>1, <1>2, HandlesEffect
  <2>2. Head(toServer[s]) = LoginPacket
    BY <2>1, PacketKinds
  <2> QED
    BY <1>1, <1>2, <2>2, HandlesEffect
<1>5. LoginComes(s) /\ inbox[s] = <<>> /\ hook[s] = "none" /\ connected[s] /\ enteredAt[s] = NoPlayer
      /\ ~LoginComes(s)' /\ ~EnterComes(s) /\ ~EnterComes(s)' /\ ~EnterStarts(s) /\ ~EnterStarts(s)'
  BY <1>1, <1>2, <1>4, PacketKinds DEF ClientOK, PacketsOK, PlayersOK, LoginComes, EnterComes, EnterStarts
<1>6. /\ inbox' \in [Clients -> Seq(ToClient)] /\ \A u \in Clients : u # s => inbox'[u] = inbox[u]
      /\ inbox'[s] # <<>> /\ Len(inbox'[s]) = 1 /\ \A a \in Elems(inbox'[s]) : ~IsChat(a)
  <2>1. PICK p \in ToClient : Send(s, p) /\ ~IsChat(p)
    BY <1>2, JobKinds
  <2>2. Len(inbox[s]) = 0 /\ Elems(inbox[s]) = {}
    BY <1>5, EmptyElems
  <2>3. /\ inbox' \in [Clients -> Seq(ToClient)] /\ \A u \in Clients : u # s => inbox'[u] = inbox[u]
        /\ inbox'[s] # <<>> /\ Len(inbox'[s]) = Len(inbox[s]) + 1
        /\ Elems(inbox'[s]) = Elems(inbox[s]) \cup {p}
    BY <1>1, <1>5, <2>1, SendEffect
  <2> QED
    BY <2>1, <2>2, <2>3
<1>7. GameTypeOK' /\ PlayersThere'
  BY <1>1, <1>2, <1>3, <1>4, <1>6 DEF GameTypeOK, GameInv, PlayersThere, RoomStays
<1>8. OthersStay(s)
  BY <1>2, <1>3, <1>4, <1>6 DEF OthersStay
<1> USE <1>1, <1>2, <1>5 DEF ClientOK, Outside
<1>9. PacketsOK(s)' /\ PlayersOK(s)'
  BY <1>3, <1>4, <1>6 DEF PacketsOK, PlayersOK, LoginComes, EnterComes, EnterStarts
<1>10. OutsideOK(s)' /\ MembersOK(s)'
  BY <1>3, <1>6 DEF OutsideOK, MembersOK, RoomStays
<1>11. OwnOK(s)'
  BY <1>4 DEF OwnOK, PacketsOK, OwnLate
<1>12. NumbersOK(s)'
  BY <1>4 DEF NumbersOK
<1>13. InboxOK(s)'
  BY <1>6, JobKinds DEF InboxOK, Precedes
<1> QED
  BY <1>7, <1>8, <1>9, <1>10, <1>11, <1>12, <1>13, LocalStep

LEMMA EnterGamePreserves == ASSUME GameInv, NEW s \in Clients, EnterGame(s), UNCHANGED clientVars PROVE GameInv'
<1>1. ClientOK(s) /\ GameTypeOK
  BY DEF GameInv
<1>2. /\ UNCHANGED <<connected, players, inRoom, hook, inbox, arrived, lost, refused, greeted, chats, enteredAt>>
      /\ currentPlayer' = [currentPlayer EXCEPT ![s] = players[s]]
      /\ stage' = [stage EXCEPT ![s] = "enterRoom"]
      /\ fault' = IF players[s] THEN "no" ELSE "m_players[index]"
      /\ RoomStays /\ UNCHANGED <<Line, Now, Done>> /\ Handles(s, "C_ENTER_GAME")
  BY DEF EnterGame, Goto, clientVars, roomVars, farVars, queueVars, RoomStays, Line, Now, Done
<1>3. /\ stage[s] = "recv" /\ toServer' \in [Clients -> Seq(ToServer)]
      /\ \A u \in Clients : u # s => toServer'[u] = toServer[u]
      /\ Elems(toServer[s]) = Elems(toServer'[s]) \cup {EnterPacket}
      /\ \A a, b : Before(toServer[s], a, b) <=>
           \/ Before(toServer'[s], a, b)
           \/ a = EnterPacket /\ b \in Elems(toServer'[s])
  <2>1. Head(toServer[s]) \in ToServer /\ Head(toServer[s])[1] = "C_ENTER_GAME"
    BY <1>1, <1>2, HandlesEffect
  <2>2. Head(toServer[s]) = EnterPacket
    BY <2>1, PacketKinds
  <2> QED
    BY <1>1, <1>2, <2>2, HandlesEffect
<1>4. /\ EnterComes(s) /\ hook[s] = "none" /\ connected[s] /\ enteredAt[s] # NoPlayer /\ players[s]
      /\ ~EnterComes(s)' /\ Outside(s)
  BY <1>1, <1>3 DEF ClientOK, PacketsOK, PlayersOK, EnterComes, Outside
<1>5. /\ currentPlayer' \in [Clients -> BOOLEAN] /\ currentPlayer'[s] /\ stage'[s] = "enterRoom"
      /\ \A u \in Clients \ {s} : currentPlayer'[u] = currentPlayer[u] /\ stage'[u] = stage[u]
      /\ stage' \in [Clients -> {"recv", "enterRoom", "enterPush", "enterSend", "closed", "deaf"}]
  BY <1>1, <1>2, <1>4 DEF GameTypeOK
<1>6. EnterStarts(s)' /\ Outside(s)'
  BY <1>5 DEF EnterStarts, Outside
<1>7. GameTypeOK' /\ PlayersThere'
  BY <1>1, <1>2, <1>3, <1>4, <1>5 DEF GameTypeOK, PlayersThere, RoomStays
<1>8. OthersStay(s)
  BY <1>2, <1>3, <1>5 DEF OthersStay
<1> USE <1>1, <1>2, <1>4, <1>6 DEF ClientOK
<1>9. PacketsOK(s)' /\ PlayersOK(s)'
  BY <1>3, <1>5, PacketKinds DEF PacketsOK, PlayersOK, LoginComes, EnterComes, EnterStarts
<1>10. OutsideOK(s)' /\ MembersOK(s)'
  BY <1>3, <1>5 DEF OutsideOK, MembersOK, RoomStays
<1>11. OwnOK(s)'
  BY <1>3 DEF OwnOK, OwnLate, RoomStays
<1>12. NumbersOK(s)'
  BY <1>3 DEF NumbersOK
<1>13. InboxOK(s)'
  BY DEF InboxOK, Precedes, RoomStays
<1> QED
  BY <1>7, <1>8, <1>9, <1>10, <1>11, <1>12, <1>13, LocalStep

LEMMA EnterRoomPreserves == ASSUME GameInv, NEW s \in Clients, EnterRoom(s), UNCHANGED clientVars PROVE GameInv'
<1>1. ClientOK(s) /\ GameTypeOK
  BY DEF GameInv
<1>2. /\ UNCHANGED <<connected, players, currentPlayer, hook, toServer, inbox, arrived, lost, refused, fault,
                     greeted, chats, enteredAt>>
      /\ inRoom' = [inRoom EXCEPT ![s] = TRUE] /\ stage[s] = "enterRoom"
      /\ stage' = [stage EXCEPT ![s] = "enterPush"]
      /\ RoomStays /\ UNCHANGED <<Line, Now, Done>>
  BY DEF EnterRoom, At, Goto, clientVars, roomVars, farVars, queueVars, netVars, RoomStays, Line, Now, Done
<1>3. /\ inRoom' \in [Clients -> BOOLEAN] /\ inRoom'[s] /\ stage'[s] = "enterPush"
      /\ \A u \in Clients \ {s} : inRoom'[u] = inRoom[u] /\ stage'[u] = stage[u]
      /\ stage' \in [Clients -> {"recv", "enterRoom", "enterPush", "enterSend", "closed", "deaf"}]
  BY <1>1, <1>2 DEF GameTypeOK
<1>4. EnterStarts(s) /\ EnterStarts(s)'
  BY <1>2, <1>3 DEF EnterStarts
<1>5. GameTypeOK' /\ PlayersThere'
  BY <1>1, <1>2, <1>3 DEF GameTypeOK, GameInv, PlayersThere, RoomStays
<1>6. OthersStay(s)
  BY <1>2, <1>3 DEF OthersStay
<1> USE <1>1, <1>2, <1>3, <1>4 DEF ClientOK, Outside, EnterComes
<1>7. PacketsOK(s)' /\ PlayersOK(s)'
  BY DEF PacketsOK, PlayersOK, LoginComes
<1>8. OutsideOK(s)' /\ MembersOK(s)' /\ OwnOK(s)'
  BY DEF OutsideOK, MembersOK, OwnOK, OwnLate, RoomStays
<1>9. NumbersOK(s)' /\ InboxOK(s)'
  BY DEF NumbersOK, InboxOK, Precedes, RoomStays
<1> QED
  BY <1>5, <1>6, <1>7, <1>8, <1>9, LocalStep

LEMMA EnterSendPreserves == ASSUME GameInv, NEW s \in Clients, EnterSend(s), UNCHANGED clientVars PROVE GameInv'
<1>1. ClientOK(s) /\ GameTypeOK
  BY DEF GameInv
<1>2. /\ UNCHANGED <<connected, players, currentPlayer, inRoom, hook, toServer, arrived, lost, refused, greeted,
                     chats, enteredAt>>
      /\ stage[s] = "enterSend" /\ stage' = [stage EXCEPT ![s] = "recv"] /\ Send(s, <<"S_ENTER_GAME">>)
      /\ fault' = IF currentPlayer[s] THEN "no" ELSE "m_currentPlayer->"
      /\ RoomStays /\ UNCHANGED <<Line, Now, Done>>
  BY DEF EnterSend, At, Goto, clientVars, roomVars, farVars, queueVars, RoomStays, Line, Now, Done
<1>3. /\ stage'[s] = "recv" /\ \A u \in Clients \ {s} : stage'[u] = stage[u]
      /\ stage' \in [Clients -> {"recv", "enterRoom", "enterPush", "enterSend", "closed", "deaf"}]
  BY <1>1, <1>2 DEF GameTypeOK
<1>p. PICK p \in ToClient : Send(s, p) /\ ~IsChat(p)
  BY <1>2, JobKinds
<1>4. /\ inbox' \in [Clients -> Seq(ToClient)] /\ \A u \in Clients : u # s => inbox'[u] = inbox[u]
      /\ ~connected[s] => inbox'[s] = inbox[s]
      /\ connected[s] =>
           /\ inbox'[s] # <<>> /\ Elems(inbox'[s]) = Elems(inbox[s]) \cup {p}
           /\ \A a, b : Before(inbox'[s], a, b) <=>
                \/ Before(inbox[s], a, b)
                \/ a \in Elems(inbox[s]) /\ b = p
  BY <1>1, <1>p, SendEffect
<1>5. /\ ~EnterStarts(s) /\ ~EnterStarts(s)' /\ ~Outside(s) /\ ~Outside(s)'
      /\ inbox[s] # <<>> /\ inbox'[s] # <<>>
  BY <1>1, <1>2, <1>3, <1>4 DEF ClientOK, EnterStarts, Outside, OutsideOK, PacketsOK, EnterComes
<1>6. GameTypeOK' /\ PlayersThere'
  BY <1>1, <1>2, <1>3, <1>4 DEF GameTypeOK, PlayersThere, RoomStays
<1>7. OthersStay(s)
  BY <1>2, <1>3, <1>4 DEF OthersStay
<1> USE <1>1, <1>2, <1>3, <1>5 DEF ClientOK
<1>8. PacketsOK(s)' /\ PlayersOK(s)'
  BY DEF PacketsOK, PlayersOK, LoginComes, EnterComes, Outside
<1>9. OutsideOK(s)' /\ MembersOK(s)'
  BY DEF OutsideOK, MembersOK, RoomStays
<1>10. OwnOK(s)'
  BY <1>4 DEF OwnOK, OwnLate, RoomStays
<1>11. NumbersOK(s)'
  BY DEF NumbersOK
<1>12. InboxOK(s)'
  <2>1. CASE connected[s]
    BY <1>2, <1>p, <1>4, <2>1 DEF InboxOK, Precedes, RoomStays
  <2>2. CASE ~connected[s]
    BY <1>2, <1>4, <2>2 DEF InboxOK, Precedes, RoomStays
  <2> QED
    BY <2>1, <2>2
<1> QED
  BY <1>6, <1>7, <1>8, <1>9, <1>10, <1>11, <1>12, LocalStep

LEMMA RecvZeroPreserves == ASSUME GameInv, NEW s \in Clients, RecvZero(s), UNCHANGED clientVars PROVE GameInv'
<1>1. ClientOK(s) /\ GameTypeOK
  BY DEF GameInv
<1>2. /\ UNCHANGED <<players, currentPlayer, inRoom, inbox, arrived, lost, refused, fault, greeted, chats, enteredAt>>
      /\ stage[s] = "recv" /\ stage' = [stage EXCEPT ![s] = "closed"]
      /\ connected' = [connected EXCEPT ![s] = FALSE] /\ toServer' = [toServer EXCEPT ![s] = <<>>]
      /\ hook' = [hook EXCEPT ![s] = IF connected[s] THEN "pending" ELSE hook[s]]
      /\ RoomStays /\ UNCHANGED <<Line, Now, Done>>
  BY DEF RecvZero, At, Goto, clientVars, roomVars, farVars, queueVars, RoomStays, Line, Now, Done
<1>3. /\ stage'[s] = "closed" /\ ~connected'[s] /\ toServer'[s] = <<>>
      /\ hook'[s] = IF connected[s] THEN "pending" ELSE hook[s]
      /\ \A u \in Clients \ {s} : /\ stage'[u] = stage[u] /\ connected'[u] = connected[u]
                                  /\ toServer'[u] = toServer[u] /\ hook'[u] = hook[u]
      /\ stage' \in [Clients -> {"recv", "enterRoom", "enterPush", "enterSend", "closed", "deaf"}]
      /\ connected' \in [Clients -> BOOLEAN] /\ toServer' \in [Clients -> Seq(ToServer)]
      /\ hook' \in [Clients -> {"none", "pending", "reset", "clear", "done"}]
  BY <1>1, <1>2 DEF GameTypeOK
<1>4. GameTypeOK' /\ PlayersThere'
  BY <1>1, <1>2, <1>3 DEF GameTypeOK, GameInv, PlayersThere, RoomStays
<1>5. OthersStay(s)
  BY <1>2, <1>3 DEF OthersStay
<1>6. /\ ~EnterStarts(s) /\ ~EnterStarts(s)' /\ ~LoginComes(s)' /\ ~EnterComes(s)'
      /\ Elems(toServer'[s]) = {} /\ \A a, b : ~Before(toServer'[s], a, b)
      /\ Outside(s)' => Outside(s)
  BY <1>2, <1>3, EmptyElems DEF EnterStarts, LoginComes, EnterComes, Outside
<1> USE <1>1, <1>2, <1>3, <1>6 DEF ClientOK
<1>7. PacketsOK(s)'
  BY DEF PacketsOK
<1>8. PlayersOK(s)'
  BY DEF PlayersOK
<1>9. OutsideOK(s)'
  BY DEF OutsideOK, RoomStays
<1>10. MembersOK(s)'
  BY DEF MembersOK, PlayersOK, RoomStays
<1>11. OwnOK(s)' /\ NumbersOK(s)'
  BY DEF OwnOK, NumbersOK
<1>12. InboxOK(s)'
  BY DEF InboxOK, Precedes, RoomStays
<1> QED
  BY <1>4, <1>5, <1>7, <1>8, <1>9, <1>10, <1>11, <1>12, LocalStep

LEMMA SendFailsPreserves == ASSUME GameInv, NEW s \in Clients, SendFails(s), UNCHANGED clientVars PROVE GameInv'
<1>1. ClientOK(s) /\ GameTypeOK
  BY DEF GameInv
<1>2. /\ UNCHANGED <<players, currentPlayer, inRoom, stage, toServer, inbox, arrived, refused, fault,
                     greeted, chats, enteredAt>>
      /\ connected[s] /\ arrived[s] < Len(inbox[s])
      /\ connected' = [connected EXCEPT ![s] = FALSE] /\ hook' = [hook EXCEPT ![s] = "pending"]
      /\ lost' = IF arrived[s] = 0 THEN lost \cup {s} ELSE lost
      /\ RoomStays /\ UNCHANGED <<Line, Now, Done>>
  BY DEF SendFails, clientVars, roomVars, queueVars, RoomStays, Line, Now, Done
<1>3. /\ inbox[s] # <<>> /\ arrived[s] \in Nat /\ lost' \subseteq Clients
      /\ lost \subseteq lost' /\ lost' \subseteq lost \cup {s}
  BY <1>1, <1>2 DEF GameTypeOK
<1>4. /\ ~connected'[s] /\ hook'[s] = "pending" /\ hook[s] = "none"
      /\ \A u \in Clients \ {s} : connected'[u] = connected[u] /\ hook'[u] = hook[u]
      /\ connected' \in [Clients -> BOOLEAN]
      /\ hook' \in [Clients -> {"none", "pending", "reset", "clear", "done"}]
  BY <1>1, <1>2 DEF GameTypeOK, ClientOK, PlayersOK
<1>5. GameTypeOK' /\ PlayersThere'
  BY <1>1, <1>2, <1>3, <1>4 DEF GameTypeOK, GameInv, PlayersThere, RoomStays
<1>6. OthersStay(s)
  BY <1>2, <1>3, <1>4 DEF OthersStay
<1>7. /\ ~LoginComes(s) /\ greeted[s] /\ ~EnterComes(s) /\ ~EnterStarts(s)
      /\ (Outside(s)' <=> Outside(s)) /\ arrived[s] \in {0, 1}
  <2>1. Len(inbox[s]) \in Nat
    BY <1>1 DEF GameTypeOK
  <2> QED
    BY <1>1, <1>2, <1>3, <2>1 DEF ClientOK, PacketsOK, OutsideOK, Outside, EnterComes, EnterStarts
<1> USE <1>1, <1>2, <1>4, <1>7 DEF ClientOK
<1>8. PacketsOK(s)'
  BY <1>3 DEF PacketsOK, LoginComes, EnterComes, EnterStarts
<1>9. PlayersOK(s)'
  BY <1>3 DEF PlayersOK, EnterStarts
<1>10. OutsideOK(s)'
  BY DEF OutsideOK, EnterStarts, RoomStays
<1>11. MembersOK(s)'
  BY DEF MembersOK, RoomStays
<1>12. OwnOK(s)' /\ NumbersOK(s)'
  BY DEF OwnOK, NumbersOK
<1>13. InboxOK(s)'
  BY DEF InboxOK, Precedes, RoomStays
<1> QED
  BY <1>5, <1>6, <1>8, <1>9, <1>10, <1>11, <1>12, <1>13, LocalStep

\* Refused calls: S_LOGIN is lost, or the session reads no more and stays as it is.
LEMMA RefusedPreserves == ASSUME GameInv, NEW s \in Clients,
                                 \/ (SendRefused(s) \/ RecvRefused(s)) /\ UNCHANGED clientVars
                                 \/ ClientRecvRefused(s)
    PROVE  GameInv'
<1>1. ClientOK(s) /\ GameTypeOK
  BY DEF GameInv
<1>2. /\ UNCHANGED <<connected, players, currentPlayer, inRoom, hook, toServer, inbox, arrived, fault,
                     greeted, chats, enteredAt>>
      /\ UNCHANGED stage \/ (stage[s] = "recv" /\ stage' = [stage EXCEPT ![s] = "deaf"])
      /\ lost' \in {lost, lost \cup {s}} /\ refused' = [refused EXCEPT ![s] = refused[s] + 1]
      /\ RoomStays /\ UNCHANGED <<Line, Now, Done>>
  BY DEF SendRefused, RecvRefused, ClientRecvRefused, Refuse, At, Goto, clientVars, roomVars, queueVars,
     sessionVars, RoomStays, Line, Now, Done
<1>3. /\ \A u \in Clients \ {s} : stage'[u] = stage[u]
      /\ stage'[s] = stage[s] \/ (stage[s] = "recv" /\ stage'[s] = "deaf")
      /\ stage' \in [Clients -> {"recv", "enterRoom", "enterPush", "enterSend", "closed", "deaf"}]
  BY <1>1, <1>2 DEF GameTypeOK
<1>4. GameTypeOK' /\ PlayersThere'
  <2>1. refused' \in [Clients -> Nat] /\ lost' \subseteq Clients
    BY <1>1, <1>2 DEF GameTypeOK
  <2> QED
    BY <1>1, <1>2, <1>3, <2>1 DEF GameTypeOK, GameInv, PlayersThere, RoomStays
<1>5. OthersStay(s)
  BY <1>2, <1>3 DEF OthersStay
<1>6. (EnterStarts(s)' <=> EnterStarts(s)) /\ (Outside(s)' <=> Outside(s))
  BY <1>2, <1>3 DEF EnterStarts, EnterComes, Outside
<1> USE <1>1, <1>2, <1>3, <1>6 DEF ClientOK
<1>7. PacketsOK(s)'
  BY DEF PacketsOK, LoginComes, EnterComes
<1>8. PlayersOK(s)' /\ OutsideOK(s)' /\ MembersOK(s)'
  BY DEF PlayersOK, OutsideOK, MembersOK, RoomStays
<1>9. OwnOK(s)' /\ NumbersOK(s)'
  BY DEF OwnOK, OwnLate, NumbersOK, RoomStays
<1>10. InboxOK(s)'
  BY DEF InboxOK, Precedes, RoomStays
<1> QED
  BY <1>4, <1>5, <1>7, <1>8, <1>9, <1>10, LocalStep

LEMMA ResetPlayerPreserves == ASSUME GameInv, NEW s \in Clients, ResetPlayer(s), UNCHANGED clientVars PROVE GameInv'
<1>1. ClientOK(s) /\ GameTypeOK
  BY DEF GameInv
<1>2. /\ UNCHANGED <<connected, players, inRoom, stage, toServer, inbox, arrived, lost, refused, fault, greeted,
                     chats, enteredAt>>
      /\ hook[s] = "reset" /\ hook' = [hook EXCEPT ![s] = "clear"]
      /\ currentPlayer' = [currentPlayer EXCEPT ![s] = FALSE]
      /\ RoomStays /\ UNCHANGED <<Line, Now, Done>>
  BY DEF ResetPlayer, Unhooks, clientVars, roomVars, farVars, queueVars, netVars, RoomStays, Line, Now, Done
<1>3. /\ hook'[s] = "clear" /\ ~currentPlayer'[s]
      /\ \A u \in Clients \ {s} : hook'[u] = hook[u] /\ currentPlayer'[u] = currentPlayer[u]
      /\ currentPlayer' \in [Clients -> BOOLEAN]
      /\ hook' \in [Clients -> {"none", "pending", "reset", "clear", "done"}]
  BY <1>1, <1>2 DEF GameTypeOK
<1>4. GameTypeOK' /\ PlayersThere'
  BY <1>1, <1>2, <1>3 DEF GameTypeOK, GameInv, PlayersThere, RoomStays
<1>5. OthersStay(s)
  BY <1>2, <1>3 DEF OthersStay
<1> USE <1>1, <1>2, <1>3 DEF ClientOK, Outside, EnterStarts, EnterComes, LoginComes
<1>6. PacketsOK(s)'
  BY DEF PacketsOK
<1>7. PlayersOK(s)'
  BY DEF PlayersOK, PacketsOK
<1>8. OutsideOK(s)' /\ MembersOK(s)'
  BY DEF OutsideOK, MembersOK, RoomStays
<1>9. OwnOK(s)'
  BY DEF OwnOK, OwnLate, RoomStays
<1>10. NumbersOK(s)' /\ InboxOK(s)'
  BY DEF NumbersOK, InboxOK, Precedes, RoomStays
<1> QED
  BY <1>4, <1>5, <1>6, <1>7, <1>8, <1>9, <1>10, LocalStep

LEMMA ClearPlayersPreserves == ASSUME GameInv, NEW s \in Clients, ClearPlayers(s), UNCHANGED clientVars PROVE GameInv'
<1>1. ClientOK(s) /\ GameTypeOK
  BY DEF GameInv
<1>2. /\ UNCHANGED <<connected, currentPlayer, inRoom, stage, toServer, inbox, arrived, lost, refused, fault,
                     greeted, chats, enteredAt>>
      /\ hook[s] = "clear" /\ hook' = [hook EXCEPT ![s] = "done"]
      /\ players' = [players EXCEPT ![s] = FALSE]
      /\ RoomStays /\ UNCHANGED <<Line, Now, Done>>
  BY DEF ClearPlayers, Unhooks, clientVars, roomVars, farVars, queueVars, netVars, RoomStays, Line, Now, Done
<1>3. /\ hook'[s] = "done" /\ ~players'[s]
      /\ \A u \in Clients \ {s} : hook'[u] = hook[u] /\ players'[u] = players[u]
      /\ players' \in [Clients -> BOOLEAN]
      /\ hook' \in [Clients -> {"none", "pending", "reset", "clear", "done"}]
  BY <1>1, <1>2 DEF GameTypeOK
<1>4. GameTypeOK' /\ PlayersThere'
  BY <1>1, <1>2, <1>3 DEF GameTypeOK, GameInv, PlayersThere, RoomStays
<1>5. OthersStay(s)
  BY <1>2, <1>3 DEF OthersStay
<1> USE <1>1, <1>2, <1>3 DEF ClientOK, Outside, EnterStarts, EnterComes, LoginComes
<1>6. PacketsOK(s)'
  BY DEF PacketsOK
<1>7. PlayersOK(s)'
  BY DEF PlayersOK, PacketsOK
<1>8. OutsideOK(s)' /\ MembersOK(s)'
  BY DEF OutsideOK, MembersOK, RoomStays
<1>9. OwnOK(s)'
  BY DEF OwnOK, OwnLate, RoomStays
<1>10. NumbersOK(s)' /\ InboxOK(s)'
  BY DEF NumbersOK, InboxOK, Precedes, RoomStays
<1> QED
  BY <1>4, <1>5, <1>6, <1>7, <1>8, <1>9, <1>10, LocalStep

\* The steps of a client
LEMMA OnConnectedPreserves == ASSUME GameInv, NEW s \in Clients, OnConnected(s) PROVE GameInv'
<1>1. ClientOK(s) /\ GameTypeOK
  BY DEF GameInv
<1>2. /\ UNCHANGED <<connected, players, currentPlayer, inRoom, stage, hook, inbox, arrived, lost, refused, fault,
                     chats, enteredAt>>
      /\ ~greeted[s] /\ greeted' = [greeted EXCEPT ![s] = TRUE] /\ SendToServer(s, LoginPacket)
      /\ RoomStays /\ UNCHANGED <<Line, Now, Done>>
  BY DEF OnConnected, SendToServer, sessionVars, roomVars, farVars, queueVars, RoomStays, Line, Now, Done,
     LoginPacket
<1>3. /\ greeted'[s] /\ greeted' \in [Clients -> BOOLEAN]
      /\ \A u \in Clients \ {s} : greeted'[u] = greeted[u]
  BY <1>1, <1>2 DEF GameTypeOK
<1>4. /\ stage[s] # "closed" /\ toServer' \in [Clients -> Seq(ToServer)]
      /\ \A u \in Clients : u # s => toServer'[u] = toServer[u]
      /\ Elems(toServer'[s]) = Elems(toServer[s]) \cup {LoginPacket}
      /\ \A a, b : Before(toServer'[s], a, b) <=>
           \/ Before(toServer[s], a, b)
           \/ a \in Elems(toServer[s]) /\ b = LoginPacket
  BY <1>1, <1>2, PacketKinds, ToServerEffect
<1>5. GameTypeOK' /\ PlayersThere'
  BY <1>1, <1>2, <1>3, <1>4 DEF GameTypeOK, GameInv, PlayersThere, RoomStays
<1>6. OthersStay(s)
  BY <1>2, <1>3, <1>4 DEF OthersStay
<1>7. ~LoginComes(s) /\ LoginComes(s)' /\ (EnterComes(s)' <=> EnterComes(s)) /\ (Outside(s)' <=> Outside(s))
      /\ (EnterStarts(s)' <=> EnterStarts(s)) /\ inbox[s] = <<>> /\ hook[s] = "none"
  BY <1>1, <1>2, <1>4, PacketKinds DEF ClientOK, PacketsOK, LoginComes, EnterComes, EnterStarts, Outside
<1> USE <1>1, <1>2, <1>7, PacketKinds DEF ClientOK
<1>8. PacketsOK(s)'
  BY <1>3, <1>4 DEF PacketsOK, LoginComes
<1>9. PlayersOK(s)' /\ OutsideOK(s)' /\ MembersOK(s)'
  BY DEF PlayersOK, OutsideOK, MembersOK, RoomStays
<1>10. OwnOK(s)'
  BY <1>4 DEF OwnOK, OwnLate, RoomStays
<1>11. NumbersOK(s)'
  BY <1>4, BeforeElems DEF NumbersOK
<1>12. InboxOK(s)'
  BY DEF InboxOK, Precedes, RoomStays
<1> QED
  BY <1>5, <1>6, <1>8, <1>9, <1>10, <1>11, <1>12, LocalStep

LEMMA HandleLoginPreserves == ASSUME GameInv, NEW s \in Clients, Handle_S_LOGIN(s) PROVE GameInv'
<1>1. ClientOK(s) /\ GameTypeOK
  BY DEF GameInv
<1>2. /\ UNCHANGED <<connected, players, currentPlayer, inRoom, stage, hook, inbox, lost, refused, fault,
                     chats, greeted>>
      /\ s \notin lost /\ arrived[s] = 0 /\ inbox[s] # <<>> /\ arrived' = [arrived EXCEPT ![s] = 1]
      /\ enteredAt' = [enteredAt EXCEPT ![s] = chats[s]] /\ SendToServer(s, EnterPacket)
      /\ RoomStays /\ UNCHANGED <<Line, Now, Done>>
  BY DEF Handle_S_LOGIN, SendToServer, sessionVars, roomVars, farVars, queueVars, RoomStays, Line, Now,
     Done, EnterPacket
<1>3. /\ arrived'[s] = 1 /\ enteredAt'[s] = chats[s] /\ chats[s] \in Nat
      /\ arrived' \in [Clients -> Nat] /\ enteredAt' \in [Clients -> Nat \cup {NoPlayer}]
      /\ \A u \in Clients \ {s} : arrived'[u] = arrived[u] /\ enteredAt'[u] = enteredAt[u]
  BY <1>1, <1>2 DEF GameTypeOK
<1>4. /\ stage[s] # "closed" /\ toServer' \in [Clients -> Seq(ToServer)]
      /\ \A u \in Clients : u # s => toServer'[u] = toServer[u]
      /\ Elems(toServer'[s]) = Elems(toServer[s]) \cup {EnterPacket}
      /\ \A a, b : Before(toServer'[s], a, b) <=>
           \/ Before(toServer[s], a, b)
           \/ a \in Elems(toServer[s]) /\ b = EnterPacket
  BY <1>1, <1>2, PacketKinds, ToServerEffect
<1>5. GameTypeOK' /\ PlayersThere'
  BY <1>1, <1>2, <1>3, <1>4 DEF GameTypeOK, GameInv, PlayersThere, RoomStays
<1>6. OthersStay(s)
  BY <1>2, <1>3, <1>4 DEF OthersStay
<1>7. /\ ~LoginComes(s) /\ ~LoginComes(s)' /\ ~EnterComes(s) /\ EnterComes(s)' /\ Outside(s) /\ Outside(s)'
      /\ ~EnterStarts(s) /\ ~EnterStarts(s)' /\ hook[s] = "none" /\ greeted[s]
      /\ enteredAt'[s] \in Nat /\ enteredAt'[s] # NoPlayer
  BY <1>1, <1>2, <1>3, <1>4, PacketKinds, NoPlayerIsNull DEF ClientOK, PacketsOK, LoginComes,
     EnterComes, EnterStarts, Outside
<1> USE <1>1, <1>2, <1>7, PacketKinds DEF ClientOK
<1>8. PacketsOK(s)'
  BY <1>3, <1>4 DEF PacketsOK, EnterComes
<1>9. PlayersOK(s)' /\ MembersOK(s)' /\ OutsideOK(s)'
  BY DEF PlayersOK, OutsideOK, MembersOK, RoomStays
<1>10. NumbersOK(s)'
  BY <1>4, BeforeElems DEF NumbersOK
<1>11. OwnOK(s)'
  <2>1. \A j \in Elems(Done) \cup Now \cup Elems(Line) : ~OwnLate(s, j)'
    <3>1. Elems(Done) \cup Now \cup Elems(Line) \subseteq RoomJobs
      BY DEF Elems, Done, Now, Line, GameTypeOK
    <3> QED
      BY <1>3, <3>1, JobKinds DEF OwnLate, NumbersOK
  <2>2. \A p \in Elems(toServer'[s]) : IsNumbered(p) => p \in Elems(toServer[s]) /\ p[2] \in Nat /\ p[2] <= chats[s]
    <3>1. Elems(toServer[s]) \subseteq ToServer
      BY DEF Elems, GameTypeOK
    <3> QED
      BY <1>4, <3>1 DEF NumbersOK
  <2>3. \A p \in Elems(toServer'[s]) : IsNumbered(p) => ~(p[2] > enteredAt'[s])
    BY <1>3, <2>2
  <2> QED
    BY <2>1, <2>3 DEF OwnOK
<1>12. InboxOK(s)'
  BY DEF InboxOK, Precedes, RoomStays
<1> QED
  BY <1>5, <1>6, <1>8, <1>9, <1>10, <1>11, <1>12, LocalStep

LEMMA ClientSendRefusedPreserves == ASSUME GameInv, NEW s \in Clients, ClientSendRefused(s) PROVE GameInv'
<1>1. ClientOK(s) /\ GameTypeOK
  BY DEF GameInv
<1>2. PICK i, k \in DOMAIN toServer[s] :
         /\ i <= k /\ toServer' = [toServer EXCEPT ![s] = Cut(toServer[s], i, k)]
         /\ enteredAt' = [enteredAt EXCEPT ![s] =
              IF \E n \in i..k : toServer[s][n] = EnterPacket THEN NoPlayer ELSE enteredAt[s]]
  BY DEF ClientSendRefused, Cut, EnterPacket
<1>3. /\ UNCHANGED <<connected, players, currentPlayer, inRoom, stage, hook, inbox, arrived, lost, fault,
                     chats, greeted>>
      /\ refused' = [refused EXCEPT ![s] = refused[s] + 1] /\ stage[s] # "closed"
      /\ RoomStays /\ UNCHANGED <<Line, Now, Done>>
  BY DEF ClientSendRefused, Refuse, Reads, sessionVars, roomVars, queueVars, RoomStays, Line, Now, Done
<1> DEFINE drop == \E n \in i..k : toServer[s][n] = EnterPacket
           left == Cut(toServer[s], i, k)
<1>4. /\ left \in Seq(ToServer) /\ Elems(left) \subseteq Elems(toServer[s])
      /\ \A a, b : Before(left, a, b) => Before(toServer[s], a, b)
      /\ \A a \in Elems(toServer[s]) : a \in Elems(left) \/ \E n \in i..k : toServer[s][n] = a
      /\ \A n \in i..k : toServer[s][n] \in Elems(left) => Before(toServer[s], toServer[s][n], toServer[s][n])
  <2>1. toServer[s] \in Seq(ToServer)
    BY <1>1 DEF GameTypeOK
  <2> QED
    BY <1>2, <2>1, CutElems
<1>5. drop => EnterComes(s) /\ EnterPacket \notin Elems(left)
  <2>1. \A n \in i..k : n \in DOMAIN toServer[s]
    BY <1>1, <1>2 DEF GameTypeOK
  <2>2. ~Before(toServer[s], EnterPacket, EnterPacket)
    BY <1>1 DEF ClientOK, PacketsOK
  <2> QED
    BY <1>4, <2>1, <2>2 DEF EnterComes, Elems
<1>6. /\ toServer'[s] = left /\ enteredAt'[s] = IF drop THEN NoPlayer ELSE enteredAt[s]
      /\ \A u \in Clients \ {s} : toServer'[u] = toServer[u] /\ enteredAt'[u] = enteredAt[u]
      /\ toServer' \in [Clients -> Seq(ToServer)] /\ enteredAt' \in [Clients -> Nat \cup {NoPlayer}]
  BY <1>1, <1>2, <1>4 DEF GameTypeOK
<1> HIDE DEF left
<1>7. /\ LoginComes(s)' => LoginComes(s)
      /\ EnterComes(s)' <=> EnterComes(s) /\ ~drop
      /\ EnterStarts(s)' <=> EnterStarts(s)
      /\ drop => ~EnterStarts(s) /\ Outside(s)
  <2>1. (LoginComes(s)' => LoginComes(s)) /\ (EnterStarts(s)' <=> EnterStarts(s))
    BY <1>3, <1>4, <1>6 DEF LoginComes, EnterStarts
  <2>2. EnterComes(s)' <=> EnterComes(s) /\ ~drop
    BY <1>4, <1>5, <1>6 DEF EnterComes
  <2>3. drop => ~EnterStarts(s) /\ Outside(s)
    BY <1>1, <1>5 DEF ClientOK, PacketsOK, Outside
  <2> QED
    BY <2>1, <2>2, <2>3
<1> HIDE DEF drop
<1>8. Outside(s)' <=> Outside(s)
  BY <1>6, <1>7 DEF Outside
<1>9. GameTypeOK' /\ PlayersThere'
  <2>1. refused' \in [Clients -> Nat]
    BY <1>1, <1>3 DEF GameTypeOK
  <2>2. PlayersThere'
    BY <1>3 DEF GameInv, PlayersThere
  <2> QED
    BY <1>1, <1>3, <1>6, <2>1, <2>2 DEF GameTypeOK, RoomStays
<1>10. OthersStay(s)
  BY <1>3, <1>6 DEF OthersStay
<1> USE <1>1, <1>3, <1>4, <1>6, <1>7, <1>8 DEF ClientOK
<1>11. PacketsOK(s)'
  BY DEF PacketsOK
<1>12. PlayersOK(s)' /\ OutsideOK(s)' /\ MembersOK(s)'
  BY DEF PlayersOK, OutsideOK, MembersOK, RoomStays
<1>13. NumbersOK(s)'
  BY DEF NumbersOK
<1>14. OwnOK(s)'
  <2>1. \A j : OwnLate(s, j)' => OwnLate(s, j)
    BY DEF OwnLate
  <2> QED
    BY <2>1 DEF OwnOK, RoomStays
<1>15. InboxOK(s)'
  BY DEF InboxOK, Precedes, RoomStays
<1> QED
  BY <1>9, <1>10, <1>11, <1>12, <1>13, <1>14, <1>15, LocalStep

LEMMA BroadcastChatPreserves == ASSUME GameInv, NEW s \in Clients, BroadcastChat(s) PROVE GameInv'
<1> DEFINE c == <<"C_CHAT", chats[s] + 1>>
<1>1. ClientOK(s) /\ GameTypeOK /\ chats[s] \in Nat
  BY DEF GameInv, GameTypeOK
<1>2. /\ UNCHANGED <<connected, players, currentPlayer, inRoom, stage, hook, inbox, arrived, lost, refused, fault,
                     greeted, enteredAt>>
      /\ chats' = [chats EXCEPT ![s] = chats[s] + 1] /\ SendToServer(s, c)
      /\ RoomStays /\ UNCHANGED <<Line, Now, Done>>
  BY DEF BroadcastChat, SendToServer, sessionVars, roomVars, farVars, queueVars, RoomStays, Line, Now, Done
<1>3. /\ chats'[s] = chats[s] + 1 /\ chats' \in [Clients -> Nat]
      /\ \A u \in Clients \ {s} : chats'[u] = chats[u]
  BY <1>1, <1>2 DEF GameTypeOK
<1>4. c \in ToServer /\ IsNumbered(c) /\ c[2] = chats[s] + 1 /\ c # LoginPacket /\ c # EnterPacket
  <2>1. chats[s] + 1 \in Nat
    BY <1>1
  <2> QED
    BY <2>1, PacketKinds
<1> HIDE DEF c
<1>5. /\ stage[s] # "closed" /\ toServer' \in [Clients -> Seq(ToServer)]
      /\ \A u \in Clients : u # s => toServer'[u] = toServer[u]
      /\ Elems(toServer'[s]) = Elems(toServer[s]) \cup {c}
      /\ \A a, b : Before(toServer'[s], a, b) <=>
           \/ Before(toServer[s], a, b)
           \/ a \in Elems(toServer[s]) /\ b = c
  BY <1>1, <1>2, <1>4, ToServerEffect
<1>6. GameTypeOK' /\ PlayersThere'
  BY <1>1, <1>2, <1>3, <1>5 DEF GameTypeOK, GameInv, PlayersThere, RoomStays
<1>7. OthersStay(s)
  BY <1>2, <1>3, <1>5 DEF OthersStay
<1>8. /\ (LoginComes(s)' <=> LoginComes(s)) /\ (EnterComes(s)' <=> EnterComes(s))
      /\ (Outside(s)' <=> Outside(s))
      /\ (EnterStarts(s)' <=> EnterStarts(s))
  BY <1>2, <1>4, <1>5 DEF LoginComes, EnterComes, EnterStarts, Outside
<1> USE <1>1, <1>2, <1>8 DEF ClientOK
<1>9. PacketsOK(s)'
  BY <1>4, <1>5 DEF PacketsOK
<1>10. PlayersOK(s)' /\ OutsideOK(s)' /\ MembersOK(s)'
  BY DEF PlayersOK, OutsideOK, MembersOK, RoomStays
<1>11. NumbersOK(s)'
  <2>1. \A p \in Elems(toServer[s]) : p \in ToServer /\ (IsNumbered(p) => p[2] \in Nat /\ p[2] <= chats[s])
    <3>1. Elems(toServer[s]) \subseteq ToServer
      BY DEF Elems, GameTypeOK
    <3> QED
      BY <3>1, PacketKinds DEF NumbersOK
  <2>2. \A j \in Elems(Done) \cup Now \cup Elems(Line) : IsChat(j) => j[3] \in Nat
    <3>1. Elems(Done) \cup Now \cup Elems(Line) \subseteq RoomJobs
      BY DEF Elems, Done, Now, Line, GameTypeOK
    <3> QED
      BY <3>1, JobKinds
  <2>3. \A p \in Elems(toServer'[s]) : IsNumbered(p) => p[2] <= chats'[s]
    BY <1>3, <1>4, <1>5, <2>1
  <2>4. ASSUME NEW p \in Elems(toServer'[s]), NEW q \in Elems(toServer'[s]),
               IsNumbered(p), IsNumbered(q), Before(toServer'[s], p, q)
        PROVE  p[2] < q[2]
    <3>1. CASE Before(toServer[s], p, q)
      BY <2>4, <3>1, BeforeElems DEF NumbersOK
    <3>2. CASE p \in Elems(toServer[s]) /\ q = c
      BY <1>4, <2>1, <2>4, <3>2
    <3> QED
      BY <1>5, <2>4, <3>1, <3>2
  <2>5. ASSUME NEW j \in Elems(Done) \cup Now \cup Elems(Line), IsChat(j), j[2] = s
        PROVE  /\ j[3] <= chats'[s]
               /\ \A p \in Elems(toServer'[s]) : IsNumbered(p) => j[3] < p[2]
    BY <1>3, <1>4, <1>5, <2>2, <2>5 DEF NumbersOK
  <2> QED
    BY <2>3, <2>4, <2>5 DEF NumbersOK
<1>12. OwnOK(s)'
  <2>1. ~Before(toServer'[s], c, EnterPacket)
    <3>1. c \notin Elems(toServer[s])
      BY <1>4 DEF NumbersOK
    <3> QED
      BY <1>4, <1>5, <3>1, BeforeElems
  <2>2. \A p \in Elems(toServer'[s]) : IsNumbered(p) /\ enteredAt[s] # NoPlayer /\ p[2] > enteredAt[s] =>
          ~Before(toServer'[s], p, EnterPacket)
    BY <1>4, <1>5, <2>1 DEF OwnOK
  <2> QED
    BY <2>2 DEF OwnOK, OwnLate, RoomStays
<1>13. InboxOK(s)'
  BY DEF InboxOK, Precedes, RoomStays
<1> QED
  BY <1>6, <1>7, <1>9, <1>10, <1>11, <1>12, <1>13, LocalStep

-----------------------------------------------------------------------------
\* A job that a session submits disturbs no other session.
SubmitStep(s, j) ==
    /\ OthersStay(s) /\ UNCHANGED <<members, rest>> /\ Queue!Submit(Room, j)
    /\ j \in RoomJobs /\ j[2] = s

LEMMA SubmitStepEffect == ASSUME GameInv, NEW s \in Clients, NEW j, SubmitStep(s, j),
                                 GameTypeOK', PlayersThere', LineOK', ClientOK(s)'
    PROVE  GameInv'
<1>1. /\ UNCHANGED <<Now, Done, members, rest>>
      /\ Elems(Line') = Elems(Line) \cup {j}
      /\ \A a, b : Before(Line', a, b) <=> Before(Line, a, b) \/ (a \in Elems(Line) /\ b = j)
  BY SubmitEffect DEF GameInv, SubmitStep
<1>2. JobsOK'
  <2>1. j # EnterJob(NoPlayer)
    BY JobKinds, NoPlayerIsNull DEF SubmitStep
  <2> QED
    BY <1>1, <2>1 DEF GameInv, JobsOK
<1>3. ASSUME NEW u \in Clients \ {s} PROVE ClientOK(u)'
  <2>1. ClientOK(u) /\ j # EnterJob(u) /\ j # LeaveJob(u) /\ j[2] # u
    BY JobKinds DEF GameInv, SubmitStep
  <2>2. OthersStay(s)
    BY DEF SubmitStep
  <2> USE <1>1, <1>3, <2>1, <2>2 DEF ClientOK, OthersStay, Outside, LoginComes, EnterComes, EnterStarts
  <2>3. PacketsOK(u)'
    BY DEF PacketsOK
  <2>4. PlayersOK(u)' /\ OutsideOK(u)' /\ MembersOK(u)'
    BY DEF PlayersOK, OutsideOK, MembersOK
  <2>5. OwnOK(u)'
    BY DEF OwnOK, OwnLate
  <2>6. NumbersOK(u)' /\ InboxOK(u)'
    BY DEF NumbersOK, InboxOK, Precedes
  <2> QED
    BY <2>3, <2>4, <2>5, <2>6
<1> QED
  BY <1>2, <1>3 DEF GameInv

LEMMA LineWithoutChat == ASSUME GameInv, NEW j \in RoomJobs, Queue!Submit(Room, j), ~IsChat(j) PROVE LineOK'
<1>1. /\ UNCHANGED <<Now, Done>> /\ Elems(Line') = Elems(Line) \cup {j}
      /\ \A a, b : Before(Line', a, b) <=> Before(Line, a, b) \/ (a \in Elems(Line) /\ b = j)
  BY SubmitEffect DEF GameInv
<1> QED
  BY <1>1, BeforeElems DEF GameInv, LineOK, SameSender

LEMMA EnterPushPreserves == ASSUME GameInv, NEW s \in Clients, EnterPush(s), UNCHANGED clientVars PROVE GameInv'
<1>1. ClientOK(s) /\ GameTypeOK
  BY DEF GameInv
<1>2. /\ UNCHANGED <<connected, players, currentPlayer, inRoom, hook, toServer, inbox, arrived, lost, refused,
                     fault, greeted,
                     chats, enteredAt, members, rest>>
      /\ stage[s] = "enterPush" /\ stage' = [stage EXCEPT ![s] = "enterSend"]
      /\ Queue!Submit(Room, EnterJob(IF currentPlayer[s] THEN s ELSE NoPlayer))
  BY DEF EnterPush, At, Goto, clientVars, roomVars, farVars, netVars, EnterJob
<1>3. /\ stage'[s] = "enterSend" /\ \A u \in Clients \ {s} : stage'[u] = stage[u]
      /\ stage' \in [Clients -> {"recv", "enterRoom", "enterPush", "enterSend", "closed", "deaf"}]
  BY <1>1, <1>2 DEF GameTypeOK
<1>4. /\ EnterStarts(s) /\ Outside(s) /\ ~EnterStarts(s)' /\ ~EnterComes(s) /\ ~EnterComes(s)'
      /\ enteredAt[s] # NoPlayer /\ ~Outside(s)' /\ hook[s] = "none" /\ currentPlayer[s] /\ inRoom[s] /\ connected[s]
      /\ Queue!Submit(Room, EnterJob(s))
  BY <1>1, <1>2, <1>3 DEF ClientOK, PacketsOK, PlayersOK, EnterStarts, EnterComes, Outside
<1> DEFINE j == EnterJob(s)
<1>5. j \in RoomJobs /\ ~IsChat(j) /\ j[2] = s /\ j # LeaveJob(s)
  BY JobKinds
<1> HIDE DEF j
<1>6. /\ pending' \in [{Room} -> Seq(RoomJobs)] /\ UNCHANGED <<running, finished, Now, Done>>
      /\ Elems(Line') = Elems(Line) \cup {j}
      /\ \A a, b : Before(Line', a, b) <=> Before(Line, a, b) \/ (a \in Elems(Line) /\ b = j)
  BY <1>1, <1>4, <1>5, SubmitEffect DEF j
<1>7. GameTypeOK' /\ PlayersThere'
  BY <1>1, <1>2, <1>3, <1>6 DEF GameTypeOK, GameInv, PlayersThere
<1>8. SubmitStep(s, j) /\ LineOK'
  BY <1>2, <1>3, <1>4, <1>5, LineWithoutChat DEF SubmitStep, OthersStay, j
<1> USE <1>1, <1>2, <1>4, <1>5, <1>6 DEF ClientOK
<1>9. PacketsOK(s)' /\ PlayersOK(s)' /\ OutsideOK(s)'
  BY <1>3 DEF PacketsOK, PlayersOK, OutsideOK, LoginComes
<1>10. MembersOK(s)'
  BY DEF MembersOK, OutsideOK, j
<1>11. OwnOK(s)'
  <2>1. \A k \in Elems(Line) : ~OwnLate(s, k)
    BY DEF OwnOK
  <2> QED
    BY <2>1 DEF OwnOK, OwnLate, j
<1>12. NumbersOK(s)' /\ InboxOK(s)'
  BY DEF NumbersOK, InboxOK, Precedes
<1> QED
  BY <1>7, <1>8, <1>9, <1>10, <1>11, <1>12, SubmitStepEffect

LEMMA ChatPreserves == ASSUME GameInv, NEW s \in Clients, Chat(s), UNCHANGED clientVars PROVE GameInv'
<1> DEFINE p == Head(toServer[s])
           j == <<"chat", s, p[2]>>
<1>1. ClientOK(s) /\ GameTypeOK
  BY DEF GameInv
<1>2. /\ UNCHANGED <<connected, players, currentPlayer, inRoom, stage, hook, inbox, arrived, lost, refused,
                     fault, greeted, chats, enteredAt, members, rest>>
      /\ Handles(s, "C_CHAT") /\ Queue!Submit(Room, j)
  BY DEF Chat, clientVars, roomVars, farVars, sessionVars
<1>3. /\ stage[s] = "recv" /\ toServer' \in [Clients -> Seq(ToServer)]
      /\ \A u \in Clients : u # s => toServer'[u] = toServer[u]
      /\ p \in ToServer /\ IsNumbered(p)
      /\ Elems(toServer[s]) = Elems(toServer'[s]) \cup {p}
      /\ \A a, b : Before(toServer[s], a, b) <=>
           \/ Before(toServer'[s], a, b)
           \/ a = p /\ b \in Elems(toServer'[s])
  BY <1>1, <1>2, HandlesEffect DEF IsNumbered
<1>4. p[2] \in Nat /\ p # LoginPacket /\ p # EnterPacket
  BY <1>3, PacketKinds
<1>5. j \in RoomJobs /\ IsChat(j) /\ j[2] = s /\ j[3] = p[2] /\ j # LeaveJob(s) /\ j # EnterJob(s)
  BY <1>4, JobKinds
<1> HIDE DEF p, j
<1>6. /\ pending' \in [{Room} -> Seq(RoomJobs)] /\ UNCHANGED <<running, finished, Now, Done>>
      /\ Elems(Line') = Elems(Line) \cup {j}
      /\ \A a, b : Before(Line', a, b) <=> Before(Line, a, b) \/ (a \in Elems(Line) /\ b = j)
  BY <1>1, <1>2, <1>5, SubmitEffect
<1>7. GameTypeOK' /\ PlayersThere'
  BY <1>1, <1>2, <1>3, <1>6 DEF GameTypeOK, GameInv, PlayersThere
<1>8. SubmitStep(s, j)
  BY <1>2, <1>3, <1>5 DEF SubmitStep, OthersStay
<1>9. \A k \in Elems(Done) \cup Now \cup Elems(Line) : IsChat(k) /\ k[2] = s => k[3] < p[2]
  BY <1>1, <1>3 DEF ClientOK, NumbersOK
<1>10. j \notin Elems(Line)
  BY <1>4, <1>5, <1>9
<1>11. LineOK'
  BY <1>5, <1>6, <1>9, <1>10, BeforeElems DEF GameInv, LineOK, SameSender
<1>12. (LoginComes(s)' <=> LoginComes(s)) /\ (EnterComes(s)' <=> EnterComes(s))
       /\ (Outside(s)' <=> Outside(s)) /\ (EnterStarts(s)' <=> EnterStarts(s)) /\ ~EnterStarts(s)
  BY <1>2, <1>3, <1>4 DEF LoginComes, EnterComes, Outside, EnterStarts
<1> USE <1>1, <1>2, <1>5, <1>6, <1>12 DEF ClientOK
<1>13. PacketsOK(s)'
  BY <1>3, EmptyElems DEF PacketsOK
<1>14. PlayersOK(s)' /\ OutsideOK(s)'
  BY DEF PlayersOK, OutsideOK
<1>15. MembersOK(s)'
  BY DEF MembersOK
<1>16. NumbersOK(s)'
  <2>1. \A q \in Elems(toServer'[s]) : IsNumbered(q) => p[2] < q[2] /\ q[2] <= chats[s]
    BY <1>3 DEF NumbersOK
  <2>2. p[2] <= chats[s]
    BY <1>3 DEF NumbersOK
  <2>3. \A q, r \in Elems(toServer'[s]) :
          IsNumbered(q) /\ IsNumbered(r) /\ Before(toServer'[s], q, r) => q[2] < r[2]
    BY <1>3 DEF NumbersOK
  <2>4. \A k \in Elems(Done) \cup Now \cup Elems(Line) : IsChat(k) /\ k[2] = s =>
          /\ k[3] <= chats[s]
          /\ \A q \in Elems(toServer'[s]) : IsNumbered(q) => k[3] < q[2]
    BY <1>3 DEF NumbersOK
  <2> QED
    BY <2>1, <2>2, <2>3, <2>4 DEF NumbersOK
<1>17. OwnOK(s)'
  <2>1. \A q \in Elems(toServer'[s]) : IsNumbered(q) /\ enteredAt[s] # NoPlayer /\ q[2] > enteredAt[s] =>
          ~Before(toServer'[s], q, EnterPacket)
    BY <1>3 DEF OwnOK
  <2>2. OwnLate(s, j) => ~Outside(s)
    <3>1. SUFFICES ASSUME OwnLate(s, j) PROVE ~EnterComes(s) /\ enteredAt[s] # NoPlayer
      BY DEF Outside
    <3>2. enteredAt[s] # NoPlayer /\ p[2] > enteredAt[s]
      BY <3>1 DEF OwnLate
    <3>3. ~Before(toServer[s], p, EnterPacket)
      BY <1>3, <3>2 DEF OwnOK
    <3> QED
      BY <1>3, <3>2, <3>3 DEF EnterComes, PacketsOK
  <2>3. ~Before(Line', j, EnterJob(s)) /\ \A k : Before(Line', k, EnterJob(s)) => Before(Line, k, EnterJob(s))
    BY <1>10, BeforeElems
  <2>4. \A k \in Elems(Line') : OwnLate(s, k) /\ connected[s] => ~Outside(s) /\ ~Before(Line', k, EnterJob(s))
    BY <2>2, <2>3 DEF OwnOK
  <2> QED
    BY <2>1, <2>4 DEF OwnOK, OwnLate
<1>18. InboxOK(s)'
  BY DEF InboxOK, Precedes
<1> QED
  BY <1>7, <1>8, <1>11, <1>13, <1>14, <1>15, <1>16, <1>17, <1>18, SubmitStepEffect

LEMMA OnDisconnectedPreserves == ASSUME GameInv, NEW s \in Clients, OnDisconnected(s), UNCHANGED clientVars
    PROVE  GameInv'
<1>1. ClientOK(s) /\ GameTypeOK
  BY DEF GameInv
<1>2. /\ UNCHANGED <<connected, players, currentPlayer, inRoom, stage, toServer, inbox, arrived, lost, refused,
                     fault, greeted,
                     chats, enteredAt, members, rest>>
      /\ hook[s] = "pending" /\ hook' = [hook EXCEPT ![s] = "reset"]
      /\ IF currentPlayer[s] /\ inRoom[s]
         THEN Queue!Submit(Room, LeaveJob(s))
         ELSE UNCHANGED <<pending, running, finished>>
  BY DEF OnDisconnected, Unhooks, clientVars, roomVars, farVars, netVars, queueVars, LeaveJob
<1>3. /\ hook'[s] = "reset" /\ \A u \in Clients \ {s} : hook'[u] = hook[u]
      /\ hook' \in [Clients -> {"none", "pending", "reset", "clear", "done"}]
  BY <1>1, <1>2 DEF GameTypeOK
<1>4. ~connected[s] /\ OthersStay(s)
  BY <1>1, <1>2, <1>3 DEF ClientOK, PlayersOK, OthersStay
<1> USE <1>1, <1>2, <1>3, <1>4 DEF ClientOK
<1>5. PacketsOK(s)' /\ PlayersOK(s)'
  BY DEF PacketsOK, PlayersOK, LoginComes, EnterComes, EnterStarts
<1>6. CASE currentPlayer[s] /\ inRoom[s]
  <2> DEFINE j == LeaveJob(s)
  <2>1. j \in RoomJobs /\ ~IsChat(j) /\ j[2] = s /\ j # EnterJob(s)
    BY JobKinds
  <2> HIDE DEF j
  <2>2. /\ pending' \in [{Room} -> Seq(RoomJobs)] /\ UNCHANGED <<running, finished, Now, Done>>
        /\ Elems(Line') = Elems(Line) \cup {j}
        /\ \A a, b : Before(Line', a, b) <=> Before(Line, a, b) \/ (a \in Elems(Line) /\ b = j)
    BY <1>6, <2>1, SubmitEffect DEF j
  <2>3. GameTypeOK' /\ PlayersThere'
    BY <2>2 DEF GameTypeOK, GameInv, PlayersThere
  <2>4. SubmitStep(s, j) /\ LineOK'
    BY <1>6, <2>1, LineWithoutChat DEF SubmitStep, j
  <2> USE <2>1, <2>2 DEF Outside, EnterComes, EnterStarts
  <2>5. OutsideOK(s)' /\ MembersOK(s)'
    BY DEF OutsideOK, MembersOK, j
  <2>6. OwnOK(s)' /\ NumbersOK(s)' /\ InboxOK(s)'
    BY DEF OwnOK, NumbersOK, InboxOK, Precedes
  <2> QED
    BY <1>5, <2>3, <2>4, <2>5, <2>6, SubmitStepEffect
<1>7. CASE ~(currentPlayer[s] /\ inRoom[s])
  <2>1. RoomStays /\ UNCHANGED <<Line, Now, Done>>
    BY <1>7 DEF RoomStays, Line, Now, Done
  <2>2. GameTypeOK' /\ PlayersThere'
    BY <2>1 DEF GameTypeOK, GameInv, PlayersThere, RoomStays
  <2> USE <2>1 DEF Outside, EnterComes, EnterStarts
  <2>3. OutsideOK(s)' /\ MembersOK(s)'
    BY <1>7 DEF OutsideOK, MembersOK
  <2>4. OwnOK(s)' /\ NumbersOK(s)' /\ InboxOK(s)'
    BY DEF OwnOK, NumbersOK, InboxOK, Precedes
  <2> QED
    BY <1>5, <2>2, <2>3, <2>4, LocalStep
<1> QED
  BY <1>6, <1>7

-----------------------------------------------------------------------------
\* The steps of the room's jobs leave the sessions alone.
SessionsStay ==
    UNCHANGED <<connected, players, currentPlayer, inRoom, stage, hook, toServer, arrived, lost, refused,
                clientVars>>

LEMMA SessionsStayEffect == ASSUME SessionsStay, NEW s \in Clients
    PROVE  /\ Outside(s)' <=> Outside(s)
           /\ inbox'[s] = inbox[s] => (PacketsOK(s) => PacketsOK(s)') /\ (PlayersOK(s) => PlayersOK(s)')
           /\ \A j : OwnLate(s, j)' <=> OwnLate(s, j)
<1> USE DEF SessionsStay, clientVars, Outside, EnterComes, EnterStarts, LoginComes
<1>1. Outside(s)' <=> Outside(s)
  OBVIOUS
<1>2. inbox'[s] = inbox[s] => (PacketsOK(s) => PacketsOK(s)') /\ (PlayersOK(s) => PlayersOK(s)')
  BY DEF PacketsOK, PlayersOK
<1>3. \A j : OwnLate(s, j)' <=> OwnLate(s, j)
  BY DEF OwnLate
<1> QED
  BY <1>1, <1>2, <1>3

\* The first of the line begins.
LEMMA LineStarts == ASSUME GameInv, NEW kind, Starts(kind)
    PROVE  /\ LineOK'
           /\ \A a, b : Precedes(a, b) => Precedes(a, b)'
<1> DEFINE j == Head(Line)
<1>1. /\ Done' = Done /\ Now = {} /\ Now' = {j} /\ Elems(Line) = Elems(Line') \cup {j}
      /\ \A a, b : Before(Line, a, b) <=> Before(Line', a, b) \/ (a = j /\ b \in Elems(Line'))
  BY StartsEffect DEF GameInv
<1> HIDE DEF j
<1>2. LineOK'
  <2>1. /\ \A a, b \in Elems(Line') : SameSender(a, b) /\ Before(Line', a, b) => a[3] < b[3]
        /\ \A a, b \in Elems(Done') : SameSender(a, b) /\ Before(Done', a, b) => a[3] < b[3]
    BY <1>1 DEF GameInv, LineOK
  <2>2. \A a \in Elems(Done'), b \in Now' \cup Elems(Line') : SameSender(a, b) => a[3] < b[3]
    BY <1>1 DEF GameInv, LineOK
  <2>3. \A a \in Now', b \in Elems(Line') : SameSender(a, b) => a[3] < b[3]
    BY <1>1 DEF GameInv, LineOK
  <2> QED
    BY <2>1, <2>2, <2>3 DEF LineOK
<1> QED
  BY <1>1, <1>2 DEF Precedes

LEMMA EnterPreserves == ASSUME GameInv, Enter, UNCHANGED clientVars PROVE GameInv'
<1> DEFINE j == Head(Line)
           player == j[2]
<1>1. /\ Starts("enter") /\ members' = members \cup ({player} \ {NoPlayer})
      /\ fault' = (IF player = NoPlayer THEN "_player->" ELSE "no") /\ UNCHANGED <<rest, clientVars>>
  BY DEF Enter, Line
<1>2. /\ j \in RoomJobs /\ j[1] = "enter"
      /\ pending' \in [{Room} -> Seq(RoomJobs)] /\ running' \in [{Room} -> SUBSET RoomJobs]
      /\ UNCHANGED <<finished, Done, sessionVars, netVars>>
      /\ Now = {} /\ Now' = {j}
      /\ Elems(Line) = Elems(Line') \cup {j}
      /\ \A a, b : Before(Line, a, b) <=> Before(Line', a, b) \/ (a = j /\ b \in Elems(Line'))
  BY <1>1, StartsEffect DEF GameInv
<1>3. j = EnterJob(player) /\ player \in Clients \cup {NoPlayer}
  BY <1>2, JobKinds
<1>4. player \in Clients /\ player # NoPlayer
  BY <1>2, <1>3 DEF GameInv, JobsOK
<1>5. members' = members \cup {player} /\ fault' = "no"
  BY <1>1, <1>4
<1>6. ~IsChat(j) /\ \A s \in Clients : /\ j # LeaveJob(s) /\ (j = EnterJob(s) <=> s = player)
  BY <1>3, <1>4, JobKinds
<1> HIDE DEF j, player
<1>7. SessionsStay /\ UNCHANGED inbox
  BY <1>1, <1>2 DEF SessionsStay, sessionVars, netVars, farVars
<1>8. LineOK' /\ \A a, b : Precedes(a, b) => Precedes(a, b)'
  BY <1>1, LineStarts
<1>9. GameTypeOK' /\ PlayersThere'
  BY <1>1, <1>2, <1>4, <1>5, <1>7 DEF GameTypeOK, GameInv, PlayersThere, SessionsStay, clientVars
<1>10. JobsOK'
  BY <1>1, <1>2 DEF GameInv, JobsOK
<1>11. ASSUME NEW s \in Clients PROVE ClientOK(s)'
  <2>1. ClientOK(s) /\ (Outside(s)' <=> Outside(s)) /\ PacketsOK(s)' /\ PlayersOK(s)'
        /\ \A k : OwnLate(s, k)' <=> OwnLate(s, k)
    BY <1>7, SessionsStayEffect DEF GameInv, ClientOK
  <2> USE <1>1, <1>2, <1>5, <1>6, <1>7, <2>1 DEF ClientOK, SessionsStay, clientVars
  <2>2. OutsideOK(s)' /\ MembersOK(s)'
    BY DEF OutsideOK, MembersOK, EnterStarts
  <2>3. OwnOK(s)'
    <3>1. \A k \in Now' : ~OwnLate(s, k)
      BY DEF OwnLate
    <3> QED
      BY <3>1 DEF OwnOK
  <2>4. NumbersOK(s)' /\ InboxOK(s)'
    BY <1>8 DEF NumbersOK, InboxOK
  <2> QED
    BY <2>1, <2>2, <2>3, <2>4
<1> QED
  BY <1>8, <1>9, <1>10, <1>11 DEF GameInv

LEMMA LeavePreserves == ASSUME GameInv, Leave, UNCHANGED clientVars PROVE GameInv'
<1> DEFINE j == Head(Line)
           player == j[2]
<1>1. Starts("leave") /\ members' = members \ {player} /\ UNCHANGED <<rest, fault, clientVars>>
  BY DEF Leave, Line
<1>2. /\ j \in RoomJobs /\ j[1] = "leave"
      /\ pending' \in [{Room} -> Seq(RoomJobs)] /\ running' \in [{Room} -> SUBSET RoomJobs]
      /\ UNCHANGED <<finished, Done, sessionVars, netVars>>
      /\ Now = {} /\ Now' = {j}
      /\ Elems(Line) = Elems(Line') \cup {j}
      /\ \A a, b : Before(Line, a, b) <=> Before(Line', a, b) \/ (a = j /\ b \in Elems(Line'))
  BY <1>1, StartsEffect DEF GameInv
<1>3. j = LeaveJob(player) /\ player \in Clients \cup {NoPlayer}
  BY <1>2, JobKinds
<1>4. ~IsChat(j) /\ \A s \in Clients : /\ j # EnterJob(s) /\ (j = LeaveJob(s) <=> s = player)
  BY <1>3, JobKinds
<1> HIDE DEF j, player
<1>5. SessionsStay /\ UNCHANGED inbox
  BY <1>1, <1>2 DEF SessionsStay, sessionVars, netVars, farVars
<1>6. LineOK' /\ \A a, b : Precedes(a, b) => Precedes(a, b)'
  BY <1>1, LineStarts
<1>7. GameTypeOK' /\ PlayersThere'
  BY <1>1, <1>2, <1>5 DEF GameTypeOK, GameInv, PlayersThere, SessionsStay, clientVars
<1>8. JobsOK'
  BY <1>1, <1>2 DEF GameInv, JobsOK
<1>9. ASSUME NEW s \in Clients PROVE ClientOK(s)'
  <2>1. ClientOK(s) /\ (Outside(s)' <=> Outside(s)) /\ PacketsOK(s)' /\ PlayersOK(s)'
        /\ \A k : OwnLate(s, k)' <=> OwnLate(s, k)
    BY <1>5, SessionsStayEffect DEF GameInv, ClientOK
  <2> USE <1>1, <1>2, <1>4, <1>5, <2>1 DEF ClientOK, SessionsStay, clientVars
  <2>2. s = player => hook[s] \in {"reset", "clear", "done"} /\ EnterJob(s) \notin Elems(Line') /\ ~connected[s]
    BY DEF MembersOK, PlayersOK
  <2>3. OutsideOK(s)' /\ MembersOK(s)'
    BY <2>2 DEF OutsideOK, MembersOK, EnterStarts
  <2>4. OwnOK(s)'
    <3>1. \A k \in Now' : ~OwnLate(s, k)
      BY DEF OwnLate
    <3> QED
      BY <2>2, <3>1 DEF OwnOK
  <2>5. NumbersOK(s)' /\ InboxOK(s)'
    BY <1>6 DEF NumbersOK, InboxOK
  <2> QED
    BY <2>1, <2>3, <2>4, <2>5
<1> QED
  BY <1>6, <1>7, <1>8, <1>9 DEF GameInv

LEMMA BroadcastPreserves == ASSUME GameInv, Broadcast, UNCHANGED clientVars PROVE GameInv'
<1> DEFINE j == Head(Line)
<1>1. Starts("chat") /\ rest' = members /\ UNCHANGED <<members, fault, clientVars>>
  BY DEF Broadcast
<1>2. /\ j \in RoomJobs /\ IsChat(j)
      /\ pending' \in [{Room} -> Seq(RoomJobs)] /\ running' \in [{Room} -> SUBSET RoomJobs]
      /\ UNCHANGED <<finished, Done, sessionVars, netVars>>
      /\ Now = {} /\ Now' = {j}
      /\ Elems(Line) = Elems(Line') \cup {j}
      /\ \A a, b : Before(Line, a, b) <=> Before(Line', a, b) \/ (a = j /\ b \in Elems(Line'))
  BY <1>1, StartsEffect DEF GameInv, IsChat
<1>3. \A s \in Clients : j # EnterJob(s) /\ j # LeaveJob(s)
  BY <1>2, JobKinds
<1> HIDE DEF j
<1>4. SessionsStay /\ UNCHANGED inbox
  BY <1>1, <1>2 DEF SessionsStay, sessionVars, netVars, farVars
<1>5. LineOK' /\ \A a, b : Precedes(a, b) => Precedes(a, b)'
  BY <1>1, LineStarts
<1>6. GameTypeOK' /\ PlayersThere'
  BY <1>1, <1>2, <1>4 DEF GameTypeOK, GameInv, PlayersThere, SessionsStay, clientVars
<1>7. JobsOK'
  BY <1>2 DEF GameInv, JobsOK
<1>8. ASSUME NEW s \in Clients PROVE ClientOK(s)'
  <2>1. ClientOK(s) /\ (Outside(s)' <=> Outside(s)) /\ PacketsOK(s)' /\ PlayersOK(s)'
        /\ \A k : OwnLate(s, k)' <=> OwnLate(s, k)
    BY <1>4, SessionsStayEffect DEF GameInv, ClientOK
  <2> USE <1>1, <1>2, <1>3, <1>4, <2>1 DEF ClientOK, SessionsStay, clientVars
  <2>2. OutsideOK(s)' /\ MembersOK(s)'
    BY DEF OutsideOK, MembersOK, EnterStarts
  <2>3. OwnLate(s, j) /\ connected[s] => s \in members
    BY DEF OwnOK
  <2>4. OwnOK(s)'
    BY <2>3 DEF OwnOK
  <2>5. NumbersOK(s)' /\ InboxOK(s)'
    BY <1>5 DEF NumbersOK, InboxOK
  <2> QED
    BY <2>1, <2>2, <2>4, <2>5
<1> QED
  BY <1>5, <1>6, <1>7, <1>8 DEF GameInv

LEMMA BroadcastSendPreserves == ASSUME GameInv, NEW r \in Clients, BroadcastSend(r), UNCHANGED clientVars
    PROVE  GameInv'
<1>1. GameTypeOK /\ JobsOK
  BY DEF GameInv
<1>2. PICK j \in Now : /\ r \in rest /\ rest' = rest \ {r} /\ Send(r, j)
                       /\ UNCHANGED <<sessionVars, members, queueVars, toServer, farVars, fault>>
  BY DEF BroadcastSend, Now
<1>3. SessionsStay /\ UNCHANGED <<members, pending, running, finished, Line, Now, Done, fault>>
  BY <1>2 DEF SessionsStay, sessionVars, farVars, queueVars, Line, Now, Done
<1>4. j \in RoomJobs /\ IsChat(j) /\ j \in ToClient /\ \A k \in Now : k = j
  <2>1. j \in RoomJobs
    BY <1>1 DEF GameTypeOK, Now
  <2>2. IsChat(j) /\ \A k \in Now : k = j
    BY <1>1, <1>2 DEF JobsOK
  <2> QED
    BY <2>1, <2>2, JobKinds
<1>5. /\ inbox' \in [Clients -> Seq(ToClient)]
      /\ \A u \in Clients : u # r \/ ~connected[u] => inbox'[u] = inbox[u]
      /\ connected[r] =>
           /\ inbox'[r] # <<>>
           /\ Elems(inbox'[r]) = Elems(inbox[r]) \cup {j}
           /\ \A a, b : Before(inbox'[r], a, b) <=>
                \/ Before(inbox[r], a, b)
                \/ a \in Elems(inbox[r]) /\ b = j
  BY <1>1, <1>2, <1>4, SendEffect
<1>6. GameTypeOK' /\ PlayersThere'
  BY <1>1, <1>2, <1>3, <1>5 DEF GameTypeOK, GameInv, PlayersThere, SessionsStay, clientVars
<1>7. JobsOK' /\ LineOK'
  BY <1>2, <1>3 DEF GameInv, JobsOK, LineOK
<1>8. ASSUME NEW s \in Clients PROVE ClientOK(s)'
  <2>1. ClientOK(s) /\ (Outside(s)' <=> Outside(s)) /\ (\A k : OwnLate(s, k)' <=> OwnLate(s, k))
        /\ \A a, b : Precedes(a, b)' <=> Precedes(a, b)
    BY <1>3, SessionsStayEffect DEF GameInv, Precedes
  <2> USE <1>3, <2>1 DEF ClientOK, SessionsStay, clientVars
  <2>2. s = r => ~Outside(s) /\ inbox[s] # <<>> /\ inbox'[s] # <<>>
    BY <1>2, <1>5 DEF OutsideOK, PacketsOK, Outside
  <2>3. PacketsOK(s)' /\ PlayersOK(s)'
    <3>1. CASE s # r
      BY <1>5, <3>1, SessionsStayEffect
    <3>2. CASE s = r
      BY <2>2, <3>2 DEF PacketsOK, PlayersOK, EnterStarts, EnterComes, LoginComes, Outside
    <3> QED
      BY <3>1, <3>2
  <2>4. OutsideOK(s)'
    BY <1>2, <1>5, <2>2 DEF OutsideOK, EnterStarts
  <2>5. MembersOK(s)' /\ NumbersOK(s)'
    BY DEF MembersOK, NumbersOK
  <2>6. OwnOK(s)'
    BY <1>2, <1>4, <1>5 DEF OwnOK
  <2>7. InboxOK(s)'
    <3>1. CASE s # r \/ ~connected[s]
      BY <1>2, <1>5, <3>1 DEF InboxOK
    <3>2. CASE s = r /\ connected[s]
      <4>1. \A a \in Elems(inbox[r]) : IsChat(a) => a \in Elems(Done)
        BY <1>2, <3>2 DEF InboxOK
      <4>2. \A a \in Elems(inbox[r]) : IsChat(a) => Precedes(a, j)
        BY <1>2, <4>1 DEF Precedes
      <4> QED
        BY <1>2, <1>5, <3>2, <4>1, <4>2, BeforeElems DEF InboxOK
    <3> QED
      BY <3>1, <3>2
  <2> QED
    BY <2>3, <2>4, <2>5, <2>6, <2>7
<1> QED
  BY <1>6, <1>7, <1>8 DEF GameInv

LEMMA JobEndPreserves == ASSUME GameInv, JobEnd, UNCHANGED clientVars PROVE GameInv'
<1>1. GameTypeOK /\ JobsOK
  BY DEF GameInv
<1>2. PICK j \in Now : /\ running' = [running EXCEPT ![Room] = {}]
                       /\ finished' = [finished EXCEPT ![Room] = Append(Done, j)]
                       /\ UNCHANGED <<pending, Line>>
  BY DEF JobEnd, Queue!Finish, Now, Done, Line
<1>3. SessionsStay /\ UNCHANGED <<inbox, members, rest, fault>> /\ rest = {}
  BY DEF JobEnd, SessionsStay, sessionVars, roomVars, farVars, netVars
<1>4. Now = {j} /\ j \in RoomJobs /\ Done \in Seq(RoomJobs)
  BY <1>1, <1>2 DEF JobsOK, GameTypeOK, Now, Done
<1>5. Append(Done, j) \in Seq(RoomJobs)
  BY <1>4, AppendElems
<1>6. /\ finished' \in [{Room} -> Seq(RoomJobs)] /\ running' \in [{Room} -> SUBSET RoomJobs]
      /\ Done' = Append(Done, j) /\ Now' = {}
  BY <1>1, <1>2, <1>5 DEF GameTypeOK, Now, Done
<1>7. /\ Elems(Done') = Elems(Done) \cup {j}
      /\ \A a, b : Before(Done', a, b) <=> Before(Done, a, b) \/ (a \in Elems(Done) /\ b = j)
  BY <1>4, <1>6, AppendElems
<1>8. GameTypeOK' /\ PlayersThere'
  BY <1>1, <1>2, <1>3, <1>6 DEF GameTypeOK, GameInv, PlayersThere, SessionsStay, clientVars
<1>9. JobsOK'
  BY <1>1, <1>2, <1>3, <1>6 DEF JobsOK
<1>10. LineOK'
  <2>1. /\ \A a, b \in Elems(Line') : SameSender(a, b) /\ Before(Line', a, b) => a[3] < b[3]
        /\ \A a \in Elems(Done'), b \in Now' \cup Elems(Line') : SameSender(a, b) => a[3] < b[3]
    BY <1>2, <1>4, <1>6, <1>7 DEF GameInv, LineOK
  <2>2. \A a, b \in Elems(Done') : SameSender(a, b) /\ Before(Done', a, b) => a[3] < b[3]
    BY <1>4, <1>7, BeforeElems DEF GameInv, LineOK
  <2> QED
    BY <1>6, <2>1, <2>2 DEF LineOK
<1>11. \A a, b : Precedes(a, b) => Precedes(a, b)'
  BY <1>4, <1>7 DEF Precedes
<1>12. ASSUME NEW s \in Clients PROVE ClientOK(s)'
  <2>1. ClientOK(s) /\ (Outside(s)' <=> Outside(s)) /\ PacketsOK(s)' /\ PlayersOK(s)'
        /\ \A k : OwnLate(s, k)' <=> OwnLate(s, k)
    BY <1>3, SessionsStayEffect DEF GameInv, ClientOK
  <2> USE <1>2, <1>3, <1>4, <1>6, <1>7, <2>1 DEF ClientOK, SessionsStay, clientVars
  <2>2. OutsideOK(s)' /\ MembersOK(s)'
    BY DEF OutsideOK, MembersOK, EnterStarts
  <2>3. OwnOK(s)' /\ NumbersOK(s)'
    BY DEF OwnOK, NumbersOK
  <2>4. InboxOK(s)'
    BY <1>11 DEF InboxOK
  <2> QED
    BY <2>1, <2>2, <2>3, <2>4
<1> QED
  BY <1>8, <1>9, <1>10, <1>12 DEF GameInv

-----------------------------------------------------------------------------
LEMMA GameInitInv == GameInit => GameInv
<1> SUFFICES ASSUME GameInit PROVE GameInv
  OBVIOUS
<1>1. /\ pending = [q \in {Room} |-> <<>>] /\ running = [q \in {Room} |-> {}]
      /\ finished = [q \in {Room} |-> <<>>]
  BY DEF GameInit, ServerInit, Queue!Init
<1>2. Line = <<>> /\ Now = {} /\ Done = <<>>
  BY <1>1 DEF Line, Now, Done
<1>3. Elems(Line) = {} /\ Elems(Done) = {} /\ \A a, b : ~Before(Line, a, b) /\ ~Before(Done, a, b)
  BY <1>2, EmptyElems
<1>4. GameTypeOK
  BY <1>1, EmptySeq DEF GameInit, ServerInit, GameTypeOK
<1>5. JobsOK /\ LineOK /\ PlayersThere
  BY <1>2, <1>3 DEF GameInit, ServerInit, JobsOK, LineOK, PlayersThere
<1>6. ASSUME NEW s \in Clients PROVE ClientOK(s)
  <2>1. /\ connected[s] /\ ~players[s] /\ ~currentPlayer[s] /\ ~inRoom[s]
        /\ stage[s] = "recv" /\ hook[s] = "none" /\ members = {} /\ rest = {}
        /\ toServer[s] = <<>> /\ inbox[s] = <<>> /\ arrived[s] = 0
        /\ ~greeted[s] /\ chats[s] = 0 /\ enteredAt[s] = NoPlayer
    BY DEF GameInit, ServerInit
  <2>2. /\ Elems(toServer[s]) = {} /\ Elems(inbox[s]) = {} /\ Len(inbox[s]) = 0
        /\ \A a, b : ~Before(toServer[s], a, b) /\ ~Before(inbox[s], a, b)
    BY <2>1, EmptyElems
  <2> USE <1>2, <1>3, <2>1, <2>2 DEF EnterStarts, EnterComes, LoginComes, Outside
  <2>3. PacketsOK(s) /\ PlayersOK(s) /\ OutsideOK(s) /\ MembersOK(s)
    BY DEF PacketsOK, PlayersOK, OutsideOK, MembersOK
  <2>4. OwnOK(s) /\ NumbersOK(s) /\ InboxOK(s)
    BY DEF OwnOK, NumbersOK, InboxOK
  <2> QED
    BY <2>3, <2>4 DEF ClientOK
<1> QED
  BY <1>4, <1>5, <1>6 DEF GameInv

LEMMA GameStepInv == GameInv /\ [GameNext]_gameVars => GameInv'
<1> SUFFICES ASSUME GameInv, [GameNext]_gameVars PROVE GameInv'
  OBVIOUS
<1>1. ASSUME NEW s \in Clients, UNCHANGED clientVars, Handler(s) PROVE GameInv'
  BY <1>1, LoginPreserves, EnterGamePreserves, EnterRoomPreserves, EnterPushPreserves, EnterSendPreserves,
     ChatPreserves DEF Handler
<1>2. ASSUME NEW s \in Clients, UNCHANGED clientVars,
             \/ SendRefused(s) \/ RecvRefused(s)
             \/ RecvZero(s) \/ SendFails(s) \/ OnDisconnected(s) \/ ResetPlayer(s) \/ ClearPlayers(s)
      PROVE  GameInv'
  BY <1>2, RefusedPreserves, RecvZeroPreserves, SendFailsPreserves, OnDisconnectedPreserves, ResetPlayerPreserves,
     ClearPlayersPreserves
<1>3. ASSUME UNCHANGED clientVars, RoomJob PROVE GameInv'
  BY <1>3, EnterPreserves, LeavePreserves, BroadcastPreserves, JobEndPreserves,
     BroadcastSendPreserves DEF RoomJob
<1>4. ASSUME NEW s \in Clients,
             Worker(s) \/ BroadcastChat(s) \/ ClientSendRefused(s) \/ ClientRecvRefused(s)
      PROVE  GameInv'
  BY <1>4, OnConnectedPreserves, HandleLoginPreserves, BroadcastChatPreserves,
     ClientSendRefusedPreserves, RefusedPreserves DEF Worker
<1>5. CASE UNCHANGED gameVars
  <2>1. /\ SessionsStay /\ RoomStays /\ UNCHANGED <<inbox, fault, Line, Now, Done>>
    BY <1>5 DEF gameVars, serverVars, sessionVars, roomVars, farVars, queueVars, netVars, SessionsStay,
       RoomStays, Line, Now, Done
  <2>2. GameTypeOK' /\ PlayersThere' /\ JobsOK' /\ LineOK'
    BY <2>1 DEF GameInv, GameTypeOK, PlayersThere, JobsOK, LineOK, SessionsStay, RoomStays, clientVars
  <2>3. ASSUME NEW s \in Clients PROVE ClientOK(s)'
    <3>1. ClientOK(s) /\ (Outside(s)' <=> Outside(s)) /\ PacketsOK(s)' /\ PlayersOK(s)'
          /\ \A k : OwnLate(s, k)' <=> OwnLate(s, k)
      BY <2>1, SessionsStayEffect DEF GameInv, ClientOK
    <3> QED
      BY <2>1, <3>1 DEF ClientOK, SessionsStay, RoomStays, clientVars, OutsideOK, MembersOK, OwnOK,
         NumbersOK,
         InboxOK, Precedes, EnterStarts
  <2> QED
    BY <2>2, <2>3 DEF GameInv
<1> QED
  BY <1>1, <1>2, <1>3, <1>4, <1>5 DEF GameNext, ServerNext

LEMMA GameInvariance == GameSpec => []GameInv
BY GameInitInv, GameStepInv, PTL DEF GameSpec

\* Every variable of GameRoom and DummyClient has its type.
THEOREM GameTypes == GameSpec => []GameTypeOK
<1>1. GameInv => GameTypeOK
  BY DEF GameInv
<1> QED
  BY <1>1, GameInvariance, PTL

\* Handle_C_ENTER_GAME finds the players of its session and Room::Enter gets one,
\* whenever OnDisconnected comes.
THEOREM PlayersAreThere == GameSpec => []PlayersThere
<1>1. GameInv => PlayersThere
  BY DEF GameInv
<1> QED
  BY <1>1, GameInvariance, PTL

\* When OnDisconnected has run the session refers to no player, and the room lets it
\* go once its jobs are done: Leave never gets ahead of Enter.
THEOREM SessionsLeave == GameSpec => []LeavesForGood
<1>1. ASSUME GameInv PROVE LeavesForGood
  <2>1. SUFFICES ASSUME NEW s \in Clients, hook[s] = "done"
                 PROVE  /\ ~players[s] /\ ~currentPlayer[s]
                        /\ \A i \in DOMAIN pending[Room] : pending[Room][i] = <<"enter", s>> => Awaited(s)
                        /\ s \in members => Awaited(s)
    BY DEF LeavesForGood
  <2>2. PlayersOK(s) /\ MembersOK(s)
    BY <1>1 DEF GameInv, ClientOK
  <2>3. LeaveJob(s) \in Elems(Line) => Awaited(s)
    BY DEF Awaited, LeaveJob, Elems, Line
  <2>4. (\E i \in DOMAIN pending[Room] : pending[Room][i] = <<"enter", s>>) => EnterJob(s) \in Elems(Line)
    BY DEF EnterJob, Elems, Line
  <2> QED
    BY <2>1, <2>2, <2>3, <2>4 DEF PlayersOK, MembersOK
<1> QED
  BY <1>1, GameInvariance, PTL

\* A client sees every chat it sends after its C_ENTER_GAME, while it is connected.
THEOREM OwnChatsSeen == GameSpec => []SeesOwnChats
<1>1. ASSUME GameInv PROVE SeesOwnChats
  <2>1. ASSUME NEW s \in Clients, NEW i \in DOMAIN finished[Room], OwnLate(s, finished[Room][i])
        PROVE  ~connected[s] \/ \E k \in DOMAIN inbox[s] : inbox[s][k] = finished[Room][i]
    <3>1. finished[Room][i] \in Elems(Done)
      BY DEF Elems, Done
    <3>2. connected[s] => finished[Room][i] \in Elems(inbox[s])
      BY <1>1, <2>1, <3>1 DEF GameInv, ClientOK, OwnOK
    <3> QED
      BY <3>2 DEF Elems
  <2> QED
    BY <2>1 DEF SeesOwnChats, OwnLate
<1> QED
  BY <1>1, GameInvariance, PTL

\* The order in which the room ran the chats is a strict one.
LEMMA PrecedesStrict == ASSUME GameInv, NEW a, NEW b, IsChat(a), IsChat(b), Precedes(a, b)
    PROVE  ~Precedes(b, a) /\ a # b /\ (SameSender(a, b) => a[3] < b[3])
<1>1. /\ LineOK /\ \A j \in Elems(Done) \cup Now : j \in RoomJobs /\ (IsChat(j) => j[3] \in Nat)
      /\ a \in Elems(Done) /\ b \in Elems(Done) \cup Now
  <2>1. Elems(Done) \cup Now \subseteq RoomJobs
    BY DEF GameInv, GameTypeOK, Elems, Done, Now
  <2> QED
    BY <2>1, JobKinds, BeforeElems DEF GameInv, Precedes
<1>2. SameSender(a, b) => a[3] < b[3]
  BY <1>1 DEF Precedes, LineOK
<1>3. a # b
  BY <1>1, <1>2 DEF SameSender
<1>4. ~Before(Done, a, a) /\ ~Before(Done, b, b)
  BY <1>1, BeforeElems DEF LineOK, SameSender
<1>5. ASSUME Precedes(b, a) PROVE FALSE
  <2>1. CASE Before(Done, a, b) /\ Before(Done, b, a)
    <3>1. PICK i, k \in DOMAIN Done : i < k /\ Done[i] = a /\ Done[k] = b
      BY <2>1 DEF Before
    <3>2. PICK m, n \in DOMAIN Done : m < n /\ Done[m] = b /\ Done[n] = a
      BY <2>1 DEF Before
    <3>3. i \in Int /\ k \in Int /\ m \in Int /\ n \in Int
      BY DEF GameInv, GameTypeOK, Done
    <3>4. i < n \/ m < k
      BY <3>1, <3>2, <3>3
    <3> QED
      BY <1>4, <3>1, <3>2, <3>4 DEF Before
  <2>2. CASE a \in Elems(Done) /\ b \in Now /\ b \in Elems(Done)
    BY <1>1, <2>2 DEF LineOK, SameSender
  <2>3. CASE b \in Elems(Done) /\ a \in Now
    BY <1>1, <2>3 DEF LineOK, SameSender
  <2> QED
    BY <1>1, <1>5, <2>1, <2>2, <2>3, BeforeElems DEF Precedes
<1> QED
  BY <1>2, <1>3, <1>5

\* All clients see the chats they share in one order, each once, and those of one
\* sender in the order it sent them: the jobs of a Room run one after the other.
THEOREM ChatsInOrder == GameSpec => []RoomOrder
<1>1. ASSUME GameInv PROVE RoomOrder
  <2>1. SUFFICES ASSUME NEW s \in Clients, NEW r \in Clients, NEW i \in DOMAIN inbox[s],
                        NEW k \in DOMAIN inbox[s],
                        i < k, IsChat(inbox[s][i]), IsChat(inbox[s][k])
                 PROVE  /\ \A m, n \in DOMAIN inbox[r] :
                             inbox[r][m] = inbox[s][i] /\ inbox[r][n] = inbox[s][k] => m < n
                        /\ inbox[s][i][2] = inbox[s][k][2] => inbox[s][i][3] < inbox[s][k][3]
    BY DEF RoomOrder
  <2> DEFINE a == inbox[s][i]
             b == inbox[s][k]
  <2>2. a \in Elems(inbox[s]) /\ b \in Elems(inbox[s]) /\ Before(inbox[s], a, b)
    BY <2>1 DEF Elems, Before
  <2>3. IsChat(a) /\ IsChat(b)
    BY <2>1
  <2> HIDE DEF a, b
  <2>4. Precedes(a, b)
    BY <1>1, <2>2, <2>3 DEF GameInv, ClientOK, InboxOK
  <2>5. ~Precedes(b, a) /\ a # b /\ (SameSender(a, b) => a[3] < b[3])
    BY <1>1, <2>3, <2>4, PrecedesStrict
  <2>6. ASSUME NEW m \in DOMAIN inbox[r], NEW n \in DOMAIN inbox[r], inbox[r][m] = a, inbox[r][n] = b, ~(m < n)
        PROVE  FALSE
    <3>1. m \in Int /\ n \in Int
      BY <1>1 DEF GameInv, GameTypeOK
    <3>2. n < m
      BY <2>5, <2>6, <3>1
    <3>3. b \in Elems(inbox[r]) /\ a \in Elems(inbox[r]) /\ Before(inbox[r], b, a)
      BY <2>6, <3>2 DEF Elems, Before
    <3>4. Precedes(b, a)
      BY <1>1, <2>3, <3>3 DEF GameInv, ClientOK, InboxOK
    <3> QED
      BY <2>5, <3>4
  <2>7. a[2] = b[2] => a[3] < b[3]
    BY <2>3, <2>5 DEF SameSender
  <2> QED
    BY <2>6, <2>7 DEF a, b
<1> QED
  BY <1>1, GameInvariance, PTL

SubmitsNew(s) ==
    /\ stage[s] = "enterPush" => ~Queue!Known(<<"enter", IF currentPlayer[s] THEN s ELSE NoPlayer>>)
    /\ hook[s] = "pending" => ~Queue!Known(<<"leave", s>>)
    /\ toServer[s] # <<>> /\ Head(toServer[s])[1] = "C_CHAT" =>
         ~Queue!Known(<<"chat", s, Head(toServer[s])[2]>>)

\* The room's queue was never given before what it is given next, so that the serial
\* server, which takes every job once, holds no handler and no OnDisconnected up.
THEOREM RoomJobsAreNew == GameSpec => [](\A s \in Clients : SubmitsNew(s))
<1>1. ASSUME GameInv, NEW s \in Clients PROVE SubmitsNew(s)
  <2>1. \A j : Queue!Known(j) <=> j \in Elems(Line) \cup Now \cup Elems(Done)
    BY DEF Queue!Known, Queue!JobsIn, Elems, Line, Now, Done
  <2>2. PlayersOK(s) /\ OutsideOK(s) /\ MembersOK(s) /\ NumbersOK(s) /\ toServer[s] \in Seq(ToServer)
    BY <1>1 DEF GameInv, ClientOK, GameTypeOK
  <2>3. ASSUME stage[s] = "enterPush"
        PROVE  ~Queue!Known(<<"enter", IF currentPlayer[s] THEN s ELSE NoPlayer>>)
    <3>1. currentPlayer[s] /\ Outside(s)
      BY <2>2, <2>3 DEF PlayersOK, Outside, EnterStarts
    <3>2. ~Queue!Known(EnterJob(s))
      BY <2>1, <2>2, <3>1 DEF OutsideOK
    <3> QED
      BY <3>1, <3>2 DEF EnterJob
  <2>4. ASSUME hook[s] = "pending" PROVE ~Queue!Known(<<"leave", s>>)
    <3>1. ~Queue!Known(LeaveJob(s))
      BY <2>1, <2>2, <2>4 DEF MembersOK
    <3> QED
      BY <3>1 DEF LeaveJob
  <2>5. ASSUME toServer[s] # <<>>, Head(toServer[s])[1] = "C_CHAT"
        PROVE  ~Queue!Known(<<"chat", s, Head(toServer[s])[2]>>)
    <3> DEFINE p == Head(toServer[s])
               j == <<"chat", s, p[2]>>
    <3>1. p \in Elems(toServer[s]) /\ p \in ToServer
      BY <2>2, <2>5, TailElems
    <3>2. IsNumbered(p) /\ p[2] \in Nat
      BY <2>5, <3>1, PacketKinds DEF IsNumbered
    <3>3. IsChat(j) /\ j[2] = s /\ j[3] = p[2]
      BY <3>2, JobKinds
    <3> HIDE DEF p, j
    <3>4. j \notin Elems(Line) \cup Now \cup Elems(Done)
      BY <2>2, <3>1, <3>2, <3>3 DEF NumbersOK
    <3> QED
      BY <2>1, <3>4 DEF p, j
  <2> QED
    BY <2>3, <2>4, <2>5 DEF SubmitsNew
<1>2. GameInv => \A s \in Clients : SubmitsNew(s)
  BY <1>1
<1> QED
  BY <1>2, GameInvariance, PTL
=============================================================================
