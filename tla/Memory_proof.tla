---------------------------- MODULE Memory_proof ----------------------------
(***************************************************************************)
(* Proofs about Memory, for any finite sets of threads and blocks, any     *)
(* sizes that are asked for and any types with an ObjectPool: a block is   *)
(* in one place, fits what it was allocated for and goes back to the pool  *)
(* it came from, and the counters of a pool agree with its blocks.         *)
(***************************************************************************)
EXTENDS Memory, FiniteSetTheorems, SequenceTheorems, WellFoundedInduction, TLAPS

Frame == [at : {"idle", "popped", "push", "pushed"}, pool : Pools \cup {NoPool},
          block : Blocks \cup {None}, size : Nat]

TypeOK ==
    /\ header \in [Pools -> Seq(Blocks)]
    /\ useCount \in [Pools -> Int]
    /\ reservedCount \in [Pools -> Int]
    /\ origin \in [Blocks -> Pools \cup Nat]
    /\ allocSize \in [Blocks -> Nat]
    /\ live \subseteq Blocks
    /\ type \in [Blocks -> Types \cup {None}]
    /\ pc \in [Threads -> Frame]

Listed(p) == {header[p][i] : i \in 1..Len(header[p])}
ListedOnce(p) == \A i, k \in 1..Len(header[p]) : header[p][i] = header[p][k] => i = k

\* The thread holds block b inside Pop or Push.
Holds(t, b) == pc[t].at \in {"popped", "push"} /\ pc[t].block = b

(***************************************************************************)
(* What the safety properties lack to be inductive.  PlacesOK is           *)
(* NeverShared without Cardinality; together with HomeOK, which says that  *)
(* a pool lists blocks of its own, it keeps two lists apart.               *)
(***************************************************************************)
PlacesOK ==
    /\ \A p \in Pools : ListedOnce(p)
    /\ \A b \in Blocks, t, u \in Threads : Holds(t, b) /\ Holds(u, b) => t = u
    /\ \A b \in live : (\A t \in Threads : ~Holds(t, b)) /\ \A p \in Pools : b \notin Listed(p)
    /\ \A b \in Blocks, t \in Threads, p \in Pools : ~(Holds(t, b) /\ b \in Listed(p))
    /\ \A b \in Blocks : origin[b] # NoPool =>
         \/ b \in live
         \/ \E t \in Threads : Holds(t, b)
         \/ \E p \in Pools : b \in Listed(p)

HomeOK == \A p \in Pools : \A b \in Listed(p) : origin[b] = p /\ allocSize[b] = 0

\* The pool that serves a size, its header included
Serves(p, n) == IF p \in Types THEN n = AllocSize(p) ELSE n \in 0..MAX_ALLOC_SIZE /\ poolTable[n] = p

ThreadOK(t) ==
    /\ pc[t].at = "idle" <=> pc[t] = Idle
    /\ pc[t].at # "idle" => pc[t].pool \in Pools
    /\ pc[t].at = "popped" => pc[t].size > 0 /\ Serves(pc[t].pool, pc[t].size)
    /\ pc[t].at = "push" => pc[t].block # None
    /\ pc[t].at \in {"popped", "push"} /\ pc[t].block # None =>
         origin[pc[t].block] = pc[t].pool /\ allocSize[pc[t].block] = 0

ThreadsOK == \A t \in Threads : ThreadOK(t)

\* The header of a block in use leads it back to its pool.
LiveOK == \A b \in live :
    /\ allocSize[b] > 0
    /\ type[b] # None => origin[b] = type[b] /\ allocSize[b] = AllocSize(type[b])
    /\ type[b] = None /\ allocSize[b] <= MAX_ALLOC_SIZE =>
         origin[b] \in PoolSizes /\ origin[b] = poolTable[allocSize[b]]
    /\ type[b] = None /\ allocSize[b] > MAX_ALLOC_SIZE => origin[b] = allocSize[b]

FreshOK == \A b \in Blocks : origin[b] = NoPool => type[b] = None

\* What the counters count, at any time
InUse(p) == {b \in live : origin[b] = p}
Pushing(p) == {t \in Threads : pc[t].at \in {"push", "pushed"} /\ pc[t].pool = p}
Popped(p) == {t \in Threads : pc[t].at = "popped" /\ pc[t].pool = p /\ pc[t].block # None}
Pushed(p) == {t \in Threads : pc[t].at = "pushed" /\ pc[t].pool = p}

CountAt(p) ==
    /\ useCount[p] = Cardinality(InUse(p)) + Cardinality(Pushing(p))
    /\ reservedCount[p] = Len(header[p]) + Cardinality(Popped(p)) - Cardinality(Pushed(p))

CountsOK == \A p \in Pools : CountAt(p)

IInv == /\ TypeOK /\ PlacesOK /\ HomeOK /\ ThreadsOK /\ LiveOK /\ FreshOK /\ CountsOK
        /\ failed # "assert"

-----------------------------------------------------------------------------
\* The pools are positive sizes up to MAX_ALLOC_SIZE, and types.
LEMMA PoolSizesBound == PoolSizes \subseteq 1..MAX_ALLOC_SIZE
<1>1. Second = 1056 /\ Third = 2080
  BY DEF Second, Third, After
<1> QED
  BY <1>1 DEF PoolSizes, Loop, MAX_ALLOC_SIZE

LEMMA PoolsAre ==
    /\ NoPool \notin Pools /\ \A p \in Pools : p \in Nat => p <= MAX_ALLOC_SIZE
    /\ \A p \in Pools : AllocSize(p) \in Nat /\ AllocSize(p) > 0
    /\ \A n \in Nat : AllocSize(n) = n
    /\ PoolSizes \cap Types = {}
<1>1. \A ty \in Types : SizeOf[ty] + HeaderSize \in Nat /\ SizeOf[ty] + HeaderSize > 0
  BY SizesAssumption
<1>2. \A p \in PoolSizes : p \in Nat /\ p > 0 /\ p <= MAX_ALLOC_SIZE /\ p # 0
  BY PoolSizesBound DEF MAX_ALLOC_SIZE
<1> QED
  BY <1>1, <1>2, TypesAssumption DEF Pools, AllocSize, NoPool

\* The CHOOSE of m_poolTable finds the shortest of the pools that are long enough.
LEMMA LeastPool ==
    ASSUME NEW n \in 0..MAX_ALLOC_SIZE, PoolsFor(n) # {}
    PROVE  poolTable[n] \in PoolsFor(n) /\ \A p \in PoolsFor(n) : poolTable[n] <= p
<1>1. PoolsFor(n) \subseteq Nat /\ PoolsFor(n) \subseteq PoolSizes /\ \A p \in PoolsFor(n) : p >= n
  <2>1. \A p \in PoolSizes : p \in Nat
    BY PoolSizesBound DEF MAX_ALLOC_SIZE
  <2> QED
    BY <2>1 DEF PoolsFor
<1>2. PICK p \in PoolsFor(n) : \A q \in PoolsFor(n) : ~(<<q, p>> \in OpToRel(<, Nat))
  BY <1>1, NatLessThanWellFounded, WFMin
<1>3. \A q \in PoolsFor(n) : p <= q
  <2> SUFFICES ASSUME NEW q \in PoolsFor(n), ~(p <= q) PROVE <<q, p>> \in OpToRel(<, Nat)
    BY <1>2
  <2>1. q \in Nat /\ p \in Nat /\ q < p
    BY <1>1
  <2> QED
    BY <2>1 DEF OpToRel
<1> QED
  BY <1>3 DEF poolTable

\* The loops of the constructor stop at the pool of 3872 bytes.
LEMMA LastPool == 3872 \in PoolSizes /\ \A p \in PoolSizes : p \in Nat /\ p > 0 /\ p <= 3872
<1>1. Second = 1056 /\ Third = 2080
  BY DEF Second, Third, After
<1>2. 3872 \in Loop(2080, 4096, 256)
  BY DEF Loop
<1>3. ASSUME NEW p \in Loop(2080, 4096, 256) PROVE p <= 3872
  BY DEF Loop
<1>4. \A p \in Loop(32, 1024, 32) \cup Loop(1056, 2048, 128) : p <= 2048
  BY DEF Loop
<1>5. \A p \in PoolSizes : p \in Nat /\ p > 0
  BY PoolSizesBound DEF MAX_ALLOC_SIZE
<1> QED
  BY <1>1, <1>2, <1>3, <1>4, <1>5 DEF PoolSizes

\* The constructor enters at every index up to 3872 the shortest pool that is long
\* enough for it, and nothing beyond: the sizes from 3873 to MAX_ALLOC_SIZE, and
\* no others, have no pool.
THEOREM TableExact == \A n \in 0..MAX_ALLOC_SIZE :
    /\ n <= 3872 => /\ poolTable[n] \in PoolSizes /\ n <= poolTable[n]
                    /\ \A p \in PoolSizes : n <= p => poolTable[n] <= p
    /\ n > 3872 => poolTable[n] = NoPool
<1> SUFFICES ASSUME NEW n \in 0..MAX_ALLOC_SIZE
             PROVE  /\ n <= 3872 => /\ poolTable[n] \in PoolSizes /\ n <= poolTable[n]
                                    /\ \A p \in PoolSizes : n <= p => poolTable[n] <= p
                    /\ n > 3872 => poolTable[n] = NoPool
  OBVIOUS
<1>1. n \in Nat
  BY DEF MAX_ALLOC_SIZE
<1>2. CASE n <= 3872
  <2>1. PoolsFor(n) # {}
    BY <1>2, LastPool DEF PoolsFor
  <2>2. poolTable[n] \in PoolsFor(n) /\ \A p \in PoolsFor(n) : poolTable[n] <= p
    BY <2>1, LeastPool
  <2> QED
    BY <1>1, <1>2, <2>2, LastPool DEF PoolsFor
<1>3. CASE n > 3872
  <2>1. PoolsFor(n) = {}
    BY <1>1, <1>3, LastPool DEF PoolsFor
  <2> QED
    BY <1>1, <1>3, <2>1 DEF poolTable
<1> QED
  BY <1>1, <1>2, <1>3

\* A size is served by a pool whose blocks are as long, or by none.
LEMMA PoolTable == \A n \in 0..MAX_ALLOC_SIZE :
    poolTable[n] = NoPool \/ (poolTable[n] \in PoolSizes /\ n <= poolTable[n])
<1> TAKE n \in 0..MAX_ALLOC_SIZE
<1>1. PoolsFor(n) = {} => poolTable[n] = NoPool
  BY DEF poolTable
<1>2. PoolsFor(n) # {} => poolTable[n] \in PoolSizes /\ n <= poolTable[n]
  BY LeastPool DEF PoolsFor
<1> QED
  BY <1>1, <1>2

LEMMA ServesFits == ASSUME NEW p \in Pools, NEW n \in Nat, Serves(p, n) PROVE n <= AllocSize(p)
<1>1. CASE p \in Types
  BY <1>1 DEF Serves
<1>2. CASE p \notin Types
  <2>1. p \in PoolSizes /\ p \in Nat /\ p # NoPool
    BY <1>2, PoolSizesBound DEF Pools, NoPool
  <2> QED
    BY <1>2, <2>1, PoolTable, PoolsAre DEF Serves
<1> QED
  BY <1>1, <1>2

-----------------------------------------------------------------------------
(* Lists of blocks *)

LEMMA HeadTail ==
    ASSUME NEW s \in Seq(Blocks), s # <<>>,
           \A i, k \in 1..Len(s) : s[i] = s[k] => i = k
    PROVE  /\ Head(s) \in Blocks /\ Tail(s) \in Seq(Blocks) /\ Len(Tail(s)) = Len(s) - 1
           /\ {Tail(s)[i] : i \in 1..Len(Tail(s))} = {s[i] : i \in 1..Len(s)} \ {Head(s)}
           /\ Head(s) \in {s[i] : i \in 1..Len(s)}
           /\ \A i, k \in 1..Len(Tail(s)) : Tail(s)[i] = Tail(s)[k] => i = k
<1>1. PICK n \in Nat : n = Len(s) /\ n # 0
  BY LenProperties, EmptySeq
<1>2. /\ Head(s) = s[1] /\ Head(s) \in Blocks /\ Tail(s) \in Seq(Blocks) /\ Len(Tail(s)) = n - 1
      /\ \A i \in 1..(n - 1) : Tail(s)[i] = s[i + 1]
  BY <1>1, HeadTailProperties
<1>3. /\ \A i \in 1..(n - 1) : i + 1 \in 1..n /\ i + 1 # 1
      /\ \A i \in 1..n : i # 1 => i - 1 \in 1..(n - 1) /\ (i - 1) + 1 = i
      /\ 1 \in 1..n
  BY <1>1
<1>4. {Tail(s)[i] : i \in 1..(n - 1)} = {s[i] : i \in 1..n} \ {s[1]}
  <2>1. ASSUME NEW i \in 1..(n - 1) PROVE Tail(s)[i] \in {s[k] : k \in 1..n} \ {s[1]}
    BY <1>1, <1>2, <1>3
  <2>2. ASSUME NEW x \in {s[i] : i \in 1..n} \ {s[1]} PROVE x \in {Tail(s)[k] : k \in 1..(n - 1)}
    <3>1. PICK i \in 1..n : x = s[i] /\ i # 1
      BY <2>2
    <3>2. PICK k \in 1..(n - 1) : k = i - 1 /\ k + 1 = i
      BY <1>3, <3>1
    <3> QED
      BY <1>2, <3>1, <3>2
  <2>3. ASSUME NEW x \in {Tail(s)[i] : i \in 1..(n - 1)} PROVE x \in {s[k] : k \in 1..n} \ {s[1]}
    <3>1. PICK i \in 1..(n - 1) : x = Tail(s)[i]
      BY <2>3
    <3> QED
      BY <2>1, <3>1
  <2> QED
    BY <2>2, <2>3
<1>5. \A i, k \in 1..(n - 1) : Tail(s)[i] = Tail(s)[k] => i = k
  <2> SUFFICES ASSUME NEW i \in 1..(n - 1), NEW k \in 1..(n - 1), s[i + 1] = s[k + 1] PROVE i = k
    BY <1>2
  <2>1. i + 1 = k + 1
    BY <1>1, <1>3
  <2> QED
    BY <2>1
<1> QED
  BY <1>1, <1>2, <1>3, <1>4, <1>5

LEMMA PutFirst ==
    ASSUME NEW s \in Seq(Blocks), NEW b \in Blocks
    PROVE  /\ <<b>> \o s \in Seq(Blocks) /\ Len(<<b>> \o s) = Len(s) + 1
           /\ {(<<b>> \o s)[i] : i \in 1..Len(<<b>> \o s)} = {s[i] : i \in 1..Len(s)} \cup {b}
           /\ (/\ \A i, k \in 1..Len(s) : s[i] = s[k] => i = k
               /\ b \notin {s[i] : i \in 1..Len(s)}) =>
              \A i, k \in 1..Len(<<b>> \o s) : (<<b>> \o s)[i] = (<<b>> \o s)[k] => i = k
<1>1. PICK n \in Nat : n = Len(s)
  BY LenProperties
<1>2. <<b>> \in Seq(Blocks) /\ Len(<<b>>) = 1 /\ <<b>>[1] = b
  OBVIOUS
<1>3. PICK r \in Seq(Blocks) : r = <<b>> \o s
  BY <1>2, ConcatProperties
<1>4. Len(r) = n + 1 /\ \A i \in 1..(n + 1) : r[i] = IF i <= 1 THEN <<b>>[i] ELSE s[i - 1]
  BY <1>1, <1>2, <1>3, ConcatProperties
<1>5. /\ \A i \in 1..(n + 1) : i = 1 \/ (~(i <= 1) /\ i - 1 \in 1..n)
      /\ \A i \in 1..n : i + 1 \in 1..(n + 1) /\ ~(i + 1 <= 1) /\ (i + 1) - 1 = i
      /\ 1 \in 1..(n + 1) /\ 1 <= 1
  BY <1>1
<1>6. /\ r[1] = b /\ \A i \in 1..(n + 1) : i # 1 => i - 1 \in 1..n /\ r[i] = s[i - 1]
      /\ \A i \in 1..n : r[i + 1] = s[i]
  BY <1>2, <1>4, <1>5
<1>7. {r[i] : i \in 1..(n + 1)} = {s[i] : i \in 1..n} \cup {b}
  <2>1. ASSUME NEW i \in 1..(n + 1) PROVE r[i] \in {s[k] : k \in 1..n} \cup {b}
    BY <1>6
  <2>2. ASSUME NEW i \in 1..n PROVE s[i] \in {r[k] : k \in 1..(n + 1)}
    BY <1>5, <1>6
  <2>3. b \in {r[k] : k \in 1..(n + 1)}
    BY <1>5, <1>6
  <2> QED
    BY <2>1, <2>2, <2>3
<1>8. ASSUME \A i, k \in 1..n : s[i] = s[k] => i = k, b \notin {s[i] : i \in 1..n},
             NEW i \in 1..(n + 1), NEW k \in 1..(n + 1), r[i] = r[k]
      PROVE  i = k
  <2>1. CASE i # 1 /\ k # 1
    <3>1. i - 1 = k - 1
      BY <1>6, <1>8, <2>1
    <3> QED
      BY <3>1
  <2>2. CASE i = 1 \/ k = 1
    BY <1>6, <1>8, <2>2
  <2> QED
    BY <2>1, <2>2
<1> QED
  BY <1>1, <1>3, <1>4, <1>7, <1>8

\* One more element, one less
LEMMA CountStep ==
    ASSUME NEW S, IsFiniteSet(S), NEW x
    PROVE  /\ Cardinality(S) \in Nat
           /\ x \notin S => Cardinality(S \cup {x}) = Cardinality(S) + 1
           /\ x \in S => Cardinality(S \ {x}) = Cardinality(S) - 1
BY FS_CardinalityType, FS_AddElement, FS_RemoveElement

-----------------------------------------------------------------------------
(* The actions *)

LEMMA CountedFinite == ASSUME TypeOK, NEW p
    PROVE  /\ IsFiniteSet(InUse(p)) /\ IsFiniteSet(Pushing(p))
           /\ IsFiniteSet(Popped(p)) /\ IsFiniteSet(Pushed(p))
<1>1. InUse(p) \subseteq Blocks
  BY DEF TypeOK, InUse
<1>2. Pushing(p) \subseteq Threads /\ Popped(p) \subseteq Threads /\ Pushed(p) \subseteq Threads
  BY DEF Pushing, Popped, Pushed
<1> QED
  BY <1>1, <1>2, MemoryFinite, FS_Subset

\* A pool that a step does not count in
LEMMA CountSame ==
    ASSUME NEW p \in Pools, CountAt(p), useCount'[p] = useCount[p], reservedCount'[p] = reservedCount[p],
           header'[p] = header[p], InUse(p)' = InUse(p), Pushing(p)' = Pushing(p),
           Popped(p)' = Popped(p), Pushed(p)' = Pushed(p)
    PROVE  CountAt(p)'
BY DEF CountAt

\* The threads that a step leaves alone
LEMMA ThreadSame ==
    ASSUME NEW u \in Threads, ThreadOK(u), pc'[u] = pc[u],
           pc[u].at \in {"popped", "push"} /\ pc[u].block # None =>
             /\ origin'[pc[u].block] = origin[pc[u].block]
             /\ allocSize'[pc[u].block] = allocSize[pc[u].block]
    PROVE  ThreadOK(u)'
BY DEF ThreadOK

\* The parts of a frame
LEMMA FrameParts == ASSUME TypeOK, NEW t \in Threads
    PROVE  /\ pc[t].at \in {"idle", "popped", "push", "pushed"} /\ pc[t].pool \in Pools \cup {NoPool}
           /\ pc[t].block \in Blocks \cup {None} /\ pc[t].size \in Nat
BY DEF TypeOK, Frame

\* A request takes the first block of its pool's list, if there is one.
LEMMA PopEntryPreserves ==
    ASSUME IInv, NEW t \in Threads, NEW p \in Pools, NEW n \in Nat, n > 0, Serves(p, n), PopEntry(t, p, n)
    PROVE  IInv'
<1> USE NoneIsNull DEF IInv
<1>1. /\ pc[t] = Idle /\ failed' = failed
      /\ UNCHANGED <<useCount, reservedCount, origin, allocSize, live, type>>
  BY DEF PopEntry, CanRequest, May
<1>2. pc[t].at = "idle"
  BY <1>1 DEF Idle
<1>3. header[p] \in Seq(Blocks) /\ ListedOnce(p)
  BY DEF TypeOK, PlacesOK
<1>4. PICK f : /\ f.at = "popped" /\ f.pool = p /\ f.size = n /\ f \in Frame
               /\ f.block = IF header[p] = <<>> THEN None ELSE Head(header[p])
               /\ pc' = [pc EXCEPT ![t] = f]
  <2> DEFINE g == [at |-> "popped", pool |-> p, size |-> n,
                   block |-> IF header[p] = <<>> THEN None ELSE Head(header[p])]
  <2>1. header[p] # <<>> => Head(header[p]) \in Blocks
    BY <1>3, HeadTailProperties
  <2>2. g \in Frame
    BY <2>1 DEF Frame
  <2>3. pc' = [pc EXCEPT ![t] = g]
    BY DEF PopEntry
  <2> QED
    BY <2>2, <2>3
<1>5. pc'[t] = f /\ \A u \in Threads \ {t} : pc'[u] = pc[u]
  BY <1>4 DEF TypeOK
<1>6. /\ \A r \in Pools \ {p} : header'[r] = header[r]
      /\ header'[p] = IF header[p] = <<>> THEN header[p] ELSE Tail(header[p])
  BY DEF PopEntry, TypeOK
<1>7. /\ \A r \in Pools \ {p} : Listed(r)' = Listed(r) /\ (ListedOnce(r)' <=> ListedOnce(r))
      /\ ListedOnce(p)' /\ header'[p] \in Seq(Blocks)
      /\ Listed(p)' = IF header[p] = <<>> THEN Listed(p) ELSE Listed(p) \ {f.block}
      /\ header[p] # <<>> => /\ f.block \in Listed(p) /\ f.block \in Blocks
                             /\ Len(header'[p]) = Len(header[p]) - 1
  <2>1. \A r \in Pools \ {p} : Listed(r)' = Listed(r) /\ (ListedOnce(r)' <=> ListedOnce(r))
    BY <1>6 DEF Listed, ListedOnce
  <2>2. CASE header[p] = <<>>
    BY <1>3, <1>6, <2>1, <2>2 DEF Listed, ListedOnce
  <2>3. CASE header[p] # <<>>
    <3>1. PICK s \in Seq(Blocks) : s = header[p] /\ s # <<>> /\ f.block = Head(s)
      BY <1>3, <1>4, <2>3
    <3>2. header'[p] = Tail(s) /\ \A i, k \in 1..Len(s) : s[i] = s[k] => i = k
      BY <1>3, <1>6, <3>1 DEF ListedOnce
    <3>3. /\ Head(s) \in Blocks /\ Tail(s) \in Seq(Blocks) /\ Len(Tail(s)) = Len(s) - 1
          /\ {Tail(s)[i] : i \in 1..Len(Tail(s))} = {s[i] : i \in 1..Len(s)} \ {Head(s)}
          /\ Head(s) \in {s[i] : i \in 1..Len(s)}
          /\ \A i, k \in 1..Len(Tail(s)) : Tail(s)[i] = Tail(s)[k] => i = k
      BY <3>1, <3>2, HeadTail
    <3>4. Listed(p) = {s[i] : i \in 1..Len(s)} /\ Listed(p)' = {Tail(s)[i] : i \in 1..Len(Tail(s))}
      BY <3>1, <3>2 DEF Listed
    <3>5. ListedOnce(p)'
      BY <3>2, <3>3 DEF ListedOnce
    <3> QED
      BY <2>1, <2>3, <3>1, <3>2, <3>3, <3>4, <3>5
  <2> QED
    BY <2>2, <2>3
<1>8. TypeOK'
  <2>1. header' \in [Pools -> Seq(Blocks)]
    BY <1>7 DEF PopEntry, TypeOK
  <2> QED
    BY <1>1, <1>4, <2>1 DEF TypeOK
<1>9. f.block # None => /\ header[p] # <<>> /\ origin[f.block] = p /\ allocSize[f.block] = 0 /\ f.block \notin live
                        /\ \A u \in Threads : ~Holds(u, f.block)
  BY <1>4, <1>7 DEF HomeOK, PlacesOK
<1>10. /\ \A u \in Threads \ {t}, b \in Blocks : Holds(u, b)' <=> Holds(u, b)
       /\ \A b \in Blocks : Holds(t, b)' <=> b = f.block
       /\ \A b \in Blocks : ~Holds(t, b)
  BY <1>2, <1>4, <1>5 DEF Holds
<1>11. \A r \in Pools : Listed(r)' \subseteq Listed(r) /\ f.block \notin Listed(r)'
  <2>1. \A r \in Pools : Listed(r)' \subseteq Listed(r)
    BY <1>7
  <2>2. f.block = None => \A r \in Pools : f.block \notin Listed(r)
    BY LenProperties, ElementOfSeq DEF TypeOK, Listed
  <2>3. ASSUME f.block # None, NEW r \in Pools PROVE f.block \notin Listed(r)'
    <3>1. CASE r = p
      BY <1>7, <1>9, <2>3, <3>1
    <3>2. CASE r # p
      BY <1>7, <1>9, <2>3, <3>2 DEF HomeOK
    <3> QED
      BY <3>1, <3>2
  <2> QED
    BY <2>1, <2>2, <2>3
<1>12. PlacesOK'
  <2>1. \A r \in Pools : ListedOnce(r)'
    BY <1>7 DEF PlacesOK
  <2>2. \A b \in Blocks, u, w \in Threads : Holds(u, b)' /\ Holds(w, b)' => u = w
    BY <1>9, <1>10 DEF PlacesOK
  <2>3. ASSUME NEW b \in live'
        PROVE  (\A u \in Threads : ~Holds(u, b)') /\ \A r \in Pools : b \notin Listed(r)'
    <3>1. /\ b \in live /\ b \in Blocks /\ \A u \in Threads : ~Holds(u, b)
          /\ \A r \in Pools : b \notin Listed(r)
      BY <1>1, <2>3 DEF PlacesOK, TypeOK
    <3>2. b # f.block
      BY <1>9, <3>1
    <3>3. ASSUME NEW u \in Threads PROVE ~Holds(u, b)'
      BY <1>10, <3>1, <3>2
    <3>4. ASSUME NEW r \in Pools PROVE b \notin Listed(r)'
      BY <1>11, <3>1
    <3> QED
      BY <3>3, <3>4
  <2>4. \A b \in Blocks, u \in Threads, r \in Pools : ~(Holds(u, b)' /\ b \in Listed(r)')
    BY <1>10, <1>11 DEF PlacesOK
  <2>5. ASSUME NEW b \in Blocks, origin[b] # NoPool
        PROVE  b \in live' \/ (\E u \in Threads : Holds(u, b)') \/ \E r \in Pools : b \in Listed(r)'
    <3>1. b \in live \/ (\E u \in Threads : Holds(u, b)) \/ \E r \in Pools : b \in Listed(r)
      BY <2>5 DEF PlacesOK
    <3>2. \A r \in Pools : b \in Listed(r) => b \in Listed(r)' \/ b = f.block
      BY <1>7
    <3> QED
      BY <1>1, <1>10, <3>1, <3>2
  <2> QED
    BY <1>1, <2>1, <2>2, <2>3, <2>4, <2>5 DEF PlacesOK
<1>13. HomeOK'
  BY <1>1, <1>11 DEF HomeOK
<1>14. \A u \in Threads \ {t} : ThreadOK(u)'
  BY <1>1, <1>5, ThreadSame DEF ThreadsOK
<1>15. ThreadOK(t)'
  <2>1. f # Idle
    BY <1>4 DEF Idle
  <2> QED
    BY <1>1, <1>4, <1>5, <1>9, <2>1 DEF ThreadOK
<1>16. LiveOK' /\ FreshOK' /\ failed' # "assert"
  BY <1>1 DEF LiveOK, FreshOK
<1>17. CountsOK'
  <2> SUFFICES ASSUME NEW r \in Pools PROVE CountAt(r)'
    BY DEF CountsOK
  <2>1. CountAt(r) /\ useCount'[r] = useCount[r] /\ reservedCount'[r] = reservedCount[r] /\ InUse(r)' = InUse(r)
    BY <1>1 DEF CountsOK, InUse
  <2>2. Pushing(r)' = Pushing(r) /\ Pushed(r)' = Pushed(r)
    BY <1>2, <1>4, <1>5 DEF Pushing, Pushed
  <2>3. Popped(r)' = IF r = p /\ f.block # None THEN Popped(r) \cup {t} ELSE Popped(r)
    BY <1>2, <1>4, <1>5 DEF Popped
  <2>4. CASE r = p /\ f.block # None
    <3>1. t \notin Popped(r)
      BY <1>2 DEF Popped
    <3>2. Cardinality(Popped(r))' = Cardinality(Popped(r)) + 1 /\ Cardinality(Popped(r)) \in Nat
      BY <2>3, <2>4, <3>1, CountStep, CountedFinite
    <3>3. Len(header'[r]) = Len(header[r]) - 1 /\ Len(header[r]) \in Nat
      BY <1>3, <1>7, <1>9, <2>4, LenProperties
    <3>4. Cardinality(Pushed(r)) \in Nat
      BY CountStep, CountedFinite
    <3> QED
      BY <2>1, <2>2, <3>2, <3>3, <3>4 DEF CountAt
  <2>5. CASE ~(r = p /\ f.block # None)
    <3>1. header'[r] = header[r]
      BY <1>4, <1>6, <1>7, <2>5
    <3> QED
      BY <2>1, <2>2, <2>3, <2>5, <3>1, CountSame
  <2> QED
    BY <2>4, <2>5
<1> QED
  BY <1>8, <1>12, <1>13, <1>14, <1>15, <1>16, <1>17 DEF ThreadsOK

\* What the operating system has is nowhere in the allocator.
LEMMA Obtained ==
    ASSUME IInv, NEW b \in Blocks, origin[b] = NoPool
    PROVE  /\ b \notin live /\ \A p \in Pools : b \notin Listed(p)
           /\ \A u \in Threads : ~Holds(u, b)
<1> USE NoneIsNull DEF IInv
<1>1. \A p \in Pools : b \notin Listed(p)
  BY PoolsAre DEF HomeOK
<1>2. \A u \in Threads : ~Holds(u, b)
  BY PoolsAre DEF Holds, ThreadsOK, ThreadOK
<1>3. ASSUME b \in live PROVE FALSE
  <2>1. type[b] = None
    BY DEF FreshOK
  <2>2. allocSize[b] \in Nat /\ allocSize[b] > 0
    BY <1>3 DEF LiveOK, TypeOK
  <2>3. CASE allocSize[b] <= MAX_ALLOC_SIZE
    BY <1>3, <2>1, <2>3, PoolsAre DEF LiveOK, Pools
  <2>4. CASE allocSize[b] > MAX_ALLOC_SIZE
    BY <1>3, <2>1, <2>2, <2>4 DEF LiveOK, NoPool
  <2> QED
    BY <2>2, <2>3, <2>4 DEF MAX_ALLOC_SIZE
<1> QED
  BY <1>1, <1>2, <1>3

\* Pop ends: its block, from the list or from the operating system, is in use.
LEMMA AttachPreserves ==
    ASSUME IInv, NEW t \in Threads, pc[t].at = "popped", NEW p \in Pools, p = pc[t].pool,
           NEW b \in Blocks, Attach(t, b),
           b = pc[t].block \/ (pc[t].block = None /\ origin[b] = NoPool),
           origin' = [origin EXCEPT ![b] = p], header' = header, failed' # "assert",
           useCount' = [useCount EXCEPT ![p] = @ + 1],
           reservedCount' = IF pc[t].block = None THEN reservedCount
                            ELSE [reservedCount EXCEPT ![p] = @ - 1]
    PROVE  IInv'
<1> USE NoneIsNull DEF IInv
<1>1. PICK n \in Nat : n = pc[t].size /\ n > 0 /\ Serves(p, n)
  BY FrameParts DEF ThreadsOK, ThreadOK
<1>2. PICK ty \in Types \cup {None} : ty = IF p \in Types THEN p ELSE None
  OBVIOUS
<1>3. /\ allocSize' = [allocSize EXCEPT ![b] = n] /\ type' = [type EXCEPT ![b] = ty]
      /\ live' = live \cup {b} /\ pc' = [pc EXCEPT ![t] = Idle]
  BY <1>1, <1>2 DEF Attach
<1>4. /\ pc'[t] = Idle /\ \A u \in Threads \ {t} : pc'[u] = pc[u]
      /\ origin'[b] = p /\ allocSize'[b] = n /\ type'[b] = ty
      /\ \A x \in Blocks \ {b} : origin'[x] = origin[x] /\ allocSize'[x] = allocSize[x] /\ type'[x] = type[x]
  BY <1>3 DEF TypeOK
<1>5. Idle \in Frame /\ Idle.at = "idle"
  BY DEF Idle, Frame
<1>6. TypeOK'
  <2>1. useCount' \in [Pools -> Int] /\ reservedCount' \in [Pools -> Int]
    BY DEF TypeOK
  <2> QED
    BY <1>3, <1>5, <2>1 DEF TypeOK
<1>7. b \notin live /\ (\A r \in Pools : b \notin Listed(r)) /\ \A u \in Threads \ {t} : ~Holds(u, b)
  <2>1. CASE b = pc[t].block
    <3>1. Holds(t, b)
      BY <2>1 DEF Holds
    <3> QED
      BY <3>1 DEF PlacesOK
  <2>2. CASE origin[b] = NoPool
    BY <2>2, Obtained
  <2> QED
    BY <2>1, <2>2
<1>8. /\ \A u \in Threads \ {t}, x \in Blocks : Holds(u, x)' <=> Holds(u, x)
      /\ \A x \in Blocks : ~Holds(t, x)' /\ (Holds(t, x) => x = b)
  BY <1>4, <1>5 DEF Holds
<1>9. \A r \in Pools : Listed(r)' = Listed(r) /\ (ListedOnce(r)' <=> ListedOnce(r))
  BY DEF Listed, ListedOnce
<1>10. PlacesOK'
  <2>1. \A x \in live' : (\A u \in Threads : ~Holds(u, x)') /\ \A r \in Pools : x \notin Listed(r)'
    <3> SUFFICES ASSUME NEW x \in live'
                 PROVE  (\A u \in Threads : ~Holds(u, x)') /\ \A r \in Pools : x \notin Listed(r)'
      OBVIOUS
    <3>1. x \in Blocks /\ (x = b \/ x \in live)
      BY <1>3 DEF TypeOK
    <3>2. (\A u \in Threads \ {t} : ~Holds(u, x)) /\ \A r \in Pools : x \notin Listed(r)
      BY <1>7, <3>1 DEF PlacesOK
    <3> QED
      BY <1>8, <1>9, <3>1, <3>2
  <2>2. \A x \in Blocks : origin'[x] # NoPool =>
          x \in live' \/ (\E u \in Threads : Holds(u, x)') \/ \E r \in Pools : x \in Listed(r)'
    BY <1>3, <1>4, <1>8, <1>9 DEF PlacesOK
  <2> QED
    BY <1>8, <1>9, <2>1, <2>2 DEF PlacesOK
<1>11. HomeOK'
  <2>1. \A r \in Pools : Listed(r) \subseteq Blocks
    BY LenProperties, ElementOfSeq DEF TypeOK, Listed
  <2> QED
    BY <1>4, <1>7, <1>9, <2>1 DEF HomeOK
<1>12. \A u \in Threads \ {t} : ThreadOK(u)'
  <2> SUFFICES ASSUME NEW u \in Threads \ {t} PROVE ThreadOK(u)'
    OBVIOUS
  <2>1. pc[u].at \in {"popped", "push"} /\ pc[u].block # None => pc[u].block \in Blocks \ {b}
    BY <1>7, FrameParts DEF Holds
  <2> QED
    BY <1>4, <2>1, ThreadSame DEF ThreadsOK
<1>13. ThreadOK(t)'
  BY <1>4, <1>5 DEF ThreadOK
<1>14. LiveOK'
  <2> SUFFICES ASSUME NEW x \in live'
               PROVE  /\ allocSize'[x] > 0
                      /\ type'[x] # None => origin'[x] = type'[x] /\ allocSize'[x] = AllocSize(type'[x])
                      /\ type'[x] = None /\ allocSize'[x] <= MAX_ALLOC_SIZE =>
                           origin'[x] \in PoolSizes /\ origin'[x] = poolTable[allocSize'[x]]
                      /\ type'[x] = None /\ allocSize'[x] > MAX_ALLOC_SIZE => origin'[x] = allocSize'[x]
    BY DEF LiveOK
  <2>1. CASE x = b
    <3>1. CASE p \in Types
      BY <1>1, <1>2, <1>4, <2>1, <3>1 DEF Serves
    <3>2. CASE p \notin Types
      <4>1. ty = None /\ p \in PoolSizes /\ poolTable[n] = p /\ n \in 0..MAX_ALLOC_SIZE
        BY <1>1, <1>2, <3>2 DEF Serves, Pools
      <4>2. ~(n > MAX_ALLOC_SIZE)
        BY <4>1 DEF MAX_ALLOC_SIZE
      <4> QED
        BY <1>1, <1>4, <2>1, <4>1, <4>2
    <3> QED
      BY <3>1, <3>2
  <2>2. CASE x # b
    <3>1. x \in live /\ x \in Blocks \ {b}
      BY <1>3, <2>2 DEF TypeOK
    <3> QED
      BY <1>4, <3>1 DEF LiveOK
  <2> QED
    BY <2>1, <2>2
<1>15. FreshOK'
  BY <1>4, PoolsAre DEF FreshOK
<1>16. CountsOK'
  <2> SUFFICES ASSUME NEW r \in Pools PROVE CountAt(r)'
    BY DEF CountsOK
  <2>1. CountAt(r)
    BY DEF CountsOK
  <2>2. Pushing(r)' = Pushing(r) /\ Pushed(r)' = Pushed(r)
    BY <1>4, <1>5 DEF Pushing, Pushed
  <2>3. Popped(r)' = IF r = p /\ pc[t].block # None THEN Popped(r) \ {t} ELSE Popped(r)
    <3>1. t \notin Popped(r)'
      BY <1>4, <1>5 DEF Popped
    <3>2. t \in Popped(r) <=> r = p /\ pc[t].block # None
      BY DEF Popped
    <3>3. \A u \in Threads \ {t} : u \in Popped(r)' <=> u \in Popped(r)
      BY <1>4 DEF Popped
    <3>4. Popped(r) \subseteq Threads /\ Popped(r)' \subseteq Threads
      BY DEF Popped
    <3>5. Popped(r)' = Popped(r) \ {t}
      BY <3>1, <3>3, <3>4
    <3> QED
      BY <3>2, <3>5
  <2>4. InUse(r)' = IF r = p THEN InUse(r) \cup {b} ELSE InUse(r)
    BY <1>3, <1>4, <1>7 DEF InUse, TypeOK
  <2>5. CASE r # p
    BY <2>1, <2>2, <2>3, <2>4, <2>5, CountSame DEF TypeOK
  <2>6. CASE r = p
    <3>1. Cardinality(InUse(r))' = Cardinality(InUse(r)) + 1 /\ Cardinality(InUse(r)) \in Nat
      <4>1. b \notin InUse(r)
        BY <1>7 DEF InUse
      <4> QED
        BY <2>4, <2>6, <4>1, CountStep, CountedFinite
    <3>2. Cardinality(Pushing(r)) \in Nat /\ Cardinality(Pushed(r)) \in Nat /\ Len(header[r]) \in Nat
      BY CountStep, CountedFinite, LenProperties DEF TypeOK
    <3>3. useCount'[r] = useCount[r] + 1 /\ useCount[r] \in Int
      BY <2>6 DEF TypeOK
    <3>4. useCount'[r] = Cardinality(InUse(r))' + Cardinality(Pushing(r))'
      BY <2>1, <2>2, <3>1, <3>2, <3>3 DEF CountAt
    <3>5. Cardinality(Popped(r)) \in Nat
          /\ Cardinality(Popped(r))' = Cardinality(Popped(r)) - (IF pc[t].block = None THEN 0 ELSE 1)
      <4>1. IsFiniteSet(Popped(r)) /\ Cardinality(Popped(r)) \in Nat
        BY CountStep, CountedFinite
      <4>2. CASE pc[t].block = None
        BY <2>3, <4>1, <4>2
      <4>3. CASE pc[t].block # None
        <5>1. t \in Popped(r) /\ Popped(r)' = Popped(r) \ {t}
          BY <2>3, <2>6, <4>3 DEF Popped
        <5>2. Cardinality(Popped(r) \ {t}) = Cardinality(Popped(r)) - 1
          BY <4>1, <5>1, CountStep
        <5> QED
          BY <4>1, <4>3, <5>1, <5>2
      <4> QED
        BY <4>2, <4>3
    <3>6. reservedCount'[r] = reservedCount[r] - (IF pc[t].block = None THEN 0 ELSE 1) /\ reservedCount[r] \in Int
      BY <2>6 DEF TypeOK
    <3>7. reservedCount'[r] = Len(header'[r]) + Cardinality(Popped(r))' - Cardinality(Pushed(r))'
      BY <2>1, <2>2, <3>2, <3>5, <3>6 DEF CountAt
    <3> QED
      BY <3>4, <3>7 DEF CountAt
  <2> QED
    BY <2>5, <2>6
<1> QED
  BY <1>6, <1>10, <1>11, <1>12, <1>13, <1>14, <1>15, <1>16 DEF ThreadsOK

LEMMA PopEndPreserves ==
    ASSUME IInv, NEW t \in Threads, PopReserved(t) \/ PopNew(t)
    PROVE  IInv'
<1>1. pc[t].at = "popped" /\ header' = header
  BY DEF PopReserved, PopNew
<1>2. PICK p \in Pools : p = pc[t].pool
  BY <1>1 DEF IInv, ThreadsOK, ThreadOK
<1>3. CASE PopReserved(t)
  <2>1. PICK b \in Blocks : b = pc[t].block /\ b # None
    BY <1>3, FrameParts DEF PopReserved, IInv
  <2>2. origin[b] = p /\ allocSize[b] = 0
    BY <1>1, <1>2, <2>1 DEF IInv, ThreadsOK, ThreadOK
  <2>3. origin' = [origin EXCEPT ![b] = p]
    BY <1>3, <2>2 DEF PopReserved, IInv, TypeOK
  <2>4. Attach(t, b) /\ failed' # "assert"
    BY <1>3, <2>1, <2>2 DEF PopReserved
  <2>5. /\ useCount' = [useCount EXCEPT ![p] = @ + 1]
        /\ reservedCount' = [reservedCount EXCEPT ![p] = @ - 1]
    BY <1>2, <1>3 DEF PopReserved
  <2> QED
    BY <1>1, <1>2, <2>1, <2>3, <2>4, <2>5, AttachPreserves
<1>4. CASE PopNew(t)
  <2>1. PICK b \in Obtainable : origin' = [origin EXCEPT ![b] = p] /\ Attach(t, b)
    BY <1>2, <1>4 DEF PopNew
  <2>2. b \in Blocks /\ origin[b] = NoPool
    BY <2>1 DEF Obtainable
  <2>3. pc[t].block = None /\ failed' # "assert" /\ reservedCount' = reservedCount
        /\ useCount' = [useCount EXCEPT ![p] = @ + 1]
    BY <1>2, <1>4 DEF PopNew, IInv
  <2> QED
    BY <1>1, <1>2, <2>1, <2>2, <2>3, AttachPreserves
<1> QED
  BY <1>3, <1>4

\* A large block is the operating system's until it is allocated and after it is
\* released: no pool knows it.
LEMMA LargePreserves ==
    ASSUME IInv, NEW b \in Blocks, NEW m \in Nat, NEW n \in Nat,
           UNCHANGED <<header, useCount, reservedCount, type, pc>>, failed' # "assert", type[b] = None,
           origin' = [origin EXCEPT ![b] = m], allocSize' = [allocSize EXCEPT ![b] = m],
           n = origin[b], n \notin Pools, m \notin Pools,
           \/ n = NoPool /\ m > MAX_ALLOC_SIZE /\ live' = live \cup {b}
           \/ b \in live /\ m = NoPool /\ live' = live \ {b}
    PROVE  IInv'
<1> USE NoneIsNull DEF IInv
<1>1. /\ origin'[b] = m /\ allocSize'[b] = m
      /\ \A x \in Blocks \ {b} : origin'[x] = origin[x] /\ allocSize'[x] = allocSize[x]
  BY DEF TypeOK
<1>2. b \in live' <=> m # NoPool
  BY DEF NoPool, MAX_ALLOC_SIZE
<1>3. \A x \in Blocks \ {b} : x \in live' <=> x \in live
  OBVIOUS
<1>4. TypeOK'
  BY DEF TypeOK
<1>5. /\ (\A p \in Pools : b \notin Listed(p)) /\ \A u \in Threads : ~Holds(u, b)
  <2>1. CASE n = NoPool
    BY <2>1, Obtained
  <2>2. CASE b \in live
    BY <2>2 DEF PlacesOK
  <2> QED
    BY <2>1, <2>2
<1>6. /\ \A u \in Threads, x \in Blocks : Holds(u, x)' <=> Holds(u, x)
      /\ \A p \in Pools : Listed(p)' = Listed(p) /\ (ListedOnce(p)' <=> ListedOnce(p))
  BY DEF Holds, Listed, ListedOnce
<1>7. PlacesOK'
  <2>1. \A x \in live' : (\A u \in Threads : ~Holds(u, x)') /\ \A p \in Pools : x \notin Listed(p)'
    <3> SUFFICES ASSUME NEW x \in live'
                 PROVE  (\A u \in Threads : ~Holds(u, x)') /\ \A p \in Pools : x \notin Listed(p)'
      OBVIOUS
    <3>1. x \in Blocks /\ (x = b \/ x \in live)
      BY <1>3, <1>4 DEF TypeOK
    <3>2. (\A u \in Threads : ~Holds(u, x)) /\ \A p \in Pools : x \notin Listed(p)
      BY <1>5, <3>1 DEF PlacesOK
    <3> QED
      BY <1>6, <3>1, <3>2
  <2>2. \A x \in Blocks : origin'[x] # NoPool =>
          x \in live' \/ (\E u \in Threads : Holds(u, x)') \/ \E p \in Pools : x \in Listed(p)'
    BY <1>1, <1>2, <1>3, <1>6 DEF PlacesOK
  <2> QED
    BY <1>6, <2>1, <2>2 DEF PlacesOK
<1>8. HomeOK'
  <2>1. \A p \in Pools : Listed(p) \subseteq Blocks
    BY LenProperties, ElementOfSeq DEF TypeOK, Listed
  <2> QED
    BY <1>1, <1>5, <1>6, <2>1 DEF HomeOK
<1>9. ThreadsOK'
  <2> SUFFICES ASSUME NEW u \in Threads PROVE ThreadOK(u)'
    BY DEF ThreadsOK
  <2>1. pc[u].at \in {"popped", "push"} /\ pc[u].block # None => pc[u].block \in Blocks \ {b}
    BY <1>5, FrameParts DEF Holds
  <2> QED
    BY <1>1, <2>1, ThreadSame DEF ThreadsOK
<1>10. LiveOK'
  <2> SUFFICES ASSUME NEW x \in live'
               PROVE  /\ allocSize'[x] > 0
                      /\ type'[x] # None => origin'[x] = type'[x] /\ allocSize'[x] = AllocSize(type'[x])
                      /\ type'[x] = None /\ allocSize'[x] <= MAX_ALLOC_SIZE =>
                           origin'[x] \in PoolSizes /\ origin'[x] = poolTable[allocSize'[x]]
                      /\ type'[x] = None /\ allocSize'[x] > MAX_ALLOC_SIZE => origin'[x] = allocSize'[x]
    BY DEF LiveOK
  <2>1. CASE x = b
    <3>1. m > MAX_ALLOC_SIZE
      BY <1>2, <2>1
    <3>2. m > 0 /\ ~(m <= MAX_ALLOC_SIZE)
      BY <3>1 DEF MAX_ALLOC_SIZE
    <3> QED
      BY <1>1, <2>1, <3>2
  <2>2. CASE x # b
    <3>1. x \in live /\ x \in Blocks \ {b}
      BY <1>3, <1>4, <2>2 DEF TypeOK
    <3> QED
      BY <1>1, <3>1 DEF LiveOK
  <2> QED
    BY <2>1, <2>2
<1>11. FreshOK' /\ failed' # "assert"
  BY <1>1 DEF FreshOK
<1>12. CountsOK'
  <2> SUFFICES ASSUME NEW p \in Pools PROVE CountAt(p)'
    BY DEF CountsOK
  <2>1. InUse(p)' = InUse(p)
    <3>1. InUse(p) \subseteq Blocks /\ InUse(p)' \subseteq Blocks
      BY <1>4 DEF TypeOK, InUse
    <3>2. b \notin InUse(p) /\ b \notin InUse(p)'
      BY <1>1 DEF InUse
    <3>3. \A x \in Blocks \ {b} : x \in InUse(p)' <=> x \in InUse(p)
      BY <1>1, <1>3 DEF InUse
    <3> QED
      BY <3>1, <3>2, <3>3
  <2>2. Pushing(p)' = Pushing(p) /\ Popped(p)' = Popped(p) /\ Pushed(p)' = Pushed(p)
    BY DEF Pushing, Popped, Pushed
  <2> QED
    BY <2>1, <2>2, CountSame DEF CountsOK
<1> QED
  BY <1>4, <1>7, <1>8, <1>9, <1>10, <1>11, <1>12

LEMMA AllocateLargePreserves ==
    ASSUME IInv, NEW t \in Threads, NEW size \in RequestSizes, AllocateLarge(t, size)
    PROVE  IInv'
<1>1. PICK m \in Nat : m = size + HeaderSize /\ m > MAX_ALLOC_SIZE
  BY SizesAssumption DEF AllocateLarge
<1>2. PICK b \in Obtainable : /\ origin' = [origin EXCEPT ![b] = m] /\ allocSize' = [allocSize EXCEPT ![b] = m]
                              /\ live' = live \cup {b}
  BY <1>1 DEF AllocateLarge
<1>3. b \in Blocks /\ origin[b] = NoPool /\ NoPool \in Nat
  BY <1>2 DEF Obtainable, NoPool
<1>4. m \notin Pools /\ NoPool \notin Pools
  BY <1>1, PoolsAre DEF MAX_ALLOC_SIZE
<1>5. UNCHANGED <<header, useCount, reservedCount, type, pc>> /\ failed' # "assert" /\ type[b] = None
  BY <1>3 DEF AllocateLarge, IInv, FreshOK
<1> QED
  BY <1>1, <1>2, <1>3, <1>4, <1>5, LargePreserves

LEMMA ReleaseLargePreserves ==
    ASSUME IInv, NEW t \in Threads, NEW b \in Blocks, ReleaseLarge(t, b)
    PROVE  IInv'
<1>1. /\ b \in live /\ type[b] = None /\ allocSize[b] > MAX_ALLOC_SIZE /\ live' = live \ {b}
      /\ origin' = [origin EXCEPT ![b] = NoPool] /\ allocSize' = [allocSize EXCEPT ![b] = NoPool]
      /\ UNCHANGED <<header, useCount, reservedCount, type, pc>> /\ failed' # "assert"
  BY DEF ReleaseLarge, IInv, NoPool
<1>2. PICK n \in Nat : n = allocSize[b] /\ n = origin[b]
  BY <1>1 DEF IInv, LiveOK, TypeOK
<1>3. n \notin Pools /\ NoPool \notin Pools /\ NoPool \in Nat
  BY <1>1, <1>2, PoolsAre DEF MAX_ALLOC_SIZE, NoPool
<1> QED
  BY <1>1, <1>2, <1>3, LargePreserves

\* A size without a pool ends the run; no state of the allocator changes.
LEMMA AllocateUndefinedPreserves ==
    ASSUME IInv, NEW t \in Threads, NEW size \in RequestSizes, AllocateUndefined(t, size)
    PROVE  IInv'
<1>1. UNCHANGED <<header, useCount, reservedCount, origin, allocSize, live, type, pc>> /\ failed' = "undefined"
  BY DEF AllocateUndefined
<1>2. TypeOK' /\ LiveOK' /\ FreshOK'
  BY <1>1 DEF IInv, TypeOK, LiveOK, FreshOK
<1>3. PlacesOK' /\ HomeOK'
  <2>1. /\ \A p \in Pools : Listed(p)' = Listed(p) /\ (ListedOnce(p)' <=> ListedOnce(p))
        /\ \A u \in Threads, b \in Blocks : Holds(u, b)' <=> Holds(u, b)
    BY <1>1 DEF ListedOnce, Listed, Holds
  <2>2. \A b \in live : b \in Blocks
    BY DEF IInv, TypeOK
  <2> QED
    BY <1>1, <2>1, <2>2 DEF IInv, PlacesOK, HomeOK
<1>4. ThreadsOK'
  BY <1>1 DEF IInv, ThreadsOK, ThreadOK
<1>5. CountsOK'
  <2> SUFFICES ASSUME NEW p \in Pools PROVE CountAt(p)'
    BY DEF CountsOK
  <2>1. /\ InUse(p)' = InUse(p) /\ Pushing(p)' = Pushing(p)
        /\ Popped(p)' = Popped(p) /\ Pushed(p)' = Pushed(p)
    BY <1>1 DEF InUse, Pushing, Popped, Pushed
  <2> QED
    BY <1>1, <2>1, CountSame DEF IInv, CountsOK
<1> QED
  BY <1>1, <1>2, <1>3, <1>4, <1>5 DEF IInv

\* The program gives a block up: from now on it is in the hands of the thread.
LEMMA PushPreserves ==
    ASSUME IInv, NEW t \in Threads, NEW b \in live, NEW p \in Pools, origin[b] = p, Push(t, b, p)
    PROVE  IInv'
<1> USE NoneIsNull DEF IInv
<1>1. b \in Blocks
  BY DEF TypeOK
<1>2. /\ pc[t] = Idle /\ live' = live \ {b} /\ allocSize' = [allocSize EXCEPT ![b] = 0]
      /\ UNCHANGED <<header, useCount, reservedCount, origin, type, failed>>
  BY DEF Push, May
<1>3. pc[t].at = "idle"
  BY <1>2 DEF Idle
<1>4. PICK f : /\ f \in Frame /\ f.at = "push" /\ f.pool = p /\ f.block = b
               /\ pc' = [pc EXCEPT ![t] = f]
  <2> DEFINE g == [at |-> "push", pool |-> p, block |-> b, size |-> 0]
  <2>1. g \in Frame
    BY <1>1 DEF Frame
  <2>2. pc' = [pc EXCEPT ![t] = g]
    BY DEF Push
  <2> QED
    BY <2>1, <2>2
<1>5. /\ pc'[t] = f /\ \A u \in Threads \ {t} : pc'[u] = pc[u]
      /\ allocSize'[b] = 0 /\ \A x \in Blocks \ {b} : allocSize'[x] = allocSize[x]
  BY <1>1, <1>2, <1>4 DEF TypeOK
<1>6. TypeOK'
  BY <1>1, <1>2, <1>4 DEF TypeOK
<1>7. (\A r \in Pools : b \notin Listed(r)) /\ \A u \in Threads : ~Holds(u, b)
  BY DEF PlacesOK
<1>8. /\ \A u \in Threads \ {t}, x \in Blocks : Holds(u, x)' <=> Holds(u, x)
      /\ \A x \in Blocks : (Holds(t, x)' <=> x = b) /\ ~Holds(t, x)
  BY <1>3, <1>4, <1>5 DEF Holds
<1>9. \A r \in Pools : Listed(r)' = Listed(r) /\ (ListedOnce(r)' <=> ListedOnce(r))
  BY <1>2 DEF Listed, ListedOnce
<1>10. PlacesOK'
  <2>1. \A x \in Blocks, u, w \in Threads : Holds(u, x)' /\ Holds(w, x)' => u = w
    BY <1>7, <1>8 DEF PlacesOK
  <2>2. \A x \in live' : (\A u \in Threads : ~Holds(u, x)') /\ \A r \in Pools : x \notin Listed(r)'
    <3> SUFFICES ASSUME NEW x \in live'
                 PROVE  (\A u \in Threads : ~Holds(u, x)') /\ \A r \in Pools : x \notin Listed(r)'
      OBVIOUS
    <3>1. x \in Blocks /\ x # b /\ x \in live
      BY <1>2 DEF TypeOK
    <3>2. (\A u \in Threads : ~Holds(u, x)) /\ \A r \in Pools : x \notin Listed(r)
      BY <3>1 DEF PlacesOK
    <3> QED
      BY <1>8, <1>9, <3>1, <3>2
  <2>3. \A x \in Blocks, u \in Threads, r \in Pools : ~(Holds(u, x)' /\ x \in Listed(r)')
    BY <1>7, <1>8, <1>9 DEF PlacesOK
  <2>4. \A x \in Blocks : origin'[x] # NoPool =>
          x \in live' \/ (\E u \in Threads : Holds(u, x)') \/ \E r \in Pools : x \in Listed(r)'
    BY <1>2, <1>8, <1>9 DEF PlacesOK
  <2> QED
    BY <1>9, <2>1, <2>2, <2>3, <2>4 DEF PlacesOK
<1>11. HomeOK'
  <2>1. \A r \in Pools : Listed(r) \subseteq Blocks
    BY LenProperties, ElementOfSeq DEF TypeOK, Listed
  <2> QED
    BY <1>2, <1>5, <1>7, <1>9, <2>1 DEF HomeOK
<1>12. \A u \in Threads \ {t} : ThreadOK(u)'
  <2> SUFFICES ASSUME NEW u \in Threads \ {t} PROVE ThreadOK(u)'
    OBVIOUS
  <2>1. pc[u].at \in {"popped", "push"} /\ pc[u].block # None => pc[u].block \in Blocks \ {b}
    BY <1>7, FrameParts DEF Holds
  <2> QED
    BY <1>2, <1>5, <2>1, ThreadSame DEF ThreadsOK
<1>13. ThreadOK(t)'
  <2>1. f # Idle
    BY <1>4 DEF Idle
  <2> QED
    BY <1>1, <1>2, <1>4, <1>5, <2>1 DEF ThreadOK
<1>14. LiveOK'
  <2> SUFFICES ASSUME NEW x \in live'
               PROVE  /\ allocSize'[x] > 0
                      /\ type'[x] # None => origin'[x] = type'[x] /\ allocSize'[x] = AllocSize(type'[x])
                      /\ type'[x] = None /\ allocSize'[x] <= MAX_ALLOC_SIZE =>
                           origin'[x] \in PoolSizes /\ origin'[x] = poolTable[allocSize'[x]]
                      /\ type'[x] = None /\ allocSize'[x] > MAX_ALLOC_SIZE => origin'[x] = allocSize'[x]
    BY DEF LiveOK
  <2>1. x \in live /\ x \in Blocks \ {b}
    BY <1>2 DEF TypeOK
  <2> QED
    BY <1>2, <1>5, <2>1 DEF LiveOK
<1>15. FreshOK' /\ failed' # "assert"
  BY <1>2 DEF FreshOK
<1>16. CountsOK'
  <2> SUFFICES ASSUME NEW r \in Pools PROVE CountAt(r)'
    BY DEF CountsOK
  <2>1. /\ CountAt(r) /\ useCount'[r] = useCount[r] /\ reservedCount'[r] = reservedCount[r]
        /\ header'[r] = header[r]
    BY <1>2 DEF CountsOK
  <2>2. Popped(r)' = Popped(r) /\ Pushed(r)' = Pushed(r)
    BY <1>3, <1>4, <1>5 DEF Popped, Pushed
  <2>3. /\ InUse(r)' = IF r = p THEN InUse(r) \ {b} ELSE InUse(r)
        /\ b \in InUse(r) <=> r = p
    BY <1>2 DEF InUse
  <2>4. Pushing(r)' = IF r = p THEN Pushing(r) \cup {t} ELSE Pushing(r)
    BY <1>3, <1>4, <1>5 DEF Pushing
  <2>5. CASE r # p
    BY <2>1, <2>2, <2>3, <2>4, <2>5, CountSame
  <2>6. CASE r = p
    <3>1. t \notin Pushing(r)
      BY <1>3 DEF Pushing
    <3>2. Cardinality(InUse(r))' = Cardinality(InUse(r)) - 1 /\ Cardinality(InUse(r)) \in Nat
      BY <2>3, <2>6, CountStep, CountedFinite
    <3>3. Cardinality(Pushing(r))' = Cardinality(Pushing(r)) + 1 /\ Cardinality(Pushing(r)) \in Nat
      BY <2>4, <2>6, <3>1, CountStep, CountedFinite
    <3>4. useCount'[r] = Cardinality(InUse(r))' + Cardinality(Pushing(r))'
      BY <2>1, <3>2, <3>3 DEF CountAt
    <3> QED
      BY <2>1, <2>2, <3>4 DEF CountAt
  <2> QED
    BY <2>5, <2>6
<1> QED
  BY <1>6, <1>10, <1>11, <1>12, <1>13, <1>14, <1>15, <1>16 DEF ThreadsOK

\* Release and ObjectPush find the pool that the block came from.
LEMMA ReleasePreserves ==
    ASSUME IInv, NEW t \in Threads, NEW b \in Blocks, Release(t, b) \/ ObjectPush(t, b)
    PROVE  IInv'
<1>1. CASE Release(t, b)
  <2>1. b \in live /\ type[b] = None /\ allocSize[b] <= MAX_ALLOC_SIZE /\ Push(t, b, poolTable[allocSize[b]])
    BY <1>1 DEF Release
  <2>2. origin[b] \in Pools /\ origin[b] = poolTable[allocSize[b]]
    BY <2>1 DEF IInv, LiveOK, Pools
  <2> QED
    BY <2>1, <2>2, PushPreserves
<1>2. CASE ObjectPush(t, b)
  <2>1. b \in live /\ type[b] # None /\ Push(t, b, type[b])
    BY <1>2 DEF ObjectPush
  <2>2. type[b] \in Pools /\ origin[b] = type[b]
    BY <2>1 DEF IInv, LiveOK, TypeOK, Pools
  <2> QED
    BY <2>1, <2>2, PushPreserves
<1> QED
  BY <1>1, <1>2

\* The block goes to the front of the list; the counters are behind by one.
LEMMA PushEntryPreserves ==
    ASSUME IInv, NEW t \in Threads, PushEntry(t)
    PROVE  IInv'
<1> USE NoneIsNull DEF IInv
<1>1. pc[t].at = "push" /\ UNCHANGED <<useCount, reservedCount, origin, allocSize, live, type, failed>>
  BY DEF PushEntry
<1>2. PICK p \in Pools : p = pc[t].pool
  BY <1>1 DEF ThreadsOK, ThreadOK
<1>3. PICK b \in Blocks : b = pc[t].block
  BY <1>1, FrameParts DEF ThreadsOK, ThreadOK
<1>4. origin[b] = p /\ allocSize[b] = 0 /\ Holds(t, b)
  BY <1>1, <1>2, <1>3 DEF ThreadsOK, ThreadOK, Holds
<1>5. PICK f : f \in Frame /\ f.at = "pushed" /\ f.pool = p /\ pc' = [pc EXCEPT ![t] = f]
  <2> DEFINE g == [pc[t] EXCEPT !.at = "pushed"]
  <2>1. pc[t] \in Frame /\ pc' = [pc EXCEPT ![t] = g]
    BY DEF PushEntry, TypeOK
  <2>2. g \in Frame /\ g.at = "pushed" /\ g.pool = p
    BY <1>2, <2>1 DEF Frame
  <2> QED
    BY <2>1, <2>2
<1>6. pc'[t] = f /\ \A u \in Threads \ {t} : pc'[u] = pc[u]
  BY <1>5 DEF TypeOK
<1>7. b \notin live /\ (\A r \in Pools : b \notin Listed(r)) /\ \A u \in Threads \ {t} : ~Holds(u, b)
  BY <1>4 DEF PlacesOK
<1>8. PICK s \in Seq(Blocks) : s = header[p]
  BY DEF TypeOK
<1>9. header' = [header EXCEPT ![p] = <<b>> \o s]
  BY <1>2, <1>3, <1>8 DEF PushEntry
<1>10. header'[p] = <<b>> \o s /\ \A r \in Pools \ {p} : header'[r] = header[r]
  BY <1>9 DEF TypeOK
<1>11. /\ <<b>> \o s \in Seq(Blocks) /\ Len(header'[p]) = Len(header[p]) + 1
       /\ Listed(p)' = Listed(p) \cup {b} /\ ListedOnce(p)'
       /\ \A r \in Pools \ {p} : Listed(r)' = Listed(r) /\ (ListedOnce(r)' <=> ListedOnce(r))
  <2>1. /\ \A i, k \in 1..Len(s) : s[i] = s[k] => i = k
        /\ b \notin {s[i] : i \in 1..Len(s)}
    BY <1>7, <1>8 DEF PlacesOK, ListedOnce, Listed
  <2>2. /\ <<b>> \o s \in Seq(Blocks) /\ Len(<<b>> \o s) = Len(s) + 1
        /\ {(<<b>> \o s)[i] : i \in 1..Len(<<b>> \o s)} = {s[i] : i \in 1..Len(s)} \cup {b}
        /\ \A i, k \in 1..Len(<<b>> \o s) : (<<b>> \o s)[i] = (<<b>> \o s)[k] => i = k
    BY <2>1, PutFirst
  <2>3. \A r \in Pools \ {p} : Listed(r)' = Listed(r) /\ (ListedOnce(r)' <=> ListedOnce(r))
    BY <1>10 DEF Listed, ListedOnce
  <2>4. Listed(p) = {s[i] : i \in 1..Len(s)} /\ Listed(p)' = {(<<b>> \o s)[i] : i \in 1..Len(<<b>> \o s)}
    BY <1>8, <1>10 DEF Listed
  <2>5. ListedOnce(p)'
    BY <1>10, <2>2 DEF ListedOnce
  <2> QED
    BY <1>8, <1>10, <2>2, <2>3, <2>4, <2>5
<1>12. TypeOK'
  <2>1. header' \in [Pools -> Seq(Blocks)]
    BY <1>9, <1>11 DEF TypeOK
  <2> QED
    BY <1>1, <1>5, <2>1 DEF TypeOK
<1>13. /\ \A u \in Threads \ {t}, x \in Blocks : Holds(u, x)' <=> Holds(u, x)
       /\ \A x \in Blocks : ~Holds(t, x)' /\ (Holds(t, x) => x = b)
  BY <1>3, <1>5, <1>6 DEF Holds
<1>14. PlacesOK'
  <2>1. \A r \in Pools : ListedOnce(r)'
    BY <1>11 DEF PlacesOK
  <2>2. \A x \in Blocks, u, w \in Threads : Holds(u, x)' /\ Holds(w, x)' => u = w
    BY <1>13 DEF PlacesOK
  <2>3. \A x \in live' : (\A u \in Threads : ~Holds(u, x)') /\ \A r \in Pools : x \notin Listed(r)'
    <3> SUFFICES ASSUME NEW x \in live'
                 PROVE  (\A u \in Threads : ~Holds(u, x)') /\ \A r \in Pools : x \notin Listed(r)'
      OBVIOUS
    <3>1. x \in Blocks /\ x # b /\ x \in live
      BY <1>1, <1>7 DEF TypeOK
    <3>2. (\A u \in Threads : ~Holds(u, x)) /\ \A r \in Pools : x \notin Listed(r)
      BY <3>1 DEF PlacesOK
    <3> QED
      BY <1>11, <1>13, <3>1, <3>2
  <2>4. \A x \in Blocks, u \in Threads, r \in Pools : ~(Holds(u, x)' /\ x \in Listed(r)')
    <3> SUFFICES ASSUME NEW x \in Blocks, NEW u \in Threads \ {t}, NEW r \in Pools, Holds(u, x), x \in Listed(r)'
                 PROVE  FALSE
      BY <1>13
    <3>1. x # b
      BY <1>7
    <3>2. x \in Listed(r)
      BY <1>11, <3>1
    <3> QED
      BY <3>2 DEF PlacesOK
  <2>5. ASSUME NEW x \in Blocks, origin[x] # NoPool
        PROVE  x \in live' \/ (\E u \in Threads : Holds(u, x)') \/ \E r \in Pools : x \in Listed(r)'
    <3>1. x \in live \/ (\E u \in Threads : Holds(u, x)) \/ \E r \in Pools : x \in Listed(r)
      BY <2>5 DEF PlacesOK
    <3>2. \A r \in Pools : x \in Listed(r) => x \in Listed(r)'
      BY <1>11
    <3>3. b \in Listed(p)'
      BY <1>11
    <3> QED
      BY <1>1, <1>13, <3>1, <3>2, <3>3
  <2> QED
    BY <1>1, <2>1, <2>2, <2>3, <2>4, <2>5 DEF PlacesOK
<1>15. HomeOK'
  <2> SUFFICES ASSUME NEW r \in Pools, NEW x \in Listed(r)' PROVE origin[x] = r /\ allocSize[x] = 0
    BY <1>1 DEF HomeOK
  <2>1. x \in Listed(r) \/ (x = b /\ r = p)
    BY <1>11
  <2> QED
    BY <1>4, <2>1 DEF HomeOK
<1>16. \A u \in Threads \ {t} : ThreadOK(u)'
  BY <1>1, <1>6, ThreadSame DEF ThreadsOK
<1>17. ThreadOK(t)'
  <2>1. f # Idle
    BY <1>5 DEF Idle
  <2> QED
    BY <1>5, <1>6, <2>1 DEF ThreadOK
<1>18. LiveOK' /\ FreshOK' /\ failed' # "assert"
  BY <1>1 DEF LiveOK, FreshOK
<1>19. CountsOK'
  <2> SUFFICES ASSUME NEW r \in Pools PROVE CountAt(r)'
    BY DEF CountsOK
  <2>1. CountAt(r) /\ useCount'[r] = useCount[r] /\ reservedCount'[r] = reservedCount[r] /\ InUse(r)' = InUse(r)
    BY <1>1 DEF CountsOK, InUse
  <2>2. Pushing(r)' = Pushing(r)
    <3>1. \A u \in Threads : pc'[u].at \in {"push", "pushed"} /\ pc'[u].pool = r
                             <=> pc[u].at \in {"push", "pushed"} /\ pc[u].pool = r
      BY <1>1, <1>2, <1>5, <1>6
    <3> QED
      BY <3>1 DEF Pushing
  <2>3. Popped(r)' = Popped(r)
    BY <1>1, <1>5, <1>6 DEF Popped
  <2>4. Pushed(r)' = IF r = p THEN Pushed(r) \cup {t} ELSE Pushed(r)
    BY <1>1, <1>5, <1>6 DEF Pushed
  <2>5. CASE r # p
    BY <1>10, <2>1, <2>2, <2>3, <2>4, <2>5, CountSame
  <2>6. CASE r = p
    <3>1. t \notin Pushed(r)
      BY <1>1 DEF Pushed
    <3>2. Cardinality(Pushed(r))' = Cardinality(Pushed(r)) + 1 /\ Cardinality(Pushed(r)) \in Nat
      BY <2>4, <2>6, <3>1, CountStep, CountedFinite
    <3>3. Cardinality(Popped(r)) \in Nat /\ Len(header[r]) \in Nat
      BY CountStep, CountedFinite, LenProperties DEF TypeOK
    <3>4. Len(header'[r]) = Len(header[r]) + 1
      BY <1>11, <2>6
    <3>5. reservedCount'[r] = Len(header'[r]) + Cardinality(Popped(r))' - Cardinality(Pushed(r))'
      BY <2>1, <2>3, <3>2, <3>3, <3>4 DEF CountAt
    <3> QED
      BY <2>1, <2>2, <3>5 DEF CountAt
  <2> QED
    BY <2>5, <2>6
<1> QED
  BY <1>12, <1>14, <1>15, <1>16, <1>17, <1>18, <1>19 DEF ThreadsOK

\* The counters catch up.
LEMMA PushCountPreserves ==
    ASSUME IInv, NEW t \in Threads, PushCount(t)
    PROVE  IInv'
<1> USE NoneIsNull DEF IInv
<1>1. pc[t].at = "pushed" /\ UNCHANGED <<header, origin, allocSize, live, type, failed>>
  BY DEF PushCount
<1>2. PICK p \in Pools : p = pc[t].pool
  BY <1>1 DEF ThreadsOK, ThreadOK
<1>3. /\ useCount' = [useCount EXCEPT ![p] = @ - 1] /\ reservedCount' = [reservedCount EXCEPT ![p] = @ + 1]
      /\ pc' = [pc EXCEPT ![t] = Idle]
  BY <1>2 DEF PushCount
<1>4. Idle \in Frame /\ Idle.at = "idle"
  BY DEF Idle, Frame
<1>5. pc'[t] = Idle /\ \A u \in Threads \ {t} : pc'[u] = pc[u]
  BY <1>3 DEF TypeOK
<1>6. TypeOK'
  <2>1. useCount' \in [Pools -> Int] /\ reservedCount' \in [Pools -> Int]
    BY <1>3 DEF TypeOK
  <2> QED
    BY <1>1, <1>3, <1>4, <2>1 DEF TypeOK
<1>7. PlacesOK' /\ HomeOK'
  <2>1. /\ \A r \in Pools : Listed(r)' = Listed(r) /\ (ListedOnce(r)' <=> ListedOnce(r))
        /\ \A u \in Threads, b \in Blocks : Holds(u, b)' <=> Holds(u, b)
    BY <1>1, <1>4, <1>5 DEF ListedOnce, Listed, Holds
  <2>2. \A b \in live : b \in Blocks
    BY DEF TypeOK
  <2> QED
    BY <1>1, <2>1, <2>2 DEF PlacesOK, HomeOK
<1>8. \A u \in Threads \ {t} : ThreadOK(u)'
  BY <1>1, <1>5, ThreadSame DEF ThreadsOK
<1>9. ThreadOK(t)'
  BY <1>4, <1>5 DEF ThreadOK
<1>10. LiveOK' /\ FreshOK' /\ failed' # "assert"
  BY <1>1 DEF LiveOK, FreshOK
<1>11. CountsOK'
  <2> SUFFICES ASSUME NEW r \in Pools PROVE CountAt(r)'
    BY DEF CountsOK
  <2>1. CountAt(r) /\ InUse(r)' = InUse(r) /\ header'[r] = header[r]
    BY <1>1 DEF CountsOK, InUse
  <2>2. Popped(r)' = Popped(r)
    BY <1>1, <1>4, <1>5 DEF Popped
  <2>3. /\ Pushing(r)' = IF r = p THEN Pushing(r) \ {t} ELSE Pushing(r)
        /\ Pushed(r)' = IF r = p THEN Pushed(r) \ {t} ELSE Pushed(r)
        /\ r = p => t \in Pushing(r) /\ t \in Pushed(r)
    <3>1. t \notin Pushing(r)' /\ t \notin Pushed(r)'
      BY <1>4, <1>5 DEF Pushing, Pushed
    <3>2. (t \in Pushing(r) <=> r = p) /\ (t \in Pushed(r) <=> r = p)
      BY <1>1, <1>2 DEF Pushing, Pushed
    <3>3. \A u \in Threads \ {t} : (u \in Pushing(r)' <=> u \in Pushing(r)) /\ (u \in Pushed(r)' <=> u \in Pushed(r))
      BY <1>5 DEF Pushing, Pushed
    <3>4. /\ Pushing(r) \subseteq Threads /\ Pushing(r)' \subseteq Threads
          /\ Pushed(r) \subseteq Threads /\ Pushed(r)' \subseteq Threads
      BY DEF Pushing, Pushed
    <3>5. Pushing(r)' = Pushing(r) \ {t} /\ Pushed(r)' = Pushed(r) \ {t}
      BY <3>1, <3>3, <3>4
    <3> QED
      BY <3>2, <3>5
  <2>4. CASE r # p
    <3>1. useCount'[r] = useCount[r] /\ reservedCount'[r] = reservedCount[r]
      BY <1>3, <2>4 DEF TypeOK
    <3> QED
      BY <2>1, <2>2, <2>3, <2>4, <3>1, CountSame
  <2>5. CASE r = p
    <3>1. Cardinality(Pushing(r))' = Cardinality(Pushing(r)) - 1 /\ Cardinality(Pushing(r)) \in Nat
      BY <2>3, <2>5, CountStep, CountedFinite
    <3>2. Cardinality(Pushed(r))' = Cardinality(Pushed(r)) - 1 /\ Cardinality(Pushed(r)) \in Nat
      BY <2>3, <2>5, CountStep, CountedFinite
    <3>3. Cardinality(InUse(r)) \in Nat /\ Cardinality(Popped(r)) \in Nat /\ Len(header[r]) \in Nat
      BY CountStep, CountedFinite, LenProperties DEF TypeOK
    <3>4. /\ useCount'[r] = useCount[r] - 1 /\ useCount[r] \in Int
          /\ reservedCount'[r] = reservedCount[r] + 1 /\ reservedCount[r] \in Int
      BY <1>3, <2>5 DEF TypeOK
    <3>5. useCount'[r] = Cardinality(InUse(r))' + Cardinality(Pushing(r))'
      BY <2>1, <3>1, <3>3, <3>4 DEF CountAt
    <3>6. reservedCount'[r] = Len(header'[r]) + Cardinality(Popped(r))' - Cardinality(Pushed(r))'
      BY <2>1, <2>2, <3>2, <3>3, <3>4 DEF CountAt
    <3> QED
      BY <3>5, <3>6 DEF CountAt
  <2> QED
    BY <2>4, <2>5
<1> QED
  BY <1>6, <1>7, <1>8, <1>9, <1>10, <1>11 DEF ThreadsOK

LEMMA InitInv == Init => IInv
<1> SUFFICES ASSUME Init PROVE IInv
  OBVIOUS
<1> USE NoneIsNull DEF Init
<1>1. Idle \in Frame /\ Idle.at = "idle" /\ (\A p \in Pools : <<>> \in Seq(Blocks))
  BY DEF Idle, Frame
<1>2. TypeOK
  BY <1>1 DEF TypeOK, NoPool
<1>3. \A t \in Threads : pc[t] = Idle
  OBVIOUS
<1>4. \A p \in Pools : header[p] = <<>> /\ Listed(p) = {} /\ ListedOnce(p)
  BY DEF Listed, ListedOnce
<1>5. PlacesOK /\ HomeOK
  BY <1>1, <1>3, <1>4 DEF PlacesOK, HomeOK, Holds
<1>6. ThreadsOK
  BY <1>1, <1>3 DEF ThreadsOK, ThreadOK
<1>7. LiveOK /\ FreshOK /\ failed # "assert"
  BY DEF LiveOK, FreshOK
<1>8. CountsOK
  <2> SUFFICES ASSUME NEW p \in Pools PROVE CountAt(p)
    BY DEF CountsOK
  <2>1. InUse(p) = {} /\ Pushing(p) = {} /\ Popped(p) = {} /\ Pushed(p) = {}
    BY <1>1, <1>3 DEF InUse, Pushing, Popped, Pushed
  <2>2. Cardinality({}) = 0 /\ Len(header[p]) = 0
    BY <1>4, FS_EmptySet
  <2> QED
    BY <2>1, <2>2 DEF CountAt
<1> QED
  BY <1>2, <1>5, <1>6, <1>7, <1>8 DEF IInv

LEMMA AllocatePreserves ==
    ASSUME IInv, NEW t \in Threads, NEW size \in RequestSizes, Allocate(t, size)
    PROVE  IInv'
<1>1. PICK n \in Nat : n = size + HeaderSize /\ n > 0
  BY SizesAssumption
<1>2. n \in 0..MAX_ALLOC_SIZE /\ poolTable[n] # NoPool /\ PopEntry(t, poolTable[n], n)
  <2>1. n <= MAX_ALLOC_SIZE /\ poolTable[n] # NoPool /\ PopEntry(t, poolTable[n], n)
    BY <1>1, Zenon DEF Allocate
  <2>2. MAX_ALLOC_SIZE \in Nat
    BY DEF MAX_ALLOC_SIZE
  <2> QED
    <3> HIDE DEF MAX_ALLOC_SIZE
    <3> QED
      BY <1>1, <2>1, <2>2
<1>3. poolTable[n] \in PoolSizes
  BY <1>2, PoolTable
<1>4. poolTable[n] \in Pools /\ poolTable[n] \notin Types
  BY <1>3, PoolsAre DEF Pools
<1> QED
  BY <1>1, <1>2, <1>4, PopEntryPreserves DEF Serves

LEMMA ObjectPopPreserves ==
    ASSUME IInv, NEW t \in Threads, NEW ty \in Types, ObjectPop(t, ty)
    PROVE  IInv'
<1>1. ty \in Pools /\ PopEntry(t, ty, AllocSize(ty))
  BY DEF ObjectPop, Pools
<1>2. AllocSize(ty) \in Nat /\ AllocSize(ty) > 0 /\ Serves(ty, AllocSize(ty))
  BY <1>1, PoolsAre DEF Serves
<1> QED
  BY <1>1, <1>2, PopEntryPreserves

LEMMA NextInv == IInv /\ [Next]_vars => IInv'
<1> SUFFICES ASSUME IInv, [Next]_vars PROVE IInv'
  OBVIOUS
<1>1. CASE UNCHANGED vars
  <2>1. TypeOK' /\ PlacesOK' /\ HomeOK' /\ LiveOK' /\ FreshOK' /\ failed' # "assert"
    <3>1. UNCHANGED <<header, useCount, reservedCount, origin, allocSize, live, type, pc, failed>>
      BY <1>1 DEF vars
    <3>2. TypeOK' /\ LiveOK' /\ FreshOK' /\ failed' # "assert"
      BY <3>1 DEF IInv, TypeOK, LiveOK, FreshOK
    <3>3. PlacesOK' /\ HomeOK'
      BY <3>1 DEF IInv, PlacesOK, HomeOK, ListedOnce, Listed, Holds
    <3> QED
      BY <3>2, <3>3
  <2>2. ThreadsOK'
    BY <1>1 DEF vars, IInv, ThreadsOK, ThreadOK
  <2>3. CountsOK'
    BY <1>1 DEF vars, IInv, CountsOK, CountAt, InUse, Pushing, Popped, Pushed
  <2> QED
    BY <2>1, <2>2, <2>3 DEF IInv
<1>2. CASE Next
  <2>1. PICK t \in Threads :
          \/ \E size \in RequestSizes :
               AllocateLarge(t, size) \/ Allocate(t, size) \/ AllocateUndefined(t, size)
          \/ \E ty \in Types : ObjectPop(t, ty)
          \/ PopReserved(t) \/ PopNew(t)
          \/ \E b \in Blocks : ReleaseLarge(t, b) \/ Release(t, b) \/ ObjectPush(t, b)
          \/ PushEntry(t) \/ PushCount(t)
    BY <1>2 DEF Next
  <2> QED
    BY <2>1, AllocateLargePreserves, AllocatePreserves, AllocateUndefinedPreserves, ObjectPopPreserves,
       PopEndPreserves, ReleaseLargePreserves, ReleasePreserves, PushEntryPreserves, PushCountPreserves
<1> QED
  BY <1>1, <1>2

\* The inductive invariant holds.
THEOREM Invariance == Spec => []IInv
BY InitInv, NextInv, PTL DEF Spec

\* Every variable keeps its type: a block's header never holds but a length.
THEOREM TypeCorrectness == Spec => []TypeOK
BY Invariance, PTL DEF IInv

-----------------------------------------------------------------------------
(* The safety properties *)

\* A block in use is as long as what was asked for, whichever pool or the
\* operating system provided it.
LEMMA Fits == IInv => BlocksFit
<1> SUFFICES ASSUME IInv, NEW b \in live
             PROVE  0 < allocSize[b] /\ allocSize[b] <= AllocSize(origin[b])
  BY DEF BlocksFit
<1>1. PICK n \in Nat : n = allocSize[b] /\ n > 0
  BY DEF IInv, TypeOK, LiveOK
<1>2. CASE type[b] # None
  <2>1. origin[b] \in Pools /\ n = AllocSize(origin[b])
    BY <1>1, <1>2 DEF IInv, TypeOK, LiveOK, Pools
  <2> QED
    BY <1>1, <2>1
<1>3. CASE type[b] = None /\ n <= MAX_ALLOC_SIZE
  <2>1. origin[b] \in PoolSizes /\ origin[b] = poolTable[n]
    BY <1>1, <1>3 DEF IInv, LiveOK
  <2>2. origin[b] \in Pools /\ origin[b] \notin Types /\ n \in 0..MAX_ALLOC_SIZE
    <3>1. n \in 0..MAX_ALLOC_SIZE
      BY <1>3 DEF MAX_ALLOC_SIZE
    <3> QED
      BY <2>1, <3>1, PoolsAre DEF Pools
  <2>3. Serves(origin[b], n)
    BY <2>1, <2>2 DEF Serves
  <2> QED
    BY <1>1, <2>2, <2>3, ServesFits
<1>4. CASE type[b] = None /\ n > MAX_ALLOC_SIZE
  <2>1. origin[b] = n
    BY <1>1, <1>4 DEF IInv, LiveOK
  <2>2. AllocSize(n) = n
    BY PoolsAre
  <2> QED
    BY <1>1, <2>1, <2>2
<1> QED
  BY <1>1, <1>2, <1>3, <1>4 DEF MAX_ALLOC_SIZE

THEOREM BlocksFitRequest == Spec => []BlocksFit
BY Invariance, Fits, PTL

\* A block on a list was made by the list's pool, and is marked as free.
LEMMA Home == IInv => BlocksComeHome
<1> SUFFICES ASSUME IInv PROVE BlocksComeHome
  OBVIOUS
<1>1. ASSUME NEW p \in Pools, NEW i \in DOMAIN header[p] PROVE origin[header[p][i]] = p
  <2>1. header[p] \in Seq(Blocks)
    BY DEF IInv, TypeOK
  <2>2. i \in 1..Len(header[p])
    BY <2>1, LenProperties
  <2>3. header[p][i] \in Listed(p)
    BY <2>2 DEF Listed
  <2> QED
    BY <2>3 DEF IInv, HomeOK
<1> QED
  BY <1>1 DEF BlocksComeHome, IInv

THEOREM BlocksHome == Spec => []BlocksComeHome
BY Invariance, Home, PTL

\* When no thread is inside the allocator the counters are exact.
LEMMA Settle == IInv => CountersSettle
<1> SUFFICES ASSUME IInv, \A t \in Threads : pc[t] = Idle, NEW p \in Pools
             PROVE  /\ reservedCount[p] = Len(header[p])
                    /\ useCount[p] = Cardinality({b \in live : origin[b] = p})
  BY DEF CountersSettle
<1>1. Pushing(p) = {} /\ Popped(p) = {} /\ Pushed(p) = {}
  BY DEF Pushing, Popped, Pushed, Idle
<1>2. Cardinality({}) = 0 /\ Cardinality(InUse(p)) \in Nat /\ Len(header[p]) \in Nat
  BY CountStep, CountedFinite, FS_EmptySet, LenProperties DEF IInv, TypeOK
<1>3. CountAt(p)
  BY DEF IInv, CountsOK
<1>4. useCount[p] = Cardinality(InUse(p)) /\ reservedCount[p] = Len(header[p])
  <2> HIDE DEF Popped, Pushed, Pushing, InUse
  <2>1. useCount[p] = Cardinality(InUse(p)) + 0 /\ reservedCount[p] = Len(header[p]) + 0 - 0
    BY <1>1, <1>2, <1>3 DEF CountAt
  <2> QED
    BY <1>2, <2>1
<1> QED
  BY <1>4 DEF InUse

THEOREM CountersAgree == Spec => []CountersSettle
BY Invariance, Settle, PTL

\* The sizes from 3873 to MAX_ALLOC_SIZE are the only ones that reach an entry that was
\* never written: as long as no request is of one of them, its header included, no
\* request goes wrong.
THEOREM OnlyTheHole ==
    ASSUME \A size \in RequestSizes : size + HeaderSize \notin 3873..MAX_ALLOC_SIZE
    PROVE  Spec => []EverySizeHasPool
<1>1. ASSUME NEW t \in Threads, NEW size \in RequestSizes PROVE ~AllocateUndefined(t, size)
  <2> DEFINE n == size + HeaderSize
  <2>1. n \in Nat /\ n \notin 3873..MAX_ALLOC_SIZE
    BY SizesAssumption
  <2>2. AllocateUndefined(t, size) => n <= MAX_ALLOC_SIZE /\ poolTable[n] = NoPool
    BY DEF AllocateUndefined
  <2> HIDE DEF n
  <2>3. SUFFICES ASSUME n <= MAX_ALLOC_SIZE PROVE poolTable[n] # NoPool
    BY <2>2, Zenon
  <2>4. n \in 0..MAX_ALLOC_SIZE /\ n <= 3872
    BY <2>1, <2>3 DEF MAX_ALLOC_SIZE
  <2>5. poolTable[n] \in PoolSizes
    BY <2>4, TableExact
  <2> QED
    BY <2>5, LastPool DEF NoPool
<1>2. Init => EverySizeHasPool
  BY DEF Init, EverySizeHasPool
<1>3. EverySizeHasPool /\ [Next]_vars => EverySizeHasPool'
  <2> SUFFICES ASSUME EverySizeHasPool, [Next]_vars PROVE failed' # "undefined"
    BY DEF EverySizeHasPool
  <2>1. CASE UNCHANGED vars
    BY <2>1 DEF vars, EverySizeHasPool
  <2>2. ASSUME NEW t \in Threads, NEW size \in RequestSizes, AllocateLarge(t, size) \/ Allocate(t, size)
        PROVE  failed' # "undefined"
    <3>1. AllocateLarge(t, size) => failed' = failed
      BY DEF AllocateLarge
    <3>2. Allocate(t, size) => failed' = failed
      BY DEF Allocate, PopEntry
    <3> QED
      BY <2>2, <3>1, <3>2 DEF EverySizeHasPool
  <2>3. ASSUME NEW t \in Threads, NEW ty \in Types, ObjectPop(t, ty) PROVE failed' # "undefined"
    BY <2>3, Zenon DEF ObjectPop, PopEntry, EverySizeHasPool
  <2>4. ASSUME NEW t \in Threads, PopReserved(t) \/ PopNew(t) \/ PushEntry(t) \/ PushCount(t)
        PROVE  failed' # "undefined"
    <3>1. PopReserved(t) => failed' \in {"no", "assert"}
      BY DEF PopReserved
    <3>2. PopNew(t) \/ PushEntry(t) \/ PushCount(t) => failed' = failed
      BY Zenon DEF PopNew, PushEntry, PushCount
    <3> QED
      BY <2>4, <3>1, <3>2 DEF EverySizeHasPool
  <2>5. ASSUME NEW t \in Threads, NEW b \in Blocks, ReleaseLarge(t, b) \/ Release(t, b) \/ ObjectPush(t, b)
        PROVE  failed' # "undefined"
    <3>1. ReleaseLarge(t, b) => failed' = failed
      BY DEF ReleaseLarge
    <3>2. Release(t, b) \/ ObjectPush(t, b) => failed' = failed
      BY DEF Release, ObjectPush, Push
    <3> QED
      BY <2>5, <3>1, <3>2 DEF EverySizeHasPool
  <2> QED
    BY <1>1, <2>1, <2>2, <2>3, <2>4, <2>5 DEF Next
<1> QED
  BY <1>2, <1>3, PTL DEF Spec

\* A set without two different elements
LEMMA OneOrNone == ASSUME NEW S, \A x, y \in S : x = y
                   PROVE  Cardinality(S) = IF S = {} THEN 0 ELSE 1
<1>1. CASE S = {}
  BY <1>1, FS_EmptySet
<1>2. CASE S # {}
  <2>1. PICK x \in S : S = {x}
    BY <1>2
  <2> QED
    BY <2>1, FS_Singleton
<1> QED
  BY <1>1, <1>2

\* A list without repetition is no longer than there are blocks: every place on
\* it is among those that Entries looks at.
LEMMA ListBound ==
    ASSUME NEW s \in Seq(Blocks), \A i, k \in 1..Len(s) : s[i] = s[k] => i = k
    PROVE  Len(s) <= Cardinality(Blocks)
<1>1. PICK n \in Nat : n = Len(s)
  BY LenProperties
<1>2. Cardinality(1..n) = n /\ IsFiniteSet(1..n)
  <2>1. n \in Int /\ 1 \in Int /\ (IF 1 > n THEN 0 ELSE n - 1 + 1) = n
    BY <1>1
  <2>2. IsFiniteSet(1..n) /\ Cardinality(1..n) = IF 1 > n THEN 0 ELSE n - 1 + 1
    BY <2>1, FS_Interval
  <2> QED
    BY <2>1, <2>2
<1>3. \A i \in 1..n : s[i] \in Blocks
  BY <1>1, ElementOfSeq
<1>4. IsFiniteSet(Blocks) /\ Cardinality(Blocks) \in Nat
  BY MemoryFinite, FS_CardinalityType
<1>5. ASSUME n > Cardinality(Blocks) PROVE FALSE
  <2>1. PICK f \in [1..n -> Blocks] : \A i \in 1..n : f[i] = s[i]
    <3> DEFINE g == [i \in 1..n |-> s[i]]
    <3>1. g \in [1..n -> Blocks] /\ \A i \in 1..n : g[i] = s[i]
      BY <1>3
    <3> QED
      BY <3>1
  <2>2. \E i, k \in 1..n : i # k /\ f[i] = f[k]
    <3>1. PICK S : S = 1..n /\ Cardinality(S) = n /\ IsFiniteSet(S)
      BY <1>2
    <3>2. Cardinality(S) > Cardinality(Blocks) /\ f \in [S -> Blocks]
      BY <1>5, <2>1, <3>1
    <3> QED
      BY <1>4, <3>1, <3>2, FS_PigeonHole
  <2> QED
    BY <1>1, <2>1, <2>2
<1> QED
  BY <1>1, <1>4, <1>5

\* Whoever allocates and releases, a block that the operating system provided is
\* in one place: in use, on one list once, or with one thread.
LEMMA OnePlaceEach == IInv => NeverShared
<1> SUFFICES ASSUME IInv, NEW b \in Blocks
             PROVE  Places(b) = IF origin[b] = NoPool THEN 0 ELSE 1
  BY DEF NeverShared
<1> USE DEF IInv
<1>1. \A t, u \in Holders(b) : t = u
  BY DEF PlacesOK, Holders, Holds
<1>2. \A p \in Pools : \A i \in DOMAIN header[p] :
        /\ i \in 1..Len(header[p]) /\ i \in 1..Cardinality(Blocks)
        /\ \A k \in DOMAIN header[p] : header[p][i] = header[p][k] => i = k
  <2> SUFFICES ASSUME NEW p \in Pools
               PROVE  \A i \in DOMAIN header[p] :
                        /\ i \in 1..Len(header[p]) /\ i \in 1..Cardinality(Blocks)
                        /\ \A k \in DOMAIN header[p] : header[p][i] = header[p][k] => i = k
    OBVIOUS
  <2>1. PICK s \in Seq(Blocks) : s = header[p] /\ \A i, k \in 1..Len(s) : s[i] = s[k] => i = k
    BY DEF TypeOK, PlacesOK, ListedOnce
  <2>2. Len(s) <= Cardinality(Blocks) /\ Len(s) \in Nat /\ Cardinality(Blocks) \in Nat /\ DOMAIN s = 1..Len(s)
    BY <2>1, ListBound, LenProperties, MemoryFinite, FS_CardinalityType
  <2>3. \A i \in 1..Len(s) : i \in 1..Cardinality(Blocks)
    BY <2>2
  <2> QED
    BY <2>1, <2>2, <2>3
<1>3. /\ \A e \in Entries(b) : /\ e[1] \in Pools /\ e[2] \in DOMAIN header[e[1]] /\ e = <<e[1], e[2]>>
                               /\ header[e[1]][e[2]] = b
      /\ \A p \in Pools : \A i \in DOMAIN header[p] : header[p][i] = b => <<p, i>> \in Entries(b)
  BY <1>2 DEF Entries
<1>4. \A p \in Pools : b \in Listed(p) <=> \E i \in DOMAIN header[p] : header[p][i] = b
  <2>1. \A p \in Pools : DOMAIN header[p] = 1..Len(header[p])
    BY LenProperties DEF TypeOK
  <2> QED
    BY <2>1 DEF Listed
<1>5. \A e \in Entries(b) : e[1] \in Pools /\ b \in Listed(e[1]) /\ e[1] = origin[b]
  BY <1>3, <1>4 DEF HomeOK
<1>6. \A e, g \in Entries(b) : e = g
  <2> SUFFICES ASSUME NEW e \in Entries(b), NEW g \in Entries(b) PROVE e = g
    OBVIOUS
  <2>1. e[1] = g[1] /\ e[1] \in Pools
    BY <1>5
  <2>2. e[2] = g[2]
    BY <1>2, <1>3, <2>1
  <2> QED
    BY <1>3, <2>1, <2>2
<1>7. Entries(b) # {} <=> \E p \in Pools : b \in Listed(p)
  BY <1>3, <1>4, <1>5
<1>8. Holders(b) # {} <=> \E t \in Threads : Holds(t, b)
  BY DEF Holders, Holds
<1>9. /\ Cardinality(Entries(b)) = IF \E p \in Pools : b \in Listed(p) THEN 1 ELSE 0
      /\ Cardinality(Holders(b)) = IF \E t \in Threads : Holds(t, b) THEN 1 ELSE 0
  BY <1>1, <1>6, <1>7, <1>8, OneOrNone
<1>10. CASE origin[b] = NoPool
  <2>1. b \notin live /\ (\A p \in Pools : b \notin Listed(p)) /\ \A u \in Threads : ~Holds(u, b)
    BY <1>10, Obtained
  <2> QED
    BY <1>9, <1>10, <2>1 DEF Places
<1>11. CASE origin[b] # NoPool
  <2>1. /\ b \in live => (\A t \in Threads : ~Holds(t, b)) /\ \A p \in Pools : b \notin Listed(p)
        /\ ~((\E t \in Threads : Holds(t, b)) /\ \E p \in Pools : b \in Listed(p))
        /\ b \in live \/ (\E t \in Threads : Holds(t, b)) \/ \E p \in Pools : b \in Listed(p)
    BY <1>11 DEF PlacesOK
  <2> QED
    BY <1>9, <1>11, <2>1 DEF Places
<1> QED
  BY <1>10, <1>11

THEOREM BlocksNeverShared == Spec => []NeverShared
BY Invariance, OnePlaceEach, PTL
=============================================================================
