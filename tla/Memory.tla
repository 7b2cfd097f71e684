------------------------------- MODULE Memory -------------------------------
(***************************************************************************)
(* ServerCore's allocator: Memory maps a size to a MemoryPool through      *)
(* m_poolTable, a pool keeps the blocks that were released on a lock-free  *)
(* list (an SList of the operating system), and every block starts with a  *)
(* MemoryHeader whose allocSize names the pool it goes back to.  An        *)
(* ObjectPool is a MemoryPool of its own for one type, to which the object *)
(* goes back by its static type.  Any thread may release what another one  *)
(* allocated.                                                              *)
(***************************************************************************)
EXTENDS Integers, Sequences, FiniteSets

CONSTANTS
    Threads,
    Blocks,         \* bound: the blocks the operating system can provide
    None,
    RequestSizes,   \* the sizes that are asked for
    HeaderSize,     \* sizeof(MemoryHeader): 32
    Types,          \* the types that have an ObjectPool
    SizeOf          \* sizeof of each of them

ASSUME MemoryFinite == IsFiniteSet(Threads) /\ IsFiniteSet(Blocks)
ASSUME NoneIsNull == None \notin Blocks /\ None \notin Types
ASSUME SizesAssumption == /\ RequestSizes \subseteq Nat /\ HeaderSize \in Nat \ {0}
                          /\ SizeOf \in [Types -> Nat]
ASSUME TypesAssumption == \A ty \in Types : ty \notin Nat

MAX_ALLOC_SIZE == 4096

(* The constructor.  Each of its loops goes on with the size at which the  *)
(* one before it stopped.                                                  *)

Loop(first, last, step) == {size \in first..last : (size - first) % step = 0}
After(first, last, step) == first + ((last - first) \div step + 1) * step

Second == After(32, 1024, 32)
Third == After(Second, 2048, 128)

PoolSizes == Loop(32, 1024, 32) \cup Loop(Second, 2048, 128) \cup Loop(Third, 4096, 256)

\* m_poolTable: pool p is entered at every index up to p that is still free.
\* An index no loop reaches is never written.
NoPool == 0

\* Mutant of PoolsFor: a pool is entered at one index too many.
PoolsForOneMore(n) == {p \in PoolSizes : p >= n - 1}

PoolsFor(n) == {p \in PoolSizes : p >= n}

poolTable == [n \in 0..MAX_ALLOC_SIZE |->
    IF PoolsFor(n) = {} THEN NoPool ELSE CHOOSE p \in PoolsFor(n) : \A q \in PoolsFor(n) : p <= q]

Pools == PoolSizes \cup Types

\* m_allocSize of a pool; of an ObjectPool, s_allocSize
AllocSize(p) == IF p \in Types THEN SizeOf[p] + HeaderSize ELSE p

VARIABLES
    header,         \* m_header of every pool: its free blocks, newest first
    useCount, reservedCount,
    origin,         \* the pool whose block it is, its length if there is none, or
                    \* NoPool if the operating system has it
    allocSize,      \* the allocSize field of a block's MemoryHeader
    live,           \* the blocks in use by the program
    type,           \* and the type whose object it is, if that came from an ObjectPool
    pc,             \* where each thread is inside Pop or Push
    failed          \* "assert": ASSERT_CRASH; "undefined": a pool that was never set

vars == <<header, useCount, reservedCount, origin, allocSize, live, type, pc, failed>>

Idle == [at |-> "idle", pool |-> NoPool, block |-> None, size |-> 0]

Init ==
    /\ header = [p \in Pools |-> <<>>]
    /\ useCount = [p \in Pools |-> 0]
    /\ reservedCount = [p \in Pools |-> 0]
    /\ origin = [b \in Blocks |-> NoPool]
    /\ allocSize = [b \in Blocks |-> 0]
    /\ live = {}
    /\ type = [b \in Blocks |-> None]
    /\ pc = [t \in Threads |-> Idle]
    /\ failed = "no"

May(t) == failed = "no" /\ pc[t] = Idle

\* Bound: a request is made while the operating system has a block for it.
Obtainable == {b \in Blocks : origin[b] = NoPool}
Requests == {t \in Threads : pc[t].at = "popped" /\ pc[t].block = None}
CanRequest(t) == May(t) /\ Cardinality(Requests) < Cardinality(Obtainable)

\* Allocate of more than MAX_ALLOC_SIZE: _aligned_malloc, AttachHeader
AllocateLarge(t, size) == LET n == size + HeaderSize IN
    /\ CanRequest(t) /\ n > MAX_ALLOC_SIZE
    /\ \E b \in Obtainable :
         /\ origin' = [origin EXCEPT ![b] = n]
         /\ allocSize' = [allocSize EXCEPT ![b] = n]
         /\ live' = live \cup {b}
    /\ UNCHANGED <<header, useCount, reservedCount, type, pc, failed>>

\* Mutant of PopEntry: the entry stays on the list.
PopEntryPeeks(t, pool, n) ==
    /\ CanRequest(t)
    /\ pc' = [pc EXCEPT ![t] =
         [at |-> "popped", pool |-> pool, size |-> n,
          block |-> IF header[pool] = <<>> THEN None ELSE Head(header[pool])]]
    /\ UNCHANGED <<header, useCount, reservedCount, origin, allocSize, live, type, failed>>

\* Pop takes an entry from the pool's list, or gets null.
PopEntry(t, pool, n) == LET empty == header[pool] = <<>> IN
    /\ CanRequest(t)
    /\ header' = [header EXCEPT ![pool] = IF empty THEN @ ELSE Tail(@)]
    /\ pc' = [pc EXCEPT ![t] =
         [at |-> "popped", pool |-> pool, size |-> n,
          block |-> IF empty THEN None ELSE Head(header[pool])]]
    /\ UNCHANGED <<useCount, reservedCount, origin, allocSize, live, type, failed>>

Allocate(t, size) == LET n == size + HeaderSize IN
    /\ n <= MAX_ALLOC_SIZE /\ poolTable[n] # NoPool
    /\ PopEntry(t, poolTable[n], n)

\* Allocate of a size whose entry of m_poolTable was never written.
AllocateUndefined(t, size) == LET n == size + HeaderSize IN
    /\ CanRequest(t) /\ n <= MAX_ALLOC_SIZE
    /\ poolTable[n] = NoPool
    /\ failed' = "undefined"
    /\ UNCHANGED <<header, useCount, reservedCount, origin, allocSize, live, type, pc>>

\* ObjectPool<Type>::Pop
ObjectPop(t, ty) == PopEntry(t, ty, AllocSize(ty))

\* AttachHeader
Attach(t, b) ==
    /\ allocSize' = [allocSize EXCEPT ![b] = pc[t].size]
    /\ type' = [type EXCEPT ![b] = IF pc[t].pool \in Types THEN pc[t].pool ELSE None]
    /\ live' = live \cup {b}
    /\ pc' = [pc EXCEPT ![t] = Idle]

\* Mutant of PopReserved: reservedCount is not decremented.
PopReservedUncounted(t) == LET b == pc[t].block IN
    /\ failed = "no" /\ pc[t].at = "popped" /\ b # None
    /\ failed' = IF allocSize[b] = 0 THEN "no" ELSE "assert"
    /\ useCount' = [useCount EXCEPT ![pc[t].pool] = @ + 1]
    /\ Attach(t, b)
    /\ UNCHANGED <<header, reservedCount, origin>>

\* The rest of Pop, and AttachHeader: an entry of the list ...
PopReserved(t) == LET b == pc[t].block IN
    /\ failed = "no" /\ pc[t].at = "popped" /\ b # None
    /\ failed' = IF allocSize[b] = 0 THEN "no" ELSE "assert"
    /\ reservedCount' = [reservedCount EXCEPT ![pc[t].pool] = @ - 1]
    /\ useCount' = [useCount EXCEPT ![pc[t].pool] = @ + 1]
    /\ Attach(t, b)
    /\ UNCHANGED <<header, origin>>

\* ... or a block of the pool's size from the operating system.
PopNew(t) ==
    /\ failed = "no" /\ pc[t].at = "popped" /\ pc[t].block = None
    /\ \E b \in Obtainable :
         /\ origin' = [origin EXCEPT ![b] = pc[t].pool]
         /\ Attach(t, b)
    /\ useCount' = [useCount EXCEPT ![pc[t].pool] = @ + 1]
    /\ UNCHANGED <<header, reservedCount, failed>>

\* Release of a large block: _aligned_free
ReleaseLarge(t, b) ==
    /\ May(t) /\ b \in live /\ type[b] = None /\ allocSize[b] > MAX_ALLOC_SIZE
    /\ origin' = [origin EXCEPT ![b] = NoPool]
    /\ allocSize' = [allocSize EXCEPT ![b] = 0]
    /\ live' = live \ {b}
    /\ UNCHANGED <<header, useCount, reservedCount, type, pc, failed>>

\* The program gives a block up, and the pool's Push begins.
Push(t, b, pool) ==
    /\ May(t)
    /\ live' = live \ {b}
    /\ allocSize' = [allocSize EXCEPT ![b] = 0]
    /\ pc' = [pc EXCEPT ![t] = [at |-> "push", pool |-> pool, block |-> b, size |-> 0]]
    /\ UNCHANGED <<header, useCount, reservedCount, origin, type, failed>>

\* Release of what Allocate returned: its header names the pool.
Release(t, b) ==
    /\ b \in live /\ type[b] = None /\ allocSize[b] <= MAX_ALLOC_SIZE
    /\ Push(t, b, poolTable[allocSize[b]])

\* Mutant of ObjectPush: the object is released as what Allocate returned is.
ObjectPushRelease(t, b) ==
    /\ b \in live /\ type[b] # None
    /\ Push(t, b, poolTable[allocSize[b]])

\* ObjectPool<Type>::Push, the deleter of its MakeShared
ObjectPush(t, b) ==
    /\ b \in live /\ type[b] # None
    /\ Push(t, b, type[b])

\* InterlockedPushEntrySList, and then the counters
PushEntry(t) == LET p == pc[t].pool IN
    /\ failed = "no" /\ pc[t].at = "push"
    /\ header' = [header EXCEPT ![p] = <<pc[t].block>> \o @]
    /\ pc' = [pc EXCEPT ![t].at = "pushed"]
    /\ UNCHANGED <<useCount, reservedCount, origin, allocSize, live, type, failed>>

PushCount(t) == LET p == pc[t].pool IN
    /\ failed = "no" /\ pc[t].at = "pushed"
    /\ useCount' = [useCount EXCEPT ![p] = @ - 1]
    /\ reservedCount' = [reservedCount EXCEPT ![p] = @ + 1]
    /\ pc' = [pc EXCEPT ![t] = Idle]
    /\ UNCHANGED <<header, origin, allocSize, live, type, failed>>

Next == \E t \in Threads :
    \/ \E size \in RequestSizes :
         AllocateLarge(t, size) \/ Allocate(t, size) \/ AllocateUndefined(t, size)
    \/ \E ty \in Types : ObjectPop(t, ty)
    \/ PopReserved(t) \/ PopNew(t)
    \/ \E b \in Blocks : ReleaseLarge(t, b) \/ Release(t, b) \/ ObjectPush(t, b)
    \/ PushEntry(t) \/ PushCount(t)

Spec == Init /\ [][Next]_vars

-----------------------------------------------------------------------------
(* Properties                                                              *)

\* A block in use is as long as what was asked for, its header included.
BlocksFit == \A b \in live : 0 < allocSize[b] /\ allocSize[b] <= AllocSize(origin[b])

\* Where a block may be: in use, on one list once, or in the hands of a thread
\* inside Pop or Push; never in two places, whoever allocates and releases.
Entries(b) == {e \in Pools \X (1..Cardinality(Blocks)) :
    e[2] \in DOMAIN header[e[1]] /\ header[e[1]][e[2]] = b}
Holders(b) == {t \in Threads : pc[t].at \in {"popped", "push"} /\ pc[t].block = b}
Places(b) ==
    Cardinality(Entries(b)) + Cardinality(Holders(b)) + (IF b \in live THEN 1 ELSE 0)

NeverShared == \A b \in Blocks : Places(b) = IF origin[b] = NoPool THEN 0 ELSE 1

\* A block on a pool's list was made by that pool, however often it was allocated
\* for another size: allocSize, or the type of the object, led it back home.  It
\* is marked as free, or Pop's assertion would fail.
BlocksComeHome ==
    /\ \A p \in Pools : \A i \in DOMAIN header[p] : origin[header[p][i]] = p
    /\ failed # "assert"

\* The statistics of a pool agree with its blocks whenever no thread is inside
\* the allocator.
CountersSettle == (\A t \in Threads : pc[t] = Idle) =>
    \A p \in Pools :
        /\ reservedCount[p] = Len(header[p])
        /\ useCount[p] = Cardinality({b \in live : origin[b] = p})

\* Every size up to MAX_ALLOC_SIZE has a pool: sizes to 1024 in steps of 32, to
\* 2048 in steps of 128, to 4096 in steps of 256.
EverySizeHasPool == failed # "undefined"
=============================================================================
