----------------------------- MODULE Lock_proof -----------------------------
(***************************************************************************)
(* Proofs about Lock, for any finite set of threads and any nesting depth: *)
(* its counters count the guards, writers exclude everybody else, guards   *)
(* never reach the CRASH of an unlock, and the lock implements             *)
(* ReentrantLock.                                                          *)
(***************************************************************************)
EXTENDS Lock, FiniteSetTheorems, SequenceTheorems, TLAPS

Modes == {"R", "W"}

(***************************************************************************)
(* What the properties lack to be inductive: the thread the flag names is  *)
(* alone, a thread waiting to write or on its way in or out holds no       *)
(* guard, one waiting to read does not write, no write guard was taken     *)
(* after a read guard that is still alive, and a thread that waits for a   *)
(* guard has room for it (a fact about the bound MaxDepth).                *)
(***************************************************************************)
OwnerAlone == \A t, u \in Threads :
    lockFlag.owner = t /\ u # t => held[u] = <<>>

PcOK == \A t \in Threads :
    /\ pc[t] \in {"writeSpin", "writeGot", "writeStore"} => held[t] = <<>>
    /\ pc[t] \in {"readSpin", "readCas"} => ~Holds(t, "W")

Nested == \A t \in Threads : \A i, k \in DOMAIN held[t] :
    i < k /\ held[t][i] = "R" => held[t][k] = "R"

Bounded == \A t \in Threads : Len(held[t]) <= MaxDepth

RoomLeft == \A t \in Threads :
    pc[t] \in Waiting \cup {"writeGot"} => Len(held[t]) < MaxDepth

LockInv ==
    /\ TypeOK
    /\ Bounded
    /\ CountsGuards
    /\ OwnerAlone
    /\ PcOK
    /\ Nested
    /\ NoInvalidUnlock

IInv == LockInv /\ RoomLeft

-----------------------------------------------------------------------------
(* Guards, and what Push and Pop do to them. *)

\* There are finitely many guards, so they can be counted.
LEMMA GuardsFinite == \A m \in Modes : IsFiniteSet(Guards(m)) /\ Cardinality(Guards(m)) \in Nat
<1> TAKE m \in Modes
<1>1. IsFiniteSet(1..MaxDepth)
  BY DepthAssumption, FS_Interval
<1>2. IsFiniteSet(Threads \X (1..MaxDepth))
  BY <1>1, LockThreadsAssumption, FS_Product
<1>3. Guards(m) \subseteq Threads \X (1..MaxDepth)
  BY DEF Guards
<1>4. IsFiniteSet(Guards(m))
  BY <1>2, <1>3, FS_Subset
<1> QED
  BY <1>4, FS_CardinalityType

\* The same in the next state.
LEMMA GuardsFiniteNext == \A m \in Modes : IsFiniteSet(Guards(m)') /\ Cardinality(Guards(m)') \in Nat
<1> TAKE m \in Modes
<1>1. IsFiniteSet(1..MaxDepth)
  BY DepthAssumption, FS_Interval
<1>2. IsFiniteSet(Threads \X (1..MaxDepth))
  BY <1>1, LockThreadsAssumption, FS_Product
<1>3. Guards(m)' \subseteq Threads \X (1..MaxDepth)
  BY DEF Guards
<1>4. IsFiniteSet(Guards(m)')
  BY <1>2, <1>3, FS_Subset
<1> QED
  BY <1>4, FS_CardinalityType

\* A new guard: the count of its mode grows by one, nothing else changes.
LEMMA PushEffect ==
    ASSUME TypeOK, Bounded, NEW t \in Threads, NEW m \in Modes,
           Len(held[t]) < MaxDepth, Push(t, m)
    PROVE  /\ held' \in [Threads -> Seq(Modes)]
           /\ \A u \in Threads \ {t} : held'[u] = held[u]
           /\ Len(held'[t]) <= MaxDepth
           /\ \A n \in Modes : Holds(t, n)' <=> n = m \/ Holds(t, n)
           /\ Cardinality(Guards(m)') = Cardinality(Guards(m)) + 1
           /\ \A n \in Modes \ {m} : Cardinality(Guards(n)') = Cardinality(Guards(n))
<1> DEFINE k == Len(held[t]) + 1
<1>1. held \in [Threads -> Seq(Modes)] /\ held[t] \in Seq(Modes) /\ k \in 1..MaxDepth
  BY DepthAssumption DEF TypeOK, Modes
<1>2. held' = [held EXCEPT ![t] = Append(held[t], m)]
  BY DEF Push
<1>3. /\ Append(held[t], m) \in Seq(Modes)
      /\ DOMAIN Append(held[t], m) = DOMAIN held[t] \cup {k}
      /\ Len(Append(held[t], m)) = k
      /\ k \notin DOMAIN held[t]
      /\ Append(held[t], m)[k] = m
      /\ \A i \in DOMAIN held[t] : Append(held[t], m)[i] = held[t][i]
  BY <1>1
<1>4. /\ held' \in [Threads -> Seq(Modes)]
      /\ \A u \in Threads \ {t} : held'[u] = held[u]
      /\ held'[t] = Append(held[t], m)
  BY <1>1, <1>2, <1>3
<1> HIDE DEF k
<1>5. Guards(m)' = Guards(m) \cup {<<t, k>>} /\ <<t, k>> \notin Guards(m)
  <2>1. ASSUME NEW g \in Threads \X (1..MaxDepth)
        PROVE  g[2] \in DOMAIN held'[g[1]] /\ held'[g[1]][g[2]] = m
                 <=> g = <<t, k>> \/ (g[2] \in DOMAIN held[g[1]] /\ held[g[1]][g[2]] = m)
    BY <1>3, <1>4
  <2> QED
    BY <1>1, <1>3, <2>1 DEF Guards
<1>6. ASSUME NEW n \in Modes \ {m}
      PROVE  Guards(n)' = Guards(n)
  <2>1. ASSUME NEW g \in Threads \X (1..MaxDepth)
        PROVE  g[2] \in DOMAIN held'[g[1]] /\ held'[g[1]][g[2]] = n
                 <=> g[2] \in DOMAIN held[g[1]] /\ held[g[1]][g[2]] = n
    BY <1>3, <1>4
  <2> QED
    BY <2>1 DEF Guards
<1>7. Cardinality(Guards(m)') = Cardinality(Guards(m)) + 1
  BY <1>5, GuardsFinite, FS_AddElement
<1>8. \A n \in Modes : Holds(t, n)' <=> n = m \/ Holds(t, n)
  BY <1>3, <1>4 DEF Holds
<1> QED
  BY <1>1, <1>3, <1>4, <1>6, <1>7, <1>8 DEF k

\* A sequence without its last element.
LEMMA DropLast ==
    ASSUME NEW S, NEW s \in Seq(S), s # <<>>
    PROVE  /\ Len(s) \in Nat \ {0}
           /\ SubSeq(s, 1, Len(s) - 1) \in Seq(S)
           /\ Len(SubSeq(s, 1, Len(s) - 1)) = Len(s) - 1
           /\ \A i \in 1..(Len(s) - 1) : SubSeq(s, 1, Len(s) - 1)[i] = s[i]
<1>1. Len(s) \in Nat \ {0}
  BY EmptySeq
<1> DEFINE n == Len(s) - 1
<1>2. n \in Nat /\ \A i \in 1..n : s[i] \in S
  BY <1>1
<1> HIDE DEF n
<1>3. /\ SubSeq(s, 1, n) \in Seq(S)
      /\ Len(SubSeq(s, 1, n)) = IF 1 <= n THEN n - 1 + 1 ELSE 0
      /\ \A i \in 1..(n - 1 + 1) : SubSeq(s, 1, n)[i] = s[1 + i - 1]
  BY <1>2, SubSeqProperties
<1>4. Len(SubSeq(s, 1, n)) = n
  BY <1>2, <1>3
<1>5. \A i \in 1..n : SubSeq(s, 1, n)[i] = s[i]
  BY <1>2, <1>3
<1> QED
  BY <1>1, <1>3, <1>4, <1>5 DEF n

\* The newest guard goes: the count of its mode shrinks by one.
LEMMA PopEffect ==
    ASSUME TypeOK, Bounded, NEW t \in Threads, held[t] # <<>>, Pop(t),
           NEW m \in Modes, Newest(t) = m
    PROVE  /\ held' \in [Threads -> Seq(Modes)]
           /\ \A u \in Threads \ {t} : held'[u] = held[u]
           /\ Len(held'[t]) <= MaxDepth
           /\ DOMAIN held'[t] \subseteq DOMAIN held[t]
           /\ \A i \in DOMAIN held'[t] : held'[t][i] = held[t][i]
           /\ Holds(t, m)
           /\ \A n \in Modes \ {m} : Holds(t, n)' <=> Holds(t, n)
           /\ Cardinality(Guards(m)') = Cardinality(Guards(m)) - 1
           /\ \A n \in Modes \ {m} : Cardinality(Guards(n)') = Cardinality(Guards(n))
<1>1. held \in [Threads -> Seq(Modes)] /\ held[t] \in Seq(Modes)
  BY DEF TypeOK, Modes
<1> DEFINE s == SubSeq(held[t], 1, Len(held[t]) - 1)
<1>2. /\ Len(held[t]) \in 1..MaxDepth
      /\ s \in Seq(Modes)
      /\ Len(s) = Len(held[t]) - 1
      /\ \A i \in 1..(Len(held[t]) - 1) : s[i] = held[t][i]
  BY <1>1, DropLast, DepthAssumption DEF Bounded
<1>3. held' = [held EXCEPT ![t] = s]
  BY DEF Pop
<1>4. PICK k \in 1..MaxDepth : k = Len(held[t])
  BY <1>2
<1>5. m = held[t][k]
  BY <1>4 DEF Newest
<1>6. /\ DOMAIN held[t] = 1..k
      /\ DOMAIN s = 1..(k - 1)
      /\ \A i \in 1..(k - 1) : s[i] = held[t][i]
      /\ k \in 1..k /\ k \notin 1..(k - 1) /\ 1..(k - 1) = (1..k) \ {k}
  BY <1>1, <1>2, <1>4, DepthAssumption, LenProperties
<1>7. /\ held' \in [Threads -> Seq(Modes)]
      /\ \A u \in Threads \ {t} : held'[u] = held[u]
      /\ held'[t] = s
  BY <1>1, <1>2, <1>3
<1>8. Len(held'[t]) <= MaxDepth
  BY <1>2, <1>7, DepthAssumption
<1> HIDE DEF s
<1>10. Guards(m)' = Guards(m) \ {<<t, k>>} /\ <<t, k>> \in Guards(m)
  <2>1. ASSUME NEW g \in Threads \X (1..MaxDepth)
        PROVE  g[2] \in DOMAIN held'[g[1]] /\ held'[g[1]][g[2]] = m
                 <=> g # <<t, k>> /\ g[2] \in DOMAIN held[g[1]] /\ held[g[1]][g[2]] = m
    BY <1>5, <1>6, <1>7
  <2> QED
    BY <1>5, <1>6, <2>1 DEF Guards
<1>11. \A n \in Modes \ {m} : Guards(n)' = Guards(n)
  <2>1. ASSUME NEW n \in Modes \ {m}, NEW g \in Threads \X (1..MaxDepth)
        PROVE  g[2] \in DOMAIN held'[g[1]] /\ held'[g[1]][g[2]] = n
                 <=> g[2] \in DOMAIN held[g[1]] /\ held[g[1]][g[2]] = n
    BY <1>5, <1>6, <1>7
  <2> QED
    BY <2>1 DEF Guards
<1>12. Holds(t, m) /\ \A n \in Modes \ {m} : Holds(t, n)' <=> Holds(t, n)
  BY <1>5, <1>6, <1>7 DEF Holds
<1>13. Cardinality(Guards(m)') = Cardinality(Guards(m)) - 1
  BY <1>10, GuardsFinite, FS_RemoveElement
<1>14. DOMAIN held'[t] \subseteq DOMAIN held[t] /\ \A i \in DOMAIN held'[t] : held'[t][i] = held[t][i]
  BY <1>6, <1>7
<1> QED
  BY <1>7, <1>8, <1>11, <1>12, <1>13, <1>14

\* A count is zero when nobody holds a guard of that mode, and only then.
LEMMA NoGuards == ASSUME TypeOK, Bounded, NEW m \in Modes
    PROVE  Cardinality(Guards(m)) = 0 <=> \A t \in Threads : ~Holds(t, m)
<1>1. ASSUME NEW t \in Threads
      PROVE  DOMAIN held[t] \subseteq 1..MaxDepth
  <2>1. held[t] \in Seq(Modes) /\ Len(held[t]) \in Nat /\ Len(held[t]) <= MaxDepth
    BY DEF TypeOK, Bounded, Modes
  <2>2. PICK n \in Nat : n = Len(held[t])
    BY <2>1
  <2>3. DOMAIN held[t] = 1..n /\ n <= MaxDepth
    BY <2>1, <2>2, LenProperties
  <2> QED
    BY <2>3, DepthAssumption
<1>2. Guards(m) = {} <=> \A t \in Threads : ~Holds(t, m)
  <2>1. ASSUME NEW g \in Guards(m)
        PROVE  g[1] \in Threads /\ Holds(g[1], m)
    BY DEF Guards, Holds
  <2>2. ASSUME NEW t \in Threads, Holds(t, m)
        PROVE  Guards(m) # {}
    <3>1. PICK i \in DOMAIN held[t] : held[t][i] = m
      BY <2>2 DEF Holds
    <3>2. <<t, i>> \in Guards(m)
      BY <1>1, <3>1 DEF Guards
    <3> QED
      BY <3>2
  <2> QED
    BY <2>1, <2>2
<1> QED
  BY <1>2, GuardsFinite, FS_EmptySet

\* The same in the next state.
LEMMA NoGuardsNext == ASSUME TypeOK', Bounded', NEW m \in Modes
    PROVE  Cardinality(Guards(m)') = 0 <=> \A t \in Threads : ~Holds(t, m)'
<1>1. ASSUME NEW t \in Threads
      PROVE  DOMAIN held'[t] \subseteq 1..MaxDepth
  <2>1. held'[t] \in Seq(Modes) /\ Len(held'[t]) \in Nat /\ Len(held'[t]) <= MaxDepth
    BY DEF TypeOK, Bounded, Modes
  <2>2. PICK n \in Nat : n = Len(held'[t])
    BY <2>1
  <2>3. DOMAIN held'[t] = 1..n /\ n <= MaxDepth
    BY <2>1, <2>2, LenProperties
  <2> QED
    BY <2>3, DepthAssumption
<1>2. Guards(m)' = {} <=> \A t \in Threads : ~Holds(t, m)'
  <2>1. ASSUME NEW g \in Guards(m)'
        PROVE  g[1] \in Threads /\ Holds(g[1], m)'
    BY DEF Guards, Holds
  <2>2. ASSUME NEW t \in Threads, Holds(t, m)'
        PROVE  Guards(m)' # {}
    <3>1. PICK i \in DOMAIN held'[t] : held'[t][i] = m
      BY <2>2 DEF Holds
    <3>2. <<t, i>> \in Guards(m)'
      BY <1>1, <3>1 DEF Guards
    <3> QED
      BY <3>2
  <2> QED
    BY <2>1, <2>2
<1> QED
  BY <1>2, GuardsFiniteNext, FS_EmptySet

-----------------------------------------------------------------------------
(* The inductive invariant. *)

\* No guard is alive at the start.
LEMMA InitInv == Init => LockInv
<1> SUFFICES ASSUME Init PROVE LockInv
  OBVIOUS
<1>1. TypeOK /\ Bounded
  BY LockThreadsAssumption, DepthAssumption DEF Init, TypeOK, Bounded, EMPTY_FLAG
<1>2. \A t \in Threads, m \in Modes : ~Holds(t, m)
  BY DEF Init, Holds
<1>3. Cardinality(Guards("R")) = 0 /\ Cardinality(Guards("W")) = 0
  BY <1>1, <1>2, NoGuards DEF Modes
<1>4. CountsGuards
  BY <1>2, <1>3, LockThreadsAssumption DEF CountsGuards, Init, EMPTY_FLAG, Modes
<1>5. OwnerAlone /\ PcOK /\ NoInvalidUnlock
  BY LockThreadsAssumption DEF OwnerAlone, PcOK, NoInvalidUnlock, Init
<1>6. Nested
  BY <1>2 DEF Nested, Holds, Modes
<1> QED
  BY <1>1, <1>4, <1>5, <1>6 DEF LockInv

\* A step that takes a guard.  The thread that takes it knows that nobody else
\* holds anything (to write) or that nobody else writes (to read), and takes no
\* write guard over a read guard.
LEMMA PushInv ==
    ASSUME LockInv, NEW t \in Threads, NEW m \in Modes,
           Len(held[t]) < MaxDepth, Push(t, m), crashed' = crashed,
           lockFlag' \in [owner : Threads \cup {None}, readers : Nat],
           writeCount' \in Int,
           pc' = [pc EXCEPT ![t] = "idle"],
           expected' = expected,
           lockFlag'.owner = lockFlag.owner,
           m = "W" => lockFlag.owner = t /\ ~Holds(t, "R"),
           lockFlag.owner \in {t, None},
           pc[t] = "writeGot" => m = "W",
           pc[t] # "writeStore",
           lockFlag'.readers = IF m = "R" THEN lockFlag.readers + 1 ELSE lockFlag.readers,
           writeCount' = IF m = "W" THEN writeCount + 1 ELSE writeCount
    PROVE  LockInv'
<1>1. TypeOK /\ Bounded /\ CountsGuards /\ OwnerAlone /\ PcOK /\ Nested /\ NoInvalidUnlock
  BY DEF LockInv
<1>2. /\ held' \in [Threads -> Seq(Modes)]
      /\ \A u \in Threads \ {t} : held'[u] = held[u]
      /\ Len(held'[t]) <= MaxDepth
      /\ \A n \in Modes : Holds(t, n)' <=> n = m \/ Holds(t, n)
      /\ Cardinality(Guards(m)') = Cardinality(Guards(m)) + 1
      /\ \A n \in Modes \ {m} : Cardinality(Guards(n)') = Cardinality(Guards(n))
  BY <1>1, PushEffect
<1>3. TypeOK' /\ Bounded'
  BY <1>1, <1>2 DEF TypeOK, Bounded, Modes, Waiting
<1>4. \A u \in Threads \ {t}, n \in Modes : Holds(u, n)' <=> Holds(u, n)
  BY <1>2 DEF Holds
<1>5. pc \in [Threads -> Waiting \cup {"idle", "writeGot", "writeStore"}]
  BY <1>1 DEF TypeOK
<1>6. CountsGuards'
  <2>1. lockFlag'.readers = Cardinality(Guards("R")') /\ writeCount' = Cardinality(Guards("W")')
    BY <1>1, <1>2 DEF CountsGuards, Modes
  <2>2. ASSUME NEW u \in Threads
        PROVE  lockFlag'.owner = u <=> Holds(u, "W")' \/ pc'[u] \in {"writeGot", "writeStore"}
    <3>1. lockFlag.owner = u <=> Holds(u, "W") \/ pc[u] \in {"writeGot", "writeStore"}
      BY <1>1 DEF CountsGuards
    <3>2. CASE u = t
      BY <1>2, <1>5, <3>1, <3>2 DEF Modes
    <3>3. CASE u # t
      BY <1>4, <1>5, <3>1, <3>3 DEF Modes
    <3> QED
      BY <3>2, <3>3
  <2> QED
    BY <2>1, <2>2 DEF CountsGuards
<1>7. OwnerAlone'
  BY <1>1, <1>2, LockThreadsAssumption DEF OwnerAlone
<1>8. PcOK'
  <2>1. ASSUME NEW u \in Threads
        PROVE  /\ pc'[u] \in {"writeSpin", "writeGot", "writeStore"} => held'[u] = <<>>
               /\ pc'[u] \in {"readSpin", "readCas"} => ~Holds(u, "W")'
    <3>1. CASE u = t
      BY <1>5, <3>1
    <3>2. CASE u # t
      BY <1>1, <1>2, <1>4, <1>5, <3>2 DEF PcOK, Modes
    <3> QED
      BY <3>1, <3>2
  <2> QED
    BY <2>1 DEF PcOK
<1>9. Nested'
  <2>1. CASE m = "W"
    <3>1. \A i \in DOMAIN held'[t] : held'[t][i] # "R"
      BY <1>2, <2>1 DEF Modes, Holds
    <3>2. ASSUME NEW u \in Threads, NEW i \in DOMAIN held'[u], NEW j \in DOMAIN held'[u],
                 i < j, held'[u][i] = "R"
          PROVE  held'[u][j] = "R"
      <4>1. u # t
        BY <3>1, <3>2
      <4>2. held'[u] = held[u]
        BY <1>2, <4>1
      <4>3. \A a, b \in DOMAIN held[u] : a < b /\ held[u][a] = "R" => held[u][b] = "R"
        BY <1>1 DEF Nested
      <4> QED
        BY <3>2, <4>2, <4>3
    <3> QED
      BY <3>2 DEF Nested
  <2>2. CASE m = "R"
    <3>1. held'[t] = Append(held[t], "R") /\ held[t] \in Seq(Modes)
      BY <1>1, <2>2 DEF Push, TypeOK, Modes
    <3>2. PICK k \in Nat : k = Len(held[t])
      BY <3>1
    <3>3. /\ DOMAIN held'[t] = 1..(k + 1) /\ DOMAIN held[t] = 1..k
          /\ held'[t][k + 1] = "R"
          /\ \A i \in 1..k : held'[t][i] = held[t][i]
      BY <3>1, <3>2
    <3>4. ASSUME NEW i \in 1..(k + 1), NEW j \in 1..(k + 1), i < j, held'[t][i] = "R"
          PROVE  held'[t][j] = "R"
      <4>1. CASE j = k + 1
        BY <3>3, <4>1
      <4>2. CASE j # k + 1
        <5>1. i \in 1..k /\ j \in 1..k
          BY <3>2, <3>4, <4>2
        <5>2. \A a, b \in DOMAIN held[t] : a < b /\ held[t][a] = "R" => held[t][b] = "R"
          BY <1>1 DEF Nested
        <5> QED
          BY <3>3, <3>4, <5>1, <5>2
      <4> QED
        BY <4>1, <4>2
    <3>5. \A i, j \in DOMAIN held'[t] : i < j /\ held'[t][i] = "R" => held'[t][j] = "R"
      BY <3>3, <3>4
    <3>6. \A u \in Threads \ {t} : held'[u] = held[u]
      BY <1>2
    <3>7. \A u \in Threads \ {t} : \A i, j \in DOMAIN held'[u] :
            i < j /\ held'[u][i] = "R" => held'[u][j] = "R"
      BY <1>1, <3>6 DEF Nested
    <3> QED
      BY <3>5, <3>7 DEF Nested
  <2> QED
    BY <2>1, <2>2 DEF Modes
<1> QED
  BY <1>1, <1>3, <1>6, <1>7, <1>8, <1>9 DEF LockInv, NoInvalidUnlock

\* A thread that holds no guard of either mode holds none.
LEMMA EmptyStack ==
    ASSUME NEW s \in Seq(Modes), \A i \in DOMAIN s : s[i] # "R" /\ s[i] # "W"
    PROVE  s = <<>>
<1>1. ~(1 \in DOMAIN s)
  BY ElementOfSeq DEF Modes
<1> QED
  BY <1>1, EmptySeq, LenProperties

\* The same of a thread's guards.
LEMMA HoldsNothing ==
    ASSUME TypeOK, NEW t \in Threads, ~Holds(t, "R"), ~Holds(t, "W")
    PROVE  held[t] = <<>>
BY EmptyStack DEF TypeOK, Modes, Holds

\* The newest guard of a thread that holds one.
LEMMA NewestHeld == ASSUME TypeOK, NEW t \in Threads, held[t] # <<>>
    PROVE  Newest(t) \in Modes /\ Holds(t, Newest(t))
<1>1. held[t] \in Seq(Modes) /\ Len(held[t]) \in DOMAIN held[t]
  BY EmptySeq, LenProperties DEF TypeOK, Modes
<1> QED
  BY <1>1, ElementOfSeq, LenProperties DEF Newest, Holds

\* Below a write guard there are only write guards.
LEMMA OnlyWrites ==
    ASSUME TypeOK, Nested, NEW t \in Threads, held[t] # <<>>, Newest(t) = "W"
    PROVE  ~Holds(t, "R")
<1>1. PICK k \in Nat : k = Len(held[t]) /\ k \in DOMAIN held[t] /\ DOMAIN held[t] = 1..k
  BY EmptySeq, LenProperties DEF TypeOK, Modes
<1>2. held[t][k] = "W"
  BY <1>1 DEF Newest
<1>3. ASSUME NEW i \in DOMAIN held[t], held[t][i] = "R"
      PROVE  FALSE
  <2>1. i < k
    BY <1>1, <1>2, <1>3
  <2> QED
    BY <1>1, <1>2, <1>3, <2>1 DEF Nested
<1> QED
  BY <1>3 DEF Holds

\* The thread that writes, enters or leaves is the only one that holds guards.
LEMMA WriterAlone ==
    ASSUME LockInv, NEW t \in Threads, Holds(t, "W") \/ pc[t] \in {"writeGot", "writeStore"}
    PROVE  lockFlag.owner = t /\ \A u \in Threads \ {t} : held[u] = <<>>
BY DEF LockInv, CountsGuards, OwnerAlone

\* The checks of the two unlocks never fail.
LEMMA NoCrash == ASSUME LockInv, NEW t \in Threads, held[t] # <<>>
    PROVE  /\ Newest(t) = "W" => lockFlag.readers = 0
           /\ Newest(t) = "R" => lockFlag.readers # 0
<1>1. TypeOK /\ Bounded /\ Nested /\ CountsGuards
  BY DEF LockInv
<1>2. Newest(t) \in Modes /\ Holds(t, Newest(t))
  BY <1>1, NewestHeld
<1>3. ASSUME Newest(t) = "W" PROVE lockFlag.readers = 0
  <2>1. \A u \in Threads \ {t} : held[u] = <<>>
    BY <1>2, <1>3, WriterAlone
  <2>2. \A u \in Threads : ~Holds(u, "R")
    BY <1>1, <1>3, <2>1, OnlyWrites DEF Holds
  <2> QED
    BY <1>1, <2>2, NoGuards DEF CountsGuards, Modes
<1>4. ASSUME Newest(t) = "R" PROVE lockFlag.readers # 0
  BY <1>1, <1>2, <1>4, NoGuards DEF CountsGuards, Modes
<1> QED
  BY <1>3, <1>4

\* A step that leaves the guards, the counters and the owner alone, and sends
\* a thread that qualifies to spin.
LEMMA SpinInv ==
    ASSUME LockInv, NEW t \in Threads, NEW to \in Waiting,
           held' = held, lockFlag' = lockFlag, writeCount' = writeCount,
           crashed' = crashed, expected' \in [Threads -> Nat],
           pc' = [pc EXCEPT ![t] = to],
           pc[t] \notin {"writeGot", "writeStore"},
           to = "writeSpin" => held[t] = <<>>,
           to # "writeSpin" => ~Holds(t, "W")
    PROVE  LockInv'
<1>1. TypeOK /\ Bounded /\ CountsGuards /\ OwnerAlone /\ PcOK /\ Nested /\ NoInvalidUnlock
  BY DEF LockInv
<1>2. pc \in [Threads -> Waiting \cup {"idle", "writeGot", "writeStore"}]
  BY <1>1 DEF TypeOK
<1>3. TypeOK' /\ Bounded' /\ OwnerAlone' /\ Nested' /\ NoInvalidUnlock'
  BY <1>1 DEF TypeOK, Bounded, OwnerAlone, Nested, NoInvalidUnlock
<1>4. \A u \in Threads, m \in Modes : Holds(u, m)' <=> Holds(u, m)
  BY DEF Holds
<1>5. CountsGuards'
  <2>1. \A m \in Modes : Guards(m)' = Guards(m)
    BY DEF Guards
  <2>2. lockFlag'.readers = Cardinality(Guards("R")') /\ writeCount' = Cardinality(Guards("W")')
    BY <1>1, <2>1 DEF CountsGuards, Modes
  <2>3. ASSUME NEW u \in Threads
        PROVE  pc'[u] \in {"writeGot", "writeStore"} <=> pc[u] \in {"writeGot", "writeStore"}
    BY <1>2 DEF Waiting
  <2> QED
    BY <1>1, <1>4, <2>2, <2>3 DEF CountsGuards, Modes
<1>6. PcOK'
  BY <1>1, <1>2, <1>4 DEF PcOK, Waiting, Modes
<1> QED
  BY <1>3, <1>5, <1>6, <1>1 DEF LockInv

\* The compare-and-exchange of WriteLock: an empty flag means that no guard is
\* alive, so the thread that replaces it is alone.
LEMMA CasInv == ASSUME LockInv, NEW t \in Threads, WriteLockCas(t) PROVE LockInv'
<1>1. TypeOK /\ Bounded /\ CountsGuards /\ OwnerAlone /\ PcOK /\ Nested /\ NoInvalidUnlock
  BY DEF LockInv
<1>2. /\ lockFlag.owner = None /\ lockFlag.readers = 0
      /\ lockFlag'.owner = t /\ lockFlag'.readers = 0
      /\ UNCHANGED <<writeCount, expected, held, crashed>>
      /\ pc' = [pc EXCEPT ![t] = "writeGot"]
  BY DEF WriteLockCas, EMPTY_FLAG, Goto
<1>3. pc \in [Threads -> Waiting \cup {"idle", "writeGot", "writeStore"}]
  BY <1>1 DEF TypeOK
<1>4. TypeOK' /\ Bounded' /\ Nested' /\ NoInvalidUnlock'
  BY <1>1, <1>2 DEF TypeOK, Bounded, Nested, NoInvalidUnlock, WriteLockCas
<1>5. ASSUME NEW u \in Threads
      PROVE  ~Holds(u, "W") /\ pc[u] \notin {"writeGot", "writeStore"} /\ held[u] = <<>>
  <2>1. ~Holds(u, "W") /\ pc[u] \notin {"writeGot", "writeStore"}
    BY <1>1, <1>2, LockThreadsAssumption DEF CountsGuards
  <2>2. ~Holds(u, "R")
    BY <1>1, <1>2, NoGuards DEF CountsGuards, Modes
  <2> QED
    BY <1>1, <2>1, <2>2, HoldsNothing
<1>6. \A u \in Threads : ~Holds(u, "W")'
  BY <1>2, <1>5 DEF Holds
<1>7. CountsGuards'
  <2>1. \A m \in Modes : Guards(m)' = Guards(m)
    BY <1>2 DEF Guards
  <2>2. lockFlag'.readers = Cardinality(Guards("R")') /\ writeCount' = Cardinality(Guards("W")')
    BY <1>1, <1>2, <2>1 DEF CountsGuards, Modes
  <2>3. \A u \in Threads : lockFlag'.owner = u <=> pc'[u] \in {"writeGot", "writeStore"}
    BY <1>2, <1>3, <1>5
  <2> QED
    BY <1>6, <2>2, <2>3 DEF CountsGuards
<1>8. OwnerAlone' /\ PcOK'
  BY <1>2, <1>5, <1>6 DEF OwnerAlone, PcOK
<1> QED
  BY <1>4, <1>7, <1>8 DEF LockInv

\* The store that ends the last write guard: the thread holds nothing by then.
LEMMA StoreInv == ASSUME LockInv, NEW t \in Threads, WriteUnlockStore(t) PROVE LockInv'
<1>1. TypeOK /\ Bounded /\ CountsGuards /\ OwnerAlone /\ PcOK /\ Nested /\ NoInvalidUnlock
  BY DEF LockInv
<1>2. /\ lockFlag'.owner = None /\ lockFlag'.readers = 0
      /\ lockFlag' \in [owner : Threads \cup {None}, readers : Nat]
      /\ UNCHANGED <<writeCount, expected, held, crashed>>
      /\ pc' = [pc EXCEPT ![t] = "idle"]
  BY DEF WriteUnlockStore, EMPTY_FLAG, Goto
<1>3. pc \in [Threads -> Waiting \cup {"idle", "writeGot", "writeStore"}] /\ pc[t] = "writeStore"
  BY <1>1 DEF TypeOK, WriteUnlockStore
<1>4. TypeOK' /\ Bounded' /\ Nested' /\ NoInvalidUnlock'
  BY <1>1, <1>2 DEF TypeOK, Bounded, Nested, NoInvalidUnlock
<1>5. lockFlag.owner = t /\ \A u \in Threads : held[u] = <<>>
  BY <1>1, <1>3, WriterAlone DEF PcOK
<1>6. \A u \in Threads, m \in Modes : ~Holds(u, m)'
  BY <1>2, <1>5 DEF Holds
<1>7. CountsGuards'
  <2>1. Cardinality(Guards("R")') = 0 /\ Guards("W")' = Guards("W")
    BY <1>2, <1>4, <1>6, NoGuardsNext DEF Guards, Modes
  <2>2. \A u \in Threads : pc'[u] \notin {"writeGot", "writeStore"}
    BY <1>1, <1>2, <1>3, <1>5 DEF CountsGuards
  <2> QED
    BY <1>1, <1>2, <1>6, <2>1, <2>2, LockThreadsAssumption DEF CountsGuards, Modes
<1>8. OwnerAlone' /\ PcOK'
  BY <1>2, <1>5, <1>6 DEF OwnerAlone, PcOK, Modes
<1> QED
  BY <1>4, <1>7, <1>8 DEF LockInv

\* What both unlocks do to the guards.
LEMMA PopKeeps ==
    ASSUME LockInv, NEW t \in Threads, held[t] # <<>>, Pop(t),
           NEW m \in Modes, Newest(t) = m
    PROVE  Nested' /\ Bounded' /\ \A u \in Threads, n \in Modes : Holds(u, n)' => Holds(u, n)
<1>1. TypeOK /\ Bounded /\ Nested
  BY DEF LockInv
<1>2. /\ \A u \in Threads \ {t} : held'[u] = held[u]
      /\ DOMAIN held'[t] \subseteq DOMAIN held[t]
      /\ \A i \in DOMAIN held'[t] : held'[t][i] = held[t][i]
      /\ Len(held'[t]) <= MaxDepth
  BY <1>1, PopEffect
<1>3. ASSUME NEW u \in Threads
      PROVE  /\ DOMAIN held'[u] \subseteq DOMAIN held[u]
             /\ \A i \in DOMAIN held'[u] : held'[u][i] = held[u][i]
  BY <1>2
<1>4. Nested'
  BY <1>1, <1>3 DEF Nested
<1>5. Bounded'
  BY <1>1, <1>2 DEF Bounded
<1> QED
  BY <1>3, <1>4, <1>5 DEF Holds

\* WriteUnlock counts a write guard out and keeps the flag for the others.
LEMMA WriteUnlockInv == ASSUME LockInv, NEW t \in Threads, WriteUnlock(t) PROVE LockInv'
<1>1. TypeOK /\ Bounded /\ CountsGuards /\ OwnerAlone /\ PcOK /\ Nested /\ NoInvalidUnlock
  BY DEF LockInv
<1>2. /\ pc[t] = "idle" /\ held[t] # <<>> /\ Newest(t) = "W" /\ Pop(t)
      /\ writeCount' = writeCount - 1
      /\ pc' = [pc EXCEPT ![t] = IF writeCount' = 0 THEN "writeStore" ELSE "idle"]
      /\ UNCHANGED <<lockFlag, expected, crashed>>
  BY NoCrash DEF WriteUnlock, Free, Goto
<1>3. /\ held' \in [Threads -> Seq(Modes)]
      /\ \A u \in Threads \ {t} : held'[u] = held[u]
      /\ Cardinality(Guards("W")') = Cardinality(Guards("W")) - 1
      /\ Cardinality(Guards("R")') = Cardinality(Guards("R"))
      /\ Holds(t, "W")
  BY <1>1, <1>2, PopEffect DEF Modes
<1>4. Nested' /\ Bounded' /\ \A u \in Threads, n \in Modes : Holds(u, n)' => Holds(u, n)
  BY <1>2, PopKeeps DEF Modes
<1>5. TypeOK'
  <2>1. pc' \in [Threads -> Waiting \cup {"idle", "writeGot", "writeStore"}]
    BY <1>1, <1>2 DEF TypeOK
  <2> QED
    BY <1>1, <1>2, <1>3, <2>1 DEF TypeOK, Modes
<1>6. lockFlag.owner = t /\ \A u \in Threads \ {t} : held[u] = <<>>
  BY <1>3, WriterAlone
<1>7. ~Holds(t, "R")
  BY <1>1, <1>2, OnlyWrites
<1>8. \A u \in Threads \ {t}, n \in Modes : ~Holds(u, n)'
  BY <1>3, <1>6 DEF Holds
<1>9. writeCount' = 0 <=> ~Holds(t, "W")'
  <2>1. writeCount' = Cardinality(Guards("W")')
    BY <1>1, <1>2, <1>3 DEF CountsGuards
  <2>2. Cardinality(Guards("W")') = 0 <=> \A u \in Threads : ~Holds(u, "W")'
    BY <1>4, <1>5, NoGuardsNext DEF Modes
  <2> QED
    BY <1>8, <2>1, <2>2 DEF Modes
<1>10. pc \in [Threads -> Waiting \cup {"idle", "writeGot", "writeStore"}]
  BY <1>1 DEF TypeOK
<1>11. CountsGuards'
  <2>1. lockFlag'.readers = Cardinality(Guards("R")') /\ writeCount' = Cardinality(Guards("W")')
    BY <1>1, <1>2, <1>3 DEF CountsGuards
  <2>2. ASSUME NEW u \in Threads
        PROVE  lockFlag'.owner = u <=> Holds(u, "W")' \/ pc'[u] \in {"writeGot", "writeStore"}
    <3>1. CASE u = t
      BY <1>2, <1>6, <1>9, <1>10, <3>1
    <3>2. CASE u # t
      BY <1>1, <1>2, <1>6, <1>8, <1>10, <3>2 DEF CountsGuards, Modes
    <3> QED
      BY <3>1, <3>2
  <2> QED
    BY <2>1, <2>2 DEF CountsGuards
<1>12. OwnerAlone'
  BY <1>2, <1>3, <1>6 DEF OwnerAlone
<1>13. PcOK'
  <2>1. writeCount' = 0 => held'[t] = <<>>
    <3>1. SUFFICES ASSUME writeCount' = 0 PROVE held'[t] = <<>>
      OBVIOUS
    <3>2. ~Holds(t, "R")' /\ ~Holds(t, "W")'
      BY <1>4, <1>7, <1>9, <3>1 DEF Modes
    <3>3. held'[t] \in Seq(Modes)
      BY <1>3
    <3> QED
      BY <3>2, <3>3, EmptyStack DEF Holds
  <2>2. ASSUME NEW u \in Threads
        PROVE  /\ pc'[u] \in {"writeSpin", "writeGot", "writeStore"} => held'[u] = <<>>
               /\ pc'[u] \in {"readSpin", "readCas"} => ~Holds(u, "W")'
    <3>1. CASE u = t
      BY <1>2, <1>10, <2>1, <3>1
    <3>2. CASE u # t
      BY <1>3, <1>6, <1>8, <3>2 DEF Modes
    <3> QED
      BY <3>1, <3>2
  <2> QED
    BY <2>2 DEF PcOK
<1> QED
  BY <1>1, <1>2, <1>4, <1>5, <1>11, <1>12, <1>13 DEF LockInv, NoInvalidUnlock

\* ReadUnlock counts a read guard out.
LEMMA ReadUnlockInv == ASSUME LockInv, NEW t \in Threads, ReadUnlock(t) PROVE LockInv'
<1>1. TypeOK /\ Bounded /\ CountsGuards /\ OwnerAlone /\ PcOK /\ Nested /\ NoInvalidUnlock
  BY DEF LockInv
<1>2. /\ pc[t] = "idle" /\ held[t] # <<>> /\ Newest(t) = "R" /\ Pop(t)
      /\ lockFlag'.owner = lockFlag.owner /\ lockFlag'.readers = lockFlag.readers - 1
      /\ UNCHANGED <<writeCount, pc, expected, crashed>>
      /\ lockFlag' \in [owner : Threads \cup {None}, readers : Nat]
  <2>1. lockFlag.readers - 1 \in Nat /\ lockFlag.readers # 0
    BY <1>1, NoCrash DEF ReadUnlock, TypeOK
  <2>2. lockFlag' = [lockFlag EXCEPT !.readers = lockFlag.readers - 1]
    BY DEF ReadUnlock
  <2>3. lockFlag \in [owner : Threads \cup {None}, readers : Nat]
    BY <1>1 DEF TypeOK
  <2> QED
    BY <2>1, <2>2, <2>3 DEF ReadUnlock, Free
<1>3. /\ held' \in [Threads -> Seq(Modes)]
      /\ \A u \in Threads \ {t} : held'[u] = held[u]
      /\ Cardinality(Guards("R")') = Cardinality(Guards("R")) - 1
      /\ Cardinality(Guards("W")') = Cardinality(Guards("W"))
      /\ Holds(t, "W")' <=> Holds(t, "W")
  BY <1>1, <1>2, PopEffect DEF Modes
<1>4. Nested' /\ Bounded'
  BY <1>2, PopKeeps DEF Modes
<1>5. TypeOK'
  BY <1>1, <1>2, <1>3 DEF TypeOK, Modes
<1>6. \A u \in Threads : Holds(u, "W")' <=> Holds(u, "W")
  BY <1>3 DEF Holds
<1>7. CountsGuards'
  BY <1>1, <1>2, <1>3, <1>6 DEF CountsGuards
<1>8. OwnerAlone'
  BY <1>1, <1>2, <1>3 DEF OwnerAlone
<1>9. PcOK'
  <2>1. \A u \in Threads : pc[u] \in {"writeSpin", "writeGot", "writeStore"} => u # t
    BY <1>2
  <2> QED
    BY <1>1, <1>2, <1>3, <1>6, <2>1 DEF PcOK
<1> QED
  BY <1>1, <1>2, <1>4, <1>5, <1>7, <1>8, <1>9 DEF LockInv, NoInvalidUnlock

\* A thread on its way to a guard does not take another one meanwhile.
LEMMA RoomInv == TypeOK /\ RoomLeft /\ [Next]_vars => RoomLeft'
<1> SUFFICES ASSUME TypeOK, RoomLeft, [Next]_vars, NEW u \in Threads,
                    pc'[u] \in Waiting \cup {"writeGot"}
             PROVE  Len(held'[u]) < MaxDepth
  BY DEF RoomLeft
<1> USE DEF RoomLeft, TypeOK, Waiting, Goto, Push, Pop, MayAcquire, Free
<1>1. CASE UNCHANGED vars
  BY <1>1 DEF vars
<1>2. ASSUME NEW t \in Threads, Acquire(t) PROVE Len(held'[u]) < MaxDepth
  <2>1. CASE t = u
    BY <1>2, <2>1 DEF Acquire, WriteLockAgain, WriteLockEnter, ReadLockAgain, ReadLockEnter
  <2>2. CASE t # u
    BY <1>2, <2>2 DEF Acquire, WriteLockAgain, WriteLockEnter, ReadLockAgain, ReadLockEnter
  <2> QED
    BY <2>1, <2>2
<1>3. ASSUME NEW t \in Threads, Spin(t) PROVE Len(held'[u]) < MaxDepth
  <2>1. CASE t = u
    BY <1>3, <2>1
       DEF Spin, WriteLockCas, WriteLockCount, ReadLockLoad, ReadLockCas, ReadLockRetry
  <2>2. CASE t # u
    BY <1>3, <2>2
       DEF Spin, WriteLockCas, WriteLockCount, ReadLockLoad, ReadLockCas, ReadLockRetry
  <2> QED
    BY <2>1, <2>2
<1>4. ASSUME NEW t \in Threads, Unlock(t) \/ LockTimeout(t) PROVE Len(held'[u]) < MaxDepth
  <2>1. CASE t = u
    BY <1>4, <2>1
       DEF Unlock, WriteUnlock, WriteUnlockStore, ReadUnlock, LockTimeout
  <2>2. CASE t # u
    BY <1>4, <2>2
       DEF Unlock, WriteUnlock, WriteUnlockStore, ReadUnlock, LockTimeout
  <2> QED
    BY <2>1, <2>2
<1> QED
  BY <1>1, <1>2, <1>3, <1>4 DEF Next

\* Every step of the lock preserves the invariant.
LEMMA StepInv == IInv /\ [Next]_vars => LockInv'
<1> SUFFICES ASSUME LockInv, RoomLeft, [Next]_vars PROVE LockInv'
  BY DEF IInv
<1>1. TypeOK /\ Bounded /\ CountsGuards /\ OwnerAlone /\ PcOK /\ Nested /\ NoInvalidUnlock
  BY DEF LockInv
<1>2. /\ pc \in [Threads -> Waiting \cup {"idle", "writeGot", "writeStore"}]
      /\ lockFlag \in [owner : Threads \cup {None}, readers : Nat]
      /\ writeCount \in Int
      /\ expected \in [Threads -> Nat]
      /\ held \in [Threads -> Seq(Modes)]
  BY <1>1 DEF TypeOK, Modes
<1>3. CASE UNCHANGED vars
  <2>1. \A m \in Modes : Guards(m)' = Guards(m)
    BY <1>3 DEF Guards, vars
  <2>2. \A t \in Threads, m \in Modes : Holds(t, m)' <=> Holds(t, m)
    BY <1>3 DEF Holds, vars
  <2>3. CountsGuards'
    BY <1>1, <1>3, <2>1, <2>2 DEF CountsGuards, vars, Modes
  <2>4. PcOK'
    BY <1>1, <1>3, <2>2 DEF PcOK, vars, Modes
  <2> QED
    BY <1>1, <1>3, <2>3, <2>4
       DEF LockInv, vars, TypeOK, Bounded, OwnerAlone, Nested, NoInvalidUnlock
<1>4. ASSUME NEW t \in Threads, Acquire(t) PROVE LockInv'
  <2>1. CASE WriteLockAgain(t)
    <3>1. pc' = [pc EXCEPT ![t] = "idle"] /\ pc[t] = "idle"
      BY <1>2, <2>1 DEF WriteLockAgain, MayAcquire, Free
    <3>2. /\ Len(held[t]) < MaxDepth /\ Push(t, "W")
          /\ lockFlag.owner = t /\ ~Holds(t, "R")
          /\ writeCount' = writeCount + 1
          /\ UNCHANGED <<lockFlag, expected, crashed>>
      BY <2>1 DEF WriteLockAgain, MayAcquire
    <3>3. writeCount' \in Int /\ "W" \in Modes /\ "W" # "R"
      BY <1>2, <3>2 DEF Modes
    <3> QED
      BY <1>2, <3>1, <3>2, <3>3, PushInv
  <2>2. CASE WriteLockEnter(t)
    <3>1. ~Holds(t, "W")
      BY <1>1, <2>2 DEF CountsGuards, WriteLockEnter
    <3>2. held[t] = <<>>
      BY <1>1, <2>2, <3>1, HoldsNothing DEF WriteLockEnter
    <3> QED
      BY <1>2, <2>2, <3>2, SpinInv DEF WriteLockEnter, MayAcquire, Free, Goto, Waiting
  <2>3. CASE ReadLockAgain(t)
    <3>1. pc' = [pc EXCEPT ![t] = "idle"] /\ pc[t] = "idle"
      BY <1>2, <2>3 DEF ReadLockAgain, MayAcquire, Free
    <3>2. /\ lockFlag' \in [owner : Threads \cup {None}, readers : Nat]
          /\ lockFlag'.owner = lockFlag.owner /\ lockFlag'.readers = lockFlag.readers + 1
      <4>1. lockFlag' = [lockFlag EXCEPT !.readers = lockFlag.readers + 1]
        BY <2>3 DEF ReadLockAgain
      <4>2. lockFlag.readers + 1 \in Nat
        BY <1>2
      <4>3. lockFlag' \in [owner : Threads \cup {None}, readers : Nat]
        BY <1>2, <4>1, <4>2
      <4> QED
        BY <1>2, <4>1, <4>3
    <3> QED
      BY <1>2, <2>3, <3>1, <3>2, PushInv DEF ReadLockAgain, MayAcquire, Modes
  <2>4. CASE ReadLockEnter(t)
    <3>1. ~Holds(t, "W")
      BY <1>1, <2>4 DEF CountsGuards, ReadLockEnter
    <3> QED
      BY <1>2, <2>4, <3>1, SpinInv DEF ReadLockEnter, MayAcquire, Free, Goto, Waiting
  <2> QED
    BY <1>4, <2>1, <2>2, <2>3, <2>4 DEF Acquire
<1>5. ASSUME NEW t \in Threads, Spin(t) PROVE LockInv'
  <2>1. CASE WriteLockCas(t)
    BY <2>1, CasInv
  <2>2. CASE WriteLockCount(t)
    <3>1. held[t] = <<>> /\ lockFlag.owner = t
      BY <1>1, <2>2 DEF PcOK, CountsGuards, WriteLockCount
    <3>2. ~Holds(t, "R")
      BY <3>1 DEF Holds
    <3>3. Len(held[t]) < MaxDepth
      BY <2>2 DEF WriteLockCount, RoomLeft
    <3>4. /\ Push(t, "W")
          /\ pc[t] = "writeGot" /\ pc' = [pc EXCEPT ![t] = "idle"]
          /\ writeCount' = writeCount + 1
          /\ UNCHANGED <<lockFlag, expected, crashed>>
      BY <2>2 DEF WriteLockCount, Goto
    <3>5. writeCount' \in Int /\ "W" \in Modes /\ "W" # "R"
      BY <1>2, <3>4 DEF Modes
    <3> QED
      BY <1>2, <3>1, <3>2, <3>3, <3>4, <3>5, PushInv
  <2>3. CASE ReadLockLoad(t)
    BY <1>1, <1>2, <2>3, SpinInv DEF ReadLockLoad, Goto, Waiting, PcOK
  <2>4. CASE ReadLockCas(t)
    <3>1. /\ lockFlag' \in [owner : Threads \cup {None}, readers : Nat]
          /\ lockFlag'.owner = lockFlag.owner /\ lockFlag'.readers = lockFlag.readers + 1
          /\ lockFlag.owner = None
      BY <1>2, <2>4 DEF ReadLockCas
    <3>2. Len(held[t]) < MaxDepth
      BY <2>4 DEF ReadLockCas, RoomLeft, Waiting
    <3> QED
      BY <1>2, <2>4, <3>1, <3>2, PushInv DEF ReadLockCas, Goto, Modes
  <2>5. CASE ReadLockRetry(t)
    BY <1>1, <1>2, <2>5, SpinInv DEF ReadLockRetry, Goto, Waiting, PcOK
  <2> QED
    BY <1>5, <2>1, <2>2, <2>3, <2>4, <2>5 DEF Spin
<1>6. ASSUME NEW t \in Threads, Unlock(t) PROVE LockInv'
  BY <1>6, WriteUnlockInv, StoreInv, ReadUnlockInv DEF Unlock
<1>7. ASSUME NEW t \in Threads, LockTimeout(t) PROVE LockInv'
  <2>1. \A m \in Modes : Guards(m)' = Guards(m)
    BY <1>7 DEF Guards, LockTimeout
  <2>2. \A u \in Threads, m \in Modes : Holds(u, m)' <=> Holds(u, m)
    BY <1>7 DEF Holds, LockTimeout
  <2>3. CountsGuards'
    BY <1>1, <1>7, <2>1, <2>2 DEF CountsGuards, LockTimeout, Modes
  <2>4. PcOK'
    BY <1>1, <1>7, <2>2 DEF PcOK, LockTimeout, Modes
  <2> QED
    BY <1>1, <1>7, <2>3, <2>4
       DEF LockInv, LockTimeout, TypeOK, Bounded, OwnerAlone, Nested, NoInvalidUnlock
<1> QED
  BY <1>3, <1>4, <1>5, <1>6, <1>7 DEF Next

-----------------------------------------------------------------------------
(* Theorems. *)

\* The inductive invariant holds throughout.
THEOREM Invariance == Spec => []IInv
<1>1. Init => IInv
  BY InitInv, LockThreadsAssumption DEF IInv, RoomLeft, Init, Waiting
<1>2. IInv /\ [Next]_vars => IInv'
  BY StepInv, RoomInv DEF IInv, LockInv
<1> QED
  BY <1>1, <1>2, PTL DEF Spec

\* The type invariant of the lock, for any number of threads and any depth.
THEOREM TypeCorrectness == Spec => []TypeOK
<1>1. IInv => TypeOK
  BY DEF IInv, LockInv
<1> QED
  BY <1>1, Invariance, PTL

\* While a thread holds a write guard, no other thread holds any guard.
THEOREM WritersExclude == Spec => []Exclusion
<1>1. IInv => Exclusion
  BY WriterAlone DEF Exclusion, IInv
<1> QED
  BY <1>1, Invariance, PTL

\* m_lockFlag and m_writeCount count the guards that are alive.
THEOREM CountersCorrect == Spec => []CountsGuards
<1>1. IInv => CountsGuards
  BY DEF IInv, LockInv
<1> QED
  BY <1>1, Invariance, PTL

\* Guards that are nested and never R -> W do not reach an unlock's CRASH.
THEOREM UnlocksNeverCrash == Spec => []NoInvalidUnlock
<1>1. IInv => NoInvalidUnlock
  BY DEF IInv, LockInv
<1> QED
  BY <1>1, Invariance, PTL

-----------------------------------------------------------------------------
(* Refinement: each step that changes held is a step of ReentrantLock.     *)

\* Initially no guard exists in either module.
LEMMA RefinesInit == Init => Reentrant!Init
BY DEF Init, Reentrant!Init

\* A thread that holds a read guard, or reads the flag without an owner, sees
\* no other writer.
LEMMA NoOtherWriter ==
    ASSUME LockInv, NEW t \in Threads, lockFlag.owner \in {t, None}
    PROVE  \A u \in Threads \ {t} : ~Holds(u, "W")
BY LockThreadsAssumption DEF LockInv, CountsGuards

\* Every step is a step of the abstract lock or leaves the guards alone.
LEMMA RefinesNext == IInv /\ [Next]_vars => [Reentrant!Next]_held
<1> SUFFICES ASSUME LockInv, RoomLeft, [Next]_vars PROVE Reentrant!Next \/ held' = held
  BY DEF vars, IInv
<1> USE DEF Reentrant!Holds, Holds
<1>1. ASSUME NEW t \in Threads, WriteLockAgain(t) \/ WriteLockCount(t)
      PROVE  Reentrant!AcquireWrite(t)
  <2>1. lockFlag.owner = t /\ \A u \in Threads \ {t} : held[u] = <<>>
    BY <1>1 DEF WriteLockAgain, WriteLockCount, LockInv, CountsGuards, OwnerAlone
  <2>2. ~Holds(t, "R") /\ Len(held[t]) < MaxDepth /\ Push(t, "W")
    <3>1. CASE WriteLockAgain(t)
      BY <3>1 DEF WriteLockAgain, MayAcquire
    <3>2. CASE WriteLockCount(t)
      BY <3>2 DEF WriteLockCount, LockInv, PcOK, RoomLeft
    <3> QED
      BY <1>1, <3>1, <3>2
  <2> QED
    BY <2>1, <2>2 DEF Reentrant!AcquireWrite, Reentrant!Acquire, Push
<1>2. ASSUME NEW t \in Threads, ReadLockAgain(t) \/ ReadLockCas(t)
      PROVE  Reentrant!AcquireRead(t)
  <2>1. lockFlag.owner \in {t, None} /\ Len(held[t]) < MaxDepth /\ Push(t, "R")
    BY <1>2 DEF ReadLockAgain, ReadLockCas, MayAcquire, RoomLeft, Waiting
  <2>2. \A u \in Threads \ {t} : ~Holds(u, "W")
    BY <2>1, NoOtherWriter
  <2> QED
    BY <2>1, <2>2 DEF Reentrant!AcquireRead, Reentrant!Acquire, Push
<1>3. ASSUME NEW t \in Threads, WriteUnlock(t) \/ ReadUnlock(t)
      PROVE  Reentrant!Release(t)
  BY <1>3 DEF WriteUnlock, ReadUnlock, Reentrant!Release, Pop
<1> QED
  BY <1>1, <1>2, <1>3
     DEF Next, vars, Acquire, Spin, Unlock, Reentrant!Next, WriteLockEnter, ReadLockEnter,
         WriteLockCas, ReadLockLoad, ReadLockRetry, WriteUnlockStore, LockTimeout

\* The spin lock implements the re-entrant readers-writer lock.
THEOREM Refinement == Spec => ImplementsReentrantLock
<1>1. Init => Reentrant!Init
  BY RefinesInit
<1>2. IInv /\ [Next]_vars => [Reentrant!Next]_held
  BY RefinesNext
<1> QED
  BY <1>1, <1>2, Invariance, PTL DEF Spec, ImplementsReentrantLock, Reentrant!Spec
=============================================================================
