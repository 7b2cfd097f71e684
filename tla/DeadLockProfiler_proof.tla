----------------------- MODULE DeadLockProfiler_proof -----------------------
(***************************************************************************)
(* Proofs about DeadLockProfiler, for any threads, locks and classes and   *)
(* any depth of nesting: CheckCycle is right, PopLock finds the lock it is *)
(* told, and no deadlock between classes goes unreported.                  *)
(***************************************************************************)
EXTENDS DeadLockProfiler, SequenceTheorems, WellFoundedInduction, TLAPS

Number(guard) == IdOf(NameOf[guard[1]])

Checkers == {t \in Threads : pc[t] = "check"}

TypeOK ==
    /\ idToName \in Seq(Names)
    /\ lockHistory \subseteq Ids \X Ids
    /\ LLockStack \in [Threads -> Seq(Nat)]
    /\ want \in [Threads -> Guards \cup {None}]
    /\ held \in [Threads -> Seq(Guards)]
    /\ pc \in [Threads -> {"run", "check", "wait", "unlock"}]

(***************************************************************************)
(* The stacks: a name has one number, guards have names that are known,    *)
(* and LLockStack has the numbers of the guards a thread holds, without    *)
(* the one it is about to destroy and with the one it is waiting for.      *)
(***************************************************************************)
NamesOnce == \A i, k \in Ids : idToName[i] = idToName[k] => i = k

KnownOf(t) ==
    /\ \A i \in 1..Len(held[t]) : Known(NameOf[held[t][i][1]])
    /\ pc[t] \in {"wait", "check"} => want[t] \in Guards /\ Known(NameOf[want[t][1]])

\* The guard that the i-th number of a stack stands for.
GuardAt(t, i) == IF i <= Len(held[t]) THEN held[t][i] ELSE want[t]

StackOf(t) ==
    /\ pc[t] \in {"run", "check"} => Len(LLockStack[t]) = Len(held[t])
    /\ pc[t] = "wait" => Len(LLockStack[t]) = Len(held[t]) + 1
    /\ pc[t] = "unlock" => Len(LLockStack[t]) + 1 = Len(held[t])
    /\ \A i \in 1..Len(LLockStack[t]) : LLockStack[t][i] = Number(GuardAt(t, i))

(***************************************************************************)
(* The graph: one thread at a time searches, for a cycle through the edge  *)
(* it has added; without that edge there is none, and what lies on         *)
(* another in a stack is one of the other edges.                           *)
(***************************************************************************)
NewEdgeOf(t) == <<Top(LLockStack[t]), Number(want[t])>>

OneChecker ==
    /\ \A t, u \in Checkers : t = u
    /\ \A t \in Checkers : LLockStack[t] # <<>> /\ NewEdgeOf(t) \in lockHistory

Checked == lockHistory \ {NewEdgeOf(t) : t \in Checkers}

Linked(i, k) == i = k \/ <<i, k>> \in Checked
EdgesOf(t) == \A i \in 1..Len(LLockStack[t]) - 1 : Linked(LLockStack[t][i], LLockStack[t][i + 1])

NoLoops == \A e \in lockHistory : e[1] # e[2]

StacksInv == NamesOnce /\ \A t \in Threads : KnownOf(t) /\ StackOf(t)
GraphInv == OneChecker /\ (\A t \in Threads : EdgesOf(t)) /\ NoLoops /\ ~Cyclic(Checked)

(***************************************************************************)
(* The search.  frames is a path of the graph along m_parent, in the order *)
(* of discovery, of the locks that are discovered and not finished; every  *)
(* edge that was tried from a lock on it leads to one that is finished or  *)
(* to the next on the path, and no edge leads out of what is finished.     *)
(***************************************************************************)
SearchTypeOK ==
    /\ discoveredCount \in Nat
    /\ discoveredOrder \in [Ids -> Int]
    /\ parent \in [Ids -> Int]
    /\ finished \subseteq Ids
    /\ frames \in Seq([at : Ids, rest : SUBSET Ids])
    /\ root \in 1..Len(idToName) + 1
    /\ now \in Ids \cup {0}

Discovered(id) == discoveredOrder[id] # -1
OnPath(id) == \E k \in DOMAIN frames : frames[k].at = id

OrderOK ==
    /\ \A id \in Ids : discoveredOrder[id] >= -1 /\ discoveredOrder[id] < discoveredCount
    /\ \A id \in Ids : id \in finished \/ OnPath(id) <=> Discovered(id)
    /\ \A id \in finished : ~OnPath(id)
    /\ \A i, k \in DOMAIN frames : i < k =>
         discoveredOrder[frames[i].at] < discoveredOrder[frames[k].at]
    /\ \A id \in Ids : id < root => Discovered(id)

PathOK == \A k \in DOMAIN frames : k > 1 =>
    /\ parent[frames[k].at] = frames[k - 1].at
    /\ <<frames[k - 1].at, frames[k].at>> \in lockHistory

TriedOK == \A k \in DOMAIN frames :
    /\ frames[k].rest \subseteq NextSet(frames[k].at)
    /\ \A id \in NextSet(frames[k].at) \ frames[k].rest :
         id \in finished \/ (k < Len(frames) /\ id = frames[k + 1].at)

\* S can be left by no edge; S has no cycle.
Closed(S) == \A id \in S : NextSet(id) \subseteq S
Acyclic(S) == \A C \in SUBSET S :
    C # {} => \E id \in C : \A next \in C : <<id, next>> \notin lockHistory

FinishedOK == Closed(finished) /\ Acyclic(finished)

\* now is on the path, below the lock that the back edge leads to.
ReportOK == now # 0 =>
    /\ frames # <<>> /\ Rest # {} /\ Cyclic(lockHistory)
    /\ crashed = "no" => \E i, k \in DOMAIN frames :
         i < k /\ now = frames[k].at /\ There = frames[i].at

Search == SearchTypeOK /\ OrderOK /\ PathOK /\ TriedOK /\ FinishedOK /\ ReportOK
SearchInv == IF Checkers # {} THEN Search ELSE frames = <<>> /\ now = 0

IInv == TypeOK /\ StacksInv /\ GraphInv /\ SearchInv /\ NoFalseCrash

-----------------------------------------------------------------------------
(* Names and numbers *)

\* A name that is known has a number.
LEMMA KnownNumber ==
    ASSUME NEW name, Known(name)
    PROVE  IdOf(name) \in Ids /\ idToName[IdOf(name)] = name
BY DEF Known, IdOf

\* It has no other.
LEMMA OnlyNumber ==
    ASSUME NamesOnce, NEW id \in Ids
    PROVE  Known(idToName[id]) /\ IdOf(idToName[id]) = id
<1>1. Known(idToName[id])
  BY DEF Known
<1> QED
  BY <1>1, KnownNumber DEF NamesOnce

\* A guard that is asked for gets a number, and all others keep theirs.
LEMMA AskNumbers ==
    ASSUME TypeOK, NamesOnce, NEW t \in Threads, NEW guard \in Guards, Ask(t, guard)
    PROVE  /\ idToName' \in Seq(Names) /\ NamesOnce'
           /\ Ids' = Ids \cup {Number(guard)} /\ Number(guard) \in Nat \ {0}
           /\ Known(NameOf[guard[1]])' /\ Number(guard)' = Number(guard)
           /\ \A name : Known(name) => Known(name)' /\ IdOf(name)' = IdOf(name)
<1> DEFINE n == NameOf[guard[1]]
<1>1. n \in Names
  BY NamesAssumption, GuardsAssumption
<1>2. idToName \in Seq(Names) /\ Ids = 1..Len(idToName) /\ Len(idToName) \in Nat
  BY LenProperties DEF TypeOK, Ids
<1>3. CASE Known(n)
  <2>1. idToName' = idToName
    BY <1>3 DEF Ask
  <2>2. IdOf(n) \in Ids
    BY <1>3, KnownNumber
  <2>3. \A name : IdOf(name)' = IdOf(name) /\ Known(name)' = Known(name)
    BY <2>1 DEF IdOf, Known, Ids
  <2> QED
    BY <1>2, <1>3, <2>1, <2>2, <2>3 DEF Number, NamesOnce, Ids
<1>4. CASE ~Known(n)
  <2>1. idToName' = Append(idToName, n)
    BY <1>4 DEF Ask
  <2>2. /\ idToName' \in Seq(Names) /\ Len(idToName') = Len(idToName) + 1
        /\ \A i \in Ids : idToName'[i] = idToName[i]
        /\ idToName'[Len(idToName) + 1] = n
    BY <1>1, <1>2, <2>1, AppendProperties
  <2>3. Ids' = 1..Len(idToName) + 1 /\ Ids' = Ids \cup {Len(idToName) + 1}
    BY <1>2, <2>2, LenProperties DEF Ids
  <2>4. \A i \in Ids : idToName[i] # n
    BY <1>4 DEF Known
  <2>5. NamesOnce'
    BY <1>2, <2>2, <2>3, <2>4 DEF NamesOnce
  <2>6. ASSUME NEW name, Known(name) PROVE Known(name)' /\ IdOf(name)' = IdOf(name)
    <3>1. IdOf(name) \in Ids /\ idToName[IdOf(name)] = name
      BY <2>6, KnownNumber
    <3>2. IdOf(name) \in Ids' /\ idToName'[IdOf(name)] = name
      BY <3>1, <2>2, <2>3
    <3>3. Known(name)'
      BY <3>2 DEF Known
    <3>4. IdOf(name)' \in Ids' /\ idToName'[IdOf(name)'] = name
      BY <3>3 DEF Known, IdOf
    <3> QED
      BY <3>2, <3>3, <3>4, <2>5 DEF NamesOnce
  <2>7. Known(n)'
    BY <2>2, <2>3 DEF Known
  <2>8. IdOf(n)' \in Ids' /\ idToName'[IdOf(n)'] = n
    BY <2>7 DEF Known, IdOf
  <2>9. IdOf(n)' = Len(idToName) + 1 /\ IdOf(n) = Len(idToName) + 1
    BY <1>4, <2>2, <2>3, <2>5, <2>8 DEF NamesOnce, IdOf
  <2> QED
    BY <1>2, <2>2, <2>3, <2>5, <2>6, <2>7, <2>9 DEF Number
<1> QED
  BY <1>3, <1>4

\* The last element of a sequence.
LEMMA TopOfAppend ==
    ASSUME NEW S, NEW s \in Seq(S), NEW x \in S
    PROVE  /\ Append(s, x) \in Seq(S) /\ Append(s, x) # <<>>
           /\ Len(Append(s, x)) = Len(s) + 1 /\ Top(Append(s, x)) = x
           /\ \A i \in 1..Len(s) : Append(s, x)[i] = s[i]
BY AppendProperties DEF Top

\* What is left of a sequence without its last element.
LEMMA PopProperties ==
    ASSUME NEW S, NEW s \in Seq(S), s # <<>>
    PROVE  /\ Pop(s) \in Seq(S) /\ Len(Pop(s)) = Len(s) - 1 /\ Len(s) \in Nat \ {0}
           /\ \A i \in 1..Len(s) - 1 : Pop(s)[i] = s[i]
           /\ Top(s) \in S
<1>1. Len(s) \in Nat \ {0} /\ \A i \in 1..Len(s) : s[i] \in S
  BY EmptySeq, ElementOfSeq
<1>2. PICK n \in Nat : n = Len(s) - 1
  BY <1>1
<1>3. /\ SubSeq(s, 1, n) \in Seq(S)
      /\ Len(SubSeq(s, 1, n)) = IF 1 <= n THEN n - 1 + 1 ELSE 0
      /\ \A i \in 1..n - 1 + 1 : SubSeq(s, 1, n)[i] = s[1 + i - 1]
  <2>1. \A i \in 1..n : s[i] \in S
    BY <1>1, <1>2
  <2> QED
    BY <2>1, SubSeqProperties
<1>4. Len(SubSeq(s, 1, n)) = n /\ \A i \in 1..n : SubSeq(s, 1, n)[i] = s[i]
  BY <1>3
<1> QED
  BY <1>1, <1>2, <1>3, <1>4 DEF Pop, Top

-----------------------------------------------------------------------------
(* Types and stacks *)

\* The lengths are natural numbers.
LEMMA Lengths ==
    ASSUME TypeOK, NEW t \in Threads
    PROVE  /\ LLockStack[t] \in Seq(Nat) /\ held[t] \in Seq(Guards)
           /\ Len(LLockStack[t]) \in Nat /\ Len(held[t]) \in Nat
           /\ DOMAIN LLockStack[t] = 1..Len(LLockStack[t]) /\ DOMAIN held[t] = 1..Len(held[t])
           /\ LLockStack[t] # <<>> <=> Len(LLockStack[t]) > 0
           /\ held[t] # <<>> <=> Len(held[t]) > 0
<1>1. LLockStack[t] \in Seq(Nat) /\ held[t] \in Seq(Guards)
  BY DEF TypeOK
<1> QED
  BY <1>1, LenProperties, EmptySeq

\* The guards behind a stack have names that are known.
LEMMA GuardsKnown ==
    ASSUME TypeOK, NEW t \in Threads, StackOf(t), KnownOf(t)
    PROVE  \A i \in 1..Len(LLockStack[t]) : Known(NameOf[GuardAt(t, i)[1]])
<1> TAKE i \in 1..Len(LLockStack[t])
<1>1. CASE i <= Len(held[t])
  BY <1>1, Lengths DEF KnownOf, GuardAt
<1>2. CASE ~(i <= Len(held[t]))
  <2>1. pc[t] = "wait"
    BY <1>2, Lengths DEF StackOf, TypeOK
  <2> QED
    BY <1>2, <2>1 DEF KnownOf, GuardAt
<1> QED
  BY <1>1, <1>2

\* So the numbers on a stack are numbers of the graph.
LEMMA StackNumbers ==
    ASSUME TypeOK, StacksInv, NEW t \in Threads
    PROVE  \A i \in 1..Len(LLockStack[t]) : LLockStack[t][i] \in Ids
<1>1. StackOf(t) /\ KnownOf(t)
  BY DEF StacksInv
<1> TAKE i \in 1..Len(LLockStack[t])
<1>2. LLockStack[t][i] = Number(GuardAt(t, i))
  BY <1>1 DEF StackOf
<1>3. Known(NameOf[GuardAt(t, i)[1]])
  BY <1>1, GuardsKnown
<1> QED
  BY <1>2, <1>3, KnownNumber DEF Number

\* A new name leaves a thread's stack as it was.
LEMMA StackKept ==
    ASSUME TypeOK, NEW u \in Threads, StackOf(u), KnownOf(u),
           \A name : Known(name) => Known(name)' /\ IdOf(name)' = IdOf(name),
           held'[u] = held[u], want'[u] = want[u], pc'[u] = pc[u], LLockStack'[u] = LLockStack[u]
    PROVE  StackOf(u)' /\ KnownOf(u)'
<1>1. KnownOf(u)'
  BY DEF KnownOf
<1>2. ASSUME NEW i \in 1..Len(LLockStack[u]) PROVE LLockStack'[u][i] = Number(GuardAt(u, i))'
  <2>1. GuardAt(u, i)' = GuardAt(u, i)
    BY DEF GuardAt
  <2>2. Known(NameOf[GuardAt(u, i)[1]])
    BY GuardsKnown
  <2>3. Number(GuardAt(u, i))' = Number(GuardAt(u, i))
    BY <2>1, <2>2 DEF Number
  <2> QED
    BY <2>3 DEF StackOf
<1> QED
  BY <1>1, <1>2 DEF StackOf

\* PushLock without a new edge
LEMMA PushLockStacks ==
    ASSUME TypeOK, StacksInv, NEW t \in Threads, NEW guard \in Guards, PushLock(t, guard)
    PROVE  TypeOK' /\ StacksInv'
<1> DEFINE id == Number(guard)
<1>1. /\ Ask(t, guard) /\ pc[t] = "run" /\ held' = held /\ lockHistory' = lockHistory
      /\ want' = [want EXCEPT ![t] = guard]
      /\ LLockStack' = [LLockStack EXCEPT ![t] = Append(@, id)]
      /\ pc' = [pc EXCEPT ![t] = "wait"]
  BY DEF PushLock, Ask, Enters, At, Goto, Number
<1>2. /\ idToName' \in Seq(Names) /\ NamesOnce'
      /\ Ids' = Ids \cup {id} /\ id \in Nat \ {0}
      /\ Known(NameOf[guard[1]])' /\ Number(guard)' = id
      /\ \A name : Known(name) => Known(name)' /\ IdOf(name)' = IdOf(name)
  BY <1>1, AskNumbers DEF StacksInv
<1>3. /\ Append(LLockStack[t], id) \in Seq(Nat)
      /\ Len(Append(LLockStack[t], id)) = Len(LLockStack[t]) + 1
      /\ Append(LLockStack[t], id)[Len(LLockStack[t]) + 1] = id
      /\ \A i \in 1..Len(LLockStack[t]) : Append(LLockStack[t], id)[i] = LLockStack[t][i]
  BY <1>2, Lengths, AppendProperties
<1>4. TypeOK'
  BY <1>1, <1>2, <1>3 DEF TypeOK
<1>5. \A u \in Threads : StackOf(u) /\ KnownOf(u)
  BY DEF StacksInv
<1>6. ASSUME NEW u \in Threads, u # t PROVE StackOf(u)' /\ KnownOf(u)'
  <2>1. want'[u] = want[u] /\ pc'[u] = pc[u] /\ LLockStack'[u] = LLockStack[u]
    BY <1>1, <1>6 DEF TypeOK
  <2> QED
    BY <1>1, <1>2, <1>5, <2>1, StackKept
<1>7. LLockStack'[t] = Append(LLockStack[t], id) /\ want'[t] = guard /\ pc'[t] = "wait"
  BY <1>1 DEF TypeOK
<1>8. KnownOf(t)'
  BY <1>1, <1>2, <1>5, <1>7 DEF KnownOf
<1>9. StackOf(t)'
  <2>1. Len(LLockStack[t]) = Len(held[t]) /\ Len(held[t]) \in Nat
    BY <1>1, <1>5, Lengths DEF StackOf
  <2>2. ASSUME NEW i \in 1..Len(held[t]) PROVE LLockStack'[t][i] = Number(GuardAt(t, i))'
    <3>1. GuardAt(t, i)' = GuardAt(t, i)
      BY <1>1, <2>1 DEF GuardAt
    <3>2. Known(NameOf[GuardAt(t, i)[1]])
      BY <1>5, <2>1, GuardsKnown
    <3>3. Number(GuardAt(t, i))' = Number(GuardAt(t, i))
      BY <3>1, <3>2, <1>2 DEF Number
    <3> QED
      BY <3>3, <1>5, <1>3, <1>7, <2>1 DEF StackOf
  <2>3. LLockStack'[t][Len(held[t]) + 1] = Number(GuardAt(t, Len(held[t]) + 1))'
    <3>1. GuardAt(t, Len(held[t]) + 1)' = guard
      BY <1>1, <1>7, <2>1 DEF GuardAt
    <3> QED
      BY <3>1, <1>2, <1>3, <1>7, <2>1 DEF Number
  <2>4. \A i \in 1..Len(held[t]) + 1 : i \in 1..Len(held[t]) \/ i = Len(held[t]) + 1
    BY <2>1
  <2> QED
    BY <1>1, <1>3, <1>7, <2>1, <2>2, <2>3, <2>4 DEF StackOf
<1> QED
  BY <1>2, <1>4, <1>6, <1>8, <1>9 DEF StacksInv

\* PushLock with a new edge, up to the search
LEMMA PushLockNewStacks ==
    ASSUME TypeOK, StacksInv, NEW t \in Threads, NEW guard \in Guards, PushLockNew(t, guard)
    PROVE  TypeOK' /\ StacksInv'
<1> DEFINE id == Number(guard)
<1>1. /\ Ask(t, guard) /\ pc[t] = "run" /\ held' = held /\ LLockStack' = LLockStack
      /\ LLockStack[t] # <<>> /\ lockHistory' = lockHistory \cup {<<Top(LLockStack[t]), id>>}
      /\ want' = [want EXCEPT ![t] = guard]
      /\ pc' = [pc EXCEPT ![t] = "check"]
  BY DEF PushLockNew, NewEdge, Ask, Enters, At, Goto, Number
<1>2. /\ idToName' \in Seq(Names) /\ NamesOnce'
      /\ Ids' = Ids \cup {id} /\ id \in Nat \ {0}
      /\ Known(NameOf[guard[1]])' /\ Number(guard)' = id
      /\ \A name : Known(name) => Known(name)' /\ IdOf(name)' = IdOf(name)
  BY <1>1, AskNumbers DEF StacksInv
<1>3. Top(LLockStack[t]) \in Ids
  <2>1. Len(LLockStack[t]) \in 1..Len(LLockStack[t])
    BY <1>1, Lengths
  <2> QED
    BY <2>1, StackNumbers DEF Top
<1>4. TypeOK'
  <2>1. <<Top(LLockStack[t]), id>> \in Ids' \X Ids'
    BY <1>2, <1>3
  <2>2. lockHistory' \subseteq Ids' \X Ids'
    BY <1>1, <1>2, <2>1 DEF TypeOK
  <2>3. /\ LLockStack' \in [Threads -> Seq(Nat)] /\ held' \in [Threads -> Seq(Guards)]
        /\ want' \in [Threads -> Guards \cup {None}]
        /\ pc' \in [Threads -> {"run", "check", "wait", "unlock"}]
    BY <1>1 DEF TypeOK
  <2> QED
    BY <1>2, <2>2, <2>3 DEF TypeOK
<1>5. \A u \in Threads : StackOf(u) /\ KnownOf(u)
  BY DEF StacksInv
<1>6. ASSUME NEW u \in Threads, u # t PROVE StackOf(u)' /\ KnownOf(u)'
  <2>1. want'[u] = want[u] /\ pc'[u] = pc[u] /\ LLockStack'[u] = LLockStack[u]
    BY <1>1, <1>6 DEF TypeOK
  <2> QED
    BY <1>1, <1>2, <1>5, <2>1, StackKept
<1>7. want'[t] = guard /\ pc'[t] = "check"
  BY <1>1 DEF TypeOK
<1>8. KnownOf(t)'
  BY <1>1, <1>2, <1>5, <1>7 DEF KnownOf
<1>9. StackOf(t)'
  <2>1. Len(LLockStack[t]) = Len(held[t]) /\ Len(held[t]) \in Nat
    BY <1>1, <1>5, Lengths DEF StackOf
  <2>2. ASSUME NEW i \in 1..Len(held[t]) PROVE LLockStack'[t][i] = Number(GuardAt(t, i))'
    <3>1. GuardAt(t, i)' = GuardAt(t, i)
      BY <1>1, <2>1 DEF GuardAt
    <3>2. Known(NameOf[GuardAt(t, i)[1]])
      BY <1>5, <2>1, GuardsKnown
    <3>3. Number(GuardAt(t, i))' = Number(GuardAt(t, i))
      BY <3>1, <3>2, <1>2 DEF Number
    <3> QED
      BY <3>3, <1>1, <1>5, <2>1 DEF StackOf
  <2> QED
    BY <1>1, <1>7, <2>1, <2>2 DEF StackOf
<1> QED
  BY <1>2, <1>4, <1>6, <1>8, <1>9 DEF StacksInv

\* Nothing happens to the names.
LEMMA NamesKept ==
    ASSUME UNCHANGED idToName
    PROVE  \A name : Known(name)' = Known(name) /\ IdOf(name)' = IdOf(name)
BY DEF Known, IdOf, Ids

\* The names are the same, and so are the other threads.
LEMMA OthersKept ==
    ASSUME TypeOK, StacksInv, UNCHANGED idToName, NEW t \in Threads,
           NEW u \in Threads, u # t,
           held'[u] = held[u], want'[u] = want[u], pc'[u] = pc[u], LLockStack'[u] = LLockStack[u]
    PROVE  StackOf(u)' /\ KnownOf(u)'
<1>1. \A name : Known(name)' = Known(name) /\ IdOf(name)' = IdOf(name)
  BY NamesKept
<1> QED
  BY <1>1, StackKept DEF StacksInv

\* PopLock, which passes its assertions
LEMMA PopLockStacks ==
    ASSUME TypeOK, StacksInv, NEW t \in Threads, PopLock(t)
    PROVE  TypeOK' /\ StacksInv' /\ crashed' = "no" /\ LLockStack[t] # <<>>
<1>1. /\ pc[t] = "run" /\ held[t] # <<>> /\ UNCHANGED <<idToName, lockHistory, want, held>>
      /\ pc' = [pc EXCEPT ![t] = "unlock"]
  BY DEF PopLock, Enters, At, Goto, graphVars
<1>2. StackOf(t) /\ KnownOf(t)
  BY DEF StacksInv
<1>3. Len(LLockStack[t]) = Len(held[t]) /\ Len(held[t]) \in Nat \ {0} /\ LLockStack[t] # <<>>
  BY <1>1, <1>2, Lengths DEF StackOf
<1>4. Top(LLockStack[t]) = IdOf(NameOf[Top(held[t])[1]])
  BY <1>2, <1>3 DEF StackOf, GuardAt, Number, Top
<1>5. crashed' = "no" /\ LLockStack' = [LLockStack EXCEPT ![t] = Pop(@)]
  BY <1>3, <1>4 DEF PopLock
<1>6. /\ Pop(LLockStack[t]) \in Seq(Nat) /\ Len(Pop(LLockStack[t])) = Len(LLockStack[t]) - 1
      /\ \A i \in 1..Len(LLockStack[t]) - 1 : Pop(LLockStack[t])[i] = LLockStack[t][i]
  BY <1>3, Lengths, PopProperties
<1>7. TypeOK'
  BY <1>1, <1>5, <1>6 DEF TypeOK, Ids
<1>8. LLockStack'[t] = Pop(LLockStack[t]) /\ pc'[t] = "unlock"
  BY <1>1, <1>5 DEF TypeOK
<1>9. KnownOf(t)'
  BY <1>1, <1>2, <1>8, NamesKept DEF KnownOf
<1>10. StackOf(t)'
  <2>1. \A i : GuardAt(t, i)' = GuardAt(t, i) /\ Number(GuardAt(t, i))' = Number(GuardAt(t, i))
    BY <1>1, NamesKept DEF GuardAt, Number
  <2>2. ASSUME NEW i \in 1..Len(LLockStack[t]) - 1
        PROVE  Pop(LLockStack[t])[i] = Number(GuardAt(t, i))'
    BY <1>2, <1>3, <1>6, <2>1 DEF StackOf
  <2> QED
    BY <1>1, <1>3, <1>6, <1>8, <2>2 DEF StackOf
<1>11. ASSUME NEW u \in Threads, u # t PROVE StackOf(u)' /\ KnownOf(u)'
  BY <1>1, <1>5, <1>11, OthersKept DEF TypeOK
<1>12. NamesOnce'
  BY <1>1 DEF StacksInv, NamesOnce, Ids
<1> QED
  BY <1>3, <1>5, <1>7, <1>9, <1>10, <1>11, <1>12 DEF StacksInv

\* The guard a thread waited for is the newest it has.
LEMMA AcquireStacks ==
    ASSUME TypeOK, StacksInv, NEW t \in Threads, Acquire(t)
    PROVE  TypeOK' /\ StacksInv'
<1>1. /\ pc[t] = "wait" /\ UNCHANGED <<idToName, lockHistory, LLockStack>>
      /\ held' = [held EXCEPT ![t] = Append(@, want[t])]
      /\ want' = [want EXCEPT ![t] = None]
      /\ pc' = [pc EXCEPT ![t] = "run"]
  BY DEF Acquire, At, Goto, graphVars
<1>2. StackOf(t) /\ KnownOf(t) /\ want[t] \in Guards
  BY <1>1 DEF StacksInv, KnownOf
<1>3. /\ Append(held[t], want[t]) \in Seq(Guards)
      /\ Len(Append(held[t], want[t])) = Len(held[t]) + 1
      /\ Append(held[t], want[t])[Len(held[t]) + 1] = want[t]
      /\ \A i \in 1..Len(held[t]) : Append(held[t], want[t])[i] = held[t][i]
  BY <1>2, Lengths, AppendProperties
<1>4. TypeOK'
  BY <1>1, <1>3 DEF TypeOK, Ids
<1>5. held'[t] = Append(held[t], want[t]) /\ pc'[t] = "run"
  BY <1>1 DEF TypeOK
<1>6. Len(held[t]) \in Nat /\ Len(LLockStack[t]) = Len(held[t]) + 1
  BY <1>1, <1>2, Lengths DEF StackOf
<1>7. KnownOf(t)'
  <2>1. Known(NameOf[want[t][1]])
    BY <1>1, <1>2 DEF KnownOf
  <2>2. \A i \in 1..Len(held[t]) + 1 : i \in 1..Len(held[t]) \/ i = Len(held[t]) + 1
    BY <1>6
  <2>3. \A name : Known(name)' = Known(name)
    BY <1>1, NamesKept
  <2> QED
    BY <1>2, <1>3, <1>5, <2>1, <2>2, <2>3 DEF KnownOf
<1>8. StackOf(t)'
  <2>1. ASSUME NEW i \in 1..Len(LLockStack[t]) PROVE Number(GuardAt(t, i))' = Number(GuardAt(t, i))
    <3>1. GuardAt(t, i)' = GuardAt(t, i)
      BY <1>3, <1>5, <1>6 DEF GuardAt
    <3> QED
      BY <1>1, <3>1, NamesKept DEF Number
  <2> QED
    BY <1>1, <1>2, <1>3, <1>5, <1>6, <2>1 DEF StackOf
<1>9. ASSUME NEW u \in Threads, u # t PROVE StackOf(u)' /\ KnownOf(u)'
  BY <1>1, <1>9, OthersKept DEF TypeOK
<1>10. NamesOnce'
  BY <1>1 DEF StacksInv, NamesOnce, Ids
<1> QED
  BY <1>4, <1>7, <1>8, <1>9, <1>10 DEF StacksInv

\* The newest guard is destroyed.
LEMMA UnlockStacks ==
    ASSUME TypeOK, StacksInv, NEW t \in Threads, Unlock(t)
    PROVE  TypeOK' /\ StacksInv'
<1>1. /\ pc[t] = "unlock" /\ UNCHANGED <<idToName, lockHistory, LLockStack, want>>
      /\ held' = [held EXCEPT ![t] = Pop(@)]
      /\ pc' = [pc EXCEPT ![t] = "run"]
  BY DEF Unlock, At, Goto, graphVars
<1>2. StackOf(t) /\ KnownOf(t)
  BY DEF StacksInv
<1>3. Len(LLockStack[t]) + 1 = Len(held[t]) /\ Len(LLockStack[t]) \in Nat /\ held[t] # <<>>
  BY <1>1, <1>2, Lengths DEF StackOf
<1>4. /\ Pop(held[t]) \in Seq(Guards) /\ Len(Pop(held[t])) = Len(held[t]) - 1
      /\ \A i \in 1..Len(held[t]) - 1 : Pop(held[t])[i] = held[t][i]
  BY <1>3, Lengths, PopProperties
<1>5. TypeOK'
  BY <1>1, <1>4 DEF TypeOK, Ids
<1>6. held'[t] = Pop(held[t]) /\ pc'[t] = "run"
  BY <1>1 DEF TypeOK
<1>7. KnownOf(t)'
  <2>1. \A name : Known(name)' = Known(name)
    BY <1>1, NamesKept
  <2> QED
    BY <1>2, <1>3, <1>4, <1>6, <2>1 DEF KnownOf
<1>8. StackOf(t)'
  <2>1. ASSUME NEW i \in 1..Len(LLockStack[t]) PROVE Number(GuardAt(t, i))' = Number(GuardAt(t, i))
    <3>1. GuardAt(t, i)' = GuardAt(t, i)
      BY <1>3, <1>4, <1>6 DEF GuardAt
    <3> QED
      BY <1>1, <3>1, NamesKept DEF Number
  <2> QED
    BY <1>1, <1>2, <1>3, <1>4, <1>6, <2>1 DEF StackOf
<1>9. ASSUME NEW u \in Threads, u # t PROVE StackOf(u)' /\ KnownOf(u)'
  BY <1>1, <1>9, OthersKept DEF TypeOK
<1>10. NamesOnce'
  BY <1>1 DEF StacksInv, NamesOnce, Ids
<1> QED
  BY <1>5, <1>7, <1>8, <1>9, <1>10 DEF StacksInv

\* The search ends, and the number is pushed.
LEMMA CheckEndStacks ==
    ASSUME TypeOK, StacksInv, NEW t \in Threads, CheckEnd(t)
    PROVE  TypeOK' /\ StacksInv'
<1> DEFINE id == Number(want[t])
<1>1. /\ pc[t] = "check" /\ UNCHANGED <<idToName, lockHistory, want, held>>
      /\ LLockStack' = [LLockStack EXCEPT ![t] = Append(@, id)]
      /\ pc' = [pc EXCEPT ![t] = "wait"]
  BY DEF CheckEnd, Searches, At, Goto, graphVars, Number
<1>2. StackOf(t) /\ KnownOf(t) /\ want[t] \in Guards /\ Known(NameOf[want[t][1]])
  BY <1>1 DEF StacksInv, KnownOf
<1>3. id \in Nat
  <2>1. idToName \in Seq(Names) /\ id \in Ids
    BY <1>2, KnownNumber DEF TypeOK, Number
  <2> QED
    BY <2>1, LenProperties DEF Ids
<1>4. /\ Append(LLockStack[t], id) \in Seq(Nat)
      /\ Len(Append(LLockStack[t], id)) = Len(LLockStack[t]) + 1
      /\ Append(LLockStack[t], id)[Len(LLockStack[t]) + 1] = id
      /\ \A i \in 1..Len(LLockStack[t]) : Append(LLockStack[t], id)[i] = LLockStack[t][i]
  BY <1>3, Lengths, AppendProperties
<1>5. TypeOK'
  BY <1>1, <1>4 DEF TypeOK, Ids
<1>6. LLockStack'[t] = Append(LLockStack[t], id) /\ pc'[t] = "wait"
  BY <1>1 DEF TypeOK
<1>7. KnownOf(t)'
  BY <1>1, <1>2, <1>6, NamesKept DEF KnownOf
<1>8. StackOf(t)'
  <2>1. \A i : GuardAt(t, i)' = GuardAt(t, i) /\ Number(GuardAt(t, i))' = Number(GuardAt(t, i))
    BY <1>1, NamesKept DEF GuardAt, Number
  <2>2. Len(LLockStack[t]) = Len(held[t]) /\ Len(held[t]) \in Nat
    BY <1>1, <1>2, Lengths DEF StackOf
  <2>3. \A i \in 1..Len(held[t]) + 1 : i \in 1..Len(held[t]) \/ i = Len(held[t]) + 1
    BY <2>2
  <2>4. GuardAt(t, Len(held[t]) + 1) = want[t]
    BY <2>2 DEF GuardAt
  <2> QED
    BY <1>1, <1>2, <1>4, <1>6, <2>1, <2>2, <2>3, <2>4 DEF StackOf
<1>9. ASSUME NEW u \in Threads, u # t PROVE StackOf(u)' /\ KnownOf(u)'
  BY <1>1, <1>9, OthersKept DEF TypeOK
<1>10. NamesOnce'
  BY <1>1 DEF StacksInv, NamesOnce, Ids
<1> QED
  BY <1>5, <1>7, <1>8, <1>9, <1>10 DEF StacksInv

\* The other steps of the search
Quiet == UNCHANGED <<idToName, lockHistory, LLockStack, want, held, pc>>

LEMMA QuietStacks ==
    ASSUME TypeOK, StacksInv, Quiet
    PROVE  TypeOK' /\ StacksInv'
<1>1. TypeOK'
  BY DEF Quiet, TypeOK, Ids
<1>2. \A u \in Threads : KnownOf(u)' /\ StackOf(u)'
  BY NamesKept DEF Quiet, StacksInv, KnownOf, StackOf, Number, GuardAt
<1>3. NamesOnce'
  BY DEF Quiet, StacksInv, NamesOnce, Ids
<1> QED
  BY <1>1, <1>2, <1>3 DEF StacksInv

-----------------------------------------------------------------------------
(* The graph *)

\* A stack that stays has its edges, whatever edges are added.
LEMMA EdgesKept ==
    ASSUME NEW t \in Threads, EdgesOf(t), LLockStack'[t] = LLockStack[t], Checked \subseteq Checked'
    PROVE  EdgesOf(t)'
BY DEF EdgesOf, Linked

\* A name without edges is on no cycle.
LEMMA CyclicKept ==
    ASSUME NEW edges \in SUBSET (Ids \X Ids), ~Cyclic(edges), NEW E, E = edges
    PROVE  \A S \in SUBSET (Ids') : S # {} => ~(\A id \in S : \E next \in S : <<id, next>> \in E)
<1> SUFFICES ASSUME NEW S \in SUBSET (Ids'), S # {},
                    \A id \in S : \E next \in S : <<id, next>> \in edges
             PROVE  FALSE
  OBVIOUS
<1>1. S \subseteq Ids
  OBVIOUS
<1> QED
  BY <1>1 DEF Cyclic

\* While nobody searches every edge has been searched for.
LEMMA AllChecked ==
    ASSUME Checkers = {}
    PROVE  Checked = lockHistory
BY DEF Checked

LEMMA PushLockGraph ==
    ASSUME TypeOK, StacksInv, GraphInv, NEW t \in Threads, NEW guard \in Guards, PushLock(t, guard)
    PROVE  GraphInv' /\ Checkers' = {} /\ Checkers = {}
<1> DEFINE id == Number(guard)
<1>1. /\ Ask(t, guard) /\ ~NewEdge(t, id) /\ lockHistory' = lockHistory
      /\ LLockStack' = [LLockStack EXCEPT ![t] = Append(@, id)]
      /\ pc' = [pc EXCEPT ![t] = "wait"]
  BY DEF PushLock, Goto, Number
<1>2. Checkers = {} /\ Checkers' = {}
  BY <1>1 DEF Checkers, Ask, Enters, TypeOK
<1>3. Checked = lockHistory /\ Checked' = lockHistory
  BY <1>1, <1>2 DEF Checked
<1>4. id \in Nat
  BY <1>1, AskNumbers DEF StacksInv
<1>5. /\ Len(Append(LLockStack[t], id)) = Len(LLockStack[t]) + 1
      /\ Append(LLockStack[t], id)[Len(LLockStack[t]) + 1] = id
      /\ \A i \in 1..Len(LLockStack[t]) : Append(LLockStack[t], id)[i] = LLockStack[t][i]
  BY <1>4, Lengths, AppendProperties
<1>6. EdgesOf(t)'
  <2> SUFFICES ASSUME NEW i \in 1..Len(LLockStack[t])
               PROVE  Linked(LLockStack[t][i], LLockStack[t][i + 1])'
    BY <1>1, <1>5, Lengths DEF EdgesOf, TypeOK
  <2>1. LLockStack'[t] = Append(LLockStack[t], id)
    BY <1>1 DEF TypeOK
  <2>2. CASE i < Len(LLockStack[t])
    <3>1. Linked(LLockStack[t][i], LLockStack[t][i + 1])
      BY <2>2, Lengths DEF GraphInv, EdgesOf
    <3>2. LLockStack'[t][i] = LLockStack[t][i] /\ LLockStack'[t][i + 1] = LLockStack[t][i + 1]
      BY <1>5, <2>1, <2>2, Lengths
    <3> QED
      BY <1>3, <3>1, <3>2 DEF Linked
  <2>3. CASE i = Len(LLockStack[t])
    <3>1. LLockStack'[t][i] = Top(LLockStack[t]) /\ LLockStack'[t][i + 1] = id
      BY <1>5, <2>1, <2>3, Lengths DEF Top
    <3>2. Top(LLockStack[t]) = id \/ <<Top(LLockStack[t]), id>> \in lockHistory
      BY <1>1, <2>3, Lengths DEF NewEdge
    <3> QED
      BY <1>3, <3>1, <3>2 DEF Linked
  <2> QED
    BY <2>2, <2>3, Lengths
<1>7. ASSUME NEW u \in Threads, u # t PROVE EdgesOf(u)'
  BY <1>1, <1>3, <1>7, EdgesKept DEF GraphInv, TypeOK
<1>8. ~Cyclic(Checked)'
  BY <1>3, CyclicKept DEF GraphInv, Cyclic, TypeOK
<1> QED
  BY <1>1, <1>2, <1>6, <1>7, <1>8 DEF GraphInv, OneChecker, NoLoops

LEMMA PushLockNewGraph ==
    ASSUME TypeOK, StacksInv, GraphInv, NEW t \in Threads, NEW guard \in Guards, PushLockNew(t, guard)
    PROVE  GraphInv' /\ Checkers' = {t} /\ Checkers = {}
<1> DEFINE id == Number(guard)
<1>1. /\ Ask(t, guard) /\ NewEdge(t, id) /\ LLockStack' = LLockStack
      /\ lockHistory' = lockHistory \cup {<<Top(LLockStack[t]), id>>}
      /\ pc' = [pc EXCEPT ![t] = "check"] /\ want'[t] = guard
  BY DEF PushLockNew, Ask, Goto, Number, TypeOK
<1>2. Checkers = {} /\ Checkers' = {t}
  BY <1>1 DEF Checkers, Ask, Enters, TypeOK
<1>3. Number(guard)' = id
  BY <1>1, AskNumbers DEF StacksInv
<1>4. Checked = lockHistory
  BY <1>2 DEF Checked
<1>5. Checked' = lockHistory
  <2>1. Number(want[t])' = id
    BY <1>1, <1>3 DEF Number
  <2>2. NewEdgeOf(t)' = <<Top(LLockStack[t]), id>>
    BY <1>1, <2>1 DEF NewEdgeOf, Top
  <2>3. {NewEdgeOf(u) : u \in Checkers}' = {NewEdgeOf(t)'}
    BY <1>2
  <2> QED
    BY <1>1, <2>2, <2>3 DEF Checked, NewEdge
<1>6. ASSUME NEW u \in Threads PROVE EdgesOf(u)'
  BY <1>1, <1>4, <1>5, EdgesKept DEF GraphInv
<1>7. ~Cyclic(Checked)'
  BY <1>4, <1>5, CyclicKept DEF GraphInv, Cyclic, TypeOK
<1>8. OneChecker'
  <2>1. NewEdgeOf(t)' = <<Top(LLockStack[t]), id>>
    BY <1>1, <1>3 DEF NewEdgeOf, Top, Number
  <2> QED
    BY <1>1, <1>2, <2>1 DEF OneChecker, NewEdge
<1>9. NoLoops'
  BY <1>1 DEF GraphInv, NoLoops, NewEdge
<1> QED
  BY <1>2, <1>6, <1>7, <1>8, <1>9 DEF GraphInv

LEMMA PopLockGraph ==
    ASSUME TypeOK, StacksInv, GraphInv, NEW t \in Threads, PopLock(t)
    PROVE  GraphInv' /\ Checkers' = {} /\ Checkers = {}
<1>1. /\ UNCHANGED <<idToName, lockHistory>> /\ LLockStack[t] # <<>>
      /\ LLockStack' = [LLockStack EXCEPT ![t] = Pop(@)]
      /\ pc' = [pc EXCEPT ![t] = "unlock"]
  BY PopLockStacks DEF PopLock, Goto, graphVars
<1>2. Checkers = {} /\ Checkers' = {}
  BY <1>1 DEF Checkers, PopLock, Enters, TypeOK
<1>3. Checked = lockHistory /\ Checked' = lockHistory
  BY <1>1, <1>2 DEF Checked
<1>4. EdgesOf(t)'
  <2>1. /\ Len(Pop(LLockStack[t])) = Len(LLockStack[t]) - 1 /\ Len(LLockStack[t]) \in Nat
        /\ \A i \in 1..Len(LLockStack[t]) - 1 : Pop(LLockStack[t])[i] = LLockStack[t][i]
    BY <1>1, Lengths, PopProperties
  <2>2. LLockStack'[t] = Pop(LLockStack[t])
    BY <1>1 DEF TypeOK
  <2> QED
    BY <1>3, <2>1, <2>2 DEF GraphInv, EdgesOf, Linked
<1>5. ASSUME NEW u \in Threads, u # t PROVE EdgesOf(u)'
  BY <1>1, <1>3, <1>5, EdgesKept DEF GraphInv, TypeOK
<1>6. ~Cyclic(Checked)'
  BY <1>1, <1>3 DEF GraphInv, Cyclic, Ids
<1> QED
  BY <1>1, <1>2, <1>4, <1>5, <1>6 DEF GraphInv, OneChecker, NoLoops

\* A thread that does not search goes on, and does not search afterwards either.
LEMMA BesideGraph ==
    ASSUME TypeOK, GraphInv, NEW t \in Threads, pc[t] # "check",
           NEW x, NEW where \in {"run", "wait", "unlock"},
           pc' = [pc EXCEPT ![t] = where], want' = [want EXCEPT ![t] = x],
           UNCHANGED <<idToName, lockHistory, LLockStack>>
    PROVE  GraphInv' /\ Checkers' = Checkers
<1>1. Checkers' = Checkers
  BY DEF Checkers, TypeOK
<1>2. \A u \in Checkers : NewEdgeOf(u)' = NewEdgeOf(u)
  <2> TAKE u \in Checkers
  <2>1. want'[u] = want[u]
    BY DEF Checkers, TypeOK
  <2>2. Number(want[u])' = Number(want[u])
    BY <2>1, NamesKept DEF Number
  <2> QED
    BY <2>2 DEF NewEdgeOf, Top
<1>3. Checked' = Checked
  BY <1>1, <1>2 DEF Checked
<1>4. \A u \in Threads : EdgesOf(u)'
  BY <1>3, EdgesKept DEF GraphInv
<1> QED
  BY <1>1, <1>2, <1>3, <1>4 DEF GraphInv, OneChecker, NoLoops, Cyclic, Ids

LEMMA QuietGraph ==
    ASSUME GraphInv, Quiet
    PROVE  GraphInv' /\ Checkers' = Checkers
<1>1. Checkers' = Checkers
  BY DEF Checkers, Quiet
<1>2. \A u \in Checkers : NewEdgeOf(u)' = NewEdgeOf(u)
  BY NamesKept DEF NewEdgeOf, Top, Number, Quiet
<1>3. Checked' = Checked
  BY <1>1, <1>2 DEF Checked, Quiet
<1>4. \A u \in Threads : EdgesOf(u)'
  BY <1>3, EdgesKept DEF GraphInv, Quiet
<1> QED
  BY <1>1, <1>2, <1>3, <1>4 DEF GraphInv, OneChecker, NoLoops, Cyclic, Ids, Quiet

-----------------------------------------------------------------------------
(* The search *)

Frame == [at : Ids, rest : SUBSET Ids]

\* The path is a sequence of frames.
LEMMA Frames ==
    ASSUME TypeOK, SearchTypeOK
    PROVE  /\ Len(frames) \in Nat /\ DOMAIN frames = 1..Len(frames)
           /\ \A k \in 1..Len(frames) : frames[k] \in Frame
           /\ frames # <<>> <=> Len(frames) > 0
           /\ Ids \subseteq Nat \ {0} /\ Ids = 1..Len(idToName) /\ Len(idToName) \in Nat
           /\ \A id \in Ids : NextSet(id) \in SUBSET Ids
<1>1. frames \in Seq(Frame) /\ idToName \in Seq(Names)
  BY DEF SearchTypeOK, TypeOK, Frame
<1>2. Len(frames) \in Nat /\ DOMAIN frames = 1..Len(frames) /\ (frames # <<>> <=> Len(frames) > 0)
  BY <1>1, LenProperties, EmptySeq
<1>3. \A k \in 1..Len(frames) : frames[k] \in Frame
  BY <1>1, <1>2, ElementOfSeq
<1>4. Ids = 1..Len(idToName) /\ Len(idToName) \in Nat
  BY <1>1, LenProperties DEF Ids
<1>5. \A id \in Ids : NextSet(id) \in SUBSET Ids
  BY DEF NextSet, TypeOK
<1> QED
  BY <1>2, <1>3, <1>4, <1>5

\* An edge to each of the locks of NextSet
LEMMA EdgeOfNextSet ==
    ASSUME TypeOK
    PROVE  \A id, next : next \in NextSet(id) <=> <<id, next>> \in lockHistory
<1> TAKE id, next
<1>1. \A e \in lockHistory : e = <<e[1], e[2]>>
  BY DEF TypeOK
<1> QED
  BY <1>1 DEF NextSet

\* The lock that Dfs is at, and the edges it has yet to try.
LEMMA HereAndRest ==
    ASSUME TypeOK, SearchTypeOK, frames # <<>>
    PROVE  /\ Len(frames) \in 1..Len(frames) /\ Here \in Ids /\ Rest \in SUBSET Ids
           /\ Here = frames[Len(frames)].at /\ Rest = frames[Len(frames)].rest
BY Frames DEF Here, Rest, Top, Frame

\* The next edge is one of these.
LEMMA ThereInRest ==
    ASSUME TypeOK, SearchTypeOK, frames # <<>>, Rest # {}
    PROVE  There \in Rest /\ There \in Ids
<1>1. Rest \subseteq Nat /\ Rest \subseteq Ids
  BY HereAndRest, Frames
<1>2. PICK id \in Rest : \A other \in Rest : ~(<<other, id>> \in OpToRel(<, Nat))
  BY <1>1, NatLessThanWellFounded, WFMin
<1>3. \A other \in Rest : id <= other
  <2> TAKE other \in Rest
  <2>1. ~(other < id)
    BY <1>1, <1>2 DEF OpToRel
  <2> QED
    BY <1>1, <2>1
<1>4. There \in Rest
  BY <1>3 DEF There
<1> QED
  BY <1>1, <1>4

\* What is on the path was discovered and is not finished.
LEMMA PathDiscovered ==
    ASSUME TypeOK, SearchTypeOK, OrderOK, NEW k \in 1..Len(frames)
    PROVE  /\ Discovered(frames[k].at) /\ frames[k].at \notin finished
           /\ frames[k].at \in Ids /\ OnPath(frames[k].at)
<1>1. frames[k].at \in Ids /\ OnPath(frames[k].at)
  BY Frames DEF OnPath, Frame
<1> QED
  BY <1>1 DEF OrderOK, SearchTypeOK

\* Later on the path is discovered later.
LEMMA PathOrder ==
    ASSUME TypeOK, SearchTypeOK, OrderOK, NEW i \in 1..Len(frames), NEW k \in 1..Len(frames)
    PROVE  /\ i < k => discoveredOrder[frames[i].at] < discoveredOrder[frames[k].at]
           /\ i # k => frames[i].at # frames[k].at
<1>1. discoveredOrder[frames[i].at] \in Int /\ discoveredOrder[frames[k].at] \in Int
  BY PathDiscovered DEF SearchTypeOK
<1>2. i < k => discoveredOrder[frames[i].at] < discoveredOrder[frames[k].at]
  BY Frames DEF OrderOK
<1>3. k < i => discoveredOrder[frames[k].at] < discoveredOrder[frames[i].at]
  BY Frames DEF OrderOK
<1>4. i # k => i < k \/ k < i
  BY Frames
<1> QED
  BY <1>1, <1>2, <1>3, <1>4

\* Nothing but the bookkeeping of the search changes.
Searching(t) == pc[t] = "check" /\ Quiet /\ Ids' = Ids /\ \A id : NextSet(id)' = NextSet(id)

LEMMA SearchSteps ==
    ASSUME NEW t \in Threads,
           CheckRoot(t) \/ CheckNext(t) \/ DfsVisit(t) \/ DfsSkip(t) \/ DfsBack(t)
             \/ DfsReport(t) \/ DfsReturn(t)
    PROVE  Searching(t) /\ Checkers # {}
<1>1. pc[t] = "check" /\ Quiet
  BY DEF CheckRoot, CheckNext, DfsVisit, DfsSkip, DfsBack, DfsReport, DfsReturn, Searches, At,
         Quiet, graphVars, threadVars
<1> QED
  BY <1>1 DEF Searching, Quiet, Ids, NextSet, Checkers

\* PushLock starts the search, with nothing discovered.
LEMMA SearchStarts ==
    ASSUME TypeOK, StacksInv, SearchInv, NEW t \in Threads, NEW guard \in Guards,
           PushLockNew(t, guard)
    PROVE  Search'
<1>1. Checkers = {}
  BY PushLockNewGraph DEF PushLockNew, Ask, Enters, Checkers
<1>2. /\ frames' = <<>> /\ now' = 0 /\ discoveredCount' = 0 /\ finished' = {} /\ root' = 1
      /\ discoveredOrder' = [i \in Ids' |-> -1] /\ parent' = [i \in Ids' |-> -1]
  BY <1>1 DEF SearchInv, PushLockNew, Ids
<1>3. idToName' \in Seq(Names)
  BY AskNumbers DEF PushLockNew, StacksInv
<1>4. Len(idToName') \in Nat /\ Ids' = 1..Len(idToName')
  BY <1>3, LenProperties DEF Ids
<1>5. SearchTypeOK'
  BY <1>2, <1>4 DEF SearchTypeOK
<1>6. OrderOK'
  BY <1>2, <1>4 DEF OrderOK, OnPath, Discovered
<1>7. PathOK' /\ TriedOK'
  BY <1>2 DEF PathOK, TriedOK
<1>8. FinishedOK' /\ ReportOK'
  BY <1>2 DEF FinishedOK, ReportOK, Closed, Acyclic
<1> QED
  BY <1>5, <1>6, <1>7, <1>8 DEF Search

\* Nobody searches, before or after.
LEMMA NoSearch ==
    ASSUME SearchInv, Checkers = {}, Checkers' = {}, UNCHANGED dfsVars
    PROVE  SearchInv'
BY DEF SearchInv, dfsVars

\* Another thread goes on during the search.
LEMMA BesideSearch ==
    ASSUME SearchInv, Checkers' = Checkers, UNCHANGED <<graphVars, dfsVars, crashed>>
    PROVE  SearchInv'
<1>1. SearchTypeOK => SearchTypeOK'
  BY DEF SearchTypeOK, Ids, graphVars, dfsVars
<1>2. OrderOK => OrderOK'
  BY DEF OrderOK, Ids, OnPath, Discovered, graphVars, dfsVars
<1>3. (PathOK => PathOK') /\ (TriedOK => TriedOK')
  BY DEF PathOK, TriedOK, NextSet, graphVars, dfsVars
<1>4. FinishedOK => FinishedOK'
  BY DEF FinishedOK, Closed, Acyclic, NextSet, graphVars, dfsVars
<1>5. ReportOK => ReportOK'
  BY DEF ReportOK, Rest, There, Top, Cyclic, Ids, graphVars, dfsVars
<1> QED
  BY <1>1, <1>2, <1>3, <1>4, <1>5 DEF SearchInv, Search, dfsVars

\* Dfs of a root that was not discovered
LEMMA CheckRootSearch ==
    ASSUME TypeOK, Search, NEW t \in Threads, CheckRoot(t)
    PROVE  Search'
<1>1. /\ frames = <<>> /\ now = 0 /\ root \in Ids /\ ~Discovered(root)
      /\ discoveredOrder' = [discoveredOrder EXCEPT ![root] = discoveredCount]
      /\ discoveredCount' = discoveredCount + 1
      /\ frames' = Call(frames, root)
      /\ UNCHANGED <<finished, parent, root, now>>
  BY DEF CheckRoot, Searches, Discover, Discovered
<1>2. /\ Ids' = Ids /\ (\A id : NextSet(id)' = NextSet(id)) /\ lockHistory' = lockHistory
      /\ idToName' = idToName
  BY SearchSteps DEF Searching, Quiet
<1>3. SearchTypeOK /\ OrderOK
  BY DEF Search
<1>4. frames' = <<[at |-> root, rest |-> NextSet(root)]>>
  BY <1>1, AppendProperties DEF Call
<1>5. [at |-> root, rest |-> NextSet(root)] \in Frame
  BY <1>1, <1>3, Frames DEF Frame
<1>6. SearchTypeOK'
  <2>1. frames' \in Seq(Frame)
    BY <1>4, <1>5
  <2>2. discoveredOrder' \in [Ids -> Int] /\ discoveredCount' \in Nat
    BY <1>1, <1>3 DEF SearchTypeOK
  <2> QED
    BY <1>1, <1>2, <1>3, <2>1, <2>2 DEF SearchTypeOK, Frame
<1>7. \A id : OnPath(id)' <=> id = root
  BY <1>4 DEF OnPath
<1>8. \A id \in Ids : Discovered(id)' <=> Discovered(id) \/ id = root
  BY <1>1, <1>3 DEF SearchTypeOK, Discovered
<1>9. OrderOK'
  <2>1. \A id : ~OnPath(id)
    BY <1>1 DEF OnPath
  <2>2. \A id \in Ids : discoveredOrder'[id] >= -1 /\ discoveredOrder'[id] < discoveredCount'
    BY <1>1, <1>3 DEF SearchTypeOK, OrderOK
  <2>3. root \notin finished
    BY <1>1, <1>3 DEF OrderOK
  <2>4. \A id \in Ids : id \in finished \/ id = root <=> Discovered(id)'
    BY <1>3, <1>8, <2>1 DEF OrderOK
  <2>5. DOMAIN frames' = {1}
    BY <1>4
  <2>6. \A id \in Ids : id < root => Discovered(id)'
    BY <1>3, <1>8 DEF OrderOK
  <2> QED
    BY <1>1, <1>2, <1>3, <1>7, <2>2, <2>3, <2>4, <2>5, <2>6 DEF OrderOK
<1>10. PathOK' /\ TriedOK'
  BY <1>2, <1>4 DEF PathOK, TriedOK
<1>11. FinishedOK' /\ ReportOK'
  BY <1>1, <1>2 DEF Search, FinishedOK, ReportOK, Closed, Acyclic
<1> QED
  BY <1>6, <1>9, <1>10, <1>11 DEF Search

\* On to the next root
LEMMA CheckNextSearch ==
    ASSUME TypeOK, Search, NEW t \in Threads, CheckNext(t)
    PROVE  Search'
<1>1. /\ frames = <<>> /\ now = 0 /\ root \in Ids /\ Discovered(root) /\ root' = root + 1
      /\ UNCHANGED <<discoveredOrder, discoveredCount, finished, parent, frames, now>>
  BY DEF CheckNext, Searches, Discovered
<1>2. /\ Ids' = Ids /\ (\A id : NextSet(id)' = NextSet(id)) /\ lockHistory' = lockHistory
      /\ idToName' = idToName
  BY SearchSteps DEF Searching, Quiet
<1>3. SearchTypeOK'
  BY <1>1, <1>2, Frames DEF Search, SearchTypeOK
<1>4. OrderOK'
  <2>1. \A id \in Ids : id < root + 1 => id < root \/ id = root
    BY <1>1, Frames DEF Search
  <2>2. \A id \in Ids : id < root' => Discovered(id)'
    BY <1>1, <2>1 DEF Search, OrderOK, Discovered
  <2> QED
    BY <1>1, <1>2, <2>2 DEF Search, OrderOK, Discovered, OnPath
<1>5. PathOK' /\ TriedOK' /\ FinishedOK' /\ ReportOK'
  BY <1>1, <1>2 DEF Search, PathOK, TriedOK, FinishedOK, ReportOK, Closed, Acyclic
<1> QED
  BY <1>3, <1>4, <1>5 DEF Search

\* The search ends with no lock left: the graph has no cycle.
LEMMA CheckEndSearch ==
    ASSUME TypeOK, StacksInv, GraphInv, Search, NEW t \in Threads, CheckEnd(t)
    PROVE  GraphInv' /\ SearchInv' /\ Checkers' = {} /\ ~Cyclic(lockHistory)
<1> DEFINE id == Number(want[t])
<1>1. /\ pc[t] = "check" /\ frames = <<>> /\ now = 0 /\ root \notin Ids
      /\ UNCHANGED <<idToName, lockHistory, frames, now>>
      /\ LLockStack' = [LLockStack EXCEPT ![t] = Append(@, id)]
      /\ pc' = [pc EXCEPT ![t] = "wait"]
  BY DEF CheckEnd, Searches, At, Goto, graphVars, Number
<1>2. t \in Checkers /\ Checkers = {t} /\ LLockStack[t] # <<>> /\ NewEdgeOf(t) \in lockHistory
  BY <1>1 DEF Checkers, GraphInv, OneChecker
<1>3. Checkers' = {}
  BY <1>1, <1>2 DEF Checkers, TypeOK
<1>4. ~Cyclic(lockHistory)
  <2>1. \A k \in Ids : k \in finished
    <3>1. \A k \in Ids : k < root
      BY <1>1, Frames DEF Search, SearchTypeOK
    <3>2. \A k : ~OnPath(k)
      BY <1>1 DEF OnPath
    <3> QED
      BY <3>1, <3>2 DEF Search, OrderOK
  <2>2. finished = Ids
    BY <2>1 DEF Search, SearchTypeOK
  <2> QED
    BY <2>2 DEF Search, FinishedOK, Acyclic, Cyclic
<1>5. Checked' = lockHistory /\ Checked = lockHistory \ {<<Top(LLockStack[t]), id>>}
  BY <1>1, <1>2, <1>3 DEF Checked, NewEdgeOf
<1>6. ~Cyclic(Checked)'
  BY <1>1, <1>4, <1>5 DEF Cyclic, Ids
<1>7. id \in Nat
  <2>1. want[t] \in Guards /\ Known(NameOf[want[t][1]])
    BY <1>1 DEF StacksInv, KnownOf
  <2> QED
    BY <2>1, KnownNumber, Frames DEF Number, Search
<1>8. /\ Len(Append(LLockStack[t], id)) = Len(LLockStack[t]) + 1
      /\ Append(LLockStack[t], id)[Len(LLockStack[t]) + 1] = id
      /\ \A i \in 1..Len(LLockStack[t]) : Append(LLockStack[t], id)[i] = LLockStack[t][i]
  BY <1>7, Lengths, AppendProperties
<1>9. EdgesOf(t)'
  <2> SUFFICES ASSUME NEW i \in 1..Len(LLockStack[t])
               PROVE  Linked(LLockStack[t][i], LLockStack[t][i + 1])'
    BY <1>1, <1>8, Lengths DEF EdgesOf, TypeOK
  <2>1. LLockStack'[t] = Append(LLockStack[t], id)
    BY <1>1 DEF TypeOK
  <2>2. CASE i < Len(LLockStack[t])
    <3>1. Linked(LLockStack[t][i], LLockStack[t][i + 1])
      BY <2>2, Lengths DEF GraphInv, EdgesOf
    <3>2. LLockStack'[t][i] = LLockStack[t][i] /\ LLockStack'[t][i + 1] = LLockStack[t][i + 1]
      BY <1>8, <2>1, <2>2, Lengths
    <3> QED
      BY <1>5, <3>1, <3>2 DEF Linked
  <2>3. CASE i = Len(LLockStack[t])
    <3>1. LLockStack'[t][i] = Top(LLockStack[t]) /\ LLockStack'[t][i + 1] = id
      BY <1>8, <2>1, <2>3, Lengths DEF Top
    <3>2. <<Top(LLockStack[t]), id>> \in lockHistory
      BY <1>2 DEF NewEdgeOf
    <3> QED
      BY <1>5, <3>1, <3>2 DEF Linked
  <2> QED
    BY <2>2, <2>3, Lengths
<1>10. ASSUME NEW u \in Threads, u # t PROVE EdgesOf(u)'
  BY <1>1, <1>5, <1>10, EdgesKept DEF GraphInv, TypeOK
<1>11. GraphInv'
  BY <1>1, <1>3, <1>6, <1>9, <1>10 DEF GraphInv, OneChecker, NoLoops
<1> QED
  BY <1>1, <1>3, <1>4, <1>11 DEF SearchInv

\* The path after an edge was tried
LEMMA TriedProperties ==
    ASSUME TypeOK, SearchTypeOK, frames # <<>>
    PROVE  /\ Tried \in Seq(Frame) /\ Len(Tried) = Len(frames) /\ DOMAIN Tried = 1..Len(frames)
           /\ \A k \in 1..Len(frames) : Tried[k] \in Frame /\ Tried[k].at = frames[k].at
           /\ \A k \in 1..Len(frames) - 1 : Tried[k].rest = frames[k].rest
           /\ Tried[Len(frames)].rest = Rest \ {There}
<1> DEFINE n == Len(frames)
<1>1. frames \in Seq(Frame) /\ n \in Nat \ {0} /\ \A k \in 1..n : frames[k] \in Frame
  <2>1. frames \in Seq(Frame)
    BY DEF SearchTypeOK, Frame
  <2>2. n \in Nat /\ n > 0 /\ \A k \in 1..n : frames[k] \in Frame
    BY Frames
  <2> QED
    BY <2>1, <2>2
<1>2. Tried = [frames EXCEPT ![n] = [frames[n] EXCEPT !.rest = Rest \ {There}]]
  BY HereAndRest DEF Tried
<1>3. [frames[n] EXCEPT !.rest = Rest \ {There}] \in Frame
  BY <1>1, HereAndRest DEF Frame
<1>4. /\ [frames[n] EXCEPT !.rest = Rest \ {There}].at = frames[n].at
      /\ [frames[n] EXCEPT !.rest = Rest \ {There}].rest = Rest \ {There}
  BY <1>1 DEF Frame
<1>5. Tried \in Seq(Frame) /\ Len(Tried) = n
  BY <1>1, <1>2, <1>3, ExceptSeq
<1>6. /\ \A k \in 1..n - 1 : Tried[k] = frames[k]
      /\ Tried[n] = [frames[n] EXCEPT !.rest = Rest \ {There}]
  <2>1. DOMAIN frames = 1..n
    BY Frames
  <2>2. n \in Nat \ {0}
    BY <1>1
  <2>3. n \in 1..n /\ \A k \in 1..n - 1 : k \in 1..n /\ k # n
    BY <2>2
  <2> QED
    BY <1>2, <2>1, <2>3
<1>7. \A k \in 1..n : k \in 1..n - 1 \/ k = n
  BY <1>1
<1> QED
  BY <1>1, <1>3, <1>4, <1>5, <1>6, <1>7, LenProperties

\* A lock that was not discovered is added to the path.
LEMMA DfsVisitSearch ==
    ASSUME TypeOK, Search, NEW t \in Threads, DfsVisit(t)
    PROVE  Search'
<1> DEFINE n == Len(frames)
           new == [at |-> There, rest |-> NextSet(There)]
<1>1. /\ frames # <<>> /\ Rest # {} /\ now = 0 /\ ~Discovered(There)
      /\ parent' = [parent EXCEPT ![There] = Here]
      /\ discoveredOrder' = [discoveredOrder EXCEPT ![There] = discoveredCount]
      /\ discoveredCount' = discoveredCount + 1
      /\ frames' = Append(Tried, new)
      /\ UNCHANGED <<finished, root, now>>
  BY DEF DfsVisit, Searches, Discover, Discovered, Call
<1>2. /\ Ids' = Ids /\ (\A id : NextSet(id)' = NextSet(id)) /\ lockHistory' = lockHistory
      /\ idToName' = idToName
  BY SearchSteps DEF Searching, Quiet
<1>3. SearchTypeOK /\ OrderOK /\ PathOK /\ TriedOK
  BY DEF Search
<1>4. There \in Rest /\ There \in Ids /\ Here \in Ids /\ Here = frames[n].at /\ Rest = frames[n].rest
      /\ n \in Nat \ {0}
  BY <1>1, <1>3, ThereInRest, HereAndRest, Frames
<1>5. /\ Tried \in Seq(Frame) /\ Len(Tried) = n
      /\ \A k \in 1..n : Tried[k] \in Frame /\ Tried[k].at = frames[k].at
      /\ \A k \in 1..n - 1 : Tried[k].rest = frames[k].rest
      /\ Tried[n].rest = Rest \ {There}
  BY <1>1, <1>3, TriedProperties
<1>6. new \in Frame
  BY <1>3, <1>4, Frames DEF Frame
<1>7. /\ frames' \in Seq(Frame) /\ Len(frames') = n + 1 /\ DOMAIN frames' = 1..n + 1
      /\ frames'[n + 1] = new /\ \A k \in 1..n : frames'[k] = Tried[k]
  BY <1>1, <1>5, <1>6, AppendProperties, LenProperties
<1>8. /\ \A k \in 1..n : frames'[k].at = frames[k].at
      /\ frames'[n + 1].at = There
      /\ \A k \in 1..n + 1 : k \in 1..n \/ k = n + 1
  BY <1>4, <1>5, <1>7
<1>9. SearchTypeOK'
  <2>1. discoveredOrder' \in [Ids -> Int] /\ discoveredCount' \in Nat /\ parent' \in [Ids -> Int]
    <3>1. Here \in Int
      BY <1>3, <1>4, Frames
    <3>2. discoveredOrder' \in [Ids -> Int] /\ discoveredCount' \in Nat
      <4>1. discoveredOrder \in [Ids -> Int] /\ discoveredCount \in Nat
        BY <1>3 DEF SearchTypeOK
      <4>2. /\ discoveredOrder' = [discoveredOrder EXCEPT ![There] = discoveredCount]
            /\ discoveredCount' = discoveredCount + 1
        BY <1>1
      <4>3. discoveredCount' \in Nat
        BY <4>1, <4>2
      <4>4. discoveredOrder' \in [Ids -> Int]
        <5>1. discoveredCount \in Int
          BY <4>1
        <5>2. discoveredOrder \in [Ids -> Int]
          BY <4>1
        <5>3. discoveredOrder' = [discoveredOrder EXCEPT ![There] = discoveredCount]
          BY <4>2
        <5> QED
          BY <5>1, <5>2, <5>3
      <4> QED
        BY <4>3, <4>4
    <3>3. parent' \in [Ids -> Int]
      <4>1. parent \in [Ids -> Int] /\ parent' = [parent EXCEPT ![There] = Here]
        BY <1>1, <1>3 DEF SearchTypeOK
      <4> QED
        BY <3>1, <4>1
    <3> QED
      BY <3>2, <3>3
  <2> QED
    BY <1>1, <1>2, <1>3, <1>7, <2>1 DEF SearchTypeOK, Frame
<1>10. \A id : OnPath(id)' <=> OnPath(id) \/ id = There
  BY <1>3, <1>4, <1>7, <1>8, Frames DEF OnPath
<1>11. /\ \A id \in Ids : id # There => discoveredOrder'[id] = discoveredOrder[id]
       /\ discoveredOrder'[There] = discoveredCount
  BY <1>1, <1>3, <1>4 DEF SearchTypeOK
<1>12. \A id \in Ids : Discovered(id)' <=> Discovered(id) \/ id = There
  BY <1>3, <1>4, <1>11 DEF SearchTypeOK, Discovered
<1>13. \A k \in 1..n : frames[k].at # There /\ frames[k].at \in Ids
  BY <1>1, <1>3, PathDiscovered
<1>14. OrderOK'
  <2>1. \A id \in Ids : discoveredOrder'[id] >= -1 /\ discoveredOrder'[id] < discoveredCount'
    BY <1>1, <1>3, <1>4, <1>11 DEF SearchTypeOK, OrderOK
  <2>2. \A id \in Ids : id \in finished \/ OnPath(id)' <=> Discovered(id)'
    BY <1>3, <1>10, <1>12 DEF OrderOK
  <2>3. \A id \in finished : ~OnPath(id)'
    BY <1>1, <1>3, <1>4, <1>10 DEF OrderOK
  <2>4. ASSUME NEW i \in 1..n + 1, NEW k \in 1..n + 1, i < k
        PROVE  discoveredOrder'[frames'[i].at] < discoveredOrder'[frames'[k].at]
    <3>1. i \in 1..n /\ (k \in 1..n \/ k = n + 1)
      BY <1>4, <2>4
    <3>2. discoveredOrder'[frames'[i].at] = discoveredOrder[frames[i].at]
      BY <1>8, <1>11, <1>13, <3>1
    <3>3. CASE k \in 1..n
      <4>1. discoveredOrder'[frames'[k].at] = discoveredOrder[frames[k].at]
        BY <1>8, <1>11, <1>13, <3>3
      <4> QED
        BY <1>3, <2>4, <3>1, <3>2, <3>3, <4>1, PathOrder
    <3>4. CASE k = n + 1
      BY <1>3, <1>8, <1>11, <1>13, <3>1, <3>2, <3>4 DEF OrderOK
    <3> QED
      BY <3>1, <3>3, <3>4
  <2>5. \A id \in Ids : id < root => Discovered(id)'
    BY <1>3, <1>12 DEF OrderOK
  <2> QED
    BY <1>1, <1>2, <1>7, <2>1, <2>2, <2>3, <2>4, <2>5 DEF OrderOK
<1>15. PathOK'
  <2> SUFFICES ASSUME NEW k \in 1..n + 1, k > 1
               PROVE  /\ parent'[frames'[k].at] = frames'[k - 1].at
                      /\ <<frames'[k - 1].at, frames'[k].at>> \in lockHistory
    BY <1>2, <1>7 DEF PathOK
  <2>1. CASE k \in 1..n
    <3>1. parent[frames[k].at] = frames[k - 1].at /\ <<frames[k - 1].at, frames[k].at>> \in lockHistory
      BY <1>3, <2>1, Frames DEF PathOK
    <3>2. parent'[frames[k].at] = parent[frames[k].at]
      BY <1>1, <1>3, <1>13, <2>1 DEF SearchTypeOK
    <3>3. frames'[k - 1].at = frames[k - 1].at /\ frames'[k].at = frames[k].at
      BY <1>4, <1>8, <2>1
    <3> QED
      BY <3>1, <3>2, <3>3
  <2>2. CASE k = n + 1
    <3>1. frames'[k].at = There /\ frames'[k - 1].at = Here
      BY <1>4, <1>8, <2>2
    <3>2. parent'[There] = Here
      BY <1>1, <1>3, <1>4 DEF SearchTypeOK
    <3>3. There \in NextSet(Here)
      BY <1>3, <1>4, Frames DEF TriedOK
    <3>4. <<Here, There>> \in lockHistory
      BY <3>3, EdgeOfNextSet
    <3> QED
      BY <3>1, <3>2, <3>4
  <2> QED
    BY <1>8, <2>1, <2>2
<1>16. TriedOK'
  <2> SUFFICES ASSUME NEW k \in 1..n + 1
               PROVE  /\ frames'[k].rest \subseteq NextSet(frames'[k].at)
                      /\ \A id \in NextSet(frames'[k].at) \ frames'[k].rest :
                           id \in finished \/ (k < n + 1 /\ id = frames'[k + 1].at)
    BY <1>1, <1>2, <1>7 DEF TriedOK
  <2>1. CASE k \in 1..n - 1
    <3>1. /\ frames[k].rest \subseteq NextSet(frames[k].at)
          /\ \A id \in NextSet(frames[k].at) \ frames[k].rest : id \in finished \/ id = frames[k + 1].at
      BY <1>3, <1>4, <2>1, Frames DEF TriedOK
    <3>2. frames'[k].at = frames[k].at /\ frames'[k].rest = frames[k].rest
          /\ frames'[k + 1].at = frames[k + 1].at
      BY <1>4, <1>5, <1>7, <1>8, <2>1
    <3> QED
      BY <1>4, <2>1, <3>1, <3>2
  <2>2. CASE k = n
    <3>1. /\ frames[n].rest \subseteq NextSet(Here)
          /\ \A id \in NextSet(Here) \ frames[n].rest : id \in finished
      BY <1>3, <1>4, Frames DEF TriedOK
    <3>2. frames'[k].at = Here /\ frames'[k].rest = frames[n].rest \ {There} /\ frames'[k + 1].at = There
      BY <1>4, <1>5, <1>7, <1>8, <2>2
    <3> QED
      BY <1>4, <2>2, <3>1, <3>2
  <2>3. CASE k = n + 1
    BY <1>7, <2>3
  <2> QED
    BY <1>4, <2>1, <2>2, <2>3
<1>17. FinishedOK' /\ ReportOK'
  BY <1>1, <1>2 DEF Search, FinishedOK, ReportOK, Closed, Acyclic
<1> QED
  BY <1>9, <1>14, <1>15, <1>16, <1>17 DEF Search

\* An edge is skipped only if it leads to a lock that is finished.
LEMMA DfsSkipSearch ==
    ASSUME TypeOK, Search, NEW t \in Threads, DfsSkip(t)
    PROVE  Search'
<1> DEFINE n == Len(frames)
<1>1. /\ frames # <<>> /\ Rest # {} /\ now = 0 /\ Discovered(There)
      /\ discoveredOrder[Here] < discoveredOrder[There] \/ There \in finished
      /\ frames' = Tried
      /\ UNCHANGED <<discoveredOrder, discoveredCount, finished, parent, root, now>>
  BY DEF DfsSkip, Searches, Discovered
<1>2. /\ Ids' = Ids /\ (\A id : NextSet(id)' = NextSet(id)) /\ lockHistory' = lockHistory
      /\ idToName' = idToName
  BY SearchSteps DEF Searching, Quiet
<1>3. SearchTypeOK /\ OrderOK /\ PathOK /\ TriedOK
  BY DEF Search
<1>4. There \in Rest /\ There \in Ids /\ Here \in Ids /\ Here = frames[n].at /\ Rest = frames[n].rest
      /\ n \in Nat \ {0} /\ DOMAIN frames = 1..n
  BY <1>1, <1>3, ThereInRest, HereAndRest, Frames
<1>5. /\ Tried \in Seq(Frame) /\ Len(Tried) = n /\ DOMAIN Tried = 1..n
      /\ \A k \in 1..n : Tried[k] \in Frame /\ Tried[k].at = frames[k].at
      /\ \A k \in 1..n - 1 : Tried[k].rest = frames[k].rest
      /\ Tried[n].rest = Rest \ {There}
  BY <1>1, <1>3, TriedProperties
<1>6. There \in finished
  <2> SUFFICES ASSUME There \notin finished PROVE FALSE
    OBVIOUS
  <2>1. PICK k \in 1..n : frames[k].at = There
    BY <1>1, <1>3, <1>4 DEF OrderOK, OnPath
  <2>2. n \in 1..n /\ (k < n \/ k = n)
    <3>1. n \in Nat \ {0}
      BY <1>4
    <3> QED
      BY <3>1
  <2>3. discoveredOrder[frames[k].at] < discoveredOrder[frames[n].at] \/ k = n
    BY <1>3, <2>2, PathOrder
  <2>4. discoveredOrder[Here] \in Int /\ discoveredOrder[There] \in Int
    BY <1>3, <1>4 DEF SearchTypeOK
  <2> QED
    <3>1. discoveredOrder[Here] < discoveredOrder[There]
      BY <1>1
    <3>2. discoveredOrder[There] < discoveredOrder[Here] \/ There = Here
      BY <1>4, <2>1, <2>3
    <3> QED
      BY <2>4, <3>1, <3>2
<1>7. SearchTypeOK'
  BY <1>1, <1>2, <1>3, <1>5 DEF SearchTypeOK, Frame
<1>8. \A id : OnPath(id)' <=> OnPath(id)
  BY <1>1, <1>4, <1>5 DEF OnPath
<1>9. OrderOK'
  BY <1>1, <1>2, <1>3, <1>4, <1>5, <1>8 DEF OrderOK, Discovered
<1>10. PathOK'
  <2> SUFFICES ASSUME NEW k \in 1..n, k > 1
               PROVE  /\ parent[Tried[k].at] = Tried[k - 1].at
                      /\ <<Tried[k - 1].at, Tried[k].at>> \in lockHistory
    BY <1>1, <1>2, <1>5 DEF PathOK
  <2>1. k - 1 \in 1..n
    BY <1>4
  <2> QED
    BY <1>3, <1>4, <1>5, <2>1 DEF PathOK
<1>11. TriedOK'
  <2> SUFFICES ASSUME NEW k \in 1..n
               PROVE  /\ Tried[k].rest \subseteq NextSet(Tried[k].at)
                      /\ \A id \in NextSet(Tried[k].at) \ Tried[k].rest :
                           id \in finished \/ (k < n /\ id = Tried[k + 1].at)
    BY <1>1, <1>2, <1>5 DEF TriedOK
  <2>1. /\ frames[k].rest \subseteq NextSet(frames[k].at)
        /\ \A id \in NextSet(frames[k].at) \ frames[k].rest :
             id \in finished \/ (k < n /\ id = frames[k + 1].at)
    BY <1>3, <1>4 DEF TriedOK
  <2>2. CASE k \in 1..n - 1
    BY <1>4, <1>5, <2>1, <2>2
  <2>3. CASE k = n
    BY <1>4, <1>5, <1>6, <2>1, <2>3
  <2>4. k \in 1..n - 1 \/ k = n
    <3>1. n \in Nat \ {0}
      BY <1>4
    <3> QED
      BY <3>1
  <2> QED
    BY <2>2, <2>3, <2>4
<1>12. FinishedOK' /\ ReportOK'
  BY <1>1, <1>2 DEF Search, FinishedOK, ReportOK, Closed, Acyclic
<1> QED
  BY <1>7, <1>9, <1>10, <1>11, <1>12 DEF Search

\* A back edge closes a cycle with the path between its ends.
LEMMA DfsBackSearch ==
    ASSUME TypeOK, GraphInv, Search, NEW t \in Threads, DfsBack(t)
    PROVE  Search'
<1> DEFINE n == Len(frames)
<1>1. /\ frames # <<>> /\ Rest # {} /\ Discovered(There)
      /\ discoveredOrder[Here] >= discoveredOrder[There] /\ There \notin finished
      /\ now' = Here
      /\ UNCHANGED <<discoveredOrder, discoveredCount, finished, parent, frames, root>>
  BY DEF DfsBack, Searches, Discovered
<1>2. /\ Ids' = Ids /\ (\A id : NextSet(id)' = NextSet(id)) /\ lockHistory' = lockHistory
      /\ idToName' = idToName
  BY SearchSteps DEF Searching, Quiet
<1>3. SearchTypeOK /\ OrderOK /\ PathOK /\ TriedOK /\ FinishedOK
  BY DEF Search
<1>4. There \in Rest /\ There \in Ids /\ Here \in Ids /\ Here = frames[n].at /\ Rest = frames[n].rest
      /\ DOMAIN frames = 1..n
  BY <1>1, <1>3, ThereInRest, HereAndRest, Frames
<1>5. n \in Nat \ {0}
  BY <1>1, <1>3, Frames
<1>6. PICK i \in 1..n : frames[i].at = There
  BY <1>1, <1>3, <1>4 DEF OrderOK, OnPath
<1>7. <<Here, There>> \in lockHistory
  <2>1. There \in NextSet(Here)
    <3>1. n \in DOMAIN frames
      BY <1>4, <1>5
    <3> QED
      BY <1>3, <1>4, <3>1 DEF TriedOK
  <2> QED
    BY <2>1, EdgeOfNextSet
<1>8. i < n
  <2>1. Here # There
    BY <1>7 DEF GraphInv, NoLoops
  <2>2. i # n
    BY <1>4, <1>6, <2>1
  <2> QED
    BY <1>5, <2>2
<1>9. Cyclic(lockHistory)
  <2> DEFINE S == {frames[k].at : k \in i..n}
  <2>1. S \subseteq Ids
    BY <1>3, <1>5, PathDiscovered
  <2>2. There \in S
    BY <1>5, <1>6
  <2>3. ASSUME NEW k \in i..n PROVE \E next \in S : <<frames[k].at, next>> \in lockHistory
    <3>1. CASE k < n
      <4>1. k + 1 \in 1..n /\ k + 1 > 1 /\ k + 1 \in i..n /\ (k + 1) - 1 = k
        BY <1>5, <3>1
      <4>2. <<frames[k].at, frames[k + 1].at>> \in lockHistory
        BY <1>3, <1>4, <4>1 DEF PathOK
      <4> QED
        BY <4>1, <4>2
    <3>2. CASE k = n
      BY <1>4, <1>7, <2>2, <3>2
    <3>3. k < n \/ k = n
      BY <1>5, <1>6
    <3> QED
      BY <3>1, <3>2, <3>3
  <2>4. \A id \in S : \E next \in S : <<id, next>> \in lockHistory
    BY <2>3
  <2> HIDE DEF S
  <2> QED
    BY <2>1, <2>2, <2>4 DEF Cyclic
<1>10. SearchTypeOK'
  BY <1>1, <1>2, <1>3, <1>4 DEF SearchTypeOK
<1>11. OrderOK' /\ PathOK' /\ TriedOK' /\ FinishedOK'
  BY <1>1, <1>2, <1>3 DEF OrderOK, PathOK, TriedOK, FinishedOK, Closed, Acyclic, OnPath, Discovered
<1>12. ReportOK'
  <2>1. There' = There /\ Rest' = Rest
    BY <1>1 DEF There, Rest, Top
  <2>2. i \in DOMAIN frames /\ n \in DOMAIN frames
    BY <1>4, <1>5
  <2> QED
    BY <1>1, <1>2, <1>4, <1>6, <1>8, <1>9, <2>1, <2>2 DEF ReportOK, Cyclic
<1> QED
  BY <1>10, <1>11, <1>12 DEF Search

\* The report goes back along the path and ends where the back edge leads to.
LEMMA DfsReportSearch ==
    ASSUME TypeOK, Search, NEW t \in Threads, DfsReport(t)
    PROVE  Search' /\ crashed' \in {"no", "DEADLOCK_DETECTED"}
<1> DEFINE n == Len(frames)
<1>1. /\ crashed = "no" /\ now # 0
      /\ UNCHANGED <<discoveredOrder, discoveredCount, finished, parent, frames, root>>
  BY DEF DfsReport, At
<1>2. /\ Ids' = Ids /\ (\A id : NextSet(id)' = NextSet(id)) /\ lockHistory' = lockHistory
      /\ idToName' = idToName
  BY SearchSteps DEF Searching, Quiet
<1>3. SearchTypeOK /\ OrderOK /\ PathOK /\ TriedOK /\ FinishedOK
  BY DEF Search
<1>4. PICK i, k \in DOMAIN frames : i < k /\ now = frames[k].at /\ There = frames[i].at
  BY <1>1 DEF Search, ReportOK
<1>5. frames # <<>> /\ Rest # {} /\ Cyclic(lockHistory)
  BY <1>1 DEF Search, ReportOK
<1>6. i \in 1..n /\ k \in 1..n /\ n \in Nat /\ DOMAIN frames = 1..n
  BY <1>3, <1>4, Frames
<1>7. k - 1 \in 1..n /\ k > 1 /\ i <= k - 1
  BY <1>4, <1>6
<1>8. parent[now] = frames[k - 1].at /\ parent[now] \in Ids
  BY <1>3, <1>4, <1>6, <1>7, PathDiscovered DEF PathOK
<1>9. parent[now] # -1
  BY <1>3, <1>8, Frames
<1>10. now' = parent[now] /\ crashed' = IF parent[now] = There THEN "DEADLOCK_DETECTED" ELSE "no"
  BY <1>1, <1>9 DEF DfsReport
<1>11. SearchTypeOK'
  BY <1>1, <1>2, <1>3, <1>8, <1>10 DEF SearchTypeOK
<1>12. OrderOK' /\ PathOK' /\ TriedOK' /\ FinishedOK'
  BY <1>1, <1>2, <1>3 DEF OrderOK, PathOK, TriedOK, FinishedOK, Closed, Acyclic, OnPath, Discovered
<1>13. ReportOK'
  <2>1. There' = There /\ Rest' = Rest
    BY <1>1 DEF There, Rest, Top
  <2>2. crashed' = "no" => i < k - 1
    <3> SUFFICES ASSUME crashed' = "no" PROVE i # k - 1
      BY <1>6, <1>7
    <3> QED
      BY <1>4, <1>8, <1>10
  <2> QED
    BY <1>1, <1>2, <1>4, <1>5, <1>6, <1>7, <1>8, <1>10, <2>1, <2>2 DEF ReportOK, Cyclic
<1> QED
  BY <1>10, <1>11, <1>12, <1>13 DEF Search

\* A lock all of whose edges lead to finished locks is finished.
LEMMA DfsReturnSearch ==
    ASSUME TypeOK, GraphInv, Search, NEW t \in Threads, DfsReturn(t)
    PROVE  Search'
<1> DEFINE n == Len(frames)
<1>1. /\ frames # <<>> /\ Rest = {} /\ now = 0
      /\ finished' = finished \cup {Here}
      /\ frames' = Pop(frames)
      /\ UNCHANGED <<discoveredOrder, discoveredCount, parent, root, now>>
  BY DEF DfsReturn, Searches
<1>2. /\ Ids' = Ids /\ (\A id : NextSet(id)' = NextSet(id)) /\ lockHistory' = lockHistory
      /\ idToName' = idToName
  BY SearchSteps DEF Searching, Quiet
<1>3. SearchTypeOK /\ OrderOK /\ PathOK /\ TriedOK /\ FinishedOK
  BY DEF Search
<1>4. Here \in Ids /\ Here = frames[n].at /\ Rest = frames[n].rest /\ DOMAIN frames = 1..n
  BY <1>1, <1>3, HereAndRest, Frames
<1>5. n \in Nat \ {0} /\ n \in 1..n
  BY <1>1, <1>3, Frames
<1>6. /\ frames' \in Seq(Frame) /\ Len(frames') = n - 1
      /\ \A k \in 1..n - 1 : frames'[k] = frames[k]
  BY <1>1, PopProperties, <1>3 DEF SearchTypeOK, Frame
<1>7. DOMAIN frames' = 1..n - 1
  BY <1>6, LenProperties
<1>8. \A k \in 1..n - 1 : k \in 1..n /\ frames[k].at # Here
  <2> TAKE k \in 1..n - 1
  <2>1. k \in 1..n /\ k # n
    BY <1>5
  <2> QED
    BY <1>3, <1>4, <1>5, <2>1, PathOrder
<1>9. \A id : OnPath(id)' <=> OnPath(id) /\ id # Here
  <2>1. \A k \in 1..n : k \in 1..n - 1 \/ k = n
    BY <1>5
  <2> QED
    BY <1>4, <1>6, <1>7, <1>8, <2>1 DEF OnPath
<1>10. Here \notin finished /\ Discovered(Here)
  BY <1>3, <1>4, <1>5, PathDiscovered
<1>11. SearchTypeOK'
  BY <1>1, <1>2, <1>3, <1>4, <1>6 DEF SearchTypeOK, Frame
<1>12. OrderOK'
  <2>1. \A id \in Ids : id \in finished' \/ OnPath(id)' <=> Discovered(id)
    BY <1>1, <1>3, <1>9, <1>10 DEF OrderOK
  <2>2. \A id \in finished' : ~OnPath(id)'
    BY <1>1, <1>3, <1>9 DEF OrderOK
  <2>3. \A i, k \in 1..n - 1 : i < k =>
          discoveredOrder[frames'[i].at] < discoveredOrder[frames'[k].at]
    BY <1>3, <1>6, <1>8, PathOrder
  <2> QED
    BY <1>1, <1>2, <1>3, <1>7, <2>1, <2>2, <2>3 DEF OrderOK, Discovered
<1>13. PathOK'
  <2> SUFFICES ASSUME NEW k \in 1..n - 1, k > 1
               PROVE  /\ parent[frames'[k].at] = frames'[k - 1].at
                      /\ <<frames'[k - 1].at, frames'[k].at>> \in lockHistory
    BY <1>1, <1>2, <1>7 DEF PathOK
  <2>1. k \in 1..n /\ k - 1 \in 1..n - 1
    BY <1>5
  <2> QED
    BY <1>3, <1>4, <1>6, <2>1 DEF PathOK
<1>14. TriedOK'
  <2> SUFFICES ASSUME NEW k \in 1..n - 1
               PROVE  /\ frames'[k].rest \subseteq NextSet(frames'[k].at)
                      /\ \A id \in NextSet(frames'[k].at) \ frames'[k].rest :
                           id \in finished' \/ (k < n - 1 /\ id = frames'[k + 1].at)
    BY <1>2, <1>6, <1>7 DEF TriedOK
  <2>1. k \in 1..n /\ ((k + 1 \in 1..n - 1 /\ k < n - 1) \/ k + 1 = n)
    BY <1>5
  <2>2. frames'[k] = frames[k]
    BY <1>6
  <2>3. /\ frames[k].rest \subseteq NextSet(frames[k].at)
        /\ \A id \in NextSet(frames[k].at) \ frames[k].rest : id \in finished \/ id = frames[k + 1].at
    BY <1>3, <1>4, <2>1 DEF TriedOK
  <2>4. CASE k + 1 \in 1..n - 1 /\ k < n - 1
    <3>1. frames'[k + 1] = frames[k + 1]
      BY <1>6, <2>4
    <3> QED
      BY <1>1, <2>2, <2>3, <2>4, <3>1
  <2>5. CASE k + 1 = n
    BY <1>1, <1>4, <2>2, <2>3, <2>5
  <2> QED
    BY <2>1, <2>4, <2>5
<1>15. NextSet(Here) \subseteq finished
  <2>1. \A id \in NextSet(Here) \ Rest : id \in finished \/ n < n
    BY <1>3, <1>4, <1>5 DEF TriedOK
  <2> QED
    BY <1>1, <1>5, <2>1
<1>16. Closed(finished)'
  BY <1>1, <1>2, <1>3, <1>15 DEF FinishedOK, Closed
<1>17. Acyclic(finished)'
  <2> SUFFICES ASSUME NEW C \in SUBSET (finished \cup {Here}), C # {}
               PROVE  \E id \in C : \A next \in C : <<id, next>> \notin lockHistory
    BY <1>1, <1>2 DEF Acyclic
  <2>1. CASE C \ {Here} = {}
    <3>1. C = {Here}
      BY <2>1
    <3>2. <<Here, Here>> \notin lockHistory
      BY DEF GraphInv, NoLoops
    <3> QED
      BY <3>1, <3>2
  <2>2. CASE C \ {Here} # {}
    <3>1. PICK id \in C \ {Here} : \A next \in C \ {Here} : <<id, next>> \notin lockHistory
      BY <1>3, <2>2 DEF FinishedOK, Acyclic
    <3>2. <<id, Here>> \notin lockHistory
      <4>1. NextSet(id) \subseteq finished
        BY <1>3, <3>1 DEF FinishedOK, Closed
      <4> QED
        BY <1>10, <4>1, EdgeOfNextSet
    <3> QED
      BY <3>1, <3>2
  <2> QED
    BY <2>1, <2>2
<1>18. ReportOK'
  BY <1>1 DEF ReportOK
<1> QED
  BY <1>11, <1>12, <1>13, <1>14, <1>16, <1>17, <1>18 DEF Search, FinishedOK

-----------------------------------------------------------------------------
(* The invariant *)

LEMMA InitInv == Init => IInv
<1> SUFFICES ASSUME Init PROVE IInv
  OBVIOUS
<1>1. /\ idToName = <<>> /\ lockHistory = {} /\ frames = <<>> /\ now = 0 /\ crashed = "no"
      /\ LLockStack = [t \in Threads |-> <<>>] /\ held = [t \in Threads |-> <<>>]
      /\ want = [t \in Threads |-> None] /\ pc = [t \in Threads |-> "run"]
  BY DEF Init
<1>2. Checkers = {} /\ Ids = {}
  BY <1>1 DEF Checkers, Ids
<1>3. TypeOK
  BY <1>1 DEF TypeOK
<1>4. StacksInv
  BY <1>1, <1>2 DEF StacksInv, NamesOnce, KnownOf, StackOf
<1>5. GraphInv
  <2>1. \A t \in Threads : EdgesOf(t)
    BY <1>1 DEF EdgesOf
  <2> QED
    BY <1>1, <1>2, <2>1 DEF GraphInv, OneChecker, NoLoops, Cyclic
<1> QED
  BY <1>1, <1>2, <1>3, <1>4, <1>5 DEF IInv, SearchInv, NoFalseCrash

\* A thread at its locks
LEMMA LockStep ==
    ASSUME IInv, NEW t \in Threads,
           (\E guard \in Guards : PushLock(t, guard) \/ PushLockNew(t, guard))
             \/ PopLock(t) \/ Acquire(t) \/ Unlock(t)
    PROVE  IInv'
<1>1. TypeOK /\ StacksInv /\ GraphInv /\ SearchInv /\ NoFalseCrash
  BY DEF IInv
<1>2. ASSUME NEW guard \in Guards, PushLock(t, guard) PROVE IInv'
  <2>1. TypeOK' /\ StacksInv'
    BY <1>1, <1>2, PushLockStacks
  <2>2. GraphInv' /\ Checkers' = {} /\ Checkers = {}
    BY <1>1, <1>2, PushLockGraph
  <2>3. SearchInv'
    BY <1>1, <1>2, <2>2, NoSearch DEF PushLock
  <2> QED
    BY <1>1, <1>2, <2>1, <2>2, <2>3 DEF IInv, NoFalseCrash, PushLock, Ask
<1>3. ASSUME NEW guard \in Guards, PushLockNew(t, guard) PROVE IInv'
  <2>1. TypeOK' /\ StacksInv'
    BY <1>1, <1>3, PushLockNewStacks
  <2>2. GraphInv' /\ Checkers' = {t}
    BY <1>1, <1>3, PushLockNewGraph
  <2>3. Search'
    BY <1>1, <1>3, SearchStarts
  <2> QED
    BY <1>1, <1>3, <2>1, <2>2, <2>3 DEF IInv, NoFalseCrash, SearchInv, PushLockNew, Ask
<1>4. CASE PopLock(t)
  <2>1. TypeOK' /\ StacksInv' /\ crashed' = "no"
    BY <1>1, <1>4, PopLockStacks
  <2>2. GraphInv' /\ Checkers' = {} /\ Checkers = {}
    BY <1>1, <1>4, PopLockGraph
  <2>3. SearchInv'
    BY <1>1, <1>4, <2>2, NoSearch DEF PopLock
  <2> QED
    BY <2>1, <2>2, <2>3 DEF IInv, NoFalseCrash
<1>5. CASE Acquire(t)
  <2>1. TypeOK' /\ StacksInv'
    BY <1>1, <1>5, AcquireStacks
  <2>2. /\ pc[t] # "check" /\ pc' = [pc EXCEPT ![t] = "run"] /\ want' = [want EXCEPT ![t] = None]
        /\ UNCHANGED <<graphVars, LLockStack, dfsVars, crashed>>
    BY <1>5 DEF Acquire, At, Goto
  <2>3. GraphInv' /\ Checkers' = Checkers
    BY <1>1, <2>2, BesideGraph DEF graphVars
  <2>4. SearchInv'
    BY <1>1, <2>2, <2>3, BesideSearch
  <2> QED
    BY <1>1, <2>1, <2>2, <2>3, <2>4 DEF IInv, NoFalseCrash
<1>6. CASE Unlock(t)
  <2>1. TypeOK' /\ StacksInv'
    BY <1>1, <1>6, UnlockStacks
  <2>2. /\ pc[t] # "check" /\ pc' = [pc EXCEPT ![t] = "run"] /\ want' = want
        /\ UNCHANGED <<graphVars, LLockStack, dfsVars, crashed>>
    BY <1>6 DEF Unlock, At, Goto
  <2>3. want' = [want EXCEPT ![t] = want[t]]
    BY <1>1, <2>2 DEF TypeOK
  <2>4. GraphInv' /\ Checkers' = Checkers
    BY <1>1, <2>2, <2>3, BesideGraph DEF graphVars
  <2>5. SearchInv'
    BY <1>1, <2>2, <2>4, BesideSearch
  <2> QED
    BY <1>1, <2>1, <2>2, <2>4, <2>5 DEF IInv, NoFalseCrash
<1> QED
  BY <1>2, <1>3, <1>4, <1>5, <1>6

\* A thread in CheckCycle
LEMMA CheckStep ==
    ASSUME IInv, NEW t \in Threads, CheckCycle(t)
    PROVE  IInv'
<1>1. TypeOK /\ StacksInv /\ GraphInv /\ SearchInv /\ NoFalseCrash
  BY DEF IInv
<1>2. Search
  <2>1. t \in Checkers
    BY DEF CheckCycle, CheckRoot, CheckNext, CheckEnd, DfsVisit, DfsSkip, DfsBack, DfsReport,
           DfsReturn, Searches, At, Checkers
  <2> QED
    BY <1>1, <2>1 DEF SearchInv
<1>3. CASE CheckEnd(t)
  <2>1. TypeOK' /\ StacksInv'
    BY <1>1, <1>3, CheckEndStacks
  <2>2. GraphInv' /\ SearchInv'
    BY <1>1, <1>2, <1>3, CheckEndSearch
  <2> QED
    BY <1>1, <1>3, <2>1, <2>2 DEF IInv, NoFalseCrash, CheckEnd
<1>4. CASE ~CheckEnd(t)
  <2>1. Quiet /\ Checkers # {}
    BY <1>4, SearchSteps DEF CheckCycle, Searching
  <2>2. TypeOK' /\ StacksInv'
    BY <1>1, <2>1, QuietStacks
  <2>3. GraphInv' /\ Checkers' = Checkers
    BY <1>1, <2>1, QuietGraph
  <2>4. Search'
    BY <1>1, <1>2, <1>4, CheckRootSearch, CheckNextSearch, DfsVisitSearch, DfsSkipSearch,
       DfsBackSearch, DfsReportSearch, DfsReturnSearch DEF CheckCycle
  <2>5. NoFalseCrash'
    <3>1. CASE DfsReport(t)
      BY <1>1, <1>2, <3>1, DfsReportSearch DEF NoFalseCrash
    <3>2. CASE ~DfsReport(t)
      BY <1>1, <1>4, <3>2 DEF CheckCycle, CheckRoot, CheckNext, DfsVisit, DfsSkip, DfsBack, DfsReturn,
         NoFalseCrash
    <3> QED
      BY <3>1, <3>2
  <2> QED
    BY <2>1, <2>2, <2>3, <2>4, <2>5 DEF IInv, SearchInv
<1> QED
  BY <1>3, <1>4

\* Every step keeps the invariant.
LEMMA InvStep == IInv /\ [Next]_vars => IInv'
<1> SUFFICES ASSUME IInv, [Next]_vars PROVE IInv'
  OBVIOUS
<1>1. CASE Next
  BY <1>1, LockStep, CheckStep DEF Next
<1>2. CASE UNCHANGED vars
  <2>1. Quiet /\ UNCHANGED <<graphVars, dfsVars, crashed>>
    BY <1>2 DEF vars, Quiet, graphVars, threadVars
  <2>2. TypeOK' /\ StacksInv' /\ GraphInv' /\ Checkers' = Checkers
    BY <2>1, QuietStacks, QuietGraph DEF IInv
  <2> QED
    BY <2>1, <2>2, BesideSearch DEF IInv, NoFalseCrash
<1> QED
  BY <1>1, <1>2

\* The invariant holds for ever.
LEMMA Invariance == Spec => []IInv
BY InitInv, InvStep, PTL DEF Spec

-----------------------------------------------------------------------------
(* What follows from it *)

\* Every variable that outlives a search keeps its type.
THEOREM TypeCorrectness == Spec => []TypeOK
<1>1. IInv => TypeOK
  BY DEF IInv
<1> QED
  BY <1>1, Invariance, PTL

\* A cycle is reported only if the graph has one, and when PushLock has returned to
\* every thread the graph has none.
THEOREM CyclesReported == Spec => []ReportsCycles
<1>1. IInv => ReportsCycles
  <2> SUFFICES ASSUME IInv PROVE ReportsCycles
    OBVIOUS
  <2>1. now # 0 => Cyclic(lockHistory)
    BY DEF IInv, SearchInv, Search, ReportOK
  <2>2. (\A t \in Threads : pc[t] # "check") => ~Cyclic(lockHistory)
    <3>1. (\A t \in Threads : pc[t] # "check") => Checkers = {}
      BY DEF Checkers
    <3> QED
      BY <3>1, AllChecked DEF IInv, GraphInv
  <2> QED
    BY <2>1, <2>2 DEF ReportsCycles
<1> QED
  BY <1>1, Invariance, PTL

\* PopLock finds the lock it is told and the report finds its way back: the profiler
\* crashes the process for a cycle and for nothing else.
THEOREM CrashesOnlyForCycles == Spec => []NoFalseCrash
<1>1. IInv => NoFalseCrash
  BY DEF IInv
<1> QED
  BY <1>1, Invariance, PTL

\* Over a number that is not the top of a stack lies one that an edge leads to.
LEMMA Climb ==
    ASSUME IInv, NEW t \in Threads, NEW i \in 1..Len(LLockStack[t]),
           Top(LLockStack[t]) # LLockStack[t][i]
    PROVE  \E k \in 1..Len(LLockStack[t]) : <<LLockStack[t][i], LLockStack[t][k]>> \in Checked
<1> DEFINE n == Len(LLockStack[t])
           other == {k \in i..n : LLockStack[t][k] # LLockStack[t][i]}
<1>1. n \in Nat
  BY Lengths DEF IInv
<1>2. n \in other
  BY <1>1 DEF Top
<1>3. other \subseteq Nat
  BY <1>1
<1>4. PICK k \in other : \A m \in other : ~(<<m, k>> \in OpToRel(<, Nat))
  <2> HIDE DEF other
  <2> QED
    BY <1>2, <1>3, NatLessThanWellFounded, WFMin
<1>5. k \in i..n /\ k # i /\ LLockStack[t][k] # LLockStack[t][i]
  BY <1>4
<1>6. k - 1 \in i..n /\ k - 1 \in 1..n - 1 /\ (k - 1) + 1 = k /\ k \in 1..n
  BY <1>1, <1>5
<1>7. LLockStack[t][k - 1] = LLockStack[t][i]
  <2> SUFFICES ASSUME LLockStack[t][k - 1] # LLockStack[t][i] PROVE FALSE
    OBVIOUS
  <2>1. k - 1 \in other
    BY <1>6
  <2>2. <<k - 1, k>> \in OpToRel(<, Nat)
    BY <1>3, <1>4, <1>6, <2>1 DEF OpToRel
  <2> QED
    BY <1>4, <2>1, <2>2
<1>8. Linked(LLockStack[t][k - 1], LLockStack[t][k])
  BY <1>6 DEF IInv, GraphInv, EdgesOf
<1> QED
  BY <1>5, <1>6, <1>7, <1>8 DEF Linked

\* Threads that wait for each other in a circle, for locks of different classes, are
\* never left to spin in Lock: their stacks would be a cycle of edges all of which
\* were searched, and the profiler would have crashed the process.
THEOREM DeadlocksReported == Spec => []NoSilentDeadlock
<1>1. IInv => NoSilentDeadlock
  <2> SUFFICES ASSUME IInv, NEW W \in SUBSET Waiting, W # {}, Deadlocked(W)
               PROVE  FALSE
    BY DEF NoSilentDeadlock
  <2> DEFINE S == UNION {{LLockStack[t][i] : i \in 1..Len(LLockStack[t])} : t \in W}
  <2>1. TypeOK /\ StacksInv /\ ~Cyclic(Checked)
    BY DEF IInv, GraphInv
  <2>2. W \subseteq Threads /\ \A t \in W : pc[t] = "wait"
    BY DEF Waiting
  <2>3. ASSUME NEW t \in W
        PROVE  /\ Len(LLockStack[t]) \in 1..Len(LLockStack[t])
               /\ Top(LLockStack[t]) = Number(want[t])
    <3>1. Len(LLockStack[t]) = Len(held[t]) + 1 /\ Len(held[t]) \in Nat
      BY <2>1, <2>2, Lengths DEF StacksInv, StackOf
    <3>2. GuardAt(t, Len(LLockStack[t])) = want[t]
      BY <3>1 DEF GuardAt
    <3> QED
      BY <2>1, <2>2, <3>1, <3>2 DEF StacksInv, StackOf, Top
  <2>4. S \subseteq Ids
    BY <2>1, <2>2, StackNumbers
  <2>5. \A t \in W : \A i \in 1..Len(LLockStack[t]) : LLockStack[t][i] \in S
    OBVIOUS
  <2>6. S # {}
    <3>1. PICK t \in W : TRUE
      OBVIOUS
    <3> HIDE DEF S
    <3> QED
      BY <2>3, <2>5, <3>1
  <2>7. ASSUME NEW t \in W, NEW i \in 1..Len(LLockStack[t]), Top(LLockStack[t]) # LLockStack[t][i]
        PROVE  \E next \in S : <<LLockStack[t][i], next>> \in Checked
    <3>1. PICK k \in 1..Len(LLockStack[t]) : <<LLockStack[t][i], LLockStack[t][k]>> \in Checked
      BY <2>2, <2>7, Climb
    <3> HIDE DEF S
    <3> QED
      BY <2>5, <3>1
  <2>8. ASSUME NEW t \in W, NEW i \in 1..Len(LLockStack[t])
        PROVE  \E next \in S : <<LLockStack[t][i], next>> \in Checked
    <3>1. CASE Top(LLockStack[t]) # LLockStack[t][i]
      BY <2>7, <3>1
    <3>2. CASE Top(LLockStack[t]) = LLockStack[t][i]
      <4>1. PICK u \in W \ {t} : Blocks(u, want[t]) /\ Top(LLockStack[u]) # Top(LLockStack[t])
        BY DEF Deadlocked
      <4>2. PICK j \in DOMAIN held[u] : held[u][j][1] = want[t][1]
        BY <4>1 DEF Blocks
      <4>3. j \in 1..Len(held[u]) /\ Len(LLockStack[u]) = Len(held[u]) + 1 /\ Len(held[u]) \in Nat
        BY <2>1, <2>2, <4>2, Lengths DEF StacksInv, StackOf
      <4>4. j \in 1..Len(LLockStack[u])
        BY <4>3
      <4>5. LLockStack[u][j] = Number(held[u][j])
        <5>1. GuardAt(u, j) = held[u][j]
          BY <4>3 DEF GuardAt
        <5> QED
          BY <2>1, <2>2, <4>4, <5>1 DEF StacksInv, StackOf
      <4>6. LLockStack[u][j] = LLockStack[t][i]
        BY <2>3, <3>2, <4>2, <4>5 DEF Number
      <4> QED
        BY <2>7, <3>2, <4>1, <4>4, <4>6
    <3> QED
      BY <3>1, <3>2
  <2>9. ASSUME NEW id \in S PROVE \E next \in S : <<id, next>> \in Checked
    <3>1. PICK t \in W : id \in {LLockStack[t][i] : i \in 1..Len(LLockStack[t])}
      BY <2>9
    <3>2. PICK i \in 1..Len(LLockStack[t]) : id = LLockStack[t][i]
      BY <3>1
    <3> HIDE DEF S
    <3> QED
      BY <2>8, <3>2
  <2> HIDE DEF S
  <2> QED
    BY <2>1, <2>4, <2>6, <2>9 DEF Cyclic
<1> QED
  BY <1>1, Invariance, PTL
=============================================================================
