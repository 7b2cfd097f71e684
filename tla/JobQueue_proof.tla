--------------------------- MODULE JobQueue_proof ---------------------------
(***************************************************************************)
(* Proofs about JobQueue, for any finite set of threads and any sets of    *)
(* queues and jobs: a queue is never executed by two threads, the job      *)
(* counter tells exactly whether somebody is responsible for the queue,    *)
(* jobs run in the order of m_jobs, and a queue implements SerialQueue.    *)
(***************************************************************************)
EXTENDS JobQueue, FiniteSetTheorems, SequenceTheorems, TLAPS

(***************************************************************************)
(* What the safety properties lack to be inductive: a thread that has a    *)
(* Push frame is outside of Execute or inside a job, only a push that saw  *)
(* count 0 hands a queue off, a job that runs is the first of its batch,   *)
(* and an Execute frame that holds no batch has subtracted what it ran.    *)
(***************************************************************************)
FrameOK == \A t \in Threads :
    /\ push[t] # NoPush => exec[t].pc \in {"idle", "running"}
    /\ push[t].pc = "handoff" => push[t].first
    /\ exec[t].pc = "running" => exec[t].batch # <<>>
    /\ exec[t].pc \in {"idle", "pop", "tick", "handoff"} => exec[t].size = 0

IInv == /\ TypeOK
        /\ FrameOK
        /\ SingleExecutor
        /\ OneHolder
        /\ HolderIffWork
        /\ CountExact

\* Every step keeps every variable in its type.
LEMMA TypePreserved == ASSUME TypeOK, FrameOK, [Next]_vars PROVE TypeOK'
<1> USE NoneAssumption DEF TypeOK, PushFrame, NoPush, ExecFrame, NoExec, Entered
<1>1. CASE UNCHANGED vars
  BY <1>1 DEF vars
<1>2. ASSUME NEW t \in Threads, NEW q \in Queues, NEW j \in Jobs, PushCount(t, q, j)
      PROVE  TypeOK'
  BY <1>2 DEF PushCount
<1>3. ASSUME NEW t \in Threads, PushJoin(t)
      PROVE  TypeOK'
  <2>1. push[t] \in PushFrame
    BY <1>3 DEF PushJoin, PutItem
  <2>2. jobs' \in [Queues -> Seq(Jobs)] /\ pushed' \in [Queues -> Seq(Jobs)]
    BY <1>3, <2>1 DEF PushJoin, PutItem
  <2>3. push' \in [Threads -> PushFrame \cup {NoPush}]
    BY <1>3 DEF PushJoin
  <2> QED
    BY <1>3, <2>2, <2>3 DEF PushJoin
<1>4. ASSUME NEW t \in Threads, PushExecute(t)
      PROVE  TypeOK'
  <2>1. push[t] \in PushFrame
    BY <1>4 DEF PushExecute, PutItem
  <2>2. jobs' \in [Queues -> Seq(Jobs)] /\ pushed' \in [Queues -> Seq(Jobs)]
    BY <1>4, <2>1 DEF PushExecute, PutItem
  <2>3. push' \in [Threads -> PushFrame \cup {NoPush}]
    BY <1>4 DEF PushExecute
  <2>4. exec' \in [Threads -> ExecFrame \cup {NoExec}]
    BY <1>4, <2>1 DEF PushExecute
  <2>5. /\ currentJobQueue' \in [Threads -> Queues \cup {None}]
        /\ \A u \in Threads :
             currentJobQueue'[u] = IF exec'[u].pc = "handoff" THEN None ELSE exec'[u].queue
    BY <1>4, <2>1 DEF PushExecute
  <2> QED
    BY <1>4, <2>2, <2>3, <2>4, <2>5 DEF PushExecute
<1>5. ASSUME NEW t \in Threads, NEW pushOnly \in BOOLEAN, PushDefer(t, pushOnly)
      PROVE  TypeOK'
  <2>1. push[t] \in PushFrame
    BY <1>5 DEF PushDefer, PutItem
  <2>2. [push[t] EXCEPT !.pc = "handoff"] \in PushFrame
    BY <2>1
  <2>3. push' \in [Threads -> PushFrame \cup {NoPush}]
    BY <1>5, <2>2 DEF PushDefer
  <2>4. jobs' \in [Queues -> Seq(Jobs)] /\ pushed' \in [Queues -> Seq(Jobs)]
    BY <1>5, <2>1 DEF PushDefer, PutItem
  <2> QED
    BY <1>5, <2>3, <2>4 DEF PushDefer
<1>6. ASSUME NEW t \in Threads, PushGlobal(t)
      PROVE  TypeOK'
  BY <1>6 DEF PushGlobal
<1>7. ASSUME NEW t \in Threads, PopGlobal(t)
      PROVE  TypeOK'
  <2>1. Head(globalQueue) \in Queues /\ Tail(globalQueue) \in Seq(Queues)
    BY <1>7, HeadTailProperties DEF PopGlobal
  <2>2. exec' \in [Threads -> ExecFrame \cup {NoExec}]
    BY <1>7, <2>1 DEF PopGlobal
  <2>3. currentJobQueue' \in [Threads -> Queues \cup {None}]
    BY <1>7, <2>1 DEF PopGlobal
  <2>4. ASSUME NEW u \in Threads
        PROVE  currentJobQueue'[u] = IF exec'[u].pc = "handoff" THEN None ELSE exec'[u].queue
    BY <1>7, <2>1 DEF PopGlobal
  <2> QED
    BY <1>7, <2>1, <2>2, <2>3, <2>4 DEF PopGlobal
<1>8. ASSUME NEW t \in Threads, ExecPopAll(t)
      PROVE  TypeOK'
  BY <1>8 DEF ExecPopAll
<1>9. ASSUME NEW t \in Threads, JobStart(t)
      PROVE  TypeOK'
  <2>1. exec[t] \in ExecFrame
    BY <1>9 DEF JobStart
  <2> QED
    BY <1>9, <2>1 DEF JobStart
<1>10. ASSUME NEW t \in Threads, JobEnd(t)
      PROVE  TypeOK'
  <2>1. exec[t] \in ExecFrame
    BY <1>10 DEF JobEnd
  <2>2. Head(exec[t].batch) \in Jobs /\ Tail(exec[t].batch) \in Seq(Jobs)
    BY <1>10, <2>1, HeadTailProperties DEF JobEnd, FrameOK
  <2>3. [exec[t] EXCEPT !.pc = "run", !.batch = Tail(@)] \in ExecFrame
    BY <2>1, <2>2
  <2>4. exec' \in [Threads -> ExecFrame \cup {NoExec}]
    BY <1>10, <2>1, <2>3 DEF JobEnd
  <2>5. done' \in [Queues -> Seq(Jobs)]
    BY <1>10, <2>1, <2>2, AppendProperties DEF JobEnd
  <2>6. ASSUME NEW u \in Threads
        PROVE  /\ exec'[u].queue = exec[u].queue
               /\ exec'[u].pc = "handoff" <=> exec[u].pc = "handoff"
    BY <1>10, <2>1 DEF JobEnd
  <2> QED
    BY <1>10, <2>4, <2>5, <2>6 DEF JobEnd
<1>11. ASSUME NEW t \in Threads, ExecFinish(t)
      PROVE  TypeOK'
  <2>1. exec[t] \in ExecFrame
    BY <1>11 DEF ExecFinish
  <2> QED
    BY <1>11, <2>1 DEF ExecFinish
<1>12. ASSUME NEW t \in Threads, ExecRemain(t)
      PROVE  TypeOK'
  <2>1. exec[t] \in ExecFrame
    BY <1>12 DEF ExecRemain
  <2>2. [exec[t] EXCEPT !.pc = "tick", !.size = 0] \in ExecFrame
    BY <2>1
  <2>3. exec' \in [Threads -> ExecFrame \cup {NoExec}]
    BY <1>12, <2>1, <2>2 DEF ExecRemain
  <2>4. jobCount' \in [Queues -> Int]
    BY <1>12, <2>1 DEF ExecRemain
  <2>5. ASSUME NEW u \in Threads
        PROVE  /\ exec'[u].queue = exec[u].queue
               /\ exec'[u].pc = "handoff" <=> exec[u].pc = "handoff"
    BY <1>12, <2>1 DEF ExecRemain
  <2> QED
    BY <1>12, <2>3, <2>4, <2>5 DEF ExecRemain
<1>13. ASSUME NEW t \in Threads, ExecAgain(t) \/ ExecTimeout(t)
      PROVE  TypeOK'
  <2>1. exec[t] \in ExecFrame
    BY <1>13 DEF ExecAgain, ExecTimeout
  <2>2. \A p \in {"pop", "handoff"} : [exec[t] EXCEPT !.pc = p] \in ExecFrame
    BY <2>1
  <2>3. CASE ExecAgain(t)
    BY <2>1, <2>2, <2>3 DEF ExecAgain
  <2>4. CASE ExecTimeout(t)
    BY <2>1, <2>2, <2>4 DEF ExecTimeout
  <2> QED
    BY <1>13, <2>3, <2>4
<1>14. ASSUME NEW t \in Threads, ExecHandoff(t)
      PROVE  TypeOK'
  <2>1. exec[t] \in ExecFrame
    BY <1>14 DEF ExecHandoff
  <2>2. Append(globalQueue, exec[t].queue) \in Seq(Queues)
    BY <2>1, AppendProperties
  <2> QED
    BY <1>14, <2>1, <2>2 DEF ExecHandoff
<1> HIDE DEF TypeOK
<1> QED
  BY <1>1, <1>2, <1>3, <1>4, <1>5, <1>6, <1>7, <1>8, <1>9, <1>10, <1>11, <1>12,
     <1>13, <1>14 DEF Next, PushStep, ExecStep

\* Every step keeps the frames well formed.
LEMMA FramePreserved == ASSUME TypeOK, FrameOK, [Next]_vars PROVE FrameOK'
<1> USE NoneAssumption DEF FrameOK, NoPush, NoExec, Entered
<1>1. CASE UNCHANGED vars
  BY <1>1 DEF vars
<1>2. ASSUME NEW t \in Threads, NEW q \in Queues, NEW j \in Jobs, PushCount(t, q, j)
      PROVE  FrameOK'
  BY <1>2 DEF TypeOK, PushCount, MayPush
<1>3. ASSUME NEW t \in Threads, PushJoin(t)
      PROVE  FrameOK'
  BY <1>3 DEF TypeOK, PushJoin, PutItem
<1>4. ASSUME NEW t \in Threads, PushExecute(t)
      PROVE  FrameOK'
  BY <1>4 DEF TypeOK, PushExecute, PutItem
<1>5. ASSUME NEW t \in Threads, NEW pushOnly \in BOOLEAN, PushDefer(t, pushOnly)
      PROVE  FrameOK'
  <2>1. push[t] # NoPush /\ exec' = exec
    BY <1>5 DEF PushDefer, PutItem
  <2>2. push[t] \in PushFrame /\ push[t].first
    BY <1>5 DEF TypeOK, PushDefer, PutItem
  <2>3. push'[t] = [push[t] EXCEPT !.pc = "handoff"]
    BY <1>5 DEF TypeOK, PushDefer
  <2>4. push'[t].first
    BY <2>2, <2>3 DEF PushFrame
  <2>5. \A u \in Threads \ {t} : push'[u] = push[u]
    BY <1>5 DEF TypeOK, PushDefer
  <2> HIDE DEF NoPush
  <2> QED
    BY <2>1, <2>4, <2>5
<1>6. ASSUME NEW t \in Threads, PushGlobal(t)
      PROVE  FrameOK'
  BY <1>6 DEF TypeOK, PushGlobal
<1>7. ASSUME NEW t \in Threads, PopGlobal(t)
      PROVE  FrameOK'
  BY <1>7 DEF TypeOK, PopGlobal
<1>8. ASSUME NEW t \in Threads, ExecPopAll(t)
      PROVE  FrameOK'
  BY <1>8 DEF TypeOK, ExecPopAll
<1>9. ASSUME NEW t \in Threads, JobStart(t)
      PROVE  FrameOK'
  BY <1>9 DEF TypeOK, JobStart
<1>10. ASSUME NEW t \in Threads, JobEnd(t)
      PROVE  FrameOK'
  BY <1>10 DEF TypeOK, JobEnd
<1>11. ASSUME NEW t \in Threads, ExecFinish(t)
      PROVE  FrameOK'
  BY <1>11 DEF TypeOK, ExecFinish
<1>12. ASSUME NEW t \in Threads, ExecRemain(t)
      PROVE  FrameOK'
  BY <1>12 DEF TypeOK, ExecRemain
<1>13. ASSUME NEW t \in Threads, ExecAgain(t)
      PROVE  FrameOK'
  BY <1>13 DEF TypeOK, ExecAgain
<1>14. ASSUME NEW t \in Threads, ExecTimeout(t)
      PROVE  FrameOK'
  BY <1>14 DEF TypeOK, ExecTimeout
<1>15. ASSUME NEW t \in Threads, ExecHandoff(t)
      PROVE  FrameOK'
  BY <1>15 DEF TypeOK, ExecHandoff
<1> HIDE DEF FrameOK
<1> QED
  BY <1>1, <1>2, <1>3, <1>4, <1>5, <1>6, <1>7, <1>8,
     <1>9, <1>10, <1>11, <1>12, <1>13, <1>14, <1>15
  DEF Next, PushStep, ExecStep

\* What the frames of a thread contain.
LEMMA FrameTypes == ASSUME TypeOK, NEW t \in Threads
    PROVE /\ push[t].pc = "none" => push[t] = NoPush
          /\ push[t].pc # "none" => push[t].queue \in Queues /\ push[t].job \in Jobs
          /\ push[t].first => push[t].queue \in Queues
          /\ exec[t].pc = "idle" => exec[t] = NoExec
          /\ exec[t].pc # "idle" => exec[t].queue \in Queues
          /\ exec[t].batch \in Seq(Jobs)
          /\ exec[t].size \in Nat
<1>1. push[t] \in PushFrame \cup {NoPush} /\ exec[t] \in ExecFrame \cup {NoExec}
  BY DEF TypeOK
<1>2. push[t] \in PushFrame => /\ push[t].pc # "none"
                                /\ push[t].queue \in Queues /\ push[t].job \in Jobs
  BY DEF PushFrame
<1>3. push[t] = NoPush => push[t].pc = "none" /\ ~push[t].first
  BY DEF NoPush
<1>4. exec[t] \in ExecFrame => /\ exec[t].pc # "idle" /\ exec[t].queue \in Queues
                                /\ exec[t].batch \in Seq(Jobs) /\ exec[t].size \in Nat
  BY DEF ExecFrame
<1>5. exec[t] = NoExec => /\ exec[t].pc = "idle"
                          /\ exec[t].batch \in Seq(Jobs) /\ exec[t].size \in Nat
  BY DEF NoExec
<1> QED
  BY <1>1, <1>2, <1>3, <1>4, <1>5

\* The pushes in flight for a queue are finitely many.
LEMMA InFlightFinite == ASSUME NEW q \in Queues
    PROVE /\ IsFiniteSet(InFlight(q)) /\ Cardinality(InFlight(q)) \in Nat
          /\ Cardinality(InFlight(q))' \in Nat
<1>1. InFlight(q) \subseteq Threads
  BY DEF InFlight
<1>2. InFlight(q)' \subseteq Threads
  BY DEF InFlight
<1> QED
  BY <1>1, <1>2, ThreadsAssumption, FS_Subset, FS_CardinalityType

\* The counter of a queue is never negative.
LEMMA CountNatural == ASSUME TypeOK, SingleExecutor, CountExact, NEW q \in Queues
    PROVE jobCount[q] \in Nat
<1>1. Cardinality(InFlight(q)) \in Nat /\ Len(jobs[q]) \in Nat
  BY InFlightFinite DEF TypeOK
<1>2. CASE \A t \in Threads : ~Executes(t, q)
  BY <1>1, <1>2 DEF CountExact
<1>3. CASE \E t \in Threads : Executes(t, q)
  <2>1. PICK t \in Threads : Executes(t, q)
    BY <1>3
  <2>2. exec[t].size \in Nat
    BY DEF TypeOK, ExecFrame, NoExec
  <2> QED
    BY <1>1, <2>1, <2>2 DEF CountExact
<1> QED
  BY <1>2, <1>3

\* Counting a push adds its thread to the pushes in flight ...
LEMMA InFlightEnter ==
    ASSUME TypeOK, NEW t \in Threads, NEW q \in Queues, NEW j \in Jobs, PushCount(t, q, j),
           NEW r \in Queues
    PROVE Cardinality(InFlight(r))' = Cardinality(InFlight(r)) + (IF r = q THEN 1 ELSE 0)
<1>1. InFlight(r)' = IF r = q THEN InFlight(r) \cup {t} ELSE InFlight(r)
  BY DEF TypeOK, InFlight, PushCount, MayPush, NoPush
<1>2. t \notin InFlight(r)
  BY DEF InFlight, PushCount, MayPush, NoPush
<1>3. IsFiniteSet(InFlight(r)) /\ Cardinality(InFlight(r)) \in Nat
  BY InFlightFinite
<1>4. Cardinality(InFlight(r) \cup {t}) = Cardinality(InFlight(r)) + 1
  BY <1>2, <1>3, FS_AddElement
<1> QED
  BY <1>1, <1>3, <1>4

\* ... and putting the job in m_jobs takes it out.
LEMMA InFlightLeave ==
    ASSUME TypeOK, NEW t \in Threads, PutItem(t), NEW r \in Queues,
           \A u \in Threads \ {t} : push'[u] = push[u],
           push'[t].pc # "item"
    PROVE Cardinality(InFlight(r))' =
            Cardinality(InFlight(r)) - (IF r = push[t].queue THEN 1 ELSE 0)
<1>1. InFlight(r)' = IF r = push[t].queue THEN InFlight(r) \ {t} ELSE InFlight(r)
  BY DEF InFlight, PutItem
<1>2. r = push[t].queue => t \in InFlight(r)
  BY DEF InFlight, PutItem
<1>3. IsFiniteSet(InFlight(r)) /\ Cardinality(InFlight(r)) \in Nat
  BY InFlightFinite
<1>4. t \in InFlight(r) => Cardinality(InFlight(r) \ {t}) = Cardinality(InFlight(r)) - 1
  BY <1>3, FS_RemoveElement
<1> QED
  BY <1>1, <1>2, <1>3, <1>4

\* Steps that touch no pushing thread leave the pushes in flight alone.
LEMMA InFlightSame == ASSUME push' = push, NEW r \in Queues
    PROVE Cardinality(InFlight(r))' = Cardinality(InFlight(r))
BY DEF InFlight


Holders == SingleExecutor /\ OneHolder /\ HolderIffWork

\* A step that moves no responsibility and empties or fills no counter.
LEMMA HoldersSame ==
    ASSUME Holders,
           \A u \in Threads, r \in Queues :
               /\ OwesFirst(u, r)' <=> OwesFirst(u, r)
               /\ Executes(u, r)' <=> Executes(u, r),
           globalQueue' = globalQueue,
           \A r \in Queues : jobCount'[r] # 0 <=> jobCount[r] # 0
    PROVE Holders'
BY DEF Holders, SingleExecutor, OneHolder, HolderIffWork, Waits

\* A thread gives the queue it is responsible for to the global queue.
LEMMA HoldersToGlobal ==
    ASSUME TypeOK, Holders, NEW t \in Threads, NEW q \in Queues,
           OwesFirst(t, q) \/ Executes(t, q),
           \A u \in Threads, r \in Queues :
               /\ OwesFirst(u, r)' <=> OwesFirst(u, r) /\ ~(u = t /\ r = q)
               /\ Executes(u, r)' <=> Executes(u, r) /\ ~(u = t /\ r = q),
           globalQueue' = Append(globalQueue, q),
           jobCount' = jobCount
    PROVE Holders'
<1>0. PICK n \in Nat : n = Len(globalQueue)
  BY LenProperties DEF TypeOK
<1>1. /\ DOMAIN globalQueue = 1 .. n
      /\ DOMAIN globalQueue' = 1 .. (n + 1)
      /\ \A i \in 1 .. n : globalQueue'[i] = globalQueue[i]
      /\ globalQueue'[n + 1] = q
  BY <1>0, AppendProperties DEF TypeOK
<1>2. \A i \in DOMAIN globalQueue, r \in Queues : Waits(i, r)' <=> Waits(i, r)
  BY <1>1 DEF Waits
<1>3. \A r \in Queues : Waits(n + 1, r)' <=> r = q
  BY <1>1 DEF Waits
<1>4. \A i \in DOMAIN globalQueue : ~Waits(i, q)
  BY DEF Holders, OneHolder, Waits
<1>5. DOMAIN globalQueue' = DOMAIN globalQueue \cup {n + 1}
  BY <1>1
<1>6. SingleExecutor'
  BY DEF Holders, SingleExecutor
<1>7. OneHolder'
  BY <1>2, <1>3, <1>4, <1>5 DEF Holders, OneHolder, Waits, SingleExecutor
<1>8. HolderIffWork'
  BY <1>2, <1>3, <1>5 DEF Holders, HolderIffWork, Waits
<1> QED
  BY <1>6, <1>7, <1>8 DEF Holders

\* A worker takes the first queue of the global queue.
LEMMA HoldersFromGlobal ==
    ASSUME TypeOK, Holders, NEW t \in Threads,
           globalQueue # <<>>,
           \A u \in Threads, r \in Queues :
               /\ OwesFirst(u, r)' <=> OwesFirst(u, r)
               /\ Executes(u, r)' <=> Executes(u, r) \/ (u = t /\ r = Head(globalQueue)),
           globalQueue' = Tail(globalQueue),
           jobCount' = jobCount
    PROVE Holders'
<1>0. PICK n \in Nat \ {0}, q \in Queues : n = Len(globalQueue) /\ q = Head(globalQueue)
  BY HeadTailProperties, LenProperties, EmptySeq DEF TypeOK
<1>1. /\ DOMAIN globalQueue = 1 .. n
      /\ DOMAIN globalQueue' = 1 .. (n - 1)
      /\ \A i \in 1 .. (n - 1) : globalQueue'[i] = globalQueue[i + 1]
      /\ globalQueue[1] = q
  BY <1>0, HeadTailProperties, LenProperties, EmptySeq DEF TypeOK
<1>2. \A i \in DOMAIN globalQueue', r \in Queues :
        i + 1 \in DOMAIN globalQueue /\ (Waits(i, r)' <=> Waits(i + 1, r))
  BY <1>1 DEF Waits
<1>3. 1 \in DOMAIN globalQueue /\ \A r \in Queues : Waits(1, r) <=> r = q
  BY <1>1 DEF Waits
<1>4. \A i \in DOMAIN globalQueue : i # 1 => i - 1 \in DOMAIN globalQueue' /\ (i - 1) + 1 = i
  BY <1>1
<1>5. \A i, k \in DOMAIN globalQueue' : i \in Int /\ k \in Int /\ i + 1 # 1 /\ (i + 1 = k + 1 => i = k)
  BY <1>1
<1>6. \A i \in DOMAIN globalQueue' : ~Waits(i, q)'
  BY <1>1, <1>2, <1>3, <1>5 DEF Holders, OneHolder, Waits
<1>7. /\ \A u \in Threads : ~OwesFirst(u, q) /\ ~Executes(u, q)
      /\ \A u \in Threads, r \in Queues : Executes(u, r)' <=> Executes(u, r) \/ (u = t /\ r = q)
  BY <1>0, <1>1, <1>3 DEF Holders, OneHolder, Waits
<1>8. SingleExecutor'
  BY <1>7 DEF Holders, SingleExecutor
<1>9. OneHolder'
  <2>1. \A r \in Queues, i, k \in DOMAIN globalQueue' : Waits(i, r)' /\ Waits(k, r)' => i = k
    BY <1>2, <1>5 DEF Holders, OneHolder, Waits
  <2>2. \A r \in Queues, u \in Threads, i \in DOMAIN globalQueue' :
          ~(OwesFirst(u, r)' /\ Waits(i, r)') /\ ~(Executes(u, r)' /\ Waits(i, r)')
    BY <1>2, <1>6, <1>7 DEF Holders, OneHolder, Waits
  <2>3. \A r \in Queues, u, v \in Threads :
          /\ OwesFirst(u, r)' /\ OwesFirst(v, r)' => u = v
          /\ ~(OwesFirst(u, r)' /\ Executes(v, r)')
    BY <1>7 DEF Holders, OneHolder, Waits
  <2> QED
    BY <2>1, <2>2, <2>3 DEF OneHolder, Waits
<1>10. HolderIffWork'
  <2>1. \A r \in Queues : (\E i \in DOMAIN globalQueue : Waits(i, r)) <=>
                              (r = q \/ \E i \in DOMAIN globalQueue' : Waits(i, r)')
    BY <1>2, <1>3, <1>4
  <2> QED
    BY <1>1, <1>7, <2>1 DEF Holders, HolderIffWork, Waits
<1> QED
  BY <1>8, <1>9, <1>10 DEF Holders

\* Every step keeps responsibility for a queue undivided and undropped.
LEMMA HoldersPreserved == ASSUME IInv, [Next]_vars PROVE Holders'
<1> USE NoneAssumption DEF IInv, TypeOK
<1>0. Holders
  BY DEF Holders
<1>1. CASE UNCHANGED vars
  BY <1>0, <1>1, HoldersSame DEF vars, OwesFirst, Executes
<1>2. ASSUME NEW t \in Threads, NEW q \in Queues, NEW j \in Jobs, PushCount(t, q, j)
      PROVE  Holders'
  <2>1. \A r \in Queues : jobCount[r] \in Nat
    BY CountNatural
  <2>2. \A u \in Threads, r \in Queues :
          /\ OwesFirst(u, r)' <=> OwesFirst(u, r) \/ (u = t /\ r = q /\ jobCount[q] = 0)
          /\ Executes(u, r)' <=> Executes(u, r)
    <3>1. push'[t].queue = q /\ ~push[t].first
      BY <1>2 DEF PushCount, MayPush, NoPush
    <3>2. push'[t].first = (jobCount[q] = 0)
      BY <1>2, Zenon DEF PushCount
    <3>3. exec' = exec /\ \A u \in Threads \ {t} : push'[u] = push[u]
      BY <1>2 DEF PushCount
    <3> QED
      BY <3>1, <3>2, <3>3 DEF OwesFirst, Executes
  <2>3. /\ globalQueue' = globalQueue
        /\ \A r \in Queues : jobCount'[r] # 0 <=> (jobCount[r] # 0 \/ r = q)
    BY <1>2, <2>1 DEF PushCount
  <2>4. jobCount[q] = 0 => /\ \A u \in Threads : ~OwesFirst(u, q) /\ ~Executes(u, q)
                           /\ \A i \in DOMAIN globalQueue : ~Waits(i, q)
    BY DEF HolderIffWork
  <2>5. CASE jobCount[q] # 0
    BY <1>0, <2>2, <2>3, <2>5, HoldersSame
  <2>6. CASE jobCount[q] = 0
    <3>1. SingleExecutor'
      BY <2>2 DEF SingleExecutor
    <3>2. ASSUME NEW r \in Queues
          PROVE  /\ \A u, v \in Threads : OwesFirst(u, r)' /\ OwesFirst(v, r)' => u = v
                 /\ \A i, k \in DOMAIN globalQueue' : Waits(i, r)' /\ Waits(k, r)' => i = k
                 /\ \A u, v \in Threads : ~(OwesFirst(u, r)' /\ Executes(v, r)')
                 /\ \A u \in Threads, i \in DOMAIN globalQueue' :
                      ~(OwesFirst(u, r)' /\ Waits(i, r)') /\ ~(Executes(u, r)' /\ Waits(i, r)')
      <4>1. \A i \in DOMAIN globalQueue' : Waits(i, r)' <=> Waits(i, r)
        BY <2>3 DEF Waits
      <4>2. CASE r = q
        BY <2>2, <2>3, <2>4, <2>6, <4>1, <4>2 DEF OneHolder
      <4>3. CASE r # q
        BY <2>2, <2>3, <4>1, <4>3 DEF OneHolder
      <4> QED
        BY <4>2, <4>3
    <3>3. OneHolder'
      BY <3>2 DEF OneHolder
    <3>4. HolderIffWork'
      BY <2>2, <2>3, <2>6 DEF HolderIffWork, Waits
    <3> QED
      BY <3>1, <3>3, <3>4 DEF Holders
  <2> QED
    BY <2>5, <2>6
<1>3. ASSUME NEW t \in Threads, PushJoin(t)
      PROVE  Holders'
  <2>1. \A u \in Threads, r \in Queues :
          /\ OwesFirst(u, r)' <=> OwesFirst(u, r)
          /\ Executes(u, r)' <=> Executes(u, r)
    BY <1>3 DEF OwesFirst, Executes, NoPush, PushJoin, PutItem
  <2>2. globalQueue' = globalQueue /\ \A r \in Queues : jobCount'[r] # 0 <=> jobCount[r] # 0
    BY <1>3 DEF PushJoin, PutItem
  <2> QED
    BY <1>0, <2>1, <2>2, HoldersSame
<1>4. ASSUME NEW t \in Threads, PushExecute(t)
      PROVE  Holders'
  <2>1. PICK q \in Queues : push[t].queue = q /\ push[t].first
    BY <1>4, FrameTypes DEF PushExecute, PutItem
  <2>2. exec[t].queue = None
    <3>1. push[t] # NoPush /\ currentJobQueue[t] = None
      BY <1>4 DEF PushExecute, PutItem, NoPush
    <3>2. exec[t].pc # "handoff"
      BY <3>1 DEF FrameOK
    <3> QED
      BY <3>1, <3>2
  <2>3. \A u \in Threads, r \in Queues :
          /\ OwesFirst(u, r)' <=> OwesFirst(u, r) /\ ~(u = t /\ r = q)
          /\ Executes(u, r)' <=> Executes(u, r) \/ (u = t /\ r = q)
    BY <1>4, <2>1, <2>2 DEF OwesFirst, Executes, PushExecute, PutItem, NoPush, Entered
  <2>4. globalQueue' = globalQueue /\ jobCount' = jobCount
    BY <1>4 DEF PushExecute
  <2>5. /\ \A u \in Threads : ~Executes(u, q) /\ (OwesFirst(u, q) => u = t)
        /\ \A i \in DOMAIN globalQueue : ~Waits(i, q)
        /\ OwesFirst(t, q)
    BY <2>1 DEF OneHolder, OwesFirst
  <2>6. SingleExecutor'
    <3> SUFFICES ASSUME NEW r \in Queues, NEW u \in Threads, NEW v \in Threads,
                        Executes(u, r)', Executes(v, r)'
                 PROVE  u = v
      BY DEF SingleExecutor
    <3>1. CASE r = q
      BY <2>3, <2>5, <3>1
    <3>2. CASE r # q
      <4>1. Executes(u, r) /\ Executes(v, r)
        BY <2>3, <3>2
      <4> QED
        BY <4>1 DEF SingleExecutor
    <3> QED
      BY <3>1, <3>2
  <2>7. ASSUME NEW r \in Queues
        PROVE  /\ \A u, v \in Threads : OwesFirst(u, r)' /\ OwesFirst(v, r)' => u = v
               /\ \A i, k \in DOMAIN globalQueue' : Waits(i, r)' /\ Waits(k, r)' => i = k
               /\ \A u, v \in Threads : ~(OwesFirst(u, r)' /\ Executes(v, r)')
               /\ \A u \in Threads, i \in DOMAIN globalQueue' :
                    ~(OwesFirst(u, r)' /\ Waits(i, r)') /\ ~(Executes(u, r)' /\ Waits(i, r)')
    <3>1. \A i \in DOMAIN globalQueue' : Waits(i, r)' <=> Waits(i, r)
      BY <2>4 DEF Waits
    <3>2. CASE r = q
      BY <2>3, <2>4, <2>5, <3>1, <3>2 DEF OneHolder
    <3>3. CASE r # q
      BY <2>3, <2>4, <3>1, <3>3 DEF OneHolder
    <3> QED
      BY <3>2, <3>3
  <2>8. OneHolder'
    BY <2>7 DEF OneHolder
  <2>9. HolderIffWork'
    BY <2>3, <2>4, <2>5 DEF HolderIffWork, Waits
  <2> QED
    BY <2>6, <2>8, <2>9 DEF Holders
<1>5. ASSUME NEW t \in Threads, NEW pushOnly \in BOOLEAN, PushDefer(t, pushOnly)
      PROVE  Holders'
  <2>1. \A u \in Threads, r \in Queues :
          /\ OwesFirst(u, r)' <=> OwesFirst(u, r)
          /\ Executes(u, r)' <=> Executes(u, r)
    BY <1>5 DEF OwesFirst, Executes, NoPush, PushDefer, PutItem, PushFrame
  <2>2. globalQueue' = globalQueue /\ \A r \in Queues : jobCount'[r] # 0 <=> jobCount[r] # 0
    BY <1>5 DEF PushDefer, PutItem, PushFrame
  <2> QED
    BY <1>0, <2>1, <2>2, HoldersSame
<1>6. ASSUME NEW t \in Threads, PushGlobal(t)
      PROVE  Holders'
  <2>1. PICK q \in Queues : push[t].queue = q
    BY <1>6, FrameTypes DEF PushGlobal
  <2>2. OwesFirst(t, q) /\ ~Executes(t, q)
    BY <1>6, <2>1 DEF PushGlobal, OwesFirst, FrameOK, OneHolder
  <2>3. \A u \in Threads, r \in Queues :
          /\ OwesFirst(u, r)' <=> OwesFirst(u, r) /\ ~(u = t /\ r = q)
          /\ Executes(u, r)' <=> Executes(u, r) /\ ~(u = t /\ r = q)
    BY <1>6, <2>1, <2>2 DEF OwesFirst, Executes, PushGlobal, NoPush
  <2>4. globalQueue' = Append(globalQueue, q) /\ jobCount' = jobCount
    BY <1>6, <2>1 DEF PushGlobal
  <2> QED
    BY <1>0, <2>2, <2>3, <2>4, HoldersToGlobal
<1>7. ASSUME NEW t \in Threads, PopGlobal(t)
      PROVE  Holders'
  <2>1. \A u \in Threads, r \in Queues :
          /\ OwesFirst(u, r)' <=> OwesFirst(u, r)
          /\ Executes(u, r)' <=> Executes(u, r) \/ (u = t /\ r = Head(globalQueue))
    BY <1>7 DEF OwesFirst, Executes, PopGlobal, NoExec, Entered
  <2>2. globalQueue # <<>> /\ globalQueue' = Tail(globalQueue) /\ jobCount' = jobCount
    BY <1>7 DEF PopGlobal
  <2> QED
    BY <1>0, <2>1, <2>2, HoldersFromGlobal
<1>8. ASSUME NEW t \in Threads, ExecPopAll(t)
      PROVE  Holders'
  <2>1. \A u \in Threads, r \in Queues :
          /\ OwesFirst(u, r)' <=> OwesFirst(u, r)
          /\ Executes(u, r)' <=> Executes(u, r)
    BY <1>8 DEF OwesFirst, Executes, NoPush, ExecPopAll
  <2>2. globalQueue' = globalQueue /\ \A r \in Queues : jobCount'[r] # 0 <=> jobCount[r] # 0
    BY <1>8 DEF ExecPopAll
  <2> QED
    BY <1>0, <2>1, <2>2, HoldersSame
<1>9. ASSUME NEW t \in Threads, JobStart(t)
      PROVE  Holders'
  <2>1. \A u \in Threads, r \in Queues :
          /\ OwesFirst(u, r)' <=> OwesFirst(u, r)
          /\ Executes(u, r)' <=> Executes(u, r)
    BY <1>9 DEF OwesFirst, Executes, NoPush, JobStart, ExecFrame
  <2>2. globalQueue' = globalQueue /\ \A r \in Queues : jobCount'[r] # 0 <=> jobCount[r] # 0
    BY <1>9 DEF JobStart, ExecFrame
  <2> QED
    BY <1>0, <2>1, <2>2, HoldersSame
<1>10. ASSUME NEW t \in Threads, JobEnd(t)
      PROVE  Holders'
  <2>1. \A u \in Threads, r \in Queues :
          /\ OwesFirst(u, r)' <=> OwesFirst(u, r)
          /\ Executes(u, r)' <=> Executes(u, r)
    BY <1>10 DEF OwesFirst, Executes, NoPush, JobEnd, ExecFrame
  <2>2. globalQueue' = globalQueue /\ \A r \in Queues : jobCount'[r] # 0 <=> jobCount[r] # 0
    BY <1>10 DEF JobEnd, ExecFrame
  <2> QED
    BY <1>0, <2>1, <2>2, HoldersSame
<1>11. ASSUME NEW t \in Threads, ExecFinish(t)
      PROVE  Holders'
  <2>1. PICK q \in Queues : exec[t].queue = q
    BY <1>11, FrameTypes DEF ExecFinish
  <2>2. \A u \in Threads, r \in Queues :
          /\ OwesFirst(u, r)' <=> OwesFirst(u, r)
          /\ Executes(u, r)' <=> Executes(u, r) /\ ~(u = t /\ r = q)
    BY <1>11, <2>1 DEF OwesFirst, Executes, ExecFinish, NoExec
  <2>3. globalQueue' = globalQueue /\ jobCount' = [jobCount EXCEPT ![q] = 0]
    <3>1. jobCount[q] \in Int /\ exec[t].size = jobCount[q]
      BY <1>11, <2>1 DEF ExecFinish
    <3>2. jobCount' = [jobCount EXCEPT ![q] = @ - exec[t].size] /\ globalQueue' = globalQueue
      BY <1>11, <2>1 DEF ExecFinish
    <3>3. jobCount[q] - exec[t].size = 0
      BY <3>1
    <3> QED
      BY <3>2, <3>3
  <2>4. /\ Executes(t, q)
        /\ \A u \in Threads : ~OwesFirst(u, q) /\ (Executes(u, q) => u = t)
        /\ \A i \in DOMAIN globalQueue : ~Waits(i, q)
    BY <2>1 DEF OneHolder, SingleExecutor, Executes
  <2>5. SingleExecutor'
    BY <2>2 DEF SingleExecutor
  <2>6. OneHolder'
    BY <2>2, <2>3 DEF OneHolder, Waits
  <2>7. HolderIffWork'
    <3> SUFFICES ASSUME NEW r \in Queues
                 PROVE  jobCount'[r] # 0 <=>
                          \/ \E u \in Threads : OwesFirst(u, r)' \/ Executes(u, r)'
                          \/ \E i \in DOMAIN globalQueue' : Waits(i, r)'
      BY DEF HolderIffWork
    <3>1. \A i \in DOMAIN globalQueue' : i \in DOMAIN globalQueue /\ (Waits(i, r)' <=> Waits(i, r))
      BY <2>3 DEF Waits
    <3>2. CASE r = q
      <4>1. jobCount'[r] = 0
        BY <2>3, <3>2 DEF TypeOK
      <4>2. \A u \in Threads : ~OwesFirst(u, r)' /\ ~Executes(u, r)'
        BY <2>2, <2>4, <3>2
      <4> QED
        BY <2>4, <3>1, <3>2, <4>1, <4>2
    <3>3. CASE r # q
      <4>1. jobCount'[r] = jobCount[r] /\ globalQueue' = globalQueue
        BY <2>3, <3>3 DEF TypeOK
      <4>2. \A u \in Threads : /\ OwesFirst(u, r)' <=> OwesFirst(u, r)
                               /\ Executes(u, r)' <=> Executes(u, r)
        BY <2>2, <3>3
      <4> QED
        BY <3>1, <4>1, <4>2 DEF HolderIffWork
    <3> QED
      BY <3>2, <3>3
  <2> QED
    BY <2>5, <2>6, <2>7 DEF Holders
<1>12. ASSUME NEW t \in Threads, ExecRemain(t)
      PROVE  Holders'
  <2>1. PICK q \in Queues : exec[t].queue = q
    BY <1>12, FrameTypes DEF ExecRemain
  <2>2. \A u \in Threads, r \in Queues :
          /\ OwesFirst(u, r)' <=> OwesFirst(u, r)
          /\ Executes(u, r)' <=> Executes(u, r)
    BY <1>12, <2>1 DEF OwesFirst, Executes, ExecRemain, ExecFrame, NoExec
  <2>3. jobCount[q] # 0
    BY <2>1 DEF HolderIffWork, Executes
  <2>4. globalQueue' = globalQueue /\ \A r \in Queues : jobCount'[r] # 0 <=> jobCount[r] # 0
    <3>1. exec[t].size \in Nat /\ jobCount[q] # exec[t].size
      BY <1>12, <2>1, FrameTypes DEF ExecRemain
    <3>2. jobCount' = [jobCount EXCEPT ![q] = @ - exec[t].size] /\ globalQueue' = globalQueue
      BY <1>12, <2>1 DEF ExecRemain
    <3> QED
      BY <2>3, <3>1, <3>2
  <2> QED
    BY <1>0, <2>2, <2>4, HoldersSame
<1>13. ASSUME NEW t \in Threads, ExecAgain(t) \/ ExecTimeout(t)
      PROVE  Holders'
  <2>1. \A u \in Threads, r \in Queues :
          /\ OwesFirst(u, r)' <=> OwesFirst(u, r)
          /\ Executes(u, r)' <=> Executes(u, r)
    <3>1. CASE ExecAgain(t)
      BY <3>1 DEF OwesFirst, Executes, ExecAgain
    <3>2. CASE ExecTimeout(t)
      BY <3>2 DEF OwesFirst, Executes, ExecTimeout
    <3> QED
      BY <1>13, <3>1, <3>2
  <2>2. globalQueue' = globalQueue /\ \A r \in Queues : jobCount'[r] # 0 <=> jobCount[r] # 0
    BY <1>13 DEF ExecAgain, ExecTimeout, ExecFrame
  <2> QED
    BY <1>0, <2>1, <2>2, HoldersSame
<1>14. ASSUME NEW t \in Threads, ExecHandoff(t)
      PROVE  Holders'
  <2>1. PICK q \in Queues : exec[t].queue = q
    BY <1>14, FrameTypes DEF ExecHandoff
  <2>2. Executes(t, q) /\ ~OwesFirst(t, q)
    BY <2>1 DEF Executes, OneHolder
  <2>3. \A u \in Threads, r \in Queues :
          /\ OwesFirst(u, r)' <=> OwesFirst(u, r) /\ ~(u = t /\ r = q)
          /\ Executes(u, r)' <=> Executes(u, r) /\ ~(u = t /\ r = q)
    BY <1>14, <2>1, <2>2 DEF OwesFirst, Executes, ExecHandoff, NoExec
  <2>4. globalQueue' = Append(globalQueue, q) /\ jobCount' = jobCount
    BY <1>14, <2>1 DEF ExecHandoff
  <2> QED
    BY <1>0, <2>2, <2>3, <2>4, HoldersToGlobal
<1> QED
  BY <1>1, <1>2, <1>3, <1>4, <1>5, <1>6, <1>7, <1>8, <1>9, <1>10, <1>11, <1>12,
     <1>13, <1>14 DEF Next, PushStep, ExecStep

\* The three terms of the counter, as CountExact adds them.
Queued(q) == Len(jobs[q])
Flying(q) == Cardinality(InFlight(q))
Held(t) == exec[t].size

CountAt(r) ==
    /\ \A t \in Threads : Executes(t, r) => jobCount[r] = Queued(r) + Held(t) + Flying(r)
    /\ (\A t \in Threads : ~Executes(t, r)) => jobCount[r] = Queued(r) + Flying(r)

\* CountExact, queue by queue and in this state or the next.
LEMMA CountAtEach == /\ CountExact <=> \A r \in Queues : CountAt(r)
                     /\ CountExact' <=> \A r \in Queues : CountAt(r)'
BY DEF CountExact, CountAt, Queued, Held, Flying

\* The terms of CountExact are numbers.
LEMMA TermTypes == ASSUME TypeOK, TypeOK', NEW r \in Queues, NEW t \in Threads
    PROVE /\ jobCount[r] \in Int /\ Queued(r) \in Nat /\ Flying(r) \in Nat /\ Held(t) \in Nat
          /\ jobCount'[r] \in Int /\ Queued(r)' \in Nat /\ Flying(r)' \in Nat /\ Held(t)' \in Nat
<1>1. jobCount[r] \in Int /\ jobCount'[r] \in Int
  BY DEF TypeOK
<1>2. Queued(r) \in Nat /\ Queued(r)' \in Nat
  BY LenProperties DEF TypeOK, Queued
<1>3. Flying(r) \in Nat /\ Flying(r)' \in Nat
  BY InFlightFinite DEF Flying
<1>4. Held(t) \in Nat /\ Held(t)' \in Nat
  <2>1. \A e \in ExecFrame \cup {NoExec} : e.size \in Nat
    BY DEF ExecFrame, NoExec
  <2>2. exec[t] \in ExecFrame \cup {NoExec} /\ exec'[t] \in ExecFrame \cup {NoExec}
    BY DEF TypeOK
  <2> QED
    BY <2>1, <2>2 DEF Held
<1> QED
  BY <1>1, <1>2, <1>3, <1>4

\* A step that changes the counter of a queue by as much as it changes its
\* jobs in m_jobs and in flight, and no batch of its executor.
LEMMA CountSame ==
    ASSUME TypeOK, TypeOK', NEW r \in Queues, CountAt(r),
           \A u \in Threads : /\ Executes(u, r)' <=> Executes(u, r)
                              /\ Executes(u, r) => Held(u)' = Held(u),
           jobCount'[r] - jobCount[r] = (Queued(r)' - Queued(r)) + (Flying(r)' - Flying(r))
    PROVE CountAt(r)'
<1>1. ASSUME NEW t \in Threads, Executes(t, r)
      PROVE  jobCount'[r] = Queued(r)' + Held(t)' + Flying(r)'
  <2>1. jobCount[r] = Queued(r) + Held(t) + Flying(r)
    BY <1>1 DEF CountAt
  <2>2. Held(t)' = Held(t)
    BY <1>1
  <2>3. /\ jobCount[r] \in Int /\ Queued(r) \in Nat /\ Flying(r) \in Nat /\ Held(t) \in Nat
        /\ jobCount'[r] \in Int /\ Queued(r)' \in Nat /\ Flying(r)' \in Nat
    BY TermTypes
  <2> QED
    BY <2>1, <2>2, <2>3
<1>2. ASSUME \A t \in Threads : ~Executes(t, r)
      PROVE  jobCount'[r] = Queued(r)' + Flying(r)'
  <2>1. jobCount[r] = Queued(r) + Flying(r)
    BY <1>2 DEF CountAt
  <2>2. /\ jobCount[r] \in Int /\ Queued(r) \in Nat /\ Flying(r) \in Nat
        /\ jobCount'[r] \in Int /\ Queued(r)' \in Nat /\ Flying(r)' \in Nat
    BY InFlightFinite, LenProperties DEF TypeOK, Queued, Flying
  <2> QED
    BY <2>1, <2>2
<1> QED
  BY <1>1, <1>2 DEF CountAt

\* A step of the one thread that executes the queue before it, after it or
\* both: the batch of a thread that does not execute counts for nothing.
LEMMA CountExecutor ==
    ASSUME TypeOK, TypeOK', NEW r \in Queues, CountAt(r), NEW t \in Threads,
           \A u \in Threads : (Executes(u, r) => u = t) /\ (Executes(u, r)' => u = t),
           ~Executes(t, r) => Held(t) = 0,
           ~Executes(t, r)' => Held(t)' = 0,
           jobCount'[r] - jobCount[r] = (Queued(r)' - Queued(r)) + (Held(t)' - Held(t))
                                        + (Flying(r)' - Flying(r))
    PROVE CountAt(r)'
<1>1. jobCount[r] = Queued(r) + Held(t) + Flying(r)
  BY TermTypes DEF CountAt
<1>2. jobCount'[r] = Queued(r)' + Held(t)' + Flying(r)'
  BY <1>1, TermTypes
<1>3. ~Executes(t, r)' => jobCount'[r] = Queued(r)' + Flying(r)'
  BY <1>2, TermTypes
<1> QED
  BY <1>2, <1>3 DEF CountAt

\* Every step keeps the counter exact.
LEMMA CountPreserved == ASSUME IInv, TypeOK', SingleExecutor', [Next]_vars PROVE CountExact'
<1> USE NoneAssumption
<1>0. /\ TypeOK /\ FrameOK /\ SingleExecutor /\ OneHolder
      /\ \A r \in Queues : CountAt(r)
  BY CountAtEach DEF IInv
<1> SUFFICES ASSUME NEW r \in Queues PROVE CountAt(r)'
  BY CountAtEach
<1>a. ASSUME NEW t \in Threads
      PROVE  /\ jobCount[r] \in Int /\ Queued(r) \in Nat /\ Flying(r) \in Nat /\ Held(t) \in Nat
             /\ jobCount'[r] \in Int /\ Queued(r)' \in Nat /\ Flying(r)' \in Nat /\ Held(t)' \in Nat
  BY <1>0, TermTypes
<1>1. CASE UNCHANGED vars
  BY <1>0, <1>1 DEF vars, CountAt, Queued, Flying, Held, Executes, InFlight
<1>2. ASSUME NEW t \in Threads, NEW q \in Queues, NEW j \in Jobs, PushCount(t, q, j)
      PROVE  CountAt(r)'
  <2>1. Flying(r)' = Flying(r) + (IF r = q THEN 1 ELSE 0)
    BY <1>0, <1>2, InFlightEnter DEF Flying
  <2>2. jobCount'[r] = jobCount[r] + (IF r = q THEN 1 ELSE 0)
    BY <1>0, <1>2 DEF PushCount, TypeOK
  <2>3. Queued(r)' = Queued(r)
    BY <1>2 DEF PushCount, Queued
  <2>4. \A u \in Threads : (Executes(u, r)' <=> Executes(u, r)) /\ Held(u)' = Held(u)
    BY <1>2 DEF PushCount, Executes, Held
  <2>5. jobCount'[r] - jobCount[r] = (Queued(r)' - Queued(r)) + (Flying(r)' - Flying(r))
    BY <1>2, <1>a, <2>1, <2>2, <2>3
  <2> QED
    BY <1>0, <2>4, <2>5, CountSame
<1>3. ASSUME NEW t \in Threads, PushJoin(t)
      PROVE  CountAt(r)'
  <2>1. PICK q \in Queues, j \in Jobs : q = push[t].queue /\ j = push[t].job
    BY <1>0, <1>3, FrameTypes DEF PushJoin, PutItem
  <2>2. Flying(r)' = Flying(r) - (IF r = q THEN 1 ELSE 0)
    <3>1. PutItem(t) /\ \A u \in Threads \ {t} : push'[u] = push[u]
      BY <1>3 DEF PushJoin
    <3>2. push'[t].pc # "item"
      BY <1>0, <1>3 DEF PushJoin, NoPush, TypeOK, PushFrame
    <3> QED
      BY <1>0, <2>1, <3>1, <3>2, InFlightLeave DEF Flying
  <2>3. Queued(r)' = Queued(r) + (IF r = q THEN 1 ELSE 0)
    <3>1. jobs'[r] = IF r = q THEN Append(jobs[r], j) ELSE jobs[r]
      BY <1>0, <1>3, <2>1 DEF PushJoin, PutItem, TypeOK
    <3>2. Len(Append(jobs[r], j)) = Queued(r) + 1
      BY <1>0, AppendProperties DEF TypeOK, Queued
    <3>3. Queued(r)' = IF r = q THEN Queued(r) + 1 ELSE Queued(r)
      BY <3>1, <3>2 DEF Queued
    <3> QED
      BY <1>a, <1>3, <3>3
  <2>4. jobCount' = jobCount
    BY <1>3 DEF PushJoin
  <2>5. \A u \in Threads : (Executes(u, r)' <=> Executes(u, r)) /\ Held(u)' = Held(u)
    BY <1>3 DEF PushJoin, Executes, Held
  <2>6. jobCount'[r] - jobCount[r] = (Queued(r)' - Queued(r)) + (Flying(r)' - Flying(r))
    BY <1>a, <2>2, <2>3, <2>4
  <2> QED
    BY <1>0, <2>5, <2>6, CountSame
<1>4. ASSUME NEW t \in Threads, PushExecute(t)
      PROVE  CountAt(r)'
  <2>1. PICK q \in Queues, j \in Jobs : q = push[t].queue /\ j = push[t].job
    BY <1>0, <1>4, FrameTypes DEF PushExecute, PutItem
  <2>2. Flying(r)' = Flying(r) - (IF r = q THEN 1 ELSE 0)
    <3>1. PutItem(t) /\ \A u \in Threads \ {t} : push'[u] = push[u]
      BY <1>4 DEF PushExecute
    <3>2. push'[t].pc # "item"
      BY <1>0, <1>4 DEF PushExecute, NoPush, TypeOK, PushFrame
    <3> QED
      BY <1>0, <2>1, <3>1, <3>2, InFlightLeave DEF Flying
  <2>3. Queued(r)' = Queued(r) + (IF r = q THEN 1 ELSE 0)
    <3>1. jobs'[r] = IF r = q THEN Append(jobs[r], j) ELSE jobs[r]
      BY <1>0, <1>4, <2>1 DEF PushExecute, PutItem, TypeOK
    <3>2. Len(Append(jobs[r], j)) = Queued(r) + 1
      BY <1>0, AppendProperties DEF TypeOK, Queued
    <3>3. Queued(r)' = IF r = q THEN Queued(r) + 1 ELSE Queued(r)
      BY <3>1, <3>2 DEF Queued
    <3> QED
      BY <1>a, <1>4, <3>3
  <2>4. jobCount' = jobCount
    BY <1>4 DEF PushExecute
  <2>5. \A u \in Threads : Executes(u, r)' <=> IF u = t THEN r = q ELSE Executes(u, r)
    BY <1>0, <1>4, <2>1 DEF PushExecute, PutItem, Executes, Entered, TypeOK
  <2>6. \A u \in Threads : ~Executes(u, q)
    BY <1>0, <1>4, <2>1 DEF PushExecute, OwesFirst, OneHolder
  <2>7. Held(t) = 0 /\ Held(t)' = 0 /\ exec[t].queue = None
    <3>1. push[t] # NoPush /\ currentJobQueue[t] = None
      BY <1>4 DEF PushExecute, PutItem, NoPush
    <3>2. exec[t].pc \in {"idle", "running"}
      BY <1>0, <3>1 DEF FrameOK
    <3>3. exec[t].pc # "running"
      BY <1>0, <3>1, FrameTypes DEF TypeOK
    <3> QED
      BY <1>0, <1>4, <3>2, <3>3, FrameTypes DEF PushExecute, Entered, NoExec, Held, TypeOK
  <2>8. ~Executes(t, r)
    BY <2>7 DEF Executes
  <2>9. CASE r = q
    <3>1. jobCount'[r] - jobCount[r] = (Queued(r)' - Queued(r)) + (Held(t)' - Held(t))
                                       + (Flying(r)' - Flying(r))
      BY <1>a, <2>2, <2>3, <2>4, <2>7, <2>9
    <3> QED
      BY <1>0, <2>5, <2>6, <2>7, <2>9, <3>1, CountExecutor
  <2>10. CASE r # q
    <3>1. \A u \in Threads : Executes(u, r)' <=> Executes(u, r)
      BY <2>5, <2>8, <2>10
    <3>2. \A u \in Threads : Executes(u, r) => Held(u)' = Held(u)
      BY <1>4, <2>8 DEF PushExecute, Held
    <3>3. jobCount'[r] - jobCount[r] = (Queued(r)' - Queued(r)) + (Flying(r)' - Flying(r))
      BY <1>a, <2>2, <2>3, <2>4, <2>10
    <3> QED
      BY <1>0, <3>1, <3>2, <3>3, CountSame
  <2> QED
    BY <2>9, <2>10
<1>5. ASSUME NEW t \in Threads, NEW pushOnly \in BOOLEAN, PushDefer(t, pushOnly)
      PROVE  CountAt(r)'
  <2>1. PICK q \in Queues, j \in Jobs : q = push[t].queue /\ j = push[t].job
    BY <1>0, <1>5, FrameTypes DEF PushDefer, PutItem
  <2>2. Flying(r)' = Flying(r) - (IF r = q THEN 1 ELSE 0)
    <3>1. PutItem(t) /\ \A u \in Threads \ {t} : push'[u] = push[u]
      BY <1>5 DEF PushDefer
    <3>2. push'[t].pc # "item"
      BY <1>0, <1>5 DEF PushDefer, NoPush, TypeOK, PushFrame
    <3> QED
      BY <1>0, <2>1, <3>1, <3>2, InFlightLeave DEF Flying
  <2>3. Queued(r)' = Queued(r) + (IF r = q THEN 1 ELSE 0)
    <3>1. jobs'[r] = IF r = q THEN Append(jobs[r], j) ELSE jobs[r]
      BY <1>0, <1>5, <2>1 DEF PushDefer, PutItem, TypeOK
    <3>2. Len(Append(jobs[r], j)) = Queued(r) + 1
      BY <1>0, AppendProperties DEF TypeOK, Queued
    <3>3. Queued(r)' = IF r = q THEN Queued(r) + 1 ELSE Queued(r)
      BY <3>1, <3>2 DEF Queued
    <3> QED
      BY <1>a, <1>5, <3>3
  <2>4. jobCount' = jobCount
    BY <1>5 DEF PushDefer
  <2>5. \A u \in Threads : (Executes(u, r)' <=> Executes(u, r)) /\ Held(u)' = Held(u)
    BY <1>5 DEF PushDefer, Executes, Held
  <2>6. jobCount'[r] - jobCount[r] = (Queued(r)' - Queued(r)) + (Flying(r)' - Flying(r))
    BY <1>a, <2>2, <2>3, <2>4
  <2> QED
    BY <1>0, <2>5, <2>6, CountSame
<1>6. ASSUME NEW t \in Threads, PushGlobal(t)
      PROVE  CountAt(r)'
  <2>1. InFlight(r)' = InFlight(r)
    BY <1>6 DEF PushGlobal, InFlight, NoPush
  <2> QED
    BY <1>0, <1>6, <2>1 DEF PushGlobal, CountAt, Executes, Queued, Flying, Held
<1>7. ASSUME NEW t \in Threads, PopGlobal(t)
      PROVE  CountAt(r)'
  <2>1. PICK q \in Queues : q = Head(globalQueue) /\ \A u \in Threads : ~Executes(u, q)
    <3>1. Head(globalQueue) \in Queues /\ 1 \in DOMAIN globalQueue /\ globalQueue[1] = Head(globalQueue)
      BY <1>0, <1>7, HeadTailProperties, LenProperties, EmptySeq DEF PopGlobal, TypeOK
    <3> QED
      BY <1>0, <3>1 DEF OneHolder, Waits
  <2>2. \A u \in Threads : Executes(u, r)' <=> IF u = t THEN r = q ELSE Executes(u, r)
    BY <1>0, <1>7, <2>1 DEF PopGlobal, Executes, Entered, TypeOK
  <2>3. Held(t) = 0 /\ Held(t)' = 0 /\ exec[t].queue = None
    BY <1>0, <1>7 DEF PopGlobal, Entered, NoExec, Held, TypeOK
  <2>4. jobCount' = jobCount /\ Queued(r)' = Queued(r)
    BY <1>7 DEF PopGlobal, Queued
  <2>5. Flying(r)' = Flying(r)
    BY <1>7, InFlightSame DEF PopGlobal, Flying
  <2>6. ~Executes(t, r)
    BY <2>3 DEF Executes
  <2>7. CASE r = q
    <3>1. jobCount'[r] - jobCount[r] = (Queued(r)' - Queued(r)) + (Held(t)' - Held(t))
                                       + (Flying(r)' - Flying(r))
      BY <1>a, <2>3, <2>4, <2>5
    <3> QED
      BY <1>0, <2>1, <2>2, <2>3, <2>7, <3>1, CountExecutor
  <2>8. CASE r # q
    <3>1. \A u \in Threads : Executes(u, r)' <=> Executes(u, r)
      BY <2>2, <2>6, <2>8
    <3>2. \A u \in Threads : Executes(u, r) => Held(u)' = Held(u)
      BY <1>7, <2>6 DEF PopGlobal, Held
    <3>3. jobCount'[r] - jobCount[r] = (Queued(r)' - Queued(r)) + (Flying(r)' - Flying(r))
      BY <1>a, <2>4, <2>5
    <3> QED
      BY <1>0, <3>1, <3>2, <3>3, CountSame
  <2> QED
    BY <2>7, <2>8
<1>8. ASSUME NEW t \in Threads, ExecPopAll(t)
      PROVE  CountAt(r)'
  <2>1. PICK q \in Queues : q = exec[t].queue
    BY <1>0, <1>8, FrameTypes DEF ExecPopAll
  <2>2. Executes(t, q) /\ \A u \in Threads : Executes(u, q) => u = t
    BY <1>0, <2>1 DEF Executes, SingleExecutor
  <2>3. \A u \in Threads : Executes(u, r)' <=> Executes(u, r)
    BY <1>0, <1>8, <2>1 DEF ExecPopAll, Executes, NoExec, TypeOK, ExecFrame
  <2>4. \A u \in Threads \ {t} : Held(u)' = Held(u)
    BY <1>8 DEF ExecPopAll, Held
  <2>5. Flying(r)' = Flying(r)
    BY <1>8, InFlightSame DEF ExecPopAll, Flying
  <2>6. Held(t) = 0 /\ Held(t)' = Queued(q)
    BY <1>0, <1>8, <2>1 DEF ExecPopAll, Held, Queued, FrameOK, TypeOK
  <2>7. CASE r = q
    <3>1. jobCount'[r] - jobCount[r] = (Queued(r)' - Queued(r)) + (Held(t)' - Held(t))
                                       + (Flying(r)' - Flying(r))
      <4>1. Queued(r)' = 0 /\ Queued(r) = Queued(q) /\ jobCount' = jobCount
        BY <1>0, <1>8, <2>1, <2>7, EmptySeq DEF ExecPopAll, Queued, TypeOK
      <4> QED
        BY <1>a, <2>5, <2>6, <4>1
    <3> QED
      BY <1>0, <2>2, <2>3, <2>6, <2>7, <3>1, CountExecutor
  <2>8. CASE r # q
    <3>1. ~Executes(t, r)
      BY <2>1, <2>8 DEF Executes
    <3>2. \A u \in Threads : Executes(u, r)' <=> Executes(u, r)
      BY <2>3, <2>8, <3>1
    <3>3. \A u \in Threads : Executes(u, r) => Held(u)' = Held(u)
      BY <2>4, <3>1
    <3>4. jobCount'[r] = jobCount[r] /\ Queued(r)' = Queued(r)
      BY <1>0, <1>8, <2>1, <2>8 DEF ExecPopAll, Queued, TypeOK
    <3>5. jobCount'[r] - jobCount[r] = (Queued(r)' - Queued(r)) + (Flying(r)' - Flying(r))
      BY <1>a, <2>5, <3>4
    <3> QED
      BY <1>0, <3>2, <3>3, <3>5, CountSame
  <2> QED
    BY <2>7, <2>8
<1>9. ASSUME NEW t \in Threads, JobStart(t)
      PROVE  CountAt(r)'
  <2>1. \A u \in Threads : (Executes(u, r)' <=> Executes(u, r)) /\ Held(u)' = Held(u)
    BY <1>0, <1>9 DEF Executes, Held, TypeOK, JobStart, ExecFrame
  <2>2. jobCount' = jobCount /\ Queued(r)' = Queued(r)
    BY <1>9 DEF JobStart, Queued
  <2>3. Flying(r)' = Flying(r)
    BY <1>9, InFlightSame DEF JobStart, Flying
  <2> QED
    BY <1>0, <1>a, <2>1, <2>2, <2>3, CountSame
<1>10. ASSUME NEW t \in Threads, JobEnd(t)
      PROVE  CountAt(r)'
  <2>1. \A u \in Threads : (Executes(u, r)' <=> Executes(u, r)) /\ Held(u)' = Held(u)
    BY <1>0, <1>10 DEF Executes, Held, TypeOK, JobEnd, ExecFrame
  <2>2. jobCount' = jobCount /\ Queued(r)' = Queued(r)
    BY <1>10 DEF JobEnd, Queued
  <2>3. Flying(r)' = Flying(r)
    BY <1>10, InFlightSame DEF JobEnd, Flying
  <2> QED
    BY <1>0, <1>a, <2>1, <2>2, <2>3, CountSame
<1>11. ASSUME NEW t \in Threads, ExecFinish(t)
      PROVE  CountAt(r)'
  <2>1. PICK q \in Queues : q = exec[t].queue
    BY <1>0, <1>11, FrameTypes DEF ExecFinish
  <2>2. Executes(t, q) /\ \A u \in Threads : Executes(u, q) => u = t
    BY <1>0, <2>1 DEF Executes, SingleExecutor
  <2>3. \A u \in Threads : Executes(u, r)' <=> Executes(u, r) /\ u # t
    BY <1>0, <1>11, <2>1 DEF ExecFinish, Executes, NoExec, TypeOK, ExecFrame
  <2>4. \A u \in Threads \ {t} : Held(u)' = Held(u)
    BY <1>11 DEF ExecFinish, Held
  <2>5. Flying(r)' = Flying(r)
    BY <1>11, InFlightSame DEF ExecFinish, Flying
  <2>6. Held(t)' = 0
    BY <1>0, <1>11, <2>1 DEF ExecFinish, Held, NoExec, TypeOK, ExecFrame
  <2>7. CASE r = q
    <3>1. jobCount'[r] - jobCount[r] = (Queued(r)' - Queued(r)) + (Held(t)' - Held(t))
                                       + (Flying(r)' - Flying(r))
      <4>1. jobCount'[r] = jobCount[r] - Held(t) /\ Queued(r)' = Queued(r)
        BY <1>0, <1>11, <2>1, <2>7 DEF ExecFinish, Queued, Held, TypeOK
      <4> QED
        BY <1>a, <2>5, <2>6, <4>1
    <3> QED
      BY <1>0, <2>2, <2>3, <2>6, <2>7, <3>1, CountExecutor
  <2>8. CASE r # q
    <3>1. ~Executes(t, r)
      BY <2>1, <2>8 DEF Executes
    <3>2. \A u \in Threads : Executes(u, r)' <=> Executes(u, r)
      BY <2>3, <2>8, <3>1
    <3>3. \A u \in Threads : Executes(u, r) => Held(u)' = Held(u)
      BY <2>4, <3>1
    <3>4. jobCount'[r] = jobCount[r] /\ Queued(r)' = Queued(r)
      BY <1>0, <1>11, <2>1, <2>8 DEF ExecFinish, Queued, TypeOK
    <3>5. jobCount'[r] - jobCount[r] = (Queued(r)' - Queued(r)) + (Flying(r)' - Flying(r))
      BY <1>a, <2>5, <3>4
    <3> QED
      BY <1>0, <3>2, <3>3, <3>5, CountSame
  <2> QED
    BY <2>7, <2>8
<1>12. ASSUME NEW t \in Threads, ExecRemain(t)
      PROVE  CountAt(r)'
  <2>1. PICK q \in Queues : q = exec[t].queue
    BY <1>0, <1>12, FrameTypes DEF ExecRemain
  <2>2. Executes(t, q) /\ \A u \in Threads : Executes(u, q) => u = t
    BY <1>0, <2>1 DEF Executes, SingleExecutor
  <2>3. \A u \in Threads : Executes(u, r)' <=> Executes(u, r)
    <3>1. exec[t] \in ExecFrame
      BY <1>0, <1>12 DEF ExecRemain, TypeOK, NoExec
    <3>2. exec'[t] = [exec[t] EXCEPT !.pc = "tick", !.size = 0]
      BY <1>0, <1>12 DEF ExecRemain, TypeOK
    <3>3. exec'[t].queue = exec[t].queue
      BY <3>1, <3>2 DEF ExecFrame
    <3>4. \A u \in Threads \ {t} : exec'[u] = exec[u]
      BY <1>0, <1>12 DEF ExecRemain, TypeOK
    <3> QED
      BY <3>3, <3>4 DEF Executes
  <2>4. \A u \in Threads \ {t} : Held(u)' = Held(u)
    BY <1>0, <1>12 DEF ExecRemain, Held, TypeOK
  <2>5. Flying(r)' = Flying(r)
    BY <1>12, InFlightSame DEF ExecRemain, Flying
  <2>6. Held(t)' = 0
    BY <1>0, <1>12, <2>1 DEF ExecRemain, Held, NoExec, TypeOK, ExecFrame
  <2>7. CASE r = q
    <3>1. jobCount'[r] - jobCount[r] = (Queued(r)' - Queued(r)) + (Held(t)' - Held(t))
                                       + (Flying(r)' - Flying(r))
      <4>1. jobCount'[r] = jobCount[r] - Held(t) /\ Queued(r)' = Queued(r)
        BY <1>0, <1>12, <2>1, <2>7 DEF ExecRemain, Queued, Held, TypeOK
      <4> QED
        BY <1>a, <2>5, <2>6, <4>1
    <3> QED
      BY <1>0, <2>2, <2>3, <2>6, <2>7, <3>1, CountExecutor
  <2>8. CASE r # q
    <3>1. ~Executes(t, r)
      BY <2>1, <2>8 DEF Executes
    <3>2. \A u \in Threads : Executes(u, r)' <=> Executes(u, r)
      BY <2>3, <2>8, <3>1
    <3>3. \A u \in Threads : Executes(u, r) => Held(u)' = Held(u)
      BY <2>4, <3>1
    <3>4. jobCount'[r] = jobCount[r] /\ Queued(r)' = Queued(r)
      BY <1>0, <1>12, <2>1, <2>8 DEF ExecRemain, Queued, TypeOK
    <3>5. jobCount'[r] - jobCount[r] = (Queued(r)' - Queued(r)) + (Flying(r)' - Flying(r))
      BY <1>a, <2>5, <3>4
    <3> QED
      BY <1>0, <3>2, <3>3, <3>5, CountSame
  <2> QED
    BY <2>7, <2>8
<1>13. ASSUME NEW t \in Threads, ExecAgain(t) \/ ExecTimeout(t)
      PROVE  CountAt(r)'
  <2>1. \A u \in Threads : (Executes(u, r)' <=> Executes(u, r)) /\ Held(u)' = Held(u)
    <3>1. CASE ExecAgain(t)
      BY <1>0, <3>1 DEF Executes, Held, TypeOK, ExecFrame, ExecAgain
    <3>2. CASE ExecTimeout(t)
      BY <1>0, <3>2 DEF Executes, Held, TypeOK, ExecFrame, ExecTimeout
    <3> QED
      BY <1>13, <3>1, <3>2
  <2>2. jobCount' = jobCount /\ Queued(r)' = Queued(r)
    BY <1>13 DEF ExecAgain, ExecTimeout, Queued
  <2>3. Flying(r)' = Flying(r)
    BY <1>13, InFlightSame DEF ExecAgain, ExecTimeout, Flying
  <2> QED
    BY <1>0, <1>a, <2>1, <2>2, <2>3, CountSame
<1>14. ASSUME NEW t \in Threads, ExecHandoff(t)
      PROVE  CountAt(r)'
  <2>1. PICK q \in Queues : q = exec[t].queue
    BY <1>0, <1>14, FrameTypes DEF ExecHandoff
  <2>2. Executes(t, q) /\ \A u \in Threads : Executes(u, q) => u = t
    BY <1>0, <2>1 DEF Executes, SingleExecutor
  <2>3. \A u \in Threads : Executes(u, r)' <=> Executes(u, r) /\ u # t
    BY <1>0, <1>14, <2>1 DEF ExecHandoff, Executes, NoExec, TypeOK, ExecFrame
  <2>4. \A u \in Threads \ {t} : Held(u)' = Held(u)
    BY <1>14 DEF ExecHandoff, Held
  <2>5. Flying(r)' = Flying(r)
    BY <1>14, InFlightSame DEF ExecHandoff, Flying
  <2>6. Held(t) = 0 /\ Held(t)' = 0
    BY <1>0, <1>14 DEF ExecHandoff, Held, FrameOK, NoExec, TypeOK
  <2>7. CASE r = q
    <3>1. jobCount'[r] - jobCount[r] = (Queued(r)' - Queued(r)) + (Held(t)' - Held(t))
                                       + (Flying(r)' - Flying(r))
      <4>1. jobCount' = jobCount /\ Queued(r)' = Queued(r)
        BY <1>14 DEF ExecHandoff, Queued
      <4> QED
        BY <1>a, <2>5, <2>6, <4>1
    <3> QED
      BY <1>0, <2>2, <2>3, <2>6, <2>7, <3>1, CountExecutor
  <2>8. CASE r # q
    <3>1. ~Executes(t, r)
      BY <2>1, <2>8 DEF Executes
    <3>2. \A u \in Threads : Executes(u, r)' <=> Executes(u, r)
      BY <2>3, <2>8, <3>1
    <3>3. \A u \in Threads : Executes(u, r) => Held(u)' = Held(u)
      BY <2>4, <3>1
    <3>4. jobCount'[r] = jobCount[r] /\ Queued(r)' = Queued(r)
      BY <1>0, <1>14, <2>1, <2>8 DEF ExecHandoff, Queued, TypeOK
    <3>5. jobCount'[r] - jobCount[r] = (Queued(r)' - Queued(r)) + (Flying(r)' - Flying(r))
      BY <1>a, <2>5, <3>4
    <3> QED
      BY <1>0, <3>2, <3>3, <3>5, CountSame
  <2> QED
    BY <2>7, <2>8
<1> QED
  BY <1>1, <1>2, <1>3, <1>4, <1>5, <1>6, <1>7, <1>8, <1>9, <1>10, <1>11, <1>12,
     <1>13, <1>14 DEF Next, PushStep, ExecStep

-----------------------------------------------------------------------------
(* The theorems.                                                           *)

\* The inductive invariant holds at the start: nobody is responsible for a queue.
LEMMA InitInv == Init => IInv
<1> SUFFICES ASSUME Init PROVE IInv
  OBVIOUS
<1> USE NoneAssumption DEF Init, NoPush, NoExec
<1>1. TypeOK
  BY EmptySeq DEF TypeOK
<1>2. FrameOK /\ SingleExecutor /\ OneHolder /\ HolderIffWork
  BY DEF FrameOK, SingleExecutor, OneHolder, HolderIffWork, OwesFirst, Executes, Waits
<1>3. \A q \in Queues : InFlight(q) = {} /\ jobs[q] = <<>> /\ jobCount[q] = 0
  BY DEF InFlight
<1>4. CountExact
  <2>1. Len(<<>>) = 0 /\ Cardinality({}) = 0
    BY FS_EmptySet, EmptySeq
  <2>2. \A t \in Threads, q \in Queues : ~Executes(t, q)
    BY DEF Executes
  <2>3. \A q \in Queues : Queued(q) = 0 /\ Flying(q) = 0
    BY <1>3, <2>1 DEF Queued, Flying
  <2> QED
    BY <1>3, <2>2, <2>3, CountAtEach DEF CountAt
<1> QED
  BY <1>1, <1>2, <1>4 DEF IInv

\* The inductive invariant holds in every reachable state.
THEOREM Invariance == Spec => []IInv
<1>1. IInv /\ [Next]_vars => IInv'
  <2> SUFFICES ASSUME IInv, [Next]_vars PROVE IInv'
    OBVIOUS
  <2>1. TypeOK' /\ FrameOK'
    BY TypePreserved, FramePreserved DEF IInv
  <2>2. SingleExecutor' /\ OneHolder' /\ HolderIffWork'
    BY HoldersPreserved DEF Holders
  <2>3. CountExact'
    BY <2>1, <2>2, CountPreserved
  <2> QED
    BY <2>1, <2>2, <2>3 DEF IInv
<1> QED
  BY InitInv, <1>1, PTL DEF Spec

\* Every variable keeps its type, and LCurrentJobQueue names the queue whose
\* Execute the thread is in, however many threads and queues there are.
THEOREM TypeCorrectness == Spec => []TypeOK
<1>1. IInv => TypeOK
  BY DEF IInv
<1> QED
  BY Invariance, <1>1, PTL

\* JobQueue::Execute never runs on two threads for the same queue: Room's
\* members need no lock, for any number of workers and rooms.
THEOREM MutualExclusion == Spec => []SingleExecutor
<1>1. IInv => SingleExecutor
  BY DEF IInv
<1> QED
  BY Invariance, <1>1, PTL

\* Responsibility for a queue is never duplicated (two entries in the global
\* queue, an entry and an executor, ...) and never lost while it has jobs.
THEOREM OneHolderWhileWork == Spec => [](OneHolder /\ HolderIffWork)
<1>1. IInv => OneHolder /\ HolderIffWork
  BY DEF IInv
<1> QED
  BY Invariance, <1>1, PTL

\* m_jobCount is exactly the jobs queued, held by the executor and in flight.
THEOREM CounterExactness == Spec => []CountExact
<1>1. IInv => CountExact
  BY DEF IInv
<1> QED
  BY Invariance, <1>1, PTL

-----------------------------------------------------------------------------
(* Order.  A step either leaves the line of a queue and its running job    *)
(* alone, or puts a job at its end, or starts or ends the one at its head. *)

Line(q) == Taken(q) \o jobs[q]

\* An Execute frame holds jobs only from PopAll to fetch_sub.
BatchOK == \A t \in Threads : exec[t].pc \in {"idle", "pop", "tick", "handoff"} => exec[t].batch = <<>>

\* A job that is not in m_jobs yet was never there, and only one thread pushes it.
PushOnce == \A t \in Threads : push[t].pc = "item" =>
    /\ \A q \in Queues : push[t].job \notin JobsIn(pushed[q])
    /\ \A u \in Threads \ {t} : push[u].job # push[t].job

OrderInv == BatchOK /\ PushOnce /\ RunInPushOrder

\* The batch and the running job of a queue are those of its executor.
ExecutorsView == \A t \in Threads, q \in Queues : Executes(t, q) =>
    /\ Taken(q) = exec[t].batch
    /\ RunningOf(q) = IF exec[t].pc = "running" THEN {Head(exec[t].batch)} ELSE {}

LEMMA ExecutorView == SingleExecutor => ExecutorsView
<1> SUFFICES ASSUME SingleExecutor, NEW t \in Threads, NEW q \in Queues, Executes(t, q)
             PROVE  /\ Taken(q) = exec[t].batch
                    /\ RunningOf(q) = IF exec[t].pc = "running" THEN {Head(exec[t].batch)} ELSE {}
  BY DEF ExecutorsView
<1>1. \A u \in Threads : Executes(u, q) => u = t
  BY DEF SingleExecutor
<1>2. Taken(q) = exec[t].batch
  BY <1>1 DEF Taken
<1>3. {u \in Threads : Executes(u, q) /\ exec[u].pc = "running"} =
        IF exec[t].pc = "running" THEN {t} ELSE {}
  BY <1>1
<1> QED
  BY <1>2, <1>3 DEF RunningOf

\* Before a step and after it
LEMMA ExecutorViews == IInv /\ IInv' => ExecutorsView /\ ExecutorsView'
<1>1. IInv => ExecutorsView
  BY ExecutorView DEF IInv
<1> QED
  BY <1>1, PTL

\* Without an executor there is neither.
LEMMA NoExecutorView == \A q \in Queues : (\A t \in Threads : ~Executes(t, q)) =>
    Taken(q) = <<>> /\ RunningOf(q) = {}
BY DEF Taken, RunningOf

LEMMA ViewTypes == TypeOK /\ SingleExecutor => \A q \in Queues :
    Taken(q) \in Seq(Jobs) /\ jobs[q] \in Seq(Jobs) /\ Line(q) \in Seq(Jobs)
<1> SUFFICES ASSUME TypeOK, SingleExecutor, NEW q \in Queues
             PROVE  Taken(q) \in Seq(Jobs) /\ jobs[q] \in Seq(Jobs)
  BY ConcatProperties DEF Line
<1>1. CASE \E t \in Threads : Executes(t, q)
  BY <1>1, ExecutorView, FrameTypes DEF TypeOK, ExecutorsView
<1>2. CASE \A t \in Threads : ~Executes(t, q)
  BY <1>2, NoExecutorView, EmptySeq DEF TypeOK
<1> QED
  BY <1>1, <1>2

\* A queue whose executor neither changes its batch nor starts or ends a job
LEMMA SameView ==
    ASSUME IInv, IInv', NEW r \in Queues,
           \A u \in Threads : /\ Executes(u, r)' <=> Executes(u, r)
                              /\ Executes(u, r) => /\ exec'[u].batch = exec[u].batch
                                                   /\ exec'[u].pc = "running" <=> exec[u].pc = "running"
    PROVE  Taken(r)' = Taken(r) /\ RunningOf(r)' = RunningOf(r)
<1>1. CASE \E t \in Threads : Executes(t, r)
  <2>1. PICK t \in Threads : Executes(t, r) /\ Executes(t, r)'
    BY <1>1
  <2>2. /\ Taken(r) = exec[t].batch
        /\ RunningOf(r) = IF exec[t].pc = "running" THEN {Head(exec[t].batch)} ELSE {}
    BY <2>1, ExecutorViews DEF ExecutorsView
  <2>3. /\ Taken(r)' = exec'[t].batch
        /\ RunningOf(r)' = IF exec'[t].pc = "running" THEN {Head(exec'[t].batch)} ELSE {}
    BY <2>1, ExecutorViews DEF ExecutorsView
  <2> QED
    BY <2>1, <2>2, <2>3
<1>2. CASE \A t \in Threads : ~Executes(t, r)
  BY <1>2 DEF Taken, RunningOf
<1> QED
  BY <1>1, <1>2

\* Concatenation, and the ends of a sequence
LEMMA ConcatEnds ==
    ASSUME NEW S, NEW s \in Seq(S), NEW u \in Seq(S)
    PROVE  /\ \A e \in S : s \o Append(u, e) = Append(s \o u, e)
           /\ s # <<>> => s \o u # <<>> /\ Head(s \o u) = Head(s) /\ Tail(s \o u) = Tail(s) \o u
           /\ s # <<>> => s = <<Head(s)>> \o Tail(s)
<1>1. ASSUME NEW e \in S PROVE s \o Append(u, e) = Append(s \o u, e)
  <2>1. <<e>> \in Seq(S) /\ s \o u \in Seq(S)
    BY ConcatProperties
  <2>2. Append(u, e) = u \o <<e>> /\ Append(s \o u, e) = (s \o u) \o <<e>>
    BY <2>1, AppendIsConcat
  <2> QED
    BY <2>1, <2>2, ConcatAssociative
<1>2. ASSUME s # <<>>
      PROVE  /\ s = <<Head(s)>> \o Tail(s)
             /\ s \o u # <<>> /\ Head(s \o u) = Head(s) /\ Tail(s \o u) = Tail(s) \o u
  <2>1. Len(s) \in Nat \ {0} /\ Len(s) \in 1..Len(s)
    BY <1>2, EmptySeq, LenProperties
  <2>2. SubSeq(s, 1, Len(s)) = <<s[1]>> \o SubSeq(s, 2, Len(s))
    BY <2>1, SubSeqRecursiveFirst
  <2>3. s = <<Head(s)>> \o Tail(s)
    BY <1>2, <2>2, SubSeqFull, TailIsSubSeq
  <2>4. Head(s) \in S /\ Tail(s) \in Seq(S) /\ Tail(s) \o u \in Seq(S) /\ <<Head(s)>> \in Seq(S)
    BY <1>2, HeadTailProperties, ConcatProperties
  <2>5. s \o u = <<Head(s)>> \o (Tail(s) \o u)
    BY <2>3, <2>4, ConcatAssociative
  <2>6. s \o u # <<>>
    BY <1>2, ConcatEqualIffEmpty
  <2>7. s \o u \in Seq(S) /\ Head(s \o u) = (s \o u)[1]
    BY <2>6, ConcatProperties
  <2>8. Head(s \o u) = Head(s)
    BY <2>1, <2>7, ConcatProperties, LenProperties
  <2>9. s \o u = <<Head(s \o u)>> \o Tail(s \o u)
    <3>1. Len(s \o u) \in Nat \ {0} /\ Len(s \o u) \in 1..Len(s \o u)
      BY <2>6, <2>7, EmptySeq, LenProperties
    <3>2. SubSeq(s \o u, 1, Len(s \o u)) = <<(s \o u)[1]>> \o SubSeq(s \o u, 2, Len(s \o u))
      BY <2>7, <3>1, SubSeqRecursiveFirst
    <3> QED
      BY <2>6, <2>7, <3>2, SubSeqFull, TailIsSubSeq
  <2>10. Tail(s \o u) \in Seq(S)
    BY <2>6, <2>7, HeadTailProperties
  <2>11. Tail(s \o u) = Tail(s) \o u
    BY <2>4, <2>5, <2>8, <2>9, <2>10, ConcatSimplifications
  <2> QED
    BY <2>3, <2>6, <2>8, <2>11
<1> QED
  BY <1>1, <1>2

HeldBy(t, q) == IF Executes(t, q) THEN exec[t].batch ELSE <<>>
RunBy(t, q) == IF Executes(t, q) /\ exec[t].pc = "running" THEN {Head(exec[t].batch)} ELSE {}

\* A queue that only t executes, before a step and after it
LEMMA OwnView ==
    ASSUME IInv, IInv', NEW t \in Threads, NEW q \in Queues,
           \A u \in Threads \ {t} : ~Executes(u, q) /\ exec'[u] = exec[u]
    PROVE  /\ Taken(q) = HeldBy(t, q) /\ Taken(q)' = HeldBy(t, q)'
           /\ RunningOf(q) = RunBy(t, q) /\ RunningOf(q)' = RunBy(t, q)'
<1>1. CASE Executes(t, q)
  <2>1. Taken(q) = HeldBy(t, q) /\ RunningOf(q) = RunBy(t, q)
    BY <1>1, ExecutorViews DEF ExecutorsView, HeldBy, RunBy
  <2>2. CASE Executes(t, q)'
    BY <2>1, <2>2, ExecutorViews DEF ExecutorsView, HeldBy, RunBy
  <2>3. CASE ~Executes(t, q)'
    <3>1. \A u \in Threads : ~Executes(u, q)'
      BY <2>3 DEF Executes
    <3> QED
      BY <2>1, <2>3, <3>1 DEF Taken, RunningOf, HeldBy, RunBy
  <2> QED
    BY <2>2, <2>3
<1>2. CASE ~Executes(t, q)
  <2>1. Taken(q) = HeldBy(t, q) /\ RunningOf(q) = RunBy(t, q)
    BY <1>2, NoExecutorView DEF HeldBy, RunBy
  <2>2. CASE Executes(t, q)'
    BY <2>1, <2>2, ExecutorViews DEF ExecutorsView, HeldBy, RunBy
  <2>3. CASE ~Executes(t, q)'
    <3>1. \A u \in Threads : ~Executes(u, q)'
      BY <2>3 DEF Executes
    <3> QED
      BY <2>1, <2>3, <3>1 DEF Taken, RunningOf, HeldBy, RunBy
  <2> QED
    BY <2>2, <2>3
<1> QED
  BY <1>1, <1>2

\* The queues that t has nothing to do with
LEMMA BesideView ==
    ASSUME IInv, IInv', NEW t \in Threads, NEW q \in Queues,
           exec[t].queue \in {q, None}, exec'[t].queue \in {q, None},
           \A u \in Threads \ {t} : exec'[u] = exec[u]
    PROVE  \A r \in Queues \ {q} : Taken(r)' = Taken(r) /\ RunningOf(r)' = RunningOf(r)
<1> TAKE r \in Queues \ {q}
<1>1. ~Executes(t, r) /\ ~Executes(t, r)'
  BY NoneAssumption DEF Executes
<1>2. \A u \in Threads \ {t} : Executes(u, r)' <=> Executes(u, r)
  BY DEF Executes
<1> QED
  BY <1>1, <1>2, SameView

Still(r) == Line(r)' = Line(r) /\ RunningOf(r)' = RunningOf(r)
Beside(q) == \A r \in Queues \ {q} : Still(r)

\* What a step is for the line of a queue
Rests == (\A r \in Queues : Still(r)) /\ UNCHANGED <<pushed, done>>

Joins(t, q, j) ==
    /\ push[t].pc = "item" /\ push[t].job = j
    /\ Line(q)' = Append(Line(q), j) /\ RunningOf(q)' = RunningOf(q) /\ Beside(q)
    /\ pushed' = [pushed EXCEPT ![q] = Append(@, j)] /\ UNCHANGED done

Begins(q) ==
    /\ RunningOf(q) = {} /\ Line(q) # <<>> /\ RunningOf(q)' = {Head(Line(q))}
    /\ Line(q)' = Line(q) /\ Beside(q) /\ UNCHANGED <<pushed, done>>

Ends(q) ==
    /\ Line(q) # <<>> /\ RunningOf(q) = {Head(Line(q))} /\ RunningOf(q)' = {}
    /\ Line(q)' = Tail(Line(q)) /\ Beside(q)
    /\ done' = [done EXCEPT ![q] = Append(@, Head(Line(q)))] /\ UNCHANGED pushed

\* PutItem puts a job at the end of a line, unless it starts an Execute.
LEMMA PushViews ==
    ASSUME IInv, IInv', NEW t \in Threads, PushStep(t)
    PROVE  Rests \/ \E q \in Queues, j \in Jobs : Joins(t, q, j)
<1> USE DEF IInv
<1>1. CASE PushGlobal(t)
  BY <1>1, SameView DEF PushGlobal, Rests, Still, Line, Executes
<1>2. ASSUME PutItem(t), PushJoin(t) \/ PushExecute(t) \/ \E pushOnly \in BOOLEAN : PushDefer(t, pushOnly)
      PROVE  \E q \in Queues, j \in Jobs : Joins(t, q, j)
  <2>0. PICK q \in Queues, j \in Jobs : q = push[t].queue /\ j = push[t].job
    BY <1>2, FrameTypes DEF PutItem
  <2>1. push[t].pc = "item" /\ q \in Queues /\ j \in Jobs
    BY <1>2, <2>0 DEF PutItem
  <2>2. /\ jobs' = [jobs EXCEPT ![q] = Append(@, j)] /\ done' = done
        /\ pushed' = [pushed EXCEPT ![q] = Append(@, j)]
    BY <1>2, <2>0 DEF PutItem, PushJoin, PushExecute, PushDefer
  <2>3. jobs'[q] = Append(jobs[q], j) /\ \A r \in Queues \ {q} : jobs'[r] = jobs[r]
    BY <2>1, <2>2 DEF TypeOK
  <2>4. Taken(q)' = Taken(q) /\ \A r \in Queues : RunningOf(r)' = RunningOf(r) /\ Taken(r)' = Taken(r)
    <3>1. CASE PushExecute(t)
      <4>1. push[t].first /\ currentJobQueue[t] = None /\ exec' = [exec EXCEPT ![t] = Entered(q)]
        BY <2>0, <3>1 DEF PushExecute
      <4>2. \A u \in Threads : ~Executes(u, q)
        BY <2>0, <4>1 DEF OneHolder, OwesFirst
      <4>3. exec[t] = NoExec
        <5>1. push[t] # NoPush
          BY <2>1 DEF NoPush
        <5>2. exec[t].pc \in {"idle", "running"}
          BY <5>1 DEF FrameOK
        <5>3. exec[t].queue = None
          BY <4>1, <5>2 DEF TypeOK
        <5>4. exec[t].pc # "idle" => exec[t].queue # None
          BY FrameTypes, NoneAssumption
        <5> QED
          BY <5>3, <5>4, FrameTypes
      <4>4. exec'[t] = Entered(q) /\ \A u \in Threads \ {t} : exec'[u] = exec[u]
        BY <4>1 DEF TypeOK
      <4>5. Taken(q)' = <<>> /\ Taken(q) = <<>> /\ RunningOf(q)' = {} /\ RunningOf(q) = {}
        <5>1. HeldBy(t, q)' = <<>> /\ HeldBy(t, q) = <<>> /\ RunBy(t, q)' = {} /\ RunBy(t, q) = {}
          BY <4>2, <4>4 DEF HeldBy, RunBy, Entered
        <5> QED
          BY <2>1, <4>2, <4>4, <5>1, OwnView
      <4>6. \A r \in Queues \ {q} : Taken(r)' = Taken(r) /\ RunningOf(r)' = RunningOf(r)
        BY <2>1, <4>3, <4>4, BesideView DEF NoExec, Entered
      <4> QED
        BY <2>1, <4>5, <4>6
    <3>2. CASE exec' = exec
      BY <2>1, <3>2, SameView DEF Executes
    <3> QED
      BY <1>2, <3>1, <3>2 DEF PushJoin, PushDefer
  <2>5. Line(q)' = Append(Line(q), j)
    BY <2>1, <2>3, <2>4, ViewTypes, ConcatEnds DEF Line
  <2>6. Beside(q)
    BY <2>3, <2>4 DEF Beside, Still, Line
  <2>7. RunningOf(q)' = RunningOf(q)
    BY <2>1, <2>4
  <2>8. Joins(t, q, j)
    BY <2>0, <2>1, <2>2, <2>5, <2>6, <2>7 DEF Joins
  <2> QED
    BY <2>1, <2>8
<1> QED
  BY <1>1, <1>2 DEF PushStep, PushJoin, PushExecute, PushDefer

\* A worker takes a queue that nobody executes.
LEMMA PopViews ==
    ASSUME IInv, IInv', NEW t \in Threads, PopGlobal(t)
    PROVE  Rests
<1> USE DEF IInv
<1>1. PICK q \in Queues : q = Head(globalQueue) /\ 1 \in DOMAIN globalQueue /\ globalQueue[1] = q
  BY HeadTailProperties, LenProperties, EmptySeq DEF PopGlobal, TypeOK
<1>2. \A u \in Threads : ~Executes(u, q)
  BY <1>1 DEF OneHolder, Waits
<1>3. /\ exec[t] = NoExec /\ exec'[t] = Entered(q) /\ \A u \in Threads \ {t} : exec'[u] = exec[u]
      /\ UNCHANGED <<jobs, pushed, done>>
  BY <1>1 DEF PopGlobal, TypeOK
<1>4. Taken(q)' = Taken(q) /\ RunningOf(q)' = RunningOf(q)
  <2>1. HeldBy(t, q)' = <<>> /\ HeldBy(t, q) = <<>> /\ RunBy(t, q)' = {} /\ RunBy(t, q) = {}
    BY <1>2, <1>3 DEF HeldBy, RunBy, Entered
  <2>2. q \in Queues /\ \A u \in Threads \ {t} : ~Executes(u, q) /\ exec'[u] = exec[u]
    BY <1>1, <1>2, <1>3
  <2>3. /\ Taken(q) = HeldBy(t, q) /\ Taken(q)' = HeldBy(t, q)'
        /\ RunningOf(q) = RunBy(t, q) /\ RunningOf(q)' = RunBy(t, q)'
    BY <2>2, OwnView
  <2> QED
    BY <2>1, <2>3
<1>5. \A r \in Queues \ {q} : Taken(r)' = Taken(r) /\ RunningOf(r)' = RunningOf(r)
  BY <1>1, <1>3, BesideView DEF NoExec, Entered
<1> QED
  BY <1>3, <1>4, <1>5 DEF Rests, Still, Line

\* Inside Execute
LEMMA ExecViews ==
    ASSUME IInv, IInv', BatchOK, NEW t \in Threads, ExecStep(t)
    PROVE  \/ Rests
           \/ \E q \in Queues : Begins(q) \/ Ends(q)
<1> USE DEF IInv
<1>0. exec[t].pc # "idle" /\ exec[t] \in ExecFrame
  <2>1. exec[t].pc # "idle"
    BY DEF ExecStep, ExecPopAll, JobStart, JobEnd, ExecFinish, ExecRemain, ExecAgain, ExecTimeout,
           ExecHandoff
  <2>2. exec[t] # NoExec
    BY <2>1 DEF NoExec
  <2> QED
    BY <2>1, <2>2, FrameTypes DEF TypeOK
<1>1. PICK q \in Queues, b \in Seq(Jobs) : q = exec[t].queue /\ b = exec[t].batch
  BY <1>0, FrameTypes
<1>2. Executes(t, q) /\ \A u \in Threads \ {t} : ~Executes(u, q)
  BY <1>1 DEF SingleExecutor, Executes
<1>3. Taken(q) = b /\ RunningOf(q) = IF exec[t].pc = "running" THEN {Head(b)} ELSE {}
  BY <1>0, <1>1, <1>2, ExecutorViews DEF ExecutorsView
<1>4. jobs[q] \in Seq(Jobs) /\ Line(q) = b \o jobs[q]
  BY <1>1, <1>3 DEF TypeOK, Line
<1>5. ASSUME NEW e, exec' = [exec EXCEPT ![t] = e], e.queue \in {q, None}
      PROVE  /\ \A r \in Queues \ {q} : Taken(r)' = Taken(r) /\ RunningOf(r)' = RunningOf(r)
             /\ Taken(q)' = IF e.queue = q THEN e.batch ELSE <<>>
             /\ RunningOf(q)' = IF e.queue = q /\ e.pc = "running" THEN {Head(e.batch)} ELSE {}
  <2>1. exec'[t] = e /\ \A u \in Threads \ {t} : exec'[u] = exec[u]
    BY <1>5 DEF TypeOK
  <2>2. Taken(q)' = HeldBy(t, q)' /\ RunningOf(q)' = RunBy(t, q)'
    BY <1>1, <1>2, <2>1, OwnView
  <2>3. \A r \in Queues \ {q} : Taken(r)' = Taken(r) /\ RunningOf(r)' = RunningOf(r)
    BY <1>1, <1>5, <2>1, BesideView
  <2>4. HeldBy(t, q)' = IF e.queue = q THEN e.batch ELSE <<>>
    BY <2>1 DEF HeldBy, Executes
  <2>5. RunBy(t, q)' = IF e.queue = q /\ e.pc = "running" THEN {Head(e.batch)} ELSE {}
    BY <2>1 DEF RunBy, Executes
  <2> QED
    BY <2>2, <2>3, <2>4, <2>5
<1>6. CASE ExecPopAll(t)
  <2>2. PICK e : e.queue = q /\ e.batch = jobs[q] /\ e.pc = "run"
                 /\ e = [pc |-> "run", queue |-> q, batch |-> jobs[q], size |-> Len(jobs[q])]
    OBVIOUS
  <2>1. /\ exec[t].pc = "pop" /\ exec' = [exec EXCEPT ![t] = e] /\ jobs' = [jobs EXCEPT ![q] = <<>>]
        /\ UNCHANGED <<pushed, done>>
    BY <1>1, <1>6, <2>2 DEF ExecPopAll
  <2>3. b = <<>>
    BY <1>1, <2>1 DEF BatchOK
  <2>4. Taken(q)' = jobs[q] /\ RunningOf(q)' = {}
        /\ \A r \in Queues \ {q} : Taken(r)' = Taken(r) /\ RunningOf(r)' = RunningOf(r)
    BY <1>5, <2>1, <2>2
  <2>5. jobs'[q] = <<>> /\ \A r \in Queues \ {q} : jobs'[r] = jobs[r]
    BY <1>1, <2>1 DEF TypeOK
  <2>6. Line(q)' = Line(q)
    BY <1>4, <2>3, <2>4, <2>5, ConcatEmptySeq DEF Line
  <2> QED
    BY <1>3, <2>1, <2>4, <2>5, <2>6 DEF Rests, Still, Line
<1>7. CASE JobStart(t)
  <2>2. PICK e : /\ e = [exec[t] EXCEPT !.pc = "running"]
                 /\ e.queue = q /\ e.batch = b /\ e.pc = "running"
    <3> DEFINE f == [exec[t] EXCEPT !.pc = "running"]
    <3>1. f.queue = q /\ f.batch = b /\ f.pc = "running"
      BY <1>0, <1>1 DEF ExecFrame
    <3> QED
      BY <3>1
  <2>1. exec[t].pc = "run" /\ b # <<>> /\ exec' = [exec EXCEPT ![t] = e] /\ UNCHANGED <<jobs, pushed, done>>
    BY <1>1, <1>7, <2>2 DEF JobStart, TypeOK
  <2>3. Taken(q)' = b /\ RunningOf(q)' = {Head(b)}
        /\ \A r \in Queues \ {q} : Taken(r)' = Taken(r) /\ RunningOf(r)' = RunningOf(r)
    BY <1>5, <2>1, <2>2
  <2>4. Line(q)' = Line(q) /\ Line(q) # <<>> /\ Head(Line(q)) = Head(b)
    <3>1. b \o jobs[q] # <<>> /\ Head(b \o jobs[q]) = Head(b)
      <4>1. b \in Seq(Jobs) /\ jobs[q] \in Seq(Jobs) /\ b # <<>>
        BY <1>1, <1>4, <2>1, Zenon
      <4> QED
        BY <4>1, ConcatEnds, Zenon
    <3>2. Line(q) = b \o jobs[q] /\ Line(q)' = b \o jobs[q]
      BY <1>4, <2>1, <2>3, Zenon DEF Line
    <3> QED
      BY <3>1, <3>2, Zenon
  <2>5. Begins(q)
    BY <1>3, <2>1, <2>3, <2>4 DEF Begins, Beside, Still, Line
  <2> QED
    BY <1>1, <2>5
<1>8. CASE JobEnd(t)
  <2>2. PICK e : /\ e = [exec[t] EXCEPT !.pc = "run", !.batch = Tail(@)]
                 /\ e.queue = q /\ e.batch = Tail(b) /\ e.pc = "run"
    <3> DEFINE f == [exec[t] EXCEPT !.pc = "run", !.batch = Tail(@)]
    <3>1. f.queue = q /\ f.batch = Tail(b) /\ f.pc = "run"
      BY <1>0, <1>1 DEF ExecFrame
    <3> QED
      BY <3>1
  <2>1. /\ exec[t].pc = "running" /\ exec' = [exec EXCEPT ![t] = e] /\ UNCHANGED <<jobs, pushed>>
        /\ done' = [done EXCEPT ![q] = Append(@, Head(b))]
    BY <1>1, <1>8, <2>2 DEF JobEnd, TypeOK
  <2>3. b # <<>>
    BY <1>1, <2>1 DEF FrameOK
  <2>4. Taken(q)' = Tail(b) /\ RunningOf(q)' = {}
        /\ \A r \in Queues \ {q} : Taken(r)' = Taken(r) /\ RunningOf(r)' = RunningOf(r)
    BY <1>5, <2>1, <2>2
  <2>5. Line(q)' = Tail(Line(q)) /\ Line(q) # <<>> /\ Head(Line(q)) = Head(b)
    <3>1. b \o jobs[q] # <<>> /\ Head(b \o jobs[q]) = Head(b) /\ Tail(b \o jobs[q]) = Tail(b) \o jobs[q]
      <4>1. b \in Seq(Jobs) /\ jobs[q] \in Seq(Jobs)
        BY <1>1, <1>4, Zenon
      <4> QED
        BY <2>3, <4>1, ConcatEnds, Zenon
    <3>2. Line(q) = b \o jobs[q] /\ Line(q)' = Tail(b) \o jobs[q]
      BY <1>4, <2>1, <2>4, Zenon DEF Line
    <3> QED
      BY <3>1, <3>2, Zenon
  <2>6. Ends(q)
    BY <1>3, <2>1, <2>4, <2>5 DEF Ends, Beside, Still, Line
  <2> QED
    BY <1>1, <2>6
<1>9. CASE ExecRemain(t) \/ ExecAgain(t) \/ ExecTimeout(t) \/ ExecFinish(t) \/ ExecHandoff(t)
  <2>1. b = <<>> /\ exec[t].pc # "running" /\ UNCHANGED <<jobs, pushed, done>>
    BY <1>1, <1>9 DEF ExecRemain, ExecAgain, ExecTimeout, ExecFinish, ExecHandoff, BatchOK
  <2>2. PICK e : /\ exec' = [exec EXCEPT ![t] = e] /\ e.queue \in {q, None} /\ e.batch = <<>>
                 /\ e.pc # "running"
    <3>1. CASE ExecRemain(t)
      <4> DEFINE e == [exec[t] EXCEPT !.pc = "tick", !.size = 0]
      <4>1. exec' = [exec EXCEPT ![t] = e] /\ e.queue = q /\ e.batch = b /\ e.pc = "tick"
        BY <1>0, <1>1, <3>1 DEF ExecRemain, ExecFrame, TypeOK
      <4> QED
        BY <2>1, <4>1
    <3>2. CASE ExecAgain(t) \/ ExecTimeout(t)
      <4>1. PICK p \in {"pop", "handoff"} : exec' = [exec EXCEPT ![t].pc = p]
        BY <3>2 DEF ExecAgain, ExecTimeout
      <4> DEFINE e == [exec[t] EXCEPT !.pc = p]
      <4>2. exec' = [exec EXCEPT ![t] = e] /\ e.queue = q /\ e.batch = b /\ e.pc = p
        BY <1>0, <1>1, <4>1 DEF ExecFrame, TypeOK
      <4> QED
        BY <2>1, <4>1, <4>2
    <3>3. CASE ExecFinish(t) \/ ExecHandoff(t)
      BY <3>3 DEF ExecFinish, ExecHandoff, NoExec
    <3> QED
      BY <1>9, <3>1, <3>2, <3>3
  <2>3. Taken(q)' = <<>> /\ RunningOf(q)' = {}
        /\ \A r \in Queues \ {q} : Taken(r)' = Taken(r) /\ RunningOf(r)' = RunningOf(r)
    BY <1>5, <2>2
  <2>4. Taken(q)' = Taken(q) /\ RunningOf(q)' = RunningOf(q)
    BY <1>3, <2>1, <2>3
  <2> QED
    BY <2>1, <2>3, <2>4 DEF Rests, Still, Line
<1> QED
  BY <1>6, <1>7, <1>8, <1>9 DEF ExecStep

\* Every step
LEMMA StepViews ==
    ASSUME IInv, IInv', BatchOK, [Next]_vars
    PROVE  \/ Rests
           \/ \E t \in Threads, q \in Queues, j \in Jobs : Joins(t, q, j)
           \/ \E q \in Queues : Begins(q) \/ Ends(q)
<1>1. ASSUME exec' = exec, UNCHANGED <<jobs, pushed, done>> PROVE Rests
  BY <1>1, SameView DEF Rests, Still, Line, Executes
<1>2. CASE UNCHANGED vars
  BY <1>1, <1>2 DEF vars
<1>3. ASSUME NEW t \in Threads, NEW q \in Queues, NEW j \in Jobs, PushCount(t, q, j) PROVE Rests
  BY <1>1, <1>3 DEF PushCount
<1> QED
  BY <1>2, <1>3, PushViews, PopViews, ExecViews DEF Next


\* An Execute frame holds jobs only from PopAll to fetch_sub.
LEMMA BatchPreserved == ASSUME IInv, BatchOK, [Next]_vars PROVE BatchOK'
<1> USE DEF IInv
<1>1. ASSUME NEW u \in Threads, exec'[u].pc \in {"idle", "pop", "tick", "handoff"},
             exec'[u] = exec[u] \/ exec'[u].batch = <<>>
      PROVE  exec'[u].batch = <<>>
  BY <1>1 DEF BatchOK
<1>2. ASSUME NEW t \in Threads, NEW e, exec' = [exec EXCEPT ![t] = e],
             e.pc \in {"idle", "pop", "tick", "handoff"} => e.batch = <<>>
      PROVE  BatchOK'
  <2> SUFFICES ASSUME NEW u \in Threads, exec'[u].pc \in {"idle", "pop", "tick", "handoff"}
               PROVE  exec'[u].batch = <<>>
    BY DEF BatchOK
  <2>1. exec'[u] = IF u = t THEN e ELSE exec[u]
    BY <1>2 DEF TypeOK
  <2> QED
    BY <1>2, <2>1 DEF BatchOK
<1>3. ASSUME NEW t \in Threads, exec[t] \in ExecFrame, NEW p, exec' = [exec EXCEPT ![t].pc = p],
             p \in {"idle", "pop", "tick", "handoff"} => exec[t].batch = <<>>
      PROVE  BatchOK'
  <2> DEFINE f == [exec[t] EXCEPT !.pc = p]
  <2>1. f.pc = p /\ f.batch = exec[t].batch
    BY <1>3 DEF ExecFrame
  <2>2. exec' = [exec EXCEPT ![t] = f]
    BY <1>3 DEF TypeOK
  <2>3. PICK e : e = f
    OBVIOUS
  <2> QED
    BY <1>2, <1>3, <2>1, <2>2, <2>3
<1>4. CASE exec' = exec
  BY <1>4 DEF BatchOK
<1>5. ASSUME NEW t \in Threads, NEW q, exec' = [exec EXCEPT ![t] = Entered(q)] PROVE BatchOK'
  <2>1. PICK e : e = Entered(q)
    OBVIOUS
  <2>2. e.batch = <<>>
    BY <2>1 DEF Entered
  <2> QED
    BY <1>2, <1>5, <2>1, <2>2
<1>6. ASSUME NEW t \in Threads, PushStep(t) \/ PopGlobal(t) PROVE BatchOK'
  BY <1>4, <1>5, <1>6 DEF PushStep, PushJoin, PushExecute, PushDefer, PushGlobal, PopGlobal
<1>7. ASSUME NEW t \in Threads, ExecStep(t) PROVE BatchOK'
  <2>0. exec[t] \in ExecFrame
    <3>1. exec[t].pc # "idle"
      BY <1>7 DEF ExecStep, ExecPopAll, JobStart, JobEnd, ExecFinish, ExecRemain, ExecAgain,
                  ExecTimeout, ExecHandoff
    <3>2. exec[t] # NoExec
      BY <3>1 DEF NoExec
    <3> QED
      BY <3>2 DEF TypeOK
  <2>1. CASE ExecPopAll(t)
    <3>0. PICK q : q = exec[t].queue
      OBVIOUS
    <3> DEFINE f == [pc |-> "run", queue |-> q, batch |-> jobs[q], size |-> Len(jobs[q])]
    <3>1. f.pc = "run"
      OBVIOUS
    <3>2. exec' = [exec EXCEPT ![t] = f]
      BY <2>1, <3>0 DEF ExecPopAll
    <3>3. PICK e : e = f
      OBVIOUS
    <3> QED
      BY <1>2, <3>1, <3>2, <3>3
  <2>2. CASE JobStart(t)
    <3>1. exec' = [exec EXCEPT ![t].pc = "running"]
      BY <2>2 DEF JobStart
    <3> QED
      BY <1>3, <2>0, <3>1
  <2>3. CASE JobEnd(t)
    <3> DEFINE f == [exec[t] EXCEPT !.pc = "run", !.batch = Tail(@)]
    <3>1. f.pc = "run"
      BY <2>0 DEF ExecFrame
    <3>2. exec' = [exec EXCEPT ![t] = f]
      BY <2>3 DEF JobEnd, TypeOK
    <3>3. PICK e : e = f
      OBVIOUS
    <3> QED
      BY <1>2, <3>1, <3>2, <3>3
  <2>4. CASE ExecRemain(t)
    <3> DEFINE f == [exec[t] EXCEPT !.pc = "tick", !.size = 0]
    <3>1. f.batch = <<>>
      BY <2>0, <2>4 DEF ExecFrame, ExecRemain
    <3>2. exec' = [exec EXCEPT ![t] = f]
      BY <2>4 DEF ExecRemain, TypeOK
    <3>3. PICK e : e = f
      OBVIOUS
    <3> QED
      BY <1>2, <3>1, <3>2, <3>3
  <2>5. CASE ExecAgain(t) \/ ExecTimeout(t)
    <3>1. exec[t].batch = <<>>
      BY <2>5 DEF ExecAgain, ExecTimeout, BatchOK
    <3>2. PICK p \in {"pop", "handoff"} : exec' = [exec EXCEPT ![t].pc = p]
      BY <2>5 DEF ExecAgain, ExecTimeout
    <3> QED
      BY <1>3, <2>0, <3>1, <3>2
  <2>6. CASE ExecFinish(t) \/ ExecHandoff(t)
    <3>1. exec' = [exec EXCEPT ![t] = NoExec] /\ NoExec.batch = <<>>
      BY <2>6 DEF ExecFinish, ExecHandoff, NoExec
    <3> QED
      BY <1>2, <3>1
  <2> QED
    BY <1>7, <2>1, <2>2, <2>3, <2>4, <2>5, <2>6 DEF ExecStep
<1>8. ASSUME NEW t \in Threads, NEW q \in Queues, NEW j \in Jobs, PushCount(t, q, j) PROVE BatchOK'
  BY <1>4, <1>8 DEF PushCount
<1> QED
  BY <1>4, <1>6, <1>7, <1>8 DEF Next, vars

\* A job enters m_jobs at most once: PushCount takes fresh ones.
LEMMA PushOncePreserved == ASSUME IInv, PushOnce, [Next]_vars PROVE PushOnce'
<1> USE DEF IInv
<1>1. ASSUME pushed' = pushed,
             \A u \in Threads : \/ push'[u] = push[u]
                                \/ push'[u].pc # "item" /\ push'[u].job \in {push[u].job, None}
      PROVE  PushOnce'
  <2> SUFFICES ASSUME NEW u \in Threads, push'[u].pc = "item"
               PROVE  /\ \A q \in Queues : push'[u].job \notin JobsIn(pushed'[q])
                      /\ \A w \in Threads \ {u} : push'[w].job # push'[u].job
    BY DEF PushOnce, JobsIn
  <2>1. push'[u] = push[u] /\ push[u].job \in Jobs
    BY <1>1, FrameTypes
  <2> QED
    BY <1>1, <2>1, NoneAssumption DEF PushOnce
<1>2. ASSUME NEW t \in Threads, NEW q \in Queues, NEW j \in Jobs, PushCount(t, q, j) PROVE PushOnce'
  <2>1. /\ pushed' = pushed /\ push'[t].job = j
        /\ \A u \in Threads \ {t} : push'[u] = push[u]
    BY <1>2 DEF PushCount, TypeOK
  <2>2. /\ \A r \in Queues : j \notin JobsIn(pushed[r])
        /\ \A u \in Threads : push[u].job # j
    BY <1>2 DEF PushCount, Fresh
  <2> QED
    BY <2>1, <2>2 DEF PushOnce, JobsIn
<1>3. ASSUME NEW t \in Threads, PutItem(t),
             \A u \in Threads \ {t} : push'[u] = push[u],
             push'[t].pc # "item", push'[t].job \in {push[t].job, None}
      PROVE  PushOnce'
  <2>1. push[t].pc = "item" /\ push[t].queue \in Queues /\ push[t].job \in Jobs
    BY <1>3, FrameTypes DEF PutItem
  <2>2. \A r \in Queues : JobsIn(pushed'[r]) \subseteq JobsIn(pushed[r]) \cup {push[t].job}
    <3> TAKE r \in Queues
    <3>1. pushed[r] \in Seq(Jobs)
      BY DEF TypeOK
    <3>2. pushed'[r] = IF r = push[t].queue THEN Append(pushed[r], push[t].job) ELSE pushed[r]
      BY <1>3, <2>1 DEF PutItem, TypeOK
    <3>3. JobsIn(Append(pushed[r], push[t].job)) \subseteq JobsIn(pushed[r]) \cup {push[t].job}
      BY <2>1, <3>1, AppendProperties DEF JobsIn
    <3> QED
      BY <3>2, <3>3
  <2> SUFFICES ASSUME NEW u \in Threads, push'[u].pc = "item"
               PROVE  /\ \A q \in Queues : push'[u].job \notin JobsIn(pushed'[q])
                      /\ \A w \in Threads \ {u} : push'[w].job # push'[u].job
    BY DEF PushOnce, JobsIn
  <2>3. u # t /\ push'[u] = push[u] /\ push[u].job \in Jobs
    BY <1>3, FrameTypes
  <2>4. /\ \A q \in Queues : push[u].job \notin JobsIn(pushed[q])
        /\ \A w \in Threads \ {u} : push[w].job # push[u].job
    BY <2>3 DEF PushOnce
  <2> QED
    BY <1>3, <2>2, <2>3, <2>4, NoneAssumption
<1>4. ASSUME NEW t \in Threads, PushJoin(t) \/ PushExecute(t) PROVE PushOnce'
  <2>1. push'[t] = NoPush /\ \A u \in Threads \ {t} : push'[u] = push[u]
    BY <1>4 DEF PushJoin, PushExecute, TypeOK
  <2> QED
    BY <1>3, <1>4, <2>1 DEF PushJoin, PushExecute, NoPush
<1>5. ASSUME NEW t \in Threads, NEW pushOnly \in BOOLEAN, PushDefer(t, pushOnly) PROVE PushOnce'
  <2>1. push[t] \in PushFrame
    BY <1>5 DEF PushDefer, PutItem, TypeOK, NoPush
  <2>2. push'[t].pc = "handoff" /\ push'[t].job = push[t].job /\ \A u \in Threads \ {t} : push'[u] = push[u]
    BY <1>5, <2>1 DEF PushDefer, TypeOK, PushFrame
  <2> QED
    BY <1>3, <1>5, <2>2 DEF PushDefer
<1>6. ASSUME NEW t \in Threads, PushGlobal(t) PROVE PushOnce'
  <2>1. push'[t] = NoPush /\ \A u \in Threads \ {t} : push'[u] = push[u]
    BY <1>6 DEF PushGlobal, TypeOK
  <2> QED
    BY <1>1, <1>6, <2>1 DEF PushGlobal, NoPush
<1>7. CASE UNCHANGED <<push, pushed>>
  BY <1>1, <1>7
<1>8. ASSUME NEW t \in Threads, ExecStep(t) \/ PopGlobal(t) PROVE UNCHANGED <<push, pushed>>
  BY <1>8 DEF ExecStep, ExecPopAll, JobStart, JobEnd, ExecFinish, ExecRemain, ExecAgain,
              ExecTimeout, ExecHandoff, PopGlobal
<1> QED
  BY <1>2, <1>4, <1>5, <1>6, <1>7, <1>8 DEF Next, PushStep, vars

\* Concatenation, for sequences of jobs
LEMMA JobSeqs ==
    /\ \A a, b, c \in Seq(Jobs) : (a \o b) \o c = a \o (b \o c)
    /\ \A a, b \in Seq(Jobs), j \in Jobs : a \o Append(b, j) = Append(a \o b, j)
    /\ \A a, b \in Seq(Jobs), j \in Jobs : Append(a, j) \o b = a \o (<<j>> \o b)
<1>1. ASSUME NEW a \in Seq(Jobs), NEW b \in Seq(Jobs), NEW c \in Seq(Jobs)
      PROVE  (a \o b) \o c = a \o (b \o c)
  BY ConcatAssociative
<1>2. ASSUME NEW a \in Seq(Jobs), NEW b \in Seq(Jobs), NEW j \in Jobs
      PROVE  a \o Append(b, j) = Append(a \o b, j)
  BY ConcatEnds
<1>3. ASSUME NEW a \in Seq(Jobs), NEW b \in Seq(Jobs), NEW j \in Jobs
      PROVE  Append(a, j) \o b = a \o (<<j>> \o b)
  <2>1. <<j>> \in Seq(Jobs) /\ Append(a, j) = a \o <<j>>
    BY AppendIsConcat
  <2> QED
    BY <1>1, <2>1
<1> QED
  BY <1>1, <1>2, <1>3

\* What ran, then the line, is what was pushed.
Ordered == \A q \in Queues : pushed[q] = done[q] \o Line(q)

LEMMA InOrder == ASSUME TypeOK, SingleExecutor PROVE RunInPushOrder <=> Ordered
<1> SUFFICES ASSUME NEW q \in Queues PROVE (done[q] \o Taken(q)) \o jobs[q] = done[q] \o Line(q)
  BY DEF RunInPushOrder, Ordered
<1>1. done[q] \in Seq(Jobs) /\ Taken(q) \in Seq(Jobs) /\ jobs[q] \in Seq(Jobs)
  BY ViewTypes DEF TypeOK
<1> QED
  BY <1>1, JobSeqs DEF Line

\* Before a step and after it
LEMMA InOrderViews == IInv /\ IInv' => (RunInPushOrder <=> Ordered) /\ (RunInPushOrder' <=> Ordered')
<1>1. IInv => (RunInPushOrder <=> Ordered)
  BY InOrder DEF IInv
<1> QED
  BY <1>1, PTL

\* The jobs that ran and those in line were pushed.
LEMMA OrderPreserved ==
    ASSUME IInv, IInv', BatchOK, RunInPushOrder, [Next]_vars
    PROVE  RunInPushOrder'
<1>1. \A r \in Queues : /\ pushed[r] = done[r] \o Line(r)
                        /\ done[r] \in Seq(Jobs) /\ Line(r) \in Seq(Jobs)
  BY InOrderViews, ViewTypes DEF IInv, TypeOK, Ordered
<1> SUFFICES ASSUME NEW r \in Queues PROVE pushed'[r] = done'[r] \o Line(r)'
  BY InOrderViews DEF Ordered
<1>2. CASE Rests
  BY <1>1, <1>2 DEF Rests, Still
<1>3. ASSUME NEW t \in Threads, NEW q \in Queues, NEW j \in Jobs, Joins(t, q, j)
      PROVE  pushed'[r] = done'[r] \o Line(r)'
  <2>1. CASE r = q
    <3>1. pushed'[r] = Append(pushed[r], j) /\ Line(r)' = Append(Line(r), j) /\ done'[r] = done[r]
      BY <1>3, <2>1 DEF Joins, IInv, TypeOK
    <3>2. done[r] \o Append(Line(r), j) = Append(done[r] \o Line(r), j)
      <4>1. done[r] \in Seq(Jobs) /\ Line(r) \in Seq(Jobs)
        BY <1>1
      <4> QED
        BY <4>1, JobSeqs, Zenon
    <3>3. pushed[r] = done[r] \o Line(r)
      BY <1>1
    <3> QED
      BY <3>1, <3>2, <3>3, Zenon
  <2>2. CASE r # q
    <3>1. pushed'[r] = pushed[r] /\ Line(r)' = Line(r) /\ done'[r] = done[r]
      BY <1>3, <2>2 DEF Joins, Beside, Still, IInv, TypeOK
    <3> QED
      BY <1>1, <3>1
  <2> QED
    BY <2>1, <2>2
<1>4. ASSUME NEW q \in Queues, Begins(q) PROVE pushed'[r] = done'[r] \o Line(r)'
  BY <1>1, <1>4 DEF Begins, Beside, Still
<1>5. ASSUME NEW q \in Queues, Ends(q) PROVE pushed'[r] = done'[r] \o Line(r)'
  <2>1. CASE r = q
    <3>1. PICK j \in Jobs, l \in Seq(Jobs) : j = Head(Line(r)) /\ l = Tail(Line(r)) /\ Line(r) # <<>>
      BY <1>1, <1>5, <2>1, HeadTailProperties DEF Ends
    <3>2. pushed'[r] = pushed[r] /\ Line(r)' = l /\ done'[r] = Append(done[r], j)
      BY <1>5, <2>1, <3>1 DEF Ends, IInv, TypeOK
    <3>3. Line(r) = <<j>> \o l
      BY <1>1, <3>1, ConcatEnds
    <3>4. Append(done[r], j) \o l = done[r] \o (<<j>> \o l)
      <4>1. done[r] \in Seq(Jobs)
        BY <1>1
      <4> QED
        BY <4>1, JobSeqs, Zenon
    <3>5. pushed[r] = done[r] \o Line(r)
      BY <1>1
    <3> QED
      BY <3>2, <3>3, <3>4, <3>5, Zenon
  <2>2. CASE r # q
    <3>1. pushed'[r] = pushed[r] /\ Line(r)' = Line(r) /\ done'[r] = done[r]
      BY <1>5, <2>2 DEF Ends, Beside, Still, IInv, TypeOK
    <3> QED
      BY <1>1, <3>1
  <2> QED
    BY <2>1, <2>2
<1> QED
  BY <1>2, <1>3, <1>4, <1>5, StepViews

\* The order of jobs holds in every reachable state.
LEMMA OrderInvariance == Spec => [](IInv /\ OrderInv)
<1>1. Init => OrderInv
  <2> SUFFICES ASSUME Init PROVE OrderInv
    OBVIOUS
  <2>1. BatchOK /\ PushOnce
    BY DEF Init, BatchOK, PushOnce, NoExec, NoPush
  <2>2. \A q \in Queues : ~\E t \in Threads : Executes(t, q)
    BY NoneAssumption DEF Init, NoExec, Executes
  <2>3. RunInPushOrder
    BY <2>2, ConcatEmptySeq, EmptySeq DEF Init, RunInPushOrder, Taken
  <2> QED
    BY <2>1, <2>3 DEF OrderInv
<1>2. IInv /\ IInv' /\ OrderInv /\ [Next]_vars => OrderInv'
  BY BatchPreserved, PushOncePreserved, OrderPreserved DEF OrderInv
<1> QED
  BY Invariance, <1>1, <1>2, PTL DEF Spec

\* Jobs run in the order in which they entered m_jobs, none lost and none run
\* twice, for any number of threads, queues and jobs.
THEOREM JobsInOrder == Spec => []RunInPushOrder
<1>1. OrderInv => RunInPushOrder
  BY DEF OrderInv
<1> QED
  BY OrderInvariance, <1>1, PTL

-----------------------------------------------------------------------------
(* Refinement.  What waits in a queue is its line without the running job. *)

ServerView == \A q \in Queues :
    /\ PendingOf(q) = IF RunningOf(q) = {} THEN Line(q) ELSE Tail(Line(q))
    /\ RunningOf(q) # {} => Line(q) # <<>> /\ RunningOf(q) = {Head(Line(q))}
    /\ Line(q) \in Seq(Jobs)

LEMMA PendingView == IInv => ServerView
<1> SUFFICES ASSUME IInv, NEW q \in Queues
             PROVE  /\ PendingOf(q) = IF RunningOf(q) = {} THEN Line(q) ELSE Tail(Line(q))
                    /\ RunningOf(q) # {} => Line(q) # <<>> /\ RunningOf(q) = {Head(Line(q))}
                    /\ Line(q) \in Seq(Jobs)
  BY DEF ServerView
<1> USE DEF IInv
<1>1. Taken(q) \in Seq(Jobs) /\ jobs[q] \in Seq(Jobs) /\ Line(q) \in Seq(Jobs)
  BY ViewTypes
<1>2. CASE RunningOf(q) = {}
  BY <1>1, <1>2 DEF PendingOf, Line
<1>3. CASE RunningOf(q) # {}
  <2>1. PICK t \in Threads : Executes(t, q) /\ exec[t].pc = "running"
    BY <1>3 DEF RunningOf
  <2>2. Taken(q) = exec[t].batch /\ RunningOf(q) = {Head(exec[t].batch)}
    BY <2>1, ExecutorView DEF ExecutorsView
  <2>3. Taken(q) # <<>>
    BY <2>1, <2>2 DEF FrameOK
  <2>4. /\ Taken(q) \o jobs[q] # <<>> /\ Head(Taken(q) \o jobs[q]) = Head(Taken(q))
        /\ Tail(Taken(q) \o jobs[q]) = Tail(Taken(q)) \o jobs[q]
    BY <1>1, <2>3, ConcatEnds
  <2> QED
    BY <1>1, <1>3, <2>2, <2>4 DEF PendingOf, Line
<1> QED
  BY <1>2, <1>3

\* Before a step and after it
LEMMA PendingViews == IInv /\ IInv' => ServerView /\ ServerView'
BY PendingView, PTL

\* The elements of a concatenation and of a tail
LEMMA JobsInSeqs ==
    ASSUME NEW a \in Seq(Jobs), NEW b \in Seq(Jobs)
    PROVE  /\ JobsIn(a) \subseteq JobsIn(a \o b) /\ JobsIn(b) \subseteq JobsIn(a \o b)
           /\ a # <<>> => Head(a) \in JobsIn(a) /\ JobsIn(Tail(a)) \subseteq JobsIn(a)
<1>0. PICK m \in Nat, n \in Nat : m = Len(a) /\ n = Len(b)
  BY LenProperties
<1>1. /\ DOMAIN a = 1..m /\ DOMAIN b = 1..n /\ DOMAIN (a \o b) = 1..(m + n)
      /\ \A i \in 1..(m + n) : (a \o b)[i] = IF i <= m THEN a[i] ELSE b[i - m]
  BY <1>0, LenProperties, ConcatProperties
<1>2. JobsIn(a) \subseteq JobsIn(a \o b)
  <2>1. \A i \in 1..m : i \in 1..(m + n) /\ (a \o b)[i] = a[i]
    BY <1>0, <1>1
  <2> QED
    BY <1>1, <2>1 DEF JobsIn
<1>3. JobsIn(b) \subseteq JobsIn(a \o b)
  <2>1. \A i \in 1..n : i + m \in 1..(m + n) /\ (a \o b)[i + m] = b[i]
    <3> TAKE i \in 1..n
    <3>1. i + m \in 1..(m + n) /\ ~(i + m <= m) /\ (i + m) - m = i
      BY <1>0
    <3> QED
      BY <1>1, <3>1
  <2>2. ASSUME NEW i \in DOMAIN b PROVE b[i] \in JobsIn(a \o b)
    <3>1. i + m \in DOMAIN (a \o b) /\ (a \o b)[i + m] = b[i]
      BY <1>1, <2>1
    <3> QED
      BY <3>1, Zenon DEF JobsIn
  <2> QED
    BY <2>2, Zenon DEF JobsIn
<1>4. ASSUME a # <<>> PROVE Head(a) \in JobsIn(a) /\ JobsIn(Tail(a)) \subseteq JobsIn(a)
  <2>1. m \in Nat \ {0} /\ 1 \in 1..m
    BY <1>0, <1>4, EmptySeq
  <2>2. Head(a) = a[1] /\ Tail(a) \in Seq(Jobs) /\ Len(Tail(a)) = m - 1
        /\ \A i \in 1..(m - 1) : Tail(a)[i] = a[i + 1]
    BY <1>0, <1>4, HeadTailProperties
  <2>3. DOMAIN Tail(a) = 1..(m - 1) /\ \A i \in 1..(m - 1) : i + 1 \in 1..m
    BY <2>1, <2>2, LenProperties
  <2>4. Head(a) \in JobsIn(a)
    BY <1>1, <2>1, <2>2 DEF JobsIn
  <2>5. ASSUME NEW i \in DOMAIN Tail(a) PROVE Tail(a)[i] \in JobsIn(a)
    <3>1. i + 1 \in DOMAIN a /\ Tail(a)[i] = a[i + 1]
      BY <1>1, <2>2, <2>3
    <3> QED
      BY <3>1 DEF JobsIn
  <2> QED
    BY <2>4, <2>5 DEF JobsIn
<1> QED
  BY <1>2, <1>3, <1>4

\* A step that leaves every queue where it is stutters.
LEMMA RestRefines == ASSUME IInv, IInv', Rests PROVE UNCHANGED Serial!vars
<1>1. \A r \in Queues : PendingOf(r)' = PendingOf(r) /\ RunningOf(r)' = RunningOf(r)
  BY PendingViews DEF ServerView, Rests, Still
<1> QED
  BY <1>1 DEF Serial!vars, Rests

\* The queues beside q keep what waits and runs.
LEMMA BesideServer == ASSUME IInv, IInv', NEW q \in Queues, Beside(q)
    PROVE \A r \in Queues \ {q} : PendingOf(r)' = PendingOf(r) /\ RunningOf(r)' = RunningOf(r)
BY PendingViews DEF ServerView, Beside, Still

\* A job that enters m_jobs is submitted.
LEMMA JoinRefines ==
    ASSUME IInv, IInv', OrderInv, NEW t \in Threads, NEW q \in Queues, NEW j \in Jobs, Joins(t, q, j)
    PROVE  Serial!Submit(q, j)
<1>1. ASSUME NEW r \in Queues
      PROVE  j \notin JobsIn(PendingOf(r)) \cup RunningOf(r) \cup JobsIn(done[r])
  <2>1. j \notin JobsIn(pushed[r])
    BY DEF Joins, OrderInv, PushOnce
  <2>2. pushed[r] = done[r] \o Line(r) /\ done[r] \in Seq(Jobs) /\ Line(r) \in Seq(Jobs)
    BY InOrderViews, ViewTypes DEF OrderInv, Ordered, IInv, TypeOK
  <2>3. j \notin JobsIn(done[r]) /\ j \notin JobsIn(Line(r))
    <3>1. /\ JobsIn(done[r]) \subseteq JobsIn(done[r] \o Line(r))
          /\ JobsIn(Line(r)) \subseteq JobsIn(done[r] \o Line(r))
      BY <2>2, JobsInSeqs, Zenon
    <3>2. j \notin JobsIn(done[r] \o Line(r))
      BY <2>1, <2>2, Zenon
    <3> QED
      BY <3>1, <3>2
  <2>4. /\ PendingOf(r) = IF RunningOf(r) = {} THEN Line(r) ELSE Tail(Line(r))
        /\ RunningOf(r) # {} => Line(r) # <<>> /\ RunningOf(r) = {Head(Line(r))}
    BY PendingViews DEF ServerView
  <2>5. Line(r) # <<>> => Head(Line(r)) \in JobsIn(Line(r)) /\ JobsIn(Tail(Line(r))) \subseteq JobsIn(Line(r))
    BY <2>2, JobsInSeqs
  <2> QED
    BY <2>3, <2>4, <2>5
<1>2. ~Serial!Known(j)
  <2>1. Serial!Known(j) <=>
          \E r \in Queues : j \in JobsIn(PendingOf(r)) \cup RunningOf(r) \cup JobsIn(done[r])
    BY DEF Serial!Known, Serial!JobsIn, JobsIn
  <2> QED
    BY <1>1, <2>1
<1>3. PendingOf(q)' = Append(PendingOf(q), j) /\ RunningOf(q)' = RunningOf(q)
  <2>1. Line(q) \in Seq(Jobs) /\ Line(q)' = Append(Line(q), j) /\ RunningOf(q)' = RunningOf(q)
    BY PendingViews DEF ServerView, Joins
  <2>2. /\ PendingOf(q) = IF RunningOf(q) = {} THEN Line(q) ELSE Tail(Line(q))
        /\ PendingOf(q)' = IF RunningOf(q)' = {} THEN Line(q)' ELSE Tail(Line(q)')
        /\ RunningOf(q) # {} => Line(q) # <<>>
    BY PendingViews DEF ServerView
  <2>3. ASSUME Line(q) # <<>> PROVE Tail(Append(Line(q), j)) = Append(Tail(Line(q)), j)
    <3>1. <<j>> \in Seq(Jobs) /\ Tail(Line(q)) \in Seq(Jobs)
      BY <2>1, <2>3, HeadTailProperties
    <3>2. Tail(Line(q) \o <<j>>) = Tail(Line(q)) \o <<j>>
      BY <2>1, <2>3, <3>1, ConcatEnds
    <3> QED
      BY <2>1, <3>1, <3>2, AppendIsConcat
  <2> QED
    BY <2>1, <2>2, <2>3
<1>4. \A r \in Queues \ {q} : PendingOf(r)' = PendingOf(r) /\ RunningOf(r)' = RunningOf(r)
  BY BesideServer DEF Joins
<1>5. [r \in Queues |-> PendingOf(r)]' = [[r \in Queues |-> PendingOf(r)] EXCEPT ![q] = Append(@, j)]
  BY <1>3, <1>4
<1>6. [r \in Queues |-> RunningOf(r)]' = [r \in Queues |-> RunningOf(r)]
  BY <1>3, <1>4
<1> QED
  BY <1>2, <1>5, <1>6 DEF Joins, Serial!Submit

\* A job that Execute calls starts.
LEMMA BeginRefines == ASSUME IInv, IInv', NEW q \in Queues, Begins(q) PROVE Serial!Start(q)
<1>1. RunningOf(q) = {} /\ PendingOf(q) = Line(q) /\ Line(q) # <<>>
  BY PendingViews DEF ServerView, Begins
<1>2. RunningOf(q)' = {Head(Line(q))} /\ PendingOf(q)' = Tail(Line(q))
  BY PendingViews DEF ServerView, Begins
<1>3. \A r \in Queues \ {q} : PendingOf(r)' = PendingOf(r) /\ RunningOf(r)' = RunningOf(r)
  BY BesideServer DEF Begins
<1>4. [r \in Queues |-> PendingOf(r)]' = [[r \in Queues |-> PendingOf(r)] EXCEPT ![q] = Tail(@)]
  BY <1>1, <1>2, <1>3
<1>5. [r \in Queues |-> RunningOf(r)]' =
        [[r \in Queues |-> RunningOf(r)] EXCEPT ![q] = {Head([r \in Queues |-> PendingOf(r)][q])}]
  BY <1>1, <1>2, <1>3
<1> QED
  BY <1>1, <1>4, <1>5 DEF Begins, Serial!Start

\* A job that returns is finished.
LEMMA EndRefines == ASSUME IInv, IInv', NEW q \in Queues, Ends(q) PROVE Serial!Finish(q)
<1>1. PICK j : j = Head(Line(q)) /\ RunningOf(q) = {j}
  BY DEF Ends
<1>2. RunningOf(q)' = {} /\ PendingOf(q)' = PendingOf(q)
  BY PendingViews DEF ServerView, Ends
<1>3. \A r \in Queues \ {q} : PendingOf(r)' = PendingOf(r) /\ RunningOf(r)' = RunningOf(r)
  BY BesideServer DEF Ends
<1>4. [r \in Queues |-> PendingOf(r)]' = [r \in Queues |-> PendingOf(r)]
  BY <1>2, <1>3
<1>5. [r \in Queues |-> RunningOf(r)]' = [[r \in Queues |-> RunningOf(r)] EXCEPT ![q] = {}]
  BY <1>2, <1>3
<1>6. done' = [done EXCEPT ![q] = Append(@, j)]
  BY <1>1 DEF Ends
<1> QED
  BY <1>1, <1>4, <1>5, <1>6 DEF Serial!Finish

\* Every queue behaves as a single-threaded server: Push submits, Execute
\* starts and finishes one job at a time, and every hand-off between threads is
\* invisible.  Room's members are written against this.
THEOREM Refinement == Spec => ImplementsSerialQueue
<1>1. Init => Serial!Init
  <2> SUFFICES ASSUME Init PROVE Serial!Init
    OBVIOUS
  <2>1. \A q \in Queues : ~\E t \in Threads : Executes(t, q)
    BY NoneAssumption DEF Init, NoExec, Executes
  <2>2. \A q \in Queues : RunningOf(q) = {} /\ PendingOf(q) = <<>>
    BY <2>1, ConcatEmptySeq, EmptySeq DEF Init, RunningOf, PendingOf, Taken
  <2> QED
    BY <2>2 DEF Init, Serial!Init
<1>2. IInv /\ IInv' /\ OrderInv /\ [Next]_vars => [Serial!Next]_Serial!vars
  <2> SUFFICES ASSUME IInv, IInv', OrderInv, [Next]_vars PROVE Serial!Next \/ UNCHANGED Serial!vars
    OBVIOUS
  <2>1. CASE Rests
    BY <2>1, RestRefines
  <2>2. ASSUME NEW t \in Threads, NEW q \in Queues, NEW j \in Jobs, Joins(t, q, j) PROVE Serial!Next
    BY <2>2, JoinRefines DEF Serial!Next
  <2>3. ASSUME NEW q \in Queues, Begins(q) \/ Ends(q) PROVE Serial!Next
    BY <2>3, BeginRefines, EndRefines DEF Serial!Next, Serial!Serve
  <2> QED
    BY <2>1, <2>2, <2>3, StepViews DEF OrderInv
<1> QED
  BY OrderInvariance, <1>1, <1>2, PTL DEF Spec, ImplementsSerialQueue, Serial!Spec
=============================================================================
