------------------------------ MODULE JobQueue ------------------------------
(***************************************************************************)
(* ServerCore's actor: JobQueue.h/.cpp, the GlobalQueue of queues waiting  *)
(* for a thread, and ThreadManager::DoGlobalQueueWork that serves it.      *)
(*                                                                         *)
(* A thread that pushes into an empty queue (its fetch_add returned 0)     *)
(* becomes responsible for running it: it calls Execute itself, unless it  *)
(* already is inside an Execute, and otherwise hands the queue to          *)
(* GGlobalQueue.  Push is not atomic: m_jobCount is incremented before the *)
(* job reaches m_jobs, so an executor may see a count without the job.     *)
(*                                                                         *)
(* A thread has at most one Push frame and one Execute frame at a time: a  *)
(* job that runs may push, and a push made outside of any job may start an *)
(* Execute, which is its tail call.                                        *)
(***************************************************************************)
EXTENDS Integers, Sequences, FiniteSets

CONSTANTS
    Threads,    \* the threads ThreadManager launched, and the main thread
    Queues,     \* the JobQueue objects (Rooms)
    Jobs,       \* the Job objects; each is pushed once
    None        \* nullptr

ASSUME ThreadsAssumption == IsFiniteSet(Threads)
ASSUME NoneAssumption == None \notin Queues /\ None \notin Jobs

VARIABLES
    jobCount,           \* m_jobCount of every queue
    jobs,               \* m_jobs of every queue
    globalQueue,        \* GGlobalQueue->m_jobQueues
    currentJobQueue,    \* LCurrentJobQueue of every thread
    push,               \* the Push frame of every thread
    exec,               \* the Execute frame of every thread
    pushed, done        \* history: the jobs put in m_jobs, the jobs that ran

vars == <<jobCount, jobs, globalQueue, currentJobQueue, push, exec, pushed, done>>

JobsIn(s) == {s[i] : i \in DOMAIN s}

-----------------------------------------------------------------------------
(* Frames.  A Push frame waits to put its job in m_jobs ("item") or to     *)
(* hand its queue to the global queue ("handoff"); first is prevCount = 0. *)
(* An Execute frame is about to PopAll ("pop"), between two jobs ("run"),  *)
(* inside the first job of its batch ("running"), past a fetch_sub that    *)
(* left jobs ("tick"), or gives its queue away ("handoff").                *)

PushFrame == [pc : {"item", "handoff"}, queue : Queues, job : Jobs, first : BOOLEAN]
NoPush == [pc |-> "none", queue |-> None, job |-> None, first |-> FALSE]

ExecFrame == [pc : {"pop", "run", "running", "tick", "handoff"}, queue : Queues,
              batch : Seq(Jobs), size : Nat]
NoExec == [pc |-> "idle", queue |-> None, batch |-> <<>>, size |-> 0]

Entered(q) == [pc |-> "pop", queue |-> q, batch |-> <<>>, size |-> 0]

\* The pushes of q that are counted in m_jobCount and not yet in m_jobs.
InFlight(q) == {t \in Threads : push[t].pc = "item" /\ push[t].queue = q}

\* The three ways to be responsible for running q.
OwesFirst(t, q) == push[t].queue = q /\ push[t].first
Executes(t, q) == exec[t].queue = q
Waits(i, q) == globalQueue[i] = q

\* A thread may call Push from a job, or from a handler outside of any job.
MayPush(t) == push[t] = NoPush /\ exec[t].pc \in {"idle", "running"}

Fresh(j) == /\ \A q \in Queues : j \notin JobsIn(pushed[q])
            /\ \A t \in Threads : push[t].job # j

-----------------------------------------------------------------------------
Init ==
    /\ jobCount = [q \in Queues |-> 0]
    /\ jobs = [q \in Queues |-> <<>>]
    /\ globalQueue = <<>>
    /\ currentJobQueue = [t \in Threads |-> None]
    /\ push = [t \in Threads |-> NoPush]
    /\ exec = [t \in Threads |-> NoExec]
    /\ pushed = [q \in Queues |-> <<>>]
    /\ done = [q \in Queues |-> <<>>]

\* prevCount = m_jobCount.fetch_add(1)
PushCount(t, q, j) ==
    /\ MayPush(t)
    /\ Fresh(j)
    /\ jobCount' = [jobCount EXCEPT ![q] = @ + 1]
    /\ push' = [push EXCEPT ![t] =
                  [pc |-> "item", queue |-> q, job |-> j, first |-> jobCount[q] = 0]]
    /\ UNCHANGED <<jobs, globalQueue, currentJobQueue, exec, pushed, done>>

\* m_jobs.Push(_job), after which the thread knows what Push still has to do.
PutItem(t) ==
    /\ push[t].pc = "item"
    /\ jobs' = [jobs EXCEPT ![push[t].queue] = Append(@, push[t].job)]
    /\ pushed' = [pushed EXCEPT ![push[t].queue] = Append(@, push[t].job)]

\* Not the first job: whoever runs the queue will find it.
PushJoin(t) ==
    /\ PutItem(t)
    /\ ~push[t].first
    /\ push' = [push EXCEPT ![t] = NoPush]
    /\ UNCHANGED <<jobCount, globalQueue, currentJobQueue, exec, done>>

\* Mutant of PushExecute: prevCount is not looked at.
PushExecuteAny(t) ==
    /\ PutItem(t)
    /\ currentJobQueue[t] = None
    /\ push' = [push EXCEPT ![t] = NoPush]
    /\ exec' = [exec EXCEPT ![t] = Entered(push[t].queue)]
    /\ currentJobQueue' = [currentJobQueue EXCEPT ![t] = push[t].queue]
    /\ UNCHANGED <<jobCount, globalQueue, done>>

\* First job, no Execute on this thread, _pushOnly false: Execute().
PushExecute(t) ==
    /\ PutItem(t)
    /\ push[t].first
    /\ currentJobQueue[t] = None
    /\ push' = [push EXCEPT ![t] = NoPush]
    /\ exec' = [exec EXCEPT ![t] = Entered(push[t].queue)]
    /\ currentJobQueue' = [currentJobQueue EXCEPT ![t] = push[t].queue]
    /\ UNCHANGED <<jobCount, globalQueue, done>>

\* First job, but this thread is executing a queue or _pushOnly is set.
PushDefer(t, pushOnly) ==
    /\ PutItem(t)
    /\ push[t].first
    /\ currentJobQueue[t] # None \/ pushOnly
    /\ push' = [push EXCEPT ![t].pc = "handoff"]
    /\ UNCHANGED <<jobCount, globalQueue, currentJobQueue, exec, done>>

\* GGlobalQueue->Push(shared_from_this()) at the end of Push
PushGlobal(t) ==
    /\ push[t].pc = "handoff"
    /\ globalQueue' = Append(globalQueue, push[t].queue)
    /\ push' = [push EXCEPT ![t] = NoPush]
    /\ UNCHANGED <<jobCount, jobs, currentJobQueue, exec, pushed, done>>

\* DoGlobalQueueWork: a worker with time left takes a queue and executes it.
PopGlobal(t) ==
    /\ push[t] = NoPush /\ exec[t] = NoExec
    /\ globalQueue # <<>>
    /\ exec' = [exec EXCEPT ![t] = Entered(Head(globalQueue))]
    /\ currentJobQueue' = [currentJobQueue EXCEPT ![t] = Head(globalQueue)]
    /\ globalQueue' = Tail(globalQueue)
    /\ UNCHANGED <<jobCount, jobs, push, pushed, done>>

\* Mutant of ExecPopAll: the jobs are copied and stay in m_jobs.
ExecPopAllCopies(t) == LET q == exec[t].queue IN
    /\ exec[t].pc = "pop"
    /\ exec' = [exec EXCEPT ![t] =
                  [pc |-> "run", queue |-> q, batch |-> jobs[q], size |-> Len(jobs[q])]]
    /\ UNCHANGED <<jobCount, jobs, globalQueue, currentJobQueue, push, pushed, done>>

\* m_jobs.PopAll(jobs); jobCount = jobs.size()
ExecPopAll(t) == LET q == exec[t].queue IN
    /\ exec[t].pc = "pop"
    /\ exec' = [exec EXCEPT ![t] =
                  [pc |-> "run", queue |-> q, batch |-> jobs[q], size |-> Len(jobs[q])]]
    /\ jobs' = [jobs EXCEPT ![q] = <<>>]
    /\ UNCHANGED <<jobCount, globalQueue, currentJobQueue, push, pushed, done>>

\* jobs[i]->Execute() begins, and ends once the pushes it made have returned.
JobStart(t) ==
    /\ exec[t].pc = "run" /\ exec[t].batch # <<>>
    /\ exec' = [exec EXCEPT ![t].pc = "running"]
    /\ UNCHANGED <<jobCount, jobs, globalQueue, currentJobQueue, push, pushed, done>>

JobEnd(t) ==
    /\ exec[t].pc = "running" /\ push[t] = NoPush
    /\ exec' = [exec EXCEPT ![t].pc = "run", ![t].batch = Tail(@)]
    /\ done' = [done EXCEPT ![exec[t].queue] = Append(@, Head(exec[t].batch))]
    /\ UNCHANGED <<jobCount, jobs, globalQueue, currentJobQueue, push, pushed>>

\* Mutant of ExecFinish: Execute returns whatever fetch_sub said.
ExecFinishAny(t) == LET q == exec[t].queue IN
    /\ exec[t].pc = "run" /\ exec[t].batch = <<>>
    /\ jobCount' = [jobCount EXCEPT ![q] = @ - exec[t].size]
    /\ exec' = [exec EXCEPT ![t] = NoExec]
    /\ currentJobQueue' = [currentJobQueue EXCEPT ![t] = None]
    /\ UNCHANGED <<jobs, globalQueue, push, pushed, done>>

\* m_jobCount.fetch_sub(jobCount) == jobCount: nothing is left, return
ExecFinish(t) == LET q == exec[t].queue IN
    /\ exec[t].pc = "run" /\ exec[t].batch = <<>>
    /\ jobCount[q] = exec[t].size
    /\ jobCount' = [jobCount EXCEPT ![q] = @ - exec[t].size]
    /\ exec' = [exec EXCEPT ![t] = NoExec]
    /\ currentJobQueue' = [currentJobQueue EXCEPT ![t] = None]
    /\ UNCHANGED <<jobs, globalQueue, push, pushed, done>>

\* fetch_sub left a positive count: look at the clock
ExecRemain(t) == LET q == exec[t].queue IN
    /\ exec[t].pc = "run" /\ exec[t].batch = <<>>
    /\ jobCount[q] # exec[t].size
    /\ jobCount' = [jobCount EXCEPT ![q] = @ - exec[t].size]
    /\ exec' = [exec EXCEPT ![t].pc = "tick", ![t].size = 0]
    /\ UNCHANGED <<jobs, globalQueue, currentJobQueue, push, pushed, done>>

\* now < LEndTickCount: another round
ExecAgain(t) ==
    /\ exec[t].pc = "tick"
    /\ exec' = [exec EXCEPT ![t].pc = "pop"]
    /\ UNCHANGED <<jobCount, jobs, globalQueue, currentJobQueue, push, pushed, done>>

\* now >= LEndTickCount: the thread leaves the queue ...
ExecTimeout(t) ==
    /\ exec[t].pc = "tick"
    /\ exec' = [exec EXCEPT ![t].pc = "handoff"]
    /\ currentJobQueue' = [currentJobQueue EXCEPT ![t] = None]
    /\ UNCHANGED <<jobCount, jobs, globalQueue, push, pushed, done>>

\* Mutant of ExecHandoff: nobody gets the queue.
ExecHandoffDrops(t) ==
    /\ exec[t].pc = "handoff"
    /\ exec' = [exec EXCEPT ![t] = NoExec]
    /\ UNCHANGED <<jobCount, jobs, globalQueue, currentJobQueue, push, pushed, done>>

\* ... and hands it to the other threads.
ExecHandoff(t) ==
    /\ exec[t].pc = "handoff"
    /\ globalQueue' = Append(globalQueue, exec[t].queue)
    /\ exec' = [exec EXCEPT ![t] = NoExec]
    /\ UNCHANGED <<jobCount, jobs, currentJobQueue, push, pushed, done>>

PushStep(t) ==
    \/ PushJoin(t)
    \/ PushExecute(t)
    \/ \E pushOnly \in BOOLEAN : PushDefer(t, pushOnly)
    \/ PushGlobal(t)

ExecStep(t) ==
    \/ ExecPopAll(t) \/ JobStart(t) \/ JobEnd(t)
    \/ ExecFinish(t) \/ ExecRemain(t)
    \/ ExecAgain(t) \/ ExecTimeout(t) \/ ExecHandoff(t)

Next == \E t \in Threads :
    \/ \E q \in Queues, j \in Jobs : PushCount(t, q, j)
    \/ PushStep(t) \/ ExecStep(t) \/ PopGlobal(t)

Spec == Init /\ [][Next]_vars

\* A thread inside Push or Execute keeps going.  A worker that comes back to
\* DoGlobalQueueWork with time left in its 64 ms slice takes what it finds.
FairSpec ==
    /\ Spec
    /\ \A t \in Threads : WF_vars(PushStep(t)) /\ WF_vars(ExecStep(t)) /\ WF_vars(PopGlobal(t))

-----------------------------------------------------------------------------
(* Properties                                                              *)

\* Every variable has its type, and LCurrentJobQueue is the queue of the
\* Execute frame the thread is in (null once it is about to hand it off).
TypeOK ==
    /\ jobCount \in [Queues -> Int]
    /\ jobs \in [Queues -> Seq(Jobs)]
    /\ globalQueue \in Seq(Queues)
    /\ push \in [Threads -> PushFrame \cup {NoPush}]
    /\ exec \in [Threads -> ExecFrame \cup {NoExec}]
    /\ pushed \in [Queues -> Seq(Jobs)]
    /\ done \in [Queues -> Seq(Jobs)]
    /\ currentJobQueue \in [Threads -> Queues \cup {None}]
    /\ \A t \in Threads :
         currentJobQueue[t] = IF exec[t].pc = "handoff" THEN None ELSE exec[t].queue

\* Never two threads inside Execute of one queue: this is what lets Room's
\* members run without a lock.
SingleExecutor == \A q \in Queues, t, u \in Threads :
    Executes(t, q) /\ Executes(u, q) => t = u

\* Responsibility for a queue is held by at most one party: a pusher that saw
\* count 0, one entry of the global queue, or one executor.
OneHolder == \A q \in Queues :
    /\ \A t, u \in Threads : OwesFirst(t, q) /\ OwesFirst(u, q) => t = u
    /\ \A i, k \in DOMAIN globalQueue : Waits(i, q) /\ Waits(k, q) => i = k
    /\ \A t, u \in Threads : ~(OwesFirst(t, q) /\ Executes(u, q))
    /\ \A t \in Threads, i \in DOMAIN globalQueue :
         ~(OwesFirst(t, q) /\ Waits(i, q)) /\ ~(Executes(t, q) /\ Waits(i, q))

\* No queue is forgotten or claimed for nothing: m_jobCount is non-zero exactly
\* while somebody is responsible for the queue.
HolderIffWork == \A q \in Queues :
    jobCount[q] # 0 <=>
        \/ \E t \in Threads : OwesFirst(t, q) \/ Executes(t, q)
        \/ \E i \in DOMAIN globalQueue : Waits(i, q)

\* m_jobCount counts the jobs in m_jobs, the batch its executor took and has
\* not subtracted, and the pushes that are between the two lines of Push.
CountExact == \A q \in Queues :
    /\ \A t \in Threads : Executes(t, q) =>
         jobCount[q] = Len(jobs[q]) + exec[t].size + Cardinality(InFlight(q))
    /\ (\A t \in Threads : ~Executes(t, q)) =>
         jobCount[q] = Len(jobs[q]) + Cardinality(InFlight(q))

\* The jobs of the batch its executor has not finished, if q has an executor.
Taken(q) == IF \E t \in Threads : Executes(t, q)
            THEN exec[CHOOSE t \in Threads : Executes(t, q)].batch
            ELSE <<>>

\* Jobs run in the order in which they entered m_jobs, none lost or run twice:
\* what ran, what the executor holds and what m_jobs holds is what was pushed.
RunInPushOrder == \A q \in Queues : pushed[q] = done[q] \o Taken(q) \o jobs[q]

\* A job that Push has counted is eventually run, by some thread.
EveryJobRuns == \A q \in Queues, j \in Jobs :
    (\E t \in Threads : push[t].queue = q /\ push[t].job = j) ~> j \in JobsIn(done[q])

-----------------------------------------------------------------------------
(* The serial server each queue implements.                                *)

RunningOf(q) == {Head(exec[t].batch) : t \in {u \in Threads : Executes(u, q) /\ exec[u].pc = "running"}}

PendingOf(q) == IF RunningOf(q) = {} THEN Taken(q) \o jobs[q]
                ELSE Tail(Taken(q)) \o jobs[q]

Serial == INSTANCE SerialQueue WITH
    pending <- [q \in Queues |-> PendingOf(q)],
    running <- [q \in Queues |-> RunningOf(q)],
    finished <- done

\* A queue behaves as the serial server does, threads and hand-offs hidden.
ImplementsSerialQueue == Serial!Spec
=============================================================================
