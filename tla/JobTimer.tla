------------------------------ MODULE JobTimer ------------------------------
(***************************************************************************)
(* JobTimer.h/.cpp and the part of a worker's loop that calls it           *)
(* (ThreadManager::DistributeReservedJobs), over the JobQueues that its    *)
(* jobs are pushed to.  A JobQueue is the serial server that JobQueue.tla  *)
(* is shown to implement.                                                  *)
(*                                                                         *)
(* A job that a thread runs inside Distribute's Push may reserve another   *)
(* one, so that a thread may be in Reserve and Distribute at once.         *)
(***************************************************************************)
EXTENDS Integers, Sequences, FiniteSets

CONSTANTS
    Threads,    \* the workers
    Queues,     \* the JobQueues
    Jobs,       \* JobData; each is reserved once
    None,
    Delays,     \* the ticks that are asked for
    MaxTick     \* bound: the clock

ASSUME NoneIsNull == None \notin Queues /\ None \notin Jobs
ASSUME DelaysAssumption == Delays \subseteq Nat

VARIABLES
    now,            \* GetTickCount64()
    items,          \* m_items
    distributing,   \* m_distributing
    tick, owner,    \* of each JobData: m_executeTick, m_owner
    reserving,      \* per thread, the job of its Reserve
    phase, clock,      \* per thread: where it is in Distribute, and _now
    batch,          \* per thread, its local items
    alive,          \* the JobQueues that exist
    pending, running, finished,     \* of the JobQueues
    entered, expired,   \* history: the jobs pushed, in order; those with no owner left
    met             \* history: pairs of jobs that were in m_items together

timerVars == <<now, items, distributing, tick, owner, reserving, phase, clock, batch, alive,
               entered, expired, met>>
queueVars == <<pending, running, finished>>
allVars == <<timerVars, queueVars>>

Queue == INSTANCE SerialQueue

JobsIn(s) == {s[i] : i \in DOMAIN s}

Fresh(j) ==
    /\ j \notin items \cup JobsIn(entered) \cup expired
    /\ \A t \in Threads : reserving[t] # j /\ j \notin JobsIn(batch[t])

\* The orders in which a priority queue may return a set of jobs.
Sorted(S) == {s \in [1..Cardinality(S) -> S] :
    /\ JobsIn(s) = S
    /\ \A i, k \in DOMAIN s : i < k => tick[s[i]] <= tick[s[k]]}

TimerInit ==
    /\ now = 0
    /\ items = {}
    /\ distributing = FALSE
    /\ tick = [j \in Jobs |-> 0]
    /\ owner = [j \in Jobs |-> None]
    /\ reserving = [t \in Threads |-> None]
    /\ phase = [t \in Threads |-> "idle"]
    /\ clock = [t \in Threads |-> 0]
    /\ batch = [t \in Threads |-> <<>>]
    /\ alive = Queues
    /\ Queue!Init
    /\ entered = <<>>
    /\ expired = {}
    /\ met = {}

Tick ==
    /\ now < MaxTick
    /\ now' = now + 1
    /\ UNCHANGED <<items, distributing, tick, owner, reserving, phase, clock, batch, alive,
                   entered, expired, met, queueVars>>

\* The last reference to a JobQueue goes; JobData holds a weak_ptr.
Destroy(q) ==
    /\ q \in alive
    /\ pending[q] = <<>> /\ running[q] = {}
    /\ alive' = alive \ {q}
    /\ UNCHANGED <<now, items, distributing, tick, owner, reserving, phase, clock, batch,
                   entered, expired, met, queueVars>>

\* DoTimer and Reserve: the tick is computed before the lock is taken ...
Reserve(t, j, q, delay) ==
    /\ reserving[t] = None /\ phase[t] \in {"idle", "push"}
    /\ Fresh(j) /\ q \in alive
    /\ tick' = [tick EXCEPT ![j] = now + delay]
    /\ owner' = [owner EXCEPT ![j] = q]
    /\ reserving' = [reserving EXCEPT ![t] = j]
    /\ UNCHANGED <<now, items, distributing, phase, clock, batch, alive, entered, expired, met,
                   queueVars>>

\* ... and m_items.push is done under it.
ReservePush(t) == LET j == reserving[t] IN
    /\ j # None
    /\ items' = items \cup {j}
    /\ met' = met \cup ({j} \X items) \cup (items \X {j})
    /\ reserving' = [reserving EXCEPT ![t] = None]
    /\ UNCHANGED <<now, distributing, tick, owner, phase, clock, batch, alive, entered, expired,
                   queueVars>>

\* DistributeReservedJobs reads the clock ...
ReadClock(t) ==
    /\ phase[t] = "idle" /\ reserving[t] = None
    /\ clock' = [clock EXCEPT ![t] = now]
    /\ phase' = [phase EXCEPT ![t] = "enter"]
    /\ UNCHANGED <<now, items, distributing, tick, owner, reserving, batch, alive, entered,
                   expired, met, queueVars>>

\* ... and Distribute returns if another thread is in it.
DistributeBusy(t) ==
    /\ phase[t] = "enter" /\ distributing
    /\ phase' = [phase EXCEPT ![t] = "idle"]
    /\ UNCHANGED <<now, items, distributing, tick, owner, reserving, clock, batch, alive,
                   entered, expired, met, queueVars>>

\* Mutant of DistributeEnter: every thread passes.
DistributeEnterAny(t) ==
    /\ phase[t] = "enter"
    /\ distributing' = TRUE
    /\ phase' = [phase EXCEPT ![t] = "drain"]
    /\ UNCHANGED <<now, items, tick, owner, reserving, clock, batch, alive, entered, expired,
                   met, queueVars>>

DistributeEnter(t) ==
    /\ phase[t] = "enter" /\ ~distributing
    /\ distributing' = TRUE
    /\ phase' = [phase EXCEPT ![t] = "drain"]
    /\ UNCHANGED <<now, items, tick, owner, reserving, clock, batch, alive, entered, expired,
                   met, queueVars>>

\* Mutant of Drain: the jobs stay in m_items.
DrainCopies(t) == LET due == {j \in items : clock[t] >= tick[j]} IN
    /\ phase[t] = "drain"
    /\ \E s \in Sorted(due) : batch' = [batch EXCEPT ![t] = s]
    /\ phase' = [phase EXCEPT ![t] = "push"]
    /\ UNCHANGED <<now, items, distributing, tick, owner, reserving, clock, alive, entered,
                   expired, met, queueVars>>

\* The block under WRITE_LOCK: what is due moves to the local items, in order.
Drain(t) == LET due == {j \in items : clock[t] >= tick[j]} IN
    /\ phase[t] = "drain"
    /\ \E s \in Sorted(due) : batch' = [batch EXCEPT ![t] = s]
    /\ items' = items \ due
    /\ phase' = [phase EXCEPT ![t] = "push"]
    /\ UNCHANGED <<now, distributing, tick, owner, reserving, clock, alive, entered, expired,
                   met, queueVars>>

\* owner->Push(job), if the owner can be locked; it may have been destroyed
PushNext(t) ==
    /\ phase[t] = "push" /\ reserving[t] = None /\ batch[t] # <<>>
    /\ batch' = [batch EXCEPT ![t] = Tail(@)]

DistributePush(t) == LET j == Head(batch[t]) IN
    /\ PushNext(t)
    /\ owner[j] \in alive
    /\ Queue!Submit(owner[j], j)
    /\ entered' = Append(entered, j)
    /\ UNCHANGED <<now, items, distributing, tick, owner, reserving, phase, clock, alive, expired,
                   met>>

DistributeDrop(t) == LET j == Head(batch[t]) IN
    /\ PushNext(t)
    /\ owner[j] \notin alive
    /\ expired' = expired \cup {j}
    /\ UNCHANGED <<now, items, distributing, tick, owner, reserving, phase, clock, alive, entered,
                   met, queueVars>>

\* Mutant of DistributeLeave: the next thread is not let in.
DistributeLeaveShut(t) ==
    /\ phase[t] = "push" /\ reserving[t] = None /\ batch[t] = <<>>
    /\ phase' = [phase EXCEPT ![t] = "idle"]
    /\ UNCHANGED <<now, items, distributing, tick, owner, reserving, clock, batch, alive,
                   entered, expired, met, queueVars>>

\* m_distributing.store(false)
DistributeLeave(t) ==
    /\ phase[t] = "push" /\ reserving[t] = None /\ batch[t] = <<>>
    /\ distributing' = FALSE
    /\ phase' = [phase EXCEPT ![t] = "idle"]
    /\ UNCHANGED <<now, items, tick, owner, reserving, clock, batch, alive, entered, expired,
                   met, queueVars>>

\* A job of a queue starts or ends.
Serve(q) == Queue!Serve(q) /\ UNCHANGED timerVars

Distribute(t) ==
    \/ ReadClock(t) \/ DistributeBusy(t) \/ DistributeEnter(t)
    \/ Drain(t) \/ DistributePush(t) \/ DistributeDrop(t) \/ DistributeLeave(t)

TimerNext ==
    \/ Tick
    \/ \E t \in Threads :
         \/ \E j \in Jobs, q \in Queues, delay \in Delays : Reserve(t, j, q, delay)
         \/ ReservePush(t) \/ Distribute(t)
    \/ \E q \in Queues : Destroy(q) \/ Serve(q)

TimerSpec == TimerInit /\ [][TimerNext]_allVars

\* Time passes, the workers go round their loop, and queues with work are served
\* (which JobQueue.tla shows).
FairTimerSpec ==
    /\ TimerSpec
    /\ WF_allVars(Tick)
    /\ \A t \in Threads : WF_allVars(ReservePush(t)) /\ WF_allVars(Distribute(t))
    /\ \A q \in Queues : WF_allVars(Serve(q))

-----------------------------------------------------------------------------
(* Properties                                                              *)

\* Every variable has the type its declaration gives it.
TimerTypeOK ==
    /\ now \in Nat /\ distributing \in BOOLEAN
    /\ items \subseteq Jobs /\ expired \subseteq Jobs /\ met \subseteq Jobs \X Jobs
    /\ entered \in Seq(Jobs) /\ alive \subseteq Queues
    /\ tick \in [Jobs -> Nat] /\ owner \in [Jobs -> Queues \cup {None}]
    /\ reserving \in [Threads -> Jobs \cup {None}]
    /\ phase \in [Threads -> {"idle", "enter", "drain", "push"}]
    /\ clock \in [Threads -> Nat] /\ batch \in [Threads -> Seq(Jobs)]
    /\ pending \in [Queues -> Seq(Jobs)] /\ finished \in [Queues -> Seq(Jobs)]
    /\ running \in [Queues -> SUBSET Jobs]

\* A job that was reserved is in one place: on its way into m_items, in it, in
\* the hands of the thread that distributes, pushed once, or dropped because its
\* queue is gone.
Times(j, s) == Cardinality({i \in DOMAIN s : s[i] = j})
In(j, S) == IF j \in S THEN 1 ELSE 0
Holders(j) == {t \in Threads : reserving[t] = j \/ j \in JobsIn(batch[t])}

EachOnce == \A j \in Jobs : owner[j] # None =>
    Cardinality(Holders(j)) + In(j, items) + Times(j, entered) + In(j, expired) = 1

\* Jobs of one queue that waited in m_items together run in the order of their
\* ticks, whichever threads distribute them: this is what m_distributing is for.
RunInOrder == \A q \in Queues, j, k \in Jobs :
    <<j, k>> \in met /\ tick[j] < tick[k] /\ owner[j] = q /\ owner[k] = q =>
        \A i \in DOMAIN finished[q] : finished[q][i] = k =>
            \E h \in 1..(i - 1) : finished[q][h] = j

\* A job whose tick comes is run, unless its queue is gone.
EveryTimerFires == \A j \in Jobs :
    (j \in items /\ tick[j] <= now) ~> (j \in expired \/ \E q \in Queues : j \in JobsIn(finished[q]))
=============================================================================
