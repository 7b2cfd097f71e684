---------------------------- MODULE SerialQueue ----------------------------
(***************************************************************************)
(* What JobQueue promises to its clients, with no thread, counter or lock  *)
(* in sight: every queue is a single-threaded server.  A submitted job     *)
(* waits in line, at most one job of a queue runs at a time, jobs of one   *)
(* queue run in the order in which they were submitted, each exactly once. *)
(* Room is written against this promise (its members take no lock).        *)
(***************************************************************************)
EXTENDS Sequences

CONSTANTS Queues, Jobs

VARIABLES
    pending,    \* per queue, the jobs submitted and not started
    running,    \* per queue, the jobs that are running
    finished    \* per queue, the jobs that have run, in order

vars == <<pending, running, finished>>

JobsIn(s) == {s[i] : i \in DOMAIN s}

Known(j) == \E q \in Queues :
    j \in JobsIn(pending[q]) \cup running[q] \cup JobsIn(finished[q])

Init ==
    /\ pending = [q \in Queues |-> <<>>]
    /\ running = [q \in Queues |-> {}]
    /\ finished = [q \in Queues |-> <<>>]

Submit(q, j) ==
    /\ ~Known(j)
    /\ pending' = [pending EXCEPT ![q] = Append(@, j)]
    /\ UNCHANGED <<running, finished>>

Start(q) ==
    /\ running[q] = {}
    /\ pending[q] # <<>>
    /\ running' = [running EXCEPT ![q] = {Head(pending[q])}]
    /\ pending' = [pending EXCEPT ![q] = Tail(@)]
    /\ UNCHANGED finished

Finish(q) == \E j \in running[q] :
    /\ running' = [running EXCEPT ![q] = {}]
    /\ finished' = [finished EXCEPT ![q] = Append(@, j)]
    /\ UNCHANGED pending

Serve(q) == Start(q) \/ Finish(q)

Next == \E q \in Queues : Serve(q) \/ \E j \in Jobs : Submit(q, j)

Spec == Init /\ [][Next]_vars
=============================================================================
