--------------------------- MODULE ReentrantLock ---------------------------
(***************************************************************************)
(* What Lock promises to the guards: a re-entrant readers-writer lock.     *)
(* held[t] is the stack of guards that thread t has constructed and not    *)
(* yet destroyed, oldest first; guards are RAII objects, hence a stack.    *)
(***************************************************************************)
EXTENDS Naturals, Sequences

CONSTANTS Threads, MaxDepth

VARIABLE held

Holds(t, mode) == \E i \in DOMAIN held[t] : held[t][i] = mode

Init == held = [t \in Threads |-> <<>>]

Acquire(t, mode) ==
    /\ Len(held[t]) < MaxDepth
    /\ held' = [held EXCEPT ![t] = Append(@, mode)]

\* W -> W is allowed, R -> W is not (Lock.h:14-19); the others hold nothing.
AcquireWrite(t) ==
    /\ ~Holds(t, "R")
    /\ \A u \in Threads \ {t} : held[u] = <<>>
    /\ Acquire(t, "W")

\* W -> R is allowed; nobody else writes.
AcquireRead(t) ==
    /\ \A u \in Threads \ {t} : ~Holds(u, "W")
    /\ Acquire(t, "R")

Release(t) ==
    /\ held[t] # <<>>
    /\ held' = [held EXCEPT ![t] = SubSeq(@, 1, Len(@) - 1)]

Next == \E t \in Threads : AcquireWrite(t) \/ AcquireRead(t) \/ Release(t)

Spec == Init /\ [][Next]_held
=============================================================================
