----------------------------- MODULE SendQueue -----------------------------
(***************************************************************************)
(* What the sending half of a Session promises, with no thread, flag or    *)
(* lock in sight: messages wait in a line and go to the system in batches  *)
(* from its front, one batch at a time, whose messages stay where they are *)
(* until the system is done with it.  A batch that the system refuses is   *)
(* lost, and nothing else is.                                              *)
(***************************************************************************)
EXTENDS Naturals, Sequences

CONSTANT Messages

VARIABLES
    queue,      \* the messages that wait, oldest first
    inFlight,   \* the batch the system has
    wire,       \* all that it has accepted
    lost        \* all that it has refused

vars == <<queue, inFlight, wire, lost>>

Elements(s) == {s[i] : i \in DOMAIN s}
Front(n) == SubSeq(queue, 1, n)
Rest(n) == SubSeq(queue, n + 1, Len(queue))

Init == queue = <<>> /\ inFlight = <<>> /\ wire = <<>> /\ lost = {}

Put(m) ==
    /\ m \notin Elements(queue) \cup Elements(wire) \cup lost
    /\ queue' = Append(queue, m)
    /\ UNCHANGED <<inFlight, wire, lost>>

Transmit(n) ==
    /\ inFlight = <<>>
    /\ inFlight' = Front(n) /\ queue' = Rest(n)
    /\ wire' = wire \o Front(n)
    /\ UNCHANGED lost

Lose(n) ==
    /\ inFlight = <<>>
    /\ queue' = Rest(n)
    /\ lost' = lost \cup Elements(Front(n))
    /\ UNCHANGED <<inFlight, wire>>

Complete ==
    /\ inFlight # <<>>
    /\ inFlight' = <<>>
    /\ UNCHANGED <<queue, wire, lost>>

Next ==
    \/ \E m \in Messages : Put(m)
    \/ \E n \in 1..Len(queue) : Transmit(n) \/ Lose(n)
    \/ Complete

Spec == Init /\ [][Next]_vars
=============================================================================
