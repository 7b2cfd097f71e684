----------------------------- MODULE MCGameRoom -----------------------------
(* Instances of GameRoom and its clients for TLC. *)
EXTENDS DummyClient

\* One call, of one client: the others are like it.
OneRefused == LET clumsy == CHOOSE s \in Clients : TRUE IN
    [s \in Clients |-> IF s = clumsy THEN 1 ELSE 0]
=============================================================================
