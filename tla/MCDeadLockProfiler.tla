------------------------ MODULE MCDeadLockProfiler ------------------------
(* Instances of DeadLockProfiler for TLC. *)
EXTENDS DeadLockProfiler

CONSTANTS s1, s2, service, manager

\* Two sessions, whose locks have one name, and two other objects.
ClassOf == [lock \in Locks |->
    CASE lock \in {s1, s2} -> "Session" [] lock = service -> "Service" [] lock = manager -> "Manager"]

\* READ_LOCK is used nowhere.
Writers == {<<lock, "W">> : lock \in Locks}
=============================================================================
