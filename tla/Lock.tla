------------------------------- MODULE Lock -------------------------------
(***************************************************************************)
(* ServerCore's re-entrant readers-writer spin lock, Lock.h and Lock.cpp,  *)
(* used through its RAII guards.  m_lockFlag packs the id of the writing   *)
(* thread (high 16 bits) and the number of read locks (low 16 bits); every *)
(* operation on it is one atomic access.  A thread that already owns the   *)
(* lock for writing re-enters without contention.                          *)
(*                                                                         *)
(* Thread ids are 1, 2, ... (InitTLS), distinct in 16 bits; MaxDepth keeps *)
(* both counters far from 2^16.                                            *)
(***************************************************************************)
EXTENDS Integers, Sequences, FiniteSets

CONSTANTS
    Threads,
    None,       \* an empty owner field
    MaxDepth    \* bound: guards one thread holds at once

ASSUME LockThreadsAssumption == IsFiniteSet(Threads) /\ None \notin Threads
ASSUME DepthAssumption == MaxDepth \in Nat

VARIABLES
    lockFlag,       \* m_lockFlag: [owner, readers]
    writeCount,     \* m_writeCount
    pc,             \* where each thread is inside Lock
    expected,       \* per thread, the local of ReadLock's spin loop
    held,           \* per thread, the guards it holds, oldest first
    crashed         \* the cause of CRASH, or "no"

vars == <<lockFlag, writeCount, pc, expected, held, crashed>>

EMPTY_FLAG == [owner |-> None, readers |-> 0]

Holds(t, mode) == \E i \in DOMAIN held[t] : held[t][i] = mode
Newest(t) == held[t][Len(held[t])]

Push(t, mode) == held' = [held EXCEPT ![t] = Append(@, mode)]
Pop(t) == held' = [held EXCEPT ![t] = SubSeq(@, 1, Len(@) - 1)]

\* A thread between two calls of the lock, allowed to take one guard more.
Free(t) == pc[t] = "idle" /\ crashed = "no"
MayAcquire(t) == Free(t) /\ Len(held[t]) < MaxDepth

Goto(t, where) == pc' = [pc EXCEPT ![t] = where]

-----------------------------------------------------------------------------
Init ==
    /\ lockFlag = EMPTY_FLAG
    /\ writeCount = 0
    /\ pc = [t \in Threads |-> "idle"]
    /\ expected = [t \in Threads |-> 0]
    /\ held = [t \in Threads |-> <<>>]
    /\ crashed = "no"

(* WriteLock.  A thread that holds a read guard must not call it: R -> W   *)
(* is marked X in Lock.h.                                                  *)

WriteLockAgain(t) ==
    /\ MayAcquire(t) /\ ~Holds(t, "R")
    /\ lockFlag.owner = t
    /\ writeCount' = writeCount + 1
    /\ Push(t, "W")
    /\ UNCHANGED <<lockFlag, pc, expected, crashed>>

WriteLockEnter(t) ==
    /\ MayAcquire(t) /\ ~Holds(t, "R")
    /\ lockFlag.owner # t
    /\ Goto(t, "writeSpin")
    /\ UNCHANGED <<lockFlag, writeCount, expected, held, crashed>>

\* compare_exchange_strong(EMPTY_FLAG, LThreadId << 16) succeeds ...
WriteLockCas(t) ==
    /\ pc[t] = "writeSpin" /\ crashed = "no"
    /\ lockFlag = EMPTY_FLAG
    /\ lockFlag' = [owner |-> t, readers |-> 0]
    /\ Goto(t, "writeGot")
    /\ UNCHANGED <<writeCount, expected, held, crashed>>

\* ... and m_writeCount++ completes the guard.
WriteLockCount(t) ==
    /\ pc[t] = "writeGot" /\ crashed = "no"
    /\ writeCount' = writeCount + 1
    /\ Push(t, "W")
    /\ Goto(t, "idle")
    /\ UNCHANGED <<lockFlag, expected, crashed>>

(* ReadLock *)

\* Mutant of ReadLockAgain: the owner's read lock is not counted.
ReadLockAgainUncounted(t) ==
    /\ MayAcquire(t)
    /\ lockFlag.owner = t
    /\ Push(t, "R")
    /\ UNCHANGED <<lockFlag, writeCount, pc, expected, crashed>>

ReadLockAgain(t) ==
    /\ MayAcquire(t)
    /\ lockFlag.owner = t
    /\ lockFlag' = [lockFlag EXCEPT !.readers = @ + 1]
    /\ Push(t, "R")
    /\ UNCHANGED <<writeCount, pc, expected, crashed>>

ReadLockEnter(t) ==
    /\ MayAcquire(t)
    /\ lockFlag.owner # t
    /\ Goto(t, "readSpin")
    /\ UNCHANGED <<lockFlag, writeCount, expected, held, crashed>>

\* expected = m_lockFlag.load() & READ_COUNT_MASK: the owner is masked out
ReadLockLoad(t) ==
    /\ pc[t] = "readSpin" /\ crashed = "no"
    /\ expected' = [expected EXCEPT ![t] = lockFlag.readers]
    /\ Goto(t, "readCas")
    /\ UNCHANGED <<lockFlag, writeCount, held, crashed>>

\* Mutant of ReadLockCas: the owner is masked out of the comparison, too.
ReadLockCasMasked(t) ==
    /\ pc[t] = "readCas" /\ crashed = "no"
    /\ lockFlag.readers = expected[t]
    /\ lockFlag' = [lockFlag EXCEPT !.readers = expected[t] + 1]
    /\ Push(t, "R")
    /\ Goto(t, "idle")
    /\ UNCHANGED <<writeCount, expected, crashed>>

\* compare_exchange_strong(expected, expected + 1)
ReadLockCas(t) ==
    /\ pc[t] = "readCas" /\ crashed = "no"
    /\ lockFlag = [owner |-> None, readers |-> expected[t]]
    /\ lockFlag' = [lockFlag EXCEPT !.readers = expected[t] + 1]
    /\ Push(t, "R")
    /\ Goto(t, "idle")
    /\ UNCHANGED <<writeCount, expected, crashed>>

\* Mutant of ReadLockRetry: the flag is not loaded again.
ReadLockRetryStale(t) ==
    /\ pc[t] = "readCas" /\ crashed = "no"
    /\ lockFlag # [owner |-> None, readers |-> expected[t]]
    /\ UNCHANGED vars

ReadLockRetry(t) ==
    /\ pc[t] = "readCas" /\ crashed = "no"
    /\ lockFlag # [owner |-> None, readers |-> expected[t]]
    /\ Goto(t, "readSpin")
    /\ UNCHANGED <<lockFlag, writeCount, expected, held, crashed>>

(* ACQUIRE_TIMEOUT_TICK has passed in either spin loop. *)
LockTimeout(t) ==
    /\ pc[t] \in {"writeSpin", "readSpin"} /\ crashed = "no"
    /\ crashed' = "LOCK_TIMEOUT"
    /\ UNCHANGED <<lockFlag, writeCount, pc, expected, held>>

(* The destructor of the newest guard.  CRASH stops the process: what else  *)
(* the step that crashes would have done does not matter.                  *)

\* Mutant of WriteUnlock: every unlock stores EMPTY_FLAG, not the last one.
WriteUnlockFirst(t) ==
    /\ Free(t) /\ held[t] # <<>> /\ Newest(t) = "W"
    /\ crashed' = IF lockFlag.readers # 0 THEN "INVALID_UNLOCK_ORDER" ELSE crashed
    /\ writeCount' = writeCount - 1
    /\ Pop(t)
    /\ Goto(t, "writeStore")
    /\ UNCHANGED <<lockFlag, expected>>

\* WriteUnlock: the read count is checked, the guard counted out ...
WriteUnlock(t) ==
    /\ Free(t) /\ held[t] # <<>> /\ Newest(t) = "W"
    /\ crashed' = IF lockFlag.readers # 0 THEN "INVALID_UNLOCK_ORDER" ELSE crashed
    /\ writeCount' = writeCount - 1
    /\ Pop(t)
    /\ Goto(t, IF writeCount - 1 = 0 THEN "writeStore" ELSE "idle")
    /\ UNCHANGED <<lockFlag, expected>>

\* ... and the last one stores EMPTY_FLAG.
WriteUnlockStore(t) ==
    /\ pc[t] = "writeStore" /\ crashed = "no"
    /\ lockFlag' = EMPTY_FLAG
    /\ Goto(t, "idle")
    /\ UNCHANGED <<writeCount, expected, held, crashed>>

\* ReadUnlock: fetch_sub(1), a crash if the count was already 0
ReadUnlock(t) ==
    /\ Free(t) /\ held[t] # <<>> /\ Newest(t) = "R"
    /\ lockFlag' = [lockFlag EXCEPT !.readers = @ - 1]
    /\ crashed' = IF lockFlag.readers = 0 THEN "MULTIPLE_UNLOCK" ELSE crashed
    /\ Pop(t)
    /\ UNCHANGED <<writeCount, pc, expected>>

Acquire(t) ==
    \/ WriteLockAgain(t) \/ WriteLockEnter(t)
    \/ ReadLockAgain(t) \/ ReadLockEnter(t)

Spin(t) ==
    \/ WriteLockCas(t) \/ WriteLockCount(t)
    \/ ReadLockLoad(t) \/ ReadLockCas(t) \/ ReadLockRetry(t)

Unlock(t) ==
    WriteUnlock(t) \/ WriteUnlockStore(t) \/ ReadUnlock(t)

Next == \E t \in Threads : Acquire(t) \/ Spin(t) \/ Unlock(t) \/ LockTimeout(t)

Spec == Init /\ [][Next]_vars

\* A thread inside Lock keeps going, and a guard's scope ends (RAII).  Nothing
\* is assumed of LockTimeout or of threads that hold nothing.
FairSpec ==
    /\ Spec
    /\ \A t \in Threads : WF_vars(Spin(t)) /\ WF_vars(Unlock(t))

-----------------------------------------------------------------------------
(* Properties                                                              *)

Waiting == {"writeSpin", "readSpin", "readCas"}

\* Every variable has its type.
TypeOK ==
    /\ lockFlag \in [owner : Threads \cup {None}, readers : Nat]
    /\ writeCount \in Int
    /\ pc \in [Threads -> Waiting \cup {"idle", "writeGot", "writeStore"}]
    /\ expected \in [Threads -> Nat]
    /\ held \in [Threads -> Seq({"R", "W"})]
    /\ crashed \in {"no", "LOCK_TIMEOUT", "INVALID_UNLOCK_ORDER", "MULTIPLE_UNLOCK"}

\* While a thread holds a write guard no other thread holds any guard.
Exclusion == \A t, u \in Threads :
    Holds(t, "W") /\ u # t => held[u] = <<>>

\* The guards of one mode that are alive.
Guards(mode) == {g \in Threads \X (1..MaxDepth) :
                   g[2] \in DOMAIN held[g[1]] /\ held[g[1]][g[2]] = mode}

\* m_lockFlag and m_writeCount count the guards that are alive; the flag names
\* a thread exactly while that thread writes or is entering or leaving.
CountsGuards ==
    /\ lockFlag.readers = Cardinality(Guards("R"))
    /\ writeCount = Cardinality(Guards("W"))
    /\ \A t \in Threads :
         lockFlag.owner = t <=> Holds(t, "W") \/ pc[t] \in {"writeGot", "writeStore"}

\* Threads that use guards and keep R -> W out never reach the CRASH of either
\* unlock: neither a read guard outlives the write guard around it nor is the
\* read count taken below 0.
NoInvalidUnlock == crashed \notin {"INVALID_UNLOCK_ORDER", "MULTIPLE_UNLOCK"}

\* The threads are never all spinning on the lock for good, whatever guards
\* they hold: one of them gets through, unless the process crashed.
NeverAllStuck ==
    (\A t \in Threads : pc[t] \in Waiting)
        ~> (crashed # "no" \/ \E t \in Threads : pc[t] \notin Waiting)

Reentrant == INSTANCE ReentrantLock

\* To its guards the spin lock is a re-entrant readers-writer lock.
ImplementsReentrantLock == Reentrant!Spec
=============================================================================
