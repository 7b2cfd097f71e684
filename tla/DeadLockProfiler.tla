-------------------------- MODULE DeadLockProfiler --------------------------
(***************************************************************************)
(* The profiler that every Lock of a debug build calls (DeadLockProfiler.  *)
(* cpp), and the threads that construct and destroy guards.                *)
(*                                                                         *)
(* A Lock is known by the name of the class it is in (CoreMacro.h:13), and *)
(* a name by the number it got when it was first seen.  PushLock records   *)
(* an edge from the number on top of the thread's LLockStack to the new    *)
(* one, and searches the graph for a cycle whenever an edge is new; only   *)
(* then does Lock spin.  m_lock, which only Push and PopLock take, is held *)
(* during the search: pc[t] = "check" says by whom.  The search is the     *)
(* recursion of Dfs with its frames made explicit, one edge at a time.     *)
(*                                                                         *)
(* The Locks themselves are what Lock.tla is shown to implement.           *)
(***************************************************************************)
EXTENDS Integers, Sequences

CONSTANTS
    Threads,
    Locks,
    Guards,         \* the guards that are constructed: a lock, and "R" or "W"
    Names,
    NameOf,         \* typeid(this).name() of the class a lock is a member of
    None,
    MaxDepth        \* bound: the guards a thread has at a time

ASSUME NamesAssumption == NameOf \in [Locks -> Names]
ASSUME GuardsAssumption == Guards \subseteq Locks \X {"R", "W"} /\ None \notin Guards
ASSUME DepthAssumption == MaxDepth \in Nat

VARIABLES
    idToName,       \* m_idToName, and m_nameToId read backwards
    lockHistory,    \* m_lockHistory, as a set of edges
    LLockStack,     \* per thread, the numbers of its guards, oldest first
    discoveredOrder, discoveredCount, finished, parent,
    frames,         \* the calls of Dfs: where each is, and the edges it has yet to try
    root,           \* lockId of the loop in CheckCycle
    now,            \* how far the report of a cycle is; 0: none is printed
    want,           \* the guard a thread is constructing
    held,           \* the guards it has, oldest first
    pc,
    crashed

graphVars == <<idToName, lockHistory>>
dfsVars == <<discoveredOrder, discoveredCount, finished, parent, frames, root, now>>
threadVars == <<want, held, pc>>
vars == <<graphVars, LLockStack, dfsVars, threadVars, crashed>>

Ids == DOMAIN idToName
Top(s) == s[Len(s)]
Pop(s) == SubSeq(s, 1, Len(s) - 1)
Known(name) == \E id \in Ids : idToName[id] = name
IdOf(name) == IF Known(name) THEN CHOOSE id \in Ids : idToName[id] = name ELSE Len(idToName) + 1

Init ==
    /\ idToName = <<>> /\ lockHistory = {}
    /\ LLockStack = [t \in Threads |-> <<>>]
    /\ discoveredOrder = <<>> /\ discoveredCount = 0 /\ finished = {} /\ parent = <<>>
    /\ frames = <<>> /\ root = 1 /\ now = 0
    /\ want = [t \in Threads |-> None]
    /\ held = [t \in Threads |-> <<>>]
    /\ pc = [t \in Threads |-> "run"]
    /\ crashed = "no"

-----------------------------------------------------------------------------
(* PushLock and PopLock, at the start of Lock's four operations            *)

\* The profiler's m_lock can be had.
At(t, where) == pc[t] = where /\ crashed = "no"
Enters(t) == At(t, "run") /\ \A u \in Threads : pc[u] # "check"
Goto(t, where) == pc' = [pc EXCEPT ![t] = where]

\* W -> W, W -> R and R -> R are allowed, R -> W is not (Lock.h:14-19).
MayAsk(t, guard) == guard[2] = "W" => \A i \in DOMAIN held[t] : held[t][i] # <<guard[1], "R">>

\* Mutant of NewEdge: a lock is searched for once, whatever was locked before it.
NewEdgeOnce(t, id) ==
    /\ LLockStack[t] # <<>> /\ Top(LLockStack[t]) # id
    /\ \A e \in lockHistory : e[2] # id

NewEdge(t, id) ==
    /\ LLockStack[t] # <<>> /\ Top(LLockStack[t]) # id
    /\ <<Top(LLockStack[t]), id>> \notin lockHistory

Ask(t, guard) ==
    /\ Enters(t) /\ Len(held[t]) < MaxDepth /\ MayAsk(t, guard)
    /\ want' = [want EXCEPT ![t] = guard]
    /\ idToName' = IF Known(NameOf[guard[1]]) THEN idToName
                   ELSE Append(idToName, NameOf[guard[1]])
    /\ UNCHANGED <<held, crashed>>

\* Mutant of PushLock: a lock that is on top already is not pushed again.
PushLockOnce(t, guard) == LET id == IdOf(NameOf[guard[1]]) IN
    /\ Ask(t, guard) /\ ~NewEdge(t, id)
    /\ LLockStack' = [LLockStack EXCEPT ![t] =
         IF @ # <<>> /\ Top(@) = id THEN @ ELSE Append(@, id)]
    /\ Goto(t, "wait")
    /\ UNCHANGED <<lockHistory, dfsVars>>

\* PushLock, if the case is known already ...
PushLock(t, guard) == LET id == IdOf(NameOf[guard[1]]) IN
    /\ Ask(t, guard) /\ ~NewEdge(t, id)
    /\ LLockStack' = [LLockStack EXCEPT ![t] = Append(@, id)]
    /\ Goto(t, "wait")
    /\ UNCHANGED <<lockHistory, dfsVars>>

\* ... and if it is new, up to the loop of CheckCycle.
PushLockNew(t, guard) == LET id == IdOf(NameOf[guard[1]]) IN
    /\ Ask(t, guard) /\ NewEdge(t, id)
    /\ lockHistory' = lockHistory \cup {<<Top(LLockStack[t]), id>>}
    /\ discoveredOrder' = [i \in DOMAIN idToName' |-> -1]
    /\ parent' = [i \in DOMAIN idToName' |-> -1]
    /\ discoveredCount' = 0 /\ finished' = {} /\ root' = 1
    /\ Goto(t, "check")
    /\ UNCHANGED <<LLockStack, frames, now>>

\* PopLock, with its two assertions
PopLock(t) ==
    /\ Enters(t) /\ held[t] # <<>>
    /\ crashed' = IF LLockStack[t] = <<>> THEN "MULTIPLE_UNLOCK"
                  ELSE IF Top(LLockStack[t]) # IdOf(NameOf[Top(held[t])[1]]) THEN "INVALID_UNLOCK"
                  ELSE "no"
    /\ LLockStack' = [LLockStack EXCEPT ![t] = IF @ = <<>> THEN @ ELSE Pop(@)]
    /\ Goto(t, "unlock")
    /\ UNCHANGED <<graphVars, dfsVars, want, held>>

-----------------------------------------------------------------------------
(* The locks                                                               *)

\* Thread u has a guard that keeps a new one of another thread waiting.
Blocks(u, guard) == \E i \in DOMAIN held[u] :
    held[u][i][1] = guard[1] /\ "W" \in {held[u][i][2], guard[2]}

Acquire(t) ==
    /\ At(t, "wait") /\ \A u \in Threads \ {t} : ~Blocks(u, want[t])
    /\ held' = [held EXCEPT ![t] = Append(@, want[t])]
    /\ want' = [want EXCEPT ![t] = None]
    /\ Goto(t, "run")
    /\ UNCHANGED <<graphVars, LLockStack, dfsVars, crashed>>

Unlock(t) ==
    /\ At(t, "unlock")
    /\ held' = [held EXCEPT ![t] = Pop(@)]
    /\ Goto(t, "run")
    /\ UNCHANGED <<graphVars, LLockStack, dfsVars, want, crashed>>

-----------------------------------------------------------------------------
(* CheckCycle and Dfs                                                      *)

Here == Top(frames).at
Rest == Top(frames).rest
There == CHOOSE id \in Rest : \A other \in Rest : id <= other

Searches(t) == At(t, "check") /\ now = 0

\* The edges out of an id; a set<int32> is walked through in ascending order.
NextSet(id) == {e[2] : e \in {d \in lockHistory : d[1] = id}}
Tried == [frames EXCEPT ![Len(frames)].rest = @ \ {There}]
Call(stack, id) == Append(stack, [at |-> id, rest |-> NextSet(id)])

Discover(id) ==
    /\ discoveredOrder' = [discoveredOrder EXCEPT ![id] = discoveredCount]
    /\ discoveredCount' = discoveredCount + 1

\* Dfs(lockId): a call that returns at once if lockId was discovered
CheckRoot(t) ==
    /\ Searches(t) /\ frames = <<>> /\ root \in Ids /\ discoveredOrder[root] = -1
    /\ Discover(root)
    /\ frames' = Call(frames, root)
    /\ UNCHANGED <<graphVars, LLockStack, finished, parent, root, now, threadVars, crashed>>

\* Mutant of CheckNext: the loop stays where it is.
CheckNextNot(t) ==
    /\ Searches(t) /\ frames = <<>> /\ root \in Ids /\ discoveredOrder[root] # -1
    /\ root' = root
    /\ UNCHANGED <<graphVars, LLockStack, discoveredOrder, discoveredCount, finished, parent,
                   frames, now, threadVars, crashed>>

CheckNext(t) ==
    /\ Searches(t) /\ frames = <<>> /\ root \in Ids /\ discoveredOrder[root] # -1
    /\ root' = root + 1
    /\ UNCHANGED <<graphVars, LLockStack, discoveredOrder, discoveredCount, finished, parent,
                   frames, now, threadVars, crashed>>

\* A lock that was not discovered yet
DfsVisit(t) ==
    /\ Searches(t) /\ frames # <<>> /\ Rest # {} /\ discoveredOrder[There] = -1
    /\ parent' = [parent EXCEPT ![There] = Here]
    /\ Discover(There)
    /\ frames' = Call(Tried, There)
    /\ UNCHANGED <<graphVars, LLockStack, finished, root, now, threadVars, crashed>>

\* A forward edge, or one to a lock whose Dfs has returned
DfsSkip(t) ==
    /\ Searches(t) /\ frames # <<>> /\ Rest # {} /\ discoveredOrder[There] # -1
    /\ discoveredOrder[Here] < discoveredOrder[There] \/ There \in finished
    /\ frames' = Tried
    /\ UNCHANGED <<graphVars, LLockStack, discoveredOrder, discoveredCount, finished, parent,
                   root, now, threadVars, crashed>>

\* A back edge: the cycle is printed along m_parent, and then the process crashes.
DfsBack(t) ==
    /\ Searches(t) /\ frames # <<>> /\ Rest # {} /\ discoveredOrder[There] # -1
    /\ discoveredOrder[Here] >= discoveredOrder[There] /\ There \notin finished
    /\ now' = Here
    /\ UNCHANGED <<graphVars, LLockStack, discoveredOrder, discoveredCount, finished, parent,
                   frames, root, threadVars, crashed>>

DfsReport(t) ==
    /\ At(t, "check") /\ now # 0
    /\ IF parent[now] = -1
       THEN crashed' = "no parent" /\ UNCHANGED now
       ELSE /\ now' = parent[now]
            /\ crashed' = IF parent[now] = There THEN "DEADLOCK_DETECTED" ELSE "no"
    /\ UNCHANGED <<graphVars, LLockStack, discoveredOrder, discoveredCount, finished, parent,
                   frames, root, threadVars>>

\* Mutant of DfsReturn: m_finished is not set.
DfsReturnOpen(t) ==
    /\ Searches(t) /\ frames # <<>> /\ Rest = {}
    /\ frames' = Pop(frames)
    /\ UNCHANGED <<graphVars, LLockStack, discoveredOrder, discoveredCount, finished, parent,
                   root, now, threadVars, crashed>>

DfsReturn(t) ==
    /\ Searches(t) /\ frames # <<>> /\ Rest = {}
    /\ finished' = finished \cup {Here}
    /\ frames' = Pop(frames)
    /\ UNCHANGED <<graphVars, LLockStack, discoveredOrder, discoveredCount, parent,
                   root, now, threadVars, crashed>>

\* CheckCycle and PushLock return.
CheckEnd(t) ==
    /\ Searches(t) /\ frames = <<>> /\ root \notin Ids
    /\ discoveredOrder' = <<>> /\ finished' = {} /\ parent' = <<>>
    /\ LLockStack' = [LLockStack EXCEPT ![t] = Append(@, IdOf(NameOf[want[t][1]]))]
    /\ Goto(t, "wait")
    /\ UNCHANGED <<graphVars, discoveredCount, frames, root, now, want, held, crashed>>

CheckCycle(t) ==
    \/ CheckRoot(t) \/ CheckNext(t) \/ CheckEnd(t)
    \/ DfsVisit(t) \/ DfsSkip(t) \/ DfsBack(t) \/ DfsReport(t) \/ DfsReturn(t)

Next == \E t \in Threads :
    \/ \E guard \in Guards : PushLock(t, guard) \/ PushLockNew(t, guard)
    \/ PopLock(t) \/ Acquire(t) \/ Unlock(t) \/ CheckCycle(t)

Spec == Init /\ [][Next]_vars

\* The thread that searches goes on.
FairSpec == Spec /\ \A t \in Threads : WF_vars(CheckCycle(t))

-----------------------------------------------------------------------------
(* Properties                                                              *)

\* Some locks follow each other round and round.
Cyclic(edges) == \E S \in SUBSET Ids :
    S # {} /\ \A id \in S : \E next \in S : <<id, next>> \in edges

\* What CheckCycle finds, edge by edge, is right: it reports a cycle only if the
\* graph has one, and if it returns the graph has none.
ReportsCycles ==
    /\ now # 0 => Cyclic(lockHistory)
    /\ crashed = "no" /\ (\A t \in Threads : pc[t] # "check") => ~Cyclic(lockHistory)

\* Threads each of which waits for a guard that another of them has, where what the
\* other waits for has another name.
Waiting == {t \in Threads : pc[t] = "wait"}
Deadlocked(W) == \A t \in W : \E u \in W \ {t} :
    Blocks(u, want[t]) /\ Top(LLockStack[u]) # Top(LLockStack[t])

\* No threads wait for each other in a circle unless the profiler has crashed the
\* process: what Lock's spinning cannot tell from a long wait is always reported.
NoSilentDeadlock == crashed = "no" => \A W \in SUBSET Waiting : W # {} => ~Deadlocked(W)

\* As long as guards are destroyed newest first PopLock finds the lock it is told,
\* and the report of a cycle finds its way back along m_parent.
NoFalseCrash == crashed \in {"no", "DEADLOCK_DETECTED"}

\* PushLock returns or reports: the search ends, and so does the report.
EveryCheckEnds == \A t \in Threads : pc[t] = "check" ~> pc[t] # "check" \/ crashed # "no"
=============================================================================
