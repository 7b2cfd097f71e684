----------------------------- MODULE SessionLife -----------------------------
(***************************************************************************)
(* The life of sessions between the Listener or Connect, the Service, the  *)
(* completion port and the workers (Session.cpp, Listener.cpp,             *)
(* Service.cpp, IocpCore.cpp).  A session lives as long as a shared_ptr    *)
(* does: in the m_owner of one of its events, in Service::m_sessions, in   *)
(* GameSessionManager, in an AcceptEvent, or on the stack of a thread.     *)
(*                                                                         *)
(* todo[t] lists what thread t still has to do in the calls it is in,      *)
(* innermost first, for the session at[t].  What a receive or a send       *)
(* carries, and m_sendQueue, are left to PacketRecv and SessionSend.       *)
(***************************************************************************)
EXTENDS Integers, Sequences, FiniteSets, Functions

CONSTANTS
    Threads,        \* workers, and others that send
    Sessions,       \* bound: the sessions there is memory for at a time
    AcceptEvents,   \* a server's m_acceptEvents
    None

ASSUME NoneIsNull == None \notin Threads \cup Sessions \cup AcceptEvents

VARIABLES
    type,           \* m_type of the Service: "Server" or "Client"
    connected,      \* m_connected
    sendRegistered, \* m_sendRegistered
    op,             \* what the system does with each event
    owned,          \* the events whose m_owner is set
    sessions,       \* Service::m_sessions
    manager,        \* GameSessionManager::m_sessions
    acceptOp, acceptSession,    \* of each AcceptEvent
    lock,           \* the Service's lock, while Broadcast holds it
    hold,           \* the sessions that a thread's local variables refer to
    at,             \* the session a thread is at
    accepting,      \* the AcceptEvent it was given
    todo,           \* what it still has to do
    rest,           \* the sessions its Broadcast has not come to
    unstarted,      \* a client's sessions that Start has not come to
    deaf, stranded, \* history: the sessions whose WSARecv failed with no Disconnect,
                    \* and those whose DisconnectEx failed
    failed          \* "assert": ReleaseSession's; "reused": an event still in use;
                    \* "start": the assertion that Start succeeds

sessionVars == <<connected, sendRegistered, deaf, stranded>>
eventVars == <<op, owned>>
acceptVars == <<acceptOp, acceptSession>>
serviceVars == <<type, sessions, manager, lock, unstarted>>
threadVars == <<hold, at, accepting>>
vars == <<sessionVars, eventVars, acceptVars, serviceVars, threadVars, todo, rest, failed>>

Event == {"connect", "recv", "send", "disconnect"}

\* Somebody has a shared_ptr to s.
Exists(s) ==
    \/ owned[s] # {}
    \/ s \in sessions \cup manager \cup unstarted
    \/ \E a \in AcceptEvents : acceptSession[a] = s
    \/ \E t \in Threads : s \in hold[t]

Idle(t) == todo[t] = <<>> /\ hold[t] = {}
Does(t, step) == todo[t] # <<>> /\ Head(todo[t]) = step /\ failed = "no"

\* The thread has done its step and goes on with the given ones.
Then(t, steps) == todo' = [todo EXCEPT ![t] = steps \o Tail(@)]

\* The thread enters a call for session s.  Threads are launched when Start is done.
Enter(t, s, steps) ==
    /\ Idle(t) /\ unstarted = {} /\ failed = "no"
    /\ todo' = [todo EXCEPT ![t] = steps]
    /\ at' = [at EXCEPT ![t] = s]

Init ==
    /\ type \in {"Server", "Client"}
    /\ connected = [s \in Sessions |-> FALSE]
    /\ sendRegistered = [s \in Sessions |-> FALSE]
    /\ op = [s \in Sessions |-> [e \in Event |-> "none"]]
    /\ owned = [s \in Sessions |-> {}]
    /\ sessions = {} /\ manager = {}
    /\ IF type = "Server"
       THEN /\ acceptOp = [a \in AcceptEvents |-> "posted"]
            /\ acceptSession \in {f \in [AcceptEvents -> Sessions] : IsInjective(f)}
            /\ unstarted = {}
       ELSE /\ acceptOp = [a \in AcceptEvents |-> "none"]
            /\ acceptSession = [a \in AcceptEvents |-> None]
            /\ unstarted = Sessions
    /\ lock = None
    /\ hold = [t \in Threads |-> {}]
    /\ at = [t \in Threads |-> None]
    /\ accepting = [t \in Threads |-> None]
    /\ todo = [t \in Threads |-> <<>>]
    /\ rest = [t \in Threads |-> {}]
    /\ deaf = {} /\ stranded = {}
    /\ failed = "no"

-----------------------------------------------------------------------------
(* The system: an operation ends, with success or not                      *)

Complete(s, e) ==
    /\ op[s][e] = "posted"
    /\ op' = [op EXCEPT ![s][e] = "done"]
    /\ UNCHANGED <<sessionVars, acceptVars, serviceVars, threadVars, owned, todo,
                   rest, failed>>

CompleteAccept(a) ==
    /\ acceptOp[a] = "posted"
    /\ acceptOp' = [acceptOp EXCEPT ![a] = "done"]
    /\ UNCHANGED <<sessionVars, eventVars, serviceVars, threadVars, acceptSession,
                   todo, rest, failed>>

\* A worker takes it from the port and copies m_owner.
Take(t, s, e, steps) ==
    /\ op[s][e] = "done"
    /\ Enter(t, s, steps)
    /\ op' = [op EXCEPT ![s][e] = "none"]
    /\ hold' = [hold EXCEPT ![t] = {s}]
    /\ owned' = [owned EXCEPT ![s] = @ \ {e}]

-----------------------------------------------------------------------------
(* Connecting                                                              *)

\* ClientService::Start and RegisterConnect ...
Connect(s) ==
    /\ s \in unstarted /\ failed = "no"
    /\ unstarted' = unstarted \ {s}
    /\ owned' = [owned EXCEPT ![s] = {"connect"}]
    /\ op' = [op EXCEPT ![s]["connect"] = "posted"]
    /\ UNCHANGED <<sessionVars, acceptVars, threadVars, type, sessions, manager, lock,
                   todo, rest, failed>>

\* ... in which something fails at once: Start gives up, and the process with it.
ConnectFail(s) ==
    /\ s \in unstarted /\ failed = "no"
    /\ failed' = "start"
    /\ unstarted' = unstarted \ {s}
    /\ UNCHANGED <<sessionVars, eventVars, acceptVars, threadVars, type, sessions, manager,
                   lock, todo, rest>>

\* The completion of ConnectEx; IocpCore dispatches one that failed, too.
DispatchConnect(t, s) ==
    /\ Take(t, s, "connect", <<"connect">>)
    /\ UNCHANGED <<sessionVars, acceptVars, serviceVars, accepting, rest, failed>>

\* Mutant of ProcessAccept: a socket that cannot be used is given up.
ProcessAcceptGivesUp(t, a, steps) ==
    /\ acceptOp[a] = "done"
    /\ steps \in {<<"connect", "registerAccept">>, <<"registerAccept">>}
    /\ Enter(t, acceptSession[a], IF Len(steps) = 2 THEN steps ELSE <<>>)
    /\ acceptOp' = [acceptOp EXCEPT ![a] = "none"]
    /\ hold' = [hold EXCEPT ![t] = {acceptSession[a]}]
    /\ accepting' = IF Len(steps) = 2 THEN [accepting EXCEPT ![t] = a] ELSE accepting
    /\ UNCHANGED <<sessionVars, eventVars, serviceVars, acceptSession, rest, failed>>

\* Listener::ProcessAccept, if the accepted socket can be used or if not
ProcessAccept(t, a, steps) ==
    /\ acceptOp[a] = "done"
    /\ steps \in {<<"connect", "registerAccept">>, <<"registerAccept">>}
    /\ Enter(t, acceptSession[a], steps)
    /\ acceptOp' = [acceptOp EXCEPT ![a] = "none"]
    /\ hold' = [hold EXCEPT ![t] = {acceptSession[a]}]
    /\ accepting' = [accepting EXCEPT ![t] = a]
    /\ UNCHANGED <<sessionVars, eventVars, serviceVars, acceptSession, rest, failed>>

\* RegisterAccept with a new session; if AcceptEx fails it calls itself, and
\* the session stays in its frame until the innermost call succeeds.
RegisterAccept(t, s, posted) == LET a == accepting[t] IN
    /\ Does(t, "registerAccept")
    /\ ~Exists(s)
    /\ connected' = [connected EXCEPT ![s] = FALSE]
    /\ sendRegistered' = [sendRegistered EXCEPT ![s] = FALSE]
    /\ deaf' = deaf \ {s} /\ stranded' = stranded \ {s}
    /\ acceptSession' = [acceptSession EXCEPT ![a] = s]
    /\ IF posted
       THEN /\ Then(t, <<>>)
            /\ acceptOp' = [acceptOp EXCEPT ![a] = "posted"]
            /\ accepting' = [accepting EXCEPT ![t] = None]
            /\ UNCHANGED hold
       ELSE /\ hold' = [hold EXCEPT ![t] = @ \cup {s}]
            /\ UNCHANGED <<todo, acceptOp, accepting>>
    /\ UNCHANGED <<eventVars, serviceVars, at, rest, failed>>

\* ProcessConnect; AddSession; OnConnected; RegisterRecv
ProcessConnect(t) ==
    /\ Does(t, "connect")
    /\ connected' = [connected EXCEPT ![at[t]] = TRUE]
    /\ Then(t, <<"add", "onConnected", "recv">>)
    /\ UNCHANGED <<eventVars, acceptVars, serviceVars, threadVars, sendRegistered,
                   rest, deaf, failed, stranded>>

AddSession(t) ==
    /\ Does(t, "add") /\ lock = None
    /\ sessions' = sessions \cup {at[t]}
    /\ Then(t, <<>>)
    /\ UNCHANGED <<sessionVars, eventVars, acceptVars, threadVars, type, manager,
                   lock, rest, unstarted, failed>>

\* GameSession enters the manager, ServerSession sends a login.
OnConnected(t) ==
    /\ Does(t, "onConnected")
    /\ IF type = "Server"
       THEN manager' = manager \cup {at[t]} /\ Then(t, <<>>)
       ELSE Then(t, <<"send">>) /\ UNCHANGED manager
    /\ UNCHANGED <<sessionVars, eventVars, acceptVars, threadVars, type, sessions,
                   lock, rest, unstarted, failed>>

\* The thread is out of all calls and drops its references.
Return(t) ==
    /\ todo[t] = <<>> /\ hold[t] # {}
    /\ hold' = [hold EXCEPT ![t] = {}]
    /\ at' = [at EXCEPT ![t] = None]
    /\ UNCHANGED <<sessionVars, eventVars, acceptVars, serviceVars, accepting, todo,
                   rest, failed>>

-----------------------------------------------------------------------------
(* Receiving, sending and disconnecting                                    *)

\* RegisterRecv: nothing, if the session is not connected ...
RegisterRecv(t) ==
    /\ Does(t, "recv")
    /\ Then(t, IF connected[at[t]] THEN <<"postRecv">> ELSE <<>>)
    /\ UNCHANGED <<sessionVars, eventVars, acceptVars, serviceVars, threadVars, rest,
                   failed>>

\* The event is initialised and given to the system with a reference of its own.
Post(s, e) ==
    /\ failed' = IF op[s][e] = "none" THEN "no" ELSE "reused"
    /\ op' = [op EXCEPT ![s][e] = "posted"]
    /\ owned' = [owned EXCEPT ![s] = @ \cup {e}]

\* ... or WSARecv, which may fail at once; HandleError disconnects or not.
PostRecv(t) ==
    /\ Does(t, "postRecv")
    /\ Post(at[t], "recv")
    /\ Then(t, <<>>)
    /\ UNCHANGED <<sessionVars, acceptVars, serviceVars, threadVars, rest>>

Error == {"reset", "other"}
OnError(error) == IF error = "reset" THEN <<"disconnect">> ELSE <<>>

PostRecvFail(t, error) ==
    /\ Does(t, "postRecv")
    /\ deaf' = IF error = "reset" THEN deaf ELSE deaf \cup {at[t]}
    /\ owned' = [owned EXCEPT ![at[t]] = @ \cup {"recv"}]
    /\ Then(t, OnError(error) \o <<"releaseRecv">>)
    /\ UNCHANGED <<acceptVars, serviceVars, threadVars, connected, sendRegistered, op,
                   rest, failed, stranded>>

\* Mutant of ReleaseRecv: the reference is not taken back.
ReleaseRecvNot(t) ==
    /\ Does(t, "releaseRecv")
    /\ Then(t, <<>>)
    /\ UNCHANGED <<sessionVars, eventVars, acceptVars, serviceVars, threadVars, rest, failed>>

\* m_recvEvent.m_owner = nullptr
ReleaseRecv(t) ==
    /\ Does(t, "releaseRecv")
    /\ owned' = [owned EXCEPT ![at[t]] = @ \ {"recv"}]
    /\ Then(t, <<>>)
    /\ UNCHANGED <<sessionVars, acceptVars, serviceVars, threadVars, op, rest,
                   failed>>

\* ProcessRecv: of nothing, or of bytes that OnRecv handles
ProcessRecv(t, s, bytes) ==
    /\ Take(t, s, "recv", IF bytes THEN <<"recv">> ELSE <<"disconnect">>)
    /\ UNCHANGED <<sessionVars, acceptVars, serviceVars, accepting, rest, failed>>

\* A thread sends on a session that the application knows.
StartSend(t, s) ==
    /\ s \in manager
    /\ Enter(t, s, <<"send">>)
    /\ hold' = [hold EXCEPT ![t] = {s}]
    /\ UNCHANGED <<sessionVars, eventVars, acceptVars, serviceVars, accepting, rest,
                   failed>>

\* Service::Broadcast, which has no reference to the sessions but the Service's
\* own and keeps its lock from the first to the last ...
Broadcast(t) ==
    /\ type = "Client" /\ lock = None
    /\ Enter(t, None, <<"broadcast">>)
    /\ lock' = t
    /\ rest' = [rest EXCEPT ![t] = sessions]
    /\ UNCHANGED <<sessionVars, eventVars, acceptVars, type, sessions, manager, hold,
                   accepting, unstarted, failed>>

BroadcastSend(t, s) ==
    /\ Does(t, "broadcast") /\ s \in rest[t]
    /\ rest' = [rest EXCEPT ![t] = @ \ {s}]
    /\ at' = [at EXCEPT ![t] = s]
    /\ Then(t, <<"send", "broadcast">>)
    /\ UNCHANGED <<sessionVars, eventVars, acceptVars, serviceVars, hold, accepting,
                   failed>>

\* ... and then unlocks it.
BroadcastEnd(t) ==
    /\ Does(t, "broadcast") /\ rest[t] = {}
    /\ lock' = None
    /\ at' = [at EXCEPT ![t] = None]
    /\ Then(t, <<>>)
    /\ UNCHANGED <<sessionVars, eventVars, acceptVars, type, sessions, manager, hold,
                   accepting, rest, unstarted, failed>>

\* Send, up to the call of RegisterSend
Send(t) == LET s == at[t] IN
    /\ Does(t, "send")
    /\ sendRegistered' = [sendRegistered EXCEPT ![s] = @ \/ connected[s]]
    /\ Then(t, IF connected[s] /\ ~sendRegistered[s] THEN <<"registerSend">> ELSE <<>>)
    /\ UNCHANGED <<eventVars, acceptVars, serviceVars, threadVars, connected, rest,
                   deaf, failed, stranded>>

\* RegisterSend, up to the call of WSASend, which may fail at once
RegisterSend(t) ==
    /\ Does(t, "registerSend")
    /\ Then(t, IF connected[at[t]] THEN <<"postSend">> ELSE <<>>)
    /\ UNCHANGED <<sessionVars, eventVars, acceptVars, serviceVars, threadVars, rest,
                   failed>>

PostSend(t) ==
    /\ Does(t, "postSend")
    /\ Post(at[t], "send")
    /\ Then(t, <<>>)
    /\ UNCHANGED <<sessionVars, acceptVars, serviceVars, threadVars, rest>>

\* Mutant of PostSendFail: the flag is reset before the event is let go.
PostSendFailFirst(t, error) ==
    /\ Does(t, "postSend")
    /\ owned' = [owned EXCEPT ![at[t]] = @ \cup {"send"}]
    /\ Then(t, OnError(error) \o <<"unregisterSend", "releaseSend">>)
    /\ UNCHANGED <<sessionVars, acceptVars, serviceVars, threadVars, op, rest,
                   failed>>

PostSendFail(t, error) ==
    /\ Does(t, "postSend")
    /\ owned' = [owned EXCEPT ![at[t]] = @ \cup {"send"}]
    /\ Then(t, OnError(error) \o <<"releaseSend", "unregisterSend">>)
    /\ UNCHANGED <<sessionVars, acceptVars, serviceVars, threadVars, op, rest,
                   failed>>

\* m_sendEvent.m_owner = nullptr
ReleaseSend(t) ==
    /\ Does(t, "releaseSend")
    /\ owned' = [owned EXCEPT ![at[t]] = @ \ {"send"}]
    /\ Then(t, <<>>)
    /\ UNCHANGED <<sessionVars, acceptVars, serviceVars, threadVars, op, rest,
                   failed>>

\* m_sendRegistered.store(false), here or in ProcessSend
UnregisterSend(t) ==
    /\ Does(t, "unregisterSend")
    /\ sendRegistered' = [sendRegistered EXCEPT ![at[t]] = FALSE]
    /\ Then(t, <<>>)
    /\ UNCHANGED <<eventVars, acceptVars, serviceVars, threadVars, connected, rest,
                   deaf, failed, stranded>>

\* ProcessSend: of nothing, or with m_sendQueue found empty or not
ProcessSend(t, s, steps) ==
    /\ steps \in {<<"disconnect">>, <<"unregisterSend">>, <<"registerSend">>}
    /\ Take(t, s, "send", steps)
    /\ UNCHANGED <<sessionVars, acceptVars, serviceVars, accepting, rest, failed>>

\* Mutant of Disconnect: m_connected is looked at and set by whoever comes.
DisconnectAlways(t) ==
    /\ Does(t, "disconnect")
    /\ connected' = [connected EXCEPT ![at[t]] = FALSE]
    /\ Then(t, <<"registerDisconnect">>)
    /\ UNCHANGED <<eventVars, acceptVars, serviceVars, threadVars, sendRegistered,
                   rest, deaf, failed, stranded>>

\* m_connected.exchange(false) lets one caller of Disconnect through.
Disconnect(t) == LET s == at[t] IN
    /\ Does(t, "disconnect")
    /\ connected' = [connected EXCEPT ![s] = FALSE]
    /\ Then(t, IF connected[s] THEN <<"registerDisconnect">> ELSE <<>>)
    /\ UNCHANGED <<eventVars, acceptVars, serviceVars, threadVars, sendRegistered,
                   rest, deaf, failed, stranded>>

RegisterDisconnect(t) ==
    /\ Does(t, "registerDisconnect")
    /\ Post(at[t], "disconnect")
    /\ Then(t, <<>>)
    /\ UNCHANGED <<sessionVars, acceptVars, serviceVars, threadVars, rest>>

\* DisconnectEx fails at once and the reference is taken back; nobody tries again.
RegisterDisconnectFail(t) ==
    /\ Does(t, "registerDisconnect")
    /\ stranded' = stranded \cup {at[t]}
    /\ Then(t, <<>>)
    /\ UNCHANGED <<connected, sendRegistered, deaf, eventVars, acceptVars, serviceVars,
                   threadVars, rest, failed>>

\* Mutant of ProcessDisconnect: ReleaseSession comes first.
ProcessDisconnectLast(t, s) ==
    /\ Take(t, s, "disconnect", <<"releaseSession", "onDisconnected">>)
    /\ UNCHANGED <<sessionVars, acceptVars, serviceVars, accepting, rest, failed>>

\* ProcessDisconnect: OnDisconnected; ReleaseSession
ProcessDisconnect(t, s) ==
    /\ Take(t, s, "disconnect", <<"onDisconnected", "releaseSession">>)
    /\ UNCHANGED <<sessionVars, acceptVars, serviceVars, accepting, rest, failed>>

OnDisconnected(t) ==
    /\ Does(t, "onDisconnected")
    /\ manager' = manager \ {at[t]}
    /\ Then(t, <<>>)
    /\ UNCHANGED <<sessionVars, eventVars, acceptVars, threadVars, type, sessions,
                   lock, rest, unstarted, failed>>

ReleaseSession(t) ==
    /\ Does(t, "releaseSession") /\ lock = None
    /\ failed' = IF at[t] \in sessions THEN "no" ELSE "assert"
    /\ sessions' = sessions \ {at[t]}
    /\ Then(t, <<>>)
    /\ UNCHANGED <<sessionVars, eventVars, acceptVars, threadVars, type, manager,
                   lock, rest, unstarted>>

Step(t) ==
    \/ \E s \in Sessions, posted \in BOOLEAN : RegisterAccept(t, s, posted)
    \/ ProcessConnect(t) \/ AddSession(t) \/ OnConnected(t) \/ Return(t)
    \/ RegisterRecv(t) \/ PostRecv(t) \/ ReleaseRecv(t)
    \/ \E s \in Sessions : BroadcastSend(t, s)
    \/ BroadcastEnd(t) \/ Send(t) \/ RegisterSend(t) \/ PostSend(t)
    \/ \E error \in Error : PostRecvFail(t, error) \/ PostSendFail(t, error)
    \/ ReleaseSend(t) \/ UnregisterSend(t)
    \/ Disconnect(t) \/ RegisterDisconnect(t) \/ RegisterDisconnectFail(t)
    \/ OnDisconnected(t) \/ ReleaseSession(t)

\* A worker takes a completion of the session and dispatches it.
Dispatch(t, s) ==
    \/ DispatchConnect(t, s) \/ ProcessDisconnect(t, s)
    \/ \E bytes \in BOOLEAN : ProcessRecv(t, s, bytes)
    \/ \E steps \in {<<"disconnect">>, <<"unregisterSend">>, <<"registerSend">>} :
         ProcessSend(t, s, steps)

DispatchAccept(t, a) ==
    \E steps \in {<<"connect", "registerAccept">>, <<"registerAccept">>} :
        ProcessAccept(t, a, steps)

Next ==
    \/ \E s \in Sessions : Connect(s) \/ ConnectFail(s) \/ \E e \in Event : Complete(s, e)
    \/ \E a \in AcceptEvents : CompleteAccept(a)
    \/ \E t \in Threads :
         \/ Step(t) \/ Broadcast(t)
         \/ \E s \in Sessions : Dispatch(t, s) \/ StartSend(t, s)
         \/ \E a \in AcceptEvents : DispatchAccept(t, a)

Spec == Init /\ [][Next]_vars

-----------------------------------------------------------------------------
(* Properties                                                              *)

\* What is running or has ended in the system has a session that lives and is
\* known to its event, until a worker takes it; and no thread is in a call of
\* a session that is gone.
KeptAlive ==
    /\ \A s \in Sessions, e \in Event : op[s][e] # "none" => e \in owned[s]
    /\ \A t \in Threads : at[t] # None => Exists(at[t])

\* An event is never given to the system while it is still there, and
\* ReleaseSession never fails to find its session.
NoFailure == failed \in {"no", "start"}

\* An AcceptEvent is in the system or in the hands of one worker: the server
\* never stops accepting.
Accepting(a) == {t \in Threads : accepting[t] = a}

AcceptsKept == type = "Server" => \A a \in AcceptEvents :
    Cardinality(Accepting(a)) = IF acceptOp[a] = "none" THEN 1 ELSE 0

\* A connected session is in the Service and has a receive under way or about to
\* be, unless its WSARecv failed with no Disconnect; and GameSessionManager knows
\* no session that the Service has released.
Pending(s, step) == \E t \in Threads : at[t] = s /\ \E i \in DOMAIN todo[t] : todo[t][i] = step

ConnectedIsServed == \A s \in Sessions :
    /\ s \in manager => s \in sessions
    /\ connected[s] =>
         /\ s \in sessions \/ Pending(s, "add")
         /\ \/ op[s]["recv"] # "none" \/ s \in deaf
            \/ \E step \in {"recv", "postRecv", "disconnect"} : Pending(s, step)

\* A session that is not connected, and of which nothing is under way, is
\* destroyed: no reference is left over in an event or a list, unless its
\* DisconnectEx failed.
NothingLeaks == \A s \in Sessions :
    /\ ~connected[s] /\ \A e \in Event : op[s][e] = "none"
    /\ \A t \in Threads : at[t] # s /\ s \notin hold[t]
    /\ \A a \in AcceptEvents : acceptSession[a] # s
    /\ s \notin unstarted \cup stranded
    => ~Exists(s)
=============================================================================
