---------------------------- MODULE SessionSend ----------------------------
(***************************************************************************)
(* The sending half of a Session: Send, RegisterSend, ProcessSend and the  *)
(* Disconnect that may come between any two of their steps.                *)
(*                                                                         *)
(* One SendEvent and its m_sendBuffers are reused for every WSASend.  They *)
(* are guarded by no lock but by m_sendRegistered: the thread that set it  *)
(* may use the event, then the kernel, then the thread that dispatched the *)
(* completion, until it is reset.  ProcessSend calls RegisterSend with the *)
(* session's lock held, Send calls it without.                             *)
(***************************************************************************)
EXTENDS Naturals, Sequences, FiniteSets

CONSTANTS
    Threads,
    Messages,       \* SendBuffers; each is sent once
    None,
    Errors          \* how WSASend may fail: "reset" or "aborted" as in HandleError, "other"

VARIABLES
    connected,      \* m_connected
    sendQueue,      \* m_sendQueue
    sendRegistered, \* m_sendRegistered
    sendBuffers,    \* m_sendEvent.m_sendBuffers
    inKernel,       \* the overlapped WSASend of m_sendEvent is outstanding or completed
    lock,           \* which thread holds the session's lock from one step to the next
    pc, sending,    \* per thread: where it is, and the argument of its Send
    wire,           \* history: the messages WSASend accepted
    lost            \* history: the messages of a WSASend that failed

vars == <<connected, sendQueue, sendRegistered, sendBuffers, inKernel, lock, pc, sending,
          wire, lost>>

MessagesIn(s) == {s[i] : i \in DOMAIN s}

Init ==
    /\ connected = TRUE
    /\ sendQueue = <<>>
    /\ sendRegistered = FALSE
    /\ sendBuffers = <<>>
    /\ inKernel = FALSE
    /\ lock = None
    /\ pc = [t \in Threads |-> "idle"]
    /\ sending = [t \in Threads |-> None]
    /\ wire = <<>>
    /\ lost = {}

Goto(t, where) == pc' = [pc EXCEPT ![t] = where]

Fresh(m) ==
    /\ m \notin MessagesIn(sendQueue) \cup MessagesIn(sendBuffers) \cup MessagesIn(wire) \cup lost
    /\ \A t \in Threads : sending[t] # m

\* Disconnect: m_connected.exchange(false)
Disconnect ==
    /\ connected
    /\ connected' = FALSE
    /\ UNCHANGED <<sendQueue, sendRegistered, sendBuffers, inKernel, lock, pc, sending,
                   wire, lost>>

\* Send, past its check of IsConnected
Send(t, m) ==
    /\ pc[t] = "idle" /\ connected /\ Fresh(m)
    /\ sending' = [sending EXCEPT ![t] = m]
    /\ Goto(t, "sending")
    /\ UNCHANGED <<connected, sendQueue, sendRegistered, sendBuffers, inKernel, lock,
                   wire, lost>>

\* Mutant of SendPush: RegisterSend is called whatever exchange returned.
SendPushAlways(t) ==
    /\ pc[t] = "sending" /\ lock = None
    /\ sendQueue' = Append(sendQueue, sending[t])
    /\ sending' = [sending EXCEPT ![t] = None]
    /\ sendRegistered' = TRUE
    /\ Goto(t, "register")
    /\ UNCHANGED <<connected, sendBuffers, inKernel, lock, wire, lost>>

\* The block under WRITE_LOCK: push, and exchange(true)
SendPush(t) ==
    /\ pc[t] = "sending" /\ lock = None
    /\ sendQueue' = Append(sendQueue, sending[t])
    /\ sending' = [sending EXCEPT ![t] = None]
    /\ sendRegistered' = TRUE
    /\ Goto(t, IF sendRegistered THEN "idle" ELSE "register")
    /\ UNCHANGED <<connected, sendBuffers, inKernel, lock, wire, lost>>

(* RegisterSend *)

\* RegisterSend returns; under ProcessSend the lock is released with it.
Leave(t) ==
    /\ Goto(t, "idle")
    /\ lock' = IF lock = t THEN None ELSE lock

RegisterNotConnected(t) ==
    /\ pc[t] = "register" /\ ~connected
    /\ Leave(t)
    /\ UNCHANGED <<connected, sendQueue, sendRegistered, sendBuffers, inKernel, sending,
                   wire, lost>>

RegisterStart(t) ==
    /\ pc[t] = "register" /\ connected
    /\ Goto(t, "drain")
    /\ UNCHANGED <<connected, sendQueue, sendRegistered, sendBuffers, inKernel, lock, sending,
                   wire, lost>>

\* The block under WRITE_LOCK (re-entrant): m_sendQueue moves to the event.
Drain(t) ==
    /\ pc[t] = "drain" /\ lock \in {None, t}
    /\ sendBuffers' = sendBuffers \o sendQueue
    /\ sendQueue' = <<>>
    /\ Goto(t, "post")
    /\ UNCHANGED <<connected, sendRegistered, inKernel, lock, sending, wire, lost>>

\* Mutant of Post: the event's buffers are dropped as they are on a failure.
PostDrops(t) ==
    /\ pc[t] = "post"
    /\ inKernel' = TRUE
    /\ wire' = wire \o sendBuffers
    /\ sendBuffers' = <<>>
    /\ Leave(t)
    /\ UNCHANGED <<connected, sendQueue, sendRegistered, sending, lost>>

\* WSASend succeeds or is pending: a completion will come.
Post(t) ==
    /\ pc[t] = "post"
    /\ inKernel' = TRUE
    /\ wire' = wire \o sendBuffers
    /\ Leave(t)
    /\ UNCHANGED <<connected, sendQueue, sendRegistered, sendBuffers, sending, lost>>

\* WSASend fails: HandleError disconnects if the peer reset or aborted, ...
PostFail(t, error) ==
    /\ pc[t] = "post"
    /\ connected' = (connected /\ error = "other")
    /\ lost' = lost \cup MessagesIn(sendBuffers)
    /\ Goto(t, "clear")
    /\ UNCHANGED <<sendQueue, sendRegistered, sendBuffers, inKernel, lock, sending,
                   wire>>

\* ... the event's buffers are dropped ...
FailClear(t) ==
    /\ pc[t] = "clear"
    /\ sendBuffers' = <<>>
    /\ Goto(t, "unregister")
    /\ UNCHANGED <<connected, sendQueue, sendRegistered, inKernel, lock, sending,
                   wire, lost>>

\* ... and m_sendRegistered.store(false).
FailUnregister(t) ==
    /\ pc[t] = "unregister"
    /\ sendRegistered' = FALSE
    /\ Leave(t)
    /\ UNCHANGED <<connected, sendQueue, sendBuffers, inKernel, sending, wire, lost>>

(* A worker dispatches the completion: ProcessSend. *)

Complete(t) ==
    /\ pc[t] = "idle" /\ inKernel
    /\ inKernel' = FALSE
    /\ Goto(t, "completed")
    /\ UNCHANGED <<connected, sendQueue, sendRegistered, sendBuffers, lock, sending,
                   wire, lost>>

\* m_sendBuffers.clear(); 0 bytes: Disconnect, and m_sendRegistered stays set
ProcessSendZero(t) ==
    /\ pc[t] = "completed"
    /\ sendBuffers' = <<>>
    /\ connected' = FALSE
    /\ Goto(t, "idle")
    /\ UNCHANGED <<sendQueue, sendRegistered, inKernel, lock, sending, wire, lost>>

\* Mutant of ProcessSendClear: m_sendBuffers is not cleared.
ProcessSendKeep(t) ==
    /\ pc[t] = "completed"
    /\ Goto(t, "sent")
    /\ UNCHANGED <<connected, sendQueue, sendRegistered, sendBuffers, inKernel, lock, sending,
                   wire, lost>>

ProcessSendClear(t) ==
    /\ pc[t] = "completed"
    /\ sendBuffers' = <<>>
    /\ Goto(t, "sent")
    /\ UNCHANGED <<connected, sendQueue, sendRegistered, inKernel, lock, sending,
                   wire, lost>>

\* Mutant of ProcessSendDone: the queue is not looked at.
ProcessSendDoneBlind(t) ==
    /\ pc[t] = "sent" /\ lock = None
    /\ sendRegistered' = FALSE
    /\ Goto(t, "idle")
    /\ UNCHANGED <<connected, sendQueue, sendBuffers, inKernel, lock, sending,
                   wire, lost>>

\* The block under WRITE_LOCK: nothing to send, or RegisterSend for the rest
ProcessSendDone(t) ==
    /\ pc[t] = "sent" /\ lock = None
    /\ sendQueue = <<>>
    /\ sendRegistered' = FALSE
    /\ Goto(t, "idle")
    /\ UNCHANGED <<connected, sendQueue, sendBuffers, inKernel, lock, sending,
                   wire, lost>>

ProcessSendMore(t) ==
    /\ pc[t] = "sent" /\ lock = None
    /\ sendQueue # <<>>
    /\ lock' = t
    /\ Goto(t, "register")
    /\ UNCHANGED <<connected, sendQueue, sendRegistered, sendBuffers, inKernel, sending,
                   wire, lost>>

Register(t) ==
    \/ RegisterNotConnected(t) \/ RegisterStart(t) \/ Drain(t)
    \/ Post(t) \/ \E error \in Errors : PostFail(t, error)
    \/ FailClear(t) \/ FailUnregister(t)

ProcessSend(t) ==
    \/ ProcessSendZero(t) \/ ProcessSendClear(t)
    \/ ProcessSendDone(t) \/ ProcessSendMore(t)

Next ==
    \/ Disconnect
    \/ \E t \in Threads :
         \/ \E m \in Messages : Send(t, m)
         \/ SendPush(t) \/ Register(t) \/ Complete(t) \/ ProcessSend(t)

Spec == Init /\ [][Next]_vars

\* Threads inside Send and ProcessSend keep going; some worker dispatches every
\* completion.  Nobody has to send.
FairSpec ==
    /\ Spec
    /\ \A t \in Threads : WF_vars(SendPush(t)) /\ WF_vars(Register(t)) /\ WF_vars(ProcessSend(t))
    /\ WF_vars(\E t \in Threads : Complete(t))

-----------------------------------------------------------------------------
(* Properties                                                              *)

\* Every variable has its type, and a thread inside Send has its message.
TypeOK ==
    /\ connected \in BOOLEAN /\ sendRegistered \in BOOLEAN /\ inKernel \in BOOLEAN
    /\ sendQueue \in Seq(Messages) /\ sendBuffers \in Seq(Messages)
    /\ lock \in Threads \cup {None}
    /\ pc \in [Threads -> {"idle", "sending", "register", "drain", "post", "clear",
                           "unregister", "completed", "sent"}]
    /\ sending \in [Threads -> Messages \cup {None}]
    /\ \A t \in Threads : pc[t] = "sending" => sending[t] \in Messages
    /\ wire \in Seq(Messages) /\ lost \subseteq Messages

\* The threads that may touch m_sendEvent.
Users == {t \in Threads : pc[t] \notin {"idle", "sending"}}

\* RegisterSend runs in one place at a time, and never while the kernel has the
\* event: one thread or the kernel uses m_sendEvent, and only while registered.
OneUser ==
    /\ Cardinality(Users) + (IF inKernel THEN 1 ELSE 0) <= 1
    /\ Users # {} \/ inKernel => sendRegistered

\* What a thread has taken from m_sendQueue and not given to WSASend yet.
Drained == IF \E t \in Threads : pc[t] = "post" THEN sendBuffers ELSE <<>>

Line == INSTANCE SendQueue WITH
    queue <- Drained \o sendQueue,
    inFlight <- IF inKernel THEN sendBuffers ELSE <<>>

\* The session is a queue whose messages reach the system in the order of their
\* push, none twice, and only those of a failed WSASend are missing.  m_sendBuffers
\* keeps those of an outstanding one, and no others, alive until its completion has
\* been dispatched.
ImplementsSendQueue == Line!Spec

\* A message in m_sendQueue is given to WSASend, or the session disconnects.
QueuedIsSent == \A m \in Messages :
    m \in MessagesIn(sendQueue) ~> (m \in MessagesIn(wire) \cup lost \/ ~connected)

\* As long as no WSASend fails, a message in m_sendQueue is given to it, or the
\* session disconnects.
QueuedIsSentUnlessFailed == \A m \in Messages :
    m \in MessagesIn(sendQueue) ~> (m \in MessagesIn(wire) \/ lost # {} \/ ~connected)
=============================================================================
