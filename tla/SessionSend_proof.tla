------------------------- MODULE SessionSend_proof -------------------------
(***************************************************************************)
(* Proofs about SessionSend, for any threads and any messages: one user of *)
(* the send event at a time, and the session implements SendQueue.         *)
(***************************************************************************)
EXTENDS SessionSend, FiniteSetTheorems, SequenceTheorems, TLAPS

(***************************************************************************)
(* What OneUser lacks to be inductive is nothing but a form without        *)
(* Cardinality.  For the refinement: the event's buffers are empty unless  *)
(* somebody drained m_sendQueue into them, whoever is on the way to a      *)
(* drain will find a message, whoever is on the way to WSASend has one,    *)
(* and what is inside Send was not sent before, nor by another thread.     *)
(***************************************************************************)
Alone ==
    /\ \A t, u \in Users : t = u
    /\ Users # {} => ~inKernel
    /\ Users # {} \/ inKernel => sendRegistered

BuffersHeld ==
    sendBuffers # <<>> => inKernel \/ \E t \in Threads : pc[t] \in {"post", "clear", "completed"}

WorkThere ==
    /\ \A t \in Threads : pc[t] \in {"register", "drain"} => sendQueue # <<>>
    /\ \A t \in Threads : pc[t] = "post" => sendBuffers # <<>>
    /\ inKernel => sendBuffers # <<>>

Unsent == \A t \in Threads : pc[t] = "sending" =>
    /\ sending[t] \notin MessagesIn(sendQueue) \cup MessagesIn(sendBuffers)
    /\ sending[t] \notin MessagesIn(wire) \cup lost
    /\ \A u \in Threads : u # t /\ pc[u] = "sending" => sending[u] # sending[t]

IInv == TypeOK /\ Alone /\ BuffersHeld /\ WorkThere /\ Unsent

-----------------------------------------------------------------------------
(* Sequences *)

\* The messages of two sequences joined.
LEMMA MessagesOfConcat ==
    ASSUME NEW s \in Seq(Messages), NEW r \in Seq(Messages)
    PROVE  MessagesIn(s \o r) = MessagesIn(s) \cup MessagesIn(r)
<1>1. /\ s \o r \in Seq(Messages) /\ Len(s \o r) = Len(s) + Len(r)
      /\ \A i \in 1..Len(s) + Len(r) : (s \o r)[i] = IF i <= Len(s) THEN s[i] ELSE r[i - Len(s)]
  BY ConcatProperties
<1>2. ASSUME NEW i \in 1..Len(s) PROVE i \in 1..Len(s) + Len(r) /\ (s \o r)[i] = s[i]
  BY <1>1
<1>3. ASSUME NEW i \in 1..Len(r)
      PROVE  Len(s) + i \in 1..Len(s) + Len(r) /\ (s \o r)[Len(s) + i] = r[i]
  BY <1>1
<1>4. ASSUME NEW i \in 1..Len(s) + Len(r)
      PROVE  (s \o r)[i] \in MessagesIn(s) \cup MessagesIn(r)
  <2>1. CASE i <= Len(s)
    BY <1>1, <2>1 DEF MessagesIn
  <2>2. CASE ~(i <= Len(s))
    <3>1. i - Len(s) \in 1..Len(r)
      BY <2>2
    <3>2. (s \o r)[i] = r[i - Len(s)]
      BY <1>1, <2>2
    <3> QED
      BY <3>1, <3>2 DEF MessagesIn
  <2> QED
    BY <2>1, <2>2
<1>5. DOMAIN (s \o r) = 1..Len(s) + Len(r) /\ DOMAIN s = 1..Len(s) /\ DOMAIN r = 1..Len(r)
  BY <1>1, LenProperties
<1>6. MessagesIn(s \o r) \subseteq MessagesIn(s) \cup MessagesIn(r)
  <2>1. ASSUME NEW m \in MessagesIn(s \o r) PROVE m \in MessagesIn(s) \cup MessagesIn(r)
    <3>1. PICK i \in 1..Len(s) + Len(r) : m = (s \o r)[i]
      BY <1>5 DEF MessagesIn
    <3> QED
      BY <3>1, <1>4
  <2> QED
    BY <2>1
<1>7. MessagesIn(s) \subseteq MessagesIn(s \o r)
  <2>1. ASSUME NEW m \in MessagesIn(s) PROVE m \in MessagesIn(s \o r)
    <3>1. PICK i \in 1..Len(s) : m = s[i]
      BY <1>5 DEF MessagesIn
    <3> QED
      BY <3>1, <1>2, <1>5 DEF MessagesIn
  <2> QED
    BY <2>1
<1>8. MessagesIn(r) \subseteq MessagesIn(s \o r)
  <2>1. ASSUME NEW m \in MessagesIn(r) PROVE m \in MessagesIn(s \o r)
    <3>1. PICK i \in 1..Len(r) : m = r[i]
      BY <1>5 DEF MessagesIn
    <3> QED
      BY <3>1, <1>3, <1>5 DEF MessagesIn
  <2> QED
    BY <2>1
<1> QED
  BY <1>6, <1>7, <1>8

\* Appending adds a message.
LEMMA MessagesOfAppend ==
    ASSUME NEW s \in Seq(Messages), NEW m \in Messages
    PROVE  MessagesIn(Append(s, m)) = MessagesIn(s) \cup {m} /\ Append(s, m) \in Seq(Messages)
<1>1. Append(s, m) = s \o <<m>>
  BY AppendIsConcat
<1>2. MessagesIn(<<m>>) = {m} /\ <<m>> \in Seq(Messages)
  BY DEF MessagesIn
<1>3. s \o <<m>> \in Seq(Messages) /\ MessagesIn(s \o <<m>>) = MessagesIn(s) \cup MessagesIn(<<m>>)
  BY <1>2, MessagesOfConcat, ConcatProperties
<1> QED
  BY <1>1, <1>2, <1>3

\* The empty sequence has none.
LEMMA NoMessages == MessagesIn(<<>>) = {} /\ <<>> \in Seq(Messages)
BY DEF MessagesIn

\* A front of a line, and what is left of it.
LEMMA FrontAndRest ==
    ASSUME NEW s \in Seq(Messages), NEW r \in Seq(Messages), s # <<>>
    PROVE  /\ Len(s) \in 1..Len(s \o r)
           /\ SubSeq(s \o r, 1, Len(s)) = s
           /\ SubSeq(s \o r, Len(s) + 1, Len(s \o r)) = r
<1>1. Len(s) \in Nat \ {0} /\ Len(r) \in Nat /\ Len(s \o r) = Len(s) + Len(r)
  BY EmptySeq, ConcatProperties, LenProperties
<1>2. SubSeq(s \o r, 1, Len(s)) = s
  BY <1>1, SubSeqOfConcat1, SubSeqFull
<1>3. SubSeq(s \o r, Len(s) + 1, Len(s \o r)) = r
  <2>1. CASE r = <<>>
    <3>1. s \o r \in Seq(Messages) /\ Len(r) = 0
      BY <2>1, ConcatProperties
    <3> QED
      BY <2>1, <3>1, <1>1, SubSeqEmpty
  <2>2. CASE r # <<>>
    <3>1. Len(r) \in Nat \ {0}
      BY <2>2, EmptySeq
    <3>2. SubSeq(s \o r, Len(s) + 1, Len(s) + Len(r)) = SubSeq(r, 1, Len(r))
      BY <3>1, <1>1, SubSeqOfConcat2
    <3> QED
      BY <3>2, <1>1, SubSeqFull
  <2> QED
    BY <2>1, <2>2
<1> QED
  BY <1>1, <1>2, <1>3
-----------------------------------------------------------------------------
(* The inductive invariant *)

\* The invariant holds at the start.
LEMMA InitInv == Init => IInv
<1> SUFFICES ASSUME Init PROVE IInv
  OBVIOUS
<1>1. TypeOK
  BY NoMessages DEF Init, TypeOK
<1>2. Alone /\ BuffersHeld /\ WorkThere /\ Unsent
  BY DEF Init, Alone, Users, BuffersHeld, WorkThere, Unsent
<1> QED
  BY <1>1, <1>2 DEF IInv

\* Every step keeps the types.
LEMMA TypeStep == TypeOK /\ [Next]_vars => TypeOK'
<1> SUFFICES ASSUME TypeOK, [Next]_vars PROVE TypeOK'
  OBVIOUS
<1>1. ASSUME Disconnect PROVE TypeOK'
  BY <1>1 DEF Disconnect, TypeOK, MessagesIn
<1>2. ASSUME NEW t \in Threads, NEW m \in Messages, Send(t, m) PROVE TypeOK'
  BY <1>2 DEF Send, Goto, TypeOK, MessagesIn
<1>3. ASSUME NEW t \in Threads, SendPush(t) PROVE TypeOK'
  BY <1>3, MessagesOfAppend DEF SendPush, Goto, TypeOK, MessagesIn
<1>4. ASSUME NEW t \in Threads, RegisterNotConnected(t) PROVE TypeOK'
  BY <1>4 DEF RegisterNotConnected, Leave, Goto, TypeOK, MessagesIn
<1>5. ASSUME NEW t \in Threads, RegisterStart(t) PROVE TypeOK'
  BY <1>5 DEF RegisterStart, Goto, TypeOK, MessagesIn
<1>6. ASSUME NEW t \in Threads, Drain(t) PROVE TypeOK'
  BY <1>6, ConcatProperties DEF Drain, Goto, TypeOK, MessagesIn
<1>7. ASSUME NEW t \in Threads, Post(t) PROVE TypeOK'
  BY <1>7, ConcatProperties DEF Post, Leave, Goto, TypeOK, MessagesIn
<1>8. ASSUME NEW t \in Threads, NEW error \in Errors, PostFail(t, error) PROVE TypeOK'
  BY <1>8 DEF PostFail, Goto, TypeOK, MessagesIn
<1>9. ASSUME NEW t \in Threads, FailClear(t) PROVE TypeOK'
  BY <1>9 DEF FailClear, Goto, TypeOK, MessagesIn
<1>10. ASSUME NEW t \in Threads, FailUnregister(t) PROVE TypeOK'
  BY <1>10 DEF FailUnregister, Leave, Goto, TypeOK, MessagesIn
<1>11. ASSUME NEW t \in Threads, Complete(t) PROVE TypeOK'
  BY <1>11 DEF Complete, Goto, TypeOK, MessagesIn
<1>12. ASSUME NEW t \in Threads, ProcessSendZero(t) PROVE TypeOK'
  BY <1>12, NoMessages DEF ProcessSendZero, Goto, TypeOK, MessagesIn
<1>13. ASSUME NEW t \in Threads, ProcessSendClear(t) PROVE TypeOK'
  BY <1>13 DEF ProcessSendClear, Goto, TypeOK, MessagesIn
<1>14. ASSUME NEW t \in Threads, ProcessSendDone(t) PROVE TypeOK'
  BY <1>14 DEF ProcessSendDone, Goto, TypeOK, MessagesIn
<1>15. ASSUME NEW t \in Threads, ProcessSendMore(t) PROVE TypeOK'
  BY <1>15 DEF ProcessSendMore, Goto, TypeOK, MessagesIn
<1>16. CASE UNCHANGED vars
  BY <1>16 DEF vars, TypeOK, MessagesIn
<1> QED
  BY <1>1, <1>2, <1>3, <1>4, <1>5, <1>6, <1>7, <1>8, <1>9, <1>10,
     <1>11, <1>12, <1>13, <1>14, <1>15, <1>16
     DEF Next, Register, ProcessSend

\* Every step leaves one user of the event.
LEMMA AloneStep == TypeOK /\ Alone /\ [Next]_vars => Alone'
<1> SUFFICES ASSUME TypeOK, Alone, [Next]_vars PROVE Alone'
  OBVIOUS
<1>1. ASSUME Disconnect PROVE Alone'
  BY <1>1 DEF Disconnect, TypeOK, Alone, Users
<1>2. ASSUME NEW t \in Threads, NEW m \in Messages, Send(t, m) PROVE Alone'
  BY <1>2 DEF Send, Goto, TypeOK, Alone, Users
<1>3. ASSUME NEW t \in Threads, SendPush(t) PROVE Alone'
  BY <1>3 DEF SendPush, Goto, TypeOK, Alone, Users
<1>4. ASSUME NEW t \in Threads, RegisterNotConnected(t) PROVE Alone'
  BY <1>4 DEF RegisterNotConnected, Leave, Goto, TypeOK, Alone, Users
<1>5. ASSUME NEW t \in Threads, RegisterStart(t) PROVE Alone'
  BY <1>5 DEF RegisterStart, Goto, TypeOK, Alone, Users
<1>6. ASSUME NEW t \in Threads, Drain(t) PROVE Alone'
  BY <1>6 DEF Drain, Goto, TypeOK, Alone, Users
<1>7. ASSUME NEW t \in Threads, Post(t) PROVE Alone'
  BY <1>7 DEF Post, Leave, Goto, TypeOK, Alone, Users
<1>8. ASSUME NEW t \in Threads, NEW error \in Errors, PostFail(t, error) PROVE Alone'
  BY <1>8 DEF PostFail, Goto, TypeOK, Alone, Users
<1>9. ASSUME NEW t \in Threads, FailClear(t) PROVE Alone'
  BY <1>9 DEF FailClear, Goto, TypeOK, Alone, Users
<1>10. ASSUME NEW t \in Threads, FailUnregister(t) PROVE Alone'
  BY <1>10 DEF FailUnregister, Leave, Goto, TypeOK, Alone, Users
<1>11. ASSUME NEW t \in Threads, Complete(t) PROVE Alone'
  BY <1>11 DEF Complete, Goto, TypeOK, Alone, Users
<1>12. ASSUME NEW t \in Threads, ProcessSendZero(t) PROVE Alone'
  BY <1>12 DEF ProcessSendZero, Goto, TypeOK, Alone, Users
<1>13. ASSUME NEW t \in Threads, ProcessSendClear(t) PROVE Alone'
  BY <1>13 DEF ProcessSendClear, Goto, TypeOK, Alone, Users
<1>14. ASSUME NEW t \in Threads, ProcessSendDone(t) PROVE Alone'
  BY <1>14 DEF ProcessSendDone, Goto, TypeOK, Alone, Users
<1>15. ASSUME NEW t \in Threads, ProcessSendMore(t) PROVE Alone'
  BY <1>15 DEF ProcessSendMore, Goto, TypeOK, Alone, Users
<1>16. CASE UNCHANGED vars
  BY <1>16 DEF vars, TypeOK, Alone, Users
<1> QED
  BY <1>1, <1>2, <1>3, <1>4, <1>5, <1>6, <1>7, <1>8, <1>9, <1>10,
     <1>11, <1>12, <1>13, <1>14, <1>15, <1>16
     DEF Next, Register, ProcessSend

\* Every step leaves the event's buffers empty if they are nobody's.
LEMMA BuffersStep == TypeOK /\ Alone /\ BuffersHeld /\ [Next]_vars => BuffersHeld'
<1> SUFFICES ASSUME TypeOK, Alone, BuffersHeld, [Next]_vars PROVE BuffersHeld'
  OBVIOUS
<1>1. ASSUME Disconnect PROVE BuffersHeld'
  BY <1>1 DEF Disconnect, TypeOK, Alone, Users, BuffersHeld
<1>2. ASSUME NEW t \in Threads, NEW m \in Messages, Send(t, m) PROVE BuffersHeld'
  BY <1>2 DEF Send, Goto, TypeOK, Alone, Users, BuffersHeld
<1>3. ASSUME NEW t \in Threads, SendPush(t) PROVE BuffersHeld'
  BY <1>3 DEF SendPush, Goto, TypeOK, Alone, Users, BuffersHeld
<1>4. ASSUME NEW t \in Threads, RegisterNotConnected(t) PROVE BuffersHeld'
  BY <1>4 DEF RegisterNotConnected, Leave, Goto, TypeOK, Alone, Users, BuffersHeld
<1>5. ASSUME NEW t \in Threads, RegisterStart(t) PROVE BuffersHeld'
  BY <1>5 DEF RegisterStart, Goto, TypeOK, Alone, Users, BuffersHeld
<1>6. ASSUME NEW t \in Threads, Drain(t) PROVE BuffersHeld'
  BY <1>6 DEF Drain, Goto, TypeOK, Alone, Users, BuffersHeld
<1>7. ASSUME NEW t \in Threads, Post(t) PROVE BuffersHeld'
  BY <1>7 DEF Post, Leave, Goto, TypeOK, Alone, Users, BuffersHeld
<1>8. ASSUME NEW t \in Threads, NEW error \in Errors, PostFail(t, error) PROVE BuffersHeld'
  BY <1>8 DEF PostFail, Goto, TypeOK, Alone, Users, BuffersHeld
<1>9. ASSUME NEW t \in Threads, FailClear(t) PROVE BuffersHeld'
  BY <1>9 DEF FailClear, Goto, TypeOK, Alone, Users, BuffersHeld
<1>10. ASSUME NEW t \in Threads, FailUnregister(t) PROVE BuffersHeld'
  BY <1>10 DEF FailUnregister, Leave, Goto, TypeOK, Alone, Users, BuffersHeld
<1>11. ASSUME NEW t \in Threads, Complete(t) PROVE BuffersHeld'
  BY <1>11 DEF Complete, Goto, TypeOK, Alone, Users, BuffersHeld
<1>12. ASSUME NEW t \in Threads, ProcessSendZero(t) PROVE BuffersHeld'
  BY <1>12 DEF ProcessSendZero, Goto, TypeOK, Alone, Users, BuffersHeld
<1>13. ASSUME NEW t \in Threads, ProcessSendClear(t) PROVE BuffersHeld'
  BY <1>13 DEF ProcessSendClear, Goto, TypeOK, Alone, Users, BuffersHeld
<1>14. ASSUME NEW t \in Threads, ProcessSendDone(t) PROVE BuffersHeld'
  BY <1>14 DEF ProcessSendDone, Goto, TypeOK, Alone, Users, BuffersHeld
<1>15. ASSUME NEW t \in Threads, ProcessSendMore(t) PROVE BuffersHeld'
  BY <1>15 DEF ProcessSendMore, Goto, TypeOK, Alone, Users, BuffersHeld
<1>16. CASE UNCHANGED vars
  BY <1>16 DEF vars, TypeOK, Alone, Users, BuffersHeld
<1> QED
  BY <1>1, <1>2, <1>3, <1>4, <1>5, <1>6, <1>7, <1>8, <1>9, <1>10,
     <1>11, <1>12, <1>13, <1>14, <1>15, <1>16
     DEF Next, Register, ProcessSend

\* Every step leaves something to send for who is about to.
LEMMA WorkStep == TypeOK /\ Alone /\ WorkThere /\ [Next]_vars => WorkThere'
<1> SUFFICES ASSUME TypeOK, Alone, WorkThere, [Next]_vars PROVE WorkThere'
  OBVIOUS
<1>1. ASSUME Disconnect PROVE WorkThere'
  BY <1>1 DEF Disconnect, TypeOK, Alone, Users, WorkThere
<1>2. ASSUME NEW t \in Threads, NEW m \in Messages, Send(t, m) PROVE WorkThere'
  BY <1>2 DEF Send, Goto, TypeOK, Alone, Users, WorkThere
<1>3. ASSUME NEW t \in Threads, SendPush(t) PROVE WorkThere'
  BY <1>3, AppendProperties DEF SendPush, Goto, TypeOK, Alone, Users, WorkThere
<1>4. ASSUME NEW t \in Threads, RegisterNotConnected(t) PROVE WorkThere'
  BY <1>4 DEF RegisterNotConnected, Leave, Goto, TypeOK, Alone, Users, WorkThere
<1>5. ASSUME NEW t \in Threads, RegisterStart(t) PROVE WorkThere'
  BY <1>5 DEF RegisterStart, Goto, TypeOK, Alone, Users, WorkThere
<1>6. ASSUME NEW t \in Threads, Drain(t) PROVE WorkThere'
  <2>1. pc[t] = "drain" /\ sendQueue # <<>> /\ sendBuffers' = sendBuffers \o sendQueue
    BY <1>6 DEF Drain, WorkThere
  <2>2. sendBuffers' # <<>>
    BY <2>1, ConcatEqualIffEmpty DEF TypeOK
  <2>3. \A u \in Threads : pc'[u] \notin {"register", "drain"}
    BY <1>6 DEF Drain, Goto, TypeOK, Alone, Users
  <2> QED
    BY <1>6, <2>2, <2>3 DEF Drain, WorkThere
<1>7. ASSUME NEW t \in Threads, Post(t) PROVE WorkThere'
  BY <1>7 DEF Post, Leave, Goto, TypeOK, Alone, Users, WorkThere
<1>8. ASSUME NEW t \in Threads, NEW error \in Errors, PostFail(t, error) PROVE WorkThere'
  BY <1>8 DEF PostFail, Goto, TypeOK, Alone, Users, WorkThere
<1>9. ASSUME NEW t \in Threads, FailClear(t) PROVE WorkThere'
  <2>1. t \in Users /\ pc' = [pc EXCEPT ![t] = "unregister"] /\ UNCHANGED <<sendQueue, inKernel>>
    BY <1>9 DEF FailClear, Goto, Users
  <2>2. ~inKernel /\ \A u \in Threads \ {t} : pc[u] \in {"idle", "sending"}
    BY <2>1 DEF Alone, Users
  <2>3. \A u \in Threads : pc'[u] \in {"idle", "sending", "unregister"}
    BY <2>1, <2>2 DEF TypeOK
  <2> QED
    BY <2>1, <2>2, <2>3 DEF WorkThere
<1>10. ASSUME NEW t \in Threads, FailUnregister(t) PROVE WorkThere'
  BY <1>10 DEF FailUnregister, Leave, Goto, TypeOK, Alone, Users, WorkThere
<1>11. ASSUME NEW t \in Threads, Complete(t) PROVE WorkThere'
  BY <1>11 DEF Complete, Goto, TypeOK, Alone, Users, WorkThere
<1>12. ASSUME NEW t \in Threads, ProcessSendZero(t) PROVE WorkThere'
  BY <1>12 DEF ProcessSendZero, Goto, TypeOK, Alone, Users, WorkThere
<1>13. ASSUME NEW t \in Threads, ProcessSendClear(t) PROVE WorkThere'
  <2>1. t \in Users /\ pc' = [pc EXCEPT ![t] = "sent"] /\ UNCHANGED <<sendQueue, inKernel>>
    BY <1>13 DEF ProcessSendClear, Goto, Users
  <2>2. ~inKernel /\ \A u \in Threads \ {t} : pc[u] \in {"idle", "sending"}
    BY <2>1 DEF Alone, Users
  <2>3. \A u \in Threads : pc'[u] \in {"idle", "sending", "sent"}
    BY <2>1, <2>2 DEF TypeOK
  <2> QED
    BY <2>1, <2>2, <2>3 DEF WorkThere
<1>14. ASSUME NEW t \in Threads, ProcessSendDone(t) PROVE WorkThere'
  BY <1>14 DEF ProcessSendDone, Goto, TypeOK, Alone, Users, WorkThere
<1>15. ASSUME NEW t \in Threads, ProcessSendMore(t) PROVE WorkThere'
  BY <1>15 DEF ProcessSendMore, Goto, TypeOK, Alone, Users, WorkThere
<1>16. CASE UNCHANGED vars
  BY <1>16 DEF vars, TypeOK, Alone, Users, WorkThere
<1> QED
  BY <1>1, <1>2, <1>3, <1>4, <1>5, <1>6, <1>7, <1>8, <1>9, <1>10,
     <1>11, <1>12, <1>13, <1>14, <1>15, <1>16
     DEF Next, Register, ProcessSend

\* Every step leaves what is inside Send unsent.
LEMMA UnsentStep == TypeOK /\ Unsent /\ [Next]_vars => Unsent'
<1> SUFFICES ASSUME TypeOK, Unsent, [Next]_vars PROVE Unsent'
  OBVIOUS
<1>1. ASSUME Disconnect PROVE Unsent'
  BY <1>1 DEF Disconnect, TypeOK, Unsent, Fresh
<1>2. ASSUME NEW t \in Threads, NEW m \in Messages, Send(t, m) PROVE Unsent'
  BY <1>2 DEF Send, Goto, TypeOK, Unsent, Fresh
<1>3. ASSUME NEW t \in Threads, SendPush(t) PROVE Unsent'
  BY <1>3, MessagesOfAppend DEF SendPush, Goto, TypeOK, Unsent, Fresh
<1>4. ASSUME NEW t \in Threads, RegisterNotConnected(t) PROVE Unsent'
  BY <1>4 DEF RegisterNotConnected, Leave, Goto, TypeOK, Unsent, Fresh
<1>5. ASSUME NEW t \in Threads, RegisterStart(t) PROVE Unsent'
  BY <1>5 DEF RegisterStart, Goto, TypeOK, Unsent, Fresh
<1>6. ASSUME NEW t \in Threads, Drain(t) PROVE Unsent'
  BY <1>6, MessagesOfConcat, NoMessages DEF Drain, Goto, TypeOK, Unsent, Fresh
<1>7. ASSUME NEW t \in Threads, Post(t) PROVE Unsent'
  BY <1>7, MessagesOfConcat DEF Post, Leave, Goto, TypeOK, Unsent, Fresh
<1>8. ASSUME NEW t \in Threads, NEW error \in Errors, PostFail(t, error) PROVE Unsent'
  BY <1>8 DEF PostFail, Goto, TypeOK, Unsent, Fresh
<1>9. ASSUME NEW t \in Threads, FailClear(t) PROVE Unsent'
  BY <1>9, NoMessages DEF FailClear, Goto, TypeOK, Unsent, Fresh
<1>10. ASSUME NEW t \in Threads, FailUnregister(t) PROVE Unsent'
  BY <1>10 DEF FailUnregister, Leave, Goto, TypeOK, Unsent, Fresh
<1>11. ASSUME NEW t \in Threads, Complete(t) PROVE Unsent'
  BY <1>11 DEF Complete, Goto, TypeOK, Unsent, Fresh
<1>12. ASSUME NEW t \in Threads, ProcessSendZero(t) PROVE Unsent'
  BY <1>12, NoMessages DEF ProcessSendZero, Goto, TypeOK, Unsent, Fresh
<1>13. ASSUME NEW t \in Threads, ProcessSendClear(t) PROVE Unsent'
  BY <1>13, NoMessages DEF ProcessSendClear, Goto, TypeOK, Unsent, Fresh
<1>14. ASSUME NEW t \in Threads, ProcessSendDone(t) PROVE Unsent'
  BY <1>14 DEF ProcessSendDone, Goto, TypeOK, Unsent, Fresh
<1>15. ASSUME NEW t \in Threads, ProcessSendMore(t) PROVE Unsent'
  BY <1>15 DEF ProcessSendMore, Goto, TypeOK, Unsent, Fresh
<1>16. CASE UNCHANGED vars
  BY <1>16 DEF vars, TypeOK, Unsent, Fresh
<1> QED
  BY <1>1, <1>2, <1>3, <1>4, <1>5, <1>6, <1>7, <1>8, <1>9, <1>10,
     <1>11, <1>12, <1>13, <1>14, <1>15, <1>16
     DEF Next, Register, ProcessSend

\* Every step keeps the invariant.
LEMMA InvStep == IInv /\ [Next]_vars => IInv'
BY TypeStep, AloneStep, BuffersStep, WorkStep, UnsentStep DEF IInv

\* The invariant holds for ever.
LEMMA Invariance == Spec => []IInv
BY InitInv, InvStep, PTL DEF Spec

-----------------------------------------------------------------------------
(* What follows from it *)

\* Every variable keeps its type, and a thread inside Send has its message.
THEOREM TypeCorrectness == Spec => []TypeOK
<1>1. IInv => TypeOK
  BY DEF IInv
<1> QED
  BY <1>1, Invariance, PTL

\* One thread or the system uses m_sendEvent, and only while m_sendRegistered is set.
THEOREM EventHasOneUser == Spec => []OneUser
<1>1. IInv => OneUser
  <2> SUFFICES ASSUME Alone PROVE OneUser
    BY DEF IInv
  <2>1. CASE Users = {}
    BY <2>1, FS_EmptySet DEF Alone, OneUser
  <2>2. CASE Users # {}
    <3>1. PICK t : Users = {t}
      BY <2>2 DEF Alone
    <3>2. Cardinality(Users) = 1
      BY <3>1, FS_Singleton
    <3> QED
      BY <2>2, <3>2 DEF Alone, OneUser
  <2> QED
    BY <2>1, <2>2
<1> QED
  BY <1>1, Invariance, PTL

-----------------------------------------------------------------------------
(* Refinement: a message that is drained but not posted still waits.       *)

InFlight == IF inKernel THEN sendBuffers ELSE <<>>

\* Nothing waits and nothing is under way at first.
LEMMA RefinesInit == Init => Line!Init
<1> SUFFICES ASSUME Init PROVE Line!Init
  OBVIOUS
<1>1. Drained = <<>> /\ sendQueue = <<>>
  BY DEF Init, Drained
<1>2. Drained \o sendQueue = <<>>
  BY <1>1, NoMessages, ConcatEmptySeq
<1> QED
  BY <1>2 DEF Init, Line!Init

\* A step that moves no message is none of SendQueue.
LEMMA Quiet ==
    ASSUME UNCHANGED <<sendQueue, wire, lost>>, Drained' = Drained, InFlight' = InFlight
    PROVE  UNCHANGED Line!vars
BY DEF Line!vars, InFlight

\* Who has drained the queue is the only user of the event.
LEMMA PosterAlone ==
    ASSUME IInv, NEW t \in Users
    PROVE  /\ Drained = IF pc[t] = "post" THEN sendBuffers ELSE <<>>
           /\ InFlight = <<>>
BY DEF IInv, Alone, Users, Drained, InFlight

\* If no thread uses the event nothing is drained.
LEMMA NobodyDrained == Users = {} => Drained = <<>>
BY DEF Users, Drained

\* SendPush is Put.
LEMMA PushRefines ==
    ASSUME IInv, NEW t \in Threads, SendPush(t)
    PROVE  Line!Put(sending[t])
<1> DEFINE m == sending[t]
<1>1. /\ m \in Messages /\ sendQueue' = Append(sendQueue, m)
      /\ UNCHANGED <<wire, lost, inKernel, sendBuffers>>
  BY DEF SendPush, IInv, TypeOK
<1>2. Drained' = Drained /\ InFlight' = InFlight /\ Drained \in {sendBuffers, <<>>}
  BY DEF SendPush, Goto, Drained, InFlight, IInv, TypeOK
<1>3. sendQueue \in Seq(Messages) /\ Drained \in Seq(Messages)
  BY <1>2, NoMessages DEF IInv, TypeOK
<1>4. m \notin MessagesIn(Drained \o sendQueue) \cup MessagesIn(wire) \cup lost
  <2>1. MessagesIn(Drained \o sendQueue) = MessagesIn(Drained) \cup MessagesIn(sendQueue)
    BY <1>3, MessagesOfConcat
  <2>2. MessagesIn(Drained) \subseteq MessagesIn(sendBuffers)
    BY <1>2, NoMessages
  <2>3. m \notin MessagesIn(sendQueue) \cup MessagesIn(sendBuffers) \cup MessagesIn(wire) \cup lost
    BY DEF SendPush, IInv, Unsent
  <2> QED
    BY <2>1, <2>2, <2>3
<1>5. Drained' \o sendQueue' = Append(Drained \o sendQueue, m)
  <2>1. Append(sendQueue, m) = sendQueue \o <<m>> /\ <<m>> \in Seq(Messages)
    BY <1>1, <1>3, AppendIsConcat
  <2>2. Drained \o sendQueue \in Seq(Messages)
    BY <1>3, ConcatProperties
  <2>3. Append(Drained \o sendQueue, m) = (Drained \o sendQueue) \o <<m>>
    BY <1>1, <2>2, AppendIsConcat
  <2>4. (Drained \o sendQueue) \o <<m>> = Drained \o (sendQueue \o <<m>>)
    BY <1>3, <2>1, ConcatAssociative
  <2> QED
    BY <1>1, <1>2, <2>1, <2>3, <2>4
<1> QED
  BY <1>1, <1>2, <1>4, <1>5 DEF Line!Put, Line!Elements, MessagesIn, InFlight

\* The line before a WSASend: what it is given, and the rest.
LEMMA LineAtPost ==
    ASSUME IInv, NEW t \in Threads, pc[t] = "post"
    PROVE  /\ Drained = sendBuffers /\ InFlight = <<>>
           /\ Len(sendBuffers) \in 1..Len(Drained \o sendQueue)
           /\ Line!Front(Len(sendBuffers)) = sendBuffers
           /\ Line!Rest(Len(sendBuffers)) = sendQueue
<1>1. t \in Users
  BY DEF Users
<1>2. Drained = sendBuffers /\ InFlight = <<>>
  BY <1>1, PosterAlone
<1>3. sendBuffers \in Seq(Messages) /\ sendQueue \in Seq(Messages) /\ sendBuffers # <<>>
  BY DEF IInv, TypeOK, WorkThere
<1> QED
  BY <1>2, <1>3, FrontAndRest DEF Line!Front, Line!Rest

\* After it nobody has drained anything.
LEMMA LineAfterPost ==
    ASSUME IInv, NEW t \in Threads, pc[t] = "post", NEW where, where # "post", Goto(t, where),
           sendQueue' = sendQueue
    PROVE  Drained' \o sendQueue' = sendQueue
<1>1. Drained' = <<>>
  BY DEF Goto, Drained, IInv, TypeOK, Alone, Users
<1> QED
  BY <1>1, ConcatEmptySeq DEF IInv, TypeOK

\* A WSASend that is accepted is Transmit, one that fails is Lose.
LEMMA PostRefines ==
    ASSUME IInv, NEW t \in Threads, Post(t) \/ \E error \in Errors : PostFail(t, error)
    PROVE  Line!Next
<1>1. pc[t] = "post" /\ sendQueue' = sendQueue /\ sendBuffers' = sendBuffers
  BY DEF Post, PostFail
<1>2. Drained' \o sendQueue' = sendQueue
  BY <1>1, LineAfterPost DEF Post, PostFail, Leave
<1>3. CASE Post(t)
  <2>1. InFlight' = sendBuffers /\ wire' = wire \o sendBuffers /\ lost' = lost
    BY <1>3 DEF Post, InFlight
  <2>2. Line!Transmit(Len(sendBuffers))
    BY <1>1, <1>2, <2>1, LineAtPost DEF Line!Transmit, InFlight
  <2> QED
    BY <1>1, <2>2, LineAtPost DEF Line!Next
<1>4. CASE \E error \in Errors : PostFail(t, error)
  <2>1. InFlight' = InFlight /\ wire' = wire /\ lost' = lost \cup MessagesIn(sendBuffers)
    BY <1>4 DEF PostFail, InFlight
  <2>2. Line!Lose(Len(sendBuffers))
    BY <1>1, <1>2, <2>1, LineAtPost DEF Line!Lose, Line!Elements, MessagesIn, InFlight
  <2> QED
    BY <1>1, <2>2, LineAtPost DEF Line!Next
<1> QED
  BY <1>3, <1>4

\* Moving the queue to the event leaves the line as it is.
LEMMA DrainRefines ==
    ASSUME IInv, NEW t \in Threads, Drain(t)
    PROVE  UNCHANGED Line!vars
<1>1. t \in Users /\ pc[t] = "drain" /\ UNCHANGED <<inKernel, wire, lost>>
  BY DEF Drain, Users
<1>2. Drained = <<>> /\ ~inKernel
  BY <1>1, PosterAlone DEF IInv, Alone
<1>3. sendBuffers = <<>>
  BY <1>1, <1>2 DEF IInv, Alone, BuffersHeld, Users
<1>4. sendQueue \in Seq(Messages)
  BY DEF IInv, TypeOK
<1>5. sendBuffers' = sendQueue /\ sendQueue' = <<>>
  BY <1>3, <1>4, ConcatEmptySeq DEF Drain
<1>6. Drained' = sendQueue
  BY <1>5 DEF Drain, Goto, Drained, IInv, TypeOK
<1>7. Drained' \o sendQueue' = Drained \o sendQueue
  BY <1>2, <1>4, <1>5, <1>6, ConcatEmptySeq
<1> QED
  BY <1>1, <1>2, <1>7 DEF Line!vars

\* The completion is dispatched.
LEMMA CompleteRefines ==
    ASSUME IInv, NEW t \in Threads, Complete(t)
    PROVE  Line!Complete
<1>1. inKernel /\ ~inKernel' /\ sendBuffers # <<>> /\ UNCHANGED <<sendQueue, wire, lost>>
  BY DEF Complete, IInv, WorkThere
<1>2. Drained' = Drained
  BY DEF Complete, Goto, Drained, IInv, TypeOK, Alone, Users
<1> QED
  BY <1>1, <1>2 DEF Line!Complete

\* All other steps move no message.
LEMMA OthersQuiet ==
    ASSUME IInv, NEW t \in Threads,
           \/ \E m \in Messages : Send(t, m)
           \/ RegisterNotConnected(t) \/ RegisterStart(t) \/ FailClear(t) \/ FailUnregister(t)
           \/ ProcessSend(t)
    PROVE  UNCHANGED Line!vars
<1>1. CASE (\E m \in Messages : Send(t, m)) \/ RegisterNotConnected(t) \/ RegisterStart(t)
  <2>1. UNCHANGED <<sendQueue, wire, lost, sendBuffers, inKernel>>
    BY <1>1 DEF Send, RegisterNotConnected, RegisterStart
  <2>2. Drained' = Drained
    BY <1>1, <2>1 DEF Send, RegisterNotConnected, RegisterStart, Leave, Goto, Drained, IInv, TypeOK
  <2> QED
    BY <2>1, <2>2, Quiet DEF InFlight
<1>2. CASE FailClear(t) \/ FailUnregister(t) \/ ProcessSend(t)
  <2>1. t \in Users /\ pc[t] # "post" /\ UNCHANGED <<sendQueue, wire, lost, inKernel>>
    BY <1>2 DEF FailClear, FailUnregister, ProcessSend, ProcessSendZero, ProcessSendClear,
                ProcessSendDone, ProcessSendMore, Users
  <2>2. \A u \in Threads : pc'[u] # "post"
    BY <1>2, <2>1 DEF FailClear, FailUnregister, ProcessSend, ProcessSendZero, ProcessSendClear,
                      ProcessSendDone, ProcessSendMore, Leave, Goto, IInv, TypeOK, Alone, Users
  <2>3. Drained = <<>> /\ Drained' = <<>>
    BY <2>1, <2>2, PosterAlone DEF Drained
  <2>4. InFlight = <<>> /\ InFlight' = <<>>
    BY <2>1, PosterAlone DEF InFlight, IInv, Alone
  <2> QED
    BY <2>1, <2>3, <2>4, Quiet
<1> QED
  BY <1>1, <1>2

\* Every step is a step of SendQueue or moves no message.
LEMMA RefinesNext == IInv /\ [Next]_vars => [Line!Next]_(Line!vars)
<1> SUFFICES ASSUME IInv, [Next]_vars PROVE Line!Next \/ UNCHANGED Line!vars
  OBVIOUS
<1>1. ASSUME NEW t \in Threads, SendPush(t) PROVE Line!Next
  <2>1. sending[t] \in Messages
    BY <1>1 DEF SendPush, IInv, TypeOK
  <2> QED
    BY <1>1, <2>1, PushRefines DEF Line!Next
<1>2. ASSUME NEW t \in Threads, Post(t) \/ \E error \in Errors : PostFail(t, error)
      PROVE  Line!Next
  BY <1>2, PostRefines
<1>3. ASSUME NEW t \in Threads, Complete(t) PROVE Line!Next
  BY <1>3, CompleteRefines DEF Line!Next
<1>4. ASSUME NEW t \in Threads, Drain(t) PROVE UNCHANGED Line!vars
  BY <1>4, DrainRefines
<1>5. CASE Disconnect \/ UNCHANGED vars
  <2>1. UNCHANGED <<sendQueue, wire, lost, sendBuffers, inKernel, pc>>
    BY <1>5 DEF Disconnect, vars
  <2> QED
    BY <2>1, Quiet DEF Drained, InFlight
<1> QED
  BY <1>1, <1>2, <1>3, <1>4, <1>5, OthersQuiet DEF Next, Register

\* The sending half of a session implements SendQueue.
THEOREM Refinement == Spec => ImplementsSendQueue
<1>1. Init => Line!Init
  BY RefinesInit
<1>2. IInv /\ [Next]_vars => [Line!Next]_(Line!vars)
  BY RefinesNext
<1> QED
  BY <1>1, <1>2, Invariance, PTL DEF Spec, ImplementsSendQueue, Line!Spec
=============================================================================
