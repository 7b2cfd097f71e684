--------------------------- MODULE SessionLife_proof ---------------------------
(***************************************************************************)
(* Proofs about SessionLife, for any threads, sessions and accept events:  *)
(* sessions live while anything of theirs is under way and no longer, an   *)
(* event has one user, a session is disconnected and released once, the    *)
(* server goes on accepting and connected sessions are served.             *)
(***************************************************************************)
EXTENDS SessionLife, FiniteSetTheorems, SequenceTheorems, TLAPS

StepName == {"connect", "add", "onConnected", "recv", "postRecv", "releaseRecv",
             "send", "registerSend", "postSend", "releaseSend", "unregisterSend",
             "disconnect", "registerDisconnect", "onDisconnected", "releaseSession",
             "registerAccept", "broadcast"}

OpState == {"none", "posted", "done"}

TypeOK ==
    /\ type \in {"Server", "Client"}
    /\ connected \in [Sessions -> BOOLEAN]
    /\ sendRegistered \in [Sessions -> BOOLEAN]
    /\ op \in [Sessions -> [Event -> OpState]]
    /\ owned \in [Sessions -> SUBSET Event]
    /\ sessions \subseteq Sessions /\ manager \subseteq Sessions /\ unstarted \subseteq Sessions
    /\ acceptOp \in [AcceptEvents -> OpState]
    /\ acceptSession \in [AcceptEvents -> Sessions \cup {None}]
    /\ lock \in Threads \cup {None}
    /\ hold \in [Threads -> SUBSET Sessions]
    /\ at \in [Threads -> Sessions \cup {None}]
    /\ accepting \in [Threads -> AcceptEvents \cup {None}]
    /\ todo \in [Threads -> Seq(StepName)]
    /\ rest \in [Threads -> SUBSET Sessions]
    /\ deaf \subseteq Sessions /\ stranded \subseteq Sessions

(***************************************************************************)
(* The calls a thread is in.  A step calls only steps of its own layer or  *)
(* of an inner one, so that the layers grow from the innermost call to the *)
(* outermost: then todo[t] can be treated as a set.                        *)
(***************************************************************************)
Layer(step) ==
    CASE step \in {"add", "disconnect", "registerDisconnect", "onDisconnected"} -> 1
      [] step \in {"releaseSend", "releaseSession"} -> 2
      [] step \in {"onConnected", "send", "registerSend", "postSend", "unregisterSend"} -> 3
      [] step \in {"connect", "recv", "postRecv", "releaseRecv"} -> 4
      [] OTHER -> 5

Nested(s) == \A i, k \in 1..Len(s) : i < k => Layer(s[i]) < Layer(s[k])
Elements(s) == {s[i] : i \in 1..Len(s)}
Tasks(t) == Elements(todo[t])

StacksOK == \A t \in Threads : Nested(todo[t])

\* The first and the last steps of a session keep to themselves.
ShapeOK(t) ==
    /\ "connect" \in Tasks(t) => Tasks(t) \subseteq {"connect", "registerAccept"}
    /\ "add" \in Tasks(t) \/ (type = "Server" /\ "onConnected" \in Tasks(t)) =>
         Tasks(t) \subseteq {"add", "onConnected", "recv", "registerAccept"}
    /\ "releaseSession" \in Tasks(t) => Tasks(t) \subseteq {"onDisconnected", "releaseSession"}

ThreadOK(t) ==
    /\ at[t] # None => at[t] \in hold[t] \/ (lock = t /\ at[t] \in sessions)
    /\ Tasks(t) \ {"broadcast"} # {} => at[t] # None
    /\ lock = t <=> "broadcast" \in Tasks(t)
    /\ lock = t => type = "Client" /\ rest[t] \subseteq sessions
    /\ accepting[t] # None <=> "registerAccept" \in Tasks(t)
    /\ accepting[t] # None => type = "Server" /\ acceptOp[accepting[t]] = "none"
    /\ ShapeOK(t)

ThreadsOK == \A t \in Threads : ThreadOK(t)

AcceptsOK ==
    /\ \A a \in AcceptEvents : acceptOp[a] # "none" => type = "Server" /\ acceptSession[a] # None
    /\ \A a, b \in AcceptEvents :
         acceptOp[a] # "none" /\ acceptOp[b] # "none" /\ acceptSession[a] = acceptSession[b] => a = b
    /\ \A t, u \in Threads : accepting[t] = accepting[u] /\ accepting[t] # None => t = u
    /\ type = "Server" => /\ \A a \in AcceptEvents : acceptOp[a] = "none" => \E t \in Threads : accepting[t] = a
                          /\ unstarted = {} /\ \A s \in Sessions : op[s]["connect"] = "none"

\* Before a session is connected nobody but the one who connects it knows it.
Unborn(s) ==
    \/ s \in unstarted \/ op[s]["connect"] # "none"
    \/ \E a \in AcceptEvents : acceptOp[a] # "none" /\ acceptSession[a] = s

UnbornOK == \A s \in Sessions : Unborn(s) =>
    /\ ~connected[s] /\ s \notin sessions /\ s \notin manager
    /\ \A t \in Threads : at[t] # s
    /\ \A e \in Event : op[s][e] # "none" => e = "connect" /\ s \notin unstarted

\* The thread is between ProcessConnect and the point where others learn of the
\* session: the Service's Broadcast, or the room's through the manager.
Young(t) ==
    \/ "connect" \in Tasks(t) \/ "add" \in Tasks(t)
    \/ type = "Server" /\ "onConnected" \in Tasks(t)

YoungOK == \A t \in Threads : Young(t) =>
    /\ \A u \in Threads : at[u] = at[t] => u = t
    /\ \A e \in Event : op[at[t]][e] = "none"
    /\ at[t] \notin manager
    /\ "connect" \in Tasks(t) \/ "add" \in Tasks(t) => at[t] \notin sessions
    /\ connected[at[t]] <=> "connect" \notin Tasks(t)

\* Disconnect let the thread through, and it has not handed the session on.
Ending(t) == "registerDisconnect" \in Tasks(t) \/ "releaseSession" \in Tasks(t)

EndingOK ==
    /\ \A t \in Threads : Ending(t) =>
         ~connected[at[t]] /\ at[t] \in sessions /\ op[at[t]]["disconnect"] = "none"
    /\ \A t, u \in Threads : Ending(t) /\ Ending(u) /\ at[t] = at[u] => t = u
    /\ \A s \in Sessions : op[s]["disconnect"] # "none" => ~connected[s] /\ s \in sessions

\* In the Service is what is connected or about to be released.
ServiceOK ==
    /\ \A s \in Sessions : connected[s] =>
         s \in sessions \/ \E t \in Threads : at[t] = s /\ "add" \in Tasks(t)
    /\ \A s \in sessions :
         \/ connected[s] \/ op[s]["disconnect"] # "none" \/ s \in stranded
         \/ \E t \in Threads : at[t] = s /\ Ending(t)
    /\ manager \subseteq sessions
    /\ \A t \in Threads : "releaseSession" \in Tasks(t) => "onDisconnected" \in Tasks(t) \/ at[t] \notin manager

\* m_recvEvent has one user.
Receiving(t) == "recv" \in Tasks(t) \/ "postRecv" \in Tasks(t) \/ "releaseRecv" \in Tasks(t)

\* The thread goes on to a WSARecv, or to Disconnect.
Reads(t) == "recv" \in Tasks(t) \/ "postRecv" \in Tasks(t) \/ "disconnect" \in Tasks(t)

ReceivingOK ==
    /\ \A t \in Threads : Receiving(t) => op[at[t]]["recv"] = "none"
    /\ \A t, u \in Threads : Receiving(t) /\ Receiving(u) /\ at[t] = at[u] => t = u
    /\ \A s \in Sessions : connected[s] =>
         \/ op[s]["recv"] # "none" \/ s \in deaf
         \/ \E t \in Threads : at[t] = s /\ Reads(t)

\* So has m_sendEvent, whoever set m_sendRegistered.
Sending(t) ==
    \/ "registerSend" \in Tasks(t) \/ "postSend" \in Tasks(t)
    \/ "releaseSend" \in Tasks(t) \/ "unregisterSend" \in Tasks(t)

SendingOK ==
    /\ \A t \in Threads : Sending(t) => sendRegistered[at[t]] /\ op[at[t]]["send"] = "none"
    /\ \A t, u \in Threads : Sending(t) /\ Sending(u) /\ at[t] = at[u] => t = u
    /\ \A s \in Sessions : op[s]["send"] # "none" => sendRegistered[s]

\* An event refers to its session while the system has it, or while a call that
\* failed has yet to take the reference back.
OwnedOK == \A s \in Sessions, e \in Event :
    /\ op[s][e] # "none" => e \in owned[s]
    /\ e \in owned[s] =>
         \/ op[s][e] # "none"
         \/ e = "recv" /\ \E t \in Threads : at[t] = s /\ "releaseRecv" \in Tasks(t)
         \/ e = "send" /\ \E t \in Threads : at[t] = s /\ "releaseSend" \in Tasks(t)

IInv == /\ TypeOK /\ StacksOK /\ ThreadsOK /\ AcceptsOK /\ UnbornOK /\ YoungOK
        /\ EndingOK /\ ServiceOK /\ ReceivingOK /\ SendingOK /\ OwnedOK
        /\ failed \in {"no", "start"}

-----------------------------------------------------------------------------
(* Stacks of calls *)

\* The steps fall into five layers.
LEMMA Layers == \A x \in StepName : Layer(x) \in 1..5
BY DEF Layer

\* The stack of a thread that is in no call
LEMMA Stack0 == <<>> \in Seq(StepName) /\ Nested(<<>>) /\ Elements(<<>>) = {}
BY DEF Nested, Elements

\* One call
LEMMA Stack1 == \A x \in StepName :
    <<x>> \in Seq(StepName) /\ Nested(<<x>>) /\ Elements(<<x>>) = {x}
<1> SUFFICES ASSUME NEW x \in StepName
             PROVE  <<x>> \in Seq(StepName) /\ Nested(<<x>>) /\ Elements(<<x>>) = {x}
  OBVIOUS
<1>1. <<x>> \in Seq(StepName) /\ Len(<<x>>) = 1 /\ <<x>>[1] = x
  OBVIOUS
<1> QED
  BY <1>1 DEF Nested, Elements

\* Two calls of growing layers nest, and nothing else is in them.
LEMMA Stack2 == \A x, y \in StepName : Layer(x) < Layer(y) =>
    <<x, y>> \in Seq(StepName) /\ Nested(<<x, y>>) /\ Elements(<<x, y>>) = {x, y}
<1> SUFFICES ASSUME NEW x \in StepName, NEW y \in StepName, Layer(x) < Layer(y)
             PROVE  <<x, y>> \in Seq(StepName) /\ Nested(<<x, y>>) /\ Elements(<<x, y>>) = {x, y}
  OBVIOUS
<1>1. PICK s \in Seq(StepName) : s = <<x, y>> /\ Len(s) = 2 /\ s[1] = x /\ s[2] = y
  <2>1. <<x, y>> \in Seq(StepName) /\ Len(<<x, y>>) = 2 /\ <<x, y>>[1] = x /\ <<x, y>>[2] = y
    OBVIOUS
  <2> QED
    BY <2>1
<1>2. Nested(s)
  <2> SUFFICES ASSUME NEW i \in 1..2, NEW k \in 1..2, i < k PROVE Layer(s[i]) < Layer(s[k])
    BY <1>1 DEF Nested
  <2>1. i = 1 /\ k = 2
    OBVIOUS
  <2> QED
    BY <1>1, <2>1
<1>3. Elements(s) = {x, y}
  BY <1>1 DEF Elements
<1> QED
  BY <1>1, <1>2, <1>3

\* Three calls
LEMMA Stack3 == \A x, y, z \in StepName : Layer(x) < Layer(y) /\ Layer(y) < Layer(z) =>
    <<x, y, z>> \in Seq(StepName) /\ Nested(<<x, y, z>>) /\ Elements(<<x, y, z>>) = {x, y, z}
<1> SUFFICES ASSUME NEW x \in StepName, NEW y \in StepName, NEW z \in StepName,
                    Layer(x) < Layer(y), Layer(y) < Layer(z)
             PROVE  <<x, y, z>> \in Seq(StepName) /\ Nested(<<x, y, z>>) /\ Elements(<<x, y, z>>) = {x, y, z}
  OBVIOUS
<1>1. PICK s \in Seq(StepName) : s = <<x, y, z>> /\ Len(s) = 3 /\ s[1] = x /\ s[2] = y /\ s[3] = z
  <2>1. <<x, y, z>> \in Seq(StepName) /\ Len(<<x, y, z>>) = 3 /\ <<x, y, z>>[1] = x /\ <<x, y, z>>[2] = y /\ <<x, y, z>>[3] = z
    OBVIOUS
  <2> QED
    BY <2>1
<1>2. Layer(x) < Layer(z)
  BY Layers
<1>3. Nested(s)
  <2> SUFFICES ASSUME NEW i \in 1..3, NEW k \in 1..3, i < k PROVE Layer(s[i]) < Layer(s[k])
    BY <1>1 DEF Nested
  <2>1. (i = 1 /\ k = 2) \/ (i = 1 /\ k = 3) \/ (i = 2 /\ k = 3)
    OBVIOUS
  <2> QED
    BY <1>1, <1>2, <2>1
<1>4. Elements(s) = {x, y, z}
  BY <1>1 DEF Elements
<1> QED
  BY <1>1, <1>3, <1>4

\* One call before others, position by position
LEMMA CallFirst ==
    ASSUME NEW x \in StepName, NEW r \in Seq(StepName), NEW c \in Seq(StepName),
           Len(c) = Len(r) + 1, c[1] = x, \A i \in 1..Len(r) : c[i + 1] = r[i]
    PROVE  <<x>> \o r = c
<1>1. PICK n \in Nat : n = Len(r)
  BY LenProperties
<1>2. PICK s \in Seq(StepName) : s = <<x>> /\ Len(s) = 1 /\ s[1] = x
  <2>1. <<x>> \in Seq(StepName) /\ Len(<<x>>) = 1 /\ <<x>>[1] = x
    OBVIOUS
  <2> QED
    BY <2>1
<1>3. PICK d \in Seq(StepName) : /\ d = s \o r /\ Len(d) = n + 1
                                 /\ \A i \in 1..(n + 1) : d[i] = IF i <= 1 THEN s[i] ELSE r[i - 1]
  <2>1. /\ s \o r \in Seq(StepName) /\ Len(s \o r) = n + 1
        /\ \A i \in 1..(n + 1) : (s \o r)[i] = IF i <= 1 THEN s[i] ELSE r[i - 1]
    BY <1>1, <1>2, ConcatProperties
  <2> QED
    BY <2>1
<1>4. \A i \in 1..(n + 1) : d[i] = c[i]
  <2> SUFFICES ASSUME NEW i \in 1..(n + 1) PROVE d[i] = c[i]
    OBVIOUS
  <2>1. CASE i = 1
    BY <1>2, <1>3, <2>1
  <2>2. CASE i # 1
    <3>1. ~(i <= 1) /\ i - 1 \in 1..n /\ (i - 1) + 1 = i
      BY <2>2
    <3> QED
      BY <1>1, <1>3, <3>1
  <2> QED
    BY <2>1, <2>2
<1>5. d = c
  BY <1>1, <1>3, <1>4, SeqEqual
<1> QED
  BY <1>2, <1>3, <1>5

\* OnError(error) \o <<"releaseRecv">>
LEMMA CallBeforeOne == \A x, y \in StepName : <<x>> \o <<y>> = <<x, y>>
<1> SUFFICES ASSUME NEW x \in StepName, NEW y \in StepName PROVE <<x>> \o <<y>> = <<x, y>>
  OBVIOUS
<1>1. PICK r \in Seq(StepName) : r = <<y>> /\ Len(r) = 1 /\ r[1] = y
  <2>1. <<y>> \in Seq(StepName) /\ Len(<<y>>) = 1 /\ <<y>>[1] = y
    OBVIOUS
  <2> QED
    BY <2>1
<1>2. PICK c \in Seq(StepName) : c = <<x, y>> /\ Len(c) = 2 /\ c[1] = x /\ c[2] = y
  <2>1. <<x, y>> \in Seq(StepName) /\ Len(<<x, y>>) = 2 /\ <<x, y>>[1] = x /\ <<x, y>>[2] = y
    OBVIOUS
  <2> QED
    BY <2>1
<1>3. Len(c) = Len(r) + 1 /\ \A i \in 1..Len(r) : c[i + 1] = r[i]
  <2>1. \A i \in 1..1 : i = 1 /\ i + 1 = 2
    OBVIOUS
  <2> QED
    BY <1>1, <1>2, <2>1
<1>4. <<x>> \o r = c
  BY <1>2, <1>3, CallFirst
<1> QED
  BY <1>1, <1>2, <1>4

\* OnError(error) \o <<"releaseSend", "unregisterSend">>
LEMMA CallBeforeTwo == \A x, y, z \in StepName : <<x>> \o <<y, z>> = <<x, y, z>>
<1> SUFFICES ASSUME NEW x \in StepName, NEW y \in StepName, NEW z \in StepName
             PROVE  <<x>> \o <<y, z>> = <<x, y, z>>
  OBVIOUS
<1>1. PICK r \in Seq(StepName) : r = <<y, z>> /\ Len(r) = 2 /\ r[1] = y /\ r[2] = z
  <2>1. <<y, z>> \in Seq(StepName) /\ Len(<<y, z>>) = 2 /\ <<y, z>>[1] = y /\ <<y, z>>[2] = z
    OBVIOUS
  <2> QED
    BY <2>1
<1>2. PICK c \in Seq(StepName) : c = <<x, y, z>> /\ Len(c) = 3 /\ c[1] = x /\ c[2] = y /\ c[3] = z
  <2>1. /\ <<x, y, z>> \in Seq(StepName) /\ Len(<<x, y, z>>) = 3
        /\ <<x, y, z>>[1] = x /\ <<x, y, z>>[2] = y /\ <<x, y, z>>[3] = z
    OBVIOUS
  <2> QED
    BY <2>1
<1>3. Len(c) = Len(r) + 1 /\ \A i \in 1..Len(r) : c[i + 1] = r[i]
  <2>1. \A i \in 1..2 : (i = 1 /\ i + 1 = 2) \/ (i = 2 /\ i + 1 = 3)
    OBVIOUS
  <2> QED
    BY <1>1, <1>2, <2>1
<1>4. <<x>> \o r = c
  BY <1>2, <1>3, CallFirst
<1> QED
  BY <1>1, <1>2, <1>4

\* The innermost call returns or makes calls of its own.
LEMMA Restack ==
    ASSUME NEW s \in Seq(StepName), s # <<>>, Nested(s), NEW r \in Seq(StepName), Nested(r),
           \A x \in Elements(r) : Layer(x) <= Layer(Head(s))
    PROVE  /\ r \o Tail(s) \in Seq(StepName) /\ Nested(r \o Tail(s))
           /\ Elements(r \o Tail(s)) = Elements(r) \cup (Elements(s) \ {Head(s)})
           /\ Head(s) \in Elements(s)
           /\ \A x \in Elements(s) : x = Head(s) \/ Layer(Head(s)) < Layer(x)
<1>1. PICK n \in Nat : n = Len(s) /\ n # 0
  BY LenProperties, EmptySeq
<1>2. PICK m \in Nat : m = Len(r)
  BY LenProperties
<1>3. PICK d \in Seq(StepName) : /\ d = Tail(s) /\ Len(d) = n - 1 /\ Head(s) = s[1]
                                 /\ \A i \in 1..(n - 1) : d[i] = s[i + 1]
  <2>1. /\ Tail(s) \in Seq(StepName) /\ Len(Tail(s)) = n - 1 /\ Head(s) = s[1]
        /\ \A i \in 1..(n - 1) : Tail(s)[i] = s[i + 1]
    BY <1>1, HeadTailProperties
  <2> QED
    BY <2>1
<1>4. PICK c \in Seq(StepName) : c = r \o d
  BY ConcatProperties
<1>5. Len(c) = m + (n - 1) /\ \A i \in 1..(m + (n - 1)) : c[i] = IF i <= m THEN r[i] ELSE d[i - m]
  BY <1>1, <1>2, <1>3, <1>4, ConcatProperties
<1>6. /\ \A i \in 1..m : i \in 1..(m + (n - 1)) /\ c[i] = r[i]
      /\ \A i \in 2..n : i + m - 1 \in 1..(m + (n - 1)) /\ c[i + m - 1] = s[i]
      /\ \A i \in 1..(m + (n - 1)) : i \in 1..m \/ (i - m + 1 \in 2..n /\ (i - m + 1) + m - 1 = i)
  <2>1. \A i \in 1..m : i \in 1..(m + (n - 1)) /\ i <= m
    BY <1>1
  <2>2. ASSUME NEW i \in 2..n PROVE i + m - 1 \in 1..(m + (n - 1)) /\ c[i + m - 1] = s[i]
    <3>1. /\ i + m - 1 \in 1..(m + (n - 1)) /\ ~(i + m - 1 <= m) /\ (i + m - 1) - m = i - 1
          /\ i - 1 \in 1..(n - 1) /\ (i - 1) + 1 = i
      BY <1>1
    <3> QED
      BY <1>3, <1>5, <3>1
  <2>3. \A i \in 1..(m + (n - 1)) : i \in 1..m \/ (i - m + 1 \in 2..n /\ (i - m + 1) + m - 1 = i)
    BY <1>1
  <2> QED
    BY <1>5, <2>1, <2>2, <2>3
<1>7. /\ \A i, k \in 1..n : i < k => Layer(s[i]) < Layer(s[k])
      /\ \A i, k \in 1..m : i < k => Layer(r[i]) < Layer(r[k])
      /\ \A i \in 1..m : Layer(r[i]) <= Layer(s[1])
      /\ \A i \in 1..n : Layer(s[i]) \in Nat
      /\ \A i \in 1..m : Layer(r[i]) \in Nat
  <2>1. (\A i \in 1..n : s[i] \in StepName) /\ \A i \in 1..m : r[i] \in StepName /\ r[i] \in Elements(r)
    BY <1>1, <1>2, ElementOfSeq DEF Elements
  <2> QED
    <3>1. (\A i \in 1..n : Layer(s[i]) \in 1..5) /\ \A i \in 1..m : Layer(r[i]) \in 1..5
      BY <2>1, Layers
    <3>2. \A i \in 1..m : Layer(r[i]) <= Layer(s[1])
      BY <1>3, <2>1
    <3>3. \A x \in 1..5 : x \in Nat
      OBVIOUS
    <3> QED
      BY <1>1, <1>2, <3>1, <3>2, <3>3 DEF Nested
<1>8. 1 \in 1..n /\ \A i \in 2..n : i \in 1..n /\ 1 < i /\ i # 1
  BY <1>1
<1>9. ASSUME NEW i \in 1..(m + (n - 1)), NEW k \in 1..(m + (n - 1)), i < k
      PROVE  Layer(c[i]) < Layer(c[k])
  <2>1. CASE i \in 1..m /\ k \in 1..m
    BY <1>6, <1>7, <1>9, <2>1
  <2>2. CASE i \in 1..m /\ k \notin 1..m
    <3>1. PICK q \in 2..n : q = k - m + 1 /\ c[k] = s[q]
      BY <1>6, <2>2
    <3>2. Layer(s[1]) < Layer(s[q]) /\ Layer(r[i]) <= Layer(s[1]) /\ c[i] = r[i]
      BY <1>6, <1>7, <1>8, <2>2
    <3> QED
      BY <1>7, <1>8, <2>2, <3>1, <3>2
  <2>3. CASE i \notin 1..m
    <3>1. k \notin 1..m
      BY <1>1, <1>9, <2>3
    <3>2. PICK p \in 2..n : p = i - m + 1 /\ c[i] = s[p]
      BY <1>6, <2>3
    <3>3. PICK q \in 2..n : q = k - m + 1 /\ c[k] = s[q]
      BY <1>6, <3>1
    <3>4. p < q
      BY <1>9, <3>2, <3>3
    <3> QED
      BY <1>7, <1>8, <3>2, <3>3, <3>4
  <2> QED
    BY <2>1, <2>2, <2>3
<1>10. Nested(c)
  BY <1>5, <1>9 DEF Nested
<1>11. \A i \in 2..n : Layer(s[1]) < Layer(s[i]) /\ s[i] # s[1]
  BY <1>7, <1>8
<1>12. Elements(c) = Elements(r) \cup (Elements(s) \ {s[1]})
  <2>1. ASSUME NEW i \in 1..(m + (n - 1)) PROVE c[i] \in Elements(r) \cup (Elements(s) \ {s[1]})
    <3>1. CASE i \in 1..m
      BY <1>2, <1>6, <3>1 DEF Elements
    <3>2. CASE i \notin 1..m
      <4>1. PICK q \in 2..n : q = i - m + 1 /\ c[i] = s[q]
        BY <1>6, <3>2
      <4> QED
        BY <1>1, <1>8, <1>11, <4>1 DEF Elements
    <3> QED
      BY <3>1, <3>2
  <2>2. ASSUME NEW x \in Elements(r) PROVE x \in Elements(c)
    BY <1>2, <1>5, <1>6 DEF Elements
  <2>3. ASSUME NEW x \in Elements(s), x # s[1] PROVE x \in Elements(c)
    <3>1. PICK i \in 1..n : x = s[i]
      BY <1>1 DEF Elements
    <3>2. i \in 2..n
      BY <1>1, <2>3, <3>1
    <3> QED
      BY <1>5, <1>6, <3>1, <3>2 DEF Elements
  <2>4. \A x \in Elements(c) : x \in Elements(r) \cup (Elements(s) \ {s[1]})
    BY <1>5, <2>1 DEF Elements
  <2> QED
    BY <2>2, <2>3, <2>4
<1>13. s[1] \in Elements(s) /\ \A x \in Elements(s) : x = s[1] \/ Layer(s[1]) < Layer(x)
  <2>1. \A i \in 1..n : i = 1 \/ i \in 2..n
    BY <1>1
  <2> QED
    BY <1>1, <1>8, <1>11, <2>1 DEF Elements
<1> QED
  BY <1>3, <1>4, <1>10, <1>12, <1>13

\* A step returns, making the calls r, and its thread goes on with them.
LEMMA StepTasks ==
    ASSUME TypeOK, StacksOK, NEW t \in Threads, NEW step, Does(t, step), NEW r \in Seq(StepName),
           Nested(r), \A x \in Elements(r) : Layer(x) <= Layer(step), Then(t, r)
    PROVE  /\ todo' \in [Threads -> Seq(StepName)] /\ StacksOK' /\ failed = "no"
           /\ Tasks(t)' = Elements(r) \cup (Tasks(t) \ {step})
           /\ \A u \in Threads \ {t} : Tasks(u)' = Tasks(u)
           /\ step \in Tasks(t) /\ \A x \in Tasks(t) : x = step \/ Layer(step) < Layer(x)
<1>1. PICK s \in Seq(StepName) : s = todo[t] /\ s # <<>> /\ Head(s) = step /\ Nested(s) /\ failed = "no"
  BY DEF TypeOK, StacksOK, Does
<1>2. todo' = [todo EXCEPT ![t] = r \o Tail(s)]
  BY <1>1 DEF Then
<1>3. todo'[t] = r \o Tail(s) /\ \A u \in Threads \ {t} : todo'[u] = todo[u]
  BY <1>2 DEF TypeOK
<1>4. /\ r \o Tail(s) \in Seq(StepName) /\ Nested(r \o Tail(s))
      /\ Elements(r \o Tail(s)) = Elements(r) \cup (Elements(s) \ {Head(s)})
      /\ Head(s) \in Elements(s)
      /\ \A x \in Elements(s) : x = Head(s) \/ Layer(Head(s)) < Layer(x)
  BY <1>1, Restack
<1>5. todo' \in [Threads -> Seq(StepName)]
  BY <1>2, <1>4 DEF TypeOK
<1>6. StacksOK'
  <2> SUFFICES ASSUME NEW u \in Threads PROVE Nested(todo'[u])
    BY DEF StacksOK
  <2> QED
    BY <1>3, <1>4 DEF StacksOK
<1>7. Tasks(t)' = Elements(r) \cup (Tasks(t) \ {step})
  BY <1>1, <1>3, <1>4 DEF Tasks
<1>8. \A u \in Threads \ {t} : Tasks(u)' = Tasks(u)
  BY <1>3 DEF Tasks
<1>9. step \in Tasks(t) /\ \A x \in Tasks(t) : x = step \/ Layer(step) < Layer(x)
  BY <1>1, <1>4 DEF Tasks
<1> QED
  BY <1>1, <1>5, <1>6, <1>7, <1>8, <1>9

\* What a step does to the tasks of its thread
Steps(t, step, R) ==
    /\ todo' \in [Threads -> Seq(StepName)] /\ StacksOK' /\ failed = "no"
    /\ Tasks(t)' = R \cup (Tasks(t) \ {step})
    /\ \A u \in Threads \ {t} : Tasks(u)' = Tasks(u)
    /\ step \in Tasks(t) /\ \A x \in Tasks(t) : x = step \/ Layer(step) < Layer(x)

\* The step calls nothing: it only leaves the stack.
LEMMA Returns ==
    ASSUME TypeOK, StacksOK, NEW t \in Threads, NEW step, Does(t, step), Then(t, <<>>)
    PROVE  Steps(t, step, {})
BY Stack0, StepTasks DEF Steps

\* The step makes one call of its own or of an inner layer,
LEMMA Calls ==
    ASSUME TypeOK, StacksOK, NEW t \in Threads, NEW step, Does(t, step),
           NEW x \in StepName, Layer(x) <= Layer(step), Then(t, <<x>>)
    PROVE  Steps(t, step, {x})
BY Stack1, StepTasks DEF Steps

\* two calls,
LEMMA CallsTwo ==
    ASSUME TypeOK, StacksOK, NEW t \in Threads, NEW step, Does(t, step),
           NEW x \in StepName, NEW y \in StepName, Layer(x) < Layer(y),
           Layer(x) <= Layer(step), Layer(y) <= Layer(step), Then(t, <<x, y>>)
    PROVE  Steps(t, step, {x, y})
BY Stack2, StepTasks DEF Steps

\* or three.
LEMMA CallsThree ==
    ASSUME TypeOK, StacksOK, NEW t \in Threads, NEW step, Does(t, step),
           NEW x \in StepName, NEW y \in StepName, NEW z \in StepName,
           Layer(x) < Layer(y), Layer(y) < Layer(z), Layer(x) <= Layer(step),
           Layer(y) <= Layer(step), Layer(z) <= Layer(step), Then(t, <<x, y, z>>)
    PROVE  Steps(t, step, {x, y, z})
<1>1. <<x, y, z>> \in Seq(StepName) /\ Nested(<<x, y, z>>) /\ Elements(<<x, y, z>>) = {x, y, z}
  BY Stack3
<1>2. \A w \in {x, y, z} : Layer(w) <= Layer(step)
  OBVIOUS
<1>3. PICK r \in Seq(StepName) : r = <<x, y, z>>
  BY <1>1
<1> QED
  BY <1>1, <1>2, <1>3, StepTasks DEF Steps

\* A thread that was idle enters a call.
LEMMA EnterTasks ==
    ASSUME TypeOK, StacksOK, NEW t \in Threads, NEW s, NEW r \in Seq(StepName), Nested(r), Enter(t, s, r)
    PROVE  /\ todo' \in [Threads -> Seq(StepName)] /\ StacksOK' /\ failed = "no"
           /\ Tasks(t) = {} /\ Tasks(t)' = Elements(r)
           /\ \A u \in Threads \ {t} : Tasks(u)' = Tasks(u)
           /\ hold[t] = {} /\ at'[t] = s /\ \A u \in Threads \ {t} : at'[u] = at[u]
<1>1. /\ todo[t] = <<>> /\ hold[t] = {} /\ failed = "no"
      /\ todo' = [todo EXCEPT ![t] = r] /\ at' = [at EXCEPT ![t] = s]
  BY DEF Enter, Idle
<1>2. todo'[t] = r /\ \A u \in Threads \ {t} : todo'[u] = todo[u]
  BY <1>1 DEF TypeOK
<1>3. at'[t] = s /\ \A u \in Threads \ {t} : at'[u] = at[u]
  BY <1>1 DEF TypeOK
<1>4. StacksOK'
  <2> SUFFICES ASSUME NEW u \in Threads PROVE Nested(todo'[u])
    BY DEF StacksOK
  <2> QED
    BY <1>2 DEF StacksOK
<1>5. todo' \in [Threads -> Seq(StepName)]
  BY <1>1 DEF TypeOK
<1>6. Tasks(t) = {}
  BY <1>1, Stack0 DEF Tasks
<1> QED
  BY <1>1, <1>2, <1>3, <1>4, <1>5, <1>6 DEF Tasks

-----------------------------------------------------------------------------
(* What a step that does not concern a part of the invariant leaves of it *)

\* A thread is at a session while it has anything to do but a Broadcast.
LEMMA AtSession ==
    ASSUME TypeOK, ThreadsOK, NEW t \in Threads, NEW x \in Tasks(t), x # "broadcast"
    PROVE  at[t] \in Sessions
BY DEF TypeOK, ThreadsOK, ThreadOK

\* The tasks in S stay with their threads, and these at their sessions.
Keeps(S) == \A u \in Threads, x \in S :
    /\ x \in Tasks(u)' <=> x \in Tasks(u)
    /\ x \in Tasks(u) => at'[u] = at[u]

\* A step keeps the tasks that it neither ends nor begins.
LEMMA StepKeeps ==
    ASSUME NEW t \in Threads, NEW step, NEW R, NEW S, Steps(t, step, R),
           S \cap R = {}, step \notin S, at' = at
    PROVE  Keeps(S)
BY DEF Steps, Keeps

\* EndingOK is about the two steps that end a session, connected, sessions and its event.
LEMMA EndingFrame ==
    ASSUME EndingOK, Keeps({"registerDisconnect", "releaseSession"}), UNCHANGED <<connected, sessions>>,
           \A s \in Sessions : op'[s]["disconnect"] = "none" <=> op[s]["disconnect"] = "none",
           TypeOK, ThreadsOK
    PROVE  EndingOK'
<1>1. \A t \in Threads : (Ending(t)' <=> Ending(t)) /\ (Ending(t) => at'[t] = at[t] /\ at[t] \in Sessions)
  BY AtSession DEF Ending, Keeps
<1> QED
  BY <1>1 DEF EndingOK

\* ServiceOK is about these, the manager and the steps that enter and leave it.
LEMMA ServiceFrame ==
    ASSUME ServiceOK, Keeps({"add", "registerDisconnect", "releaseSession", "onDisconnected"}),
           UNCHANGED <<connected, sessions, manager, stranded>>,
           \A s \in Sessions : op'[s]["disconnect"] = "none" <=> op[s]["disconnect"] = "none",
           TypeOK
    PROVE  ServiceOK'
<1>1. \A t \in Threads : /\ (Ending(t)' <=> Ending(t)) /\ (Ending(t) => at'[t] = at[t])
                         /\ "add" \in Tasks(t) => "add" \in Tasks(t)' /\ at'[t] = at[t]
                         /\ "onDisconnected" \in Tasks(t)' <=> "onDisconnected" \in Tasks(t)
                         /\ "releaseSession" \in Tasks(t)' => "releaseSession" \in Tasks(t) /\ at'[t] = at[t]
  BY DEF Ending, Keeps
<1> QED
  BY <1>1 DEF ServiceOK, TypeOK

\* ReceivingOK is about the steps of a receive, connected, deaf and its event.
LEMMA ReceivingFrame ==
    ASSUME ReceivingOK, Keeps({"recv", "postRecv", "releaseRecv"}), UNCHANGED <<connected, deaf>>,
           \A u \in Threads : Reads(u) => Reads(u)' /\ at'[u] = at[u],
           \A s \in Sessions : op'[s]["recv"] = "none" <=> op[s]["recv"] = "none",
           TypeOK, ThreadsOK
    PROVE  ReceivingOK'
<1>1. \A t \in Threads : /\ (Receiving(t)' <=> Receiving(t))
                         /\ Receiving(t) => at'[t] = at[t] /\ at[t] \in Sessions
  BY AtSession DEF Receiving, Keeps
<1> QED
  BY <1>1 DEF ReceivingOK

\* SendingOK is about the steps of a send, m_sendRegistered and its event.
LEMMA SendingFrame ==
    ASSUME SendingOK, Keeps({"registerSend", "postSend", "releaseSend", "unregisterSend"}),
           UNCHANGED sendRegistered,
           \A s \in Sessions : op'[s]["send"] = "none" <=> op[s]["send"] = "none",
           TypeOK, ThreadsOK
    PROVE  SendingOK'
<1>1. \A t \in Threads : (Sending(t)' <=> Sending(t)) /\ (Sending(t) => at'[t] = at[t] /\ at[t] \in Sessions)
  BY AtSession DEF Sending, Keeps
<1> QED
  BY <1>1 DEF SendingOK

\* OwnedOK is about m_owner of each event, and the steps that take it back.
LEMMA OwnedFrame ==
    ASSUME OwnedOK, Keeps({"releaseRecv", "releaseSend"}), UNCHANGED owned,
           \A s \in Sessions, e \in Event : op'[s][e] = "none" <=> op[s][e] = "none"
    PROVE  OwnedOK'
<1>1. \A t \in Threads : /\ "releaseRecv" \in Tasks(t) => "releaseRecv" \in Tasks(t)' /\ at'[t] = at[t]
                         /\ "releaseSend" \in Tasks(t) => "releaseSend" \in Tasks(t)' /\ at'[t] = at[t]
  BY DEF Keeps
<1> QED
  BY <1>1 DEF OwnedOK

\* A dequeued operation has released its session.
LEMMA OwnedTaken ==
    ASSUME OwnedOK, NEW s \in Sessions, NEW d \in Event, op'[s][d] = "none", d \notin owned'[s],
           \A e \in Event \ {d} : op'[s][e] = op[s][e] /\ (e \in owned'[s] <=> e \in owned[s]),
           \A x \in Sessions \ {s} : op'[x] = op[x] /\ owned'[x] = owned[x],
           \A u \in Threads : /\ "releaseSend" \in Tasks(u) => "releaseSend" \in Tasks(u)' /\ at'[u] = at[u]
                              /\ "releaseRecv" \in Tasks(u) => "releaseRecv" \in Tasks(u)' /\ at'[u] = at[u]
    PROVE  OwnedOK'
<1> SUFFICES ASSUME NEW x \in Sessions, NEW e \in Event
             PROVE  /\ op'[x][e] # "none" => e \in owned'[x]
                    /\ e \in owned'[x] =>
                         \/ op'[x][e] # "none"
                         \/ e = "recv" /\ \E u \in Threads : at'[u] = x /\ "releaseRecv" \in Tasks(u)'
                         \/ e = "send" /\ \E u \in Threads : at'[u] = x /\ "releaseSend" \in Tasks(u)'
  BY DEF OwnedOK
<1>1. CASE x = s /\ e = d
  BY <1>1
<1>2. CASE ~(x = s /\ e = d)
  <2>1. op'[x][e] = op[x][e] /\ (e \in owned'[x] <=> e \in owned[x])
    BY <1>2
  <2>2. /\ op[x][e] # "none" => e \in owned[x]
        /\ e \in owned[x] =>
             \/ op[x][e] # "none"
             \/ e = "recv" /\ \E u \in Threads : at[u] = x /\ "releaseRecv" \in Tasks(u)
             \/ e = "send" /\ \E u \in Threads : at[u] = x /\ "releaseSend" \in Tasks(u)
    BY DEF OwnedOK
  <2>3. /\ (\E u \in Threads : at[u] = x /\ "releaseRecv" \in Tasks(u)) =>
               \E u \in Threads : at'[u] = x /\ "releaseRecv" \in Tasks(u)'
        /\ (\E u \in Threads : at[u] = x /\ "releaseSend" \in Tasks(u)) =>
               \E u \in Threads : at'[u] = x /\ "releaseSend" \in Tasks(u)'
    OBVIOUS
  <2> QED
    BY <2>1, <2>2, <2>3
<1> QED
  BY <1>1, <1>2

\* A young session stays alone while no thread comes to it.
LEMMA YoungFrame ==
    ASSUME YoungOK, Keeps({"connect", "add", "onConnected"}), UNCHANGED <<type, connected, sessions, manager>>,
           \A s \in Sessions, e \in Event : op[s][e] = "none" => op'[s][e] = "none",
           \A u \in Threads : at'[u] = at[u] \/ \A t \in Threads : Young(t) => at'[u] # at[t],
           TypeOK, ThreadsOK
    PROVE  YoungOK'
<1>1. \A t \in Threads : /\ (Young(t)' <=> Young(t)) /\ (Young(t) => at'[t] = at[t] /\ at[t] \in Sessions)
                         /\ "connect" \in Tasks(t)' <=> "connect" \in Tasks(t)
                         /\ "add" \in Tasks(t)' <=> "add" \in Tasks(t)
  BY AtSession DEF Young, Keeps
<1> QED
  BY <1>1 DEF YoungOK

\* No thread comes to a session that is not connected yet.
LEMMA UnbornFrame ==
    ASSUME UnbornOK, UNCHANGED <<unstarted, acceptOp, acceptSession, connected, sessions, manager>>,
           \A s \in Sessions, e \in Event : op'[s][e] = "none" <=> op[s][e] = "none",
           \A u \in Threads : at'[u] = at[u] \/ at'[u] = None \/ ~Unborn(at'[u])
    PROVE  UnbornOK'
<1>1. \A s \in Sessions : Unborn(s)' => Unborn(s)
  BY DEF Unborn, Event
<1> QED
  BY <1>1, NoneIsNull DEF UnbornOK

\* AcceptsOK is about the accept events and their threads.
LEMMA AcceptsFrame ==
    ASSUME AcceptsOK, UNCHANGED <<type, acceptOp, acceptSession, accepting, unstarted>>,
           \A s \in Sessions : op[s]["connect"] = "none" => op'[s]["connect"] = "none"
    PROVE  AcceptsOK'
BY DEF AcceptsOK

\* The threads that a step leaves alone
LEMMA ThreadFrame ==
    ASSUME NEW u \in Threads, ThreadOK(u), Tasks(u)' = Tasks(u), type' = type,
           at'[u] = at[u], hold'[u] = hold[u], rest'[u] = rest[u], accepting'[u] = accepting[u],
           lock' = u <=> lock = u, lock = u => sessions \subseteq sessions',
           accepting[u] # None => acceptOp'[accepting[u]] = acceptOp[accepting[u]]
    PROVE  ThreadOK(u)'
BY DEF ThreadOK, ShapeOK

-----------------------------------------------------------------------------
(* Receiving, sending and disconnecting: steps inside the calls of a thread  *)
(* that the Service, the manager and the accept events do not notice         *)

Edge == {"connect", "add", "onConnected", "onDisconnected", "releaseSession", "broadcast", "registerAccept"}

\* Such a step is at a session that everybody may know.
LEMMA NotYoung ==
    ASSUME IInv, NEW t \in Threads, NEW h, NEW R, h \notin Edge, Steps(t, h, R)
    PROVE  /\ "connect" \notin Tasks(t) /\ "add" \notin Tasks(t) /\ "releaseSession" \notin Tasks(t)
           /\ type = "Server" => "onConnected" \notin Tasks(t)
           /\ \A u \in Threads : Young(u) => at[u] # at[t]
           /\ at[t] \in Sessions
<1>1. ShapeOK(t)
  BY DEF IInv, ThreadsOK, ThreadOK
<1>2. /\ h \in Tasks(t) /\ \A x \in Tasks(t) : x = h \/ Layer(h) < Layer(x)
  BY DEF Steps
<1>3. /\ "connect" \notin Tasks(t) /\ "releaseSession" \notin Tasks(t)
  BY <1>1, <1>2 DEF ShapeOK, Edge
<1>4. "add" \in Tasks(t) \/ (type = "Server" /\ "onConnected" \in Tasks(t)) => FALSE
  <2> SUFFICES ASSUME "add" \in Tasks(t) \/ (type = "Server" /\ "onConnected" \in Tasks(t)) PROVE FALSE
    OBVIOUS
  <2>1. h = "recv"
    BY <1>1, <1>2 DEF ShapeOK, Edge
  <2>2. Layer("recv") = 4 /\ Layer("add") = 1 /\ Layer("onConnected") = 3
    BY DEF Layer
  <2> QED
    BY <1>2, <2>1, <2>2
<1>5. ~Young(t)
  BY <1>3, <1>4 DEF Young
<1>6. \A u \in Threads : Young(u) => at[u] # at[t]
  BY <1>5 DEF IInv, YoungOK
<1>7. at[t] \in Sessions
  BY <1>2, AtSession DEF IInv, Edge
<1> QED
  BY <1>3, <1>4, <1>6, <1>7

\* Such a step leaves the parts alone that are about the first and the last steps.
LEMMA CallStep ==
    ASSUME IInv, NEW t \in Threads, NEW h, NEW R, h \notin Edge, R \cap Edge = {}, Steps(t, h, R),
           UNCHANGED <<type, sessions, manager, unstarted, lock, acceptOp, acceptSession, hold, at,
                       accepting, rest>>,
           connected'[at[t]] => connected[at[t]],
           op'[at[t]]["connect"] = "none" <=> op[at[t]]["connect"] = "none",
           \A s \in Sessions \ {at[t]} : connected'[s] = connected[s] /\ op'[s] = op[s]
    PROVE  ThreadsOK' /\ AcceptsOK' /\ UnbornOK' /\ YoungOK'
<1> USE DEF IInv
<1>1. PICK s \in Sessions : s = at[t] /\ \A u \in Threads : Young(u) => at[u] # s
  BY NotYoung
<1>2. /\ Tasks(t)' = R \cup (Tasks(t) \ {h}) /\ \A u \in Threads \ {t} : Tasks(u)' = Tasks(u)
  BY DEF Steps
<1>3. ThreadsOK'
  <2> SUFFICES ASSUME NEW u \in Threads PROVE ThreadOK(u)'
    BY DEF ThreadsOK
  <2>1. CASE u # t
    BY <1>2, <2>1, ThreadFrame DEF ThreadsOK
  <2>2. CASE u = t
    <3>1. ShapeOK(t)'
      BY <1>2, NotYoung DEF ShapeOK, Edge
    <3>2. /\ "broadcast" \in Tasks(t)' <=> "broadcast" \in Tasks(t)
          /\ "registerAccept" \in Tasks(t)' <=> "registerAccept" \in Tasks(t)
      BY <1>2 DEF Edge
    <3> QED
      BY <1>1, <2>2, <3>1, <3>2, NoneIsNull DEF ThreadsOK, ThreadOK
  <2> QED
    BY <2>1, <2>2
<1>4. AcceptsOK'
  BY <1>1, AcceptsFrame
<1>5. ~Unborn(s)
  BY <1>1 DEF UnbornOK
<1>6. UnbornOK'
  <2>1. \A x \in Sessions : Unborn(x)' => Unborn(x) /\ x # s
    BY <1>1, <1>5 DEF Unborn
  <2> QED
    BY <1>1, <2>1 DEF UnbornOK
<1>7. YoungOK'
  <2>1. \A u \in Threads : Young(u)' => Young(u) /\ at[u] # s /\ Tasks(u)' = Tasks(u) /\ at[u] \in Sessions
    <3> SUFFICES ASSUME NEW u \in Threads, Young(u)'
                 PROVE  Young(u) /\ at[u] # s /\ Tasks(u)' = Tasks(u) /\ at[u] \in Sessions
      OBVIOUS
    <3>1. u # t
      BY <1>2, NotYoung DEF Young, Edge
    <3>2. Tasks(u)' = Tasks(u) /\ Young(u)
      BY <1>2, <3>1 DEF Young
    <3> QED
      BY <1>1, <3>2, AtSession DEF Young
  <2> QED
    BY <1>1, <2>1 DEF YoungOK
<1> QED
  BY <1>3, <1>4, <1>6, <1>7

\* Such a step that leaves all but the stack alone
LEMMA QuietStep ==
    ASSUME IInv, NEW t \in Threads, NEW h, NEW R, h \notin Edge, R \cap Edge = {}, Steps(t, h, R),
           UNCHANGED <<sessionVars, op, acceptVars, serviceVars, threadVars, rest>>
    PROVE  ThreadsOK' /\ AcceptsOK' /\ UnbornOK' /\ YoungOK'
<1>1. UNCHANGED <<type, sessions, manager, unstarted, lock, acceptOp, acceptSession, hold, at,
                  accepting, rest, connected, op>>
  BY DEF sessionVars, acceptVars, serviceVars, threadVars
<1> QED
  BY <1>1, CallStep

\* RegisterRecv gives up when the session is no longer connected.
LEMMA RegisterRecvPreserves == ASSUME IInv, NEW t \in Threads, RegisterRecv(t) PROVE IInv'
<1> USE DEF IInv
<1>1. /\ UNCHANGED <<type, connected, sendRegistered, op, owned, sessions, manager, acceptOp, acceptSession, lock,
                     hold, at, accepting, rest, unstarted, deaf, stranded, failed>>
      /\ UNCHANGED <<sessionVars, op, acceptVars, serviceVars, threadVars, rest>>
  BY DEF RegisterRecv, sessionVars, eventVars, acceptVars, serviceVars, threadVars
<1>2. PICK R \in {{}, {"postRecv"}} : Steps(t, "recv", R) /\ (connected[at[t]] => R = {"postRecv"})
  <2>1. Does(t, "recv") /\ Layer("postRecv") <= Layer("recv") /\ "postRecv" \in StepName
    BY DEF RegisterRecv, Layer, StepName
  <2>2. CASE connected[at[t]]
    BY <2>1, <2>2, Calls DEF RegisterRecv
  <2>3. CASE ~connected[at[t]]
    BY <2>1, <2>3, Returns DEF RegisterRecv
  <2> QED
    BY <2>2, <2>3
<1>3. PICK s \in Sessions : s = at[t]
  BY <1>2, NotYoung DEF Edge
<1>4. TypeOK' /\ StacksOK'
  BY <1>1, <1>2 DEF TypeOK, Steps
<1>5. ThreadsOK' /\ AcceptsOK' /\ UnbornOK' /\ YoungOK'
  BY <1>1, <1>2, QuietStep DEF Edge
<1>6. EndingOK' /\ ServiceOK' /\ SendingOK' /\ OwnedOK'
  <2>1. /\ Keeps({"registerDisconnect", "releaseSession"})
        /\ Keeps({"add", "registerDisconnect", "releaseSession", "onDisconnected"})
        /\ Keeps({"registerSend", "postSend", "releaseSend", "unregisterSend"})
        /\ Keeps({"releaseRecv", "releaseSend"})
    BY <1>1, <1>2, StepKeeps
  <2> QED
    BY <1>1, <2>1, EndingFrame, ServiceFrame, SendingFrame, OwnedFrame
<1>7. /\ Receiving(t) /\ (Receiving(t)' => Receiving(t))
      /\ \A u \in Threads \ {t} : (Receiving(u)' <=> Receiving(u)) /\ Tasks(u)' = Tasks(u)
  BY <1>2 DEF Steps, Receiving
<1>8. ReceivingOK'
  <2>1. \A u \in Threads : Reads(u) => Reads(u)' \/ (u = t /\ ~connected[at[u]])
    BY <1>2, <1>7 DEF Steps, Reads
  <2> QED
    BY <1>1, <1>7, <2>1 DEF ReceivingOK
<1> QED
  BY <1>1, <1>4, <1>5, <1>6, <1>8

\* An event is given to the system while nobody uses it.
LEMMA PostFacts ==
    ASSUME TypeOK, NEW s \in Sessions, NEW e \in Event, op[s][e] = "none", Post(s, e)
    PROVE  /\ failed' = "no" /\ op'[s][e] = "posted" /\ e \in owned'[s]
           /\ \A d \in Event \ {e} : op'[s][d] = op[s][d] /\ (d \in owned'[s] <=> d \in owned[s])
           /\ \A x \in Sessions \ {s} : op'[x] = op[x] /\ owned'[x] = owned[x]
           /\ op' \in [Sessions -> [Event -> OpState]] /\ owned' \in [Sessions -> SUBSET Event]
BY DEF TypeOK, Post, OpState

\* WSARecv: the thread hands the event to the system.
LEMMA PostRecvPreserves == ASSUME IInv, NEW t \in Threads, PostRecv(t) PROVE IInv'
<1> USE DEF IInv
<1>1. UNCHANGED <<type, connected, sendRegistered, sessions, manager, acceptOp, acceptSession,
                  lock, hold, at, accepting, rest, unstarted, deaf, stranded>>
  BY DEF PostRecv, sessionVars, eventVars, acceptVars, serviceVars, threadVars
<1>2. Steps(t, "postRecv", {})
  BY Returns DEF PostRecv
<1>3. PICK s \in Sessions : s = at[t]
  BY <1>2, NotYoung DEF Edge
<1>4. Receiving(t) /\ ~Receiving(t)' /\ \A u \in Threads \ {t} : ~(at[u] = s /\ Receiving(u))
  BY <1>2, <1>3 DEF Steps, Layer, Receiving, ReceivingOK
<1>5. /\ failed' = "no" /\ op'[s]["recv"] = "posted" /\ "recv" \in owned'[s]
      /\ \A d \in Event \ {"recv"} : op'[s][d] = op[s][d] /\ (d \in owned'[s] <=> d \in owned[s])
      /\ \A x \in Sessions \ {s} : op'[x] = op[x] /\ owned'[x] = owned[x]
      /\ op' \in [Sessions -> [Event -> OpState]] /\ owned' \in [Sessions -> SUBSET Event]
  <2>1. op[s]["recv"] = "none" /\ "recv" \in Event
    BY <1>3, <1>4 DEF ReceivingOK, Event
  <2> QED
    BY <1>3, <2>1, PostFacts DEF PostRecv
<1>6. TypeOK' /\ StacksOK'
  BY <1>1, <1>2, <1>5 DEF TypeOK, Steps
<1>7. \A x \in Sessions : /\ op'[x]["connect"] = op[x]["connect"] /\ op'[x]["send"] = op[x]["send"]
                           /\ op'[x]["disconnect"] = op[x]["disconnect"]
  BY <1>5 DEF Event
<1>8. ThreadsOK' /\ AcceptsOK' /\ UnbornOK' /\ YoungOK'
  BY <1>1, <1>2, <1>3, <1>5, <1>7, CallStep DEF Edge
<1>9. EndingOK' /\ ServiceOK' /\ SendingOK'
  <2>1. /\ Keeps({"registerDisconnect", "releaseSession"})
        /\ Keeps({"add", "registerDisconnect", "releaseSession", "onDisconnected"})
        /\ Keeps({"registerSend", "postSend", "releaseSend", "unregisterSend"})
    BY <1>1, <1>2, <1>7, StepKeeps
  <2> QED
    BY <1>1, <1>2, <1>7, <2>1, EndingFrame, ServiceFrame, SendingFrame
<1>10. ReceivingOK'
  <2>1. \A u \in Threads \ {t} : (Receiving(u)' <=> Receiving(u)) /\ (Reads(u)' <=> Reads(u))
    BY <1>2 DEF Steps, Receiving, Reads
  <2>2. \A u \in Threads : Receiving(u) => at[u] \in Sessions
    BY AtSession DEF Receiving
  <2> QED
    BY <1>1, <1>3, <1>4, <1>5, <2>1, <2>2 DEF ReceivingOK
<1>11. OwnedOK'
  <2>1. \A u \in Threads : /\ "releaseSend" \in Tasks(u) => "releaseSend" \in Tasks(u)'
                           /\ "releaseRecv" \in Tasks(u) => "releaseRecv" \in Tasks(u)'
    BY <1>2 DEF Steps
  <2> QED
    BY <1>1, <1>3, <1>5, <2>1 DEF OwnedOK
<1> QED
  BY <1>5, <1>6, <1>8, <1>9, <1>10, <1>11

\* WSARecv fails at once: HandleError disconnects, or nothing will be received again.
LEMMA PostRecvFailPreserves ==
    ASSUME IInv, NEW t \in Threads, NEW error \in Error,
           PostRecvFail(t, error)
    PROVE  IInv'
<1> USE DEF IInv
<1>1. UNCHANGED <<type, connected, sendRegistered, op, sessions, manager, acceptOp, acceptSession,
                  lock, hold, at, accepting, rest, unstarted, stranded, failed>>
  BY DEF PostRecvFail, sessionVars, eventVars, acceptVars, serviceVars, threadVars
<1>2. PICK R \in {{"releaseRecv"}, {"disconnect", "releaseRecv"}} :
        Steps(t, "postRecv", R) /\ (error = "reset" => R = {"disconnect", "releaseRecv"})
  <2>1. /\ Does(t, "postRecv") /\ Layer("releaseRecv") <= Layer("postRecv")
        /\ Layer("disconnect") <= Layer("postRecv") /\ Layer("disconnect") < Layer("releaseRecv")
        /\ "releaseRecv" \in StepName /\ "disconnect" \in StepName
    BY DEF PostRecvFail, Layer, StepName
  <2>2. CASE error = "reset"
    <3>1. Then(t, <<"disconnect", "releaseRecv">>)
      <4>1. <<"disconnect">> \o <<"releaseRecv">> = <<"disconnect", "releaseRecv">>
        BY <2>1, CallBeforeOne
      <4> QED
        BY <2>2, <4>1 DEF PostRecvFail, OnError
    <3> QED
      BY <2>1, <3>1, CallsTwo
  <2>3. CASE error # "reset"
    <3>1. Then(t, <<"releaseRecv">>)
      <4>1. OnError(error) \o <<"releaseRecv">> = <<"releaseRecv">>
        BY <2>3 DEF OnError
      <4> QED
        BY <4>1 DEF PostRecvFail
    <3> QED
      BY <2>1, <2>3, <3>1, Calls
  <2> QED
    BY <2>2, <2>3
<1>3. PICK s \in Sessions : s = at[t]
  BY <1>2, NotYoung DEF Edge
<1>4. /\ owned' = [owned EXCEPT ![s] = @ \cup {"recv"}]
      /\ deaf' = IF error = "reset" THEN deaf ELSE deaf \cup {s}
  BY <1>3 DEF PostRecvFail
<1>5. TypeOK' /\ StacksOK'
  BY <1>1, <1>2, <1>3, <1>4 DEF TypeOK, Steps, Event
<1>6. ThreadsOK' /\ AcceptsOK' /\ UnbornOK' /\ YoungOK'
  BY <1>1, <1>2, <1>3, CallStep DEF Edge
<1>7. EndingOK' /\ ServiceOK' /\ SendingOK'
  <2>1. /\ Keeps({"registerDisconnect", "releaseSession"})
        /\ Keeps({"add", "registerDisconnect", "releaseSession", "onDisconnected"})
        /\ Keeps({"registerSend", "postSend", "releaseSend", "unregisterSend"})
    BY <1>1, <1>2, StepKeeps
  <2> QED
    BY <1>1, <1>2, <2>1, EndingFrame, ServiceFrame, SendingFrame
<1>8. ReceivingOK'
  <2>1. \A u \in Threads : /\ Receiving(u)' <=> Receiving(u)
                           /\ Reads(u) => Reads(u)' \/ (u = t /\ s \in deaf')
    BY <1>2, <1>4 DEF Steps, Receiving, Reads
  <2> QED
    BY <1>1, <1>3, <1>4, <2>1 DEF ReceivingOK
<1>9. OwnedOK'
  <2>1. /\ "recv" \in owned'[s] /\ \A d \in Event \ {"recv"} : d \in owned'[s] <=> d \in owned[s]
        /\ \A x \in Sessions \ {s} : owned'[x] = owned[x]
    BY <1>4 DEF TypeOK
  <2>2. /\ \A u \in Threads : /\ "releaseSend" \in Tasks(u) => "releaseSend" \in Tasks(u)'
                              /\ "releaseRecv" \in Tasks(u) => "releaseRecv" \in Tasks(u)'
        /\ "releaseRecv" \in Tasks(t)'
    BY <1>2 DEF Steps
  <2> QED
    BY <1>1, <1>3, <2>1, <2>2 DEF OwnedOK
<1> QED
  BY <1>1, <1>5, <1>6, <1>7, <1>8, <1>9

\* The reference of a call that failed is taken back.
LEMMA ReleaseRecvPreserves == ASSUME IInv, NEW t \in Threads, ReleaseRecv(t) PROVE IInv'
<1> USE DEF IInv
<1>1. UNCHANGED <<type, connected, sendRegistered, op, sessions, manager, acceptOp, acceptSession,
                  lock, hold, at, accepting, rest, unstarted, deaf, stranded, failed>>
  BY DEF ReleaseRecv, sessionVars, eventVars, acceptVars, serviceVars, threadVars
<1>2. Steps(t, "releaseRecv", {})
  BY Returns DEF ReleaseRecv
<1>3. PICK s \in Sessions : s = at[t]
  BY <1>2, NotYoung DEF Edge
<1>4. owned' = [owned EXCEPT ![s] = @ \ {"recv"}] /\ op[s]["recv"] = "none"
  BY <1>2, <1>3 DEF ReleaseRecv, Steps, Receiving, ReceivingOK
<1>5. TypeOK' /\ StacksOK'
  BY <1>1, <1>2, <1>4 DEF TypeOK, Steps
<1>6. ThreadsOK' /\ AcceptsOK' /\ UnbornOK' /\ YoungOK'
  BY <1>1, <1>2, <1>3, CallStep DEF Edge
<1>7. EndingOK' /\ ServiceOK' /\ SendingOK'
  <2>1. /\ Keeps({"registerDisconnect", "releaseSession"})
        /\ Keeps({"add", "registerDisconnect", "releaseSession", "onDisconnected"})
        /\ Keeps({"registerSend", "postSend", "releaseSend", "unregisterSend"})
    BY <1>1, <1>2, StepKeeps
  <2> QED
    BY <1>1, <1>2, <2>1, EndingFrame, ServiceFrame, SendingFrame
<1>8. ReceivingOK'
  <2>1. \A u \in Threads : (Receiving(u)' => Receiving(u)) /\ (Reads(u) => Reads(u)')
    BY <1>2 DEF Steps, Receiving, Reads
  <2> QED
    BY <1>1, <2>1 DEF ReceivingOK
<1>9. OwnedOK'
  <2>1. /\ "recv" \notin owned'[s] /\ \A d \in Event \ {"recv"} : d \in owned'[s] <=> d \in owned[s]
        /\ \A x \in Sessions \ {s} : owned'[x] = owned[x]
    BY <1>4 DEF TypeOK
  <2>2. \A u \in Threads : /\ "releaseSend" \in Tasks(u) => "releaseSend" \in Tasks(u)'
                           /\ "releaseRecv" \in Tasks(u) => "releaseRecv" \in Tasks(u)' \/ u = t
    BY <1>2 DEF Steps
  <2> QED
    BY <1>1, <1>3, <1>4, <2>1, <2>2 DEF OwnedOK
<1> QED
  BY <1>1, <1>5, <1>6, <1>7, <1>8, <1>9

\* The reference of a call that failed is taken back.
LEMMA ReleaseSendPreserves == ASSUME IInv, NEW t \in Threads, ReleaseSend(t) PROVE IInv'
<1> USE DEF IInv
<1>1. UNCHANGED <<type, connected, sendRegistered, op, sessions, manager, acceptOp, acceptSession,
                  lock, hold, at, accepting, rest, unstarted, deaf, stranded, failed>>
  BY DEF ReleaseSend, sessionVars, eventVars, acceptVars, serviceVars, threadVars
<1>2. Steps(t, "releaseSend", {})
  BY Returns DEF ReleaseSend
<1>3. PICK s \in Sessions : s = at[t]
  BY <1>2, NotYoung DEF Edge
<1>4. owned' = [owned EXCEPT ![s] = @ \ {"send"}] /\ op[s]["send"] = "none"
  BY <1>2, <1>3 DEF ReleaseSend, Steps, Sending, SendingOK
<1>5. TypeOK' /\ StacksOK'
  BY <1>1, <1>2, <1>4 DEF TypeOK, Steps
<1>6. ThreadsOK' /\ AcceptsOK' /\ UnbornOK' /\ YoungOK'
  BY <1>1, <1>2, <1>3, CallStep DEF Edge
<1>7. EndingOK' /\ ServiceOK' /\ ReceivingOK'
  <2>1. /\ Keeps({"registerDisconnect", "releaseSession"})
        /\ Keeps({"add", "registerDisconnect", "releaseSession", "onDisconnected"})
        /\ Keeps({"recv", "postRecv", "releaseRecv"})
    BY <1>1, <1>2, StepKeeps
  <2>2. \A u \in Threads : Reads(u) => Reads(u)'
    BY <1>1, <1>2 DEF Steps, Reads
  <2> QED
    BY <1>1, <1>2, <2>1, <2>2, EndingFrame, ServiceFrame, ReceivingFrame
<1>8. SendingOK'
  <2>1. \A u \in Threads : Sending(u)' => Sending(u)
    BY <1>2 DEF Steps, Sending
  <2> QED
    BY <1>1, <2>1 DEF SendingOK
<1>9. OwnedOK'
  <2>1. /\ "send" \notin owned'[s] /\ \A d \in Event \ {"send"} : d \in owned'[s] <=> d \in owned[s]
        /\ \A x \in Sessions \ {s} : owned'[x] = owned[x]
    BY <1>4 DEF TypeOK
  <2>2. \A u \in Threads : /\ "releaseRecv" \in Tasks(u) => "releaseRecv" \in Tasks(u)'
                           /\ "releaseSend" \in Tasks(u) => "releaseSend" \in Tasks(u)' \/ u = t
    BY <1>2 DEF Steps
  <2> QED
    BY <1>1, <1>3, <1>4, <2>1, <2>2 DEF OwnedOK
<1> QED
  BY <1>1, <1>5, <1>6, <1>7, <1>8, <1>9

\* Send: one thread finds m_sendRegistered unset and sends.
LEMMA SendPreserves == ASSUME IInv, NEW t \in Threads, Send(t) PROVE IInv'
<1> USE DEF IInv
<1>1. UNCHANGED <<type, connected, op, owned, sessions, manager, acceptOp, acceptSession, lock,
                  hold, at, accepting, rest, unstarted, deaf, stranded, failed>>
  BY DEF Send, sessionVars, eventVars, acceptVars, serviceVars, threadVars
<1>2. PICK R \in {{}, {"registerSend"}} :
        Steps(t, "send", R) /\ (R = {"registerSend"} <=> connected[at[t]] /\ ~sendRegistered[at[t]])
  <2>1. Does(t, "send") /\ Layer("registerSend") <= Layer("send") /\ "registerSend" \in StepName
    BY DEF Send, Layer, StepName
  <2>2. CASE connected[at[t]] /\ ~sendRegistered[at[t]]
    BY <2>1, <2>2, Calls DEF Send
  <2>3. CASE ~(connected[at[t]] /\ ~sendRegistered[at[t]])
    BY <2>1, <2>3, Returns DEF Send
  <2> QED
    BY <2>2, <2>3
<1>3. PICK s \in Sessions : s = at[t]
  BY <1>2, NotYoung DEF Edge
<1>4. sendRegistered' = [sendRegistered EXCEPT ![s] = @ \/ connected[s]]
  BY <1>3 DEF Send
<1>5. TypeOK' /\ StacksOK'
  BY <1>1, <1>2, <1>3, <1>4 DEF TypeOK, Steps
<1>6. ThreadsOK' /\ AcceptsOK' /\ UnbornOK' /\ YoungOK'
  BY <1>1, <1>2, <1>3, CallStep DEF Edge
<1>7. EndingOK' /\ ServiceOK' /\ ReceivingOK' /\ OwnedOK'
  <2>1. /\ Keeps({"registerDisconnect", "releaseSession"})
        /\ Keeps({"add", "registerDisconnect", "releaseSession", "onDisconnected"})
        /\ Keeps({"recv", "postRecv", "releaseRecv"})
        /\ Keeps({"releaseRecv", "releaseSend"})
    BY <1>1, <1>2, StepKeeps
  <2>2. \A u \in Threads : Reads(u) => Reads(u)'
    BY <1>1, <1>2 DEF Steps, Reads
  <2> QED
    BY <1>1, <1>2, <2>1, <2>2, EndingFrame, ServiceFrame, ReceivingFrame, OwnedFrame
<1>8. SendingOK'
  <2>1. /\ \A x \in Sessions \ {s} : sendRegistered'[x] = sendRegistered[x]
        /\ sendRegistered[s] => sendRegistered'[s]
        /\ R = {"registerSend"} => sendRegistered'[s] /\ ~sendRegistered[s]
    BY <1>2, <1>3, <1>4 DEF TypeOK
  <2>2. \A u \in Threads : Sending(u)' => Sending(u) \/ (u = t /\ R = {"registerSend"})
    BY <1>2 DEF Steps, Sending
  <2>3. \A u \in Threads : Sending(u) => at[u] \in Sessions
    BY AtSession DEF Sending
  <2> QED
    BY <1>1, <1>3, <2>1, <2>2, <2>3 DEF SendingOK
<1> QED
  BY <1>1, <1>5, <1>6, <1>7, <1>8

\* RegisterSend gives up when the session is no longer connected.
LEMMA RegisterSendPreserves == ASSUME IInv, NEW t \in Threads, RegisterSend(t) PROVE IInv'
<1> USE DEF IInv
<1>1. UNCHANGED <<type, connected, sendRegistered, op, owned, sessions, manager, acceptOp,
                  acceptSession, lock, hold, at, accepting, rest, unstarted, deaf, stranded,
                  failed>>
  BY DEF RegisterSend, sessionVars, eventVars, acceptVars, serviceVars, threadVars
<1>2. PICK R \in {{}, {"postSend"}} : Steps(t, "registerSend", R) /\ (R = {"postSend"} <=> connected[at[t]])
  <2>1. Does(t, "registerSend") /\ Layer("postSend") <= Layer("registerSend") /\ "postSend" \in StepName
    BY DEF RegisterSend, Layer, StepName
  <2>2. CASE connected[at[t]]
    BY <2>1, <2>2, Calls DEF RegisterSend
  <2>3. CASE ~(connected[at[t]])
    BY <2>1, <2>3, Returns DEF RegisterSend
  <2> QED
    BY <2>2, <2>3
<1>3. TypeOK' /\ StacksOK'
  BY <1>1, <1>2 DEF TypeOK, Steps
<1>4. ThreadsOK' /\ AcceptsOK' /\ UnbornOK' /\ YoungOK'
  BY <1>1, <1>2, CallStep DEF Edge
<1>5. EndingOK' /\ ServiceOK' /\ ReceivingOK' /\ OwnedOK'
  <2>1. /\ Keeps({"registerDisconnect", "releaseSession"})
        /\ Keeps({"add", "registerDisconnect", "releaseSession", "onDisconnected"})
        /\ Keeps({"recv", "postRecv", "releaseRecv"})
        /\ Keeps({"releaseRecv", "releaseSend"})
    BY <1>1, <1>2, StepKeeps
  <2>2. \A u \in Threads : Reads(u) => Reads(u)'
    BY <1>1, <1>2 DEF Steps, Reads
  <2> QED
    BY <1>1, <1>2, <2>1, <2>2, EndingFrame, ServiceFrame, ReceivingFrame, OwnedFrame
<1>6. SendingOK'
  <2>1. \A u \in Threads : Sending(u)' => Sending(u)
    BY <1>2 DEF Steps, Sending
  <2> QED
    BY <1>1, <2>1 DEF SendingOK
<1> QED
  BY <1>1, <1>3, <1>4, <1>5, <1>6

\* WSASend: the thread hands the event to the system.
LEMMA PostSendPreserves == ASSUME IInv, NEW t \in Threads, PostSend(t) PROVE IInv'
<1> USE DEF IInv
<1>1. UNCHANGED <<type, connected, sendRegistered, sessions, manager, acceptOp, acceptSession,
                  lock, hold, at, accepting, rest, unstarted, deaf, stranded>>
  BY DEF PostSend, sessionVars, eventVars, acceptVars, serviceVars, threadVars
<1>2. Steps(t, "postSend", {})
  BY Returns DEF PostSend
<1>3. PICK s \in Sessions : s = at[t]
  BY <1>2, NotYoung DEF Edge
<1>4. Sending(t) /\ ~Sending(t)' /\ \A u \in Threads \ {t} : ~(at[u] = s /\ Sending(u))
  <2>1. \A x \in Tasks(t) \ {"postSend"} : Layer(x) # Layer("postSend")
    BY <1>2, Layers DEF Steps, Layer
  <2>2. /\ Layer("postSend") = 3 /\ Layer("registerSend") = 3 /\ Layer("unregisterSend") = 3
        /\ Layer("releaseSend") = 2
    BY DEF Layer
  <2>3. "postSend" \in Tasks(t) /\ Tasks(t)' \subseteq Tasks(t) /\ "postSend" \notin Tasks(t)'
    BY <1>2 DEF Steps
  <2>4. "releaseSend" \notin Tasks(t)
    BY <1>2, <2>2 DEF Steps
  <2> QED
    BY <1>3, <2>1, <2>2, <2>3, <2>4 DEF Sending, SendingOK
<1>5. /\ failed' = "no" /\ op'[s]["send"] = "posted" /\ "send" \in owned'[s]
      /\ \A d \in Event \ {"send"} : op'[s][d] = op[s][d] /\ (d \in owned'[s] <=> d \in owned[s])
      /\ \A x \in Sessions \ {s} : op'[x] = op[x] /\ owned'[x] = owned[x]
      /\ op' \in [Sessions -> [Event -> OpState]] /\ owned' \in [Sessions -> SUBSET Event]
  <2>1. op[s]["send"] = "none" /\ "send" \in Event
    BY <1>3, <1>4 DEF SendingOK, Event
  <2> QED
    BY <1>3, <2>1, PostFacts DEF PostSend
<1>6. TypeOK' /\ StacksOK'
  BY <1>1, <1>2, <1>5 DEF TypeOK, Steps
<1>7. \A x \in Sessions : /\ op'[x]["connect"] = op[x]["connect"] /\ op'[x]["recv"] = op[x]["recv"]
                          /\ op'[x]["disconnect"] = op[x]["disconnect"]
  BY <1>5 DEF Event
<1>8. ThreadsOK' /\ AcceptsOK' /\ UnbornOK' /\ YoungOK'
  BY <1>1, <1>2, <1>3, <1>5, <1>7, CallStep DEF Edge
<1>9. EndingOK' /\ ServiceOK' /\ ReceivingOK'
  <2>1. /\ Keeps({"registerDisconnect", "releaseSession"})
        /\ Keeps({"add", "registerDisconnect", "releaseSession", "onDisconnected"})
        /\ Keeps({"recv", "postRecv", "releaseRecv"})
    BY <1>1, <1>2, <1>7, StepKeeps
  <2>2. \A u \in Threads : Reads(u) => Reads(u)'
    BY <1>1, <1>2, <1>7 DEF Steps, Reads
  <2> QED
    BY <1>1, <1>2, <1>7, <2>1, <2>2, EndingFrame, ServiceFrame, ReceivingFrame
<1>10. SendingOK'
  <2>1. \A u \in Threads \ {t} : Sending(u)' <=> Sending(u)
    BY <1>2 DEF Steps, Sending
  <2>2. \A u \in Threads : Sending(u) => at[u] \in Sessions
    BY AtSession DEF Sending
  <2> QED
    BY <1>1, <1>3, <1>4, <1>5, <2>1, <2>2 DEF SendingOK
<1>11. OwnedOK'
  <2>1. \A u \in Threads : /\ "releaseSend" \in Tasks(u) => "releaseSend" \in Tasks(u)'
                           /\ "releaseRecv" \in Tasks(u) => "releaseRecv" \in Tasks(u)'
    BY <1>2 DEF Steps
  <2> QED
    BY <1>1, <1>3, <1>5, <2>1 DEF OwnedOK
<1> QED
  BY <1>5, <1>6, <1>8, <1>9, <1>10, <1>11

\* WSASend fails at once: HandleError disconnects or not, and the event is let go.
LEMMA PostSendFailPreserves ==
    ASSUME IInv, NEW t \in Threads, NEW error \in Error,
           PostSendFail(t, error)
    PROVE  IInv'
<1> USE DEF IInv
<1>1. UNCHANGED <<type, connected, sendRegistered, op, sessions, manager, acceptOp, acceptSession,
                  lock, hold, at, accepting, rest, unstarted, deaf, stranded, failed>>
  BY DEF PostSendFail, sessionVars, eventVars, acceptVars, serviceVars, threadVars
<1>2. PICK R \in {{"releaseSend", "unregisterSend"}, {"disconnect", "releaseSend", "unregisterSend"}} :
        Steps(t, "postSend", R)
  <2>1. /\ Does(t, "postSend") /\ Layer("releaseSend") = 2 /\ Layer("unregisterSend") = 3
        /\ Layer("disconnect") = 1 /\ Layer("postSend") = 3
        /\ "releaseSend" \in StepName /\ "disconnect" \in StepName /\ "unregisterSend" \in StepName
    BY DEF PostSendFail, Layer, StepName
  <2>2. CASE error = "reset"
    <3>1. Then(t, <<"disconnect", "releaseSend", "unregisterSend">>)
      <4>1. <<"disconnect">> \o <<"releaseSend", "unregisterSend">> = <<"disconnect", "releaseSend", "unregisterSend">>
        BY <2>1, CallBeforeTwo
      <4> QED
        BY <2>2, <4>1 DEF PostSendFail, OnError
    <3> QED
      BY <2>1, <3>1, CallsThree
  <2>3. CASE error # "reset"
    <3>1. Then(t, <<"releaseSend", "unregisterSend">>)
      <4>1. OnError(error) \o <<"releaseSend", "unregisterSend">> = <<"releaseSend", "unregisterSend">>
        BY <2>3 DEF OnError
      <4> QED
        BY <4>1 DEF PostSendFail
    <3> QED
      BY <2>1, <2>3, <3>1, CallsTwo
  <2> QED
    BY <2>2, <2>3
<1>3. PICK s \in Sessions : s = at[t]
  BY <1>2, NotYoung DEF Edge
<1>4. owned' = [owned EXCEPT ![s] = @ \cup {"send"}]
  BY <1>3 DEF PostSendFail
<1>5. TypeOK' /\ StacksOK'
  BY <1>1, <1>2, <1>3, <1>4 DEF TypeOK, Steps, Event
<1>6. ThreadsOK' /\ AcceptsOK' /\ UnbornOK' /\ YoungOK'
  BY <1>1, <1>2, <1>3, CallStep DEF Edge
<1>7. EndingOK' /\ ServiceOK' /\ ReceivingOK'
  <2>1. /\ Keeps({"registerDisconnect", "releaseSession"})
        /\ Keeps({"add", "registerDisconnect", "releaseSession", "onDisconnected"})
        /\ Keeps({"recv", "postRecv", "releaseRecv"})
    BY <1>1, <1>2, StepKeeps
  <2>2. \A u \in Threads : Reads(u) => Reads(u)'
    BY <1>1, <1>2 DEF Steps, Reads
  <2> QED
    BY <1>1, <1>2, <2>1, <2>2, EndingFrame, ServiceFrame, ReceivingFrame
<1>8. SendingOK'
  <2>1. \A u \in Threads : Sending(u)' <=> Sending(u)
    BY <1>2 DEF Steps, Sending
  <2> QED
    BY <1>1, <2>1 DEF SendingOK
<1>9. OwnedOK'
  <2>1. /\ "send" \in owned'[s] /\ \A d \in Event \ {"send"} : d \in owned'[s] <=> d \in owned[s]
        /\ \A x \in Sessions \ {s} : owned'[x] = owned[x]
    BY <1>3, <1>4 DEF TypeOK
  <2>2. /\ \A u \in Threads : /\ "releaseSend" \in Tasks(u) => "releaseSend" \in Tasks(u)'
                              /\ "releaseRecv" \in Tasks(u) => "releaseRecv" \in Tasks(u)'
        /\ "releaseSend" \in Tasks(t)'
    BY <1>2 DEF Steps
  <2> QED
    BY <1>1, <1>3, <2>1, <2>2 DEF OwnedOK
<1> QED
  BY <1>1, <1>5, <1>6, <1>7, <1>8, <1>9

\* m_sendRegistered is reset: the thread was the one that sends.
LEMMA UnregisterSendPreserves == ASSUME IInv, NEW t \in Threads, UnregisterSend(t) PROVE IInv'
<1> USE DEF IInv
<1>1. UNCHANGED <<type, connected, op, owned, sessions, manager, acceptOp, acceptSession, lock,
                  hold, at, accepting, rest, unstarted, deaf, stranded, failed>>
  BY DEF UnregisterSend, sessionVars, eventVars, acceptVars, serviceVars, threadVars
<1>2. Steps(t, "unregisterSend", {})
  BY Returns DEF UnregisterSend
<1>3. PICK s \in Sessions : s = at[t]
  BY <1>2, NotYoung DEF Edge
<1>4. sendRegistered' = [sendRegistered EXCEPT ![s] = FALSE]
  BY <1>3 DEF UnregisterSend
<1>5. TypeOK' /\ StacksOK'
  BY <1>1, <1>2, <1>3, <1>4 DEF TypeOK, Steps
<1>6. ThreadsOK' /\ AcceptsOK' /\ UnbornOK' /\ YoungOK'
  BY <1>1, <1>2, CallStep DEF Edge
<1>7. EndingOK' /\ ServiceOK' /\ ReceivingOK' /\ OwnedOK'
  <2>1. /\ Keeps({"registerDisconnect", "releaseSession"})
        /\ Keeps({"add", "registerDisconnect", "releaseSession", "onDisconnected"})
        /\ Keeps({"recv", "postRecv", "releaseRecv"})
        /\ Keeps({"releaseRecv", "releaseSend"})
    BY <1>1, <1>2, StepKeeps
  <2>2. \A u \in Threads : Reads(u) => Reads(u)'
    BY <1>1, <1>2 DEF Steps, Reads
  <2> QED
    BY <1>1, <1>2, <2>1, <2>2, EndingFrame, ServiceFrame, ReceivingFrame, OwnedFrame
<1>8. SendingOK'
  <2>1. Sending(t) /\ ~Sending(t)' /\ \A u \in Threads \ {t} : ~(at[u] = s /\ Sending(u))
    <3>1. \A x \in Tasks(t) \ {"unregisterSend"} : Layer(x) # Layer("unregisterSend")
      BY <1>2, Layers DEF Steps, Layer
    <3>2. /\ Layer("postSend") = 3 /\ Layer("registerSend") = 3 /\ Layer("unregisterSend") = 3
          /\ Layer("releaseSend") = 2
      BY DEF Layer
    <3>3. "unregisterSend" \in Tasks(t) /\ Tasks(t)' \subseteq Tasks(t) /\ "unregisterSend" \notin Tasks(t)'
      BY <1>2 DEF Steps
    <3>4. "releaseSend" \notin Tasks(t)
      BY <1>2, <3>2 DEF Steps
    <3> QED
      BY <1>3, <3>1, <3>2, <3>3, <3>4 DEF Sending, SendingOK
  <2>2. \A u \in Threads \ {t} : Sending(u)' <=> Sending(u)
    BY <1>2 DEF Steps, Sending
  <2>3. op[s]["send"] = "none" /\ \A x \in Sessions \ {s} : sendRegistered'[x] = sendRegistered[x]
    BY <1>3, <1>4, <2>1 DEF SendingOK, TypeOK
  <2>4. \A u \in Threads : Sending(u) => at[u] \in Sessions
    BY AtSession DEF Sending
  <2> QED
    BY <1>1, <1>3, <2>1, <2>2, <2>3, <2>4 DEF SendingOK
<1> QED
  BY <1>1, <1>5, <1>6, <1>7, <1>8

\* Disconnect: the exchange of m_connected lets one thread through.
LEMMA DisconnectPreserves == ASSUME IInv, NEW t \in Threads, Disconnect(t) PROVE IInv'
<1> USE DEF IInv
<1>1. UNCHANGED <<type, sendRegistered, op, owned, sessions, manager, acceptOp, acceptSession,
                  lock, hold, at, accepting, rest, unstarted, deaf, stranded, failed>>
  BY DEF Disconnect, sessionVars, eventVars, acceptVars, serviceVars, threadVars
<1>2. PICK R \in {{}, {"registerDisconnect"}} :
        Steps(t, "disconnect", R) /\ (R = {"registerDisconnect"} <=> connected[at[t]])
  <2>1. Does(t, "disconnect") /\ Layer("registerDisconnect") <= Layer("disconnect") /\ "registerDisconnect" \in StepName
    BY DEF Disconnect, Layer, StepName
  <2>2. CASE connected[at[t]]
    BY <2>1, <2>2, Calls DEF Disconnect
  <2>3. CASE ~(connected[at[t]])
    BY <2>1, <2>3, Returns DEF Disconnect
  <2> QED
    BY <2>2, <2>3
<1>3. PICK s \in Sessions : s = at[t]
  BY <1>2, NotYoung DEF Edge
<1>4. connected' = [connected EXCEPT ![s] = FALSE]
  BY <1>3 DEF Disconnect
<1>5. TypeOK' /\ StacksOK'
  BY <1>1, <1>2, <1>3, <1>4 DEF TypeOK, Steps
<1>6. /\ ~connected'[s] /\ \A x \in Sessions \ {s} : connected'[x] = connected[x]
      /\ \A u \in Threads : "add" \in Tasks(u) => at[u] # s
  BY <1>2, <1>3, <1>4, NotYoung DEF TypeOK, Young, Edge
<1>7. ThreadsOK' /\ AcceptsOK' /\ UnbornOK' /\ YoungOK'
  BY <1>1, <1>2, <1>3, <1>6, CallStep DEF Edge
<1>8. SendingOK' /\ OwnedOK'
  <2>1. /\ Keeps({"registerSend", "postSend", "releaseSend", "unregisterSend"})
        /\ Keeps({"releaseRecv", "releaseSend"})
    BY <1>1, <1>2, StepKeeps
  <2> QED
    BY <1>1, <1>2, <2>1, SendingFrame, OwnedFrame
<1>9. /\ \A u \in Threads : Ending(u)' <=> Ending(u) \/ (u = t /\ connected[s])
      /\ \A u \in Threads : Ending(u) => at[u] \in Sessions /\ (at[u] = s => ~connected[s])
      /\ connected[s] => s \in sessions /\ op[s]["disconnect"] = "none"
  <2>1. \A u \in Threads : Ending(u)' <=> Ending(u) \/ (u = t /\ connected[s])
    BY <1>2, <1>3 DEF Steps, Ending
  <2>2. \A u \in Threads : Ending(u) => at[u] \in Sessions /\ (at[u] = s => ~connected[s])
    BY AtSession DEF Ending, EndingOK
  <2> QED
    BY <1>3, <1>6, <2>1, <2>2 DEF EndingOK, ServiceOK
<1>10. EndingOK'
  BY <1>1, <1>3, <1>6, <1>9 DEF EndingOK
<1>11. ServiceOK'
  <2>1. \A u \in Threads : /\ "add" \in Tasks(u) => "add" \in Tasks(u)'
                           /\ "onDisconnected" \in Tasks(u) => "onDisconnected" \in Tasks(u)'
                           /\ "releaseSession" \in Tasks(u)' => "releaseSession" \in Tasks(u)
    BY <1>2 DEF Steps
  <2>2. at' = at /\ op' = op /\ sessions' = sessions /\ manager' = manager /\ stranded' = stranded
    BY <1>1, <1>2 DEF Steps
  <2>3. ASSUME NEW x \in Sessions, connected'[x]
        PROVE  x \in sessions \/ \E u \in Threads : at[u] = x /\ "add" \in Tasks(u)'
    <3>1. connected[x]
      BY <1>6, <2>3
    <3>2. x \in sessions \/ \E u \in Threads : at[u] = x /\ "add" \in Tasks(u)
      BY <3>1 DEF ServiceOK
    <3> QED
      BY <2>1, <3>2
  <2>4. ASSUME NEW x \in sessions
        PROVE  \/ connected'[x] \/ op[x]["disconnect"] # "none" \/ x \in stranded
               \/ \E u \in Threads : at[u] = x /\ Ending(u)'
    <3>1. \/ connected[x] \/ op[x]["disconnect"] # "none" \/ x \in stranded
          \/ \E u \in Threads : at[u] = x /\ Ending(u)
      BY DEF ServiceOK
    <3>2. x \in Sessions
      BY DEF TypeOK
    <3> QED
      BY <1>3, <1>6, <1>9, <3>1, <3>2
  <2>5. manager \subseteq sessions
    BY DEF ServiceOK
  <2>6. \A u \in Threads : "releaseSession" \in Tasks(u)' => "onDisconnected" \in Tasks(u)' \/ at[u] \notin manager
    BY <2>1 DEF ServiceOK
  <2> QED
    BY <2>2, <2>3, <2>4, <2>5, <2>6 DEF ServiceOK
<1>12. ReceivingOK'
  <2>1. \A u \in Threads : (Receiving(u)' <=> Receiving(u)) /\ (at[u] # s /\ Reads(u) => Reads(u)')
    BY <1>2, <1>3 DEF Steps, Receiving, Reads
  <2> QED
    BY <1>1, <1>6, <2>1 DEF ReceivingOK
<1> QED
  BY <1>1, <1>5, <1>7, <1>8, <1>10, <1>11, <1>12

\* DisconnectEx: the one thread that got through hands the event to the system.
LEMMA RegisterDisconnectPreserves ==
    ASSUME IInv, NEW t \in Threads,
           RegisterDisconnect(t)
    PROVE  IInv'
<1> USE DEF IInv
<1>1. UNCHANGED <<type, connected, sendRegistered, sessions, manager, acceptOp, acceptSession,
                  lock, hold, at, accepting, rest, unstarted, deaf, stranded>>
  BY DEF RegisterDisconnect, sessionVars, eventVars, acceptVars, serviceVars, threadVars
<1>2. Steps(t, "registerDisconnect", {})
  BY Returns DEF RegisterDisconnect
<1>3. PICK s \in Sessions : s = at[t]
  BY <1>2, NotYoung DEF Edge
<1>4. /\ Ending(t) /\ ~Ending(t)' /\ \A u \in Threads : ~(u # t /\ at[u] = s /\ Ending(u))
      /\ ~connected[s] /\ s \in sessions
  <2>1. "registerDisconnect" \in Tasks(t) /\ "releaseSession" \notin Tasks(t)
    BY <1>2, NotYoung DEF Steps, Edge
  <2> QED
    BY <1>2, <1>3, <2>1 DEF Steps, Ending, EndingOK
<1>5. /\ failed' = "no" /\ op'[s]["disconnect"] = "posted" /\ "disconnect" \in owned'[s]
      /\ \A d \in Event \ {"disconnect"} : op'[s][d] = op[s][d] /\ (d \in owned'[s] <=> d \in owned[s])
      /\ \A x \in Sessions \ {s} : op'[x] = op[x] /\ owned'[x] = owned[x]
      /\ op' \in [Sessions -> [Event -> OpState]] /\ owned' \in [Sessions -> SUBSET Event]
  <2>1. op[s]["disconnect"] = "none" /\ "disconnect" \in Event
    BY <1>3, <1>4 DEF EndingOK, Event
  <2> QED
    BY <1>3, <2>1, PostFacts DEF RegisterDisconnect
<1>6. TypeOK' /\ StacksOK'
  BY <1>1, <1>2, <1>5 DEF TypeOK, Steps
<1>7. \A x \in Sessions : /\ op'[x]["connect"] = op[x]["connect"] /\ op'[x]["recv"] = op[x]["recv"]
                          /\ op'[x]["send"] = op[x]["send"]
  BY <1>5 DEF Event
<1>8. ThreadsOK' /\ AcceptsOK' /\ UnbornOK' /\ YoungOK'
  BY <1>1, <1>2, <1>3, <1>5, <1>7, CallStep DEF Edge
<1>9. SendingOK' /\ ReceivingOK'
  <2>1. /\ Keeps({"registerSend", "postSend", "releaseSend", "unregisterSend"})
        /\ Keeps({"recv", "postRecv", "releaseRecv"})
    BY <1>1, <1>2, <1>7, StepKeeps
  <2>2. \A u \in Threads : Reads(u) => Reads(u)'
    BY <1>1, <1>2, <1>7 DEF Steps, Reads
  <2> QED
    BY <1>1, <1>2, <1>7, <2>1, <2>2, SendingFrame, ReceivingFrame
<1>10. /\ \A u \in Threads : Ending(u)' <=> Ending(u) /\ u # t
       /\ \A u \in Threads : Ending(u) => at[u] \in Sessions
  <2>1. \A u \in Threads : Ending(u) => at[u] \in Sessions
    BY AtSession DEF Ending
  <2>2. \A u \in Threads \ {t} : Ending(u)' <=> Ending(u)
    BY <1>2 DEF Steps, Ending
  <2> QED
    BY <1>4, <2>1, <2>2
<1>11. EndingOK'
  BY <1>1, <1>3, <1>4, <1>5, <1>10 DEF EndingOK
<1>12. ServiceOK'
  <2>1. \A u \in Threads : /\ "add" \in Tasks(u) => "add" \in Tasks(u)'
                           /\ "onDisconnected" \in Tasks(u) => "onDisconnected" \in Tasks(u)'
                           /\ "releaseSession" \in Tasks(u)' => "releaseSession" \in Tasks(u)
    BY <1>2 DEF Steps
  <2>2. /\ op'[s]["disconnect"] # "none"
        /\ \A x \in Sessions : op[x]["disconnect"] # "none" => op'[x]["disconnect"] # "none"
        /\ \A u \in Threads : Ending(u) /\ at[u] # s => Ending(u)'
    BY <1>3, <1>5, <1>10
  <2>3. sessions \subseteq Sessions
    BY DEF TypeOK
  <2> QED
    BY <1>1, <1>3, <2>1, <2>2, <2>3 DEF ServiceOK
<1>13. OwnedOK'
  <2>1. \A u \in Threads : /\ "releaseSend" \in Tasks(u) => "releaseSend" \in Tasks(u)'
                           /\ "releaseRecv" \in Tasks(u) => "releaseRecv" \in Tasks(u)'
    BY <1>2 DEF Steps
  <2> QED
    BY <1>1, <1>3, <1>5, <2>1 DEF OwnedOK
<1> QED
  BY <1>5, <1>6, <1>8, <1>9, <1>11, <1>12, <1>13

\* DisconnectEx fails at once: the session stays in the Service for good.
LEMMA RegisterDisconnectFailPreserves ==
    ASSUME IInv, NEW t \in Threads,
           RegisterDisconnectFail(t)
    PROVE  IInv'
<1> USE DEF IInv
<1>1. UNCHANGED <<type, connected, sendRegistered, op, owned, sessions, manager, acceptOp,
                  acceptSession, lock, hold, at, accepting, rest, unstarted, deaf, failed>>
  BY DEF RegisterDisconnectFail, sessionVars, eventVars, acceptVars, serviceVars, threadVars
<1>2. Steps(t, "registerDisconnect", {})
  BY Returns DEF RegisterDisconnectFail
<1>3. PICK s \in Sessions : s = at[t]
  BY <1>2, NotYoung DEF Edge
<1>4. stranded' = stranded \cup {s}
  BY <1>3 DEF RegisterDisconnectFail
<1>5. TypeOK' /\ StacksOK'
  BY <1>1, <1>2, <1>3, <1>4 DEF TypeOK, Steps
<1>6. ThreadsOK' /\ AcceptsOK' /\ UnbornOK' /\ YoungOK'
  BY <1>1, <1>2, CallStep DEF Edge
<1>7. SendingOK' /\ ReceivingOK' /\ OwnedOK'
  <2>1. /\ Keeps({"registerSend", "postSend", "releaseSend", "unregisterSend"})
        /\ Keeps({"recv", "postRecv", "releaseRecv"})
        /\ Keeps({"releaseRecv", "releaseSend"})
    BY <1>1, <1>2, StepKeeps
  <2>2. \A u \in Threads : Reads(u) => Reads(u)'
    BY <1>1, <1>2 DEF Steps, Reads
  <2> QED
    BY <1>1, <1>2, <2>1, <2>2, SendingFrame, ReceivingFrame, OwnedFrame
<1>8. /\ \A u \in Threads : Ending(u)' => Ending(u)
      /\ \A u \in Threads \ {t} : Ending(u)' <=> Ending(u)
  BY <1>2 DEF Steps, Ending
<1>9. EndingOK'
  BY <1>1, <1>8 DEF EndingOK
<1>10. ServiceOK'
  <2>1. \A u \in Threads : /\ "add" \in Tasks(u) => "add" \in Tasks(u)'
                           /\ "onDisconnected" \in Tasks(u) => "onDisconnected" \in Tasks(u)'
                           /\ "releaseSession" \in Tasks(u)' => "releaseSession" \in Tasks(u)
    BY <1>2 DEF Steps
  <2> QED
    BY <1>1, <1>3, <1>4, <1>8, <2>1 DEF ServiceOK, TypeOK
<1> QED
  BY <1>1, <1>5, <1>6, <1>7, <1>9, <1>10

-----------------------------------------------------------------------------
(* Connecting, entering the Service and leaving it *)

\* A step whose thread keeps its references and its accept event, and keeps what
\* it has to do beside the step in the same shape
LEMMA EdgeStep ==
    ASSUME IInv, NEW t \in Threads, NEW h, NEW R, Steps(t, h, R), h # "registerAccept", h # "broadcast",
           R \cap {"registerAccept", "broadcast"} = {}, ShapeOK(t)',
           UNCHANGED <<type, lock, acceptOp, acceptSession, hold, at, accepting, rest, unstarted, op>>,
           lock # None => sessions \subseteq sessions'
    PROVE  ThreadsOK' /\ AcceptsOK'
<1> USE DEF IInv
<1>1. ASSUME NEW u \in Threads PROVE ThreadOK(u)'
  <2>1. Tasks(t)' = R \cup (Tasks(t) \ {h}) /\ \A v \in Threads \ {t} : Tasks(v)' = Tasks(v)
    BY DEF Steps
  <2>2. lock = u => sessions \subseteq sessions'
    BY NoneIsNull
  <2>3. CASE u # t
    BY <2>1, <2>2, <2>3, ThreadFrame DEF ThreadsOK
  <2>4. CASE u = t
    <3>1. /\ "broadcast" \in Tasks(t)' <=> "broadcast" \in Tasks(t)
          /\ "registerAccept" \in Tasks(t)' <=> "registerAccept" \in Tasks(t)
      BY <2>1
    <3>2. at[t] # None
      BY DEF ThreadsOK, ThreadOK, Steps
    <3> QED
      BY <2>2, <2>4, <3>1, <3>2 DEF ThreadsOK, ThreadOK
  <2> QED
    BY <2>3, <2>4
<1>2. AcceptsOK'
  BY AcceptsFrame
<1> QED
  BY <1>1, <1>2 DEF ThreadsOK

\* ProcessConnect: the session is connected, and only its thread knows it.
LEMMA ProcessConnectPreserves == ASSUME IInv, NEW t \in Threads, ProcessConnect(t) PROVE IInv'
<1> USE DEF IInv
<1>1. UNCHANGED <<type, sendRegistered, op, owned, sessions, manager, acceptOp, acceptSession,
                  lock, hold, at, accepting, rest, unstarted, deaf, stranded, failed>>
  BY DEF ProcessConnect, sessionVars, eventVars, acceptVars, serviceVars, threadVars
<1>2. Steps(t, "connect", {"add", "onConnected", "recv"})
  <2>1. /\ Does(t, "connect") /\ Layer("add") = 1 /\ Layer("onConnected") = 3 /\ Layer("recv") = 4 /\ Layer("connect") = 4
        /\ "add" \in StepName /\ "onConnected" \in StepName /\ "recv" \in StepName
    BY DEF ProcessConnect, Layer, StepName
  <2>2. Then(t, <<"add", "onConnected", "recv">>)
    BY DEF ProcessConnect
  <2> QED
    BY <2>1, <2>2, CallsThree
<1>3. PICK s \in Sessions : s = at[t]
  BY <1>2, AtSession DEF Steps
<1>4. connected' = [connected EXCEPT ![s] = TRUE]
  BY <1>3 DEF ProcessConnect
<1>5. connected'[s] /\ \A x \in Sessions \ {s} : connected'[x] = connected[x]
  BY <1>4 DEF TypeOK
<1>6. /\ Tasks(t) \subseteq {"connect", "registerAccept"} /\ "connect" \in Tasks(t)
      /\ Tasks(t)' = {"add", "onConnected", "recv"} \cup (Tasks(t) \ {"connect"})
      /\ \A u \in Threads \ {t} : Tasks(u)' = Tasks(u)
  BY <1>2 DEF Steps, ThreadsOK, ThreadOK, ShapeOK
<1>7. /\ \A u \in Threads : at[u] = s => u = t
      /\ \A e \in Event : op[s][e] = "none"
      /\ s \notin manager /\ s \notin sessions
  BY <1>3, <1>6 DEF YoungOK, Young
<1>8. TypeOK' /\ StacksOK'
  BY <1>1, <1>2, <1>3, <1>4 DEF TypeOK, Steps
<1>9. ThreadsOK' /\ AcceptsOK'
  <2>1. ShapeOK(t)'
    BY <1>6 DEF ShapeOK
  <2> QED
    BY <1>1, <1>2, <2>1, EdgeStep
<1>10. UnbornOK'
  <2>1. \A x \in Sessions : Unborn(x)' => Unborn(x) /\ x # s
    BY <1>1, <1>3 DEF Unborn, UnbornOK
  <2> QED
    BY <1>1, <1>5, <2>1 DEF UnbornOK
<1>11. YoungOK'
  <2>1. \A u \in Threads \ {t} : (Young(u)' <=> Young(u)) /\ (Young(u) => at[u] \in Sessions \ {s})
    BY <1>1, <1>6, <1>7, AtSession DEF Young
  <2> QED
    BY <1>1, <1>3, <1>5, <1>6, <1>7, <2>1 DEF YoungOK
<1>12. \A u \in Threads : /\ (Ending(u)' <=> Ending(u)) /\ (Ending(u) => at[u] \in Sessions \ {s})
                          /\ "releaseSession" \in Tasks(u)' => "releaseSession" \in Tasks(u)
  <2>1. ~Ending(t) /\ ~Ending(t)' /\ "releaseSession" \notin Tasks(t)'
    BY <1>6 DEF Ending
  <2> QED
    BY <1>6, <1>7, <2>1, AtSession DEF Ending
<1>13. EndingOK'
  BY <1>1, <1>5, <1>7, <1>12 DEF EndingOK, Event
<1>14. ServiceOK'
  <2>1. \A u \in Threads : /\ "onDisconnected" \in Tasks(u) => "onDisconnected" \in Tasks(u)'
                           /\ "add" \in Tasks(u) => "add" \in Tasks(u)'
    BY <1>6
  <2>2. "add" \in Tasks(t)' /\ sessions \subseteq Sessions \ {s}
    BY <1>6, <1>7 DEF TypeOK
  <2> QED
    BY <1>1, <1>3, <1>5, <1>12, <2>1, <2>2 DEF ServiceOK
<1>15. ReceivingOK'
  <2>1. /\ Receiving(t)' /\ Reads(t)' /\ op[s]["recv"] = "none"
        /\ \A u \in Threads \ {t} : (Receiving(u)' <=> Receiving(u)) /\ (Reads(u) <=> Reads(u)')
    BY <1>6, <1>7 DEF Receiving, Reads, Event
  <2> QED
    BY <1>1, <1>3, <1>5, <1>7, <2>1 DEF ReceivingOK
<1>16. SendingOK' /\ OwnedOK'
  <2>1. /\ Keeps({"registerSend", "postSend", "releaseSend", "unregisterSend"})
        /\ Keeps({"releaseRecv", "releaseSend"})
    BY <1>1, <1>6 DEF Keeps
  <2> QED
    BY <1>1, <1>2, <2>1, SendingFrame, OwnedFrame
<1> QED
  BY <1>1, <1>8, <1>9, <1>10, <1>11, <1>13, <1>14, <1>15, <1>16

\* AddSession: from here on a Broadcast finds the session.
LEMMA AddSessionPreserves == ASSUME IInv, NEW t \in Threads, AddSession(t) PROVE IInv'
<1> USE DEF IInv
<1>1. UNCHANGED <<type, connected, sendRegistered, op, owned, manager, acceptOp, acceptSession,
                  lock, hold, at, accepting, rest, unstarted, deaf, stranded, failed>>
  BY DEF AddSession, sessionVars, eventVars, acceptVars, serviceVars, threadVars
<1>2. Steps(t, "add", {})
  BY Returns DEF AddSession
<1>3. PICK s \in Sessions : s = at[t]
  BY <1>2, AtSession DEF Steps
<1>4. sessions' = sessions \cup {s} /\ lock = None
  BY <1>3 DEF AddSession
<1>5. /\ "add" \in Tasks(t) /\ Tasks(t) \subseteq {"add", "onConnected", "recv", "registerAccept"}
      /\ Tasks(t)' = Tasks(t) \ {"add"}
      /\ \A u \in Threads \ {t} : Tasks(u)' = Tasks(u)
  BY <1>2 DEF Steps, ThreadsOK, ThreadOK, ShapeOK
<1>6. /\ \A u \in Threads : at[u] = s => u = t
      /\ \A e \in Event : op[s][e] = "none"
      /\ s \notin manager /\ connected[s]
  BY <1>3, <1>5 DEF YoungOK, Young
<1>7. TypeOK' /\ StacksOK'
  BY <1>1, <1>2, <1>3, <1>4 DEF TypeOK, Steps
<1>8. ThreadsOK' /\ AcceptsOK'
  <2>1. ShapeOK(t)'
    BY <1>5 DEF ShapeOK
  <2> QED
    BY <1>1, <1>2, <1>4, <2>1, EdgeStep
<1>9. UnbornOK'
  <2>1. \A x \in Sessions : Unborn(x)' => Unborn(x) /\ x # s
    BY <1>1, <1>3 DEF Unborn, UnbornOK
  <2> QED
    BY <1>1, <1>4, <2>1 DEF UnbornOK
<1>10. YoungOK'
  <2>1. \A u \in Threads \ {t} : (Young(u)' <=> Young(u)) /\ (Young(u) => at[u] # s)
    BY <1>1, <1>5, <1>6 DEF Young
  <2> QED
    BY <1>1, <1>3, <1>4, <1>5, <1>6, <2>1 DEF YoungOK
<1>11. EndingOK'
  <2>1. \A u \in Threads : Ending(u)' <=> Ending(u)
    BY <1>5 DEF Ending
  <2> QED
    BY <1>1, <1>4, <2>1 DEF EndingOK
<1>12. ServiceOK'
  <2>1. \A u \in Threads : /\ Ending(u)' <=> Ending(u)
                           /\ "onDisconnected" \in Tasks(u) <=> "onDisconnected" \in Tasks(u)'
                           /\ "releaseSession" \in Tasks(u) <=> "releaseSession" \in Tasks(u)'
                           /\ "add" \in Tasks(u) => "add" \in Tasks(u)' \/ u = t
    BY <1>5 DEF Ending
  <2> QED
    BY <1>1, <1>3, <1>4, <1>6, <2>1 DEF ServiceOK
<1>13. ReceivingOK' /\ SendingOK' /\ OwnedOK'
  <2>1. /\ Keeps({"recv", "postRecv", "releaseRecv"})
        /\ Keeps({"registerSend", "postSend", "releaseSend", "unregisterSend"})
        /\ Keeps({"releaseRecv", "releaseSend"})
    BY <1>1, <1>2, StepKeeps
  <2>2. \A u \in Threads : Reads(u) => Reads(u)'
    BY <1>1, <1>2 DEF Steps, Reads
  <2> QED
    BY <1>1, <1>2, <2>1, <2>2, ReceivingFrame, SendingFrame, OwnedFrame
<1> QED
  BY <1>1, <1>7, <1>8, <1>9, <1>10, <1>11, <1>12, <1>13

\* OnConnected: a GameSession enters the manager, a ServerSession sends.
LEMMA OnConnectedPreserves == ASSUME IInv, NEW t \in Threads, OnConnected(t) PROVE IInv'
<1> USE DEF IInv
<1>1. UNCHANGED <<type, connected, sendRegistered, op, owned, sessions, acceptOp, acceptSession,
                  lock, hold, at, accepting, rest, unstarted, deaf, stranded, failed>>
  BY DEF OnConnected, sessionVars, eventVars, acceptVars, serviceVars, threadVars
<1>2. PICK R \in {{}, {"send"}} : Steps(t, "onConnected", R)
  <2>1. Does(t, "onConnected") /\ Layer("send") <= Layer("onConnected") /\ "send" \in StepName
    BY DEF OnConnected, Layer, StepName
  <2>2. CASE type = "Server"
    BY <2>1, <2>2, Returns DEF OnConnected
  <2>3. CASE type # "Server"
    BY <2>1, <2>3, Calls DEF OnConnected
  <2> QED
    BY <2>2, <2>3
<1>3. PICK s \in Sessions : s = at[t]
  BY <1>2, AtSession DEF Steps
<1>4. manager' = IF type = "Server" THEN manager \cup {s} ELSE manager
  BY <1>3 DEF OnConnected
<1>5. /\ "onConnected" \in Tasks(t) /\ "add" \notin Tasks(t) /\ "connect" \notin Tasks(t) /\ "releaseSession" \notin Tasks(t)
      /\ type = "Server" => Tasks(t) \subseteq {"onConnected", "recv", "registerAccept"}
      /\ Tasks(t)' = R \cup (Tasks(t) \ {"onConnected"})
      /\ \A u \in Threads \ {t} : Tasks(u)' = Tasks(u)
  <2>1. Layer("add") = 1 /\ Layer("onConnected") = 3
    BY DEF Layer
  <2>2. "add" \notin Tasks(t)
    BY <1>2, <2>1 DEF Steps
  <2> QED
    BY <1>2, <2>2 DEF Steps, ThreadsOK, ThreadOK, ShapeOK
<1>6. type = "Server" => /\ \A u \in Threads : at[u] = s => u = t
                         /\ connected[s] /\ s \in sessions
  <2>1. type = "Server" => Young(t)
    BY <1>5 DEF Young
  <2> QED
    BY <1>3, <1>5, <2>1 DEF YoungOK, ServiceOK
<1>7. TypeOK' /\ StacksOK'
  BY <1>1, <1>2, <1>3, <1>4 DEF TypeOK, Steps
<1>8. ThreadsOK' /\ AcceptsOK'
  <2>1. ShapeOK(t)'
    BY <1>5 DEF ShapeOK
  <2> QED
    BY <1>1, <1>2, <2>1, EdgeStep
<1>9. UnbornOK'
  <2>1. \A x \in Sessions : Unborn(x)' => Unborn(x) /\ x # s
    BY <1>1, <1>3 DEF Unborn, UnbornOK
  <2> QED
    BY <1>1, <1>4, <2>1 DEF UnbornOK
<1>10. YoungOK'
  <2>1. ~Young(t)' /\ \A u \in Threads \ {t} : /\ Young(u)' <=> Young(u)
                                               /\ type = "Server" => at[u] # s
                                               /\ Tasks(u)' = Tasks(u)
    BY <1>1, <1>5, <1>6 DEF Young
  <2> QED
    BY <1>1, <1>4, <2>1 DEF YoungOK
<1>11. ServiceOK'
  <2>1. \A u \in Threads : /\ Ending(u)' <=> Ending(u)
                           /\ "onDisconnected" \in Tasks(u) => "onDisconnected" \in Tasks(u)'
                           /\ "releaseSession" \in Tasks(u)' => "releaseSession" \in Tasks(u) /\ u # t
                           /\ "add" \in Tasks(u) => "add" \in Tasks(u)'
    BY <1>5 DEF Ending
  <2>2. manager' \subseteq sessions
    BY <1>4, <1>6 DEF ServiceOK
  <2> QED
    BY <1>1, <1>4, <1>6, <2>1, <2>2 DEF ServiceOK
<1>12. EndingOK' /\ ReceivingOK' /\ SendingOK' /\ OwnedOK'
  <2>1. /\ Keeps({"registerDisconnect", "releaseSession"})
        /\ Keeps({"recv", "postRecv", "releaseRecv"})
        /\ Keeps({"registerSend", "postSend", "releaseSend", "unregisterSend"})
        /\ Keeps({"releaseRecv", "releaseSend"})
    BY <1>1, <1>2, StepKeeps
  <2>2. \A u \in Threads : Reads(u) => Reads(u)'
    BY <1>1, <1>2 DEF Steps, Reads
  <2> QED
    BY <1>1, <1>2, <2>1, <2>2, EndingFrame, ReceivingFrame, SendingFrame, OwnedFrame
<1> QED
  BY <1>1, <1>7, <1>8, <1>9, <1>10, <1>11, <1>12

\* OnDisconnected: the manager forgets the session before the Service does.
LEMMA OnDisconnectedPreserves == ASSUME IInv, NEW t \in Threads, OnDisconnected(t) PROVE IInv'
<1> USE DEF IInv
<1>1. UNCHANGED <<type, connected, sendRegistered, op, owned, sessions, acceptOp, acceptSession,
                  lock, hold, at, accepting, rest, unstarted, deaf, stranded, failed>>
  BY DEF OnDisconnected, sessionVars, eventVars, acceptVars, serviceVars, threadVars
<1>2. Steps(t, "onDisconnected", {})
  BY Returns DEF OnDisconnected
<1>3. PICK s \in Sessions : s = at[t]
  BY <1>2, AtSession DEF Steps
<1>4. manager' = manager \ {s}
  BY <1>3 DEF OnDisconnected
<1>5. /\ "onDisconnected" \in Tasks(t) /\ "add" \notin Tasks(t) /\ "connect" \notin Tasks(t)
      /\ ~(type = "Server" /\ "onConnected" \in Tasks(t))
      /\ Tasks(t)' = Tasks(t) \ {"onDisconnected"}
      /\ \A u \in Threads \ {t} : Tasks(u)' = Tasks(u)
  BY <1>2 DEF Steps, ThreadsOK, ThreadOK, ShapeOK
<1>6. TypeOK' /\ StacksOK'
  BY <1>1, <1>2, <1>3, <1>4 DEF TypeOK, Steps
<1>7. ThreadsOK' /\ AcceptsOK'
  <2>1. ShapeOK(t)
    BY DEF ThreadsOK, ThreadOK
  <2>2. ShapeOK(t)'
    BY <1>1, <1>5, <2>1 DEF ShapeOK
  <2> QED
    BY <1>1, <1>2, <2>2, EdgeStep
<1>8. UnbornOK'
  <2>1. \A x \in Sessions : Unborn(x)' => Unborn(x)
    BY <1>1 DEF Unborn
  <2> QED
    BY <1>1, <1>4, <2>1 DEF UnbornOK
<1>9. YoungOK'
  <2>1. ~Young(t)' /\ \A u \in Threads \ {t} : (Young(u)' <=> Young(u)) /\ Tasks(u)' = Tasks(u)
    BY <1>1, <1>5 DEF Young
  <2> QED
    BY <1>1, <1>4, <2>1 DEF YoungOK
<1>10. ServiceOK'
  <2>1. \A u \in Threads : /\ Ending(u)' <=> Ending(u)
                           /\ "onDisconnected" \in Tasks(u) => "onDisconnected" \in Tasks(u)' \/ u = t
                           /\ "releaseSession" \in Tasks(u)' => "releaseSession" \in Tasks(u)
                           /\ "add" \in Tasks(u) => "add" \in Tasks(u)'
    BY <1>5 DEF Ending
  <2> QED
    BY <1>1, <1>3, <1>4, <2>1 DEF ServiceOK
<1>11. EndingOK' /\ ReceivingOK' /\ SendingOK' /\ OwnedOK'
  <2>1. /\ Keeps({"registerDisconnect", "releaseSession"})
        /\ Keeps({"recv", "postRecv", "releaseRecv"})
        /\ Keeps({"registerSend", "postSend", "releaseSend", "unregisterSend"})
        /\ Keeps({"releaseRecv", "releaseSend"})
    BY <1>1, <1>2, StepKeeps
  <2>2. \A u \in Threads : Reads(u) => Reads(u)'
    BY <1>1, <1>2 DEF Steps, Reads
  <2> QED
    BY <1>1, <1>2, <2>1, <2>2, EndingFrame, ReceivingFrame, SendingFrame, OwnedFrame
<1> QED
  BY <1>1, <1>6, <1>7, <1>8, <1>9, <1>10, <1>11

\* ReleaseSession finds its session in the Service and takes it out.
LEMMA ReleaseSessionPreserves == ASSUME IInv, NEW t \in Threads, ReleaseSession(t) PROVE IInv'
<1> USE DEF IInv
<1>1. UNCHANGED <<type, connected, sendRegistered, op, owned, manager, acceptOp, acceptSession,
                  lock, hold, at, accepting, rest, unstarted, deaf, stranded>>
  BY DEF ReleaseSession, sessionVars, eventVars, acceptVars, serviceVars, threadVars
<1>2. Steps(t, "releaseSession", {})
  BY Returns DEF ReleaseSession
<1>3. PICK s \in Sessions : s = at[t]
  BY <1>2, AtSession DEF Steps
<1>4. /\ sessions' = sessions \ {s} /\ lock = None
      /\ failed' = IF s \in sessions THEN "no" ELSE "assert"
  BY <1>3 DEF ReleaseSession
<1>5. /\ "releaseSession" \in Tasks(t) /\ Tasks(t) = {"releaseSession"} /\ Tasks(t)' = {}
      /\ \A u \in Threads \ {t} : Tasks(u)' = Tasks(u)
  <2>1. Layer("onDisconnected") = 1 /\ Layer("releaseSession") = 2
    BY DEF Layer
  <2>2. "onDisconnected" \notin Tasks(t)
    BY <1>2, <2>1 DEF Steps
  <2> QED
    BY <1>2, <2>2 DEF Steps, ThreadsOK, ThreadOK, ShapeOK
<1>6. /\ Ending(t) /\ ~connected[s] /\ s \in sessions /\ op[s]["disconnect"] = "none" /\ s \notin manager
      /\ \A u \in Threads : Ending(u) /\ at[u] = s => u = t
  BY <1>3, <1>5 DEF Ending, EndingOK, ServiceOK
<1>7. TypeOK' /\ StacksOK' /\ failed' = "no"
  BY <1>1, <1>2, <1>3, <1>4, <1>6 DEF TypeOK, Steps
<1>8. ThreadsOK' /\ AcceptsOK'
  <2>1. ShapeOK(t)'
    BY <1>5 DEF ShapeOK
  <2> QED
    BY <1>1, <1>2, <1>4, <2>1, EdgeStep
<1>9. UnbornOK'
  <2>1. \A x \in Sessions : Unborn(x)' => Unborn(x)
    BY <1>1 DEF Unborn
  <2> QED
    BY <1>1, <1>4, <2>1 DEF UnbornOK
<1>10. YoungOK'
  <2>1. ~Young(t)' /\ \A u \in Threads \ {t} : (Young(u)' <=> Young(u)) /\ Tasks(u)' = Tasks(u)
    BY <1>1, <1>5 DEF Young
  <2> QED
    BY <1>1, <1>4, <2>1 DEF YoungOK
<1>11. ~Ending(t)' /\ \A u \in Threads \ {t} : (Ending(u)' <=> Ending(u)) /\ (Ending(u) => at[u] # s)
  BY <1>5, <1>6 DEF Ending
<1>12. EndingOK'
  <2>1. \A x \in Sessions : op[x]["disconnect"] # "none" => x # s
    BY <1>6
  <2> QED
    BY <1>1, <1>4, <1>11, <2>1 DEF EndingOK
<1>13. ServiceOK'
  <2>1. \A u \in Threads : /\ "onDisconnected" \in Tasks(u) => "onDisconnected" \in Tasks(u)'
                           /\ "releaseSession" \in Tasks(u)' => "releaseSession" \in Tasks(u)
                           /\ "add" \in Tasks(u) => "add" \in Tasks(u)'
    BY <1>5
  <2> QED
    BY <1>1, <1>3, <1>4, <1>6, <1>11, <2>1 DEF ServiceOK
<1>14. ReceivingOK' /\ SendingOK' /\ OwnedOK'
  <2>1. /\ Keeps({"recv", "postRecv", "releaseRecv"})
        /\ Keeps({"registerSend", "postSend", "releaseSend", "unregisterSend"})
        /\ Keeps({"releaseRecv", "releaseSend"})
    BY <1>1, <1>2, StepKeeps
  <2>2. \A u \in Threads : Reads(u) => Reads(u)'
    BY <1>1, <1>2 DEF Steps, Reads
  <2> QED
    BY <1>1, <1>2, <2>1, <2>2, ReceivingFrame, SendingFrame, OwnedFrame
<1> QED
  BY <1>7, <1>8, <1>9, <1>10, <1>12, <1>13, <1>14

-----------------------------------------------------------------------------
(* Steps that move a thread, but nothing of a session *)

\* A thread that goes elsewhere has nothing to do there that the invariant is
\* about, but sending.
LEMMA MoveStep ==
    ASSUME IInv, NEW t \in Threads, todo' \in [Threads -> Seq(StepName)], StacksOK', failed' = "no" \/ failed' = failed,
           \A u \in Threads \ {t} : Tasks(u)' = Tasks(u) /\ at'[u] = at[u] /\ hold'[u] = hold[u]
                                    /\ rest'[u] = rest[u] /\ (lock' = u <=> lock = u),
           at' \in [Threads -> Sessions \cup {None}], hold' \in [Threads -> SUBSET Sessions],
           rest' \in [Threads -> SUBSET Sessions], lock' \in Threads \cup {None},
           Tasks(t) \subseteq {"broadcast"}, Tasks(t)' \subseteq {"broadcast", "send"},
           at'[t] = None \/ (~Unborn(at'[t]) /\ \A u \in Threads : Young(u) => at'[t] # at[u]),
           ThreadOK(t)',
           UNCHANGED <<type, connected, sendRegistered, op, owned, sessions, manager, acceptOp, acceptSession,
                       accepting, unstarted, deaf, stranded>>
    PROVE  IInv'
<1> USE DEF IInv
<1>1. TypeOK' /\ failed' \in {"no", "start"}
  BY DEF TypeOK
<1>2. ThreadsOK'
  <2> SUFFICES ASSUME NEW u \in Threads, u # t PROVE ThreadOK(u)'
    BY DEF ThreadsOK
  <2> QED
    BY ThreadFrame DEF ThreadsOK
<1>3. AcceptsOK'
  BY AcceptsFrame
<1>4. UnbornOK'
  <2>1. \A u \in Threads : at'[u] = at[u] \/ at'[u] = None \/ ~Unborn(at'[u])
    OBVIOUS
  <2> QED
    BY <2>1, UnbornFrame
<1>5. Keeps(StepName \ {"broadcast", "send"})
  BY DEF Keeps
<1>6. Keeps({"connect", "add", "onConnected"})
  BY <1>5 DEF Keeps, StepName
<1>7. YoungOK'
  <2>1. \A u \in Threads : Young(u) => at[u] \in Sessions
    BY AtSession DEF Young
  <2>2. \A u \in Threads : at'[u] = at[u] \/ \A v \in Threads : Young(v) => at'[u] # at[v]
    BY <2>1, NoneIsNull
  <2> QED
    BY <1>6, <2>2, YoungFrame
<1>8. EndingOK' /\ ServiceOK'
  <2>1. /\ Keeps({"registerDisconnect", "releaseSession"})
        /\ Keeps({"add", "registerDisconnect", "releaseSession", "onDisconnected"})
    BY <1>5 DEF Keeps, StepName
  <2> QED
    BY <2>1, EndingFrame, ServiceFrame
<1>9. ReceivingOK'
  <2>1. Keeps({"recv", "postRecv", "releaseRecv"})
    BY <1>5 DEF Keeps, StepName
  <2>2. \A u \in Threads : Reads(u) => Reads(u)' /\ at'[u] = at[u]
    BY DEF Reads
  <2> QED
    BY <2>1, <2>2, ReceivingFrame
<1>10. SendingOK' /\ OwnedOK'
  <2>1. /\ Keeps({"registerSend", "postSend", "releaseSend", "unregisterSend"})
        /\ Keeps({"releaseRecv", "releaseSend"})
    BY <1>5 DEF Keeps, StepName
  <2> QED
    BY <2>1, SendingFrame, OwnedFrame
<1> QED
  BY <1>1, <1>2, <1>3, <1>4, <1>7, <1>8, <1>9, <1>10

\* The thread is out of all calls and drops its references.
LEMMA ReturnPreserves == ASSUME IInv, NEW t \in Threads, Return(t) PROVE IInv'
<1> USE DEF IInv
<1>1. UNCHANGED <<type, connected, sendRegistered, op, owned, sessions, manager, acceptOp,
                  acceptSession, lock, accepting, rest, unstarted, deaf, stranded, failed>>
  BY DEF Return, sessionVars, eventVars, acceptVars, serviceVars, threadVars
<1>2. /\ Tasks(t) = {} /\ hold' = [hold EXCEPT ![t] = {}] /\ at' = [at EXCEPT ![t] = None]
      /\ UNCHANGED todo
  BY Stack0 DEF Return, Tasks
<1>3. \A u \in Threads : Tasks(u)' = Tasks(u)
  BY <1>2 DEF Tasks
<1>4. /\ at'[t] = None /\ hold'[t] = {}
      /\ \A u \in Threads \ {t} : at'[u] = at[u] /\ hold'[u] = hold[u]
      /\ at' \in [Threads -> Sessions \cup {None}] /\ hold' \in [Threads -> SUBSET Sessions]
  BY <1>2 DEF TypeOK
<1>5. ThreadOK(t)'
  BY <1>1, <1>2, <1>3, <1>4 DEF ThreadsOK, ThreadOK, ShapeOK
<1>6. StacksOK'
  BY <1>2 DEF StacksOK
<1>7. /\ todo' \in [Threads -> Seq(StepName)] /\ rest' \in [Threads -> SUBSET Sessions] /\ lock' \in Threads \cup {None}
      /\ failed' = failed
  BY <1>1, <1>2 DEF TypeOK
<1>8. /\ \A u \in Threads \ {t} : Tasks(u)' = Tasks(u) /\ at'[u] = at[u] /\ hold'[u] = hold[u]
                                  /\ rest'[u] = rest[u] /\ (lock' = u <=> lock = u)
      /\ Tasks(t) \subseteq {"broadcast"} /\ Tasks(t)' \subseteq {"broadcast", "send"}
  BY <1>1, <1>2, <1>3, <1>4
<1> QED
  BY <1>1, <1>4, <1>5, <1>6, <1>7, <1>8, MoveStep

\* Broadcast comes to the next session; the lock keeps it in the Service.
LEMMA BroadcastSendPreserves ==
    ASSUME IInv, NEW t \in Threads, NEW s \in Sessions,
           BroadcastSend(t, s)
    PROVE  IInv'
<1> USE DEF IInv
<1>1. UNCHANGED <<type, connected, sendRegistered, op, owned, sessions, manager, acceptOp,
                  acceptSession, lock, hold, accepting, unstarted, deaf, stranded, failed>>
  BY DEF BroadcastSend, sessionVars, eventVars, acceptVars, serviceVars, threadVars
<1>2. Steps(t, "broadcast", {"send", "broadcast"})
  <2>1. /\ Does(t, "broadcast") /\ Layer("send") = 3 /\ Layer("broadcast") = 5
        /\ "send" \in StepName /\ "broadcast" \in StepName
    BY DEF BroadcastSend, Layer, StepName
  <2>2. Then(t, <<"send", "broadcast">>)
    BY DEF BroadcastSend
  <2> QED
    BY <2>1, <2>2, CallsTwo
<1>3. Tasks(t) = {"broadcast"}
  <2>1. \A x \in StepName : Layer(x) <= Layer("broadcast") /\ Layer(x) \in 1..5
    BY Layers DEF Layer
  <2>2. Tasks(t) \subseteq StepName
    BY DEF TypeOK, Tasks, Elements
  <2>3. "broadcast" \in Tasks(t) /\ \A x \in Tasks(t) : x = "broadcast" \/ Layer("broadcast") < Layer(x)
    BY <1>2 DEF Steps
  <2>4. ASSUME NEW x \in Tasks(t), x # "broadcast" PROVE FALSE
    <3>1. Layer("broadcast") < Layer(x) /\ Layer(x) <= Layer("broadcast")
      BY <2>1, <2>2, <2>3, <2>4
    <3>2. Layer(x) \in 1..5 /\ Layer("broadcast") \in 1..5
      BY <2>1, <2>2, <2>3
    <3> QED
      BY <3>1, <3>2
  <2> QED
    BY <2>3, <2>4
<1>4. /\ todo' \in [Threads -> Seq(StepName)] /\ StacksOK' /\ Tasks(t)' = {"send", "broadcast"}
      /\ \A u \in Threads \ {t} : Tasks(u)' = Tasks(u)
  BY <1>2, <1>3 DEF Steps
<1>5. /\ s \in rest[t] /\ rest' = [rest EXCEPT ![t] = @ \ {s}] /\ at' = [at EXCEPT ![t] = s]
  BY DEF BroadcastSend
<1>6. /\ at'[t] = s /\ rest'[t] = rest[t] \ {s}
      /\ \A u \in Threads \ {t} : at'[u] = at[u] /\ rest'[u] = rest[u]
      /\ at' \in [Threads -> Sessions \cup {None}] /\ rest' \in [Threads -> SUBSET Sessions]
      /\ hold' \in [Threads -> SUBSET Sessions] /\ lock' \in Threads \cup {None}
  BY <1>1, <1>5 DEF TypeOK
<1>7. type = "Client" /\ s \in sessions /\ lock = t
  BY <1>3, <1>5 DEF ThreadsOK, ThreadOK
<1>8. ThreadOK(t)'
  BY <1>1, <1>3, <1>4, <1>6, <1>7, NoneIsNull DEF ThreadsOK, ThreadOK, ShapeOK
<1>9. ~Unborn(s) /\ \A u \in Threads : Young(u) => s # at[u]
  BY <1>7 DEF UnbornOK, YoungOK, Young
<1> QED
  BY <1>1, <1>3, <1>4, <1>6, <1>8, <1>9, MoveStep

\* Broadcast unlocks.
LEMMA BroadcastEndPreserves == ASSUME IInv, NEW t \in Threads, BroadcastEnd(t) PROVE IInv'
<1> USE DEF IInv
<1>1. UNCHANGED <<type, connected, sendRegistered, op, owned, sessions, manager, acceptOp,
                  acceptSession, hold, accepting, rest, unstarted, deaf, stranded, failed>>
  BY DEF BroadcastEnd, sessionVars, eventVars, acceptVars, serviceVars, threadVars
<1>2. Steps(t, "broadcast", {})
  BY Returns DEF BroadcastEnd
<1>3. Tasks(t) = {"broadcast"}
  <2>1. \A x \in StepName : Layer(x) <= Layer("broadcast") /\ Layer(x) \in 1..5
    BY Layers DEF Layer
  <2>2. Tasks(t) \subseteq StepName
    BY DEF TypeOK, Tasks, Elements
  <2>3. "broadcast" \in Tasks(t) /\ \A x \in Tasks(t) : x = "broadcast" \/ Layer("broadcast") < Layer(x)
    BY <1>2 DEF Steps
  <2>4. ASSUME NEW x \in Tasks(t), x # "broadcast" PROVE FALSE
    <3>1. Layer("broadcast") < Layer(x) /\ Layer(x) <= Layer("broadcast")
      BY <2>1, <2>2, <2>3, <2>4
    <3>2. Layer(x) \in 1..5 /\ Layer("broadcast") \in 1..5
      BY <2>1, <2>2, <2>3
    <3> QED
      BY <3>1, <3>2
  <2> QED
    BY <2>3, <2>4
<1>4. /\ todo' \in [Threads -> Seq(StepName)] /\ StacksOK' /\ Tasks(t)' = {}
      /\ \A u \in Threads \ {t} : Tasks(u)' = Tasks(u)
  BY <1>2, <1>3 DEF Steps
<1>5. lock' = None /\ at' = [at EXCEPT ![t] = None]
  BY DEF BroadcastEnd
<1>6. /\ at'[t] = None /\ \A u \in Threads \ {t} : at'[u] = at[u]
      /\ at' \in [Threads -> Sessions \cup {None}] /\ rest' \in [Threads -> SUBSET Sessions]
      /\ hold' \in [Threads -> SUBSET Sessions] /\ lock' \in Threads \cup {None}
  BY <1>1, <1>5 DEF TypeOK
<1>7. lock = t /\ \A u \in Threads \ {t} : lock' = u <=> lock = u
  BY <1>3, <1>5, NoneIsNull DEF ThreadsOK, ThreadOK
<1>8. ThreadOK(t)'
  BY <1>1, <1>3, <1>4, <1>5, <1>6, NoneIsNull DEF ThreadsOK, ThreadOK, ShapeOK
<1> QED
  BY <1>1, <1>3, <1>4, <1>6, <1>7, <1>8, MoveStep

\* Broadcast takes the lock and goes through the sessions there are.
LEMMA BroadcastPreserves == ASSUME IInv, NEW t \in Threads, Broadcast(t) PROVE IInv'
<1> USE DEF IInv
<1>1. UNCHANGED <<type, connected, sendRegistered, op, owned, sessions, manager, acceptOp,
                  acceptSession, hold, accepting, unstarted, deaf, stranded, failed>>
  BY DEF Broadcast, sessionVars, eventVars, acceptVars, serviceVars, threadVars
<1>2. /\ Enter(t, None, <<"broadcast">>) /\ lock = None /\ lock' = t /\ type = "Client"
      /\ rest' = [rest EXCEPT ![t] = sessions]
  BY DEF Broadcast
<1>3. /\ todo' \in [Threads -> Seq(StepName)] /\ StacksOK' /\ failed = "no"
      /\ Tasks(t) = {} /\ Tasks(t)' = {"broadcast"}
      /\ \A u \in Threads \ {t} : Tasks(u)' = Tasks(u)
      /\ at'[t] = None /\ \A u \in Threads \ {t} : at'[u] = at[u]
  <2>1. "broadcast" \in StepName
    BY DEF StepName
  <2>2. PICK r \in Seq(StepName) : r = <<"broadcast">> /\ Nested(r) /\ Elements(r) = {"broadcast"}
    BY <2>1, Stack1
  <2> QED
    BY <1>2, <2>2, EnterTasks
<1>4. at' = [at EXCEPT ![t] = None]
  BY <1>2 DEF Enter
<1>5. /\ rest'[t] = sessions /\ \A u \in Threads \ {t} : rest'[u] = rest[u]
      /\ at' \in [Threads -> Sessions \cup {None}] /\ rest' \in [Threads -> SUBSET Sessions]
      /\ hold' \in [Threads -> SUBSET Sessions] /\ lock' \in Threads \cup {None}
  BY <1>1, <1>2, <1>4 DEF TypeOK
<1>6. \A u \in Threads \ {t} : lock' = u <=> lock = u
  BY <1>2, NoneIsNull
<1>7. ThreadOK(t)'
  BY <1>1, <1>2, <1>3, <1>5, NoneIsNull DEF ThreadsOK, ThreadOK, ShapeOK
<1> QED
  BY <1>1, <1>3, <1>5, <1>6, <1>7, MoveStep

\* The memory of a session that nobody refers to is free for a new one.
LEMMA NobodyThere ==
    ASSUME IInv, NEW s \in Sessions, ~Exists(s)
    PROVE  /\ s \notin sessions /\ s \notin manager /\ s \notin unstarted
           /\ \A a \in AcceptEvents : acceptSession[a] # s
           /\ \A u \in Threads : at[u] # s
           /\ \A e \in Event : op[s][e] = "none"
<1> USE DEF IInv
<1>1. /\ owned[s] = {} /\ s \notin sessions /\ s \notin manager /\ s \notin unstarted
      /\ \A a \in AcceptEvents : acceptSession[a] # s
      /\ \A u \in Threads : s \notin hold[u]
  BY DEF Exists
<1>2. \A u \in Threads : at[u] # s
  BY <1>1, NoneIsNull DEF ThreadsOK, ThreadOK
<1>3. \A e \in Event : op[s][e] = "none"
  BY <1>1 DEF OwnedOK
<1> QED
  BY <1>1, <1>2, <1>3

\* RegisterAccept makes a session and posts the accept event with it, or fails and does it again.
LEMMA RegisterAcceptPreserves ==
    ASSUME IInv, NEW t \in Threads, NEW s \in Sessions, NEW posted \in BOOLEAN,
           RegisterAccept(t, s, posted)
    PROVE  IInv'
<1> USE DEF IInv
<1>1. UNCHANGED <<type, op, owned, sessions, manager, lock, at, rest, unstarted, failed>>
  BY DEF RegisterAccept, sessionVars, eventVars, acceptVars, serviceVars, threadVars
<1>2. /\ s \notin sessions /\ s \notin manager /\ s \notin unstarted
      /\ \A b \in AcceptEvents : acceptSession[b] # s
      /\ \A u \in Threads : at[u] # s
      /\ \A e \in Event : op[s][e] = "none"
  BY NobodyThere DEF RegisterAccept
<1>3. PICK a \in AcceptEvents : /\ a = accepting[t] /\ acceptOp[a] = "none" /\ type = "Server"
                                /\ \A u \in Threads \ {t} : accepting[u] # a
  <2>1. "registerAccept" \in Tasks(t)
    <3>1. PICK q \in Seq(StepName) : q = todo[t] /\ q # <<>> /\ Head(q) = "registerAccept"
      BY DEF TypeOK, RegisterAccept, Does
    <3>2. 1 \in 1..Len(q) /\ Head(q) = q[1]
      BY <3>1, LenProperties, EmptySeq, HeadTailProperties
    <3> QED
      BY <3>1, <3>2 DEF Tasks, Elements
  <2>2. accepting[t] # None /\ type = "Server" /\ acceptOp[accepting[t]] = "none"
    BY <2>1 DEF ThreadsOK, ThreadOK
  <2> QED
    BY <2>2 DEF TypeOK, AcceptsOK
<1>4. /\ connected' = [connected EXCEPT ![s] = FALSE] /\ sendRegistered' = [sendRegistered EXCEPT ![s] = FALSE]
      /\ deaf' = deaf \ {s} /\ stranded' = stranded \ {s}
      /\ acceptSession' = [acceptSession EXCEPT ![a] = s] /\ failed = "no"
  BY <1>3 DEF RegisterAccept, Does
<1>5. /\ ~connected'[s] /\ acceptSession'[a] = s
      /\ \A x \in Sessions \ {s} : connected'[x] = connected[x] /\ sendRegistered'[x] = sendRegistered[x]
      /\ \A b \in AcceptEvents \ {a} : acceptSession'[b] = acceptSession[b]
      /\ connected' \in [Sessions -> BOOLEAN] /\ sendRegistered' \in [Sessions -> BOOLEAN]
      /\ acceptSession' \in [AcceptEvents -> Sessions \cup {None}]
  BY <1>4 DEF TypeOK
<1>6. /\ todo' \in [Threads -> Seq(StepName)] /\ StacksOK'
      /\ \A u \in Threads \ {t} : Tasks(u)' = Tasks(u)
      /\ "registerAccept" \in Tasks(t) /\ Tasks(t)' \subseteq Tasks(t)
      /\ Tasks(t) \subseteq Tasks(t)' \cup {"registerAccept"}
      /\ hold' \in [Threads -> SUBSET Sessions] /\ accepting' \in [Threads -> AcceptEvents \cup {None}]
      /\ acceptOp' \in [AcceptEvents -> OpState]
      /\ \A u \in Threads : hold[u] \subseteq hold'[u]
      /\ \A u \in Threads \ {t} : accepting'[u] = accepting[u] /\ hold'[u] = hold[u]
      /\ \A b \in AcceptEvents \ {a} : acceptOp'[b] = acceptOp[b]
      /\ \/ "registerAccept" \notin Tasks(t)' /\ accepting'[t] = None /\ acceptOp'[a] = "posted"
         \/ "registerAccept" \in Tasks(t)' /\ accepting'[t] = a /\ acceptOp'[a] = "none"
  <2>1. CASE posted
    <3>1. Steps(t, "registerAccept", {})
      BY <2>1, Returns DEF RegisterAccept
    <3>2. Tasks(t)' = Tasks(t) \ {"registerAccept"}
      BY <3>1 DEF Steps
    <3>3. acceptOp' = [acceptOp EXCEPT ![a] = "posted"] /\ accepting' = [accepting EXCEPT ![t] = None] /\ UNCHANGED hold
      BY <1>3, <2>1 DEF RegisterAccept
    <3>4. /\ \A u \in Threads \ {t} : Tasks(u)' = Tasks(u)
          /\ "registerAccept" \in Tasks(t)
          /\ todo' \in [Threads -> Seq(StepName)] /\ StacksOK'
      BY <3>1 DEF Steps
    <3> QED
      BY <3>2, <3>3, <3>4 DEF TypeOK, OpState
  <2>2. CASE ~posted
    <3>1. hold' = [hold EXCEPT ![t] = @ \cup {s}] /\ UNCHANGED <<todo, acceptOp, accepting>>
      BY <1>3, <2>2 DEF RegisterAccept
    <3>2. (\A u \in Threads : Tasks(u)' = Tasks(u)) /\ StacksOK'
      BY <3>1 DEF Tasks, StacksOK
    <3>3. "registerAccept" \in Tasks(t)
      BY <1>3, NoneIsNull DEF ThreadsOK, ThreadOK
    <3> QED
      BY <1>3, <3>1, <3>2, <3>3 DEF TypeOK
  <2> QED
    BY <2>1, <2>2
<1>7. TypeOK' /\ StacksOK'
  BY <1>1, <1>4, <1>5, <1>6 DEF TypeOK
<1>8. ThreadsOK'
  <2> SUFFICES ASSUME NEW u \in Threads PROVE ThreadOK(u)'
    BY DEF ThreadsOK
  <2>1. CASE u # t
    <3>1. accepting[u] # None => accepting[u] \in AcceptEvents \ {a}
      BY <1>3, <2>1 DEF TypeOK
    <3> QED
      BY <1>1, <1>6, <2>1, <3>1, ThreadFrame DEF ThreadsOK
  <2>2. CASE u = t
    <3>1. \A x : x # "registerAccept" => (x \in Tasks(t)' <=> x \in Tasks(t))
      BY <1>6
    <3>2. ShapeOK(t)'
      <4>1. ShapeOK(t)
        BY DEF ThreadsOK, ThreadOK
      <4> QED
        BY <1>1, <1>6, <4>1 DEF ShapeOK
    <3> QED
      BY <1>1, <1>3, <1>6, <2>2, <3>1, <3>2, NoneIsNull DEF ThreadsOK, ThreadOK
  <2> QED
    BY <2>1, <2>2
<1>9. AcceptsOK'
  <2> DEFINE fresh == acceptSession'[a] = s /\ s # None
             others == \A b \in AcceptEvents \ {a} : /\ acceptOp'[b] = acceptOp[b]
                                                     /\ acceptSession'[b] = acceptSession[b]
  <2>0. fresh /\ others /\ type' = type
    BY <1>1, <1>5, <1>6, NoneIsNull
  <2>1. \A b \in AcceptEvents : acceptOp'[b] # "none" => type' = "Server" /\ acceptSession'[b] # None
    BY <1>3, <2>0 DEF AcceptsOK
  <2>2. \A b, c \in AcceptEvents :
           acceptOp'[b] # "none" /\ acceptOp'[c] # "none" /\ acceptSession'[b] = acceptSession'[c] => b = c
    <3>1. \A b, c \in AcceptEvents :
            acceptOp[b] # "none" /\ acceptOp[c] # "none" /\ acceptSession[b] = acceptSession[c] => b = c
      BY DEF AcceptsOK
    <3>2. \A b \in AcceptEvents : acceptSession[b] # s
      BY <1>2
    <3> QED
      BY <2>0, <3>1, <3>2
  <2>3. \A u, v \in Threads : accepting'[u] = accepting'[v] /\ accepting'[u] # None => u = v
    <3>1. accepting'[t] = None \/ accepting'[t] = a
      BY <1>6
    <3>2. \A u \in Threads \ {t} : accepting'[u] = accepting[u] /\ accepting'[u] # a
      BY <1>3, <1>6
    <3>3. \A u, v \in Threads : accepting[u] = accepting[v] /\ accepting[u] # None => u = v
      BY DEF AcceptsOK
    <3> QED
      BY <3>1, <3>2, <3>3
  <2>4. ASSUME NEW b \in AcceptEvents, acceptOp'[b] = "none"
        PROVE  \E u \in Threads : accepting'[u] = b
    <3>1. CASE b = a
      BY <1>3, <1>6, <2>4, <3>1
    <3>2. CASE b # a
      <4>1. PICK u \in Threads : accepting[u] = b
        BY <1>3, <2>0, <2>4, <3>2 DEF AcceptsOK
      <4>2. u # t
        BY <1>3, <3>2, <4>1
      <4> QED
        BY <1>6, <4>1, <4>2
    <3> QED
      BY <3>1, <3>2
  <2>5. type' = "Server" => unstarted' = {} /\ \A x \in Sessions : op'[x]["connect"] = "none"
    BY <1>1, <2>0 DEF AcceptsOK
  <2> HIDE DEF fresh, others
  <2> QED
    BY <2>1, <2>2, <2>3, <2>4, <2>5, Zenon DEF AcceptsOK
<1>10. \A x \in Sessions \ {s} : Unborn(x)' => Unborn(x)
  BY <1>1, <1>5, <1>6 DEF Unborn
<1>11. UnbornOK'
  BY <1>1, <1>2, <1>5, <1>10 DEF UnbornOK
<1>12. \A u \in Threads : /\ at[u] # s /\ (Young(u)' <=> Young(u)) /\ (Ending(u)' <=> Ending(u))
                          /\ Receiving(u)' <=> Receiving(u)
                          /\ Reads(u)' <=> Reads(u)
                          /\ Sending(u)' <=> Sending(u)
                          /\ \A x \in StepName \ {"registerAccept"} : x \in Tasks(u)' <=> x \in Tasks(u)
  <2>1. \A u \in Threads, x \in StepName \ {"registerAccept"} : x \in Tasks(u)' <=> x \in Tasks(u)
    BY <1>6
  <2> QED
    BY <1>1, <1>2, <2>1 DEF Young, Ending, Receiving, Reads, Sending, StepName
<1>13. YoungOK'
  <2>1. \A u \in Threads : Young(u) => at[u] \in Sessions
    BY AtSession DEF Young
  <2> QED
    BY <1>1, <1>5, <1>12, <2>1 DEF YoungOK, StepName
<1>14. EndingOK'
  <2>1. \A u \in Threads : Ending(u) => at[u] \in Sessions
    BY AtSession DEF Ending
  <2> QED
    BY <1>1, <1>2, <1>5, <1>12, <2>1 DEF EndingOK
<1>15. ServiceOK'
  <2>1. \A u \in Threads : /\ "add" \in Tasks(u) => "add" \in Tasks(u)'
                           /\ "onDisconnected" \in Tasks(u) => "onDisconnected" \in Tasks(u)'
                           /\ "releaseSession" \in Tasks(u)' => "releaseSession" \in Tasks(u)
    BY <1>12 DEF StepName
  <2>2. sessions \subseteq Sessions \ {s}
    BY <1>2 DEF TypeOK
  <2> QED
    BY <1>1, <1>4, <1>5, <1>12, <2>1, <2>2 DEF ServiceOK
<1>16. ReceivingOK'
  BY <1>1, <1>4, <1>5, <1>12 DEF ReceivingOK
<1>17. SendingOK'
  <2>1. \A u \in Threads : Sending(u) => at[u] \in Sessions
    BY AtSession DEF Sending
  <2>2. op[s]["send"] = "none"
    BY <1>2 DEF Event
  <2> QED
    BY <1>1, <1>5, <1>12, <2>1, <2>2 DEF SendingOK
<1>18. OwnedOK'
  <2>1. Keeps({"releaseRecv", "releaseSend"})
    BY <1>1, <1>12 DEF Keeps, StepName
  <2> QED
    BY <1>1, <2>1, OwnedFrame
<1> QED
  BY <1>1, <1>4, <1>7, <1>8, <1>9, <1>11, <1>13, <1>14, <1>15, <1>16, <1>17, <1>18

-----------------------------------------------------------------------------
(* A thread takes up a session *)

\* What entering a call does to the tasks of a thread
Enters(t, s, R) ==
    /\ todo' \in [Threads -> Seq(StepName)] /\ StacksOK' /\ failed = "no"
    /\ Tasks(t) = {} /\ Tasks(t)' = R
    /\ \A u \in Threads \ {t} : Tasks(u)' = Tasks(u) /\ at'[u] = at[u] /\ hold'[u] = hold[u]
    /\ at'[t] = s /\ hold'[t] = {s}
    /\ at' \in [Threads -> Sessions \cup {None}] /\ hold' \in [Threads -> SUBSET Sessions]

\* One step to do
LEMMA EnterOne ==
    ASSUME TypeOK, StacksOK, NEW t \in Threads, NEW s \in Sessions, NEW x \in StepName,
           Enter(t, s, <<x>>), hold' = [hold EXCEPT ![t] = {s}]
    PROVE  Enters(t, s, {x})
<1>1. PICK r \in Seq(StepName) : r = <<x>> /\ Nested(r) /\ Elements(r) = {x}
  BY Stack1
<1>2. /\ todo' \in [Threads -> Seq(StepName)] /\ StacksOK' /\ failed = "no"
      /\ Tasks(t) = {} /\ Tasks(t)' = {x}
      /\ \A u \in Threads \ {t} : Tasks(u)' = Tasks(u)
      /\ at'[t] = s /\ \A u \in Threads \ {t} : at'[u] = at[u]
  BY <1>1, EnterTasks
<1>3. /\ hold'[t] = {s} /\ \A u \in Threads \ {t} : hold'[u] = hold[u]
      /\ at' \in [Threads -> Sessions \cup {None}] /\ hold' \in [Threads -> SUBSET Sessions]
  BY DEF TypeOK, Enter
<1> QED
  BY <1>2, <1>3 DEF Enters

\* Two steps to do, the inner first
LEMMA EnterTwo ==
    ASSUME TypeOK, StacksOK, NEW t \in Threads, NEW s \in Sessions, NEW x \in StepName, NEW y \in StepName,
           Layer(x) < Layer(y), Enter(t, s, <<x, y>>), hold' = [hold EXCEPT ![t] = {s}]
    PROVE  Enters(t, s, {x, y})
<1>1. PICK r \in Seq(StepName) : r = <<x, y>> /\ Nested(r) /\ Elements(r) = {x, y}
  BY Stack2
<1>2. /\ todo' \in [Threads -> Seq(StepName)] /\ StacksOK' /\ failed = "no"
      /\ Tasks(t) = {} /\ Tasks(t)' = {x, y}
      /\ \A u \in Threads \ {t} : Tasks(u)' = Tasks(u)
      /\ at'[t] = s /\ \A u \in Threads \ {t} : at'[u] = at[u]
  BY <1>1, EnterTasks
<1>3. /\ hold'[t] = {s} /\ \A u \in Threads \ {t} : hold'[u] = hold[u]
      /\ at' \in [Threads -> Sessions \cup {None}] /\ hold' \in [Threads -> SUBSET Sessions]
  BY DEF TypeOK, Enter
<1> QED
  BY <1>2, <1>3 DEF Enters

\* The tasks that the thread does not take up stay as they were.
LEMMA EnterKeeps ==
    ASSUME NEW t \in Threads, NEW s, NEW R, NEW S, Enters(t, s, R), S \cap R = {}
    PROVE  Keeps(S)
BY DEF Enters, Keeps

\* A thread takes up a session that everybody may know.
LEMMA EnterStep ==
    ASSUME IInv, NEW t \in Threads, NEW s \in Sessions, NEW R, Enters(t, s, R),
           R \cap {"connect", "add", "onConnected", "registerAccept", "broadcast"} = {},
           "releaseSession" \in R => R = {"onDisconnected", "releaseSession"},
           ~Unborn(s), \A u \in Threads : Young(u) => at[u] # s,
           \A x \in Sessions, e \in Event : op'[x][e] = op[x][e] \/ (op'[x][e] = "none" /\ e # "connect"),
           UNCHANGED <<type, connected, sessions, manager, unstarted, lock, acceptOp, acceptSession,
                       accepting, rest>>
    PROVE  ThreadsOK' /\ AcceptsOK' /\ UnbornOK' /\ YoungOK'
<1> USE DEF IInv
<1>1. /\ Tasks(t) = {} /\ Tasks(t)' = R /\ at'[t] = s /\ hold'[t] = {s}
      /\ \A u \in Threads \ {t} : Tasks(u)' = Tasks(u) /\ at'[u] = at[u] /\ hold'[u] = hold[u]
  BY DEF Enters
<1>2. \A x \in Sessions : op'[x]["connect"] = op[x]["connect"]
  BY DEF Event
<1>3. ThreadsOK'
  <2> SUFFICES ASSUME NEW u \in Threads PROVE ThreadOK(u)'
    BY DEF ThreadsOK
  <2>1. CASE u # t
    BY <1>1, <2>1, ThreadFrame DEF ThreadsOK
  <2>2. CASE u = t
    <3>1. ShapeOK(t)'
      BY <1>1 DEF ShapeOK
    <3>2. lock # t /\ accepting[t] = None
      BY <1>1 DEF ThreadsOK, ThreadOK
    <3> QED
      BY <1>1, <2>2, <3>1, <3>2, NoneIsNull DEF ThreadOK
  <2> QED
    BY <2>1, <2>2
<1>4. AcceptsOK'
  BY <1>2, AcceptsFrame
<1>5. UnbornOK'
  <2>1. \A x \in Sessions : Unborn(x)' => Unborn(x) /\ x # s
    BY <1>2 DEF Unborn
  <2> QED
    BY <1>1, <2>1 DEF UnbornOK
<1>6. YoungOK'
  <2>1. ~Young(t)' /\ \A u \in Threads \ {t} : (Young(u)' <=> Young(u)) /\ (Young(u) => at[u] \in Sessions)
    BY <1>1, AtSession DEF Young
  <2>2. \A u \in Threads : Young(u) /\ u # t => \A e \in Event : op'[at[u]][e] = "none"
    BY <2>1 DEF YoungOK
  <2> QED
    BY <1>1, <2>1, <2>2 DEF YoungOK
<1> QED
  BY <1>3, <1>4, <1>5, <1>6

\* An event is taken from the port: its operation is over.
LEMMA TakeFacts ==
    ASSUME TypeOK, NEW t \in Threads, NEW s \in Sessions, NEW e \in Event, NEW r, Take(t, s, e, r)
    PROVE  /\ op[s][e] # "none" /\ op'[s][e] = "none" /\ e \notin owned'[s]
           /\ \A d \in Event \ {e} : op'[s][d] = op[s][d] /\ (d \in owned'[s] <=> d \in owned[s])
           /\ \A x \in Sessions \ {s} : op'[x] = op[x] /\ owned'[x] = owned[x]
           /\ op' \in [Sessions -> [Event -> OpState]] /\ owned' \in [Sessions -> SUBSET Event]
           /\ Enter(t, s, r) /\ hold' = [hold EXCEPT ![t] = {s}]
BY DEF TypeOK, Take, OpState

\* ProcessRecv: the thread that takes the completion receives next, or disconnects.
LEMMA ProcessRecvPreserves ==
    ASSUME IInv, NEW t \in Threads, NEW s \in Sessions, NEW bytes \in BOOLEAN,
           ProcessRecv(t, s, bytes)
    PROVE  IInv'
<1> USE DEF IInv
<1>1. UNCHANGED <<type, connected, sendRegistered, sessions, manager, acceptOp, acceptSession,
                  lock, accepting, rest, unstarted, deaf, stranded, failed>>
  BY DEF ProcessRecv, Take, Enter, sessionVars, eventVars, acceptVars, serviceVars, threadVars
<1>2. /\ op[s]["recv"] # "none" /\ op'[s]["recv"] = "none" /\ "recv" \notin owned'[s]
      /\ \A d \in Event \ {"recv"} : op'[s][d] = op[s][d] /\ (d \in owned'[s] <=> d \in owned[s])
      /\ \A x \in Sessions \ {s} : op'[x] = op[x] /\ owned'[x] = owned[x]
      /\ op' \in [Sessions -> [Event -> OpState]] /\ owned' \in [Sessions -> SUBSET Event]
  BY TakeFacts DEF ProcessRecv, Event
<1>3. PICK R \in {{"recv"}, {"disconnect"}} : Enters(t, s, R)
  <2>1. Take(t, s, "recv", IF bytes THEN <<"recv">> ELSE <<"disconnect">>) /\ "recv" \in Event
    BY DEF ProcessRecv, Event
  <2>2. Enter(t, s, IF bytes THEN <<"recv">> ELSE <<"disconnect">>) /\ hold' = [hold EXCEPT ![t] = {s}]
    BY <2>1, TakeFacts
  <2>3. "recv" \in StepName /\ "disconnect" \in StepName
    BY DEF StepName
  <2>4. CASE bytes
    BY <2>2, <2>3, <2>4, EnterOne
  <2>5. CASE ~bytes
    BY <2>2, <2>3, <2>5, EnterOne
  <2> QED
    BY <2>4, <2>5
<1>4. \A x \in Sessions : /\ op'[x]["connect"] = op[x]["connect"] /\ op'[x]["send"] = op[x]["send"]
                          /\ op'[x]["disconnect"] = op[x]["disconnect"]
  BY <1>2 DEF Event
<1>5. TypeOK' /\ StacksOK'
  BY <1>1, <1>2, <1>3 DEF TypeOK, Enters
<1>6. ~Unborn(s) /\ \A u \in Threads : Young(u) => at[u] # s
  BY <1>2 DEF UnbornOK, YoungOK, Event
<1>7. ThreadsOK' /\ AcceptsOK' /\ UnbornOK' /\ YoungOK'
  <2>1. \A x \in Sessions, e \in Event : op'[x][e] = op[x][e] \/ (op'[x][e] = "none" /\ e # "connect")
    BY <1>2
  <2> QED
    BY <1>1, <1>3, <1>6, <2>1, EnterStep
<1>8. EndingOK' /\ ServiceOK' /\ SendingOK'
  <2>1. /\ Keeps({"registerDisconnect", "releaseSession"})
        /\ Keeps({"add", "registerDisconnect", "releaseSession", "onDisconnected"})
        /\ Keeps({"registerSend", "postSend", "releaseSend", "unregisterSend"})
    BY <1>3, EnterKeeps
  <2> QED
    BY <1>1, <1>4, <2>1, EndingFrame, ServiceFrame, SendingFrame
<1>9. OwnedOK'
  <2>1. \A u \in Threads : /\ "releaseSend" \in Tasks(u) => "releaseSend" \in Tasks(u)' /\ at'[u] = at[u]
                           /\ "releaseRecv" \in Tasks(u) => "releaseRecv" \in Tasks(u)' /\ at'[u] = at[u]
    BY <1>3 DEF Enters
  <2>2. "recv" \in Event
    BY DEF Event
  <2> QED
    BY <1>2, <2>1, <2>2, OwnedTaken
<1>10. ReceivingOK'
  <2>1. \A u \in Threads \ {t} : /\ Receiving(u)' <=> Receiving(u)
                                 /\ Reads(u)' <=> Reads(u)
                                 /\ at'[u] = at[u] /\ (Receiving(u) => at[u] \in Sessions \ {s})
    <3>1. \A u \in Threads : Receiving(u) => at[u] \in Sessions /\ at[u] # s
      BY <1>2, AtSession DEF Receiving, ReceivingOK
    <3> QED
      BY <1>3, <3>1 DEF Enters, Receiving, Reads
  <2>2. Reads(t)' /\ at'[t] = s /\ ~Reads(t)
    BY <1>3 DEF Enters, Reads
  <2> QED
    BY <1>1, <1>2, <2>1, <2>2 DEF ReceivingOK
<1> QED
  BY <1>1, <1>5, <1>7, <1>8, <1>9, <1>10

\* ProcessSend: the thread that takes the completion is the one that sends.
LEMMA ProcessSendPreserves ==
    ASSUME IInv, NEW t \in Threads, NEW s \in Sessions, NEW steps \in {<<"disconnect">>, <<"unregisterSend">>, <<"registerSend">>},
           ProcessSend(t, s, steps)
    PROVE  IInv'
<1> USE DEF IInv
<1>1. UNCHANGED <<type, connected, sendRegistered, sessions, manager, acceptOp, acceptSession,
                  lock, accepting, rest, unstarted, deaf, stranded, failed>>
  BY DEF ProcessSend, Take, Enter, sessionVars, eventVars, acceptVars, serviceVars, threadVars
<1>2. /\ op[s]["send"] # "none" /\ op'[s]["send"] = "none" /\ "send" \notin owned'[s]
      /\ \A d \in Event \ {"send"} : op'[s][d] = op[s][d] /\ (d \in owned'[s] <=> d \in owned[s])
      /\ \A x \in Sessions \ {s} : op'[x] = op[x] /\ owned'[x] = owned[x]
      /\ op' \in [Sessions -> [Event -> OpState]] /\ owned' \in [Sessions -> SUBSET Event]
  BY TakeFacts DEF ProcessSend, Event
<1>3. PICK R \in {{"disconnect"}, {"unregisterSend"}, {"registerSend"}} : Enters(t, s, R)
  <2>1. Take(t, s, "send", steps) /\ "send" \in Event
    BY DEF ProcessSend, Event
  <2>2. Enter(t, s, steps) /\ hold' = [hold EXCEPT ![t] = {s}]
    BY <2>1, TakeFacts
  <2>3. "disconnect" \in StepName /\ "unregisterSend" \in StepName /\ "registerSend" \in StepName
    BY DEF StepName
  <2>4. CASE steps = <<"disconnect">>
    BY <2>2, <2>3, <2>4, EnterOne
  <2>5. CASE steps = <<"unregisterSend">>
    BY <2>2, <2>3, <2>5, EnterOne
  <2>6. CASE steps = <<"registerSend">>
    BY <2>2, <2>3, <2>6, EnterOne
  <2> QED
    BY <2>4, <2>5, <2>6
<1>4. \A x \in Sessions : /\ op'[x]["connect"] = op[x]["connect"] /\ op'[x]["recv"] = op[x]["recv"]
                          /\ op'[x]["disconnect"] = op[x]["disconnect"]
  BY <1>2 DEF Event
<1>5. TypeOK' /\ StacksOK'
  BY <1>1, <1>2, <1>3 DEF TypeOK, Enters
<1>6. ~Unborn(s) /\ \A u \in Threads : Young(u) => at[u] # s
  BY <1>2 DEF UnbornOK, YoungOK, Event
<1>7. ThreadsOK' /\ AcceptsOK' /\ UnbornOK' /\ YoungOK'
  <2>1. \A x \in Sessions, e \in Event : op'[x][e] = op[x][e] \/ (op'[x][e] = "none" /\ e # "connect")
    BY <1>2
  <2> QED
    BY <1>1, <1>3, <1>6, <2>1, EnterStep
<1>8. EndingOK' /\ ServiceOK' /\ ReceivingOK'
  <2>1. /\ Keeps({"registerDisconnect", "releaseSession"})
        /\ Keeps({"add", "registerDisconnect", "releaseSession", "onDisconnected"})
        /\ Keeps({"recv", "postRecv", "releaseRecv"})
    BY <1>3, EnterKeeps
  <2>2. \A u \in Threads : Reads(u) => Reads(u)' /\ at'[u] = at[u]
    BY <1>3 DEF Enters, Reads
  <2> QED
    BY <1>1, <1>4, <2>1, <2>2, EndingFrame, ServiceFrame, ReceivingFrame
<1>9. OwnedOK'
  <2>1. \A u \in Threads : /\ "releaseSend" \in Tasks(u) => "releaseSend" \in Tasks(u)' /\ at'[u] = at[u]
                           /\ "releaseRecv" \in Tasks(u) => "releaseRecv" \in Tasks(u)' /\ at'[u] = at[u]
    BY <1>3 DEF Enters
  <2>2. "send" \in Event
    BY DEF Event
  <2> QED
    BY <1>2, <2>1, <2>2, OwnedTaken
<1>10. SendingOK'
  <2>1. \A u \in Threads \ {t} : /\ Sending(u)' <=> Sending(u)
                                 /\ at'[u] = at[u] /\ (Sending(u) => at[u] \in Sessions \ {s})
    <3>1. \A u \in Threads : Sending(u) => at[u] \in Sessions /\ at[u] # s
      BY <1>2, AtSession DEF Sending, SendingOK
    <3> QED
      BY <1>3, <3>1 DEF Enters, Sending
  <2>2. at'[t] = s /\ sendRegistered[s]
    BY <1>2, <1>3 DEF Enters, SendingOK
  <2> QED
    BY <1>1, <1>2, <2>1, <2>2 DEF SendingOK
<1> QED
  BY <1>1, <1>5, <1>7, <1>8, <1>9, <1>10

\* ProcessDisconnect: the one thread that takes the session out of the manager and of the Service.
LEMMA ProcessDisconnectPreserves ==
    ASSUME IInv, NEW t \in Threads, NEW s \in Sessions,
           ProcessDisconnect(t, s)
    PROVE  IInv'
<1> USE DEF IInv
<1>1. UNCHANGED <<type, connected, sendRegistered, sessions, manager, acceptOp, acceptSession,
                  lock, accepting, rest, unstarted, deaf, stranded, failed>>
  BY DEF ProcessDisconnect, Take, Enter, sessionVars, eventVars, acceptVars, serviceVars, threadVars
<1>2. /\ op[s]["disconnect"] # "none" /\ op'[s]["disconnect"] = "none" /\ "disconnect" \notin owned'[s]
      /\ \A d \in Event \ {"disconnect"} : op'[s][d] = op[s][d] /\ (d \in owned'[s] <=> d \in owned[s])
      /\ \A x \in Sessions \ {s} : op'[x] = op[x] /\ owned'[x] = owned[x]
      /\ op' \in [Sessions -> [Event -> OpState]] /\ owned' \in [Sessions -> SUBSET Event]
  BY TakeFacts DEF ProcessDisconnect, Event
<1>3. Enters(t, s, {"onDisconnected", "releaseSession"})
  <2>1. Take(t, s, "disconnect", <<"onDisconnected", "releaseSession">>) /\ "disconnect" \in Event
    BY DEF ProcessDisconnect, Event
  <2>2. Enter(t, s, <<"onDisconnected", "releaseSession">>) /\ hold' = [hold EXCEPT ![t] = {s}]
    BY <2>1, TakeFacts
  <2>3. /\ "onDisconnected" \in StepName /\ "releaseSession" \in StepName
        /\ Layer("onDisconnected") < Layer("releaseSession")
    BY DEF StepName, Layer
  <2> QED
    BY <2>2, <2>3, EnterTwo
<1>4. \A x \in Sessions : /\ op'[x]["connect"] = op[x]["connect"] /\ op'[x]["recv"] = op[x]["recv"]
                          /\ op'[x]["send"] = op[x]["send"]
  BY <1>2 DEF Event
<1>5. TypeOK' /\ StacksOK'
  BY <1>1, <1>2, <1>3 DEF TypeOK, Enters
<1>6. ~Unborn(s) /\ \A u \in Threads : Young(u) => at[u] # s
  BY <1>2 DEF UnbornOK, YoungOK, Event
<1>7. ThreadsOK' /\ AcceptsOK' /\ UnbornOK' /\ YoungOK'
  <2>1. \A x \in Sessions, e \in Event : op'[x][e] = op[x][e] \/ (op'[x][e] = "none" /\ e # "connect")
    BY <1>2
  <2> QED
    BY <1>1, <1>3, <1>6, <2>1, EnterStep
<1>8. ReceivingOK' /\ SendingOK'
  <2>1. /\ Keeps({"recv", "postRecv", "releaseRecv"})
        /\ Keeps({"registerSend", "postSend", "releaseSend", "unregisterSend"})
    BY <1>3, EnterKeeps
  <2>2. \A u \in Threads : Reads(u) => Reads(u)' /\ at'[u] = at[u]
    BY <1>3 DEF Enters, Reads
  <2> QED
    BY <1>1, <1>4, <2>1, <2>2, ReceivingFrame, SendingFrame
<1>9. OwnedOK'
  <2>1. \A u \in Threads : /\ "releaseSend" \in Tasks(u) => "releaseSend" \in Tasks(u)' /\ at'[u] = at[u]
                           /\ "releaseRecv" \in Tasks(u) => "releaseRecv" \in Tasks(u)' /\ at'[u] = at[u]
    BY <1>3 DEF Enters
  <2>2. "disconnect" \in Event
    BY DEF Event
  <2> QED
    BY <1>2, <2>1, <2>2, OwnedTaken
<1>10. /\ Ending(t)' /\ at'[t] = s /\ ~Ending(t) /\ Tasks(t) = {}
       /\ \A u \in Threads \ {t} : /\ Ending(u)' <=> Ending(u)
                                   /\ at'[u] = at[u] /\ (Ending(u) => at[u] \in Sessions \ {s})
       /\ ~connected[s] /\ s \in sessions
  <2>1. \A u \in Threads : Ending(u) => at[u] \in Sessions /\ at[u] # s
    BY <1>2, AtSession DEF Ending, EndingOK
  <2> QED
    BY <1>2, <1>3, <2>1 DEF Enters, Ending, EndingOK
<1>11. EndingOK'
  BY <1>1, <1>2, <1>10 DEF EndingOK
<1>12. ServiceOK'
  <2>1. /\ "onDisconnected" \in Tasks(t)'
        /\ \A u \in Threads \ {t} : Tasks(u)' = Tasks(u)
    BY <1>3 DEF Enters
  <2>2. \A x \in Sessions : x # s => op'[x]["disconnect"] = op[x]["disconnect"]
    BY <1>2
  <2>3. ASSUME NEW x \in sessions
        PROVE  connected[x] \/ op'[x]["disconnect"] # "none" \/ x \in stranded \/ \E u \in Threads : at'[u] = x /\ Ending(u)'
    <3>1. x \in Sessions
      BY DEF TypeOK
    <3>2. CASE x = s
      BY <1>10, <3>2
    <3>3. CASE x # s
      BY <1>10, <2>2, <3>1, <3>3 DEF ServiceOK
    <3> QED
      BY <3>2, <3>3
  <2>4. ASSUME NEW x \in Sessions, connected[x]
        PROVE  x \in sessions \/ \E u \in Threads : at'[u] = x /\ "add" \in Tasks(u)'
    BY <1>10, <2>1, <2>4 DEF ServiceOK
  <2>5. ASSUME NEW u \in Threads, "releaseSession" \in Tasks(u)'
        PROVE  "onDisconnected" \in Tasks(u)' \/ at'[u] \notin manager
    BY <1>10, <2>1, <2>5 DEF ServiceOK
  <2> QED
    BY <1>1, <2>3, <2>4, <2>5 DEF ServiceOK
<1> QED
  BY <1>1, <1>5, <1>7, <1>8, <1>9, <1>11, <1>12

\* Send from outside: on a session that the manager knows.
LEMMA StartSendPreserves ==
    ASSUME IInv, NEW t \in Threads, NEW s \in Sessions,
           StartSend(t, s)
    PROVE  IInv'
<1> USE DEF IInv
<1>1. UNCHANGED <<type, connected, sendRegistered, op, owned, sessions, manager, acceptOp,
                  acceptSession, lock, accepting, rest, unstarted, deaf, stranded, failed>>
  BY DEF StartSend, Enter, sessionVars, eventVars, acceptVars, serviceVars, threadVars
<1>2. s \in manager
  BY DEF StartSend
<1>3. Enters(t, s, {"send"})
  <2>1. Enter(t, s, <<"send">>) /\ hold' = [hold EXCEPT ![t] = {s}] /\ "send" \in StepName
    BY DEF StartSend, StepName
  <2> QED
    BY <2>1, EnterOne
<1>4. ~Unborn(s) /\ \A u \in Threads : Young(u) => at[u] # s
  BY <1>2 DEF UnbornOK, YoungOK
<1>5. TypeOK' /\ StacksOK'
  BY <1>1, <1>3 DEF TypeOK, Enters
<1>6. ThreadsOK' /\ AcceptsOK' /\ UnbornOK' /\ YoungOK'
  BY <1>1, <1>3, <1>4, EnterStep
<1>7. EndingOK' /\ ServiceOK' /\ ReceivingOK' /\ SendingOK' /\ OwnedOK'
  <2>1. /\ Keeps({"registerDisconnect", "releaseSession"})
        /\ Keeps({"add", "registerDisconnect", "releaseSession", "onDisconnected"})
        /\ Keeps({"recv", "postRecv", "releaseRecv"})
        /\ Keeps({"registerSend", "postSend", "releaseSend", "unregisterSend"})
        /\ Keeps({"releaseRecv", "releaseSend"})
    BY <1>3, EnterKeeps
  <2>2. \A u \in Threads : Reads(u) => Reads(u)' /\ at'[u] = at[u]
    BY <1>3 DEF Enters, Reads
  <2> QED
    BY <1>1, <2>1, <2>2, EndingFrame, ServiceFrame, ReceivingFrame, SendingFrame, OwnedFrame
<1> QED
  BY <1>1, <1>5, <1>6, <1>7

\* The completion of ConnectEx: from here on its thread is the one that knows the session.
LEMMA DispatchConnectPreserves ==
    ASSUME IInv, NEW t \in Threads, NEW s \in Sessions,
           DispatchConnect(t, s)
    PROVE  IInv'
<1> USE DEF IInv
<1>1. UNCHANGED <<type, connected, sendRegistered, sessions, manager, acceptOp, acceptSession,
                  lock, accepting, rest, unstarted, deaf, stranded, failed>>
  BY DEF DispatchConnect, Take, Enter, sessionVars, eventVars, acceptVars, serviceVars, threadVars
<1>2. /\ op[s]["connect"] # "none" /\ op'[s]["connect"] = "none" /\ "connect" \notin owned'[s]
      /\ \A d \in Event \ {"connect"} : op'[s][d] = op[s][d] /\ (d \in owned'[s] <=> d \in owned[s])
      /\ \A x \in Sessions \ {s} : op'[x] = op[x] /\ owned'[x] = owned[x]
      /\ op' \in [Sessions -> [Event -> OpState]] /\ owned' \in [Sessions -> SUBSET Event]
  BY TakeFacts DEF DispatchConnect, Event
<1>3. Enters(t, s, {"connect"})
  <2>1. Take(t, s, "connect", <<"connect">>) /\ "connect" \in Event
    BY DEF DispatchConnect, Event
  <2>2. Enter(t, s, <<"connect">>) /\ hold' = [hold EXCEPT ![t] = {s}]
    BY <2>1, TakeFacts
  <2>3. "connect" \in StepName
    BY DEF StepName
  <2> QED
    BY <2>2, <2>3, EnterOne
<1>4. \A x \in Sessions : /\ op'[x]["recv"] = op[x]["recv"] /\ op'[x]["send"] = op[x]["send"]
                          /\ op'[x]["disconnect"] = op[x]["disconnect"]
  BY <1>2 DEF Event
<1>5. TypeOK' /\ StacksOK'
  BY <1>1, <1>2, <1>3 DEF TypeOK, Enters
<1>6. /\ ~connected[s] /\ s \notin sessions /\ s \notin manager /\ s \notin unstarted
      /\ \A u \in Threads : at[u] # s
      /\ \A e \in Event : op'[s][e] = "none"
      /\ \A a \in AcceptEvents : ~(acceptOp[a] # "none" /\ acceptSession[a] = s)
  <2>1. type # "Server"
    BY <1>2 DEF AcceptsOK
  <2>2. "connect" \in Event
    BY DEF Event
  <2> QED
    BY <1>2, <2>1, <2>2 DEF UnbornOK, Unborn, AcceptsOK
<1>7. ~Unborn(s)' /\ \A x \in Sessions \ {s} : Unborn(x)' <=> Unborn(x)
  BY <1>1, <1>2, <1>6 DEF Unborn, Event
<1>8. /\ Tasks(t) = {} /\ Tasks(t)' = {"connect"} /\ at'[t] = s /\ hold'[t] = {s}
      /\ \A u \in Threads \ {t} : Tasks(u)' = Tasks(u) /\ at'[u] = at[u] /\ hold'[u] = hold[u]
  BY <1>3 DEF Enters
<1>9. ThreadsOK'
  <2> SUFFICES ASSUME NEW u \in Threads PROVE ThreadOK(u)'
    BY DEF ThreadsOK
  <2>1. CASE u # t
    BY <1>1, <1>8, <2>1, ThreadFrame DEF ThreadsOK
  <2>2. CASE u = t
    <3>1. lock # t /\ accepting[t] = None
      BY <1>8 DEF ThreadsOK, ThreadOK
    <3> QED
      BY <1>1, <1>8, <2>2, <3>1, NoneIsNull DEF ThreadOK, ShapeOK
  <2> QED
    BY <2>1, <2>2
<1>10. AcceptsOK'
  <2>1. \A x \in Sessions : op[x]["connect"] = "none" => op'[x]["connect"] = "none"
    BY <1>2
  <2> QED
    BY <1>1, <2>1, AcceptsFrame
<1>11. UnbornOK'
  BY <1>1, <1>2, <1>7, <1>8 DEF UnbornOK
<1>12. YoungOK'
  <2>1. \A u \in Threads \ {t} : (Young(u)' <=> Young(u)) /\ (Young(u) => at[u] \in Sessions \ {s})
    BY <1>1, <1>6, <1>8, AtSession DEF Young
  <2> QED
    BY <1>1, <1>2, <1>6, <1>8, <2>1 DEF YoungOK
<1>13. EndingOK' /\ ServiceOK' /\ ReceivingOK' /\ SendingOK'
  <2>1. /\ Keeps({"registerDisconnect", "releaseSession"})
        /\ Keeps({"add", "registerDisconnect", "releaseSession", "onDisconnected"})
        /\ Keeps({"recv", "postRecv", "releaseRecv"})
        /\ Keeps({"registerSend", "postSend", "releaseSend", "unregisterSend"})
    BY <1>3, EnterKeeps
  <2>2. \A u \in Threads : Reads(u) => Reads(u)' /\ at'[u] = at[u]
    BY <1>3 DEF Enters, Reads
  <2> QED
    BY <1>1, <1>4, <2>1, <2>2, EndingFrame, ServiceFrame, ReceivingFrame, SendingFrame
<1>14. OwnedOK'
  <2>1. \A u \in Threads : /\ "releaseSend" \in Tasks(u) => "releaseSend" \in Tasks(u)' /\ at'[u] = at[u]
                           /\ "releaseRecv" \in Tasks(u) => "releaseRecv" \in Tasks(u)' /\ at'[u] = at[u]
    BY <1>3 DEF Enters
  <2>2. "connect" \in Event
    BY DEF Event
  <2> QED
    BY <1>2, <2>1, <2>2, OwnedTaken
<1> QED
  BY <1>1, <1>5, <1>9, <1>10, <1>11, <1>12, <1>13, <1>14

\* ProcessAccept: from here on its thread is the one that knows the session.
LEMMA ProcessAcceptPreserves ==
    ASSUME IInv, NEW t \in Threads, NEW a \in AcceptEvents, NEW steps \in {<<"connect", "registerAccept">>, <<"registerAccept">>},
           ProcessAccept(t, a, steps)
    PROVE  IInv'
<1> USE DEF IInv
<1>1. UNCHANGED <<type, connected, sendRegistered, op, owned, sessions, manager, acceptSession,
                  lock, rest, unstarted, deaf, stranded, failed>>
  BY DEF ProcessAccept, Enter, sessionVars, eventVars, acceptVars, serviceVars, threadVars
<1>2. PICK s \in Sessions : /\ s = acceptSession[a] /\ acceptOp[a] # "none" /\ type = "Server"
                            /\ \A b \in AcceptEvents \ {a} : ~(acceptOp[b] # "none" /\ acceptSession[b] = s)
                            /\ s \notin unstarted /\ op[s]["connect"] = "none" /\ Unborn(s)
                            /\ \A u \in Threads : accepting[u] # a
  <2>1. acceptOp[a] = "done" /\ type = "Server" /\ acceptSession[a] \in Sessions
    BY DEF ProcessAccept, AcceptsOK, TypeOK
  <2>2. \A u \in Threads : accepting[u] # a
    BY <2>1, NoneIsNull DEF ThreadsOK, ThreadOK
  <2> QED
    BY <2>1, <2>2 DEF AcceptsOK, Unborn
<1>3. PICK R \in {{"connect", "registerAccept"}, {"registerAccept"}} : Enters(t, s, R)
  <2>1. Enter(t, s, steps) /\ hold' = [hold EXCEPT ![t] = {s}]
    BY <1>2 DEF ProcessAccept
  <2>2. /\ "connect" \in StepName /\ "registerAccept" \in StepName
        /\ Layer("connect") < Layer("registerAccept")
    BY DEF StepName, Layer
  <2>3. CASE steps = <<"connect", "registerAccept">>
    BY <2>1, <2>2, <2>3, EnterTwo
  <2>4. CASE steps = <<"registerAccept">>
    BY <2>1, <2>2, <2>4, EnterOne
  <2> QED
    BY <2>3, <2>4
<1>4. acceptOp' = [acceptOp EXCEPT ![a] = "none"] /\ accepting' = [accepting EXCEPT ![t] = a]
  BY DEF ProcessAccept
<1>5. /\ acceptOp'[a] = "none" /\ \A b \in AcceptEvents \ {a} : acceptOp'[b] = acceptOp[b]
      /\ accepting'[t] = a /\ \A u \in Threads \ {t} : accepting'[u] = accepting[u]
  BY <1>4 DEF TypeOK
<1>6. /\ ~connected[s] /\ s \notin sessions /\ s \notin manager
      /\ \A u \in Threads : at[u] # s
      /\ \A e \in Event : op[s][e] = "none"
  BY <1>2 DEF UnbornOK
<1>7. TypeOK' /\ StacksOK'
  BY <1>1, <1>3, <1>4 DEF TypeOK, Enters, OpState
<1>8. ~Unborn(s)' /\ \A x \in Sessions \ {s} : Unborn(x)' => Unborn(x)
  BY <1>1, <1>2, <1>5 DEF Unborn
<1>9. /\ Tasks(t) = {} /\ Tasks(t)' = R /\ at'[t] = s /\ hold'[t] = {s}
      /\ \A u \in Threads \ {t} : Tasks(u)' = Tasks(u) /\ at'[u] = at[u] /\ hold'[u] = hold[u]
  BY <1>3 DEF Enters
<1>10. ThreadsOK'
  <2> SUFFICES ASSUME NEW u \in Threads PROVE ThreadOK(u)'
    BY DEF ThreadsOK
  <2>1. CASE u # t
    <3>1. accepting[u] # None => accepting[u] \in AcceptEvents \ {a}
      BY <1>2 DEF TypeOK
    <3> QED
      BY <1>1, <1>5, <1>9, <2>1, <3>1, ThreadFrame DEF ThreadsOK
  <2>2. CASE u = t
    <3>1. lock # t /\ accepting[t] = None
      BY <1>9 DEF ThreadsOK, ThreadOK
    <3>2. ShapeOK(t)'
      BY <1>9 DEF ShapeOK
    <3> QED
      BY <1>1, <1>2, <1>5, <1>9, <2>2, <3>1, <3>2, NoneIsNull DEF ThreadOK
  <2> QED
    BY <2>1, <2>2
<1>11. AcceptsOK'
  <2>1. /\ \A b \in AcceptEvents : acceptOp'[b] # "none" => b # a /\ acceptOp[b] # "none"
        /\ \A b \in AcceptEvents : acceptOp'[b] = "none" => b = a \/ acceptOp[b] = "none"
    BY <1>5
  <2>2. \A b \in AcceptEvents : acceptOp'[b] = "none" => \E u \in Threads : accepting'[u] = b
    <3> SUFFICES ASSUME NEW b \in AcceptEvents, b # a, acceptOp[b] = "none"
                 PROVE  \E u \in Threads : accepting'[u] = b
      BY <1>5, <2>1
    <3>1. PICK u \in Threads : accepting[u] = b
      BY <1>2 DEF AcceptsOK
    <3>2. accepting[t] = None
      BY <1>9 DEF ThreadsOK, ThreadOK
    <3> QED
      BY <1>5, <3>1, <3>2, NoneIsNull
  <2>3. \A u, v \in Threads : accepting'[u] = accepting'[v] /\ accepting'[u] # None => u = v
    BY <1>2, <1>5 DEF AcceptsOK
  <2> QED
    BY <1>1, <2>1, <2>2, <2>3 DEF AcceptsOK
<1>12. UnbornOK'
  BY <1>1, <1>8, <1>9 DEF UnbornOK
<1>13. YoungOK'
  <2>1. \A u \in Threads \ {t} : (Young(u)' <=> Young(u)) /\ at[u] # s
    BY <1>1, <1>6, <1>9 DEF Young
  <2>2. "add" \notin Tasks(t)' /\ "onConnected" \notin Tasks(t)'
    BY <1>9
  <2> QED
    BY <1>1, <1>6, <1>9, <2>1, <2>2 DEF YoungOK, Young
<1>14. EndingOK' /\ ServiceOK' /\ ReceivingOK' /\ SendingOK' /\ OwnedOK'
  <2>1. /\ Keeps({"registerDisconnect", "releaseSession"})
        /\ Keeps({"add", "registerDisconnect", "releaseSession", "onDisconnected"})
        /\ Keeps({"recv", "postRecv", "releaseRecv"})
        /\ Keeps({"registerSend", "postSend", "releaseSend", "unregisterSend"})
        /\ Keeps({"releaseRecv", "releaseSend"})
    BY <1>3, EnterKeeps
  <2>2. \A u \in Threads : Reads(u) => Reads(u)' /\ at'[u] = at[u]
    BY <1>3 DEF Enters, Reads
  <2> QED
    BY <1>1, <2>1, <2>2, EndingFrame, ServiceFrame, ReceivingFrame, SendingFrame, OwnedFrame
<1> QED
  BY <1>1, <1>7, <1>10, <1>11, <1>12, <1>13, <1>14

-----------------------------------------------------------------------------
(* Steps of the system and of Start, in which no thread takes part *)

\* No thread has moved.
LEMMA SameTasks ==
    ASSUME UNCHANGED <<todo, at>>
    PROVE  /\ \A u \in Threads : /\ Tasks(u)' = Tasks(u)
                                 /\ Young(u)' <=>
                                      "connect" \in Tasks(u) \/ "add" \in Tasks(u) \/ (type' = "Server" /\ "onConnected" \in Tasks(u))
                                 /\ Ending(u)' <=> Ending(u)
           /\ \A S : Keeps(S)
           /\ StacksOK => StacksOK'
BY DEF Tasks, Young, Ending, Keeps, StacksOK

\* Such a step leaves the threads and what they are about alone.
LEMMA SystemStep ==
    ASSUME IInv,
           UNCHANGED <<type, connected, sendRegistered, sessions, manager, acceptSession, lock, hold, at, accepting,
                       todo, rest, deaf, stranded>>,
           \A s \in Sessions : /\ op'[s]["recv"] = "none" <=> op[s]["recv"] = "none"
                               /\ op'[s]["send"] = "none" <=> op[s]["send"] = "none"
                               /\ op'[s]["disconnect"] = "none" <=> op[s]["disconnect"] = "none",
           \A s \in Sessions : op'[s]["connect"] = "none" \/ Unborn(s),
           \A a \in AcceptEvents : acceptOp'[a] = "none" <=> acceptOp[a] = "none"
    PROVE  StacksOK' /\ ThreadsOK' /\ YoungOK' /\ EndingOK' /\ ServiceOK' /\ ReceivingOK' /\ SendingOK'
<1> USE DEF IInv
<1>1. /\ \A u \in Threads : /\ Tasks(u)' = Tasks(u)
                            /\ Young(u)' <=> Young(u)
      /\ \A S : Keeps(S)
      /\ StacksOK'
  BY SameTasks DEF Young
<1>2. ThreadsOK'
  <2> SUFFICES ASSUME NEW u \in Threads PROVE ThreadOK(u)'
    BY DEF ThreadsOK
  <2>1. ThreadOK(u)
    BY DEF ThreadsOK
  <2>2. accepting[u] # None => (acceptOp'[accepting[u]] = "none" <=> acceptOp[accepting[u]] = "none")
    BY DEF TypeOK
  <2> QED
    BY <1>1, <2>1, <2>2 DEF ThreadOK, ShapeOK
<1>3. YoungOK'
  <2>1. ASSUME NEW u \in Threads, Young(u) PROVE \A e \in Event : op'[at[u]][e] = "none"
    <3>1. at[u] \in Sessions
      BY <2>1, AtSession DEF Young
    <3>2. ~Unborn(at[u])
      BY <3>1 DEF UnbornOK
    <3>3. \A e \in Event : op[at[u]][e] = "none"
      BY <2>1 DEF YoungOK
    <3> QED
      BY <3>1, <3>2, <3>3 DEF Event
  <2> QED
    BY <1>1, <2>1 DEF YoungOK
<1>4. EndingOK' /\ ServiceOK' /\ SendingOK'
  BY <1>1, EndingFrame, ServiceFrame, SendingFrame
<1>5. ReceivingOK'
  <2>1. \A u \in Threads : Reads(u) => Reads(u)'
    BY <1>1 DEF Reads
  <2> QED
    BY <1>1, <2>1, ReceivingFrame
<1> QED
  BY <1>1, <1>2, <1>3, <1>4, <1>5

\* Start posts the ConnectEx of a session that only Start knows.
LEMMA ConnectPreserves == ASSUME IInv, NEW s \in Sessions, Connect(s) PROVE IInv'
<1> USE DEF IInv
<1>1. UNCHANGED <<todo, type, connected, sendRegistered, sessions, manager, acceptOp, acceptSession,
                  lock, hold, at, accepting, rest, deaf, stranded, failed>>
  BY DEF Connect, sessionVars, eventVars, acceptVars, serviceVars, threadVars
<1>2. /\ s \in unstarted /\ unstarted' = unstarted \ {s} /\ type # "Server"
      /\ owned' = [owned EXCEPT ![s] = {"connect"}] /\ op' = [op EXCEPT ![s]["connect"] = "posted"]
  BY DEF Connect, AcceptsOK
<1>3. /\ ~connected[s] /\ s \notin sessions /\ s \notin manager
      /\ \A u \in Threads : at[u] # s
      /\ \A e \in Event : op[s][e] = "none"
      /\ Unborn(s)
  BY <1>2 DEF UnbornOK, Unborn
<1>4. /\ op'[s]["connect"] = "posted" /\ \A d \in Event \ {"connect"} : op'[s][d] = op[s][d]
      /\ \A x \in Sessions \ {s} : op'[x] = op[x] /\ owned'[x] = owned[x]
      /\ owned'[s] = {"connect"}
      /\ op' \in [Sessions -> [Event -> OpState]] /\ owned' \in [Sessions -> SUBSET Event]
  BY <1>2 DEF TypeOK, OpState, Event
<1>5. TypeOK'
  BY <1>1, <1>2, <1>4 DEF TypeOK
<1>6. StacksOK' /\ ThreadsOK' /\ YoungOK' /\ EndingOK' /\ ServiceOK' /\ ReceivingOK' /\ SendingOK'
  <2>1. \A x \in Sessions : /\ op'[x]["recv"] = op[x]["recv"] /\ op'[x]["send"] = op[x]["send"]
                            /\ op'[x]["disconnect"] = op[x]["disconnect"]
    BY <1>4 DEF Event
  <2>2. \A x \in Sessions : op'[x]["connect"] = "none" \/ Unborn(x)
    BY <1>3, <1>4 DEF Unborn
  <2> QED
    BY <1>1, <2>1, <2>2, SystemStep
<1>7. AcceptsOK'
  BY <1>1, <1>2 DEF AcceptsOK
<1>8. UnbornOK'
  <2>1. \A x \in Sessions \ {s} : Unborn(x)' => Unborn(x)
    BY <1>1, <1>2, <1>4 DEF Unborn
  <2>2. s \notin unstarted' /\ \A e \in Event \ {"connect"} : op'[s][e] = "none"
    BY <1>2, <1>3, <1>4
  <2> QED
    BY <1>1, <1>2, <1>3, <1>4, <2>1, <2>2 DEF UnbornOK
<1>9. OwnedOK'
  <2>1. \A u \in Threads : Tasks(u)' = Tasks(u)
    BY <1>1, SameTasks
  <2> QED
    BY <1>1, <1>3, <1>4, <2>1 DEF OwnedOK
<1> QED
  BY <1>1, <1>5, <1>6, <1>7, <1>8, <1>9

\* Start gives up.
LEMMA ConnectFailPreserves == ASSUME IInv, NEW s \in Sessions, ConnectFail(s) PROVE IInv'
<1> USE DEF IInv
<1>1. UNCHANGED <<todo, type, connected, sendRegistered, op, owned, sessions, manager, acceptOp,
                  acceptSession, lock, hold, at, accepting, rest, deaf, stranded>>
  BY DEF ConnectFail, sessionVars, eventVars, acceptVars, serviceVars, threadVars
<1>2. unstarted' = unstarted \ {s} /\ failed' = "start"
  BY DEF ConnectFail
<1>3. TypeOK' /\ \A u \in Threads : Tasks(u)' = Tasks(u)
  BY <1>1, <1>2, SameTasks DEF TypeOK
<1>4. StacksOK' /\ ThreadsOK' /\ YoungOK' /\ EndingOK' /\ ServiceOK' /\ ReceivingOK' /\ SendingOK'
  <2>1. \A x \in Sessions : op'[x]["connect"] = "none" \/ Unborn(x)
    BY <1>1 DEF Unborn
  <2> QED
    BY <1>1, <2>1, SystemStep
<1>5. AcceptsOK'
  BY <1>1, <1>2 DEF AcceptsOK
<1>6. UnbornOK'
  <2>1. \A x \in Sessions : Unborn(x)' => Unborn(x)
    BY <1>1, <1>2 DEF Unborn
  <2> QED
    BY <1>1, <1>2, <2>1 DEF UnbornOK
<1>7. OwnedOK'
  BY <1>1, <1>3 DEF OwnedOK
<1> QED
  BY <1>2, <1>3, <1>4, <1>5, <1>6, <1>7

\* An operation of a session ends.
LEMMA CompletePreserves ==
    ASSUME IInv, NEW s \in Sessions, NEW e \in Event,
           Complete(s, e)
    PROVE  IInv'
<1> USE DEF IInv
<1>1. UNCHANGED <<todo, type, connected, sendRegistered, owned, sessions, manager, acceptOp,
                  acceptSession, lock, hold, at, accepting, rest, unstarted, deaf, stranded,
                  failed>>
  BY DEF Complete, sessionVars, eventVars, acceptVars, serviceVars, threadVars
<1>2. \A x \in Sessions, d \in Event : op'[x][d] = "none" <=> op[x][d] = "none"
  <2>1. op[s][e] = "posted" /\ op' = [op EXCEPT ![s][e] = "done"]
    BY DEF Complete
  <2>2. /\ op'[s][e] = "done" /\ \A d \in Event \ {e} : op'[s][d] = op[s][d]
        /\ \A x \in Sessions \ {s} : op'[x] = op[x]
    BY <2>1 DEF TypeOK
  <2> QED
    BY <2>1, <2>2
<1>3. \A x \in Sessions : /\ op'[x]["connect"] = "none" <=> op[x]["connect"] = "none"
                          /\ op'[x]["recv"] = "none" <=> op[x]["recv"] = "none"
                          /\ op'[x]["send"] = "none" <=> op[x]["send"] = "none"
                          /\ op'[x]["disconnect"] = "none" <=> op[x]["disconnect"] = "none"
  BY <1>2 DEF Event
<1>4. TypeOK'
  BY <1>1 DEF TypeOK, Complete, OpState
<1>5. StacksOK' /\ ThreadsOK' /\ YoungOK' /\ EndingOK' /\ ServiceOK' /\ ReceivingOK' /\ SendingOK'
  <2>1. \A x \in Sessions : op'[x]["connect"] = "none" \/ Unborn(x)
    BY <1>3 DEF Unborn
  <2> QED
    BY <1>1, <1>3, <2>1, SystemStep
<1>6. AcceptsOK' /\ UnbornOK' /\ OwnedOK'
  <2>1. Keeps({"releaseRecv", "releaseSend"})
    BY <1>1, SameTasks
  <2> QED
    BY <1>1, <1>2, <1>3, <2>1, AcceptsFrame, UnbornFrame, OwnedFrame
<1> QED
  BY <1>1, <1>4, <1>5, <1>6

\* An AcceptEx ends.
LEMMA CompleteAcceptPreserves == ASSUME IInv, NEW a \in AcceptEvents, CompleteAccept(a) PROVE IInv'
<1> USE DEF IInv
<1>1. UNCHANGED <<todo, type, connected, sendRegistered, op, owned, sessions, manager, acceptSession,
                  lock, hold, at, accepting, rest, unstarted, deaf, stranded, failed>>
  BY DEF CompleteAccept, sessionVars, eventVars, acceptVars, serviceVars, threadVars
<1>2. \A b \in AcceptEvents : acceptOp'[b] = "none" <=> acceptOp[b] = "none"
  BY DEF CompleteAccept, TypeOK
<1>3. TypeOK'
  BY <1>1 DEF TypeOK, CompleteAccept, OpState
<1>4. StacksOK' /\ ThreadsOK' /\ YoungOK' /\ EndingOK' /\ ServiceOK' /\ ReceivingOK' /\ SendingOK'
  <2>1. \A x \in Sessions : op'[x]["connect"] = "none" \/ Unborn(x)
    BY <1>1 DEF Unborn
  <2> QED
    BY <1>1, <1>2, <2>1, SystemStep
<1>5. AcceptsOK'
  BY <1>1, <1>2 DEF AcceptsOK
<1>6. UnbornOK'
  <2>1. \A x \in Sessions : Unborn(x)' => Unborn(x)
    BY <1>1, <1>2 DEF Unborn
  <2> QED
    BY <1>1, <2>1 DEF UnbornOK
<1>7. OwnedOK'
  <2>1. Keeps({"releaseRecv", "releaseSend"})
    BY <1>1, SameTasks
  <2> QED
    BY <1>1, <2>1, OwnedFrame
<1> QED
  BY <1>1, <1>3, <1>4, <1>5, <1>6, <1>7

-----------------------------------------------------------------------------
(* The invariant *)

\* IInv holds initially, for a server and for a client.
LEMMA InitInv == Init => IInv
<1> SUFFICES ASSUME Init PROVE IInv
  OBVIOUS
<1>1. /\ type \in {"Server", "Client"} /\ sessions = {} /\ manager = {} /\ lock = None
      /\ \A s \in Sessions : /\ ~connected[s] /\ owned[s] = {}
                             /\ \A e \in Event : op[s][e] = "none"
                             /\ op[s]["connect"] = "none" /\ op[s]["recv"] = "none"
                             /\ op[s]["send"] = "none" /\ op[s]["disconnect"] = "none"
      /\ \A t \in Threads : at[t] = None /\ accepting[t] = None /\ todo[t] = <<>>
      /\ failed = "no"
  BY DEF Init, Event
<1>2. \A t \in Threads : Tasks(t) = {} /\ Nested(todo[t])
  BY <1>1, Stack0 DEF Tasks
<1>3. CASE type = "Server"
  <2>1. /\ acceptOp = [a \in AcceptEvents |-> "posted"] /\ unstarted = {}
        /\ acceptSession \in [AcceptEvents -> Sessions]
        /\ \A a, b \in AcceptEvents : acceptSession[a] = acceptSession[b] => a = b
    BY <1>3 DEF Init, IsInjective
  <2>2. TypeOK
    BY <1>3, <2>1, Stack0 DEF Init, TypeOK, OpState
  <2>3. AcceptsOK
    BY <1>1, <1>3, <2>1, NoneIsNull DEF AcceptsOK
  <2>4. ThreadsOK /\ YoungOK /\ EndingOK /\ ServiceOK /\ ReceivingOK /\ SendingOK
    <3>1. ThreadsOK
      BY <1>1, <1>2, NoneIsNull DEF ThreadsOK, ThreadOK, ShapeOK
    <3>2. YoungOK /\ EndingOK
      BY <1>1, <1>2 DEF YoungOK, Young, EndingOK, Ending
    <3>3. ServiceOK
      BY <1>1, <1>2 DEF ServiceOK
    <3>4. ReceivingOK /\ SendingOK
      BY <1>1, <1>2 DEF ReceivingOK, Receiving, SendingOK, Sending
    <3> QED
      BY <3>1, <3>2, <3>3, <3>4
  <2>5. StacksOK /\ OwnedOK /\ UnbornOK
    BY <1>1, <1>2, NoneIsNull DEF StacksOK, OwnedOK, UnbornOK
  <2> QED
    BY <1>1, <2>2, <2>3, <2>4, <2>5 DEF IInv
<1>4. CASE type # "Server"
  <2>1. /\ acceptOp = [a \in AcceptEvents |-> "none"] /\ unstarted = Sessions
        /\ acceptSession = [a \in AcceptEvents |-> None]
    BY <1>4 DEF Init
  <2>2. TypeOK
    BY <1>1, <2>1, Stack0 DEF Init, TypeOK, OpState
  <2>3. AcceptsOK
    BY <1>1, <1>4, <2>1 DEF AcceptsOK
  <2>4. ThreadsOK /\ YoungOK /\ EndingOK /\ ServiceOK /\ ReceivingOK /\ SendingOK
    <3>1. ThreadsOK
      BY <1>1, <1>2, NoneIsNull DEF ThreadsOK, ThreadOK, ShapeOK
    <3>2. YoungOK /\ EndingOK
      BY <1>1, <1>2 DEF YoungOK, Young, EndingOK, Ending
    <3>3. ServiceOK
      BY <1>1, <1>2 DEF ServiceOK
    <3>4. ReceivingOK /\ SendingOK
      BY <1>1, <1>2 DEF ReceivingOK, Receiving, SendingOK, Sending
    <3> QED
      BY <3>1, <3>2, <3>3, <3>4
  <2>5. StacksOK /\ OwnedOK /\ UnbornOK
    BY <1>1, <1>2, NoneIsNull DEF StacksOK, OwnedOK, UnbornOK
  <2> QED
    BY <1>1, <2>2, <2>3, <2>4, <2>5 DEF IInv
<1> QED
  BY <1>3, <1>4

\* IInv is about the variables only.
LEMMA StutterInv == ASSUME IInv, UNCHANGED vars PROVE IInv'
<1>1. UNCHANGED <<type, connected, sendRegistered, op, owned, sessions, manager, acceptOp, acceptSession,
                  lock, hold, at, accepting, rest, unstarted, deaf, stranded, failed, todo>>
  BY DEF vars, sessionVars, eventVars, acceptVars, serviceVars, threadVars
<1>2. \A u \in Threads : Tasks(u)' = Tasks(u)
  BY <1>1 DEF Tasks
<1>3. TypeOK' /\ StacksOK' /\ AcceptsOK' /\ failed' \in {"no", "start"}
  BY <1>1 DEF IInv, TypeOK, StacksOK, AcceptsOK
<1>4. ThreadsOK'
  BY <1>1, <1>2 DEF IInv, ThreadsOK, ThreadOK, ShapeOK
<1>5. UnbornOK' /\ YoungOK'
  BY <1>1, <1>2 DEF IInv, UnbornOK, Unborn, YoungOK, Young
<1>6. EndingOK' /\ ServiceOK'
  BY <1>1, <1>2 DEF IInv, EndingOK, Ending, ServiceOK
<1>7. ReceivingOK' /\ SendingOK' /\ OwnedOK'
  BY <1>1, <1>2 DEF IInv, ReceivingOK, Receiving, Reads, SendingOK, Sending, OwnedOK
<1> QED
  BY <1>3, <1>4, <1>5, <1>6, <1>7 DEF IInv

\* A step of a thread in its calls preserves IInv.
LEMMA StepInv == ASSUME IInv, NEW t \in Threads, Step(t) PROVE IInv'
<1>1. CASE \E s \in Sessions, posted \in BOOLEAN : RegisterAccept(t, s, posted)
  BY <1>1, RegisterAcceptPreserves
<1>2. CASE ProcessConnect(t) \/ AddSession(t) \/ OnConnected(t) \/ Return(t)
  BY <1>2, ProcessConnectPreserves, AddSessionPreserves, OnConnectedPreserves, ReturnPreserves
<1>3. CASE RegisterRecv(t) \/ PostRecv(t) \/ ReleaseRecv(t)
  BY <1>3, RegisterRecvPreserves, PostRecvPreserves, ReleaseRecvPreserves
<1>4. CASE (\E s \in Sessions : BroadcastSend(t, s)) \/ BroadcastEnd(t)
  BY <1>4, BroadcastSendPreserves, BroadcastEndPreserves
<1>5. CASE Send(t) \/ RegisterSend(t) \/ PostSend(t)
  BY <1>5, SendPreserves, RegisterSendPreserves, PostSendPreserves
<1>6. CASE \E error \in Error : PostRecvFail(t, error) \/ PostSendFail(t, error)
  BY <1>6, PostRecvFailPreserves, PostSendFailPreserves
<1>7. CASE ReleaseSend(t) \/ UnregisterSend(t) \/ Disconnect(t)
  BY <1>7, ReleaseSendPreserves, UnregisterSendPreserves, DisconnectPreserves
<1>8. CASE RegisterDisconnect(t) \/ RegisterDisconnectFail(t)
  BY <1>8, RegisterDisconnectPreserves, RegisterDisconnectFailPreserves
<1>9. CASE OnDisconnected(t) \/ ReleaseSession(t)
  BY <1>9, OnDisconnectedPreserves, ReleaseSessionPreserves
<1> QED
  BY <1>1, <1>2, <1>3, <1>4, <1>5, <1>6, <1>7, <1>8, <1>9 DEF Step

\* Every step preserves IInv.
LEMMA NextInv == IInv /\ [Next]_vars => IInv'
<1> SUFFICES ASSUME IInv, [Next]_vars PROVE IInv'
  OBVIOUS
<1>1. CASE \E s \in Sessions : Connect(s) \/ ConnectFail(s) \/ \E e \in Event : Complete(s, e)
  BY <1>1, ConnectPreserves, ConnectFailPreserves, CompletePreserves
<1>2. CASE \E a \in AcceptEvents : CompleteAccept(a)
  BY <1>2, CompleteAcceptPreserves
<1>3. ASSUME NEW t \in Threads, Step(t) \/ Broadcast(t) PROVE IInv'
  BY <1>3, StepInv, BroadcastPreserves
<1>4. ASSUME NEW t \in Threads, NEW s \in Sessions, Dispatch(t, s) \/ StartSend(t, s) PROVE IInv'
  BY <1>4, DispatchConnectPreserves, ProcessDisconnectPreserves, ProcessRecvPreserves, ProcessSendPreserves,
     StartSendPreserves DEF Dispatch
<1>5. ASSUME NEW t \in Threads, NEW a \in AcceptEvents, DispatchAccept(t, a) PROVE IInv'
  BY <1>5, ProcessAcceptPreserves DEF DispatchAccept
<1>6. CASE UNCHANGED vars
  BY <1>6, StutterInv
<1> QED
  BY <1>1, <1>2, <1>3, <1>4, <1>5, <1>6 DEF Next

\* IInv is an invariant.
LEMMA Invariance == Spec => []IInv
<1> QED
  BY InitInv, NextInv, PTL DEF Spec

\* The variables keep their types, and a thread's calls nest.
THEOREM TypeCorrectness == Spec => [](TypeOK /\ StacksOK)
<1>1. IInv => TypeOK /\ StacksOK
  BY DEF IInv
<1> QED
  BY <1>1, Invariance, PTL

\* A session lives while an operation of its is under way, and while a thread is
\* in a call of it.
THEOREM SessionsLive == Spec => []KeptAlive
<1>1. IInv => KeptAlive
  <2> SUFFICES ASSUME IInv PROVE KeptAlive
    OBVIOUS
  <2>1. \A s \in Sessions, e \in Event : op[s][e] # "none" => e \in owned[s]
    BY DEF IInv, OwnedOK
  <2>2. \A t \in Threads : at[t] # None => Exists(at[t])
    BY DEF IInv, ThreadsOK, ThreadOK, Exists
  <2> QED
    BY <2>1, <2>2 DEF KeptAlive
<1> QED
  BY <1>1, Invariance, PTL

\* No event is given to the system twice, and ReleaseSession finds its session.
THEOREM EventsHaveOneUser == Spec => []NoFailure
<1>1. IInv => NoFailure
  BY DEF IInv, NoFailure
<1> QED
  BY <1>1, Invariance, PTL

\* The server goes on accepting: every AcceptEvent is in the system or in the
\* hands of one worker.
THEOREM AcceptingGoesOn == Spec => []AcceptsKept
<1>1. IInv => AcceptsKept
  <2> SUFFICES ASSUME IInv, type = "Server", NEW a \in AcceptEvents
               PROVE  Cardinality(Accepting(a)) = IF acceptOp[a] = "none" THEN 1 ELSE 0
    BY DEF AcceptsKept
  <2>1. CASE acceptOp[a] = "none"
    <3>1. PICK t \in Threads : accepting[t] = a
      BY <2>1 DEF IInv, AcceptsOK
    <3>2. Accepting(a) = {t}
      BY <3>1, NoneIsNull DEF IInv, AcceptsOK, Accepting
    <3> QED
      BY <2>1, <3>2, FS_Singleton
  <2>2. CASE acceptOp[a] # "none"
    <3>1. Accepting(a) = {}
      BY <2>2, NoneIsNull DEF IInv, ThreadsOK, ThreadOK, Accepting
    <3> QED
      BY <2>2, <3>1, FS_EmptySet
  <2> QED
    BY <2>1, <2>2
<1> QED
  BY <1>1, Invariance, PTL

\* A connected session is in the Service or about to be, has a receive under way or
\* about to be, and the manager knows only sessions of the Service.
THEOREM ConnectedAreServed == Spec => []ConnectedIsServed
<1>1. IInv => ConnectedIsServed
  <2> SUFFICES ASSUME IInv, NEW s \in Sessions
               PROVE  /\ s \in manager => s \in sessions
                      /\ connected[s] =>
                           /\ s \in sessions \/ Pending(s, "add")
                           /\ \/ op[s]["recv"] # "none" \/ s \in deaf
                              \/ \E step \in {"recv", "postRecv", "disconnect"} : Pending(s, step)
    BY DEF ConnectedIsServed
  <2>1. \A t \in Threads : \A step \in Tasks(t) : at[t] = s => Pending(s, step)
    <3> SUFFICES ASSUME NEW t \in Threads, NEW step \in Tasks(t), at[t] = s PROVE Pending(s, step)
      OBVIOUS
    <3>1. PICK q \in Seq(StepName) : q = todo[t]
      BY DEF IInv, TypeOK
    <3>2. DOMAIN q = 1..Len(q) /\ \E i \in 1..Len(q) : q[i] = step
      BY <3>1, LenProperties DEF Tasks, Elements
    <3> QED
      BY <3>1, <3>2 DEF Pending
  <2>2. s \in manager => s \in sessions
    BY DEF IInv, ServiceOK
  <2>3. connected[s] => s \in sessions \/ Pending(s, "add")
    BY <2>1 DEF IInv, ServiceOK
  <2>4. connected[s] => \/ op[s]["recv"] # "none" \/ s \in deaf
                        \/ \E step \in {"recv", "postRecv", "disconnect"} : Pending(s, step)
    BY <2>1 DEF IInv, ReceivingOK, Reads
  <2> QED
    BY <2>2, <2>3, <2>4
<1> QED
  BY <1>1, Invariance, PTL

\* A session that is not connected and of which nothing is under way is destroyed.
THEOREM SessionsEnd == Spec => []NothingLeaks
<1>1. IInv => NothingLeaks
  <2> SUFFICES ASSUME IInv, NEW s \in Sessions, ~connected[s], \A e \in Event : op[s][e] = "none",
                      \A t \in Threads : at[t] # s /\ s \notin hold[t],
                      \A a \in AcceptEvents : acceptSession[a] # s,
                      s \notin unstarted \cup stranded
               PROVE  ~Exists(s)
    BY DEF NothingLeaks
  <2>1. owned[s] = {}
    <3>1. owned[s] \subseteq Event
      BY DEF IInv, TypeOK
    <3>2. \A e \in Event : e \notin owned[s]
      BY DEF IInv, OwnedOK
    <3> QED
      BY <3>1, <3>2
  <2>2. s \notin sessions /\ s \notin manager
    BY DEF IInv, ServiceOK, Event
  <2> QED
    BY <2>1, <2>2 DEF Exists
<1> QED
  BY <1>1, Invariance, PTL
=============================================================================
