----------------------------- MODULE DummyClient -----------------------------
(***************************************************************************)
(* The game server of GameRoom with its clients: processes of DummyClient, *)
(* with one session each.  OnConnected sends C_LOGIN, the answer to it is  *)
(* answered with C_ENTER_GAME, and the main thread sends a C_CHAT whenever *)
(* it likes: the session is in its service's set, and may be sent to,      *)
(* before OnConnected is called.                                           *)
(*                                                                         *)
(* Packets arrive in order; those on their way to a session that is closed *)
(* are lost, and so is a batch whose WSASend is refused.  A client whose   *)
(* connection is gone may go on for a while.                               *)
(***************************************************************************)
EXTENDS GameRoom, Functions

VARIABLES
    greeted,    \* OnConnected has been called
    chats,      \* the chats the client has sent
    enteredAt   \* history: how many before its C_ENTER_GAME, if that was not refused

clientVars == <<greeted, chats, enteredAt>>
gameVars == <<serverVars, clientVars>>

GameInit ==
    /\ ServerInit
    /\ greeted = [s \in Clients |-> FALSE]
    /\ chats = [s \in Clients |-> 0]
    /\ enteredAt = [s \in Clients |-> NoPlayer]

\* What a client sends to a session that reads no more makes no difference.
Reads(s) == stage[s] \notin {"closed", "deaf"} /\ fault = "no"

\* The client's Send
SendToServer(s, packet) ==
    /\ Reads(s)
    /\ toServer' = [toServer EXCEPT ![s] = Append(@, packet)]
    /\ UNCHANGED <<sessionVars, roomVars, queueVars, inbox, fault>>

\* Mutant of OnConnected: the client does not wait for S_LOGIN.
OnConnectedEager(s) ==
    /\ ~greeted[s] /\ Reads(s)
    /\ greeted' = [greeted EXCEPT ![s] = TRUE]
    /\ toServer' = [toServer EXCEPT ![s] = @ \o <<<<"C_LOGIN">>, <<"C_ENTER_GAME">>>>]
    /\ UNCHANGED <<sessionVars, roomVars, queueVars, inbox, fault, farVars, chats, enteredAt>>

OnConnected(s) ==
    /\ ~greeted[s]
    /\ SendToServer(s, <<"C_LOGIN">>)
    /\ greeted' = [greeted EXCEPT ![s] = TRUE]
    /\ UNCHANGED <<farVars, chats, enteredAt>>

\* OnRecvPacket: nothing is done with the packets after S_LOGIN, which count as under
\* way for good.
Handle_S_LOGIN(s) ==
    /\ s \notin lost
    /\ arrived[s] = 0 /\ inbox[s] # <<>> /\ Head(inbox[s]) = <<"S_LOGIN">>
    /\ SendToServer(s, <<"C_ENTER_GAME">>)
    /\ arrived' = [arrived EXCEPT ![s] = 1]
    /\ enteredAt' = [enteredAt EXCEPT ![s] = chats[s]]
    /\ UNCHANGED <<lost, refused, greeted, chats>>

\* main: Broadcast to the only session there is
BroadcastChat(s) ==
    /\ FoldFunction(+, 0, chats) < MaxChats
    /\ SendToServer(s, <<"C_CHAT", chats[s] + 1>>)
    /\ chats' = [chats EXCEPT ![s] = @ + 1]
    /\ UNCHANGED <<farVars, greeted, enteredAt>>

\* The client's WSASend is refused a batch: the packets i to k of those on their way.
ClientSendRefused(s) ==
    /\ Reads(s) /\ Refuse(s)
    /\ \E i, k \in DOMAIN toServer[s] :
         /\ i <= k
         /\ toServer' = [toServer EXCEPT ![s] = SubSeq(@, 1, i - 1) \o SubSeq(@, k + 1, Len(@))]
         /\ enteredAt' = [enteredAt EXCEPT ![s] =
              IF \E n \in i..k : toServer[s][n] = <<"C_ENTER_GAME">> THEN NoPlayer ELSE @]
    /\ UNCHANGED <<sessionVars, roomVars, queueVars, inbox, arrived, lost, fault, greeted, chats>>

\* The client's WSARecv is refused before S_LOGIN arrives: no packet does any more.
ClientRecvRefused(s) ==
    /\ Reads(s) /\ arrived[s] = 0
    /\ Refuse(s)
    /\ lost' = lost \cup {s}
    /\ UNCHANGED <<sessionVars, roomVars, queueVars, toServer, inbox, arrived, fault, clientVars>>

Worker(s) == OnConnected(s) \/ Handle_S_LOGIN(s)

GameNext ==
    \/ ServerNext /\ UNCHANGED clientVars
    \/ \E s \in Clients :
         \/ Worker(s) \/ BroadcastChat(s) \/ ClientSendRefused(s) \/ ClientRecvRefused(s)

GameSpec == GameInit /\ [][GameNext]_gameVars

\* The workers of both sides go on, and the room's jobs are run (EveryJobRuns of
\* JobQueue).  Nothing goes on for ever, so that it is enough that somebody goes on.
Progress ==
    \/ (RoomJob \/ \E s \in Clients : Handler(s)) /\ UNCHANGED clientVars
    \/ \E s \in Clients : Worker(s)

FairGameSpec == GameSpec /\ WF_gameVars(Progress)

-----------------------------------------------------------------------------
(* Properties                                                              *)

\* Every chat that a client sends after its C_ENTER_GAME, unless that was refused, is
\* given to the Send of its own session too, while it is connected: Enter is in the
\* room's queue before them.
SeesOwnChats == \A s \in Clients : \A i \in DOMAIN finished[Room] :
    LET job == finished[Room][i] IN
    IsChat(job) /\ job[2] = s /\ enteredAt[s] # NoPlayer /\ job[3] > enteredAt[s] =>
        ~connected[s] \/ \E k \in DOMAIN inbox[s] : inbox[s][k] = job

\* A client that stays connected gets through the exchange of packets and into the
\* room: nobody waits for a packet the other side does not send.  Nothing is said of
\* one of whose calls, or whose session's, WSASend or WSARecv was refused without
\* disconnecting it: its batch is lost, or it reads no more, and neither side notices.
EveryClientEnters == \A s \in Clients :
    <>(\/ ~connected[s] \/ refused[s] > 0 \/ fault # "no"
       \/ s \in members /\ \E i \in DOMAIN inbox[s] : inbox[s][i] = <<"S_ENTER_GAME">>)
=============================================================================
