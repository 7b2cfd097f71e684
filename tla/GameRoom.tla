------------------------------ MODULE GameRoom ------------------------------
(***************************************************************************)
(* A room and the sessions of its clients: the packet handlers             *)
(* (ClientPacketHandler.cpp), GameSession::OnDisconnected and the members  *)
(* of Room, which run as jobs of the JobQueue that a Room is.  The queue   *)
(* is the serial server that JobQueue.tla is shown to implement.           *)
(*                                                                         *)
(* The packets of a session are handled one after the other, on some       *)
(* worker; its disconnect completes on another worker at the same time.    *)
(* What the clients send is left to the module that extends this one.      *)
(* They enter with the first of their players; the second one of a login   *)
(* is never used, and "the player" of a session is the first.              *)
(***************************************************************************)
EXTENDS Integers, Sequences

CONSTANTS
    Clients,
    Room,       \* the room that RoomManager has
    NoPlayer,   \* null
    MaxChats,   \* bound: the chats of all clients
    MaxRefused  \* bound: per client, the calls refused with an error that does not disconnect

ASSUME NoPlayerIsNull == NoPlayer \notin Clients /\ NoPlayer \notin Nat

VARIABLES
    connected,          \* m_connected of every session
    players,            \* whether m_players has its players
    currentPlayer,      \* whether m_currentPlayer is set
    inRoom,             \* whether m_room is set
    stage, hook,        \* how far its handler, and its OnDisconnected, is
    members,            \* Room::m_players
    rest,               \* whom the Broadcast that is running has yet to send to
    pending, running, finished,     \* the Room's JobQueue
    toServer,           \* per session, the packets on their way to it
    inbox,              \* the packets given to its Send
    arrived,            \* how many of them are known to have arrived
    lost,               \* the sessions whose first packet, S_LOGIN, will not arrive
    refused,            \* per session, the calls that were refused, at both ends
    fault               \* where an undefined access was made

sessionVars == <<connected, players, currentPlayer, inRoom, stage, hook>>
roomVars == <<members, rest>>
queueVars == <<pending, running, finished>>
farVars == <<arrived, lost, refused>>
netVars == <<toServer, inbox, farVars>>
serverVars == <<sessionVars, roomVars, queueVars, netVars, fault>>

Jobs == ({"enter", "leave"} \X (Clients \cup {NoPlayer})) \cup ({"chat"} \X Clients \X (1..MaxChats))

Queue == INSTANCE SerialQueue WITH Queues <- {Room}

ServerInit ==
    /\ connected = [s \in Clients |-> TRUE]
    /\ players = [s \in Clients |-> FALSE]
    /\ currentPlayer = [s \in Clients |-> FALSE]
    /\ inRoom = [s \in Clients |-> FALSE]
    /\ stage = [s \in Clients |-> "recv"]
    /\ hook = [s \in Clients |-> "none"]
    /\ members = {} /\ rest = {}
    /\ Queue!Init
    /\ toServer = [s \in Clients |-> <<>>]
    /\ inbox = [s \in Clients |-> <<>>]
    /\ arrived = [s \in Clients |-> 0]
    /\ lost = {}
    /\ refused = [s \in Clients |-> 0]
    /\ fault = "no"

-----------------------------------------------------------------------------
(* The handlers of a session's packets                                     *)

At(s, where) == stage[s] = where /\ fault = "no"
Goto(s, where) == stage' = [stage EXCEPT ![s] = where]

\* OnRecvPacket is called with a packet.
Handles(s, kind) ==
    /\ At(s, "recv") /\ toServer[s] # <<>> /\ Head(toServer[s])[1] = kind
    /\ toServer' = [toServer EXCEPT ![s] = Tail(@)]

\* Send does nothing for a session that is not connected.
Send(s, packet) == inbox' = [inbox EXCEPT ![s] = IF connected[s] THEN Append(@, packet) ELSE @]

\* Mutant of Login: the answer is forgotten.
LoginSilent(s) ==
    /\ Handles(s, "C_LOGIN")
    /\ players' = [players EXCEPT ![s] = TRUE]
    /\ UNCHANGED <<connected, currentPlayer, inRoom, stage, hook, roomVars, queueVars,
                   inbox, farVars, fault>>

\* Handle_C_LOGIN
Login(s) ==
    /\ Handles(s, "C_LOGIN")
    /\ players' = [players EXCEPT ![s] = TRUE]
    /\ Send(s, <<"S_LOGIN">>)
    /\ UNCHANGED <<connected, currentPlayer, inRoom, stage, hook, roomVars, queueVars,
                   farVars, fault>>

\* Handle_C_ENTER_GAME: m_currentPlayer = m_players[index]; m_room; ...
EnterGame(s) ==
    /\ Handles(s, "C_ENTER_GAME")
    /\ currentPlayer' = [currentPlayer EXCEPT ![s] = players[s]]
    /\ fault' = IF players[s] THEN "no" ELSE "m_players[index]"
    /\ Goto(s, "enterRoom")
    /\ UNCHANGED <<connected, players, inRoom, hook, roomVars, queueVars, inbox, farVars>>

EnterRoom(s) ==
    /\ At(s, "enterRoom")
    /\ inRoom' = [inRoom EXCEPT ![s] = TRUE]
    /\ Goto(s, "enterPush")
    /\ UNCHANGED <<connected, players, currentPlayer, hook, roomVars, queueVars, netVars, fault>>

\* ... DoAsync(&Room::Enter, m_currentPlayer) ...
EnterPush(s) ==
    /\ At(s, "enterPush")
    /\ Queue!Submit(Room, <<"enter", IF currentPlayer[s] THEN s ELSE NoPlayer>>)
    /\ Goto(s, "enterSend")
    /\ UNCHANGED <<connected, players, currentPlayer, inRoom, hook, roomVars, netVars, fault>>

\* ... and m_currentPlayer->ownerSession->Send
EnterSend(s) ==
    /\ At(s, "enterSend")
    /\ fault' = IF currentPlayer[s] THEN "no" ELSE "m_currentPlayer->"
    /\ Send(s, <<"S_ENTER_GAME">>)
    /\ Goto(s, "recv")
    /\ UNCHANGED <<connected, players, currentPlayer, inRoom, hook, roomVars, queueVars,
                   toServer, farVars>>

\* Mutant of Chat: the sender's own session gets the chat at once.
ChatEchoes(s) == LET chat == <<"chat", s, Head(toServer[s])[2]>> IN
    /\ Handles(s, "C_CHAT")
    /\ Queue!Submit(Room, chat)
    /\ Send(s, chat)
    /\ UNCHANGED <<sessionVars, roomVars, farVars, fault>>

\* Handle_C_CHAT
Chat(s) ==
    /\ Handles(s, "C_CHAT")
    /\ Queue!Submit(Room, <<"chat", s, Head(toServer[s])[2]>>)
    /\ UNCHANGED <<sessionVars, roomVars, inbox, farVars, fault>>

-----------------------------------------------------------------------------
(* Calls that fail, and disconnecting                                      *)

\* A call to the socket of s, or of its client, is refused with an error that
\* HandleError only logs: both stay connected.
Refuse(s) ==
    /\ fault = "no" /\ refused[s] < MaxRefused[s]
    /\ refused' = [refused EXCEPT ![s] = @ + 1]

\* RegisterSend: WSASend is refused the batch that S_LOGIN is in.  It makes no
\* difference to the client whether a later packet is lost.
SendRefused(s) ==
    /\ connected[s] /\ arrived[s] = 0 /\ inbox[s] # <<>>
    /\ Refuse(s)
    /\ lost' = lost \cup {s}
    /\ UNCHANGED <<sessionVars, roomVars, queueVars, toServer, inbox, arrived, fault>>

\* RegisterRecv: WSARecv is refused.  The session reads no more and stays connected.
RecvRefused(s) ==
    /\ At(s, "recv") /\ connected[s]
    /\ Refuse(s)
    /\ Goto(s, "deaf")
    /\ UNCHANGED <<connected, players, currentPlayer, inRoom, hook, roomVars, queueVars, toServer,
                   inbox, arrived, lost, fault>>

\* No more packets: the receive ends with nothing, or cannot be posted again, for an
\* error that disconnects or since the session is not connected any more.
RecvZero(s) ==
    /\ At(s, "recv")
    /\ Goto(s, "closed")
    /\ connected' = [connected EXCEPT ![s] = FALSE]
    /\ hook' = [hook EXCEPT ![s] = IF connected[s] THEN "pending" ELSE @]
    /\ toServer' = [toServer EXCEPT ![s] = <<>>]
    /\ UNCHANGED <<players, currentPlayer, inRoom, roomVars, queueVars, inbox, farVars, fault>>

\* A WSASend to the session fails, on any worker, and disconnects: what has not
\* arrived is lost.
SendFails(s) ==
    /\ connected[s] /\ arrived[s] < Len(inbox[s]) /\ fault = "no"
    /\ connected' = [connected EXCEPT ![s] = FALSE]
    /\ hook' = [hook EXCEPT ![s] = "pending"]
    /\ lost' = IF arrived[s] = 0 THEN lost \cup {s} ELSE lost
    /\ UNCHANGED <<players, currentPlayer, inRoom, stage, roomVars, queueVars, toServer, inbox,
                   arrived, refused, fault>>

Unhooks(s, from, to) ==
    /\ hook[s] = from /\ fault = "no"
    /\ hook' = [hook EXCEPT ![s] = to]
    /\ UNCHANGED <<connected, inRoom, stage, roomVars, netVars, fault>>

\* Mutant of OnDisconnected: the player is reset first.
OnDisconnectedNoLeave(s) ==
    /\ Unhooks(s, "pending", "reset")
    /\ UNCHANGED <<players, currentPlayer, queueVars>>

\* OnDisconnected: the player leaves the room ...
OnDisconnected(s) ==
    /\ Unhooks(s, "pending", "reset")
    /\ IF currentPlayer[s] /\ inRoom[s]
       THEN Queue!Submit(Room, <<"leave", s>>)
       ELSE UNCHANGED queueVars
    /\ UNCHANGED <<players, currentPlayer>>

\* ... m_currentPlayer = nullptr ...
ResetPlayer(s) ==
    /\ Unhooks(s, "reset", "clear")
    /\ currentPlayer' = [currentPlayer EXCEPT ![s] = FALSE]
    /\ UNCHANGED <<players, queueVars>>

\* ... and m_players.clear().
ClearPlayers(s) ==
    /\ Unhooks(s, "clear", "done")
    /\ players' = [players EXCEPT ![s] = FALSE]
    /\ UNCHANGED <<currentPlayer, queueVars>>

-----------------------------------------------------------------------------
(* The room's jobs                                                         *)

Starts(kind) ==
    /\ Queue!Start(Room) /\ fault = "no"
    /\ Head(pending[Room])[1] = kind
    /\ UNCHANGED <<sessionVars, netVars>>

\* Room::Enter
Enter == LET player == Head(pending[Room])[2] IN
    /\ Starts("enter")
    /\ members' = members \cup ({player} \ {NoPlayer})
    /\ fault' = IF player = NoPlayer THEN "_player->" ELSE "no"
    /\ UNCHANGED rest

\* Room::Leave
Leave == LET player == Head(pending[Room])[2] IN
    /\ Starts("leave")
    /\ members' = members \ {player}
    /\ UNCHANGED <<rest, fault>>

\* Mutant of Broadcast: the sender is left out.
BroadcastOthers ==
    /\ Starts("chat")
    /\ rest' = members \ {Head(pending[Room])[2]}
    /\ UNCHANGED <<members, fault>>

\* Room::Broadcast ...
Broadcast ==
    /\ Starts("chat")
    /\ rest' = members
    /\ UNCHANGED <<members, fault>>

\* ... to one member after the other
BroadcastSend(s) == \E job \in running[Room] :
    /\ s \in rest /\ fault = "no"
    /\ rest' = rest \ {s}
    /\ Send(s, job)
    /\ UNCHANGED <<sessionVars, members, queueVars, toServer, farVars, fault>>

JobEnd ==
    /\ Queue!Finish(Room) /\ rest = {} /\ fault = "no"
    /\ UNCHANGED <<sessionVars, roomVars, netVars, fault>>

Handler(s) ==
    \/ Login(s) \/ EnterGame(s) \/ EnterRoom(s) \/ EnterPush(s) \/ EnterSend(s) \/ Chat(s)

RoomJob == Enter \/ Leave \/ Broadcast \/ JobEnd \/ \E s \in Clients : BroadcastSend(s)

ServerNext ==
    \/ \E s \in Clients :
         \/ Handler(s)
         \/ SendRefused(s) \/ RecvRefused(s) \/ RecvZero(s) \/ SendFails(s)
         \/ OnDisconnected(s) \/ ResetPlayer(s) \/ ClearPlayers(s)
    \/ RoomJob

-----------------------------------------------------------------------------
(* Properties                                                              *)

IsChat(packet) == packet[1] = "chat"

\* All clients see the chats they share in the same order, each once, and those
\* of one sender in the order it sent them, on whatever workers they came in.
RoomOrder == \A s, r \in Clients : \A i, k \in DOMAIN inbox[s] :
    i < k /\ IsChat(inbox[s][i]) /\ IsChat(inbox[s][k]) =>
        /\ \A m, n \in DOMAIN inbox[r] :
             inbox[r][m] = inbox[s][i] /\ inbox[r][n] = inbox[s][k] => m < n
        /\ inbox[s][i][2] = inbox[s][k][2] => inbox[s][i][3] < inbox[s][k][3]

Awaited(s) == \E i \in DOMAIN pending[Room] : pending[Room][i] = <<"leave", s>>

\* When OnDisconnected has run the session has dropped its players, which refer
\* to it, and once the room's jobs are done so has the room: Leave never gets
\* ahead of Enter, whatever workers push them, and nothing keeps the session alive.
LeavesForGood == \A s \in Clients : hook[s] = "done" =>
    /\ ~players[s] /\ ~currentPlayer[s]
    /\ \A i \in DOMAIN pending[Room] : pending[Room][i] = <<"enter", s>> => Awaited(s)
    /\ s \in members => Awaited(s)

\* Handle_C_ENTER_GAME finds the players of its session, and Room::Enter gets one:
\* OnDisconnected, on whatever worker, never comes before they have been used.  It
\* may come before the handler's last line uses m_currentPlayer again.
PlayersThere == fault \in {"no", "m_currentPlayer->"}
=============================================================================
