-------------------------- MODULE DeliveryGateway --------------------------
(***************************************************************************)
(* The WebSocket gateway that each of the three processes runs, and the    *)
(* Redis channel between them: sockets that connect, authenticate and join *)
(* rooms; status updates, events for the rider, and the chat of a delivery. *)
(*                                                                         *)
(* One delivery, its customer, its rider and an administrator.  A socket   *)
(* has one handler at work at a time; what it does is divided at its       *)
(* awaits.  An update has a number; a status is that of the update that    *)
(* wrote it.  Typing notices and read marks of the chat are left out.      *)
(***************************************************************************)
EXTENDS Integers, Sequences, FiniteSets

CONSTANTS
    Services,
    Sockets,
    Gone,          \* of a socket: it has disconnected
    Nobody,        \* of a socket: it has not authenticated
    HistoryLimit,  \* how many messages a chat history holds
    MaxTraffic,    \* bound: status updates, events for the rider, chat messages,
                   \* messages of the channel lost and restarts of a process
    MaxRequests    \* bound: what sockets ask for, and how often they leave

Participants == {"customer", "rider"}
Users == Participants \union {"admin"}

ASSUME GatewayAssumption ==
    /\ Gone \notin Services
    /\ Nobody \notin Users
    /\ HistoryLimit \in Nat \ {0}
    /\ {MaxTraffic, MaxRequests} \subseteq Nat

VARIABLES
    conn,     \* the service a socket has connected to, or Gone
    user,     \* client.userId
    reg,      \* userSockets of all services: <<service, user, socket>>
    rooms,    \* <<room, socket>>
    task,     \* what the handler of a socket has to do next
    status,   \* status of the delivery document
    unsent,   \* <<service, n>>: update n is saved there and not yet emitted
    channel,  \* what each service still has to receive from Redis
    chat,     \* chatMessages of the delivery, oldest first: where each was sent
    unseen,   \* messages that were stored and not yet emitted
    shown,    \* messages that a socket was sent, live or as history
    snap,     \* the status a socket was sent when it subscribed
    pushed,   \* how often update n was pushed to a socket
    events,   \* events for the rider so far
    due,      \* history: <<event, socket>>, the rider was there when it was emitted
    reached,  \* <<event, socket>>: it was sent to that socket
    entered,  \* history: the status that was saved when a socket subscribed
    cut,      \* history: messages that did not fit into a socket's history
    origin,   \* history: the service that emitted each update
    switched, \* history: sockets that authenticated as somebody else
    requests, faults

socketVars == <<conn, user, reg, rooms, task>>
statusVars == <<status, unsent, origin>>
chatVars   == <<chat, unseen, shown, cut>>
viewVars   == <<snap, pushed, entered>>
eventVars  == <<events, due, reached>>
faultVars  == <<switched, faults>>
vars == <<socketVars, statusVars, chatVars, viewVars, eventVars, faultVars, channel, requests>>

Idle == [todo |-> <<>>, read |-> 0]

Init ==
    /\ conn \in [Sockets -> Services]
    /\ user = [s \in Sockets |-> Nobody]
    /\ reg = {} /\ rooms = {}
    /\ task = [s \in Sockets |-> Idle]
    /\ status = 0 /\ unsent = {} /\ origin = <<>>
    /\ channel = [v \in Services |-> <<>>]
    /\ chat = <<>> /\ unseen = {}
    /\ shown = [s \in Sockets |-> {}] /\ cut = [s \in Sockets |-> {}]
    /\ snap = [s \in Sockets |-> -1]
    /\ pushed = [s \in Sockets |-> [n \in 1..MaxTraffic |-> 0]]
    /\ entered = [s \in Sockets |-> 0]
    /\ events = 0 /\ due = {} /\ reached = {}
    /\ switched = {} /\ requests = 0 /\ faults = 0

-----------------------------------------------------------------------------
(* Bounds. *)
Traffic == status + events + Len(chat) + faults < MaxTraffic
Asked   == requests < MaxRequests /\ requests' = requests + 1

On(v)        == {s \in Sockets : conn[s] = v}
Present(s)   == conn[s] \in Services
Free(s)      == Present(s) /\ task[s] = Idle
InRoom(r, v) == {s \in On(v) : <<r, s>> \in rooms}
Numbers(q)   == 1..Len(q)

(* authenticateClient: the socket is added to the user's, and stays among  *)
(* those of whoever it was before.                                         *)
Authenticate(s, u) ==
    /\ Asked
    /\ Present(s) /\ user[s] # u
    /\ user' = [user EXCEPT ![s] = u]
    /\ reg' = reg \union {<<conn[s], u, s>>}
    /\ switched' = IF user[s] \in {Nobody, u} THEN switched ELSE switched \union {s}
    /\ UNCHANGED <<conn, rooms, task, statusVars, chatVars, viewVars, eventVars, faults, channel>>

(* The rooms are left by the library; a handler at work goes on.           *)
Disconnect(s) ==
    /\ Asked
    /\ Present(s)
    /\ conn' = [conn EXCEPT ![s] = Gone]
    /\ reg' = reg \ {<<conn[s], user[s], s>>}
    /\ rooms' = {p \in rooms : p[2] # s}
    /\ UNCHANGED <<user, task, statusVars, chatVars, viewVars, eventVars, faultVars, channel>>

-----------------------------------------------------------------------------
(* Tracking. *)

Start(s, steps, n) == task' = [task EXCEPT ![s] = [todo |-> steps, read |-> n]]
Due(s, step)       == task[s].todo # <<>> /\ Head(task[s].todo) = step
Done(s)            == task' = [task EXCEPT ![s].todo = Tail(@), ![s].read = 0]

(* The document is read ... *)
TrackingSubscribe(s) ==
    /\ Asked
    /\ Free(s) /\ user[s] # Nobody
    /\ Start(s, <<"join", "send">>, status)
    /\ UNCHANGED <<conn, user, reg, rooms, statusVars, chatVars, viewVars, eventVars, faultVars, channel>>

(* ... then the participant joins ... *)
JoinTracking(s) ==
    /\ Due(s, "join")
    /\ IF user[s] \in Participants
       THEN /\ rooms' = rooms \union {<<"track", s>>}
            /\ entered' = [entered EXCEPT ![s] = status]
            /\ task' = [task EXCEPT ![s].todo = Tail(@)]
       ELSE /\ task' = [task EXCEPT ![s] = Idle]
            /\ UNCHANGED <<rooms, entered>>
    /\ UNCHANGED <<conn, user, reg, statusVars, chatVars, snap, pushed, eventVars, faultVars, channel, requests>>

(* ... and, when the rider has been read too, is sent what was read first. *)
SendStatus(s) ==
    /\ Due(s, "send")
    /\ snap' = IF Present(s) THEN [snap EXCEPT ![s] = task[s].read] ELSE snap
    /\ Done(s)
    /\ UNCHANGED <<conn, user, reg, rooms, statusVars, chatVars, pushed, entered, eventVars, faultVars, channel, requests>>

TrackingUnsubscribe(s) ==
    /\ Asked
    /\ Present(s) /\ <<"track", s>> \in rooms
    /\ rooms' = rooms \ {<<"track", s>>}
    /\ UNCHANGED <<conn, user, reg, task, statusVars, chatVars, viewVars, eventVars, faultVars, channel>>

(* The administrator joins before the snapshot is taken. *)
AdminSubscribeLive(s) ==
    /\ Asked
    /\ Free(s) /\ user[s] = "admin"
    /\ rooms' = rooms \union {<<"live", s>>}
    /\ Start(s, <<"live">>, 0)
    /\ UNCHANGED <<conn, user, reg, statusVars, chatVars, viewVars, eventVars, faultVars, channel>>

SendSnapshot(s) ==
    /\ Due(s, "live")
    /\ snap' = IF Present(s) THEN [snap EXCEPT ![s] = status] ELSE snap
    /\ Done(s)
    /\ UNCHANGED <<conn, user, reg, rooms, statusVars, chatVars, pushed, entered, eventVars, faultVars, channel, requests>>

AdminUnsubscribeLive(s) ==
    /\ Asked
    /\ Present(s) /\ <<"live", s>> \in rooms
    /\ rooms' = rooms \ {<<"live", s>>}
    /\ UNCHANGED <<conn, user, reg, task, statusVars, chatVars, viewVars, eventVars, faultVars, channel>>

-----------------------------------------------------------------------------
(* Updates of the delivery, and events for the rider.  The rider's         *)
(* location, the ETA and the progress of the matching are pushed to the    *)
(* same room and published like a status: each is an update here.          *)

Push(S, n) == pushed' = [s \in Sockets |-> IF s \in S THEN [pushed[s] EXCEPT ![n] = @ + 1]
                                           ELSE pushed[s]]

Publish(m) == channel' = [v \in Services |-> Append(channel[v], m)]

(* A handler of a service saves the document ... *)
SaveStatus(v) ==
    /\ Traffic
    /\ status' = status + 1
    /\ unsent' = unsent \union {<<v, status + 1>>}
    /\ origin' = Append(origin, v)
    /\ UNCHANGED <<socketVars, chatVars, viewVars, eventVars, faultVars, channel, requests>>

(* ... and emits the update to those who watch it here, to the other       *)
(* services, and to the administrators here.                               *)
EmitDeliveryStatusUpdate(v, n) ==
    /\ <<v, n>> \in unsent
    /\ unsent' = unsent \ {<<v, n>>}
    /\ Push(InRoom("track", v) \union InRoom("live", v), n)
    /\ Publish([for |-> "track", n |-> n, from |-> v])
    /\ UNCHANGED <<socketVars, status, origin, chatVars, snap, entered, eventVars, faultVars, requests>>

Registered(v, u) == {s \in On(v) : <<v, u, s>> \in reg}

(* Called for the rider who is asked to take the delivery. *)
EmitToRider(v) ==
    /\ Traffic
    /\ events' = events + 1
    /\ reached' = reached \union ({events + 1} \X Registered(v, "rider"))
    /\ due' = due \union ({events + 1} \X {s \in Sockets : Present(s) /\ user[s] = "rider"})
    /\ Publish([for |-> "rider", n |-> events + 1, from |-> v])
    /\ UNCHANGED <<socketVars, statusVars, chatVars, viewVars, faultVars, requests>>

(* Whether a message is one's own is not looked at. *)
ReceiveMutant(v) ==
    /\ channel[v] # <<>>
    /\ channel' = [channel EXCEPT ![v] = Tail(@)]
    /\ LET m == Head(channel[v]) IN
          CASE m.for = "track" -> Push(InRoom("track", v), m.n) /\ UNCHANGED reached
            [] OTHER           -> reached' = reached \union ({m.n} \X Registered(v, m.for))
                                  /\ UNCHANGED pushed
    /\ UNCHANGED <<socketVars, statusVars, chatVars, snap, entered, events, due, faultVars, requests>>

(* Events for a user are looked for among the rooms. *)
ReceiveInRoomsMutant(v) ==
    /\ channel[v] # <<>>
    /\ channel' = [channel EXCEPT ![v] = Tail(@)]
    /\ LET m == Head(channel[v]) IN
          IF m.from # v /\ m.for = "track" THEN Push(InRoom("track", v), m.n) ELSE UNCHANGED pushed
    /\ UNCHANGED <<socketVars, statusVars, chatVars, snap, entered, eventVars, faultVars, requests>>

(* The handler that the gateway gives to the bridge. *)
Receive(v) ==
    /\ channel[v] # <<>>
    /\ channel' = [channel EXCEPT ![v] = Tail(@)]
    /\ LET m == Head(channel[v]) IN
          CASE m.from = v      -> UNCHANGED <<pushed, reached>>
            [] m.from # v /\ m.for = "track"
                               -> Push(InRoom("track", v), m.n) /\ UNCHANGED reached
            [] OTHER           -> reached' = reached \union ({m.n} \X Registered(v, m.for))
                                  /\ UNCHANGED pushed
    /\ UNCHANGED <<socketVars, statusVars, chatVars, snap, entered, events, due, faultVars, requests>>

(* A subscriber that has no connection to Redis misses what is published. *)
Lose(v) ==
    /\ channel[v] # <<>> /\ Head(channel[v]).from # v
    /\ Traffic
    /\ faults' = faults + 1
    /\ channel' = [channel EXCEPT ![v] = Tail(@)]
    /\ UNCHANGED <<socketVars, statusVars, chatVars, viewVars, eventVars, switched, requests>>

(* What a process holds in memory is lost; its sockets are disconnected.   *)
Restart(v) ==
    /\ On(v) # {} \/ \E n \in 1..MaxTraffic : <<v, n>> \in unsent
    /\ Traffic
    /\ faults' = faults + 1
    /\ conn' = [s \in Sockets |-> IF conn[s] = v THEN Gone ELSE conn[s]]
    /\ reg' = {p \in reg : p[1] # v}
    /\ rooms' = {p \in rooms : p[2] \notin On(v)}
    /\ task' = [s \in Sockets |-> IF conn[s] = v THEN Idle ELSE task[s]]
    /\ unsent' = {p \in unsent : p[1] # v}
    /\ unseen' = {m \in unseen : chat[m] # v}
    /\ channel' = [channel EXCEPT ![v] = <<>>]
    /\ UNCHANGED <<user, status, origin, chat, shown, cut, viewVars, eventVars, switched, requests>>

-----------------------------------------------------------------------------
(* Chat. *)

(* The history is read before the socket is in the room. *)
ChatStepsMutant == <<"history", "enter">>

ChatSteps == <<"enter", "history">>

ChatJoin(s) ==
    /\ Asked
    /\ Free(s) /\ user[s] # Nobody
    /\ Start(s, ChatSteps, 0)
    /\ UNCHANGED <<conn, user, reg, rooms, statusVars, chatVars, viewVars, eventVars, faultVars, channel>>

(* When the document has been read, a participant joins the room, ...      *)
EnterChat(s) ==
    /\ Due(s, "enter")
    /\ IF user[s] \in Participants
       THEN rooms' = rooms \union {<<"chat", s>>} /\ Done(s)
       ELSE task' = [task EXCEPT ![s] = Idle] /\ UNCHANGED rooms
    /\ UNCHANGED <<conn, user, reg, statusVars, chatVars, viewVars, eventVars, faultVars, channel, requests>>

(* What find().sort({ createdAt: 1 }).limit(50) returns. *)
History == {m \in Numbers(chat) : m <= HistoryLimit}

(* ... and is sent the history.  Which messages have been read is looked  *)
(* at by no guard and left out.                                           *)
SendHistory(s) ==
    /\ Due(s, "history")
    /\ IF Present(s)
       THEN /\ shown' = [shown EXCEPT ![s] = @ \union History]
            /\ cut' = [cut EXCEPT ![s] = @ \union (Numbers(chat) \ History)]
       ELSE UNCHANGED <<shown, cut>>
    /\ Done(s)
    /\ UNCHANGED <<conn, user, reg, rooms, statusVars, chat, unseen, viewVars, eventVars, faultVars, channel, requests>>

ChatLeave(s) ==
    /\ Asked
    /\ Present(s) /\ <<"chat", s>> \in rooms
    /\ rooms' = rooms \ {<<"chat", s>>}
    /\ UNCHANGED <<conn, user, reg, task, statusVars, chatVars, viewVars, eventVars, faultVars, channel>>

(* A message of a participant or of the system is stored ... *)
Store(v) ==
    /\ Traffic
    /\ chat' = Append(chat, v)
    /\ unseen' = unseen \union {Len(chat) + 1}
    /\ UNCHANGED <<socketVars, statusVars, shown, cut, viewVars, eventVars, faultVars, channel, requests>>

ChatSendMessage(s) == Present(s) /\ user[s] \in Participants /\ Store(conn[s])

EmitSystemChatMessage(v) == Store(v)

(* ... and emitted to those in the room of the same service. *)
EmitMessage(m) ==
    /\ m \in unseen
    /\ unseen' = unseen \ {m}
    /\ shown' = [s \in Sockets |-> IF s \in InRoom("chat", chat[m]) THEN shown[s] \union {m}
                                   ELSE shown[s]]
    /\ UNCHANGED <<socketVars, statusVars, chat, cut, viewVars, eventVars, faultVars, channel, requests>>

-----------------------------------------------------------------------------
Tracks(s) ==
    \/ TrackingSubscribe(s) \/ JoinTracking(s) \/ SendStatus(s) \/ TrackingUnsubscribe(s)
    \/ AdminSubscribeLive(s) \/ SendSnapshot(s) \/ AdminUnsubscribeLive(s)

Chats(s) ==
    \/ ChatJoin(s) \/ EnterChat(s) \/ SendHistory(s) \/ ChatLeave(s)
    \/ ChatSendMessage(s)

Next ==
    \/ \E s \in Sockets :
         \/ \E u \in Users : Authenticate(s, u)
         \/ Disconnect(s) \/ Tracks(s) \/ Chats(s)
    \/ \E v \in Services :
         \/ SaveStatus(v) \/ \E n \in 1..MaxTraffic : EmitDeliveryStatusUpdate(v, n)
         \/ EmitToRider(v) \/ EmitSystemChatMessage(v) \/ Receive(v) \/ Lose(v) \/ Restart(v)
    \/ \E m \in 1..MaxTraffic : EmitMessage(m)

Spec == Init /\ [][Next]_vars

-----------------------------------------------------------------------------
Labels == {"join", "send", "live", "enter", "history"}
Messages == [for : {"rider", "track"}, n : 1..MaxTraffic, from : Services]
OnTheWay(v, for) == {channel[v][i].n : i \in {j \in DOMAIN channel[v] : channel[v][j].for = for}}

(* Sockets, rooms, handlers and messages are what the gateway knows of.    *)
TypeOK ==
    /\ conn \in [Sockets -> Services \union {Gone}]
    /\ user \in [Sockets -> Users \union {Nobody}]
    /\ reg \subseteq Services \X Users \X Sockets
    /\ rooms \subseteq {"track", "live", "chat"} \X Sockets
    /\ task \in [Sockets -> [todo : Seq(Labels), read : 0..MaxTraffic]]
    /\ status \in 0..MaxTraffic /\ unsent \subseteq Services \X (1..MaxTraffic)
    /\ origin \in Seq(Services) /\ Len(origin) = status
    /\ channel \in [Services -> Seq(Messages)]
    /\ chat \in Seq(Services)
    /\ unseen \subseteq Numbers(chat)
    /\ shown \in [Sockets -> SUBSET Numbers(chat)] /\ cut \in [Sockets -> SUBSET Numbers(chat)]
    /\ snap \in [Sockets -> -1..MaxTraffic] /\ entered \in [Sockets -> 0..MaxTraffic]
    /\ pushed \in [Sockets -> [1..MaxTraffic -> Nat]]
    /\ events \in 0..MaxTraffic
    /\ due \subseteq (1..MaxTraffic) \X Sockets /\ reached \subseteq (1..MaxTraffic) \X Sockets
    /\ switched \subseteq Sockets /\ requests \in 0..MaxRequests /\ faults \in 0..MaxTraffic

(* userSockets agrees with the sockets: all that are connected and          *)
(* authenticated are in it, and no other, but what a socket leaves behind   *)
(* that authenticates as two different users: handleDisconnect removes it   *)
(* from the last one.                                                       *)
RegistryAgrees ==
    /\ \A s \in Sockets : Present(s) /\ user[s] # Nobody => <<conn[s], user[s], s>> \in reg
    /\ \A p \in reg : conn[p[3]] = p[1] \/ p[3] \in switched

(* An event for the rider gets to each socket he had when it was         *)
(* emitted, on whichever service, if the channel loses nothing: emitToUser, *)
(* the handler of the bridge, multi-device sockets.  It goes by the         *)
(* registry, which agrees with the sockets through all they do.             *)
UserIsReached ==
    /\ TypeOK /\ RegistryAgrees
    /\ \A p \in due :
          \/ p \in reached \/ ~Present(p[2]) \/ faults > 0
          \/ p[1] \in OnTheWay(conn[p[2]], "rider")

(* Every update that is saved while a socket tracks the delivery is pushed  *)
(* to it, wherever it was saved and whatever has overtaken it, and none is  *)
(* pushed twice, though each is emitted by its service and published to     *)
(* all, that service included.                                              *)
UpdatesArriveOnce ==
    /\ \A s \in Sockets : Present(s) /\ <<"track", s>> \in rooms =>
          \A n \in (entered[s] + 1)..status :
              \/ pushed[s][n] > 0 \/ faults > 0
              \/ \E v \in Services : <<v, n>> \in unsent
              \/ n \in OnTheWay(conn[s], "track")
    /\ \A s \in Sockets, n \in 1..MaxTraffic : pushed[s][n] <= 1

(* Whoever joins a room and then reads what went before misses nothing of   *)
(* that service in between.  An administrator who has the snapshot knows of *)
(* every update, from the snapshot or since; a participant who has the      *)
(* history has every message, or it was too long, or the message is being   *)
(* emitted: onAdminSubscribeLive, onChatJoin against onChatSendMessage.     *)
NothingMissed ==
    /\ \A s \in Sockets : Present(s) /\ <<"live", s>> \in rooms /\ ~Due(s, "live") =>
          \A n \in 1..status :
              origin[n] = conn[s] => n <= snap[s] \/ pushed[s][n] > 0 \/ <<conn[s], n>> \in unsent
    /\ \A s \in Sockets : Present(s) /\ <<"chat", s>> \in rooms /\ ~Due(s, "history") =>
          \A m \in Numbers(chat) :
              chat[m] = conn[s] => m \in shown[s] \union cut[s] \union unseen

(* "Send current status": a socket that has subscribed has been told of     *)
(* every update, or is about to be.                                         *)
StatusIsCurrent ==
    \A s \in Sockets : Present(s) /\ <<"track", s>> \in rooms /\ task[s] = Idle =>
        \A n \in 1..status :
            \/ n <= snap[s] \/ pushed[s][n] > 0 \/ faults > 0
            \/ \E v \in Services : <<v, n>> \in unsent
            \/ n \in OnTheWay(conn[s], "track")
=============================================================================
