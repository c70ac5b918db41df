----------------------- MODULE CustomerContact_proofs -----------------------
(***************************************************************************)
(* Proofs about what a customer hears of a delivery and what he says of    *)
(* it.  Of DeliveryGateway: its types, that events and updates arrive      *)
(* (once), and that nothing is missed between a room and what went before. *)
(* Of Feedback: that documents and marks agree, that the rider's average   *)
(* is current, and that a closed dispute stays as it is.                   *)
(*                                                                         *)
(* The two components share nothing; Feedback is the second part.          *)
(***************************************************************************)
EXTENDS DeliveryGateway, Feedback, FiniteSetTheorems, SequenceTheorems, WellFoundedInduction, TLAPS


(* A rider whom an event is due is in the registry of his service.         *)
EventSound(p) ==
    /\ p[1] <= events
    /\ Present(p[2]) => <<conn[p[2]], "rider", p[2]>> \in reg
    /\ p \in reached \/ ~Present(p[2]) \/ faults > 0 \/ p[1] \in OnTheWay(conn[p[2]], "rider")

(* What a service will drop as its own has reached its sockets already.    *)
EventSent(v, m) ==
    m.for = "rider" =>
       /\ m.n <= events
       /\ m.from = v => \A p \in due : p[1] = m.n /\ conn[p[2]] = v => p \in reached

EventInv ==
    /\ \A p \in due : EventSound(p)
    /\ \A v \in Services : \A i \in DOMAIN channel[v] : EventSent(v, channel[v][i])

(* An update that is on its way to another service has been pushed to no   *)
(* socket there, and is on its way once.                                   *)
UpdateSent(v, m) ==
    m.for = "track" =>
       /\ m.n <= status /\ origin[m.n] = m.from /\ <<m.from, m.n>> \notin unsent
       /\ m.from # v => \A s \in On(v) : pushed[s][m.n] = 0
       /\ m.from = v => \A s \in InRoom("track", v) : m.n <= entered[s] \/ pushed[s][m.n] > 0

OnceOnly(v) ==
    \A i, j \in DOMAIN channel[v] :
        /\ channel[v][i].for = "track" /\ channel[v][j].for = "track"
        /\ channel[v][i].n = channel[v][j].n
        => i = j

UpdateInv ==
    /\ \A p \in unsent : /\ p[2] <= status /\ origin[p[2]] = p[1]
                         /\ \A s \in Sockets : pushed[s][p[2]] = 0
    /\ \A v \in Services : OnceOnly(v) /\ \A i \in DOMAIN channel[v] : UpdateSent(v, channel[v][i])
    /\ \A s \in Sockets, n \in 1..MaxTraffic : pushed[s][n] > 0 => n <= status
    /\ UpdatesArriveOnce

(* What a handler has read is not older than what its socket was sent.     *)
Handlers == {<<>>, <<"join", "send">>, <<"send">>, <<"live">>, <<"enter", "history">>, <<"history">>}

HandlerInv ==
    \A s \in Sockets :
        /\ task[s].todo \in Handlers
        /\ snap[s] <= status /\ task[s].read <= status
        /\ task[s].todo \in {<<"join", "send">>, <<"send">>} => snap[s] <= task[s].read

(* Only what a switched socket leaves behind is not about it as it is.     *)
RegistrySound ==
    \A p \in reg : p = <<conn[p[3]], user[p[3]], p[3]>> \/ p[3] \in switched

GatewayInv ==
    /\ TypeOK /\ RegistryAgrees /\ RegistrySound
    /\ EventInv /\ UpdateInv /\ HandlerInv /\ NothingMissed

-----------------------------------------------------------------------------
(* Queues. *)

LEMMA Appended ==
    ASSUME NEW S, NEW q \in Seq(S), NEW m \in S
    PROVE  /\ Append(q, m) \in Seq(S)
           /\ DOMAIN q = 1..Len(q) /\ DOMAIN Append(q, m) = 1..(Len(q) + 1) /\ Len(q) \in Nat
           /\ Len(Append(q, m)) = Len(q) + 1
           /\ \A i \in DOMAIN q : Append(q, m)[i] = q[i]
           /\ Append(q, m)[Len(q) + 1] = m
  OBVIOUS

LEMMA Popped ==
    ASSUME NEW S, NEW q \in Seq(S), q # <<>>
    PROVE  /\ Tail(q) \in Seq(S) /\ Head(q) \in S /\ Head(q) = q[1] /\ 1 \in DOMAIN q
           /\ \A i \in DOMAIN Tail(q) : i + 1 \in DOMAIN q /\ Tail(q)[i] = q[i + 1]
           /\ \A i \in DOMAIN q : i = 1 \/ (i - 1 \in DOMAIN Tail(q) /\ Tail(q)[i - 1] = q[i])
  OBVIOUS

LEMMA Published ==
    ASSUME TypeOK, NEW m \in Messages, Publish(m)
    PROVE  /\ channel' \in [Services -> Seq(Messages)]
           /\ \A v \in Services :
                /\ \A i \in DOMAIN channel'[v] :
                     \/ i \in DOMAIN channel[v] /\ channel'[v][i] = channel[v][i]
                     \/ i = Len(channel[v]) + 1 /\ channel'[v][i] = m
                /\ \A for : OnTheWay(v, for) \subseteq OnTheWay(v, for)'
                /\ m.n \in OnTheWay(v, m.for)'
<1>1. \A v \in Services : channel[v] \in Seq(Messages) /\ channel'[v] = Append(channel[v], m)
  BY DEF TypeOK, Publish
<1>2. channel' \in [Services -> Seq(Messages)]
  <2>1. \A v \in Services : Append(channel[v], m) \in Seq(Messages)
    BY <1>1, Appended
  <2> QED
    BY <2>1 DEF Publish
<1>3. ASSUME NEW v \in Services
      PROVE  /\ \A i \in DOMAIN channel'[v] :
                  \/ i \in DOMAIN channel[v] /\ channel'[v][i] = channel[v][i]
                  \/ i = Len(channel[v]) + 1 /\ channel'[v][i] = m
             /\ \A for : OnTheWay(v, for) \subseteq OnTheWay(v, for)'
             /\ m.n \in OnTheWay(v, m.for)'
  <2> DEFINE q == channel[v]
  <2>1. q \in Seq(Messages) /\ channel'[v] = Append(q, m)
    BY <1>1
  <2>2. /\ DOMAIN q = 1..Len(q) /\ DOMAIN channel'[v] = 1..(Len(q) + 1) /\ Len(q) \in Nat
        /\ \A i \in DOMAIN q : channel'[v][i] = q[i]
        /\ channel'[v][Len(q) + 1] = m
    BY <2>1, Appended
  <2>3. \A i \in DOMAIN q : i \in DOMAIN channel'[v]
    BY <2>2
  <2>4. Len(q) + 1 \in DOMAIN channel'[v]
    BY <2>2
  <2> QED
    BY <2>2, <2>3, <2>4 DEF OnTheWay
<1> QED
  BY <1>2, <1>3

(* Service v takes the first message from its queue. *)
Taken(v) == channel[v] # <<>> /\ channel' = [channel EXCEPT ![v] = Tail(@)]

LEMMA Received ==
    ASSUME TypeOK, NEW v \in Services, Taken(v)
    PROVE  /\ channel' \in [Services -> Seq(Messages)]
           /\ Head(channel[v]) \in Messages /\ 1 \in DOMAIN channel[v]
           /\ Head(channel[v]) = channel[v][1]
           /\ \A w \in Services \ {v} : channel'[w] = channel[w]
           /\ \A i \in DOMAIN channel'[v] :
                i + 1 \in DOMAIN channel[v] /\ channel'[v][i] = channel[v][i + 1] /\ i \in Nat
           /\ \A for, n : n \in OnTheWay(v, for) =>
                \/ n \in OnTheWay(v, for)'
                \/ Head(channel[v]).for = for /\ Head(channel[v]).n = n
<1> DEFINE q == channel[v]
<1>1. q \in Seq(Messages) /\ q # <<>> /\ channel'[v] = Tail(q)
      /\ \A w \in Services \ {v} : channel'[w] = channel[w]
  BY DEF TypeOK, Taken
<1>2. /\ Tail(q) \in Seq(Messages) /\ Head(q) \in Messages /\ Head(q) = q[1] /\ 1 \in DOMAIN q
      /\ \A i \in DOMAIN Tail(q) : i + 1 \in DOMAIN q /\ Tail(q)[i] = q[i + 1]
      /\ \A i \in DOMAIN q : i = 1 \/ (i - 1 \in DOMAIN Tail(q) /\ Tail(q)[i - 1] = q[i])
  BY <1>1, Popped
<1>3. channel' \in [Services -> Seq(Messages)]
  BY <1>2 DEF TypeOK, Taken
<1>4. \A i \in DOMAIN Tail(q) : i \in Nat
  BY <1>2
<1>5. ASSUME NEW for, NEW n, n \in OnTheWay(v, for)
      PROVE  n \in OnTheWay(v, for)' \/ (Head(q).for = for /\ Head(q).n = n)
  <2>1. PICK i \in DOMAIN q : q[i].for = for /\ q[i].n = n
    BY <1>5 DEF OnTheWay
  <2>2. CASE i = 1
    BY <1>2, <2>1, <2>2
  <2>3. CASE i # 1
    <3>1. i - 1 \in DOMAIN channel'[v] /\ channel'[v][i - 1] = q[i]
      BY <1>1, <1>2, <2>3
    <3> QED
      BY <2>1, <3>1 DEF OnTheWay
  <2> QED
    BY <2>2, <2>3
<1> QED
  BY <1>1, <1>2, <1>3, <1>4, <1>5

-----------------------------------------------------------------------------
(* Types. *)

TaskType == [todo : Seq(Labels), read : 0..MaxTraffic]

LEMMA StepsTyped ==
    /\ <<"join", "send">> \in Seq(Labels) /\ <<"live">> \in Seq(Labels)
    /\ <<"enter", "history">> \in Seq(Labels)
    /\ Idle \in TaskType /\ Idle.todo = <<>> /\ Idle.read = 0
<1>1. 0 \in 0..MaxTraffic
  BY GatewayAssumption
<1> QED
  BY <1>1 DEF Labels, Idle, TaskType

LEMMA Started ==
    ASSUME TypeOK, NEW s \in Sockets, NEW steps \in Seq(Labels), NEW n \in 0..MaxTraffic,
           Start(s, steps, n)
    PROVE  task' \in [Sockets -> TaskType]
  BY DEF TypeOK, Start, TaskType

LEMMA WentOn ==
    ASSUME TypeOK, NEW s \in Sockets, NEW l, Due(s, l),
           \/ Done(s)
           \/ task' = [task EXCEPT ![s].todo = Tail(@)]
           \/ task' = [task EXCEPT ![s] = Idle]
    PROVE  task' \in [Sockets -> TaskType]
<1>1. task[s] \in TaskType /\ task[s].todo \in Seq(Labels) /\ task[s].todo # <<>>
      /\ task \in [Sockets -> TaskType]
  BY DEF TypeOK, Due, TaskType
<1>2. Tail(task[s].todo) \in Seq(Labels)
  BY <1>1, Popped
<1>3. 0 \in 0..MaxTraffic
  BY GatewayAssumption
<1>4. CASE Done(s)
  BY <1>1, <1>2, <1>3, <1>4 DEF Done, TaskType
<1>5. CASE task' = [task EXCEPT ![s].todo = Tail(@)]
  BY <1>1, <1>2, <1>5 DEF TaskType
<1>6. CASE task' = [task EXCEPT ![s] = Idle]
  BY <1>1, <1>6, StepsTyped
<1> QED
  BY <1>4, <1>5, <1>6

(* TypeOK, by who changes it. *)
SocketTyped ==
    /\ conn \in [Sockets -> Services \union {Gone}]
    /\ user \in [Sockets -> Users \union {Nobody}]
    /\ reg \subseteq Services \X Users \X Sockets
    /\ rooms \subseteq {"track", "live", "chat"} \X Sockets
    /\ task \in [Sockets -> TaskType]
    /\ switched \subseteq Sockets /\ requests \in 0..MaxRequests
StatusTyped ==
    /\ status \in 0..MaxTraffic /\ unsent \subseteq Services \X (1..MaxTraffic)
    /\ origin \in Seq(Services) /\ Len(origin) = status
ChannelTyped ==
    /\ channel \in [Services -> Seq(Messages)]
    /\ events \in 0..MaxTraffic
    /\ due \subseteq (1..MaxTraffic) \X Sockets /\ reached \subseteq (1..MaxTraffic) \X Sockets
    /\ faults \in 0..MaxTraffic
ChatTyped ==
    /\ chat \in Seq(Services)
    /\ unseen \subseteq Numbers(chat)
    /\ shown \in [Sockets -> SUBSET Numbers(chat)] /\ cut \in [Sockets -> SUBSET Numbers(chat)]
ViewTyped ==
    /\ snap \in [Sockets -> -1..MaxTraffic] /\ entered \in [Sockets -> 0..MaxTraffic]
    /\ pushed \in [Sockets -> [1..MaxTraffic -> Nat]]

LEMMA TypeParts ==
    /\ TypeOK <=> SocketTyped /\ StatusTyped /\ ChannelTyped /\ ChatTyped /\ ViewTyped
    /\ TypeOK' <=> SocketTyped' /\ StatusTyped' /\ ChannelTyped' /\ ChatTyped' /\ ViewTyped'
  BY DEF TypeOK, SocketTyped, StatusTyped, ChannelTyped, ChatTyped, ViewTyped, TaskType

LEMMA Room ==
    ASSUME TypeOK, Traffic
    PROVE  /\ status + 1 \in 1..MaxTraffic /\ events + 1 \in 1..MaxTraffic
           /\ status + 1 \in 0..MaxTraffic /\ events + 1 \in 0..MaxTraffic
           /\ faults + 1 \in 0..MaxTraffic
<1>1. Len(chat) \in Nat /\ MaxTraffic \in Nat
      /\ status \in 0..MaxTraffic /\ events \in 0..MaxTraffic /\ faults \in 0..MaxTraffic
  BY GatewayAssumption DEF TypeOK
<1> QED
  BY <1>1 DEF Traffic

LEMMA AskedTyped == ASSUME TypeOK, Asked PROVE requests' \in 0..MaxRequests
  BY GatewayAssumption DEF TypeOK, Asked

LEMMA PushTyped ==
    ASSUME TypeOK, NEW S, NEW n \in 1..MaxTraffic, Push(S, n)
    PROVE  /\ pushed' \in [Sockets -> [1..MaxTraffic -> Nat]]
           /\ \A s \in Sockets, k \in 1..MaxTraffic :
                pushed'[s][k] = IF s \in S /\ k = n THEN pushed[s][k] + 1 ELSE pushed[s][k]
<1>1. \A s \in Sockets : pushed[s] \in [1..MaxTraffic -> Nat]
  BY DEF TypeOK
<1>2. \A s \in Sockets : pushed'[s] = IF s \in S THEN [pushed[s] EXCEPT ![n] = @ + 1] ELSE pushed[s]
  BY DEF Push
<1>3. ASSUME NEW s \in Sockets
      PROVE  pushed'[s] \in [1..MaxTraffic -> Nat]
  <2>1. pushed[s] \in [1..MaxTraffic -> Nat]
    BY <1>1
  <2>2. pushed[s][n] \in Nat
    BY <2>1
  <2>3. [pushed[s] EXCEPT ![n] = @ + 1] \in [1..MaxTraffic -> Nat]
    BY <2>1, <2>2
  <2> QED
    BY <1>2, <2>1, <2>3
<1>4. \A s \in Sockets, k \in 1..MaxTraffic :
         pushed'[s][k] = IF s \in S /\ k = n THEN pushed[s][k] + 1 ELSE pushed[s][k]
  BY <1>1, <1>2
<1> QED
  BY <1>3, <1>4 DEF Push

(* Tracking and chatting change rooms, tasks and what a socket was sent.   *)
LEMMA TracksFrame ==
    ASSUME NEW s \in Sockets, Tracks(s)
    PROVE  UNCHANGED <<conn, user, reg, statusVars, chatVars, pushed, eventVars, faultVars, channel>>
  BY DEF Tracks, TrackingSubscribe, JoinTracking, SendStatus, TrackingUnsubscribe,
         AdminSubscribeLive, SendSnapshot, AdminUnsubscribeLive, viewVars

LEMMA ChatsFrame ==
    ASSUME NEW s \in Sockets, Chats(s)
    PROVE  UNCHANGED <<conn, user, reg, statusVars, viewVars, eventVars, faultVars, channel>>
  BY DEF Chats, ChatJoin, EnterChat, SendHistory, ChatLeave, ChatSendMessage, Store, socketVars

LEMMA AuthenticateTyped ==
    ASSUME TypeOK, NEW s \in Sockets, NEW u \in Users, Authenticate(s, u)
    PROVE  TypeOK'
<1>1. requests' \in 0..MaxRequests
  BY AskedTyped DEF Authenticate
<1>2. SocketTyped'
  BY <1>1, TypeParts DEF SocketTyped, Authenticate, Present
<1>3. StatusTyped' /\ ChannelTyped' /\ ChatTyped' /\ ViewTyped'
  BY TypeParts DEF StatusTyped, ChannelTyped, ChatTyped, ViewTyped, Authenticate, Numbers,
                   statusVars, chatVars, viewVars, eventVars
<1> QED
  BY <1>2, <1>3, TypeParts

LEMMA DisconnectTyped ==
    ASSUME TypeOK, NEW s \in Sockets, Disconnect(s)
    PROVE  TypeOK'
<1>1. requests' \in 0..MaxRequests
  BY AskedTyped DEF Disconnect
<1>2. SocketTyped'
  BY <1>1, TypeParts DEF SocketTyped, Disconnect, faultVars
<1>3. StatusTyped' /\ ChannelTyped' /\ ChatTyped' /\ ViewTyped'
  BY TypeParts DEF StatusTyped, ChannelTyped, ChatTyped, ViewTyped, Disconnect, Numbers,
                   statusVars, chatVars, viewVars, eventVars, faultVars
<1> QED
  BY <1>2, <1>3, TypeParts

LEMMA TracksTyped ==
    ASSUME TypeOK, NEW s \in Sockets, Tracks(s)
    PROVE  TypeOK'
<1>1. StatusTyped' /\ ChannelTyped' /\ ChatTyped'
  BY TracksFrame, TypeParts DEF StatusTyped, ChannelTyped, ChatTyped, Numbers,
     statusVars, chatVars, eventVars, faultVars
<1>2. UNCHANGED <<conn, user, reg, pushed, switched>>
  BY TracksFrame DEF faultVars
<1>3. task[s] \in TaskType /\ task[s].read \in 0..MaxTraffic /\ status \in 0..MaxTraffic
      /\ 0 \in 0..MaxTraffic
  BY GatewayAssumption DEF TypeOK, TaskType
<1>4. requests' \in 0..MaxRequests
  BY AskedTyped
  DEF TypeOK, Tracks, TrackingSubscribe, JoinTracking, SendStatus, TrackingUnsubscribe,
      AdminSubscribeLive, SendSnapshot, AdminUnsubscribeLive
<1>5. task' \in [Sockets -> TaskType]
  <2>1. CASE TrackingSubscribe(s)
    BY <1>3, <2>1, StepsTyped, Started DEF TrackingSubscribe
  <2>2. CASE JoinTracking(s)
    BY <2>2, WentOn DEF JoinTracking
  <2>3. CASE SendStatus(s)
    BY <2>3, WentOn DEF SendStatus
  <2>4. CASE TrackingUnsubscribe(s) \/ AdminUnsubscribeLive(s)
    BY <2>4 DEF TrackingUnsubscribe, AdminUnsubscribeLive, TypeOK, TaskType
  <2>5. CASE AdminSubscribeLive(s)
    BY <1>3, <2>5, StepsTyped, Started DEF AdminSubscribeLive
  <2>6. CASE SendSnapshot(s)
    BY <2>6, WentOn DEF SendSnapshot
  <2> QED
    BY <2>1, <2>2, <2>3, <2>4, <2>5, <2>6 DEF Tracks
<1>6. rooms' \subseteq {"track", "live", "chat"} \X Sockets
  BY DEF TypeOK, Tracks, TrackingSubscribe, JoinTracking, SendStatus, TrackingUnsubscribe,
         AdminSubscribeLive, SendSnapshot, AdminUnsubscribeLive
<1>7. snap' \in [Sockets -> -1..MaxTraffic] /\ entered' \in [Sockets -> 0..MaxTraffic]
  <2>1. task[s].read \in -1..MaxTraffic /\ status \in -1..MaxTraffic
    BY <1>3
  <2> QED
    BY <1>3, <2>1
    DEF TypeOK, Tracks, TrackingSubscribe, JoinTracking, SendStatus, TrackingUnsubscribe,
        AdminSubscribeLive, SendSnapshot, AdminUnsubscribeLive, viewVars
<1> QED
  BY <1>1, <1>2, <1>4, <1>5, <1>6, <1>7, TypeParts DEF SocketTyped, ViewTyped

(* A message is stored: it is the last of the chat, and not yet emitted.   *)
LEMMA StoreTyped ==
    ASSUME TypeOK, NEW v \in Services, Store(v)
    PROVE  /\ TypeOK'
           /\ Numbers(chat)' = Numbers(chat) \union {Len(chat) + 1}
           /\ \A m \in Numbers(chat) : chat'[m] = chat[m]
<1>1. chat \in Seq(Services) /\ chat' = Append(chat, v)
  BY DEF TypeOK, Store
<1>2. /\ chat' \in Seq(Services) /\ Len(chat) \in Nat /\ Len(chat') = Len(chat) + 1
      /\ \A m \in 1..Len(chat) : chat'[m] = chat[m]
  BY <1>1, Appended
<1>3. Numbers(chat)' = Numbers(chat) \union {Len(chat) + 1}
  BY <1>2 DEF Numbers
<1>4. ChatTyped'
  BY <1>2, <1>3, TypeParts DEF ChatTyped, Store
<1>5. SocketTyped' /\ StatusTyped' /\ ChannelTyped' /\ ViewTyped'
  BY TypeParts DEF StatusTyped, ChannelTyped, SocketTyped, ViewTyped, Store,
                   statusVars, socketVars, viewVars, eventVars, faultVars
<1> QED
  BY <1>2, <1>3, <1>4, <1>5, TypeParts DEF Numbers

LEMMA ChatsTyped ==
    ASSUME TypeOK, NEW s \in Sockets, Chats(s)
    PROVE  TypeOK'
<1>1. CASE ChatSendMessage(s)
  <2>1. conn[s] \in Services
    BY <1>1 DEF ChatSendMessage, Present
  <2> QED
    BY <1>1, <2>1, StoreTyped DEF ChatSendMessage
<1>2. CASE ~ChatSendMessage(s)
  <2>1. StatusTyped' /\ ChannelTyped' /\ ViewTyped'
    BY ChatsFrame, TypeParts DEF StatusTyped, ChannelTyped, ViewTyped,
       statusVars, viewVars, eventVars, faultVars
  <2>2. UNCHANGED <<conn, user, reg, switched>>
    BY ChatsFrame DEF faultVars
  <2>3. 0 \in 0..MaxTraffic
    BY GatewayAssumption
  <2>4. requests' \in 0..MaxRequests
    BY <1>2, AskedTyped DEF TypeOK, Chats, ChatJoin, EnterChat, SendHistory, ChatLeave
  <2>5. task' \in [Sockets -> TaskType]
    <3>1. CASE ChatJoin(s)
      BY <2>3, <3>1, StepsTyped, Started DEF ChatJoin, ChatSteps
    <3>2. CASE EnterChat(s)
      BY <3>2, WentOn DEF EnterChat
    <3>3. CASE SendHistory(s)
      BY <3>3, WentOn DEF SendHistory
    <3>4. CASE ChatLeave(s)
      BY <3>4 DEF ChatLeave, TypeOK, TaskType
    <3> QED
      BY <1>2, <3>1, <3>2, <3>3, <3>4 DEF Chats
  <2>6. rooms' \subseteq {"track", "live", "chat"} \X Sockets
    BY <1>2 DEF TypeOK, Chats, ChatJoin, EnterChat, SendHistory, ChatLeave
  <2>7. ChatTyped'
    <3>1. UNCHANGED <<chat, unseen>>
      BY <1>2 DEF Chats, ChatJoin, EnterChat, SendHistory, ChatLeave, chatVars
    <3>2. History \subseteq Numbers(chat)
      BY DEF History
    <3>3. shown' \in [Sockets -> SUBSET Numbers(chat)] /\ cut' \in [Sockets -> SUBSET Numbers(chat)]
      <4>1. CASE SendHistory(s)
        <5>1. /\ \/ UNCHANGED shown
                 \/ shown' = [shown EXCEPT ![s] = @ \union History]
              /\ \/ UNCHANGED cut
                 \/ cut' = [cut EXCEPT ![s] = @ \union (Numbers(chat) \ History)]
          BY <4>1 DEF SendHistory
        <5>2. /\ shown \in [Sockets -> SUBSET Numbers(chat)]
              /\ cut \in [Sockets -> SUBSET Numbers(chat)]
          BY DEF TypeOK
        <5> QED
          BY <3>2, <5>1, <5>2
      <4>2. CASE ~SendHistory(s)
        BY <1>2, <4>2 DEF TypeOK, Chats, ChatJoin, EnterChat, ChatLeave, chatVars
      <4> QED
        BY <4>1, <4>2
    <3> QED
      BY <3>1, <3>3 DEF TypeOK, ChatTyped, Numbers
  <2> QED
    BY <2>1, <2>2, <2>4, <2>5, <2>6, <2>7, TypeParts DEF SocketTyped
<1> QED
  BY <1>1, <1>2

LEMMA SaveStatusTyped ==
    ASSUME TypeOK, NEW v \in Services, SaveStatus(v)
    PROVE  /\ TypeOK'
           /\ \A n \in 1..status : origin'[n] = origin[n]
           /\ origin'[status + 1] = v
<1>1. status + 1 \in 1..MaxTraffic /\ status + 1 \in 0..MaxTraffic
  BY Room DEF SaveStatus
<1>2. origin \in Seq(Services) /\ Len(origin) = status /\ origin' = Append(origin, v)
      /\ status' = status + 1
  BY DEF TypeOK, SaveStatus
<1>3. /\ origin' \in Seq(Services) /\ Len(origin') = status + 1
      /\ \A n \in 1..status : origin'[n] = origin[n]
      /\ origin'[status + 1] = v
  BY <1>2, Appended
<1>4. StatusTyped'
  BY <1>1, <1>2, <1>3, TypeParts DEF StatusTyped, SaveStatus
<1>5. SocketTyped' /\ ChannelTyped' /\ ChatTyped' /\ ViewTyped'
  BY TypeParts DEF SocketTyped, ChannelTyped, ChatTyped, ViewTyped, SaveStatus, Numbers,
                   socketVars, chatVars, viewVars, eventVars, faultVars
<1> QED
  BY <1>3, <1>4, <1>5, TypeParts

LEMMA EmitStatusTyped ==
    ASSUME TypeOK, NEW v \in Services, NEW n \in 1..MaxTraffic, EmitDeliveryStatusUpdate(v, n)
    PROVE  TypeOK'
<1>1. Publish([for |-> "track", n |-> n, from |-> v])
      /\ [for |-> "track", n |-> n, from |-> v] \in Messages
  BY DEF EmitDeliveryStatusUpdate, Messages
<1>2. ChannelTyped'
  BY <1>1, Published, TypeParts DEF ChannelTyped, EmitDeliveryStatusUpdate, eventVars, faultVars
<1>3. ViewTyped'
  BY PushTyped, TypeParts DEF ViewTyped, EmitDeliveryStatusUpdate
<1>4. SocketTyped' /\ StatusTyped' /\ ChatTyped'
  BY TypeParts DEF SocketTyped, StatusTyped, ChatTyped, EmitDeliveryStatusUpdate, Numbers,
                   socketVars, chatVars, faultVars
<1> QED
  BY <1>2, <1>3, <1>4, TypeParts

LEMMA EmitToRiderTyped ==
    ASSUME TypeOK, NEW v \in Services, EmitToRider(v)
    PROVE  TypeOK'
<1>1. events + 1 \in 1..MaxTraffic /\ events + 1 \in 0..MaxTraffic
  BY Room DEF EmitToRider
<1>2. Publish([for |-> "rider", n |-> events + 1, from |-> v])
      /\ [for |-> "rider", n |-> events + 1, from |-> v] \in Messages
  BY <1>1 DEF EmitToRider, Messages
<1>3. Registered(v, "rider") \subseteq Sockets
  BY DEF Registered, On
<1>4. ChannelTyped'
  BY <1>1, <1>2, <1>3, Published, TypeParts DEF ChannelTyped, EmitToRider, faultVars
<1>5. SocketTyped' /\ StatusTyped' /\ ChatTyped' /\ ViewTyped'
  BY TypeParts DEF SocketTyped, StatusTyped, ChatTyped, ViewTyped, EmitToRider, Numbers,
                   socketVars, statusVars, chatVars, viewVars, faultVars
<1> QED
  BY <1>4, <1>5, TypeParts

LEMMA ReceiveTyped ==
    ASSUME TypeOK, NEW v \in Services, Receive(v)
    PROVE  TypeOK'
<1> DEFINE m == Head(channel[v])
<1>1. Taken(v) /\ m \in Messages /\ channel' \in [Services -> Seq(Messages)]
  BY Received DEF Receive, Taken
<1>2. m.n \in 1..MaxTraffic /\ m.for \in {"rider", "track"}
  BY <1>1 DEF Messages
<1>3. \/ UNCHANGED pushed
      \/ Push(InRoom("track", v), m.n)
  BY DEF Receive
<1>4. \/ UNCHANGED reached
      \/ reached' = reached \union ({m.n} \X Registered(v, m.for))
  BY DEF Receive
<1>5. Registered(v, m.for) \subseteq Sockets
  BY DEF Registered, On
<1>6. ViewTyped'
  BY <1>2, <1>3, PushTyped, TypeParts DEF ViewTyped, Receive
<1>7. ChannelTyped'
  BY <1>1, <1>2, <1>4, <1>5, TypeParts DEF ChannelTyped, Receive, faultVars
<1>8. SocketTyped' /\ StatusTyped' /\ ChatTyped'
  BY TypeParts DEF SocketTyped, StatusTyped, ChatTyped, Receive, Numbers,
                   socketVars, statusVars, chatVars, faultVars
<1> QED
  BY <1>6, <1>7, <1>8, TypeParts

LEMMA LoseTyped ==
    ASSUME TypeOK, NEW v \in Services, Lose(v)
    PROVE  TypeOK'
<1>1. Taken(v) /\ channel' \in [Services -> Seq(Messages)] /\ faults' \in 0..MaxTraffic
  BY Received, Room DEF Lose, Taken
<1>2. ChannelTyped'
  BY <1>1, TypeParts DEF ChannelTyped, Lose, eventVars
<1>3. SocketTyped' /\ StatusTyped' /\ ChatTyped' /\ ViewTyped'
  BY TypeParts DEF SocketTyped, StatusTyped, ChatTyped, ViewTyped, Lose, Numbers,
                   socketVars, statusVars, chatVars, viewVars
<1> QED
  BY <1>2, <1>3, TypeParts

LEMMA RestartTyped ==
    ASSUME TypeOK, NEW v \in Services, Restart(v)
    PROVE  TypeOK'
<1>1. faults' \in 0..MaxTraffic
  BY Room DEF Restart
<1>2. <<>> \in Seq(Messages)
  OBVIOUS
<1>3. channel' \in [Services -> Seq(Messages)]
  BY <1>2 DEF TypeOK, Restart
<1>4. ChannelTyped'
  BY <1>1, <1>3, TypeParts DEF ChannelTyped, Restart, eventVars
<1>5. SocketTyped'
  <2>1. task' \in [Sockets -> TaskType] /\ conn' \in [Sockets -> Services \union {Gone}]
    BY StepsTyped, TypeParts DEF SocketTyped, Restart
  <2> QED
    BY <2>1, TypeParts DEF SocketTyped, Restart
<1>6. StatusTyped' /\ ChatTyped' /\ ViewTyped'
  BY TypeParts DEF StatusTyped, ChatTyped, ViewTyped, Restart, Numbers, viewVars
<1> QED
  BY <1>4, <1>5, <1>6, TypeParts

LEMMA EmitMessageTyped ==
    ASSUME TypeOK, NEW m, EmitMessage(m)
    PROVE  TypeOK'
<1>1. m \in Numbers(chat)
  BY DEF TypeOK, EmitMessage
<1>2. ChatTyped'
  BY <1>1, TypeParts DEF ChatTyped, EmitMessage, Numbers
<1>3. SocketTyped' /\ StatusTyped' /\ ChannelTyped' /\ ViewTyped'
  BY TypeParts DEF SocketTyped, StatusTyped, ChannelTyped, ViewTyped, EmitMessage,
                   socketVars, statusVars, viewVars, eventVars, faultVars
<1> QED
  BY <1>2, <1>3, TypeParts

LEMMA TypeStep == TypeOK /\ Next => TypeOK'
<1> SUFFICES ASSUME TypeOK, Next PROVE TypeOK'
  OBVIOUS
<1>1. ASSUME NEW s \in Sockets, NEW u \in Users, Authenticate(s, u) PROVE TypeOK'
  BY <1>1, AuthenticateTyped
<1>2. ASSUME NEW s \in Sockets, Disconnect(s) \/ Tracks(s) \/ Chats(s) PROVE TypeOK'
  BY <1>2, DisconnectTyped, TracksTyped, ChatsTyped
<1>3. ASSUME NEW v \in Services, NEW n \in 1..MaxTraffic, EmitDeliveryStatusUpdate(v, n)
      PROVE  TypeOK'
  BY <1>3, EmitStatusTyped
<1>4. ASSUME NEW v \in Services,
             \/ SaveStatus(v) \/ EmitToRider(v) \/ EmitSystemChatMessage(v)
             \/ Receive(v) \/ Lose(v) \/ Restart(v)
      PROVE  TypeOK'
  BY <1>4, SaveStatusTyped, EmitToRiderTyped, StoreTyped, ReceiveTyped, LoseTyped, RestartTyped
  DEF EmitSystemChatMessage
<1>5. ASSUME NEW m, EmitMessage(m) PROVE TypeOK'
  BY <1>5, EmitMessageTyped
<1> QED
  BY <1>1, <1>2, <1>3, <1>4, <1>5 DEF Next

-----------------------------------------------------------------------------
(* The registry. *)

LEMMA RegistryStep ==
    ASSUME TypeOK, RegistryAgrees, RegistrySound, Next
    PROVE  RegistryAgrees' /\ RegistrySound'
<1>1. ASSUME NEW s \in Sockets, NEW u \in Users, Authenticate(s, u)
      PROVE  RegistryAgrees' /\ RegistrySound'
  <2>1. /\ conn' = conn /\ conn[s] \in Services /\ user[s] # u
        /\ user' = [user EXCEPT ![s] = u] /\ user \in [Sockets -> Users \union {Nobody}]
        /\ reg' = reg \union {<<conn[s], u, s>>} /\ reg \subseteq Services \X Users \X Sockets
        /\ switched' = IF user[s] \in {Nobody, u} THEN switched ELSE switched \union {s}
    BY <1>1 DEF Authenticate, Present, TypeOK
  <2>2. user'[s] = u /\ \A x \in Sockets \ {s} : user'[x] = user[x]
    BY <2>1
  <2>3. ASSUME NEW x \in Sockets, Present(x)', user'[x] # Nobody
        PROVE  <<conn'[x], user'[x], x>> \in reg'
    BY <2>1, <2>2, <2>3 DEF RegistryAgrees, Present
  <2>4. ASSUME NEW p \in reg'
        PROVE  p = <<conn'[p[3]], user'[p[3]], p[3]>> \/ p[3] \in switched'
    <3>1. CASE p = <<conn[s], u, s>>
      BY <2>1, <2>2, <3>1
    <3>2. CASE p \in reg /\ p[3] # s
      BY <2>1, <2>2, <3>2 DEF RegistrySound
    <3>3. CASE p \in reg /\ p[3] = s
      <4>1. p[2] \in Users /\ p[2] # Nobody
        BY <2>1, <3>3, GatewayAssumption
      <4>2. p[2] = user[s] \/ s \in switched
        BY <3>3 DEF RegistrySound
      <4> QED
        BY <2>1, <3>3, <4>1, <4>2
    <3> QED
      BY <2>1, <3>1, <3>2, <3>3
  <2>5. \A p \in reg' : conn'[p[3]] = p[1] \/ p[3] \in switched'
    BY <2>4
  <2> QED
    BY <2>3, <2>4, <2>5 DEF RegistryAgrees, RegistrySound
<1>2. ASSUME NEW s \in Sockets, Disconnect(s)
      PROVE  RegistryAgrees' /\ RegistrySound'
  <2>1. /\ conn' = [conn EXCEPT ![s] = Gone] /\ user' = user /\ switched' = switched
        /\ conn \in [Sockets -> Services \union {Gone}]
        /\ reg' = reg \ {<<conn[s], user[s], s>>} /\ reg \subseteq Services \X Users \X Sockets
    BY <1>2 DEF Disconnect, faultVars, TypeOK
  <2>2. conn'[s] = Gone /\ Gone \notin Services /\ \A x \in Sockets \ {s} : conn'[x] = conn[x]
    BY <2>1, GatewayAssumption
  <2>3. ASSUME NEW x \in Sockets, Present(x)', user'[x] # Nobody
        PROVE  <<conn'[x], user'[x], x>> \in reg'
    <3>1. x # s /\ conn'[x] = conn[x]
      BY <2>2, <2>3 DEF Present
    <3> QED
      BY <2>1, <2>3, <3>1 DEF RegistryAgrees, Present
  <2>4. ASSUME NEW p \in reg'
        PROVE  p = <<conn'[p[3]], user'[p[3]], p[3]>> \/ p[3] \in switched'
    <3>1. CASE p[3] = s
      BY <2>1, <3>1 DEF RegistrySound
    <3>2. CASE p[3] # s
      BY <2>1, <2>2, <3>2 DEF RegistrySound
    <3> QED
      BY <3>1, <3>2
  <2>5. \A p \in reg' : conn'[p[3]] = p[1] \/ p[3] \in switched'
    BY <2>4
  <2> QED
    BY <2>3, <2>4, <2>5 DEF RegistryAgrees, RegistrySound
<1>3. ASSUME NEW v \in Services, Restart(v)
      PROVE  RegistryAgrees' /\ RegistrySound'
  <2>1. /\ conn' = [x \in Sockets |-> IF conn[x] = v THEN Gone ELSE conn[x]]
        /\ user' = user /\ switched' = switched
        /\ reg' = {p \in reg : p[1] # v} /\ reg \subseteq Services \X Users \X Sockets
    BY <1>3 DEF Restart, TypeOK
  <2>2. ASSUME NEW x \in Sockets, Present(x)', user'[x] # Nobody
        PROVE  <<conn'[x], user'[x], x>> \in reg'
    <3>1. conn'[x] = conn[x] /\ conn[x] # v
      BY <2>1, <2>2, GatewayAssumption DEF Present
    <3> QED
      BY <2>1, <2>2, <3>1 DEF RegistryAgrees, Present
  <2>3. ASSUME NEW p \in reg'
        PROVE  p = <<conn'[p[3]], user'[p[3]], p[3]>> \/ p[3] \in switched'
    <3>1. p \in reg /\ p[1] # v /\ p[3] \in Sockets
      BY <2>1
    <3>2. CASE p = <<conn[p[3]], user[p[3]], p[3]>>
      <4>1. conn'[p[3]] = conn[p[3]]
        BY <2>1, <3>1, <3>2
      <4> QED
        BY <2>1, <3>2, <4>1
    <3> QED
      BY <2>1, <3>1, <3>2 DEF RegistrySound
  <2>4. \A p \in reg' : conn'[p[3]] = p[1] \/ p[3] \in switched'
    BY <2>3
  <2> QED
    BY <2>2, <2>3, <2>4 DEF RegistryAgrees, RegistrySound
<1>4. ASSUME UNCHANGED <<conn, user, reg, switched>>
      PROVE  RegistryAgrees' /\ RegistrySound'
  BY <1>4 DEF RegistryAgrees, RegistrySound, Present
<1>5. ASSUME NEW v \in Services,
             \/ SaveStatus(v) \/ \E n \in 1..MaxTraffic : EmitDeliveryStatusUpdate(v, n)
             \/ EmitToRider(v) \/ EmitSystemChatMessage(v) \/ Receive(v) \/ Lose(v)
      PROVE  UNCHANGED <<conn, user, reg, switched>>
  BY <1>5 DEF SaveStatus, EmitDeliveryStatusUpdate, EmitToRider, EmitSystemChatMessage, Store,
              Receive, Lose, socketVars, faultVars
<1>6. ASSUME NEW m, EmitMessage(m)
      PROVE  UNCHANGED <<conn, user, reg, switched>>
  BY <1>6 DEF EmitMessage, socketVars, faultVars
<1>7. ASSUME NEW s \in Sockets, Tracks(s) \/ Chats(s)
      PROVE  UNCHANGED <<conn, user, reg, switched>>
  BY <1>7, TracksFrame, ChatsFrame DEF faultVars
<1> QED
  BY <1>1, <1>2, <1>3, <1>4, <1>5, <1>6, <1>7 DEF Next

-----------------------------------------------------------------------------
(* Events for the rider. *)

LEMMA DueTyped ==
    ASSUME TypeOK, NEW p \in due
    PROVE  p[2] \in Sockets /\ p[1] \in Nat /\ p = <<p[1], p[2]>>
<1>1. due \subseteq (1..MaxTraffic) \X Sockets
  BY DEF TypeOK
<1> QED
  BY <1>1

LEMMA EventKept ==
    ASSUME TypeOK, EventInv, UNCHANGED <<channel, eventVars, faults>>,
           \A s \in Sockets : Present(s)' => conn'[s] = conn[s],
           \A s \in Sockets : Present(s)' /\ <<conn[s], "rider", s>> \in reg
                              => <<conn[s], "rider", s>> \in reg'
    PROVE  EventInv'
<1>1. UNCHANGED <<channel, events, due, reached, faults>>
  BY DEF eventVars
<1>2. ASSUME NEW p \in due
      PROVE  EventSound(p)'
  <2>1. p[2] \in Sockets /\ EventSound(p)
    BY <1>2, DueTyped DEF EventInv
  <2>2. Present(p[2])' => Present(p[2]) /\ conn'[p[2]] = conn[p[2]]
    BY <2>1 DEF Present
  <2>3. Present(p[2])' => OnTheWay(conn[p[2]], "rider")' = OnTheWay(conn[p[2]], "rider")'
    OBVIOUS
  <2>4. \A v \in Services : OnTheWay(v, "rider")' = OnTheWay(v, "rider")
    BY <1>1 DEF OnTheWay
  <2> QED
    BY <1>1, <2>1, <2>2, <2>4 DEF EventSound, Present, OnTheWay
<1>3. ASSUME NEW v \in Services, NEW i \in DOMAIN channel[v]
      PROVE  EventSent(v, channel[v][i])'
  <2>1. EventSent(v, channel[v][i])
    BY <1>3 DEF EventInv
  <2>2. \A p \in due : conn'[p[2]] = v => conn[p[2]] = v
    BY <1>3, DueTyped DEF Present
  <2> QED
    BY <1>1, <2>1, <2>2 DEF EventSent
<1> QED
  BY <1>1, <1>2, <1>3 DEF EventInv

(* A message for those who watch the delivery is published. *)
LEMMA EventWithUpdate ==
    ASSUME TypeOK, EventInv, NEW m \in Messages, m.for = "track", Publish(m),
           UNCHANGED <<conn, reg, eventVars, faults>>
    PROVE  EventInv'
<1>1. UNCHANGED <<conn, reg, events, due, reached, faults>>
  BY DEF eventVars
<1>2. ASSUME NEW p \in due
      PROVE  EventSound(p)'
  <2>1. EventSound(p) /\ (Present(p[2]) => conn[p[2]] \in Services)
    BY <1>2 DEF EventInv, Present
  <2>2. \A v \in Services : OnTheWay(v, "rider") \subseteq OnTheWay(v, "rider")'
    BY Published
  <2>3. p[1] \in OnTheWay(conn[p[2]], "rider") /\ Present(p[2]) =>
            p[1] \in OnTheWay(conn[p[2]], "rider")'
    BY <1>1, <2>1, <2>2
  <2> QED
    BY <1>1, <2>1, <2>3 DEF EventSound, Present
<1>3. ASSUME NEW v \in Services, NEW i \in DOMAIN channel'[v]
      PROVE  EventSent(v, channel[v][i])'
  <2>1. CASE i \in DOMAIN channel[v] /\ channel'[v][i] = channel[v][i]
    BY <1>1, <2>1 DEF EventInv, EventSent
  <2>2. CASE channel'[v][i] = m
    BY <2>2 DEF EventSent
  <2> QED
    BY <1>3, <2>1, <2>2, Published
<1> QED
  BY <1>1, <1>2, <1>3 DEF EventInv

LEMMA EmitToRiderEvents ==
    ASSUME TypeOK, RegistryAgrees, EventInv, NEW v \in Services, EmitToRider(v)
    PROVE  EventInv'
<1> DEFINE m == [for |-> "rider", n |-> events + 1, from |-> v]
<1>1. events + 1 \in 1..MaxTraffic /\ events \in Nat
  <2>1. events + 1 \in 1..MaxTraffic
    BY Room DEF EmitToRider
  <2>2. events \in Nat
    BY DEF TypeOK
  <2> QED
    BY <2>1, <2>2
<1>2. m \in Messages /\ Publish(m)
  <2>1. m \in Messages
    BY <1>1 DEF Messages
  <2>2. Publish(m)
    BY DEF EmitToRider
  <2> QED
    BY <2>1, <2>2
<1>3. m.n = events + 1 /\ m.for = "rider" /\ m.from = v
  OBVIOUS
<1> HIDE DEF m
<1>4. /\ UNCHANGED <<conn, user, reg, faults>> /\ events' = events + 1
      /\ reached' = reached \union ({events + 1} \X Registered(v, "rider"))
      /\ due' = due \union ({events + 1} \X {s \in Sockets : Present(s) /\ user[s] = "rider"})
  BY DEF EmitToRider, socketVars, faultVars
<1>5. ASSUME NEW s \in Sockets, Present(s), user[s] = "rider"
      PROVE  /\ <<conn[s], "rider", s>> \in reg
             /\ conn[s] = v => <<events + 1, s>> \in reached'
  <2>1. user[s] # Nobody
    BY <1>5, GatewayAssumption DEF Users, Participants
  <2>2. <<conn[s], "rider", s>> \in reg
    BY <1>5, <2>1 DEF RegistryAgrees
  <2>3. conn[s] = v => s \in Registered(v, "rider")
    BY <2>2 DEF Registered, On
  <2> QED
    BY <1>4, <2>2, <2>3
<1>6. ASSUME NEW p \in due'
      PROVE  \/ p \in due /\ p[1] # events + 1
             \/ /\ p[1] = events + 1 /\ p = <<events + 1, p[2]>>
                /\ p[2] \in Sockets /\ Present(p[2]) /\ user[p[2]] = "rider"
  <2>1. CASE p \in due
    <3>1. p[1] <= events /\ p[1] \in Nat
      BY <2>1, DueTyped DEF EventInv, EventSound
    <3> QED
      BY <1>1, <2>1, <3>1
  <2>2. CASE p \notin due
    BY <1>4, <2>2
  <2> QED
    BY <2>1, <2>2
<1>7. ASSUME NEW p \in due'
      PROVE  EventSound(p)'
  <2>1. CASE p \in due
    <3>1. EventSound(p) /\ p[1] \in Nat
      BY <2>1, DueTyped DEF EventInv
    <3>2. Present(p[2]) => OnTheWay(conn[p[2]], "rider") \subseteq OnTheWay(conn[p[2]], "rider")'
      BY <1>2, <1>4, Published DEF Present
    <3>3. p[1] <= events'
      BY <1>1, <1>4, <3>1 DEF EventSound
    <3> QED
      BY <1>4, <3>1, <3>2, <3>3 DEF EventSound, Present
  <2>2. CASE p \notin due
    <3>1. /\ p[1] = events + 1 /\ p = <<events + 1, p[2]>>
          /\ p[2] \in Sockets /\ Present(p[2]) /\ user[p[2]] = "rider"
      BY <1>6, <2>2
    <3>2. conn[p[2]] \in Services /\ events + 1 \in OnTheWay(conn[p[2]], "rider")'
      BY <1>2, <1>3, <1>4, <3>1, Published DEF Present
    <3> QED
      BY <1>1, <1>4, <1>5, <3>1, <3>2 DEF EventSound, Present
  <2> QED
    BY <2>1, <2>2
<1>8. ASSUME NEW w \in Services, NEW i \in DOMAIN channel'[w]
      PROVE  EventSent(w, channel[w][i])'
  <2>1. CASE i \in DOMAIN channel[w] /\ channel'[w][i] = channel[w][i]
    <3>1. PICK x \in Messages : x = channel[w][i]
      BY <2>1 DEF TypeOK
    <3>2. EventSent(w, x) /\ x.n \in Nat
      BY <2>1, <3>1 DEF EventInv, Messages
    <3>3. ASSUME x.for = "rider"
          PROVE  x.n <= events' /\ x.n # events + 1
      BY <1>1, <1>4, <3>2, <3>3 DEF EventSent
    <3>4. ASSUME x.for = "rider", x.from = w, NEW p \in due', p[1] = x.n, conn'[p[2]] = w
          PROVE  p \in reached'
      BY <1>4, <1>6, <3>2, <3>3, <3>4 DEF EventSent
    <3> QED
      BY <2>1, <3>1, <3>3, <3>4 DEF EventSent
  <2>2. CASE channel'[w][i] = m
    <3>1. ASSUME v = w, NEW p \in due', p[1] = events + 1, conn'[p[2]] = w
          PROVE  p \in reached'
      <4>1. /\ p = <<events + 1, p[2]>> /\ p[2] \in Sockets
            /\ Present(p[2]) /\ user[p[2]] = "rider"
        BY <1>6, <3>1
      <4>2. conn[p[2]] = v
        BY <1>4, <3>1
      <4>3. <<events + 1, p[2]>> \in reached'
        BY <1>5, <4>1, <4>2
      <4> QED
        BY <4>1, <4>3
    <3> QED
      BY <1>1, <1>3, <1>4, <2>2, <3>1 DEF EventSent
  <2> QED
    BY <1>2, <1>8, <2>1, <2>2, Published
<1> QED
  BY <1>7, <1>8 DEF EventInv

(* What is taken from the queue of v is ignored, and was known there, or   *)
(* gets to those who are registered there.                                 *)
LEMMA ReceiveEvents ==
    ASSUME TypeOK, EventInv, NEW v \in Services, Receive(v)
    PROVE  EventInv'
<1> DEFINE m == Head(channel[v])
<1>1. Taken(v) /\ UNCHANGED <<conn, reg, events, due, faults>> /\ reached \subseteq reached'
  BY DEF Receive, Taken, socketVars, faultVars
<1>2. PICK h \in Messages : h = Head(channel[v]) /\ h = channel[v][1] /\ 1 \in DOMAIN channel[v]
  BY <1>1, Received
<1>3. h.from # v /\ h.for = "rider" =>
        reached' = reached \union ({h.n} \X Registered(v, "rider"))
  BY <1>2 DEF Receive
<1>4. EventSent(v, h)
  BY <1>2 DEF EventInv
<1>5. ASSUME NEW p \in due
      PROVE  EventSound(p)'
  <2>1. EventSound(p) /\ p[2] \in Sockets /\ p = <<p[1], p[2]>>
    BY DueTyped DEF EventInv
  <2>2. ASSUME Present(p[2]), p[1] \in OnTheWay(conn[p[2]], "rider"), p \notin reached
        PROVE  p \in reached' \/ p[1] \in OnTheWay(conn[p[2]], "rider")'
    <3>1. CASE conn[p[2]] # v
      <4>1. conn[p[2]] \in Services \ {v} /\ conn'[p[2]] = conn[p[2]]
        BY <1>1, <2>2, <3>1 DEF Present
      <4>2. channel'[conn[p[2]]] = channel[conn[p[2]]]
        BY <1>1, <4>1, Received
      <4> QED
        BY <1>1, <2>2, <4>1, <4>2 DEF OnTheWay
    <3>2. CASE conn[p[2]] = v
      <4>1. CASE p[1] \in OnTheWay(v, "rider")'
        BY <1>1, <3>2, <4>1
      <4>2. CASE p[1] \notin OnTheWay(v, "rider")'
        <5>1. h.for = "rider" /\ h.n = p[1]
          BY <1>1, <1>2, <2>2, <3>2, <4>2, Received
        <5>2. h.from # v
          BY <1>4, <2>2, <3>2, <5>1 DEF EventSent
        <5>3. p[2] \in Registered(v, "rider")
          BY <2>1, <2>2, <3>2 DEF EventSound, Registered, On
        <5> QED
          BY <1>3, <2>1, <5>1, <5>2, <5>3
      <4> QED
        BY <4>1, <4>2
    <3> QED
      BY <3>1, <3>2
  <2> QED
    BY <1>1, <2>1, <2>2 DEF EventSound, Present
<1>6. ASSUME NEW w \in Services, NEW i \in DOMAIN channel'[w]
      PROVE  EventSent(w, channel[w][i])'
  <2>1. \E j \in DOMAIN channel[w] : channel'[w][i] = channel[w][j]
    BY <1>1, <1>6, Received
  <2> QED
    BY <1>1, <2>1 DEF EventInv, EventSent
<1> QED
  BY <1>1, <1>5, <1>6 DEF EventInv

LEMMA LoseEvents ==
    ASSUME TypeOK, EventInv, NEW v \in Services, Lose(v)
    PROVE  EventInv'
<1>1. /\ Taken(v) /\ UNCHANGED <<conn, reg, events, due, reached>>
      /\ faults' = faults + 1 /\ faults \in Nat
  BY DEF Lose, Taken, socketVars, eventVars, TypeOK
<1>2. \A p \in due : EventSound(p)'
  BY <1>1 DEF EventInv, EventSound, Present
<1>3. ASSUME NEW w \in Services, NEW i \in DOMAIN channel'[w]
      PROVE  EventSent(w, channel[w][i])'
  <2>1. \E j \in DOMAIN channel[w] : channel'[w][i] = channel[w][j]
    BY <1>1, <1>3, Received
  <2> QED
    BY <1>1, <2>1 DEF EventInv, EventSent
<1> QED
  BY <1>1, <1>2, <1>3 DEF EventInv

LEMMA RestartEvents ==
    ASSUME TypeOK, EventInv, NEW v \in Services, Restart(v)
    PROVE  EventInv'
<1>1. /\ UNCHANGED <<events, due, reached>>
      /\ faults' = faults + 1 /\ faults \in Nat
      /\ conn' = [s \in Sockets |-> IF conn[s] = v THEN Gone ELSE conn[s]]
      /\ reg' = {p \in reg : p[1] # v}
      /\ channel' = [channel EXCEPT ![v] = <<>>] /\ channel \in [Services -> Seq(Messages)]
  BY DEF Restart, eventVars, TypeOK
<1>2. ASSUME NEW p \in due
      PROVE  EventSound(p)'
  <2>1. EventSound(p) /\ p[2] \in Sockets
    BY DueTyped DEF EventInv
  <2>2. Present(p[2])' => Present(p[2]) /\ conn'[p[2]] = conn[p[2]] /\ conn[p[2]] # v
    BY <1>1, <2>1, GatewayAssumption DEF Present
  <2>3. Present(p[2])' => <<conn[p[2]], "rider", p[2]>> \in reg'
    <3>1. ASSUME Present(p[2])' PROVE <<conn[p[2]], "rider", p[2]>> \in reg
      BY <2>1, <2>2, <3>1 DEF EventSound
    <3> QED
      BY <1>1, <2>2, <3>1
  <2>4. faults' > 0
    BY <1>1
  <2> QED
    BY <1>1, <2>1, <2>2, <2>3, <2>4 DEF EventSound
<1>3. ASSUME NEW w \in Services, NEW i \in DOMAIN channel'[w]
      PROVE  EventSent(w, channel[w][i])'
  <2>1. w # v /\ channel'[w] = channel[w] /\ EventSent(w, channel[w][i])
    BY <1>1, <1>3 DEF EventInv
  <2>2. \A p \in due : conn'[p[2]] = w => conn[p[2]] = w
    BY <1>1, DueTyped, GatewayAssumption
  <2> QED
    BY <1>1, <2>1, <2>2 DEF EventSent
<1> QED
  BY <1>1, <1>2, <1>3 DEF EventInv

LEMMA EventStep ==
    ASSUME TypeOK, RegistryAgrees, EventInv, Next
    PROVE  EventInv'
<1>1. ASSUME NEW s \in Sockets, NEW u \in Users, Authenticate(s, u)
      PROVE  EventInv'
  BY <1>1, EventKept DEF Authenticate
<1>2. ASSUME NEW s \in Sockets, Disconnect(s)
      PROVE  EventInv'
  <2>1. /\ conn' = [conn EXCEPT ![s] = Gone] /\ conn \in [Sockets -> Services \union {Gone}]
        /\ reg' = reg \ {<<conn[s], user[s], s>>} /\ UNCHANGED <<channel, eventVars, faults>>
    BY <1>2 DEF Disconnect, faultVars, TypeOK
  <2>2. ASSUME NEW x \in Sockets, Present(x)'
        PROVE  x # s /\ conn'[x] = conn[x]
    BY <2>1, <2>2, GatewayAssumption DEF Present
  <2>3. ASSUME NEW x \in Sockets, Present(x)', <<conn[x], "rider", x>> \in reg
        PROVE  <<conn[x], "rider", x>> \in reg'
    BY <2>1, <2>2, <2>3
  <2> QED
    BY <2>1, <2>2, <2>3, EventKept
<1>3. ASSUME UNCHANGED <<conn, reg, channel, eventVars, faults>>
      PROVE  EventInv'
  BY <1>3, EventKept
<1>4. ASSUME NEW v \in Services, NEW n \in 1..MaxTraffic, EmitDeliveryStatusUpdate(v, n)
      PROVE  EventInv'
  <2>1. PICK m \in Messages : m = [for |-> "track", n |-> n, from |-> v]
    BY DEF Messages
  <2> QED
    BY <1>4, <2>1, EventWithUpdate DEF EmitDeliveryStatusUpdate, socketVars, faultVars
<1>5. ASSUME NEW v \in Services, EmitToRider(v) \/ Receive(v) \/ Lose(v) \/ Restart(v)
      PROVE  EventInv'
  BY <1>5, EmitToRiderEvents, ReceiveEvents, LoseEvents, RestartEvents
<1>6. ASSUME NEW v \in Services, SaveStatus(v) \/ EmitSystemChatMessage(v)
      PROVE  UNCHANGED <<conn, reg, channel, eventVars, faults>>
  BY <1>6 DEF SaveStatus, EmitSystemChatMessage, Store, socketVars, faultVars
<1>7. ASSUME NEW m, EmitMessage(m)
      PROVE  UNCHANGED <<conn, reg, channel, eventVars, faults>>
  BY <1>7 DEF EmitMessage, socketVars, faultVars
<1>8. ASSUME NEW s \in Sockets, Tracks(s) \/ Chats(s)
      PROVE  UNCHANGED <<conn, reg, channel, eventVars, faults>>
  BY <1>8, TracksFrame, ChatsFrame DEF faultVars
<1> QED
  BY <1>1, <1>2, <1>3, <1>4, <1>5, <1>6, <1>7, <1>8 DEF Next

-----------------------------------------------------------------------------
(* Updates. *)

Tracked(s) == Present(s) /\ <<"track", s>> \in rooms

Arrives(s, n) ==
    \/ pushed[s][n] > 0 \/ faults > 0
    \/ \E v \in Services : <<v, n>> \in unsent
    \/ n \in OnTheWay(conn[s], "track")

UnsentSound ==
    \A p \in unsent : /\ p[2] <= status /\ origin[p[2]] = p[1]
                      /\ \A s \in Sockets : pushed[s][p[2]] = 0
QueuesSound ==
    \A v \in Services : OnceOnly(v) /\ \A i \in DOMAIN channel[v] : UpdateSent(v, channel[v][i])
PushedOnce ==
    \A s \in Sockets, n \in 1..MaxTraffic : pushed[s][n] <= 1 /\ (pushed[s][n] > 0 => n <= status)
AllArrive ==
    \A s \in Sockets : Tracked(s) => \A n \in (entered[s] + 1)..status : Arrives(s, n)

LEMMA UpdateParts ==
    /\ UpdateInv <=> UnsentSound /\ QueuesSound /\ PushedOnce /\ AllArrive
    /\ UpdateInv' <=> UnsentSound' /\ QueuesSound' /\ PushedOnce' /\ AllArrive'
  BY DEF UpdateInv, UnsentSound, QueuesSound, PushedOnce, AllArrive, UpdatesArriveOnce, Tracked, Arrives

LEMMA UnsentTyped ==
    ASSUME TypeOK, NEW p \in unsent
    PROVE  p[1] \in Services /\ p[2] \in 1..MaxTraffic /\ p = <<p[1], p[2]>>
<1>1. unsent \subseteq Services \X (1..MaxTraffic)
  BY DEF TypeOK
<1> QED
  BY <1>1

LEMMA PushedTyped ==
    ASSUME TypeOK, NEW s \in Sockets
    PROVE  \A n \in 1..MaxTraffic : pushed[s][n] \in Nat
<1>1. pushed[s] \in [1..MaxTraffic -> Nat]
  BY DEF TypeOK
<1> QED
  BY <1>1

(* Sockets come and go in the rooms; who enters has seen all that is saved. *)
LEMMA UpdateKept ==
    ASSUME TypeOK, UpdateInv, UNCHANGED <<statusVars, pushed, channel, faults>>,
           \A s \in Sockets : Present(s)' => conn'[s] = conn[s],
           \A s \in Sockets : <<"track", s>> \in rooms' =>
               \/ entered'[s] = status
               \/ <<"track", s>> \in rooms /\ entered'[s] = entered[s]
    PROVE  UpdateInv'
<1>1. UNCHANGED <<status, unsent, origin, pushed, channel, faults>>
  BY DEF statusVars
<1>2. UnsentSound' /\ PushedOnce' /\ \A v \in Services : OnceOnly(v)'
  BY <1>1, UpdateParts DEF UnsentSound, PushedOnce, QueuesSound, OnceOnly
<1>3. ASSUME NEW v \in Services, NEW i \in DOMAIN channel[v]
      PROVE  UpdateSent(v, channel[v][i])'
  <2>1. UpdateSent(v, channel[v][i])
    BY <1>3, UpdateParts DEF QueuesSound
  <2>2. \A s \in On(v)' : s \in On(v)
    BY <1>3 DEF On, Present
  <2>3. \A s \in InRoom("track", v)' : entered'[s] = status \/ (s \in InRoom("track", v) /\ entered'[s] = entered[s])
    BY <2>2 DEF InRoom, On
  <2> QED
    BY <1>1, <2>1, <2>2, <2>3 DEF UpdateSent
<1>4. ASSUME NEW s \in Sockets, Tracked(s)', NEW n \in (entered'[s] + 1)..status
      PROVE  Arrives(s, n)'
  <2>1. conn'[s] = conn[s] /\ Present(s)
    BY <1>4 DEF Tracked, Present
  <2>2. entered'[s] # status
    <3>1. status \in Nat
      BY DEF TypeOK
    <3> QED
      BY <1>4, <3>1
  <2>3. Tracked(s) /\ entered'[s] = entered[s]
    BY <1>4, <2>1, <2>2 DEF Tracked
  <2>4. Arrives(s, n)
    BY <1>4, <2>3, UpdateParts DEF AllArrive
  <2> QED
    BY <1>1, <2>1, <2>4 DEF Arrives, OnTheWay
<1> QED
  BY <1>1, <1>2, <1>3, <1>4, UpdateParts DEF QueuesSound, AllArrive

LEMMA SaveStatusUpdates ==
    ASSUME TypeOK, UpdateInv, NEW v \in Services, SaveStatus(v)
    PROVE  UpdateInv'
<1>1. /\ status' = status + 1 /\ status \in Nat /\ status + 1 \in 1..MaxTraffic
      /\ unsent' = unsent \union {<<v, status + 1>>}
      /\ UNCHANGED <<conn, rooms, pushed, entered, faults, channel>>
  <2>1. status + 1 \in 1..MaxTraffic
    BY Room DEF SaveStatus
  <2>2. status \in Nat
    BY DEF TypeOK
  <2> QED
    BY <2>1, <2>2 DEF SaveStatus, socketVars, viewVars, faultVars
<1>2. /\ \A n \in 1..status : origin'[n] = origin[n]
      /\ origin'[status + 1] = v
  BY SaveStatusTyped
<1>3. UnsentSound'
  <2>1. ASSUME NEW p \in unsent
        PROVE  p[2] <= status' /\ origin'[p[2]] = p[1] /\ \A s \in Sockets : pushed'[s][p[2]] = 0
    <3>1. p[2] \in 1..status /\ origin[p[2]] = p[1] /\ \A s \in Sockets : pushed[s][p[2]] = 0
      BY UnsentTyped, UpdateParts DEF UnsentSound
    <3> QED
      BY <1>1, <1>2, <3>1
  <2>2. \A s \in Sockets : pushed[s][status + 1] = 0
    BY <1>1, PushedTyped, UpdateParts DEF PushedOnce
  <2> QED
    BY <1>1, <1>2, <2>1, <2>2 DEF UnsentSound
<1>4. PushedOnce'
  BY <1>1, UpdateParts DEF PushedOnce
<1>5. ASSUME NEW w \in Services, NEW i \in DOMAIN channel[w]
      PROVE  UpdateSent(w, channel[w][i])'
  <2>1. PICK x \in Messages : x = channel[w][i]
    BY <1>5 DEF TypeOK
  <2>2. UpdateSent(w, x) /\ x.n \in 1..MaxTraffic
    BY <1>5, <2>1, UpdateParts DEF QueuesSound, Messages
  <2>3. UpdateSent(w, x)'
    BY <1>1, <1>2, <2>2 DEF UpdateSent, On, InRoom
  <2> QED
    BY <1>1, <2>1, <2>3
<1>6. \A w \in Services : OnceOnly(w)'
  BY <1>1, UpdateParts DEF QueuesSound, OnceOnly
<1>7. ASSUME NEW s \in Sockets, Tracked(s), NEW n \in (entered[s] + 1)..status'
      PROVE  Arrives(s, n)'
  <2>1. CASE n = status + 1
    BY <1>1, <2>1 DEF Arrives
  <2>2. CASE n # status + 1
    <3>1. n \in (entered[s] + 1)..status
      BY <1>1, <1>7, <2>2 DEF TypeOK
    <3>2. Arrives(s, n)
      BY <1>7, <3>1, UpdateParts DEF AllArrive
    <3> QED
      BY <1>1, <3>2 DEF Arrives, OnTheWay
  <2> QED
    BY <2>1, <2>2
<1> QED
  BY <1>1, <1>3, <1>4, <1>5, <1>6, <1>7, UpdateParts DEF QueuesSound, AllArrive, Tracked, Present

(* Update n is pushed to those here and is on its way to the others.       *)
LEMMA EmitStatusUpdates ==
    ASSUME TypeOK, UpdateInv, NEW v \in Services, NEW n \in 1..MaxTraffic,
           EmitDeliveryStatusUpdate(v, n)
    PROVE  UpdateInv'
<1> DEFINE S == InRoom("track", v) \union InRoom("live", v)
<1>1. /\ <<v, n>> \in unsent /\ unsent' = unsent \ {<<v, n>>}
      /\ UNCHANGED <<status, origin, conn, rooms, entered, faults>>
      /\ Push(S, n)
  BY DEF EmitDeliveryStatusUpdate, socketVars, faultVars
<1>2. PICK m \in Messages : m = [for |-> "track", n |-> n, from |-> v]
  BY DEF Messages
<1>3. Publish(m) /\ m.for = "track" /\ m.n = n /\ m.from = v
  BY <1>2 DEF EmitDeliveryStatusUpdate
<1>4. n <= status /\ origin[n] = v /\ \A s \in Sockets : pushed[s][n] = 0
  BY <1>1, UpdateParts DEF UnsentSound
<1>5. \A s \in Sockets, k \in 1..MaxTraffic :
         pushed'[s][k] = IF s \in S /\ k = n THEN pushed[s][k] + 1 ELSE pushed[s][k]
  BY <1>1, PushTyped
<1>6. \A s \in Sockets \ On(v) : s \notin S
  BY DEF InRoom
<1>7. \A s \in InRoom("track", v) : s \in S
  OBVIOUS
<1> HIDE DEF S
<1>8. \A s \in Sockets : /\ \A k \in (1..MaxTraffic) \ {n} : pushed'[s][k] = pushed[s][k]
                         /\ pushed'[s][n] = IF s \in S THEN 1 ELSE 0
  BY <1>4, <1>5
<1>9. UnsentSound'
  <2>1. ASSUME NEW p \in unsent'
        PROVE  /\ p[2] <= status /\ origin[p[2]] = p[1]
               /\ \A s \in Sockets : pushed'[s][p[2]] = 0
    <3>1. p \in unsent /\ p # <<v, n>>
      BY <1>1
    <3>2. p[2] \in (1..MaxTraffic) \ {n} /\ p[2] <= status /\ origin[p[2]] = p[1]
          /\ \A s \in Sockets : pushed[s][p[2]] = 0
      BY <1>4, <3>1, UnsentTyped, UpdateParts DEF UnsentSound
    <3> QED
      BY <1>8, <3>2
  <2> QED
    BY <1>1, <2>1 DEF UnsentSound
<1>10. PushedOnce'
  <2>1. ASSUME NEW s \in Sockets, NEW k \in 1..MaxTraffic
        PROVE  pushed'[s][k] <= 1 /\ (pushed'[s][k] > 0 => k <= status)
    BY <1>4, <1>8, UpdateParts DEF PushedOnce
  <2> QED
    BY <1>1, <2>1 DEF PushedOnce
<1>11. ASSUME NEW w \in Services, NEW i \in DOMAIN channel[w]
       PROVE  UpdateSent(w, channel[w][i]) /\ (channel[w][i].for = "track" => channel[w][i].n # n)
  <2>1. UpdateSent(w, channel[w][i])
    BY <1>11, UpdateParts DEF QueuesSound
  <2> QED
    BY <1>1, <1>4, <2>1 DEF UpdateSent
<1>12. ASSUME NEW w \in Services, NEW x \in Messages, UpdateSent(w, x), x.n # n
       PROVE  UpdateSent(w, x)'
  <2>1. x.n \in (1..MaxTraffic) \ {n}
    BY <1>12 DEF Messages
  <2>2. \A s \in Sockets : pushed'[s][x.n] = pushed[s][x.n]
    BY <1>8, <2>1
  <2> QED
    BY <1>1, <1>12, <2>2 DEF UpdateSent, On, InRoom
<1>13. ASSUME NEW w \in Services
       PROVE  UpdateSent(w, m)'
  <2>1. w # v => \A s \in On(w) : pushed'[s][n] = 0
    BY <1>6, <1>8 DEF On
  <2>2. w = v => \A s \in InRoom("track", w) : pushed'[s][n] > 0
    BY <1>7, <1>8 DEF InRoom, On
  <2> QED
    BY <1>1, <1>3, <1>4, <2>1, <2>2 DEF UpdateSent, On, InRoom
<1>14. ASSUME NEW w \in Services, NEW i \in DOMAIN channel'[w]
       PROVE  UpdateSent(w, channel[w][i])'
  <2>1. CASE i \in DOMAIN channel[w] /\ channel'[w][i] = channel[w][i]
    <3>1. PICK x \in Messages : x = channel[w][i]
      BY <2>1 DEF TypeOK
    <3>2. CASE x.for = "track"
      BY <1>11, <1>12, <2>1, <3>1, <3>2
    <3>3. CASE x.for # "track"
      BY <2>1, <3>1, <3>3 DEF UpdateSent
    <3> QED
      BY <3>2, <3>3
  <2>2. CASE channel'[w][i] = m
    BY <1>13, <2>2
  <2> QED
    BY <1>3, <1>14, <2>1, <2>2, Published
<1>15. ASSUME NEW w \in Services
       PROVE  OnceOnly(w)'
  <2>1. ASSUME NEW i \in DOMAIN channel'[w], NEW j \in DOMAIN channel'[w],
               channel'[w][i].for = "track", channel'[w][j].for = "track",
               channel'[w][i].n = channel'[w][j].n
        PROVE  i = j
    <3>1. /\ \/ i \in DOMAIN channel[w] /\ channel'[w][i] = channel[w][i]
             \/ i = Len(channel[w]) + 1 /\ channel'[w][i] = m
          /\ \/ j \in DOMAIN channel[w] /\ channel'[w][j] = channel[w][j]
             \/ j = Len(channel[w]) + 1 /\ channel'[w][j] = m
      BY <1>3, <2>1, Published
    <3>2. OnceOnly(w)
      BY UpdateParts DEF QueuesSound
    <3> QED
      BY <1>3, <1>11, <2>1, <3>1, <3>2 DEF OnceOnly
  <2> QED
    BY <2>1 DEF OnceOnly
<1>16. ASSUME NEW s \in Sockets, Tracked(s), NEW k \in (entered[s] + 1)..status
       PROVE  Arrives(s, k)'
  <2>1. Arrives(s, k) /\ conn[s] \in Services /\ k \in 1..MaxTraffic
    <3>1. Arrives(s, k) /\ conn[s] \in Services
      BY <1>16, UpdateParts DEF AllArrive, Tracked, Present
    <3>2. entered[s] \in 0..MaxTraffic /\ status \in 0..MaxTraffic /\ MaxTraffic \in Nat
      BY GatewayAssumption DEF TypeOK
    <3> QED
      BY <1>16, <3>1, <3>2
  <2>2. CASE k = n
    <3>1. CASE conn[s] = v
      <4>1. s \in InRoom("track", v)
        BY <1>16, <3>1 DEF InRoom, On, Tracked
      <4> QED
        BY <1>7, <1>8, <2>2, <4>1 DEF Arrives
    <3>2. CASE conn[s] # v
      BY <1>1, <1>3, <2>1, <2>2, Published DEF Arrives
    <3> QED
      BY <3>1, <3>2
  <2>3. CASE k # n
    <3>1. pushed'[s][k] = pushed[s][k]
      BY <1>8, <2>1, <2>3
    <3>2. \A w \in Services : <<w, k>> \in unsent => <<w, k>> \in unsent'
      BY <1>1, <2>3
    <3>3. OnTheWay(conn[s], "track") \subseteq OnTheWay(conn[s], "track")'
      BY <1>1, <1>3, <2>1, Published
    <3> QED
      BY <1>1, <2>1, <3>1, <3>2, <3>3 DEF Arrives
  <2> QED
    BY <2>2, <2>3
<1> QED
  BY <1>1, <1>9, <1>10, <1>14, <1>15, <1>16, UpdateParts DEF QueuesSound, AllArrive, Tracked, Present

(* A message for the rider is published. *)
LEMMA EmitToRiderUpdates ==
    ASSUME TypeOK, UpdateInv, NEW v \in Services, EmitToRider(v)
    PROVE  UpdateInv'
<1>1. events + 1 \in 1..MaxTraffic
  BY Room DEF EmitToRider
<1>2. PICK m \in Messages : m = [for |-> "rider", n |-> events + 1, from |-> v]
  BY <1>1 DEF Messages
<1>3. Publish(m) /\ m.for = "rider"
  BY <1>2 DEF EmitToRider
<1>4. UNCHANGED <<conn, rooms, status, unsent, origin, pushed, entered, faults>>
  BY DEF EmitToRider, socketVars, statusVars, viewVars, faultVars
<1>5. UnsentSound' /\ PushedOnce'
  BY <1>4, UpdateParts DEF UnsentSound, PushedOnce
<1>6. ASSUME NEW w \in Services, NEW i \in DOMAIN channel'[w], channel'[w][i].for = "track"
      PROVE  i \in DOMAIN channel[w] /\ channel'[w][i] = channel[w][i]
  BY <1>3, <1>6, Published
<1>7. ASSUME NEW w \in Services, NEW i \in DOMAIN channel'[w]
      PROVE  UpdateSent(w, channel[w][i])'
  <2>1. CASE channel'[w][i].for = "track"
    <3>1. UpdateSent(w, channel[w][i])
      BY <1>6, <1>7, <2>1, UpdateParts DEF QueuesSound
    <3> QED
      BY <1>4, <1>6, <1>7, <2>1, <3>1 DEF UpdateSent, On, InRoom
  <2>2. CASE channel'[w][i].for # "track"
    BY <2>2 DEF UpdateSent
  <2> QED
    BY <2>1, <2>2
<1>8. \A w \in Services : OnceOnly(w)'
  BY <1>6, UpdateParts DEF QueuesSound, OnceOnly
<1>9. ASSUME NEW s \in Sockets, Tracked(s), NEW k \in (entered[s] + 1)..status
      PROVE  Arrives(s, k)'
  <2>1. Arrives(s, k) /\ conn[s] \in Services
    BY <1>9, UpdateParts DEF AllArrive, Tracked, Present
  <2>2. OnTheWay(conn[s], "track") \subseteq OnTheWay(conn[s], "track")'
    BY <1>3, <1>4, <2>1, Published
  <2> QED
    BY <1>4, <2>1, <2>2 DEF Arrives
<1> QED
  BY <1>4, <1>5, <1>7, <1>8, <1>9, UpdateParts DEF QueuesSound, AllArrive, Tracked, Present

(* Taking the first message leaves the others in their order.              *)
LEMMA TakenOnce ==
    ASSUME TypeOK, UpdateInv, NEW v \in Services, Taken(v)
    PROVE  /\ \A w \in Services : OnceOnly(w)'
           /\ \A w \in Services : \A i \in DOMAIN channel'[w] :
                \E j \in DOMAIN channel[w] :
                   /\ channel'[w][i] = channel[w][j]
                   /\ w = v => j # 1
<1>1. ASSUME NEW w \in Services \ {v}
      PROVE  channel'[w] = channel[w] /\ OnceOnly(w)
  BY Received, UpdateParts DEF QueuesSound
<1>2. \A i \in DOMAIN channel'[v] :
         i \in Nat /\ i + 1 \in DOMAIN channel[v] /\ channel'[v][i] = channel[v][i + 1]
  BY Received
<1>3. OnceOnly(v)'
  <2>1. ASSUME NEW i \in DOMAIN channel'[v], NEW j \in DOMAIN channel'[v],
               channel'[v][i].for = "track", channel'[v][j].for = "track",
               channel'[v][i].n = channel'[v][j].n
        PROVE  i = j
    <3>1. i \in Nat /\ j \in Nat /\ i + 1 \in DOMAIN channel[v] /\ j + 1 \in DOMAIN channel[v]
          /\ channel'[v][i] = channel[v][i + 1] /\ channel'[v][j] = channel[v][j + 1]
      BY <1>2
    <3>2. OnceOnly(v)
      BY UpdateParts DEF QueuesSound
    <3>3. i + 1 = j + 1
      BY <2>1, <3>1, <3>2 DEF OnceOnly
    <3> QED
      BY <3>1, <3>3
  <2> QED
    BY <2>1 DEF OnceOnly
<1>4. ASSUME NEW i \in DOMAIN channel'[v]
      PROVE  \E j \in DOMAIN channel[v] : channel'[v][i] = channel[v][j] /\ j # 1
  <2>1. i \in Nat /\ i # 0
    <3>1. channel'[v] \in Seq(Messages)
      BY Received
    <3> QED
      BY <1>4, <3>1
  <2>2. i + 1 # 1
    BY <2>1
  <2> QED
    BY <1>2, <2>2
<1> QED
  BY <1>1, <1>3, <1>4 DEF OnceOnly

LEMMA ReceiveUpdates ==
    ASSUME TypeOK, UpdateInv, NEW v \in Services, Receive(v)
    PROVE  UpdateInv'
<1>1. Taken(v) /\ UNCHANGED <<conn, rooms, status, unsent, origin, entered, faults>>
  BY DEF Receive, Taken, socketVars, statusVars, faultVars
<1>2. PICK h \in Messages : h = Head(channel[v]) /\ h = channel[v][1] /\ 1 \in DOMAIN channel[v]
  BY <1>1, Received
<1>3. h.n \in 1..MaxTraffic
  BY DEF Messages
<1>4. UpdateSent(v, h)
  BY <1>2, UpdateParts DEF QueuesSound
<1>5. \/ UNCHANGED pushed /\ ~(h.from # v /\ h.for = "track")
      \/ h.from # v /\ h.for = "track" /\ Push(InRoom("track", v), h.n)
  BY <1>2 DEF Receive
<1>6. ASSUME NEW s \in Sockets, NEW k \in 1..MaxTraffic
      PROVE  \/ pushed'[s][k] = pushed[s][k] /\
                ~(h.from # v /\ h.for = "track" /\ k = h.n /\ s \in InRoom("track", v))
             \/ /\ h.from # v /\ h.for = "track" /\ k = h.n /\ s \in InRoom("track", v)
                /\ pushed[s][k] = 0 /\ pushed'[s][k] = 1
  <2>1. CASE UNCHANGED pushed /\ ~(h.from # v /\ h.for = "track")
    BY <2>1
  <2>2. CASE h.from # v /\ h.for = "track" /\ Push(InRoom("track", v), h.n)
    <3>1. pushed'[s][k] = IF s \in InRoom("track", v) /\ k = h.n THEN pushed[s][k] + 1
                          ELSE pushed[s][k]
      BY <1>3, <2>2, PushTyped
    <3>2. s \in InRoom("track", v) => pushed[s][h.n] = 0
      BY <1>4, <2>2 DEF UpdateSent, InRoom
    <3> QED
      BY <2>2, <3>1, <3>2
  <2> QED
    BY <1>5, <2>1, <2>2
<1>7. UnsentSound'
  <2>1. ASSUME NEW p \in unsent, NEW s \in Sockets
        PROVE  pushed'[s][p[2]] = 0
    <3>1. p[2] \in 1..MaxTraffic /\ p = <<p[1], p[2]>> /\ origin[p[2]] = p[1] /\ pushed[s][p[2]] = 0
      BY UnsentTyped, UpdateParts DEF UnsentSound
    <3>2. h.for = "track" => p[2] # h.n
      BY <1>4, <3>1 DEF UpdateSent
    <3> QED
      BY <1>6, <3>1, <3>2
  <2> QED
    BY <1>1, <2>1, UpdateParts DEF UnsentSound
<1>8. PushedOnce'
  <2>1. ASSUME NEW s \in Sockets, NEW k \in 1..MaxTraffic
        PROVE  pushed'[s][k] <= 1 /\ (pushed'[s][k] > 0 => k <= status)
    <3>1. h.for = "track" => h.n <= status
      BY <1>4 DEF UpdateSent
    <3> QED
      BY <1>6, <3>1, UpdateParts DEF PushedOnce
  <2> QED
    BY <1>1, <2>1 DEF PushedOnce
<1>9. ASSUME NEW w \in Services, NEW i \in DOMAIN channel'[w]
      PROVE  UpdateSent(w, channel[w][i])'
  <2>1. PICK j \in DOMAIN channel[w] : channel'[w][i] = channel[w][j] /\ (w = v => j # 1)
    BY <1>1, <1>9, TakenOnce
  <2>2. PICK x \in Messages : x = channel[w][j]
    BY DEF TypeOK
  <2>3. UpdateSent(w, x) /\ x.n \in 1..MaxTraffic
    BY <2>2, UpdateParts DEF QueuesSound, Messages
  <2>4. CASE x.for # "track"
    BY <2>1, <2>2, <2>4 DEF UpdateSent
  <2>5. CASE x.for = "track"
    <3>1. ASSUME x.from # w, NEW s \in On(w)
          PROVE  pushed'[s][x.n] = 0
      <4>1. pushed[s][x.n] = 0 /\ s \in Sockets
        BY <2>3, <2>5, <3>1 DEF UpdateSent, On
      <4>2. ~(h.for = "track" /\ x.n = h.n /\ s \in InRoom("track", v))
        <5>1. CASE w = v
          <6>1. OnceOnly(v)
            BY UpdateParts DEF QueuesSound
          <6> QED
            BY <1>2, <2>1, <2>2, <2>5, <5>1, <6>1 DEF OnceOnly
        <5>2. CASE w # v
          BY <3>1, <5>2 DEF On, InRoom
        <5> QED
          BY <5>1, <5>2
      <4> QED
        BY <1>6, <2>3, <4>1, <4>2
    <3>2. \A s \in Sockets : pushed[s][x.n] > 0 => pushed'[s][x.n] > 0
      BY <1>6, <2>3
    <3>3. UpdateSent(w, x)'
      BY <1>1, <2>3, <3>1, <3>2 DEF UpdateSent, On, InRoom
    <3> QED
      BY <2>1, <2>2, <3>3
  <2> QED
    BY <2>4, <2>5
<1>10. ASSUME NEW s \in Sockets, Tracked(s), NEW k \in (entered[s] + 1)..status
       PROVE  Arrives(s, k)'
  <2>1. Arrives(s, k) /\ conn[s] \in Services
    BY <1>10, UpdateParts DEF AllArrive, Tracked, Present
  <2>2. k \in 1..MaxTraffic /\ ~(k <= entered[s])
    <3>1. entered[s] \in 0..MaxTraffic /\ status \in 0..MaxTraffic /\ MaxTraffic \in Nat
      BY GatewayAssumption DEF TypeOK
    <3> QED
      BY <1>10, <3>1
  <2>3. pushed[s][k] > 0 => pushed'[s][k] > 0
    BY <1>6, <2>2
  <2>4. ASSUME k \in OnTheWay(conn[s], "track"), ~(pushed[s][k] > 0)
        PROVE  k \in OnTheWay(conn[s], "track")' \/ pushed'[s][k] > 0
    <3>1. CASE conn[s] # v
      <4>1. channel'[conn[s]] = channel[conn[s]]
        BY <1>1, <2>1, <3>1, Received
      <4> QED
        BY <1>1, <2>4, <4>1 DEF OnTheWay
    <3>2. CASE conn[s] = v
      <4>1. s \in InRoom("track", v)
        BY <1>10, <3>2 DEF InRoom, On, Tracked
      <4>2. k \in OnTheWay(v, "track")' \/ (h.for = "track" /\ h.n = k)
        BY <1>1, <1>2, <2>4, <3>2, Received
      <4>3. ASSUME h.for = "track", h.n = k
            PROVE  pushed'[s][k] > 0
        <5>1. h.from # v
          BY <1>4, <2>2, <2>4, <4>1, <4>3 DEF UpdateSent
        <5> QED
          BY <1>6, <2>2, <4>1, <4>3, <5>1
      <4> QED
        BY <1>1, <3>2, <4>2, <4>3
    <3> QED
      BY <3>1, <3>2
  <2> QED
    BY <1>1, <2>1, <2>3, <2>4 DEF Arrives
<1>11. \A w \in Services : OnceOnly(w)'
  BY <1>1, TakenOnce
<1> QED
  BY <1>1, <1>7, <1>8, <1>9, <1>10, <1>11, UpdateParts DEF QueuesSound, AllArrive, Tracked, Present

LEMMA LoseUpdates ==
    ASSUME TypeOK, UpdateInv, NEW v \in Services, Lose(v)
    PROVE  UpdateInv'
<1>1. /\ Taken(v) /\ UNCHANGED <<conn, rooms, status, unsent, origin, pushed, entered>>
      /\ faults' = faults + 1 /\ faults \in Nat
  BY DEF Lose, Taken, socketVars, statusVars, viewVars, TypeOK
<1>2. UnsentSound' /\ PushedOnce'
  BY <1>1, UpdateParts DEF UnsentSound, PushedOnce
<1>3. ASSUME NEW w \in Services, NEW i \in DOMAIN channel'[w]
      PROVE  UpdateSent(w, channel[w][i])'
  <2>1. PICK j \in DOMAIN channel[w] : channel'[w][i] = channel[w][j]
    BY <1>1, <1>3, TakenOnce
  <2>2. UpdateSent(w, channel[w][j])
    BY UpdateParts DEF QueuesSound
  <2> QED
    BY <1>1, <2>1, <2>2 DEF UpdateSent, On, InRoom
<1>4. AllArrive'
  BY <1>1 DEF AllArrive, Arrives
<1> QED
  BY <1>1, <1>2, <1>3, <1>4, TakenOnce, UpdateParts DEF QueuesSound

(* What the process had saved and not emitted is lost with its memory.     *)
LEMMA RestartUpdates ==
    ASSUME TypeOK, UpdateInv, NEW v \in Services, Restart(v)
    PROVE  UpdateInv'
<1>1. /\ UNCHANGED <<status, origin, pushed, entered>>
      /\ faults' = faults + 1 /\ faults \in Nat
      /\ conn' = [s \in Sockets |-> IF conn[s] = v THEN Gone ELSE conn[s]]
      /\ rooms' \subseteq rooms /\ unsent' \subseteq unsent
      /\ channel' = [channel EXCEPT ![v] = <<>>] /\ channel \in [Services -> Seq(Messages)]
  BY DEF Restart, viewVars, TypeOK
<1>2. UnsentSound' /\ PushedOnce'
  BY <1>1, UpdateParts DEF UnsentSound, PushedOnce
<1>3. \A w \in Services : DOMAIN channel'[w] # {} => w # v /\ channel'[w] = channel[w]
  BY <1>1
<1>4. ASSUME NEW w \in Services, NEW i \in DOMAIN channel'[w]
      PROVE  UpdateSent(w, channel[w][i])'
  <2>1. channel'[w] = channel[w] /\ UpdateSent(w, channel[w][i])
    BY <1>3, <1>4, UpdateParts DEF QueuesSound
  <2>2. \A s \in On(w)' : s \in On(w)
    BY <1>1, <1>4, GatewayAssumption DEF On
  <2>3. \A s \in InRoom("track", w)' : s \in InRoom("track", w)
    BY <1>1, <2>2 DEF InRoom
  <2> QED
    BY <1>1, <2>1, <2>2, <2>3 DEF UpdateSent
<1>5. \A w \in Services : OnceOnly(w)'
  BY <1>3, UpdateParts DEF QueuesSound, OnceOnly
<1>6. AllArrive'
  BY <1>1 DEF AllArrive, Arrives
<1>7. QueuesSound'
  BY <1>4, <1>5 DEF QueuesSound
<1> QED
  BY <1>2, <1>6, <1>7, UpdateParts

LEMMA UpdateStep ==
    ASSUME TypeOK, UpdateInv, Next
    PROVE  UpdateInv'
<1>1. ASSUME NEW s \in Sockets, NEW u \in Users, Authenticate(s, u)
      PROVE  UpdateInv'
  BY <1>1, UpdateKept DEF Authenticate, viewVars
<1>2. ASSUME NEW s \in Sockets, Disconnect(s)
      PROVE  UpdateInv'
  <2>1. \A x \in Sockets : Present(x)' => conn'[x] = conn[x]
    BY <1>2, GatewayAssumption DEF Disconnect, Present, TypeOK
  <2> QED
    BY <1>2, <2>1, UpdateKept DEF Disconnect, viewVars, faultVars
<1>3. ASSUME NEW s \in Sockets, Tracks(s)
      PROVE  UpdateInv'
  <2>1. UNCHANGED <<conn, statusVars, pushed, channel, faults>>
    BY <1>3, TracksFrame DEF faultVars
  <2>2. ASSUME NEW x \in Sockets, <<"track", x>> \in rooms'
        PROVE  \/ entered'[x] = status
               \/ <<"track", x>> \in rooms /\ entered'[x] = entered[x]
    <3>1. CASE JoinTracking(s)
      <4>1. entered \in [Sockets -> 0..MaxTraffic]
        BY DEF TypeOK
      <4>2. \/ /\ rooms' = rooms \union {<<"track", s>>}
               /\ entered' = [entered EXCEPT ![s] = status]
            \/ UNCHANGED <<rooms, entered>>
        BY <3>1 DEF JoinTracking
      <4>3. CASE x = s
        BY <2>2, <4>1, <4>2, <4>3
      <4>4. CASE x # s
        BY <2>2, <4>1, <4>2, <4>4
      <4> QED
        BY <4>3, <4>4
    <3>2. CASE ~JoinTracking(s)
      BY <1>3, <2>2, <3>2
      DEF Tracks, TrackingSubscribe, SendStatus, TrackingUnsubscribe,
          AdminSubscribeLive, SendSnapshot, AdminUnsubscribeLive, viewVars
    <3> QED
      BY <3>1, <3>2
  <2> QED
    BY <2>1, <2>2, UpdateKept
<1>4. ASSUME NEW s \in Sockets, Chats(s)
      PROVE  UpdateInv'
  <2>1. UNCHANGED <<conn, statusVars, pushed, entered, channel, faults>>
    BY <1>4, ChatsFrame DEF viewVars, faultVars
  <2>2. \A x \in Sockets : <<"track", x>> \in rooms' => <<"track", x>> \in rooms
    BY <1>4 DEF Chats, ChatJoin, EnterChat, SendHistory, ChatLeave, ChatSendMessage, Store, socketVars
  <2> QED
    BY <2>1, <2>2, UpdateKept
<1>5. ASSUME NEW v \in Services, NEW n \in 1..MaxTraffic, EmitDeliveryStatusUpdate(v, n)
      PROVE  UpdateInv'
  BY <1>5, EmitStatusUpdates
<1>6. ASSUME NEW v \in Services,
             SaveStatus(v) \/ EmitToRider(v) \/ Receive(v) \/ Lose(v) \/ Restart(v)
      PROVE  UpdateInv'
  BY <1>6, SaveStatusUpdates, EmitToRiderUpdates, ReceiveUpdates, LoseUpdates, RestartUpdates
<1>7. ASSUME NEW v \in Services, EmitSystemChatMessage(v)
      PROVE  UpdateInv'
  BY <1>7, UpdateKept DEF EmitSystemChatMessage, Store, socketVars, viewVars, faultVars
<1>8. ASSUME NEW m, EmitMessage(m)
      PROVE  UpdateInv'
  BY <1>8, UpdateKept DEF EmitMessage, socketVars, viewVars, faultVars
<1> QED
  BY <1>1, <1>2, <1>3, <1>4, <1>5, <1>6, <1>7, <1>8 DEF Next

-----------------------------------------------------------------------------
(* Handlers. *)

(* What a handler has left to do tells what it does next.                  *)
LEMMA StepsOf ==
    ASSUME NEW q \in Handlers, q # <<>>
    PROVE  /\ Head(q) = "join" => q = <<"join", "send">> /\ Tail(q) = <<"send">>
           /\ Head(q) = "send" => q = <<"send">> /\ Tail(q) = <<>>
           /\ Head(q) = "live" => q = <<"live">> /\ Tail(q) = <<>>
           /\ Head(q) = "enter" => q = <<"enter", "history">> /\ Tail(q) = <<"history">>
           /\ Head(q) = "history" => q = <<"history">> /\ Tail(q) = <<>>
<1>1. /\ Head(<<"join", "send">>) = "join" /\ Tail(<<"join", "send">>) = <<"send">>
      /\ Head(<<"send">>) = "send" /\ Tail(<<"send">>) = <<>>
  OBVIOUS
<1>2. /\ Head(<<"live">>) = "live" /\ Tail(<<"live">>) = <<>>
      /\ Head(<<"enter", "history">>) = "enter" /\ Tail(<<"enter", "history">>) = <<"history">>
      /\ Head(<<"history">>) = "history" /\ Tail(<<"history">>) = <<>>
  OBVIOUS
<1> QED
  BY <1>1, <1>2 DEF Handlers

HandlerSound(t, n) ==
    /\ t.todo \in Handlers
    /\ n <= status /\ t.read <= status
    /\ t.todo \in {<<"join", "send">>, <<"send">>} => n <= t.read

LEMMA HandlerParts ==
    /\ HandlerInv <=> \A s \in Sockets : HandlerSound(task[s], snap[s])
    /\ HandlerInv' <=> \A s \in Sockets : HandlerSound(task[s], snap[s])'
  BY DEF HandlerInv, HandlerSound

(* A handler that has nothing to do is right whatever its socket was sent. *)
LEMMA HandlerAtRest ==
    ASSUME NEW t, t.todo = <<>> \/ t.todo = <<"live">>
                    \/ t.todo = <<"enter", "history">> \/ t.todo = <<"history">>,
           t.read = 0, NEW n, n <= status, status \in Nat
    PROVE  HandlerSound(t, n)
<1>1. t.todo \in Handlers
  BY DEF Handlers
<1>2. ASSUME t.todo \in {<<"join", "send">>, <<"send">>}
      PROVE  FALSE
  <2>1. t.todo # <<>> /\ t.todo[1] \in {"join", "send"}
    BY <1>2
  <2>2. t.todo[1] \in {"live", "enter", "history"}
    BY <2>1
  <2> QED
    BY <2>1, <2>2
<1> QED
  BY <1>1, <1>2 DEF HandlerSound

LEMMA HandlerKept ==
    ASSUME TypeOK, HandlerInv, status' \in Nat, status' >= status, UNCHANGED snap,
           \A s \in Sockets : task'[s] = task[s] \/ task'[s] = Idle
    PROVE  HandlerInv'
<1>1. ASSUME NEW s \in Sockets
      PROVE  HandlerSound(task[s], snap[s])'
  <2>1. /\ snap[s] \in -1..MaxTraffic /\ task[s].read \in 0..MaxTraffic /\ MaxTraffic \in Nat
        /\ status \in Nat
    BY GatewayAssumption DEF TypeOK
  <2>2. HandlerSound(task[s], snap[s])
    BY HandlerParts
  <2>3. snap[s] <= status' /\ task[s].read <= status'
    BY <2>1, <2>2 DEF HandlerSound
  <2>4. CASE task'[s] = task[s]
    BY <2>2, <2>3, <2>4 DEF HandlerSound
  <2>5. CASE task'[s] = Idle
    <3>1. Idle.todo = <<>> /\ Idle.read = 0 /\ Idle.todo \in Handlers
          /\ Idle.todo \notin {<<"join", "send">>, <<"send">>}
      BY StepsTyped DEF Handlers
    <3> QED
      BY <2>3, <2>5, <3>1 DEF HandlerSound
  <2> QED
    BY <1>1, <2>4, <2>5
<1> QED
  BY <1>1, HandlerParts

(* One handler goes on; the others wait. *)
LEMMA HandlerMoved ==
    ASSUME TypeOK, HandlerInv, UNCHANGED status, NEW s \in Sockets,
           NEW t, task' = [task EXCEPT ![s] = t],
           NEW n, snap'[s] = n, \A x \in Sockets \ {s} : snap'[x] = snap[x],
           HandlerSound(t, n)
    PROVE  HandlerInv'
<1>1. ASSUME NEW x \in Sockets
      PROVE  HandlerSound(task[x], snap[x])'
  <2>1. CASE x = s
    <3>1. task'[s] = t
      BY DEF TypeOK
    <3> QED
      BY <2>1, <3>1 DEF HandlerSound
  <2>2. CASE x # s
    <3>1. task'[x] = task[x] /\ snap'[x] = snap[x] /\ HandlerSound(task[x], snap[x])
      BY <2>2, HandlerParts DEF TypeOK
    <3> QED
      BY <3>1 DEF HandlerSound
  <2> QED
    BY <2>1, <2>2
<1> QED
  BY <1>1, HandlerParts

LEMMA HandlerTracks ==
    ASSUME TypeOK, HandlerInv, NEW s \in Sockets, Tracks(s)
    PROVE  HandlerInv'
<1>1. /\ UNCHANGED status /\ status \in Nat
      /\ snap \in [Sockets -> -1..MaxTraffic] /\ snap[s] \in Int /\ snap[s] <= status
      /\ task \in [Sockets -> TaskType]
  BY TracksFrame DEF statusVars, TypeOK, TaskType, HandlerInv
<1>2. /\ task[s].todo \in Handlers /\ task[s].read \in Nat /\ task[s].read <= status
      /\ HandlerSound(task[s], snap[s])
  BY HandlerParts DEF TypeOK, HandlerInv
<1>3. CASE TrackingSubscribe(s)
  <2>1. PICK t : t = [todo |-> <<"join", "send">>, read |-> status]
    OBVIOUS
  <2>2. t.todo = <<"join", "send">> /\ t.read = status
    BY <2>1
  <2>3. HandlerSound(t, snap[s])
    BY <1>1, <2>2 DEF HandlerSound, Handlers
  <2>4. task' = [task EXCEPT ![s] = t] /\ UNCHANGED snap
    BY <1>3, <2>1 DEF TrackingSubscribe, Start, viewVars
  <2> QED
    BY <1>1, <2>3, <2>4, HandlerMoved
<1>4. CASE JoinTracking(s)
  <2>1. Due(s, "join") /\ UNCHANGED snap
    BY <1>4 DEF JoinTracking
  <2>2. task[s].todo = <<"join", "send">> /\ Tail(task[s].todo) = <<"send">>
    BY <1>2, <2>1, StepsOf DEF Due
  <2>3. CASE task' = [task EXCEPT ![s] = Idle]
    <3>1. HandlerSound(Idle, snap[s])
      BY <1>1, StepsTyped, HandlerAtRest
    <3> QED
      BY <1>1, <2>1, <2>3, <3>1, HandlerMoved
  <2>4. CASE task' = [task EXCEPT ![s].todo = Tail(@)]
    <3>1. PICK t : t = [task[s] EXCEPT !.todo = <<"send">>]
      OBVIOUS
    <3>2. task[s] \in TaskType
      BY <1>1
    <3>3. t.todo = <<"send">> /\ t.read = task[s].read
      BY <3>1, <3>2 DEF TaskType
    <3>4. snap[s] <= task[s].read
      BY <1>2, <2>2 DEF HandlerSound
    <3>5. HandlerSound(t, snap[s])
      BY <1>1, <1>2, <3>3, <3>4 DEF HandlerSound, Handlers
    <3>6. task' = [task EXCEPT ![s] = t]
      BY <2>2, <2>4, <3>1
    <3> QED
      BY <1>1, <2>1, <3>5, <3>6, HandlerMoved
  <2> QED
    BY <1>4, <2>3, <2>4 DEF JoinTracking
<1>5. CASE SendStatus(s) \/ SendSnapshot(s)
  <2>1. PICK l \in {"send", "live"} : Due(s, l)
    BY <1>5 DEF SendStatus, SendSnapshot
  <2>2. Tail(task[s].todo) = <<>>
    BY <1>2, <2>1, StepsOf DEF Due
  <2>3. task[s] \in TaskType
    BY <1>1
  <2>4. PICK t : t = [task[s] EXCEPT !.todo = <<>>, !.read = 0]
    OBVIOUS
  <2>5. t.todo = <<>> /\ t.read = 0
    BY <2>3, <2>4 DEF TaskType
  <2>6. task' = [task EXCEPT ![s] = t]
    BY <1>5, <2>2, <2>4 DEF SendStatus, SendSnapshot, Done
  <2>7. snap'[s] <= status /\ \A x \in Sockets \ {s} : snap'[x] = snap[x]
    BY <1>1, <1>2, <1>5 DEF SendStatus, SendSnapshot
  <2>8. HandlerSound(t, snap'[s])
    BY <1>1, <2>5, <2>7, HandlerAtRest
  <2> QED
    BY <1>1, <2>6, <2>7, <2>8, HandlerMoved
<1>6. CASE AdminSubscribeLive(s)
  <2>1. PICK t : t = [todo |-> <<"live">>, read |-> 0]
    OBVIOUS
  <2>2. t.todo = <<"live">> /\ t.read = 0
    BY <2>1
  <2>3. HandlerSound(t, snap[s])
    BY <1>1, <2>2, HandlerAtRest
  <2>4. task' = [task EXCEPT ![s] = t] /\ UNCHANGED snap
    BY <1>6, <2>1 DEF AdminSubscribeLive, Start, viewVars
  <2> QED
    BY <1>1, <2>3, <2>4, HandlerMoved
<1>7. CASE TrackingUnsubscribe(s) \/ AdminUnsubscribeLive(s)
  <2>1. UNCHANGED <<task, snap, status>>
    BY <1>1, <1>7 DEF TrackingUnsubscribe, AdminUnsubscribeLive, viewVars
  <2> QED
    BY <2>1 DEF HandlerInv
<1> QED
  BY <1>3, <1>4, <1>5, <1>6, <1>7 DEF Tracks

LEMMA HandlerChats ==
    ASSUME TypeOK, HandlerInv, NEW s \in Sockets, Chats(s)
    PROVE  HandlerInv'
<1>1. /\ UNCHANGED <<status, snap>> /\ status \in Nat
      /\ snap[s] \in Int /\ snap[s] <= status
      /\ task \in [Sockets -> TaskType] /\ task[s].todo \in Handlers
  BY ChatsFrame DEF statusVars, viewVars, TypeOK, TaskType, HandlerInv
<1>2. CASE ChatJoin(s)
  <2>1. PICK t : t = [todo |-> <<"enter", "history">>, read |-> 0]
    OBVIOUS
  <2>2. t.todo = <<"enter", "history">> /\ t.read = 0
    BY <2>1
  <2>3. HandlerSound(t, snap[s])
    BY <1>1, <2>2, HandlerAtRest
  <2>4. task' = [task EXCEPT ![s] = t]
    BY <1>2, <2>1 DEF ChatJoin, ChatSteps, Start
  <2> QED
    BY <1>1, <2>3, <2>4, HandlerMoved
<1>3. CASE EnterChat(s) \/ SendHistory(s)
  <2>1. PICK l \in {"enter", "history"} : Due(s, l)
    BY <1>3 DEF EnterChat, SendHistory
  <2>2. Tail(task[s].todo) \in {<<"history">>, <<>>}
    BY <1>1, <2>1, StepsOf DEF Due
  <2>3. CASE task' = [task EXCEPT ![s] = Idle]
    <3>1. HandlerSound(Idle, snap[s])
      BY <1>1, StepsTyped, HandlerAtRest
    <3> QED
      BY <1>1, <2>3, <3>1, HandlerMoved
  <2>4. CASE Done(s)
    <3>1. PICK t : t = [task[s] EXCEPT !.todo = Tail(task[s].todo), !.read = 0]
      OBVIOUS
    <3>2. task[s] \in TaskType
      BY <1>1
    <3>3. t.todo = Tail(task[s].todo) /\ t.read = 0
      BY <3>1, <3>2 DEF TaskType
    <3>4. HandlerSound(t, snap[s])
      BY <1>1, <2>2, <3>3, HandlerAtRest
    <3>5. task' = [task EXCEPT ![s] = t]
      BY <2>4, <3>1 DEF Done
    <3> QED
      BY <1>1, <3>4, <3>5, HandlerMoved
  <2> QED
    BY <1>3, <2>3, <2>4 DEF EnterChat, SendHistory
<1>4. CASE ChatLeave(s) \/ ChatSendMessage(s)
  <2>1. UNCHANGED <<task, snap, status>>
    BY <1>1, <1>4 DEF ChatLeave, ChatSendMessage, Store, socketVars
  <2> QED
    BY <2>1 DEF HandlerInv
<1> QED
  BY <1>2, <1>3, <1>4 DEF Chats

LEMMA HandlerStep ==
    ASSUME TypeOK, HandlerInv, Next
    PROVE  HandlerInv'
<1>1. status \in Nat
  BY DEF TypeOK
<1>2. ASSUME NEW s \in Sockets, NEW u \in Users, Authenticate(s, u)
      PROVE  HandlerInv'
  BY <1>2 DEF Authenticate, statusVars, viewVars, HandlerInv
<1>3. ASSUME NEW s \in Sockets, Disconnect(s)
      PROVE  HandlerInv'
  BY <1>3 DEF Disconnect, statusVars, viewVars, HandlerInv
<1>4. ASSUME NEW s \in Sockets, Tracks(s) \/ Chats(s)
      PROVE  HandlerInv'
  BY <1>4, HandlerTracks, HandlerChats
<1>5. ASSUME NEW v \in Services, SaveStatus(v) \/ Restart(v)
      PROVE  HandlerInv'
  <2>1. UNCHANGED snap /\ status' \in Nat /\ status' >= status
    BY <1>1, <1>5 DEF SaveStatus, Restart, viewVars
  <2>2. \A s \in Sockets : task'[s] = task[s] \/ task'[s] = Idle
    BY <1>5 DEF SaveStatus, Restart, socketVars
  <2> QED
    BY <2>1, <2>2, HandlerKept
<1>6. ASSUME NEW v \in Services, NEW n \in 1..MaxTraffic, EmitDeliveryStatusUpdate(v, n)
      PROVE  HandlerInv'
  BY <1>6 DEF EmitDeliveryStatusUpdate, socketVars, HandlerInv
<1>7. ASSUME NEW v \in Services,
             EmitToRider(v) \/ EmitSystemChatMessage(v) \/ Receive(v) \/ Lose(v)
      PROVE  HandlerInv'
  BY <1>7 DEF EmitToRider, EmitSystemChatMessage, Store, Receive, Lose,
              socketVars, statusVars, viewVars, HandlerInv
<1>8. ASSUME NEW m, EmitMessage(m)
      PROVE  HandlerInv'
  BY <1>8 DEF EmitMessage, socketVars, statusVars, viewVars, HandlerInv
<1> QED
  BY <1>2, <1>3, <1>4, <1>5, <1>6, <1>7, <1>8 DEF Next

-----------------------------------------------------------------------------
(* Rooms, and what went before. *)

Watching(s) == Present(s) /\ <<"live", s>> \in rooms /\ ~Due(s, "live")
Knows(s, n) == n <= snap[s] \/ pushed[s][n] > 0 \/ <<conn[s], n>> \in unsent
LiveInv ==
    \A s \in Sockets : Watching(s) => \A n \in 1..status : origin[n] = conn[s] => Knows(s, n)

InChat(s) == Present(s) /\ <<"chat", s>> \in rooms /\ ~Due(s, "history")
Has(s, m) == m \in shown[s] \union cut[s] \union unseen
ChatInv ==
    \A s \in Sockets : InChat(s) => \A m \in Numbers(chat) : chat[m] = conn[s] => Has(s, m)

LEMMA MissedParts ==
    /\ NothingMissed <=> LiveInv /\ ChatInv
    /\ NothingMissed' <=> LiveInv' /\ ChatInv'
  BY DEF NothingMissed, LiveInv, ChatInv, Watching, Knows, InChat, Has

(* What must be shown of a step that saves no status, or stores no message. *)
LEMMA LiveKept ==
    ASSUME LiveInv, UNCHANGED <<status, origin>>,
           \A s \in Sockets : Watching(s)' =>
               \/ Watching(s) /\ conn'[s] = conn[s]
               \/ snap'[s] = status,
           \A s \in Sockets, n \in 1..status :
               Watching(s)' /\ Watching(s) /\ Knows(s, n) => Knows(s, n)'
    PROVE  LiveInv'
<1>1. ASSUME NEW s \in Sockets, Watching(s)', NEW n \in 1..status, origin[n] = conn'[s]
      PROVE  Knows(s, n)'
  <2>1. CASE snap'[s] = status
    <3>1. n <= snap'[s]
      BY <2>1
    <3> QED
      BY <3>1 DEF Knows
  <2>2. CASE Watching(s) /\ conn'[s] = conn[s]
    BY <1>1, <2>2 DEF LiveInv
  <2> QED
    BY <1>1, <2>1, <2>2
<1> QED
  BY <1>1 DEF LiveInv

LEMMA ChatKept ==
    ASSUME ChatInv, UNCHANGED chat,
           \A s \in Sockets : InChat(s)' =>
               \/ InChat(s) /\ conn'[s] = conn[s]
               \/ Numbers(chat) \subseteq shown'[s] \union cut'[s],
           \A s \in Sockets : InChat(s)' /\ InChat(s) =>
               \A m \in Numbers(chat) : chat[m] = conn[s] /\ Has(s, m) => Has(s, m)'
    PROVE  ChatInv'
  BY DEF ChatInv, Has, Numbers

(* Of a socket whose handler was doing something else, or nothing.         *)
LEMMA NotDue ==
    ASSUME TypeOK, NEW s \in Sockets
    PROVE  /\ task[s] = Idle => \A l : ~Due(s, l)
           /\ \A l, k : Due(s, l) /\ l # k => ~Due(s, k)
<1>1. Idle.todo = <<>>
  BY StepsTyped
<1> QED
  BY <1>1 DEF Due

LEMMA TracksTasks ==
    ASSUME TypeOK, NEW s \in Sockets, Tracks(s), NEW x \in Sockets
    PROVE  /\ \A l : Due(x, l) /\ ~Due(x, l)' => x = s
           /\ ~SendSnapshot(s) => ~(Due(x, "live") /\ ~Due(x, "live")')
           /\ ~(Due(x, "history") /\ ~Due(x, "history")')
<1>a. task \in [Sockets -> TaskType]
  BY DEF TypeOK, TaskType
<1>b. x # s => task'[x] = task[x]
  <2>1. CASE SendStatus(s) \/ SendSnapshot(s)
    BY <1>a, <2>1 DEF SendStatus, SendSnapshot, Done
  <2>2. CASE ~(SendStatus(s) \/ SendSnapshot(s))
    BY <1>a, <2>2 DEF Tracks, TrackingSubscribe, JoinTracking, TrackingUnsubscribe, Start,
                      AdminSubscribeLive, AdminUnsubscribeLive
  <2> QED
    BY <2>1, <2>2
<1>c. \/ UNCHANGED task
      \/ task[s] = Idle \/ Due(s, "join") \/ Due(s, "send") \/ (SendSnapshot(s) /\ Due(s, "live"))
  BY DEF Tracks, TrackingSubscribe, JoinTracking, SendStatus, TrackingUnsubscribe,
         AdminSubscribeLive, SendSnapshot, AdminUnsubscribeLive, Free
<1>d. \A l : Due(x, l) /\ ~Due(x, l)' => x = s /\ task' # task
  BY <1>b DEF Due
<1> QED
  BY <1>c, <1>d, NotDue

LEMMA LiveTracks ==
    ASSUME TypeOK, LiveInv, HandlerInv, NEW s \in Sockets, Tracks(s)
    PROVE  LiveInv'
<1>1. UNCHANGED <<conn, pushed, unsent, status, origin>>
  BY TracksFrame DEF statusVars
<1>2. /\ status \in Nat /\ \A x \in Sockets : snap[x] \in Int
      /\ snap \in [Sockets -> -1..MaxTraffic] /\ task \in [Sockets -> TaskType]
  BY DEF TypeOK, TaskType
<1>3. ASSUME NEW x \in Sockets, Watching(x)'
      PROVE  Watching(x) \/ snap'[x] = status
  <2>1. CASE <<"live", x>> \in rooms
    <3>1. CASE Due(x, "live")
      <4>1. ~Due(x, "live")' /\ x = s /\ SendSnapshot(s)
        BY <1>3, <3>1, TracksTasks DEF Watching
      <4>2. Present(s)
        BY <1>1, <1>3, <4>1 DEF Watching, Present
      <4> QED
        BY <1>2, <4>1, <4>2 DEF SendSnapshot
    <3>2. CASE ~Due(x, "live")
      BY <1>1, <1>3, <2>1, <3>2 DEF Watching, Present
    <3> QED
      BY <3>1, <3>2
  <2>2. CASE <<"live", x>> \notin rooms
    <3>1. x = s /\ AdminSubscribeLive(s)
      BY <1>3, <2>2 DEF Watching, Tracks, TrackingSubscribe, JoinTracking, SendStatus,
         TrackingUnsubscribe, AdminSubscribeLive, SendSnapshot, AdminUnsubscribeLive
    <3>2. task'[s].todo = <<"live">>
      BY <1>2, <3>1 DEF AdminSubscribeLive, Start
    <3>3. <<"live">> # <<>> /\ Head(<<"live">>) = "live"
      OBVIOUS
    <3> QED
      BY <1>3, <3>1, <3>2, <3>3 DEF Watching, Due
  <2> QED
    BY <2>1, <2>2
<1>4. ASSUME NEW x \in Sockets
      PROVE  snap'[x] >= snap[x]
  <2>1. CASE SendStatus(s)
    <3>1. task[s] \in TaskType /\ HandlerSound(task[s], snap[s])
      BY <1>2, HandlerParts
    <3>2. task[s].todo = <<"send">>
      BY <2>1, <3>1, StepsOf DEF SendStatus, Due, HandlerSound
    <3>3. snap[s] <= task[s].read
      BY <3>1, <3>2 DEF HandlerSound
    <3>4. snap' = [snap EXCEPT ![s] = task[s].read] \/ snap' = snap
      BY <2>1 DEF SendStatus
    <3>5. task[s].read \in Int
      BY <3>1 DEF TaskType
    <3> QED
      BY <1>2, <3>3, <3>4, <3>5
  <2>2. CASE SendSnapshot(s)
    <3>1. snap[s] <= status
      BY DEF HandlerInv
    <3> QED
      BY <1>2, <2>2, <3>1 DEF SendSnapshot
  <2>3. CASE ~SendStatus(s) /\ ~SendSnapshot(s)
    <3>1. UNCHANGED snap
      BY <2>3 DEF Tracks, TrackingSubscribe, JoinTracking,
         TrackingUnsubscribe, AdminSubscribeLive, AdminUnsubscribeLive, viewVars
    <3> QED
      BY <1>2, <3>1
  <2> QED
    BY <2>1, <2>2, <2>3
<1>5. \A x \in Sockets : snap'[x] \in Int
  <2>1. task[s].read \in Int /\ status \in Int
    BY <1>2 DEF TaskType
  <2>2. \/ UNCHANGED snap
        \/ snap' = [snap EXCEPT ![s] = task[s].read]
        \/ snap' = [snap EXCEPT ![s] = status]
    BY DEF Tracks, TrackingSubscribe, JoinTracking, SendStatus, TrackingUnsubscribe,
       AdminSubscribeLive, SendSnapshot, AdminUnsubscribeLive, viewVars
  <2> QED
    BY <1>2, <2>1, <2>2
<1>6. ASSUME NEW x \in Sockets, NEW n \in 1..status, Knows(x, n)
      PROVE  Knows(x, n)'
  <2>1. CASE n <= snap[x]
    <3>1. n <= snap'[x]
      BY <1>2, <1>4, <1>5, <2>1
    <3> QED
      BY <3>1 DEF Knows
  <2>2. CASE ~(n <= snap[x])
    BY <1>1, <1>6, <2>2 DEF Knows
  <2> QED
    BY <2>1, <2>2
<1> QED
  BY <1>1, <1>3, <1>6, LiveKept

LEMMA LiveChats ==
    ASSUME TypeOK, LiveInv, HandlerInv, NEW s \in Sockets, Chats(s)
    PROVE  LiveInv'
<1>1. UNCHANGED <<conn, snap, pushed, unsent, status, origin>>
  BY ChatsFrame DEF statusVars, viewVars
<1>2. \A x \in Sockets : <<"live", x>> \in rooms' => <<"live", x>> \in rooms
  BY DEF Chats, ChatJoin, EnterChat, SendHistory, ChatLeave, ChatSendMessage, Store, socketVars
<1>3. ASSUME NEW x \in Sockets, Due(x, "live")
      PROVE  Due(x, "live")'
  <2>1. x # s => task'[x] = task[x]
    <3>1. CASE EnterChat(s) \/ SendHistory(s)
      BY <3>1 DEF EnterChat, SendHistory, Done, TypeOK
    <3>2. CASE ~(EnterChat(s) \/ SendHistory(s))
      BY <3>2 DEF Chats, ChatJoin, ChatLeave, ChatSendMessage, Store, Start, socketVars, TypeOK
    <3> QED
      BY <3>1, <3>2
  <2>2. UNCHANGED task \/ task[s] = Idle \/ Due(s, "enter") \/ Due(s, "history")
    BY DEF Chats, ChatJoin, EnterChat, SendHistory, ChatLeave, ChatSendMessage, Store, Free, socketVars
  <2>3. ~(Due(x, "enter") \/ Due(x, "history") \/ task[x] = Idle)
    BY <1>3, NotDue
  <2> QED
    BY <1>3, <2>1, <2>2, <2>3 DEF Due
<1> QED
  BY <1>1, <1>2, <1>3, LiveKept DEF Watching, Knows, Present

LEMMA LiveStep ==
    ASSUME TypeOK, UpdateInv, HandlerInv, LiveInv, Next
    PROVE  LiveInv'
<1>1. ASSUME NEW s \in Sockets, NEW u \in Users, Authenticate(s, u)
      PROVE  LiveInv'
  BY <1>1 DEF Authenticate, statusVars, viewVars, LiveInv, Watching, Knows, Present, Due
<1>2. ASSUME NEW s \in Sockets, Disconnect(s)
      PROVE  LiveInv'
  <2>1. /\ UNCHANGED <<status, origin, unsent, snap, pushed, task>> /\ rooms' \subseteq rooms
        /\ conn' = [conn EXCEPT ![s] = Gone] /\ conn \in [Sockets -> Services \union {Gone}]
    BY <1>2 DEF Disconnect, statusVars, viewVars, TypeOK
  <2>2. \A x \in Sockets : Present(x)' => conn'[x] = conn[x]
    BY <2>1, GatewayAssumption DEF Present
  <2> QED
    BY <2>1, <2>2, LiveKept DEF Watching, Knows, Present, Due
<1>3. ASSUME NEW s \in Sockets, Tracks(s) \/ Chats(s)
      PROVE  LiveInv'
  BY <1>3, LiveTracks, LiveChats
<1>4. ASSUME NEW v \in Services, SaveStatus(v)
      PROVE  LiveInv'
  <2>1. /\ UNCHANGED <<conn, rooms, task, snap, pushed>> /\ status' = status + 1 /\ status \in Nat
        /\ unsent' = unsent \union {<<v, status + 1>>}
        /\ origin'[status + 1] = v /\ \A n \in 1..status : origin'[n] = origin[n]
    <3>1. status \in Nat
      BY DEF TypeOK
    <3>2. origin'[status + 1] = v /\ \A n \in 1..status : origin'[n] = origin[n]
      BY <1>4, SaveStatusTyped
    <3> QED
      BY <1>4, <3>1, <3>2 DEF SaveStatus, socketVars, viewVars
  <2>2. ASSUME NEW s \in Sockets, Watching(s), NEW n \in 1..(status + 1), origin'[n] = conn[s]
        PROVE  Knows(s, n)'
    <3>1. CASE n = status + 1
      BY <2>1, <2>2, <3>1 DEF Knows
    <3>2. CASE n # status + 1
      <4>1. n \in 1..status
        BY <2>1, <3>2
      <4>2. Knows(s, n)
        BY <2>1, <2>2, <4>1 DEF LiveInv
      <4> QED
        BY <2>1, <4>2 DEF Knows
    <3> QED
      BY <3>1, <3>2
  <2> QED
    BY <2>1, <2>2 DEF LiveInv, Watching, Present, Due
<1>5. ASSUME NEW v \in Services, NEW n \in 1..MaxTraffic, EmitDeliveryStatusUpdate(v, n)
      PROVE  LiveInv'
  <2>1. /\ UNCHANGED <<conn, rooms, task, snap, status, origin>>
        /\ <<v, n>> \in unsent /\ unsent' = unsent \ {<<v, n>>}
        /\ Push(InRoom("track", v) \union InRoom("live", v), n)
    BY <1>5 DEF EmitDeliveryStatusUpdate, socketVars
  <2>2. \A s \in Sockets, k \in 1..MaxTraffic :
           pushed'[s][k] = IF s \in InRoom("track", v) \union InRoom("live", v) /\ k = n
                           THEN pushed[s][k] + 1 ELSE pushed[s][k]
    BY <2>1, PushTyped
  <2>3. ASSUME NEW s \in Sockets, NEW k \in 1..status, Watching(s), Knows(s, k)
        PROVE  Knows(s, k)'
    <3>1. k \in 1..MaxTraffic /\ pushed[s][k] \in Nat
      <4>1. status \in 0..MaxTraffic /\ MaxTraffic \in Nat
        BY GatewayAssumption DEF TypeOK
      <4>2. k \in 1..MaxTraffic
        BY <4>1
      <4> QED
        BY <4>2, PushedTyped
    <3>2. pushed[s][k] > 0 => pushed'[s][k] > 0
      BY <2>2, <3>1
    <3>3. ASSUME <<conn[s], k>> = <<v, n>>
          PROVE  pushed'[s][k] > 0
      <4>1. s \in InRoom("live", v) /\ k = n
        BY <2>3, <3>3 DEF InRoom, On, Watching
      <4> QED
        BY <2>2, <3>1, <4>1
    <3> QED
      BY <2>1, <2>3, <3>2, <3>3 DEF Knows
  <2> QED
    BY <2>1, <2>3, LiveKept DEF Watching, Present, Due
<1>6. ASSUME NEW v \in Services, Receive(v)
      PROVE  LiveInv'
  <2>1. UNCHANGED <<conn, rooms, task, snap, status, origin, unsent>>
    BY <1>6 DEF Receive, socketVars, statusVars
  <2>2. ASSUME NEW s \in Sockets, NEW k \in 1..status, pushed[s][k] > 0
        PROVE  pushed'[s][k] > 0
    <3>1. PICK h \in Messages : h = Head(channel[v])
      BY <1>6, Received DEF Receive, Taken
    <3>2. h.n \in 1..MaxTraffic
      BY DEF Messages
    <3>3. k \in 1..MaxTraffic /\ pushed[s][k] \in Nat
      <4>1. status \in 0..MaxTraffic /\ MaxTraffic \in Nat
        BY GatewayAssumption DEF TypeOK
      <4>2. k \in 1..MaxTraffic
        BY <4>1
      <4> QED
        BY <4>2, PushedTyped
    <3>4. UNCHANGED pushed \/ Push(InRoom("track", v), h.n)
      BY <1>6, <3>1 DEF Receive
    <3>5. CASE Push(InRoom("track", v), h.n)
      <4>1. pushed'[s][k] = IF s \in InRoom("track", v) /\ k = h.n THEN pushed[s][k] + 1
                            ELSE pushed[s][k]
        BY <3>2, <3>3, <3>5, PushTyped
      <4> QED
        BY <2>2, <3>3, <4>1
    <3> QED
      BY <2>2, <3>4, <3>5
  <2> QED
    BY <2>1, <2>2, LiveKept DEF Watching, Knows, Present, Due
<1>7. ASSUME NEW v \in Services, Restart(v)
      PROVE  LiveInv'
  <2>1. /\ UNCHANGED <<status, origin, snap, pushed>> /\ rooms' \subseteq rooms
        /\ conn' = [s \in Sockets |-> IF conn[s] = v THEN Gone ELSE conn[s]]
        /\ task' = [s \in Sockets |-> IF conn[s] = v THEN Idle ELSE task[s]]
        /\ unsent' = {p \in unsent : p[1] # v}
    BY <1>7 DEF Restart, viewVars
  <2>2. \A x \in Sockets : Present(x)' => conn'[x] = conn[x] /\ conn[x] # v /\ task'[x] = task[x]
    BY <2>1, GatewayAssumption DEF Present
  <2>3. \A x \in Sockets : Watching(x)' => Watching(x)
    BY <2>1, <2>2 DEF Watching, Present, Due
  <2>4. \A x \in Sockets, n \in 1..status : Watching(x)' /\ Knows(x, n) => Knows(x, n)'
    BY <2>1, <2>2 DEF Knows, Watching
  <2> QED
    BY <2>1, <2>2, <2>3, <2>4, LiveKept DEF Watching
<1>8. ASSUME NEW v \in Services, EmitToRider(v) \/ EmitSystemChatMessage(v) \/ Lose(v)
      PROVE  LiveInv'
  BY <1>8 DEF EmitToRider, EmitSystemChatMessage, Store, Lose, socketVars, statusVars, viewVars,
              LiveInv, Watching, Knows, Present, Due
<1>9. ASSUME NEW m, EmitMessage(m)
      PROVE  LiveInv'
  BY <1>9 DEF EmitMessage, socketVars, statusVars, viewVars, LiveInv, Watching, Knows, Present, Due
<1> QED
  BY <1>1, <1>2, <1>3, <1>4, <1>5, <1>6, <1>7, <1>8, <1>9 DEF Next

LEMMA ChatTracks ==
    ASSUME TypeOK, ChatInv, NEW s \in Sockets, Tracks(s)
    PROVE  ChatInv'
<1>1. UNCHANGED <<conn, chat, unseen, shown, cut>>
  BY TracksFrame DEF chatVars
<1>2. \A x \in Sockets : <<"chat", x>> \in rooms' => <<"chat", x>> \in rooms
  BY DEF Tracks, TrackingSubscribe, JoinTracking, SendStatus,
         TrackingUnsubscribe, AdminSubscribeLive, SendSnapshot, AdminUnsubscribeLive
<1>3. \A x \in Sockets : InChat(x)' => InChat(x)
  BY <1>1, <1>2, TracksTasks DEF InChat, Present
<1> QED
  BY <1>1, <1>3, ChatKept DEF Has

(* The message is on its way to all who are in the room.                   *)
LEMMA StoreChat ==
    ASSUME TypeOK, ChatInv, NEW v \in Services, Store(v)
    PROVE  ChatInv'
<1>1. /\ UNCHANGED <<conn, rooms, task, shown, cut>>
      /\ unseen' = unseen \union {Len(chat) + 1}
  BY DEF Store, socketVars
<1>2. /\ Numbers(chat)' = Numbers(chat) \union {Len(chat) + 1}
      /\ \A m \in Numbers(chat) : chat'[m] = chat[m]
  BY StoreTyped
<1>3. ASSUME NEW s \in Sockets, InChat(s), NEW m \in Numbers(chat)', chat'[m] = conn[s]
      PROVE  Has(s, m)'
  <2>1. CASE m = Len(chat) + 1
    BY <1>1, <2>1 DEF Has
  <2>2. CASE m \in Numbers(chat)
    <3>1. Has(s, m)
      BY <1>2, <1>3, <2>2 DEF ChatInv
    <3> QED
      BY <1>1, <3>1 DEF Has
  <2> QED
    BY <1>2, <1>3, <2>1, <2>2
<1> QED
  BY <1>1, <1>3 DEF ChatInv, InChat, Present, Due

LEMMA ChatChats ==
    ASSUME TypeOK, HandlerInv, ChatInv, NEW s \in Sockets, Chats(s)
    PROVE  ChatInv'
<1>1. /\ shown \in [Sockets -> SUBSET Numbers(chat)] /\ cut \in [Sockets -> SUBSET Numbers(chat)]
      /\ task \in [Sockets -> TaskType] /\ task[s].todo \in Handlers
  BY DEF TypeOK, TaskType, HandlerInv
<1>2. CASE ChatSendMessage(s)
  <2>1. conn[s] \in Services /\ Store(conn[s])
    BY <1>2 DEF ChatSendMessage, Present
  <2> QED
    BY <2>1, StoreChat
<1>3. CASE ChatJoin(s) \/ ChatLeave(s)
  <2>1. UNCHANGED <<conn, chat, unseen, shown, cut>> /\ rooms' \subseteq rooms
    BY <1>3 DEF ChatJoin, ChatLeave, chatVars
  <2>2. \A x \in Sockets : task'[x] = task[x] \/ (x = s /\ task[s] = Idle)
    BY <1>1, <1>3 DEF ChatJoin, ChatLeave, Start, Free
  <2>3. \A x \in Sockets : InChat(x)' => InChat(x)
    BY <2>1, <2>2, NotDue DEF InChat, Present, Due
  <2> QED
    BY <2>1, <2>3, ChatKept DEF Has, InChat
<1>4. CASE EnterChat(s)
  <2>1. /\ UNCHANGED <<conn, chat, unseen, shown, cut>>
        /\ \A x \in Sockets \ {s} : <<"chat", x>> \in rooms' => <<"chat", x>> \in rooms
    BY <1>4 DEF EnterChat, chatVars
  <2>2. \A x \in Sockets \ {s} : task'[x] = task[x]
    BY <1>1, <1>4 DEF EnterChat, Done
  <2>3. InChat(s)' => InChat(s)
    <3>1. ~Due(s, "history") /\ Tail(task[s].todo) = <<"history">>
      BY <1>1, <1>4, StepsOf, NotDue DEF EnterChat, Due
    <3>2. CASE Done(s)
      <4>1. task[s] \in TaskType
        BY <1>1
      <4>2. task'[s].todo = Tail(task[s].todo)
        BY <1>1, <3>2, <4>1 DEF Done, TaskType
      <4>3. <<"history">> # <<>> /\ Head(<<"history">>) = "history"
        OBVIOUS
      <4>4. Due(s, "history")'
        BY <3>1, <4>2, <4>3 DEF Due
      <4> QED
        BY <4>4 DEF InChat
    <3>3. CASE UNCHANGED rooms
      BY <2>1, <3>1, <3>3 DEF InChat, Present
    <3> QED
      BY <1>4, <3>2, <3>3 DEF EnterChat
  <2>4. \A x \in Sockets : InChat(x)' => InChat(x)
    BY <2>1, <2>2, <2>3 DEF InChat, Present, Due
  <2> QED
    BY <2>1, <2>4, ChatKept DEF Has, InChat
<1>5. CASE SendHistory(s)
  <2>1. UNCHANGED <<conn, rooms, chat, unseen>>
    BY <1>5 DEF SendHistory
  <2>2. \A x \in Sockets \ {s} : task'[x] = task[x]
    BY <1>1, <1>5 DEF SendHistory, Done
  <2>3. /\ Present(s) => Numbers(chat) \subseteq shown'[s] \union cut'[s]
        /\ \A x \in Sockets : shown[x] \subseteq shown'[x] /\ cut[x] \subseteq cut'[x]
    BY <1>1, <1>5 DEF SendHistory
  <2>4. \A x \in Sockets \ {s} : InChat(x)' => InChat(x)
    BY <2>1, <2>2 DEF InChat, Present, Due
  <2>5. InChat(s)' => Present(s)
    BY <2>1 DEF InChat, Present
  <2> QED
    BY <2>1, <2>3, <2>4, <2>5, ChatKept DEF Has, InChat
<1> QED
  BY <1>2, <1>3, <1>4, <1>5 DEF Chats

LEMMA ChatStep ==
    ASSUME TypeOK, HandlerInv, ChatInv, Next
    PROVE  ChatInv'
<1>1. ASSUME NEW s \in Sockets, NEW u \in Users, Authenticate(s, u)
      PROVE  ChatInv'
  BY <1>1 DEF Authenticate, chatVars, ChatInv, InChat, Has, Present, Due, Numbers
<1>2. ASSUME NEW s \in Sockets, Disconnect(s)
      PROVE  ChatInv'
  <2>1. /\ UNCHANGED <<chat, unseen, shown, cut, task>> /\ rooms' \subseteq rooms
        /\ conn' = [conn EXCEPT ![s] = Gone] /\ conn \in [Sockets -> Services \union {Gone}]
    BY <1>2 DEF Disconnect, chatVars, TypeOK
  <2>2. \A x \in Sockets : Present(x)' => conn'[x] = conn[x]
    BY <2>1, GatewayAssumption DEF Present
  <2>3. \A x \in Sockets : InChat(x)' => InChat(x) /\ conn'[x] = conn[x]
    BY <2>1, <2>2 DEF InChat, Present, Due
  <2> QED
    BY <2>1, <2>3, ChatKept DEF Has
<1>3. ASSUME NEW s \in Sockets, Tracks(s) \/ Chats(s)
      PROVE  ChatInv'
  BY <1>3, ChatTracks, ChatChats
<1>4. ASSUME NEW v \in Services, NEW n \in 1..MaxTraffic, EmitDeliveryStatusUpdate(v, n)
      PROVE  ChatInv'
  BY <1>4 DEF EmitDeliveryStatusUpdate, socketVars, chatVars, ChatInv, InChat, Has, Present, Due, Numbers
<1>5. ASSUME NEW v \in Services, SaveStatus(v) \/ EmitToRider(v) \/ Receive(v) \/ Lose(v)
      PROVE  ChatInv'
  BY <1>5 DEF SaveStatus, EmitToRider, Receive, Lose, socketVars, chatVars,
              ChatInv, InChat, Has, Present, Due, Numbers
<1>6. ASSUME NEW v \in Services, EmitSystemChatMessage(v)
      PROVE  ChatInv'
  BY <1>6, StoreChat DEF EmitSystemChatMessage
<1>7. ASSUME NEW v \in Services, Restart(v)
      PROVE  ChatInv'
  <2>1. /\ UNCHANGED <<chat, shown, cut>> /\ rooms' \subseteq rooms
        /\ conn' = [s \in Sockets |-> IF conn[s] = v THEN Gone ELSE conn[s]]
        /\ task' = [s \in Sockets |-> IF conn[s] = v THEN Idle ELSE task[s]]
        /\ unseen' = {m \in unseen : chat[m] # v}
    BY <1>7 DEF Restart
  <2>2. \A x \in Sockets : Present(x)' =>
           Present(x) /\ conn'[x] = conn[x] /\ conn[x] # v /\ task'[x] = task[x]
    BY <2>1, GatewayAssumption DEF Present
  <2>3. \A x \in Sockets : InChat(x)' => InChat(x) /\ conn'[x] = conn[x] /\ conn[x] # v
    BY <2>1, <2>2 DEF InChat, Due
  <2> QED
    BY <2>1, <2>3, ChatKept DEF Has
<1>8. ASSUME NEW m, EmitMessage(m)
      PROVE  ChatInv'
  <2>1. /\ UNCHANGED <<conn, rooms, task, chat, cut>> /\ unseen' = unseen \ {m}
        /\ shown' = [s \in Sockets |-> IF s \in InRoom("chat", chat[m]) THEN shown[s] \union {m}
                                       ELSE shown[s]]
    BY <1>8 DEF EmitMessage, socketVars
  <2>2. \A x \in Sockets : InChat(x)' => InChat(x)
    BY <2>1 DEF InChat, Present, Due
  <2>3. ASSUME NEW x \in Sockets, InChat(x), NEW k \in Numbers(chat), chat[k] = conn[x], Has(x, k)
        PROVE  Has(x, k)'
    <3>1. CASE k = m
      <4>1. x \in InRoom("chat", chat[m])
        BY <2>3, <3>1 DEF InRoom, On, InChat
      <4> QED
        BY <2>1, <3>1, <4>1 DEF Has
    <3>2. CASE k # m
      BY <2>1, <2>3, <3>2 DEF Has
    <3> QED
      BY <3>1, <3>2
  <2> QED
    BY <2>1, <2>2, <2>3, ChatKept
<1> QED
  BY <1>1, <1>2, <1>3, <1>4, <1>5, <1>6, <1>7, <1>8 DEF Next

-----------------------------------------------------------------------------
(* The invariant. *)

LEMMA InitInv == Init => GatewayInv
<1> SUFFICES ASSUME Init PROVE GatewayInv
  OBVIOUS
<1>1. 0 \in 0..MaxTraffic /\ 0 \in 0..MaxRequests /\ -1 \in -1..MaxTraffic
      /\ MaxTraffic \in Nat
  BY GatewayAssumption
<1>2. chat = <<>> /\ Len(chat) = 0 /\ Numbers(chat) = {} /\ <<>> \in Seq(Services) /\ <<>> \in Seq(Messages)
  BY DEF Init, Numbers
<1>3. SocketTyped
  BY <1>1, StepsTyped DEF Init, SocketTyped
<1>4. StatusTyped
  BY <1>1, <1>2 DEF Init, StatusTyped
<1>5. ChannelTyped
  BY <1>1, <1>2 DEF Init, ChannelTyped
<1>6. ChatTyped
  BY <1>2 DEF Init, ChatTyped
<1>7. ViewTyped
  BY <1>1 DEF Init, ViewTyped
<1>8. TypeOK
  BY <1>3, <1>4, <1>5, <1>6, <1>7, TypeParts
<1>9. \A v \in Services : DOMAIN channel[v] = {}
  BY DEF Init
<1>10. RegistryAgrees /\ RegistrySound
  BY DEF Init, RegistryAgrees, RegistrySound
<1>11. EventInv
  BY <1>9 DEF Init, EventInv
<1>12. UnsentSound /\ QueuesSound
  BY <1>9 DEF Init, UnsentSound, QueuesSound, OnceOnly
<1>13. PushedOnce
  BY DEF Init, PushedOnce
<1>14. AllArrive
  BY DEF Init, AllArrive, Tracked
<1>15. HandlerInv
  <2>1. status = 0 /\ \A s \in Sockets : task[s] = Idle /\ snap[s] = -1
    BY DEF Init
  <2>2. HandlerSound(Idle, -1)
    BY <2>1, StepsTyped, HandlerAtRest
  <2> QED
    BY <2>1, <2>2, HandlerParts
<1>16. LiveInv /\ ChatInv
  BY DEF Init, LiveInv, ChatInv, Watching, InChat
<1> QED
  BY <1>8, <1>10, <1>11, <1>12, <1>13, <1>14, <1>15, <1>16, UpdateParts, MissedParts DEF GatewayInv

LEMMA StepInv == GatewayInv /\ [Next]_vars => GatewayInv'
<1> SUFFICES ASSUME GatewayInv, [Next]_vars PROVE GatewayInv'
  OBVIOUS
<1>1. TypeOK /\ RegistryAgrees /\ RegistrySound /\ EventInv /\ UpdateInv /\ HandlerInv
      /\ LiveInv /\ ChatInv
  BY MissedParts DEF GatewayInv
<1>2. CASE Next
  <2>1. TypeOK' /\ RegistryAgrees' /\ RegistrySound'
    BY <1>1, <1>2, TypeStep, RegistryStep
  <2>2. EventInv' /\ UpdateInv' /\ HandlerInv' /\ LiveInv' /\ ChatInv'
    BY <1>1, <1>2, EventStep, UpdateStep, HandlerStep, LiveStep, ChatStep
  <2> QED
    BY <2>1, <2>2, MissedParts DEF GatewayInv
<1>3. CASE UNCHANGED vars
  <2>1. UNCHANGED <<socketVars, statusVars, chatVars, viewVars, eventVars, faultVars, channel, requests>>
    BY <1>3 DEF vars
  <2>2. TypeOK'
    BY <1>1, <2>1 DEF TypeOK, Numbers, socketVars, statusVars, chatVars, viewVars, eventVars, faultVars
  <2>3. RegistryAgrees' /\ RegistrySound'
    BY <1>1, <2>1 DEF RegistryAgrees, RegistrySound, Present, socketVars, faultVars
  <2>4. EventInv'
    BY <1>1, <2>1, EventKept DEF socketVars, faultVars
  <2>5. UpdateInv'
    BY <1>1, <2>1, UpdateKept DEF socketVars, viewVars, faultVars
  <2>6. HandlerInv'
    BY <1>1, <2>1 DEF HandlerInv, socketVars, statusVars, viewVars
  <2>7. LiveInv' /\ ChatInv'
    BY <1>1, <2>1 DEF LiveInv, ChatInv, Watching, InChat, Knows, Has, Present, Due, Numbers,
                      socketVars, statusVars, chatVars, viewVars
  <2> QED
    BY <2>2, <2>3, <2>4, <2>5, <2>6, <2>7, MissedParts DEF GatewayInv
<1> QED
  BY <1>2, <1>3

LEMMA AlwaysInv == Spec => []GatewayInv
  BY InitInv, StepInv, PTL DEF Spec

-----------------------------------------------------------------------------
(* Sockets, rooms, handlers, messages and counts stay what the gateway     *)
(* knows of, whatever comes over the sockets and the channel.              *)
THEOREM GatewayTyped == Spec => []TypeOK
<1>1. GatewayInv => TypeOK
  BY DEF GatewayInv
<1> QED
  BY <1>1, AlwaysInv, PTL

(* An event for the rider gets to each socket he had when it was emitted,  *)
(* on whichever service, unless the channel lost a message or a process    *)
(* restarted: emitToUser, the handler of the bridge, and userSockets.      *)
THEOREM UserIsReachedHolds == Spec => []UserIsReached
<1>1. GatewayInv => UserIsReached
  BY DEF GatewayInv, EventInv, EventSound, UserIsReached
<1> QED
  BY <1>1, AlwaysInv, PTL

(* A status update gets to every socket that tracked the delivery when it  *)
(* was saved, unless something was lost, and to none of them twice:        *)
(* emitDeliveryStatusUpdate and the handler that drops one's own messages. *)
THEOREM UpdatesArriveOnceHolds == Spec => []UpdatesArriveOnce
<1>1. GatewayInv => UpdatesArriveOnce
  BY DEF GatewayInv, UpdateInv
<1> QED
  BY <1>1, AlwaysInv, PTL

(* Nothing of its own service falls between what a socket is sent when it  *)
(* joins the live room or the chat and what it is sent in the room:        *)
(* onAdminSubscribeLive, onChatJoin, onChatSendMessage.                    *)
THEOREM NothingMissedHolds == Spec => []NothingMissed
<1>1. GatewayInv => NothingMissed
  BY DEF GatewayInv
<1> QED
  BY <1>1, AlwaysInv, PTL

-----------------------------------------------------------------------------
(***************************************************************************)
(* Feedback.                                                               *)
(*                                                                         *)
(* The invariants are inductive with what requests in progress know: who   *)
(* is about to create or to mark, whose average counts every rating, and   *)
(* whose dispute has had no other hand on it since.                        *)
(***************************************************************************)
Places      == {"idle"} \union Rating \union Opening \union OnDispute
RequestType == [at : Places, del : Deliveries \union {NoDelivery}, doc : Nat, score : Int,
                read : Int, status : Statuses, avg : AverageType, alone : BOOLEAN]
RatingType  == [del : Deliveries, score : Scores]
DisputeType == [del : Deliveries, status : Statuses, words : Nat]

(* A request works on a delivery, a rating or a dispute that there is, and *)
(* marks a delivery after it created the document.                         *)
Fits(r) ==
    /\ r.at \in {"create", "mark"} \union Opening => r.del \in Deliveries
    /\ r.at \in {"create", "update"} => r.score \in Scores
    /\ r.at = "mark" => RatingsOf(r.del) # {}
    /\ r.at = "refer" => DisputesOf(r.del) # {}
    /\ r.at = "update" => r.doc \in DOMAIN ratings
    /\ r.at \in OnDispute => r.doc \in DOMAIN disputes

RequestsOK == req \in [Requests -> RequestType] /\ \A q \in Requests : Fits(req[q])
Base       == FeedbackTypeOK /\ RequestsOK /\ MarksAreBacked

(* Whether q rates delivery d and has not marked it yet, or opens a        *)
(* dispute about it and has not created it yet.                            *)
Rates(q, d) == req[q].at \in {"create", "mark"} /\ req[q].del = d
Opens(q, d) == At(q, "open") /\ req[q].del = d

(* A delivery without a mark or a request about to set it has no rating,   *)
(* and where one is about to be created there is none either.              *)
RatesAlone(d) ==
    /\ \A p, q \in Requests : Rates(p, d) /\ Rates(q, d) => p = q
    /\ \A q \in Requests : Rates(q, d) /\ At(q, "create") => RatingsOf(d) = {}
    /\ RatingsOf(d) # {} => isRated[d] \/ \E q \in Requests : Rates(q, d)
    /\ Cardinality(RatingsOf(d)) <= 1

OpensAlone(d) ==
    /\ \A p, q \in Requests : Opens(p, d) /\ Opens(q, d) => p = q
    /\ \A q \in Requests : Opens(q, d) => DisputesOf(d) = {}
    /\ Cardinality(DisputesOf(d)) <= 1

RatedInv    == \A d \in Deliveries \ doubled : RatesAlone(d)
DisputedInv == \A d \in Deliveries \ raced : OpensAlone(d)

(* The average that a request computed alone is the current one, and the   *)
(* saved one is as long as nobody owes another.                            *)
Busy(q) == req[q].at \in Rating

AloneInv ==
    \A q \in Requests :
        req[q].alone => /\ At(q, "save")
                        /\ \A p \in Requests \ {q} : ~Busy(p)
                        /\ req[q].avg = RiderAverage

OwedInv ==
    ~owed => /\ \A p, q \in Requests : Busy(p) /\ Busy(q) => p = q
             /\ (\A q \in Requests : ~Busy(q)) => average = RiderAverage
             /\ \A q \in Requests :
                   /\ At(q, "save") => req[q].alone
                   /\ At(q, "update") => /\ average = RiderAverage
                                         /\ ratings[req[q].doc].score = req[q].read

AverageInv == AloneInv /\ OwedInv

(* Who knows a dispute knows its status, unless it is stale.               *)
KnowsIt(q) ==
    req[q].at \in OnDispute /\ req[q].doc \notin stale =>
        IF At(q, "assign") THEN req[q].status = disputes[req[q].doc].status
        ELSE ~Closed(disputes[req[q].doc])

DisputeInv == \A q \in Requests : KnowsIt(q)

-----------------------------------------------------------------------------
(* Requests and documents. *)

(* Two states of a request that work on the same.                          *)
SameWork(a, b) == a.at = b.at /\ a.del = b.del /\ a.doc = b.doc /\ a.score = b.score

(* Every rating and every dispute stays where it is.                       *)
Grows ==
    /\ DOMAIN ratings \subseteq DOMAIN ratings'
    /\ DOMAIN disputes \subseteq DOMAIN disputes'
    /\ \A d \in Deliveries : /\ RatingsOf(d) \subseteq RatingsOf(d)'
                             /\ DisputesOf(d) \subseteq DisputesOf(d)'

LEMMA NoRequestFits == NoRequest \in RequestType /\ \A r : r = NoRequest => Fits(r)
<1>1. "open" \in Statuses
  BY FeedbackAssumption
<1>2. NoAverage \in AverageType
  BY DEF NoAverage, AverageType
<1>3. NoRequest \in RequestType
  BY <1>1, <1>2 DEF NoRequest, RequestType, Places
<1>4. NoRequest.at = "idle"
  BY DEF NoRequest
<1> QED
  BY <1>3, <1>4 DEF Fits, Rating, Opening, OnDispute

(* Moving a request on changes where it is and nothing else.               *)
LEMMA GoesTo ==
    ASSUME req \in [Requests -> RequestType], NEW q \in Requests, NEW l \in Places, Goto(q, l)
    PROVE  /\ req' \in [Requests -> RequestType]
           /\ \A p \in Requests \ {q} : req'[p] = req[p]
           /\ req'[q].at = l /\ req'[q].del = req[q].del /\ req'[q].doc = req[q].doc
           /\ req'[q].score = req[q].score /\ req'[q].read = req[q].read
           /\ req'[q].status = req[q].status /\ req'[q].avg = req[q].avg
           /\ req'[q].alone = req[q].alone
  BY DEF Goto, RequestType

LEMMA Finishes ==
    ASSUME req \in [Requests -> RequestType], NEW q \in Requests, Finish(q)
    PROVE  /\ req' \in [Requests -> RequestType]
           /\ \A p \in Requests \ {q} : req'[p] = req[p]
           /\ req'[q] = NoRequest
  BY NoRequestFits DEF Finish

LEMMA RatingAppended ==
    ASSUME ratings \in Seq(RatingType), NEW x \in RatingType, ratings' = Append(ratings, x)
    PROVE  /\ ratings' \in Seq(RatingType)
           /\ DOMAIN ratings \subseteq DOMAIN ratings' /\ Len(ratings) + 1 \notin DOMAIN ratings
           /\ \A d \in Deliveries :
                 RatingsOf(d)' = IF x.del = d THEN RatingsOf(d) \union {Len(ratings) + 1}
                                              ELSE RatingsOf(d)
<1>1. /\ ratings' \in Seq(RatingType) /\ Len(ratings') = Len(ratings) + 1 /\ Len(ratings) \in Nat
      /\ DOMAIN ratings = 1..Len(ratings) /\ DOMAIN ratings' = 1..(Len(ratings) + 1)
      /\ \A i \in DOMAIN ratings : ratings'[i] = ratings[i]
      /\ ratings'[Len(ratings) + 1] = x
  OBVIOUS
<1>2. DOMAIN ratings' = DOMAIN ratings \union {Len(ratings) + 1}
  BY <1>1
<1> QED
  BY <1>1, <1>2 DEF RatingsOf

LEMMA DisputeAppended ==
    ASSUME disputes \in Seq(DisputeType), NEW x \in DisputeType, disputes' = Append(disputes, x)
    PROVE  /\ disputes' \in Seq(DisputeType)
           /\ DOMAIN disputes \subseteq DOMAIN disputes' /\ Len(disputes) + 1 \notin DOMAIN disputes
           /\ \A i \in DOMAIN disputes : disputes'[i] = disputes[i]
           /\ \A d \in Deliveries :
                 DisputesOf(d)' = IF x.del = d THEN DisputesOf(d) \union {Len(disputes) + 1}
                                               ELSE DisputesOf(d)
<1>1. /\ disputes' \in Seq(DisputeType) /\ Len(disputes') = Len(disputes) + 1 /\ Len(disputes) \in Nat
      /\ DOMAIN disputes = 1..Len(disputes) /\ DOMAIN disputes' = 1..(Len(disputes) + 1)
      /\ \A i \in DOMAIN disputes : disputes'[i] = disputes[i]
      /\ disputes'[Len(disputes) + 1] = x
  OBVIOUS
<1>2. DOMAIN disputes' = DOMAIN disputes \union {Len(disputes) + 1}
  BY <1>1
<1> QED
  BY <1>1, <1>2 DEF DisputesOf

(* Changing a score, a status or the words leaves every document where it  *)
(* is and with its delivery.                                               *)
LEMMA RatingChanged ==
    ASSUME ratings \in Seq(RatingType), NEW i \in DOMAIN ratings, NEW n \in Scores,
           ratings' = [ratings EXCEPT ![i].score = n]
    PROVE  /\ ratings' \in Seq(RatingType) /\ DOMAIN ratings' = DOMAIN ratings
           /\ \A d \in Deliveries : RatingsOf(d)' = RatingsOf(d)
           /\ ratings'[i].score = n
           /\ \A j \in DOMAIN ratings \ {i} : ratings'[j] = ratings[j]
           /\ ratings[i].score = n => ratings' = ratings
<1>1. DOMAIN ratings = 1..Len(ratings) /\ Len(ratings) \in Nat
  OBVIOUS
<1>2. ratings \in [1..Len(ratings) -> RatingType]
  BY <1>1
<1>3. PICK x : x = [ratings[i] EXCEPT !.score = n]
  OBVIOUS
<1>4. /\ x \in RatingType /\ x.del = ratings[i].del /\ x.score = n
      /\ ratings[i].score = n => x = ratings[i]
  BY <1>2, <1>3, <1>1 DEF RatingType
<1>5. ratings' = [ratings EXCEPT ![i] = x]
  BY <1>3
<1>6. ratings' \in [1..Len(ratings) -> RatingType]
  BY <1>2, <1>4, <1>5
<1>7. ratings' \in Seq(RatingType) /\ DOMAIN ratings' = DOMAIN ratings
  BY <1>1, <1>6
<1>8. \A j \in DOMAIN ratings : ratings'[j].del = ratings[j].del
  BY <1>2, <1>4, <1>5
<1>9. \A d \in Deliveries : RatingsOf(d)' = RatingsOf(d)
  BY <1>7, <1>8 DEF RatingsOf
<1>10. ratings[i].score = n => ratings' = ratings
  BY <1>2, <1>4, <1>5
<1> QED
  BY <1>2, <1>4, <1>5, <1>7, <1>9, <1>10

LEMMA DisputeChanged ==
    ASSUME disputes \in Seq(DisputeType), NEW i \in DOMAIN disputes, NEW x \in DisputeType,
           x.del = disputes[i].del, disputes' = [disputes EXCEPT ![i] = x]
    PROVE  /\ disputes' \in Seq(DisputeType) /\ DOMAIN disputes' = DOMAIN disputes
           /\ \A d \in Deliveries : DisputesOf(d)' = DisputesOf(d)
           /\ disputes'[i] = x
           /\ \A j \in DOMAIN disputes \ {i} : disputes'[j] = disputes[j]
<1>1. DOMAIN disputes = 1..Len(disputes) /\ Len(disputes) \in Nat
  OBVIOUS
<1>2. disputes \in [1..Len(disputes) -> DisputeType]
  BY <1>1
<1>3. disputes' \in [1..Len(disputes) -> DisputeType]
  BY <1>2
<1>4. disputes' \in Seq(DisputeType) /\ DOMAIN disputes' = DOMAIN disputes
  BY <1>1, <1>3
<1>5. \A j \in DOMAIN disputes : disputes'[j].del = disputes[j].del
  BY <1>2
<1>6. \A d \in Deliveries : DisputesOf(d)' = DisputesOf(d)
  BY <1>4, <1>5 DEF DisputesOf
<1> QED
  BY <1>2, <1>4, <1>6
-----------------------------------------------------------------------------
(* The average lies in the range of the scores. *)

(* A non-empty set of finite sets has a smallest one: the way around the   *)
(* library's induction over finite sets, which takes an operator.          *)
LEMMA SmallestSet ==
    ASSUME NEW F, F # {}, \A A \in F : IsFiniteSet(A)
    PROVE  \E A \in F : \A B \in F : B \subseteq A => B = A
<1> DEFINE U == UNION F
<1>1. F \subseteq FiniteSubsetsOf(U)
  BY DEF FiniteSubsetsOf
<1>2. PICK A \in F : \A B \in F : <<B, A>> \notin StrictSubsetOrdering(U)
  BY <1>1, WFMin, FS_StrictSubsetOrderingWellFounded
<1> QED
  BY <1>2 DEF StrictSubsetOrdering

LEMMA HasLargest ==
    ASSUME NEW S \in SUBSET Int, IsFiniteSet(S), S # {}
    PROVE  Max(S) \in S /\ \A y \in S : Max(S) >= y
<1> DEFINE HasMax(T) == \E x \in T : \A y \in T : x >= y
           F == {T \in SUBSET S : T # {} /\ ~HasMax(T)}
<1>1. SUFFICES ASSUME F # {} PROVE FALSE
  <2>1. ASSUME F = {} PROVE Max(S) \in S /\ \A y \in S : Max(S) >= y
    <3>1. HasMax(S)
      BY <2>1
    <3> QED
      BY <3>1 DEF Max
  <2> QED
    BY <2>1
<1>2. \A T \in F : IsFiniteSet(T)
  BY FS_Subset
<1>3. PICK T \in F : \A B \in F : B \subseteq T => B = T
  <2> HIDE DEF F
  <2> QED
    BY <1>1, <1>2, SmallestSet
<1>4. PICK x \in T : TRUE
  BY <1>3
<1>5. T \in SUBSET Int /\ ~HasMax(T) /\ T \in SUBSET S
  BY <1>3
<1>6. CASE T \ {x} = {}
  <2>1. \A y \in T : x >= y
    BY <1>4, <1>5, <1>6
  <2> QED
    BY <2>1, <1>4, <1>5
<1>7. CASE T \ {x} # {}
  <2>1. T \ {x} \in SUBSET S /\ T \ {x} # T
    BY <1>4, <1>5
  <2>2. HasMax(T \ {x})
    BY <2>1, <1>3, <1>7
  <2>3. PICK m \in T \ {x} : \A y \in T \ {x} : m >= y
    BY <2>2
  <2>4. CASE m >= x
    <3>1. \A y \in T : m >= y
      BY <2>3, <2>4
    <3> QED
      BY <3>1, <1>5
  <2>5. CASE ~ (m >= x)
    <3>1. x \in Int /\ m \in Int /\ x >= m
      BY <1>4, <1>5, <2>3, <2>5
    <3>2. \A y \in T : x >= y
      BY <2>3, <3>1, <1>5
    <3> QED
      BY <3>2, <1>4, <1>5
  <2> QED
    BY <2>4, <2>5
<1> QED
  BY <1>6, <1>7

(* What the fold in RiderAverage computes on its way.                      *)
Sums(r, it) ==
    it = [s \in SUBSET DOMAIN r |->
            IF s = {} THEN 0 ELSE it[s \ {Max(s)}] + r[Max(s)].score]

LEMMA LargestRating ==
    ASSUME NEW r \in Seq(RatingType), NEW s \in SUBSET DOMAIN r, s # {}
    PROVE  /\ Max(s) \in s /\ s \ {Max(s)} \in SUBSET DOMAIN r
           /\ \A y \in s : Max(s) >= y
           /\ r[Max(s)].score \in 1..5
           /\ IsFiniteSet(s)
<1>1. DOMAIN r = 1..Len(r) /\ Len(r) \in Nat
  OBVIOUS
<1>2. IsFiniteSet(DOMAIN r)
  BY <1>1, FS_Interval
<1>3. IsFiniteSet(s) /\ s \in SUBSET Int
  BY <1>1, <1>2, FS_Subset
<1>4. Max(s) \in s /\ \A y \in s : Max(s) >= y
  BY <1>3, HasLargest
<1>5. PICK m : m = Max(s)
  OBVIOUS
<1>6. m \in DOMAIN r /\ r[m] \in RatingType
  BY <1>4, <1>5, <1>1
<1>7. r[m].score \in Scores
  BY <1>6 DEF RatingType
<1> QED
  BY <1>3, <1>4, <1>5, <1>6, <1>7, FeedbackAssumption

LEMMA SumsExist ==
    ASSUME NEW r \in Seq(RatingType)
    PROVE  \E it : Sums(r, it)
<1> DEFINE D == DOMAIN r
           SumsOn(S, it) == it = [s \in SUBSET S |->
                                    IF s = {} THEN 0 ELSE it[s \ {Max(s)}] + r[Max(s)].score]
           F == {S \in SUBSET D : ~ \E it : SumsOn(S, it)}
<1>1. SUFFICES ASSUME F # {} PROVE FALSE
  <2>1. ASSUME F = {} PROVE \E it : SumsOn(D, it)
    BY <2>1
  <2> QED
    BY <2>1 DEF Sums
<1>2. \A S \in F : IsFiniteSet(S)
  <2>1. DOMAIN r = 1..Len(r) /\ Len(r) \in Nat
    OBVIOUS
  <2>2. IsFiniteSet(D)
    BY <2>1, FS_Interval
  <2> QED
    BY <2>2, FS_Subset
<1>3. PICK S \in F : \A B \in F : B \subseteq S => B = S
  <2> HIDE DEF F
  <2> QED
    BY <1>1, <1>2, SmallestSet
<1>4. S \in SUBSET D /\ ~ \E it : SumsOn(S, it)
  BY <1>3
<1>5. S # {}
  <2>1. ASSUME S = {} PROVE SumsOn(S, [s \in SUBSET S |-> 0])
    BY <2>1
  <2> HIDE DEF SumsOn
  <2> QED
    BY <2>1, <1>4
<1>6. PICK a : a = Max(S)
  OBVIOUS
<1>7. a \in S /\ \A s \in SUBSET S : a \in s => Max(s) = a
  <2>1. a \in S /\ \A y \in S : a >= y
    BY <1>4, <1>5, <1>6, LargestRating
  <2>2. ASSUME NEW s \in SUBSET S, a \in s PROVE Max(s) = a
    <3>1. Max(s) \in s /\ \A y \in s : Max(s) >= y
      BY <2>2, <1>4, LargestRating
    <3>2. D \subseteq Int
      OBVIOUS
    <3>3. PICK m : m = Max(s)
      OBVIOUS
    <3>4. m \in Int /\ a \in Int /\ m >= a /\ a >= m
      BY <2>1, <2>2, <3>1, <3>2, <3>3, <1>4
    <3> QED
      BY <3>3, <3>4
  <2> QED
    BY <2>1, <2>2
<1>8. S \ {a} \in SUBSET D /\ S \ {a} \notin F
  BY <1>3, <1>4, <1>7
<1>9. PICK g : SumsOn(S \ {a}, g)
  BY <1>8
<1> DEFINE k == [s \in SUBSET S |-> IF a \in s THEN g[s \ {a}] + r[a].score ELSE g[s]]
<1>10. ASSUME NEW s \in SUBSET S, s # {} PROVE k[s] = k[s \ {Max(s)}] + r[Max(s)].score
  <2>1. PICK m : m = Max(s)
    OBVIOUS
  <2>2. m \in s /\ s \ {m} \in SUBSET S
    BY <2>1, <1>10, <1>4, LargestRating
  <2>3. CASE a \in s
    BY <2>1, <2>2, <2>3, <1>7
  <2>4. CASE a \notin s
    <3>1. s \in SUBSET (S \ {a}) /\ s \ {m} \in SUBSET (S \ {a})
      BY <2>4, <1>10
    <3>2. g[s] = g[s \ {m}] + r[m].score
      <4>1. g[s] = IF s = {} THEN 0 ELSE g[s \ {Max(s)}] + r[Max(s)].score
        <5> HIDE DEF k
        <5> QED
          BY <3>1, <1>9
      <4> QED
        BY <4>1, <1>10, <2>1
    <3> QED
      BY <2>1, <2>2, <2>4, <3>2
  <2> QED
    BY <2>3, <2>4
<1>11. k[{}] = 0
  <2>1. g[{}] = 0
    BY <1>9
  <2> QED
    BY <2>1
<1>12. k = [s \in SUBSET S |-> k[s]]
  OBVIOUS
<1>13. SumsOn(S, k)
  <2> HIDE DEF k
  <2> QED
    BY <1>10, <1>11, <1>12
<1> HIDE DEF SumsOn, k
<1> QED
  BY <1>13, <1>4

(* Each score counts at least one and at most five.                        *)
LEMMA SumsBound ==
    ASSUME NEW r \in Seq(RatingType), NEW it, Sums(r, it)
    PROVE  it[DOMAIN r] \in Int /\ it[DOMAIN r] >= Len(r) /\ it[DOMAIN r] <= 5 * Len(r)
<1> DEFINE D == DOMAIN r
           Good(s) == it[s] \in Int /\ it[s] >= Cardinality(s) /\ it[s] <= 5 * Cardinality(s)
           F == {s \in SUBSET D : ~Good(s)}
<1>1. D = 1..Len(r) /\ Len(r) \in Nat
  OBVIOUS
<1>2. IsFiniteSet(D) /\ Cardinality(D) = Len(r)
  <2>1. \A n \in Nat : IsFiniteSet(1..n) /\ Cardinality(1..n) = n
    BY FS_Interval
  <2> QED
    BY <1>1, <2>1
<1>3. SUFFICES ASSUME F # {} PROVE FALSE
  <2>1. ASSUME F = {} PROVE Good(D)
    BY <2>1
  <2> QED
    BY <2>1, <1>2
<1>4. \A s \in F : IsFiniteSet(s)
  BY <1>2, FS_Subset
<1>5. PICK s \in F : \A B \in F : B \subseteq s => B = s
  <2> HIDE DEF F
  <2> QED
    BY <1>3, <1>4, SmallestSet
<1>6. s \in SUBSET D /\ ~Good(s) /\ IsFiniteSet(s)
  BY <1>5, <1>4
<1>7. \A t \in SUBSET D : it[t] = IF t = {} THEN 0 ELSE it[t \ {Max(t)}] + r[Max(t)].score
  BY DEF Sums
<1>8. s # {}
  <2>1. SUFFICES ASSUME s = {} PROVE FALSE
    OBVIOUS
  <2>2. it[{}] = 0 /\ Cardinality({}) = 0
    BY <1>7, FS_EmptySet
  <2>3. Good({})
    BY <2>2
  <2> HIDE DEF Good
  <2> QED
    BY <2>1, <2>3, <1>6
<1>9. PICK m : m = Max(s)
  OBVIOUS
<1>10. m \in s /\ s \ {m} \in SUBSET D /\ r[m].score \in 1..5
  BY <1>6, <1>8, <1>9, LargestRating
<1>11. Good(s \ {m})
  BY <1>5, <1>10
<1>12. Cardinality(s \ {m}) = Cardinality(s) - 1 /\ Cardinality(s) \in Nat
  BY <1>6, <1>10, FS_RemoveElement, FS_CardinalityType
<1>13. it[s] = it[s \ {m}] + r[m].score
  BY <1>6, <1>7, <1>8, <1>9
<1>14. /\ it[s \ {m}] \in Int /\ it[s \ {m}] >= Cardinality(s) - 1
       /\ it[s \ {m}] <= 5 * (Cardinality(s) - 1)
  BY <1>11, <1>12
<1>15. it[s] \in Int /\ it[s] >= Cardinality(s) /\ it[s] <= 5 * Cardinality(s)
  <2>1. \A x, c, y \in Int : x >= c - 1 /\ x <= 5 * (c - 1) /\ y \in 1..5
           => x + y \in Int /\ x + y >= c /\ x + y <= 5 * c
    OBVIOUS
  <2>2. Cardinality(s) \in Int /\ r[m].score \in 1..5 /\ r[m].score \in Int
    BY <1>10, <1>12
  <2> QED
    BY <1>13, <1>14, <2>1, <2>2
<1> QED
  BY <1>6, <1>15

(* Rounding half up, in tenths.                                            *)
LEMMA Rounds ==
    ASSUME NEW n \in Nat, n > 0, NEW s \in Int, s >= n, s <= 5 * n
    PROVE  (20 * s + n) \div (2 * n) \in 0..50
<1> DEFINE m == 2 * n
           x == 20 * s + n
<1>1. PICK k : k = x \div m
  OBVIOUS
<1>2. m \in Nat /\ m > 0 /\ x \in Nat /\ 2 * x <= 101 * m
  OBVIOUS
<1> HIDE DEF m, x
<1>3. k \in Int /\ k * m <= x /\ x < k * m + m
  BY <1>1, <1>2
<1>4. k >= 0
  <2>1. ASSUME k <= -1 PROVE FALSE
    <3>1. k * m <= (-1) * m
      BY <2>1, <1>2, <1>3
    <3> QED
      BY <3>1, <1>2, <1>3
  <2> QED
    BY <2>1, <1>3
<1>5. k <= 50
  <2>1. ASSUME k >= 51 PROVE FALSE
    <3>1. k * m >= 51 * m
      BY <2>1, <1>2, <1>3
    <3> QED
      BY <3>1, <1>2, <1>3
  <2> QED
    BY <2>1, <1>3
<1> QED
  BY <1>1, <1>3, <1>4, <1>5 DEF m, x

LEMMA AverageTyped ==
    ASSUME ratings \in Seq(RatingType)
    PROVE  RiderAverage \in AverageType
<1> DEFINE n == Len(ratings)
           It(it) == it = [s \in SUBSET DOMAIN ratings |->
                             IF s = {} THEN 0
                             ELSE it[s \ {Max(s)}] + ratings[Max(s)].score]
           f == CHOOSE it : It(it)
           s == FoldLeft(LAMBDA t, r : t + r.score, 0, ratings)
<1>1. s = f[DOMAIN ratings]
  BY Zenon DEF FoldLeft, MapThenFoldSet
<1>2. \A it : It(it) <=> Sums(ratings, it)
  BY DEF Sums
<1>3. RiderAverage = IF n = 0 THEN NoAverage
                     ELSE [tenths |-> (20 * s + n) \div (2 * n), total |-> n]
  BY DEF RiderAverage
<1>4. n \in Nat
  OBVIOUS
<1> HIDE DEF It, s
<1>5. It(f)
  BY <1>2, SumsExist
<1>6. s \in Int /\ s >= n /\ s <= 5 * n
  BY <1>1, <1>2, <1>5, SumsBound
<1>7. CASE n = 0
  BY <1>3, <1>7 DEF NoAverage, AverageType
<1>8. CASE n # 0
  <2>1. n > 0
    BY <1>4, <1>8
  <2>2. PICK t : t = (20 * s + n) \div (2 * n)
    OBVIOUS
  <2>3. t \in 0..50
    BY <2>1, <2>2, <1>4, <1>6, Rounds
  <2> QED
    BY <1>3, <1>4, <1>8, <2>2, <2>3 DEF AverageType
<1> QED
  BY <1>7, <1>8
-----------------------------------------------------------------------------
(* Types, and documents behind every mark. *)

HistoryOK ==
    /\ failures \in 0..MaxFaults
    /\ doubled \subseteq Deliveries
    /\ raced \subseteq Deliveries
    /\ owed \in BOOLEAN
    /\ stale \subseteq DOMAIN disputes

LEMMA BaseTypes ==
    ASSUME Base
    PROVE  /\ req \in [Requests -> RequestType] /\ \A q \in Requests : Fits(req[q])
           /\ ratings \in Seq(RatingType) /\ disputes \in Seq(DisputeType)
           /\ isRated \in [Deliveries -> BOOLEAN] /\ hasDispute \in [Deliveries -> BOOLEAN]
           /\ phase \in [Deliveries -> {"in_transit", "delivered"}]
           /\ average \in AverageType /\ HistoryOK
           /\ failures \in Nat /\ NoDelivery \notin Deliveries
  BY FeedbackAssumption DEF Base, RequestsOK, FeedbackTypeOK, HistoryOK, RatingType, DisputeType

LEMMA StillFits ==
    ASSUME Base, Grows, NEW p \in Requests, SameWork(req'[p], req[p])
    PROVE  Fits(req[p])'
<1>1. Fits(req[p])
  BY BaseTypes
<1> QED
  BY <1>1 DEF Fits, SameWork, Grows, Opening

LEMMA BaseKeeps ==
    ASSUME Base, Grows, req' \in [Requests -> RequestType],
           \A p \in Requests : SameWork(req'[p], req[p]) \/ Fits(req[p])',
           phase' \in [Deliveries -> {"in_transit", "delivered"}],
           isRated' \in [Deliveries -> BOOLEAN], hasDispute' \in [Deliveries -> BOOLEAN],
           ratings' \in Seq(RatingType), average' \in AverageType,
           disputes' \in Seq(DisputeType), HistoryOK',
           \A d \in Deliveries : /\ isRated'[d] => isRated[d] \/ RatingsOf(d)' # {}
                                 /\ hasDispute'[d] => hasDispute[d] \/ DisputesOf(d)' # {}
    PROVE  Base'
<1>1. \A p \in Requests : Fits(req[p])'
  BY StillFits
<1>2. RequestsOK'
  BY <1>1 DEF RequestsOK
<1>3. MarksAreBacked'
  BY DEF Base, MarksAreBacked, Grows
<1>4. \A p \in Requests : req'[p].at \in Places /\ req'[p].avg \in AverageType
  BY DEF RequestType
<1>5. FeedbackTypeOK'
  BY <1>4 DEF FeedbackTypeOK, HistoryOK, RatingType, DisputeType, Places
<1> QED
  BY <1>2, <1>3, <1>5 DEF Base

(* A step of one request that changes no document.                         *)
LEMMA BaseKeepsDocs ==
    ASSUME Base, UNCHANGED docs, req' \in [Requests -> RequestType], HistoryOK',
           \A p \in Requests : SameWork(req'[p], req[p]) \/ Fits(req[p])'
    PROVE  Base'
<1>1. Grows
  BY DEF docs, Grows, RatingsOf, DisputesOf
<1> QED
  BY <1>1, BaseKeeps, BaseTypes DEF docs

LEMMA SameIsSame == \A a : SameWork(a, a)
  BY DEF SameWork

LEMMA NoRequestFitsNext ==
    ASSUME NEW q \in Requests, req'[q] = NoRequest
    PROVE  Fits(req[q])'
<1>1. NoRequest.at = "idle"
  BY DEF NoRequest
<1> QED
  BY <1>1 DEF Fits, Rating, Opening, OnDispute

(* What a rating's request begins with.                                    *)
LEMMA BeginsRating ==
    ASSUME Base, NEW q \in Requests, NEW to \in RequestType, BeginRating(q, to)
    PROVE  /\ req' \in [Requests -> RequestType]
           /\ req'[q] = to /\ At(q, "idle")
           /\ \A p \in Requests \ {q} : /\ SameWork(req'[p], req[p]) /\ ~req'[p].alone
                                        /\ req'[p].read = req[p].read
                                        /\ req'[p].status = req[p].status
           /\ owed' \in BOOLEAN
           /\ ~owed' => ~owed /\ \A p \in Requests \ {q} : ~Busy(p)
<1>1. req \in [Requests -> RequestType] /\ owed \in BOOLEAN
  BY BaseTypes DEF HistoryOK
<1>2. ASSUME NEW p \in Requests \ {q}
      PROVE  /\ [req[p] EXCEPT !.alone = FALSE] \in RequestType
             /\ SameWork([req[p] EXCEPT !.alone = FALSE], req[p])
             /\ ~[req[p] EXCEPT !.alone = FALSE].alone
             /\ [req[p] EXCEPT !.alone = FALSE].read = req[p].read
             /\ [req[p] EXCEPT !.alone = FALSE].status = req[p].status
  <2>1. PICK r \in RequestType : r = req[p]
    BY <1>1
  <2> QED
    BY <2>1 DEF RequestType, SameWork
<1>3. \A p \in Requests : req'[p] = IF p = q THEN to ELSE [req[p] EXCEPT !.alone = FALSE]
  BY DEF BeginRating
<1>4. req' \in [Requests -> RequestType]
  <2>1. \A p \in Requests : (IF p = q THEN to ELSE [req[p] EXCEPT !.alone = FALSE]) \in RequestType
    BY <1>2
  <2> QED
    BY <2>1 DEF BeginRating
<1>5. owed' = (owed \/ Others(q, Rating) # {})
  BY DEF BeginRating
<1>6. ~owed' => ~owed /\ \A p \in Requests \ {q} : ~Busy(p)
  BY <1>1, <1>5 DEF Others, Busy
<1> QED
  BY <1>1, <1>2, <1>3, <1>4, <1>5, <1>6 DEF BeginRating

(* What a dispute's request begins with.                                   *)
LEMMA BeginsDispute ==
    ASSUME Base, NEW q \in Requests, NEW to \in RequestType, BeginDispute(q, to)
    PROVE  /\ req' \in [Requests -> RequestType]
           /\ req'[q] = to /\ At(q, "idle")
           /\ \A p \in Requests \ {q} : req'[p] = req[p]
  BY BaseTypes DEF BeginDispute
LEMMA BaseStartRating ==
    ASSUME Base, NEW q \in Requests, NEW d \in Deliveries, NEW n \in Scores, StartRating(q, d, n)
    PROVE  Base'
<1>1. PICK to : to = [NoRequest EXCEPT !.at = "create", !.del = d, !.score = n]
  OBVIOUS
<1>2. n \in Int
  BY FeedbackAssumption
<1>3. /\ to \in RequestType /\ to.at = "create" /\ to.del = d /\ to.score = n
  BY <1>1, <1>2, NoRequestFits DEF RequestType, NoRequest, Places, Rating
<1>4. BeginRating(q, to) /\ UNCHANGED <<docs, failures, raced, stale>>
  BY <1>1 DEF StartRating
<1>5. /\ req' \in [Requests -> RequestType] /\ req'[q] = to /\ owed' \in BOOLEAN
      /\ \A p \in Requests \ {q} : SameWork(req'[p], req[p])
  BY <1>3, <1>4, BeginsRating
<1>6. doubled' \subseteq Deliveries
  BY BaseTypes DEF StartRating, HistoryOK
<1>7. HistoryOK'
  BY <1>4, <1>5, <1>6, BaseTypes DEF HistoryOK, docs
<1>8. Fits(req[q])'
  BY <1>3, <1>5 DEF Fits, OnDispute
<1> QED
  BY <1>4, <1>5, <1>7, <1>8, BaseKeepsDocs

LEMMA BaseStartUpdate ==
    ASSUME Base, NEW q \in Requests, NEW i \in DOMAIN ratings, NEW n \in Scores, StartUpdate(q, i, n)
    PROVE  Base'
<1>1. PICK to : to = [NoRequest EXCEPT !.at = "update", !.doc = i, !.score = n, !.read = ratings[i].score]
  OBVIOUS
<1>2. n \in Int /\ i \in Nat /\ ratings[i].score \in Int
  <2>1. ratings \in Seq(RatingType)
    BY BaseTypes
  <2>2. ratings[i] \in RatingType /\ i \in Nat
    BY <2>1
  <2>3. ratings[i].score \in Scores
    BY <2>2 DEF RatingType
  <2>4. \A x \in Scores : x \in Int
    BY FeedbackAssumption
  <2> QED
    BY <2>2, <2>3, <2>4
<1>3. /\ to \in RequestType /\ to.at = "update" /\ to.doc = i /\ to.score = n
  BY <1>1, <1>2, NoRequestFits DEF RequestType, NoRequest, Places, Rating
<1>4. BeginRating(q, to) /\ UNCHANGED <<docs, failures, doubled, raced, stale>>
  BY <1>1 DEF StartUpdate
<1>5. /\ req' \in [Requests -> RequestType] /\ req'[q] = to /\ owed' \in BOOLEAN
      /\ \A p \in Requests \ {q} : SameWork(req'[p], req[p])
  BY <1>3, <1>4, BeginsRating
<1>6. HistoryOK'
  BY <1>4, <1>5, BaseTypes DEF HistoryOK, docs
<1>7. Fits(req[q])'
  BY <1>3, <1>4, <1>5 DEF Fits, OnDispute, Opening, docs
<1> QED
  BY <1>4, <1>5, <1>6, <1>7, BaseKeepsDocs

LEMMA CreateRatingDoes ==
    ASSUME Base, NEW q \in Requests, CreateRating(q)
    PROVE  /\ Base'
           /\ req' \in [Requests -> RequestType] /\ req'[q].at = "mark" /\ req'[q].del = req[q].del
           /\ req'[q].alone = req[q].alone
           /\ \A p \in Requests \ {q} : req'[p] = req[p]
           /\ req[q].del \in Deliveries /\ Len(ratings) + 1 \notin DOMAIN ratings
           /\ DOMAIN ratings \subseteq DOMAIN ratings'
           /\ \A d \in Deliveries :
                 RatingsOf(d)' = IF req[q].del = d THEN RatingsOf(d) \union {Len(ratings) + 1}
                                                   ELSE RatingsOf(d)
<1> DEFINE x == [del |-> req[q].del, score |-> req[q].score]
<1>1. req[q].at = "create" /\ Fits(req[q])
  BY BaseTypes DEF CreateRating, At
<1>2. req[q].del \in Deliveries /\ req[q].score \in Scores
  BY <1>1 DEF Fits
<1>3. x \in RatingType /\ x.del = req[q].del
  BY <1>2 DEF RatingType
<1>4. ratings' = Append(ratings, x) /\ Goto(q, "mark")
  BY DEF CreateRating
<1>5. UNCHANGED <<phase, isRated, hasDispute, average, disputes, history>>
  BY DEF CreateRating
<1> HIDE DEF x
<1>6. /\ ratings' \in Seq(RatingType)
      /\ DOMAIN ratings \subseteq DOMAIN ratings' /\ Len(ratings) + 1 \notin DOMAIN ratings
      /\ \A d \in Deliveries :
            RatingsOf(d)' = IF req[q].del = d THEN RatingsOf(d) \union {Len(ratings) + 1}
                                              ELSE RatingsOf(d)
  BY <1>3, <1>4, BaseTypes, RatingAppended
<1>7. "mark" \in Places
  BY DEF Places, Rating
<1>8. /\ req' \in [Requests -> RequestType] /\ req'[q].at = "mark" /\ req'[q].del = req[q].del
      /\ req'[q].alone = req[q].alone
      /\ \A p \in Requests \ {q} : req'[p] = req[p]
  BY <1>4, <1>7, BaseTypes, GoesTo
<1>9. Grows
  BY <1>5, <1>6 DEF Grows, DisputesOf
<1>10. Fits(req[q])'
  BY <1>2, <1>6, <1>8 DEF Fits, OnDispute, Opening
<1>11. HistoryOK'
  BY <1>5, BaseTypes DEF HistoryOK, history
<1>12. \A p \in Requests : SameWork(req'[p], req[p]) \/ Fits(req[p])'
  BY <1>8, <1>10, SameIsSame
<1>13. Base'
  BY <1>5, <1>6, <1>8, <1>9, <1>11, <1>12, BaseTypes, BaseKeeps
<1> QED
  BY <1>2, <1>6, <1>8, <1>13

LEMMA UpdateDeliveryRatingDoes ==
    ASSUME Base, NEW q \in Requests, UpdateDeliveryRating(q)
    PROVE  /\ Base'
           /\ req'[q].at = "aggregate" /\ req'[q].alone = req[q].alone
           /\ \A p \in Requests \ {q} : req'[p] = req[p]
           /\ req[q].del \in Deliveries /\ isRated'[req[q].del]
           /\ \A d \in Deliveries : isRated[d] => isRated'[d]
<1>1. req[q].at = "mark" /\ Fits(req[q])
  BY BaseTypes DEF UpdateDeliveryRating, At
<1>2. req[q].del \in Deliveries /\ RatingsOf(req[q].del) # {}
  BY <1>1 DEF Fits
<1>3. Goto(q, "aggregate") /\ isRated' = [isRated EXCEPT ![req[q].del] = TRUE]
  BY DEF UpdateDeliveryRating
<1>4. UNCHANGED <<phase, hasDispute, ratings, average, disputes, history>>
  BY DEF UpdateDeliveryRating
<1>5. "aggregate" \in Places
  BY DEF Places, Rating
<1>6. /\ req' \in [Requests -> RequestType] /\ req'[q].at = "aggregate" /\ req'[q].alone = req[q].alone
      /\ \A p \in Requests \ {q} : req'[p] = req[p]
  BY <1>3, <1>5, BaseTypes, GoesTo
<1>7. Grows /\ \A d \in Deliveries : RatingsOf(d)' = RatingsOf(d)
  BY <1>4 DEF Grows, DisputesOf, RatingsOf
<1>8. Fits(req[q])'
  BY <1>6 DEF Fits, OnDispute, Opening
<1>9. HistoryOK'
  BY <1>4, BaseTypes DEF HistoryOK, history
<1>10. \A p \in Requests : SameWork(req'[p], req[p]) \/ Fits(req[p])'
  BY <1>6, <1>8, SameIsSame
<1>11. isRated' \in [Deliveries -> BOOLEAN] /\ \A d \in Deliveries : isRated'[d] <=> isRated[d] \/ d = req[q].del
  BY <1>2, <1>3, BaseTypes
<1>12. Base'
  BY <1>2, <1>4, <1>6, <1>7, <1>9, <1>10, <1>11, BaseTypes, BaseKeeps
<1> QED
  BY <1>2, <1>6, <1>11, <1>12

LEMMA CalculateAverageDoes ==
    ASSUME Base, NEW q \in Requests, CalculateAverage(q)
    PROVE  /\ Base'
           /\ req'[q].at = "save" /\ req'[q].avg = RiderAverage
           /\ req'[q].alone = (Others(q, Rating) = {})
           /\ \A p \in Requests \ {q} : req'[p] = req[p]
<1>1. UNCHANGED <<docs, history>>
  BY DEF CalculateAverage
<1>2. PICK a : a = RiderAverage
  OBVIOUS
<1>3. PICK b : b = (Others(q, Rating) = {})
  OBVIOUS
<1>4. a \in AverageType /\ b \in BOOLEAN
  BY <1>2, <1>3, BaseTypes, AverageTyped
<1>5. req' = [req EXCEPT ![q].at = "save", ![q].avg = a, ![q].alone = b]
  BY <1>2, <1>3 DEF CalculateAverage
<1>6. PICK r : r = [req[q] EXCEPT !.at = "save", !.avg = a, !.alone = b]
  OBVIOUS
<1>7. req' = [req EXCEPT ![q] = r]
  BY <1>5, <1>6
<1>8. /\ r \in RequestType /\ r.at = "save" /\ r.avg = a /\ r.alone = b
  <2>1. req[q] \in RequestType
    BY BaseTypes
  <2> QED
    BY <2>1, <1>4, <1>6 DEF RequestType, Places, Rating
<1>9. /\ req' \in [Requests -> RequestType] /\ req'[q] = r
      /\ \A p \in Requests \ {q} : req'[p] = req[p]
  BY <1>7, <1>8, BaseTypes
<1>10. Fits(req[q])'
  BY <1>8, <1>9 DEF Fits, OnDispute, Opening
<1>11. HistoryOK'
  BY <1>1, BaseTypes DEF HistoryOK, history, docs
<1>12. \A p \in Requests : SameWork(req'[p], req[p]) \/ Fits(req[p])'
  BY <1>9, <1>10, SameIsSame
<1>13. Base'
  BY <1>1, <1>9, <1>11, <1>12, BaseKeepsDocs
<1> QED
  BY <1>2, <1>3, <1>8, <1>9, <1>13

LEMMA UpdateRiderRatingDoes ==
    ASSUME Base, NEW q \in Requests, UpdateRiderRating(q)
    PROVE  /\ Base'
           /\ req'[q] = NoRequest
           /\ \A p \in Requests \ {q} : req'[p] = req[p]
<1>1. /\ average' = req[q].avg /\ Finish(q) /\ owed' = (owed /\ ~req[q].alone)
      /\ UNCHANGED <<phase, isRated, hasDispute, ratings, disputes, failures, doubled, raced, stale>>
  BY DEF UpdateRiderRating
<1>2. req[q] \in RequestType
  BY BaseTypes
<1>3. average' \in AverageType /\ owed' \in BOOLEAN
  BY <1>1, <1>2, BaseTypes DEF RequestType, HistoryOK
<1>4. /\ req' \in [Requests -> RequestType] /\ req'[q] = NoRequest
      /\ \A p \in Requests \ {q} : req'[p] = req[p]
  BY <1>1, BaseTypes, Finishes
<1>5. Grows
  BY <1>1 DEF Grows, DisputesOf, RatingsOf
<1>6. HistoryOK'
  BY <1>1, <1>3, BaseTypes DEF HistoryOK
<1>7. \A p \in Requests : SameWork(req'[p], req[p]) \/ Fits(req[p])'
  BY <1>4, NoRequestFitsNext, SameIsSame
<1>8. Base'
  BY <1>1, <1>3, <1>4, <1>5, <1>6, <1>7, BaseTypes, BaseKeeps
<1> QED
  BY <1>4, <1>8

LEMMA UpdateRatingDoes ==
    ASSUME Base, NEW q \in Requests, UpdateRating(q)
    PROVE  /\ Base'
           /\ \A p \in Requests \ {q} : req'[p] = req[p]
           /\ req'[q].alone => req[q].alone
           /\ \/ req[q].score = req[q].read /\ req'[q] = NoRequest
              \/ req'[q].at = "aggregate"
           /\ \A d \in Deliveries : RatingsOf(d)' = RatingsOf(d)
           /\ ratings[req[q].doc].score = req[q].score => ratings' = ratings
<1>1. req[q].at = "update" /\ Fits(req[q])
  BY BaseTypes DEF UpdateRating, At
<1>2. req[q].doc \in DOMAIN ratings /\ req[q].score \in Scores
  BY <1>1 DEF Fits
<1>3. /\ ratings' = [ratings EXCEPT ![req[q].doc].score = req[q].score]
      /\ UNCHANGED <<phase, isRated, hasDispute, average, disputes, history>>
  BY DEF UpdateRating
<1>4. /\ ratings' \in Seq(RatingType) /\ DOMAIN ratings' = DOMAIN ratings
      /\ \A d \in Deliveries : RatingsOf(d)' = RatingsOf(d)
      /\ ratings[req[q].doc].score = req[q].score => ratings' = ratings
  BY <1>2, <1>3, BaseTypes, RatingChanged
<1>5. Grows
  BY <1>3, <1>4 DEF Grows, DisputesOf
<1>6. HistoryOK'
  BY <1>3, BaseTypes DEF HistoryOK, history
<1>7. /\ req' \in [Requests -> RequestType]
      /\ \A p \in Requests \ {q} : req'[p] = req[p]
      /\ req'[q].alone => req[q].alone
      /\ \/ req[q].score = req[q].read /\ req'[q] = NoRequest
         \/ req'[q].at = "aggregate"
  <2>1. CASE req[q].score = req[q].read
    <3>1. Finish(q)
      BY <2>1 DEF UpdateRating
    <3>2. ~NoRequest.alone
      BY DEF NoRequest
    <3>3. /\ req' \in [Requests -> RequestType] /\ req'[q] = NoRequest
          /\ \A p \in Requests \ {q} : req'[p] = req[p]
      BY <3>1, BaseTypes, Finishes
    <3> QED
      BY <3>2, <3>3, <2>1
  <2>2. CASE req[q].score # req[q].read
    <3>1. Goto(q, "aggregate")
      BY <2>2 DEF UpdateRating
    <3>2. "aggregate" \in Places
      BY DEF Places, Rating
    <3> QED
      BY <3>1, <3>2, BaseTypes, GoesTo
  <2> QED
    BY <2>1, <2>2
<1>8. Fits(req[q])'
  <2>1. CASE req'[q] = NoRequest
    BY <2>1, NoRequestFitsNext
  <2>2. CASE req'[q].at = "aggregate"
    BY <2>2 DEF Fits, OnDispute, Opening
  <2> QED
    BY <2>1, <2>2, <1>7
<1>9. \A p \in Requests : SameWork(req'[p], req[p]) \/ Fits(req[p])'
  BY <1>7, <1>8, SameIsSame
<1>10. Base'
  BY <1>3, <1>4, <1>5, <1>6, <1>7, <1>9, BaseTypes, BaseKeeps
<1> QED
  BY <1>4, <1>7, <1>10
LEMMA StartDisputeDoes ==
    ASSUME Base, NEW q \in Requests, NEW d \in Deliveries, StartDispute(q, d)
    PROVE  /\ Base'
           /\ req'[q].at = "open" /\ req'[q].del = d /\ ~req'[q].alone /\ At(q, "idle")
           /\ \A p \in Requests \ {q} : req'[p] = req[p]
<1>1. PICK to : to = [NoRequest EXCEPT !.at = "open", !.del = d]
  OBVIOUS
<1>2. to \in RequestType /\ to.at = "open" /\ to.del = d /\ ~to.alone
  BY <1>1, NoRequestFits DEF RequestType, NoRequest, Places, Opening
<1>3. BeginDispute(q, to) /\ UNCHANGED <<docs, failures, doubled, owed, stale>>
  BY <1>1 DEF StartDispute
<1>4. /\ req' \in [Requests -> RequestType] /\ req'[q] = to /\ At(q, "idle")
      /\ \A p \in Requests \ {q} : req'[p] = req[p]
  BY <1>2, <1>3, BeginsDispute
<1>5. raced' \subseteq Deliveries
  BY BaseTypes DEF StartDispute, HistoryOK
<1>6. HistoryOK'
  BY <1>3, <1>5, BaseTypes DEF HistoryOK, docs
<1>7. Fits(req[q])'
  BY <1>2, <1>4 DEF Fits, OnDispute
<1>8. Base'
  BY <1>3, <1>4, <1>6, <1>7, SameIsSame, BaseKeepsDocs
<1> QED
  BY <1>2, <1>4, <1>8

LEMMA CreateDisputeDoes ==
    ASSUME Base, NEW q \in Requests, CreateDispute(q)
    PROVE  /\ Base'
           /\ req'[q].at = "refer" /\ req'[q].alone = req[q].alone
           /\ \A p \in Requests \ {q} : req'[p] = req[p]
           /\ req[q].del \in Deliveries /\ Len(disputes) + 1 \notin DOMAIN disputes
           /\ DOMAIN disputes \subseteq DOMAIN disputes'
           /\ \A i \in DOMAIN disputes : disputes'[i] = disputes[i]
           /\ \A d \in Deliveries :
                 DisputesOf(d)' = IF req[q].del = d THEN DisputesOf(d) \union {Len(disputes) + 1}
                                                    ELSE DisputesOf(d)
<1> DEFINE x == [del |-> req[q].del, status |-> "open", words |-> 0]
<1>1. req[q].at = "open" /\ Fits(req[q])
  BY BaseTypes DEF CreateDispute, At
<1>2. req[q].del \in Deliveries
  BY <1>1 DEF Fits, Opening
<1>3. x \in DisputeType /\ x.del = req[q].del
  BY <1>2, FeedbackAssumption DEF DisputeType
<1>4. disputes' = Append(disputes, x) /\ Goto(q, "refer")
  BY DEF CreateDispute
<1>5. UNCHANGED <<phase, isRated, hasDispute, ratings, average, history>>
  BY DEF CreateDispute
<1> HIDE DEF x
<1>6. /\ disputes' \in Seq(DisputeType)
      /\ DOMAIN disputes \subseteq DOMAIN disputes' /\ Len(disputes) + 1 \notin DOMAIN disputes
      /\ \A i \in DOMAIN disputes : disputes'[i] = disputes[i]
      /\ \A d \in Deliveries :
            DisputesOf(d)' = IF req[q].del = d THEN DisputesOf(d) \union {Len(disputes) + 1}
                                               ELSE DisputesOf(d)
  BY <1>3, <1>4, BaseTypes, DisputeAppended
<1>7. "refer" \in Places
  BY DEF Places, Opening
<1>8. /\ req' \in [Requests -> RequestType] /\ req'[q].at = "refer" /\ req'[q].del = req[q].del
      /\ req'[q].alone = req[q].alone
      /\ \A p \in Requests \ {q} : req'[p] = req[p]
  BY <1>4, <1>7, BaseTypes, GoesTo
<1>9. Grows
  BY <1>5, <1>6 DEF Grows, RatingsOf
<1>10. Fits(req[q])'
  BY <1>2, <1>6, <1>8 DEF Fits, OnDispute, Opening
<1>11. HistoryOK'
  BY <1>5, <1>6, BaseTypes DEF HistoryOK, history
<1>12. \A p \in Requests : SameWork(req'[p], req[p]) \/ Fits(req[p])'
  BY <1>8, <1>10, SameIsSame
<1>13. Base'
  BY <1>5, <1>6, <1>8, <1>9, <1>11, <1>12, BaseTypes, BaseKeeps
<1> QED
  BY <1>2, <1>6, <1>8, <1>13

LEMMA UpdateDeliveryDisputeDoes ==
    ASSUME Base, NEW q \in Requests, UpdateDeliveryDispute(q)
    PROVE  /\ Base'
           /\ req'[q] = NoRequest
           /\ \A p \in Requests \ {q} : req'[p] = req[p]
<1>1. req[q].at = "refer" /\ Fits(req[q])
  BY BaseTypes DEF UpdateDeliveryDispute, At
<1>2. req[q].del \in Deliveries /\ DisputesOf(req[q].del) # {}
  BY <1>1 DEF Fits, Opening
<1>3. Finish(q) /\ hasDispute' = [hasDispute EXCEPT ![req[q].del] = TRUE]
  BY DEF UpdateDeliveryDispute
<1>4. UNCHANGED <<phase, isRated, ratings, average, disputes, history>>
  BY DEF UpdateDeliveryDispute
<1>5. /\ req' \in [Requests -> RequestType] /\ req'[q] = NoRequest
      /\ \A p \in Requests \ {q} : req'[p] = req[p]
  BY <1>3, BaseTypes, Finishes
<1>6. Grows /\ \A d \in Deliveries : DisputesOf(d)' = DisputesOf(d)
  BY <1>4 DEF Grows, DisputesOf, RatingsOf
<1>7. HistoryOK'
  BY <1>4, BaseTypes DEF HistoryOK, history
<1>8. \A p \in Requests : SameWork(req'[p], req[p]) \/ Fits(req[p])'
  BY <1>5, NoRequestFitsNext, SameIsSame
<1>9. /\ hasDispute' \in [Deliveries -> BOOLEAN]
      /\ \A d \in Deliveries : hasDispute'[d] <=> hasDispute[d] \/ d = req[q].del
  BY <1>2, <1>3, BaseTypes
<1>10. Base'
  BY <1>2, <1>4, <1>5, <1>6, <1>7, <1>8, <1>9, BaseTypes, BaseKeeps
<1> QED
  BY <1>5, <1>10

LEMMA StartWordsDoes ==
    ASSUME Base, NEW q \in Requests, NEW i \in DOMAIN disputes,
           NEW l \in {"message", "attach", "describe"}, StartWords(q, i, l)
    PROVE  /\ Base'
           /\ req'[q].at = l /\ req'[q].doc = i /\ ~req'[q].alone /\ At(q, "idle")
           /\ \A p \in Requests \ {q} : req'[p] = req[p]
<1>1. PICK to : to = [NoRequest EXCEPT !.at = l, !.doc = i]
  OBVIOUS
<1>2. i \in Nat /\ l \in Places
  <2>1. disputes \in Seq(DisputeType)
    BY BaseTypes
  <2>2. i \in Nat
    BY <2>1
  <2> QED
    BY <2>2 DEF Places, OnDispute
<1>3. to \in RequestType /\ to.at = l /\ to.doc = i /\ ~to.alone
  BY <1>1, <1>2, NoRequestFits DEF RequestType, NoRequest
<1>4. BeginDispute(q, to) /\ UNCHANGED <<docs, history>>
  BY <1>1 DEF StartWords
<1>5. /\ req' \in [Requests -> RequestType] /\ req'[q] = to /\ At(q, "idle")
      /\ \A p \in Requests \ {q} : req'[p] = req[p]
  BY <1>3, <1>4, BeginsDispute
<1>6. HistoryOK'
  BY <1>4, BaseTypes DEF HistoryOK, docs, history
<1>7. Fits(req[q])'
  BY <1>3, <1>4, <1>5 DEF Fits, Opening, docs
<1>8. Base'
  BY <1>4, <1>5, <1>6, <1>7, SameIsSame, BaseKeepsDocs
<1> QED
  BY <1>3, <1>5, <1>8

(* Adding to a dispute changes its words and nothing else of it.           *)
LEMMA AddWordsDoes ==
    ASSUME Base, NEW q \in Requests, NEW from \in {"message", "attach", "describe"},
           NEW to \in {"idle", "describe"}, AddWords(q, from, to)
    PROVE  /\ Base'
           /\ \A p \in Requests \ {q} : req'[p] = req[p]
           /\ req'[q] = NoRequest \/ (req'[q].at = "describe" /\ req'[q].doc = req[q].doc)
           /\ req'[q].alone => req[q].alone
           /\ req[q].at = from /\ req[q].doc \in DOMAIN disputes
           /\ DOMAIN disputes' = DOMAIN disputes
           /\ \A j \in DOMAIN disputes : disputes'[j].status = disputes[j].status
           /\ \A j \in DOMAIN disputes \ {req[q].doc} : disputes'[j] = disputes[j]
           /\ \A d \in Deliveries : DisputesOf(d)' = DisputesOf(d)
<1>1. req[q].at = from /\ Fits(req[q])
  BY BaseTypes DEF AddWords, At
<1>2. req[q].doc \in DOMAIN disputes
  BY <1>1 DEF Fits, OnDispute
<1>3. PICK i : i = req[q].doc
  OBVIOUS
<1>4. PICK x : x = [disputes[i] EXCEPT !.words = @ + 1]
  OBVIOUS
<1>5. x \in DisputeType /\ x.del = disputes[i].del /\ x.status = disputes[i].status
  <2>1. disputes[i] \in DisputeType
    BY <1>2, <1>3, BaseTypes
  <2> QED
    BY <2>1, <1>4 DEF DisputeType
<1>6. disputes' = [disputes EXCEPT ![i] = x]
  BY <1>3, <1>4 DEF AddWords
<1>7. UNCHANGED <<phase, isRated, hasDispute, ratings, average, history>>
  BY DEF AddWords
<1>8. /\ disputes' \in Seq(DisputeType) /\ DOMAIN disputes' = DOMAIN disputes
      /\ \A d \in Deliveries : DisputesOf(d)' = DisputesOf(d)
      /\ disputes'[i] = x
      /\ \A j \in DOMAIN disputes \ {i} : disputes'[j] = disputes[j]
  BY <1>2, <1>3, <1>5, <1>6, BaseTypes, DisputeChanged
<1>9. /\ req' \in [Requests -> RequestType]
      /\ \A p \in Requests \ {q} : req'[p] = req[p]
      /\ req'[q].alone => req[q].alone
      /\ req'[q] = NoRequest \/ (req'[q].at = "describe" /\ req'[q].doc = req[q].doc)
  <2>1. CASE to = "idle"
    <3>1. Finish(q)
      BY <2>1 DEF AddWords
    <3>2. ~NoRequest.alone
      BY DEF NoRequest
    <3>3. /\ req' \in [Requests -> RequestType] /\ req'[q] = NoRequest
          /\ \A p \in Requests \ {q} : req'[p] = req[p]
      BY <3>1, BaseTypes, Finishes
    <3> QED
      BY <3>2, <3>3
  <2>2. CASE to = "describe"
    <3>1. Goto(q, "describe")
      BY <2>2 DEF AddWords
    <3>2. "describe" \in Places
      BY DEF Places, OnDispute
    <3> QED
      BY <3>1, <3>2, BaseTypes, GoesTo
  <2> QED
    BY <2>1, <2>2
<1>10. Fits(req[q])'
  <2>1. CASE req'[q] = NoRequest
    BY <2>1, NoRequestFitsNext
  <2>2. CASE req'[q].at = "describe" /\ req'[q].doc = req[q].doc
    BY <2>2, <1>2, <1>8 DEF Fits, Opening
  <2> QED
    BY <2>1, <2>2, <1>9
<1>11. Grows
  BY <1>7, <1>8 DEF Grows, RatingsOf
<1>12. HistoryOK'
  BY <1>7, <1>8, BaseTypes DEF HistoryOK, history
<1>13. \A p \in Requests : SameWork(req'[p], req[p]) \/ Fits(req[p])'
  BY <1>9, <1>10, SameIsSame
<1>14. Base'
  BY <1>7, <1>8, <1>9, <1>11, <1>12, <1>13, BaseTypes, BaseKeeps
<1> QED
  BY <1>1, <1>2, <1>3, <1>5, <1>8, <1>9, <1>14
(* Setting a status changes nothing else of the dispute.                   *)
LEMMA StatusSet ==
    ASSUME Base, NEW i \in DOMAIN disputes, NEW s \in Statuses,
           disputes' = [disputes EXCEPT ![i].status = s]
    PROVE  /\ disputes' \in Seq(DisputeType) /\ DOMAIN disputes' = DOMAIN disputes
           /\ \A d \in Deliveries : DisputesOf(d)' = DisputesOf(d)
           /\ disputes'[i].status = s
           /\ \A j \in DOMAIN disputes : disputes'[j].words = disputes[j].words
           /\ \A j \in DOMAIN disputes \ {i} : disputes'[j] = disputes[j]
<1>1. PICK x : x = [disputes[i] EXCEPT !.status = s]
  OBVIOUS
<1>2. /\ x \in DisputeType /\ x.del = disputes[i].del /\ x.words = disputes[i].words
      /\ x.status = s
  <2>1. disputes[i] \in DisputeType
    BY BaseTypes
  <2> QED
    BY <2>1, <1>1 DEF DisputeType
<1>3. disputes' = [disputes EXCEPT ![i] = x]
  BY <1>1
<1>4. /\ disputes' \in Seq(DisputeType) /\ DOMAIN disputes' = DOMAIN disputes
      /\ \A d \in Deliveries : DisputesOf(d)' = DisputesOf(d)
      /\ disputes'[i] = x
      /\ \A j \in DOMAIN disputes \ {i} : disputes'[j] = disputes[j]
  BY <1>2, <1>3, BaseTypes, DisputeChanged
<1> QED
  BY <1>2, <1>4

LEMMA UpdateDisputeStatusDoes ==
    ASSUME Base, NEW i \in DOMAIN disputes, NEW s \in Statuses, UpdateDisputeStatus(i, s)
    PROVE  /\ Base'
           /\ UNCHANGED <<req, ratings, average, isRated, owed, doubled, raced>>
           /\ DOMAIN disputes' = DOMAIN disputes
           /\ \A d \in Deliveries : DisputesOf(d)' = DisputesOf(d)
           /\ \A j \in DOMAIN disputes : disputes'[j].words = disputes[j].words
           /\ \A j \in DOMAIN disputes \ {i} : disputes'[j] = disputes[j]
           /\ stale \subseteq stale'
           /\ \A q \in Requests : req[q].at \in OnDispute /\ req[q].doc = i => i \in stale'
<1>1. /\ disputes' = [disputes EXCEPT ![i].status = s]
      /\ UNCHANGED <<phase, isRated, hasDispute, ratings, average, req, failures, doubled, raced, owed>>
      /\ stale' = IF \E q \in Requests : req[q].doc = i /\ req[q].at \in OnDispute
                  THEN stale \union {i} ELSE stale
  BY DEF UpdateDisputeStatus
<1>2. /\ disputes' \in Seq(DisputeType) /\ DOMAIN disputes' = DOMAIN disputes
      /\ \A d \in Deliveries : DisputesOf(d)' = DisputesOf(d)
      /\ \A j \in DOMAIN disputes : disputes'[j].words = disputes[j].words
      /\ \A j \in DOMAIN disputes \ {i} : disputes'[j] = disputes[j]
  BY <1>1, StatusSet
<1>3. Grows
  BY <1>1, <1>2 DEF Grows, RatingsOf
<1>4. HistoryOK'
  BY <1>1, <1>2, BaseTypes DEF HistoryOK
<1>5. Base'
  BY <1>1, <1>2, <1>3, <1>4, BaseTypes, SameIsSame, BaseKeeps
<1> QED
  BY <1>1, <1>2, <1>5

LEMMA StartAssignDoes ==
    ASSUME Base, NEW q \in Requests, NEW i \in DOMAIN disputes, StartAssign(q, i)
    PROVE  /\ Base'
           /\ req'[q].at = "assign" /\ req'[q].doc = i /\ ~req'[q].alone /\ At(q, "idle")
           /\ req'[q].status = disputes[i].status
           /\ \A p \in Requests \ {q} : req'[p] = req[p]
<1>1. PICK to : to = [NoRequest EXCEPT !.at = "assign", !.doc = i, !.status = disputes[i].status]
  OBVIOUS
<1>2. i \in Nat /\ disputes[i] \in DisputeType
  <2>1. disputes \in Seq(DisputeType)
    BY BaseTypes
  <2> QED
    BY <2>1
<1>3. PICK s : s = disputes[i].status
  OBVIOUS
<1>4. s \in Statuses
  BY <1>2, <1>3 DEF DisputeType
<1>5. to \in RequestType /\ to.at = "assign" /\ to.doc = i /\ ~to.alone /\ to.status = s
  BY <1>1, <1>2, <1>3, <1>4, NoRequestFits DEF RequestType, NoRequest, Places, OnDispute
<1>6. BeginDispute(q, to) /\ UNCHANGED <<docs, history>>
  BY <1>1 DEF StartAssign
<1>7. /\ req' \in [Requests -> RequestType] /\ req'[q] = to /\ At(q, "idle")
      /\ \A p \in Requests \ {q} : req'[p] = req[p]
  BY <1>5, <1>6, BeginsDispute
<1>8. HistoryOK'
  BY <1>6, BaseTypes DEF HistoryOK, docs, history
<1>9. Fits(req[q])'
  BY <1>5, <1>6, <1>7 DEF Fits, Opening, docs
<1>10. Base'
  BY <1>6, <1>7, <1>8, <1>9, SameIsSame, BaseKeepsDocs
<1> QED
  BY <1>3, <1>5, <1>7, <1>10

LEMMA AssignDisputeDoes ==
    ASSUME Base, NEW q \in Requests, AssignDispute(q)
    PROVE  /\ Base'
           /\ req'[q] = NoRequest
           /\ \A p \in Requests \ {q} : req'[p] = req[p]
           /\ At(q, "assign") /\ req[q].doc \in DOMAIN disputes
           /\ DOMAIN disputes' = DOMAIN disputes
           /\ \A d \in Deliveries : DisputesOf(d)' = DisputesOf(d)
           /\ \A j \in DOMAIN disputes : disputes'[j].words = disputes[j].words
           /\ \A j \in DOMAIN disputes \ {req[q].doc} : disputes'[j] = disputes[j]
           /\ req[q].status # "open" => disputes'[req[q].doc].status = req[q].status
           /\ stale \subseteq stale'
           /\ \A p \in Requests \ {q} :
                 req[p].at \in OnDispute /\ req[p].doc = req[q].doc => req[p].doc \in stale'
<1>1. req[q].at = "assign" /\ Fits(req[q]) /\ req[q] \in RequestType
  BY BaseTypes DEF AssignDispute, At
<1>2. req[q].doc \in DOMAIN disputes
  BY <1>1 DEF Fits, OnDispute
<1>3. PICK s : s = IF req[q].status = "open" THEN "in_review" ELSE req[q].status
  OBVIOUS
<1>4. s \in Statuses
  BY <1>1, <1>3, FeedbackAssumption DEF RequestType
<1>5. PICK i : i = req[q].doc
  OBVIOUS
<1>6. /\ disputes' = [disputes EXCEPT ![i].status = s] /\ Finish(q)
      /\ UNCHANGED <<phase, isRated, hasDispute, ratings, average, failures, doubled, raced, owed>>
      /\ stale' = IF \E p \in Others(q, OnDispute) : req[p].doc = i
                  THEN stale \union {i} ELSE stale
  BY <1>3, <1>5 DEF AssignDispute
<1>7. /\ disputes' \in Seq(DisputeType) /\ DOMAIN disputes' = DOMAIN disputes
      /\ \A d \in Deliveries : DisputesOf(d)' = DisputesOf(d)
      /\ disputes'[i].status = s
      /\ \A j \in DOMAIN disputes : disputes'[j].words = disputes[j].words
      /\ \A j \in DOMAIN disputes \ {i} : disputes'[j] = disputes[j]
  <2>1. i \in DOMAIN disputes /\ disputes' = [disputes EXCEPT ![i].status = s]
    BY <1>2, <1>5, <1>6
  <2> QED
    BY <1>4, <2>1, StatusSet
<1>8. /\ req' \in [Requests -> RequestType] /\ req'[q] = NoRequest
      /\ \A p \in Requests \ {q} : req'[p] = req[p]
  BY <1>6, BaseTypes, Finishes
<1>9. Grows
  BY <1>6, <1>7 DEF Grows, RatingsOf
<1>10. HistoryOK'
  BY <1>2, <1>5, <1>6, <1>7, BaseTypes DEF HistoryOK
<1>11. \A p \in Requests : SameWork(req'[p], req[p]) \/ Fits(req[p])'
  BY <1>8, NoRequestFitsNext, SameIsSame
<1>12. Base'
  BY <1>6, <1>7, <1>8, <1>9, <1>10, <1>11, BaseTypes, BaseKeeps
<1>13. stale \subseteq stale' /\ \A p \in Requests \ {q} :
                 req[p].at \in OnDispute /\ req[p].doc = i => i \in stale'
  BY <1>6 DEF Others
<1>14. req[q].status # "open" => disputes'[req[q].doc].status = req[q].status
  BY <1>3, <1>5, <1>7
<1>15. At(q, "assign")
  BY <1>1 DEF At
<1> QED
  BY <1>2, <1>5, <1>7, <1>8, <1>12, <1>13, <1>14, <1>15

LEMMA BaseDeliver ==
    ASSUME Base, NEW d \in Deliveries, Deliver(d)
    PROVE  Base'
<1>1. /\ phase' = [phase EXCEPT ![d] = "delivered"]
      /\ UNCHANGED <<isRated, hasDispute, ratings, average, disputes, req, history>>
  BY DEF Deliver
<1>2. Grows
  BY <1>1 DEF Grows, RatingsOf, DisputesOf
<1>3. HistoryOK'
  BY <1>1, BaseTypes DEF HistoryOK, history
<1>4. phase' \in [Deliveries -> {"in_transit", "delivered"}]
  BY <1>1, BaseTypes
<1> QED
  BY <1>1, <1>2, <1>3, <1>4, BaseTypes, SameIsSame, BaseKeeps

LEMMA FailDoes ==
    ASSUME Base, NEW q \in Requests, Fail(q)
    PROVE  /\ Base' /\ UNCHANGED <<docs, raced, stale>>
           /\ req'[q] = NoRequest
           /\ \A p \in Requests \ {q} : req'[p] = req[p]
           /\ ~owed' => ~owed /\ ~Busy(q)
           /\ doubled \subseteq doubled'
           /\ At(q, "mark") => req[q].del \in doubled'
<1>1. /\ failures < MaxFaults /\ failures' = failures + 1
      /\ owed' = (owed \/ req[q].at \in Rating)
      /\ doubled' = IF At(q, "mark") THEN doubled \union {req[q].del} ELSE doubled
      /\ Finish(q) /\ UNCHANGED <<docs, raced, stale>>
  BY DEF Fail
<1>2. /\ req' \in [Requests -> RequestType] /\ req'[q] = NoRequest
      /\ \A p \in Requests \ {q} : req'[p] = req[p]
  BY <1>1, BaseTypes, Finishes
<1>3. At(q, "mark") => req[q].del \in Deliveries
  BY BaseTypes DEF At, Fits
<1>4. failures' \in 0..MaxFaults
  BY <1>1, BaseTypes, FeedbackAssumption DEF HistoryOK
<1>5. HistoryOK'
  BY <1>1, <1>3, <1>4, BaseTypes DEF HistoryOK, docs
<1>6. \A p \in Requests : SameWork(req'[p], req[p]) \/ Fits(req[p])'
  BY <1>2, NoRequestFitsNext, SameIsSame
<1>7. Base'
  BY <1>1, <1>2, <1>5, <1>6, BaseKeepsDocs
<1>8. ~owed' => ~owed /\ ~Busy(q)
  BY <1>1, BaseTypes DEF Busy, HistoryOK
<1>9. doubled \subseteq doubled' /\ (At(q, "mark") => req[q].del \in doubled')
  BY <1>1
<1> QED
  BY <1>1, <1>2, <1>7, <1>8, <1>9
-----------------------------------------------------------------------------
(* Ratings and disputes do not interfere. *)

DisputeStep(q) == StepDispute(q) \/ AskDispute(q) \/ \E i \in DOMAIN disputes : StartAssign(q, i)
RatingStep(q)  == StepRating(q) \/ AskRating(q)

LEMMA AskDisputeCases ==
    ASSUME NEW q, AskDispute(q)
    PROVE  \/ \E d \in Deliveries : StartDispute(q, d)
           \/ \E i \in DOMAIN disputes : \E l \in {"message", "attach", "describe"} : StartWords(q, i, l)
  BY DEF AskDispute, StartDisputeMessage, StartUpdateDispute

LEMMA AddCases ==
    ASSUME NEW q, AddDisputeMessage(q) \/ AddAttachments(q) \/ UpdateDescription(q)
    PROVE  \E from \in {"message", "attach", "describe"} : \E to \in {"idle", "describe"} :
              AddWords(q, from, to)
  BY DEF AddDisputeMessage, AddAttachments, UpdateDescription

LEMMA NotBusyAtDisputes ==
    ASSUME NEW q
    PROVE  /\ req[q].at \in Opening \union OnDispute \union {"idle"} => ~Busy(q)
           /\ Busy(q) => req[q].at \notin Opening \union OnDispute
           /\ req[q] = NoRequest => req[q].at = "idle" /\ ~req[q].alone
  BY DEF Busy, Rating, Opening, OnDispute, NoRequest

LEMMA DisputeStepDoes ==
    ASSUME Base, NEW q \in Requests, DisputeStep(q)
    PROVE  /\ Base'
           /\ UNCHANGED <<ratings, average, isRated, doubled, owed>>
           /\ \A p \in Requests \ {q} : req'[p] = req[p]
           /\ ~Busy(q) /\ ~Busy(q)'
           /\ req'[q].alone => req[q].alone
<1> DEFINE Goal == /\ Base'
                   /\ UNCHANGED <<ratings, average, isRated, doubled, owed>>
                   /\ \A p \in Requests \ {q} : req'[p] = req[p]
                   /\ ~Busy(q) /\ ~Busy(q)'
                   /\ req'[q].alone => req[q].alone
<1>1. ASSUME NEW d \in Deliveries, StartDispute(q, d) PROVE Goal
  <2>1. UNCHANGED <<ratings, average, isRated, doubled, owed>>
    BY <1>1 DEF StartDispute, docs
  <2> QED
    BY <1>1, <2>1, StartDisputeDoes DEF Busy, At, Rating
<1>2. ASSUME NEW i \in DOMAIN disputes, NEW l \in {"message", "attach", "describe"}, StartWords(q, i, l)
      PROVE  Goal
  <2>1. UNCHANGED <<ratings, average, isRated, doubled, owed>>
    BY <1>2 DEF StartWords, docs, history
  <2> QED
    BY <1>2, <2>1, StartWordsDoes DEF Busy, At, Rating
<1>3. ASSUME NEW i \in DOMAIN disputes, StartAssign(q, i) PROVE Goal
  <2>1. UNCHANGED <<ratings, average, isRated, doubled, owed>>
    BY <1>3 DEF StartAssign, docs, history
  <2> QED
    BY <1>3, <2>1, StartAssignDoes DEF Busy, At, Rating
<1>4. ASSUME CreateDispute(q) PROVE Goal
  <2>1. UNCHANGED <<ratings, average, isRated, doubled, owed>> /\ At(q, "open")
    BY <1>4 DEF CreateDispute, history
  <2> QED
    BY <1>4, <2>1, CreateDisputeDoes DEF Busy, At, Rating
<1>5. ASSUME UpdateDeliveryDispute(q) PROVE Goal
  <2>1. UNCHANGED <<ratings, average, isRated, doubled, owed>> /\ At(q, "refer")
    BY <1>5 DEF UpdateDeliveryDispute, history
  <2> QED
    BY <1>5, <2>1, UpdateDeliveryDisputeDoes DEF Busy, At, Rating, NoRequest
<1>6. ASSUME NEW from \in {"message", "attach", "describe"}, NEW to \in {"idle", "describe"},
             AddWords(q, from, to)
      PROVE  Goal
  <2>1. UNCHANGED <<ratings, average, isRated, doubled, owed>>
    BY <1>6 DEF AddWords, history
  <2>2. NoRequest.at = "idle"
    BY DEF NoRequest
  <2> QED
    BY <1>6, <2>1, <2>2, AddWordsDoes DEF Busy, Rating
<1>7. ASSUME AssignDispute(q) PROVE Goal
  <2>1. UNCHANGED <<ratings, average, isRated, doubled, owed>>
    BY <1>7 DEF AssignDispute
  <2> QED
    BY <1>7, <2>1, AssignDisputeDoes DEF Busy, At, Rating, NoRequest
<1> HIDE DEF Goal
<1>8. ASSUME StepDispute(q) PROVE Goal
  BY <1>4, <1>5, <1>6, <1>7, <1>8, AddCases DEF StepDispute
<1>9. ASSUME AskDispute(q) PROVE Goal
  BY <1>1, <1>2, <1>9, AskDisputeCases
<1>10. Goal
  BY <1>3, <1>8, <1>9 DEF DisputeStep
<1> QED
  BY <1>10 DEF Goal

LEMMA RatingStepDoes ==
    ASSUME Base, NEW q \in Requests, RatingStep(q)
    PROVE  /\ Base'
           /\ UNCHANGED <<disputes, raced, stale>>
           /\ \A p \in Requests \ {q} : /\ SameWork(req'[p], req[p])
                                        /\ req'[p].status = req[p].status
           /\ req[q].at \notin Opening \union OnDispute
           /\ req'[q].at \notin Opening \union OnDispute
<1> DEFINE Goal == /\ Base'
                   /\ UNCHANGED <<disputes, raced, stale>>
                   /\ \A p \in Requests \ {q} : /\ SameWork(req'[p], req[p])
                                                /\ req'[p].status = req[p].status
                   /\ req[q].at \notin Opening \union OnDispute
                   /\ req'[q].at \notin Opening \union OnDispute
<1>1. ASSUME NEW d \in Deliveries, NEW n \in Scores, StartRating(q, d, n) PROVE Goal
  <2>1. PICK to : to = [NoRequest EXCEPT !.at = "create", !.del = d, !.score = n]
    OBVIOUS
  <2>2. n \in Int
    BY FeedbackAssumption
  <2>3. to \in RequestType /\ to.at = "create"
    BY <2>1, <2>2, NoRequestFits DEF RequestType, NoRequest, Places, Rating
  <2>4. BeginRating(q, to) /\ UNCHANGED <<disputes, raced, stale>>
    BY <1>1, <2>1 DEF StartRating, docs
  <2> QED
    BY <1>1, <2>3, <2>4, BeginsRating, BaseStartRating DEF At, Opening, OnDispute
<1>2. ASSUME NEW i \in DOMAIN ratings, NEW n \in Scores, StartUpdate(q, i, n) PROVE Goal
  <2>1. PICK to : to = [NoRequest EXCEPT !.at = "update", !.doc = i, !.score = n, !.read = ratings[i].score]
    OBVIOUS
  <2>2. to \in RequestType /\ to.at = "update"
    <3>1. ratings \in Seq(RatingType)
      BY BaseTypes
    <3>2. ratings[i] \in RatingType /\ i \in Nat
      BY <3>1
    <3>3. \A x \in Scores : x \in Int
      BY FeedbackAssumption
    <3>4. ratings[i].score \in Int /\ n \in Int
      BY <3>2, <3>3 DEF RatingType
    <3> QED
      BY <2>1, <3>2, <3>4, NoRequestFits DEF RequestType, NoRequest, Places, Rating
  <2>3. BeginRating(q, to) /\ UNCHANGED <<disputes, raced, stale>>
    BY <1>2, <2>1 DEF StartUpdate, docs
  <2> QED
    BY <1>2, <2>2, <2>3, BeginsRating, BaseStartUpdate DEF At, Opening, OnDispute
<1>3. ASSUME CreateRating(q) PROVE Goal
  <2>1. UNCHANGED <<disputes, raced, stale>> /\ At(q, "create")
    BY <1>3 DEF CreateRating, history
  <2> QED
    BY <1>3, <2>1, CreateRatingDoes, SameIsSame DEF At, Opening, OnDispute
<1>4. ASSUME UpdateDeliveryRating(q) PROVE Goal
  <2>1. UNCHANGED <<disputes, raced, stale>> /\ At(q, "mark")
    BY <1>4 DEF UpdateDeliveryRating, history
  <2> QED
    BY <1>4, <2>1, UpdateDeliveryRatingDoes, SameIsSame DEF At, Opening, OnDispute
<1>5. ASSUME CalculateAverage(q) PROVE Goal
  <2>1. UNCHANGED <<disputes, raced, stale>> /\ At(q, "aggregate")
    BY <1>5 DEF CalculateAverage, history, docs
  <2> QED
    BY <1>5, <2>1, CalculateAverageDoes, SameIsSame DEF At, Opening, OnDispute
<1>6. ASSUME UpdateRiderRating(q) PROVE Goal
  <2>1. UNCHANGED <<disputes, raced, stale>> /\ At(q, "save")
    BY <1>6 DEF UpdateRiderRating
  <2> QED
    BY <1>6, <2>1, UpdateRiderRatingDoes, SameIsSame DEF At, Opening, OnDispute, NoRequest
<1>7. ASSUME UpdateRating(q) PROVE Goal
  <2>1. UNCHANGED <<disputes, raced, stale>> /\ At(q, "update")
    BY <1>7 DEF UpdateRating, history
  <2>2. NoRequest.at = "idle"
    BY DEF NoRequest
  <2> QED
    BY <1>7, <2>1, <2>2, UpdateRatingDoes, SameIsSame DEF At, Opening, OnDispute
<1> HIDE DEF Goal
<1>8. Goal
  BY <1>1, <1>2, <1>3, <1>4, <1>5, <1>6, <1>7 DEF RatingStep, StepRating, AskRating
<1> QED
  BY <1>8 DEF Goal

(* The steps there are.                                                    *)
LEMMA NextCases ==
    ASSUME FeedbackNext
    PROVE  \/ \E q \in Requests : RatingStep(q) \/ DisputeStep(q) \/ Fail(q)
           \/ \E i \in DOMAIN disputes : \E s \in Statuses : UpdateDisputeStatus(i, s)
           \/ \E d \in Deliveries : Deliver(d)
  BY DEF FeedbackNext, Administer, RatingStep, DisputeStep
-----------------------------------------------------------------------------
(* One rating of a delivery. *)

(* A step that creates no rating, marks at most, and has nobody begin or   *)
(* stop to rate a delivery.                                                *)
LEMMA RatedQuiet ==
    ASSUME RatedInv, doubled \subseteq doubled',
           \A d \in Deliveries : RatingsOf(d)' = RatingsOf(d) /\ (isRated[d] => isRated'[d]),
           \A p \in Requests : \/ SameWork(req'[p], req[p])
                               \/ /\ req[p].at \notin {"create", "mark"}
                                  /\ req'[p].at \notin {"create", "mark"}
    PROVE  RatedInv'
<1>1. \A p \in Requests : \A d : /\ Rates(p, d)' <=> Rates(p, d)
                                 /\ Rates(p, d) => (At(p, "create")' <=> At(p, "create"))
  BY DEF Rates, At, SameWork
<1>2. ASSUME NEW d \in Deliveries, d \notin doubled' PROVE RatesAlone(d)'
  <2>1. RatesAlone(d)
    BY <1>2 DEF RatedInv
  <2>2. RatingsOf(d)' = RatingsOf(d) /\ (isRated[d] => isRated'[d])
    OBVIOUS
  <2> QED
    BY <1>1, <2>1, <2>2 DEF RatesAlone
<1> QED
  BY <1>2 DEF RatedInv

LEMMA RatedStart ==
    ASSUME Base, RatedInv, NEW q \in Requests, NEW d \in Deliveries, NEW n \in Scores,
           StartRating(q, d, n)
    PROVE  RatedInv'
<1>1. PICK to : to = [NoRequest EXCEPT !.at = "create", !.del = d, !.score = n]
  OBVIOUS
<1>2. n \in Int
  BY FeedbackAssumption
<1>3. /\ to \in RequestType /\ to.at = "create" /\ to.del = d
  BY <1>1, <1>2, NoRequestFits DEF RequestType, NoRequest, Places, Rating
<1>4. BeginRating(q, to) /\ UNCHANGED docs /\ ~isRated[d]
  BY <1>1 DEF StartRating
<1>5. /\ req'[q] = to /\ req[q].at = "idle"
      /\ \A p \in Requests \ {q} : SameWork(req'[p], req[p])
  BY <1>3, <1>4, BeginsRating DEF At
<1>6. \A e : RatingsOf(e)' = RatingsOf(e) /\ isRated'[e] = isRated[e]
  BY <1>4 DEF RatingsOf, docs
<1>7. doubled \subseteq doubled' /\ \A p \in Others(q, Rating) : req[p].del = d => d \in doubled'
  BY DEF StartRating
<1>8. \A p \in Requests \ {q} : \A e : /\ Rates(p, e)' <=> Rates(p, e)
                                       /\ At(p, "create")' <=> At(p, "create")
  BY <1>5 DEF Rates, At, SameWork
<1>9. \A e : ~Rates(q, e) /\ (Rates(q, e)' <=> e = d)
  BY <1>3, <1>5 DEF Rates
<1>10. ASSUME NEW e \in Deliveries, e \notin doubled' PROVE RatesAlone(e)'
  <2>1. RatesAlone(e)
    BY <1>7, <1>10 DEF RatedInv
  <2>2. CASE e # d
    BY <1>6, <1>8, <1>9, <2>1, <2>2 DEF RatesAlone
  <2>3. CASE e = d
    <3>1. \A p \in Requests \ {q} : ~Rates(p, d)
      BY <1>7, <1>10, <2>3 DEF Rates, Others, Rating
    <3>2. RatingsOf(d) = {}
      BY <1>4, <1>9, <2>1, <2>3, <3>1 DEF RatesAlone
    <3>3. \A p \in Requests : Rates(p, e)' => p = q
      BY <1>8, <2>3, <3>1
    <3>4. RatingsOf(e)' = {} /\ Cardinality(RatingsOf(e)') <= 1
      BY <1>6, <3>2, <2>3, <2>1 DEF RatesAlone
    <3> QED
      BY <3>3, <3>4 DEF RatesAlone
  <2> QED
    BY <2>2, <2>3
<1> QED
  BY <1>10 DEF RatedInv

LEMMA RatedCreate ==
    ASSUME Base, RatedInv, NEW q \in Requests, CreateRating(q)
    PROVE  RatedInv'
<1>1. At(q, "create") /\ doubled' = doubled /\ isRated' = isRated
  BY DEF CreateRating, history
<1>2. PICK d \in Deliveries : d = req[q].del
  BY CreateRatingDoes
<1>3. /\ req'[q].at = "mark" /\ req'[q].del = d
      /\ \A p \in Requests \ {q} : req'[p] = req[p]
      /\ \A e \in Deliveries : e # d => RatingsOf(e)' = RatingsOf(e)
      /\ RatingsOf(d)' = RatingsOf(d) \union {Len(ratings) + 1}
  BY <1>2, CreateRatingDoes
<1>4. \A p \in Requests \ {q} : \A e : /\ Rates(p, e)' <=> Rates(p, e)
                                       /\ At(p, "create")' <=> At(p, "create")
  BY <1>3 DEF Rates, At
<1>5. \A e : /\ Rates(q, e)' <=> e = d
             /\ Rates(q, e) <=> e = d
  BY <1>1, <1>2, <1>3 DEF Rates, At
<1>6. ~At(q, "create")'
  BY <1>3 DEF At
<1>7. ASSUME NEW e \in Deliveries, e \notin doubled' PROVE RatesAlone(e)'
  <2>1. RatesAlone(e)
    BY <1>1, <1>7 DEF RatedInv
  <2>2. CASE e # d
    BY <1>1, <1>3, <1>4, <1>5, <2>1, <2>2 DEF RatesAlone
  <2>3. CASE e = d
    <3>1. \A p \in Requests \ {q} : ~Rates(p, d)
      BY <1>5, <2>1, <2>3 DEF RatesAlone
    <3>2. RatingsOf(d) = {}
      BY <1>1, <1>5, <2>1, <2>3 DEF RatesAlone
    <3>3. PICK k : k = Len(ratings) + 1
      OBVIOUS
    <3>4. RatingsOf(e)' = {k} /\ Cardinality({k}) = 1
      BY <1>3, <2>3, <3>2, <3>3, FS_Singleton
    <3>5. \A p \in Requests : Rates(p, e)' => p = q
      BY <1>4, <2>3, <3>1
    <3>6. Cardinality(RatingsOf(e)') <= 1
      BY <3>4
    <3>7. Rates(q, e)'
      BY <1>5, <2>3
    <3> QED
      BY <1>6, <3>5, <3>6, <3>7 DEF RatesAlone
  <2> QED
    BY <2>2, <2>3
<1> QED
  BY <1>7 DEF RatedInv

(* Who marked the delivery, or failed to, rates it no longer.              *)
LEMMA RatedLeaves ==
    ASSUME RatedInv, NEW q \in Requests, doubled \subseteq doubled', UNCHANGED ratings,
           \A d \in Deliveries : isRated[d] => isRated'[d],
           \A p \in Requests \ {q} : req'[p] = req[p], req'[q].at \notin {"create", "mark"},
           At(q, "mark") => isRated'[req[q].del] \/ req[q].del \in doubled'
    PROVE  RatedInv'
<1>1. \A p \in Requests \ {q} : \A e : /\ Rates(p, e)' <=> Rates(p, e)
                                       /\ At(p, "create")' <=> At(p, "create")
  BY DEF Rates, At
<1>2. \A e : ~Rates(q, e)'
  BY DEF Rates
<1>3. \A e : RatingsOf(e)' = RatingsOf(e)
  BY DEF RatingsOf
<1>4. ASSUME NEW e \in Deliveries, e \notin doubled' PROVE RatesAlone(e)'
  <2>1. RatesAlone(e)
    BY <1>4 DEF RatedInv
  <2>2. ASSUME RatingsOf(e) # {}, ~isRated'[e] PROVE \E p \in Requests \ {q} : Rates(p, e)
    <3>1. PICK p \in Requests : Rates(p, e)
      BY <2>1, <2>2 DEF RatesAlone
    <3>2. ASSUME p = q PROVE FALSE
      <4>1. ~At(q, "create")
        BY <2>1, <2>2, <3>1, <3>2 DEF RatesAlone
      <4>2. At(q, "mark") /\ req[q].del = e
        BY <3>1, <3>2, <4>1 DEF Rates, At
      <4> QED
        BY <4>2, <2>2, <1>4
    <3> QED
      BY <3>1, <3>2
  <2>3. RatingsOf(e)' # {} => isRated'[e] \/ \E p \in Requests : Rates(p, e)'
    BY <1>1, <1>3, <2>2
  <2>4. /\ \A p, r \in Requests : Rates(p, e)' /\ Rates(r, e)' => p = r
        /\ \A p \in Requests : Rates(p, e)' /\ At(p, "create")' => RatingsOf(e)' = {}
        /\ Cardinality(RatingsOf(e)') <= 1
    BY <1>1, <1>2, <1>3, <2>1 DEF RatesAlone
  <2> QED
    BY <2>3, <2>4 DEF RatesAlone
<1> QED
  BY <1>4 DEF RatedInv
LEMMA RatedRatingStep ==
    ASSUME Base, RatedInv, NEW q \in Requests, RatingStep(q)
    PROVE  RatedInv'
<1>1. ASSUME NEW d \in Deliveries, NEW n \in Scores, StartRating(q, d, n) PROVE RatedInv'
  BY <1>1, RatedStart
<1>2. ASSUME NEW i \in DOMAIN ratings, NEW n \in Scores, StartUpdate(q, i, n) PROVE RatedInv'
  <2>1. PICK to : to = [NoRequest EXCEPT !.at = "update", !.doc = i, !.score = n, !.read = ratings[i].score]
    OBVIOUS
  <2>2. to \in RequestType /\ to.at = "update"
    <3>1. ratings \in Seq(RatingType)
      BY BaseTypes
    <3>2. ratings[i] \in RatingType /\ i \in Nat
      BY <3>1
    <3>3. \A x \in Scores : x \in Int
      BY FeedbackAssumption
    <3>4. ratings[i].score \in Int /\ n \in Int
      BY <3>2, <3>3 DEF RatingType
    <3> QED
      BY <2>1, <3>2, <3>4, NoRequestFits DEF RequestType, NoRequest, Places, Rating
  <2>3. BeginRating(q, to) /\ UNCHANGED <<docs, doubled>>
    BY <1>2, <2>1 DEF StartUpdate
  <2>4. /\ req'[q].at = "update" /\ req[q].at = "idle"
        /\ \A p \in Requests \ {q} : SameWork(req'[p], req[p])
    BY <2>2, <2>3, BeginsRating DEF At
  <2>5. \A d : RatingsOf(d)' = RatingsOf(d) /\ isRated'[d] = isRated[d]
    BY <2>3 DEF docs, RatingsOf
  <2> QED
    BY <2>3, <2>4, <2>5, RatedQuiet
<1>3. CASE CreateRating(q)
  BY <1>3, RatedCreate
<1>4. CASE UpdateDeliveryRating(q)
  <2>1. doubled' = doubled /\ ratings' = ratings
    BY <1>4 DEF UpdateDeliveryRating, history
  <2> QED
    BY <1>4, <2>1, UpdateDeliveryRatingDoes, RatedLeaves
<1>5. CASE CalculateAverage(q)
  <2>1. UNCHANGED <<docs, doubled>> /\ At(q, "aggregate")
    BY <1>5 DEF CalculateAverage, history
  <2>2. \A d : RatingsOf(d)' = RatingsOf(d) /\ isRated'[d] = isRated[d]
    BY <2>1 DEF docs, RatingsOf
  <2> QED
    BY <1>5, <2>1, <2>2, CalculateAverageDoes, RatedQuiet, SameIsSame DEF At
<1>6. CASE UpdateRiderRating(q)
  <2>1. UNCHANGED <<ratings, isRated, doubled>> /\ At(q, "save")
    BY <1>6 DEF UpdateRiderRating
  <2>2. \A d : RatingsOf(d)' = RatingsOf(d) /\ isRated'[d] = isRated[d]
    BY <2>1 DEF RatingsOf
  <2> QED
    BY <1>6, <2>1, <2>2, UpdateRiderRatingDoes, RatedQuiet, SameIsSame, NotBusyAtDisputes DEF At, NoRequest
<1>7. CASE UpdateRating(q)
  <2>1. UNCHANGED <<isRated, doubled>> /\ At(q, "update")
    BY <1>7 DEF UpdateRating, history
  <2>2. req'[q].at \notin {"create", "mark"}
    BY <1>7, UpdateRatingDoes DEF NoRequest
  <2> QED
    BY <1>7, <2>1, <2>2, UpdateRatingDoes, RatedQuiet, SameIsSame DEF At
<1> QED
  BY <1>1, <1>2, <1>3, <1>4, <1>5, <1>6, <1>7 DEF RatingStep, StepRating, AskRating

LEMMA RatedStep ==
    ASSUME Base, RatedInv, [FeedbackNext]_feedbackVars
    PROVE  RatedInv'
<1>1. ASSUME NEW q \in Requests, RatingStep(q) PROVE RatedInv'
  BY <1>1, RatedRatingStep
<1>2. ASSUME NEW q \in Requests, DisputeStep(q) PROVE RatedInv'
  <2>1. UNCHANGED <<ratings, isRated, doubled>> /\ \A p \in Requests \ {q} : req'[p] = req[p]
    BY <1>2, DisputeStepDoes
  <2>2. req[q].at \notin {"create", "mark"} /\ req'[q].at \notin {"create", "mark"}
    BY <1>2, DisputeStepDoes DEF Busy, Rating
  <2>3. \A d : RatingsOf(d)' = RatingsOf(d)
    BY <2>1 DEF RatingsOf
  <2> QED
    BY <2>1, <2>2, <2>3, RatedQuiet, SameIsSame
<1>3. ASSUME NEW q \in Requests, Fail(q) PROVE RatedInv'
  <2>1. UNCHANGED <<ratings, isRated>>
    BY <1>3, FailDoes DEF docs
  <2>2. req'[q].at \notin {"create", "mark"}
    BY <1>3, FailDoes DEF NoRequest
  <2> QED
    BY <1>3, <2>1, <2>2, FailDoes, RatedLeaves
<1>4. CASE UNCHANGED <<ratings, isRated, doubled, req>>
  BY <1>4, RatedQuiet, SameIsSame DEF RatingsOf
<1>5. ASSUME NEW i \in DOMAIN disputes, NEW s \in Statuses, UpdateDisputeStatus(i, s)
      PROVE  UNCHANGED <<ratings, isRated, doubled, req>>
  BY <1>5 DEF UpdateDisputeStatus
<1>6. ASSUME NEW d \in Deliveries, Deliver(d) PROVE UNCHANGED <<ratings, isRated, doubled, req>>
  BY <1>6 DEF Deliver, history
<1>7. CASE UNCHANGED feedbackVars
  BY <1>4, <1>7 DEF feedbackVars, docs, history
<1> QED
  BY <1>1, <1>2, <1>3, <1>4, <1>5, <1>6, <1>7, NextCases

-----------------------------------------------------------------------------
(* One dispute about a delivery. *)

LEMMA DisputedQuiet ==
    ASSUME DisputedInv, raced \subseteq raced',
           \A d \in Deliveries : DisputesOf(d)' = DisputesOf(d),
           \A p \in Requests : SameWork(req'[p], req[p]) \/ req'[p].at # "open"
    PROVE  DisputedInv'
<1>1. \A p \in Requests : \A d : Opens(p, d)' => Opens(p, d)
  BY DEF Opens, At, SameWork
<1>2. ASSUME NEW d \in Deliveries, d \notin raced' PROVE OpensAlone(d)'
  <2>1. OpensAlone(d)
    BY <1>2 DEF DisputedInv
  <2>2. DisputesOf(d)' = DisputesOf(d)
    OBVIOUS
  <2> QED
    BY <1>1, <2>1, <2>2 DEF OpensAlone
<1> QED
  BY <1>2 DEF DisputedInv

LEMMA DisputedStart ==
    ASSUME Base, DisputedInv, NEW q \in Requests, NEW d \in Deliveries, StartDispute(q, d)
    PROVE  DisputedInv'
<1>1. /\ req'[q].at = "open" /\ req'[q].del = d
      /\ \A p \in Requests \ {q} : req'[p] = req[p]
  BY StartDisputeDoes
<1>2. \A e : DisputesOf(e)' = DisputesOf(e)
  BY DEF StartDispute, docs, DisputesOf
<1>3. /\ DisputesOf(d) = {} /\ raced \subseteq raced'
      /\ \A p \in Others(q, Opening) : req[p].del = d => d \in raced'
  BY DEF StartDispute
<1>4. \A p \in Requests \ {q} : \A e : Opens(p, e)' <=> Opens(p, e)
  BY <1>1 DEF Opens, At
<1>5. \A e : Opens(q, e)' <=> e = d
  BY <1>1 DEF Opens, At
<1>6. ASSUME NEW e \in Deliveries, e \notin raced' PROVE OpensAlone(e)'
  <2>1. OpensAlone(e)
    BY <1>3, <1>6 DEF DisputedInv
  <2>2. CASE e # d
    BY <1>2, <1>4, <1>5, <2>1, <2>2 DEF OpensAlone
  <2>3. CASE e = d
    <3>1. \A p \in Requests \ {q} : ~Opens(p, d)
      BY <1>3, <1>6, <2>3 DEF Opens, Others, Opening, At
    <3> QED
      BY <1>2, <1>3, <1>4, <2>1, <2>3, <3>1 DEF OpensAlone
  <2> QED
    BY <2>2, <2>3
<1> QED
  BY <1>6 DEF DisputedInv

LEMMA DisputedCreate ==
    ASSUME Base, DisputedInv, NEW q \in Requests, CreateDispute(q)
    PROVE  DisputedInv'
<1>1. At(q, "open") /\ raced' = raced
  BY DEF CreateDispute, history
<1>2. PICK d \in Deliveries : d = req[q].del
  BY CreateDisputeDoes
<1>3. /\ req'[q].at = "refer"
      /\ \A p \in Requests \ {q} : req'[p] = req[p]
      /\ \A e \in Deliveries : e # d => DisputesOf(e)' = DisputesOf(e)
      /\ DisputesOf(d)' = DisputesOf(d) \union {Len(disputes) + 1}
  BY <1>2, CreateDisputeDoes
<1>4. \A p \in Requests \ {q} : \A e : Opens(p, e)' <=> Opens(p, e)
  BY <1>3 DEF Opens, At
<1>5. \A e : ~Opens(q, e)' /\ (Opens(q, e) <=> e = d)
  BY <1>1, <1>2, <1>3 DEF Opens, At
<1>6. ASSUME NEW e \in Deliveries, e \notin raced' PROVE OpensAlone(e)'
  <2>1. OpensAlone(e)
    BY <1>1, <1>6 DEF DisputedInv
  <2>2. CASE e # d
    BY <1>3, <1>4, <1>5, <2>1, <2>2 DEF OpensAlone
  <2>3. CASE e = d
    <3>1. \A p \in Requests \ {q} : ~Opens(p, d)
      BY <1>5, <2>1, <2>3 DEF OpensAlone
    <3>2. DisputesOf(d) = {}
      BY <1>5, <2>1, <2>3 DEF OpensAlone
    <3>3. PICK k : k = Len(disputes) + 1
      OBVIOUS
    <3>4. DisputesOf(e)' = {k} /\ Cardinality({k}) = 1
      BY <1>3, <2>3, <3>2, <3>3, FS_Singleton
    <3>5. Cardinality(DisputesOf(e)') <= 1
      BY <3>4
    <3>6. \A p \in Requests : ~Opens(p, e)'
      BY <1>4, <1>5, <2>3, <3>1
    <3> QED
      BY <3>5, <3>6 DEF OpensAlone
  <2> QED
    BY <2>2, <2>3
<1> QED
  BY <1>6 DEF DisputedInv

LEMMA DisputedDisputeStep ==
    ASSUME Base, DisputedInv, NEW q \in Requests, DisputeStep(q)
    PROVE  DisputedInv'
<1> DEFINE Quiet == /\ raced' = raced /\ \A d \in Deliveries : DisputesOf(d)' = DisputesOf(d)
                    /\ req'[q].at # "open"
<1>1. ASSUME NEW d \in Deliveries, StartDispute(q, d) PROVE DisputedInv'
  BY <1>1, DisputedStart
<1>2. ASSUME NEW i \in DOMAIN disputes, NEW l \in {"message", "attach", "describe"}, StartWords(q, i, l)
      PROVE  Quiet
  <2>1. raced' = raced /\ disputes' = disputes
    BY <1>2 DEF StartWords, docs, history
  <2> QED
    BY <1>2, <2>1, StartWordsDoes DEF DisputesOf
<1>3. ASSUME NEW i \in DOMAIN disputes, StartAssign(q, i) PROVE Quiet
  <2>1. raced' = raced /\ disputes' = disputes
    BY <1>3 DEF StartAssign, docs, history
  <2> QED
    BY <1>3, <2>1, StartAssignDoes DEF DisputesOf
<1>4. ASSUME CreateDispute(q) PROVE DisputedInv'
  BY <1>4, DisputedCreate
<1>5. ASSUME UpdateDeliveryDispute(q) PROVE Quiet
  <2>1. raced' = raced /\ disputes' = disputes
    BY <1>5 DEF UpdateDeliveryDispute, history
  <2> QED
    BY <1>5, <2>1, UpdateDeliveryDisputeDoes DEF DisputesOf, NoRequest
<1>6. ASSUME NEW from \in {"message", "attach", "describe"}, NEW to \in {"idle", "describe"},
             AddWords(q, from, to)
      PROVE  Quiet
  <2>1. raced' = raced
    BY <1>6 DEF AddWords, history
  <2>2. NoRequest.at # "open"
    BY DEF NoRequest
  <2> QED
    BY <1>6, <2>1, <2>2, AddWordsDoes
<1>7. ASSUME AssignDispute(q) PROVE Quiet
  <2>1. raced' = raced
    BY <1>7 DEF AssignDispute
  <2> QED
    BY <1>7, <2>1, AssignDisputeDoes DEF NoRequest
<1>8. ASSUME Quiet PROVE DisputedInv'
  <2>1. \A p \in Requests \ {q} : req'[p] = req[p]
    BY DisputeStepDoes
  <2> QED
    BY <1>8, <2>1, DisputedQuiet, SameIsSame
<1> HIDE DEF Quiet
<1>9. ASSUME StepDispute(q) PROVE DisputedInv'
  BY <1>4, <1>5, <1>6, <1>7, <1>8, <1>9, AddCases DEF StepDispute
<1>10. ASSUME AskDispute(q) PROVE DisputedInv'
  BY <1>1, <1>2, <1>8, <1>10, AskDisputeCases
<1> QED
  BY <1>3, <1>8, <1>9, <1>10 DEF DisputeStep

LEMMA DisputedStep ==
    ASSUME Base, DisputedInv, [FeedbackNext]_feedbackVars
    PROVE  DisputedInv'
<1>1. ASSUME NEW q \in Requests, DisputeStep(q) PROVE DisputedInv'
  BY <1>1, DisputedDisputeStep
<1>2. ASSUME NEW q \in Requests, RatingStep(q) PROVE DisputedInv'
  <2>1. /\ UNCHANGED <<disputes, raced>> /\ req'[q].at # "open"
        /\ \A p \in Requests \ {q} : SameWork(req'[p], req[p])
    BY <1>2, RatingStepDoes DEF Opening
  <2>2. \A d : DisputesOf(d)' = DisputesOf(d)
    BY <2>1 DEF DisputesOf
  <2> QED
    BY <2>1, <2>2, DisputedQuiet
<1>3. ASSUME NEW q \in Requests, Fail(q) PROVE DisputedInv'
  <2>1. UNCHANGED <<disputes, raced>> /\ req'[q].at # "open"
    BY <1>3, FailDoes DEF docs, NoRequest
  <2>2. \A d : DisputesOf(d)' = DisputesOf(d)
    BY <2>1 DEF DisputesOf
  <2> QED
    BY <1>3, <2>1, <2>2, FailDoes, DisputedQuiet, SameIsSame
<1>4. CASE raced' = raced /\ req' = req /\ \A d \in Deliveries : DisputesOf(d)' = DisputesOf(d)
  BY <1>4, DisputedQuiet, SameIsSame
<1>5. ASSUME NEW i \in DOMAIN disputes, NEW s \in Statuses, UpdateDisputeStatus(i, s)
      PROVE  DisputedInv'
  BY <1>4, <1>5, UpdateDisputeStatusDoes
<1>6. ASSUME NEW d \in Deliveries, Deliver(d) PROVE DisputedInv'
  <2>1. UNCHANGED <<disputes, raced, req>>
    BY <1>6 DEF Deliver, history
  <2> QED
    BY <1>4, <2>1 DEF DisputesOf
<1>7. CASE UNCHANGED feedbackVars
  <2>1. UNCHANGED <<disputes, raced, req>>
    BY <1>7 DEF feedbackVars, docs, history
  <2> QED
    BY <1>4, <2>1 DEF DisputesOf
<1> QED
  BY <1>1, <1>2, <1>3, <1>5, <1>6, <1>7, NextCases
-----------------------------------------------------------------------------
(* The rider's average. *)

(* RiderAverage as a function of the ratings.                              *)
AverageOf(rs) ==
    IF Len(rs) = 0 THEN NoAverage
    ELSE [tenths |-> (20 * FoldLeft(LAMBDA t, r : t + r.score, 0, rs) + Len(rs)) \div (2 * Len(rs)),
          total |-> Len(rs)]

LEMMA AverageOfRatings == RiderAverage = AverageOf(ratings)
  BY DEF RiderAverage, AverageOf

LEMMA SameAverage ==
    ASSUME UNCHANGED ratings
    PROVE  RiderAverage' = RiderAverage
<1>1. (RiderAverage = AverageOf(ratings))'
  BY AverageOfRatings, PTL
<1> QED
  BY <1>1, AverageOfRatings

(* While a request is busy, and did not compute the average, nobody is     *)
(* alone with it.                                                          *)
LEMMA NobodyAlone ==
    ASSUME AloneInv, NEW q \in Requests, Busy(q), ~At(q, "save")
    PROVE  \A p \in Requests : ~req[p].alone
  BY DEF AloneInv

LEMMA AverageQuiet ==
    ASSUME AverageInv, UNCHANGED <<ratings, average, owed>>,
           \A p \in Requests : \/ req'[p] = req[p]
                               \/ ~Busy(p) /\ ~Busy(p)' /\ (req'[p].alone => req[p].alone)
    PROVE  AverageInv'
<1>1. RiderAverage' = RiderAverage
  BY SameAverage
<1>2. \A p \in Requests : /\ Busy(p)' <=> Busy(p)
                          /\ req'[p].alone => req[p].alone
  BY DEF Busy
<1>3. \A p \in Requests : /\ Busy(p) => req'[p] = req[p]
                          /\ At(p, "save") \/ At(p, "update") => Busy(p)
                          /\ At(p, "save")' \/ At(p, "update")' => Busy(p)'
  BY DEF At, Busy, Rating
<1>4. AloneInv'
  <2>1. ASSUME NEW q \in Requests, req'[q].alone
        PROVE  /\ At(q, "save")' /\ (\A p \in Requests \ {q} : ~Busy(p)')
               /\ req'[q].avg = RiderAverage'
    <3>1. /\ At(q, "save") /\ (\A p \in Requests \ {q} : ~Busy(p))
          /\ req[q].avg = RiderAverage
      BY <1>2, <2>1 DEF AverageInv, AloneInv
    <3>2. req'[q] = req[q]
      BY <1>3, <3>1
    <3> QED
      BY <1>1, <1>2, <3>1, <3>2 DEF At
  <2> QED
    BY <2>1 DEF AloneInv
<1>5. OwedInv'
  <2>1. SUFFICES ASSUME ~owed PROVE OwedInv'
    BY DEF OwedInv
  <2>2. /\ \A p, q \in Requests : Busy(p) /\ Busy(q) => p = q
        /\ (\A q \in Requests : ~Busy(q)) => average = RiderAverage
    BY <2>1 DEF AverageInv, OwedInv
  <2>3. ASSUME NEW q \in Requests, At(q, "save")' PROVE req'[q].alone
    <3>1. req'[q] = req[q]
      BY <1>2, <1>3, <2>3
    <3>2. At(q, "save")
      BY <3>1, <2>3 DEF At
    <3> QED
      BY <3>1, <3>2, <2>1 DEF AverageInv, OwedInv
  <2>4. ASSUME NEW q \in Requests, At(q, "update")'
        PROVE  average = RiderAverage /\ ratings[req'[q].doc].score = req'[q].read
    <3>1. req'[q] = req[q]
      BY <1>2, <1>3, <2>4
    <3>2. At(q, "update")
      BY <3>1, <2>4 DEF At
    <3> QED
      BY <3>1, <3>2, <2>1 DEF AverageInv, OwedInv
  <2> QED
    BY <1>1, <1>2, <2>2, <2>3, <2>4 DEF OwedInv
<1> QED
  BY <1>4, <1>5 DEF AverageInv

LEMMA AverageBegins ==
    ASSUME Base, AverageInv, NEW q \in Requests, NEW to \in RequestType, BeginRating(q, to),
           to.at \in {"create", "update"}, ~to.alone, UNCHANGED docs,
           to.at = "update" => to.read = ratings[to.doc].score
    PROVE  AverageInv'
<1>1. /\ req'[q] = to /\ At(q, "idle")
      /\ \A p \in Requests \ {q} : SameWork(req'[p], req[p]) /\ ~req'[p].alone
      /\ ~owed' => ~owed /\ \A p \in Requests \ {q} : ~Busy(p)
  BY BeginsRating
<1>2. UNCHANGED <<ratings, average>> /\ RiderAverage' = RiderAverage
  BY SameAverage DEF docs
<1>3. AloneInv'
  BY <1>1 DEF AloneInv
<1>4. \A p \in Requests \ {q} : Busy(p)' <=> Busy(p)
  BY <1>1 DEF Busy, SameWork
<1>5. OwedInv'
  <2>1. SUFFICES ASSUME ~owed' PROVE OwedInv'
    BY DEF OwedInv
  <2>2. \A p \in Requests : ~Busy(p)
    <3>1. ~Busy(q)
      BY <1>1 DEF Busy, At, Rating
    <3> QED
      BY <1>1, <2>1, <3>1
  <2>3. average' = RiderAverage'
    BY <1>1, <1>2, <2>1, <2>2 DEF AverageInv, OwedInv
  <2>4. \A p \in Requests \ {q} : ~Busy(p)' /\ ~At(p, "save")' /\ ~At(p, "update")'
    BY <1>4, <2>2 DEF Busy, At, Rating
  <2>5. Busy(q)' /\ ~At(q, "save")' /\ (At(q, "update")' => ratings'[req'[q].doc].score = req'[q].read)
    BY <1>1, <1>2 DEF Busy, At, Rating
  <2> QED
    BY <2>3, <2>4, <2>5 DEF OwedInv
<1> QED
  BY <1>3, <1>5 DEF AverageInv

(* A request that works on a rating and has not computed the average yet   *)
(* may change the ratings.                                                 *)
LEMMA AverageGoesOn ==
    ASSUME AverageInv, NEW q \in Requests, Busy(q), ~At(q, "save"),
           \A p \in Requests \ {q} : req'[p] = req[p],
           req'[q].at \in {"mark", "aggregate"}, req'[q].alone => req[q].alone, owed' = owed
    PROVE  AverageInv'
<1>1. \A p \in Requests : ~req[p].alone
  BY NobodyAlone DEF AverageInv
<1>2. AloneInv'
  BY <1>1 DEF AloneInv
<1>3. OwedInv'
  <2>1. SUFFICES ASSUME ~owed PROVE OwedInv'
    BY DEF OwedInv
  <2>2. \A p \in Requests \ {q} : ~Busy(p)
    BY <2>1 DEF AverageInv, OwedInv
  <2>3. \A p \in Requests \ {q} : ~Busy(p)' /\ ~At(p, "save")' /\ ~At(p, "update")'
    BY <2>2 DEF Busy, At, Rating
  <2>4. Busy(q)' /\ ~At(q, "save")' /\ ~At(q, "update")'
    BY DEF Busy, At, Rating
  <2> QED
    BY <2>3, <2>4 DEF OwedInv
<1> QED
  BY <1>2, <1>3 DEF AverageInv

LEMMA AverageCalculated ==
    ASSUME Base, AverageInv, NEW q \in Requests, CalculateAverage(q)
    PROVE  AverageInv'
<1>1. /\ req'[q].at = "save" /\ req'[q].avg = RiderAverage
      /\ req'[q].alone = (Others(q, Rating) = {})
      /\ \A p \in Requests \ {q} : req'[p] = req[p]
  BY CalculateAverageDoes
<1>2. UNCHANGED <<ratings, average, owed>> /\ At(q, "aggregate") /\ RiderAverage' = RiderAverage
  BY SameAverage DEF CalculateAverage, docs, history
<1>3. Busy(q) /\ ~At(q, "save") /\ Busy(q)'
  BY <1>1, <1>2 DEF Busy, At, Rating
<1>4. \A p \in Requests : ~req[p].alone
  BY <1>3, NobodyAlone DEF AverageInv
<1>5. /\ \A p \in Requests \ {q} : Busy(p)' <=> Busy(p)
      /\ Others(q, Rating) = {} <=> \A p \in Requests \ {q} : ~Busy(p)
  BY <1>1 DEF Busy, Others
<1>6. AloneInv'
  BY <1>1, <1>2, <1>4, <1>5 DEF AloneInv, At
<1>7. OwedInv'
  <2>1. SUFFICES ASSUME ~owed PROVE OwedInv'
    BY <1>2 DEF OwedInv
  <2>2. \A p \in Requests \ {q} : ~Busy(p)
    BY <1>3, <2>1 DEF AverageInv, OwedInv
  <2>3. req'[q].alone /\ ~At(q, "update")'
    BY <1>1, <1>5, <2>2 DEF At
  <2>4. \A p \in Requests \ {q} : ~Busy(p)' /\ ~At(p, "save")' /\ ~At(p, "update")'
    BY <1>1, <2>2 DEF Busy, At, Rating
  <2> QED
    BY <1>3, <2>3, <2>4 DEF OwedInv
<1> QED
  BY <1>6, <1>7 DEF AverageInv

LEMMA AverageSaved ==
    ASSUME Base, AverageInv, NEW q \in Requests, UpdateRiderRating(q)
    PROVE  AverageInv'
<1>1. req'[q] = NoRequest /\ \A p \in Requests \ {q} : req'[p] = req[p]
  BY UpdateRiderRatingDoes
<1>2. /\ ratings' = ratings /\ average' = req[q].avg /\ owed' = (owed /\ ~req[q].alone)
      /\ At(q, "save") /\ RiderAverage' = RiderAverage
  BY SameAverage DEF UpdateRiderRating
<1>3. Busy(q) /\ ~Busy(q)' /\ ~req'[q].alone /\ ~At(q, "save")' /\ ~At(q, "update")'
  BY <1>1, <1>2 DEF Busy, At, Rating, NoRequest
<1>4. \A p \in Requests \ {q} : ~req[p].alone
  BY <1>3 DEF AverageInv, AloneInv
<1>5. AloneInv'
  BY <1>1, <1>3, <1>4 DEF AloneInv
<1>6. OwedInv'
  <2>1. SUFFICES ASSUME ~owed' PROVE OwedInv'
    BY DEF OwedInv
  <2>2. req[q].alone
    BY <1>2, <2>1 DEF AverageInv, OwedInv
  <2>3. (\A p \in Requests \ {q} : ~Busy(p)) /\ req[q].avg = RiderAverage
    BY <2>2 DEF AverageInv, AloneInv
  <2>4. \A p \in Requests \ {q} : ~Busy(p)' /\ ~At(p, "save")' /\ ~At(p, "update")'
    BY <1>1, <2>3 DEF Busy, At, Rating
  <2>5. average' = RiderAverage'
    BY <1>2, <2>3
  <2> QED
    BY <1>3, <2>4, <2>5 DEF OwedInv
<1> QED
  BY <1>5, <1>6 DEF AverageInv

LEMMA AverageUpdated ==
    ASSUME Base, AverageInv, NEW q \in Requests, UpdateRating(q)
    PROVE  AverageInv'
<1>1. UNCHANGED <<average, owed>> /\ At(q, "update") /\ Busy(q) /\ ~At(q, "save")
  BY DEF UpdateRating, history, At, Busy, Rating
<1>2. /\ \A p \in Requests \ {q} : req'[p] = req[p]
      /\ req'[q].alone => req[q].alone
      /\ \/ req[q].score = req[q].read /\ req'[q] = NoRequest
         \/ req'[q].at = "aggregate"
      /\ ratings[req[q].doc].score = req[q].score => ratings' = ratings
  BY UpdateRatingDoes
<1>3. CASE req'[q].at = "aggregate"
  BY <1>1, <1>2, <1>3, AverageGoesOn
<1>4. CASE req[q].score = req[q].read /\ req'[q] = NoRequest
  <2>1. \A p \in Requests : ~req[p].alone
    BY <1>1, NobodyAlone DEF AverageInv
  <2>2. AloneInv'
    BY <1>2, <2>1 DEF AloneInv
  <2>3. OwedInv'
    <3>1. SUFFICES ASSUME ~owed PROVE OwedInv'
      BY <1>1 DEF OwedInv
    <3>2. /\ \A p \in Requests \ {q} : ~Busy(p)
          /\ average = RiderAverage /\ ratings[req[q].doc].score = req[q].read
      BY <1>1, <3>1 DEF AverageInv, OwedInv
    <3>3. ratings' = ratings
      BY <1>2, <1>4, <3>2
    <3>4. average' = RiderAverage'
      BY <1>1, <3>2, <3>3, SameAverage
    <3>5. \A p \in Requests : ~Busy(p)' /\ ~At(p, "save")' /\ ~At(p, "update")'
      BY <1>2, <1>4, <3>2 DEF Busy, At, Rating, NoRequest
    <3> QED
      BY <3>4, <3>5 DEF OwedInv
  <2> QED
    BY <2>2, <2>3 DEF AverageInv
<1> QED
  BY <1>2, <1>3, <1>4

LEMMA AverageFails ==
    ASSUME Base, AverageInv, NEW q \in Requests, Fail(q)
    PROVE  AverageInv'
<1>1. /\ UNCHANGED <<ratings, average>> /\ req'[q] = NoRequest
      /\ \A p \in Requests \ {q} : req'[p] = req[p]
      /\ ~owed' => ~owed /\ ~Busy(q)
  BY FailDoes DEF docs
<1>2. RiderAverage' = RiderAverage
  BY <1>1, SameAverage
<1>3. /\ ~Busy(q)' /\ ~req'[q].alone /\ ~At(q, "save")' /\ ~At(q, "update")'
  BY <1>1 DEF Busy, At, Rating, NoRequest
<1>4. \A p \in Requests \ {q} : (Busy(p)' <=> Busy(p)) /\ (At(p, "save")' <=> At(p, "save"))
                                /\ (At(p, "update")' <=> At(p, "update"))
  BY <1>1 DEF Busy, At
<1>5. AloneInv'
  BY <1>1, <1>2, <1>3, <1>4 DEF AverageInv, AloneInv
<1>6. OwedInv'
  <2>1. SUFFICES ASSUME ~owed', ~owed, ~Busy(q) PROVE OwedInv'
    BY <1>1 DEF OwedInv
  <2>2. /\ \A p, r \in Requests : Busy(p)' /\ Busy(r)' => p = r
        /\ (\A p \in Requests : ~Busy(p)') => average' = RiderAverage'
    BY <1>1, <1>2, <1>3, <1>4, <2>1 DEF AverageInv, OwedInv
  <2>3. \A p \in Requests : /\ At(p, "save")' => req'[p].alone
                            /\ At(p, "update")' => /\ average' = RiderAverage'
                                                   /\ ratings'[req'[p].doc].score = req'[p].read
    BY <1>1, <1>2, <1>3, <1>4, <2>1 DEF AverageInv, OwedInv
  <2> QED
    BY <2>2, <2>3 DEF OwedInv
<1> QED
  BY <1>5, <1>6 DEF AverageInv
LEMMA AverageRatingStep ==
    ASSUME Base, AverageInv, NEW q \in Requests, RatingStep(q)
    PROVE  AverageInv'
<1>1. ASSUME NEW d \in Deliveries, NEW n \in Scores, StartRating(q, d, n) PROVE AverageInv'
  <2>1. PICK to : to = [NoRequest EXCEPT !.at = "create", !.del = d, !.score = n]
    OBVIOUS
  <2>2. n \in Int
    BY FeedbackAssumption
  <2>3. to \in RequestType /\ to.at = "create" /\ ~to.alone
    BY <2>1, <2>2, NoRequestFits DEF RequestType, NoRequest, Places, Rating
  <2>4. BeginRating(q, to) /\ UNCHANGED docs
    BY <1>1, <2>1 DEF StartRating
  <2> QED
    BY <2>3, <2>4, AverageBegins
<1>2. ASSUME NEW i \in DOMAIN ratings, NEW n \in Scores, StartUpdate(q, i, n) PROVE AverageInv'
  <2>1. PICK to : to = [NoRequest EXCEPT !.at = "update", !.doc = i, !.score = n, !.read = ratings[i].score]
    OBVIOUS
  <2>2. to \in RequestType /\ to.at = "update" /\ ~to.alone /\ to.read = ratings[i].score /\ to.doc = i
    <3>1. ratings \in Seq(RatingType)
      BY BaseTypes
    <3>2. ratings[i] \in RatingType /\ i \in Nat
      BY <3>1
    <3>3. \A x \in Scores : x \in Int
      BY FeedbackAssumption
    <3>4. ratings[i].score \in Int /\ n \in Int
      BY <3>2, <3>3 DEF RatingType
    <3>5. PICK k : k = ratings[i].score
      OBVIOUS
    <3> QED
      BY <2>1, <3>2, <3>4, <3>5, NoRequestFits DEF RequestType, NoRequest, Places, Rating
  <2>3. BeginRating(q, to) /\ UNCHANGED docs
    BY <1>2, <2>1 DEF StartUpdate
  <2> QED
    BY <2>2, <2>3, AverageBegins
<1>3. CASE CreateRating(q)
  <2>1. owed' = owed /\ Busy(q) /\ ~At(q, "save")
    BY <1>3 DEF CreateRating, history, At, Busy, Rating
  <2> QED
    BY <1>3, <2>1, CreateRatingDoes, AverageGoesOn
<1>4. CASE UpdateDeliveryRating(q)
  <2>1. owed' = owed /\ Busy(q) /\ ~At(q, "save")
    BY <1>4 DEF UpdateDeliveryRating, history, At, Busy, Rating
  <2> QED
    BY <1>4, <2>1, UpdateDeliveryRatingDoes, AverageGoesOn
<1> QED
  BY <1>1, <1>2, <1>3, <1>4, AverageCalculated, AverageSaved, AverageUpdated
  DEF RatingStep, StepRating, AskRating

LEMMA AverageStep ==
    ASSUME Base, AverageInv, [FeedbackNext]_feedbackVars
    PROVE  AverageInv'
<1>1. ASSUME NEW q \in Requests, RatingStep(q) PROVE AverageInv'
  BY <1>1, AverageRatingStep
<1>2. ASSUME NEW q \in Requests, DisputeStep(q) PROVE AverageInv'
  BY <1>2, DisputeStepDoes, AverageQuiet
<1>3. ASSUME NEW q \in Requests, Fail(q) PROVE AverageInv'
  BY <1>3, AverageFails
<1>4. CASE UNCHANGED <<ratings, average, owed, req>>
  BY <1>4, AverageQuiet
<1>5. ASSUME NEW i \in DOMAIN disputes, NEW s \in Statuses, UpdateDisputeStatus(i, s)
      PROVE  UNCHANGED <<ratings, average, owed, req>>
  BY <1>5 DEF UpdateDisputeStatus
<1>6. ASSUME NEW d \in Deliveries, Deliver(d) PROVE UNCHANGED <<ratings, average, owed, req>>
  BY <1>6 DEF Deliver, history
<1>7. CASE UNCHANGED feedbackVars
  BY <1>4, <1>7 DEF feedbackVars, docs, history
<1> QED
  BY <1>1, <1>2, <1>3, <1>4, <1>5, <1>6, <1>7, NextCases

-----------------------------------------------------------------------------
(* What a request knows of its dispute. *)

LEMMA KnowsStill ==
    ASSUME Base, DisputeInv, stale \subseteq stale', NEW p \in Requests,
           SameWork(req'[p], req[p]), req'[p].status = req[p].status,
           \/ req[p].at \notin OnDispute
           \/ req[p].doc \in stale'
           \/ disputes'[req[p].doc].status = disputes[req[p].doc].status
    PROVE  KnowsIt(p)'
  BY DEF DisputeInv, KnowsIt, SameWork, At, Closed

LEMMA OnItsDispute ==
    ASSUME Base, NEW p \in Requests, req[p].at \in OnDispute
    PROVE  req[p].doc \in DOMAIN disputes
  BY BaseTypes DEF Fits

LEMMA KnowsOthers ==
    ASSUME Base, DisputeInv, stale \subseteq stale', NEW q \in Requests,
           \A p \in Requests \ {q} : req'[p] = req[p],
           \A j \in DOMAIN disputes : disputes'[j].status = disputes[j].status,
           KnowsIt(q)'
    PROVE  DisputeInv'
<1>1. ASSUME NEW p \in Requests \ {q} PROVE KnowsIt(p)'
  BY <1>1, KnowsStill, OnItsDispute, SameIsSame
<1> QED
  BY <1>1 DEF DisputeInv

LEMMA KnowsDisputeStep ==
    ASSUME Base, DisputeInv, NEW q \in Requests, DisputeStep(q)
    PROVE  DisputeInv'
<1>1. ASSUME NEW d \in Deliveries, StartDispute(q, d) PROVE DisputeInv'
  <2>1. UNCHANGED <<disputes, stale>>
    BY <1>1 DEF StartDispute, docs
  <2>2. KnowsIt(q)'
    BY <1>1, StartDisputeDoes DEF KnowsIt, OnDispute
  <2> QED
    BY <1>1, <2>1, <2>2, StartDisputeDoes, KnowsOthers
<1>2. ASSUME NEW i \in DOMAIN disputes, NEW l \in {"message", "attach", "describe"}, StartWords(q, i, l)
      PROVE  DisputeInv'
  <2>1. UNCHANGED <<disputes, stale>> /\ ~Closed(disputes[i])
    BY <1>2 DEF StartWords, docs, history
  <2>2. KnowsIt(q)'
    BY <1>2, <2>1, StartWordsDoes DEF KnowsIt, At
  <2> QED
    BY <1>2, <2>1, <2>2, StartWordsDoes, KnowsOthers
<1>3. ASSUME NEW i \in DOMAIN disputes, StartAssign(q, i) PROVE DisputeInv'
  <2>1. UNCHANGED <<disputes, stale>>
    BY <1>3 DEF StartAssign, docs, history
  <2>2. KnowsIt(q)'
    BY <1>3, <2>1, StartAssignDoes DEF KnowsIt, At
  <2> QED
    BY <1>3, <2>1, <2>2, StartAssignDoes, KnowsOthers
<1>4. CASE CreateDispute(q)
  <2>1. stale' = stale
    BY <1>4 DEF CreateDispute, history
  <2>2. KnowsIt(q)'
    BY <1>4, CreateDisputeDoes DEF KnowsIt, OnDispute
  <2> QED
    BY <1>4, <2>1, <2>2, CreateDisputeDoes, KnowsOthers
<1>5. CASE UpdateDeliveryDispute(q)
  <2>1. UNCHANGED <<disputes, stale>>
    BY <1>5 DEF UpdateDeliveryDispute, history
  <2>2. KnowsIt(q)'
    BY <1>5, UpdateDeliveryDisputeDoes DEF KnowsIt, OnDispute, NoRequest
  <2> QED
    BY <1>5, <2>1, <2>2, UpdateDeliveryDisputeDoes, KnowsOthers
<1>6. ASSUME NEW from \in {"message", "attach", "describe"}, NEW to \in {"idle", "describe"},
             AddWords(q, from, to)
      PROVE  DisputeInv'
  <2>1. stale' = stale
    BY <1>6 DEF AddWords, history
  <2>2. /\ req'[q] = NoRequest \/ (req'[q].at = "describe" /\ req'[q].doc = req[q].doc)
        /\ req[q].at = from /\ req[q].doc \in DOMAIN disputes
        /\ \A j \in DOMAIN disputes : disputes'[j].status = disputes[j].status
    BY <1>6, AddWordsDoes
  <2>3. CASE req'[q] = NoRequest
    <3>1. KnowsIt(q)'
      BY <2>3 DEF KnowsIt, OnDispute, NoRequest
    <3> QED
      BY <1>6, <2>1, <3>1, AddWordsDoes, KnowsOthers
  <2>4. CASE req'[q].at = "describe" /\ req'[q].doc = req[q].doc
    <3>1. req[q].doc \notin stale => ~Closed(disputes[req[q].doc])
      BY <2>2 DEF DisputeInv, KnowsIt, At, OnDispute
    <3>2. KnowsIt(q)'
      BY <2>1, <2>2, <2>4, <3>1 DEF KnowsIt, At, Closed
    <3> QED
      BY <1>6, <2>1, <3>2, AddWordsDoes, KnowsOthers
  <2> QED
    BY <2>2, <2>3, <2>4
<1>7. CASE AssignDispute(q)
  <2>1. /\ req'[q] = NoRequest /\ stale \subseteq stale'
        /\ \A p \in Requests \ {q} :
              /\ req'[p] = req[p]
              /\ req[p].at \in OnDispute /\ req[p].doc = req[q].doc => req[p].doc \in stale'
        /\ \A j \in DOMAIN disputes \ {req[q].doc} : disputes'[j] = disputes[j]
    BY <1>7, AssignDisputeDoes
  <2>2. KnowsIt(q)'
    BY <2>1 DEF KnowsIt, OnDispute, NoRequest
  <2>3. ASSUME NEW p \in Requests \ {q} PROVE KnowsIt(p)'
    BY <2>1, KnowsStill, OnItsDispute, SameIsSame
  <2> QED
    BY <2>2, <2>3 DEF DisputeInv
<1>8. CASE StepDispute(q)
  BY <1>4, <1>5, <1>6, <1>7, <1>8, AddCases DEF StepDispute
<1>9. CASE AskDispute(q)
  BY <1>1, <1>2, <1>9, AskDisputeCases
<1> QED
  BY <1>3, <1>8, <1>9 DEF DisputeStep

LEMMA KnowsStep ==
    ASSUME Base, DisputeInv, [FeedbackNext]_feedbackVars
    PROVE  DisputeInv'
<1>1. ASSUME NEW q \in Requests, RatingStep(q) PROVE DisputeInv'
  <2>1. /\ UNCHANGED <<disputes, stale>> /\ req'[q].at \notin OnDispute
        /\ \A p \in Requests \ {q} : SameWork(req'[p], req[p]) /\ req'[p].status = req[p].status
    BY <1>1, RatingStepDoes
  <2>2. KnowsIt(q)'
    BY <2>1 DEF KnowsIt
  <2>3. ASSUME NEW p \in Requests \ {q} PROVE KnowsIt(p)'
    BY <2>1, KnowsStill
  <2> QED
    BY <2>2, <2>3 DEF DisputeInv
<1>2. ASSUME NEW q \in Requests, DisputeStep(q) PROVE DisputeInv'
  BY <1>2, KnowsDisputeStep
<1>3. ASSUME NEW q \in Requests, Fail(q) PROVE DisputeInv'
  <2>1. UNCHANGED <<disputes, stale>>
    BY <1>3, FailDoes DEF docs
  <2>2. KnowsIt(q)'
    BY <1>3, FailDoes DEF KnowsIt, OnDispute, NoRequest
  <2> QED
    BY <1>3, <2>1, <2>2, FailDoes, KnowsOthers
<1>4. CASE UNCHANGED <<disputes, stale, req>>
  <2>1. ASSUME NEW p \in Requests PROVE KnowsIt(p)'
    BY <1>4, KnowsStill, SameIsSame
  <2> QED
    BY <2>1 DEF DisputeInv
<1>5. ASSUME NEW i \in DOMAIN disputes, NEW s \in Statuses, UpdateDisputeStatus(i, s)
      PROVE  DisputeInv'
  <2>1. ASSUME NEW p \in Requests PROVE KnowsIt(p)'
    <3>1. /\ req' = req /\ stale \subseteq stale'
          /\ req[p].at \in OnDispute /\ req[p].doc = i => req[p].doc \in stale'
          /\ \A j \in DOMAIN disputes \ {i} : disputes'[j] = disputes[j]
      BY <1>5, UpdateDisputeStatusDoes
    <3> QED
      BY <3>1, KnowsStill, OnItsDispute, SameIsSame
  <2> QED
    BY <2>1 DEF DisputeInv
<1>6. ASSUME NEW d \in Deliveries, Deliver(d) PROVE UNCHANGED <<disputes, stale, req>>
  BY <1>6 DEF Deliver, history
<1>7. CASE UNCHANGED feedbackVars
  BY <1>4, <1>7 DEF feedbackVars, docs, history
<1> QED
  BY <1>1, <1>2, <1>3, <1>4, <1>5, <1>6, <1>7, NextCases
-----------------------------------------------------------------------------
(* The invariants hold. *)

FeedbackInv == Base /\ RatedInv /\ DisputedInv /\ AverageInv /\ DisputeInv

LEMMA BaseStep ==
    ASSUME Base, [FeedbackNext]_feedbackVars
    PROVE  Base'
<1>1. CASE UNCHANGED feedbackVars
  <2>1. UNCHANGED docs /\ UNCHANGED req /\ HistoryOK'
    BY <1>1, BaseTypes DEF feedbackVars, history, docs, HistoryOK
  <2> QED
    BY <2>1, BaseTypes, BaseKeepsDocs, SameIsSame
<1> QED
  BY <1>1, NextCases, RatingStepDoes, DisputeStepDoes, FailDoes, UpdateDisputeStatusDoes, BaseDeliver

LEMMA FeedbackInvStart == FeedbackInit => FeedbackInv
<1> SUFFICES ASSUME FeedbackInit PROVE FeedbackInv
  OBVIOUS
<1>1. \A q \in Requests : req[q] = NoRequest
  BY DEF FeedbackInit
<1>2. ratings = <<>> /\ disputes = <<>>
  BY DEF FeedbackInit
<1>3. \A d : RatingsOf(d) = {} /\ DisputesOf(d) = {}
  BY <1>2 DEF RatingsOf, DisputesOf
<1>4. NoAverage \in AverageType
  BY DEF NoAverage, AverageType
<1>5. RequestsOK
  BY <1>1, NoRequestFits DEF FeedbackInit, RequestsOK
<1>6. \A q \in Requests : req[q].at \in Places /\ req[q].avg \in AverageType
  BY <1>5 DEF RequestsOK, RequestType
<1>7. ratings \in Seq(RatingType) /\ disputes \in Seq(DisputeType)
  BY <1>2
<1>8. FeedbackTypeOK
  <2>1. /\ phase \in [Deliveries -> {"in_transit", "delivered"}]
        /\ isRated \in [Deliveries -> BOOLEAN] /\ hasDispute \in [Deliveries -> BOOLEAN]
        /\ average \in AverageType
    BY <1>4 DEF FeedbackInit
  <2>2. failures = 0 /\ doubled = {} /\ raced = {} /\ owed = FALSE /\ stale = {}
    BY DEF FeedbackInit
  <2>3. failures \in 0..MaxFaults
    BY <2>2, FeedbackAssumption
  <2> QED
    BY <1>6, <1>7, <2>1, <2>2, <2>3 DEF FeedbackTypeOK, RatingType, DisputeType, Places
<1>9. MarksAreBacked
  BY DEF FeedbackInit, MarksAreBacked
<1>10. \A q \in Requests : req[q].at = "idle" /\ ~req[q].alone
  BY <1>1 DEF NoRequest
<1>11. RatedInv
  BY <1>3, <1>10, FS_EmptySet DEF RatedInv, RatesAlone, Rates
<1>12. DisputedInv
  BY <1>3, <1>10, FS_EmptySet DEF DisputedInv, OpensAlone, Opens, At
<1>13. RiderAverage = NoAverage /\ average = NoAverage
  <2>1. Len(ratings) = 0
    BY <1>2
  <2>2. PICK n : n = Len(ratings)
    OBVIOUS
  <2>3. n = 0 => RiderAverage = NoAverage
    BY <2>2, Zenon DEF RiderAverage
  <2>4. RiderAverage = NoAverage
    BY <2>1, <2>2, <2>3
  <2> QED
    BY <2>4 DEF FeedbackInit
<1>14. AverageInv
  BY <1>10, <1>13 DEF AverageInv, AloneInv, OwedInv, At, Busy, Rating
<1>15. DisputeInv
  BY <1>10 DEF DisputeInv, KnowsIt, OnDispute
<1> QED
  BY <1>5, <1>8, <1>9, <1>11, <1>12, <1>14, <1>15 DEF FeedbackInv, Base

LEMMA FeedbackInvHolds == FeedbackSpec => []FeedbackInv
<1>1. FeedbackInv /\ [FeedbackNext]_feedbackVars => FeedbackInv'
  BY BaseStep, RatedStep, DisputedStep, AverageStep, KnowsStep DEF FeedbackInv
<1> QED
  BY <1>1, FeedbackInvStart, PTL DEF FeedbackSpec

(* Documents and marks agree: a delivery is rated once, unless two         *)
(* requests raced or one stopped before it marked the delivery, it has one *)
(* dispute, unless two requests raced, and no mark lacks its document.     *)
THEOREM MarksAgreeHolds == FeedbackSpec => []MarksAgree
<1>1. FeedbackInv => MarksAgree
  BY DEF FeedbackInv, Base, RatedInv, RatesAlone, DisputedInv, OpensAlone,
         MarksAgree, RatedOnce, DisputeOnce
<1> QED
  BY <1>1, FeedbackInvHolds, PTL

(* At rest, the rider's average is that of the ratings, unless a request   *)
(* failed or crossed another and none has made up for it.                  *)
THEOREM AverageIsCurrentHolds == FeedbackSpec => []AverageIsCurrent
<1>1. FeedbackInv => AverageIsCurrent
  <2>1. SUFFICES ASSUME FeedbackInv, AtRest, ~owed PROVE average = RiderAverage
    BY DEF AverageIsCurrent
  <2>2. \A q \in Requests : ~Busy(q)
    BY <2>1 DEF AtRest, At, Busy, Rating
  <2> QED
    BY <2>1, <2>2 DEF FeedbackInv, AverageInv, OwedInv
<1> QED
  BY <1>1, FeedbackInvHolds, PTL

(* What a step does to a dispute that is closed and whose status nobody    *)
(* changed behind a request's back.                                        *)
Quiet(i) ==
    i \in DOMAIN disputes \ stale /\ Closed(disputes[i]) =>
        /\ disputes'[i].words = disputes[i].words
        /\ \/ Closed(disputes'[i])
           \/ \E s \in Statuses : UpdateDisputeStatus(i, s)

LEMMA QuietStays ==
    ASSUME NEW i, disputes'[i] = disputes[i]
    PROVE  Quiet(i)
  BY DEF Quiet

LEMMA QuietDisputeStep ==
    ASSUME FeedbackInv, NEW q \in Requests, DisputeStep(q), NEW i \in DOMAIN disputes
    PROVE  Quiet(i)
<1>1. Base /\ DisputeInv
  BY DEF FeedbackInv
<1>2. CASE AskDispute(q) \/ \E j \in DOMAIN disputes : StartAssign(q, j)
  <2>1. disputes' = disputes
    BY <1>2, AskDisputeCases DEF StartDispute, StartWords, StartAssign, docs
  <2> QED
    BY <2>1, QuietStays
<1>3. CASE CreateDispute(q)
  BY <1>1, <1>3, CreateDisputeDoes, QuietStays
<1>4. CASE UpdateDeliveryDispute(q)
  <2>1. disputes' = disputes
    BY <1>4 DEF UpdateDeliveryDispute
  <2> QED
    BY <2>1, QuietStays
<1>5. ASSUME NEW from \in {"message", "attach", "describe"}, NEW to \in {"idle", "describe"},
             AddWords(q, from, to)
      PROVE  Quiet(i)
  <2>1. req[q].at = from /\ \A j \in DOMAIN disputes \ {req[q].doc} : disputes'[j] = disputes[j]
    BY <1>1, <1>5, AddWordsDoes
  <2>2. CASE i = req[q].doc
    <3>1. i \notin stale => ~Closed(disputes[i])
      BY <1>1, <2>1, <2>2 DEF DisputeInv, KnowsIt, At, OnDispute
    <3> QED
      BY <3>1 DEF Quiet
  <2> QED
    BY <2>1, <2>2, QuietStays
<1>6. CASE AssignDispute(q)
  <2>1. /\ At(q, "assign") /\ req[q].doc \in DOMAIN disputes
        /\ \A j \in DOMAIN disputes : disputes'[j].words = disputes[j].words
        /\ \A j \in DOMAIN disputes \ {req[q].doc} : disputes'[j] = disputes[j]
        /\ req[q].status # "open" => disputes'[req[q].doc].status = req[q].status
    BY <1>1, <1>6, AssignDisputeDoes
  <2>2. CASE i = req[q].doc
    <3>1. SUFFICES ASSUME i \notin stale, Closed(disputes[i])
                   PROVE  disputes'[i].words = disputes[i].words /\ Closed(disputes'[i])
      BY DEF Quiet
    <3>2. req[q].status = disputes[i].status
      BY <1>1, <2>1, <2>2, <3>1 DEF DisputeInv, KnowsIt, At, OnDispute
    <3> QED
      BY <2>1, <2>2, <3>1, <3>2 DEF Closed
  <2> QED
    BY <2>1, <2>2, QuietStays
<1>7. CASE StepDispute(q)
  BY <1>3, <1>4, <1>5, <1>6, <1>7, AddCases DEF StepDispute
<1> QED
  BY <1>2, <1>7 DEF DisputeStep

(* Only an admin's decision opens a closed dispute, and the customer adds  *)
(* nothing to it meanwhile.                                                *)
THEOREM ClosedIsQuietHolds == FeedbackSpec => ClosedIsQuiet
<1>1. ASSUME FeedbackInv, [FeedbackNext]_feedbackVars, NEW i \in DOMAIN disputes PROVE Quiet(i)
  <2>1. CASE disputes' = disputes
    BY <2>1, QuietStays
  <2>2. ASSUME NEW q \in Requests, RatingStep(q) \/ Fail(q) PROVE disputes' = disputes
    BY <1>1, <2>2, RatingStepDoes, FailDoes DEF FeedbackInv, docs
  <2>3. ASSUME NEW q \in Requests, DisputeStep(q) PROVE Quiet(i)
    BY <1>1, <2>3, QuietDisputeStep
  <2>4. ASSUME NEW j \in DOMAIN disputes, NEW s \in Statuses, UpdateDisputeStatus(j, s) PROVE Quiet(i)
    <3>1. /\ \A k \in DOMAIN disputes : disputes'[k].words = disputes[k].words
          /\ \A k \in DOMAIN disputes \ {j} : disputes'[k] = disputes[k]
      BY <1>1, <2>4, UpdateDisputeStatusDoes DEF FeedbackInv
    <3>2. CASE i = j
      BY <1>1, <2>4, <3>1, <3>2 DEF Quiet
    <3> QED
      BY <1>1, <3>1, <3>2, QuietStays
  <2>5. ASSUME NEW d \in Deliveries, Deliver(d) PROVE disputes' = disputes
    BY <2>5 DEF Deliver
  <2>6. CASE UNCHANGED feedbackVars
    BY <2>1, <2>6 DEF feedbackVars, docs
  <2> QED
    BY <1>1, <2>1, <2>2, <2>3, <2>4, <2>5, <2>6, NextCases
<1>2. FeedbackInv /\ [FeedbackNext]_feedbackVars
      => [\A i \in DOMAIN disputes \ stale :
             Closed(disputes[i]) =>
                 /\ disputes'[i].words = disputes[i].words
                 /\ \/ Closed(disputes'[i])
                    \/ \E s \in Statuses : UpdateDisputeStatus(i, s)]_feedbackVars
  BY <1>1 DEF Quiet
<1> QED
  BY <1>2, FeedbackInvHolds, PTL DEF FeedbackSpec, ClosedIsQuiet

=============================================================================
