--------------------------- MODULE RiderMatching ---------------------------
(***************************************************************************)
(* How a quick delivery finds its rider: the matching service of user-api. *)
(*                                                                         *)
(* One rider at a time is asked to take a delivery.  The queue of riders   *)
(* and the position in it are a Redis hash, so that a poll can notice a    *)
(* rider who says nothing, and the riders' answers come from delivery-api  *)
(* over a Redis channel.  When the queue is used up an unpaid delivery is  *)
(* cancelled and deleted, and a paid one is left for a cron to try again.  *)
(*                                                                         *)
(* A task is one call of a user-api handler and a request one HTTP request *)
(* to delivery-api or admin-api; tasks and requests interleave at every    *)
(* await that reads or writes what another one writes.                     *)
(*                                                                         *)
(* Abstractions.  Which riders are near, online and have room is left      *)
(* open, and so is each rider's delivery counter.  What a payment does to  *)
(* a delivery is one step here, and PaymentSettlement has its detail.  A   *)
(* rider's trip is not modelled: a delivery with a rider keeps its status, *)
(* is given back, or is cancelled.                                         *)
(***************************************************************************)
EXTENDS Naturals, Sequences, DeliveryStatus

CONSTANTS
    Deliveries,   \* quick deliveries, each requested at most once
    Riders,
    Tasks,        \* user-api handlers that can be running at the same time
    Requests,     \* requests of riders and admins that can
    NoRider,      \* the delivery has no rider
    NoDelivery,   \* the task or the request is idle
    NoHash,       \* Redis holds no matching state
    MaxRiders,    \* MAX_RIDERS: the queue is cut to this length
    MaxGiveBacks, \* bound: how often riders give deliveries back
    MaxFaults,    \* bound: how often a handler throws or user-api restarts
    MayPay,       \* deliveries may be paid
    MayCancel     \* customers may cancel

(* The fields of a matching state: the queue, whose turn it is, whether    *)
(* his sixteen seconds are up, and whether the key has a lifetime.         *)
HashState ==
    [queue : Seq(Riders), index : Nat, status : {"active", "exhausted"},
     due : BOOLEAN, expires : BOOLEAN]

ASSUME ConstantsAssumption ==
    /\ NoRider \notin Riders
    /\ NoDelivery \notin Deliveries
    /\ NoHash \notin HashState
    /\ MaxRiders \in Nat \ {0}
    /\ {MaxGiveBacks, MaxFaults} \subseteq Nat
    /\ {MayPay, MayCancel} \subseteq BOOLEAN

VARIABLES
    requested,  \* deliveries ever asked for
    dStatus,    \* status of each delivery document, or Absent
    dPaid,      \* it is paid
    dRider,     \* its rider, or NoRider
    hash,       \* Redis: the matching state of each delivery, or NoHash
    active,     \* Redis: ids the timeout poll looks at
    cooldown,   \* Redis: <<rider, delivery>> whose customer he turned down
    asked,      \* <<rider, delivery>>: he was sent the request
    events,     \* messages on the matching channel, not yet received
    task,       \* what each handler of user-api is doing
    req,        \* what each request is doing
    giveBacks,  \* how often an accepted delivery was given back
    faults      \* how often a handler threw or user-api restarted

docVars   == <<requested, dStatus, dPaid, dRider>>
redisVars == <<hash, active, cooldown>>
bounds    == <<giveBacks, faults>>
vars      == <<docVars, redisVars, asked, events, task, req, bounds>>

TaskLabels ==
    {"idle", "readPaid", "setSearching", "readDelivery", "findRiders", "filterQueue",
     "initHash", "expireHash", "initActive", "setCooldown", "checkDue", "checkHash",
     "readToAdvance", "advance", "exhaust", "exhaustActive", "moveOn", "askNext",
     "dropHash", "dropActive", "cancelUnpaid", "deleteUnpaid", "customerCancel"}
RequestLabels == {"idle", "acceptSave", "acceptPublish", "giveUpSave", "rejectPublish", "assignSave"}

(* A task's locals: the rider of a received event, whether the document is *)
(* to be kept when the queue is used up, the queue and the position in it. *)
IdleTask == [at |-> "idle", del |-> NoDelivery, rider |-> NoRider, keep |-> TRUE,
             queue |-> <<>>, index |-> 0]

(* A request's locals; sawSearching: the status was read searching_rider.  *)
IdleRequest == [at |-> "idle", del |-> NoDelivery, rider |-> NoRider, sawSearching |-> FALSE]

Init ==
    /\ requested = {}
    /\ dStatus   = [d \in Deliveries |-> Absent]
    /\ dPaid     = [d \in Deliveries |-> FALSE]
    /\ dRider    = [d \in Deliveries |-> NoRider]
    /\ hash      = [d \in Deliveries |-> NoHash]
    /\ active    = {}
    /\ cooldown  = {}
    /\ asked     = {}
    /\ events    = {}
    /\ task      = [t \in Tasks |-> IdleTask]
    /\ req       = [q \in Requests |-> IdleRequest]
    /\ giveBacks = 0
    /\ faults    = 0

-----------------------------------------------------------------------------
At(t, l)    == task[t].at = l
Goto(t, l)  == task' = [task EXCEPT ![t].at = l]
Finish(t)   == task' = [task EXCEPT ![t] = IdleTask]
Start(t, d, l) ==
    /\ At(t, "idle")
    /\ task' = [task EXCEPT ![t].at = l, ![t].del = d]

(* findByIdAndUpdate and updateOne do nothing when the document is gone.   *)
SetStatus(d, s) == dStatus' = [dStatus EXCEPT ![d] = IF @ = Absent THEN @ ELSE s]

(* hset on one field of a key that is gone leaves a hash without riderIds, *)
(* which getMatchingState reads as no state at all.                        *)
SetHash(d, h) == hash' = [hash EXCEPT ![d] = IF @ = NoHash THEN @ ELSE h]

IsActive(d) == hash[d] # NoHash /\ hash[d].status = "active"

-----------------------------------------------------------------------------
(* What starts a search. *)

(* createDeliveryRequest, pay at pickup or by a payment reference, and the *)
(* event it emits.                                                         *)
CustomerRequests(t, d) ==
    /\ d \notin requested
    /\ requested' = requested \union {d}
    /\ dStatus' = [dStatus EXCEPT ![d] = "searching_rider"]
    /\ Start(t, d, "readDelivery")
    /\ UNCHANGED <<dPaid, dRider, redisVars, asked, events, req, bounds>>

(* A payment is settled: of a request that waited for it, or of a document *)
(* whatever its status has become.                                         *)
PaymentCompletes(t, d) ==
    /\ MayPay
    /\ d \notin requested \/ (dStatus[d] # Absent /\ ~dPaid[d])
    /\ requested' = requested \union {d}
    /\ dStatus' = [dStatus EXCEPT ![d] = "payment_confirmed"]
    /\ dPaid' = [dPaid EXCEPT ![d] = TRUE]
    /\ Start(t, d, "readPaid")
    /\ UNCHANGED <<dRider, redisVars, asked, events, req, bounds>>

(* handlePaymentCompleted. *)
ReadPaid(t) ==
    /\ At(t, "readPaid")
    /\ LET d == task[t].del IN
          IF dStatus[d] = "payment_confirmed" /\ dRider[d] = NoRider
          THEN Goto(t, "setSearching") ELSE Finish(t)
    /\ UNCHANGED <<docVars, redisVars, asked, events, req, bounds>>

SetSearching(t) ==
    /\ At(t, "setSearching")
    /\ SetStatus(task[t].del, "searching_rider")
    /\ Goto(t, "readDelivery")
    /\ UNCHANGED <<requested, dPaid, dRider, redisVars, asked, events, req, bounds>>

(* retryPaidExhaustedDeliveries: its query, then its check of the hash. *)
StartRetry(t, d) ==
    /\ dStatus[d] = "searching_rider" /\ dPaid[d] /\ dRider[d] = NoRider
    /\ Start(t, d, "checkHash")
    /\ UNCHANGED <<docVars, redisVars, asked, events, req, bounds>>

CheckHash(t) ==
    /\ At(t, "checkHash")
    /\ IF hash[task[t].del] = NoHash THEN Goto(t, "readDelivery") ELSE Finish(t)
    /\ UNCHANGED <<docVars, redisVars, asked, events, req, bounds>>

-----------------------------------------------------------------------------
(* handleQuickDeliveryCreated. *)

ReadDelivery(t) ==
    /\ At(t, "readDelivery")
    /\ LET d == task[t].del IN
          IF dStatus[d] = Absent THEN Finish(t)
          ELSE task' = [task EXCEPT ![t].at = "findRiders", ![t].keep = dPaid[d]]
    /\ UNCHANGED <<docVars, redisVars, asked, events, req, bounds>>

(* Mutant: an unpaid delivery is left alone as a paid one is. *)
ContinueOrStop(t, queue, l) ==
    IF queue = <<>> THEN Finish(t)
    ELSE task' = [task EXCEPT ![t].at = l, ![t].queue = queue]

(* The search goes on with a queue, or ends because there is none. *)
Continue(t, queue, l) ==
    IF queue = <<>> /\ task[t].keep
    THEN Finish(t)
    ELSE task' = [task EXCEPT ![t].at = IF queue = <<>> THEN "dropHash" ELSE l,
                              ![t].queue = queue]

(* findNearbyRiders: nobody is near, or somebody is.  Who, and in what     *)
(* order, is left open until the queue is read.                            *)
FindRiders(t) ==
    /\ At(t, "findRiders")
    /\ Continue(t, <<>>, "filterQueue") \/ Goto(t, "filterQueue")
    /\ UNCHANGED <<docVars, redisVars, asked, events, req, bounds>>

Willing(d) == {r \in Riders : <<r, d>> \notin cooldown}

(* A queue of riders among S, none of them twice, cut to MAX_RIDERS. *)
Queues(S) ==
    {q \in UNION {[1..n -> S] : n \in 0..MaxRiders} :
        \A i, j \in DOMAIN q : q[i] = q[j] => i = j}

(* filterByCooldown over the riders found near. *)
FilterQueue(t) ==
    /\ At(t, "filterQueue")
    /\ \E queue \in Queues(Willing(task[t].del)) : Continue(t, queue, "initHash")
    /\ UNCHANGED <<docVars, redisVars, asked, events, req, bounds>>

(* initMatchingState: hset (which keeps the lifetime the key has), expire, *)
(* sadd; then the first rider is asked.  due: his sixteen seconds are up.  *)
InitHash(t) ==
    /\ At(t, "initHash")
    /\ LET d == task[t].del IN
          hash' = [hash EXCEPT ![d] =
              [queue |-> task[t].queue, index |-> 1, status |-> "active", due |-> FALSE,
               expires |-> IF hash[d] = NoHash THEN FALSE ELSE hash[d].expires]]
    /\ Goto(t, "expireHash")
    /\ UNCHANGED <<docVars, active, cooldown, asked, events, req, bounds>>

(* Mutant: the key is given no lifetime. *)
NoExpiry(t) ==
    /\ At(t, "expireHash")
    /\ Goto(t, "initActive")
    /\ UNCHANGED <<docVars, redisVars, asked, events, req, bounds>>

ExpireHash(t) ==
    /\ At(t, "expireHash")
    /\ LET d == task[t].del IN SetHash(d, [hash[d] EXCEPT !.expires = TRUE])
    /\ Goto(t, "initActive")
    /\ UNCHANGED <<docVars, active, cooldown, asked, events, req, bounds>>

(* Mutant: the id is not added to those the poll looks at. *)
AskFirstOnly(t) ==
    /\ At(t, "initActive")
    /\ asked' = asked \union {<<task[t].queue[1], task[t].del>>}
    /\ Finish(t)
    /\ UNCHANGED <<docVars, redisVars, events, req, bounds>>

InitActive(t) ==
    /\ At(t, "initActive")
    /\ active' = active \union {task[t].del}
    /\ asked' = asked \union {<<task[t].queue[1], task[t].del>>}
    /\ Finish(t)
    /\ UNCHANGED <<docVars, hash, cooldown, events, req, bounds>>

-----------------------------------------------------------------------------
(* advanceToNextRiderAndNotify, on a rejection or a timeout. *)

(* The listener of onModuleInit receives a message. *)
ReceiveRejected(t, r, d) ==
    /\ At(t, "idle")
    /\ <<"rider_rejected", r, d>> \in events
    /\ events' = events \ {<<"rider_rejected", r, d>>}
    /\ task' = [task EXCEPT ![t].at = "setCooldown", ![t].del = d, ![t].rider = r]
    /\ UNCHANGED <<docVars, redisVars, asked, req, bounds>>

ReceiveAccepted(t, r, d) ==
    /\ <<"rider_accepted", r, d>> \in events
    /\ events' = events \ {<<"rider_accepted", r, d>>}
    /\ Start(t, d, "dropHash")
    /\ UNCHANGED <<docVars, redisVars, asked, req, bounds>>

SetCooldown(t) ==
    /\ At(t, "setCooldown")
    /\ cooldown' = cooldown \union {<<task[t].rider, task[t].del>>}
    /\ task' = [task EXCEPT ![t].at = "readToAdvance", ![t].rider = NoRider]
    /\ UNCHANGED <<docVars, hash, active, asked, events, req, bounds>>

(* checkMatchingTimeouts, for one of the ids it finds. *)
StartTimeout(t, d) ==
    /\ d \in active
    /\ Start(t, d, "checkDue")
    /\ UNCHANGED <<docVars, redisVars, asked, events, req, bounds>>

CheckDue(t) ==
    /\ At(t, "checkDue")
    /\ LET d == task[t].del IN
          IF IsActive(d) /\ hash[d].due THEN Goto(t, "readToAdvance") ELSE Finish(t)
    /\ UNCHANGED <<docVars, redisVars, asked, events, req, bounds>>

(* "Already assigned": nothing is done about a delivery with a rider. *)
ReadToAdvance(t) ==
    /\ At(t, "readToAdvance")
    /\ LET d == task[t].del IN
          IF dStatus[d] = Absent \/ dRider[d] # NoRider THEN Finish(t)
          ELSE task' = [task EXCEPT ![t].at = "advance", ![t].keep = dPaid[d]]
    /\ UNCHANGED <<docVars, redisVars, asked, events, req, bounds>>

(* Mutant: the last position is compared with the length, not the next one. *)
AdvanceTooFar(t) ==
    /\ At(t, "advance")
    /\ LET d == task[t].del IN
          CASE ~IsActive(d) -> Goto(t, "dropHash")
            [] IsActive(d) /\ hash[d].index > Len(hash[d].queue) -> Goto(t, "exhaust")
            [] OTHER -> task' = [task EXCEPT ![t].at = "moveOn", ![t].queue = hash[d].queue,
                                             ![t].index = hash[d].index + 1]
    /\ UNCHANGED <<docVars, redisVars, asked, events, req, bounds>>

(* advanceToNextRider: no state, or one no longer active, is taken for a   *)
(* queue that is used up.                                                  *)
Advance(t) ==
    /\ At(t, "advance")
    /\ LET d == task[t].del IN
          CASE ~IsActive(d) -> Goto(t, "dropHash")
            [] IsActive(d) /\ hash[d].index >= Len(hash[d].queue) -> Goto(t, "exhaust")
            [] OTHER -> task' = [task EXCEPT ![t].at = "moveOn", ![t].queue = hash[d].queue,
                                             ![t].index = hash[d].index + 1]
    /\ UNCHANGED <<docVars, redisVars, asked, events, req, bounds>>

Exhaust(t) ==
    /\ At(t, "exhaust")
    /\ LET d == task[t].del IN SetHash(d, [hash[d] EXCEPT !.status = "exhausted"])
    /\ Goto(t, "exhaustActive")
    /\ UNCHANGED <<docVars, active, cooldown, asked, events, req, bounds>>

ExhaustActive(t) ==
    /\ At(t, "exhaustActive")
    /\ active' = active \ {task[t].del}
    /\ Goto(t, "dropHash")
    /\ UNCHANGED <<docVars, hash, cooldown, asked, events, req, bounds>>

MoveOn(t) ==
    /\ At(t, "moveOn")
    /\ LET d == task[t].del IN
          SetHash(d, [hash[d] EXCEPT !.index = task[t].index, !.due = FALSE])
    /\ Goto(t, "askNext")
    /\ UNCHANGED <<docVars, active, cooldown, asked, events, req, bounds>>

AskNext(t) ==
    /\ At(t, "askNext")
    /\ asked' = asked \union {<<task[t].queue[task[t].index], task[t].del>>}
    /\ Finish(t)
    /\ UNCHANGED <<docVars, redisVars, events, req, bounds>>

-----------------------------------------------------------------------------
(* The end of a search: deleteMatchingState, and handleUnpaidExhausted for *)
(* a delivery that was unpaid when the task read it.                       *)

DropHash(t) ==
    /\ At(t, "dropHash")
    /\ hash' = [hash EXCEPT ![task[t].del] = NoHash]
    /\ Goto(t, "dropActive")
    /\ UNCHANGED <<docVars, active, cooldown, asked, events, req, bounds>>

DropActive(t) ==
    /\ At(t, "dropActive")
    /\ active' = active \ {task[t].del}
    /\ IF task[t].keep THEN Finish(t) ELSE Goto(t, "cancelUnpaid")
    /\ UNCHANGED <<docVars, hash, cooldown, asked, events, req, bounds>>

CancelUnpaid(t) ==
    /\ At(t, "cancelUnpaid")
    /\ SetStatus(task[t].del, "cancelled")
    /\ Goto(t, "deleteUnpaid")
    /\ UNCHANGED <<requested, dPaid, dRider, redisVars, asked, events, req, bounds>>

DeleteUnpaid(t) ==
    /\ At(t, "deleteUnpaid")
    /\ LET d == task[t].del IN
          /\ dStatus' = [dStatus EXCEPT ![d] = Absent]
          /\ dPaid' = [dPaid EXCEPT ![d] = FALSE]
          /\ dRider' = [dRider EXCEPT ![d] = NoRider]
    /\ Finish(t)
    /\ UNCHANGED <<requested, redisVars, asked, events, req, bounds>>

(* cancelDelivery: the document is read, then its status set.  Nothing     *)
(* tells the matching service.                                             *)
StartCustomerCancel(t, d) ==
    /\ MayCancel
    /\ dStatus[d] \in Status \ NonCancellable
    /\ Start(t, d, "customerCancel")
    /\ UNCHANGED <<docVars, redisVars, asked, events, req, bounds>>

CustomerCancel(t) ==
    /\ At(t, "customerCancel")
    /\ SetStatus(task[t].del, "cancelled")
    /\ Finish(t)
    /\ UNCHANGED <<requested, dPaid, dRider, redisVars, asked, events, req, bounds>>

-----------------------------------------------------------------------------
(* Requests to delivery-api and admin-api.  A rider answers about any      *)
(* delivery he was ever asked to take; nothing checks that it is still his *)
(* turn.  save() of a document that was deleted throws.                    *)

StartRequest(q, r, d, l) ==
    /\ req[q].at = "idle"
    /\ req' = [req EXCEPT ![q] = [at |-> l, del |-> d, rider |-> r,
                                  sawSearching |-> dStatus[d] = "searching_rider"]]

EndRequest(q) == req' = [req EXCEPT ![q] = IdleRequest]

Reading(q, r, d, l) ==
    /\ StartRequest(q, r, d, l)
    /\ UNCHANGED <<docVars, redisVars, asked, events, task, bounds>>

StartAccept(q, r, d) ==
    /\ <<r, d>> \in asked
    /\ dStatus[d] \in OpenToRiders /\ dRider[d] = NoRider
    /\ Reading(q, r, d, "acceptSave")

StartReject(q, r, d) ==
    /\ <<r, d>> \in asked
    /\ dStatus[d] # Absent /\ dRider[d] = NoRider
    /\ Reading(q, r, d, "rejectPublish")

(* rejectDelivery of a delivery that is already the rider's. *)
StartGiveUp(q, r, d) ==
    /\ giveBacks < MaxGiveBacks
    /\ dStatus[d] # Absent /\ dRider[d] = r
    /\ giveBacks' = giveBacks + 1
    /\ StartRequest(q, r, d, "giveUpSave")
    /\ UNCHANGED <<docVars, redisVars, asked, events, task, faults>>

(* assignRider in admin-api. *)
StartAssign(q, r, d) ==
    /\ dStatus[d] \in AssignableByAdmin /\ dRider[d] = NoRider
    /\ Reading(q, r, d, "assignSave")

Save(q, s, rider, l) ==
    LET d == req[q].del IN
    /\ IF dStatus[d] = Absent
       THEN EndRequest(q) /\ UNCHANGED <<dStatus, dRider>>
       ELSE /\ dStatus' = [dStatus EXCEPT ![d] = s]
            /\ dRider' = [dRider EXCEPT ![d] = rider]
            /\ IF l = "idle" THEN EndRequest(q) ELSE req' = [req EXCEPT ![q].at = l]
    /\ UNCHANGED <<requested, dPaid, redisVars, asked, events, task, bounds>>

AcceptSave(q) ==
    /\ req[q].at = "acceptSave"
    /\ Save(q, "rider_accepted", req[q].rider, "acceptPublish")

AssignSave(q) ==
    /\ req[q].at = "assignSave"
    /\ Save(q, "rider_assigned", req[q].rider, "idle")

(* mongoose writes the fields that changed: a status that was read as      *)
(* searching_rider is not written again.                                   *)
GiveUpSave(q) ==
    /\ req[q].at = "giveUpSave"
    /\ Save(q, IF req[q].sawSearching THEN dStatus[req[q].del] ELSE "searching_rider",
            NoRider, "idle")

Publish(q, type) ==
    /\ events' = events \union {<<type, req[q].rider, req[q].del>>}
    /\ EndRequest(q)
    /\ UNCHANGED <<docVars, redisVars, asked, task, bounds>>

AcceptPublish(q) == req[q].at = "acceptPublish" /\ Publish(q, "rider_accepted")
RejectPublish(q) == req[q].at = "rejectPublish" /\ Publish(q, "rider_rejected")

-----------------------------------------------------------------------------
(* Time and faults. *)

(* The rider who was asked last has had his sixteen seconds. *)
SixteenSeconds(d) ==
    /\ IsActive(d) /\ ~hash[d].due
    /\ hash' = [hash EXCEPT ![d].due = TRUE]
    /\ UNCHANGED <<docVars, active, cooldown, asked, events, task, req, bounds>>

(* Minutes do not pass between two awaits of a handler that has something  *)
(* to do about the delivery.                                               *)
AtRest(d) == \A t \in Tasks : task[t].del = d => task[t].at \in {"checkDue", "checkHash"}

(* The hash reaches the end of its hour.  The poll uses up a queue in far  *)
(* less, so the hour passes only when the poll does not advance it.        *)
PollAdvances(d) == d \in active /\ IsActive(d) /\ dStatus[d] # Absent /\ dRider[d] = NoRider

HashExpires(d) ==
    /\ hash[d] # NoHash
    /\ hash[d].expires /\ AtRest(d) /\ ~PollAdvances(d)
    /\ hash' = [hash EXCEPT ![d] = NoHash]
    /\ UNCHANGED <<docVars, active, cooldown, asked, events, task, req, bounds>>

CooldownEnds(r, d) ==
    /\ <<r, d>> \in cooldown /\ AtRest(d)
    /\ cooldown' = cooldown \ {<<r, d>>}
    /\ UNCHANGED <<docVars, hash, active, asked, events, task, req, bounds>>

(* Publish and subscribe keeps nothing for a subscriber that is away. *)
EventLost ==
    /\ \E e \in events : events' = events \ {e}
    /\ UNCHANGED <<docVars, redisVars, asked, task, req, bounds>>

(* A database or Redis call throws, and the handler goes no further. *)
TaskFails(t) ==
    /\ faults < MaxFaults
    /\ task[t].at # "idle"
    /\ faults' = faults + 1
    /\ Finish(t)
    /\ UNCHANGED <<docVars, redisVars, asked, events, req, giveBacks>>

(* user-api restarts: its handlers and what was on the channel are gone.   *)
Crash ==
    /\ faults < MaxFaults
    /\ faults' = faults + 1
    /\ task' = [t \in Tasks |-> IdleTask]
    /\ events' = {}
    /\ UNCHANGED <<docVars, redisVars, asked, req, giveBacks>>

-----------------------------------------------------------------------------
Step(t) ==
    \/ ReadPaid(t) \/ SetSearching(t) \/ CheckHash(t)
    \/ ReadDelivery(t) \/ FindRiders(t) \/ FilterQueue(t)
    \/ InitHash(t) \/ ExpireHash(t) \/ InitActive(t)
    \/ SetCooldown(t) \/ CheckDue(t) \/ ReadToAdvance(t) \/ Advance(t)
    \/ Exhaust(t) \/ ExhaustActive(t) \/ MoveOn(t) \/ AskNext(t)
    \/ DropHash(t) \/ DropActive(t) \/ CancelUnpaid(t) \/ DeleteUnpaid(t)
    \/ CustomerCancel(t)

Arrive(t) ==
    \E d \in Deliveries :
        \/ CustomerRequests(t, d) \/ PaymentCompletes(t, d) \/ StartCustomerCancel(t, d)
        \/ StartRetry(t, d) \/ StartTimeout(t, d)
        \/ \E r \in Riders : ReceiveRejected(t, r, d) \/ ReceiveAccepted(t, r, d)

RequestStep(q) ==
    AcceptSave(q) \/ AcceptPublish(q) \/ RejectPublish(q) \/ GiveUpSave(q) \/ AssignSave(q)

RequestArrives(q) ==
    \E r \in Riders, d \in Deliveries :
        StartAccept(q, r, d) \/ StartReject(q, r, d) \/ StartGiveUp(q, r, d) \/ StartAssign(q, r, d)

Environment ==
    \/ \E d \in Deliveries : SixteenSeconds(d) \/ HashExpires(d)
    \/ \E r \in Riders, d \in Deliveries : CooldownEnds(r, d)
    \/ EventLost
    \/ \E t \in Tasks : TaskFails(t)
    \/ Crash

Next ==
    \/ \E t \in Tasks : Step(t) \/ Arrive(t)
    \/ \E q \in Requests : RequestStep(q) \/ RequestArrives(q)
    \/ Environment

Spec == Init /\ [][Next]_vars

(* The event loop resumes every handler and every request; time passes;    *)
(* both intervals keep firing, so that what they look for and keep finding *)
(* is taken up in the end.                                                 *)
Fairness ==
    /\ \A t \in Tasks : WF_vars(Step(t))
    /\ \A q \in Requests : WF_vars(RequestStep(q))
    /\ \A d \in Deliveries :
          /\ WF_vars(SixteenSeconds(d))
          /\ SF_vars(HashExpires(d))
          /\ SF_vars(\E t \in Tasks : StartTimeout(t, d))
          /\ SF_vars(\E t \in Tasks : StartRetry(t, d))

FairSpec == Spec /\ Fairness

-----------------------------------------------------------------------------
(* Properties. *)

Waiting(d) == dStatus[d] = "searching_rider" /\ dRider[d] = NoRider

Works(t, d, labels) == task[t].del = d /\ task[t].at \in labels

TaskState ==
    [at : TaskLabels, del : Deliveries \union {NoDelivery}, rider : Riders \union {NoRider},
     keep : BOOLEAN, queue : Seq(Riders), index : Nat]

RequestState ==
    [at : RequestLabels, del : Deliveries \union {NoDelivery}, rider : Riders \union {NoRider},
     sawSearching : BOOLEAN]

QueueOK(k)  == k.queue # <<>> /\ Len(k.queue) <= MaxRiders
HashOK(k)   == QueueOK(k) /\ k.index \in 1..MaxRiders

(* What a task must hold to stand where it does: a delivery, a rider who   *)
(* said no, a queue, and a position in it.                                 *)
TaskOK(k) ==
    /\ k.at = "idle" <=> k.del = NoDelivery
    /\ k.at = "setCooldown" => k.rider \in Riders
    /\ k.at \in {"initHash", "expireHash", "initActive"} => QueueOK(k)
    /\ k.at \in {"moveOn", "askNext"} => QueueOK(k) /\ k.index \in 2..Len(k.queue)

RequestOK(k) == k.at # "idle" => k.del \in Deliveries /\ k.rider \in Riders

DocTypeOK ==
    /\ requested \subseteq Deliveries
    /\ dStatus \in [Deliveries -> Status \union {Absent}]
    /\ dPaid \in [Deliveries -> BOOLEAN]
    /\ dRider \in [Deliveries -> Riders \union {NoRider}]

RedisTypeOK ==
    /\ hash \in [Deliveries -> HashState \union {NoHash}]
    /\ \A d \in Deliveries : hash[d] # NoHash => HashOK(hash[d])
    /\ active \subseteq Deliveries
    /\ cooldown \subseteq Riders \X Deliveries

MessageTypeOK ==
    /\ asked \subseteq Riders \X Deliveries
    /\ events \subseteq {"rider_accepted", "rider_rejected"} \X Riders \X Deliveries

TaskTypeOK == task \in [Tasks -> TaskState] /\ \A t \in Tasks : TaskOK(task[t])

RequestTypeOK == req \in [Requests -> RequestState] /\ \A q \in Requests : RequestOK(req[q])

BoundsOK == giveBacks \in 0..MaxGiveBacks /\ faults \in 0..MaxFaults

(* Every variable has its type, and no task asks a rider at a position     *)
(* that its queue does not have, as advanceToNextRiderAndNotify would if   *)
(* the index it computed were beyond riderIds.                             *)
TypeOK == DocTypeOK /\ RedisTypeOK /\ MessageTypeOK /\ TaskTypeOK /\ RequestTypeOK /\ BoundsOK

(* A task that is about to ask the first rider, and one that is about to   *)
(* end a search.                                                           *)
Starting == {"readDelivery", "findRiders", "filterQueue", "initHash", "expireHash", "initActive"}
Ending   == {"exhaust", "exhaustActive", "dropHash", "dropActive", "cancelUnpaid", "deleteUnpaid"}

(* An unpaid delivery that waits for a rider is always somebody's          *)
(* business: the poll will look at its hash, or a task is on its way to    *)
(* ask the first rider or to end the search.  Nothing else would ever      *)
(* find it.                                                                *)
SearchHasOwner ==
    \A d \in Deliveries :
        faults = 0 /\ giveBacks = 0 /\ Waiting(d) /\ ~dPaid[d] =>
            \/ d \in active /\ IsActive(d)
            \/ \E t \in Tasks : Works(t, d, Starting \union Ending)

(* A paid delivery that waits for a rider is searched for again and again, *)
(* whatever messages are lost and however searches, answers and the retry  *)
(* cron overlap: the poll uses the queue up, the state is deleted or its   *)
(* hour ends, and the cron starts over.                                    *)
PaidSearchGoesOn ==
    \A d \in Deliveries :
        []<>(~(Waiting(d) /\ dPaid[d]) \/ \E t \in Tasks : Works(t, d, {"findRiders"}))

(* An unpaid delivery that no rider gave back does not wait for ever: it   *)
(* gets a rider, is paid, is cancelled or is deleted.                      *)
UnpaidSearchEnds ==
    \A d \in Deliveries : []<>(giveBacks > 0 \/ ~(Waiting(d) /\ ~dPaid[d]))

-----------------------------------------------------------------------------
(* Claims of the repository that the code does not keep. *)

(* advanceToNextRiderAndNotify: "Already assigned", nothing is done about  *)
(* a delivery that has a rider.                                            *)
AssignedIsNotDeleted ==
    [][\A d \in Deliveries :
          dStatus[d] # Absent /\ dStatus'[d] = Absent => dRider[d] = NoRider]_vars

(* REQUEST_TIMEOUT_SEC: the queue moves on, or is used up, when the rider  *)
(* who was asked last has had his sixteen seconds or has said no.          *)
EveryRiderHasHisTurn ==
    [][\A d \in Deliveries :
          IsActive(d) /\ hash'[d] # NoHash /\ (hash'[d].index # hash[d].index \/ ~IsActive(d)') =>
              hash[d].due \/ <<hash[d].queue[hash[d].index], d>> \in cooldown]_vars

(* rejectDelivery tells the customer "Rider is no longer available.        *)
(* Searching for a new rider...".                                          *)
NewRiderIsSearched ==
    \A d \in Deliveries :
        giveBacks > 0 /\ Waiting(d) ~>
            ~Waiting(d) \/ \E t \in Tasks : Works(t, d, {"findRiders", "askNext"})

(* retryPaidExhaustedDeliveries skips a delivery that is "Still in active  *)
(* matching": what it skips will use its queue up and be searched again,   *)
(* after a restart of user-api too.                                        *)
SkippedIsStillMatched == PaidSearchGoesOn
=============================================================================
