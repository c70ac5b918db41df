---------------------------- MODULE DeliveryTrip ----------------------------
(***************************************************************************)
(* A delivery document from the moment riders can hear of it to its end,   *)
(* and the counter of open deliveries that each rider carries.             *)
(*                                                                         *)
(* Riders act through delivery-api, administrators through admin-api and   *)
(* customers through user-api.  Every handler reads the document, decides  *)
(* on what it read, and then writes by id, counts and credits, one await   *)
(* after another: a request is the sequence of the steps it still has to   *)
(* take, and the steps of different requests interleave.                   *)
(*                                                                         *)
(* Abstractions.  The search for a rider, and the deletion that may end    *)
(* it, are RiderMatching; how a payment settles is PaymentSettlement, and  *)
(* here a payment, or its failure, is one request.  Whether a rider is     *)
(* online and verified is left open, and he enters the PIN he was given.   *)
(* The rider's displayed status, timestamps and the log of admin actions   *)
(* are read by no guard and left out.                                      *)
(***************************************************************************)
EXTENDS Integers, Sequences, FiniteSets, DeliveryStatus

CONSTANTS
    Deliveries,
    Riders,
    Requests,      \* requests that can be served at the same time
    NoRider,
    Keep,          \* in a write: the field is not among those that changed
    MaxConcurrent, \* maxConcurrentDeliveries of every rider
    MaxTrips,      \* bound: how often a rider asks for or is given a delivery
    MaxPayments,   \* bound: how often a payment of a delivery settles or fails
    MaxOverrides,  \* bound: how often an admin or the customer steps in
    MaxFaults,     \* bound: how often a request throws or its process dies
    MaxDebt        \* bound: how far below zero a rider releases deliveries

ASSUME TripAssumption ==
    /\ NoRider \notin Riders
    /\ Keep \notin Riders \union Status \union {NoRider, "pending", "paid", "failed",
                                                "refunded", "partially_refunded"}
    /\ IsFiniteSet(Requests)
    /\ MaxConcurrent \in Nat \ {0}
    /\ {MaxTrips, MaxPayments, MaxOverrides, MaxFaults, MaxDebt} \subseteq Nat

VARIABLES
    dKind,     \* deliveryType
    dStatus,   \* status
    dPay,      \* paymentStatus
    dRider,    \* rider, or NoRider
    pins,      \* deliveries whose document holds both PINs
    load,      \* currentDeliveryCount of each rider
    everPaid,  \* deliveries that were ever marked paid
    proved,    \* <<kind, rider, delivery>>: the rider entered that PIN
    credited,  \* <<rider, delivery>>: the rider was credited for it
    req,       \* the steps each request still has to take
    trips, payments, overrides, faults   \* counters of the bounds

docVars   == <<dKind, dStatus, dPay, dRider, pins, everPaid>>
boundVars == <<trips, payments, overrides, faults>>
vars      == <<docVars, load, proved, credited, req, boundVars>>

PayStatus == {"pending", "paid", "failed", "refunded", "partially_refunded"}

(* Deliveries as they are created: quick ones to be paid at pickup or paid *)
(* by card before they exist, scheduled ones with a payment or without.    *)
Created == {[kind |-> "quick", status |-> "searching_rider", pay |-> "pending", pins |-> FALSE],
            [kind |-> "quick", status |-> "payment_confirmed", pay |-> "paid", pins |-> TRUE],
            [kind |-> "scheduled", status |-> "scheduled", pay |-> "paid", pins |-> FALSE],
            [kind |-> "scheduled", status |-> "pending", pay |-> "pending", pins |-> FALSE]}

Init ==
    /\ \E new \in [Deliveries -> Created] :
          /\ dKind    = [d \in Deliveries |-> new[d].kind]
          /\ dStatus  = [d \in Deliveries |-> new[d].status]
          /\ dPay     = [d \in Deliveries |-> new[d].pay]
          /\ pins     = {d \in Deliveries : new[d].pins}
          /\ everPaid = {d \in Deliveries : new[d].pay = "paid"}
    /\ dRider = [d \in Deliveries |-> NoRider]
    /\ load = [r \in Riders |-> 0]
    /\ proved = {}
    /\ credited = {}
    /\ req = [q \in Requests |-> <<>>]
    /\ trips = 0 /\ payments = 0 /\ overrides = 0 /\ faults = 0

-----------------------------------------------------------------------------
(* The steps a request is made of. *)

(* acceptDelivery reads the document after the guards on the rider. *)
CheckOpen(d) == [op |-> "open", del |-> d]

(* The admin reads the rider after the guards on the document. *)
CheckRoom(r) == [op |-> "room", rider |-> r]

(* A save or an update: the fields it changes, and whether it sets PINs.   *)
Write(d, s, r, p, b) ==
    [op |-> "write", del |-> d, status |-> s, rider |-> r, pay |-> p, pins |-> b]
WriteStatus(d, s)    == Write(d, s, Keep, Keep, FALSE)

(* $inc of currentDeliveryCount. *)
CountBy(r, n) == [op |-> "count", rider |-> r, by |-> n]

(* creditDeliveryEarnings. *)
Credit(r, d) == [op |-> "credit", rider |-> r, del |-> d]

(* save() writes a field only if its value differs from the one read. *)
Changed(old, new) == IF old = new THEN Keep ELSE new

(* Mutant: nobody looks whether there is a rider to release. *)
ReleaseMutant(d) == <<CountBy(dRider[d], -1)>>

Release(d) == IF dRider[d] = NoRider THEN <<>> ELSE <<CountBy(dRider[d], -1)>>

Serve(q, steps) == req[q] = <<>> /\ req' = [req EXCEPT ![q] = steps]

(* What a request leaves alone when it only reads and decides. *)
Decided == UNCHANGED <<docVars, load, credited>>

Ask      == trips < MaxTrips /\ trips' = trips + 1 /\ UNCHANGED <<payments, overrides, faults>>
Override == overrides < MaxOverrides /\ overrides' = overrides + 1 /\ UNCHANGED <<trips, payments, faults>>
Money    == payments < MaxPayments /\ payments' = payments + 1 /\ UNCHANGED <<trips, overrides, faults>>

-----------------------------------------------------------------------------
(* delivery-api: the rider. *)

HasRoom(r) == load[r] < MaxConcurrent

(* Bound: two requests of a rider that overtake each other can count one   *)
(* delivery as done twice, and so on for ever.                             *)
MayRelease(r) == load[r] > -MaxDebt

(* Mutant: the rider is counted before the delivery is written, and again after. *)
AcceptDeliveryMutant(q, r, d) ==
    /\ Ask
    /\ HasRoom(r)
    /\ Serve(q, <<CheckOpen(d), CountBy(r, 1), Write(d, "rider_accepted", r, Keep, FALSE), CountBy(r, 1)>>)
    /\ Decided
    /\ UNCHANGED proved

(* The guards on the rider look at the document the auth guard loaded. *)
AcceptDelivery(q, r, d) ==
    /\ Ask
    /\ HasRoom(r)
    /\ Serve(q, <<CheckOpen(d), Write(d, "rider_accepted", r, Keep, FALSE), CountBy(r, 1)>>)
    /\ Decided
    /\ UNCHANGED proved

(* A rider gives back a delivery he has, in whatever status it is. *)
RejectDelivery(q, r, d) ==
    /\ MayRelease(r)
    /\ dRider[d] = r
    /\ Serve(q, <<Write(d, Changed(dStatus[d], "searching_rider"), NoRider, Keep, FALSE),
                  CountBy(r, -1)>>)
    /\ Decided
    /\ UNCHANGED <<proved, boundVars>>

UpdateDeliveryStatus(q, r, d, s) ==
    /\ dRider[d] = r
    /\ s \in RiderTransitions(dStatus[d])
    /\ s \in {"delivered", "completed"} => MayRelease(r)
    /\ Serve(q, <<WriteStatus(d, s)>>
                \o IF s \in {"delivered", "completed"} THEN <<CountBy(r, -1)>> ELSE <<>>)
    /\ Decided
    /\ UNCHANGED <<proved, boundVars>>

VerifyPickupPin(q, r, d) ==
    /\ dRider[d] = r
    /\ dStatus[d] \in {"rider_arrived_pickup", "payment_confirmed", "pickup_in_progress"}
    /\ d \in pins
    /\ Serve(q, <<WriteStatus(d, "pickup_in_progress")>>)
    /\ proved' = proved \union {<<"pickup", r, d>>}
    /\ Decided
    /\ UNCHANGED boundVars

(* Mutant: the earnings are forgotten on this path, as on the others. *)
VerifyDeliveryPinMutant(q, r, d) ==
    /\ MayRelease(r)
    /\ dRider[d] = r
    /\ dStatus[d] \in {"in_transit", "rider_arrived_dropoff", "delivery_in_progress"}
    /\ d \in pins
    /\ Serve(q, <<WriteStatus(d, "delivered"), CountBy(r, -1)>>)
    /\ proved' = proved \union {<<"delivery", r, d>>}
    /\ Decided
    /\ UNCHANGED boundVars

VerifyDeliveryPin(q, r, d) ==
    /\ MayRelease(r)
    /\ dRider[d] = r
    /\ dStatus[d] \in {"in_transit", "rider_arrived_dropoff", "delivery_in_progress"}
    /\ d \in pins
    /\ Serve(q, <<WriteStatus(d, "delivered"), CountBy(r, -1), Credit(r, d)>>)
    /\ proved' = proved \union {<<"delivery", r, d>>}
    /\ Decided
    /\ UNCHANGED boundVars

(* Mutant: PINs are generated whether or not the delivery was paid. *)
ArrivedAtPickupMutant(q, r, d) ==
    /\ dRider[d] = r
    /\ dStatus[d] \in {"rider_accepted", "rider_assigned", "rider_en_route_pickup"}
    /\ Serve(q, <<Write(d, "rider_arrived_pickup", Keep, Keep, TRUE)>>)
    /\ Decided
    /\ UNCHANGED <<proved, boundVars>>

(* The PINs are not selected when the document is read, so that a paid     *)
(* delivery gets new ones even if it has some.                             *)
ArrivedAtPickup(q, r, d) ==
    /\ dRider[d] = r
    /\ dStatus[d] \in {"rider_accepted", "rider_assigned", "rider_en_route_pickup"}
    /\ Serve(q, <<Write(d, "rider_arrived_pickup", Keep, Keep, dPay[d] = "paid")>>)
    /\ Decided
    /\ UNCHANGED <<proved, boundVars>>

ArrivedAtDropoff(q, r, d) ==
    /\ dRider[d] = r
    /\ dStatus[d] \in {"in_transit", "picked_up"}
    /\ Serve(q, <<WriteStatus(d, "rider_arrived_dropoff")>>)
    /\ Decided
    /\ UNCHANGED <<proved, boundVars>>

-----------------------------------------------------------------------------
(* admin-api: an administrator steps in. *)

AssignRider(q, r, d) ==
    /\ Ask
    /\ dRider[d] = NoRider
    /\ dStatus[d] \in AssignableByAdmin
    /\ Serve(q, <<CheckRoom(r), Write(d, "rider_assigned", r, Keep, FALSE), CountBy(r, 1)>>)
    /\ Decided
    /\ UNCHANGED proved

(* The previous rider is released before the new one is saved. *)
ReassignRider(q, r, d) ==
    /\ Override
    /\ dStatus[d] \notin {"delivered", "completed", "cancelled"}
    /\ Serve(q, <<CheckRoom(r)>> \o Release(d)
                \o <<Write(d, Keep, Changed(dRider[d], r), Keep, FALSE), CountBy(r, 1)>>)
    /\ Decided
    /\ UNCHANGED proved

(* The status moves only from where the PIN was due; neither the counter   *)
(* nor the rider's earnings do.                                            *)
OverridePin(q, d, k) ==
    /\ Override
    /\ dStatus[d] \notin {"completed", "cancelled", "failed"}
    /\ Serve(q, <<WriteStatus(d,
            CASE k = "pickup" /\ dStatus[d] \in {"rider_arrived_pickup", "payment_confirmed"}
                    -> "pickup_in_progress"
              [] k = "delivery" /\ dStatus[d] \in {"rider_arrived_dropoff", "delivery_in_progress"}
                    -> "delivered"
              [] OTHER -> Keep)>>)
    /\ Decided
    /\ UNCHANGED proved

ManualComplete(q, d) ==
    /\ Override
    /\ dStatus[d] \notin {"completed", "cancelled"}
    /\ Serve(q, <<WriteStatus(d, "completed")>> \o Release(d))
    /\ Decided
    /\ UNCHANGED proved

(* The refund that may go with it only marks the document. *)
ManualCancel(q, d, p) ==
    /\ Override
    /\ dStatus[d] \notin {"completed", "cancelled"}
    /\ p = "none" \/ dPay[d] = "paid"
    /\ Serve(q, <<WriteStatus(d, "cancelled")>> \o Release(d)
                \o IF p = "none" THEN <<>> ELSE <<Write(d, Keep, Keep, p, FALSE)>>)
    /\ Decided
    /\ UNCHANGED proved

(* updateStatus has no guard at all. *)
UpdateStatus(q, d, s) ==
    /\ Override
    /\ Serve(q, <<WriteStatus(d, s)>>)
    /\ Decided
    /\ UNCHANGED proved

IssueRefund(q, d, p) ==
    /\ Override
    /\ dPay[d] \in {"paid", "partially_refunded"}
    /\ Serve(q, <<Write(d, Keep, Keep, p, FALSE)>>)
    /\ Decided
    /\ UNCHANGED proved

-----------------------------------------------------------------------------
(* user-api: the customer. *)

(* The rider's counter is left as it is. *)
CancelDelivery(q, d) ==
    /\ Override
    /\ dStatus[d] \notin NonCancellable
    /\ Serve(q, <<WriteStatus(d, "cancelled")>>)
    /\ Decided
    /\ UNCHANGED proved

InitiatePickupPayment(q, d) ==
    /\ dKind[d] = "quick"
    /\ dStatus[d] = "rider_arrived_pickup"
    /\ dPay[d] # "paid"
    /\ Serve(q, <<WriteStatus(d, "awaiting_payment")>>)
    /\ Decided
    /\ UNCHANGED <<proved, boundVars>>

ConfirmPickupPayment(q, d) ==
    /\ Money
    /\ dStatus[d] = "awaiting_payment"
    /\ Serve(q, <<Write(d, "payment_confirmed", Keep, "paid", TRUE)>>)
    /\ Decided
    /\ UNCHANGED proved

(* A webhook or a wallet payment: the status is set whatever it was. *)
PaymentSettles(q, d) ==
    /\ Money
    /\ Serve(q, <<Write(d, IF dKind[d] = "quick" THEN "payment_confirmed" ELSE "scheduled",
                        Keep, "paid", TRUE)>>)
    /\ Decided
    /\ UNCHANGED proved

(* The listener of payment.completed: back to searching if nobody has it. *)
PaymentCompleted(q, d) ==
    /\ dKind[d] = "quick" /\ dStatus[d] = "payment_confirmed" /\ dRider[d] = NoRider
    /\ Serve(q, <<WriteStatus(d, "searching_rider")>>)
    /\ Decided
    /\ UNCHANGED <<proved, boundVars>>

PaymentFails(q, d) ==
    /\ Money
    /\ dStatus[d] = "awaiting_payment"
    /\ Serve(q, <<Write(d, IF dKind[d] = "quick" THEN "rider_arrived_pickup" ELSE "pending",
                        Keep, "failed", FALSE)>>)
    /\ Decided
    /\ UNCHANGED proved

-----------------------------------------------------------------------------
(* One step of a request. *)

Due(q, op) == req[q] # <<>> /\ Head(req[q]).op = op
Rest(q)      == req' = [req EXCEPT ![q] = Tail(@)]
Drop(q)      == req' = [req EXCEPT ![q] = <<>>]

ReadOpen(q) ==
    /\ Due(q, "open")
    /\ LET d == Head(req[q]).del IN
          IF dStatus[d] \in OpenToRiders /\ dRider[d] = NoRider THEN Rest(q) ELSE Drop(q)
    /\ UNCHANGED <<docVars, load, proved, credited, boundVars>>

ReadRoom(q) ==
    /\ Due(q, "room")
    /\ IF HasRoom(Head(req[q]).rider) THEN Rest(q) ELSE Drop(q)
    /\ UNCHANGED <<docVars, load, proved, credited, boundVars>>

DoWrite(q) ==
    /\ Due(q, "write")
    /\ LET w == Head(req[q])
           Set(f, v) == IF v = Keep THEN f ELSE [f EXCEPT ![w.del] = v]
       IN /\ dStatus'  = Set(dStatus, w.status)
          /\ dRider'   = Set(dRider, w.rider)
          /\ dPay'     = Set(dPay, w.pay)
          /\ pins'     = IF w.pins THEN pins \union {w.del} ELSE pins
          /\ everPaid' = IF w.pay = "paid" THEN everPaid \union {w.del} ELSE everPaid
    /\ Rest(q)
    /\ UNCHANGED <<dKind, load, proved, credited, boundVars>>

DoCount(q) ==
    /\ Due(q, "count")
    /\ LET c == Head(req[q]) IN load' = [load EXCEPT ![c.rider] = @ + c.by]
    /\ Rest(q)
    /\ UNCHANGED <<docVars, proved, credited, boundVars>>

DoCredit(q) ==
    /\ Due(q, "credit")
    /\ credited' = credited \union {<<Head(req[q]).rider, Head(req[q]).del>>}
    /\ Rest(q)
    /\ UNCHANGED <<docVars, load, proved, boundVars>>

(* An await throws or the process stops: what was done stays done. *)
Fail(q) ==
    /\ req[q] # <<>>
    /\ faults < MaxFaults
    /\ faults' = faults + 1
    /\ Drop(q)
    /\ UNCHANGED <<docVars, load, proved, credited, trips, payments, overrides>>

-----------------------------------------------------------------------------
Rider(q, r, d) ==
    \/ AcceptDelivery(q, r, d)
    \/ RejectDelivery(q, r, d)
    \/ \E s \in RiderTransitions(dStatus[d]) : UpdateDeliveryStatus(q, r, d, s)
    \/ VerifyPickupPin(q, r, d)
    \/ VerifyDeliveryPin(q, r, d)
    \/ ArrivedAtPickup(q, r, d)
    \/ ArrivedAtDropoff(q, r, d)

Admin(q, d) ==
    \/ \E r \in Riders : AssignRider(q, r, d)
    \/ \E r \in Riders : ReassignRider(q, r, d)
    \/ \E k \in {"pickup", "delivery"} : OverridePin(q, d, k)
    \/ ManualComplete(q, d)
    \/ \E p \in {"none", "refunded", "partially_refunded"} : ManualCancel(q, d, p)
    \/ \E s \in Status : UpdateStatus(q, d, s)
    \/ \E p \in {"refunded", "partially_refunded"} : IssueRefund(q, d, p)

Customer(q, d) ==
    \/ CancelDelivery(q, d)
    \/ InitiatePickupPayment(q, d)
    \/ ConfirmPickupPayment(q, d)
    \/ PaymentSettles(q, d)
    \/ PaymentCompleted(q, d)
    \/ PaymentFails(q, d)

Step(q) ==
    \/ ReadOpen(q)
    \/ ReadRoom(q)
    \/ DoWrite(q)
    \/ DoCount(q)
    \/ DoCredit(q)

Next ==
    \E q \in Requests :
        \/ Step(q)
        \/ Fail(q)
        \/ \E d \in Deliveries :
              \/ \E r \in Riders : Rider(q, r, d)
              \/ Admin(q, d)
              \/ Customer(q, d)

Spec == Init /\ [][Next]_vars

-----------------------------------------------------------------------------
(* Properties. *)

StepRecords ==
    [op : {"open"}, del : Deliveries]
    \union [op : {"room"}, rider : Riders]
    \union [op : {"write"}, del : Deliveries, status : Status \union {Keep},
            rider : Riders \union {NoRider, Keep}, pay : PayStatus \union {Keep}, pins : BOOLEAN]
    \union [op : {"count"}, rider : Riders, by : {1, -1}]
    \union [op : {"credit"}, rider : Riders, del : Deliveries]

(* Every variable has its type: no handler writes a status, a rider or a   *)
(* payment status that the schema does not know.                           *)
TypeOK ==
    /\ dKind \in [Deliveries -> {"quick", "scheduled"}]
    /\ dStatus \in [Deliveries -> Status]
    /\ dPay \in [Deliveries -> PayStatus]
    /\ dRider \in [Deliveries -> Riders \union {NoRider}]
    /\ pins \subseteq Deliveries
    /\ everPaid \subseteq Deliveries
    /\ load \in [Riders -> Int]
    /\ proved \subseteq {"pickup", "delivery"} \X Riders \X Deliveries
    /\ credited \subseteq Riders \X Deliveries
    /\ req \in [Requests -> Seq(StepRecords)]
    /\ {trips, payments, overrides, faults} \subseteq Nat

(* Requests that found room for rider r and will count a delivery for him. *)
Counting(r) ==
    {q \in Requests : /\ \E i \in DOMAIN req[q] : req[q][i] = CountBy(r, 1)
                      /\ Head(req[q]) # CheckRoom(r)}

(* How far the limit on a rider's deliveries can be overrun: the guards    *)
(* look at the counter before it is incremented, so that every request     *)
(* being served may slip through at once, but no more than these.          *)
OverrunBounded ==
    \A r \in Riders : load[r] + Cardinality(Counting(r)) <= MaxConcurrent - 1 + Cardinality(Requests)

(* The trip keeps the promise of TripPromise: whatever riders, admins and  *)
(* customers do at the same time, a rider is credited only for a delivery  *)
(* whose PIN he entered, and enters a PIN only of one that was paid.       *)
Promise == INSTANCE TripPromise WITH paid <- everPaid
PromiseKept == Promise!PromiseSpec

(* A rider who entered the delivery PIN is credited for the delivery, or   *)
(* the request that took his PIN still has it to do, whatever others do to *)
(* the delivery meanwhile.  Only a request that fails loses the credit:    *)
(* its error is swallowed and nobody tries again.                          *)
CreditNotLost ==
    \A r \in Riders, d \in Deliveries :
        <<"delivery", r, d>> \in proved =>
            \/ <<r, d>> \in credited
            \/ \E q \in Requests : \E i \in DOMAIN req[q] : req[q][i] = Credit(r, d)
            \/ faults > 0

(* What the message of acceptDelivery says ("Max allowed"): nobody has     *)
(* more open deliveries than his maximum.                                  *)
OpenOf(r) == {d \in Deliveries : dRider[d] = r
                 /\ dStatus[d] \notin {"delivered", "completed", "cancelled", "failed"}}
MaxAllowed == \A r \in Riders : Cardinality(OpenOf(r)) <= MaxConcurrent
=============================================================================
