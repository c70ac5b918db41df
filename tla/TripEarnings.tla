---------------------------- MODULE TripEarnings ----------------------------
(***************************************************************************)
(* The trips of DeliveryTrip and the earnings of one of its riders, as     *)
(* they run together: verifyDeliveryPin of delivery-api calls              *)
(* creditDeliveryEarnings, and what that does is RiderEarnings.            *)
(*                                                                         *)
(* The two share nothing else.  A credit looks for an earning of the same  *)
(* rider, so that those of other riders change nothing here.               *)
(***************************************************************************)
EXTENDS DeliveryTrip

CONSTANTS
    Earner,        \* the rider whose earnings these are
    Tasks,         \* what can be done with them at the same time
    Price, Percentage, MinimumPayout, MinimumAmount,
    Amounts, References, NoReference, NoDelivery,
    MaxCredits,    \* bound: how often a delivery is reported done
    MaxErrors      \* bound: how often such a task throws or its process dies

(* What the two assume of their constants, together. *)
WorkAssumption ==
    /\ Earner \in Riders
    /\ Price \in [Deliveries -> Nat]
    /\ Percentage \in 0..100
    /\ {MinimumPayout, MinimumAmount} \subseteq Nat \ {0}
    /\ Amounts \subseteq Nat
    /\ NoReference \notin References
    /\ NoDelivery \notin Deliveries
    /\ IsFiniteSet(Deliveries) /\ IsFiniteSet(References) /\ IsFiniteSet(Tasks)
    /\ {MaxCredits, MaxErrors} \subseteq Nat

VARIABLES records, balance, earned, platform, filed, amount, task, reported, started, errors,
          raced, overlapped

earningsVars == <<records, balance, earned, platform, filed, amount, task, reported, started,
                  errors, raced, overlapped>>

Earnings == INSTANCE RiderEarnings
            WITH Requests <- Tasks, req <- task, MaxFaults <- MaxErrors, faults <- errors

WorkInit == Init /\ Earnings!Init

(* The rider is due a credit: the next step of this request. *)
Owes(q) == Due(q, "credit") /\ Head(req[q]).rider = Earner

(* All that happens to trips, but that this rider is credited ... *)
Trip ==
    /\ \E q \in Requests :
          \/ Step(q) /\ ~Owes(q)
          \/ Fail(q)
          \/ \E d \in Deliveries :
                \/ \E r \in Riders : Rider(q, r, d)
                \/ Admin(q, d)
                \/ Customer(q, d)
    /\ UNCHANGED earningsVars

(* ... all that happens to earnings, but that a delivery is reported ...   *)
Account ==
    /\ \E t \in Tasks :
          \/ Earnings!Step(t)
          \/ Earnings!Fail(t)
          \/ \E w \in References :
                \/ \E n \in Amounts : Earnings!StartWithdrawal(t, w, n)
                \/ Earnings!StartApproval(t, w)
                \/ Earnings!StartRejection(t, w)
    /\ UNCHANGED vars

(* ... and these two are one: creditDeliveryEarnings is called. *)
CreditDeliveryEarnings(q, t) ==
    /\ Owes(q) /\ DoCredit(q)
    /\ Earnings!StartCredit(t, Head(req[q]).del)

WorkNext == Trip \/ Account \/ \E q \in Requests, t \in Tasks : CreditDeliveryEarnings(q, t)

workVars == <<vars, earningsVars>>

WorkSpec == WorkInit /\ [][WorkNext]_workVars

-----------------------------------------------------------------------------
(* Whatever is in the accounts of the rider, available, held for a         *)
(* withdrawal or paid out, is for a delivery that was paid and whose PIN   *)
(* he entered, though verifyDeliveryPin, the credit and the withdrawals    *)
(* are requests of their own, and splitting an earning copies it.          *)
EarnedByWork ==
    \A i \in DOMAIN records :
        /\ <<"delivery", Earner, records[i].del>> \in proved
        /\ records[i].del \in everPaid

(* And the other way round: the rider who entered the PIN has an earning   *)
(* of the delivery, whatever he withdraws, or the request or its credit is *)
(* still at it.  Only a request that stops half way loses it.              *)
WorkIsPaid ==
    faults = 0 /\ errors = 0 =>
        \A d \in Deliveries : <<"delivery", Earner, d>> \in proved =>
            \/ \E i \in DOMAIN records : records[i].del = d
            \/ \E q \in Requests : \E i \in DOMAIN req[q] : req[q][i] = Credit(Earner, d)
            \/ \E t \in Tasks : Earnings!At(t, "create") /\ task[t].del = d
=============================================================================
