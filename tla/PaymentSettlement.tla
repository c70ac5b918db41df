------------------------- MODULE PaymentSettlement -------------------------
(***************************************************************************)
(* How money collected by Monnify becomes a wallet balance or a paid       *)
(* delivery in user-api.                                                   *)
(*                                                                         *)
(* A payment is opened by fundWallet or initiatePayment and settled by     *)
(* request handlers that run concurrently and share MongoDB and Redis:     *)
(* Monnify's webhook, the mobile app polling the payment status, and the   *)
(* customer cancelling or confirming at pickup.  A handler gives up the    *)
(* event loop at every await, so each of its database reads, database      *)
(* writes and remote calls is one action here, and whatever it read before *)
(* may be stale when it writes.  A quick card delivery does not exist in   *)
(* MongoDB until it is paid: it waits in a Redis cache with a lifetime.    *)
(*                                                                         *)
(* Abstractions.  Amounts are counted, not summed: credits[p] is how often *)
(* the wallet was incremented for payment p.  PINs, prices, notifications  *)
(* and WebSocket broadcasts are left out.  Ownership checks are left out:  *)
(* the customer of a handler is the customer of its delivery.  The rider's *)
(* requests are single steps here; their own races are another module's.   *)
(***************************************************************************)
EXTENDS Naturals, FiniteSets, DeliveryStatus

CONSTANTS
    Payments,     \* payment references, each opened at most once
    Deliveries,   \* delivery identifiers, each requested at most once
    Quick,        \* those of deliveryType "quick"; the others are "scheduled"
    Handlers,     \* requests the API can be serving at the same time
    NoPayment,    \* "no payment" in a handler or a delivery document
    NoDelivery,   \* the payment funds the wallet
    MaxNotices,   \* bound: webhook calls of one payment in flight
    MaxRefunds,   \* bound: a delivery refunded this often is not cancelled again
    MayFail,      \* an await may throw, or the process die, in any handler
    MayReverse,   \* the provider may reverse a paid transaction
    MayExpire     \* a cached request may outlive its Redis lifetime

ASSUME ConstantsAssumption ==
    /\ Quick \subseteq Deliveries
    /\ NoPayment \notin Payments
    /\ NoDelivery \notin Deliveries
    /\ {MaxNotices, MaxRefunds} \subseteq Nat \ {0}
    /\ {MayFail, MayReverse, MayExpire} \subseteq BOOLEAN

ASSUME HandlersAssumption == IsFiniteSet(Handlers)

VARIABLES
    payStatus,    \* status of each Payment document, "none" before it is created
    providerRef,  \* the document holds Monnify's transaction reference
    payFor,       \* the delivery it pays for, or NoDelivery
    monnify,      \* Monnify's own status of the transaction
    notices,      \* webhook calls Monnify has posted and we have not served
    requested,    \* deliveries the customer has ever asked for
    cached,       \* quick card deliveries waiting in Redis
    offered,      \* deliveries that some rider was ever asked to take
    dStatus,      \* status of each delivery document, or Absent
    dPaid,        \* its paymentStatus
    dPayment,     \* its payment field
    dRider,       \* it has a rider
    credits,      \* wallet increments made for each funding payment
    ledger,       \* wallet transactions recorded under its reference
    refunds,      \* refunds credited to the wallet for each delivery
    pc,           \* where each handler is
    hPay,         \* the payment it works on
    hDel,         \* the delivery it works on
    sawPaid,      \* cancelDelivery: the document was paid when it was read
    bornSettled   \* history: its payment was in the ledger when it started

payVars  == <<payStatus, providerRef, payFor>>
provVars == <<monnify, notices>>
reqVars  == <<requested, cached, offered>>
delVars  == <<reqVars, dStatus, dPaid, dPayment, dRider>>
walVars  == <<credits, ledger, refunds>>
locals   == <<hPay, hDel, sawPaid, bornSettled>>
vars     == <<payVars, provVars, delVars, walVars, pc, locals>>

PayStatus == {"none", "pending", "paid", "failed", "refunded", "partially_refunded"}
Settled   == {"paid", "failed", "reversed"}
Labels ==
    {"idle", "verify",
     "readSuccess", "markPaid", "checkLedger", "incBalance", "insertLedger",
     "findDelivery", "getPending", "createDelivery", "deletePending",
     "confirm", "onPaymentCompleted", "startSearch",
     "markFailed", "readAwaiting", "revert",
     "cancelGetPending", "cancelDeletePending", "cancelUpdate",
     "refundFind", "refundCredit", "refundMark",
     "awaitPayment", "confirmPickup",
     "exhaustCancel", "exhaustDelete"}

Init ==
    /\ payStatus   = [p \in Payments |-> "none"]
    /\ providerRef = [p \in Payments |-> FALSE]
    /\ payFor      = [p \in Payments |-> NoDelivery]
    /\ monnify     = [p \in Payments |-> "none"]
    /\ notices     = [p \in Payments |-> 0]
    /\ requested   = {}
    /\ cached      = {}
    /\ offered     = {}
    /\ dStatus     = [d \in Deliveries |-> Absent]
    /\ dPaid       = [d \in Deliveries |-> "pending"]
    /\ dPayment    = [d \in Deliveries |-> NoPayment]
    /\ dRider      = [d \in Deliveries |-> FALSE]
    /\ credits     = [p \in Payments |-> 0]
    /\ ledger      = [p \in Payments |-> 0]
    /\ refunds     = [d \in Deliveries |-> 0]
    /\ pc          = [h \in Handlers |-> "idle"]
    /\ hPay        = [h \in Handlers |-> NoPayment]
    /\ hDel        = [h \in Handlers |-> NoDelivery]
    /\ sawPaid     = [h \in Handlers |-> FALSE]
    /\ bornSettled = [h \in Handlers |-> FALSE]

-----------------------------------------------------------------------------
(* Moving a handler along. *)

Goto(h, l) ==
    /\ pc' = [pc EXCEPT ![h] = l]
    /\ UNCHANGED locals

(* The handler answers its request and its locals are gone. *)
Finish(h) ==
    /\ pc'          = [pc EXCEPT ![h] = "idle"]
    /\ hPay'        = [hPay EXCEPT ![h] = NoPayment]
    /\ hDel'        = [hDel EXCEPT ![h] = NoDelivery]
    /\ sawPaid'     = [sawPaid EXCEPT ![h] = FALSE]
    /\ bornSettled' = [bornSettled EXCEPT ![h] = FALSE]

StartOnPayment(h, p, l) ==
    /\ pc[h] = "idle"
    /\ pc'          = [pc EXCEPT ![h] = l]
    /\ hPay'        = [hPay EXCEPT ![h] = p]
    /\ hDel'        = [hDel EXCEPT ![h] = payFor[p]]
    /\ bornSettled' = [bornSettled EXCEPT ![h] = ledger[p] > 0]
    /\ UNCHANGED sawPaid

StartOnDelivery(h, d, l, paid) ==
    /\ pc[h] = "idle"
    /\ pc'      = [pc EXCEPT ![h] = l]
    /\ hDel'    = [hDel EXCEPT ![h] = d]
    /\ sawPaid' = [sawPaid EXCEPT ![h] = paid]
    /\ UNCHANGED <<hPay, bornSettled>>

-----------------------------------------------------------------------------
(* The customer asks for deliveries and opens payments. *)

(* createDeliveryRequest, quick and paid by card or bank: Redis only. *)
RequestCached(d) ==
    /\ d \in Quick \ requested
    /\ requested' = requested \union {d}
    /\ cached' = cached \union {d}
    /\ UNCHANGED <<payVars, provVars, offered, dStatus, dPaid, dPayment, dRider, walVars, pc, locals>>

(* createDeliveryRequest, every other case: a document from the start.  A  *)
(* quick request to be paid at pickup, or that names a payment reference,  *)
(* is offered to riders at once; a scheduled one that names a reference,   *)
(* any reference, counts as paid.                                          *)
RequestInDb(d) ==
    /\ d \in Deliveries \ requested
    /\ requested' = requested \union {d}
    /\ \/ /\ d \in Quick
          /\ dStatus' = [dStatus EXCEPT ![d] = "searching_rider"]
          /\ offered' = offered \union {d}
          /\ UNCHANGED dPaid
       \/ /\ dStatus' = [dStatus EXCEPT ![d] = "pending"]
          /\ UNCHANGED <<offered, dPaid>>
       \/ /\ d \notin Quick
          /\ dStatus' = [dStatus EXCEPT ![d] = "scheduled"]
          /\ dPaid' = [dPaid EXCEPT ![d] = "paid"]
          /\ UNCHANGED offered
    /\ UNCHANGED <<payVars, provVars, cached, dPayment, dRider, walVars, pc, locals>>

OpenPayment(p, d) ==
    /\ payStatus[p] = "none"
    /\ payStatus' = [payStatus EXCEPT ![p] = "pending"]
    /\ payFor' = [payFor EXCEPT ![p] = d]
    /\ UNCHANGED <<providerRef, provVars, delVars, walVars, pc, locals>>

(* fundWallet creates the Payment document. *)
FundWallet(p) == OpenPayment(p, NoDelivery)

(* findPaymentByDelivery is a findOne with no order: any payment of d may  *)
(* be the one it returns.                                                  *)
PaymentsOf(d) == {q \in Payments : payFor[q] = d}
MayFindUnpaid(d) ==
    PaymentsOf(d) = {} \/ \E q \in PaymentsOf(d) : payStatus[q] # "paid"

(* initiatePayment by card or bank, for a document or a cached request. *)
InitiatePayment(p, d) ==
    /\ \/ dStatus[d] \in PaymentAllowed
       \/ dStatus[d] = Absent /\ d \in cached
    /\ MayFindUnpaid(d)
    /\ OpenPayment(p, d)

(* monnifyService.initializePayment: the transaction exists at Monnify. *)
OpenAtMonnify(p) ==
    /\ payStatus[p] # "none" /\ monnify[p] = "none"
    /\ monnify' = [monnify EXCEPT ![p] = "pending"]
    /\ UNCHANGED <<payVars, notices, delVars, walVars, pc, locals>>

(* The request that opened it then stores the transaction reference. *)
SaveProviderRef(p) ==
    /\ monnify[p] # "none" /\ ~providerRef[p]
    /\ providerRef' = [providerRef EXCEPT ![p] = TRUE]
    /\ UNCHANGED <<payStatus, payFor, provVars, delVars, walVars, pc, locals>>

-----------------------------------------------------------------------------
(* Monnify (external): it decides once, may reverse a payment, and posts   *)
(* a webhook for every decision, possibly several times.                   *)

Notify(p) == notices' = [notices EXCEPT ![p] = IF @ < MaxNotices THEN @ + 1 ELSE @]

MonnifySettles(p) ==
    /\ monnify[p] = "pending"
    /\ \E s \in {"paid", "failed"} : monnify' = [monnify EXCEPT ![p] = s]
    /\ Notify(p)
    /\ UNCHANGED <<payVars, delVars, walVars, pc, locals>>

MonnifyReverses(p) ==
    /\ MayReverse
    /\ monnify[p] = "paid"
    /\ monnify' = [monnify EXCEPT ![p] = "reversed"]
    /\ Notify(p)
    /\ UNCHANGED <<payVars, delVars, walVars, pc, locals>>

MonnifyRepeats(p) ==
    /\ monnify[p] \in Settled /\ notices[p] < MaxNotices
    /\ Notify(p)
    /\ UNCHANGED <<payVars, monnify, delVars, walVars, pc, locals>>

-----------------------------------------------------------------------------
(* The two ways a settlement starts, and the check with Monnify's API that *)
(* both make before they believe anything.                                 *)

(* handleMonnifyWebhook receives a signed call. *)
StartWebhook(h, p) ==
    /\ notices[p] > 0
    /\ notices' = [notices EXCEPT ![p] = @ - 1]
    /\ StartOnPayment(h, p, "verify")
    /\ UNCHANGED <<payVars, monnify, delVars, walVars>>

(* getPaymentStatus reads the payment; it verifies only a pending one that *)
(* has a provider reference, and otherwise just reports.                   *)
StartPoll(h, p) ==
    /\ payStatus[p] = "pending" /\ providerRef[p]
    /\ StartOnPayment(h, p, "verify")
    /\ UNCHANGED <<payVars, provVars, delVars, walVars>>

(* isPaymentSuccessful and isPaymentFailed over Monnify's answer. *)
SuccessfulOrPending(s)   == s \in {"paid", "pending"}                \* mutant
UnsuccessfulOrPending(s) == s \in {"failed", "reversed", "pending"}  \* mutant
Successful(s)   == s = "paid"
Unsuccessful(s) == s \in {"failed", "reversed"}

Verify(h) ==
    /\ pc[h] = "verify"
    /\ LET s == monnify[hPay[h]] IN
          \/ Successful(s) /\ Goto(h, "readSuccess")
          \/ Unsuccessful(s) /\ Goto(h, "markFailed")
          \/ ~Successful(s) /\ ~Unsuccessful(s) /\ Finish(h)
    /\ UNCHANGED <<payVars, provVars, delVars, walVars>>

-----------------------------------------------------------------------------
(* handleWebhookPaymentSuccess. *)

AlreadyPaid(p) == payStatus[p] = "paid"

ReadForSuccess(h) ==
    /\ pc[h] = "readSuccess"
    /\ IF AlreadyPaid(hPay[h]) THEN Finish(h) ELSE Goto(h, "markPaid")
    /\ UNCHANGED <<payVars, provVars, delVars, walVars>>

MarkPaid(h) ==
    /\ pc[h] = "markPaid"
    /\ payStatus' = [payStatus EXCEPT ![hPay[h]] = "paid"]
    /\ providerRef' = [providerRef EXCEPT ![hPay[h]] = TRUE]
    /\ Goto(h, IF hDel[h] = NoDelivery THEN "checkLedger" ELSE "findDelivery")
    /\ UNCHANGED <<payFor, provVars, delVars, walVars>>

NeverCredited(p) == FALSE                    \* mutant: the guard is dropped
CreditedIfPaid(p) == payStatus[p] = "paid"   \* mutant: it looks at the payment
(* The wallet transaction of this reference already exists. *)
AlreadyCredited(p) == ledger[p] > 0

CheckLedger(h) ==
    /\ pc[h] = "checkLedger"
    /\ IF AlreadyCredited(hPay[h]) THEN Finish(h) ELSE Goto(h, "incBalance")
    /\ UNCHANGED <<payVars, provVars, delVars, walVars>>

(* Mutant: $set of a balance read before, instead of $inc. *)
SetBalance(h) ==
    /\ pc[h] = "incBalance"
    /\ credits' = [credits EXCEPT ![hPay[h]] = 1]
    /\ Goto(h, "insertLedger")
    /\ UNCHANGED <<payVars, provVars, delVars, ledger, refunds>>

(* processWalletFunding: increment the balance, then insert the record. *)
IncBalance(h) ==
    /\ pc[h] = "incBalance"
    /\ credits' = [credits EXCEPT ![hPay[h]] = @ + 1]
    /\ Goto(h, "insertLedger")
    /\ UNCHANGED <<payVars, provVars, delVars, ledger, refunds>>

InsertLedger(h) ==
    /\ pc[h] = "insertLedger"
    /\ ledger' = [ledger EXCEPT ![hPay[h]] = @ + 1]
    /\ Finish(h)
    /\ UNCHANGED <<payVars, provVars, delVars, credits, refunds>>

(* Mutant: a delivery that is not in MongoDB is given up. *)
FindDeliveryInDb(h) ==
    /\ pc[h] = "findDelivery"
    /\ IF dStatus[hDel[h]] = Absent THEN Finish(h) ELSE Goto(h, "confirm")
    /\ UNCHANGED <<payVars, provVars, delVars, walVars>>

FindDelivery(h) ==
    /\ pc[h] = "findDelivery"
    /\ Goto(h, IF dStatus[hDel[h]] = Absent THEN "getPending" ELSE "confirm")
    /\ UNCHANGED <<payVars, provVars, delVars, walVars>>

(* Neither in MongoDB nor in Redis: the code logs a warning and returns. *)
GetPending(h) ==
    /\ pc[h] = "getPending"
    /\ IF hDel[h] \in cached THEN Goto(h, "createDelivery") ELSE Finish(h)
    /\ UNCHANGED <<payVars, provVars, delVars, walVars>>

(* create() under a fixed _id: a second insertion throws. *)
CreateDelivery(h) ==
    /\ pc[h] = "createDelivery"
    /\ LET d == hDel[h] IN
          IF dStatus[d] = Absent
          THEN /\ dStatus' = [dStatus EXCEPT ![d] = "payment_confirmed"]
               /\ dPaid' = [dPaid EXCEPT ![d] = "paid"]
               /\ Goto(h, "deletePending")
          ELSE UNCHANGED <<dStatus, dPaid>> /\ Finish(h)
    /\ UNCHANGED <<payVars, provVars, reqVars, dPayment, dRider, walVars>>

(* Mutant: the key deleted is not the one that was cached. *)
DeleteOtherKey(h) ==
    /\ pc[h] = "deletePending"
    /\ Goto(h, "confirm")
    /\ UNCHANGED <<payVars, provVars, delVars, walVars>>

DeletePending(h) ==
    /\ pc[h] = "deletePending"
    /\ cached' = cached \ {hDel[h]}
    /\ Goto(h, "confirm")
    /\ UNCHANGED <<payVars, provVars, requested, offered, dStatus, dPaid, dPayment, dRider, walVars>>

PaidStatusOf(d) == IF d \in Quick THEN "payment_confirmed" ELSE "scheduled"

(* findByIdAndUpdate sets unconditionally, whatever the document has       *)
(* become since it was read; if it was deleted the update does nothing.    *)
Update(f, d, v) == [f EXCEPT ![d] = IF dStatus[d] = Absent THEN @ ELSE v]

Confirm(h) ==
    /\ pc[h] = "confirm"
    /\ dStatus'  = Update(dStatus, hDel[h], PaidStatusOf(hDel[h]))
    /\ dPaid'    = Update(dPaid, hDel[h], "paid")
    /\ dPayment' = Update(dPayment, hDel[h], hPay[h])
    /\ Goto(h, "onPaymentCompleted")
    /\ UNCHANGED <<payVars, provVars, reqVars, dRider, walVars>>

(* handlePaymentCompleted, the listener of the event emitted last. *)
OnPaymentCompleted(h) ==
    /\ pc[h] = "onPaymentCompleted"
    /\ LET d == hDel[h] IN
          IF d \in Quick /\ dStatus[d] = "payment_confirmed" /\ ~dRider[d]
          THEN Goto(h, "startSearch") ELSE Finish(h)
    /\ UNCHANGED <<payVars, provVars, delVars, walVars>>

StartSearch(h) ==
    /\ pc[h] = "startSearch"
    /\ dStatus' = Update(dStatus, hDel[h], "searching_rider")
    /\ offered' = offered \union {hDel[h]}
    /\ Finish(h)
    /\ UNCHANGED <<payVars, provVars, requested, cached, dPaid, dPayment, dRider, walVars>>

-----------------------------------------------------------------------------
(* handleWebhookPaymentFailed. *)

MarkFailed(h) ==
    /\ pc[h] = "markFailed"
    /\ payStatus' = [payStatus EXCEPT ![hPay[h]] = "failed"]
    /\ IF hDel[h] = NoDelivery THEN Finish(h) ELSE Goto(h, "readAwaiting")
    /\ UNCHANGED <<providerRef, payFor, provVars, delVars, walVars>>

ReadAwaiting(h) ==
    /\ pc[h] = "readAwaiting"
    /\ IF dStatus[hDel[h]] = "awaiting_payment" THEN Goto(h, "revert") ELSE Finish(h)
    /\ UNCHANGED <<payVars, provVars, delVars, walVars>>

Revert(h) ==
    /\ pc[h] = "revert"
    /\ dPaid' = Update(dPaid, hDel[h], "failed")
    /\ dStatus' = Update(dStatus, hDel[h],
                         IF hDel[h] \in Quick THEN "rider_arrived_pickup" ELSE "pending")
    /\ Finish(h)
    /\ UNCHANGED <<payVars, provVars, reqVars, dPayment, dRider, walVars>>

-----------------------------------------------------------------------------
(* cancelDelivery, and the refund its event asks the listener to make.     *)

StartCancel(h, d) ==
    /\ d \in requested /\ refunds[d] < MaxRefunds
    /\ \/ dStatus[d] = Absent /\ StartOnDelivery(h, d, "cancelGetPending", FALSE)
       \/ /\ dStatus[d] \in Status \ NonCancellable
          /\ StartOnDelivery(h, d, "cancelUpdate", dPaid[d] = "paid")
    /\ UNCHANGED <<payVars, provVars, delVars, walVars>>

CancelGetPending(h) ==
    /\ pc[h] = "cancelGetPending"
    /\ IF hDel[h] \in cached THEN Goto(h, "cancelDeletePending") ELSE Finish(h)
    /\ UNCHANGED <<payVars, provVars, delVars, walVars>>

CancelDeletePending(h) ==
    /\ pc[h] = "cancelDeletePending"
    /\ cached' = cached \ {hDel[h]}
    /\ Finish(h)
    /\ UNCHANGED <<payVars, provVars, requested, offered, dStatus, dPaid, dPayment, dRider, walVars>>

(* The cancellation fee is taken to be below the price, so that a delivery *)
(* that was paid when it was read is refunded.                             *)
CancelUpdate(h) ==
    /\ pc[h] = "cancelUpdate"
    /\ dStatus' = Update(dStatus, hDel[h], "cancelled")
    /\ IF sawPaid[h] THEN Goto(h, "refundFind") ELSE Finish(h)
    /\ UNCHANGED <<payVars, provVars, reqVars, dPaid, dPayment, dRider, walVars>>

(* Mutant: no check that an original payment was found. *)
RefundFindUnchecked(h) ==
    /\ pc[h] = "refundFind"
    /\ \E q \in PaymentsOf(hDel[h]) \union {NoPayment} : hPay' = [hPay EXCEPT ![h] = q]
    /\ pc' = [pc EXCEPT ![h] = "refundCredit"]
    /\ UNCHANGED <<payVars, provVars, delVars, walVars, hDel, sawPaid, bornSettled>>

(* processRefund: any payment of the delivery will do; without one it      *)
(* throws, and the listener logs the error.                                *)
RefundFind(h) ==
    /\ pc[h] = "refundFind"
    /\ \/ /\ \E q \in PaymentsOf(hDel[h]) : hPay' = [hPay EXCEPT ![h] = q]
          /\ pc' = [pc EXCEPT ![h] = "refundCredit"]
          /\ UNCHANGED <<hDel, sawPaid, bornSettled>>
       \/ PaymentsOf(hDel[h]) = {} /\ Finish(h)
    /\ UNCHANGED <<payVars, provVars, delVars, walVars>>

RefundCredit(h) ==
    /\ pc[h] = "refundCredit"
    /\ refunds' = [refunds EXCEPT ![hDel[h]] = @ + 1]
    /\ Goto(h, "refundMark")
    /\ UNCHANGED <<payVars, provVars, delVars, credits, ledger>>

RefundMark(h) ==
    /\ pc[h] = "refundMark"
    /\ \E s \in {"refunded", "partially_refunded"} :
          payStatus' = [payStatus EXCEPT ![hPay[h]] = s]
    /\ Finish(h)
    /\ UNCHANGED <<providerRef, payFor, provVars, delVars, walVars>>

-----------------------------------------------------------------------------
(* Paying at pickup: two calls of the customer, neither of which looks at  *)
(* any payment.                                                            *)

StartInitiatePickup(h, d) ==
    /\ d \in Quick
    /\ dStatus[d] = "rider_arrived_pickup" /\ dPaid[d] # "paid"
    /\ StartOnDelivery(h, d, "awaitPayment", FALSE)
    /\ UNCHANGED <<payVars, provVars, delVars, walVars>>

AwaitPayment(h) ==
    /\ pc[h] = "awaitPayment"
    /\ dStatus' = Update(dStatus, hDel[h], "awaiting_payment")
    /\ Finish(h)
    /\ UNCHANGED <<payVars, provVars, reqVars, dPaid, dPayment, dRider, walVars>>

StartConfirmPickup(h, d) ==
    /\ dStatus[d] = "awaiting_payment"
    /\ StartOnDelivery(h, d, "confirmPickup", FALSE)
    /\ UNCHANGED <<payVars, provVars, delVars, walVars>>

ConfirmPickup(h) ==
    /\ pc[h] = "confirmPickup"
    /\ dPaid' = Update(dPaid, hDel[h], "paid")
    /\ dStatus' = Update(dStatus, hDel[h], "payment_confirmed")
    /\ Finish(h)
    /\ UNCHANGED <<payVars, provVars, reqVars, dPayment, dRider, walVars>>

-----------------------------------------------------------------------------
(* handleUnpaidExhausted: the last rider asked has rejected, or said       *)
(* nothing.  Matching has read the delivery unpaid and without a rider,    *)
(* whatever its status; it marks it cancelled, then deletes the document.  *)

StartExhaust(h, d) ==
    /\ d \in offered
    /\ dStatus[d] # Absent /\ dPaid[d] # "paid" /\ ~dRider[d]
    /\ StartOnDelivery(h, d, "exhaustCancel", FALSE)
    /\ UNCHANGED <<payVars, provVars, delVars, walVars>>

ExhaustCancel(h) ==
    /\ pc[h] = "exhaustCancel"
    /\ dStatus' = Update(dStatus, hDel[h], "cancelled")
    /\ Goto(h, "exhaustDelete")
    /\ UNCHANGED <<payVars, provVars, reqVars, dPaid, dPayment, dRider, walVars>>

ExhaustDelete(h) ==
    /\ pc[h] = "exhaustDelete"
    /\ LET d == hDel[h] IN
          /\ dStatus'  = [dStatus EXCEPT ![d] = Absent]
          /\ dPaid'    = [dPaid EXCEPT ![d] = "pending"]
          /\ dPayment' = [dPayment EXCEPT ![d] = NoPayment]
          /\ dRider'   = [dRider EXCEPT ![d] = FALSE]
    /\ Finish(h)
    /\ UNCHANGED <<payVars, provVars, reqVars, walVars>>

-----------------------------------------------------------------------------
(* The rest of the platform, one step per request. *)

MoveDelivery(d, s, taken) ==
    /\ dStatus' = [dStatus EXCEPT ![d] = s]
    /\ dRider' = [dRider EXCEPT ![d] = taken]
    /\ UNCHANGED <<payVars, provVars, reqVars, dPaid, dPayment, walVars, pc, locals>>

(* acceptDelivery in delivery-api, by a rider who was asked, however late. *)
RiderAccepts(d) ==
    /\ d \in offered
    /\ dStatus[d] \in OpenToRiders /\ ~dRider[d]
    /\ MoveDelivery(d, "rider_accepted", TRUE)

(* rejectDelivery in delivery-api by the rider who has it, at any status. *)
RiderRejects(d) ==
    /\ dRider[d]
    /\ MoveDelivery(d, "searching_rider", FALSE)

(* assignRider in admin-api. *)
AdminAssigns(d) ==
    /\ dStatus[d] \in AssignableByAdmin /\ ~dRider[d]
    /\ MoveDelivery(d, "rider_assigned", TRUE)

(* updateDeliveryStatus in delivery-api.  The PIN and arrival requests of  *)
(* the rider lead to no status that this one does not lead to.             *)
RiderAdvances(d) ==
    /\ dRider[d]
    /\ \E s \in RiderTransitions(dStatus[d]) : MoveDelivery(d, s, TRUE)

(* retryPaidExhaustedDeliveries: riders are asked again. *)
RetrySearch(d) ==
    /\ d \in Quick \ offered
    /\ dStatus[d] = "searching_rider" /\ dPaid[d] = "paid" /\ ~dRider[d]
    /\ offered' = offered \union {d}
    /\ UNCHANGED <<payVars, provVars, requested, cached, dStatus, dPaid, dPayment, dRider, walVars, pc, locals>>

-----------------------------------------------------------------------------
(* Faults. *)

(* The Redis key reaches the end of its thirty minutes. *)
ExpireCached(d) ==
    /\ MayExpire
    /\ d \in cached
    /\ cached' = cached \ {d}
    /\ UNCHANGED <<payVars, provVars, requested, offered, dStatus, dPaid, dPayment, dRider, walVars, pc, locals>>

(* A database or HTTP call throws and the error is swallowed, or the       *)
(* process dies: the rest of the handler never runs.                       *)
Fail(h) ==
    /\ MayFail
    /\ pc[h] # "idle"
    /\ Finish(h)
    /\ UNCHANGED <<payVars, provVars, delVars, walVars>>

-----------------------------------------------------------------------------
Step(h) ==
    \/ Verify(h)
    \/ ReadForSuccess(h) \/ MarkPaid(h)
    \/ CheckLedger(h) \/ IncBalance(h) \/ InsertLedger(h)
    \/ FindDelivery(h) \/ GetPending(h) \/ CreateDelivery(h) \/ DeletePending(h)
    \/ Confirm(h) \/ OnPaymentCompleted(h) \/ StartSearch(h)
    \/ MarkFailed(h) \/ ReadAwaiting(h) \/ Revert(h)
    \/ CancelGetPending(h) \/ CancelDeletePending(h) \/ CancelUpdate(h)
    \/ RefundFind(h) \/ RefundCredit(h) \/ RefundMark(h)
    \/ AwaitPayment(h) \/ ConfirmPickup(h)
    \/ ExhaustCancel(h) \/ ExhaustDelete(h)

SettlementStarts(h, p) == StartWebhook(h, p) \/ StartPoll(h, p)

Arrive(h) ==
    \/ \E p \in Payments : SettlementStarts(h, p)
    \/ \E d \in Deliveries :
          \/ StartCancel(h, d) \/ StartExhaust(h, d)
          \/ StartInitiatePickup(h, d) \/ StartConfirmPickup(h, d)

Open ==
    \/ \E p \in Payments : FundWallet(p) \/ OpenAtMonnify(p) \/ SaveProviderRef(p)
    \/ \E p \in Payments, d \in Deliveries : InitiatePayment(p, d)
    \/ \E d \in Deliveries : RequestCached(d) \/ RequestInDb(d)

Monnify == \E p \in Payments : MonnifySettles(p) \/ MonnifyReverses(p) \/ MonnifyRepeats(p)

Platform ==
    \E d \in Deliveries :
        \/ RiderAccepts(d) \/ RiderRejects(d) \/ AdminAssigns(d)
        \/ RiderAdvances(d) \/ RetrySearch(d)

Faults == (\E h \in Handlers : Fail(h)) \/ \E d \in Deliveries : ExpireCached(d)

Next == (\E h \in Handlers : Step(h) \/ Arrive(h)) \/ Open \/ Monnify \/ Platform \/ Faults

Spec == Init /\ [][Next]_vars

(* What the code's scheduling gives when nothing throws: the event loop    *)
(* resumes every handler whose await has completed, and a webhook Monnify  *)
(* keeps posting is received in the end.                                   *)
Fairness ==
    /\ \A h \in Handlers : WF_vars(Step(h))
    /\ \A p \in Payments : SF_vars(\E h \in Handlers : StartWebhook(h, p))

FairSpec == Spec /\ Fairness

(* Requests about the same payment served one after the other, as a lock   *)
(* per payment reference would have it.  The code has no such lock: this   *)
(* specification says what the absence of one costs.                       *)
OneHandlerPerPayment ==
    \A h1, h2 \in Handlers :
        hPay[h1] = hPay[h2] /\ hPay[h1] # NoPayment => h1 = h2

SerialSpec == Init /\ [][Next /\ OneHandlerPerPayment']_vars

-----------------------------------------------------------------------------
(* Properties. *)

OnPayment  == {"verify", "readSuccess", "markPaid", "markFailed"}
OnFunding  == {"checkLedger", "incBalance", "insertLedger"}
OnPaidDelivery ==
    {"findDelivery", "getPending", "createDelivery", "deletePending", "confirm",
     "onPaymentCompleted", "startSearch", "readAwaiting", "revert",
     "refundCredit", "refundMark"}
OnDelivery ==
    {"cancelGetPending", "cancelDeletePending", "cancelUpdate", "refundFind",
     "awaitPayment", "confirmPickup", "exhaustCancel", "exhaustDelete"}

(* What a handler must hold to stand at l: the payment and the delivery    *)
(* that the code there dereferences.                                       *)
Holds(h, l) ==
    /\ l = "idle" => hPay[h] = NoPayment /\ hDel[h] = NoDelivery /\ ~bornSettled[h]
    /\ l \in OnPayment => hPay[h] \in Payments /\ hDel[h] = payFor[hPay[h]]
    /\ l \in OnFunding =>
           hPay[h] \in Payments /\ hDel[h] = NoDelivery /\ payFor[hPay[h]] = NoDelivery
    /\ l \in OnPaidDelivery =>
           hPay[h] \in Payments /\ hDel[h] \in Deliveries /\ payFor[hPay[h]] = hDel[h]
    /\ l \in OnDelivery => hPay[h] = NoPayment /\ hDel[h] \in Deliveries /\ ~bornSettled[h]

PaymentTypeOK ==
    /\ payStatus   \in [Payments -> PayStatus]
    /\ providerRef \in [Payments -> BOOLEAN]
    /\ payFor      \in [Payments -> Deliveries \union {NoDelivery}]
    /\ monnify     \in [Payments -> {"none", "pending"} \union Settled]
    /\ notices     \in [Payments -> 0..MaxNotices]

DeliveryTypeOK ==
    /\ requested \subseteq Deliveries
    /\ cached \subseteq Quick
    /\ offered \subseteq Deliveries
    /\ dStatus  \in [Deliveries -> Status \union {Absent}]
    /\ dPaid    \in [Deliveries -> {"pending", "paid", "failed"}]
    /\ dPayment \in [Deliveries -> Payments \union {NoPayment}]
    /\ dRider   \in [Deliveries -> BOOLEAN]

WalletTypeOK ==
    /\ credits \in [Payments -> Nat]
    /\ ledger  \in [Payments -> Nat]
    /\ refunds \in [Deliveries -> Nat]

HandlerTypeOK ==
    /\ pc          \in [Handlers -> Labels]
    /\ hPay        \in [Handlers -> Payments \union {NoPayment}]
    /\ hDel        \in [Handlers -> Deliveries \union {NoDelivery}]
    /\ sawPaid     \in [Handlers -> BOOLEAN]
    /\ bornSettled \in [Handlers -> BOOLEAN]

(* Every variable has its type, and no handler stands where the code would *)
(* dereference a payment or a delivery it does not hold.                   *)
TypeOK ==
    /\ PaymentTypeOK
    /\ DeliveryTypeOK
    /\ WalletTypeOK
    /\ HandlerTypeOK
    /\ \A h \in Handlers : Holds(h, pc[h])

Collected(p) == monnify[p] \in {"paid", "reversed"}

(* No value appears without money: whatever order webhooks, polls, crashes *)
(* and reversals come in, a payment recorded as paid, a wallet increment   *)
(* and a delivery's payment all rest on a transaction that Monnify itself  *)
(* reported paid, and the delivery's on one that was opened for it.        *)
OnlyVerifiedMoneyCounts ==
    /\ \A p \in Payments :
          /\ payStatus[p] = "paid" => Collected(p)
          /\ credits[p] > 0 => Collected(p) /\ payFor[p] = NoDelivery
    /\ \A d \in Deliveries :
          dPayment[d] # NoPayment => Collected(dPayment[d]) /\ payFor[dPayment[d]] = d

Recording(p) == {h \in Handlers : pc[h] = "insertLedger" /\ hPay[h] = p}

(* The wallet is incremented before its transaction is inserted, so that a *)
(* crash between the two loses the record and never the customer's money:  *)
(* no record exists, or is about to, for an increment that was not made.   *)
LedgerNeverAhead ==
    \A p \in Payments : ledger[p] + Cardinality(Recording(p)) <= credits[p]

(* The double-credit guard of handleWebhookPaymentSuccess does protect     *)
(* against late duplicates: a request that arrives after the funding was   *)
(* recorded never credits the wallet again, even when a reversal has taken *)
(* the payment out of PAID in between.                                     *)
SettledFundingIsFinal ==
    \A h \in Handlers : pc[h] \in {"incBalance", "insertLedger"} => ~bornSettled[h]

(* A payment leaves PAID only because Monnify took the money back or a     *)
(* refund was made of it; no late or repeated notice makes it fail.        *)
PaidIsNotForgotten ==
    [][\A p \in Payments :
          payStatus[p] = "paid" /\ payStatus'[p] # "paid" =>
             \/ monnify[p] = "reversed"
             \/ \E h \in Handlers : pc[h] = "refundMark" /\ hPay[h] = p]_vars

(* When nothing throws, a request is never left in Redis beside the        *)
(* document made from it, where a later cancellation would find it: some   *)
(* handler is on its way to delete it.                                     *)
CacheIsCleared ==
    \A d \in cached :
        dStatus[d] = Absent \/ \E h \in Handlers : pc[h] = "deletePending" /\ hDel[h] = d

(* What the guard's comment promises, "Guard against double-credit         *)
(* (webhook + polling race)": one payment funds the wallet once.           *)
CreditedAtMostOnce == \A p \in Payments : credits[p] <= 1

(* Every wallet funding Monnify collected reaches the wallet. *)
FundingSettles ==
    \A p \in Payments :
        monnify[p] = "paid" /\ payFor[p] = NoDelivery ~> credits[p] > 0

(* Every delivery payment Monnify collected reaches its delivery, unless   *)
(* the request is gone from both MongoDB and Redis by then.                *)
DeliverySettles ==
    \A p \in Payments, d \in Deliveries :
        monnify[p] = "paid" /\ payFor[p] = d
            ~> dPayment[d] # NoPayment \/ (dStatus[d] = Absent /\ d \notin cached)

-----------------------------------------------------------------------------
(* Claims of the repository that the code does not keep. *)

(* cancelDelivery: "This delivery cannot be cancelled" once it is          *)
(* cancelled, so that it is refunded once.                                 *)
RefundedAtMostOnce == \A d \in Deliveries : refunds[d] <= 1

(* getPaymentStatus reports PAID as "Wallet funded successfully". *)
PaidFundingIsCredited ==
    \A p \in Payments :
        payStatus[p] = "paid" /\ payFor[p] = NoDelivery ~> credits[p] > 0
=============================================================================
