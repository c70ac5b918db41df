--------------------------- MODULE RiderEarnings ---------------------------
(***************************************************************************)
(* What a rider earns and withdraws.                                       *)
(*                                                                         *)
(* delivery-api records an earning when a delivery is done, and holds      *)
(* earnings, oldest first, when the rider withdraws; admin-api approves    *)
(* the withdrawal or rejects it.  The rider's walletBalance is a second    *)
(* account of the same money, kept by increments of its own.  Nothing is   *)
(* a transaction: a request is a sequence of reads and writes between      *)
(* which those of other requests happen.                                   *)
(*                                                                         *)
(* Riders do not share earnings, so that one rider is enough.  Bank        *)
(* details, notes and dates are left out: a report covers all of time.     *)
(***************************************************************************)
EXTENDS Integers, Sequences, SequencesExt

CONSTANTS
    Deliveries,
    Price,         \* pricing.totalPrice of each delivery
    Percentage,    \* riderCommissionPercentage, in percent
    MinimumPayout, \* minimumRiderPayout
    MinimumAmount, \* the smallest amount that can be withdrawn
    Amounts,       \* amounts the rider asks for
    References,    \* one for each withdrawal
    NoReference,
    NoDelivery,
    Requests,      \* requests that can be served at the same time
    MaxCredits,    \* bound: how often a delivery is reported done
    MaxFaults      \* bound: how often a request throws or its process dies

ASSUME EarningsAssumption ==
    /\ Price \in [Deliveries -> Nat]
    /\ Percentage \in 0..100
    /\ {MinimumPayout, MinimumAmount} \subseteq Nat \ {0}
    /\ Amounts \subseteq Nat
    /\ NoReference \notin References
    /\ NoDelivery \notin Deliveries
    /\ IsFiniteSet(Deliveries) /\ IsFiniteSet(References) /\ IsFiniteSet(Requests)
    /\ {MaxCredits, MaxFaults} \subseteq Nat

VARIABLES
    records,    \* rider_earnings, oldest first
    balance,    \* the rider's walletBalance
    earned,     \* the rider's totalEarnings
    platform,   \* platform_earnings of each delivery
    filed,      \* status of each withdrawal request, or "none"
    amount,     \* its amount
    req,        \* what each request is doing
    reported,   \* how often each delivery was reported done
    started,    \* history: references that a withdrawal has taken
    faults,
    raced,      \* history: deliveries two credits of which ran at once
    overlapped  \* history: two withdrawals, or two decisions, ran at once

books   == <<records, balance, earned, platform, filed, amount>>
history == <<reported, started, faults, raced, overlapped>>
vars    == <<books, req, history>>

(* A request's locals; todo is what is left of the earnings it found.      *)
Idle == [at |-> "idle", del |-> NoDelivery, ref |-> NoReference, sum |-> 0, left |-> 0,
         todo |-> {}]

Crediting   == {"create", "increment", "commission"}
Withdrawing == {"balance", "find", "hold", "split", "deduct", "file"}
Approving   == {"payOut", "approve"}
Rejecting   == {"release", "restore", "reject"}

Init ==
    /\ records = <<>>
    /\ balance = 0
    /\ earned = 0
    /\ platform = [d \in Deliveries |-> 0]
    /\ filed = [w \in References |-> "none"]
    /\ amount = [w \in References |-> 0]
    /\ req = [q \in Requests |-> Idle]
    /\ reported = [d \in Deliveries |-> 0]
    /\ started = {}
    /\ faults = 0
    /\ raced = {}
    /\ overlapped = FALSE

-----------------------------------------------------------------------------
At(q, l)     == req[q].at = l
Goto(q, l)   == req' = [req EXCEPT ![q].at = l]
Finish(q)    == req' = [req EXCEPT ![q] = Idle]
Begin(q, to) == At(q, "idle") /\ req' = [req EXCEPT ![q] = to]

Busy(labels) == \E q \in Requests : req[q].at \in labels

(* Math.round of a share of the price, but at least the minimum.           *)
Payout(d) ==
    LET share == (Price[d] * Percentage + 50) \div 100
    IN IF share < MinimumPayout THEN MinimumPayout ELSE share

(* The platform's record of a delivery. *)
PlatformEarning(d) ==
    [totalDeliveryPrice |-> Price[d], riderPayout |-> Payout(d),
     platformCommission |-> Price[d] - Payout(d)]

Earning(d, n, s, w) == [del |-> d, amount |-> n, status |-> s, ref |-> w]

Where(Test(_)) == {i \in DOMAIN records : Test(records[i])}
SumOf(Test(_)) == FoldLeft(LAMBDA n, e : IF Test(e) THEN n + e.amount ELSE n, 0, records)
Available(e)   == e.status = "available"
Held(e)        == e.status = "held"
Withdrawn(e)   == e.status = "withdrawn"

(* Mutant: an update finds the earnings of a withdrawal by reference only. *)
UpdateHeldMutant(w, s, v) ==
    records' = [i \in DOMAIN records |->
                  IF records[i].ref = w
                  THEN [records[i] EXCEPT !.status = s, !.ref = v] ELSE records[i]]

(* updateMany over the earnings held for withdrawal w. *)
UpdateHeld(w, s, v) ==
    records' = [i \in DOMAIN records |->
                  IF records[i].status = "held" /\ records[i].ref = w
                  THEN [records[i] EXCEPT !.status = s, !.ref = v] ELSE records[i]]

-----------------------------------------------------------------------------
(* delivery-api: a delivery is done. *)

(* Mutant: nobody looks whether the delivery was credited. *)
StartCreditMutant(q, d) ==
    /\ reported[d] < MaxCredits
    /\ reported' = [reported EXCEPT ![d] = @ + 1]
    /\ raced' = IF \E p \in Requests : req[p].del = d THEN raced \union {d} ELSE raced
    /\ Begin(q, [Idle EXCEPT !.at = "create", !.del = d])
    /\ UNCHANGED <<books, started, faults, overlapped>>

StartCredit(q, d) ==
    /\ reported[d] < MaxCredits
    /\ reported' = [reported EXCEPT ![d] = @ + 1]
    /\ raced' = IF \E p \in Requests : req[p].del = d THEN raced \union {d} ELSE raced
    /\ IF \E i \in DOMAIN records : records[i].del = d
       THEN At(q, "idle") /\ UNCHANGED req
       ELSE Begin(q, [Idle EXCEPT !.at = "create", !.del = d])
    /\ UNCHANGED <<books, started, faults, overlapped>>

CreateEarning(q) ==
    /\ At(q, "create")
    /\ records' = Append(records, Earning(req[q].del, Payout(req[q].del), "available", NoReference))
    /\ Goto(q, "increment")
    /\ UNCHANGED <<balance, earned, platform, filed, amount, history>>

(* Mutant: the balance gets the price, not the rider's share of it. *)
IncrementBalanceMutant(q) ==
    /\ At(q, "increment")
    /\ balance' = balance + Price[req[q].del]
    /\ earned' = earned + Payout(req[q].del)
    /\ Goto(q, "commission")
    /\ UNCHANGED <<records, platform, filed, amount, history>>

IncrementBalance(q) ==
    /\ At(q, "increment")
    /\ balance' = balance + Payout(req[q].del)
    /\ earned' = earned + Payout(req[q].del)
    /\ Goto(q, "commission")
    /\ UNCHANGED <<records, platform, filed, amount, history>>

CreateCommission(q) ==
    /\ At(q, "commission")
    /\ platform' = [platform EXCEPT ![req[q].del] = @ + 1]
    /\ Finish(q)
    /\ UNCHANGED <<records, balance, earned, filed, amount, history>>

-----------------------------------------------------------------------------
(* delivery-api: the rider withdraws. *)

(* The check for a pending withdrawal, by one that was not filed before.   *)
StartWithdrawal(q, w, n) ==
    /\ w \notin started
    /\ \A v \in References : filed[v] # "pending"
    /\ started' = started \union {w}
    /\ overlapped' = (overlapped \/ Busy(Withdrawing))
    /\ Begin(q, [Idle EXCEPT !.at = "balance", !.ref = w, !.sum = n, !.left = n])
    /\ UNCHANGED <<books, reported, faults, raced>>

CheckBalance(q) ==
    /\ At(q, "balance")
    /\ IF req[q].sum <= SumOf(Available) /\ req[q].sum >= MinimumAmount
       THEN Goto(q, "find") ELSE Finish(q)
    /\ UNCHANGED <<books, history>>

FindEarnings(q) ==
    /\ At(q, "find")
    /\ req' = [req EXCEPT ![q].at = "hold",
                          ![q].todo = {[index |-> i, amount |-> records[i].amount] :
                                         i \in Where(Available)}]
    /\ UNCHANGED <<books, history>>

(* The loop over the earnings that were found takes the oldest first. *)
Found(q) == CHOOSE f \in req[q].todo : \A g \in req[q].todo : f.index <= g.index

HoldWhole(q) ==
    /\ At(q, "hold") /\ req[q].todo # {}
    /\ Found(q).amount <= req[q].left /\ req[q].left > 0
    /\ records' = [records EXCEPT ![Found(q).index].status = "held",
                                  ![Found(q).index].ref = req[q].ref]
    /\ req' = [req EXCEPT ![q].todo = @ \ {Found(q)}, ![q].left = @ - Found(q).amount]
    /\ UNCHANGED <<balance, earned, platform, filed, amount, history>>

(* The part that stays is what was found, less what is taken. *)
HoldPart(q) ==
    /\ At(q, "hold") /\ req[q].todo # {}
    /\ Found(q).amount > req[q].left /\ req[q].left > 0
    /\ records' = [records EXCEPT ![Found(q).index].amount = Found(q).amount - req[q].left]
    /\ Goto(q, "split")
    /\ UNCHANGED <<balance, earned, platform, filed, amount, history>>

CreateHeld(q) ==
    /\ At(q, "split")
    /\ records' = Append(records, Earning(records[Found(q).index].del, req[q].left, "held", req[q].ref))
    /\ req' = [req EXCEPT ![q].at = "deduct", ![q].left = 0]
    /\ UNCHANGED <<balance, earned, platform, filed, amount, history>>

HeldAll(q) ==
    /\ At(q, "hold") /\ (req[q].todo = {} \/ req[q].left = 0)
    /\ Goto(q, "deduct")
    /\ UNCHANGED <<books, history>>

DeductBalance(q) ==
    /\ At(q, "deduct")
    /\ balance' = balance - req[q].sum
    /\ Goto(q, "file")
    /\ UNCHANGED <<records, earned, platform, filed, amount, history>>

FileRequest(q) ==
    /\ At(q, "file")
    /\ filed' = [filed EXCEPT ![req[q].ref] = "pending"]
    /\ amount' = [amount EXCEPT ![req[q].ref] = req[q].sum]
    /\ Finish(q)
    /\ UNCHANGED <<records, balance, earned, platform, history>>

-----------------------------------------------------------------------------
(* admin-api: a withdrawal is decided. *)

Decide(q, w, l) ==
    /\ filed[w] = "pending"
    /\ Begin(q, [Idle EXCEPT !.at = l, !.ref = w])
    /\ overlapped' = (overlapped \/ Busy(Approving \union Rejecting))
    /\ UNCHANGED <<books, reported, started, faults, raced>>

StartApproval(q, w)  == Decide(q, w, "payOut")
StartRejection(q, w) == Decide(q, w, "release")

PayOut(q) ==
    /\ At(q, "payOut")
    /\ UpdateHeld(req[q].ref, "withdrawn", req[q].ref)
    /\ Goto(q, "approve")
    /\ UNCHANGED <<balance, earned, platform, filed, amount, history>>

Approve(q) ==
    /\ At(q, "approve")
    /\ filed' = [filed EXCEPT ![req[q].ref] = "approved"]
    /\ Finish(q)
    /\ UNCHANGED <<records, balance, earned, platform, amount, history>>

ReleaseHeld(q) ==
    /\ At(q, "release")
    /\ UpdateHeld(req[q].ref, "available", NoReference)
    /\ Goto(q, "restore")
    /\ UNCHANGED <<balance, earned, platform, filed, amount, history>>

RestoreBalance(q) ==
    /\ At(q, "restore")
    /\ balance' = balance + amount[req[q].ref]
    /\ Goto(q, "reject")
    /\ UNCHANGED <<records, earned, platform, filed, amount, history>>

Reject(q) ==
    /\ At(q, "reject")
    /\ filed' = [filed EXCEPT ![req[q].ref] = "rejected"]
    /\ Finish(q)
    /\ UNCHANGED <<records, balance, earned, platform, amount, history>>

-----------------------------------------------------------------------------
(* What the rider and the admins are shown. *)

OfReference(w, s) == SumOf(LAMBDA e : e.ref = w /\ e.status = s)

Overview ==
    [totalEarnings |-> earned, availableBalance |-> balance, heldBalance |-> SumOf(Held),
     totalWithdrawn |-> SumOf(Withdrawn), pendingWithdrawal |-> {w \in References : filed[w] = "pending"}]

AvailableBalance == SumOf(Available)

(* One line for each reference. *)
WithdrawalHistory ==
    {[ref |-> w, amount |-> OfReference(w, "withdrawn")] :
        w \in {records[i].ref : i \in Where(Withdrawn)}}

(* The admins' list of payouts is built from the riders' earnings too, not *)
(* from the requests.                                                      *)
PayoutTransactions == {p \in WithdrawalHistory : p.ref # NoReference}

(* Every record is a delivery fee: its parts count as deliveries.          *)
EarningsByPeriod == [totalEarnings |-> SumOf(LAMBDA e : TRUE), deliveries |-> Len(records)]

WithdrawalStats(s) ==
    LET W == {w \in References : filed[w] = s}
    IN [amount |-> FoldSet(LAMBDA w, n : n + amount[w], 0, W), count |-> Cardinality(W)]

(* Over the platform's own records, but for what was paid out and what can *)
(* still be withdrawn.                                                     *)
EarningsStats ==
    LET Sum(part) == FoldSet(LAMBDA d, n : n + platform[d] * PlatformEarning(d)[part], 0, Deliveries)
    IN [totalEarnings      |-> Sum("totalDeliveryPrice"),
        platformCommission |-> Sum("platformCommission"),
        totalPayouts       |-> SumOf(Withdrawn),
        pendingPayouts     |-> SumOf(Available)]

-----------------------------------------------------------------------------
(* An await throws or the process stops: what was done stays done. *)
Fail(q) ==
    /\ ~At(q, "idle")
    /\ faults < MaxFaults
    /\ faults' = faults + 1
    /\ Finish(q)
    /\ UNCHANGED <<books, reported, started, raced, overlapped>>

Credit(q)   == CreateEarning(q) \/ IncrementBalance(q) \/ CreateCommission(q)
Withdraw(q) ==
    \/ CheckBalance(q)
    \/ FindEarnings(q)
    \/ HoldWhole(q)
    \/ HoldPart(q)
    \/ CreateHeld(q)
    \/ HeldAll(q)
    \/ DeductBalance(q)
    \/ FileRequest(q)
Settle(q)   == PayOut(q) \/ Approve(q) \/ ReleaseHeld(q) \/ RestoreBalance(q) \/ Reject(q)

Step(q) == Credit(q) \/ Withdraw(q) \/ Settle(q)

Next ==
    \E q \in Requests :
        \/ Step(q)
        \/ Fail(q)
        \/ \E d \in Deliveries : StartCredit(q, d)
        \/ \E w \in References :
              \/ \E n \in Amounts : StartWithdrawal(q, w, n)
              \/ StartApproval(q, w)
              \/ StartRejection(q, w)

Spec == Init /\ [][Next]_vars

-----------------------------------------------------------------------------
(* Properties. *)

EarningType ==
    [del : Deliveries, amount : Nat \ {0}, status : {"available", "held", "withdrawn"},
     ref : References \union {NoReference}]

(* Every variable has its type; an earning never becomes empty or          *)
(* negative, however withdrawals split it.                                 *)
TypeOK ==
    /\ records \in Seq(EarningType)
    /\ balance \in Int /\ earned \in Nat
    /\ platform \in [Deliveries -> Nat]
    /\ filed \in [References -> {"none", "pending", "approved", "rejected"}]
    /\ amount \in [References -> Nat]
    /\ \A q \in Requests : req[q].left \in Nat /\ req[q].sum \in Nat
    /\ reported \in [Deliveries -> 0..MaxCredits]
    /\ started \subseteq References
    /\ faults \in 0..MaxFaults
    /\ raced \subseteq Deliveries
    /\ overlapped \in BOOLEAN

AtRest == \A q \in Requests : At(q, "idle")

(* The accounts of the rider's money agree whenever nothing is being       *)
(* served: walletBalance is what the available earnings sum up to, a       *)
(* pending withdrawal holds its amount, the payouts that rider and admin   *)
(* are shown are the approved withdrawals, and what the platform says that *)
(* it earned, less its commission, is what the rider earned in all.        *)
(* Credits may overlap with withdrawals and decisions as they like; two    *)
(* withdrawals that pass the check for a pending one together, two admins  *)
(* that decide together, and a request that stops half way break it.       *)
BooksBalance ==
    /\ TypeOK
    /\ AtRest /\ faults = 0 /\ ~overlapped =>
          /\ Overview.availableBalance = AvailableBalance
          /\ Overview.heldBalance = WithdrawalStats("pending").amount
          /\ \A w \in References :
                /\ filed[w] = "pending" => OfReference(w, "held") = amount[w]
                /\ filed[w] \in {"none", "rejected"} => OfReference(w, "held") = 0
          /\ PayoutTransactions =
                {[ref |-> w, amount |-> amount[w]] : w \in {v \in References : filed[v] = "approved"}}
          /\ EarningsStats.totalPayouts = WithdrawalStats("approved").amount
          /\ Overview.totalEarnings = EarningsByPeriod.totalEarnings
          /\ Overview.totalEarnings = EarningsStats.totalEarnings - EarningsStats.platformCommission

(* "Avoid double-credit": unless two credits of a delivery ran at once, its *)
(* earnings never add up to more than the rider's share, through all the   *)
(* splits of withdrawals and through requests that stop half way.          *)
NeverOverpaid ==
    \A d \in Deliveries \ raced :
        ~overlapped => SumOf(LAMBDA e : e.del = d) <= Payout(d)

(* Money that was paid out stays paid out: no later decision, and no       *)
(* withdrawal that still knows the earning as available, takes it back.    *)
PaidOutIsFinal ==
    [][~overlapped' =>
         \A i \in DOMAIN records :
             records[i].status = "withdrawn" => records'[i] = records[i]]_vars

(* The number of deliveries in the report by period is that of deliveries  *)
(* that were credited: a withdrawal that splits an earning adds one.       *)
DeliveriesCountedOnce ==
    EarningsByPeriod.deliveries = Cardinality({records[i].del : i \in DOMAIN records})
=============================================================================
