---------------------------- MODULE WalletLedger ----------------------------
(***************************************************************************)
(* A customer's wallet: its balance, and the ledger of its transactions.   *)
(*                                                                         *)
(* user-api keeps the same money twice.  Payments, fundings and refunds    *)
(* enter a transaction in the ledger and increment depositBalance, one     *)
(* await after the other (the session opened around them does not cover    *)
(* the ledger), and whoever looks at the balance overwrites it with the    *)
(* sum of the ledger.  Each is a request; their steps interleave.          *)
(*                                                                         *)
(* Abstractions.  Wallets do not interact, so that there is one; nothing   *)
(* ever locks it.  How a funding is verified, and how it can be credited   *)
(* twice, is PaymentSettlement; here it arrives once.  The only thing that *)
(* ever changes withdrawableBalance is an increment by zero, so that it    *)
(* stays 0 and a withdrawal is refused before it writes: it is left out.   *)
(* Of a delivery there is left what paying and cancelling it look at.      *)
(***************************************************************************)
EXTENDS Integers, FiniteSets

CONSTANTS
    Deliveries,
    Scheduled,   \* those that are scheduled; the others are quick
    Price,       \* price of each when it is requested
    NewPrices,   \* prices an admin adjusts to
    Fundings,
    Amount,      \* amount of each funding
    Fees,        \* cancellation fees
    NoDelivery,
    Requests,    \* requests that can be served at the same time
    MaxPayments, \* bound: how often he pays from his wallet
    MaxSyncs,    \* bound: how often the customer looks at his balance
    MaxAdjusts,  \* bound: how often an admin adjusts a price
    MaxFaults    \* bound: how often a request throws or its process dies

ASSUME WalletAssumption ==
    /\ Scheduled \subseteq Deliveries
    /\ Price \in [Deliveries -> Nat \ {0}]
    /\ NewPrices \subseteq Nat \ {0}
    /\ Amount \in [Fundings -> Nat \ {0}]
    /\ Fees \subseteq Nat
    /\ NoDelivery \notin Deliveries
    /\ IsFiniteSet(Requests)
    /\ {MaxPayments, MaxSyncs, MaxAdjusts, MaxFaults} \subseteq Nat

VARIABLES
    balance,    \* depositBalance of the wallet
    ledger,     \* credits less debits of its completed transactions
    price,      \* pricing.totalPrice
    status,     \* "unpaid", "paid" or "cancelled": a delivery's part in this
    first,      \* the first payment opened for a delivery: "none"; "card", a
                \* card payment that is never settled; "paid" or "refunded"
    funded,     \* fundings that have arrived
    req,        \* what each request is doing
    debits,     \* history: sum debited in the ledger for each delivery
    refunds,    \* history: sum refunded for it
    paidTwice,  \* history: deliveries for which two payments ran at once
    closedTwice,\* history: deliveries of which two cancellations ran at once
    adjusted,   \* history: deliveries whose price was adjusted
    overlapped, \* history: two payments ran at once
    disturbed,  \* history: money moved while the balance was looked at
    payments, syncs, adjusts, faults

books   == <<balance, ledger>>
orders  == <<price, status, first>>
flags   == <<paidTwice, closedTwice, adjusted, overlapped>>
history == <<debits, refunds, flags, disturbed>>
bounds  == <<payments, syncs, adjusts, faults>>
vars    == <<books, orders, funded, req, history, bounds>>

Paying    == {"balance", "record", "debit", "take", "mark"}
Funding   == {"give", "credit"}
Refunding == {"find", "refund", "giveBack", "close"}
Closing   == {"cancel"} \union Refunding
Moving    == Paying \union Funding \union Refunding
Syncing   == {"sum", "set"}

Idle == [at |-> "idle", del |-> NoDelivery, amount |-> 0, seen |-> 0]

Init ==
    /\ balance = 0
    /\ ledger = 0
    /\ price = Price
    /\ status = [d \in Deliveries |-> "unpaid"]
    /\ first = [d \in Deliveries |-> "none"]
    /\ funded = {}
    /\ req = [q \in Requests |-> Idle]
    /\ debits = [d \in Deliveries |-> 0]
    /\ refunds = [d \in Deliveries |-> 0]
    /\ paidTwice = {} /\ closedTwice = {} /\ adjusted = {}
    /\ overlapped = FALSE /\ disturbed = FALSE
    /\ payments = 0 /\ syncs = 0 /\ adjusts = 0 /\ faults = 0

-----------------------------------------------------------------------------
At(q, l)     == req[q].at = l
Goto(q, l)   == req' = [req EXCEPT ![q].at = l]
Finish(q)    == req' = [req EXCEPT ![q] = Idle]
Begin(q, to) == At(q, "idle") /\ req' = [req EXCEPT ![q] = to]

Busy(labels) == \E q \in Requests : req[q].at \in labels

Disturbs == disturbed' = (disturbed \/ Busy(Syncing))

(* Mutant: nobody looks whether the delivery has a payment. *)
FoundUnpaidMutant(d) == TRUE

(* findPaymentByDelivery finds the first payment of the delivery, and      *)
(* initiatePayment goes on unless that one is PAID.                        *)
FoundUnpaid(d) == first[d] # "paid"

(* createPayment: what findPaymentByDelivery finds from now on. *)
Opened(d, payment) == IF first[d] = "none" THEN [first EXCEPT ![d] = payment] ELSE first

(* A scheduled delivery keeps a status that allows payment when it is      *)
(* paid; a quick one does not.                                             *)
PaymentAllowed(d) == status[d] = "unpaid" \/ (status[d] = "paid" /\ d \in Scheduled)

MayPay(d) == PaymentAllowed(d) /\ FoundUnpaid(d)

-----------------------------------------------------------------------------
(* Payment from the wallet. *)

StartPayment(q, d) ==
    /\ MayPay(d)
    /\ payments < MaxPayments
    /\ payments' = payments + 1
    /\ Begin(q, [Idle EXCEPT !.at = "balance", !.del = d, !.amount = price[d]])
    /\ paidTwice' = IF \E p \in Requests : req[p].del = d /\ req[p].at \in Paying
                    THEN paidTwice \union {d} ELSE paidTwice
    /\ overlapped' = (overlapped \/ Busy(Paying))
    /\ Disturbs
    /\ UNCHANGED <<books, orders, funded, debits, refunds, closedTwice, adjusted, syncs, adjusts, faults>>

(* Mutant: any money is enough. *)
CheckBalanceMutant(q) ==
    /\ At(q, "balance")
    /\ IF balance = 0 THEN Finish(q) ELSE Goto(q, "record")
    /\ UNCHANGED <<books, orders, funded, history, bounds>>

CheckBalance(q) ==
    /\ At(q, "balance")
    /\ IF balance < req[q].amount THEN Finish(q) ELSE Goto(q, "record")
    /\ UNCHANGED <<books, orders, funded, history, bounds>>

(* The payment is PAID before anything is debited. *)
RecordPayment(q) ==
    /\ At(q, "record")
    /\ first' = Opened(req[q].del, "paid")
    /\ Goto(q, "debit")
    /\ UNCHANGED <<books, price, status, funded, history, bounds>>

EnterDebit(q) ==
    /\ At(q, "debit")
    /\ ledger' = ledger - req[q].amount
    /\ debits' = [debits EXCEPT ![req[q].del] = @ + req[q].amount]
    /\ Goto(q, "take")
    /\ UNCHANGED <<balance, orders, funded, refunds, flags, disturbed, bounds>>

(* Mutant: the balance is only decremented while it covers the amount. *)
TakeMoneyMutant(q) ==
    /\ At(q, "take")
    /\ balance' = IF balance < req[q].amount THEN balance ELSE balance - req[q].amount
    /\ Goto(q, "mark")
    /\ UNCHANGED <<ledger, orders, funded, history, bounds>>

TakeMoney(q) ==
    /\ At(q, "take")
    /\ balance' = balance - req[q].amount
    /\ Goto(q, "mark")
    /\ UNCHANGED <<ledger, orders, funded, history, bounds>>

(* The status is set whatever it was. *)
MarkPaid(q) ==
    /\ At(q, "mark")
    /\ status' = [status EXCEPT ![req[q].del] = "paid"]
    /\ Finish(q)
    /\ UNCHANGED <<books, price, first, funded, history, bounds>>

(* A card payment is opened that is never settled. *)
OpenCardPayment(d) ==
    /\ MayPay(d)
    /\ first' = Opened(d, "card")
    /\ UNCHANGED <<books, price, status, funded, req, history, bounds>>

-----------------------------------------------------------------------------
(* Funding: the balance first, then the ledger. *)

StartFunding(q, f) ==
    /\ f \notin funded
    /\ funded' = funded \union {f}
    /\ Begin(q, [Idle EXCEPT !.at = "give", !.amount = Amount[f]])
    /\ Disturbs
    /\ UNCHANGED <<books, orders, debits, refunds, flags, bounds>>

GiveMoney(q) ==
    /\ At(q, "give")
    /\ balance' = balance + req[q].amount
    /\ Goto(q, "credit")
    /\ UNCHANGED <<ledger, orders, funded, history, bounds>>

EnterCredit(q) ==
    /\ At(q, "credit")
    /\ ledger' = ledger + req[q].amount
    /\ Finish(q)
    /\ UNCHANGED <<balance, orders, funded, history, bounds>>

-----------------------------------------------------------------------------
(* Cancellation with a refund: the price as it was read, less the fee. *)

(* Mutant: whatever is cancelled is refunded. *)
StartCancelMutant(q, d, fee) ==
    /\ status[d] # "cancelled"
    /\ Begin(q, [Idle EXCEPT !.at = "cancel", !.del = d, !.amount = price[d] - fee])
    /\ closedTwice' = IF \E p \in Requests : req[p].del = d /\ req[p].at \in Closing
                      THEN closedTwice \union {d} ELSE closedTwice
    /\ UNCHANGED <<books, orders, funded, debits, refunds, paidTwice, adjusted, overlapped,
                   disturbed, bounds>>

StartCancel(q, d, fee) ==
    /\ status[d] # "cancelled"
    /\ Begin(q, [Idle EXCEPT !.at = "cancel", !.del = d,
                 !.amount = IF status[d] = "paid" THEN price[d] - fee ELSE 0])
    /\ closedTwice' = IF \E p \in Requests : req[p].del = d /\ req[p].at \in Closing
                      THEN closedTwice \union {d} ELSE closedTwice
    /\ UNCHANGED <<books, orders, funded, debits, refunds, paidTwice, adjusted, overlapped,
                   disturbed, bounds>>

CancelDelivery(q) ==
    /\ At(q, "cancel")
    /\ status' = [status EXCEPT ![req[q].del] = "cancelled"]
    /\ IF req[q].amount > 0 THEN Goto(q, "find") /\ Disturbs
       ELSE Finish(q) /\ UNCHANGED disturbed
    /\ UNCHANGED <<books, price, first, funded, debits, refunds, flags, bounds>>

FindPayment(q) ==
    /\ At(q, "find")
    /\ IF first[req[q].del] = "none" THEN Finish(q) ELSE Goto(q, "refund")
    /\ UNCHANGED <<books, orders, funded, history, bounds>>

EnterRefund(q) ==
    /\ At(q, "refund")
    /\ ledger' = ledger + req[q].amount
    /\ refunds' = [refunds EXCEPT ![req[q].del] = @ + req[q].amount]
    /\ Goto(q, "giveBack")
    /\ UNCHANGED <<balance, orders, funded, debits, flags, disturbed, bounds>>

GiveBack(q) ==
    /\ At(q, "giveBack")
    /\ balance' = balance + req[q].amount
    /\ Goto(q, "close")
    /\ UNCHANGED <<ledger, orders, funded, history, bounds>>

CloseRefund(q) ==
    /\ At(q, "close")
    /\ first' = [first EXCEPT ![req[q].del] = IF @ = "paid" THEN "refunded" ELSE @]
    /\ Finish(q)
    /\ UNCHANGED <<books, price, status, funded, history, bounds>>

(* admin-api: the price of a delivery that is not over, paid or not. *)
AdjustPrice(d, n) ==
    /\ status[d] # "cancelled"
    /\ adjusts < MaxAdjusts
    /\ adjusts' = adjusts + 1
    /\ price' = [price EXCEPT ![d] = n]
    /\ adjusted' = adjusted \union {d}
    /\ UNCHANGED <<books, status, first, funded, req, debits, refunds, paidTwice, closedTwice,
                   overlapped, disturbed, payments, syncs, faults>>

-----------------------------------------------------------------------------
(* getWalletBalance: read the wallet, sum the ledger, set the balance. *)

StartSync(q) ==
    /\ syncs < MaxSyncs
    /\ syncs' = syncs + 1
    /\ Begin(q, [Idle EXCEPT !.at = "sum", !.seen = balance])
    /\ disturbed' = (disturbed \/ Busy(Moving))
    /\ UNCHANGED <<books, orders, funded, debits, refunds, flags, payments, adjusts, faults>>

SumLedger(q) ==
    /\ At(q, "sum")
    /\ IF req[q].seen = ledger THEN Finish(q)
       ELSE req' = [req EXCEPT ![q].at = "set", ![q].amount = ledger]
    /\ UNCHANGED <<books, orders, funded, history, bounds>>

SetBalance(q) ==
    /\ At(q, "set")
    /\ balance' = req[q].amount
    /\ Finish(q)
    /\ UNCHANGED <<ledger, orders, funded, history, bounds>>

(* An await throws (the increment in a session also when another write of  *)
(* the wallet conflicts) or the process stops: what was done stays done.   *)
Fail(q) ==
    /\ ~At(q, "idle")
    /\ faults < MaxFaults
    /\ faults' = faults + 1
    /\ Finish(q)
    /\ UNCHANGED <<books, orders, funded, history, payments, syncs, adjusts>>

-----------------------------------------------------------------------------
Pay(q)    == CheckBalance(q) \/ RecordPayment(q) \/ EnterDebit(q) \/ TakeMoney(q) \/ MarkPaid(q)
Fund(q)   == GiveMoney(q) \/ EnterCredit(q)
Cancel(q) == CancelDelivery(q) \/ FindPayment(q) \/ EnterRefund(q) \/ GiveBack(q) \/ CloseRefund(q)
Sync(q)   == SumLedger(q) \/ SetBalance(q)

Next ==
    \/ \E q \in Requests :
          \/ Pay(q) \/ Fund(q) \/ Cancel(q) \/ Sync(q)
          \/ StartSync(q)
          \/ Fail(q)
          \/ \E f \in Fundings : StartFunding(q, f)
          \/ \E d \in Deliveries :
                \/ StartPayment(q, d)
                \/ \E fee \in Fees : StartCancel(q, d, fee)
    \/ \E d \in Deliveries :
          \/ OpenCardPayment(d)
          \/ \E n \in NewPrices : AdjustPrice(d, n)

Spec == Init /\ [][Next]_vars

-----------------------------------------------------------------------------
(* Properties. *)

RequestType ==
    [at : {"idle", "cancel"} \union Moving \union Syncing, del : Deliveries \union {NoDelivery},
     amount : Int, seen : Int]

(* Every variable has its type; a request that moves money moves a         *)
(* positive amount.                                                        *)
TypeOK ==
    /\ balance \in Int /\ ledger \in Int
    /\ price \in [Deliveries -> Nat \ {0}]
    /\ status \in [Deliveries -> {"unpaid", "paid", "cancelled"}]
    /\ first \in [Deliveries -> {"none", "card", "paid", "refunded"}]
    /\ funded \subseteq Fundings
    /\ req \in [Requests -> RequestType]
    /\ \A q \in Requests : req[q].at \in Moving => req[q].amount > 0
    /\ \A q \in Requests : req[q].at \in Paying \union Closing => req[q].del \in Deliveries
    /\ debits \in [Deliveries -> Nat] /\ refunds \in [Deliveries -> Nat]
    /\ {paidTwice, closedTwice, adjusted} \subseteq SUBSET Deliveries
    /\ overlapped \in BOOLEAN /\ disturbed \in BOOLEAN
    /\ {payments, syncs, adjusts, faults} \subseteq Nat

AtRest == \A q \in Requests : At(q, "idle")

(* Balance and ledger agree whenever nothing is being served, although the *)
(* two are written one after the other by requests that overlap, in either *)
(* order; unless a request stopped half way, or money moved while somebody *)
(* looked at the balance and then overwrote it.                            *)
BooksAgree == TypeOK /\ (AtRest /\ faults = 0 /\ ~disturbed => balance = ledger)

(* min: 0 of depositBalance: unless two payments ran at once, and nothing  *)
(* failed or disturbed the books, the wallet is never overdrawn.           *)
NotOverdrawn == ~overlapped /\ faults = 0 /\ ~disturbed => balance >= 0

(* "Payment has already been completed": unless the first payment of a     *)
(* delivery is an abandoned card payment, it is debited once, also when a  *)
(* payment stops half way and the customer tries again; two payments of it *)
(* at once and a change of its price aside.                                *)
DebitedOnce ==
    \A d \in Deliveries \ (paidTwice \union adjusted) :
        first[d] # "card" => debits[d] <= price[d]

(* A cancellation refunds no more than the delivery was debited for, also  *)
(* when it overtakes the payment or is itself undone by it and repeated;   *)
(* two cancellations at once and a change of the price aside.              *)
RefundCovered ==
    \A d \in Deliveries \ (closedTwice \union adjusted) : refunds[d] <= debits[d]

(* What the message says of every delivery: one that was paid is not       *)
(* debited again, as long as its payments do not run at once.              *)
PaidOnce == \A d \in Deliveries \ (paidTwice \union adjusted) : debits[d] <= price[d]
=============================================================================
