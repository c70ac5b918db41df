------------------------ MODULE WalletLedger_proofs ------------------------
(***************************************************************************)
(* Proofs about WalletLedger: its types, that a delivery is debited once,  *)
(* that a refund is covered by what was debited, that balance and ledger   *)
(* agree when nothing is being served, and that the wallet is not          *)
(* overdrawn.                                                              *)
(*                                                                         *)
(* Those about deliveries speak of one delivery d at a time, of which no   *)
(* two payments, or cancellations, ran at once and whose price was not     *)
(* adjusted.  The invariants say what the requests about d still have to   *)
(* do to its books.  The last two are about what is between the two writes *)
(* of each request: see BooksInv and OverdraftInv.                         *)
(***************************************************************************)
EXTENDS WalletLedger, FiniteSetTheorems, TLAPS

Pays(q, d)     == req[q].at \in Paying /\ req[q].del = d
Closes(q, d)   == req[q].at \in Closing /\ req[q].del = d
Owes(q, d)     == Closes(q, d) /\ req[q].amount > 0
Concerns(q, d) == Pays(q, d) \/ Closes(q, d)

(* A request that pays for d pays its price, and is the only one. *)
ItsPrice(d)   == \A q \in Requests : Pays(q, d) => req[q].amount = price[d]
OnePayment(d) == \A p, q \in Requests : Pays(p, d) /\ Pays(q, d) => p = q

(* Nothing is debited before there is a payment.  Once the delivery was    *)
(* paid, or is being refunded, nobody pays for it any more; a refund       *)
(* leaves it cancelled, so that no payment of it is allowed again.         *)
DebitedFor(d) ==
    /\ debits[d] <= price[d]
    /\ first[d] = "none" =>
          /\ debits[d] = 0 /\ status[d] # "paid"
          /\ \A q \in Requests : ~Owes(q, d) /\ (Pays(q, d) => req[q].at \in {"balance", "record"})
    /\ \A q \in Requests : Pays(q, d) =>
          /\ req[q].at \in {"balance", "record"} => first[d] = "none"
          /\ req[q].at \in {"debit", "take", "mark"} => first[d] = "paid"
          /\ req[q].at = "debit" => debits[d] = 0
    /\ status[d] = "paid" \/ first[d] = "refunded" \/ (\E q \in Requests : Owes(q, d)) =>
          \A q \in Requests : ~Pays(q, d)
    /\ status[d] = "paid" => first[d] = "paid"
    /\ first[d] = "refunded" => status[d] = "cancelled"
    /\ \A q \in Requests : req[q].at \in Refunding /\ req[q].del = d => status[d] = "cancelled"

PaidInOrder(d) == ItsPrice(d) /\ OnePayment(d) /\ (first[d] # "card" => DebitedFor(d))
DebitInv == \A d \in Deliveries \ (paidTwice \union adjusted) : PaidInOrder(d)

(* Each payment that was debited can make the delivery paid, and so be     *)
(* refunded, once: the price counts for those that have still to do so,    *)
(* and for the delivery while it is paid.                                  *)
Debited(d) == {q \in Requests : req[q].at \in {"take", "mark"} /\ req[q].del = d}
Held(d)    == price[d] * (Cardinality(Debited(d)) + (IF status[d] = "paid" THEN 1 ELSE 0))

CoveredFor(d) ==
    /\ ItsPrice(d)
    /\ \A p, q \in Requests : Closes(p, d) /\ Closes(q, d) => p = q
    /\ refunds[d] + Held(d) <= debits[d]
    /\ \A q \in Requests : req[q].del = d =>
          /\ req[q].at = "cancel" /\ req[q].amount > 0 =>
                status[d] = "paid" /\ req[q].amount <= price[d]
          /\ req[q].at \in {"find", "refund"} =>
                refunds[d] + req[q].amount + Held(d) <= debits[d]

RefundInv == \A d \in Deliveries \ (closedTwice \union adjusted) : CoveredFor(d)

WalletInv == TypeOK /\ DebitInv /\ RefundInv

-----------------------------------------------------------------------------
(* How requests change. *)

Labels == {"idle", "cancel"} \union Moving \union Syncing

LEMMA LabelSets ==
    /\ Paying = {"balance", "record", "debit", "take", "mark"}
    /\ Closing = {"cancel", "find", "refund", "giveBack", "close"}
    /\ Refunding = {"find", "refund", "giveBack", "close"}
    /\ Moving = {"balance", "record", "debit", "take", "mark", "give", "credit",
                 "find", "refund", "giveBack", "close"}
    /\ Syncing = {"sum", "set"}
  BY DEF Paying, Closing, Refunding, Moving, Funding, Syncing

(* What TypeOK says of one request. *)
Fits(r) ==
    /\ r \in RequestType
    /\ r.at \in Moving => r.amount > 0
    /\ r.at \in Paying \union Closing => r.del \in Deliveries

(* Request q goes on as r, and the others stay. *)
Becomes(q, r) ==
    /\ DOMAIN req' = Requests
    /\ req'[q] = r
    /\ \A p \in Requests \ {q} : req'[p] = req[p]

LEMMA ReqTyped ==
    ASSUME TypeOK
    PROVE  req \in [Requests -> RequestType] /\ \A q \in Requests : Fits(req[q])
  BY DEF TypeOK, Fits

LEMMA GoesOn ==
    ASSUME TypeOK, NEW q \in Requests, NEW r, Fits(r), req' = [req EXCEPT ![q] = r]
    PROVE  /\ Becomes(q, r)
           /\ req' \in [Requests -> RequestType]
           /\ \A p \in Requests : Fits(req'[p])
<1>1. req \in [Requests -> RequestType] /\ \A p \in Requests : Fits(req[p])
  BY ReqTyped
<1>2. Becomes(q, r)
  BY <1>1 DEF Becomes
<1>3. \A p \in Requests : Fits(req'[p])
  BY <1>1, <1>2 DEF Becomes
<1>4. req' \in [Requests -> RequestType]
  BY <1>1 DEF Fits
<1> QED
  BY <1>2, <1>3, <1>4

LEMMA IdleTyped == Idle \in RequestType /\ Idle.del = NoDelivery /\ Idle.at = "idle"
  BY DEF Idle, RequestType

LEMMA IdleFits == Fits(Idle)
  BY LabelSets DEF Idle, Fits, RequestType

(* A request goes to another label. *)
LEMMA Moves ==
    ASSUME TypeOK, NEW q \in Requests, NEW l \in Labels, Goto(q, l),
           l \in Moving => req[q].amount > 0,
           l \in Paying \union Closing => req[q].del \in Deliveries
    PROVE  /\ Becomes(q, req'[q])
           /\ req'[q].at = l /\ req'[q].del = req[q].del /\ req'[q].amount = req[q].amount
           /\ req' \in [Requests -> RequestType]
           /\ \A p \in Requests : Fits(req'[p])
<1> DEFINE r == [req[q] EXCEPT !.at = l]
<1>1. req[q] \in RequestType /\ Fits(req[q])
  BY ReqTyped
<1>2. r \in RequestType /\ r.at = l /\ r.del = req[q].del /\ r.amount = req[q].amount
  BY <1>1 DEF RequestType, Labels
<1>3. Fits(r)
  BY <1>2 DEF Fits
<1>4. req' = [req EXCEPT ![q] = r]
  BY DEF Goto
<1>5. req'[q] = r
  BY <1>3, <1>4, GoesOn DEF Becomes
<1> HIDE DEF r
<1> QED
  BY <1>2, <1>3, <1>4, <1>5, GoesOn

LEMMA Ends ==
    ASSUME TypeOK, NEW q \in Requests, Finish(q)
    PROVE  /\ Becomes(q, req'[q])
           /\ req'[q] = Idle
           /\ req' \in [Requests -> RequestType]
           /\ \A p \in Requests : Fits(req'[p])
           /\ \A d \in Deliveries : ~Concerns(q, d)'
<1>1. Becomes(q, Idle) /\ req' \in [Requests -> RequestType] /\ \A p \in Requests : Fits(req'[p])
  BY IdleFits, GoesOn DEF Finish
<1>2. Becomes(q, req'[q]) /\ req'[q] = Idle
  BY <1>1 DEF Becomes
<1>3. \A d \in Deliveries : ~Concerns(q, d)'
  BY <1>2, LabelSets DEF Concerns, Pays, Closes, Idle
<1> QED
  BY <1>1, <1>2, <1>3

-----------------------------------------------------------------------------
(* A delivery whose books stay, and the requests about which stay or end,  *)
(* is in order as before.                                                  *)

Same(d) ==
    /\ price'[d] = price[d] /\ status'[d] = status[d] /\ first'[d] = first[d]
    /\ debits'[d] = debits[d] /\ refunds'[d] = refunds[d]

Fewer(d) == \A p \in Requests : Concerns(p, d)' => req'[p] = req[p]

LEMMA Times ==
    /\ \A p, n \in Nat : p * n \in Nat
    /\ \A p, n \in Nat : p * (n + 1) = p * n + p
    /\ \A p, m, n \in Nat : m <= n => p * m <= p * n
<1>1. \A p, n \in Nat : p * n \in Nat
  OBVIOUS
<1>2. \A p, m, n \in Nat : p * (n + m) = p * n + p * m
  OBVIOUS
<1>3. ASSUME NEW p \in Nat, NEW m \in Nat, NEW n \in Nat, m <= n
      PROVE  p * m <= p * n
  <2>1. n - m \in Nat /\ n = m + (n - m)
    BY <1>3
  <2>2. p * n = p * m + p * (n - m)
    BY <1>2, <2>1
  <2> QED
    BY <1>1, <2>1, <2>2
<1> QED
  BY <1>1, <1>2, <1>3

LEMMA DebitedFinite ==
    ASSUME NEW d
    PROVE  IsFiniteSet(Debited(d)) /\ Cardinality(Debited(d)) \in Nat
  BY WalletAssumption, FS_Subset, FS_CardinalityType DEF Debited

LEMMA HeldTyped ==
    ASSUME TypeOK, NEW d \in Deliveries
    PROVE  Held(d) \in Nat
<1>1. price[d] \in Nat /\ Cardinality(Debited(d)) + (IF status[d] = "paid" THEN 1 ELSE 0) \in Nat
  BY DebitedFinite DEF TypeOK
<1> QED
  BY <1>1, Times DEF Held

(* No more is held for a delivery by fewer debited payments. *)
LEMMA HeldByFewer ==
    ASSUME TypeOK, NEW d \in Deliveries, price'[d] = price[d], status'[d] = status[d],
           Debited(d)' \subseteq Debited(d)
    PROVE  Held(d)' <= Held(d) /\ Held(d)' \in Nat
<1> DEFINE k == IF status[d] = "paid" THEN 1 ELSE 0
<1>1. Cardinality(Debited(d)') \in Nat /\ Cardinality(Debited(d)) \in Nat
      /\ Cardinality(Debited(d)') <= Cardinality(Debited(d))
  BY DebitedFinite, FS_Subset, FS_CardinalityType
<1>2. price[d] \in Nat /\ k \in Nat
  BY DEF TypeOK
<1>3. Held(d) = price[d] * (Cardinality(Debited(d)) + k)
  BY DEF Held
<1>4. Held(d)' = price[d] * (Cardinality(Debited(d)') + k)
  BY DEF Held
<1> HIDE DEF k
<1>5. Cardinality(Debited(d)') + k \in Nat /\ Cardinality(Debited(d)) + k \in Nat
      /\ Cardinality(Debited(d)') + k <= Cardinality(Debited(d)) + k
  BY <1>1, <1>2
<1> QED
  BY <1>2, <1>3, <1>4, <1>5, Times

LEMMA PaidWithFewer ==
    ASSUME TypeOK, NEW d \in Deliveries, Same(d), Fewer(d), PaidInOrder(d)
    PROVE  PaidInOrder(d)'
<1>1. ASSUME NEW p \in Requests
      PROVE  /\ Pays(p, d)' => Pays(p, d) /\ req'[p] = req[p]
             /\ Closes(p, d)' => Closes(p, d) /\ req'[p] = req[p]
             /\ Owes(p, d)' => Owes(p, d)
  BY DEF Fewer, Concerns, Pays, Closes, Owes
<1>2. ItsPrice(d)' /\ OnePayment(d)'
  BY <1>1 DEF PaidInOrder, ItsPrice, OnePayment, Same
<1>3. ASSUME first'[d] # "card"
      PROVE  DebitedFor(d)'
  <2>1. DebitedFor(d)
    BY <1>3 DEF PaidInOrder, Same
  <2>2. ASSUME NEW p \in Requests, req'[p].at \in Refunding, req'[p].del = d
        PROVE  req[p].at \in Refunding /\ req[p].del = d
    BY <1>1, <2>2 DEF Closes, Closing
  <2> QED
    BY <1>1, <2>1, <2>2 DEF DebitedFor, Same
<1> QED
  BY <1>2, <1>3 DEF PaidInOrder

LEMMA CoveredWithFewer ==
    ASSUME TypeOK, NEW d \in Deliveries, Same(d), Fewer(d), CoveredFor(d)
    PROVE  CoveredFor(d)'
<1>1. ASSUME NEW p \in Requests
      PROVE  /\ Pays(p, d)' => Pays(p, d) /\ req'[p] = req[p]
             /\ Closes(p, d)' => Closes(p, d) /\ req'[p] = req[p]
  BY DEF Fewer, Concerns, Pays, Closes
<1>2. Debited(d)' \subseteq Debited(d)
  BY <1>1, LabelSets DEF Debited, Pays
<1>3. Held(d)' <= Held(d) /\ Held(d)' \in Nat /\ Held(d) \in Nat
  BY <1>2, HeldByFewer, HeldTyped DEF Same
<1>4. refunds[d] \in Nat /\ debits[d] \in Nat /\ \A p \in Requests : req[p].amount \in Int
  BY DEF TypeOK, RequestType
<1>5. refunds'[d] + Held(d)' <= debits'[d]
  BY <1>3, <1>4 DEF CoveredFor, Same
<1>6. ASSUME NEW q \in Requests, req'[q].del = d
      PROVE  /\ req'[q].at = "cancel" /\ req'[q].amount > 0 =>
                    status'[d] = "paid" /\ req'[q].amount <= price'[d]
             /\ req'[q].at \in {"find", "refund"} =>
                    refunds'[d] + req'[q].amount + Held(d)' <= debits'[d]
  <2>1. CASE ~Closes(q, d)'
    BY <1>6, <2>1, LabelSets DEF Closes
  <2>2. CASE Closes(q, d)'
    <3>1. req'[q] = req[q]
      BY <1>1, <2>2
    <3> QED
      BY <1>3, <1>4, <1>6, <3>1 DEF CoveredFor, Same
  <2> QED
    BY <2>1, <2>2
<1> QED
  BY <1>1, <1>5, <1>6 DEF CoveredFor, ItsPrice, Same

(* So a step that leaves the books of every delivery alone, and of the     *)
(* requests about it at most ends some, keeps both invariants.             *)
LEMMA AllFewer ==
    ASSUME WalletInv, \A d \in Deliveries : Same(d) /\ Fewer(d),
           paidTwice \subseteq paidTwice', closedTwice \subseteq closedTwice',
           adjusted \subseteq adjusted'
    PROVE  DebitInv' /\ RefundInv'
  BY PaidWithFewer, CoveredWithFewer DEF WalletInv, DebitInv, RefundInv

(* A step of request q concerns the delivery it is about, and no other.    *)
LEMMA Elsewhere ==
    ASSUME TypeOK, NEW q \in Requests, NEW d \in Deliveries, Becomes(q, req'[q]),
           ~Concerns(q, d)'
    PROVE  Fewer(d)
  BY DEF Becomes, Fewer, Concerns, Pays, Closes

(* A step that touches the books and requests of delivery e only.          *)
LEMMA AtOne ==
    ASSUME WalletInv, TypeOK', NEW e \in Deliveries,
           \A d \in Deliveries \ {e} : Same(d) /\ Fewer(d),
           paidTwice \subseteq paidTwice', closedTwice \subseteq closedTwice',
           adjusted \subseteq adjusted',
           e \notin paidTwice' /\ PaidInOrder(e) => PaidInOrder(e)',
           e \notin closedTwice' /\ CoveredFor(e) => CoveredFor(e)'
    PROVE  WalletInv'
<1>1. ASSUME NEW d \in Deliveries, d \notin paidTwice' \union adjusted'
      PROVE  PaidInOrder(d)'
  <2>1. PaidInOrder(d)
    BY <1>1 DEF WalletInv, DebitInv
  <2> QED
    BY <1>1, <2>1, PaidWithFewer DEF WalletInv
<1>2. ASSUME NEW d \in Deliveries, d \notin closedTwice' \union adjusted'
      PROVE  CoveredFor(d)'
  <2>1. CoveredFor(d)
    BY <1>2 DEF WalletInv, RefundInv
  <2> QED
    BY <1>2, <2>1, CoveredWithFewer DEF WalletInv
<1> QED
  BY <1>1, <1>2 DEF WalletInv, DebitInv, RefundInv

(* A payment goes on paying: what is paid and closed stays the same.       *)
LEMMA PaysOn ==
    ASSUME TypeOK, NEW q \in Requests, Becomes(q, req'[q]),
           req[q].at \in Paying, req'[q].at \in Paying,
           req'[q].del = req[q].del, req'[q].amount = req[q].amount,
           NEW p \in Requests, NEW d
    PROVE  /\ Pays(p, d)' <=> Pays(p, d)
           /\ Closes(p, d)' <=> Closes(p, d)
           /\ Closes(p, d) => req'[p] = req[p]
           /\ Owes(p, d)' <=> Owes(p, d)
           /\ req'[p].amount = req[p].amount /\ req'[p].del = req[p].del
           /\ req'[p].at \in Refunding <=> req[p].at \in Refunding
  BY LabelSets DEF Becomes, Pays, Closes, Owes

(* A cancellation goes on closing. *)
LEMMA ClosesOn ==
    ASSUME TypeOK, NEW q \in Requests, Becomes(q, req'[q]),
           req[q].at \in Closing, req'[q].at \in Closing,
           req'[q].del = req[q].del, req'[q].amount = req[q].amount,
           NEW p \in Requests, NEW d
    PROVE  /\ Pays(p, d)' <=> Pays(p, d)
           /\ Pays(p, d) => req'[p] = req[p]
           /\ Closes(p, d)' <=> Closes(p, d)
           /\ Owes(p, d)' <=> Owes(p, d)
           /\ req'[p].amount = req[p].amount /\ req'[p].del = req[p].del
           /\ Debited(d)' = Debited(d)
  BY LabelSets DEF Becomes, Pays, Closes, Owes, Debited

(* What is held for a delivery, when its debited payments stay, are one    *)
(* more, or one of them has just made it paid.                             *)
LEMMA HeldAsBefore ==
    ASSUME NEW d, Debited(d)' = Debited(d), price'[d] = price[d], status'[d] = status[d]
    PROVE  Held(d)' = Held(d)
  BY DEF Held

LEMMA HeldForDebit ==
    ASSUME TypeOK, NEW d \in Deliveries, NEW q \in Requests, q \notin Debited(d),
           Debited(d)' = Debited(d) \union {q},
           price'[d] = price[d], status'[d] = status[d]
    PROVE  Held(d)' = Held(d) + price[d]
<1> DEFINE k == IF status[d] = "paid" THEN 1 ELSE 0
<1>1. Cardinality(Debited(d)') = Cardinality(Debited(d)) + 1 /\ Cardinality(Debited(d)) \in Nat
  BY DebitedFinite, FS_AddElement
<1>2. price[d] \in Nat /\ k \in Nat
  BY DEF TypeOK
<1>3. Held(d) = price[d] * (Cardinality(Debited(d)) + k)
  BY DEF Held
<1>4. Held(d)' = price[d] * (Cardinality(Debited(d)') + k)
  BY DEF Held
<1> HIDE DEF k
<1>5. Held(d)' = price[d] * ((Cardinality(Debited(d)) + k) + 1)
  BY <1>1, <1>2, <1>4
<1>6. Cardinality(Debited(d)) + k \in Nat
  BY <1>1, <1>2
<1>7. price[d] * ((Cardinality(Debited(d)) + k) + 1)
      = price[d] * (Cardinality(Debited(d)) + k) + price[d]
  BY <1>2, <1>6, Times
<1> QED
  BY <1>3, <1>5, <1>7

LEMMA HeldWhenPaid ==
    ASSUME TypeOK, NEW d \in Deliveries, NEW q \in Requests, q \in Debited(d),
           Debited(d)' = Debited(d) \ {q},
           price'[d] = price[d], status'[d] = "paid"
    PROVE  Held(d)' <= Held(d) /\ Held(d)' \in Nat
<1> DEFINE k == IF status[d] = "paid" THEN 1 ELSE 0
<1>1. /\ Cardinality(Debited(d)') = Cardinality(Debited(d)) - 1
      /\ Cardinality(Debited(d)') \in Nat /\ Cardinality(Debited(d)) \in Nat
  BY DebitedFinite, FS_RemoveElement, FS_CardinalityType
<1>2. price[d] \in Nat /\ k \in Nat
  BY DEF TypeOK
<1>3. Held(d) = price[d] * (Cardinality(Debited(d)) + k)
  BY DEF Held
<1>4. Held(d)' = price[d] * (Cardinality(Debited(d)') + 1)
  BY DEF Held
<1> HIDE DEF k
<1>5. Held(d)' = price[d] * Cardinality(Debited(d))
  BY <1>1, <1>4
<1>6. Cardinality(Debited(d)) <= Cardinality(Debited(d)) + k
      /\ Cardinality(Debited(d)) + k \in Nat
  BY <1>1, <1>2
<1> QED
  BY <1>1, <1>2, <1>3, <1>5, <1>6, Times

(* Once the delivery is cancelled, the price it was paid with is free.     *)
LEMMA HeldWhenCancelled ==
    ASSUME TypeOK, NEW d \in Deliveries, Debited(d)' = Debited(d),
           price'[d] = price[d], status'[d] = "cancelled"
    PROVE  Held(d) = Held(d)' + (IF status[d] = "paid" THEN price[d] ELSE 0) /\ Held(d)' \in Nat
<1>1. Cardinality(Debited(d)) \in Nat /\ price[d] \in Nat
  BY DebitedFinite DEF TypeOK
<1>2. Held(d)' = price[d] * Cardinality(Debited(d))
  BY <1>1 DEF Held
<1>3. CASE status[d] = "paid"
  <2>1. Held(d) = price[d] * (Cardinality(Debited(d)) + 1)
    BY <1>3 DEF Held
  <2> QED
    BY <1>1, <1>2, <1>3, <2>1, Times
<1>4. CASE status[d] # "paid"
  <2>1. Held(d) = price[d] * Cardinality(Debited(d))
    BY <1>1, <1>4 DEF Held
  <2>2. Held(d) \in Nat
    BY HeldTyped
  <2> QED
    BY <1>2, <1>4, <2>1, <2>2
<1>5. Held(d)' \in Nat
  BY <1>1, <1>2, Times
<1> QED
  BY <1>3, <1>4, <1>5

(* A payment of d that goes on leaves its cancellations covered, if it     *)
(* debits what more is held.                                               *)
LEMMA CoveredByPaying ==
    ASSUME TypeOK, TypeOK', NEW d \in Deliveries, CoveredFor(d), ItsPrice(d)',
           \A p \in Requests : Closes(p, d)' => Closes(p, d) /\ req'[p] = req[p],
           price'[d] = price[d], refunds'[d] = refunds[d],
           status'[d] \in {status[d], "paid"},
           Held(d)' - debits'[d] <= Held(d) - debits[d]
    PROVE  CoveredFor(d)'
<1>1. /\ Held(d) \in Nat /\ refunds[d] \in Nat /\ debits[d] \in Nat
      /\ debits'[d] \in Nat /\ \A p \in Requests : req[p].amount \in Int
  BY HeldTyped DEF TypeOK, RequestType
<1>2. price'[d] \in Nat /\ Cardinality(Debited(d)') \in Nat
  BY DebitedFinite, FS_Subset, FS_CardinalityType, WalletAssumption DEF TypeOK, Debited
<1>3. Held(d)' \in Nat
  <2>1. Cardinality(Debited(d)') + (IF status'[d] = "paid" THEN 1 ELSE 0) \in Nat
    BY <1>2
  <2> QED
    BY <1>2, <2>1, Times DEF Held
<1>4. refunds'[d] + Held(d)' <= debits'[d]
  BY <1>1, <1>3 DEF CoveredFor
<1>5. ASSUME NEW q \in Requests, req'[q].del = d
      PROVE  /\ req'[q].at = "cancel" /\ req'[q].amount > 0 =>
                    status'[d] = "paid" /\ req'[q].amount <= price'[d]
             /\ req'[q].at \in {"find", "refund"} =>
                    refunds'[d] + req'[q].amount + Held(d)' <= debits'[d]
  <2>1. CASE ~Closes(q, d)'
    BY <1>5, <2>1, LabelSets DEF Closes
  <2>2. CASE Closes(q, d)'
    <3>1. req'[q] = req[q]
      BY <2>2
    <3> QED
      BY <1>1, <1>3, <1>5, <3>1 DEF CoveredFor
  <2> QED
    BY <2>1, <2>2
<1> QED
  BY <1>4, <1>5 DEF CoveredFor

-----------------------------------------------------------------------------
(* Steps that leave the deliveries alone.                                  *)

LEMMA StartFundingStep ==
    ASSUME WalletInv, NEW q \in Requests, NEW f \in Fundings, StartFunding(q, f)
    PROVE  WalletInv'
<1> DEFINE r == [Idle EXCEPT !.at = "give", !.amount = Amount[f]]
<1>1. TypeOK
  BY DEF WalletInv
<1>2. Fits(r)
  <2>1. Amount[f] \in Int /\ Amount[f] > 0
    BY WalletAssumption
  <2>2. r \in RequestType /\ r.at = "give" /\ r.amount = Amount[f]
    BY <2>1, IdleTyped, LabelSets DEF RequestType
  <2> QED
    BY <2>1, <2>2, LabelSets DEF Fits
<1>3. Becomes(q, r) /\ req' \in [Requests -> RequestType] /\ \A p \in Requests : Fits(req'[p])
  BY <1>1, <1>2, GoesOn DEF StartFunding, Begin
<1>4. TypeOK'
  BY <1>1, <1>3 DEF TypeOK, Fits, StartFunding, Disturbs, books, orders, flags, bounds
<1>5. \A d : ~Concerns(q, d)' /\ Becomes(q, req'[q])
  BY <1>3, LabelSets DEF Becomes, Concerns, Pays, Closes, Idle
<1>6. \A d \in Deliveries : Same(d) /\ Fewer(d)
  BY <1>1, <1>5, Elsewhere DEF StartFunding, Same, orders
<1> QED
  BY <1>4, <1>6, AllFewer DEF WalletInv, StartFunding, flags

LEMMA StartSyncStep ==
    ASSUME WalletInv, NEW q \in Requests, StartSync(q)
    PROVE  WalletInv'
<1> DEFINE r == [Idle EXCEPT !.at = "sum", !.seen = balance]
<1>1. TypeOK
  BY DEF WalletInv
<1>2. Fits(r)
  <2>1. balance \in Int
    BY <1>1 DEF TypeOK
  <2>2. r \in RequestType /\ r.at = "sum"
    BY <2>1, IdleTyped, LabelSets DEF RequestType
  <2> QED
    BY <2>1, <2>2, LabelSets DEF Fits
<1>3. Becomes(q, r) /\ req' \in [Requests -> RequestType] /\ \A p \in Requests : Fits(req'[p])
  BY <1>1, <1>2, GoesOn DEF StartSync, Begin
<1>4. TypeOK'
  BY <1>1, <1>3 DEF TypeOK, Fits, StartSync, books, orders, flags
<1>5. \A d : ~Concerns(q, d)' /\ Becomes(q, req'[q])
  BY <1>3, LabelSets DEF Becomes, Concerns, Pays, Closes, Idle
<1>6. \A d \in Deliveries : Same(d) /\ Fewer(d)
  BY <1>1, <1>5, Elsewhere DEF StartSync, Same, orders
<1> QED
  BY <1>4, <1>6, AllFewer DEF WalletInv, StartSync, flags

LEMMA GiveMoneyStep ==
    ASSUME WalletInv, NEW q \in Requests, GiveMoney(q)
    PROVE  WalletInv'
<1>1. TypeOK /\ Fits(req[q])
  BY ReqTyped DEF WalletInv
<1>2. req[q].at = "give" /\ req[q].amount > 0 /\ req[q].amount \in Int
  BY <1>1, LabelSets DEF GiveMoney, At, Fits, RequestType
<1>3. /\ Becomes(q, req'[q]) /\ req'[q].at = "credit"
      /\ req' \in [Requests -> RequestType] /\ \A p \in Requests : Fits(req'[p])
  BY <1>1, <1>2, LabelSets, Moves DEF GiveMoney, Labels
<1>4. TypeOK'
  BY <1>1, <1>2, <1>3 DEF TypeOK, Fits, GiveMoney, orders, history, flags, bounds
<1>5. \A d \in Deliveries : Same(d) /\ Fewer(d)
  <2>1. \A d : ~Concerns(q, d)'
    BY <1>3, LabelSets DEF Concerns, Pays, Closes
  <2> QED
    BY <1>1, <1>3, <2>1, Elsewhere DEF GiveMoney, Same, orders, history
<1> QED
  BY <1>4, <1>5, AllFewer DEF WalletInv, GiveMoney, history, flags

(* A request ends, and nothing is written to a delivery.                   *)
LEMMA QuietEnd ==
    ASSUME WalletInv, NEW q \in Requests, Finish(q), TypeOK',
           UNCHANGED <<orders, debits, refunds, flags>>
    PROVE  WalletInv'
<1>1. TypeOK
  BY DEF WalletInv
<1>2. \A d \in Deliveries : Same(d) /\ Fewer(d)
  BY <1>1, Ends, Elsewhere DEF Same, orders
<1> QED
  BY <1>2, AllFewer DEF WalletInv, flags

LEMMA EnterCreditStep ==
    ASSUME WalletInv, NEW q \in Requests, EnterCredit(q)
    PROVE  WalletInv'
<1>1. TypeOK
  BY DEF WalletInv
<1>2. Finish(q) /\ req[q].amount \in Int
  BY <1>1 DEF EnterCredit, TypeOK, RequestType
<1>3. TypeOK'
  BY <1>1, <1>2, Ends DEF TypeOK, Fits, EnterCredit, orders, history, flags, bounds
<1> QED
  BY <1>2, <1>3, QuietEnd DEF EnterCredit, history

LEMMA SetBalanceStep ==
    ASSUME WalletInv, NEW q \in Requests, SetBalance(q)
    PROVE  WalletInv'
<1>1. TypeOK
  BY DEF WalletInv
<1>2. Finish(q) /\ req[q].amount \in Int
  BY <1>1 DEF SetBalance, TypeOK, RequestType
<1>3. TypeOK'
  BY <1>1, <1>2, Ends DEF TypeOK, Fits, SetBalance, orders, history, flags, bounds
<1> QED
  BY <1>2, <1>3, QuietEnd DEF SetBalance, history

LEMMA FailStep ==
    ASSUME WalletInv, NEW q \in Requests, Fail(q)
    PROVE  WalletInv'
<1>1. TypeOK /\ Finish(q)
  BY DEF WalletInv, Fail
<1>2. TypeOK'
  BY <1>1, Ends DEF TypeOK, Fits, Fail, books, orders, history, flags
<1> QED
  BY <1>1, <1>2, QuietEnd DEF Fail, history

LEMMA SumLedgerStep ==
    ASSUME WalletInv, NEW q \in Requests, SumLedger(q)
    PROVE  WalletInv'
<1>1. TypeOK /\ Fits(req[q]) /\ req[q].at = "sum"
  BY ReqTyped DEF WalletInv, SumLedger, At
<1>2. CASE Finish(q)
  <2>1. TypeOK'
    BY <1>1, <1>2, Ends DEF TypeOK, Fits, SumLedger, books, orders, history, flags, bounds
  <2> QED
    BY <1>2, <2>1, QuietEnd DEF SumLedger, history
<1>3. CASE ~Finish(q)
  <2> DEFINE r == [req[q] EXCEPT !.at = "set", !.amount = ledger]
  <2>1. r \in RequestType /\ r.at = "set"
    BY <1>1, LabelSets DEF TypeOK, Fits, RequestType
  <2>2. Fits(r)
    BY <2>1, LabelSets DEF Fits
  <2>3. req' = [req EXCEPT ![q] = r]
    BY <1>1, <1>3 DEF SumLedger, TypeOK, RequestType
  <2> HIDE DEF r
  <2>4. Becomes(q, r) /\ req' \in [Requests -> RequestType] /\ \A p \in Requests : Fits(req'[p])
    BY <1>1, <2>2, <2>3, GoesOn
  <2>5. TypeOK'
    BY <1>1, <2>4 DEF TypeOK, Fits, SumLedger, books, orders, history, flags, bounds
  <2>6. Becomes(q, req'[q]) /\ \A d : ~Concerns(q, d)'
    BY <2>1, <2>4, LabelSets DEF Becomes, Concerns, Pays, Closes
  <2>7. \A d \in Deliveries : Same(d) /\ Fewer(d)
    BY <1>1, <2>6, Elsewhere DEF SumLedger, Same, orders, history
  <2> QED
    BY <2>5, <2>7, AllFewer DEF WalletInv, SumLedger, history, flags
<1> QED
  BY <1>2, <1>3

-----------------------------------------------------------------------------
(* Payment.                                                                *)

LEMMA StartPaymentStep ==
    ASSUME WalletInv, NEW q \in Requests, NEW d \in Deliveries, StartPayment(q, d)
    PROVE  WalletInv'
<1> DEFINE r == [Idle EXCEPT !.at = "balance", !.del = d, !.amount = price[d]]
<1>1. TypeOK
  BY DEF WalletInv
<1>2. Fits(r) /\ r.at = "balance" /\ r.del = d /\ r.amount = price[d]
  <2>1. price[d] \in Int /\ price[d] > 0
    BY <1>1 DEF TypeOK
  <2>2. r \in RequestType /\ r.at = "balance" /\ r.del = d /\ r.amount = price[d]
    BY <2>1, IdleTyped, LabelSets DEF RequestType
  <2> QED
    BY <2>1, <2>2, LabelSets DEF Fits
<1>3. req' = [req EXCEPT ![q] = r] /\ req[q].at = "idle"
  BY DEF StartPayment, Begin, At
<1> HIDE DEF r
<1>4. Becomes(q, r) /\ req' \in [Requests -> RequestType] /\ \A p \in Requests : Fits(req'[p])
  BY <1>1, <1>2, <1>3, GoesOn
<1>5. req'[q].at = "balance" /\ req'[q].del = d /\ req'[q].amount = price[d]
  BY <1>2, <1>4 DEF Becomes
<1>6. TypeOK'
  BY <1>1, <1>4 DEF TypeOK, Fits, StartPayment, Disturbs, books, orders
<1>7. \A x \in Deliveries \ {d} : Same(x) /\ Fewer(x)
  <2>1. \A x \in Deliveries \ {d} : ~Concerns(q, x)'
    BY <1>5 DEF Concerns, Pays, Closes
  <2> QED
    BY <1>1, <1>4, <2>1, Elsewhere DEF Becomes, StartPayment, Same, orders
<1>8. ASSUME NEW p \in Requests
      PROVE  /\ p # q /\ Pays(p, d)' => Pays(p, d)
             /\ Closes(p, d)' <=> Closes(p, d)
             /\ Closes(p, d)' => req'[p] = req[p]
             /\ Owes(p, d)' <=> Owes(p, d)
             /\ p # q => req'[p] = req[p]
  BY <1>3, <1>4, <1>5, LabelSets DEF Becomes, Pays, Closes, Owes
<1>9. ASSUME d \notin paidTwice', PaidInOrder(d)
      PROVE  PaidInOrder(d)'
  <2>1. \A p \in Requests : ~Pays(p, d)
    BY <1>9 DEF StartPayment, Pays
  <2>2. \A p \in Requests : Pays(p, d)' => p = q
    BY <1>8, <2>1
  <2>3. ItsPrice(d)' /\ OnePayment(d)'
    BY <1>5, <2>2 DEF ItsPrice, OnePayment, StartPayment, orders
  <2>4. ASSUME first'[d] # "card"
        PROVE  DebitedFor(d)'
    <3>1. DebitedFor(d) /\ UNCHANGED <<price, status, first, debits>>
      BY <1>9, <2>4 DEF PaidInOrder, StartPayment, orders
    <3>2. first[d] = "none" /\ status[d] = "unpaid"
      BY <1>1, <2>4, <3>1
      DEF TypeOK, DebitedFor, StartPayment, MayPay, PaymentAllowed, FoundUnpaid
    <3>3. \A p \in Requests : ~(req'[p].at \in Refunding /\ req'[p].del = d)
      <4>1. \A p \in Requests : ~(req[p].at \in Refunding /\ req[p].del = d)
        BY <3>1, <3>2 DEF DebitedFor
      <4> QED
        BY <1>5, <1>8, <4>1, LabelSets
    <3> QED
      BY <1>5, <1>8, <2>2, <3>1, <3>2, <3>3 DEF DebitedFor
  <2> QED
    BY <2>3, <2>4 DEF PaidInOrder
<1>10. ASSUME CoveredFor(d)
       PROVE  CoveredFor(d)'
  <2>1. ItsPrice(d)'
    <3>1. UNCHANGED price
      BY DEF StartPayment, orders
    <3> QED
      BY <1>5, <1>8, <1>10, <3>1 DEF CoveredFor, ItsPrice
  <2>2. Held(d)' = Held(d)
    <3>1. Debited(d)' = Debited(d)
      BY <1>3, <1>5, <1>8 DEF Debited
    <3> QED
      BY <3>1, HeldAsBefore DEF StartPayment, orders
  <2>3. Held(d)' - debits'[d] <= Held(d) - debits[d]
    <3>1. Held(d) - debits[d] \in Int /\ debits' = debits
      BY <1>1, HeldTyped DEF TypeOK, StartPayment
    <3> QED
      BY <2>2, <3>1
  <2> QED
    BY <1>1, <1>6, <1>8, <1>10, <2>1, <2>3, CoveredByPaying DEF StartPayment, orders
<1> QED
  BY <1>6, <1>7, <1>9, <1>10, AtOne DEF StartPayment

(* Request q goes on paying for its delivery d: what has to be shown of    *)
(* the step is only what it does to the books of d.                        *)
LEMMA PaysOnStep ==
    ASSUME WalletInv, TypeOK', NEW q \in Requests, NEW d \in Deliveries, req[q].del = d,
           Becomes(q, req'[q]), req[q].at \in Paying, req'[q].at \in Paying,
           req'[q].del = req[q].del, req'[q].amount = req[q].amount,
           UNCHANGED <<price, status, refunds, flags>>,
           \A x \in Deliveries \ {d} : Same(x),
           PaidInOrder(d) /\ first'[d] # "card" => DebitedFor(d)',
           ItsPrice(d) => Held(d)' - debits'[d] <= Held(d) - debits[d]
    PROVE  WalletInv'
<1>1. TypeOK
  BY DEF WalletInv
<1>2. \A x \in Deliveries \ {d} : Fewer(x)
  <2>1. \A x \in Deliveries \ {d} : ~Concerns(q, x)'
    BY DEF Concerns, Pays, Closes
  <2> QED
    BY <1>1, <2>1, Elsewhere
<1>3. ASSUME NEW p \in Requests
      PROVE  /\ Pays(p, d)' <=> Pays(p, d)
             /\ Closes(p, d)' <=> Closes(p, d)
             /\ Closes(p, d) => req'[p] = req[p]
             /\ req'[p].amount = req[p].amount
  BY <1>1, PaysOn
<1>4. ASSUME PaidInOrder(d)
      PROVE  PaidInOrder(d)'
  <2>1. ItsPrice(d)' /\ OnePayment(d)'
    BY <1>3, <1>4 DEF PaidInOrder, ItsPrice, OnePayment
  <2> QED
    BY <1>4, <2>1 DEF PaidInOrder
<1>5. ASSUME CoveredFor(d)
      PROVE  CoveredFor(d)'
  <2>1. ItsPrice(d) /\ ItsPrice(d)'
    BY <1>3, <1>5 DEF CoveredFor, ItsPrice
  <2> QED
    BY <1>1, <1>3, <1>5, <2>1, CoveredByPaying
<1> QED
  BY <1>2, <1>4, <1>5, AtOne DEF flags

(* It does nothing to them.                                                *)
LEMMA PaysQuietly ==
    ASSUME WalletInv, TypeOK', NEW q \in Requests, Becomes(q, req'[q]),
           \/ req[q].at = "balance" /\ req'[q].at = "record"
           \/ req[q].at = "take" /\ req'[q].at = "mark",
           req'[q].del = req[q].del, req'[q].amount = req[q].amount,
           UNCHANGED <<orders, debits, refunds, flags>>
    PROVE  WalletInv'
<1>1. TypeOK /\ Fits(req[q])
  BY ReqTyped DEF WalletInv
<1>2. req[q].at \in Paying /\ req'[q].at \in Paying
  BY LabelSets
<1>3. PICK d \in Deliveries : req[q].del = d
  BY <1>1, <1>2 DEF Fits
<1>4. UNCHANGED <<price, status, first, debits, refunds, flags>>
  BY DEF orders
<1>5. ASSUME PaidInOrder(d), first'[d] # "card"
      PROVE  DebitedFor(d)'
  <2>1. DebitedFor(d)
    BY <1>4, <1>5 DEF PaidInOrder
  <2>2. \A p \in Requests : /\ Pays(p, d)' <=> Pays(p, d)
                            /\ Owes(p, d)' <=> Owes(p, d)
                            /\ req'[p].at \in Refunding <=> req[p].at \in Refunding
                            /\ req'[p].del = req[p].del
    BY <1>1, <1>2, PaysOn
  <2>3. \A p \in Requests \ {q} : req'[p] = req[p]
    BY DEF Becomes
  <2> QED
    BY <1>2, <1>4, <2>1, <2>2, <2>3 DEF DebitedFor
<1>6. Held(d)' - debits'[d] <= Held(d) - debits[d]
  <2>1. Debited(d)' = Debited(d)
    BY DEF Becomes, Debited
  <2>2. Held(d)' = Held(d)
    BY <1>4, <2>1, HeldAsBefore
  <2>3. Held(d) - debits[d] \in Int
    BY <1>1, HeldTyped DEF TypeOK
  <2> QED
    BY <1>4, <2>2, <2>3
<1> QED
  BY <1>2, <1>3, <1>4, <1>5, <1>6, PaysOnStep DEF Same

LEMMA CheckBalanceStep ==
    ASSUME WalletInv, NEW q \in Requests, CheckBalance(q)
    PROVE  WalletInv'
<1>1. TypeOK /\ Fits(req[q]) /\ req[q].at = "balance"
  BY ReqTyped DEF WalletInv, CheckBalance, At
<1>2. CASE Finish(q)
  <2>1. TypeOK'
    BY <1>1, <1>2, Ends DEF TypeOK, Fits, CheckBalance, books, orders, history, flags, bounds
  <2> QED
    BY <1>2, <2>1, QuietEnd DEF CheckBalance, history
<1>3. CASE Goto(q, "record")
  <2>1. req[q].del \in Deliveries /\ req[q].amount > 0
    BY <1>1, LabelSets DEF Fits
  <2>2. /\ Becomes(q, req'[q]) /\ req'[q].at = "record"
        /\ req'[q].del = req[q].del /\ req'[q].amount = req[q].amount
        /\ req' \in [Requests -> RequestType] /\ \A p \in Requests : Fits(req'[p])
    BY <1>1, <1>3, <2>1, LabelSets, Moves DEF Labels
  <2>3. TypeOK'
    BY <1>1, <2>2 DEF TypeOK, Fits, CheckBalance, books, orders, history, flags, bounds
  <2> QED
    BY <1>1, <2>2, <2>3, PaysQuietly DEF CheckBalance, history
<1> QED
  BY <1>2, <1>3 DEF CheckBalance

LEMMA TakeMoneyStep ==
    ASSUME WalletInv, NEW q \in Requests, TakeMoney(q)
    PROVE  WalletInv'
<1>1. TypeOK /\ Fits(req[q]) /\ req[q].at = "take"
  BY ReqTyped DEF WalletInv, TakeMoney, At
<1>2. req[q].del \in Deliveries /\ req[q].amount > 0 /\ req[q].amount \in Int
  BY <1>1, LabelSets DEF Fits, RequestType
<1>3. /\ Becomes(q, req'[q]) /\ req'[q].at = "mark"
      /\ req'[q].del = req[q].del /\ req'[q].amount = req[q].amount
      /\ req' \in [Requests -> RequestType] /\ \A p \in Requests : Fits(req'[p])
  BY <1>1, <1>2, LabelSets, Moves DEF TakeMoney, Labels
<1>4. TypeOK'
  BY <1>1, <1>2, <1>3 DEF TypeOK, Fits, TakeMoney, orders, history, flags, bounds
<1> QED
  BY <1>1, <1>3, <1>4, PaysQuietly DEF TakeMoney, history

LEMMA RecordPaymentStep ==
    ASSUME WalletInv, NEW q \in Requests, RecordPayment(q)
    PROVE  WalletInv'
<1>1. TypeOK /\ Fits(req[q]) /\ req[q].at = "record"
  BY ReqTyped DEF WalletInv, RecordPayment, At
<1>2. req[q].amount > 0 /\ req[q].del \in Deliveries
  BY <1>1, LabelSets DEF Fits
<1>3. PICK d \in Deliveries : req[q].del = d
  BY <1>2
<1>4. /\ Becomes(q, req'[q]) /\ req'[q].at = "debit"
      /\ req'[q].del = req[q].del /\ req'[q].amount = req[q].amount
      /\ req' \in [Requests -> RequestType] /\ \A p \in Requests : Fits(req'[p])
  BY <1>1, <1>2, LabelSets, Moves DEF RecordPayment, Labels
<1>5. /\ UNCHANGED <<price, status, debits, refunds, flags>>
      /\ first' = IF first[d] = "none" THEN [first EXCEPT ![d] = "paid"] ELSE first
  BY <1>3 DEF RecordPayment, Opened, history
<1>6. TypeOK'
  BY <1>1, <1>4, <1>5 DEF TypeOK, Fits, RecordPayment, books, history, flags, bounds
<1>7. \A x \in Deliveries \ {d} : Same(x)
  BY <1>1, <1>5 DEF TypeOK, Same
<1>8. req[q].at \in Paying /\ req'[q].at \in Paying
  BY <1>1, <1>4, LabelSets
<1>9. ASSUME PaidInOrder(d), first'[d] # "card"
      PROVE  DebitedFor(d)'
  <2>1. Pays(q, d)
    BY <1>3, <1>8 DEF Pays
  <2>2. DebitedFor(d) /\ OnePayment(d)
    BY <1>1, <1>5, <1>9 DEF PaidInOrder
  <2>3. first[d] = "none" /\ first'[d] = "paid" /\ debits[d] = 0 /\ status[d] # "paid"
        /\ \A p \in Requests : ~Owes(p, d)
    BY <1>1, <1>5, <2>1, <2>2 DEF DebitedFor, TypeOK
  <2>4. \A p \in Requests : /\ Pays(p, d)' <=> Pays(p, d)
                            /\ Owes(p, d)' <=> Owes(p, d)
                            /\ req'[p].at \in Refunding <=> req[p].at \in Refunding
                            /\ req'[p].del = req[p].del
    BY <1>1, <1>4, <1>8, PaysOn
  <2>5. \A p \in Requests : Pays(p, d)' => p = q
    BY <2>1, <2>2, <2>4 DEF OnePayment
  <2> QED
    BY <1>4, <1>5, <2>2, <2>3, <2>4, <2>5 DEF DebitedFor
<1>10. Held(d)' - debits'[d] <= Held(d) - debits[d]
  <2>1. Debited(d)' = Debited(d)
    BY <1>1, <1>4 DEF Becomes, Debited
  <2>2. Held(d)' = Held(d)
    BY <1>5, <2>1, HeldAsBefore
  <2>3. Held(d) - debits[d] \in Int
    BY <1>1, HeldTyped DEF TypeOK
  <2> QED
    BY <1>5, <2>2, <2>3
<1> QED
  BY <1>3, <1>4, <1>5, <1>6, <1>7, <1>8, <1>9, <1>10, PaysOnStep

LEMMA EnterDebitStep ==
    ASSUME WalletInv, NEW q \in Requests, EnterDebit(q)
    PROVE  WalletInv'
<1>1. TypeOK /\ Fits(req[q]) /\ req[q].at = "debit"
  BY ReqTyped DEF WalletInv, EnterDebit, At
<1>2. req[q].amount > 0 /\ req[q].amount \in Int /\ req[q].del \in Deliveries
  BY <1>1, LabelSets DEF Fits, RequestType
<1>3. PICK d \in Deliveries : req[q].del = d
  BY <1>2
<1>4. /\ Becomes(q, req'[q]) /\ req'[q].at = "take"
      /\ req'[q].del = req[q].del /\ req'[q].amount = req[q].amount
      /\ req' \in [Requests -> RequestType] /\ \A p \in Requests : Fits(req'[p])
  BY <1>1, <1>2, LabelSets, Moves DEF EnterDebit, Labels
<1>5. /\ UNCHANGED <<price, status, first, refunds, flags>>
      /\ debits' = [debits EXCEPT ![d] = @ + req[q].amount]
  BY <1>3 DEF EnterDebit, orders
<1>6. debits[d] \in Nat /\ debits'[d] = debits[d] + req[q].amount /\ debits' \in [Deliveries -> Nat]
  BY <1>1, <1>2, <1>5 DEF TypeOK
<1>7. TypeOK'
  BY <1>1, <1>2, <1>4, <1>5, <1>6 DEF TypeOK, Fits, EnterDebit, flags, bounds
<1>8. \A x \in Deliveries \ {d} : Same(x)
  BY <1>1, <1>5 DEF TypeOK, Same
<1>9. req[q].at \in Paying /\ req'[q].at \in Paying /\ Pays(q, d)
  BY <1>1, <1>3, <1>4, LabelSets DEF Pays
<1>10. ASSUME PaidInOrder(d), first'[d] # "card"
       PROVE  DebitedFor(d)'
  <2>1. DebitedFor(d) /\ OnePayment(d) /\ req[q].amount = price[d]
    BY <1>5, <1>9, <1>10 DEF PaidInOrder, ItsPrice
  <2>2. first[d] = "paid" /\ debits[d] = 0
    BY <1>1, <1>9, <2>1 DEF DebitedFor
  <2>3. debits'[d] = price[d] /\ price[d] \in Nat
    BY <1>1, <1>2, <1>6, <2>1, <2>2 DEF TypeOK
  <2>4. \A p \in Requests : /\ Pays(p, d)' <=> Pays(p, d)
                            /\ Owes(p, d)' <=> Owes(p, d)
                            /\ req'[p].at \in Refunding <=> req[p].at \in Refunding
                            /\ req'[p].del = req[p].del
    BY <1>1, <1>4, <1>9, PaysOn
  <2>5. \A p \in Requests : Pays(p, d)' => p = q
    BY <1>9, <2>1, <2>4 DEF OnePayment
  <2> QED
    BY <1>4, <1>5, <2>1, <2>2, <2>3, <2>4, <2>5 DEF DebitedFor
<1>11. ASSUME ItsPrice(d)
       PROVE  Held(d)' - debits'[d] <= Held(d) - debits[d]
  <2>1. Debited(d)' = Debited(d) \union {q} /\ q \notin Debited(d)
    BY <1>1, <1>3, <1>4 DEF Becomes, Debited
  <2>2. Held(d)' = Held(d) + price[d]
    BY <1>1, <1>5, <2>1, HeldForDebit
  <2>3. req[q].amount = price[d]
    BY <1>9, <1>11 DEF ItsPrice
  <2>4. Held(d) \in Nat /\ price[d] \in Nat
    BY <1>1, HeldTyped DEF TypeOK
  <2> QED
    BY <1>6, <2>2, <2>3, <2>4
<1> QED
  BY <1>3, <1>4, <1>5, <1>7, <1>8, <1>9, <1>10, <1>11, PaysOnStep

(* A step that sets the status of a delivery and moves its request on.     *)
LEMMA StatusTyped ==
    ASSUME TypeOK, NEW d \in Deliveries, NEW s \in {"unpaid", "paid", "cancelled"},
           status' = [status EXCEPT ![d] = s], req' \in [Requests -> RequestType],
           \A q \in Requests : Fits(req'[q]), disturbed' \in BOOLEAN,
           UNCHANGED <<books, price, first, funded, debits, refunds, flags, bounds>>
    PROVE  TypeOK'
<1>1. /\ balance' = balance /\ ledger' = ledger /\ price' = price /\ first' = first
      /\ funded' = funded /\ debits' = debits /\ refunds' = refunds
      /\ paidTwice' = paidTwice /\ closedTwice' = closedTwice /\ adjusted' = adjusted
      /\ overlapped' = overlapped /\ payments' = payments /\ syncs' = syncs
      /\ adjusts' = adjusts /\ faults' = faults
  BY DEF books, flags, bounds
<1>2. status' \in [Deliveries -> {"unpaid", "paid", "cancelled"}]
  BY DEF TypeOK
<1>3. /\ \A q \in Requests : req'[q].at \in Moving => req'[q].amount > 0
      /\ \A q \in Requests : req'[q].at \in Paying \union Closing => req'[q].del \in Deliveries
  BY DEF Fits
<1> QED
  BY <1>1, <1>2, <1>3 DEF TypeOK

LEMMA MarkPaidStep ==
    ASSUME WalletInv, NEW q \in Requests, MarkPaid(q)
    PROVE  WalletInv'
<1>1. TypeOK /\ Fits(req[q]) /\ req[q].at = "mark" /\ Finish(q)
  BY ReqTyped DEF WalletInv, MarkPaid, At
<1>2. req[q].del \in Deliveries
  BY <1>1, LabelSets DEF Fits
<1>3. PICK d \in Deliveries : req[q].del = d
  BY <1>2
<1>4. /\ Becomes(q, req'[q]) /\ req'[q] = Idle
      /\ req' \in [Requests -> RequestType] /\ \A p \in Requests : Fits(req'[p])
      /\ \A x \in Deliveries : ~Concerns(q, x)'
  BY <1>1, Ends
<1>5. /\ UNCHANGED <<price, first, debits, refunds, flags>>
      /\ status' = [status EXCEPT ![d] = "paid"]
  BY <1>3 DEF MarkPaid, history
<1>6. TypeOK'
  <2>1. /\ disturbed' \in BOOLEAN
        /\ UNCHANGED <<books, price, first, funded, debits, refunds, flags, bounds>>
    BY <1>1 DEF MarkPaid, history, TypeOK
  <2> QED
    BY <1>1, <1>4, <1>5, <2>1, StatusTyped
<1>7. status'[d] = "paid" /\ \A x \in Deliveries \ {d} : status'[x] = status[x]
  BY <1>1, <1>5 DEF TypeOK
<1>8. \A x \in Deliveries \ {d} : Same(x) /\ Fewer(x)
  BY <1>1, <1>4, <1>5, <1>7, Elsewhere DEF Same
<1>9. Pays(q, d)
  BY <1>1, <1>3, LabelSets DEF Pays
<1>10. ASSUME NEW p \in Requests
       PROVE  /\ Pays(p, d)' => p # q /\ Pays(p, d) /\ req'[p] = req[p]
              /\ Closes(p, d)' => p # q /\ Closes(p, d) /\ req'[p] = req[p]
              /\ Owes(p, d)' => Owes(p, d)
  BY <1>4 DEF Becomes, Concerns, Pays, Closes, Owes
<1>11. ASSUME PaidInOrder(d)
       PROVE  PaidInOrder(d)'
  <2>1. ItsPrice(d)' /\ OnePayment(d)' /\ \A p \in Requests : ~Pays(p, d)'
    BY <1>5, <1>9, <1>10, <1>11 DEF PaidInOrder, ItsPrice, OnePayment
  <2>2. ASSUME first'[d] # "card"
        PROVE  DebitedFor(d)'
    <3>1. DebitedFor(d)
      BY <1>5, <1>11, <2>2 DEF PaidInOrder
    <3>2. first[d] = "paid" /\ \A p \in Requests : ~Owes(p, d)
      BY <1>1, <1>9, <3>1 DEF DebitedFor
    <3>3. \A p \in Requests : ~(req'[p].at \in Refunding /\ req'[p].del = d)
      <4>1. \A p \in Requests : req'[p].at \in Refunding /\ req'[p].del = d => Owes(p, d)'
        BY <1>4, LabelSets DEF Fits, Owes, Closes
      <4> QED
        BY <1>10, <3>2, <4>1
    <3> QED
      BY <1>5, <1>7, <2>1, <3>1, <3>2, <3>3 DEF DebitedFor
  <2> QED
    BY <2>1, <2>2 DEF PaidInOrder
<1>12. ASSUME CoveredFor(d)
       PROVE  CoveredFor(d)'
  <2>1. ItsPrice(d)'
    BY <1>5, <1>10, <1>12 DEF CoveredFor, ItsPrice
  <2>2. q \in Debited(d) /\ Debited(d)' = Debited(d) \ {q}
    BY <1>1, <1>3, <1>4 DEF Becomes, Debited, Idle
  <2>3. Held(d)' <= Held(d) /\ Held(d)' \in Nat /\ Held(d) \in Nat
    BY <1>1, <1>5, <1>7, <2>2, HeldWhenPaid, HeldTyped
  <2>4. Held(d)' - debits'[d] <= Held(d) - debits[d]
    <3>1. debits[d] \in Nat /\ debits'[d] = debits[d]
      BY <1>1, <1>5 DEF TypeOK
    <3> QED
      BY <2>3, <3>1
  <2> QED
    BY <1>1, <1>5, <1>6, <1>7, <1>10, <1>12, <2>1, <2>4, CoveredByPaying
<1> QED
  BY <1>5, <1>6, <1>8, <1>11, <1>12, AtOne DEF flags

LEMMA OpenCardPaymentStep ==
    ASSUME WalletInv, NEW d \in Deliveries, OpenCardPayment(d)
    PROVE  WalletInv'
<1>1. TypeOK
  BY DEF WalletInv
<1>2. /\ UNCHANGED <<price, status, req, debits, refunds, flags>>
      /\ first' = IF first[d] = "none" THEN [first EXCEPT ![d] = "card"] ELSE first
  BY DEF OpenCardPayment, Opened, history
<1>3. TypeOK'
  BY <1>1, <1>2 DEF TypeOK, OpenCardPayment, books, history, flags, bounds
<1>4. \A x \in Deliveries \ {d} : Same(x) /\ Fewer(x)
  BY <1>1, <1>2 DEF TypeOK, Same, Fewer
<1>5. ASSUME PaidInOrder(d)
      PROVE  PaidInOrder(d)'
  <2>1. ItsPrice(d)' /\ OnePayment(d)'
    BY <1>2, <1>5 DEF PaidInOrder, ItsPrice, OnePayment, Pays
  <2>2. ASSUME first'[d] # "card"
        PROVE  DebitedFor(d)'
    <3>1. UNCHANGED first /\ DebitedFor(d)
      BY <1>1, <1>2, <1>5, <2>2 DEF PaidInOrder, TypeOK
    <3> QED
      BY <1>2, <3>1 DEF DebitedFor, Pays, Closes, Owes
  <2> QED
    BY <2>1, <2>2 DEF PaidInOrder
<1>6. ASSUME CoveredFor(d)
      PROVE  CoveredFor(d)'
  <2>1. Held(d)' = Held(d)
    BY <1>2 DEF Held, Debited
  <2> QED
    BY <1>2, <1>6, <2>1 DEF CoveredFor, ItsPrice, Pays, Closes
<1> QED
  BY <1>2, <1>3, <1>4, <1>5, <1>6, AtOne DEF flags

LEMMA AdjustPriceStep ==
    ASSUME WalletInv, NEW d \in Deliveries, NEW n \in NewPrices, AdjustPrice(d, n)
    PROVE  WalletInv'
<1>1. TypeOK
  BY DEF WalletInv
<1>2. /\ UNCHANGED <<status, first, req, debits, refunds, paidTwice, closedTwice>>
      /\ price' = [price EXCEPT ![d] = n]
      /\ adjusted' = adjusted \union {d}
  BY DEF AdjustPrice
<1>3. TypeOK'
  <2>1. price' \in [Deliveries -> Nat \ {0}]
    BY <1>1, <1>2, WalletAssumption DEF TypeOK
  <2> QED
    BY <1>1, <1>2, <2>1 DEF TypeOK, AdjustPrice, books
<1>4. ASSUME NEW x \in Deliveries \ adjusted'
      PROVE  Same(x) /\ Fewer(x) /\ x \notin adjusted
  BY <1>1, <1>2 DEF TypeOK, Same, Fewer
<1>5. ASSUME NEW x \in Deliveries \ (paidTwice' \union adjusted')
      PROVE  PaidInOrder(x)'
  <2>1. PaidInOrder(x)
    BY <1>2, <1>4, <1>5 DEF WalletInv, DebitInv
  <2> QED
    BY <1>1, <1>4, <2>1, PaidWithFewer
<1>6. ASSUME NEW x \in Deliveries \ (closedTwice' \union adjusted')
      PROVE  CoveredFor(x)'
  <2>1. CoveredFor(x)
    BY <1>2, <1>4, <1>6 DEF WalletInv, RefundInv
  <2> QED
    BY <1>1, <1>4, <2>1, CoveredWithFewer
<1> QED
  BY <1>3, <1>5, <1>6 DEF WalletInv, DebitInv, RefundInv

-----------------------------------------------------------------------------
(* Cancellation.                                                           *)

LEMMA StartCancelStep ==
    ASSUME WalletInv, NEW q \in Requests, NEW d \in Deliveries, NEW fee \in Fees,
           StartCancel(q, d, fee)
    PROVE  WalletInv'
<1> DEFINE a == IF status[d] = "paid" THEN price[d] - fee ELSE 0
           r == [Idle EXCEPT !.at = "cancel", !.del = d, !.amount = a]
<1>1. TypeOK
  BY DEF WalletInv
<1>2. a \in Int /\ (a > 0 => status[d] = "paid" /\ a <= price[d])
  BY <1>1, WalletAssumption DEF TypeOK
<1>3. req' = [req EXCEPT ![q] = r] /\ req[q].at = "idle"
  BY DEF StartCancel, Begin, At
<1> HIDE DEF a
<1>4. Fits(r) /\ r.at = "cancel" /\ r.del = d /\ r.amount = a
  <2>1. r \in RequestType /\ r.at = "cancel" /\ r.del = d /\ r.amount = a
    BY <1>2, IdleTyped, LabelSets DEF RequestType
  <2> QED
    BY <2>1, LabelSets DEF Fits
<1> HIDE DEF r
<1>5. Becomes(q, r) /\ req' \in [Requests -> RequestType] /\ \A p \in Requests : Fits(req'[p])
  BY <1>1, <1>3, <1>4, GoesOn
<1>6. req'[q].at = "cancel" /\ req'[q].del = d /\ req'[q].amount = a
  BY <1>4, <1>5 DEF Becomes
<1>7. UNCHANGED <<price, status, first, debits, refunds, paidTwice, adjusted>>
  BY DEF StartCancel, orders
<1>8. TypeOK'
  BY <1>1, <1>5 DEF TypeOK, Fits, StartCancel, books, orders, bounds
<1>9. \A x \in Deliveries \ {d} : Same(x) /\ Fewer(x)
  <2>1. \A x \in Deliveries \ {d} : ~Concerns(q, x)'
    BY <1>6 DEF Concerns, Pays, Closes
  <2> QED
    BY <1>1, <1>5, <1>7, <2>1, Elsewhere DEF Becomes, Same
<1>10. ASSUME NEW p \in Requests
       PROVE  /\ Pays(p, d)' <=> Pays(p, d)
              /\ p # q => (Closes(p, d)' <=> Closes(p, d))
              /\ p # q => (Owes(p, d)' <=> Owes(p, d))
              /\ p # q => req'[p] = req[p]
              /\ Pays(p, d) => req'[p] = req[p]
  BY <1>3, <1>5, <1>6, LabelSets DEF Becomes, Pays, Closes, Owes
<1>11. ASSUME PaidInOrder(d)
       PROVE  PaidInOrder(d)'
  <2>1. ItsPrice(d)' /\ OnePayment(d)'
    BY <1>7, <1>10, <1>11 DEF PaidInOrder, ItsPrice, OnePayment
  <2>2. ASSUME first'[d] # "card"
        PROVE  DebitedFor(d)'
    <3>1. DebitedFor(d)
      BY <1>7, <1>11, <2>2 DEF PaidInOrder
    <3>2. Owes(q, d)' => status[d] = "paid"
      BY <1>2, <1>6 DEF Owes
    <3>3. \A p \in Requests : req'[p].at \in Refunding /\ req'[p].del = d
                              => req[p].at \in Refunding /\ req[p].del = d
      BY <1>6, <1>10, LabelSets
    <3> QED
      BY <1>6, <1>7, <1>10, <3>1, <3>2, <3>3 DEF DebitedFor
  <2> QED
    BY <2>1, <2>2 DEF PaidInOrder
<1>12. ASSUME d \notin closedTwice', CoveredFor(d)
       PROVE  CoveredFor(d)'
  <2>1. \A p \in Requests : ~Closes(p, d)
    BY <1>12 DEF StartCancel, Closes
  <2>2. \A p \in Requests : Closes(p, d)' => p = q
    BY <1>10, <2>1
  <2>3. Held(d)' = Held(d)
    <3>1. Debited(d)' = Debited(d)
      BY <1>3, <1>6, <1>10 DEF Debited
    <3> QED
      BY <1>7, <3>1, HeldAsBefore
  <2>4. ItsPrice(d)'
    BY <1>7, <1>10, <1>12 DEF CoveredFor, ItsPrice
  <2>5. ASSUME NEW p \in Requests, req'[p].del = d, req'[p].at \in Closing
        PROVE  p = q
    BY <2>2, <2>5 DEF Closes
  <2> QED
    BY <1>2, <1>6, <1>7, <1>12, <2>2, <2>3, <2>4, <2>5, LabelSets DEF CoveredFor
<1> QED
  <2>1. closedTwice \subseteq closedTwice'
    BY DEF StartCancel
  <2> QED
    BY <1>7, <1>8, <1>9, <1>11, <1>12, <2>1, AtOne

(* Request q goes on closing delivery d, and what it does to the books of  *)
(* d is left to show, where no other request closes it.                    *)
LEMMA ClosesOnStep ==
    ASSUME WalletInv, TypeOK', NEW q \in Requests, NEW d \in Deliveries, req[q].del = d,
           Becomes(q, req'[q]), req[q].at \in Closing, req'[q].at \in Closing,
           req'[q].del = req[q].del, req'[q].amount = req[q].amount,
           UNCHANGED <<price, first, debits, flags>>,
           \A x \in Deliveries \ {d} : Same(x),
           PaidInOrder(d) /\ first[d] # "card" => DebitedFor(d)',
           CoveredFor(d) =>
              /\ refunds'[d] + Held(d)' <= debits'[d]
              /\ req'[q].at = "cancel" => ~(req'[q].amount > 0)
              /\ req'[q].at \in {"find", "refund"} =>
                    refunds'[d] + req'[q].amount + Held(d)' <= debits'[d]
    PROVE  WalletInv'
<1>1. TypeOK
  BY DEF WalletInv
<1>2. \A x \in Deliveries \ {d} : Fewer(x)
  <2>1. \A x \in Deliveries \ {d} : ~Concerns(q, x)'
    BY DEF Concerns, Pays, Closes
  <2> QED
    BY <1>1, <2>1, Elsewhere
<1>3. ASSUME NEW p \in Requests
      PROVE  /\ Pays(p, d)' <=> Pays(p, d)
             /\ Pays(p, d) => req'[p] = req[p]
             /\ Closes(p, d)' <=> Closes(p, d)
  BY <1>1, ClosesOn
<1>4. Closes(q, d)
  BY DEF Closes
<1>5. ASSUME PaidInOrder(d)
      PROVE  PaidInOrder(d)'
  <2>1. ItsPrice(d)' /\ OnePayment(d)'
    BY <1>3, <1>5 DEF PaidInOrder, ItsPrice, OnePayment
  <2> QED
    BY <1>5, <2>1 DEF PaidInOrder
<1>6. ASSUME CoveredFor(d)
      PROVE  CoveredFor(d)'
  <2>1. ItsPrice(d)' /\ \A p \in Requests : Closes(p, d)' => p = q
    BY <1>3, <1>4, <1>6 DEF CoveredFor, ItsPrice
  <2>2. ASSUME NEW p \in Requests, req'[p].del = d, req'[p].at \in Closing
        PROVE  p = q
    BY <2>1, <2>2 DEF Closes
  <2> QED
    BY <1>6, <2>1, <2>2, LabelSets DEF CoveredFor
<1> QED
  BY <1>2, <1>5, <1>6, AtOne DEF flags

(* The books of d, for a cancellation that goes on and leaves its payments *)
(* and its status alone.                                                   *)
LEMMA DebitedWhileClosing ==
    ASSUME TypeOK, NEW q \in Requests, NEW d \in Deliveries, req[q].del = d,
           Becomes(q, req'[q]), req[q].at \in Refunding, req'[q].at \in Refunding,
           req'[q].del = req[q].del, req'[q].amount = req[q].amount,
           UNCHANGED <<price, status, first, debits>>, DebitedFor(d)
    PROVE  DebitedFor(d)'
<1>1. \A p \in Requests : /\ Pays(p, d)' <=> Pays(p, d)
                          /\ Pays(p, d) => req'[p] = req[p]
                          /\ Owes(p, d)' <=> Owes(p, d)
                          /\ req'[p].del = req[p].del
  BY ClosesOn, LabelSets
<1>2. \A p \in Requests : req'[p].at \in Refunding <=> req[p].at \in Refunding
  BY DEF Becomes
<1> QED
  BY <1>1, <1>2 DEF DebitedFor

LEMMA CancelDeliveryStep ==
    ASSUME WalletInv, NEW q \in Requests, CancelDelivery(q)
    PROVE  WalletInv'
<1>1. TypeOK /\ Fits(req[q]) /\ req[q].at = "cancel"
  BY ReqTyped DEF WalletInv, CancelDelivery, At
<1>2. req[q].del \in Deliveries /\ req[q].amount \in Int
  BY <1>1, LabelSets DEF Fits, RequestType
<1>3. PICK d \in Deliveries : req[q].del = d
  BY <1>2
<1>4. /\ UNCHANGED <<price, first, debits, refunds, flags>>
      /\ status' = [status EXCEPT ![d] = "cancelled"]
  BY <1>3 DEF CancelDelivery
<1>5. /\ Becomes(q, req'[q]) /\ req' \in [Requests -> RequestType]
      /\ \A p \in Requests : Fits(req'[p])
      /\ \/ /\ req[q].amount > 0 /\ req'[q].at = "find"
            /\ req'[q].del = d /\ req'[q].amount = req[q].amount
         \/ req'[q] = Idle
  <2>1. CASE req[q].amount > 0
    <3>1. Goto(q, "find")
      BY <2>1 DEF CancelDelivery
    <3> QED
      BY <1>1, <1>2, <1>3, <2>1, <3>1, LabelSets, Moves DEF Labels
  <2>2. CASE ~(req[q].amount > 0)
    BY <1>1, <2>2, Ends DEF CancelDelivery
  <2> QED
    BY <2>1, <2>2
<1>6. TypeOK'
  <2>1. /\ disturbed' \in BOOLEAN
        /\ UNCHANGED <<books, price, first, funded, debits, refunds, flags, bounds>>
    BY <1>1 DEF CancelDelivery, Disturbs, Busy, TypeOK
  <2> QED
    BY <1>1, <1>4, <1>5, <2>1, StatusTyped
<1>7. status'[d] = "cancelled" /\ \A x \in Deliveries \ {d} : status'[x] = status[x]
  BY <1>1, <1>4 DEF TypeOK
<1>8. \A x \in Deliveries \ {d} : Same(x) /\ Fewer(x)
  <2>1. \A x \in Deliveries \ {d} : ~Concerns(q, x)'
    BY <1>5, LabelSets DEF Concerns, Pays, Closes, Idle
  <2> QED
    BY <1>1, <1>4, <1>5, <1>7, <2>1, Elsewhere DEF Same
<1>9. Closes(q, d)
  BY <1>1, <1>3, LabelSets DEF Closes
<1>10. ASSUME NEW p \in Requests
       PROVE  /\ Pays(p, d)' <=> Pays(p, d)
              /\ Pays(p, d) => req'[p] = req[p]
              /\ Closes(p, d)' => Closes(p, d)
              /\ Owes(p, d)' => Owes(p, d)
              /\ p # q => req'[p] = req[p]
  BY <1>1, <1>5, <1>9, LabelSets DEF Becomes, Pays, Closes, Owes, Idle
<1>11. ASSUME PaidInOrder(d)
       PROVE  PaidInOrder(d)'
  <2>1. ItsPrice(d)' /\ OnePayment(d)'
    BY <1>4, <1>10, <1>11 DEF PaidInOrder, ItsPrice, OnePayment
  <2>2. ASSUME first'[d] # "card"
        PROVE  DebitedFor(d)'
    <3>1. DebitedFor(d)
      BY <1>4, <1>11, <2>2 DEF PaidInOrder
    <3> QED
      BY <1>4, <1>7, <1>10, <3>1 DEF DebitedFor
  <2> QED
    BY <2>1, <2>2 DEF PaidInOrder
<1>12. ASSUME CoveredFor(d)
       PROVE  CoveredFor(d)'
  <2>1. ItsPrice(d)' /\ \A p \in Requests : Closes(p, d)' => p = q
    BY <1>4, <1>9, <1>10, <1>12 DEF CoveredFor, ItsPrice
  <2>2. Debited(d)' = Debited(d)
    BY <1>1, <1>5 DEF Becomes, Debited, Idle
  <2>3. Held(d) = Held(d)' + (IF status[d] = "paid" THEN price[d] ELSE 0) /\ Held(d)' \in Nat
    BY <1>1, <1>4, <1>7, <2>2, HeldWhenCancelled
  <2>4. /\ Held(d) \in Nat /\ price[d] \in Nat
        /\ refunds[d] \in Nat /\ debits[d] \in Nat
    BY <1>1, HeldTyped DEF TypeOK
  <2>5. refunds'[d] + Held(d)' <= debits'[d]
    BY <1>4, <1>12, <2>3, <2>4 DEF CoveredFor
  <2>6. req'[q].at = "find" => refunds'[d] + req'[q].amount + Held(d)' <= debits'[d]
    <3>1. req'[q].at = "find" => req'[q].amount = req[q].amount /\ req[q].amount > 0
      BY <1>5 DEF Idle
    <3>2. req[q].amount > 0 => status[d] = "paid" /\ req[q].amount <= price[d]
      BY <1>1, <1>3, <1>12 DEF CoveredFor
    <3>3. refunds[d] + Held(d) <= debits[d]
      BY <1>12 DEF CoveredFor
    <3> QED
      BY <1>2, <1>4, <2>3, <2>4, <3>1, <3>2, <3>3
  <2>7. \A p \in Requests : req'[p].del = d /\ req'[p].at \in Closing => p = q
    BY <2>1 DEF Closes
  <2>8. req'[q].at \in {"find", "idle"}
    BY <1>5 DEF Idle
  <2> QED
    BY <2>1, <2>5, <2>6, <2>7, <2>8, LabelSets DEF CoveredFor
<1> QED
  BY <1>4, <1>6, <1>8, <1>11, <1>12, AtOne DEF flags

LEMMA FindPaymentStep ==
    ASSUME WalletInv, NEW q \in Requests, FindPayment(q)
    PROVE  WalletInv'
<1>1. TypeOK /\ Fits(req[q]) /\ req[q].at = "find"
  BY ReqTyped DEF WalletInv, FindPayment, At
<1>2. CASE Finish(q)
  <2>1. TypeOK'
    BY <1>1, <1>2, Ends DEF TypeOK, Fits, FindPayment, books, orders, history, flags, bounds
  <2> QED
    BY <1>2, <2>1, QuietEnd DEF FindPayment, history
<1>3. CASE Goto(q, "refund")
  <2>1. req[q].del \in Deliveries /\ req[q].amount > 0
    BY <1>1, LabelSets DEF Fits
  <2>2. PICK d \in Deliveries : req[q].del = d
    BY <2>1
  <2>3. /\ Becomes(q, req'[q]) /\ req'[q].at = "refund"
        /\ req'[q].del = req[q].del /\ req'[q].amount = req[q].amount
        /\ req' \in [Requests -> RequestType] /\ \A p \in Requests : Fits(req'[p])
    BY <1>1, <1>3, <2>1, LabelSets, Moves DEF Labels
  <2>4. TypeOK'
    BY <1>1, <2>3 DEF TypeOK, Fits, FindPayment, books, orders, history, flags, bounds
  <2>5. UNCHANGED <<price, status, first, debits, refunds, flags>>
    BY DEF FindPayment, orders, history
  <2>6. /\ req[q].at \in Refunding /\ req'[q].at \in Refunding
        /\ req[q].at \in Closing /\ req'[q].at \in Closing
    BY <1>1, <2>3, LabelSets
  <2>7. PaidInOrder(d) /\ first[d] # "card" => DebitedFor(d)'
    BY <1>1, <2>2, <2>3, <2>5, <2>6, DebitedWhileClosing DEF PaidInOrder
  <2>8. Held(d)' = Held(d)
    <3>1. Debited(d)' = Debited(d)
      BY <1>1, <2>3 DEF Becomes, Debited
    <3> QED
      BY <2>5, <3>1, HeldAsBefore
  <2>9. CoveredFor(d) =>
          /\ refunds'[d] + Held(d)' <= debits'[d]
          /\ refunds'[d] + req'[q].amount + Held(d)' <= debits'[d]
    BY <1>1, <2>2, <2>3, <2>5, <2>8 DEF CoveredFor
  <2> QED
    BY <2>2, <2>3, <2>4, <2>5, <2>6, <2>7, <2>9, ClosesOnStep DEF Same
<1> QED
  BY <1>2, <1>3 DEF FindPayment

LEMMA EnterRefundStep ==
    ASSUME WalletInv, NEW q \in Requests, EnterRefund(q)
    PROVE  WalletInv'
<1>1. TypeOK /\ Fits(req[q]) /\ req[q].at = "refund"
  BY ReqTyped DEF WalletInv, EnterRefund, At
<1>2. req[q].del \in Deliveries /\ req[q].amount > 0 /\ req[q].amount \in Int
  BY <1>1, LabelSets DEF Fits, RequestType
<1>3. PICK d \in Deliveries : req[q].del = d
  BY <1>2
<1>4. /\ Becomes(q, req'[q]) /\ req'[q].at = "giveBack"
      /\ req'[q].del = req[q].del /\ req'[q].amount = req[q].amount
      /\ req' \in [Requests -> RequestType] /\ \A p \in Requests : Fits(req'[p])
  BY <1>1, <1>2, LabelSets, Moves DEF EnterRefund, Labels
<1>5. /\ UNCHANGED <<price, status, first, debits, flags>>
      /\ refunds' = [refunds EXCEPT ![d] = @ + req[q].amount]
  BY <1>3 DEF EnterRefund, orders
<1>6. refunds[d] \in Nat /\ refunds'[d] = refunds[d] + req[q].amount /\ refunds' \in [Deliveries -> Nat]
  BY <1>1, <1>2, <1>5 DEF TypeOK
<1>7. TypeOK'
  BY <1>1, <1>2, <1>4, <1>5, <1>6 DEF TypeOK, Fits, EnterRefund, flags, bounds
<1>8. \A x \in Deliveries \ {d} : Same(x)
  BY <1>1, <1>5 DEF TypeOK, Same
<1>9. /\ req[q].at \in Refunding /\ req'[q].at \in Refunding
      /\ req[q].at \in Closing /\ req'[q].at \in Closing
  BY <1>1, <1>4, LabelSets
<1>10. PaidInOrder(d) /\ first[d] # "card" => DebitedFor(d)'
  BY <1>1, <1>3, <1>4, <1>5, <1>9, DebitedWhileClosing DEF PaidInOrder
<1>11. Held(d)' = Held(d)
  <2>1. Debited(d)' = Debited(d)
    BY <1>1, <1>4 DEF Becomes, Debited
  <2> QED
    BY <1>5, <2>1, HeldAsBefore
<1>12. CoveredFor(d) => refunds'[d] + Held(d)' <= debits'[d]
  BY <1>1, <1>3, <1>5, <1>6, <1>11 DEF CoveredFor
<1> QED
  BY <1>3, <1>4, <1>5, <1>7, <1>8, <1>9, <1>10, <1>12, ClosesOnStep

LEMMA GiveBackStep ==
    ASSUME WalletInv, NEW q \in Requests, GiveBack(q)
    PROVE  WalletInv'
<1>1. TypeOK /\ Fits(req[q]) /\ req[q].at = "giveBack"
  BY ReqTyped DEF WalletInv, GiveBack, At
<1>2. req[q].del \in Deliveries /\ req[q].amount > 0 /\ req[q].amount \in Int
  BY <1>1, LabelSets DEF Fits, RequestType
<1>3. PICK d \in Deliveries : req[q].del = d
  BY <1>2
<1>4. /\ Becomes(q, req'[q]) /\ req'[q].at = "close"
      /\ req'[q].del = req[q].del /\ req'[q].amount = req[q].amount
      /\ req' \in [Requests -> RequestType] /\ \A p \in Requests : Fits(req'[p])
  BY <1>1, <1>2, LabelSets, Moves DEF GiveBack, Labels
<1>5. UNCHANGED <<price, status, first, debits, refunds, flags>>
  BY DEF GiveBack, orders, history
<1>6. TypeOK'
  BY <1>1, <1>2, <1>4 DEF TypeOK, Fits, GiveBack, orders, history, flags, bounds
<1>7. /\ req[q].at \in Refunding /\ req'[q].at \in Refunding
      /\ req[q].at \in Closing /\ req'[q].at \in Closing
  BY <1>1, <1>4, LabelSets
<1>8. PaidInOrder(d) /\ first[d] # "card" => DebitedFor(d)'
  BY <1>1, <1>3, <1>4, <1>5, <1>7, DebitedWhileClosing DEF PaidInOrder
<1>9. Held(d)' = Held(d)
  <2>1. Debited(d)' = Debited(d)
    BY <1>1, <1>4 DEF Becomes, Debited
  <2> QED
    BY <1>5, <2>1, HeldAsBefore
<1>10. CoveredFor(d) => refunds'[d] + Held(d)' <= debits'[d]
  BY <1>5, <1>9 DEF CoveredFor
<1> QED
  BY <1>3, <1>4, <1>5, <1>6, <1>7, <1>8, <1>10, ClosesOnStep DEF Same

LEMMA CloseRefundStep ==
    ASSUME WalletInv, NEW q \in Requests, CloseRefund(q)
    PROVE  WalletInv'
<1>1. TypeOK /\ Fits(req[q]) /\ req[q].at = "close" /\ Finish(q)
  BY ReqTyped DEF WalletInv, CloseRefund, At
<1>2. req[q].del \in Deliveries /\ req[q].amount > 0
  BY <1>1, LabelSets DEF Fits
<1>3. PICK d \in Deliveries : req[q].del = d
  BY <1>2
<1>4. /\ Becomes(q, req'[q]) /\ req'[q] = Idle
      /\ req' \in [Requests -> RequestType] /\ \A p \in Requests : Fits(req'[p])
      /\ \A x \in Deliveries : ~Concerns(q, x)'
  BY <1>1, Ends
<1>5. /\ UNCHANGED <<price, status, debits, refunds, flags>>
      /\ first' = [first EXCEPT ![d] = IF @ = "paid" THEN "refunded" ELSE @]
  BY <1>3 DEF CloseRefund, history
<1>6. TypeOK'
  <2>1. first' \in [Deliveries -> {"none", "card", "paid", "refunded"}]
    BY <1>1, <1>5 DEF TypeOK
  <2> QED
    BY <1>1, <1>4, <1>5, <2>1 DEF TypeOK, Fits, CloseRefund, books, history, flags, bounds
<1>7. /\ \A x \in Deliveries \ {d} : first'[x] = first[x]
      /\ first'[d] = IF first[d] = "paid" THEN "refunded" ELSE first[d]
  BY <1>1, <1>5 DEF TypeOK
<1>8. \A x \in Deliveries \ {d} : Same(x) /\ Fewer(x)
  BY <1>1, <1>4, <1>5, <1>7, Elsewhere DEF Same
<1>9. Owes(q, d) /\ req[q].at \in Refunding
  BY <1>1, <1>2, <1>3, LabelSets DEF Owes, Closes
<1>10. ASSUME NEW p \in Requests
       PROVE  /\ Pays(p, d)' => Pays(p, d) /\ req'[p] = req[p]
              /\ Closes(p, d)' => Closes(p, d) /\ req'[p] = req[p]
              /\ Owes(p, d)' => Owes(p, d)
  BY <1>4 DEF Becomes, Concerns, Pays, Closes, Owes
<1>11. ASSUME PaidInOrder(d)
       PROVE  PaidInOrder(d)'
  <2>1. ItsPrice(d)' /\ OnePayment(d)'
    BY <1>5, <1>10, <1>11 DEF PaidInOrder, ItsPrice, OnePayment
  <2>2. ASSUME first'[d] # "card"
        PROVE  DebitedFor(d)'
    <3>1. DebitedFor(d)
      BY <1>7, <1>11, <2>2 DEF PaidInOrder
    <3>2. status[d] = "cancelled" /\ first[d] # "none" /\ \A p \in Requests : ~Pays(p, d)
      BY <1>3, <1>9, <3>1 DEF DebitedFor
    <3> QED
      BY <1>5, <1>7, <1>10, <3>1, <3>2 DEF DebitedFor
  <2> QED
    BY <2>1, <2>2 DEF PaidInOrder
<1>12. ASSUME CoveredFor(d)
       PROVE  CoveredFor(d)'
  <2>1. ItsPrice(d)'
    BY <1>5, <1>10, <1>12 DEF CoveredFor, ItsPrice
  <2>2. Held(d)' = Held(d)
    <3>1. Debited(d)' = Debited(d)
      BY <1>1, <1>4 DEF Becomes, Debited, Idle
    <3> QED
      BY <1>5, <3>1, HeldAsBefore
  <2>3. Held(d)' - debits'[d] <= Held(d) - debits[d]
    <3>1. Held(d) - debits[d] \in Int
      BY <1>1, HeldTyped DEF TypeOK
    <3> QED
      BY <1>5, <2>2, <3>1
  <2> QED
    BY <1>1, <1>5, <1>6, <1>10, <1>12, <2>1, <2>3, CoveredByPaying
<1> QED
  BY <1>5, <1>6, <1>8, <1>11, <1>12, AtOne DEF flags

-----------------------------------------------------------------------------
LEMMA InitInv == Init => WalletInv
<1> SUFFICES ASSUME Init PROVE WalletInv
  OBVIOUS
<1>1. \A q \in Requests : req[q] = Idle
  BY DEF Init
<1>2. TypeOK
  <2>1. req \in [Requests -> RequestType]
    BY IdleTyped DEF Init
  <2>2. \A q \in Requests : req[q].at \notin Moving \union Paying \union Closing
    BY <1>1, IdleTyped, LabelSets
  <2>3. price \in [Deliveries -> Nat \ {0}]
    BY WalletAssumption DEF Init
  <2>4. /\ status \in [Deliveries -> {"unpaid", "paid", "cancelled"}]
        /\ first \in [Deliveries -> {"none", "card", "paid", "refunded"}]
        /\ debits \in [Deliveries -> Nat] /\ refunds \in [Deliveries -> Nat]
    BY DEF Init
  <2>5. /\ {payments, syncs, adjusts, faults} \subseteq Nat
        /\ balance \in Int /\ ledger \in Int
    BY DEF Init
  <2>6. overlapped \in BOOLEAN /\ disturbed \in BOOLEAN
    BY DEF Init
  <2>7. {paidTwice, closedTwice, adjusted} \subseteq SUBSET Deliveries /\ funded \subseteq Fundings
    BY DEF Init
  <2> QED
    BY <2>1, <2>2, <2>3, <2>4, <2>5, <2>6, <2>7 DEF TypeOK
<1>3. \A q \in Requests : \A d : ~Pays(q, d) /\ ~Closes(q, d) /\ req[q].at = "idle"
  BY <1>1, IdleTyped, LabelSets DEF Pays, Closes
<1>4. ASSUME NEW d \in Deliveries
      PROVE  PaidInOrder(d)
  <2>1. price[d] \in Nat
    BY <1>2 DEF TypeOK
  <2> QED
    BY <1>3, <2>1, LabelSets DEF Init, PaidInOrder, ItsPrice, OnePayment, DebitedFor, Owes
<1>5. ASSUME NEW d \in Deliveries
      PROVE  CoveredFor(d)
  <2>1. Debited(d) = {}
    BY <1>3 DEF Debited
  <2>2. Held(d) = 0
    <3>1. Cardinality(Debited(d)) = 0 /\ status[d] = "unpaid" /\ price[d] \in Nat
      BY <1>2, <2>1, FS_EmptySet DEF Init, TypeOK
    <3> QED
      BY <3>1 DEF Held
  <2> QED
    BY <1>3, <2>2 DEF Init, CoveredFor, ItsPrice
<1> QED
  BY <1>2, <1>4, <1>5 DEF WalletInv, DebitInv, RefundInv

LEMMA StutterInv == WalletInv /\ UNCHANGED vars => WalletInv'
<1> SUFFICES ASSUME WalletInv, UNCHANGED vars PROVE WalletInv'
  OBVIOUS
<1>1. /\ UNCHANGED <<balance, ledger, price, status, first, funded, req, debits, refunds>>
      /\ UNCHANGED <<paidTwice, closedTwice, adjusted, overlapped, disturbed>>
      /\ UNCHANGED <<payments, syncs, adjusts, faults>>
  BY DEF vars, books, orders, flags, history, bounds
<1>2. TypeOK'
  BY <1>1 DEF WalletInv, TypeOK
<1>3. DebitInv'
  BY <1>1 DEF WalletInv, DebitInv, PaidInOrder, ItsPrice, OnePayment, DebitedFor, Pays, Closes, Owes
<1>4. RefundInv'
  BY <1>1 DEF WalletInv, RefundInv, CoveredFor, ItsPrice, Held, Debited, Pays, Closes
<1> QED
  BY <1>2, <1>3, <1>4 DEF WalletInv

LEMMA StepInv == WalletInv /\ [Next]_vars => WalletInv'
<1> SUFFICES ASSUME WalletInv, [Next]_vars PROVE WalletInv'
  OBVIOUS
<1>1. ASSUME NEW q \in Requests, Pay(q) PROVE WalletInv'
  BY <1>1, CheckBalanceStep, RecordPaymentStep, EnterDebitStep, TakeMoneyStep, MarkPaidStep DEF Pay
<1>2. ASSUME NEW q \in Requests, Fund(q) PROVE WalletInv'
  BY <1>2, GiveMoneyStep, EnterCreditStep DEF Fund
<1>3. ASSUME NEW q \in Requests, Cancel(q) PROVE WalletInv'
  BY <1>3, CancelDeliveryStep, FindPaymentStep, EnterRefundStep, GiveBackStep, CloseRefundStep
  DEF Cancel
<1>4. ASSUME NEW q \in Requests, Sync(q) PROVE WalletInv'
  BY <1>4, SumLedgerStep, SetBalanceStep DEF Sync
<1> QED
  BY <1>1, <1>2, <1>3, <1>4, StartSyncStep, FailStep, StartFundingStep, StartPaymentStep,
     StartCancelStep, OpenCardPaymentStep, AdjustPriceStep, StutterInv DEF Next

LEMMA AlwaysInv == Spec => []WalletInv
  BY InitInv, StepInv, PTL DEF Spec

(* The variables of a wallet have their types, and what moves money moves  *)
(* a positive amount, for a delivery where that is what it is about.       *)
THEOREM WalletTyped == Spec => []TypeOK
  BY AlwaysInv, PTL DEF WalletInv

(* A delivery that no two payments paid for at once, whose price was not   *)
(* adjusted and of which the first payment is not an abandoned card        *)
(* payment is debited its price at most, whatever fails on the way.        *)
THEOREM DebitedOnceHolds == Spec => []DebitedOnce
<1>1. WalletInv => DebitedOnce
  BY DEF WalletInv, DebitInv, PaidInOrder, DebitedFor, DebitedOnce
<1> QED
  BY <1>1, AlwaysInv, PTL

(* A delivery that was not cancelled twice at once and whose price was not *)
(* adjusted is never refunded more than it was debited, also when its      *)
(* payment and its cancellation overtake one another.                      *)
THEOREM RefundsAreCovered == Spec => []RefundCovered
<1>1. ASSUME WalletInv, NEW d \in Deliveries \ (closedTwice \union adjusted)
      PROVE  refunds[d] <= debits[d]
  <2>1. CoveredFor(d) /\ TypeOK
    BY <1>1 DEF WalletInv, RefundInv
  <2>2. Held(d) \in Nat /\ refunds[d] \in Nat /\ debits[d] \in Nat
    BY <2>1, HeldTyped DEF TypeOK
  <2> QED
    BY <2>1, <2>2 DEF CoveredFor
<1>2. WalletInv => RefundCovered
  BY <1>1 DEF RefundCovered
<1> QED
  BY <1>2, AlwaysInv, PTL

-----------------------------------------------------------------------------
(* The books as a whole.                                                   *)
(*                                                                         *)
(* Every request that stands between its two writes accounts for its       *)
(* amount; what the requests account for together is a sum over a finite   *)
(* set.  A function on the sets of requests that adds up is enough to say  *)
(* so: a step changes what one request accounts for, and with it the value *)
(* of each set that request is in.                                         *)

(* By how much the balance is ahead of the ledger because of request r.    *)
Ahead(r) ==
    IF r.at \in {"take", "credit"} THEN r.amount
    ELSE IF r.at = "giveBack" THEN 0 - r.amount ELSE 0

AddsUp(g) ==
    /\ g \in [SUBSET Requests -> Int]
    /\ g[{}] = 0
    /\ \A T \in SUBSET Requests : \A q \in T : g[T] = g[T \ {q}] + Ahead(req[q])

DifferenceExplained == \E g : AddsUp(g) /\ balance - ledger = g[Requests]

Undisturbed == faults = 0 /\ ~disturbed

(* While somebody looks at the balance nothing moves, so that what is set  *)
(* is the ledger as it is.                                                 *)
LooksAlone ==
    /\ Busy(Syncing) => ~Busy(Moving)
    /\ \A q \in Requests : req[q].at = "set" => req[q].amount = ledger

BooksInv == Undisturbed => DifferenceExplained /\ LooksAlone

(* A payment that is alone still has the money it saw, until it takes it.  *)
Covered ==
    /\ balance >= 0
    /\ \A p, q \in Requests : req[p].at \in Paying /\ req[q].at \in Paying => p = q
    /\ \A q \in Requests : req[q].at \in {"record", "debit", "take"} => req[q].amount <= balance

OverdraftInv == Undisturbed /\ ~overlapped => Covered

(* A finite set has a minimal one among any of its subsets. *)
LEMMA MinimalSet ==
    ASSUME NEW F, F # {}, \A A \in F : IsFiniteSet(A)
    PROVE  \E A \in F : \A B \in F : B \subseteq A => B = A
<1> DEFINE U == UNION F
<1>1. F \subseteq FiniteSubsetsOf(U)
  BY DEF FiniteSubsetsOf
<1>2. PICK A \in F : \A B \in F : <<B, A>> \notin StrictSubsetOrdering(U)
  BY <1>1, WFMin, FS_StrictSubsetOrderingWellFounded
<1> QED
  BY <1>2 DEF StrictSubsetOrdering

(* Requests that account for nothing account for nothing together. *)
LEMMA NothingAdds ==
    ASSUME NEW g, AddsUp(g), \A q \in Requests : Ahead(req[q]) = 0
    PROVE  g[Requests] = 0
<1> DEFINE F == {T \in SUBSET Requests : g[T] # 0}
<1>1. SUFFICES ASSUME g[Requests] # 0 PROVE FALSE
  OBVIOUS
<1>2. F # {}
  BY <1>1
<1>3. \A T \in F : IsFiniteSet(T)
  BY WalletAssumption, FS_Subset
<1>4. PICK T \in F : \A B \in F : B \subseteq T => B = T
  <2> HIDE DEF F
  <2> QED
    BY <1>2, <1>3, MinimalSet
<1>5. PICK q \in T : TRUE
  BY <1>4 DEF AddsUp
<1>6. T \ {q} \in SUBSET Requests /\ T \ {q} \notin F
  BY <1>4, <1>5
<1>7. g[T] = g[T \ {q}] + 0 /\ g[T \ {q}] = 0
  BY <1>4, <1>5, <1>6 DEF AddsUp
<1> QED
  BY <1>4, <1>7

LEMMA AheadTyped ==
    ASSUME TypeOK, NEW q \in Requests
    PROVE  Ahead(req[q]) \in Int
  BY DEF TypeOK, RequestType, Ahead

(* A step of one request that moves the difference by what the request     *)
(* accounts for more.                                                      *)
LEMMA Explained ==
    ASSUME TypeOK, TypeOK', DifferenceExplained, NEW q \in Requests, Becomes(q, req'[q]),
           balance' - ledger' = balance - ledger + Ahead(req'[q]) - Ahead(req[q])
    PROVE  DifferenceExplained'
<1>1. PICK g : AddsUp(g) /\ balance - ledger = g[Requests]
  BY DEF DifferenceExplained
<1>2. Ahead(req[q]) \in Int /\ Ahead(req'[q]) \in Int
  BY DEF TypeOK, RequestType, Ahead
<1>3. PICK k \in Int : k = Ahead(req'[q]) - Ahead(req[q])
  BY <1>2
<1> DEFINE h == [T \in SUBSET Requests |-> IF q \in T THEN g[T] + k ELSE g[T]]
<1>4. h \in [SUBSET Requests -> Int] /\ h[{}] = 0
  BY <1>1 DEF AddsUp
<1>5. ASSUME NEW T \in SUBSET Requests, NEW p \in T
      PROVE  h[T] = h[T \ {p}] + Ahead(req'[p])
  <2>1. T \ {p} \in SUBSET Requests /\ g[T] \in Int /\ g[T \ {p}] \in Int
    BY <1>1 DEF AddsUp
  <2>2. g[T] = g[T \ {p}] + Ahead(req[p])
    BY <1>1 DEF AddsUp
  <2>3. CASE p = q
    BY <1>2, <1>3, <2>1, <2>2, <2>3
  <2>4. CASE p # q
    <3>1. req'[p] = req[p] /\ Ahead(req[p]) \in Int
      BY <2>4, AheadTyped DEF Becomes
    <3> QED
      BY <1>3, <2>1, <2>2, <2>4, <3>1
  <2> QED
    BY <2>3, <2>4
<1>6. balance' - ledger' = h[Requests]
  <2>1. h[Requests] = g[Requests] + k /\ g[Requests] \in Int
    BY <1>1 DEF AddsUp
  <2>2. balance \in Int /\ ledger \in Int /\ balance' \in Int /\ ledger' \in Int
    BY DEF TypeOK
  <2> QED
    BY <1>1, <1>2, <1>3, <2>1, <2>2
<1>7. AddsUp(h)'
  <2> HIDE DEF h
  <2> QED
    BY <1>4, <1>5 DEF AddsUp
<1> QED
  BY <1>6, <1>7 DEF DifferenceExplained

(* What a step of request q does, as far as the books are concerned: how   *)
(* it moves the two accounts, and that it does not start to move, or to    *)
(* look at the balance, beside one that does the other.                    *)
BooksMove(q) ==
    /\ Becomes(q, req'[q])
    /\ balance' - ledger' = balance - ledger + Ahead(req'[q]) - Ahead(req[q])
    /\ req'[q].at \in Moving => req[q].at \in Moving \/ ~Busy(Syncing)
    /\ req'[q].at \in Syncing => req[q].at \in Syncing \/ ~Busy(Moving)
    /\ ledger' = ledger \/ req[q].at \in Moving
    /\ req'[q].at = "set" => req'[q].amount = ledger

LEMMA BooksKept ==
    ASSUME TypeOK, TypeOK', DifferenceExplained, LooksAlone, NEW q \in Requests, BooksMove(q)
    PROVE  DifferenceExplained' /\ LooksAlone'
<1>1. DifferenceExplained'
  BY Explained DEF BooksMove
<1>2. \A p \in Requests : p = q \/ req'[p] = req[p]
  BY DEF BooksMove, Becomes
<1>3. Busy(Syncing)' => ~Busy(Moving)'
  BY <1>2, LabelSets DEF LooksAlone, BooksMove, Busy
<1>4. ASSUME NEW p \in Requests, req'[p].at = "set"
      PROVE  req'[p].amount = ledger'
  <2>1. ledger' = ledger
    BY <1>2, <1>4, LabelSets DEF LooksAlone, BooksMove, Busy
  <2> QED
    BY <1>2, <1>4, <2>1 DEF LooksAlone, BooksMove
<1> QED
  BY <1>1, <1>3, <1>4 DEF LooksAlone

LEMMA EndedBooks ==
    ASSUME TypeOK, NEW q \in Requests, Finish(q)
    PROVE  Becomes(q, req'[q]) /\ req'[q].at = "idle" /\ Ahead(req'[q]) = 0
  BY Ends, IdleTyped DEF Ahead

(* The steps of a payment. *)
LEMMA PayMoves ==
    ASSUME TypeOK, NEW q \in Requests, Pay(q)
    PROVE  BooksMove(q)
<1>1. Fits(req[q]) /\ req[q].amount \in Int /\ balance \in Int /\ ledger \in Int
  BY ReqTyped DEF TypeOK, Fits, RequestType
<1>2. CASE CheckBalance(q)
  <2>1. UNCHANGED books /\ req[q].at = "balance"
    BY <1>2 DEF CheckBalance, At
  <2>2. CASE Finish(q)
    BY <1>1, <2>1, <2>2, EndedBooks, LabelSets DEF BooksMove, books, Ahead
  <2>3. CASE Goto(q, "record")
    <3>1. Becomes(q, req'[q]) /\ req'[q].at = "record"
      BY <1>1, <2>1, <2>3, Moves, LabelSets DEF Fits, Labels
    <3> QED
      BY <1>1, <2>1, <3>1, LabelSets DEF BooksMove, books, Ahead
  <2> QED
    BY <1>2, <2>2, <2>3 DEF CheckBalance
<1>3. CASE RecordPayment(q)
  <2>1. UNCHANGED books /\ req[q].at = "record" /\ Goto(q, "debit")
    BY <1>3 DEF RecordPayment, At
  <2>2. Becomes(q, req'[q]) /\ req'[q].at = "debit"
    BY <1>1, <2>1, Moves, LabelSets DEF Fits, Labels
  <2> QED
    BY <1>1, <2>1, <2>2, LabelSets DEF BooksMove, books, Ahead
<1>4. CASE EnterDebit(q)
  <2>1. balance' = balance /\ ledger' = ledger - req[q].amount /\ req[q].at = "debit" /\ Goto(q, "take")
    BY <1>4 DEF EnterDebit, At
  <2>2. Becomes(q, req'[q]) /\ req'[q].at = "take" /\ req'[q].amount = req[q].amount
    BY <1>1, <2>1, Moves, LabelSets DEF Fits, Labels
  <2> QED
    BY <1>1, <2>1, <2>2, LabelSets DEF BooksMove, Ahead
<1>5. CASE TakeMoney(q)
  <2>1. balance' = balance - req[q].amount /\ ledger' = ledger /\ req[q].at = "take" /\ Goto(q, "mark")
    BY <1>5 DEF TakeMoney, At
  <2>2. Becomes(q, req'[q]) /\ req'[q].at = "mark"
    BY <1>1, <2>1, Moves, LabelSets DEF Fits, Labels
  <2> QED
    BY <1>1, <2>1, <2>2, LabelSets DEF BooksMove, Ahead
<1>6. CASE MarkPaid(q)
  <2>1. UNCHANGED books /\ req[q].at = "mark" /\ Finish(q)
    BY <1>6 DEF MarkPaid, At
  <2> QED
    BY <1>1, <2>1, EndedBooks, LabelSets DEF BooksMove, books, Ahead
<1> QED
  BY <1>2, <1>3, <1>4, <1>5, <1>6 DEF Pay

(* The steps of a funding. *)
LEMMA FundMoves ==
    ASSUME TypeOK, NEW q \in Requests, Fund(q)
    PROVE  BooksMove(q)
<1>1. Fits(req[q]) /\ req[q].amount \in Int /\ balance \in Int /\ ledger \in Int
  BY ReqTyped DEF TypeOK, Fits, RequestType
<1>2. CASE GiveMoney(q)
  <2>1. balance' = balance + req[q].amount /\ ledger' = ledger /\ req[q].at = "give" /\ Goto(q, "credit")
    BY <1>2 DEF GiveMoney, At
  <2>2. Becomes(q, req'[q]) /\ req'[q].at = "credit" /\ req'[q].amount = req[q].amount
    BY <1>1, <2>1, Moves, LabelSets DEF Fits, Labels
  <2> QED
    BY <1>1, <2>1, <2>2, LabelSets DEF BooksMove, Ahead
<1>3. CASE EnterCredit(q)
  <2>1. balance' = balance /\ ledger' = ledger + req[q].amount /\ req[q].at = "credit" /\ Finish(q)
    BY <1>3 DEF EnterCredit, At
  <2> QED
    BY <1>1, <2>1, EndedBooks, LabelSets DEF BooksMove, Ahead
<1> QED
  BY <1>2, <1>3 DEF Fund

(* The steps of a cancellation.  One that refunds starts to move money     *)
(* when the delivery is cancelled, and disturbs who looks at the balance.  *)
LEMMA CancelMoves ==
    ASSUME TypeOK, NEW q \in Requests, Cancel(q), ~disturbed'
    PROVE  BooksMove(q)
<1>1. Fits(req[q]) /\ req[q].amount \in Int /\ balance \in Int /\ ledger \in Int
  BY ReqTyped DEF TypeOK, Fits, RequestType
<1>2. CASE CancelDelivery(q)
  <2>1. UNCHANGED books /\ req[q].at = "cancel"
    BY <1>2 DEF CancelDelivery, At
  <2>2. CASE Finish(q)
    BY <1>1, <2>1, <2>2, EndedBooks, LabelSets DEF BooksMove, books, Ahead
  <2>3. CASE req[q].amount > 0 /\ Goto(q, "find") /\ Disturbs
    <3>1. Becomes(q, req'[q]) /\ req'[q].at = "find"
      BY <1>1, <2>1, <2>3, Moves, LabelSets DEF Fits, Labels
    <3>2. ~Busy(Syncing)
      BY <2>3 DEF Disturbs
    <3> QED
      BY <1>1, <2>1, <3>1, <3>2, LabelSets DEF BooksMove, books, Ahead
  <2> QED
    BY <1>2, <2>2, <2>3 DEF CancelDelivery
<1>3. CASE FindPayment(q)
  <2>1. UNCHANGED books /\ req[q].at = "find"
    BY <1>3 DEF FindPayment, At
  <2>2. CASE Finish(q)
    BY <1>1, <2>1, <2>2, EndedBooks, LabelSets DEF BooksMove, books, Ahead
  <2>3. CASE Goto(q, "refund")
    <3>1. Becomes(q, req'[q]) /\ req'[q].at = "refund"
      BY <1>1, <2>1, <2>3, Moves, LabelSets DEF Fits, Labels
    <3> QED
      BY <1>1, <2>1, <3>1, LabelSets DEF BooksMove, books, Ahead
  <2> QED
    BY <1>3, <2>2, <2>3 DEF FindPayment
<1>4. CASE EnterRefund(q)
  <2>1. balance' = balance /\ ledger' = ledger + req[q].amount /\ req[q].at = "refund" /\ Goto(q, "giveBack")
    BY <1>4 DEF EnterRefund, At
  <2>2. Becomes(q, req'[q]) /\ req'[q].at = "giveBack" /\ req'[q].amount = req[q].amount
    BY <1>1, <2>1, Moves, LabelSets DEF Fits, Labels
  <2> QED
    BY <1>1, <2>1, <2>2, LabelSets DEF BooksMove, Ahead
<1>5. CASE GiveBack(q)
  <2>1. balance' = balance + req[q].amount /\ ledger' = ledger /\ req[q].at = "giveBack" /\ Goto(q, "close")
    BY <1>5 DEF GiveBack, At
  <2>2. Becomes(q, req'[q]) /\ req'[q].at = "close"
    BY <1>1, <2>1, Moves, LabelSets DEF Fits, Labels
  <2> QED
    BY <1>1, <2>1, <2>2, LabelSets DEF BooksMove, Ahead
<1>6. CASE CloseRefund(q)
  <2>1. UNCHANGED books /\ req[q].at = "close" /\ Finish(q)
    BY <1>6 DEF CloseRefund, At
  <2> QED
    BY <1>1, <2>1, EndedBooks, LabelSets DEF BooksMove, books, Ahead
<1> QED
  BY <1>2, <1>3, <1>4, <1>5, <1>6 DEF Cancel

(* A request starts, and writes nothing yet. *)
LEMMA BeginMoves ==
    ASSUME TypeOK, NEW q \in Requests, NEW r, Begin(q, r), UNCHANGED books,
           r.at \in {"balance", "give", "cancel", "sum"},
           r.at \in Moving => ~Busy(Syncing), r.at \in Syncing => ~Busy(Moving)
    PROVE  BooksMove(q)
<1>1. Becomes(q, req'[q]) /\ req'[q] = r /\ req[q].at = "idle"
  BY ReqTyped DEF Begin, At, Becomes
<1>2. balance \in Int /\ ledger \in Int /\ Ahead(req[q]) = 0 /\ Ahead(r) = 0
  BY <1>1 DEF TypeOK, Ahead
<1> QED
  BY <1>1, <1>2, LabelSets DEF BooksMove, books

LEMMA StartMoves ==
    ASSUME TypeOK, NEW q \in Requests, ~disturbed',
           \/ StartSync(q)
           \/ \E f \in Fundings : StartFunding(q, f)
           \/ \E d \in Deliveries : StartPayment(q, d) \/ \E fee \in Fees : StartCancel(q, d, fee)
    PROVE  BooksMove(q)
<1>1. CASE StartSync(q)
  <2> DEFINE r == [Idle EXCEPT !.at = "sum", !.seen = balance]
  <2>1. r.at = "sum" /\ Begin(q, r) /\ UNCHANGED books /\ ~Busy(Moving)
    BY <1>1 DEF StartSync, Idle
  <2> HIDE DEF r
  <2> QED
    BY <2>1, BeginMoves, LabelSets
<1>2. CASE \E f \in Fundings : StartFunding(q, f)
  <2>1. PICK f \in Fundings : StartFunding(q, f)
    BY <1>2
  <2> DEFINE r == [Idle EXCEPT !.at = "give", !.amount = Amount[f]]
  <2>2. r.at = "give" /\ Begin(q, r) /\ UNCHANGED books /\ ~Busy(Syncing)
    BY <2>1 DEF StartFunding, Disturbs, Idle
  <2> HIDE DEF r
  <2> QED
    BY <2>2, BeginMoves, LabelSets
<1>3. ASSUME NEW d \in Deliveries, StartPayment(q, d)
      PROVE  BooksMove(q)
  <2> DEFINE r == [Idle EXCEPT !.at = "balance", !.del = d, !.amount = price[d]]
  <2>1. r.at = "balance" /\ Begin(q, r) /\ UNCHANGED books /\ ~Busy(Syncing)
    BY <1>3 DEF StartPayment, Disturbs, Idle
  <2> HIDE DEF r
  <2> QED
    BY <2>1, BeginMoves, LabelSets
<1>4. ASSUME NEW d \in Deliveries, NEW fee \in Fees, StartCancel(q, d, fee)
      PROVE  BooksMove(q)
  <2> DEFINE r == [Idle EXCEPT !.at = "cancel", !.del = d,
                   !.amount = IF status[d] = "paid" THEN price[d] - fee ELSE 0]
  <2>1. r.at = "cancel" /\ Begin(q, r) /\ UNCHANGED books
    BY <1>4 DEF StartCancel, Idle
  <2> HIDE DEF r
  <2> QED
    BY <2>1, BeginMoves, LabelSets
<1> QED
  BY <1>1, <1>2, <1>3, <1>4

(* What is set while nothing moves is the balance as it is. *)
LEMMA SetsAsItIs ==
    ASSUME TypeOK, DifferenceExplained, LooksAlone, NEW q \in Requests, SetBalance(q)
    PROVE  balance' = balance /\ balance = ledger
<1>1. req[q].at = "set" /\ req[q].amount = ledger
  BY DEF SetBalance, At, LooksAlone
<1>2. ~Busy(Moving)
  BY <1>1, LabelSets DEF LooksAlone, Busy
<1>3. \A p \in Requests : Ahead(req[p]) = 0
  BY <1>2, LabelSets DEF Busy, Ahead
<1>4. balance - ledger = 0
  BY <1>3, NothingAdds DEF DifferenceExplained
<1> QED
  BY <1>1, <1>4 DEF SetBalance, TypeOK

LEMMA SyncMoves ==
    ASSUME TypeOK, DifferenceExplained, LooksAlone, NEW q \in Requests, Sync(q)
    PROVE  BooksMove(q)
<1>1. balance \in Int /\ ledger \in Int /\ req[q] \in RequestType
  BY ReqTyped DEF TypeOK
<1>2. CASE SumLedger(q)
  <2>1. UNCHANGED books /\ req[q].at = "sum"
    BY <1>2 DEF SumLedger, At
  <2>2. CASE Finish(q)
    BY <1>1, <2>1, <2>2, EndedBooks, LabelSets DEF BooksMove, books, Ahead
  <2>3. CASE ~Finish(q)
    <3>1. req' = [req EXCEPT ![q].at = "set", ![q].amount = ledger]
      BY <1>2, <2>3 DEF SumLedger
    <3>2. Becomes(q, req'[q]) /\ req'[q].at = "set" /\ req'[q].amount = ledger
      BY <1>1, <3>1, ReqTyped DEF Becomes, RequestType
    <3> QED
      BY <1>1, <2>1, <3>2, LabelSets DEF BooksMove, books, Ahead
  <2> QED
    BY <2>2, <2>3
<1>3. CASE SetBalance(q)
  <2>1. balance' = balance /\ ledger' = ledger /\ req[q].at = "set" /\ Finish(q)
    BY <1>3, SetsAsItIs DEF SetBalance, At
  <2> QED
    BY <1>1, <2>1, EndedBooks, LabelSets DEF BooksMove, Ahead
<1> QED
  BY <1>2, <1>3 DEF Sync

(* Only a request moves the books; failures and disturbances stay.         *)
StepOf(q) ==
    \/ Pay(q) \/ Fund(q) \/ Cancel(q) \/ Sync(q) \/ StartSync(q)
    \/ \E f \in Fundings : StartFunding(q, f)
    \/ \E d \in Deliveries : StartPayment(q, d) \/ \E fee \in Fees : StartCancel(q, d, fee)

LEMMA Steps ==
    ASSUME TypeOK, [Next]_vars, Undisturbed'
    PROVE  /\ Undisturbed
           /\ \/ \E q \in Requests : StepOf(q)
              \/ UNCHANGED <<books, req>>
<1>1. faults \in Nat /\ disturbed \in BOOLEAN
  BY DEF TypeOK
<1>2. ASSUME NEW q \in Requests, Fail(q) PROVE FALSE
  BY <1>1, <1>2 DEF Fail, Undisturbed
<1>3. ASSUME NEW q \in Requests, StepOf(q) PROVE Undisturbed
  <2>1. CASE Pay(q)
    BY <2>1 DEF Pay, CheckBalance, RecordPayment, EnterDebit, TakeMoney, MarkPaid,
                history, bounds, Undisturbed
  <2>2. CASE Fund(q)
    BY <2>2 DEF Fund, GiveMoney, EnterCredit, history, bounds, Undisturbed
  <2>3. CASE Cancel(q)
    <3>1. faults' = faults /\ (disturbed' = disturbed \/ Disturbs)
      BY <2>3 DEF Cancel, CancelDelivery, FindPayment, EnterRefund, GiveBack, CloseRefund,
                  history, bounds
    <3> QED
      BY <1>1, <3>1 DEF Disturbs, Undisturbed
  <2>4. CASE Sync(q) \/ StartSync(q)
    <3>1. faults' = faults /\ (disturbed' = disturbed \/ disturbed' = (disturbed \/ Busy(Moving)))
      BY <2>4 DEF Sync, SumLedger, SetBalance, StartSync, history, bounds
    <3> QED
      BY <1>1, <3>1 DEF Undisturbed
  <2>5. CASE \E f \in Fundings : StartFunding(q, f)
    <3>1. faults' = faults /\ Disturbs
      BY <2>5 DEF StartFunding, bounds
    <3> QED
      BY <1>1, <3>1 DEF Disturbs, Undisturbed
  <2>6. CASE \E d \in Deliveries : StartPayment(q, d) \/ \E fee \in Fees : StartCancel(q, d, fee)
    <3>1. faults' = faults /\ (disturbed' = disturbed \/ Disturbs)
      BY <2>6 DEF StartPayment, StartCancel, bounds
    <3> QED
      BY <1>1, <3>1 DEF Disturbs, Undisturbed
  <2> QED
    BY <1>3, <2>1, <2>2, <2>3, <2>4, <2>5, <2>6 DEF StepOf
<1>4. ASSUME NEW d \in Deliveries,
             OpenCardPayment(d) \/ (\E n \in NewPrices : AdjustPrice(d, n))
      PROVE  Undisturbed /\ UNCHANGED <<books, req>>
  BY <1>4 DEF OpenCardPayment, AdjustPrice, history, bounds, Undisturbed
<1>5. CASE UNCHANGED vars
  BY <1>5 DEF vars, history, bounds, Undisturbed
<1>6. CASE Next
  BY <1>2, <1>3, <1>4, <1>6 DEF Next, StepOf
<1> QED
  BY <1>5, <1>6

LEMMA BooksStep == WalletInv /\ BooksInv /\ [Next]_vars => BooksInv'
<1> SUFFICES ASSUME WalletInv, BooksInv, [Next]_vars, Undisturbed'
             PROVE  DifferenceExplained' /\ LooksAlone'
  BY DEF BooksInv
<1>1. TypeOK /\ TypeOK'
  BY StepInv DEF WalletInv
<1>2. DifferenceExplained /\ LooksAlone
  BY <1>1, Steps DEF BooksInv
<1>3. ASSUME NEW q \in Requests, StepOf(q)
      PROVE  DifferenceExplained' /\ LooksAlone'
  <2>1. BooksMove(q)
    BY <1>1, <1>2, <1>3, PayMoves, FundMoves, CancelMoves, SyncMoves, StartMoves
    DEF StepOf, Undisturbed
  <2> QED
    BY <1>1, <1>2, <2>1, BooksKept
<1>4. CASE UNCHANGED <<books, req>>
  <2>1. balance' = balance /\ ledger' = ledger /\ req' = req
    BY <1>4 DEF books
  <2>2. \A g : AddsUp(g) => AddsUp(g)'
    BY <2>1 DEF AddsUp
  <2> QED
    BY <1>2, <2>1, <2>2 DEF DifferenceExplained, LooksAlone, Busy
<1> QED
  BY <1>1, <1>3, <1>4, Steps

LEMMA BooksInit == Init => BooksInv
<1> SUFFICES ASSUME Init PROVE DifferenceExplained /\ LooksAlone
  BY DEF BooksInv
<1>1. \A q \in Requests : req[q].at = "idle" /\ Ahead(req[q]) = 0
  BY IdleTyped DEF Init, Ahead
<1> DEFINE g == [T \in SUBSET Requests |-> 0]
<1>2. AddsUp(g)
  BY <1>1 DEF AddsUp
<1>3. balance - ledger = g[Requests]
  BY DEF Init
<1>4. DifferenceExplained
  <2> HIDE DEF g
  <2> QED
    BY <1>2, <1>3 DEF DifferenceExplained
<1> QED
  BY <1>1, <1>4, LabelSets DEF LooksAlone, Busy

LEMMA AlwaysBooks == Spec => [](WalletInv /\ BooksInv)
  BY InitInv, BooksInit, StepInv, BooksStep, PTL DEF Spec

(* When no request is being served the balance is what the ledger says,    *)
(* unless a request stopped half way or money moved while the balance was  *)
(* being overwritten: for every number of requests that overlap.           *)
THEOREM BooksAgreeHolds == Spec => []BooksAgree
<1>1. ASSUME WalletInv, BooksInv
      PROVE  BooksAgree
  <2>1. TypeOK
    BY <1>1 DEF WalletInv
  <2>2. ASSUME AtRest, faults = 0, ~disturbed PROVE balance = ledger
    <3>1. \A q \in Requests : Ahead(req[q]) = 0
      BY <2>2 DEF AtRest, At, Ahead
    <3>2. balance - ledger = 0
      BY <1>1, <2>2, <3>1, NothingAdds DEF BooksInv, Undisturbed, DifferenceExplained
    <3> QED
      BY <2>1, <3>2 DEF TypeOK
  <2> QED
    BY <2>1, <2>2 DEF BooksAgree
<1> QED
  BY <1>1, AlwaysBooks, PTL

-----------------------------------------------------------------------------
(* What is left in the wallet.                                             *)

Owing == {"record", "debit", "take"}

(* What a step of request q does to the balance: it takes only what it     *)
(* found there, and does not start to pay beside another payment.          *)
CoveredMove(q) ==
    /\ Becomes(q, req'[q])
    /\ \/ balance' >= balance
       \/ /\ req[q].at \in Owing /\ balance' = balance - req[q].amount
          /\ req'[q].at \notin Owing
    /\ req'[q].at \in Paying => req[q].at \in Paying \/ ~Busy(Paying)
    /\ req'[q].at \in Owing =>
          \/ req[q].at \in Owing /\ req'[q].amount = req[q].amount
          \/ req'[q].amount <= balance'

LEMMA CoveredKept ==
    ASSUME TypeOK, TypeOK', Covered, NEW q \in Requests, CoveredMove(q)
    PROVE  Covered'
<1>1. \A p \in Requests : p = q \/ req'[p] = req[p]
  BY DEF CoveredMove, Becomes
<1>2. balance \in Int /\ balance' \in Int
      /\ \A p \in Requests : req[p].amount \in Int /\ req'[p].amount \in Int
  BY DEF TypeOK, RequestType
<1>3. Owing \subseteq Paying
  BY LabelSets DEF Owing
<1>4. balance' >= 0
  BY <1>2 DEF CoveredMove, Covered, Owing
<1>5. ASSUME NEW p \in Requests, NEW r \in Requests, req'[p].at \in Paying, req'[r].at \in Paying
      PROVE  p = r
  BY <1>1, <1>5 DEF CoveredMove, Covered, Busy
<1>6. ASSUME NEW p \in Requests, req'[p].at \in Owing
      PROVE  req'[p].amount <= balance'
  <2>1. CASE balance' >= balance
    BY <1>1, <1>2, <1>6, <2>1 DEF CoveredMove, Covered, Owing
  <2>2. CASE req[q].at \in Owing /\ req'[q].at \notin Owing
    BY <1>1, <1>3, <1>6, <2>2 DEF Covered
  <2> QED
    BY <2>1, <2>2 DEF CoveredMove
<1> QED
  BY <1>4, <1>5, <1>6 DEF Covered, Owing

(* Nobody but a payment takes anything. *)
LEMMA NotPaying ==
    ASSUME TypeOK, NEW q \in Requests, BooksMove(q), req'[q].at \notin Paying, balance' >= balance
    PROVE  CoveredMove(q)
  BY LabelSets DEF BooksMove, CoveredMove, Owing

LEMMA PayCovers ==
    ASSUME TypeOK, NEW q \in Requests, Pay(q)
    PROVE  CoveredMove(q)
<1>1. Fits(req[q]) /\ req[q].amount \in Int /\ balance \in Int
  BY ReqTyped DEF TypeOK, Fits, RequestType
<1>2. BooksMove(q)
  BY PayMoves
<1>3. CASE CheckBalance(q)
  <2>1. balance' = balance /\ req[q].at = "balance"
    BY <1>3 DEF CheckBalance, At, books
  <2>2. CASE Finish(q)
    BY <1>1, <1>2, <2>1, <2>2, EndedBooks, NotPaying, LabelSets
  <2>3. CASE req[q].amount <= balance /\ Goto(q, "record")
    <3>1. Becomes(q, req'[q]) /\ req'[q].at = "record" /\ req'[q].amount = req[q].amount
      BY <1>1, <2>1, <2>3, Moves, LabelSets DEF Fits, Labels
    <3> QED
      BY <1>1, <2>1, <2>3, <3>1, LabelSets DEF CoveredMove, Owing
  <2> QED
    BY <1>1, <1>3, <2>2, <2>3 DEF CheckBalance
<1>4. CASE RecordPayment(q)
  <2>1. balance' = balance /\ req[q].at = "record" /\ Goto(q, "debit")
    BY <1>4 DEF RecordPayment, At, books
  <2>2. Becomes(q, req'[q]) /\ req'[q].at = "debit" /\ req'[q].amount = req[q].amount
    BY <1>1, <2>1, Moves, LabelSets DEF Fits, Labels
  <2> QED
    BY <1>1, <2>1, <2>2, LabelSets DEF CoveredMove, Owing
<1>5. CASE EnterDebit(q)
  <2>1. balance' = balance /\ req[q].at = "debit" /\ Goto(q, "take")
    BY <1>5 DEF EnterDebit, At
  <2>2. Becomes(q, req'[q]) /\ req'[q].at = "take" /\ req'[q].amount = req[q].amount
    BY <1>1, <2>1, Moves, LabelSets DEF Fits, Labels
  <2> QED
    BY <1>1, <2>1, <2>2, LabelSets DEF CoveredMove, Owing
<1>6. CASE TakeMoney(q)
  <2>1. balance' = balance - req[q].amount /\ req[q].at = "take" /\ Goto(q, "mark")
    BY <1>6 DEF TakeMoney, At
  <2>2. Becomes(q, req'[q]) /\ req'[q].at = "mark"
    BY <1>1, <2>1, Moves, LabelSets DEF Fits, Labels
  <2> QED
    BY <1>1, <2>1, <2>2, LabelSets DEF CoveredMove, Owing
<1>7. CASE MarkPaid(q)
  <2>1. balance' = balance /\ Finish(q)
    BY <1>7 DEF MarkPaid, books
  <2> QED
    BY <1>1, <1>2, <2>1, EndedBooks, NotPaying, LabelSets
<1> QED
  BY <1>3, <1>4, <1>5, <1>6, <1>7 DEF Pay

(* What fundings and refunds move they add. *)
LEMMA OthersCover ==
    ASSUME TypeOK, DifferenceExplained, LooksAlone, NEW q \in Requests, ~disturbed',
           Fund(q) \/ Cancel(q) \/ Sync(q)
    PROVE  CoveredMove(q)
<1>1. Fits(req[q]) /\ req[q].amount \in Int /\ balance \in Int
  BY ReqTyped DEF TypeOK, Fits, RequestType
<1>2. BooksMove(q)
  BY FundMoves, CancelMoves, SyncMoves
<1>3. balance' >= balance
  <2>1. CASE SetBalance(q)
    BY <1>1, <2>1, SetsAsItIs
  <2>2. CASE GiveMoney(q) \/ GiveBack(q)
    BY <1>1, <2>2, LabelSets DEF GiveMoney, GiveBack, At, Fits
  <2>3. CASE balance' = balance
    BY <1>1, <2>3
  <2> QED
    BY <2>1, <2>2, <2>3 DEF Fund, Cancel, Sync, EnterCredit, CancelDelivery, FindPayment, EnterRefund,
       CloseRefund, SumLedger, books
<1>4. req'[q].at \notin Paying
  <2>1. req[q] \in RequestType /\ q \in DOMAIN req
    BY ReqTyped
  <2>2. Finish(q) \/ (\E l \in {"credit", "find", "refund", "giveBack", "close", "set"} : req'[q].at = l)
    BY <2>1 DEF Fund, Cancel, Sync, GiveMoney, EnterCredit, CancelDelivery, FindPayment, EnterRefund,
           GiveBack, CloseRefund, SumLedger, SetBalance, Goto, RequestType
  <2> QED
    BY <2>2, EndedBooks, LabelSets
<1> QED
  BY <1>2, <1>3, <1>4, NotPaying

LEMMA StartCovers ==
    ASSUME TypeOK, NEW q \in Requests, ~disturbed', ~overlapped',
           \/ StartSync(q)
           \/ \E f \in Fundings : StartFunding(q, f)
           \/ \E d \in Deliveries : StartPayment(q, d) \/ \E fee \in Fees : StartCancel(q, d, fee)
    PROVE  CoveredMove(q)
<1>1. BooksMove(q) /\ balance \in Int
  BY StartMoves DEF TypeOK
<1>2. balance' >= balance
  <2>1. UNCHANGED books
    <3>1. CASE StartSync(q) \/ (\E f \in Fundings : StartFunding(q, f))
      BY <3>1 DEF StartSync, StartFunding
    <3>2. CASE \E d \in Deliveries : StartPayment(q, d) \/ \E fee \in Fees : StartCancel(q, d, fee)
      BY <3>2 DEF StartPayment, StartCancel
    <3> QED
      BY <3>1, <3>2
  <2> QED
    BY <1>1, <2>1 DEF books
<1>3. CASE \E d \in Deliveries : StartPayment(q, d)
  <2>1. ~Busy(Paying)
    BY <1>3 DEF StartPayment
  <2>2. req'[q].at = "balance"
    <3>1. PICK d \in Deliveries : StartPayment(q, d)
      BY <1>3
    <3> QED
      BY <3>1, ReqTyped DEF StartPayment, Begin, Idle
  <2> QED
    BY <1>1, <1>2, <2>1, <2>2 DEF BooksMove, CoveredMove, Owing
<1>4. CASE \/ StartSync(q)
           \/ \E f \in Fundings : StartFunding(q, f)
           \/ \E d \in Deliveries, fee \in Fees : StartCancel(q, d, fee)
  <2>1. req'[q].at \in {"sum", "give", "cancel"}
    <3>1. CASE StartSync(q) \/ (\E f \in Fundings : StartFunding(q, f))
      BY <3>1, ReqTyped DEF StartSync, StartFunding, Begin, Idle
    <3>2. CASE \E d \in Deliveries, fee \in Fees : StartCancel(q, d, fee)
      <4>1. PICK d \in Deliveries, fee \in Fees : StartCancel(q, d, fee)
        BY <3>2
      <4>2. PICK n : n = IF status[d] = "paid" THEN price[d] - fee ELSE 0
        OBVIOUS
      <4>3. req' = [req EXCEPT ![q] = [Idle EXCEPT !.at = "cancel", !.del = d, !.amount = n]]
        BY <4>1, <4>2 DEF StartCancel, Begin
      <4>4. DOMAIN req = Requests
        BY ReqTyped
      <4>5. [Idle EXCEPT !.at = "cancel", !.del = d, !.amount = n].at = "cancel"
        BY DEF Idle
      <4> QED
        BY <4>3, <4>4, <4>5
    <3> QED
      BY <1>4, <3>1, <3>2
  <2> QED
    BY <1>1, <1>2, <2>1, NotPaying, LabelSets
<1> QED
  BY <1>3, <1>4

LEMMA OverdraftStep == WalletInv /\ BooksInv /\ OverdraftInv /\ [Next]_vars => OverdraftInv'
<1> SUFFICES ASSUME WalletInv, BooksInv, OverdraftInv, [Next]_vars, Undisturbed', ~overlapped'
             PROVE  Covered'
  BY DEF OverdraftInv
<1>1. TypeOK /\ TypeOK'
  BY StepInv DEF WalletInv
<1>2. Undisturbed /\ DifferenceExplained /\ LooksAlone
  BY <1>1, Steps DEF BooksInv
<1>3. ~overlapped
  <2>1. overlapped \in BOOLEAN
    BY <1>1 DEF TypeOK
  <2>2. overlapped' = overlapped \/ overlapped' = (overlapped \/ Busy(Paying))
    <3>1. ASSUME NEW q \in Requests, StepOf(q)
          PROVE  overlapped' = overlapped \/ overlapped' = (overlapped \/ Busy(Paying))
      <4>1. CASE Pay(q) \/ Fund(q)
        BY <4>1 DEF Pay, CheckBalance, RecordPayment, EnterDebit, TakeMoney, MarkPaid,
                    Fund, GiveMoney, EnterCredit, history, flags
      <4>2. CASE Cancel(q) \/ Sync(q) \/ StartSync(q)
        BY <4>2 DEF Cancel, CancelDelivery, FindPayment, EnterRefund, GiveBack, CloseRefund,
                    Sync, SumLedger, SetBalance, StartSync, history, flags
      <4>3. CASE \/ \E f \in Fundings : StartFunding(q, f)
                 \/ \E d \in Deliveries : StartPayment(q, d) \/ \E fee \in Fees : StartCancel(q, d, fee)
        BY <4>3 DEF StartFunding, StartPayment, StartCancel, flags
      <4> QED
        BY <3>1, <4>1, <4>2, <4>3 DEF StepOf
    <3>2. ASSUME NEW d \in Deliveries,
                 OpenCardPayment(d) \/ (\E n \in NewPrices : AdjustPrice(d, n))
          PROVE  overlapped' = overlapped
      BY <3>2 DEF OpenCardPayment, AdjustPrice, history, flags
    <3>3. ASSUME NEW q \in Requests, Fail(q) PROVE overlapped' = overlapped
      BY <3>3 DEF Fail, history, flags
    <3>4. CASE UNCHANGED vars
      BY <3>4 DEF vars, history, flags
    <3>5. CASE Next
      BY <3>1, <3>2, <3>3, <3>5 DEF Next, StepOf
    <3> QED
      BY <3>4, <3>5
  <2> QED
    BY <2>1, <2>2
<1>4. Covered
  BY <1>2, <1>3 DEF OverdraftInv
<1>5. ASSUME NEW q \in Requests, StepOf(q)
      PROVE  Covered'
  <2>1. CoveredMove(q)
    BY <1>1, <1>2, <1>5, PayCovers, OthersCover, StartCovers DEF StepOf, Undisturbed
  <2> QED
    BY <1>1, <1>4, <2>1, CoveredKept
<1>6. CASE UNCHANGED <<books, req>>
  BY <1>4, <1>6 DEF Covered, books
<1> QED
  BY <1>1, <1>5, <1>6, Steps

LEMMA OverdraftInit == Init => OverdraftInv
<1> SUFFICES ASSUME Init PROVE Covered
  BY DEF OverdraftInv
<1>1. balance = 0 /\ \A q \in Requests : req[q].at = "idle"
  BY IdleTyped DEF Init
<1> QED
  BY <1>1, LabelSets DEF Covered

(* As long as payments from it do not overlap, and nothing stopped half    *)
(* way or disturbed the books, a wallet is never overdrawn: what a payment *)
(* saw in it is there until the payment takes it.                          *)
THEOREM NeverOverdrawn == Spec => []NotOverdrawn
<1>1. Init => OverdraftInv
  BY OverdraftInit
<1>2. WalletInv /\ BooksInv /\ OverdraftInv /\ [Next]_vars => OverdraftInv'
  BY OverdraftStep
<1>3. OverdraftInv => NotOverdrawn
  BY DEF OverdraftInv, NotOverdrawn, Undisturbed, Covered
<1> QED
  BY <1>1, <1>2, <1>3, AlwaysBooks, PTL DEF Spec
=============================================================================
