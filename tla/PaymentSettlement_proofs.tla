---------------------- MODULE PaymentSettlement_proofs ----------------------
(***************************************************************************)
(* Proofs about PaymentSettlement: what a handler may rely on when it      *)
(* writes (SettlementInv), what the ledger and the cache hold, and that    *)
(* handlers which take turns would credit a payment once (SerialInv).      *)
(***************************************************************************)
EXTENDS PaymentSettlement, FiniteSetTheorems, TLAPS

(* A payment that was not created has no delivery, no transaction and no   *)
(* handler: nothing runs ahead of the document.                            *)
NothingBeforeDocument ==
    /\ \A p \in Payments : payStatus[p] = "none" =>
          payFor[p] = NoDelivery /\ monnify[p] = "none" /\ notices[p] = 0
    /\ \A h \in Handlers : hPay[h] # NoPayment => payStatus[hPay[h]] # "none"

TypeInv == TypeOK /\ NothingBeforeDocument

USE DEF Absent, Status, PayStatus, Settled, Labels

LEMMA TypeInit == Init => TypeInv
<1> SUFFICES ASSUME Init PROVE TypeInv
  OBVIOUS
<1> USE ConstantsAssumption DEF Init
<1>1. PaymentTypeOK
  BY DEF PaymentTypeOK
<1>2. DeliveryTypeOK
  BY DEF DeliveryTypeOK
<1>3. WalletTypeOK
  BY DEF WalletTypeOK
<1>4. HandlerTypeOK
  BY DEF HandlerTypeOK
<1>5. \A h \in Handlers : Holds(h, pc[h])
  BY DEF Holds, OnPayment, OnFunding, OnPaidDelivery, OnDelivery
<1>6. NothingBeforeDocument
  BY DEF NothingBeforeDocument
<1>7. QED
  BY <1>1, <1>2, <1>3, <1>4, <1>5, <1>6 DEF TypeInv, TypeOK

(* A handler that moves on keeps what it holds. *)
LEMMA GotoHolds ==
    ASSUME TypeInv, NEW h \in Handlers, NEW l \in Labels,
           Goto(h, l), UNCHANGED payFor, Holds(h, l)
    PROVE  HandlerTypeOK' /\ \A g \in Handlers : Holds(g, pc[g])'
<1>1. HandlerTypeOK'
  BY DEF TypeInv, TypeOK, HandlerTypeOK, Goto, locals
<1>2. ASSUME NEW g \in Handlers PROVE Holds(g, pc[g])'
  <2>1. CASE g = h
    BY <2>1 DEF TypeInv, TypeOK, HandlerTypeOK, Goto, locals, Holds
  <2>2. CASE g # h
    BY <2>2 DEF TypeInv, TypeOK, HandlerTypeOK, Goto, locals, Holds
  <2>3. QED
    BY <2>1, <2>2
<1>3. QED
  BY <1>1, <1>2

(* A handler that ends holds nothing. *)
LEMMA FinishHolds ==
    ASSUME TypeInv, NEW h \in Handlers, Finish(h), UNCHANGED payFor
    PROVE  HandlerTypeOK' /\ \A g \in Handlers : Holds(g, pc[g])'
<1>1. HandlerTypeOK'
  BY DEF TypeInv, TypeOK, HandlerTypeOK, Finish
<1>2. ASSUME NEW g \in Handlers PROVE Holds(g, pc[g])'
  <2>1. CASE g = h
    BY <2>1 DEF TypeInv, TypeOK, HandlerTypeOK, Finish, Holds, OnPayment, OnFunding, OnPaidDelivery, OnDelivery
  <2>2. CASE g # h
    BY <2>2 DEF TypeInv, TypeOK, HandlerTypeOK, Finish, Holds
  <2>3. QED
    BY <2>1, <2>2
<1>3. QED
  BY <1>1, <1>2

(* A request that starts on a payment, or on a delivery, holds it. *)
LEMMA StartOnPaymentHolds ==
    ASSUME TypeInv, NEW h \in Handlers, NEW p \in Payments, NEW l \in OnPayment,
           StartOnPayment(h, p, l), UNCHANGED payFor
    PROVE  HandlerTypeOK' /\ \A g \in Handlers : Holds(g, pc[g])'
<1>1. HandlerTypeOK'
  BY DEF TypeInv, TypeOK, PaymentTypeOK, HandlerTypeOK, WalletTypeOK, StartOnPayment, OnPayment
<1>2. ASSUME NEW g \in Handlers PROVE Holds(g, pc[g])'
  <2>1. CASE g = h
    BY <2>1 DEF TypeInv, TypeOK, HandlerTypeOK, StartOnPayment, Holds, OnPayment, OnFunding, OnPaidDelivery, OnDelivery
  <2>2. CASE g # h
    BY <2>2 DEF TypeInv, TypeOK, HandlerTypeOK, StartOnPayment, Holds
  <2>3. QED
    BY <2>1, <2>2
<1>3. QED
  BY <1>1, <1>2

LEMMA StartOnDeliveryHolds ==
    ASSUME TypeInv, NEW h \in Handlers, NEW d \in Deliveries, NEW l \in OnDelivery,
           NEW paid \in BOOLEAN, StartOnDelivery(h, d, l, paid), UNCHANGED payFor
    PROVE  HandlerTypeOK' /\ \A g \in Handlers : Holds(g, pc[g])'
<1>1. HandlerTypeOK'
  BY DEF TypeInv, TypeOK, HandlerTypeOK, StartOnDelivery, OnDelivery
<1>2. ASSUME NEW g \in Handlers PROVE Holds(g, pc[g])'
  <2>1. CASE g = h
    BY <2>1 DEF TypeInv, TypeOK, HandlerTypeOK, StartOnDelivery, Holds, OnPayment, OnFunding, OnPaidDelivery, OnDelivery
  <2>2. CASE g # h
    BY <2>2 DEF TypeInv, TypeOK, HandlerTypeOK, StartOnDelivery, Holds
  <2>3. QED
    BY <2>1, <2>2
<1>3. QED
  BY <1>1, <1>2

(* NothingBeforeDocument survives a step that opens no payment and moves   *)
(* no handler to a payment that is not open.                               *)
LEMMA DocumentsStay ==
    ASSUME TypeInv, PaymentTypeOK', UNCHANGED <<payFor, monnify>>,
           \A p \in Payments :
               payStatus'[p] = "none" => payStatus[p] = "none" /\ notices'[p] <= notices[p],
           \A g \in Handlers :
               hPay'[g] # NoPayment => hPay'[g] \in Payments /\ payStatus[hPay'[g]] # "none"
    PROVE  NothingBeforeDocument'
  BY ConstantsAssumption DEF TypeInv, TypeOK, PaymentTypeOK, NothingBeforeDocument

(* A handler's own steps. *)
LEMMA StepType ==
    ASSUME TypeInv, NEW h \in Handlers, Step(h) PROVE TypeInv'
<1> USE ConstantsAssumption DEF payVars, provVars, reqVars, delVars, walVars
<1>1. CASE Verify(h)
  <2>1. PaymentTypeOK' /\ DeliveryTypeOK' /\ WalletTypeOK'
    BY <1>1 DEF TypeInv, TypeOK, PaymentTypeOK, DeliveryTypeOK, WalletTypeOK, Verify
  <2>2. HandlerTypeOK' /\ \A g \in Handlers : Holds(g, pc[g])'
    BY <1>1, GotoHolds, FinishHolds DEF TypeInv, TypeOK, HandlerTypeOK, Verify, Successful, Unsuccessful, Holds, OnPayment, OnFunding, OnPaidDelivery, OnDelivery
  <2>3. NothingBeforeDocument'
    BY <1>1, <2>1, <2>2, DocumentsStay
    DEF TypeInv, TypeOK, PaymentTypeOK, HandlerTypeOK, NothingBeforeDocument, Goto, Finish, locals, Verify
  <2>4. QED
    BY <2>1, <2>2, <2>3 DEF TypeInv, TypeOK
<1>2. CASE ReadForSuccess(h)
  <2>1. PaymentTypeOK' /\ DeliveryTypeOK' /\ WalletTypeOK'
    BY <1>2 DEF TypeInv, TypeOK, PaymentTypeOK, DeliveryTypeOK, WalletTypeOK, ReadForSuccess
  <2>2. HandlerTypeOK' /\ \A g \in Handlers : Holds(g, pc[g])'
    BY <1>2, GotoHolds, FinishHolds DEF TypeInv, TypeOK, HandlerTypeOK, ReadForSuccess, Holds, OnPayment, OnFunding, OnPaidDelivery, OnDelivery
  <2>3. NothingBeforeDocument'
    BY <1>2, <2>1, <2>2, DocumentsStay
    DEF TypeInv, TypeOK, PaymentTypeOK, HandlerTypeOK, NothingBeforeDocument, Goto, Finish, locals, ReadForSuccess
  <2>4. QED
    BY <2>1, <2>2, <2>3 DEF TypeInv, TypeOK
<1>3. CASE MarkPaid(h)
  <2>1. DeliveryTypeOK' /\ WalletTypeOK'
    BY <1>3 DEF TypeInv, TypeOK, DeliveryTypeOK, WalletTypeOK, MarkPaid
  <2>2. PaymentTypeOK'
    BY <1>3 DEF TypeInv, TypeOK, PaymentTypeOK, HandlerTypeOK, MarkPaid, Holds, OnPayment, OnFunding, OnPaidDelivery, OnDelivery
  <2>3. HandlerTypeOK' /\ \A g \in Handlers : Holds(g, pc[g])'
    <3>1. PICK l \in Labels :
             /\ l = IF hDel[h] = NoDelivery THEN "checkLedger" ELSE "findDelivery"
             /\ Goto(h, l) /\ UNCHANGED payFor
      BY <1>3 DEF MarkPaid
    <3>2. pc[h] = "markPaid" /\ Holds(h, pc[h]) /\ hDel[h] \in Deliveries \cup {NoDelivery}
      BY <1>3 DEF MarkPaid, TypeInv, TypeOK, HandlerTypeOK
    <3>3. hPay[h] \in Payments /\ hDel[h] = payFor[hPay[h]]
      BY <3>2 DEF Holds, OnPayment
    <3>4. Holds(h, l)
      BY <3>1, <3>2, <3>3 DEF Holds, OnPayment, OnFunding, OnPaidDelivery, OnDelivery
    <3>5. QED
      BY <3>1, <3>4, GotoHolds
  <2>4. NothingBeforeDocument'
    BY <1>3, <2>1, <2>2, DocumentsStay
    DEF TypeInv, TypeOK, PaymentTypeOK, HandlerTypeOK, NothingBeforeDocument, Goto, locals, MarkPaid, Holds, OnPayment, OnFunding, OnPaidDelivery, OnDelivery
  <2>5. QED
    BY <2>1, <2>2, <2>3, <2>4 DEF TypeInv, TypeOK
<1>4. CASE CheckLedger(h)
  <2>1. PaymentTypeOK' /\ DeliveryTypeOK' /\ WalletTypeOK'
    BY <1>4 DEF TypeInv, TypeOK, PaymentTypeOK, DeliveryTypeOK, WalletTypeOK, CheckLedger
  <2>2. HandlerTypeOK' /\ \A g \in Handlers : Holds(g, pc[g])'
    BY <1>4, GotoHolds, FinishHolds DEF TypeInv, TypeOK, HandlerTypeOK, CheckLedger, Holds, OnPayment, OnFunding, OnPaidDelivery, OnDelivery
  <2>3. NothingBeforeDocument'
    BY <1>4, <2>1, <2>2, DocumentsStay
    DEF TypeInv, TypeOK, PaymentTypeOK, HandlerTypeOK, NothingBeforeDocument, Goto, Finish, locals, CheckLedger
  <2>4. QED
    BY <2>1, <2>2, <2>3 DEF TypeInv, TypeOK
<1>5. CASE IncBalance(h)
  <2>1. PaymentTypeOK' /\ DeliveryTypeOK'
    BY <1>5 DEF TypeInv, TypeOK, PaymentTypeOK, DeliveryTypeOK, IncBalance
  <2>2. WalletTypeOK'
    BY <1>5 DEF TypeInv, TypeOK, WalletTypeOK, HandlerTypeOK, IncBalance, Holds, OnPayment, OnFunding, OnPaidDelivery, OnDelivery
  <2>3. HandlerTypeOK' /\ \A g \in Handlers : Holds(g, pc[g])'
    BY <1>5, GotoHolds DEF TypeInv, TypeOK, HandlerTypeOK, IncBalance, Holds, OnPayment, OnFunding, OnPaidDelivery, OnDelivery
  <2>4. NothingBeforeDocument'
    BY <1>5, <2>1, <2>2, DocumentsStay
    DEF TypeInv, TypeOK, PaymentTypeOK, HandlerTypeOK, NothingBeforeDocument, Goto, locals, IncBalance
  <2>5. QED
    BY <2>1, <2>2, <2>3, <2>4 DEF TypeInv, TypeOK
<1>6. CASE InsertLedger(h)
  <2>1. PaymentTypeOK' /\ DeliveryTypeOK'
    BY <1>6 DEF TypeInv, TypeOK, PaymentTypeOK, DeliveryTypeOK, InsertLedger
  <2>2. WalletTypeOK'
    BY <1>6 DEF TypeInv, TypeOK, WalletTypeOK, HandlerTypeOK, InsertLedger, Holds, OnPayment, OnFunding, OnPaidDelivery, OnDelivery
  <2>3. HandlerTypeOK' /\ \A g \in Handlers : Holds(g, pc[g])'
    BY <1>6, FinishHolds DEF InsertLedger
  <2>4. NothingBeforeDocument'
    BY <1>6, <2>1, <2>2, DocumentsStay
    DEF TypeInv, TypeOK, PaymentTypeOK, HandlerTypeOK, NothingBeforeDocument, Finish, InsertLedger
  <2>5. QED
    BY <2>1, <2>2, <2>3, <2>4 DEF TypeInv, TypeOK
<1>7. CASE FindDelivery(h)
  <2>1. PaymentTypeOK' /\ DeliveryTypeOK' /\ WalletTypeOK'
    BY <1>7 DEF TypeInv, TypeOK, PaymentTypeOK, DeliveryTypeOK, WalletTypeOK, FindDelivery
  <2>2. HandlerTypeOK' /\ \A g \in Handlers : Holds(g, pc[g])'
    BY <1>7, GotoHolds DEF TypeInv, TypeOK, HandlerTypeOK, FindDelivery, Holds, OnPayment, OnFunding, OnPaidDelivery, OnDelivery
  <2>3. NothingBeforeDocument'
    BY <1>7, <2>1, <2>2, DocumentsStay
    DEF TypeInv, TypeOK, PaymentTypeOK, HandlerTypeOK, NothingBeforeDocument, Goto, locals, FindDelivery
  <2>4. QED
    BY <2>1, <2>2, <2>3 DEF TypeInv, TypeOK
<1>8. CASE GetPending(h)
  <2>1. PaymentTypeOK' /\ DeliveryTypeOK' /\ WalletTypeOK'
    BY <1>8 DEF TypeInv, TypeOK, PaymentTypeOK, DeliveryTypeOK, WalletTypeOK, GetPending
  <2>2. HandlerTypeOK' /\ \A g \in Handlers : Holds(g, pc[g])'
    BY <1>8, GotoHolds, FinishHolds DEF TypeInv, TypeOK, HandlerTypeOK, GetPending, Holds, OnPayment, OnFunding, OnPaidDelivery, OnDelivery
  <2>3. NothingBeforeDocument'
    BY <1>8, <2>1, <2>2, DocumentsStay
    DEF TypeInv, TypeOK, PaymentTypeOK, HandlerTypeOK, NothingBeforeDocument, Goto, Finish, locals, GetPending
  <2>4. QED
    BY <2>1, <2>2, <2>3 DEF TypeInv, TypeOK
<1>9. CASE CreateDelivery(h)
  <2>1. PaymentTypeOK' /\ WalletTypeOK'
    BY <1>9 DEF TypeInv, TypeOK, PaymentTypeOK, WalletTypeOK, CreateDelivery
  <2>2. DeliveryTypeOK'
    BY <1>9 DEF TypeInv, TypeOK, DeliveryTypeOK, HandlerTypeOK, CreateDelivery, Holds, OnPayment, OnFunding, OnPaidDelivery, OnDelivery
  <2>3. HandlerTypeOK' /\ \A g \in Handlers : Holds(g, pc[g])'
    BY <1>9, GotoHolds, FinishHolds DEF TypeInv, TypeOK, HandlerTypeOK, CreateDelivery, Holds, OnPayment, OnFunding, OnPaidDelivery, OnDelivery
  <2>4. NothingBeforeDocument'
    BY <1>9, <2>1, <2>2, DocumentsStay
    DEF TypeInv, TypeOK, PaymentTypeOK, HandlerTypeOK, NothingBeforeDocument, Goto, Finish, locals, CreateDelivery
  <2>5. QED
    BY <2>1, <2>2, <2>3, <2>4 DEF TypeInv, TypeOK
<1>10. CASE DeletePending(h)
  <2>1. PaymentTypeOK' /\ WalletTypeOK'
    BY <1>10 DEF TypeInv, TypeOK, PaymentTypeOK, WalletTypeOK, DeletePending
  <2>2. DeliveryTypeOK'
    BY <1>10 DEF TypeInv, TypeOK, DeliveryTypeOK, HandlerTypeOK, DeletePending, Holds, OnPayment, OnFunding, OnPaidDelivery, OnDelivery
  <2>3. HandlerTypeOK' /\ \A g \in Handlers : Holds(g, pc[g])'
    BY <1>10, GotoHolds DEF TypeInv, TypeOK, HandlerTypeOK, DeletePending, Holds, OnPayment, OnFunding, OnPaidDelivery, OnDelivery
  <2>4. NothingBeforeDocument'
    BY <1>10, <2>1, <2>2, DocumentsStay
    DEF TypeInv, TypeOK, PaymentTypeOK, HandlerTypeOK, NothingBeforeDocument, Goto, locals, DeletePending
  <2>5. QED
    BY <2>1, <2>2, <2>3, <2>4 DEF TypeInv, TypeOK
<1>11. CASE Confirm(h)
  <2>1. PaymentTypeOK' /\ WalletTypeOK'
    BY <1>11 DEF TypeInv, TypeOK, PaymentTypeOK, WalletTypeOK, Confirm
  <2>2. DeliveryTypeOK'
    BY <1>11 DEF TypeInv, TypeOK, DeliveryTypeOK, HandlerTypeOK, Confirm, Update, PaidStatusOf, Holds, OnPayment, OnFunding, OnPaidDelivery, OnDelivery
  <2>3. HandlerTypeOK' /\ \A g \in Handlers : Holds(g, pc[g])'
    BY <1>11, GotoHolds DEF TypeInv, TypeOK, HandlerTypeOK, Confirm, Holds, OnPayment, OnFunding, OnPaidDelivery, OnDelivery
  <2>4. NothingBeforeDocument'
    BY <1>11, <2>1, <2>2, DocumentsStay
    DEF TypeInv, TypeOK, PaymentTypeOK, HandlerTypeOK, NothingBeforeDocument, Goto, locals, Confirm
  <2>5. QED
    BY <2>1, <2>2, <2>3, <2>4 DEF TypeInv, TypeOK
<1>12. CASE OnPaymentCompleted(h)
  <2>1. PaymentTypeOK' /\ DeliveryTypeOK' /\ WalletTypeOK'
    BY <1>12 DEF TypeInv, TypeOK, PaymentTypeOK, DeliveryTypeOK, WalletTypeOK, OnPaymentCompleted
  <2>2. HandlerTypeOK' /\ \A g \in Handlers : Holds(g, pc[g])'
    BY <1>12, GotoHolds, FinishHolds DEF TypeInv, TypeOK, HandlerTypeOK, OnPaymentCompleted, Holds, OnPayment, OnFunding, OnPaidDelivery, OnDelivery
  <2>3. NothingBeforeDocument'
    BY <1>12, <2>1, <2>2, DocumentsStay
    DEF TypeInv, TypeOK, PaymentTypeOK, HandlerTypeOK, NothingBeforeDocument, Goto, Finish, locals, OnPaymentCompleted
  <2>4. QED
    BY <2>1, <2>2, <2>3 DEF TypeInv, TypeOK
<1>13. CASE StartSearch(h)
  <2>1. PaymentTypeOK' /\ WalletTypeOK'
    BY <1>13 DEF TypeInv, TypeOK, PaymentTypeOK, WalletTypeOK, StartSearch
  <2>2. DeliveryTypeOK'
    BY <1>13 DEF TypeInv, TypeOK, DeliveryTypeOK, HandlerTypeOK, StartSearch, Update, Holds, OnPayment, OnFunding, OnPaidDelivery, OnDelivery
  <2>3. HandlerTypeOK' /\ \A g \in Handlers : Holds(g, pc[g])'
    BY <1>13, FinishHolds DEF StartSearch
  <2>4. NothingBeforeDocument'
    BY <1>13, <2>1, <2>2, DocumentsStay
    DEF TypeInv, TypeOK, PaymentTypeOK, HandlerTypeOK, NothingBeforeDocument, Finish, StartSearch
  <2>5. QED
    BY <2>1, <2>2, <2>3, <2>4 DEF TypeInv, TypeOK
<1>14. CASE MarkFailed(h)
  <2>1. DeliveryTypeOK' /\ WalletTypeOK'
    BY <1>14 DEF TypeInv, TypeOK, DeliveryTypeOK, WalletTypeOK, MarkFailed
  <2>2. PaymentTypeOK'
    BY <1>14 DEF TypeInv, TypeOK, PaymentTypeOK, HandlerTypeOK, MarkFailed, Holds, OnPayment, OnFunding, OnPaidDelivery, OnDelivery
  <2>3. HandlerTypeOK' /\ \A g \in Handlers : Holds(g, pc[g])'
    BY <1>14, GotoHolds, FinishHolds DEF TypeInv, TypeOK, HandlerTypeOK, MarkFailed, Holds, OnPayment, OnFunding, OnPaidDelivery, OnDelivery
  <2>4. NothingBeforeDocument'
    BY <1>14, <2>1, <2>2, DocumentsStay
    DEF TypeInv, TypeOK, PaymentTypeOK, HandlerTypeOK, NothingBeforeDocument, Goto, Finish, locals, MarkFailed, Holds, OnPayment, OnFunding, OnPaidDelivery, OnDelivery
  <2>5. QED
    BY <2>1, <2>2, <2>3, <2>4 DEF TypeInv, TypeOK
<1>15. CASE ReadAwaiting(h)
  <2>1. PaymentTypeOK' /\ DeliveryTypeOK' /\ WalletTypeOK'
    BY <1>15 DEF TypeInv, TypeOK, PaymentTypeOK, DeliveryTypeOK, WalletTypeOK, ReadAwaiting
  <2>2. HandlerTypeOK' /\ \A g \in Handlers : Holds(g, pc[g])'
    BY <1>15, GotoHolds, FinishHolds DEF TypeInv, TypeOK, HandlerTypeOK, ReadAwaiting, Holds, OnPayment, OnFunding, OnPaidDelivery, OnDelivery
  <2>3. NothingBeforeDocument'
    BY <1>15, <2>1, <2>2, DocumentsStay
    DEF TypeInv, TypeOK, PaymentTypeOK, HandlerTypeOK, NothingBeforeDocument, Goto, Finish, locals, ReadAwaiting
  <2>4. QED
    BY <2>1, <2>2, <2>3 DEF TypeInv, TypeOK
<1>16. CASE Revert(h)
  <2>1. PaymentTypeOK' /\ WalletTypeOK'
    BY <1>16 DEF TypeInv, TypeOK, PaymentTypeOK, WalletTypeOK, Revert
  <2>2. DeliveryTypeOK'
    BY <1>16 DEF TypeInv, TypeOK, DeliveryTypeOK, HandlerTypeOK, Revert, Update, Holds, OnPayment, OnFunding, OnPaidDelivery, OnDelivery
  <2>3. HandlerTypeOK' /\ \A g \in Handlers : Holds(g, pc[g])'
    BY <1>16, FinishHolds DEF Revert
  <2>4. NothingBeforeDocument'
    BY <1>16, <2>1, <2>2, DocumentsStay
    DEF TypeInv, TypeOK, PaymentTypeOK, HandlerTypeOK, NothingBeforeDocument, Finish, Revert
  <2>5. QED
    BY <2>1, <2>2, <2>3, <2>4 DEF TypeInv, TypeOK
<1>17. CASE CancelGetPending(h)
  <2>1. PaymentTypeOK' /\ DeliveryTypeOK' /\ WalletTypeOK'
    BY <1>17 DEF TypeInv, TypeOK, PaymentTypeOK, DeliveryTypeOK, WalletTypeOK, CancelGetPending
  <2>2. HandlerTypeOK' /\ \A g \in Handlers : Holds(g, pc[g])'
    BY <1>17, GotoHolds, FinishHolds DEF TypeInv, TypeOK, HandlerTypeOK, CancelGetPending, Holds, OnPayment, OnFunding, OnPaidDelivery, OnDelivery
  <2>3. NothingBeforeDocument'
    BY <1>17, <2>1, <2>2, DocumentsStay
    DEF TypeInv, TypeOK, PaymentTypeOK, HandlerTypeOK, NothingBeforeDocument, Goto, Finish, locals, CancelGetPending
  <2>4. QED
    BY <2>1, <2>2, <2>3 DEF TypeInv, TypeOK
<1>18. CASE CancelDeletePending(h)
  <2>1. PaymentTypeOK' /\ WalletTypeOK'
    BY <1>18 DEF TypeInv, TypeOK, PaymentTypeOK, WalletTypeOK, CancelDeletePending
  <2>2. DeliveryTypeOK'
    BY <1>18 DEF TypeInv, TypeOK, DeliveryTypeOK, HandlerTypeOK, CancelDeletePending, Holds, OnPayment, OnFunding, OnPaidDelivery, OnDelivery
  <2>3. HandlerTypeOK' /\ \A g \in Handlers : Holds(g, pc[g])'
    BY <1>18, FinishHolds DEF CancelDeletePending
  <2>4. NothingBeforeDocument'
    BY <1>18, <2>1, <2>2, DocumentsStay
    DEF TypeInv, TypeOK, PaymentTypeOK, HandlerTypeOK, NothingBeforeDocument, Finish, CancelDeletePending
  <2>5. QED
    BY <2>1, <2>2, <2>3, <2>4 DEF TypeInv, TypeOK
<1>19. CASE CancelUpdate(h)
  <2>1. PaymentTypeOK' /\ WalletTypeOK'
    BY <1>19 DEF TypeInv, TypeOK, PaymentTypeOK, WalletTypeOK, CancelUpdate
  <2>2. DeliveryTypeOK'
    BY <1>19 DEF TypeInv, TypeOK, DeliveryTypeOK, HandlerTypeOK, CancelUpdate, Update, Holds, OnPayment, OnFunding, OnPaidDelivery, OnDelivery
  <2>3. HandlerTypeOK' /\ \A g \in Handlers : Holds(g, pc[g])'
    BY <1>19, GotoHolds, FinishHolds DEF TypeInv, TypeOK, HandlerTypeOK, CancelUpdate, Holds, OnPayment, OnFunding, OnPaidDelivery, OnDelivery
  <2>4. NothingBeforeDocument'
    BY <1>19, <2>1, <2>2, DocumentsStay
    DEF TypeInv, TypeOK, PaymentTypeOK, HandlerTypeOK, NothingBeforeDocument, Goto, Finish, locals, CancelUpdate
  <2>5. QED
    BY <2>1, <2>2, <2>3, <2>4 DEF TypeInv, TypeOK
<1>20. CASE RefundFind(h)
  <2>1. PaymentTypeOK' /\ DeliveryTypeOK' /\ WalletTypeOK'
    BY <1>20 DEF TypeInv, TypeOK, PaymentTypeOK, DeliveryTypeOK, WalletTypeOK, RefundFind
  <2>2. CASE Finish(h)
    <3>1. HandlerTypeOK' /\ \A g \in Handlers : Holds(g, pc[g])'
      BY <1>20, <2>2, FinishHolds DEF RefundFind
    <3>2. NothingBeforeDocument'
      BY <1>20, <2>1, <2>2, DocumentsStay
      DEF TypeInv, TypeOK, PaymentTypeOK, HandlerTypeOK, NothingBeforeDocument, Finish, RefundFind
    <3>3. QED
      BY <2>1, <3>1, <3>2 DEF TypeInv, TypeOK
  <2>3. CASE ~Finish(h)
    <3>1. PICK q \in PaymentsOf(hDel[h]) : hPay' = [hPay EXCEPT ![h] = q]
      BY <1>20, <2>3 DEF RefundFind
    <3>2. /\ pc[h] = "refundFind" /\ pc' = [pc EXCEPT ![h] = "refundCredit"]
          /\ UNCHANGED <<hDel, sawPaid, bornSettled, payVars, provVars>>
      BY <1>20, <2>3 DEF RefundFind
    <3>3. /\ hPay[h] = NoPayment /\ hDel[h] \in Deliveries
          /\ q \in Payments /\ payFor[q] = hDel[h] /\ payStatus[q] # "none"
      BY <3>1, <3>2 DEF TypeInv, TypeOK, PaymentTypeOK, HandlerTypeOK, NothingBeforeDocument, PaymentsOf, Holds, OnPayment, OnFunding, OnPaidDelivery, OnDelivery
    <3>4. HandlerTypeOK'
      BY <3>1, <3>2, <3>3 DEF TypeInv, TypeOK, HandlerTypeOK
    <3>5. ASSUME NEW g \in Handlers PROVE Holds(g, pc[g])'
      <4>1. CASE g = h
        BY <3>1, <3>2, <3>3, <4>1 DEF TypeInv, TypeOK, HandlerTypeOK, Holds, OnPayment, OnFunding, OnPaidDelivery, OnDelivery
      <4>2. CASE g # h
        BY <3>1, <3>2, <4>2 DEF TypeInv, TypeOK, HandlerTypeOK, Holds
      <4>3. QED
        BY <4>1, <4>2
    <3>6. NothingBeforeDocument'
      BY <2>1, <3>1, <3>2, <3>3, DocumentsStay
      DEF TypeInv, TypeOK, PaymentTypeOK, HandlerTypeOK, NothingBeforeDocument
    <3>7. QED
      BY <2>1, <3>4, <3>5, <3>6 DEF TypeInv, TypeOK
  <2>4. QED
    BY <2>2, <2>3
<1>21. CASE RefundCredit(h)
  <2>1. PaymentTypeOK' /\ DeliveryTypeOK'
    BY <1>21 DEF TypeInv, TypeOK, PaymentTypeOK, DeliveryTypeOK, RefundCredit
  <2>2. WalletTypeOK'
    BY <1>21 DEF TypeInv, TypeOK, WalletTypeOK, HandlerTypeOK, RefundCredit, Holds, OnPayment, OnFunding, OnPaidDelivery, OnDelivery
  <2>3. HandlerTypeOK' /\ \A g \in Handlers : Holds(g, pc[g])'
    BY <1>21, GotoHolds DEF TypeInv, TypeOK, HandlerTypeOK, RefundCredit, Holds, OnPayment, OnFunding, OnPaidDelivery, OnDelivery
  <2>4. NothingBeforeDocument'
    BY <1>21, <2>1, <2>2, DocumentsStay
    DEF TypeInv, TypeOK, PaymentTypeOK, HandlerTypeOK, NothingBeforeDocument, Goto, locals, RefundCredit
  <2>5. QED
    BY <2>1, <2>2, <2>3, <2>4 DEF TypeInv, TypeOK
<1>22. CASE RefundMark(h)
  <2>1. DeliveryTypeOK' /\ WalletTypeOK'
    BY <1>22 DEF TypeInv, TypeOK, DeliveryTypeOK, WalletTypeOK, RefundMark
  <2>2. PaymentTypeOK'
    BY <1>22 DEF TypeInv, TypeOK, PaymentTypeOK, HandlerTypeOK, RefundMark, Holds, OnPayment, OnFunding, OnPaidDelivery, OnDelivery
  <2>3. HandlerTypeOK' /\ \A g \in Handlers : Holds(g, pc[g])'
    BY <1>22, FinishHolds DEF RefundMark
  <2>4. NothingBeforeDocument'
    BY <1>22, <2>1, <2>2, DocumentsStay
    DEF TypeInv, TypeOK, PaymentTypeOK, HandlerTypeOK, NothingBeforeDocument, Finish, RefundMark, Holds, OnPayment, OnFunding, OnPaidDelivery, OnDelivery
  <2>5. QED
    BY <2>1, <2>2, <2>3, <2>4 DEF TypeInv, TypeOK
<1>23. CASE AwaitPayment(h)
  <2>1. PaymentTypeOK' /\ WalletTypeOK'
    BY <1>23 DEF TypeInv, TypeOK, PaymentTypeOK, WalletTypeOK, AwaitPayment
  <2>2. DeliveryTypeOK'
    BY <1>23 DEF TypeInv, TypeOK, DeliveryTypeOK, HandlerTypeOK, AwaitPayment, Update, Holds, OnPayment, OnFunding, OnPaidDelivery, OnDelivery
  <2>3. HandlerTypeOK' /\ \A g \in Handlers : Holds(g, pc[g])'
    BY <1>23, FinishHolds DEF AwaitPayment
  <2>4. NothingBeforeDocument'
    BY <1>23, <2>1, <2>2, DocumentsStay
    DEF TypeInv, TypeOK, PaymentTypeOK, HandlerTypeOK, NothingBeforeDocument, Finish, AwaitPayment
  <2>5. QED
    BY <2>1, <2>2, <2>3, <2>4 DEF TypeInv, TypeOK
<1>24. CASE ConfirmPickup(h)
  <2>1. PaymentTypeOK' /\ WalletTypeOK'
    BY <1>24 DEF TypeInv, TypeOK, PaymentTypeOK, WalletTypeOK, ConfirmPickup
  <2>2. DeliveryTypeOK'
    BY <1>24 DEF TypeInv, TypeOK, DeliveryTypeOK, HandlerTypeOK, ConfirmPickup, Update, Holds, OnPayment, OnFunding, OnPaidDelivery, OnDelivery
  <2>3. HandlerTypeOK' /\ \A g \in Handlers : Holds(g, pc[g])'
    BY <1>24, FinishHolds DEF ConfirmPickup
  <2>4. NothingBeforeDocument'
    BY <1>24, <2>1, <2>2, DocumentsStay
    DEF TypeInv, TypeOK, PaymentTypeOK, HandlerTypeOK, NothingBeforeDocument, Finish, ConfirmPickup
  <2>5. QED
    BY <2>1, <2>2, <2>3, <2>4 DEF TypeInv, TypeOK
<1>25. CASE ExhaustCancel(h)
  <2>1. PaymentTypeOK' /\ WalletTypeOK'
    BY <1>25 DEF TypeInv, TypeOK, PaymentTypeOK, WalletTypeOK, ExhaustCancel
  <2>2. DeliveryTypeOK'
    BY <1>25 DEF TypeInv, TypeOK, DeliveryTypeOK, HandlerTypeOK, ExhaustCancel, Update, Holds, OnPayment, OnFunding, OnPaidDelivery, OnDelivery
  <2>3. HandlerTypeOK' /\ \A g \in Handlers : Holds(g, pc[g])'
    BY <1>25, GotoHolds DEF TypeInv, TypeOK, HandlerTypeOK, ExhaustCancel, Holds, OnPayment, OnFunding, OnPaidDelivery, OnDelivery
  <2>4. NothingBeforeDocument'
    BY <1>25, <2>1, <2>2, DocumentsStay
    DEF TypeInv, TypeOK, PaymentTypeOK, HandlerTypeOK, NothingBeforeDocument, Goto, locals, ExhaustCancel
  <2>5. QED
    BY <2>1, <2>2, <2>3, <2>4 DEF TypeInv, TypeOK
<1>26. CASE ExhaustDelete(h)
  <2>1. PaymentTypeOK' /\ WalletTypeOK'
    BY <1>26 DEF TypeInv, TypeOK, PaymentTypeOK, WalletTypeOK, ExhaustDelete
  <2>2. DeliveryTypeOK'
    BY <1>26 DEF TypeInv, TypeOK, DeliveryTypeOK, HandlerTypeOK, ExhaustDelete, Holds, OnPayment, OnFunding, OnPaidDelivery, OnDelivery
  <2>3. HandlerTypeOK' /\ \A g \in Handlers : Holds(g, pc[g])'
    BY <1>26, FinishHolds DEF ExhaustDelete
  <2>4. NothingBeforeDocument'
    BY <1>26, <2>1, <2>2, DocumentsStay
    DEF TypeInv, TypeOK, PaymentTypeOK, HandlerTypeOK, NothingBeforeDocument, Finish, ExhaustDelete
  <2>5. QED
    BY <2>1, <2>2, <2>3, <2>4 DEF TypeInv, TypeOK
<1>27. QED
  BY <1>1, <1>2, <1>3, <1>4, <1>5, <1>6, <1>7, <1>8, <1>9, <1>10, <1>11, <1>12, <1>13, <1>14, <1>15, <1>16, <1>17, <1>18, <1>19, <1>20, <1>21, <1>22, <1>23, <1>24, <1>25, <1>26 DEF Step

(* A request arrives. *)
LEMMA ArriveType ==
    ASSUME TypeInv, NEW h \in Handlers, Arrive(h) PROVE TypeInv'
<1> USE ConstantsAssumption DEF payVars, provVars, reqVars, delVars, walVars
<1>1. ASSUME NEW p \in Payments, StartWebhook(h, p) PROVE TypeInv'
  <2>1. PaymentTypeOK' /\ DeliveryTypeOK' /\ WalletTypeOK'
    BY <1>1 DEF TypeInv, TypeOK, PaymentTypeOK, DeliveryTypeOK, WalletTypeOK, StartWebhook
  <2>2. HandlerTypeOK' /\ \A g \in Handlers : Holds(g, pc[g])'
    BY <1>1, StartOnPaymentHolds DEF StartWebhook, OnPayment, OnDelivery
  <2>3. NothingBeforeDocument'
    BY <1>1, <2>1, DocumentsStay
    DEF TypeInv, TypeOK, PaymentTypeOK, HandlerTypeOK, NothingBeforeDocument, StartOnPayment, StartOnDelivery, StartWebhook
  <2>4. QED
    BY <2>1, <2>2, <2>3 DEF TypeInv, TypeOK
<1>2. ASSUME NEW p \in Payments, StartPoll(h, p) PROVE TypeInv'
  <2>1. PaymentTypeOK' /\ DeliveryTypeOK' /\ WalletTypeOK'
    BY <1>2 DEF TypeInv, TypeOK, PaymentTypeOK, DeliveryTypeOK, WalletTypeOK, StartPoll
  <2>2. HandlerTypeOK' /\ \A g \in Handlers : Holds(g, pc[g])'
    BY <1>2, StartOnPaymentHolds DEF StartPoll, OnPayment, OnDelivery
  <2>3. NothingBeforeDocument'
    BY <1>2, <2>1, DocumentsStay
    DEF TypeInv, TypeOK, PaymentTypeOK, HandlerTypeOK, NothingBeforeDocument, StartOnPayment, StartOnDelivery, StartPoll
  <2>4. QED
    BY <2>1, <2>2, <2>3 DEF TypeInv, TypeOK
<1>3. ASSUME NEW d \in Deliveries, StartCancel(h, d) PROVE TypeInv'
  <2>1. PaymentTypeOK' /\ DeliveryTypeOK' /\ WalletTypeOK'
    BY <1>3 DEF TypeInv, TypeOK, PaymentTypeOK, DeliveryTypeOK, WalletTypeOK, StartCancel
  <2>2. HandlerTypeOK' /\ \A g \in Handlers : Holds(g, pc[g])'
    BY <1>3, StartOnDeliveryHolds DEF StartCancel, OnPayment, OnDelivery
  <2>3. NothingBeforeDocument'
    BY <1>3, <2>1, DocumentsStay
    DEF TypeInv, TypeOK, PaymentTypeOK, HandlerTypeOK, NothingBeforeDocument, StartOnPayment, StartOnDelivery, StartCancel
  <2>4. QED
    BY <2>1, <2>2, <2>3 DEF TypeInv, TypeOK
<1>4. ASSUME NEW d \in Deliveries, StartExhaust(h, d) PROVE TypeInv'
  <2>1. PaymentTypeOK' /\ DeliveryTypeOK' /\ WalletTypeOK'
    BY <1>4 DEF TypeInv, TypeOK, PaymentTypeOK, DeliveryTypeOK, WalletTypeOK, StartExhaust
  <2>2. HandlerTypeOK' /\ \A g \in Handlers : Holds(g, pc[g])'
    BY <1>4, StartOnDeliveryHolds DEF StartExhaust, OnPayment, OnDelivery
  <2>3. NothingBeforeDocument'
    BY <1>4, <2>1, DocumentsStay
    DEF TypeInv, TypeOK, PaymentTypeOK, HandlerTypeOK, NothingBeforeDocument, StartOnPayment, StartOnDelivery, StartExhaust
  <2>4. QED
    BY <2>1, <2>2, <2>3 DEF TypeInv, TypeOK
<1>5. ASSUME NEW d \in Deliveries, StartInitiatePickup(h, d) PROVE TypeInv'
  <2>1. PaymentTypeOK' /\ DeliveryTypeOK' /\ WalletTypeOK'
    BY <1>5 DEF TypeInv, TypeOK, PaymentTypeOK, DeliveryTypeOK, WalletTypeOK, StartInitiatePickup
  <2>2. HandlerTypeOK' /\ \A g \in Handlers : Holds(g, pc[g])'
    BY <1>5, StartOnDeliveryHolds DEF StartInitiatePickup, OnPayment, OnDelivery
  <2>3. NothingBeforeDocument'
    BY <1>5, <2>1, DocumentsStay
    DEF TypeInv, TypeOK, PaymentTypeOK, HandlerTypeOK, NothingBeforeDocument, StartOnPayment, StartOnDelivery, StartInitiatePickup
  <2>4. QED
    BY <2>1, <2>2, <2>3 DEF TypeInv, TypeOK
<1>6. ASSUME NEW d \in Deliveries, StartConfirmPickup(h, d) PROVE TypeInv'
  <2>1. PaymentTypeOK' /\ DeliveryTypeOK' /\ WalletTypeOK'
    BY <1>6 DEF TypeInv, TypeOK, PaymentTypeOK, DeliveryTypeOK, WalletTypeOK, StartConfirmPickup
  <2>2. HandlerTypeOK' /\ \A g \in Handlers : Holds(g, pc[g])'
    BY <1>6, StartOnDeliveryHolds DEF StartConfirmPickup, OnPayment, OnDelivery
  <2>3. NothingBeforeDocument'
    BY <1>6, <2>1, DocumentsStay
    DEF TypeInv, TypeOK, PaymentTypeOK, HandlerTypeOK, NothingBeforeDocument, StartOnPayment, StartOnDelivery, StartConfirmPickup
  <2>4. QED
    BY <2>1, <2>2, <2>3 DEF TypeInv, TypeOK
<1>7. QED
  BY <1>1, <1>2, <1>3, <1>4, <1>5, <1>6 DEF Arrive, SettlementStarts

(* Handlers stand still and payments keep their delivery. *)
LEMMA HandlersStay ==
    ASSUME TypeInv, UNCHANGED <<pc, locals, payFor>>
    PROVE  HandlerTypeOK' /\ \A g \in Handlers : Holds(g, pc[g])'
  BY DEF TypeInv, TypeOK, HandlerTypeOK, Holds, locals

(* Everything that happens outside the handlers. *)
LEMMA EnvironmentType ==
    ASSUME TypeInv, Open \/ Monnify \/ Platform \/ Faults \/ UNCHANGED vars
    PROVE  TypeInv'
<1> USE ConstantsAssumption DEF payVars, provVars, reqVars, delVars, walVars
<1>1. ASSUME NEW p \in Payments, NEW d \in Deliveries \union {NoDelivery}, OpenPayment(p, d)
      PROVE  TypeInv'
  <2>1. PaymentTypeOK' /\ DeliveryTypeOK' /\ WalletTypeOK'
    BY <1>1 DEF TypeInv, TypeOK, PaymentTypeOK, DeliveryTypeOK, WalletTypeOK, OpenPayment
  <2>2. \A g \in Handlers : hPay[g] # p
    BY <1>1 DEF TypeInv, NothingBeforeDocument, OpenPayment
  <2>3. HandlerTypeOK' /\ \A g \in Handlers : Holds(g, pc[g])'
    BY <1>1, <2>2 DEF TypeInv, TypeOK, PaymentTypeOK, HandlerTypeOK, OpenPayment, locals, Holds
  <2>4. NothingBeforeDocument'
    BY <1>1, <2>1 DEF TypeInv, TypeOK, PaymentTypeOK, HandlerTypeOK, NothingBeforeDocument, OpenPayment, locals
  <2>5. QED
    BY <2>1, <2>3, <2>4 DEF TypeInv, TypeOK
<1>2. ASSUME NEW p \in Payments, OpenAtMonnify(p) PROVE TypeInv'
  <2>1. PaymentTypeOK'
    BY <1>2 DEF TypeInv, TypeOK, PaymentTypeOK, OpenAtMonnify
  <2>2. DeliveryTypeOK'
    BY <1>2 DEF TypeInv, TypeOK, DeliveryTypeOK, OpenAtMonnify
  <2>3. WalletTypeOK'
    BY <1>2 DEF TypeInv, TypeOK, WalletTypeOK, OpenAtMonnify
  <2>4. HandlerTypeOK' /\ \A g \in Handlers : Holds(g, pc[g])'
    BY <1>2, HandlersStay DEF OpenAtMonnify
  <2>5. NothingBeforeDocument'
    BY <1>2 DEF TypeInv, TypeOK, PaymentTypeOK, HandlerTypeOK, NothingBeforeDocument, locals, OpenAtMonnify
  <2>6. QED
    BY <2>1, <2>2, <2>3, <2>4, <2>5 DEF TypeInv, TypeOK
<1>3. ASSUME NEW p \in Payments, SaveProviderRef(p) PROVE TypeInv'
  <2>1. PaymentTypeOK'
    BY <1>3 DEF TypeInv, TypeOK, PaymentTypeOK, SaveProviderRef
  <2>2. DeliveryTypeOK'
    BY <1>3 DEF TypeInv, TypeOK, DeliveryTypeOK, SaveProviderRef
  <2>3. WalletTypeOK'
    BY <1>3 DEF TypeInv, TypeOK, WalletTypeOK, SaveProviderRef
  <2>4. HandlerTypeOK' /\ \A g \in Handlers : Holds(g, pc[g])'
    BY <1>3, HandlersStay DEF SaveProviderRef
  <2>5. NothingBeforeDocument'
    BY <1>3 DEF TypeInv, TypeOK, PaymentTypeOK, HandlerTypeOK, NothingBeforeDocument, locals, SaveProviderRef
  <2>6. QED
    BY <2>1, <2>2, <2>3, <2>4, <2>5 DEF TypeInv, TypeOK
<1>4. ASSUME NEW p \in Payments, MonnifySettles(p) PROVE TypeInv'
  <2>1. PaymentTypeOK'
    BY <1>4 DEF TypeInv, TypeOK, PaymentTypeOK, MonnifySettles, Notify
  <2>2. DeliveryTypeOK'
    BY <1>4 DEF TypeInv, TypeOK, DeliveryTypeOK, MonnifySettles, Notify
  <2>3. WalletTypeOK'
    BY <1>4 DEF TypeInv, TypeOK, WalletTypeOK, MonnifySettles, Notify
  <2>4. HandlerTypeOK' /\ \A g \in Handlers : Holds(g, pc[g])'
    BY <1>4, HandlersStay DEF MonnifySettles, Notify
  <2>5. NothingBeforeDocument'
    BY <1>4 DEF TypeInv, TypeOK, PaymentTypeOK, HandlerTypeOK, NothingBeforeDocument, locals, MonnifySettles, Notify
  <2>6. QED
    BY <2>1, <2>2, <2>3, <2>4, <2>5 DEF TypeInv, TypeOK
<1>5. ASSUME NEW p \in Payments, MonnifyReverses(p) PROVE TypeInv'
  <2>1. PaymentTypeOK'
    BY <1>5 DEF TypeInv, TypeOK, PaymentTypeOK, MonnifyReverses, Notify
  <2>2. DeliveryTypeOK'
    BY <1>5 DEF TypeInv, TypeOK, DeliveryTypeOK, MonnifyReverses, Notify
  <2>3. WalletTypeOK'
    BY <1>5 DEF TypeInv, TypeOK, WalletTypeOK, MonnifyReverses, Notify
  <2>4. HandlerTypeOK' /\ \A g \in Handlers : Holds(g, pc[g])'
    BY <1>5, HandlersStay DEF MonnifyReverses, Notify
  <2>5. NothingBeforeDocument'
    BY <1>5 DEF TypeInv, TypeOK, PaymentTypeOK, HandlerTypeOK, NothingBeforeDocument, locals, MonnifyReverses, Notify
  <2>6. QED
    BY <2>1, <2>2, <2>3, <2>4, <2>5 DEF TypeInv, TypeOK
<1>6. ASSUME NEW p \in Payments, MonnifyRepeats(p) PROVE TypeInv'
  <2>1. PaymentTypeOK'
    BY <1>6 DEF TypeInv, TypeOK, PaymentTypeOK, MonnifyRepeats, Notify
  <2>2. DeliveryTypeOK'
    BY <1>6 DEF TypeInv, TypeOK, DeliveryTypeOK, MonnifyRepeats, Notify
  <2>3. WalletTypeOK'
    BY <1>6 DEF TypeInv, TypeOK, WalletTypeOK, MonnifyRepeats, Notify
  <2>4. HandlerTypeOK' /\ \A g \in Handlers : Holds(g, pc[g])'
    BY <1>6, HandlersStay DEF MonnifyRepeats, Notify
  <2>5. NothingBeforeDocument'
    BY <1>6 DEF TypeInv, TypeOK, PaymentTypeOK, HandlerTypeOK, NothingBeforeDocument, locals, MonnifyRepeats, Notify
  <2>6. QED
    BY <2>1, <2>2, <2>3, <2>4, <2>5 DEF TypeInv, TypeOK
<1>7. ASSUME NEW d \in Deliveries, RequestCached(d) PROVE TypeInv'
  <2>1. PaymentTypeOK'
    BY <1>7 DEF TypeInv, TypeOK, PaymentTypeOK, RequestCached
  <2>2. DeliveryTypeOK'
    BY <1>7 DEF TypeInv, TypeOK, DeliveryTypeOK, RequestCached
  <2>3. WalletTypeOK'
    BY <1>7 DEF TypeInv, TypeOK, WalletTypeOK, RequestCached
  <2>4. HandlerTypeOK' /\ \A g \in Handlers : Holds(g, pc[g])'
    BY <1>7, HandlersStay DEF RequestCached
  <2>5. NothingBeforeDocument'
    BY <1>7 DEF TypeInv, TypeOK, PaymentTypeOK, HandlerTypeOK, NothingBeforeDocument, locals, RequestCached
  <2>6. QED
    BY <2>1, <2>2, <2>3, <2>4, <2>5 DEF TypeInv, TypeOK
<1>8. ASSUME NEW d \in Deliveries, RequestInDb(d) PROVE TypeInv'
  <2>1. PaymentTypeOK'
    BY <1>8 DEF TypeInv, TypeOK, PaymentTypeOK, RequestInDb
  <2>2. DeliveryTypeOK'
    BY <1>8 DEF TypeInv, TypeOK, DeliveryTypeOK, RequestInDb
  <2>3. WalletTypeOK'
    BY <1>8 DEF TypeInv, TypeOK, WalletTypeOK, RequestInDb
  <2>4. HandlerTypeOK' /\ \A g \in Handlers : Holds(g, pc[g])'
    BY <1>8, HandlersStay DEF RequestInDb
  <2>5. NothingBeforeDocument'
    BY <1>8 DEF TypeInv, TypeOK, PaymentTypeOK, HandlerTypeOK, NothingBeforeDocument, locals, RequestInDb
  <2>6. QED
    BY <2>1, <2>2, <2>3, <2>4, <2>5 DEF TypeInv, TypeOK
<1>9. ASSUME NEW d \in Deliveries, RiderAccepts(d) PROVE TypeInv'
  <2>1. PaymentTypeOK'
    BY <1>9 DEF TypeInv, TypeOK, PaymentTypeOK, RiderAccepts, MoveDelivery
  <2>2. DeliveryTypeOK'
    BY <1>9 DEF TypeInv, TypeOK, DeliveryTypeOK, RiderAccepts, MoveDelivery
  <2>3. WalletTypeOK'
    BY <1>9 DEF TypeInv, TypeOK, WalletTypeOK, RiderAccepts, MoveDelivery
  <2>4. HandlerTypeOK' /\ \A g \in Handlers : Holds(g, pc[g])'
    BY <1>9, HandlersStay DEF RiderAccepts, MoveDelivery
  <2>5. NothingBeforeDocument'
    BY <1>9 DEF TypeInv, TypeOK, PaymentTypeOK, HandlerTypeOK, NothingBeforeDocument, locals, RiderAccepts, MoveDelivery
  <2>6. QED
    BY <2>1, <2>2, <2>3, <2>4, <2>5 DEF TypeInv, TypeOK
<1>10. ASSUME NEW d \in Deliveries, RiderRejects(d) PROVE TypeInv'
  <2>1. PaymentTypeOK'
    BY <1>10 DEF TypeInv, TypeOK, PaymentTypeOK, RiderRejects, MoveDelivery
  <2>2. DeliveryTypeOK'
    BY <1>10 DEF TypeInv, TypeOK, DeliveryTypeOK, RiderRejects, MoveDelivery
  <2>3. WalletTypeOK'
    BY <1>10 DEF TypeInv, TypeOK, WalletTypeOK, RiderRejects, MoveDelivery
  <2>4. HandlerTypeOK' /\ \A g \in Handlers : Holds(g, pc[g])'
    BY <1>10, HandlersStay DEF RiderRejects, MoveDelivery
  <2>5. NothingBeforeDocument'
    BY <1>10 DEF TypeInv, TypeOK, PaymentTypeOK, HandlerTypeOK, NothingBeforeDocument, locals, RiderRejects, MoveDelivery
  <2>6. QED
    BY <2>1, <2>2, <2>3, <2>4, <2>5 DEF TypeInv, TypeOK
<1>11. ASSUME NEW d \in Deliveries, AdminAssigns(d) PROVE TypeInv'
  <2>1. PaymentTypeOK'
    BY <1>11 DEF TypeInv, TypeOK, PaymentTypeOK, AdminAssigns, MoveDelivery
  <2>2. DeliveryTypeOK'
    BY <1>11 DEF TypeInv, TypeOK, DeliveryTypeOK, AdminAssigns, MoveDelivery
  <2>3. WalletTypeOK'
    BY <1>11 DEF TypeInv, TypeOK, WalletTypeOK, AdminAssigns, MoveDelivery
  <2>4. HandlerTypeOK' /\ \A g \in Handlers : Holds(g, pc[g])'
    BY <1>11, HandlersStay DEF AdminAssigns, MoveDelivery
  <2>5. NothingBeforeDocument'
    BY <1>11 DEF TypeInv, TypeOK, PaymentTypeOK, HandlerTypeOK, NothingBeforeDocument, locals, AdminAssigns, MoveDelivery
  <2>6. QED
    BY <2>1, <2>2, <2>3, <2>4, <2>5 DEF TypeInv, TypeOK
<1>12. ASSUME NEW d \in Deliveries, RiderAdvances(d) PROVE TypeInv'
  <2>1. PaymentTypeOK'
    BY <1>12 DEF TypeInv, TypeOK, PaymentTypeOK, RiderAdvances, MoveDelivery, RiderTransitions
  <2>2. DeliveryTypeOK'
    BY <1>12 DEF TypeInv, TypeOK, DeliveryTypeOK, RiderAdvances, MoveDelivery, RiderTransitions
  <2>3. WalletTypeOK'
    BY <1>12 DEF TypeInv, TypeOK, WalletTypeOK, RiderAdvances, MoveDelivery, RiderTransitions
  <2>4. HandlerTypeOK' /\ \A g \in Handlers : Holds(g, pc[g])'
    BY <1>12, HandlersStay DEF RiderAdvances, MoveDelivery, RiderTransitions
  <2>5. NothingBeforeDocument'
    BY <1>12 DEF TypeInv, TypeOK, PaymentTypeOK, HandlerTypeOK, NothingBeforeDocument, locals, RiderAdvances, MoveDelivery, RiderTransitions
  <2>6. QED
    BY <2>1, <2>2, <2>3, <2>4, <2>5 DEF TypeInv, TypeOK
<1>12a. ASSUME NEW d \in Deliveries, RetrySearch(d) PROVE TypeInv'
  <2>1. PaymentTypeOK'
    BY <1>12a DEF TypeInv, TypeOK, PaymentTypeOK, RetrySearch
  <2>2. DeliveryTypeOK'
    BY <1>12a DEF TypeInv, TypeOK, DeliveryTypeOK, RetrySearch
  <2>3. WalletTypeOK'
    BY <1>12a DEF TypeInv, TypeOK, WalletTypeOK, RetrySearch
  <2>4. HandlerTypeOK' /\ \A g \in Handlers : Holds(g, pc[g])'
    BY <1>12a, HandlersStay DEF RetrySearch
  <2>5. NothingBeforeDocument'
    BY <1>12a DEF TypeInv, TypeOK, PaymentTypeOK, HandlerTypeOK, NothingBeforeDocument, locals, RetrySearch
  <2>6. QED
    BY <2>1, <2>2, <2>3, <2>4, <2>5 DEF TypeInv, TypeOK
<1>13. ASSUME NEW d \in Deliveries, ExpireCached(d) PROVE TypeInv'
  <2>1. PaymentTypeOK'
    BY <1>13 DEF TypeInv, TypeOK, PaymentTypeOK, ExpireCached
  <2>2. DeliveryTypeOK'
    BY <1>13 DEF TypeInv, TypeOK, DeliveryTypeOK, ExpireCached
  <2>3. WalletTypeOK'
    BY <1>13 DEF TypeInv, TypeOK, WalletTypeOK, ExpireCached
  <2>4. HandlerTypeOK' /\ \A g \in Handlers : Holds(g, pc[g])'
    BY <1>13, HandlersStay DEF ExpireCached
  <2>5. NothingBeforeDocument'
    BY <1>13 DEF TypeInv, TypeOK, PaymentTypeOK, HandlerTypeOK, NothingBeforeDocument, locals, ExpireCached
  <2>6. QED
    BY <2>1, <2>2, <2>3, <2>4, <2>5 DEF TypeInv, TypeOK
<1>14. ASSUME NEW h \in Handlers, Fail(h) PROVE TypeInv'
  <2>1. PaymentTypeOK' /\ DeliveryTypeOK' /\ WalletTypeOK'
    BY <1>14 DEF TypeInv, TypeOK, PaymentTypeOK, DeliveryTypeOK, WalletTypeOK, Fail
  <2>2. HandlerTypeOK' /\ \A g \in Handlers : Holds(g, pc[g])'
    BY <1>14, FinishHolds DEF Fail
  <2>3. NothingBeforeDocument'
    BY <1>14, <2>1, DocumentsStay
    DEF TypeInv, TypeOK, PaymentTypeOK, HandlerTypeOK, NothingBeforeDocument, Fail, Finish
  <2>4. QED
    BY <2>1, <2>2, <2>3 DEF TypeInv, TypeOK
<1>15. CASE UNCHANGED vars
  BY <1>15, HandlersStay
  DEF TypeInv, TypeOK, PaymentTypeOK, DeliveryTypeOK, WalletTypeOK, HandlerTypeOK, NothingBeforeDocument, vars, locals
<1>16. CASE Open
  BY <1>16, <1>1, <1>2, <1>3, <1>7, <1>8 DEF Open, FundWallet, InitiatePayment
<1>17. CASE Monnify
  BY <1>17, <1>4, <1>5, <1>6 DEF Monnify
<1>18. CASE Platform
  BY <1>18, <1>9, <1>10, <1>11, <1>12, <1>12a DEF Platform
<1>19. CASE Faults
  BY <1>19, <1>13, <1>14 DEF Faults
<1>20. QED
  BY <1>15, <1>16, <1>17, <1>18, <1>19

LEMMA TypeNext == TypeInv /\ [Next]_vars => TypeInv'
  BY StepType, ArriveType, EnvironmentType DEF Next

(* Every reachable state is well typed, and no handler reaches a line that *)
(* dereferences a payment or a delivery it does not hold, however many     *)
(* requests of handleMonnifyWebhook, getPaymentStatus, cancelDelivery and  *)
(* the matching service overlap, and wherever they stop half way.          *)
THEOREM TypeCorrect == Spec => []TypeOK
<1>1. Init => TypeInv
  BY TypeInit
<1>2. TypeInv /\ [Next]_vars => TypeInv'
  BY TypeNext
<1>3. TypeInv => TypeOK
  BY DEF TypeInv
<1>4. QED
  BY <1>1, <1>2, <1>3, PTL DEF Spec

(* The labels a handler reaches only after Monnify said "paid". *)
AfterPaid ==
    {"readSuccess", "markPaid", "checkLedger", "incBalance", "insertLedger", "findDelivery",
     "getPending", "createDelivery", "deletePending", "confirm", "onPaymentCompleted",
     "startSearch"}

(* What a handler was told by Monnify still binds Monnify. *)
AnswersHold ==
    \A h \in Handlers :
        /\ pc[h] \in AfterPaid => Collected(hPay[h])
        /\ pc[h] = "markFailed" => monnify[hPay[h]] \in {"failed", "reversed"}

(* A request that found its payment already in the ledger is harmless. *)
LateIsHarmless ==
    \A h \in Handlers : bornSettled[h] =>
        /\ hPay[h] \in Payments /\ ledger[hPay[h]] > 0
        /\ pc[h] \notin {"incBalance", "insertLedger"}

SettlementInv ==
    /\ TypeInv
    /\ OnlyVerifiedMoneyCounts
    /\ AnswersHold
    /\ LateIsHarmless

LEMMA SettlementInit == Init => SettlementInv
<1> SUFFICES ASSUME Init PROVE SettlementInv
  OBVIOUS
<1>1. TypeInv
  BY TypeInit
<1>2. OnlyVerifiedMoneyCounts /\ AnswersHold /\ LateIsHarmless
  BY DEF Init, OnlyVerifiedMoneyCounts, AnswersHold, AfterPaid, LateIsHarmless
<1>3. QED
  BY <1>1, <1>2 DEF SettlementInv

(* A step that leaves payments, the provider and the wallet alone, and     *)
(* moves handlers only to labels that ask for nothing, keeps the facts     *)
(* about money.                                                            *)
LEMMA NothingAtStake ==
    ASSUME SettlementInv, UNCHANGED <<payStatus, payFor, monnify, credits, ledger>>,
           \A d \in Deliveries : dPayment'[d] \in {dPayment[d], NoPayment},
           \A g \in Handlers :
              \/ pc'[g] = pc[g] /\ hPay'[g] = hPay[g] /\ bornSettled'[g] = bornSettled[g]
              \/ /\ pc'[g] \notin AfterPaid \union {"markFailed"}
                 /\ bornSettled'[g] =>
                       hPay'[g] \in Payments /\ ledger[hPay'[g]] > 0
    PROVE  OnlyVerifiedMoneyCounts' /\ AnswersHold' /\ LateIsHarmless'
<1>1. OnlyVerifiedMoneyCounts'
  BY DEF SettlementInv, OnlyVerifiedMoneyCounts, Collected
<1>2. AnswersHold'
  BY DEF SettlementInv, AnswersHold, Collected
<1>3. LateIsHarmless'
  BY DEF SettlementInv, LateIsHarmless, AfterPaid
<1>4. QED
  BY <1>1, <1>2, <1>3

LEMMA StepSettlement ==
    ASSUME SettlementInv, NEW h \in Handlers, Step(h)
    PROVE  OnlyVerifiedMoneyCounts' /\ AnswersHold' /\ LateIsHarmless'
<1> USE DEF payVars, provVars, reqVars, delVars, walVars, SettlementInv
<1>1. CASE Verify(h)
  <2>1. OnlyVerifiedMoneyCounts'
    BY <1>1 DEF TypeInv, TypeOK, PaymentTypeOK, HandlerTypeOK, OnlyVerifiedMoneyCounts, AnswersHold, AfterPaid, Collected, Goto, Finish, locals, Verify, Successful, Unsuccessful, Holds, OnPayment, OnFunding, OnPaidDelivery, OnDelivery
  <2>2. AnswersHold'
    BY <1>1 DEF TypeInv, TypeOK, PaymentTypeOK, HandlerTypeOK, AnswersHold, AfterPaid, Collected, Goto, Finish, locals, Verify, Successful, Unsuccessful
  <2>3. LateIsHarmless'
    BY <1>1 DEF TypeInv, TypeOK, PaymentTypeOK, HandlerTypeOK, LateIsHarmless, Goto, Finish, locals, Verify, Successful, Unsuccessful
  <2>4. QED
    BY <2>1, <2>2, <2>3
<1>2. CASE ReadForSuccess(h)
  <2>1. OnlyVerifiedMoneyCounts'
    BY <1>2 DEF TypeInv, TypeOK, PaymentTypeOK, HandlerTypeOK, OnlyVerifiedMoneyCounts, AnswersHold, AfterPaid, Collected, Goto, Finish, locals, ReadForSuccess, Holds, OnPayment, OnFunding, OnPaidDelivery, OnDelivery
  <2>2. AnswersHold'
    BY <1>2 DEF TypeInv, TypeOK, PaymentTypeOK, HandlerTypeOK, AnswersHold, AfterPaid, Collected, Goto, Finish, locals, ReadForSuccess
  <2>3. LateIsHarmless'
    BY <1>2 DEF TypeInv, TypeOK, PaymentTypeOK, HandlerTypeOK, LateIsHarmless, Goto, Finish, locals, ReadForSuccess
  <2>4. QED
    BY <2>1, <2>2, <2>3
<1>3. CASE MarkPaid(h)
  <2>1. OnlyVerifiedMoneyCounts'
    BY <1>3 DEF TypeInv, TypeOK, PaymentTypeOK, HandlerTypeOK, OnlyVerifiedMoneyCounts, AnswersHold, AfterPaid, Collected, Goto, locals, MarkPaid, Holds, OnPayment, OnFunding, OnPaidDelivery, OnDelivery
  <2>2. AnswersHold'
    BY <1>3 DEF TypeInv, TypeOK, PaymentTypeOK, HandlerTypeOK, AnswersHold, AfterPaid, Collected, Goto, locals, MarkPaid
  <2>3. LateIsHarmless'
    BY <1>3 DEF TypeInv, TypeOK, PaymentTypeOK, HandlerTypeOK, LateIsHarmless, Goto, locals, MarkPaid
  <2>4. QED
    BY <2>1, <2>2, <2>3
<1>4. CASE CheckLedger(h)
  <2>1. OnlyVerifiedMoneyCounts'
    BY <1>4 DEF TypeInv, TypeOK, PaymentTypeOK, HandlerTypeOK, WalletTypeOK, OnlyVerifiedMoneyCounts, AnswersHold, AfterPaid, Collected, Goto, Finish, locals, CheckLedger, AlreadyCredited, Holds, OnPayment, OnFunding, OnPaidDelivery, OnDelivery
  <2>2. AnswersHold'
    BY <1>4 DEF TypeInv, TypeOK, PaymentTypeOK, HandlerTypeOK, AnswersHold, AfterPaid, Collected, Goto, Finish, locals, CheckLedger, AlreadyCredited
  <2>3. LateIsHarmless'
    BY <1>4 DEF TypeInv, TypeOK, PaymentTypeOK, HandlerTypeOK, WalletTypeOK, LateIsHarmless, Goto, Finish, locals, CheckLedger, AlreadyCredited
  <2>4. QED
    BY <2>1, <2>2, <2>3
<1>5. CASE IncBalance(h)
  <2>1. OnlyVerifiedMoneyCounts'
    BY <1>5 DEF TypeInv, TypeOK, PaymentTypeOK, HandlerTypeOK, WalletTypeOK, OnlyVerifiedMoneyCounts, AnswersHold, AfterPaid, Collected, Goto, locals, IncBalance, Holds, OnPayment, OnFunding, OnPaidDelivery, OnDelivery
  <2>2. AnswersHold'
    BY <1>5 DEF TypeInv, TypeOK, PaymentTypeOK, HandlerTypeOK, AnswersHold, AfterPaid, Collected, Goto, locals, IncBalance
  <2>3. LateIsHarmless'
    BY <1>5 DEF TypeInv, TypeOK, PaymentTypeOK, HandlerTypeOK, WalletTypeOK, LateIsHarmless, Goto, locals, IncBalance
  <2>4. QED
    BY <2>1, <2>2, <2>3
<1>6. CASE InsertLedger(h)
  <2>1. OnlyVerifiedMoneyCounts'
    BY <1>6 DEF TypeInv, TypeOK, PaymentTypeOK, HandlerTypeOK, WalletTypeOK, OnlyVerifiedMoneyCounts, AnswersHold, AfterPaid, Collected, Finish, InsertLedger, Holds, OnPayment, OnFunding, OnPaidDelivery, OnDelivery
  <2>2. AnswersHold'
    BY <1>6 DEF TypeInv, TypeOK, PaymentTypeOK, HandlerTypeOK, AnswersHold, AfterPaid, Collected, Finish, InsertLedger
  <2>3. LateIsHarmless'
    BY <1>6 DEF TypeInv, TypeOK, PaymentTypeOK, HandlerTypeOK, WalletTypeOK, LateIsHarmless, Finish, InsertLedger
  <2>4. QED
    BY <2>1, <2>2, <2>3
<1>7. CASE FindDelivery(h)
  <2>1. OnlyVerifiedMoneyCounts'
    BY <1>7 DEF TypeInv, TypeOK, PaymentTypeOK, HandlerTypeOK, OnlyVerifiedMoneyCounts, AnswersHold, AfterPaid, Collected, Goto, locals, FindDelivery, Holds, OnPayment, OnFunding, OnPaidDelivery, OnDelivery
  <2>2. AnswersHold'
    BY <1>7 DEF TypeInv, TypeOK, PaymentTypeOK, HandlerTypeOK, AnswersHold, AfterPaid, Collected, Goto, locals, FindDelivery
  <2>3. LateIsHarmless'
    BY <1>7 DEF TypeInv, TypeOK, PaymentTypeOK, HandlerTypeOK, LateIsHarmless, Goto, locals, FindDelivery
  <2>4. QED
    BY <2>1, <2>2, <2>3
<1>8. CASE GetPending(h)
  <2>1. OnlyVerifiedMoneyCounts'
    BY <1>8 DEF TypeInv, TypeOK, PaymentTypeOK, HandlerTypeOK, OnlyVerifiedMoneyCounts, AnswersHold, AfterPaid, Collected, Goto, Finish, locals, GetPending, Holds, OnPayment, OnFunding, OnPaidDelivery, OnDelivery
  <2>2. AnswersHold'
    BY <1>8 DEF TypeInv, TypeOK, PaymentTypeOK, HandlerTypeOK, AnswersHold, AfterPaid, Collected, Goto, Finish, locals, GetPending
  <2>3. LateIsHarmless'
    BY <1>8 DEF TypeInv, TypeOK, PaymentTypeOK, HandlerTypeOK, LateIsHarmless, Goto, Finish, locals, GetPending
  <2>4. QED
    BY <2>1, <2>2, <2>3
<1>9. CASE CreateDelivery(h)
  <2>1. OnlyVerifiedMoneyCounts'
    BY <1>9 DEF TypeInv, TypeOK, PaymentTypeOK, HandlerTypeOK, OnlyVerifiedMoneyCounts, AnswersHold, AfterPaid, Collected, Goto, Finish, locals, CreateDelivery, Holds, OnPayment, OnFunding, OnPaidDelivery, OnDelivery
  <2>2. AnswersHold'
    BY <1>9 DEF TypeInv, TypeOK, PaymentTypeOK, HandlerTypeOK, AnswersHold, AfterPaid, Collected, Goto, Finish, locals, CreateDelivery
  <2>3. LateIsHarmless'
    BY <1>9 DEF TypeInv, TypeOK, PaymentTypeOK, HandlerTypeOK, LateIsHarmless, Goto, Finish, locals, CreateDelivery
  <2>4. QED
    BY <2>1, <2>2, <2>3
<1>10. CASE DeletePending(h)
  <2>1. OnlyVerifiedMoneyCounts'
    BY <1>10 DEF TypeInv, TypeOK, PaymentTypeOK, HandlerTypeOK, OnlyVerifiedMoneyCounts, AnswersHold, AfterPaid, Collected, Goto, locals, DeletePending, Holds, OnPayment, OnFunding, OnPaidDelivery, OnDelivery
  <2>2. AnswersHold'
    BY <1>10 DEF TypeInv, TypeOK, PaymentTypeOK, HandlerTypeOK, AnswersHold, AfterPaid, Collected, Goto, locals, DeletePending
  <2>3. LateIsHarmless'
    BY <1>10 DEF TypeInv, TypeOK, PaymentTypeOK, HandlerTypeOK, LateIsHarmless, Goto, locals, DeletePending
  <2>4. QED
    BY <2>1, <2>2, <2>3
<1>11. CASE Confirm(h)
  <2>1. OnlyVerifiedMoneyCounts'
    BY <1>11 DEF TypeInv, TypeOK, PaymentTypeOK, HandlerTypeOK, DeliveryTypeOK, OnlyVerifiedMoneyCounts, AnswersHold, AfterPaid, Collected, Goto, locals, Confirm, Update, PaidStatusOf, Holds, OnPayment, OnFunding, OnPaidDelivery, OnDelivery
  <2>2. AnswersHold'
    BY <1>11 DEF TypeInv, TypeOK, PaymentTypeOK, HandlerTypeOK, AnswersHold, AfterPaid, Collected, Goto, locals, Confirm, Update, PaidStatusOf
  <2>3. LateIsHarmless'
    BY <1>11 DEF TypeInv, TypeOK, PaymentTypeOK, HandlerTypeOK, DeliveryTypeOK, LateIsHarmless, Goto, locals, Confirm, Update, PaidStatusOf
  <2>4. QED
    BY <2>1, <2>2, <2>3
<1>12. CASE OnPaymentCompleted(h)
  <2>1. OnlyVerifiedMoneyCounts'
    BY <1>12 DEF TypeInv, TypeOK, PaymentTypeOK, HandlerTypeOK, OnlyVerifiedMoneyCounts, AnswersHold, AfterPaid, Collected, Goto, Finish, locals, OnPaymentCompleted, Holds, OnPayment, OnFunding, OnPaidDelivery, OnDelivery
  <2>2. AnswersHold'
    BY <1>12 DEF TypeInv, TypeOK, PaymentTypeOK, HandlerTypeOK, AnswersHold, AfterPaid, Collected, Goto, Finish, locals, OnPaymentCompleted
  <2>3. LateIsHarmless'
    BY <1>12 DEF TypeInv, TypeOK, PaymentTypeOK, HandlerTypeOK, LateIsHarmless, Goto, Finish, locals, OnPaymentCompleted
  <2>4. QED
    BY <2>1, <2>2, <2>3
<1>13. CASE StartSearch(h)
  BY <1>13, NothingAtStake DEF TypeInv, TypeOK, PaymentTypeOK, HandlerTypeOK, LateIsHarmless, AfterPaid, Finish, StartSearch
<1>14. CASE MarkFailed(h)
  <2>1. OnlyVerifiedMoneyCounts'
    BY <1>14 DEF TypeInv, TypeOK, PaymentTypeOK, HandlerTypeOK, OnlyVerifiedMoneyCounts, AnswersHold, AfterPaid, Collected, Goto, Finish, locals, MarkFailed, Holds, OnPayment, OnFunding, OnPaidDelivery, OnDelivery
  <2>2. AnswersHold'
    BY <1>14 DEF TypeInv, TypeOK, PaymentTypeOK, HandlerTypeOK, AnswersHold, AfterPaid, Collected, Goto, Finish, locals, MarkFailed
  <2>3. LateIsHarmless'
    BY <1>14 DEF TypeInv, TypeOK, PaymentTypeOK, HandlerTypeOK, LateIsHarmless, Goto, Finish, locals, MarkFailed
  <2>4. QED
    BY <2>1, <2>2, <2>3
<1>15. CASE ReadAwaiting(h)
  BY <1>15, NothingAtStake DEF TypeInv, TypeOK, PaymentTypeOK, HandlerTypeOK, LateIsHarmless, AfterPaid, Goto, Finish, locals, ReadAwaiting
<1>16. CASE Revert(h)
  BY <1>16, NothingAtStake DEF TypeInv, TypeOK, PaymentTypeOK, HandlerTypeOK, LateIsHarmless, AfterPaid, Finish, Revert
<1>17. CASE CancelGetPending(h)
  BY <1>17, NothingAtStake DEF TypeInv, TypeOK, PaymentTypeOK, HandlerTypeOK, LateIsHarmless, AfterPaid, Goto, Finish, locals, CancelGetPending
<1>18. CASE CancelDeletePending(h)
  BY <1>18, NothingAtStake DEF TypeInv, TypeOK, PaymentTypeOK, HandlerTypeOK, LateIsHarmless, AfterPaid, Finish, CancelDeletePending
<1>19. CASE CancelUpdate(h)
  BY <1>19, NothingAtStake DEF TypeInv, TypeOK, PaymentTypeOK, HandlerTypeOK, LateIsHarmless, AfterPaid, Goto, Finish, locals, CancelUpdate
<1>20. CASE RefundFind(h)
  BY <1>20, NothingAtStake DEF TypeInv, TypeOK, PaymentTypeOK, HandlerTypeOK, LateIsHarmless, AfterPaid, Finish, RefundFind, PaymentsOf, WalletTypeOK, Holds, OnPayment, OnFunding, OnPaidDelivery, OnDelivery
<1>21. CASE RefundCredit(h)
  BY <1>21, NothingAtStake DEF TypeInv, TypeOK, PaymentTypeOK, HandlerTypeOK, LateIsHarmless, AfterPaid, Goto, locals, RefundCredit
<1>22. CASE RefundMark(h)
  <2>1. OnlyVerifiedMoneyCounts'
    BY <1>22 DEF TypeInv, TypeOK, PaymentTypeOK, HandlerTypeOK, OnlyVerifiedMoneyCounts, AnswersHold, AfterPaid, Collected, Finish, RefundMark, Holds, OnPayment, OnFunding, OnPaidDelivery, OnDelivery
  <2>2. AnswersHold'
    BY <1>22 DEF TypeInv, TypeOK, PaymentTypeOK, HandlerTypeOK, AnswersHold, AfterPaid, Collected, Finish, RefundMark
  <2>3. LateIsHarmless'
    BY <1>22 DEF TypeInv, TypeOK, PaymentTypeOK, HandlerTypeOK, LateIsHarmless, Finish, RefundMark
  <2>4. QED
    BY <2>1, <2>2, <2>3
<1>23. CASE AwaitPayment(h)
  BY <1>23, NothingAtStake DEF TypeInv, TypeOK, PaymentTypeOK, HandlerTypeOK, LateIsHarmless, AfterPaid, Finish, AwaitPayment
<1>24. CASE ConfirmPickup(h)
  BY <1>24, NothingAtStake DEF TypeInv, TypeOK, PaymentTypeOK, HandlerTypeOK, LateIsHarmless, AfterPaid, Finish, ConfirmPickup
<1>25. CASE ExhaustCancel(h)
  BY <1>25, NothingAtStake DEF TypeInv, TypeOK, PaymentTypeOK, HandlerTypeOK, LateIsHarmless, AfterPaid, Goto, locals, ExhaustCancel
<1>26. CASE ExhaustDelete(h)
  BY <1>26, NothingAtStake DEF TypeInv, TypeOK, PaymentTypeOK, HandlerTypeOK, DeliveryTypeOK, LateIsHarmless, AfterPaid, Finish, ExhaustDelete
<1>27. QED
  BY <1>1, <1>2, <1>3, <1>4, <1>5, <1>6, <1>7, <1>8, <1>9, <1>10, <1>11, <1>12, <1>13, <1>14, <1>15, <1>16, <1>17, <1>18, <1>19, <1>20, <1>21, <1>22, <1>23, <1>24, <1>25, <1>26 DEF Step

LEMMA OtherSettlement ==
    ASSUME SettlementInv,
           \/ \E h \in Handlers : Arrive(h)
           \/ Open \/ Monnify \/ Platform \/ Faults \/ UNCHANGED vars
    PROVE  OnlyVerifiedMoneyCounts' /\ AnswersHold' /\ LateIsHarmless'
<1> USE DEF payVars, provVars, reqVars, delVars, walVars, locals, SettlementInv
<1>1. ASSUME NEW h \in Handlers, NEW p \in Payments, StartWebhook(h, p)
      PROVE  OnlyVerifiedMoneyCounts' /\ AnswersHold' /\ LateIsHarmless'
  BY <1>1, NothingAtStake DEF TypeInv, TypeOK, PaymentTypeOK, HandlerTypeOK, WalletTypeOK, LateIsHarmless, AfterPaid, StartOnPayment, StartWebhook, Holds, OnPayment, OnFunding, OnPaidDelivery, OnDelivery
<1>2. ASSUME NEW h \in Handlers, NEW p \in Payments, StartPoll(h, p)
      PROVE  OnlyVerifiedMoneyCounts' /\ AnswersHold' /\ LateIsHarmless'
  BY <1>2, NothingAtStake DEF TypeInv, TypeOK, PaymentTypeOK, HandlerTypeOK, WalletTypeOK, LateIsHarmless, AfterPaid, StartOnPayment, StartPoll, Holds, OnPayment, OnFunding, OnPaidDelivery, OnDelivery
<1>3. ASSUME NEW h \in Handlers, NEW d \in Deliveries, StartCancel(h, d)
      PROVE  OnlyVerifiedMoneyCounts' /\ AnswersHold' /\ LateIsHarmless'
  BY <1>3, NothingAtStake DEF TypeInv, TypeOK, PaymentTypeOK, HandlerTypeOK, WalletTypeOK, LateIsHarmless, AfterPaid, StartOnDelivery, StartCancel, Holds, OnPayment, OnFunding, OnPaidDelivery, OnDelivery
<1>4. ASSUME NEW h \in Handlers, NEW d \in Deliveries, StartExhaust(h, d)
      PROVE  OnlyVerifiedMoneyCounts' /\ AnswersHold' /\ LateIsHarmless'
  BY <1>4, NothingAtStake DEF TypeInv, TypeOK, PaymentTypeOK, HandlerTypeOK, WalletTypeOK, LateIsHarmless, AfterPaid, StartOnDelivery, StartExhaust, Holds, OnPayment, OnFunding, OnPaidDelivery, OnDelivery
<1>5. ASSUME NEW h \in Handlers, NEW d \in Deliveries, StartInitiatePickup(h, d)
      PROVE  OnlyVerifiedMoneyCounts' /\ AnswersHold' /\ LateIsHarmless'
  BY <1>5, NothingAtStake DEF TypeInv, TypeOK, PaymentTypeOK, HandlerTypeOK, WalletTypeOK, LateIsHarmless, AfterPaid, StartOnDelivery, StartInitiatePickup, Holds, OnPayment, OnFunding, OnPaidDelivery, OnDelivery
<1>6. ASSUME NEW h \in Handlers, NEW d \in Deliveries, StartConfirmPickup(h, d)
      PROVE  OnlyVerifiedMoneyCounts' /\ AnswersHold' /\ LateIsHarmless'
  BY <1>6, NothingAtStake DEF TypeInv, TypeOK, PaymentTypeOK, HandlerTypeOK, WalletTypeOK, LateIsHarmless, AfterPaid, StartOnDelivery, StartConfirmPickup, Holds, OnPayment, OnFunding, OnPaidDelivery, OnDelivery
<1>7. ASSUME NEW p \in Payments, NEW d \in Deliveries \union {NoDelivery}, OpenPayment(p, d)
      PROVE  OnlyVerifiedMoneyCounts' /\ AnswersHold' /\ LateIsHarmless'
  BY <1>7 DEF TypeInv, TypeOK, PaymentTypeOK, HandlerTypeOK, NothingBeforeDocument, OnlyVerifiedMoneyCounts, AnswersHold, LateIsHarmless, Collected, OpenPayment
<1>8. ASSUME NEW p \in Payments, OpenAtMonnify(p)
      PROVE  OnlyVerifiedMoneyCounts' /\ AnswersHold' /\ LateIsHarmless'
  <2>1. monnify[p] \in {"none", "pending", "paid"} /\ \E s : monnify' = [monnify EXCEPT ![p] = s]
    BY <1>8 DEF OpenAtMonnify
  <2>2. QED
    BY <1>8 DEF TypeInv, TypeOK, PaymentTypeOK, HandlerTypeOK, NothingBeforeDocument, OnlyVerifiedMoneyCounts, AnswersHold, LateIsHarmless, Collected, OpenAtMonnify
<1>9. ASSUME NEW p \in Payments, MonnifySettles(p)
      PROVE  OnlyVerifiedMoneyCounts' /\ AnswersHold' /\ LateIsHarmless'
  <2>1. monnify[p] \in {"none", "pending", "paid"} /\ \E s : monnify' = [monnify EXCEPT ![p] = s]
    BY <1>9 DEF MonnifySettles
  <2>2. QED
    BY <1>9 DEF TypeInv, TypeOK, PaymentTypeOK, HandlerTypeOK, NothingBeforeDocument, OnlyVerifiedMoneyCounts, AnswersHold, LateIsHarmless, Collected, MonnifySettles
<1>10. ASSUME NEW p \in Payments, MonnifyReverses(p)
      PROVE  OnlyVerifiedMoneyCounts' /\ AnswersHold' /\ LateIsHarmless'
  <2>1. monnify[p] \in {"none", "pending", "paid"} /\ \E s : monnify' = [monnify EXCEPT ![p] = s]
    BY <1>10 DEF MonnifyReverses
  <2>2. QED
    BY <1>10 DEF TypeInv, TypeOK, PaymentTypeOK, HandlerTypeOK, NothingBeforeDocument, OnlyVerifiedMoneyCounts, AnswersHold, LateIsHarmless, Collected, MonnifyReverses
<1>11. ASSUME NEW p \in Payments, SaveProviderRef(p)
      PROVE  OnlyVerifiedMoneyCounts' /\ AnswersHold' /\ LateIsHarmless'
  BY <1>11, NothingAtStake DEF SaveProviderRef
<1>12. ASSUME NEW p \in Payments, MonnifyRepeats(p)
      PROVE  OnlyVerifiedMoneyCounts' /\ AnswersHold' /\ LateIsHarmless'
  BY <1>12, NothingAtStake DEF MonnifyRepeats
<1>13. ASSUME NEW d \in Deliveries, RequestCached(d)
      PROVE  OnlyVerifiedMoneyCounts' /\ AnswersHold' /\ LateIsHarmless'
  BY <1>13, NothingAtStake DEF RequestCached
<1>14. ASSUME NEW d \in Deliveries, RequestInDb(d)
      PROVE  OnlyVerifiedMoneyCounts' /\ AnswersHold' /\ LateIsHarmless'
  BY <1>14, NothingAtStake DEF RequestInDb
<1>15. ASSUME NEW d \in Deliveries, RiderAccepts(d)
      PROVE  OnlyVerifiedMoneyCounts' /\ AnswersHold' /\ LateIsHarmless'
  BY <1>15, NothingAtStake DEF RiderAccepts, MoveDelivery
<1>16. ASSUME NEW d \in Deliveries, RiderRejects(d)
      PROVE  OnlyVerifiedMoneyCounts' /\ AnswersHold' /\ LateIsHarmless'
  BY <1>16, NothingAtStake DEF RiderRejects, MoveDelivery
<1>17. ASSUME NEW d \in Deliveries, AdminAssigns(d)
      PROVE  OnlyVerifiedMoneyCounts' /\ AnswersHold' /\ LateIsHarmless'
  BY <1>17, NothingAtStake DEF AdminAssigns, MoveDelivery
<1>18. ASSUME NEW d \in Deliveries, RiderAdvances(d)
      PROVE  OnlyVerifiedMoneyCounts' /\ AnswersHold' /\ LateIsHarmless'
  BY <1>18, NothingAtStake DEF RiderAdvances, MoveDelivery
<1>18a. ASSUME NEW d \in Deliveries, RetrySearch(d)
      PROVE  OnlyVerifiedMoneyCounts' /\ AnswersHold' /\ LateIsHarmless'
  BY <1>18a, NothingAtStake DEF RetrySearch
<1>19. ASSUME NEW d \in Deliveries, ExpireCached(d)
      PROVE  OnlyVerifiedMoneyCounts' /\ AnswersHold' /\ LateIsHarmless'
  BY <1>19, NothingAtStake DEF ExpireCached
<1>20. ASSUME NEW h \in Handlers, Fail(h)
      PROVE  OnlyVerifiedMoneyCounts' /\ AnswersHold' /\ LateIsHarmless'
  BY <1>20, NothingAtStake DEF TypeInv, TypeOK, PaymentTypeOK, HandlerTypeOK, AfterPaid, Finish, Fail
<1>21. CASE UNCHANGED vars
  BY <1>21, NothingAtStake DEF vars
<1>22. CASE \E h \in Handlers : Arrive(h)
  BY <1>22, <1>1, <1>2, <1>3, <1>4, <1>5, <1>6 DEF Arrive, SettlementStarts
<1>23. CASE Open
  BY <1>23, <1>7, <1>8, <1>11, <1>13, <1>14 DEF Open, FundWallet, InitiatePayment
<1>24. CASE Monnify
  BY <1>24, <1>9, <1>10, <1>12 DEF Monnify
<1>25. CASE Platform
  BY <1>25, <1>15, <1>16, <1>17, <1>18, <1>18a DEF Platform
<1>26. CASE Faults
  BY <1>26, <1>19, <1>20 DEF Faults
<1>27. QED
  BY <1>21, <1>22, <1>23, <1>24, <1>25, <1>26

LEMMA SettlementNext == SettlementInv /\ [Next]_vars => SettlementInv'
<1> SUFFICES ASSUME SettlementInv, [Next]_vars PROVE SettlementInv'
  OBVIOUS
<1>1. TypeInv'
  BY TypeNext DEF SettlementInv
<1>2. OnlyVerifiedMoneyCounts' /\ AnswersHold' /\ LateIsHarmless'
  BY StepSettlement, OtherSettlement DEF Next
<1>3. QED
  BY <1>1, <1>2 DEF SettlementInv

THEOREM SettlementInvariant == Spec => []SettlementInv
<1>1. QED
  BY SettlementInit, SettlementNext, PTL DEF Spec

(* No value without money: a payment marked PAID, a wallet increment and a *)
(* delivery's payment rest on a transaction Monnify reported paid, for any *)
(* number of payments, deliveries and overlapping requests, under crashes, *)
(* duplicated webhooks and reversals.                                      *)
THEOREM MoneyIsVerified == Spec => []OnlyVerifiedMoneyCounts
<1>1. SettlementInv => OnlyVerifiedMoneyCounts
  BY DEF SettlementInv
<1>2. QED
  BY <1>1, SettlementInvariant, PTL

(* A request that arrives after a funding was recorded never credits it    *)
(* again: the guard in handleWebhookPaymentSuccess stops late duplicates.  *)
THEOREM LateDuplicatesAreHarmless == Spec => []SettledFundingIsFinal
<1>1. SettlementInv => SettledFundingIsFinal
  BY DEF SettlementInv, LateIsHarmless, SettledFundingIsFinal
<1>2. QED
  BY <1>1, SettlementInvariant, PTL

(* A payment leaves PAID only by a reversal at Monnify or by a refund.     *)
THEOREM PaidIsRemembered == Spec => PaidIsNotForgotten
<1> DEFINE Kept(p) ==
      payStatus[p] = "paid" /\ payStatus'[p] # "paid" =>
         \/ monnify[p] = "reversed"
         \/ \E h \in Handlers : pc[h] = "refundMark" /\ hPay[h] = p
<1>1. ASSUME SettlementInv, [Next]_vars, NEW p \in Payments PROVE Kept(p)
  <2> USE DEF payVars, provVars, delVars, walVars, reqVars
  <2>1. CASE payStatus' = payStatus
    BY <2>1
  <2>2. ASSUME NEW h \in Handlers, MarkPaid(h) PROVE Kept(p)
    BY <1>1, <2>2 DEF SettlementInv, TypeInv, TypeOK, PaymentTypeOK, MarkPaid
  <2>3. ASSUME NEW h \in Handlers, MarkFailed(h) PROVE Kept(p)
    <3>1. payStatus[p] = "paid" => monnify[p] \in {"paid", "reversed"}
      BY <1>1 DEF SettlementInv, OnlyVerifiedMoneyCounts, Collected
    <3>2. monnify[hPay[h]] \in {"failed", "reversed"}
      BY <1>1, <2>3 DEF SettlementInv, AnswersHold, MarkFailed
    <3>3. payStatus' = [payStatus EXCEPT ![hPay[h]] = "failed"]
      BY <2>3 DEF MarkFailed
    <3>4. QED
      BY <1>1, <3>1, <3>2, <3>3 DEF SettlementInv, TypeInv, TypeOK, PaymentTypeOK
  <2>4. ASSUME NEW h \in Handlers, RefundMark(h) PROVE Kept(p)
    BY <1>1, <2>4 DEF SettlementInv, TypeInv, TypeOK, PaymentTypeOK, RefundMark
  <2>5. ASSUME NEW q \in Payments, NEW d \in Deliveries \union {NoDelivery}, OpenPayment(q, d)
        PROVE  Kept(p)
    BY <1>1, <2>5 DEF SettlementInv, TypeInv, TypeOK, PaymentTypeOK, OpenPayment
  <2>6. \/ payStatus' = payStatus
        \/ \E h \in Handlers : MarkPaid(h) \/ MarkFailed(h) \/ RefundMark(h)
        \/ \E q \in Payments, d \in Deliveries \union {NoDelivery} : OpenPayment(q, d)
    <3>1. ASSUME NEW h \in Handlers, Step(h)
          PROVE  payStatus' = payStatus \/ MarkPaid(h) \/ MarkFailed(h) \/ RefundMark(h)
      BY <3>1 DEF Step, Verify, ReadForSuccess, CheckLedger, IncBalance, InsertLedger,
           FindDelivery, GetPending, CreateDelivery, DeletePending, Confirm, OnPaymentCompleted,
           StartSearch, ReadAwaiting, Revert, CancelGetPending, CancelDeletePending, CancelUpdate,
           RefundFind, RefundCredit, AwaitPayment, ConfirmPickup, ExhaustCancel, ExhaustDelete
    <3>2. ASSUME NEW h \in Handlers, Arrive(h) PROVE payStatus' = payStatus
      BY <3>2 DEF Arrive, SettlementStarts, StartWebhook, StartPoll, StartCancel, StartExhaust,
           StartInitiatePickup, StartConfirmPickup
    <3>3. CASE Open
      BY <3>3 DEF Open, FundWallet, InitiatePayment, OpenAtMonnify, SaveProviderRef,
           RequestCached, RequestInDb
    <3>4. CASE Monnify \/ Platform \/ Faults \/ UNCHANGED vars
      BY <3>4 DEF Monnify, MonnifySettles, MonnifyReverses, MonnifyRepeats, Platform, MoveDelivery,
           RiderAccepts, RiderRejects, AdminAssigns, RiderAdvances, RetrySearch, Faults, Fail, ExpireCached, vars
    <3>5. QED
      BY <1>1, <3>1, <3>2, <3>3, <3>4 DEF Next
  <2>7. QED
    BY <2>1, <2>2, <2>3, <2>4, <2>5, <2>6
<1>2. SettlementInv /\ [Next]_vars => [\A p \in Payments : Kept(p)]_vars
  BY <1>1
<1>3. QED
  BY <1>2, SettlementInvariant, PTL DEF Spec, PaidIsNotForgotten

-----------------------------------------------------------------------------
(* The ledger and the wallet: between the increment and the record a       *)
(* handler stands at insertLedger.                                         *)

LEMMA RecordingFinite ==
    \A p : IsFiniteSet(Recording(p)) /\ Cardinality(Recording(p)) \in Nat
  BY HandlersAssumption, FS_Subset, FS_CardinalityType DEF Recording

(* A step that makes no record, and of which no handler comes to make one. *)
LEMMA LedgerKept ==
    ASSUME TypeInv, LedgerNeverAhead, UNCHANGED <<credits, ledger>>,
           \A g \in Handlers : pc'[g] = "insertLedger" =>
               pc[g] = "insertLedger" /\ hPay'[g] = hPay[g]
    PROVE  LedgerNeverAhead'
<1>1. ASSUME NEW p \in Payments
      PROVE  ledger[p] + Cardinality(Recording(p))' <= credits[p]
  <2>1. Recording(p)' \subseteq Recording(p)
    BY DEF Recording
  <2>2. /\ Cardinality(Recording(p)') <= Cardinality(Recording(p))
        /\ Cardinality(Recording(p)') \in Nat
    BY <2>1, RecordingFinite, FS_Subset, FS_CardinalityType
  <2>3. /\ ledger[p] + Cardinality(Recording(p)) <= credits[p]
        /\ ledger[p] \in Nat /\ credits[p] \in Nat /\ Cardinality(Recording(p)) \in Nat
    BY RecordingFinite DEF LedgerNeverAhead, TypeInv, TypeOK, WalletTypeOK
  <2> QED
    BY <2>2, <2>3
<1> QED
  BY <1>1 DEF LedgerNeverAhead

LEMMA LedgerIncreased ==
    ASSUME TypeInv, LedgerNeverAhead, NEW h \in Handlers, IncBalance(h)
    PROVE  LedgerNeverAhead'
<1>1. /\ pc[h] = "incBalance" /\ pc' = [pc EXCEPT ![h] = "insertLedger"] /\ UNCHANGED hPay
      /\ credits' = [credits EXCEPT ![hPay[h]] = @ + 1] /\ UNCHANGED ledger
  BY DEF IncBalance, Goto, locals
<1>2. /\ hPay[h] \in Payments /\ pc \in [Handlers -> Labels]
      /\ credits \in [Payments -> Nat] /\ ledger \in [Payments -> Nat]
  BY <1>1 DEF TypeInv, TypeOK, HandlerTypeOK, WalletTypeOK, Holds, OnFunding
<1>3. ASSUME NEW p \in Payments
      PROVE  ledger'[p] + Cardinality(Recording(p))' <= credits'[p]
  <2>1. /\ ledger[p] + Cardinality(Recording(p)) <= credits[p]
        /\ ledger[p] \in Nat /\ credits[p] \in Nat /\ Cardinality(Recording(p)) \in Nat
    BY <1>2, RecordingFinite DEF LedgerNeverAhead
  <2>2. CASE p = hPay[h]
    <3>1. Recording(p)' = Recording(p) \union {h} /\ h \notin Recording(p)
      BY <1>1, <1>2, <2>2 DEF Recording
    <3>2. Cardinality(Recording(p)') = Cardinality(Recording(p)) + 1
      BY <3>1, RecordingFinite, FS_AddElement
    <3>3. credits'[p] = credits[p] + 1
      BY <1>1, <1>2, <2>2
    <3> QED
      BY <1>1, <2>1, <3>2, <3>3
  <2>3. CASE p # hPay[h]
    <3>1. Recording(p)' = Recording(p)
      BY <1>1, <1>2, <2>3 DEF Recording
    <3> QED
      BY <1>1, <1>2, <2>1, <2>3, <3>1
  <2> QED
    BY <2>2, <2>3
<1> QED
  BY <1>3 DEF LedgerNeverAhead

LEMMA LedgerRecorded ==
    ASSUME TypeInv, LedgerNeverAhead, NEW h \in Handlers, InsertLedger(h)
    PROVE  LedgerNeverAhead'
<1>1. /\ pc[h] = "insertLedger" /\ pc' = [pc EXCEPT ![h] = "idle"]
      /\ hPay' = [hPay EXCEPT ![h] = NoPayment]
      /\ ledger' = [ledger EXCEPT ![hPay[h]] = @ + 1] /\ UNCHANGED credits
  BY DEF InsertLedger, Finish
<1>2. /\ hPay[h] \in Payments /\ pc \in [Handlers -> Labels]
      /\ hPay \in [Handlers -> Payments \union {NoPayment}]
      /\ credits \in [Payments -> Nat] /\ ledger \in [Payments -> Nat]
  BY <1>1 DEF TypeInv, TypeOK, HandlerTypeOK, WalletTypeOK, Holds, OnFunding
<1>3. ASSUME NEW p \in Payments
      PROVE  ledger'[p] + Cardinality(Recording(p))' <= credits'[p]
  <2>1. /\ ledger[p] + Cardinality(Recording(p)) <= credits[p]
        /\ ledger[p] \in Nat /\ credits[p] \in Nat /\ Cardinality(Recording(p)) \in Nat
    BY <1>2, RecordingFinite DEF LedgerNeverAhead
  <2>2. CASE p = hPay[h]
    <3>1. Recording(p)' = Recording(p) \ {h} /\ h \in Recording(p)
      BY <1>1, <1>2, <2>2 DEF Recording
    <3>2. Cardinality(Recording(p)') = Cardinality(Recording(p)) - 1
      BY <3>1, RecordingFinite, FS_RemoveElement
    <3>3. ledger'[p] = ledger[p] + 1
      BY <1>1, <1>2, <2>2
    <3> QED
      BY <1>1, <2>1, <3>2, <3>3
  <2>3. CASE p # hPay[h]
    <3>1. Recording(p)' = Recording(p)
      BY <1>1, <1>2, <2>3 DEF Recording
    <3> QED
      BY <1>1, <1>2, <2>1, <2>3, <3>1
  <2> QED
    BY <2>2, <2>3
<1> QED
  BY <1>3 DEF LedgerNeverAhead

LEMMA LedgerNext ==
    ASSUME TypeInv, LedgerNeverAhead, [Next]_vars
    PROVE  LedgerNeverAhead'
<1> USE DEF payVars, provVars, reqVars, delVars, walVars, locals
<1>1. pc \in [Handlers -> Labels] /\ hPay \in [Handlers -> Payments \union {NoPayment}]
  BY DEF TypeInv, TypeOK, HandlerTypeOK
<1>2. ASSUME NEW h \in Handlers, Step(h), ~IncBalance(h), ~InsertLedger(h)
      PROVE  LedgerNeverAhead'
  <2>1. UNCHANGED <<credits, ledger>>
    BY <1>2 DEF Step, Verify, ReadForSuccess, MarkPaid, CheckLedger,
       FindDelivery, GetPending, CreateDelivery, DeletePending, Confirm, OnPaymentCompleted,
       StartSearch, MarkFailed, ReadAwaiting, Revert, CancelGetPending, CancelDeletePending,
       CancelUpdate, RefundFind, RefundCredit, RefundMark, AwaitPayment, ConfirmPickup,
       ExhaustCancel, ExhaustDelete
  <2>2. \/ \E l \in Labels \ {"insertLedger"} : Goto(h, l)
        \/ Finish(h)
        \/ RefundFind(h)
    BY <1>2 DEF Step, Verify, ReadForSuccess, MarkPaid, CheckLedger,
       FindDelivery, GetPending, CreateDelivery, DeletePending, Confirm, OnPaymentCompleted,
       StartSearch, MarkFailed, ReadAwaiting, Revert, CancelGetPending, CancelDeletePending,
       CancelUpdate, RefundCredit, RefundMark, AwaitPayment, ConfirmPickup,
       ExhaustCancel, ExhaustDelete
  <2>3. \A g \in Handlers : pc'[g] = "insertLedger" => pc[g] = "insertLedger" /\ hPay'[g] = hPay[g]
    BY <1>1, <2>2 DEF Goto, Finish, RefundFind
  <2> QED
    BY <2>1, <2>3, LedgerKept
<1>3. ASSUME NEW h \in Handlers, Arrive(h) \/ Fail(h)
      PROVE  LedgerNeverAhead'
  <2>1. UNCHANGED <<credits, ledger>>
    BY <1>3 DEF Arrive, SettlementStarts, StartWebhook, StartPoll, StartCancel, StartExhaust,
       StartInitiatePickup, StartConfirmPickup, Fail
  <2>2. \/ \E p \in Payments : StartOnPayment(h, p, "verify")
        \/ \E d \in Deliveries, l \in Labels \ {"insertLedger"}, b \in BOOLEAN : StartOnDelivery(h, d, l, b)
        \/ Finish(h)
    BY <1>3 DEF Arrive, SettlementStarts, StartWebhook, StartPoll, StartCancel, StartExhaust,
       StartInitiatePickup, StartConfirmPickup, Fail
  <2>3. \A g \in Handlers : pc'[g] = "insertLedger" => pc[g] = "insertLedger" /\ hPay'[g] = hPay[g]
    BY <1>1, <2>2 DEF StartOnPayment, StartOnDelivery, Finish
  <2> QED
    BY <2>1, <2>3, LedgerKept
<1>4. CASE Open \/ Monnify \/ Platform \/ (\E d \in Deliveries : ExpireCached(d)) \/ UNCHANGED vars
  <2>1. UNCHANGED <<credits, ledger, pc, hPay>>
    BY <1>4 DEF Open, OpenPayment, FundWallet, InitiatePayment, OpenAtMonnify, SaveProviderRef,
       RequestCached, RequestInDb, Monnify, MonnifySettles, MonnifyReverses, MonnifyRepeats,
       Platform, MoveDelivery, RiderAccepts, RiderRejects, AdminAssigns, RiderAdvances,
       RetrySearch, ExpireCached, vars
  <2> QED
    BY <2>1, LedgerKept
<1> QED
  BY <1>2, <1>3, <1>4, LedgerIncreased, LedgerRecorded DEF Next, Faults

(* The ledger holds no record of an increment that was not made, nor is    *)
(* about to: processWalletFunding increments first, so that a crash        *)
(* between the two, of any of any number of handlers, costs the record.    *)
THEOREM RecordsFollowMoney == Spec => []LedgerNeverAhead
<1>1. Init => TypeInv /\ LedgerNeverAhead
  <2>1. ASSUME Init
        PROVE  LedgerNeverAhead
    <3>1. \A p : Recording(p) = {}
      BY <2>1 DEF Init, Recording
    <3>2. Cardinality({}) = 0
      BY FS_EmptySet
    <3>3. \A p \in Payments : ledger[p] = 0 /\ credits[p] = 0
      BY <2>1 DEF Init
    <3> QED
      BY <3>1, <3>2, <3>3 DEF LedgerNeverAhead
  <2> QED
    BY <2>1, TypeInit
<1>2. TypeInv /\ LedgerNeverAhead /\ [Next]_vars => (TypeInv /\ LedgerNeverAhead)'
  BY TypeNext, LedgerNext
<1> QED
  BY <1>1, <1>2, PTL DEF Spec

-----------------------------------------------------------------------------
(* The cache and the documents. *)

(* Nothing exists of a delivery that was not asked for, and a rider only   *)
(* of one that exists.                                                     *)
AskedFirst ==
    /\ cached \subseteq requested
    /\ \A d \in Deliveries : d \notin requested => dStatus[d] = Absent
    /\ \A d \in Deliveries : dRider[d] => dStatus[d] # Absent
    /\ \A p \in Payments : payFor[p] \in requested \union {NoDelivery}

CacheInv == TypeInv /\ AskedFirst /\ CacheIsCleared

Deleting(g, d) == pc[g] = "deletePending" /\ hDel[g] = d

(* A step that asks for nothing and creates no document; who deletes the   *)
(* request does so, or has done it.                                        *)
LEMMA CacheKept ==
    ASSUME CacheInv, UNCHANGED <<requested, payFor>>, cached' \subseteq cached,
           \A d \in Deliveries : dStatus'[d] # Absent => dStatus[d] # Absent,
           \A d \in Deliveries : dRider'[d] => dStatus'[d] # Absent,
           \A g \in Handlers, d \in cached' : Deleting(g, d) => Deleting(g, d)'
    PROVE  AskedFirst' /\ CacheIsCleared'
<1>1. cached \subseteq Deliveries
  BY ConstantsAssumption DEF CacheInv, TypeInv, TypeOK, DeliveryTypeOK
<1>2. AskedFirst'
  BY DEF CacheInv, AskedFirst
<1>3. ASSUME NEW d \in cached'
      PROVE  dStatus'[d] = Absent \/ \E g \in Handlers : Deleting(g, d)'
  <2>1. CASE dStatus[d] = Absent
    BY <1>1, <1>3, <2>1
  <2>2. CASE dStatus[d] # Absent
    <3>1. PICK g \in Handlers : Deleting(g, d)
      BY <1>3, <2>2 DEF CacheInv, CacheIsCleared, Deleting
    <3> QED
      BY <1>3, <3>1
  <2> QED
    BY <2>1, <2>2
<1> QED
  BY <1>2, <1>3 DEF CacheIsCleared, Deleting

LEMMA UpdateKeeps ==
    ASSUME TypeInv, NEW d \in Deliveries, NEW v, v # Absent, dStatus' = Update(dStatus, d, v)
    PROVE  \A e \in Deliveries : dStatus'[e] # Absent <=> dStatus[e] # Absent
  BY DEF TypeInv, TypeOK, DeliveryTypeOK, Update

LEMMA CacheStep ==
    ASSUME CacheInv, NEW h \in Handlers, Step(h)
    PROVE  AskedFirst' /\ CacheIsCleared'
<1> USE DEF payVars, provVars, reqVars, delVars, walVars, locals
<1>1. /\ TypeInv /\ pc \in [Handlers -> Labels] /\ hDel \in [Handlers -> Deliveries \union {NoDelivery}]
      /\ dStatus \in [Deliveries -> Status \union {Absent}] /\ dRider \in [Deliveries -> BOOLEAN]
      /\ \A d \in Deliveries : dRider[d] => dStatus[d] # Absent
      /\ cached \subseteq Deliveries
  BY ConstantsAssumption DEF CacheInv, TypeInv, TypeOK, HandlerTypeOK, DeliveryTypeOK, AskedFirst
<1>2. CASE CreateDelivery(h)
  <2>1. hDel[h] \in Deliveries /\ payFor[hPay[h]] = hDel[h] /\ hPay[h] \in Payments
    BY <1>1, <1>2 DEF TypeInv, TypeOK, Holds, OnPaidDelivery, CreateDelivery
  <2>2. hDel[h] \in requested
    BY <2>1, ConstantsAssumption DEF CacheInv, AskedFirst
  <2>3. CASE dStatus[hDel[h]] = Absent
    <3>1. /\ dStatus' = [dStatus EXCEPT ![hDel[h]] = "payment_confirmed"]
          /\ pc' = [pc EXCEPT ![h] = "deletePending"] /\ UNCHANGED <<hDel, requested, cached, payFor, dRider>>
      BY <1>2, <2>3 DEF CreateDelivery, Goto
    <3>2. AskedFirst'
      BY <1>1, <2>1, <2>2, <3>1 DEF CacheInv, AskedFirst
    <3>3. ASSUME NEW d \in cached
          PROVE  dStatus'[d] = Absent \/ \E g \in Handlers : pc'[g] = "deletePending" /\ hDel'[g] = d
      <4>1. CASE d = hDel[h]
        BY <1>1, <3>1, <4>1
      <4>2. CASE d # hDel[h]
        BY <1>1, <1>2, <3>1, <3>3, <4>2 DEF CacheInv, CacheIsCleared, CreateDelivery
      <4> QED
        BY <4>1, <4>2
    <3> QED
      BY <3>1, <3>2, <3>3 DEF CacheIsCleared
  <2>4. CASE dStatus[hDel[h]] # Absent
    <3>1. Finish(h) /\ UNCHANGED <<dStatus, dRider, requested, cached, payFor>> /\ pc[h] # "deletePending"
      BY <1>2, <2>4 DEF CreateDelivery
    <3>2. \A g \in Handlers, d \in cached' : Deleting(g, d) => Deleting(g, d)'
      BY <1>1, <3>1 DEF Deleting, Finish
    <3> QED
      BY <1>1, <3>1, <3>2, CacheKept
  <2> QED
    BY <2>3, <2>4
<1>3. CASE DeletePending(h)
  <2>1. /\ pc' = [pc EXCEPT ![h] = "confirm"] /\ cached' = cached \ {hDel[h]}
        /\ UNCHANGED <<hDel, requested, payFor, dStatus, dRider>>
    BY <1>3 DEF DeletePending, Goto
  <2>2. \A g \in Handlers, d \in cached' : Deleting(g, d) => Deleting(g, d)'
    BY <1>1, <2>1 DEF Deleting
  <2> QED
    BY <1>1, <2>1, <2>2, CacheKept
<1>4. CASE ~CreateDelivery(h) /\ ~DeletePending(h)
  <2>1. /\ UNCHANGED <<requested, payFor>> /\ cached' \subseteq cached
        /\ pc[h] # "deletePending"
    BY <1>4 DEF Step, Verify, ReadForSuccess, MarkPaid, CheckLedger, IncBalance, InsertLedger,
       FindDelivery, GetPending, Confirm, OnPaymentCompleted,
       StartSearch, MarkFailed, ReadAwaiting, Revert, CancelGetPending, CancelDeletePending,
       CancelUpdate, RefundFind, RefundCredit, RefundMark, AwaitPayment, ConfirmPickup,
       ExhaustCancel, ExhaustDelete
  <2>2. \/ \E l \in Labels : Goto(h, l)
        \/ Finish(h)
        \/ RefundFind(h)
    BY <1>4 DEF Step, Verify, ReadForSuccess, MarkPaid, CheckLedger, IncBalance, InsertLedger,
       FindDelivery, GetPending, Confirm, OnPaymentCompleted,
       StartSearch, MarkFailed, ReadAwaiting, Revert, CancelGetPending, CancelDeletePending,
       CancelUpdate, RefundCredit, RefundMark, AwaitPayment, ConfirmPickup,
       ExhaustCancel, ExhaustDelete
  <2>3. \A g \in Handlers \ {h} : pc'[g] = pc[g] /\ hDel'[g] = hDel[g]
    BY <1>1, <2>2 DEF Goto, Finish, RefundFind
  <2>4. \A g \in Handlers, d \in cached' : Deleting(g, d) => Deleting(g, d)'
    BY <2>1, <2>3 DEF Deleting
  <2>5. /\ \A d \in Deliveries : dStatus'[d] # Absent => dStatus[d] # Absent
        /\ \A d \in Deliveries : dRider'[d] => dStatus'[d] # Absent
    <3>1. CASE Confirm(h) \/ StartSearch(h) \/ Revert(h) \/ CancelUpdate(h) \/ AwaitPayment(h)
               \/ ConfirmPickup(h) \/ ExhaustCancel(h)
      <4>1. hDel[h] \in Deliveries
        BY <1>1, <3>1 DEF TypeInv, TypeOK, Holds, OnPaidDelivery, OnDelivery, Confirm, StartSearch,
           Revert, CancelUpdate, AwaitPayment, ConfirmPickup, ExhaustCancel
      <4>2. \E v : v # Absent /\ dStatus' = Update(dStatus, hDel[h], v)
        BY <3>1 DEF Confirm, StartSearch, PaidStatusOf,
           Revert, CancelUpdate, AwaitPayment, ConfirmPickup, ExhaustCancel
      <4>3. UNCHANGED dRider
        BY <3>1 DEF Confirm, StartSearch,
           Revert, CancelUpdate, AwaitPayment, ConfirmPickup, ExhaustCancel
      <4> QED
        BY <1>1, <4>1, <4>2, <4>3, UpdateKeeps
    <3>2. CASE ExhaustDelete(h)
      BY <1>1, <3>2 DEF ExhaustDelete
    <3>3. CASE ~(Confirm(h) \/ StartSearch(h) \/ Revert(h) \/ CancelUpdate(h) \/ AwaitPayment(h)
                 \/ ConfirmPickup(h) \/ ExhaustCancel(h) \/ ExhaustDelete(h))
      <4>1. UNCHANGED <<dStatus, dRider>>
        BY <1>4, <3>3 DEF Step, Verify, ReadForSuccess, MarkPaid, CheckLedger, IncBalance, InsertLedger,
           FindDelivery, GetPending, OnPaymentCompleted, MarkFailed, ReadAwaiting, CancelGetPending,
           CancelDeletePending, RefundFind, RefundCredit, RefundMark
      <4> QED
        BY <1>1, <4>1
    <3> QED
      BY <3>1, <3>2, <3>3
  <2> QED
    BY <2>1, <2>4, <2>5, CacheKept
<1> QED
  BY <1>2, <1>3, <1>4

LEMMA CacheOther ==
    ASSUME CacheInv, MayFail = FALSE,
           (\E h \in Handlers : Arrive(h)) \/ Open \/ Monnify \/ Platform \/ Faults \/ UNCHANGED vars
    PROVE  AskedFirst' /\ CacheIsCleared'
<1> USE DEF payVars, provVars, reqVars, delVars, walVars, locals
<1>1. /\ TypeInv /\ pc \in [Handlers -> Labels] /\ hDel \in [Handlers -> Deliveries \union {NoDelivery}]
      /\ dStatus \in [Deliveries -> Status \union {Absent}] /\ dRider \in [Deliveries -> BOOLEAN]
      /\ \A d \in Deliveries : dRider[d] => dStatus[d] # Absent
      /\ cached \subseteq Deliveries
  BY ConstantsAssumption DEF CacheInv, TypeInv, TypeOK, HandlerTypeOK, DeliveryTypeOK, AskedFirst
<1>2. ASSUME NEW h \in Handlers, Arrive(h)
      PROVE  AskedFirst' /\ CacheIsCleared'
  <2>1. UNCHANGED <<requested, payFor, cached, dStatus, dRider>>
    BY <1>2 DEF Arrive, SettlementStarts, StartWebhook, StartPoll, StartCancel, StartExhaust,
       StartInitiatePickup, StartConfirmPickup
  <2>2. \/ \E p \in Payments : StartOnPayment(h, p, "verify")
        \/ \E d \in Deliveries, l \in Labels, b \in BOOLEAN : StartOnDelivery(h, d, l, b)
    BY <1>2 DEF Arrive, SettlementStarts, StartWebhook, StartPoll, StartCancel, StartExhaust,
       StartInitiatePickup, StartConfirmPickup
  <2>3. \A g \in Handlers : Deleting(g, hDel[g]) => pc'[g] = pc[g] /\ hDel'[g] = hDel[g]
    BY <1>1, <2>2 DEF StartOnPayment, StartOnDelivery, Deleting
  <2> QED
    BY <1>1, <2>1, <2>3, CacheKept DEF Deleting
<1>3. ASSUME UNCHANGED <<requested, payFor, cached, dStatus, dRider, pc, hDel>>
      PROVE  AskedFirst' /\ CacheIsCleared'
  BY <1>1, <1>3, CacheKept DEF Deleting
<1>4. ASSUME NEW p \in Payments, NEW d \in Deliveries, InitiatePayment(p, d)
      PROVE  AskedFirst' /\ CacheIsCleared'
  <2>1. UNCHANGED <<requested, cached, dStatus, dRider, pc, hDel>> /\ payFor' = [payFor EXCEPT ![p] = d]
    BY <1>4 DEF InitiatePayment, OpenPayment
  <2>2. d \in requested
    BY <1>4 DEF InitiatePayment, PaymentAllowed, CacheInv, AskedFirst
  <2>3. payFor \in [Payments -> Deliveries \union {NoDelivery}]
    BY DEF CacheInv, TypeInv, TypeOK, PaymentTypeOK
  <2>4. AskedFirst'
    BY <2>1, <2>2, <2>3 DEF CacheInv, AskedFirst
  <2> QED
    BY <2>1, <2>4 DEF CacheInv, CacheIsCleared
<1>5. ASSUME NEW p \in Payments, FundWallet(p)
      PROVE  AskedFirst' /\ CacheIsCleared'
  <2>1. UNCHANGED <<requested, cached, dStatus, dRider, pc, hDel>>
        /\ payFor' = [payFor EXCEPT ![p] = NoDelivery]
    BY <1>5 DEF FundWallet, OpenPayment
  <2>2. payFor \in [Payments -> Deliveries \union {NoDelivery}]
    BY DEF CacheInv, TypeInv, TypeOK, PaymentTypeOK
  <2>3. AskedFirst'
    BY <2>1, <2>2 DEF CacheInv, AskedFirst
  <2> QED
    BY <2>1, <2>3 DEF CacheInv, CacheIsCleared
<1>6. ASSUME NEW d \in Deliveries, RequestCached(d)
      PROVE  AskedFirst' /\ CacheIsCleared'
  <2>1. /\ d \notin requested /\ requested' = requested \union {d} /\ cached' = cached \union {d}
        /\ UNCHANGED <<payFor, dStatus, dRider, pc, hDel>>
    BY <1>6 DEF RequestCached
  <2>2. AskedFirst' /\ dStatus[d] = Absent
    BY <2>1 DEF CacheInv, AskedFirst
  <2> QED
    BY <2>1, <2>2 DEF CacheInv, CacheIsCleared
<1>7. ASSUME NEW d \in Deliveries, RequestInDb(d)
      PROVE  AskedFirst' /\ CacheIsCleared'
  <2>1. /\ d \notin requested /\ requested' = requested \union {d}
        /\ UNCHANGED <<cached, payFor, dRider, pc, hDel>>
        /\ \E s \in Status : dStatus' = [dStatus EXCEPT ![d] = s]
    BY <1>7 DEF RequestInDb
  <2>2. d \notin cached
    BY <2>1 DEF CacheInv, AskedFirst
  <2>3. AskedFirst'
    BY <1>1, <2>1 DEF CacheInv, AskedFirst
  <2>4. \A e \in cached : dStatus'[e] = dStatus[e]
    BY <1>1, <2>1, <2>2
  <2> QED
    BY <2>1, <2>3, <2>4 DEF CacheInv, CacheIsCleared
<1>8. ASSUME NEW d \in Deliveries,
             RiderAccepts(d) \/ RiderRejects(d) \/ AdminAssigns(d) \/ RiderAdvances(d)
      PROVE  AskedFirst' /\ CacheIsCleared'
  <2>1. dStatus[d] # Absent
    BY <1>1, <1>8 DEF RiderAccepts, RiderRejects, AdminAssigns, RiderAdvances,
       OpenToRiders, AssignableByAdmin
  <2>2. \E s \in Status, b \in BOOLEAN : MoveDelivery(d, s, b)
    BY <1>8 DEF RiderAccepts, RiderRejects, AdminAssigns, RiderAdvances, RiderTransitions
  <2>3. \A e \in Deliveries : dStatus'[e] # Absent => dStatus[e] # Absent
    BY <1>1, <2>1, <2>2 DEF MoveDelivery
  <2>4. \A e \in Deliveries : dRider'[e] => dStatus'[e] # Absent
    BY <1>1, <2>2 DEF MoveDelivery
  <2>5. UNCHANGED <<requested, payFor, cached, pc, hDel>>
    BY <2>2 DEF MoveDelivery
  <2> QED
    BY <2>3, <2>4, <2>5, CacheKept DEF Deleting
<1>9. ASSUME NEW d \in Deliveries, ExpireCached(d)
      PROVE  AskedFirst' /\ CacheIsCleared'
  <2>1. UNCHANGED <<requested, payFor, dStatus, dRider, pc, hDel>> /\ cached' \subseteq cached
    BY <1>9 DEF ExpireCached
  <2> QED
    BY <1>1, <2>1, CacheKept DEF Deleting
<1>10. CASE \E h \in Handlers : Arrive(h)
  BY <1>2, <1>10
<1>11. CASE Open
  BY <1>3, <1>4, <1>5, <1>6, <1>7, <1>11 DEF Open, OpenAtMonnify, SaveProviderRef
<1>12. CASE Monnify
  BY <1>3, <1>12 DEF Monnify, MonnifySettles, MonnifyReverses, MonnifyRepeats
<1>13. CASE Platform
  BY <1>3, <1>8, <1>13 DEF Platform, RetrySearch
<1>14. CASE Faults
  BY <1>9, <1>14 DEF Faults, Fail
<1>15. CASE UNCHANGED vars
  BY <1>3, <1>15 DEF vars
<1> QED
  BY <1>10, <1>11, <1>12, <1>13, <1>14, <1>15

(* As long as nothing throws, a request is never left in Redis beside the  *)
(* document that handleWebhookPaymentSuccess made from it.                 *)
THEOREM CacheStaysClear ==
    ASSUME MayFail = FALSE
    PROVE  Spec => []CacheIsCleared
<1>1. Init => CacheInv
  BY TypeInit DEF Init, CacheInv, AskedFirst, CacheIsCleared
<1>2. CacheInv /\ [Next]_vars => CacheInv'
  <2> SUFFICES ASSUME CacheInv, [Next]_vars PROVE CacheInv'
    OBVIOUS
  <2>1. TypeInv'
    BY TypeNext DEF CacheInv
  <2>2. AskedFirst' /\ CacheIsCleared'
    BY CacheStep, CacheOther DEF Next
  <2> QED
    BY <2>1, <2>2 DEF CacheInv
<1>3. CacheInv => CacheIsCleared
  BY DEF CacheInv
<1> QED
  BY <1>1, <1>2, <1>3, PTL DEF Spec

-----------------------------------------------------------------------------
(***************************************************************************)
(* What one lock per payment would buy: if the requests about a payment    *)
(* never overlapped, the early return on a PAID payment would be enough to *)
(* credit every funding at most once, whatever crashes, repeats or is      *)
(* reversed.  The argument is the invariant NotCreditedBefore below: a     *)
(* request that got past that early return cannot meet a credit.           *)
(***************************************************************************)

Fresh == {"markPaid", "checkLedger", "incBalance"}

(* A credited payment is PAID, until Monnify takes the money back. *)
CreditedIsPaid ==
    \A p \in Payments :
        /\ credits[p] <= 1
        /\ credits[p] = 1 /\ payStatus[p] # "paid" => monnify[p] = "reversed"

NotCreditedBefore ==
    \A h \in Handlers :
        /\ pc[h] \in Fresh => credits[hPay[h]] = 0
        /\ pc[h] = "readSuccess" /\ credits[hPay[h]] = 1 => payStatus[hPay[h]] = "paid"
        /\ pc[h] \in {"checkLedger", "incBalance"} => payStatus[hPay[h]] = "paid"

SerialInv ==
    /\ SettlementInv
    /\ OneHandlerPerPayment
    /\ CreditedIsPaid
    /\ NotCreditedBefore

LEMMA SerialInit == Init => SerialInv
<1> SUFFICES ASSUME Init PROVE SerialInv
  OBVIOUS
<1>1. SettlementInv
  BY SettlementInit
<1>2. OneHandlerPerPayment /\ CreditedIsPaid /\ NotCreditedBefore
  BY DEF Init, OneHandlerPerPayment, CreditedIsPaid, NotCreditedBefore, Fresh
<1>3. QED
  BY <1>1, <1>2 DEF SerialInv

(* Steps that neither credit, nor change a payment, nor bring a handler to *)
(* one of the labels the invariant speaks of.                              *)
LEMMA NoCreditAtStake ==
    ASSUME SerialInv, UNCHANGED <<payStatus, credits>>,
           \A p \in Payments : monnify[p] = "reversed" => monnify'[p] = "reversed",
           \A g \in Handlers :
              \/ pc'[g] = pc[g] /\ hPay'[g] = hPay[g]
              \/ pc'[g] \notin Fresh \union {"readSuccess"}
    PROVE  CreditedIsPaid' /\ NotCreditedBefore'
<1>1. CreditedIsPaid'
  BY DEF SerialInv, CreditedIsPaid
<1>2. NotCreditedBefore'
  BY DEF SerialInv, NotCreditedBefore, Fresh
<1>3. QED
  BY <1>1, <1>2

(* A handler that stands at a label the invariant is about holds a payment *)
(* that no other handler holds.                                            *)
LEMMA HoldsAlone ==
    ASSUME SerialInv, NEW h \in Handlers,
           pc[h] \in OnPayment \union OnFunding \union {"refundMark"}
    PROVE  /\ hPay[h] \in Payments
           /\ credits[hPay[h]] \in {0, 1}
           /\ \A g \in Handlers : g # h => hPay[g] # hPay[h]
<1>1. hPay[h] \in Payments
  BY DEF SerialInv, SettlementInv, TypeInv, TypeOK, Holds, OnPayment, OnFunding, OnPaidDelivery
<1>2. credits[hPay[h]] \in Nat /\ credits[hPay[h]] <= 1
  BY <1>1 DEF SerialInv, SettlementInv, TypeInv, TypeOK, WalletTypeOK, CreditedIsPaid
<1>3. hPay[h] # NoPayment
  BY <1>1, ConstantsAssumption
<1>4. QED
  BY <1>1, <1>2, <1>3 DEF SerialInv, OneHandlerPerPayment

LEMMA StepSerial ==
    ASSUME SerialInv, NEW h \in Handlers, Step(h)
    PROVE  CreditedIsPaid' /\ NotCreditedBefore'
<1> USE DEF payVars, provVars, reqVars, delVars, walVars
<1>1. CASE Verify(h)
  <2>1. CreditedIsPaid'
    BY <1>1 DEF SerialInv, SettlementInv, TypeInv, TypeOK, PaymentTypeOK, HandlerTypeOK, WalletTypeOK, OnlyVerifiedMoneyCounts, AnswersHold, Collected, CreditedIsPaid, NotCreditedBefore, Fresh, Verify, Successful, Unsuccessful, Holds, OnPayment, OnFunding, OnPaidDelivery, OnDelivery
  <2>2. NotCreditedBefore'
    BY <1>1 DEF SerialInv, SettlementInv, TypeInv, TypeOK, PaymentTypeOK, HandlerTypeOK, WalletTypeOK, OneHandlerPerPayment, AnswersHold, AfterPaid, Collected, CreditedIsPaid, NotCreditedBefore, Fresh, Goto, Finish, locals, Verify, Successful, Unsuccessful, Holds, OnPayment, OnFunding, OnPaidDelivery, OnDelivery
  <2>3. QED
    BY <2>1, <2>2
<1>2. CASE ReadForSuccess(h)
  <2>1. /\ hPay[h] \in Payments /\ credits[hPay[h]] \in {0, 1}
        /\ \A g \in Handlers : g # h => hPay[g] # hPay[h]
    BY <1>2, HoldsAlone DEF ReadForSuccess, OnPayment, OnFunding
  <2>2. ~AlreadyPaid(hPay[h]) => credits[hPay[h]] = 0
    BY <1>2, <2>1 DEF SerialInv, NotCreditedBefore, ReadForSuccess, AlreadyPaid
  <2>3. CreditedIsPaid'
    BY <1>2, <2>1, <2>2 DEF SerialInv, SettlementInv, TypeInv, TypeOK, PaymentTypeOK, WalletTypeOK, HandlerTypeOK, CreditedIsPaid, ReadForSuccess
  <2>4. ASSUME NEW g \in Handlers, g = h
        PROVE  /\ pc'[g] \in Fresh => credits'[hPay'[g]] = 0
               /\ pc'[g] # "readSuccess"
               /\ pc'[g] \notin {"checkLedger", "incBalance"}
    BY <1>2, <2>1, <2>2, <2>4 DEF SerialInv, SettlementInv, TypeInv, TypeOK, PaymentTypeOK, WalletTypeOK, HandlerTypeOK, Fresh, ReadForSuccess, AlreadyPaid, Goto, Finish, locals
  <2>5. ASSUME NEW g \in Handlers, g # h
        PROVE  /\ pc'[g] = pc[g] /\ hPay'[g] = hPay[g] /\ hPay[g] # hPay[h]
    BY <1>2, <2>1, <2>5 DEF SerialInv, SettlementInv, TypeInv, TypeOK, PaymentTypeOK, WalletTypeOK, HandlerTypeOK, ReadForSuccess, AlreadyPaid, Goto, Finish, locals
  <2>6. ASSUME NEW g \in Handlers, g # h, pc[g] \in Fresh \union {"readSuccess"}
        PROVE  /\ credits'[hPay[g]] = credits[hPay[g]]
               /\ payStatus'[hPay[g]] = payStatus[hPay[g]]
    <3>1. hPay[g] \in Payments
      BY <2>6, HoldsAlone DEF Fresh, OnPayment, OnFunding
    <3>2. QED
      BY <1>2, <2>1, <2>5, <2>6, <3>1 DEF SerialInv, SettlementInv, TypeInv, TypeOK, PaymentTypeOK, WalletTypeOK, HandlerTypeOK, ReadForSuccess
  <2>7. NotCreditedBefore'
    BY <2>4, <2>5, <2>6 DEF SerialInv, NotCreditedBefore, Fresh
  <2>8. QED
    BY <2>3, <2>7
<1>3. CASE MarkPaid(h)
  <2>1. CreditedIsPaid'
    BY <1>3 DEF SerialInv, SettlementInv, TypeInv, TypeOK, PaymentTypeOK, HandlerTypeOK, WalletTypeOK, OnlyVerifiedMoneyCounts, AnswersHold, Collected, CreditedIsPaid, NotCreditedBefore, Fresh, MarkPaid, Holds, OnPayment, OnFunding, OnPaidDelivery, OnDelivery
  <2>2. NotCreditedBefore'
    BY <1>3 DEF SerialInv, SettlementInv, TypeInv, TypeOK, PaymentTypeOK, HandlerTypeOK, WalletTypeOK, OneHandlerPerPayment, AnswersHold, AfterPaid, Collected, CreditedIsPaid, NotCreditedBefore, Fresh, Goto, locals, MarkPaid, Holds, OnPayment, OnFunding, OnPaidDelivery, OnDelivery
  <2>3. QED
    BY <2>1, <2>2
<1>4. CASE CheckLedger(h)
  <2>1. CreditedIsPaid'
    BY <1>4 DEF SerialInv, SettlementInv, TypeInv, TypeOK, PaymentTypeOK, HandlerTypeOK, WalletTypeOK, OnlyVerifiedMoneyCounts, AnswersHold, Collected, CreditedIsPaid, NotCreditedBefore, Fresh, CheckLedger, Holds, OnPayment, OnFunding, OnPaidDelivery, OnDelivery
  <2>2. NotCreditedBefore'
    BY <1>4 DEF SerialInv, SettlementInv, TypeInv, TypeOK, PaymentTypeOK, HandlerTypeOK, WalletTypeOK, OneHandlerPerPayment, AnswersHold, AfterPaid, Collected, CreditedIsPaid, NotCreditedBefore, Fresh, Goto, Finish, locals, CheckLedger, Holds, OnPayment, OnFunding, OnPaidDelivery, OnDelivery
  <2>3. QED
    BY <2>1, <2>2
<1>5. CASE IncBalance(h)
  <2>1. /\ hPay[h] \in Payments /\ credits[hPay[h]] \in {0, 1}
        /\ \A g \in Handlers : g # h => hPay[g] # hPay[h]
    BY <1>5, HoldsAlone DEF IncBalance, OnPayment, OnFunding
  <2>2. credits[hPay[h]] = 0 /\ payStatus[hPay[h]] = "paid"
    BY <1>5 DEF SerialInv, NotCreditedBefore, IncBalance, Fresh
  <2>3. CreditedIsPaid'
    BY <1>5, <2>1, <2>2 DEF SerialInv, SettlementInv, TypeInv, TypeOK, PaymentTypeOK, WalletTypeOK, HandlerTypeOK, CreditedIsPaid, IncBalance
  <2>4. ASSUME NEW g \in Handlers, g = h
        PROVE  /\ pc'[g] \in Fresh => credits'[hPay'[g]] = 0
               /\ pc'[g] # "readSuccess"
               /\ pc'[g] \notin {"checkLedger", "incBalance"}
    BY <1>5, <2>1, <2>2, <2>4 DEF SerialInv, SettlementInv, TypeInv, TypeOK, PaymentTypeOK, WalletTypeOK, HandlerTypeOK, Fresh, IncBalance, Goto, locals
  <2>5. ASSUME NEW g \in Handlers, g # h
        PROVE  /\ pc'[g] = pc[g] /\ hPay'[g] = hPay[g] /\ hPay[g] # hPay[h]
    BY <1>5, <2>1, <2>5 DEF SerialInv, SettlementInv, TypeInv, TypeOK, PaymentTypeOK, WalletTypeOK, HandlerTypeOK, IncBalance, Goto, locals
  <2>6. ASSUME NEW g \in Handlers, g # h, pc[g] \in Fresh \union {"readSuccess"}
        PROVE  /\ credits'[hPay[g]] = credits[hPay[g]]
               /\ payStatus'[hPay[g]] = payStatus[hPay[g]]
    <3>1. hPay[g] \in Payments
      BY <2>6, HoldsAlone DEF Fresh, OnPayment, OnFunding
    <3>2. QED
      BY <1>5, <2>1, <2>5, <2>6, <3>1 DEF SerialInv, SettlementInv, TypeInv, TypeOK, PaymentTypeOK, WalletTypeOK, HandlerTypeOK, IncBalance
  <2>7. NotCreditedBefore'
    BY <2>4, <2>5, <2>6 DEF SerialInv, NotCreditedBefore, Fresh
  <2>8. QED
    BY <2>3, <2>7
<1>6. CASE InsertLedger(h)
  BY <1>6, NoCreditAtStake DEF SerialInv, SettlementInv, TypeInv, TypeOK, PaymentTypeOK, HandlerTypeOK, Fresh, Finish, InsertLedger
<1>7. CASE FindDelivery(h)
  BY <1>7, NoCreditAtStake DEF SerialInv, SettlementInv, TypeInv, TypeOK, PaymentTypeOK, HandlerTypeOK, Fresh, Goto, locals, FindDelivery
<1>8. CASE GetPending(h)
  BY <1>8, NoCreditAtStake DEF SerialInv, SettlementInv, TypeInv, TypeOK, PaymentTypeOK, HandlerTypeOK, Fresh, Goto, Finish, locals, GetPending
<1>9. CASE CreateDelivery(h)
  BY <1>9, NoCreditAtStake DEF SerialInv, SettlementInv, TypeInv, TypeOK, PaymentTypeOK, HandlerTypeOK, Fresh, Goto, Finish, locals, CreateDelivery
<1>10. CASE DeletePending(h)
  BY <1>10, NoCreditAtStake DEF SerialInv, SettlementInv, TypeInv, TypeOK, PaymentTypeOK, HandlerTypeOK, Fresh, Goto, locals, DeletePending
<1>11. CASE Confirm(h)
  BY <1>11, NoCreditAtStake DEF SerialInv, SettlementInv, TypeInv, TypeOK, PaymentTypeOK, HandlerTypeOK, Fresh, Goto, locals, Confirm
<1>12. CASE OnPaymentCompleted(h)
  BY <1>12, NoCreditAtStake DEF SerialInv, SettlementInv, TypeInv, TypeOK, PaymentTypeOK, HandlerTypeOK, Fresh, Goto, Finish, locals, OnPaymentCompleted
<1>13. CASE StartSearch(h)
  BY <1>13, NoCreditAtStake DEF SerialInv, SettlementInv, TypeInv, TypeOK, PaymentTypeOK, HandlerTypeOK, Fresh, Finish, StartSearch
<1>14. CASE MarkFailed(h)
  <2>1. /\ hPay[h] \in Payments /\ credits[hPay[h]] \in {0, 1}
        /\ \A g \in Handlers : g # h => hPay[g] # hPay[h]
    BY <1>14, HoldsAlone DEF MarkFailed, OnPayment, OnFunding
  <2>2. credits[hPay[h]] = 1 => monnify[hPay[h]] = "reversed"
    <3>1. monnify[hPay[h]] \in {"failed", "reversed"}
      BY <1>14 DEF SerialInv, SettlementInv, AnswersHold, MarkFailed
    <3>2. QED
      BY <2>1, <3>1 DEF SerialInv, SettlementInv, OnlyVerifiedMoneyCounts, Collected
  <2>3. CreditedIsPaid'
    BY <1>14, <2>1, <2>2 DEF SerialInv, SettlementInv, TypeInv, TypeOK, PaymentTypeOK, WalletTypeOK, HandlerTypeOK, CreditedIsPaid, MarkFailed
  <2>4. ASSUME NEW g \in Handlers, g = h
        PROVE  /\ pc'[g] \in Fresh => credits'[hPay'[g]] = 0
               /\ pc'[g] # "readSuccess"
               /\ pc'[g] \notin {"checkLedger", "incBalance"}
    BY <1>14, <2>1, <2>2, <2>4 DEF SerialInv, SettlementInv, TypeInv, TypeOK, PaymentTypeOK, WalletTypeOK, HandlerTypeOK, Fresh, MarkFailed, Goto, Finish, locals
  <2>5. ASSUME NEW g \in Handlers, g # h
        PROVE  /\ pc'[g] = pc[g] /\ hPay'[g] = hPay[g] /\ hPay[g] # hPay[h]
    BY <1>14, <2>1, <2>5 DEF SerialInv, SettlementInv, TypeInv, TypeOK, PaymentTypeOK, WalletTypeOK, HandlerTypeOK, MarkFailed, Goto, Finish, locals
  <2>6. ASSUME NEW g \in Handlers, g # h, pc[g] \in Fresh \union {"readSuccess"}
        PROVE  /\ credits'[hPay[g]] = credits[hPay[g]]
               /\ payStatus'[hPay[g]] = payStatus[hPay[g]]
    <3>1. hPay[g] \in Payments
      BY <2>6, HoldsAlone DEF Fresh, OnPayment, OnFunding
    <3>2. QED
      BY <1>14, <2>1, <2>5, <2>6, <3>1 DEF SerialInv, SettlementInv, TypeInv, TypeOK, PaymentTypeOK, WalletTypeOK, HandlerTypeOK, MarkFailed
  <2>7. NotCreditedBefore'
    BY <2>4, <2>5, <2>6 DEF SerialInv, NotCreditedBefore, Fresh
  <2>8. QED
    BY <2>3, <2>7
<1>15. CASE ReadAwaiting(h)
  BY <1>15, NoCreditAtStake DEF SerialInv, SettlementInv, TypeInv, TypeOK, PaymentTypeOK, HandlerTypeOK, Fresh, Goto, Finish, locals, ReadAwaiting
<1>16. CASE Revert(h)
  BY <1>16, NoCreditAtStake DEF SerialInv, SettlementInv, TypeInv, TypeOK, PaymentTypeOK, HandlerTypeOK, Fresh, Finish, Revert
<1>17. CASE CancelGetPending(h)
  BY <1>17, NoCreditAtStake DEF SerialInv, SettlementInv, TypeInv, TypeOK, PaymentTypeOK, HandlerTypeOK, Fresh, Goto, Finish, locals, CancelGetPending
<1>18. CASE CancelDeletePending(h)
  BY <1>18, NoCreditAtStake DEF SerialInv, SettlementInv, TypeInv, TypeOK, PaymentTypeOK, HandlerTypeOK, Fresh, Finish, CancelDeletePending
<1>19. CASE CancelUpdate(h)
  BY <1>19, NoCreditAtStake DEF SerialInv, SettlementInv, TypeInv, TypeOK, PaymentTypeOK, HandlerTypeOK, Fresh, Goto, Finish, locals, CancelUpdate
<1>20. CASE RefundFind(h)
  BY <1>20, NoCreditAtStake DEF SerialInv, SettlementInv, TypeInv, TypeOK, PaymentTypeOK, HandlerTypeOK, Fresh, Finish, RefundFind
<1>21. CASE RefundCredit(h)
  BY <1>21, NoCreditAtStake DEF SerialInv, SettlementInv, TypeInv, TypeOK, PaymentTypeOK, HandlerTypeOK, Fresh, Goto, locals, RefundCredit
<1>22. CASE RefundMark(h)
  <2>1. /\ hPay[h] \in Payments /\ credits[hPay[h]] \in {0, 1}
        /\ \A g \in Handlers : g # h => hPay[g] # hPay[h]
    BY <1>22, HoldsAlone DEF RefundMark, OnPayment, OnFunding
  <2>2. credits[hPay[h]] = 0
    <3>1. payFor[hPay[h]] # NoDelivery
      BY <1>22, ConstantsAssumption DEF SerialInv, SettlementInv, TypeInv, TypeOK, RefundMark, Holds, OnPaidDelivery
    <3>2. QED
      BY <2>1, <3>1 DEF SerialInv, SettlementInv, OnlyVerifiedMoneyCounts
  <2>3. CreditedIsPaid'
    BY <1>22, <2>1, <2>2 DEF SerialInv, SettlementInv, TypeInv, TypeOK, PaymentTypeOK, WalletTypeOK, HandlerTypeOK, CreditedIsPaid, RefundMark
  <2>4. ASSUME NEW g \in Handlers, g = h
        PROVE  /\ pc'[g] \in Fresh => credits'[hPay'[g]] = 0
               /\ pc'[g] # "readSuccess"
               /\ pc'[g] \notin {"checkLedger", "incBalance"}
    BY <1>22, <2>1, <2>2, <2>4 DEF SerialInv, SettlementInv, TypeInv, TypeOK, PaymentTypeOK, WalletTypeOK, HandlerTypeOK, Fresh, RefundMark, Finish
  <2>5. ASSUME NEW g \in Handlers, g # h
        PROVE  /\ pc'[g] = pc[g] /\ hPay'[g] = hPay[g] /\ hPay[g] # hPay[h]
    BY <1>22, <2>1, <2>5 DEF SerialInv, SettlementInv, TypeInv, TypeOK, PaymentTypeOK, WalletTypeOK, HandlerTypeOK, RefundMark, Finish
  <2>6. ASSUME NEW g \in Handlers, g # h, pc[g] \in Fresh \union {"readSuccess"}
        PROVE  /\ credits'[hPay[g]] = credits[hPay[g]]
               /\ payStatus'[hPay[g]] = payStatus[hPay[g]]
    <3>1. hPay[g] \in Payments
      BY <2>6, HoldsAlone DEF Fresh, OnPayment, OnFunding
    <3>2. QED
      BY <1>22, <2>1, <2>5, <2>6, <3>1 DEF SerialInv, SettlementInv, TypeInv, TypeOK, PaymentTypeOK, WalletTypeOK, HandlerTypeOK, RefundMark
  <2>7. NotCreditedBefore'
    BY <2>4, <2>5, <2>6 DEF SerialInv, NotCreditedBefore, Fresh
  <2>8. QED
    BY <2>3, <2>7
<1>23. CASE AwaitPayment(h)
  BY <1>23, NoCreditAtStake DEF SerialInv, SettlementInv, TypeInv, TypeOK, PaymentTypeOK, HandlerTypeOK, Fresh, Finish, AwaitPayment
<1>24. CASE ConfirmPickup(h)
  BY <1>24, NoCreditAtStake DEF SerialInv, SettlementInv, TypeInv, TypeOK, PaymentTypeOK, HandlerTypeOK, Fresh, Finish, ConfirmPickup
<1>25. CASE ExhaustCancel(h)
  BY <1>25, NoCreditAtStake DEF SerialInv, SettlementInv, TypeInv, TypeOK, PaymentTypeOK, HandlerTypeOK, Fresh, Goto, locals, ExhaustCancel
<1>26. CASE ExhaustDelete(h)
  BY <1>26, NoCreditAtStake DEF SerialInv, SettlementInv, TypeInv, TypeOK, PaymentTypeOK, HandlerTypeOK, Fresh, Finish, ExhaustDelete
<1>27. QED
  BY <1>1, <1>2, <1>3, <1>4, <1>5, <1>6, <1>7, <1>8, <1>9, <1>10, <1>11, <1>12, <1>13, <1>14, <1>15, <1>16, <1>17, <1>18, <1>19, <1>20, <1>21, <1>22, <1>23, <1>24, <1>25, <1>26 DEF Step

LEMMA OtherSerial ==
    ASSUME SerialInv,
           \/ \E h \in Handlers : Arrive(h)
           \/ Open \/ Monnify \/ Platform \/ Faults \/ UNCHANGED vars
    PROVE  CreditedIsPaid' /\ NotCreditedBefore'
<1> USE DEF payVars, provVars, reqVars, delVars, walVars, locals
<1>1. ASSUME NEW h \in Handlers, NEW p \in Payments, StartWebhook(h, p)
      PROVE  CreditedIsPaid' /\ NotCreditedBefore'
  BY <1>1, NoCreditAtStake DEF SerialInv, SettlementInv, TypeInv, TypeOK, PaymentTypeOK, HandlerTypeOK, Fresh, StartOnPayment, StartWebhook
<1>2. ASSUME NEW h \in Handlers, NEW p \in Payments, StartPoll(h, p)
      PROVE  CreditedIsPaid' /\ NotCreditedBefore'
  BY <1>2, NoCreditAtStake DEF SerialInv, SettlementInv, TypeInv, TypeOK, PaymentTypeOK, HandlerTypeOK, Fresh, StartOnPayment, StartPoll
<1>3. ASSUME NEW h \in Handlers, NEW d \in Deliveries, StartCancel(h, d)
      PROVE  CreditedIsPaid' /\ NotCreditedBefore'
  BY <1>3, NoCreditAtStake DEF SerialInv, SettlementInv, TypeInv, TypeOK, PaymentTypeOK, HandlerTypeOK, Fresh, StartOnDelivery, StartCancel
<1>4. ASSUME NEW h \in Handlers, NEW d \in Deliveries, StartExhaust(h, d)
      PROVE  CreditedIsPaid' /\ NotCreditedBefore'
  BY <1>4, NoCreditAtStake DEF SerialInv, SettlementInv, TypeInv, TypeOK, PaymentTypeOK, HandlerTypeOK, Fresh, StartOnDelivery, StartExhaust
<1>5. ASSUME NEW h \in Handlers, NEW d \in Deliveries, StartInitiatePickup(h, d)
      PROVE  CreditedIsPaid' /\ NotCreditedBefore'
  BY <1>5, NoCreditAtStake DEF SerialInv, SettlementInv, TypeInv, TypeOK, PaymentTypeOK, HandlerTypeOK, Fresh, StartOnDelivery, StartInitiatePickup
<1>6. ASSUME NEW h \in Handlers, NEW d \in Deliveries, StartConfirmPickup(h, d)
      PROVE  CreditedIsPaid' /\ NotCreditedBefore'
  BY <1>6, NoCreditAtStake DEF SerialInv, SettlementInv, TypeInv, TypeOK, PaymentTypeOK, HandlerTypeOK, Fresh, StartOnDelivery, StartConfirmPickup
<1>7. ASSUME NEW p \in Payments, NEW d \in Deliveries \union {NoDelivery}, OpenPayment(p, d)
      PROVE  CreditedIsPaid' /\ NotCreditedBefore'
  <2>1. credits[p] = 0
    BY <1>7 DEF SerialInv, SettlementInv, TypeInv, TypeOK, PaymentTypeOK, HandlerTypeOK, WalletTypeOK, NothingBeforeDocument, OnlyVerifiedMoneyCounts, Collected, OpenPayment
  <2>2. \A g \in Handlers : hPay[g] # p
    BY <1>7, ConstantsAssumption DEF SerialInv, SettlementInv, TypeInv, TypeOK, PaymentTypeOK, HandlerTypeOK, NothingBeforeDocument, OpenPayment
  <2>3. CreditedIsPaid'
    BY <1>7, <2>1 DEF SerialInv, SettlementInv, TypeInv, TypeOK, PaymentTypeOK, WalletTypeOK, HandlerTypeOK, CreditedIsPaid, OpenPayment
  <2>4. ASSUME NEW g \in Handlers, pc[g] \in Fresh \union {"readSuccess"}
        PROVE  payStatus'[hPay[g]] = payStatus[hPay[g]]
    <3>1. hPay[g] \in Payments
      BY <2>4, HoldsAlone DEF Fresh, OnPayment, OnFunding
    <3>2. QED
      BY <1>7, <2>2, <3>1 DEF SerialInv, SettlementInv, TypeInv, TypeOK, PaymentTypeOK, WalletTypeOK, HandlerTypeOK, OpenPayment
  <2>5. NotCreditedBefore'
    BY <1>7, <2>4 DEF SerialInv, NotCreditedBefore, Fresh, OpenPayment
  <2>6. QED
    BY <2>3, <2>5
<1>8. ASSUME NEW p \in Payments, OpenAtMonnify(p)
      PROVE  CreditedIsPaid' /\ NotCreditedBefore'
  BY <1>8, NoCreditAtStake DEF SerialInv, SettlementInv, TypeInv, TypeOK, PaymentTypeOK, HandlerTypeOK, OpenAtMonnify
<1>9. ASSUME NEW p \in Payments, SaveProviderRef(p)
      PROVE  CreditedIsPaid' /\ NotCreditedBefore'
  BY <1>9, NoCreditAtStake DEF SerialInv, SettlementInv, TypeInv, TypeOK, PaymentTypeOK, HandlerTypeOK, SaveProviderRef
<1>10. ASSUME NEW p \in Payments, MonnifySettles(p)
      PROVE  CreditedIsPaid' /\ NotCreditedBefore'
  BY <1>10, NoCreditAtStake DEF SerialInv, SettlementInv, TypeInv, TypeOK, PaymentTypeOK, HandlerTypeOK, MonnifySettles
<1>11. ASSUME NEW p \in Payments, MonnifyReverses(p)
      PROVE  CreditedIsPaid' /\ NotCreditedBefore'
  BY <1>11, NoCreditAtStake DEF SerialInv, SettlementInv, TypeInv, TypeOK, PaymentTypeOK, HandlerTypeOK, MonnifyReverses
<1>12. ASSUME NEW p \in Payments, MonnifyRepeats(p)
      PROVE  CreditedIsPaid' /\ NotCreditedBefore'
  BY <1>12, NoCreditAtStake DEF SerialInv, SettlementInv, TypeInv, TypeOK, PaymentTypeOK, HandlerTypeOK, MonnifyRepeats
<1>13. ASSUME NEW d \in Deliveries, RequestCached(d)
      PROVE  CreditedIsPaid' /\ NotCreditedBefore'
  BY <1>13, NoCreditAtStake DEF RequestCached
<1>14. ASSUME NEW d \in Deliveries, RequestInDb(d)
      PROVE  CreditedIsPaid' /\ NotCreditedBefore'
  BY <1>14, NoCreditAtStake DEF RequestInDb
<1>15. ASSUME NEW d \in Deliveries, RiderAccepts(d)
      PROVE  CreditedIsPaid' /\ NotCreditedBefore'
  BY <1>15, NoCreditAtStake DEF RiderAccepts, MoveDelivery
<1>16. ASSUME NEW d \in Deliveries, RiderRejects(d)
      PROVE  CreditedIsPaid' /\ NotCreditedBefore'
  BY <1>16, NoCreditAtStake DEF RiderRejects, MoveDelivery
<1>17. ASSUME NEW d \in Deliveries, AdminAssigns(d)
      PROVE  CreditedIsPaid' /\ NotCreditedBefore'
  BY <1>17, NoCreditAtStake DEF AdminAssigns, MoveDelivery
<1>18. ASSUME NEW d \in Deliveries, RiderAdvances(d)
      PROVE  CreditedIsPaid' /\ NotCreditedBefore'
  BY <1>18, NoCreditAtStake DEF RiderAdvances, MoveDelivery
<1>18a. ASSUME NEW d \in Deliveries, RetrySearch(d)
      PROVE  CreditedIsPaid' /\ NotCreditedBefore'
  BY <1>18a, NoCreditAtStake DEF RetrySearch
<1>19. ASSUME NEW d \in Deliveries, ExpireCached(d)
      PROVE  CreditedIsPaid' /\ NotCreditedBefore'
  BY <1>19, NoCreditAtStake DEF ExpireCached
<1>20. ASSUME NEW h \in Handlers, Fail(h)
      PROVE  CreditedIsPaid' /\ NotCreditedBefore'
  BY <1>20, NoCreditAtStake DEF SerialInv, SettlementInv, TypeInv, TypeOK, PaymentTypeOK, HandlerTypeOK, Fresh, Finish, Fail
<1>21. CASE UNCHANGED vars
  BY <1>21, NoCreditAtStake DEF vars
<1>22. CASE \E h \in Handlers : Arrive(h)
  BY <1>22, <1>1, <1>2, <1>3, <1>4, <1>5, <1>6 DEF Arrive, SettlementStarts
<1>23. CASE Open
  BY <1>23, <1>7, <1>8, <1>9, <1>13, <1>14 DEF Open, FundWallet, InitiatePayment
<1>24. CASE Monnify
  BY <1>24, <1>10, <1>11, <1>12 DEF Monnify
<1>25. CASE Platform
  BY <1>25, <1>15, <1>16, <1>17, <1>18, <1>18a DEF Platform
<1>26. CASE Faults
  BY <1>26, <1>19, <1>20 DEF Faults
<1>27. QED
  BY <1>21, <1>22, <1>23, <1>24, <1>25, <1>26

LEMMA SerialNext ==
    SerialInv /\ [Next /\ OneHandlerPerPayment']_vars => SerialInv'
<1> SUFFICES ASSUME SerialInv, [Next /\ OneHandlerPerPayment']_vars PROVE SerialInv'
  OBVIOUS
<1>1. SettlementInv'
  BY SettlementNext DEF SerialInv
<1>2. OneHandlerPerPayment'
  BY DEF SerialInv, OneHandlerPerPayment, vars, locals
<1>3. CreditedIsPaid' /\ NotCreditedBefore'
  BY StepSerial, OtherSerial DEF Next
<1>4. QED
  BY <1>1, <1>2, <1>3 DEF SerialInv

(* If the requests about a payment were served one at a time, no wallet    *)
(* would be credited twice for one funding, for any number of payments and *)
(* requests, with every await free to throw and every payment free to be   *)
(* reversed: the double credit of the code is a matter of overlap alone.   *)
THEOREM SerialCreditsOnce == SerialSpec => []CreditedAtMostOnce
<1>1. SerialInv => CreditedAtMostOnce
  BY DEF SerialInv, CreditedIsPaid, CreditedAtMostOnce
<1>2. QED
  BY <1>1, SerialInit, SerialNext, PTL DEF SerialSpec
=============================================================================
