------------------------ MODULE DeliveryTrip_proofs ------------------------
(***************************************************************************)
(* Proofs about DeliveryTrip: its types, that it implements TripPromise,   *)
(* that no credit is lost but by a fault, and how far the limit on a       *)
(* rider's deliveries can be overrun; and, at the end, about TripEarnings: *)
(* that a rider earns by his deliveries, and by these alone.               *)
(*                                                                         *)
(* The first four follow from what a request may still have in store: the steps  *)
(* of one are written down when it starts, and what makes them right (the  *)
(* delivery was paid, the PIN was entered) never becomes false later.      *)
(***************************************************************************)
EXTENDS TripEarnings, FiniteSetTheorems, SequenceTheorems, WellFoundedInduction, TLAPS

(* A step that writes PINs writes them for a paid delivery, and one that   *)
(* credits a rider does so for a PIN he entered.                           *)
StepGood(e, paid, shown) ==
    /\ e \in StepRecords
    /\ e.op = "write" /\ e.pins => e.pay = "paid" \/ e.del \in paid
    /\ e.op = "credit" => <<"delivery", e.rider, e.del>> \in shown

(* A delivery is counted for a rider last, and no check follows or         *)
(* precedes a credit, so that a check that fails drops no credit.          *)
Shape(steps) ==
    /\ \A i \in DOMAIN steps : \A r \in Riders :
          steps[i] = CountBy(r, 1) => i = Len(steps)
    /\ \A i, j \in DOMAIN steps :
          steps[i].op = "credit" => steps[j].op \notin {"open", "room"}

Good(steps, paid, shown) ==
    /\ steps \in Seq(StepRecords)
    /\ \A i \in DOMAIN steps : StepGood(steps[i], paid, shown)
    /\ Shape(steps)

(* The inductive invariant. *)
RequestsGood == \A q \in Requests : Good(req[q], everPaid, proved)
PinsPaid     == pins \subseteq everPaid
PaidEver     == \A d \in Deliveries : dPay[d] = "paid" => d \in everPaid
TripInv      == TypeOK /\ RequestsGood /\ PinsPaid /\ PaidEver

-----------------------------------------------------------------------------
(* Sequences of steps. *)

(* The tail of a sequence holds what followed its head.                    *)
LEMMA TailElements ==
    ASSUME NEW S, NEW s \in Seq(S), s # <<>>
    PROVE  /\ Tail(s) \in Seq(S)
           /\ Head(s) = s[1] /\ s[1] \in S /\ 1 \in DOMAIN s
           /\ Len(Tail(s)) = Len(s) - 1
           /\ DOMAIN s = 1..Len(s) /\ DOMAIN Tail(s) = 1..Len(Tail(s))
           /\ Len(s) \in Nat
           /\ \A i \in DOMAIN Tail(s) : i + 1 \in DOMAIN s /\ Tail(s)[i] = s[i + 1]
           /\ \A i \in DOMAIN s : i # 1 => i - 1 \in DOMAIN Tail(s) /\ Tail(s)[i - 1] = s[i]
  OBVIOUS

(* Each constructor of a step makes a step.                                *)
LEMMA Constructors ==
    ASSUME NEW d \in Deliveries
    PROVE  /\ CheckOpen(d) \in StepRecords
           /\ \A r \in Riders :
                 /\ CheckRoom(r) \in StepRecords /\ Credit(r, d) \in StepRecords
                 /\ CountBy(r, 1) \in StepRecords /\ CountBy(r, -1) \in StepRecords
           /\ \A s \in Status \union {Keep}, x \in Riders \union {NoRider, Keep},
                 p \in PayStatus \union {Keep}, b \in BOOLEAN :
                 Write(d, s, x, p, b) \in StepRecords
  BY DEF StepRecords, CheckOpen, CheckRoom, Credit, CountBy, Write

(* A request that goes on to its next step stays good.                     *)
LEMMA TailGood ==
    ASSUME NEW s, NEW paid, NEW shown, Good(s, paid, shown), s # <<>>
    PROVE  Good(Tail(s), paid, shown)
  <1>1. s \in Seq(StepRecords)
    BY DEF Good
  <1>2. Tail(s) \in Seq(StepRecords)
    BY <1>1, TailElements
  <1>3. \A i \in DOMAIN Tail(s) : StepGood(Tail(s)[i], paid, shown)
    BY <1>1, TailElements DEF Good
  <1>4. Shape(Tail(s))
    <2>1. ASSUME NEW i \in DOMAIN Tail(s), NEW r \in Riders, Tail(s)[i] = CountBy(r, 1)
          PROVE  i = Len(Tail(s))
      <3>1. i + 1 \in DOMAIN s /\ s[i + 1] = CountBy(r, 1) /\ Len(Tail(s)) = Len(s) - 1
            /\ i \in Int /\ Len(s) \in Int
        BY <1>1, <2>1, TailElements
      <3>2. i + 1 = Len(s)
        BY <3>1 DEF Good, Shape
      <3>3. \A a, n, m \in Int : a + 1 = n /\ m = n - 1 => a = m
        OBVIOUS
      <3>4. Len(Tail(s)) \in Int
        BY <3>1
      <3> QED
        BY <3>1, <3>2, <3>3, <3>4, Zenon
    <2>2. ASSUME NEW i \in DOMAIN Tail(s), NEW j \in DOMAIN Tail(s), Tail(s)[i].op = "credit"
          PROVE  Tail(s)[j].op \notin {"open", "room"}
      BY <1>1, <2>2, TailElements DEF Good, Shape
    <2> QED
      BY <2>1, <2>2 DEF Shape
  <1> QED
    BY <1>2, <1>3, <1>4 DEF Good

(* What was paid or shown stays so, and with it a request stays good.      *)
LEMMA GoodGrows ==
    ASSUME NEW s, NEW paid, NEW shown, NEW paid2, NEW shown2,
           Good(s, paid, shown), paid \subseteq paid2, shown \subseteq shown2
    PROVE  Good(s, paid2, shown2)
  BY DEF Good, StepGood

(* A request that has no steps is good.                                    *)
LEMMA EmptyGood ==
    ASSUME NEW paid, NEW shown
    PROVE  Good(<<>>, paid, shown)
  BY DEF Good, Shape

(* The first step of a good request, by its kind.                          *)
LEMMA HeadKind ==
    ASSUME TypeOK, NEW q \in Requests, NEW op, Due(q, op)
    PROVE  /\ req[q] \in Seq(StepRecords) /\ req[q] # <<>> /\ Head(req[q]) = req[q][1]
           /\ 1 \in DOMAIN req[q]
           /\ op = "open" => Head(req[q]).del \in Deliveries
           /\ op = "room" => Head(req[q]).rider \in Riders
           /\ op = "write" =>
                 /\ Head(req[q]).del \in Deliveries
                 /\ Head(req[q]).status \in Status \union {Keep}
                 /\ Head(req[q]).rider \in Riders \union {NoRider, Keep}
                 /\ Head(req[q]).pay \in PayStatus \union {Keep}
                 /\ Head(req[q]).pins \in BOOLEAN
           /\ op = "count" =>
                 /\ Head(req[q]).rider \in Riders
                 /\ Head(req[q]).by \in {1, -1}
                 /\ Head(req[q]) = CountBy(Head(req[q]).rider, Head(req[q]).by)
           /\ op = "credit" =>
                 /\ Head(req[q]).rider \in Riders
                 /\ Head(req[q]).del \in Deliveries
                 /\ Head(req[q]) = Credit(Head(req[q]).rider, Head(req[q]).del)
  <1>1. req[q] \in Seq(StepRecords) /\ req[q] # <<>> /\ Head(req[q]).op = op
    BY DEF TypeOK, Due
  <1>2. Head(req[q]) \in StepRecords /\ Head(req[q]) = req[q][1] /\ 1 \in DOMAIN req[q]
    BY <1>1, TailElements
  <1> DEFINE h == Head(req[q])
  <1>3. op = "open" => h \in [op : {"open"}, del : Deliveries]
    BY <1>1, <1>2 DEF StepRecords
  <1>4. op = "room" => h \in [op : {"room"}, rider : Riders]
    BY <1>1, <1>2 DEF StepRecords
  <1>5. op = "write" =>
           h \in [op : {"write"}, del : Deliveries, status : Status \union {Keep},
                  rider : Riders \union {NoRider, Keep}, pay : PayStatus \union {Keep},
                  pins : BOOLEAN]
    BY <1>1, <1>2 DEF StepRecords
  <1>6. op = "count" => h \in [op : {"count"}, rider : Riders, by : {1, -1}]
    BY <1>1, <1>2 DEF StepRecords
  <1>7. op = "credit" => h \in [op : {"credit"}, rider : Riders, del : Deliveries]
    BY <1>1, <1>2 DEF StepRecords
  <1>8. op = "count" => h = CountBy(h.rider, h.by)
    BY <1>6 DEF CountBy
  <1>9. op = "credit" => h = Credit(h.rider, h.del)
    BY <1>7 DEF Credit
  <1> HIDE DEF h
  <1> QED
    BY <1>1, <1>2, <1>3, <1>4, <1>5, <1>6, <1>7, <1>8, <1>9 DEF h

-----------------------------------------------------------------------------
(* What handlers hand over. *)

(* A step that does not count a delivery for a rider. *)
Plain(e) == \A r \in Riders : e # CountBy(r, 1)

(* Not a check, or not a credit. *)
Calm(e)  == e.op # "credit"
Sure(e)  == e.op \notin {"open", "room"}

(* Requests of one to four steps are good if only the last one counts a    *)
(* delivery for a rider, and checks and credits do not meet.               *)
LEMMA OneGood ==
    ASSUME NEW paid, NEW shown, NEW a, StepGood(a, paid, shown)
    PROVE  Good(<<a>>, paid, shown)
  BY DEF Good, StepGood, Shape

LEMMA TwoGood ==
    ASSUME NEW paid, NEW shown,
           NEW a, StepGood(a, paid, shown), Plain(a), NEW b, StepGood(b, paid, shown),
           (Calm(a) /\ Calm(b)) \/ (Sure(a) /\ Sure(b))
    PROVE  Good(<<a, b>>, paid, shown)
  <1>1. <<a, b>> \in Seq(StepRecords)
    BY DEF StepGood
  <1>2. \A i \in DOMAIN <<a, b>> : StepGood(<<a, b>>[i], paid, shown)
    OBVIOUS
  <1>3. Shape(<<a, b>>)
    BY DEF Shape, Plain, Calm, Sure
  <1> QED
    BY <1>1, <1>2, <1>3 DEF Good

LEMMA ThreeGood ==
    ASSUME NEW paid, NEW shown,
           NEW a, StepGood(a, paid, shown), Plain(a), NEW b, StepGood(b, paid, shown), Plain(b),
           NEW c, StepGood(c, paid, shown),
           (Calm(a) /\ Calm(b) /\ Calm(c)) \/ (Sure(a) /\ Sure(b) /\ Sure(c))
    PROVE  Good(<<a, b, c>>, paid, shown)
  <1>1. <<a, b, c>> \in Seq(StepRecords)
    BY DEF StepGood
  <1>2. \A i \in DOMAIN <<a, b, c>> : StepGood(<<a, b, c>>[i], paid, shown)
    OBVIOUS
  <1>3. Shape(<<a, b, c>>)
    BY DEF Shape, Plain, Calm, Sure
  <1> QED
    BY <1>1, <1>2, <1>3 DEF Good

(* Steps without a credit, and such that count no delivery for a rider.    *)
Late(s, paid, shown)  == Good(s, paid, shown) /\ \A i \in DOMAIN s : Calm(s[i])
Early(s, paid, shown) == Late(s, paid, shown) /\ \A i \in DOMAIN s : Plain(s[i])

(* Steps may follow early ones.                                            *)
LEMMA JoinGood ==
    ASSUME NEW paid, NEW shown, NEW s, NEW t, Early(s, paid, shown), Late(t, paid, shown)
    PROVE  /\ Late(s \o t, paid, shown)
           /\ Early(t, paid, shown) => Early(s \o t, paid, shown)
  <1>1. s \in Seq(StepRecords) /\ t \in Seq(StepRecords)
    BY DEF Early, Late, Good
  <1>2. s \o t \in Seq(StepRecords) /\ Len(s \o t) = Len(s) + Len(t)
        /\ DOMAIN (s \o t) = 1..Len(s) + Len(t)
        /\ Len(s) \in Nat /\ Len(t) \in Nat /\ DOMAIN s = 1..Len(s) /\ DOMAIN t = 1..Len(t)
    BY <1>1, ConcatProperties
  <1>3. \A i \in DOMAIN (s \o t) :
           \/ i \in DOMAIN s /\ (s \o t)[i] = s[i]
           \/ i - Len(s) \in DOMAIN t /\ (s \o t)[i] = t[i - Len(s)] /\ i \in Int
    BY <1>1, <1>2, ConcatProperties
  <1> DEFINE u == s \o t
  <1> HIDE DEF u
  <1>4. \A i \in DOMAIN u : StepGood(u[i], paid, shown) /\ Calm(u[i])
    BY <1>3 DEF Early, Late, Good, u
  <1>5. ASSUME NEW i \in DOMAIN u, NEW r \in Riders, u[i] = CountBy(r, 1)
        PROVE  i = Len(u)
    <2>1. i - Len(s) \in DOMAIN t /\ t[i - Len(s)] = CountBy(r, 1) /\ i \in Int
      BY <1>3, <1>5 DEF Early, Plain, u
    <2>2. i - Len(s) = Len(t)
      BY <2>1 DEF Late, Good, Shape
    <2> QED
      BY <1>2, <2>1, <2>2 DEF u
  <1>6. Shape(u)
    BY <1>4, <1>5 DEF Shape, Calm
  <1>7. Early(t, paid, shown) => \A i \in DOMAIN u : Plain(u[i])
    BY <1>3 DEF Early, u
  <1> QED
    BY <1>2, <1>4, <1>6, <1>7 DEF Early, Late, Good, u

LEMMA EmptyEarly ==
    ASSUME NEW paid, NEW shown
    PROVE  Early(<<>>, paid, shown)
  BY EmptyGood DEF Early, Late

LEMMA OneLate ==
    ASSUME NEW paid, NEW shown, NEW a, StepGood(a, paid, shown), Calm(a)
    PROVE  Late(<<a>>, paid, shown) /\ (Plain(a) => Early(<<a>>, paid, shown))
  BY OneGood DEF Early, Late

(* The steps handlers are made of are good, and of these kinds.            *)
LEMMA GoodWrite ==
    ASSUME NEW d \in Deliveries, NEW paid, NEW shown,
           NEW s \in Status \union {Keep}, NEW x \in Riders \union {NoRider, Keep},
           NEW p \in PayStatus \union {Keep}, NEW b \in BOOLEAN
    PROVE  /\ (b => p = "paid" \/ d \in paid) => StepGood(Write(d, s, x, p, b), paid, shown)
           /\ Plain(Write(d, s, x, p, b))
           /\ Calm(Write(d, s, x, p, b)) /\ Sure(Write(d, s, x, p, b))
  <1>1. /\ Write(d, s, x, p, b).op = "write" /\ Write(d, s, x, p, b).pins = b
        /\ Write(d, s, x, p, b).pay = p /\ Write(d, s, x, p, b).del = d
    BY DEF Write
  <1>2. \A y \in Riders : CountBy(y, 1).op = "count"
    BY DEF CountBy
  <1> QED
    BY <1>1, <1>2, Constructors DEF StepGood, Plain, Calm, Sure

LEMMA GoodSteps ==
    ASSUME NEW d \in Deliveries, NEW r \in Riders, NEW paid, NEW shown
    PROVE  /\ StepGood(CheckOpen(d), paid, shown) /\ Plain(CheckOpen(d)) /\ Calm(CheckOpen(d))
           /\ StepGood(CheckRoom(r), paid, shown) /\ Plain(CheckRoom(r)) /\ Calm(CheckRoom(r))
           /\ StepGood(CountBy(r, 1), paid, shown) /\ Calm(CountBy(r, 1))
           /\ StepGood(CountBy(r, -1), paid, shown) /\ Plain(CountBy(r, -1))
           /\ Calm(CountBy(r, -1)) /\ Sure(CountBy(r, -1))
           /\ <<"delivery", r, d>> \in shown =>
                 StepGood(Credit(r, d), paid, shown) /\ Sure(Credit(r, d)) /\ Plain(Credit(r, d))
  <1>1. /\ Plain(CheckOpen(d)) /\ Calm(CheckOpen(d)) /\ Plain(CheckRoom(r)) /\ Calm(CheckRoom(r))
        /\ Calm(CountBy(r, 1)) /\ Calm(CountBy(r, -1)) /\ Sure(CountBy(r, -1)) /\ Sure(Credit(r, d))
        /\ Plain(Credit(r, d))
    BY DEF Plain, Calm, Sure, CheckOpen, CheckRoom, CountBy, Credit
  <1>2. Plain(CountBy(r, -1))
    <2>1. \A x \in Riders : CountBy(r, -1).by # CountBy(x, 1).by
      BY DEF CountBy
    <2> QED
      BY <2>1 DEF Plain
  <1>3. /\ StepGood(CheckOpen(d), paid, shown) /\ StepGood(CheckRoom(r), paid, shown)
        /\ StepGood(CountBy(r, 1), paid, shown) /\ StepGood(CountBy(r, -1), paid, shown)
    <2>1. /\ CheckOpen(d).op = "open" /\ CheckRoom(r).op = "room"
          /\ CountBy(r, 1).op = "count" /\ CountBy(r, -1).op = "count"
      BY DEF CheckOpen, CheckRoom, CountBy
    <2> QED
      BY <2>1, Constructors DEF StepGood
  <1>4. <<"delivery", r, d>> \in shown => StepGood(Credit(r, d), paid, shown)
    <2>1. Credit(r, d).op = "credit" /\ Credit(r, d).rider = r /\ Credit(r, d).del = d
      BY DEF Credit
    <2> QED
      BY <2>1, Constructors DEF StepGood
  <1> QED
    BY <1>1, <1>2, <1>3, <1>4

-----------------------------------------------------------------------------
(* If steps count a delivery for a rider, his counter is looked at first,  *)
(* or it was when the request came in.                                     *)
Starts(steps) ==
    \A r \in Riders : (\E i \in DOMAIN steps : steps[i] = CountBy(r, 1))
        => Head(steps) = CheckRoom(r) \/ load[r] < MaxConcurrent

LEMMA PlainStarts ==
    ASSUME NEW a, NEW b, NEW c
    PROVE  /\ Plain(a) => Starts(<<a>>)
           /\ Plain(a) /\ Plain(b) => Starts(<<a, b>>)
           /\ Plain(a) /\ Plain(b) /\ Plain(c) => Starts(<<a, b, c>>)
  BY DEF Plain, Starts

LEMMA EarlyStarts ==
    ASSUME NEW s, NEW paid, NEW shown, Early(s, paid, shown)
    PROVE  Starts(s)
  BY DEF Early, Plain, Starts

LEMMA CountByInjective ==
    ASSUME NEW r \in Riders, NEW x \in Riders, CountBy(r, 1) = CountBy(x, 1)
    PROVE  r = x
  <1>1. CountBy(r, 1).rider = r /\ CountBy(x, 1).rider = x
    BY DEF CountBy
  <1> QED
    BY <1>1

(* Releasing the rider of a delivery, if it has one.                       *)
LEMMA ReleaseEarly ==
    ASSUME TypeOK, NEW d \in Deliveries, NEW paid, NEW shown
    PROVE  Early(Release(d), paid, shown)
  <1>1. CASE dRider[d] = NoRider
    BY <1>1, EmptyEarly DEF Release
  <1>2. CASE dRider[d] # NoRider
    <2>1. dRider[d] \in Riders
      BY <1>2 DEF TypeOK
    <2> DEFINE c == CountBy(dRider[d], -1)
    <2>2. StepGood(c, paid, shown) /\ Plain(c) /\ Calm(c)
      BY <2>1, GoodSteps
    <2>3. Release(d) = <<c>>
      BY <1>2 DEF Release
    <2> HIDE DEF c
    <2> QED
      BY <2>2, <2>3, OneLate
  <1> QED
    BY <1>1, <1>2

(* Every handler hands over good steps.                                    *)

LEMMA AcceptDeliveryHands ==
    ASSUME TripInv, NEW q \in Requests, NEW r \in Riders, NEW d \in Deliveries,
           AcceptDelivery(q, r, d)
    PROVE  \E steps : Serve(q, steps) /\ Good(steps, everPaid', proved') /\ Starts(steps)
  <1> DEFINE w == Write(d, "rider_accepted", r, Keep, FALSE)
  <1>1. /\ StepGood(CheckOpen(d), everPaid', proved') /\ StepGood(CountBy(r, 1), everPaid', proved')
        /\ Plain(CheckOpen(d)) /\ Calm(CheckOpen(d)) /\ Calm(CountBy(r, 1))
    BY GoodSteps
  <1>2. StepGood(w, everPaid', proved') /\ Plain(w) /\ Calm(w)
    BY GoodWrite DEF Status
  <1>3. Serve(q, <<CheckOpen(d), w, CountBy(r, 1)>>)
    BY DEF AcceptDelivery
  <1> HIDE DEF w
  <1>4. Starts(<<CheckOpen(d), w, CountBy(r, 1)>>)
    <2>1. load[r] < MaxConcurrent
      BY DEF AcceptDelivery, HasRoom
    <2> QED
      BY <1>1, <1>2, <2>1, CountByInjective DEF Starts, Plain
  <1> QED
    BY <1>1, <1>2, <1>3, <1>4, ThreeGood

LEMMA RejectDeliveryHands ==
    ASSUME TripInv, NEW q \in Requests, NEW r \in Riders, NEW d \in Deliveries,
           RejectDelivery(q, r, d)
    PROVE  \E steps : Serve(q, steps) /\ Good(steps, everPaid', proved') /\ Starts(steps)
  <1> DEFINE w == Write(d, Changed(dStatus[d], "searching_rider"), NoRider, Keep, FALSE)
  <1>1. Changed(dStatus[d], "searching_rider") \in Status \union {Keep}
    BY DEF Changed, Status
  <1>2. StepGood(w, everPaid', proved') /\ Plain(w) /\ Calm(w)
    BY <1>1, GoodWrite
  <1>3. /\ StepGood(CountBy(r, -1), everPaid', proved')
        /\ Calm(CountBy(r, -1)) /\ Plain(CountBy(r, -1))
    BY GoodSteps
  <1>4. Serve(q, <<w, CountBy(r, -1)>>)
    BY DEF RejectDelivery
  <1> HIDE DEF w
  <1> QED
    BY <1>2, <1>3, <1>4, TwoGood, PlainStarts

LEMMA UpdateDeliveryStatusHands ==
    ASSUME TripInv, NEW q \in Requests, NEW r \in Riders, NEW d \in Deliveries, NEW s \in Status,
           UpdateDeliveryStatus(q, r, d, s)
    PROVE  \E steps : Serve(q, steps) /\ Good(steps, everPaid', proved') /\ Starts(steps)
  <1> DEFINE w == WriteStatus(d, s)
  <1>1. StepGood(w, everPaid', proved') /\ Plain(w) /\ Calm(w)
    BY GoodWrite DEF WriteStatus
  <1>2. StepGood(CountBy(r, -1), everPaid', proved') /\ Calm(CountBy(r, -1)) /\ Plain(CountBy(r, -1))
    BY GoodSteps
  <1> HIDE DEF w
  <1> DEFINE c == IF s \in {"delivered", "completed"} THEN <<CountBy(r, -1)>> ELSE <<>>
  <1>3. Early(c, everPaid', proved')
    BY <1>2, OneLate, EmptyEarly
  <1>4. Serve(q, <<w>> \o c)
    BY DEF UpdateDeliveryStatus, w
  <1> HIDE DEF c
  <1> QED
    <2>1. Early(<<w>> \o c, everPaid', proved')
      BY <1>1, <1>3, OneLate, JoinGood DEF Early
    <2> QED
      BY <1>4, <2>1, EarlyStarts DEF Early, Late

LEMMA VerifyPickupPinHands ==
    ASSUME TripInv, NEW q \in Requests, NEW r \in Riders, NEW d \in Deliveries,
           VerifyPickupPin(q, r, d)
    PROVE  \E steps : Serve(q, steps) /\ Good(steps, everPaid', proved') /\ Starts(steps)
  <1> DEFINE a == WriteStatus(d, "pickup_in_progress")
  <1>1. StepGood(a, everPaid', proved') /\ Plain(a)
    BY GoodWrite DEF WriteStatus, Status
  <1>2. Serve(q, <<a>>)
    BY DEF VerifyPickupPin, WriteStatus
  <1> QED
    BY <1>1, <1>2, OneGood, PlainStarts

LEMMA VerifyDeliveryPinHands ==
    ASSUME TripInv, NEW q \in Requests, NEW r \in Riders, NEW d \in Deliveries,
           VerifyDeliveryPin(q, r, d)
    PROVE  \E steps : Serve(q, steps) /\ Good(steps, everPaid', proved') /\ Starts(steps)
  <1> DEFINE w == WriteStatus(d, "delivered")
  <1>1. StepGood(w, everPaid', proved') /\ Plain(w) /\ Sure(w)
    BY GoodSteps, GoodWrite DEF WriteStatus, Status
  <1>2. <<"delivery", r, d>> \in proved'
    BY DEF VerifyDeliveryPin
  <1>3. /\ StepGood(CountBy(r, -1), everPaid', proved') /\ StepGood(Credit(r, d), everPaid', proved')
        /\ Plain(CountBy(r, -1)) /\ Sure(CountBy(r, -1)) /\ Sure(Credit(r, d)) /\ Plain(Credit(r, d))
    BY <1>2, GoodSteps
  <1>4. Serve(q, <<w, CountBy(r, -1), Credit(r, d)>>)
    BY DEF VerifyDeliveryPin
  <1> HIDE DEF w
  <1> QED
    BY <1>1, <1>3, <1>4, ThreeGood, PlainStarts

LEMMA ArrivedAtPickupHands ==
    ASSUME TripInv, NEW q \in Requests, NEW r \in Riders, NEW d \in Deliveries,
           ArrivedAtPickup(q, r, d)
    PROVE  \E steps : Serve(q, steps) /\ Good(steps, everPaid', proved') /\ Starts(steps)
  <1> DEFINE w == Write(d, "rider_arrived_pickup", Keep, Keep, dPay[d] = "paid")
  <1>1. (dPay[d] = "paid") \in BOOLEAN /\ (dPay[d] = "paid" => d \in everPaid')
    BY DEF TripInv, PaidEver, ArrivedAtPickup, Decided, docVars
  <1>2. StepGood(w, everPaid', proved') /\ Plain(w)
    BY <1>1, GoodSteps, GoodWrite DEF Status
  <1>3. Serve(q, <<w>>)
    BY DEF ArrivedAtPickup
  <1> HIDE DEF w
  <1> QED
    BY <1>2, <1>3, OneGood, PlainStarts

LEMMA ArrivedAtDropoffHands ==
    ASSUME TripInv, NEW q \in Requests, NEW r \in Riders, NEW d \in Deliveries,
           ArrivedAtDropoff(q, r, d)
    PROVE  \E steps : Serve(q, steps) /\ Good(steps, everPaid', proved') /\ Starts(steps)
  <1> DEFINE a == WriteStatus(d, "rider_arrived_dropoff")
  <1>1. StepGood(a, everPaid', proved') /\ Plain(a)
    BY GoodWrite DEF WriteStatus, Status
  <1>2. Serve(q, <<a>>)
    BY DEF ArrivedAtDropoff, WriteStatus
  <1> QED
    BY <1>1, <1>2, OneGood, PlainStarts

LEMMA AssignRiderHands ==
    ASSUME TripInv, NEW q \in Requests, NEW r \in Riders, NEW d \in Deliveries,
           AssignRider(q, r, d)
    PROVE  \E steps : Serve(q, steps) /\ Good(steps, everPaid', proved') /\ Starts(steps)
  <1> DEFINE w == Write(d, "rider_assigned", r, Keep, FALSE)
  <1>1. /\ StepGood(CheckRoom(r), everPaid', proved') /\ StepGood(CountBy(r, 1), everPaid', proved')
        /\ Plain(CheckRoom(r)) /\ Calm(CheckRoom(r)) /\ Calm(CountBy(r, 1))
    BY GoodSteps
  <1>2. StepGood(w, everPaid', proved') /\ Plain(w) /\ Calm(w)
    BY GoodWrite DEF Status
  <1>3. Serve(q, <<CheckRoom(r), w, CountBy(r, 1)>>)
    BY DEF AssignRider
  <1> HIDE DEF w
  <1>4. Starts(<<CheckRoom(r), w, CountBy(r, 1)>>)
    BY <1>1, <1>2, CountByInjective DEF Starts, Plain
  <1> QED
    BY <1>1, <1>2, <1>3, <1>4, ThreeGood

LEMMA ReassignRiderHands ==
    ASSUME TripInv, NEW q \in Requests, NEW r \in Riders, NEW d \in Deliveries,
           ReassignRider(q, r, d)
    PROVE  \E steps : Serve(q, steps) /\ Good(steps, everPaid', proved') /\ Starts(steps)
  <1> DEFINE w == Write(d, Keep, Changed(dRider[d], r), Keep, FALSE)
  <1>1. /\ StepGood(CheckRoom(r), everPaid', proved') /\ StepGood(CountBy(r, 1), everPaid', proved')
        /\ Plain(CheckRoom(r)) /\ Calm(CheckRoom(r)) /\ Calm(CountBy(r, 1))
    BY GoodSteps
  <1>2. Changed(dRider[d], r) \in Riders \union {NoRider, Keep}
    BY DEF Changed
  <1>3. StepGood(w, everPaid', proved') /\ Plain(w) /\ Calm(w)
    BY <1>2, GoodWrite
  <1>4. Serve(q, <<CheckRoom(r)>> \o Release(d) \o <<w, CountBy(r, 1)>>)
    BY DEF ReassignRider
  <1> HIDE DEF w
  <1>5. Early(<<CheckRoom(r)>>, everPaid', proved') /\ Early(Release(d), everPaid', proved')
    BY <1>1, OneLate, ReleaseEarly DEF TripInv
  <1>6. Late(<<w, CountBy(r, 1)>>, everPaid', proved')
    BY <1>1, <1>3, TwoGood DEF Late
  <1>7. Early(<<CheckRoom(r)>> \o Release(d), everPaid', proved')
    BY <1>5, JoinGood DEF Early
  <1>8. Starts(<<CheckRoom(r)>> \o Release(d) \o <<w, CountBy(r, 1)>>)
    <2> DEFINE s == Release(d)
               t == <<w, CountBy(r, 1)>>
               u == (<<CheckRoom(r)>> \o s) \o t
    <2>1. /\ <<CheckRoom(r)>> \in Seq(StepRecords) /\ s \in Seq(StepRecords)
          /\ <<CheckRoom(r)>> \o s \in Seq(StepRecords) /\ t \in Seq(StepRecords)
      BY <1>5, <1>6, <1>7 DEF Early, Late, Good
    <2> HIDE DEF s, t
    <2>2. (<<CheckRoom(r)>> \o s)[1] = CheckRoom(r) /\ Len(<<CheckRoom(r)>> \o s) \in Nat \ {0}
      BY <2>1, ConcatProperties
    <2> DEFINE v == <<CheckRoom(r)>> \o s
    <2>3. v \in Seq(StepRecords) /\ Len(v) \in Nat \ {0} /\ v[1] = CheckRoom(r)
      BY <2>1, <2>2
    <2> HIDE DEF v
    <2>4. /\ v \o t \in Seq(StepRecords) /\ DOMAIN (v \o t) = 1..Len(v) + Len(t)
          /\ Len(t) \in Nat /\ DOMAIN v = 1..Len(v) /\ DOMAIN t = 1..Len(t)
      BY <2>1, <2>3, ConcatProperties
    <2>5. Head(v \o t) = CheckRoom(r)
      BY <2>1, <2>3, <2>4, ConcatProperties
    <2>6. \A i \in DOMAIN (v \o t) :
             \/ i \in DOMAIN v /\ (v \o t)[i] = v[i]
             \/ i - Len(v) \in DOMAIN t /\ (v \o t)[i] = t[i - Len(v)]
      BY <2>1, <2>3, <2>4, ConcatProperties
    <2>7. \A i \in DOMAIN v : Plain(v[i])
      BY <1>7 DEF Early, v, s
    <2>8. \A i \in DOMAIN t : Plain(t[i]) \/ t[i] = CountBy(r, 1)
      BY <1>3 DEF t
    <2>9. \A x \in Riders : (\E i \in DOMAIN (v \o t) : (v \o t)[i] = CountBy(x, 1)) => x = r
      BY <2>6, <2>7, <2>8, CountByInjective DEF Plain
    <2> QED
      BY <2>5, <2>9 DEF Starts, v, s, t
  <1> QED
    BY <1>4, <1>6, <1>7, <1>8, JoinGood DEF Late

LEMMA OverridePinHands ==
    ASSUME TripInv, NEW q \in Requests, NEW d \in Deliveries, NEW k \in {"pickup", "delivery"},
           OverridePin(q, d, k)
    PROVE  \E steps : Serve(q, steps) /\ Good(steps, everPaid', proved') /\ Starts(steps)
  <1>1. PICK s \in Status \union {Keep} : Serve(q, <<WriteStatus(d, s)>>)
    BY DEF OverridePin, Status
  <1>2. StepGood(WriteStatus(d, s), everPaid', proved') /\ Plain(WriteStatus(d, s))
    BY GoodSteps, GoodWrite DEF WriteStatus
  <1> QED
    BY <1>1, <1>2, OneGood, PlainStarts

LEMMA ManualCompleteHands ==
    ASSUME TripInv, NEW q \in Requests, NEW d \in Deliveries,
           ManualComplete(q, d)
    PROVE  \E steps : Serve(q, steps) /\ Good(steps, everPaid', proved') /\ Starts(steps)
  <1> DEFINE w == WriteStatus(d, "completed")
  <1>1. StepGood(w, everPaid', proved') /\ Plain(w) /\ Calm(w)
    BY GoodWrite DEF WriteStatus, Status
  <1>2. Serve(q, <<w>> \o Release(d))
    BY DEF ManualComplete
  <1> HIDE DEF w
  <1> QED
    <2>1. Early(<<w>> \o Release(d), everPaid', proved')
      BY <1>1, OneLate, ReleaseEarly, JoinGood DEF Early, TripInv
    <2> QED
      BY <1>2, <2>1, EarlyStarts DEF Early, Late

LEMMA ManualCancelHands ==
    ASSUME TripInv, NEW q \in Requests, NEW d \in Deliveries, NEW p \in {"none", "refunded", "partially_refunded"},
           ManualCancel(q, d, p)
    PROVE  \E steps : Serve(q, steps) /\ Good(steps, everPaid', proved') /\ Starts(steps)
  <1> DEFINE w == WriteStatus(d, "cancelled")
             v == Write(d, Keep, Keep, p, FALSE)
             o == IF p = "none" THEN <<>> ELSE <<v>>
  <1>1. StepGood(w, everPaid', proved') /\ Plain(w) /\ Calm(w)
    BY GoodWrite DEF WriteStatus, Status
  <1>2. p # "none" => StepGood(v, everPaid', proved') /\ Calm(v) /\ Plain(v)
    BY GoodWrite DEF PayStatus
  <1>3. Serve(q, <<w>> \o Release(d) \o o)
    BY DEF ManualCancel
  <1> HIDE DEF w, v
  <1>4. Early(o, everPaid', proved')
    BY <1>2, OneLate, EmptyEarly
  <1>5. Early(<<w>> \o Release(d), everPaid', proved')
    BY <1>1, OneLate, ReleaseEarly, JoinGood DEF Early, TripInv
  <1> HIDE DEF o
  <1> QED
    <2>1. Early(<<w>> \o Release(d) \o o, everPaid', proved')
      BY <1>4, <1>5, JoinGood DEF Early
    <2> QED
      BY <1>3, <2>1, EarlyStarts DEF Early, Late

LEMMA UpdateStatusHands ==
    ASSUME TripInv, NEW q \in Requests, NEW d \in Deliveries, NEW s \in Status,
           UpdateStatus(q, d, s)
    PROVE  \E steps : Serve(q, steps) /\ Good(steps, everPaid', proved') /\ Starts(steps)
  <1> DEFINE a == WriteStatus(d, s)
  <1>1. StepGood(a, everPaid', proved') /\ Plain(a)
    BY GoodWrite DEF WriteStatus
  <1>2. Serve(q, <<a>>)
    BY DEF UpdateStatus, WriteStatus
  <1> QED
    BY <1>1, <1>2, OneGood, PlainStarts

LEMMA IssueRefundHands ==
    ASSUME TripInv, NEW q \in Requests, NEW d \in Deliveries, NEW p \in {"refunded", "partially_refunded"},
           IssueRefund(q, d, p)
    PROVE  \E steps : Serve(q, steps) /\ Good(steps, everPaid', proved') /\ Starts(steps)
  <1> DEFINE a == Write(d, Keep, Keep, p, FALSE)
  <1>1. StepGood(a, everPaid', proved') /\ Plain(a)
    BY GoodWrite DEF PayStatus
  <1>2. Serve(q, <<a>>)
    BY DEF IssueRefund, WriteStatus
  <1> QED
    BY <1>1, <1>2, OneGood, PlainStarts

LEMMA CancelDeliveryHands ==
    ASSUME TripInv, NEW q \in Requests, NEW d \in Deliveries,
           CancelDelivery(q, d)
    PROVE  \E steps : Serve(q, steps) /\ Good(steps, everPaid', proved') /\ Starts(steps)
  <1> DEFINE a == WriteStatus(d, "cancelled")
  <1>1. StepGood(a, everPaid', proved') /\ Plain(a)
    BY GoodWrite DEF WriteStatus, Status
  <1>2. Serve(q, <<a>>)
    BY DEF CancelDelivery, WriteStatus
  <1> QED
    BY <1>1, <1>2, OneGood, PlainStarts

LEMMA InitiatePickupPaymentHands ==
    ASSUME TripInv, NEW q \in Requests, NEW d \in Deliveries,
           InitiatePickupPayment(q, d)
    PROVE  \E steps : Serve(q, steps) /\ Good(steps, everPaid', proved') /\ Starts(steps)
  <1> DEFINE a == WriteStatus(d, "awaiting_payment")
  <1>1. StepGood(a, everPaid', proved') /\ Plain(a)
    BY GoodWrite DEF WriteStatus, Status
  <1>2. Serve(q, <<a>>)
    BY DEF InitiatePickupPayment, WriteStatus
  <1> QED
    BY <1>1, <1>2, OneGood, PlainStarts

LEMMA ConfirmPickupPaymentHands ==
    ASSUME TripInv, NEW q \in Requests, NEW d \in Deliveries,
           ConfirmPickupPayment(q, d)
    PROVE  \E steps : Serve(q, steps) /\ Good(steps, everPaid', proved') /\ Starts(steps)
  <1> DEFINE a == Write(d, "payment_confirmed", Keep, "paid", TRUE)
  <1>1. StepGood(a, everPaid', proved') /\ Plain(a)
    BY GoodWrite DEF Status, PayStatus
  <1>2. Serve(q, <<a>>)
    BY DEF ConfirmPickupPayment, WriteStatus
  <1> QED
    BY <1>1, <1>2, OneGood, PlainStarts

LEMMA PaymentSettlesHands ==
    ASSUME TripInv, NEW q \in Requests, NEW d \in Deliveries,
           PaymentSettles(q, d)
    PROVE  \E steps : Serve(q, steps) /\ Good(steps, everPaid', proved') /\ Starts(steps)
  <1> DEFINE a == Write(d, IF dKind[d] = "quick" THEN "payment_confirmed" ELSE "scheduled", Keep, "paid", TRUE)
  <1>1. StepGood(a, everPaid', proved') /\ Plain(a)
    BY GoodWrite DEF Status, PayStatus
  <1>2. Serve(q, <<a>>)
    BY DEF PaymentSettles, WriteStatus
  <1> QED
    BY <1>1, <1>2, OneGood, PlainStarts

LEMMA PaymentCompletedHands ==
    ASSUME TripInv, NEW q \in Requests, NEW d \in Deliveries,
           PaymentCompleted(q, d)
    PROVE  \E steps : Serve(q, steps) /\ Good(steps, everPaid', proved') /\ Starts(steps)
  <1> DEFINE a == WriteStatus(d, "searching_rider")
  <1>1. StepGood(a, everPaid', proved') /\ Plain(a)
    BY GoodWrite DEF WriteStatus, Status
  <1>2. Serve(q, <<a>>)
    BY DEF PaymentCompleted, WriteStatus
  <1> QED
    BY <1>1, <1>2, OneGood, PlainStarts

LEMMA PaymentFailsHands ==
    ASSUME TripInv, NEW q \in Requests, NEW d \in Deliveries,
           PaymentFails(q, d)
    PROVE  \E steps : Serve(q, steps) /\ Good(steps, everPaid', proved') /\ Starts(steps)
  <1> DEFINE a == Write(d, IF dKind[d] = "quick" THEN "rider_arrived_pickup" ELSE "pending", Keep, "failed", FALSE)
  <1>1. StepGood(a, everPaid', proved') /\ Plain(a)
    BY GoodWrite DEF Status, PayStatus
  <1>2. Serve(q, <<a>>)
    BY DEF PaymentFails, WriteStatus
  <1> QED
    BY <1>1, <1>2, OneGood, PlainStarts

-----------------------------------------------------------------------------
(* Handlers together. *)

Handler(q, d) == (\E r \in Riders : Rider(q, r, d)) \/ Admin(q, d) \/ Customer(q, d)

(* VALID_TRANSITIONS leads to statuses only.                               *)
LEMMA TransitionsAreStatuses == \A s : RiderTransitions(s) \subseteq Status
  BY DEF RiderTransitions, Status

LEMMA HandlerHands ==
    ASSUME TripInv, NEW q \in Requests, NEW d \in Deliveries, Handler(q, d)
    PROVE  \E steps : Serve(q, steps) /\ Good(steps, everPaid', proved') /\ Starts(steps)
  <1>1. ASSUME NEW r \in Riders, Rider(q, r, d)
        PROVE  \E steps : Serve(q, steps) /\ Good(steps, everPaid', proved') /\ Starts(steps)
    BY <1>1, TransitionsAreStatuses, AcceptDeliveryHands, RejectDeliveryHands,
       UpdateDeliveryStatusHands, VerifyPickupPinHands, VerifyDeliveryPinHands,
       ArrivedAtPickupHands, ArrivedAtDropoffHands DEF Rider
  <1>2. CASE Admin(q, d)
    BY <1>2, AssignRiderHands, ReassignRiderHands, OverridePinHands, ManualCompleteHands,
       ManualCancelHands, UpdateStatusHands, IssueRefundHands DEF Admin
  <1>3. CASE Customer(q, d)
    BY <1>3, CancelDeliveryHands, InitiatePickupPaymentHands, ConfirmPickupPaymentHands,
       PaymentSettlesHands, PaymentCompletedHands, PaymentFailsHands DEF Customer
  <1> QED
    BY <1>1, <1>2, <1>3 DEF Handler

(* A handler only reads, but that a PIN is entered for a delivery with     *)
(* PINs, and that the delivery PIN puts the credit among the steps.        *)
Shows(q, d) ==
    \E r \in Riders :
        /\ d \in pins
        /\ \/ proved' = proved \union {<<"pickup", r, d>>}
           \/ /\ proved' = proved \union {<<"delivery", r, d>>}
              /\ Serve(q, <<WriteStatus(d, "delivered"), CountBy(r, -1), Credit(r, d)>>)

LEMMA HandlerFrame ==
    ASSUME TypeOK, NEW q \in Requests, NEW d \in Deliveries, Handler(q, d)
    PROVE  /\ UNCHANGED <<docVars, load, credited, faults>>
           /\ {trips', payments', overrides'} \subseteq Nat
           /\ UNCHANGED proved \/ Shows(q, d)
           /\ req[q] = <<>>
  <1>0. trips \in Nat /\ payments \in Nat /\ overrides \in Nat
    BY DEF TypeOK
  <1> USE <1>0 DEF Decided, Ask, Override, Money, boundVars, Serve
  <1>1. ASSUME NEW r \in Riders, Rider(q, r, d)
        PROVE  /\ UNCHANGED <<docVars, load, credited, faults>>
               /\ {trips', payments', overrides'} \subseteq Nat
               /\ UNCHANGED proved \/ Shows(q, d)
               /\ req[q] = <<>>
    <2>1. CASE AcceptDelivery(q, r, d)
      BY <2>1 DEF AcceptDelivery
    <2>2. CASE RejectDelivery(q, r, d)
      BY <2>2 DEF RejectDelivery
    <2>3. ASSUME NEW s \in RiderTransitions(dStatus[d]), UpdateDeliveryStatus(q, r, d, s)
          PROVE  UNCHANGED <<docVars, load, credited, proved, boundVars>> /\ req[q] = <<>>
      BY <2>3 DEF UpdateDeliveryStatus
    <2>4. CASE VerifyPickupPin(q, r, d)
      BY <2>4 DEF VerifyPickupPin, Shows
    <2>5. CASE VerifyDeliveryPin(q, r, d)
      BY <2>5 DEF VerifyDeliveryPin, Shows
    <2>6. CASE ArrivedAtPickup(q, r, d)
      BY <2>6 DEF ArrivedAtPickup
    <2>7. CASE ArrivedAtDropoff(q, r, d)
      BY <2>7 DEF ArrivedAtDropoff
    <2> QED
      BY <1>1, <2>1, <2>2, <2>3, <2>4, <2>5, <2>6, <2>7 DEF Rider
  <1> DEFINE Frame == /\ UNCHANGED <<docVars, load, credited, faults, proved>>
                      /\ {trips', payments', overrides'} \subseteq Nat
                      /\ req[q] = <<>>
  <1>2. CASE Admin(q, d)
    <2>1. ASSUME NEW r \in Riders, AssignRider(q, r, d) PROVE Frame
      BY <2>1 DEF AssignRider
    <2>2. ASSUME NEW r \in Riders, ReassignRider(q, r, d) PROVE Frame
      BY <2>2 DEF ReassignRider
    <2>3. ASSUME NEW k \in {"pickup", "delivery"}, OverridePin(q, d, k) PROVE Frame
      BY <2>3 DEF OverridePin
    <2>4. ASSUME ManualComplete(q, d) PROVE Frame
      BY <2>4 DEF ManualComplete
    <2>5. ASSUME NEW p \in {"none", "refunded", "partially_refunded"}, ManualCancel(q, d, p) PROVE Frame
      BY <2>5 DEF ManualCancel
    <2>6. ASSUME NEW s \in Status, UpdateStatus(q, d, s) PROVE Frame
      BY <2>6 DEF UpdateStatus
    <2>7. ASSUME NEW p \in {"refunded", "partially_refunded"}, IssueRefund(q, d, p) PROVE Frame
      BY <2>7 DEF IssueRefund
    <2>8. Frame
      <3> HIDE DEF Frame
      <3> QED
        BY <1>2, <2>1, <2>2, <2>3, <2>4, <2>5, <2>6, <2>7 DEF Admin
    <2> QED
      BY <2>8
  <1>3. CASE Customer(q, d)
    <2>1. ASSUME CancelDelivery(q, d) PROVE Frame
      BY <2>1 DEF CancelDelivery
    <2>2. ASSUME InitiatePickupPayment(q, d) PROVE Frame
      BY <2>2 DEF InitiatePickupPayment
    <2>3. ASSUME ConfirmPickupPayment(q, d) PROVE Frame
      BY <2>3 DEF ConfirmPickupPayment
    <2>4. ASSUME PaymentSettles(q, d) PROVE Frame
      BY <2>4 DEF PaymentSettles
    <2>5. ASSUME PaymentCompleted(q, d) PROVE Frame
      BY <2>5 DEF PaymentCompleted
    <2>6. ASSUME PaymentFails(q, d) PROVE Frame
      BY <2>6 DEF PaymentFails
    <2>7. Frame
      <3> HIDE DEF Frame
      <3> QED
        BY <1>3, <2>1, <2>2, <2>3, <2>4, <2>5, <2>6 DEF Customer
    <2> QED
      BY <2>7
  <1> QED
    BY <1>1, <1>2, <1>3 DEF Handler

-----------------------------------------------------------------------------
(* The inductive invariant. *)

LEMMA InitInv == Init => TripInv
  <1> SUFFICES ASSUME Init PROVE TripInv
    OBVIOUS
  <1>1. PICK new \in [Deliveries -> Created] :
           /\ dKind = [d \in Deliveries |-> new[d].kind]
           /\ dStatus = [d \in Deliveries |-> new[d].status]
           /\ dPay = [d \in Deliveries |-> new[d].pay]
           /\ pins = {d \in Deliveries : new[d].pins}
           /\ everPaid = {d \in Deliveries : new[d].pay = "paid"}
    BY DEF Init
  <1>2. \A c \in Created : /\ c.kind \in {"quick", "scheduled"} /\ c.status \in Status
                          /\ c.pay \in PayStatus /\ (c.pins => c.pay = "paid")
    BY DEF Created, Status, PayStatus
  <1>3. TypeOK
    <2>1. dKind \in [Deliveries -> {"quick", "scheduled"}] /\ dStatus \in [Deliveries -> Status]
          /\ dPay \in [Deliveries -> PayStatus]
      BY <1>1, <1>2
    <2>2. req \in [Requests -> Seq(StepRecords)]
      BY DEF Init
    <2> QED
      BY <1>1, <2>1, <2>2 DEF Init, TypeOK
  <1>4. RequestsGood
    BY EmptyGood DEF Init, RequestsGood
  <1>5. PinsPaid
    BY <1>1, <1>2 DEF PinsPaid
  <1>6. PaidEver
    BY <1>1 DEF PaidEver
  <1> QED
    BY <1>3, <1>4, <1>5, <1>6 DEF TripInv

LEMMA HandlerInv ==
    ASSUME TripInv, NEW q \in Requests, NEW d \in Deliveries, Handler(q, d)
    PROVE  TripInv'
  <1>0. TypeOK
    BY DEF TripInv
  <1>1. /\ UNCHANGED <<docVars, load, credited, faults>>
        /\ {trips', payments', overrides'} \subseteq Nat
        /\ UNCHANGED proved \/ Shows(q, d)
    BY <1>0, HandlerFrame
  <1>2. PICK steps : Serve(q, steps) /\ Good(steps, everPaid', proved')
    BY HandlerHands
  <1>3. req' = [req EXCEPT ![q] = steps] /\ steps \in Seq(StepRecords)
    BY <1>2 DEF Serve, Good
  <1>4. proved \subseteq proved' /\ everPaid' = everPaid
        /\ proved' \subseteq {"pickup", "delivery"} \X Riders \X Deliveries
    <2>1. CASE UNCHANGED proved
      BY <1>0, <1>1, <2>1 DEF docVars, TypeOK
    <2>2. CASE Shows(q, d)
      <3>1. PICK r \in Riders, k \in {"pickup", "delivery"} : proved' = proved \union {<<k, r, d>>}
        BY <2>2 DEF Shows
      <3>2. <<k, r, d>> \in {"pickup", "delivery"} \X Riders \X Deliveries
        OBVIOUS
      <3> QED
        BY <1>0, <1>1, <3>1, <3>2 DEF docVars, TypeOK
    <2> QED
      BY <1>1, <2>1, <2>2
  <1>5. TypeOK'
    <2>1. req' \in [Requests -> Seq(StepRecords)]
      BY <1>0, <1>3 DEF TypeOK
    <2> QED
      BY <1>0, <1>1, <1>4, <2>1 DEF TypeOK, docVars
  <1>6. RequestsGood'
    <2>1. ASSUME NEW p \in Requests PROVE Good(req'[p], everPaid', proved')
      <3>1. CASE p = q
        BY <1>0, <1>2, <1>3, <3>1 DEF TypeOK
      <3>2. CASE p # q
        <4>1. Good(req[p], everPaid, proved) /\ req'[p] = req[p]
          BY <1>0, <1>3, <3>2 DEF TripInv, RequestsGood, TypeOK
        <4> QED
          BY <1>4, <4>1, GoodGrows
      <3> QED
        BY <3>1, <3>2
    <2> QED
      BY <2>1 DEF RequestsGood
  <1>7. PinsPaid' /\ PaidEver'
    BY <1>1 DEF TripInv, PinsPaid, PaidEver, docVars
  <1> QED
    BY <1>5, <1>6, <1>7 DEF TripInv

(* A request that goes on, or gives up, leaves good requests behind.       *)
LEMMA GoesOn ==
    ASSUME TripInv, NEW q \in Requests, req[q] # <<>>, Rest(q) \/ Drop(q),
           everPaid \subseteq everPaid', proved' = proved
    PROVE  RequestsGood' /\ req' \in [Requests -> Seq(StepRecords)]
  <1>1. req \in [Requests -> Seq(StepRecords)]
    BY DEF TripInv, TypeOK
  <1>2. PICK s : /\ s \in Seq(StepRecords) /\ Good(s, everPaid, proved)
                 /\ req' = [req EXCEPT ![q] = s]
    <2>1. CASE Rest(q)
      <3>1. Good(Tail(req[q]), everPaid, proved)
        BY TailGood DEF TripInv, RequestsGood
      <3>2. req' = [req EXCEPT ![q] = Tail(req[q])]
        BY <1>1, <2>1 DEF Rest
      <3>3. Tail(req[q]) \in Seq(StepRecords)
        BY <3>1 DEF Good
      <3> DEFINE t == Tail(req[q])
      <3> HIDE DEF t
      <3>4. t \in Seq(StepRecords) /\ Good(t, everPaid, proved) /\ req' = [req EXCEPT ![q] = t]
        BY <3>1, <3>2, <3>3 DEF t
      <3> QED
        BY <3>4
    <2>2. CASE Drop(q)
      <3> DEFINE t == <<>>
      <3>1. t \in Seq(StepRecords) /\ Good(t, everPaid, proved) /\ req' = [req EXCEPT ![q] = t]
        BY <2>2, EmptyGood DEF Drop
      <3> HIDE DEF t
      <3> QED
        BY <3>1
    <2> QED
      BY <2>1, <2>2
  <1>3. ASSUME NEW p \in Requests PROVE Good(req'[p], everPaid', proved')
    <2>1. Good(req[p], everPaid, proved) /\ req'[p] = IF p = q THEN s ELSE req[p]
      BY <1>1, <1>2 DEF TripInv, RequestsGood
    <2>2. Good(req'[p], everPaid, proved)
      BY <1>2, <2>1
    <2> QED
      BY <2>2, GoodGrows
  <1> QED
    BY <1>1, <1>2, <1>3 DEF RequestsGood

LEMMA StepInv ==
    ASSUME TripInv, NEW q \in Requests, Step(q) \/ Fail(q)
    PROVE  TripInv'
  <1>0. TypeOK /\ faults \in Nat
    BY DEF TripInv, TypeOK
  <1>1. CASE ReadOpen(q) \/ ReadRoom(q) \/ DoCount(q) \/ DoCredit(q) \/ Fail(q)
    <2>1. req[q] # <<>> /\ (Rest(q) \/ Drop(q)) /\ UNCHANGED <<docVars, proved>>
      BY <1>1 DEF ReadOpen, ReadRoom, DoCount, DoCredit, Fail, Due
    <2>2. RequestsGood' /\ req' \in [Requests -> Seq(StepRecords)]
      BY <2>1, GoesOn DEF docVars
    <2>3. load' \in [Riders -> Int]
      <3>1. CASE DoCount(q)
        <4>1. Head(req[q]).rider \in Riders /\ Head(req[q]).by \in {1, -1}
          BY <1>0, <3>1, HeadKind DEF DoCount
        <4> QED
          BY <1>0, <3>1, <4>1 DEF DoCount, TypeOK
      <3>2. CASE ~DoCount(q)
        BY <1>0, <1>1, <3>2 DEF ReadOpen, ReadRoom, DoCredit, Fail, TypeOK
      <3> QED
        BY <3>1, <3>2
    <2>4. credited' \subseteq Riders \X Deliveries
      <3>1. CASE DoCredit(q)
        <4>1. Head(req[q]).rider \in Riders /\ Head(req[q]).del \in Deliveries
          BY <1>0, <3>1, HeadKind DEF DoCredit
        <4> QED
          BY <1>0, <3>1, <4>1 DEF DoCredit, TypeOK
      <3>2. CASE ~DoCredit(q)
        BY <1>0, <1>1, <3>2 DEF ReadOpen, ReadRoom, DoCount, Fail, TypeOK
      <3> QED
        BY <3>1, <3>2
    <2>5. {trips', payments', overrides', faults'} \subseteq Nat
      BY <1>0, <1>1 DEF ReadOpen, ReadRoom, DoCount, DoCredit, Fail, boundVars, TypeOK
    <2>6. TypeOK'
      BY <1>0, <2>1, <2>2, <2>3, <2>4, <2>5 DEF TypeOK, docVars
    <2>7. PinsPaid' /\ PaidEver'
      BY <2>1 DEF TripInv, PinsPaid, PaidEver, docVars
    <2> QED
      BY <2>2, <2>6, <2>7 DEF TripInv
  <1>2. CASE DoWrite(q)
    <2> DEFINE w == Head(req[q])
    <2>1. /\ w.del \in Deliveries
          /\ w.status \in Status \union {Keep}
          /\ w.rider \in Riders \union {NoRider, Keep}
          /\ w.pay \in PayStatus \union {Keep}
          /\ w.pins \in BOOLEAN
          /\ req[q] # <<>> /\ 1 \in DOMAIN req[q] /\ w = req[q][1]
      BY <1>0, <1>2, HeadKind DEF DoWrite
    <2>2. w.op = "write" /\ StepGood(w, everPaid, proved)
      BY <1>2, <2>1 DEF DoWrite, Due, TripInv, RequestsGood, Good
    <2>3. w.pins => w.pay = "paid" \/ w.del \in everPaid
      BY <2>2 DEF StepGood
    <2>4. /\ dStatus' = IF w.status = Keep THEN dStatus ELSE [dStatus EXCEPT ![w.del] = w.status]
          /\ dRider' = IF w.rider = Keep THEN dRider ELSE [dRider EXCEPT ![w.del] = w.rider]
          /\ dPay' = IF w.pay = Keep THEN dPay ELSE [dPay EXCEPT ![w.del] = w.pay]
          /\ pins' = IF w.pins THEN pins \union {w.del} ELSE pins
          /\ everPaid' = IF w.pay = "paid" THEN everPaid \union {w.del} ELSE everPaid
          /\ Rest(q)
          /\ UNCHANGED <<dKind, load, proved, credited, boundVars>>
      BY <1>2 DEF DoWrite
    <2> HIDE DEF w
    <2>5. everPaid \subseteq everPaid' /\ everPaid' \subseteq Deliveries
      BY <1>0, <2>1, <2>4 DEF TypeOK
    <2>6. RequestsGood' /\ req' \in [Requests -> Seq(StepRecords)]
      BY <2>1, <2>4, <2>5, GoesOn
    <2>7. TypeOK'
      BY <1>0, <2>1, <2>4, <2>5, <2>6 DEF TypeOK, boundVars
    <2>8. PinsPaid'
      BY <2>3, <2>4 DEF TripInv, PinsPaid
    <2>9. PaidEver'
      BY <1>0, <2>1, <2>4 DEF TripInv, PaidEver, TypeOK
    <2> QED
      BY <2>6, <2>7, <2>8, <2>9 DEF TripInv
  <1> QED
    BY <1>1, <1>2 DEF Step

LEMMA StutterInv == TripInv /\ UNCHANGED vars => TripInv'
  BY DEF TripInv, TypeOK, RequestsGood, PinsPaid, PaidEver, vars, docVars, boundVars, Good, StepGood,
         Shape

(* What Next does, for the proofs below.                                   *)
LEMMA NextCases ==
    ASSUME Next
    PROVE  \E q \in Requests :
              Step(q) \/ Fail(q) \/ \E d \in Deliveries : Handler(q, d)
  BY DEF Next, Handler

LEMMA InvStep == TripInv /\ [Next]_vars => TripInv'
  BY NextCases, StepInv, HandlerInv, StutterInv

LEMMA InvHolds == Spec => []TripInv
  BY InitInv, InvStep, PTL DEF Spec

(* The variables keep their types for any sets of deliveries, riders and   *)
(* requests: no handler stores what the schema does not know.              *)
THEOREM TypeCorrect == Spec => []TypeOK
  <1>1. TripInv => TypeOK
    BY DEF TripInv
  <1> QED
    BY <1>1, InvHolds, PTL

-----------------------------------------------------------------------------
(* The promise. *)

LEMMA PromiseInit == Init => Promise!Promise
  BY DEF Init, Promise!Promise

LEMMA PromiseStep == TripInv /\ [Next]_vars => [Promise!Fulfil]_(Promise!promiseVars)
  <1> SUFFICES ASSUME TripInv, [Next]_vars PROVE [Promise!Fulfil]_(Promise!promiseVars)
    OBVIOUS
  <1> USE DEF Promise!promiseVars
  <1>1. CASE UNCHANGED vars
    BY <1>1 DEF vars, docVars
  <1>2. ASSUME NEW q \in Requests, NEW d \in Deliveries, Handler(q, d)
        PROVE  [Promise!Fulfil]_(Promise!promiseVars)
    <2>1. /\ UNCHANGED <<docVars, credited>>
          /\ UNCHANGED proved \/ Shows(q, d)
      BY <1>2, HandlerFrame DEF TripInv
    <2>2. CASE UNCHANGED proved
      BY <2>1, <2>2 DEF docVars
    <2>3. CASE Shows(q, d)
      <3>1. PICK r \in Riders, k \in {"pickup", "delivery"} :
               d \in pins /\ proved' = proved \union {<<k, r, d>>}
        BY <2>3 DEF Shows
      <3>2. Promise!Prove(k, r, d)
        BY <2>1, <3>1 DEF Promise!Prove, docVars, TripInv, PinsPaid
      <3> QED
        BY <3>2 DEF Promise!Fulfil, Promise!PinKinds
    <2> QED
      BY <2>1, <2>2, <2>3
  <1>3. ASSUME NEW q \in Requests, Step(q) \/ Fail(q)
        PROVE  [Promise!Fulfil]_(Promise!promiseVars)
    <2>1. CASE ReadOpen(q) \/ ReadRoom(q) \/ DoCount(q) \/ Fail(q)
      BY <2>1 DEF ReadOpen, ReadRoom, DoCount, Fail, docVars
    <2>2. CASE DoWrite(q)
      <3>1. Head(req[q]).del \in Deliveries
        BY <2>2, HeadKind DEF DoWrite, TripInv
      <3>2. \/ UNCHANGED <<everPaid, proved, credited>>
            \/ Promise!Pay(Head(req[q]).del)
        BY <2>2 DEF DoWrite, Promise!Pay
      <3> QED
        BY <3>1, <3>2 DEF Promise!Fulfil
    <2>3. CASE DoCredit(q)
      <3> DEFINE h == Head(req[q])
      <3>1. h.rider \in Riders /\ h.del \in Deliveries /\ 1 \in DOMAIN req[q] /\ h = req[q][1]
        BY <2>3, HeadKind DEF DoCredit, TripInv
      <3>2. h.op = "credit" /\ StepGood(h, everPaid, proved)
        BY <2>3, <3>1 DEF DoCredit, Due, TripInv, RequestsGood, Good
      <3>3. Promise!Credit(h.rider, h.del)
        BY <2>3, <3>2 DEF DoCredit, StepGood, docVars, Promise!Credit
      <3> HIDE DEF h
      <3> QED
        BY <3>1, <3>3 DEF Promise!Fulfil
    <2> QED
      BY <1>3, <2>1, <2>2, <2>3 DEF Step
  <1> QED
    BY <1>1, <1>2, <1>3, NextCases

(* The trip implements TripPromise, for any number of riders, requests and *)
(* deliveries: no interleaving of handlers lets a rider use a PIN of an    *)
(* unpaid delivery or be credited without the PIN.                         *)
THEOREM TripKeepsPromise == Spec => PromiseKept
  <1>1. Spec => Promise!PromiseSpec
    BY PromiseInit, PromiseStep, InvHolds, PTL DEF Spec, Promise!PromiseSpec
  <1> QED
    BY <1>1 DEF PromiseKept

-----------------------------------------------------------------------------
(* No credit is lost. *)

LEMMA CreditInit == Init => CreditNotLost
  BY DEF Init, CreditNotLost

LEMMA CreditStep == TripInv /\ CreditNotLost /\ [Next]_vars => CreditNotLost'
  <1> SUFFICES ASSUME TripInv, CreditNotLost, [Next]_vars,
                      NEW r \in Riders, NEW d \in Deliveries, <<"delivery", r, d>> \in proved'
               PROVE  \/ <<r, d>> \in credited'
                      \/ \E q \in Requests : \E i \in DOMAIN req'[q] : req'[q][i] = Credit(r, d)
                      \/ faults' > 0
    BY DEF CreditNotLost, Credit
  <1>0. TypeOK /\ req \in [Requests -> Seq(StepRecords)] /\ faults \in Nat
    BY DEF TripInv, TypeOK
  <1> DEFINE Held(q)  == \E i \in DOMAIN req[q] : req[q][i] = Credit(r, d)
             Held2(q) == \E i \in DOMAIN req'[q] : req'[q][i] = Credit(r, d)
             Goal == \/ <<r, d>> \in credited'
                     \/ \E q \in Requests : Held2(q)
                     \/ faults' > 0
  <1>1. CASE UNCHANGED vars
    BY <1>1 DEF vars, docVars, boundVars, CreditNotLost
  <1>2. ASSUME NEW q \in Requests, NEW e \in Deliveries, Handler(q, e) PROVE Goal
    <2>1. /\ UNCHANGED <<credited, faults>>
          /\ UNCHANGED proved \/ Shows(q, e)
          /\ req[q] = <<>>
      BY <1>0, <1>2, HandlerFrame
    <2>2. PICK steps : req' = [req EXCEPT ![q] = steps]
      BY <1>2, HandlerHands DEF Serve
    <2>3. \A p \in Requests : Held(p) => Held2(p)
      BY <1>0, <2>1, <2>2
    <2>4. CASE <<"delivery", r, d>> \in proved
      BY <2>1, <2>3, <2>4 DEF CreditNotLost
    <2>5. CASE <<"delivery", r, d>> \notin proved
      <3>1. Shows(q, e)
        BY <2>1, <2>5
      <3>2. e = d /\ Serve(q, <<WriteStatus(d, "delivered"), CountBy(r, -1), Credit(r, d)>>)
        BY <2>5, <3>1 DEF Shows
      <3>3. req'[q] = <<WriteStatus(d, "delivered"), CountBy(r, -1), Credit(r, d)>>
        BY <1>0, <3>2 DEF Serve
      <3>4. 3 \in DOMAIN req'[q] /\ req'[q][3] = Credit(r, d)
        BY <3>3
      <3> QED
        BY <3>4
    <2> QED
      BY <2>4, <2>5
  <1>3. ASSUME NEW q \in Requests, Step(q) PROVE Goal
    <2>1. /\ UNCHANGED <<proved, faults>> /\ credited \subseteq credited'
          /\ req[q] # <<>> /\ (Rest(q) \/ Drop(q))
          /\ req[q] \in Seq(StepRecords)
      BY <1>0, <1>3 DEF Step, ReadOpen, ReadRoom, DoWrite, DoCount, DoCredit, boundVars, Due
    <2>2. \A p \in Requests : p # q => req'[p] = req[p]
      BY <1>0, <2>1 DEF Rest, Drop
    <2>3. ASSUME Held(q) PROVE Held2(q) \/ <<r, d>> \in credited'
      <3>1. PICK i \in DOMAIN req[q] : req[q][i] = Credit(r, d)
        BY <2>3
      <3>2. 1 \in DOMAIN req[q] /\ Head(req[q]) = req[q][1]
        BY <2>1, TailElements
      <3>3. Head(req[q]).op \notin {"open", "room"}
        BY <3>1, <3>2 DEF TripInv, RequestsGood, Good, Shape, Credit
      <3>4. Rest(q)
        BY <1>3, <3>3 DEF Step, ReadOpen, ReadRoom, DoWrite, DoCount, DoCredit, Due
      <3>5. req'[q] = Tail(req[q])
        BY <1>0, <3>4 DEF Rest
      <3>6. CASE i = 1
        <4>1. Head(req[q]).op = "credit" /\ Head(req[q]).rider = r /\ Head(req[q]).del = d
          BY <3>1, <3>2, <3>6 DEF Credit
        <4>2. DoCredit(q)
          BY <1>3, <4>1 DEF Step, ReadOpen, ReadRoom, DoWrite, DoCount, Due
        <4> QED
          BY <4>1, <4>2 DEF DoCredit
      <3>7. CASE i # 1
        <4>1. i - 1 \in DOMAIN Tail(req[q]) /\ Tail(req[q])[i - 1] = Credit(r, d)
          BY <2>1, <3>1, <3>7, TailElements
        <4> QED
          BY <3>5, <4>1
      <3> QED
        BY <3>6, <3>7
    <2> QED
      BY <2>1, <2>2, <2>3 DEF CreditNotLost
  <1>4. ASSUME NEW q \in Requests, Fail(q) PROVE Goal
    BY <1>0, <1>4 DEF Fail
  <1> QED
    BY <1>1, <1>2, <1>3, <1>4, NextCases

(* A rider who entered the delivery PIN has been credited, or the request  *)
(* that took the PIN is still going to, unless a request failed.           *)
THEOREM CreditSurvives == Spec => []CreditNotLost
  BY CreditInit, CreditStep, InvHolds, PTL DEF Spec

-----------------------------------------------------------------------------
(* The limit on a rider's deliveries. *)

(* What a step that goes on still counts, the request counted before it.   *)
LEMMA CountingRest ==
    ASSUME TripInv, NEW q \in Requests, NEW r \in Riders, req[q] # <<>>, Rest(q) \/ Drop(q),
           Head(req[q]) # CheckRoom(r)
    PROVE  Counting(r)' \subseteq Counting(r)
  <1>0. req \in [Requests -> Seq(StepRecords)]
    BY DEF TripInv, TypeOK
  <1> SUFFICES ASSUME NEW p \in Counting(r)' PROVE p \in Counting(r)
    OBVIOUS
  <1>1. p \in Requests /\ Head(req'[p]) # CheckRoom(r)
    BY DEF Counting, CheckRoom
  <1>2. PICK i \in DOMAIN req'[p] : req'[p][i] = CountBy(r, 1)
    BY DEF Counting, CountBy
  <1>3. CASE p # q
    <2>1. req'[p] = req[p]
      BY <1>0, <1>1, <1>3 DEF Rest, Drop
    <2> QED
      BY <1>1, <1>2, <2>1 DEF Counting
  <1>4. CASE p = q
    <2>1. req'[q] = Tail(req[q]) \/ req'[q] = <<>>
      BY <1>0 DEF Rest, Drop
    <2>2. req'[q] = Tail(req[q])
      BY <1>2, <1>4, <2>1
    <2>3. i + 1 \in DOMAIN req[q] /\ req[q][i + 1] = CountBy(r, 1)
      BY <1>0, <1>2, <1>4, <2>2, TailElements
    <2> QED
      BY <1>4, <2>3 DEF Counting
  <1> QED
    BY <1>3, <1>4

(* A request that starts out counting a delivery for a rider, without      *)
(* going to look at his counter, has looked already.                       *)
LEMMA OnlyAcceptCounts ==
    ASSUME TripInv, NEW q \in Requests, NEW d \in Deliveries, Handler(q, d), NEW r \in Riders,
           \E i \in DOMAIN req'[q] : req'[q][i] = CountBy(r, 1),
           Head(req'[q]) # CheckRoom(r)
    PROVE  load[r] < MaxConcurrent
  <1>1. PICK steps : Serve(q, steps) /\ Starts(steps)
    BY HandlerHands
  <1>2. req'[q] = steps
    BY <1>1 DEF Serve, TripInv, TypeOK
  <1> QED
    BY <1>1, <1>2 DEF Starts

LEMMA CountingFinite ==
    ASSUME NEW r \in Riders
    PROVE  /\ IsFiniteSet(Counting(r)) /\ Cardinality(Counting(r)) \in Nat
           /\ Cardinality(Counting(r)) <= Cardinality(Requests) /\ Cardinality(Requests) \in Nat
           /\ \A S \in SUBSET Counting(r) : Cardinality(S) <= Cardinality(Counting(r))
  <1>1. Counting(r) \subseteq Requests
    BY DEF Counting
  <1> QED
    BY <1>1, TripAssumption, FS_Subset, FS_CardinalityType DEF TripAssumption

LEMMA OverrunInit == Init => OverrunBounded
  <1> SUFFICES ASSUME Init, NEW r \in Riders
               PROVE  load[r] + Cardinality(Counting(r)) <= MaxConcurrent - 1 + Cardinality(Requests)
    BY DEF OverrunBounded
  <1>1. load[r] = 0
    BY DEF Init
  <1> QED
    BY <1>1, CountingFinite, TripAssumption DEF TripAssumption

LEMMA OverrunStep == TripInv /\ OverrunBounded /\ [Next]_vars => OverrunBounded'
  <1> DEFINE Bound == MaxConcurrent - 1 + Cardinality(Requests)
  <1> SUFFICES ASSUME TripInv, OverrunBounded, [Next]_vars, NEW r \in Riders
               PROVE  load'[r] + Cardinality(Counting(r)') <= Bound
    BY DEF OverrunBounded
  <1> DEFINE before == Cardinality(Counting(r))
             after  == Cardinality(Counting(r)')
  <1>0. /\ load \in [Riders -> Int] /\ load[r] \in Int /\ load[r] + before <= Bound
        /\ req \in [Requests -> Seq(StepRecords)] /\ TypeOK
    BY DEF TripInv, TypeOK, OverrunBounded
  <1>1. Bound \in Int /\ before \in Nat /\ IsFiniteSet(Counting(r))
    BY CountingFinite, TripAssumption DEF TripAssumption
  <1>2. after \in Nat /\ after <= Cardinality(Requests) /\ IsFiniteSet(Counting(r)')
    <2>1. Counting(r)' \subseteq Requests
      BY DEF Counting
    <2> QED
      BY <2>1, TripAssumption, FS_Subset, FS_CardinalityType DEF TripAssumption
  <1>3. Counting(r)' \subseteq Counting(r) => after <= before
    BY <1>1, FS_Subset
  <1>4. ASSUME load'[r] = load[r], Counting(r)' \subseteq Counting(r)
        PROVE  load'[r] + after <= Bound
    <2> HIDE DEF before, after, Bound
    <2> QED
      BY <1>0, <1>1, <1>2, <1>3, <1>4
  <1>5. ASSUME load'[r] = load[r], load[r] < MaxConcurrent
        PROVE  load'[r] + after <= Bound
    <2>1. Cardinality(Requests) \in Nat /\ MaxConcurrent \in Nat
      BY CountingFinite, TripAssumption DEF TripAssumption
    <2> HIDE DEF before, after
    <2> QED
      BY <1>0, <1>2, <1>5, <2>1
  <1>6. CASE UNCHANGED vars
    <2>1. load'[r] = load[r] /\ Counting(r)' = Counting(r)
      BY <1>6 DEF vars, Counting, CountBy, CheckRoom
    <2> QED
      BY <2>1, <1>4
  <1>7. ASSUME NEW q \in Requests, NEW d \in Deliveries, Handler(q, d)
        PROVE  load'[r] + after <= Bound
    <2>1. load' = load /\ req[q] = <<>>
      BY <1>0, <1>7, HandlerFrame
    <2>2. PICK steps : req' = [req EXCEPT ![q] = steps]
      BY <1>7, HandlerHands DEF Serve
    <2>3. Counting(r)' \subseteq Counting(r) \/ load[r] < MaxConcurrent
      <3>1. ASSUME NEW p \in Counting(r)', p \notin Counting(r)
            PROVE  load[r] < MaxConcurrent
        <4>1. p = q
          BY <1>0, <2>2, <3>1 DEF Counting, CountBy, CheckRoom
        <4>2. /\ \E i \in DOMAIN req'[q] : req'[q][i] = CountBy(r, 1)
              /\ Head(req'[q]) # CheckRoom(r)
          BY <3>1, <4>1 DEF Counting, CountBy, CheckRoom
        <4> QED
          BY <1>0, <1>7, <4>2, OnlyAcceptCounts DEF TripInv
      <3> QED
        BY <3>1
    <2> QED
      BY <2>1, <2>3, <1>4, <1>5
  <1>8. ASSUME NEW q \in Requests, Step(q) \/ Fail(q)
        PROVE  load'[r] + after <= Bound
    <2>1. req[q] # <<>> /\ (Rest(q) \/ Drop(q))
      BY <1>8 DEF Step, ReadOpen, ReadRoom, DoWrite, DoCount, DoCredit, Fail, Due
    <2>2. CASE DoCount(q)
      <3> DEFINE h == Head(req[q])
      <3>1. /\ h.rider \in Riders /\ h.by \in {1, -1} /\ h = CountBy(h.rider, h.by)
            /\ h = req[q][1] /\ 1 \in DOMAIN req[q]
        BY <1>0, <2>2, HeadKind DEF DoCount
      <3>2. h.op = "count" /\ load' = [load EXCEPT ![h.rider] = load[h.rider] + h.by] /\ Rest(q)
        BY <2>2 DEF DoCount, Due
      <3>3. h # CheckRoom(r)
        BY <3>2 DEF CheckRoom
      <3>4. Counting(r)' \subseteq Counting(r)
        BY <2>1, <3>3, CountingRest
      <3> HIDE DEF h, before, after, Bound
      <3>5. CASE h = CountBy(r, 1)
        <4>1. h.rider = r /\ h.by = 1
          BY <3>5 DEF CountBy
        <4>2. load'[r] = load[r] + 1
          BY <1>0, <3>1, <3>2, <4>1
        <4>3. q \in Counting(r)
          BY <3>1, <3>3, <3>5 DEF Counting, h
        <4>4. q \notin Counting(r)'
          <5>1. 1 = Len(req[q])
            BY <3>1, <3>5 DEF TripInv, RequestsGood, Good, Shape
          <5>2. req'[q] = Tail(req[q]) /\ req[q] \in Seq(StepRecords)
            BY <1>0, <3>2 DEF Rest
          <5>3. DOMAIN req'[q] = {}
            BY <2>1, <5>1, <5>2, TailElements
          <5> QED
            BY <5>3 DEF Counting
        <4>5. Counting(r)' \subseteq Counting(r) \ {q}
          BY <3>4, <4>4
        <4>6. Cardinality(Counting(r) \ {q}) = before - 1 /\ IsFiniteSet(Counting(r) \ {q})
          BY <1>1, <4>3, FS_RemoveElement DEF before
        <4>7. after <= before - 1
          BY <4>5, <4>6, FS_Subset DEF after
        <4> QED
          BY <1>0, <1>1, <1>2, <4>2, <4>7
      <3>6. CASE h # CountBy(r, 1)
        <4>1. load'[r] <= load[r] /\ load'[r] \in Int
          BY <1>0, <3>1, <3>2, <3>6
        <4> QED
          BY <1>0, <1>1, <1>2, <1>3, <3>4, <4>1
      <3> QED
        BY <3>5, <3>6
    <2>3. CASE Head(req[q]) # CheckRoom(r) /\ ~DoCount(q)
      <3>1. load' = load
        BY <1>8, <2>3 DEF Step, ReadOpen, ReadRoom, DoWrite, DoCredit, Fail
      <3>2. Counting(r)' \subseteq Counting(r)
        BY <2>1, <2>3, CountingRest
      <3> QED
        BY <1>4, <3>1, <3>2
    <2>4. CASE Head(req[q]) = CheckRoom(r) /\ ~DoCount(q)
      <3>1. Head(req[q]).op = "room" /\ Head(req[q]).rider = r
        BY <2>4 DEF CheckRoom
      <3>2. ReadRoom(q) \/ Fail(q)
        BY <1>8, <3>1 DEF Step, ReadOpen, DoWrite, DoCount, DoCredit, Due
      <3>3. load' = load
        BY <3>2 DEF ReadRoom, Fail
      <3>4. Drop(q) \/ load[r] < MaxConcurrent
        BY <3>1, <3>2 DEF ReadRoom, Fail, HasRoom
      <3>5. CASE Drop(q)
        <4>1. \A p \in Requests : req'[p] = req[p] \/ req'[p] = <<>>
          BY <1>0, <3>5 DEF Drop
        <4>2. Counting(r)' \subseteq Counting(r)
          BY <4>1 DEF Counting, CountBy, CheckRoom
        <4> QED
          BY <1>4, <3>3, <4>2
      <3> QED
        BY <1>5, <3>3, <3>4, <3>5
    <2> QED
      BY <2>2, <2>3, <2>4
  <1> QED
    BY <1>6, <1>7, <1>8, NextCases

(* A rider's counter exceeds his maximum by no more than one less than the *)
(* number of requests being served, for any number of riders.              *)
THEOREM OverrunIsBounded == Spec => []OverrunBounded
  BY OverrunInit, OverrunStep, InvHolds, PTL DEF Spec

-----------------------------------------------------------------------------
(* Trips and earnings together: TripEarnings.                              *)

(* A number among others that is the smallest, by way of the smallest of   *)
(* the intervals up to them: the library's induction takes an operator.    *)
LEMMA Lowest ==
    ASSUME NEW n \in Nat, NEW N \in SUBSET (1..n), N # {}
    PROVE  \E a \in N : \A b \in N : a <= b
<1> DEFINE F == {1..a : a \in N}
           U == 1..n
<1>1. \A a \in N : a \in Nat /\ a >= 1 /\ a <= n
  OBVIOUS
<1>2. F \subseteq FiniteSubsetsOf(U)
  <2>1. ASSUME NEW a \in N PROVE 1..a \subseteq 1..n /\ IsFiniteSet(1..a)
    <3>1. IsFiniteSet(1..a)
      BY <1>1, FS_Interval
    <3>2. 1..a \subseteq 1..n
      BY <1>1
    <3> QED
      BY <3>1, <3>2
  <2> QED
    BY <2>1 DEF FiniteSubsetsOf
<1>3. PICK A \in F : \A B \in F : <<B, A>> \notin StrictSubsetOrdering(U)
  <2>1. F # {}
    OBVIOUS
  <2> HIDE DEF F, U
  <2>2. IsFiniteSet(U)
    BY FS_Interval DEF U
  <2> QED
    BY <1>2, <2>1, WFMin, FS_StrictSubsetOrderingWellFounded
<1>4. PICK a \in N : A = 1..a
  BY <1>3
<1>5. ASSUME NEW b \in N, b < a PROVE FALSE
  <2>1. 1..b \in F /\ 1..b \subseteq U /\ A \subseteq U
    BY <1>1, <1>4
  <2>2. 1..b \subseteq A /\ 1..b # A
    <3>1. a \in 1..a /\ a \notin 1..b
      BY <1>1, <1>5
    <3>2. 1..b \subseteq 1..a
      BY <1>1, <1>5
    <3> QED
      BY <1>4, <3>1, <3>2
  <2> QED
    BY <1>3, <2>1, <2>2 DEF StrictSubsetOrdering
<1> QED
  BY <1>1, <1>4, <1>5

(* An earning, and what is being done with the earnings.                   *)
Entry ==
    [del : Deliveries, amount : Int, status : {"available", "held", "withdrawn"},
     ref : References \union {NoReference}]

TaskLabels ==
    {"idle", "create", "increment", "commission", "balance", "find", "hold", "split", "deduct",
     "file", "payOut", "approve", "release", "restore", "reject"}

TaskType ==
    [at : TaskLabels, del : Deliveries \union {NoDelivery}, ref : References \union {NoReference},
     sum : Int, left : Int, todo : SUBSET [index : Nat, amount : Int]]

(* The earnings that a task found are among the records r.                 *)
Sound(x, r) ==
    /\ x \in TaskType
    /\ \A f \in x.todo : f.index \in DOMAIN r
    /\ x.at = "split" => x.todo # {}

Worked == {d \in Deliveries : <<"delivery", Earner, d>> \in proved /\ d \in everPaid}

(* Whatever is written down, or about to be, is for work that was done.    *)
AccountsInv ==
    /\ records \in Seq(Entry) /\ task \in [Tasks -> TaskType] /\ errors \in Nat
    /\ \A t \in Tasks : /\ Sound(task[t], records)
                        /\ task[t].at = "create" => task[t].del \in Worked
    /\ \A i \in DOMAIN records : records[i].del \in Worked

Booked(d)  == \E i \in DOMAIN records : records[i].del = d
Booking(d) == \E t \in Tasks : task[t].at = "create" /\ task[t].del = d

(* A credit that was called for is on the books, or being put there.       *)
OnBooks ==
    errors = 0 => \A d \in Deliveries : <<Earner, d>> \in credited => Booked(d) \/ Booking(d)

(* A PIN was entered only of a delivery that was paid.                     *)
ProvedPaid == \A p \in proved : p[3] \in everPaid

WorkInv == TripInv /\ CreditNotLost /\ ProvedPaid /\ AccountsInv /\ OnBooks

(* The records k hold what r held, for the same deliveries.                *)
Kept(r, k) ==
    /\ k \in Seq(Entry) /\ DOMAIN r \subseteq DOMAIN k
    /\ \A i \in DOMAIN r : k[i].del = r[i].del

(* What each step of a task comes to.                                      *)
Does(t, x) ==
    /\ task' = [task EXCEPT ![t] = x] /\ Sound(x, records') /\ x.at # "create"
    /\ Kept(records, records')
    /\ \A i \in DOMAIN records' \ DOMAIN records :
          \/ \E j \in DOMAIN records : records'[i].del = records[j].del
          \/ task[t].at = "create" /\ records'[i].del = task[t].del
    /\ errors' \in Nat /\ errors <= errors'
    /\ task[t].at = "create" => errors' > 0 \/ \E i \in DOMAIN records' : records'[i].del = task[t].del

LEMMA AccountKeeps ==
    ASSUME AccountsInv, OnBooks, NEW t \in Tasks, NEW x, Does(t, x),
           UNCHANGED <<proved, everPaid, credited>>
    PROVE  AccountsInv' /\ OnBooks'
<1>1. /\ task \in [Tasks -> TaskType] /\ x \in TaskType /\ x.at # "create"
      /\ task'[t] = x /\ \A p \in Tasks : p # t => task'[p] = task[p]
      /\ task' \in [Tasks -> TaskType]
  BY DEF AccountsInv, Does, Sound
<1>2. Worked \subseteq Worked'
  BY DEF Worked
<1>3. ASSUME NEW p \in Tasks
      PROVE  /\ Sound(task'[p], records')
             /\ task'[p].at = "create" => task'[p].del \in Worked'
  <2>1. CASE p = t
    BY <1>1, <2>1 DEF Does
  <2>2. CASE p # t
    <3>1. task'[p] = task[p] /\ Sound(task[p], records) /\ DOMAIN records \subseteq DOMAIN records'
      BY <1>1, <2>2 DEF AccountsInv, Does, Kept
    <3>2. Sound(task[p], records')
      BY <3>1 DEF Sound
    <3> QED
      BY <1>2, <3>1, <3>2 DEF AccountsInv
  <2> QED
    BY <2>1, <2>2
<1>4. ASSUME NEW i \in DOMAIN records' PROVE records'[i].del \in Worked'
  <2>1. CASE i \in DOMAIN records
    <3>1. records'[i].del = records[i].del
      BY <2>1 DEF Does, Kept
    <3> QED
      BY <1>2, <2>1, <3>1 DEF AccountsInv
  <2>2. CASE i \notin DOMAIN records
    <3>1. \/ \E j \in DOMAIN records : records'[i].del = records[j].del
          \/ task[t].at = "create" /\ records'[i].del = task[t].del
      BY <2>2 DEF Does
    <3> QED
      BY <1>2, <3>1 DEF AccountsInv
  <2> QED
    BY <2>1, <2>2
<1>5. AccountsInv'
  <2>1. records' \in Seq(Entry) /\ errors' \in Nat
    BY DEF Does, Kept
  <2> QED
    BY <1>1, <1>3, <1>4, <2>1 DEF AccountsInv
<1>6. OnBooks'
  <2> SUFFICES ASSUME errors' = 0, NEW d \in Deliveries, <<Earner, d>> \in credited
               PROVE  Booked(d)' \/ Booking(d)'
    BY DEF OnBooks
  <2>1. errors = 0
    BY DEF Does, AccountsInv
  <2>2. Booked(d) \/ Booking(d)
    BY <2>1 DEF OnBooks
  <2>3. CASE Booked(d)
    BY <2>3 DEF Booked, Does, Kept
  <2>4. ASSUME NEW p \in Tasks, task[p].at = "create", task[p].del = d
        PROVE  Booked(d)' \/ Booking(d)'
    <3>1. CASE p = t
      BY <2>4, <3>1 DEF Does, Booked
    <3>2. CASE p # t
      BY <1>1, <2>4, <3>2 DEF Booking
    <3> QED
      BY <3>1, <3>2
  <2> QED
    BY <2>2, <2>3, <2>4 DEF Booking
<1> QED
  BY <1>5, <1>6

(* Steps that write no earning.                                            *)
LEMMA QuietDoes ==
    ASSUME AccountsInv, NEW t \in Tasks, NEW x, task' = [task EXCEPT ![t] = x], Sound(x, records),
           x.at # "create", task[t].at # "create", UNCHANGED <<records, errors>>
    PROVE  Does(t, x)
<1>1. Kept(records, records')
  BY DEF Kept, AccountsInv
<1>2. errors' \in Nat /\ errors <= errors'
  BY DEF AccountsInv
<1> QED
  BY <1>1, <1>2 DEF Does

LEMMA GotoIs ==
    ASSUME AccountsInv, NEW t \in Tasks, NEW l \in TaskLabels \ {"create"}, Earnings!Goto(t, l),
           l = "split" => task[t].todo # {}
    PROVE  \E x : /\ task' = [task EXCEPT ![t] = x] /\ Sound(x, records) /\ x.at # "create"
<1> DEFINE x == [task[t] EXCEPT !.at = l]
<1>1. task[t] \in TaskType /\ Sound(task[t], records)
  BY DEF AccountsInv
<1>2. x \in TaskType /\ x.at = l /\ x.todo = task[t].todo
  BY <1>1 DEF TaskType
<1>3. task' = [task EXCEPT ![t] = x]
  BY DEF Earnings!Goto
<1> HIDE DEF x
<1> QED
  BY <1>1, <1>2, <1>3 DEF Sound

LEMMA IdleIs ==
    /\ Earnings!Idle \in TaskType /\ Earnings!Idle.at = "idle" /\ Earnings!Idle.todo = {}
    /\ \A r : Sound(Earnings!Idle, r)
<1>1. Earnings!Idle \in TaskType /\ Earnings!Idle.at = "idle" /\ Earnings!Idle.todo = {}
  BY DEF Earnings!Idle, TaskType, TaskLabels
<1> QED
  BY <1>1 DEF Sound

LEMMA FinishIs ==
    ASSUME NEW t \in Tasks, Earnings!Finish(t)
    PROVE  \E x : /\ task' = [task EXCEPT ![t] = x] /\ \A r : Sound(x, r)
                  /\ x.at # "create"
  BY IdleIs DEF Earnings!Finish

(* The task is at a label, and goes to another or is done.                 *)
LEMMA QuietSteps ==
    ASSUME AccountsInv, NEW t \in Tasks,
           \/ Earnings!IncrementBalance(t) \/ Earnings!CreateCommission(t)
           \/ Earnings!CheckBalance(t) \/ Earnings!HeldAll(t) \/ Earnings!DeductBalance(t)
           \/ Earnings!FileRequest(t) \/ Earnings!Approve(t) \/ Earnings!RestoreBalance(t)
           \/ Earnings!Reject(t)
    PROVE  \E x : Does(t, x)
<1>1. /\ UNCHANGED <<records, errors>> /\ task[t].at # "create"
      /\ \/ Earnings!Finish(t)
         \/ \E l \in TaskLabels \ {"create", "split"} : Earnings!Goto(t, l)
  BY DEF TaskLabels, Earnings!At, Earnings!books, Earnings!history, Earnings!IncrementBalance,
         Earnings!CreateCommission, Earnings!CheckBalance, Earnings!HeldAll, Earnings!DeductBalance,
         Earnings!FileRequest, Earnings!Approve, Earnings!RestoreBalance, Earnings!Reject
<1>2. PICK x : task' = [task EXCEPT ![t] = x] /\ Sound(x, records) /\ x.at # "create"
  BY <1>1, FinishIs, GotoIs
<1> QED
  BY <1>1, <1>2, QuietDoes


(* The loop over the earnings a task found takes one that is among them.   *)
LEMMA FoundIsIn ==
    ASSUME AccountsInv, NEW t \in Tasks, task[t].todo # {}
    PROVE  /\ Earnings!Found(t) \in task[t].todo
           /\ Earnings!Found(t).index \in DOMAIN records /\ Earnings!Found(t).amount \in Int
<1> DEFINE todo == task[t].todo
           N == {f.index : f \in todo}
<1>1. /\ todo \subseteq [index : Nat, amount : Int] /\ todo # {}
      /\ \A f \in todo : f.index \in DOMAIN records
  BY DEF AccountsInv, Sound, TaskType
<1>2. records \in Seq(Entry) /\ Len(records) \in Nat /\ DOMAIN records = 1..Len(records)
  BY DEF AccountsInv
<1> HIDE DEF todo
<1>3. N \in SUBSET (1..Len(records)) /\ N # {}
  BY <1>1, <1>2
<1>4. PICK a \in N : \A b \in N : a <= b
  <2> HIDE DEF N
  <2> QED
    BY <1>2, <1>3, Lowest
<1>5. \E f \in todo : \A g \in todo : f.index <= g.index
  BY <1>4
<1>6. Earnings!Found(t) \in todo
  BY <1>5 DEF Earnings!Found, todo
<1>7. Earnings!Found(t).index \in DOMAIN records /\ Earnings!Found(t).amount \in Int
  BY <1>1, <1>6
<1> QED
  BY <1>6, <1>7 DEF todo

(* Records that change, but for their deliveries.                          *)
LEMMA RewriteDoes ==
    ASSUME AccountsInv, NEW t \in Tasks, NEW x, task' = [task EXCEPT ![t] = x], Sound(x, records),
           x.at # "create", task[t].at # "create", errors' = errors,
           records' \in Seq(Entry), DOMAIN records' = DOMAIN records,
           \A i \in DOMAIN records : records'[i].del = records[i].del
    PROVE  Does(t, x)
<1>1. Kept(records, records')
  BY DEF Kept
<1>2. Sound(x, records')
  BY DEF Sound
<1>3. errors' \in Nat /\ errors <= errors'
  BY DEF AccountsInv
<1> QED
  BY <1>1, <1>2, <1>3 DEF Does

(* Another record, for the delivery of one that there is or for the one    *)
(* that the task is to write down.                                         *)
LEMMA AppendDoes ==
    ASSUME AccountsInv, NEW t \in Tasks, NEW x, task' = [task EXCEPT ![t] = x], Sound(x, records),
           x.at # "create", errors' = errors, NEW e \in Entry, records' = Append(records, e),
           \/ task[t].at = "create" /\ e.del = task[t].del
           \/ task[t].at # "create" /\ \E j \in DOMAIN records : e.del = records[j].del
    PROVE  Does(t, x)
<1>1. records \in Seq(Entry) /\ Len(records) \in Nat /\ DOMAIN records = 1..Len(records)
  BY DEF AccountsInv
<1>2. /\ records' \in Seq(Entry) /\ DOMAIN records' = 1..Len(records) + 1
      /\ \A i \in DOMAIN records : records'[i] = records[i]
      /\ records'[Len(records) + 1] = e
  BY <1>1
<1>3. DOMAIN records \subseteq DOMAIN records' /\ Len(records) + 1 \in DOMAIN records'
  BY <1>1, <1>2
<1>4. \A i \in DOMAIN records' \ DOMAIN records : records'[i] = e
  BY <1>1, <1>2
<1>5. Kept(records, records')
  BY <1>2, <1>3 DEF Kept
<1>6. Sound(x, records')
  BY <1>3 DEF Sound
<1>7. errors' \in Nat /\ errors <= errors'
  BY DEF AccountsInv
<1>8. task[t].at = "create" => \E i \in DOMAIN records' : records'[i].del = task[t].del
  BY <1>2, <1>3
<1>9. \A i \in DOMAIN records' \ DOMAIN records :
         \/ \E j \in DOMAIN records : records'[i].del = records[j].del
         \/ task[t].at = "create" /\ records'[i].del = task[t].del
  BY <1>4
<1> QED
  BY <1>5, <1>6, <1>7, <1>8, <1>9 DEF Does

LEMMA CreateEarningDoes ==
    ASSUME WorkAssumption, AccountsInv, NEW t \in Tasks, Earnings!CreateEarning(t)
    PROVE  \E x : Does(t, x)
<1> DEFINE d == task[t].del
           e == Earnings!Earning(d, Earnings!Payout(d), "available", NoReference)
<1>1. task[t].at = "create" /\ d \in Deliveries
  BY DEF Earnings!CreateEarning, Earnings!At, AccountsInv, Worked
<1>2. Earnings!Payout(d) \in Int
  <2>1. Price[d] \in Nat /\ Percentage \in Nat /\ MinimumPayout \in Nat
    BY <1>1 DEF WorkAssumption
  <2>2. PICK n \in Nat : n = Price[d] * Percentage + 50
    BY <2>1
  <2>3. n \div 100 \in Int
    BY <2>2
  <2>4. CASE n \div 100 < MinimumPayout
    BY <2>1, <2>2, <2>4 DEF Earnings!Payout
  <2>5. CASE ~(n \div 100 < MinimumPayout)
    BY <2>1, <2>2, <2>3, <2>5 DEF Earnings!Payout
  <2> QED
    BY <2>4, <2>5
<1>3. e \in Entry /\ e.del = d
  <2> HIDE DEF d
  <2> QED
    BY <1>1, <1>2 DEF Earnings!Earning, Entry
<1>4. records' = Append(records, e) /\ errors' = errors
  BY DEF Earnings!CreateEarning, Earnings!history
<1>5. Earnings!Goto(t, "increment")
  BY DEF Earnings!CreateEarning
<1>6. PICK x : task' = [task EXCEPT ![t] = x] /\ Sound(x, records) /\ x.at # "create"
  BY <1>5, GotoIs DEF TaskLabels
<1> HIDE DEF e
<1> QED
  BY <1>1, <1>3, <1>4, <1>6, AppendDoes

LEMMA FindEarningsDoes ==
    ASSUME AccountsInv, NEW t \in Tasks, Earnings!FindEarnings(t)
    PROVE  \E x : Does(t, x)
<1> DEFINE found == {[index |-> i, amount |-> records[i].amount] :
                        i \in Earnings!Where(Earnings!Available)}
           x == [task[t] EXCEPT !.at = "hold", !.todo = found]
<1>1. task[t] \in TaskType /\ task \in [Tasks -> TaskType]
  BY DEF AccountsInv
<1>2. /\ found \subseteq [index : Nat, amount : Int]
      /\ \A f \in found : f.index \in DOMAIN records
  <2>1. records \in Seq(Entry)
    BY DEF AccountsInv
  <2>2. ASSUME NEW i \in DOMAIN records PROVE i \in Nat /\ records[i].amount \in Int
    <3>1. records[i] \in Entry /\ i \in Nat
      BY <2>1
    <3> QED
      BY <3>1 DEF Entry
  <2>3. Earnings!Where(Earnings!Available) \subseteq DOMAIN records
    BY DEF Earnings!Where, Earnings!Available
  <2> QED
    BY <2>2, <2>3
<1>3. /\ task' = [task EXCEPT ![t].at = "hold", ![t].todo = found]
      /\ task[t].at = "find" /\ UNCHANGED <<records, errors>>
  BY DEF Earnings!FindEarnings, Earnings!At, Earnings!books, Earnings!history
<1> HIDE DEF found
<1>4. x \in TaskType /\ x.at = "hold" /\ x.todo = found
  BY <1>1, <1>2 DEF TaskType, TaskLabels
<1>5. task' = [task EXCEPT ![t] = x]
  BY <1>1, <1>3
<1>6. Sound(x, records)
  BY <1>2, <1>4 DEF Sound
<1> HIDE DEF x
<1> QED
  BY <1>3, <1>4, <1>5, <1>6, QuietDoes

LEMMA HoldWholeDoes ==
    ASSUME AccountsInv, NEW t \in Tasks, Earnings!HoldWhole(t)
    PROVE  \E x : Does(t, x)
<1> DEFINE f == Earnings!Found(t)
           x == [task[t] EXCEPT !.todo = @ \ {f}, !.left = @ - f.amount]
<1>1. task[t] \in TaskType /\ task \in [Tasks -> TaskType] /\ records \in Seq(Entry)
  BY DEF AccountsInv
<1>2. /\ task[t].at = "hold" /\ task[t].todo # {} /\ errors' = errors
      /\ records' = [records EXCEPT ![f.index].status = "held", ![f.index].ref = task[t].ref]
      /\ task' = [task EXCEPT ![t].todo = @ \ {f}, ![t].left = @ - f.amount]
  BY DEF Earnings!HoldWhole, Earnings!At, Earnings!history
<1>3. f.index \in DOMAIN records /\ f.amount \in Int
  BY <1>2, FoundIsIn
<1> HIDE DEF f
<1>4. /\ x \in TaskType /\ x.at = "hold" /\ x.todo = task[t].todo \ {f}
  <2> DEFINE u == task[t].todo \ {f}
             n == task[t].left - f.amount
  <2>1. u \subseteq [index : Nat, amount : Int] /\ n \in Int
    BY <1>1, <1>3 DEF TaskType
  <2>2. x = [task[t] EXCEPT !.todo = u, !.left = n]
    BY <1>1 DEF TaskType
  <2> HIDE DEF u, n, x
  <2>3. x \in TaskType /\ x.at = task[t].at /\ x.todo = u
    BY <1>1, <2>1, <2>2 DEF TaskType
  <2> QED
    BY <1>2, <2>3 DEF u
<1>5. task' = [task EXCEPT ![t] = x]
  BY <1>1, <1>2
<1>6. Sound(x, records)
  BY <1>4 DEF Sound, AccountsInv
<1>7. /\ records' \in Seq(Entry) /\ DOMAIN records' = DOMAIN records
      /\ \A i \in DOMAIN records : records'[i].del = records[i].del
  <2> DEFINE e == [records[f.index] EXCEPT !.status = "held", !.ref = task[t].ref]
  <2>1. records[f.index] \in Entry /\ task[t].ref \in References \union {NoReference}
    BY <1>1, <1>3 DEF TaskType
  <2>2. e \in Entry /\ e.del = records[f.index].del
    BY <2>1 DEF Entry
  <2>3. records' = [records EXCEPT ![f.index] = e]
    BY <1>1, <1>2, <1>3
  <2> HIDE DEF e
  <2> QED
    BY <1>1, <1>3, <2>2, <2>3
<1> HIDE DEF x
<1> QED
  BY <1>2, <1>4, <1>5, <1>6, <1>7, RewriteDoes

LEMMA HoldPartDoes ==
    ASSUME AccountsInv, NEW t \in Tasks, Earnings!HoldPart(t)
    PROVE  \E x : Does(t, x)
<1> DEFINE f == Earnings!Found(t)
           n == f.amount - task[t].left
<1>1. task[t] \in TaskType /\ records \in Seq(Entry)
  BY DEF AccountsInv
<1>2. /\ task[t].at = "hold" /\ task[t].todo # {} /\ errors' = errors
      /\ records' = [records EXCEPT ![f.index].amount = n]
      /\ Earnings!Goto(t, "split")
  BY DEF Earnings!HoldPart, Earnings!At, Earnings!history
<1>3. f.index \in DOMAIN records /\ f.amount \in Int
  BY <1>2, FoundIsIn
<1>4. n \in Int
  BY <1>1, <1>3 DEF TaskType
<1> HIDE DEF n, f
<1>5. PICK x : task' = [task EXCEPT ![t] = x] /\ Sound(x, records) /\ x.at # "create"
  BY <1>2, GotoIs DEF TaskLabels
<1>6. /\ records' \in Seq(Entry) /\ DOMAIN records' = DOMAIN records
      /\ \A i \in DOMAIN records : records'[i].del = records[i].del
  <2> DEFINE e == [records[f.index] EXCEPT !.amount = n]
  <2>1. records[f.index] \in Entry
    BY <1>1, <1>3
  <2>2. e \in Entry /\ e.del = records[f.index].del
    BY <1>4, <2>1 DEF Entry
  <2>3. records' = [records EXCEPT ![f.index] = e]
    BY <1>1, <1>2, <1>3
  <2> HIDE DEF e
  <2> QED
    BY <1>1, <1>3, <2>2, <2>3
<1> QED
  BY <1>2, <1>5, <1>6, RewriteDoes

LEMMA CreateHeldDoes ==
    ASSUME AccountsInv, NEW t \in Tasks, Earnings!CreateHeld(t)
    PROVE  \E x : Does(t, x)
<1> DEFINE f == Earnings!Found(t)
           e == Earnings!Earning(records[f.index].del, task[t].left, "held", task[t].ref)
           x == [task[t] EXCEPT !.at = "deduct", !.left = 0]
<1>1. task[t] \in TaskType /\ task \in [Tasks -> TaskType] /\ records \in Seq(Entry)
  BY DEF AccountsInv
<1>2. /\ task[t].at = "split" /\ errors' = errors /\ records' = Append(records, e)
      /\ task' = [task EXCEPT ![t].at = "deduct", ![t].left = 0]
  BY DEF Earnings!CreateHeld, Earnings!At, Earnings!history
<1>3. f.index \in DOMAIN records
  <2>1. task[t].todo # {}
    BY <1>2 DEF AccountsInv, Sound
  <2> QED
    BY <2>1, FoundIsIn
<1> HIDE DEF f
<1>4. e \in Entry /\ e.del = records[f.index].del
  <2>1. records[f.index] \in Entry
    BY <1>1, <1>3
  <2>2. /\ records[f.index].del \in Deliveries /\ task[t].left \in Int
        /\ task[t].ref \in References \union {NoReference}
    BY <1>1, <2>1 DEF Entry, TaskType
  <2> QED
    BY <2>2 DEF Earnings!Earning, Entry
<1> HIDE DEF e
<1>5. x \in TaskType /\ x.at = "deduct" /\ x.todo = task[t].todo
  <2>1. "deduct" \in TaskLabels /\ 0 \in Int
    BY DEF TaskLabels
  <2> QED
    BY <1>1, <2>1 DEF TaskType
<1>6. task' = [task EXCEPT ![t] = x]
  BY <1>1, <1>2
<1>7. Sound(x, records)
  BY <1>5 DEF Sound, AccountsInv
<1> HIDE DEF x
<1>8. \E j \in DOMAIN records : e.del = records[j].del
  BY <1>3, <1>4
<1> QED
  BY <1>2, <1>4, <1>5, <1>6, <1>7, <1>8, AppendDoes

(* A decision moves the earnings that are held for a withdrawal.           *)
LEMMA DecisionDoes ==
    ASSUME AccountsInv, NEW t \in Tasks, Earnings!PayOut(t) \/ Earnings!ReleaseHeld(t)
    PROVE  \E x : Does(t, x)
<1>1. PICK l \in TaskLabels \ {"create", "split"}, s \in {"available", "withdrawn"},
           v \in References \union {NoReference} :
         /\ Earnings!UpdateHeld(task[t].ref, s, v) /\ Earnings!Goto(t, l)
         /\ task[t].at # "create" /\ errors' = errors
  <2>1. task[t].ref \in References \union {NoReference}
    BY DEF AccountsInv, TaskType
  <2>2. CASE Earnings!PayOut(t)
    BY <2>1, <2>2 DEF Earnings!PayOut, Earnings!At, Earnings!history, TaskLabels
  <2>3. CASE Earnings!ReleaseHeld(t)
    BY <2>3 DEF Earnings!ReleaseHeld, Earnings!At, Earnings!history, TaskLabels
  <2> QED
    BY <2>2, <2>3
<1>2. PICK x : task' = [task EXCEPT ![t] = x] /\ Sound(x, records) /\ x.at # "create"
  BY <1>1, GotoIs
<1>3. /\ records' \in Seq(Entry) /\ DOMAIN records' = DOMAIN records
      /\ \A i \in DOMAIN records : records'[i].del = records[i].del
  <2> DEFINE New(i) == IF records[i].status = "held" /\ records[i].ref = task[t].ref
                       THEN [records[i] EXCEPT !.status = s, !.ref = v] ELSE records[i]
  <2>1. records' = [i \in DOMAIN records |-> New(i)]
    BY <1>1 DEF Earnings!UpdateHeld
  <2>2. records \in Seq(Entry) /\ Len(records) \in Nat /\ DOMAIN records = 1..Len(records)
    BY DEF AccountsInv
  <2>3. ASSUME NEW i \in DOMAIN records PROVE New(i) \in Entry /\ New(i).del = records[i].del
    <3>1. records[i] \in Entry
      BY <2>2
    <3> QED
      BY <3>1 DEF Entry
  <2> HIDE DEF New
  <2>4. DOMAIN records' = DOMAIN records /\ \A i \in DOMAIN records : records'[i] = New(i)
    BY <2>1
  <2>5. records' \in [1..Len(records) -> Entry]
    BY <2>1, <2>2, <2>3
  <2>6. records' \in Seq(Entry)
    BY <2>2, <2>5
  <2> QED
    BY <2>3, <2>4, <2>6
<1> QED
  BY <1>1, <1>2, <1>3, RewriteDoes

(* A withdrawal or a decision that starts, and a task that stops half way. *)
LEMMA StartsDoes ==
    ASSUME WorkAssumption, AccountsInv, NEW t \in Tasks, NEW w \in References,
           \/ \E n \in Amounts : Earnings!StartWithdrawal(t, w, n)
           \/ Earnings!StartApproval(t, w)
           \/ Earnings!StartRejection(t, w)
    PROVE  \E x : Does(t, x)
<1> DEFINE I == Earnings!Idle
           Opens(x) == /\ Earnings!Begin(t, x) /\ UNCHANGED <<records, errors>>
                       /\ x.at \notin {"create", "split"} /\ x.todo = {}
<1>1. I \in TaskType /\ I.todo = {}
  BY IdleIs
<1>2. \E x \in TaskType : Opens(x)
  <2>0. {"balance", "payOut", "release"} \subseteq TaskLabels
    BY DEF TaskLabels
  <2>1. ASSUME NEW n \in Amounts, Earnings!StartWithdrawal(t, w, n) PROVE \E x \in TaskType : Opens(x)
    <3>1. n \in Int
      BY DEF WorkAssumption
    <3>2. UNCHANGED <<records, errors>>
      BY <2>1 DEF Earnings!StartWithdrawal, Earnings!books
    <3>3. Earnings!Begin(t, [I EXCEPT !.at = "balance", !.ref = w, !.sum = n, !.left = n])
      BY <2>1, Zenon DEF Earnings!StartWithdrawal
    <3> HIDE DEF I
    <3>4. PICK x : x = [I EXCEPT !.at = "balance", !.ref = w, !.sum = n, !.left = n]
      OBVIOUS
    <3>5. x \in TaskType /\ x.at = "balance" /\ x.todo = {}
      BY <1>1, <2>0, <3>1, <3>4 DEF TaskType
    <3> QED
      BY <3>2, <3>3, <3>4, <3>5
  <2>2. ASSUME NEW l \in {"payOut", "release"}, Earnings!Decide(t, w, l) PROVE \E x \in TaskType : Opens(x)
    <3>1. UNCHANGED <<records, errors>>
      BY <2>2 DEF Earnings!Decide, Earnings!books
    <3>2. Earnings!Begin(t, [I EXCEPT !.at = l, !.ref = w])
      BY <2>2, Zenon DEF Earnings!Decide
    <3> HIDE DEF I
    <3>3. PICK x : x = [I EXCEPT !.at = l, !.ref = w]
      OBVIOUS
    <3>4. x \in TaskType /\ x.at = l /\ x.todo = {}
      BY <1>1, <2>0, <3>3 DEF TaskType
    <3> QED
      BY <3>1, <3>2, <3>3, <3>4
  <2> HIDE DEF I
  <2> QED
    BY <2>1, <2>2 DEF Earnings!StartApproval, Earnings!StartRejection
<1>3. PICK x \in TaskType : Opens(x)
  BY <1>2
<1>4. Sound(x, records)
  BY <1>3 DEF Sound
<1>5. task[t].at # "create" /\ task' = [task EXCEPT ![t] = x]
  BY <1>3 DEF Earnings!Begin, Earnings!At
<1> QED
  BY <1>3, <1>4, <1>5, QuietDoes

LEMMA FailDoes ==
    ASSUME AccountsInv, NEW t \in Tasks, Earnings!Fail(t)
    PROVE  \E x : Does(t, x)
<1>1. /\ UNCHANGED records /\ errors' = errors + 1 /\ Earnings!Finish(t) /\ errors \in Nat
      /\ records \in Seq(Entry)
  BY DEF Earnings!Fail, Earnings!books, AccountsInv
<1>2. PICK x : task' = [task EXCEPT ![t] = x] /\ Sound(x, records) /\ x.at # "create"
  BY <1>1, FinishIs
<1>3. Kept(records, records') /\ Sound(x, records')
  BY <1>1, <1>2 DEF Kept
<1>4. errors' \in Nat /\ errors' > 0 /\ errors <= errors'
  BY <1>1
<1> QED
  BY <1>1, <1>2, <1>3, <1>4 DEF Does

LEMMA AccountDoes ==
    ASSUME WorkAssumption, AccountsInv, Account
    PROVE  \E t \in Tasks : \E x : Does(t, x)
<1>1. PICK t \in Tasks :
         \/ Earnings!Step(t)
         \/ Earnings!Fail(t)
         \/ \E w \in References :
               \/ \E n \in Amounts : Earnings!StartWithdrawal(t, w, n)
               \/ Earnings!StartApproval(t, w)
               \/ Earnings!StartRejection(t, w)
  BY DEF Account
<1>2. CASE Earnings!Step(t)
  BY <1>2, CreateEarningDoes, FindEarningsDoes, HoldWholeDoes, HoldPartDoes, CreateHeldDoes,
     DecisionDoes, QuietSteps
     DEF Earnings!Step, Earnings!Credit, Earnings!Withdraw, Earnings!Settle
<1> QED
  BY <1>1, <1>2, StartsDoes, FailDoes

-----------------------------------------------------------------------------
(* Each step of both together is one of the trips, of the earnings, or of  *)
(* both: what the two specifications allow on their own.                   *)

(* What is proved and paid only grows.                                     *)
LEMMA WorkGrows ==
    ASSUME TripInv, [Next]_vars
    PROVE  proved \subseteq proved' /\ everPaid \subseteq everPaid'
<1>1. CASE UNCHANGED Promise!promiseVars
  BY <1>1 DEF Promise!promiseVars
<1>2. CASE Promise!Fulfil
  BY <1>2 DEF Promise!Fulfil, Promise!Pay, Promise!Prove, Promise!Credit
<1> QED
  BY <1>1, <1>2, PromiseStep

(* A PIN is entered only of a delivery that was paid.                      *)
LEMMA ProvedPaidStep == TripInv /\ ProvedPaid /\ [Next]_vars => ProvedPaid'
<1> SUFFICES ASSUME TripInv, ProvedPaid, [Next]_vars PROVE ProvedPaid'
  OBVIOUS
<1>1. CASE UNCHANGED Promise!promiseVars
  BY <1>1 DEF Promise!promiseVars, ProvedPaid
<1>2. CASE Promise!Fulfil
  <2>1. PICK d \in Deliveries :
           \/ Promise!Pay(d)
           \/ \E r \in Riders : Promise!Credit(r, d) \/ \E k \in {"pickup", "delivery"} : Promise!Prove(k, r, d)
    BY <1>2 DEF Promise!Fulfil, Promise!PinKinds
  <2>2. CASE Promise!Pay(d)
    BY <2>2 DEF Promise!Pay, ProvedPaid
  <2>3. CASE \E r \in Riders : Promise!Credit(r, d)
    BY <2>3 DEF Promise!Credit, ProvedPaid
  <2>4. ASSUME NEW r \in Riders, NEW k \in {"pickup", "delivery"}, Promise!Prove(k, r, d)
        PROVE  ProvedPaid'
    <3>1. d \in everPaid /\ proved' = proved \union {<<k, r, d>>} /\ everPaid' = everPaid
      BY <2>4 DEF Promise!Prove
    <3>2. <<k, r, d>>[3] = d
      OBVIOUS
    <3> QED
      BY <3>1, <3>2 DEF ProvedPaid
  <2> QED
    BY <2>1, <2>2, <2>3, <2>4
<1> QED
  BY <1>1, <1>2, PromiseStep

LEMMA EarningsMove ==
    /\ UNCHANGED earningsVars => UNCHANGED Earnings!vars
    /\ UNCHANGED Earnings!vars => UNCHANGED earningsVars
BY DEF earningsVars, Earnings!vars, Earnings!books, Earnings!history

LEMMA TripMoves ==
    ASSUME TripInv, Trip
    PROVE  /\ [Next]_vars /\ UNCHANGED earningsVars
           /\ \A d : <<Earner, d>> \in credited' => <<Earner, d>> \in credited
<1>1. PICK q \in Requests :
         \/ Step(q) /\ ~Owes(q)
         \/ Fail(q)
         \/ \E d \in Deliveries : Handler(q, d)
  BY DEF Trip, Handler
<1>2. [Next]_vars
  BY DEF Trip, Next
<1>3. \A d : <<Earner, d>> \in credited' => <<Earner, d>> \in credited
  <2>1. CASE Step(q) /\ ~Owes(q)
    <3>1. CASE DoCredit(q)
      <4>1. /\ credited' = credited \union {<<Head(req[q]).rider, Head(req[q]).del>>}
            /\ Head(req[q]).rider # Earner
        BY <2>1, <3>1 DEF DoCredit, Owes
      <4> QED
        BY <4>1
    <3>2. CASE ~DoCredit(q)
      BY <2>1, <3>2 DEF Step, ReadOpen, ReadRoom, DoWrite, DoCount
    <3> QED
      BY <3>1, <3>2
  <2>2. CASE Fail(q)
    BY <2>2 DEF Fail
  <2>3. CASE \E d \in Deliveries : Handler(q, d)
    BY <2>3, HandlerFrame DEF TripInv
  <2> QED
    BY <1>1, <2>1, <2>2, <2>3
<1> QED
  BY <1>2, <1>3 DEF Trip

LEMMA AccountMoves ==
    ASSUME Account
    PROVE  UNCHANGED vars /\ Earnings!Next
<1>1. UNCHANGED vars
  BY DEF Account
<1>2. Earnings!Next
  BY DEF Account, Earnings!Next
<1> QED
  BY <1>1, <1>2

(* The delivery that is credited is one of those whose PIN he entered.     *)
LEMMA CreditMoves ==
    ASSUME TripInv, ProvedPaid, NEW q \in Requests, NEW t \in Tasks, CreditDeliveryEarnings(q, t)
    PROVE  \E d \in Worked :
              /\ Next /\ Earnings!Next /\ Earnings!StartCredit(t, d)
              /\ credited' = credited \union {<<Earner, d>>}
<1> DEFINE d == Head(req[q]).del
<1>1. Due(q, "credit") /\ Head(req[q]).rider = Earner /\ DoCredit(q) /\ Earnings!StartCredit(t, d)
  BY DEF CreditDeliveryEarnings, Owes
<1>2. d \in Deliveries /\ 1 \in DOMAIN req[q] /\ Head(req[q]) = req[q][1]
  BY <1>1, HeadKind DEF TripInv
<1>3. <<"delivery", Earner, d>> \in proved
  <2>1. StepGood(req[q][1], everPaid, proved)
    BY <1>2 DEF TripInv, RequestsGood, Good
  <2>2. Head(req[q]).op = "credit"
    BY <1>1 DEF Due
  <2> QED
    BY <1>1, <1>2, <2>1, <2>2 DEF StepGood
<1>4. d \in everPaid
  BY <1>3 DEF ProvedPaid
<1>5. Next
  BY <1>1 DEF Next, Step
<1>6. Earnings!Next
  BY <1>1, <1>2 DEF Earnings!Next
<1>7. credited' = credited \union {<<Earner, d>>}
  BY <1>1 DEF DoCredit
<1> HIDE DEF d
<1> QED
  BY <1>1, <1>2, <1>3, <1>4, <1>5, <1>6, <1>7 DEF Worked

LEMMA WorkMoves ==
    ASSUME TripInv, ProvedPaid, [WorkNext]_workVars
    PROVE  [Next]_vars /\ [Earnings!Next]_(Earnings!vars)
<1>1. CASE UNCHANGED workVars
  BY <1>1, EarningsMove DEF workVars
<1>2. CASE Trip
  BY <1>2, TripMoves, EarningsMove
<1>3. CASE Account
  BY <1>3, AccountMoves
<1>4. CASE \E q \in Requests, t \in Tasks : CreditDeliveryEarnings(q, t)
  BY <1>4, CreditMoves
<1> QED
  BY <1>1, <1>2, <1>3, <1>4 DEF WorkNext

-----------------------------------------------------------------------------
(* What that does to the earnings.                                         *)

LEMMA TripKeeps ==
    ASSUME AccountsInv, OnBooks, UNCHANGED earningsVars,
           proved \subseteq proved', everPaid \subseteq everPaid',
           \A d : <<Earner, d>> \in credited' => <<Earner, d>> \in credited
    PROVE  AccountsInv' /\ OnBooks'
<1>1. UNCHANGED <<records, task, errors>>
  BY DEF earningsVars
<1>2. Worked \subseteq Worked'
  BY DEF Worked
<1>3. AccountsInv'
  BY <1>1, <1>2 DEF AccountsInv, Sound
<1>4. OnBooks'
  BY <1>1 DEF OnBooks, Booked, Booking
<1> QED
  BY <1>3, <1>4

(* A credit finds an earning of the delivery, or is about to write one.    *)
LEMMA CreditKeeps ==
    ASSUME AccountsInv, OnBooks, NEW t \in Tasks, NEW d \in Worked, Earnings!StartCredit(t, d),
           credited' = credited \union {<<Earner, d>>},
           proved \subseteq proved', everPaid \subseteq everPaid'
    PROVE  AccountsInv' /\ OnBooks'
<1> DEFINE x == [Earnings!Idle EXCEPT !.at = "create", !.del = d]
<1>1. UNCHANGED <<records, errors>> /\ d \in Deliveries
  BY DEF Earnings!StartCredit, Earnings!books, Worked
<1>2. Worked \subseteq Worked'
  BY DEF Worked
<1>3. \/ Booked(d) /\ UNCHANGED task
      \/ task[t].at = "idle" /\ task' = [task EXCEPT ![t] = x]
  BY DEF Earnings!StartCredit, Earnings!Begin, Earnings!At, Booked
<1>4. x \in TaskType /\ x.at = "create" /\ x.del = d /\ x.todo = {}
  <2>1. "create" \in TaskLabels
    BY DEF TaskLabels
  <2> QED
    BY <1>1, <2>1, IdleIs DEF TaskType
<1>5. Sound(x, records)
  BY <1>4 DEF Sound
<1> HIDE DEF x
<1>6. AccountsInv'
  <2>1. CASE UNCHANGED task
    BY <1>1, <1>2, <2>1 DEF AccountsInv, Sound
  <2>2. CASE task' = [task EXCEPT ![t] = x]
    <3>1. ASSUME NEW p \in Tasks
          PROVE  /\ Sound(task'[p], records) /\ task'[p] \in TaskType
                 /\ task'[p].at = "create" => task'[p].del \in Worked
      BY <1>4, <1>5, <2>2 DEF AccountsInv
    <3>2. task' \in [Tasks -> TaskType]
      BY <1>4, <2>2 DEF AccountsInv
    <3> QED
      BY <1>1, <1>2, <3>1, <3>2 DEF AccountsInv
  <2> QED
    BY <1>3, <2>1, <2>2
<1>7. OnBooks'
  <2> SUFFICES ASSUME errors' = 0, NEW e \in Deliveries, <<Earner, e>> \in credited'
               PROVE  Booked(e)' \/ Booking(e)'
    BY DEF OnBooks
  <2>1. CASE e = d
    <3>1. CASE Booked(d)
      BY <1>1, <2>1, <3>1 DEF Booked
    <3>2. CASE task' = [task EXCEPT ![t] = x]
      <4>1. task'[t] = x
        BY <3>2 DEF AccountsInv
      <4> QED
        BY <1>4, <2>1, <4>1 DEF Booking
    <3> QED
      BY <1>3, <3>1, <3>2
  <2>2. CASE e # d
    <3>1. Booked(e) \/ Booking(e)
      BY <1>1, <2>2 DEF OnBooks
    <3>2. CASE Booked(e)
      BY <1>1, <3>2 DEF Booked
    <3>3. CASE Booked(d) /\ UNCHANGED task
      BY <1>1, <3>1, <3>3 DEF Booked, Booking
    <3>4. CASE task[t].at = "idle" /\ task' = [task EXCEPT ![t] = x]
      <4>1. ASSUME NEW p \in Tasks, task[p].at = "create" PROVE task'[p] = task[p]
        BY <3>4, <4>1
      <4> QED
        BY <3>1, <3>2, <4>1 DEF Booking
    <3> QED
      BY <1>3, <3>3, <3>4
  <2> QED
    BY <2>1, <2>2
<1> QED
  BY <1>6, <1>7

LEMMA WorkInitial == WorkInit => WorkInv
<1> SUFFICES ASSUME WorkInit PROVE WorkInv
  OBVIOUS
<1>1. TripInv /\ CreditNotLost
  BY InitInv, CreditInit DEF WorkInit
<1>2. ProvedPaid /\ credited = {}
  BY DEF WorkInit, Init, ProvedPaid
<1>3. records = <<>> /\ task = [q \in Tasks |-> Earnings!Idle] /\ errors = 0
  BY DEF WorkInit, Earnings!Init
<1>4. AccountsInv
  BY <1>3, IdleIs DEF AccountsInv
<1>5. OnBooks
  BY <1>2 DEF OnBooks
<1> QED
  BY <1>1, <1>2, <1>4, <1>5 DEF WorkInv

LEMMA WorkStep ==
    ASSUME WorkAssumption, WorkInv, [WorkNext]_workVars
    PROVE  WorkInv'
<1>0. TripInv /\ CreditNotLost /\ ProvedPaid /\ AccountsInv /\ OnBooks
  BY DEF WorkInv
<1>1. [Next]_vars
  BY <1>0, WorkMoves
<1>2. TripInv' /\ CreditNotLost' /\ ProvedPaid'
  BY <1>0, <1>1, InvStep, CreditStep, ProvedPaidStep
<1>3. proved \subseteq proved' /\ everPaid \subseteq everPaid'
  BY <1>0, <1>1, WorkGrows
<1>4. AccountsInv' /\ OnBooks'
  <2>1. CASE UNCHANGED workVars
    <3>1. UNCHANGED earningsVars /\ UNCHANGED credited
      BY <2>1 DEF workVars, vars
    <3> QED
      BY <1>0, <1>3, <3>1, TripKeeps
  <2>2. CASE Trip
    BY <1>0, <1>3, <2>2, TripMoves, TripKeeps
  <2>3. CASE Account
    <3>1. UNCHANGED <<proved, everPaid, credited>>
      BY <2>3 DEF Account, vars, docVars
    <3>2. PICK t \in Tasks : \E x : Does(t, x)
      BY <1>0, <2>3, AccountDoes
    <3> QED
      BY <1>0, <3>1, <3>2, AccountKeeps
  <2>4. ASSUME NEW q \in Requests, NEW t \in Tasks, CreditDeliveryEarnings(q, t)
        PROVE  AccountsInv' /\ OnBooks'
    <3>1. PICK d \in Worked : Earnings!StartCredit(t, d) /\ credited' = credited \union {<<Earner, d>>}
      BY <1>0, <2>4, CreditMoves
    <3> QED
      BY <1>0, <1>3, <3>1, CreditKeeps
  <2> QED
    BY <2>1, <2>2, <2>3, <2>4 DEF WorkNext
<1> QED
  BY <1>2, <1>4 DEF WorkInv

LEMMA WorkHolds ==
    ASSUME WorkAssumption
    PROVE  WorkSpec => []WorkInv
<1>1. WorkInv /\ [WorkNext]_workVars => WorkInv'
  BY WorkStep
<1> QED
  BY <1>1, WorkInitial, PTL DEF WorkSpec

(* Together the two do what each is specified to do on its own, so that    *)
(* what is proved about trips and about earnings holds of them together:   *)
(* the call between them takes no step away from either.                   *)
THEOREM WorkRefines ==
    ASSUME WorkAssumption
    PROVE  WorkSpec => Spec /\ Earnings!Spec
<1>1. WorkInit => Init /\ Earnings!Init
  BY DEF WorkInit
<1>2. WorkInv /\ [WorkNext]_workVars => [Next]_vars /\ [Earnings!Next]_(Earnings!vars)
  BY WorkMoves DEF WorkInv
<1> QED
  BY <1>1, <1>2, WorkHolds, PTL DEF WorkSpec, Spec, Earnings!Spec

(* Nothing is in a rider's accounts but for deliveries that were paid and  *)
(* whose PIN he entered.                                                   *)
THEOREM EarnedByWorkHolds ==
    ASSUME WorkAssumption
    PROVE  WorkSpec => []EarnedByWork
<1>1. WorkInv => EarnedByWork
  BY DEF WorkInv, AccountsInv, Worked, EarnedByWork
<1> QED
  BY <1>1, WorkHolds, PTL

(* And for each of them he has an earning, or a request is at it, unless   *)
(* something stopped half way.                                             *)
THEOREM WorkIsPaidHolds ==
    ASSUME WorkAssumption
    PROVE  WorkSpec => []WorkIsPaid
<1>1. WorkInv => WorkIsPaid
  <2> SUFFICES ASSUME WorkInv, faults = 0, errors = 0, NEW d \in Deliveries,
                      <<"delivery", Earner, d>> \in proved
               PROVE  \/ Booked(d) \/ Booking(d)
                      \/ \E q \in Requests : \E i \in DOMAIN req[q] : req[q][i] = Credit(Earner, d)
    BY DEF WorkIsPaid, Booked, Booking, Earnings!At
  <2>1. \/ <<Earner, d>> \in credited
        \/ \E q \in Requests : \E i \in DOMAIN req[q] : req[q][i] = Credit(Earner, d)
    BY DEF WorkAssumption, WorkInv, CreditNotLost, Credit
  <2> QED
    BY <2>1 DEF WorkInv, OnBooks
<1> QED
  BY <1>1, WorkHolds, PTL
=============================================================================
