--------------------------- MODULE Booking_proofs ---------------------------
(***************************************************************************)
(* Proofs about Booking: every property of its run, for every set of       *)
(* configs, orders, times and requests.                                    *)
(*                                                                         *)
(* BookingInv says what a request holds while it is under way: documents   *)
(* that exist, and a time that the delivery's price pays for although the  *)
(* price of that time may have changed since.  Three more invariants rest  *)
(* on it: LockRead for the lock, ActivationsInOrder for the active config  *)
(* and MovesInOrder for the history of the times.                          *)
(***************************************************************************)
EXTENDS Booking, SequenceTheorems, FiniteSetTheorems, TLAPS

(* Rounding n / d is the whole number k that is nearest: k is at most half *)
(* of one away.                                                            *)
LEMMA RoundSpec ==
    ASSUME NEW n \in Int, NEW d \in Nat \ {0}
    PROVE  /\ Round(n, d) \in Int
           /\ 2 * d * Round(n, d) <= 2 * n + d
           /\ 2 * n + d < 2 * d * Round(n, d) + 2 * d
<1> DEFINE a == 2 * n + d
           b == 2 * d
<1>1. a \in Int /\ b \in Nat \ {0}
  OBVIOUS
<1>2. ASSUME NEW x \in Int, NEW y \in Nat \ {0}
      PROVE  x \div y \in Int /\ y * (x \div y) <= x /\ x < y * (x \div y) + y
  BY <1>2, SMT
<1> HIDE DEF a, b
<1>3. a \div b \in Int /\ b * (a \div b) <= a /\ a < b * (a \div b) + b
  BY <1>1, <1>2
<1> QED
  BY <1>3 DEF Round, a, b

(* A hundredth of a whole number, rounded. *)
LEMMA RoundPercent ==
    ASSUME NEW n \in Int
    PROVE  /\ Round(n, 100) \in Int
           /\ n >= 0 => Round(n, 100) >= 0
  BY SMT DEF Round

(* A share of at most all of a number is at most the number. *)
LEMMA ShareAtMost ==
    ASSUME NEW n \in Nat, NEW p \in 0..100
    PROVE  Round(n * p, 100) \in Nat /\ Round(n * p, 100) <= n
<1>1. n * p \in Nat /\ n * p <= 100 * n
  BY SMT
<1> DEFINE x == n * p
<1> HIDE DEF x
<1>2. x \in Nat /\ x <= 100 * n => Round(x, 100) \in Nat /\ Round(x, 100) <= n
  BY SMT DEF Round
<1> QED
  BY <1>1, <1>2 DEF x

-----------------------------------------------------------------------------
(* Prices. *)

(* What the distance costs is a natural number. *)
LEMMA DistancePartType ==
    ASSUME NEW c \in Config, NEW o \in Order
    PROVE  DistancePart(c, o) \in Nat
<1>1. /\ c.baseDeliveryFee \in Nat /\ c.pricePerKm \in Nat /\ o.distance \in Nat
  BY DEF Config, Order
<1>2. o.distance * c.pricePerKm \in Nat
  BY <1>1, SMT
<1> DEFINE x == o.distance * c.pricePerKm
<1> HIDE DEF x
<1>3. x \in Nat => Round(x, 10) \in Nat
  BY SMT DEF Round
<1> QED
  BY <1>1, <1>2, <1>3 DEF DistancePart, x

(* The limits of the config keep the subtotal from being negative, whatever*)
(* the multipliers take away from the base.                                *)
LEMMA SubtotalType ==
    ASSUME NEW c \in Config, NEW o \in Order, NEW t \in TimePricing
    PROVE  Subtotal(c, o, t) \in Nat
<1>1. \A b \in Int, m \in Int : Share(b, m) \in Int
  <2> SUFFICES ASSUME NEW b \in Int, NEW m \in Int PROVE Share(b, m) \in Int
    OBVIOUS
  <2>1. b * (m - 100) \in Int
    BY SMT
  <2> QED
    BY <2>1, RoundPercent DEF Share
<1>2. PreMultiplierBase(c, o, t) \in Int
  BY DistancePartType DEF PreMultiplierBase, Order, TimePricing
<1>3. /\ o.category \in Int /\ o.zone \in Int /\ t.priceMultiplier \in Int
      /\ c.interZoneMultiplier \in Int
  BY DEF Order, TimePricing, Config
<1> DEFINE b == PreMultiplierBase(c, o, t)
           inter == IF o.interZone THEN Share(b, c.interZoneMultiplier) ELSE 0
<1>4. Multiplied(c, o, t) \in Int
  <2>1. /\ Share(b, o.category) \in Int /\ Share(b, o.zone) \in Int
        /\ Share(b, t.priceMultiplier) \in Int /\ Share(b, c.interZoneMultiplier) \in Int
    BY <1>1, <1>2, <1>3
  <2>2. Multiplied(c, o, t) = b + Share(b, o.category) + Share(b, o.zone)
                                + Share(b, t.priceMultiplier) + inter
    BY DEF Multiplied
  <2>3. inter \in Int
    BY <2>1
  <2> HIDE DEF b, inter
  <2>4. b \in Int
    BY <1>2 DEF b
  <2> QED
    BY <2>1, <2>2, <2>3, <2>4
<1>5. /\ c.minimumDeliveryFee \in Nat /\ c.maximumDeliveryFee \in Nat
      /\ c.fctDevelopmentLevy \in Nat
  BY DEF Config
<1> QED
  BY <1>4, <1>5 DEF Subtotal, Limit, AtLeast, AtMost

(* The service fee is a natural number. *)
LEMMA ServiceFeeType ==
    ASSUME NEW c \in Config, NEW o \in Order
    PROVE  ServiceFee(c, o) \in Nat
<1>1. DistancePart(c, o) * c.serviceFeePercentage \in Nat
  BY DistancePartType, SMT DEF Config
<1>2. Round(DistancePart(c, o) * c.serviceFeePercentage, 100) \in Nat
  BY <1>1, RoundPercent
<1>3. c.minimumServiceFee \in Nat /\ c.maximumServiceFee \in Nat
  BY DEF Config
<1> QED
  BY <1>2, <1>3 DEF ServiceFee, Limit, AtLeast, AtMost

(* A discount never exceeds the price it is used on. *)
LEMMA DiscountBounds ==
    ASSUME NEW coupon \in Coupon, NEW s \in Nat
    PROVE  Discount(coupon, s) \in 0..s
<1>1. coupon.value \in Nat /\ coupon.maxDiscountAmount \in Nat
  BY DEF Coupon
<1>2. s * coupon.value \in Nat
  BY <1>1, SMT
<1>3. Round(s * coupon.value, 100) \in Nat
  BY <1>2, RoundPercent
<1>4. Limit(Round(s * coupon.value, 100), coupon.maxDiscountAmount) \in Nat
  BY <1>1, <1>3 DEF Limit, AtMost
<1>5. CASE coupon.type = "none"
  BY <1>5 DEF Discount, AtMost
<1>6. CASE coupon.type = "percentage"
  BY <1>4, <1>6 DEF Discount, AtMost
<1>7. CASE coupon.type = "fixed"
  BY <1>1, <1>7 DEF Discount, AtMost
<1> QED
  BY <1>5, <1>6, <1>7 DEF Coupon

(* Every price is well formed: its parts are not negative and add up, and  *)
(* the rider's earnings stay below the total or are the least of the       *)
(* config.                                                                 *)
LEMMA PricingIsSound ==
    ASSUME NEW c \in Config, NEW o \in Order, NEW t \in TimePricing
    PROVE  LET p == Pricing(c, o, t)
           IN /\ p \in PricingType
              /\ p.totalPrice + p.discountAmount = p.subtotal + p.serviceFee
              /\ p.serviceFee <= p.totalPrice
              /\ p.riderEarnings <= p.totalPrice \/ p.riderEarnings = c.minimumRiderPayout
              /\ p.timeMultiplier = t.priceMultiplier
<1> DEFINE s == Subtotal(c, o, t)
           f == ServiceFee(c, o)
           d == Discount(o.coupon, s)
           total == s + f - d
<1>1. s \in Nat /\ f \in Nat
  BY SubtotalType, ServiceFeeType
<1>2. d \in 0..s
  BY <1>1, DiscountBounds DEF Order
<1> HIDE DEF s, f, d
<1>3. total \in Nat /\ f <= total /\ total + d = s + f
  BY <1>1, <1>2
<1>4. c.riderCommissionPercentage \in 0..100 /\ c.minimumRiderPayout \in Nat
  BY DEF Config
<1> HIDE DEF total
<1>5. /\ RiderEarnings(c, total) \in Nat
      /\ RiderEarnings(c, total) <= total \/ RiderEarnings(c, total) = c.minimumRiderPayout
  BY <1>3, <1>4, ShareAtMost DEF RiderEarnings, AtLeast
<1>6. t.priceMultiplier \in Nat
  BY DEF TimePricing
<1>7. Pricing(c, o, t) = [subtotal |-> s, serviceFee |-> f, discountAmount |-> d,
                          totalPrice |-> total, riderEarnings |-> RiderEarnings(c, total),
                          timeMultiplier |-> t.priceMultiplier]
  BY DEF Pricing, s, f, d, total
<1> QED
  BY <1>1, <1>2, <1>3, <1>5, <1>6, <1>7 DEF PricingType

-----------------------------------------------------------------------------
(* Sequences whose elements are replaced one at a time or that grow. *)

(* A sequence that grew by an element x. *)
LEMMA AppendGood ==
    ASSUME NEW S, NEW s \in Seq(S), NEW x \in S
    PROVE  /\ Append(s, x) \in Seq(S)
           /\ DOMAIN s \subseteq DOMAIN Append(s, x)
           /\ DOMAIN Append(s, x) = DOMAIN s \union {Len(s) + 1}
           /\ Len(s) + 1 \in Nat
           /\ Len(s) + 1 \notin DOMAIN s
           /\ \A i \in DOMAIN s : Append(s, x)[i] = s[i]
           /\ Append(s, x)[Len(s) + 1] = x
<1>1. Len(s) \in Nat /\ DOMAIN s = 1..Len(s)
  BY LenProperties
<1>2. /\ Append(s, x) \in Seq(S) /\ Len(Append(s, x)) = Len(s) + 1
      /\ \A i \in 1..Len(s) : Append(s, x)[i] = s[i]
      /\ Append(s, x)[Len(s) + 1] = x
  BY AppendProperties
<1>3. DOMAIN Append(s, x) = 1..(Len(s) + 1)
  BY <1>2, LenProperties
<1> QED
  BY <1>1, <1>2, <1>3

(* A sequence whose i-th element was replaced by x. *)
LEMMA ExceptGood ==
    ASSUME NEW S, NEW s \in Seq(S), NEW i \in DOMAIN s, NEW x \in S
    PROVE  LET t == [s EXCEPT ![i] = x]
           IN /\ t \in Seq(S) /\ DOMAIN t = DOMAIN s /\ t[i] = x
              /\ \A j \in DOMAIN s \ {i} : t[j] = s[j]
  BY ExceptSeq, LenProperties

(* The indices and the elements of a sequence. *)
LEMMA Indices ==
    ASSUME NEW S, NEW s \in Seq(S)
    PROVE  /\ DOMAIN s \subseteq Nat
           /\ \A i \in DOMAIN s : s[i] \in S
  BY LenProperties, ElementOfSeq

-----------------------------------------------------------------------------
(* The inductive invariant. *)

(* What a request holds while it is under way: the documents it works on   *)
(* exist, and the time it moves a delivery to is paid for.                 *)
Good(r, cs, ds) ==
    /\ r.at = "price" => r.order \in Orders /\ r.time \in Times
    /\ r.at \in Activating => r.doc \in DOMAIN cs
    /\ r.at \in Rescheduling => r.doc \in DOMAIN ds /\ r.time \in Times /\ r.from \in Times
    /\ r.at \in {"remember", "move"} => Pays(ds[r.doc].pricing, r.covers)

RequestsGood == \A q \in Requests : Good(req[q], configs, deliveries)

PriceGood(d) ==
    /\ d.pricing.totalPrice + d.pricing.discountAmount = d.pricing.subtotal + d.pricing.serviceFee
    /\ d.pricing.serviceFee <= d.pricing.totalPrice
    /\ \/ d.pricing.riderEarnings <= d.pricing.totalPrice
       \/ \E c \in Configs : d.pricing.riderEarnings = c.minimumRiderPayout
    /\ Pays(d.pricing, d.covered)

DeliveriesGood == \A d \in DOMAIN deliveries : PriceGood(deliveries[d])

BookingInv == TypeOK /\ RequestsGood /\ DeliveriesGood

(* Documents that are added, or changed without their price, disturb no    *)
(* request.                                                                *)
LEMMA StaysGood ==
    ASSUME NEW r, NEW cs, NEW ds, NEW cs2, NEW ds2, Good(r, cs, ds),
           DOMAIN cs \subseteq DOMAIN cs2, DOMAIN ds \subseteq DOMAIN ds2,
           \A d \in DOMAIN ds : ds2[d].pricing = ds[d].pricing
    PROVE  Good(r, cs2, ds2)
<1>1. r.at \in {"remember", "move"} => r.at \in Rescheduling
  BY DEF Rescheduling
<1> QED
  BY <1>1 DEF Good

(* A request that has nothing to do. *)
LEMMA IdleGood ==
    /\ Idle \in RequestType
    /\ \A cs, ds : Good(Idle, cs, ds)
<1>1. NoConfig \in Configs /\ NoOrder \in Orders
  BY BookingAssumption DEF NoConfig, NoOrder
<1> QED
  BY <1>1 DEF Idle, RequestType, Good, Activating, Rescheduling

(* A request goes on as x, and the documents that the others work on stay. *)
LEMMA RequestStep ==
    ASSUME BookingInv, NEW q \in Requests, NEW x \in RequestType,
           req' = [req EXCEPT ![q] = x], Good(x, configs', deliveries'),
           DOMAIN configs \subseteq DOMAIN configs',
           DOMAIN deliveries \subseteq DOMAIN deliveries',
           \A d \in DOMAIN deliveries : deliveries'[d].pricing = deliveries[d].pricing
    PROVE  req' \in [Requests -> RequestType] /\ RequestsGood'
<1>1. req \in [Requests -> RequestType]
  BY DEF BookingInv, TypeOK
<1>2. req' \in [Requests -> RequestType]
  BY <1>1
<1>3. ASSUME NEW p \in Requests PROVE Good(req'[p], configs', deliveries')
  <2>1. CASE p = q
    BY <1>1, <2>1
  <2>2. CASE p # q
    <3>1. req'[p] = req[p] /\ Good(req[p], configs, deliveries)
      BY <1>1, <2>2 DEF BookingInv, RequestsGood
    <3> QED
      BY <3>1, StaysGood
  <2> QED
    BY <2>1, <2>2
<1> QED
  BY <1>2, <1>3 DEF RequestsGood

(* The requests stay as they are, but for whether they are alone. *)
LEMMA RequestsStay ==
    ASSUME BookingInv, req' \in [Requests -> RequestType],
           \A p \in Requests : \E b \in BOOLEAN : req'[p] = [req[p] EXCEPT !.alone = b],
           DOMAIN configs \subseteq DOMAIN configs',
           DOMAIN deliveries \subseteq DOMAIN deliveries',
           \A d \in DOMAIN deliveries : deliveries'[d].pricing = deliveries[d].pricing
    PROVE  RequestsGood'
<1>1. ASSUME NEW p \in Requests PROVE Good(req'[p], configs', deliveries')
  <2>1. Good(req[p], configs', deliveries')
    BY StaysGood DEF BookingInv, RequestsGood
  <2>2. req[p] \in RequestType
    BY DEF BookingInv, TypeOK
  <2>3. PICK b \in BOOLEAN : req'[p] = [req[p] EXCEPT !.alone = b]
    OBVIOUS
  <2>4. /\ req'[p].at = req[p].at /\ req'[p].order = req[p].order
        /\ req'[p].time = req[p].time /\ req'[p].doc = req[p].doc
        /\ req'[p].from = req[p].from /\ req'[p].covers = req[p].covers
    BY <2>2, <2>3 DEF RequestType
  <2> QED
    BY <2>1, <2>4 DEF Good
<1> QED
  BY <1>1 DEF RequestsGood

(* No request goes on, and the documents they work on stay. *)
LEMMA SameRequests ==
    ASSUME BookingInv, req' = req,
           DOMAIN configs \subseteq DOMAIN configs',
           DOMAIN deliveries \subseteq DOMAIN deliveries',
           \A d \in DOMAIN deliveries : deliveries'[d].pricing = deliveries[d].pricing
    PROVE  req' \in [Requests -> RequestType] /\ RequestsGood'
<1>1. ASSUME NEW p \in Requests PROVE Good(req'[p], configs', deliveries')
  <2>1. Good(req[p], configs', deliveries')
    BY StaysGood DEF BookingInv, RequestsGood
  <2> QED
    BY <2>1
<1> QED
  BY <1>1 DEF BookingInv, TypeOK, RequestsGood

(* An activation begins as x. *)
LEMMA BeginStep ==
    ASSUME BookingInv, NEW q \in Requests, NEW x \in RequestType,
           BeginActivating(q, x), Good(x, configs', deliveries'),
           DOMAIN configs \subseteq DOMAIN configs',
           DOMAIN deliveries \subseteq DOMAIN deliveries',
           \A d \in DOMAIN deliveries : deliveries'[d].pricing = deliveries[d].pricing
    PROVE  req' \in [Requests -> RequestType] /\ RequestsGood' /\ unsettled' \in BOOLEAN
<1>1. req \in [Requests -> RequestType] /\ unsettled \in BOOLEAN
  BY DEF BookingInv, TypeOK
<1> DEFINE y == [x EXCEPT !.alone = (Others(q, Activating) = {})]
<1>2. y \in RequestType
  BY DEF RequestType
<1>3. \A p \in Requests : [req[p] EXCEPT !.alone = FALSE] \in RequestType
  BY <1>1 DEF RequestType
<1>4. req' = [p \in Requests |-> IF p = q THEN y ELSE [req[p] EXCEPT !.alone = FALSE]]
  BY DEF BeginActivating
<1>5. req' \in [Requests -> RequestType]
  BY <1>2, <1>3, <1>4
<1>6. Good(y, configs', deliveries')
  <2>1. /\ y.at = x.at /\ y.order = x.order /\ y.time = x.time /\ y.doc = x.doc
        /\ y.from = x.from /\ y.covers = x.covers
    BY DEF RequestType
  <2> QED
    BY <2>1 DEF Good
<1>7. ASSUME NEW p \in Requests PROVE Good(req'[p], configs', deliveries')
  <2>1. CASE p = q
    BY <1>4, <1>6, <2>1
  <2>2. CASE p # q
    <3>1. req[p] \in RequestType /\ Good(req[p], configs', deliveries')
      BY <1>1, StaysGood DEF BookingInv, RequestsGood
    <3>2. req'[p] = [req[p] EXCEPT !.alone = FALSE]
      BY <1>4, <2>2
    <3>3. /\ req'[p].at = req[p].at /\ req'[p].order = req[p].order
          /\ req'[p].time = req[p].time /\ req'[p].doc = req[p].doc
          /\ req'[p].from = req[p].from /\ req'[p].covers = req[p].covers
      BY <3>1, <3>2 DEF RequestType
    <3> QED
      BY <3>1, <3>3 DEF Good
  <2> QED
    BY <2>1, <2>2
<1>8. unsettled' \in BOOLEAN
  BY <1>1 DEF BeginActivating
<1> QED
  BY <1>5, <1>7, <1>8 DEF RequestsGood

(* The configs change and the deliveries do not. *)
LEMMA SameDeliveries ==
    ASSUME BookingInv, UNCHANGED <<deliveries, muddled, late>>
    PROVE  /\ DeliveriesGood'
           /\ deliveries' \in Seq(DeliveryType)
           /\ muddled' \subseteq DOMAIN deliveries' /\ late' \subseteq DOMAIN deliveries'
           /\ DOMAIN deliveries \subseteq DOMAIN deliveries'
           /\ \A d \in DOMAIN deliveries : deliveries'[d].pricing = deliveries[d].pricing
  BY DEF BookingInv, TypeOK, DeliveriesGood

(* A delivery becomes x, at the price it had. *)
LEMMA DeliveryStep ==
    ASSUME BookingInv, NEW d \in DOMAIN deliveries, NEW x \in DeliveryType,
           deliveries' = [deliveries EXCEPT ![d] = x],
           x.pricing = deliveries[d].pricing, Pays(x.pricing, x.covered)
    PROVE  /\ DeliveriesGood'
           /\ deliveries' \in Seq(DeliveryType)
           /\ DOMAIN deliveries' = DOMAIN deliveries
           /\ \A e \in DOMAIN deliveries : deliveries'[e].pricing = deliveries[e].pricing
<1>1. deliveries \in Seq(DeliveryType)
  BY DEF BookingInv, TypeOK
<1>2. /\ deliveries' \in Seq(DeliveryType) /\ DOMAIN deliveries' = DOMAIN deliveries
      /\ deliveries'[d] = x /\ \A e \in DOMAIN deliveries \ {d} : deliveries'[e] = deliveries[e]
  BY <1>1, ExceptGood
<1>3. ASSUME NEW e \in DOMAIN deliveries' PROVE PriceGood(deliveries'[e])
  <2>1. PriceGood(deliveries[e])
    BY <1>2 DEF BookingInv, DeliveriesGood
  <2>2. CASE e = d
    BY <1>2, <2>1, <2>2 DEF PriceGood
  <2> QED
    BY <1>2, <2>1, <2>2
<1> QED
  BY <1>2, <1>3 DEF DeliveriesGood

(* The configs and the price of the times stay. *)
LEMMA SameConfigs ==
    ASSUME BookingInv, UNCHANGED <<configs, tariff>>
    PROVE  /\ configs' \in Seq(ConfigType) /\ tariff' \in [Times \union Catalog -> TimePricings]
           /\ DOMAIN configs \subseteq DOMAIN configs'
  BY DEF BookingInv, TypeOK

(* The bound on the requests served. *)
LEMMA ServeType ==
    ASSUME TypeOK, Serve
    PROVE  served' \in 0..MaxServed
  BY BookingAssumption DEF TypeOK, Serve

-----------------------------------------------------------------------------
(* Every action keeps the invariant. *)

(* The invariant holds at first. *)
LEMMA InitInv == Init => BookingInv
<1> SUFFICES ASSUME Init PROVE BookingInv
  OBVIOUS
<1>1. PICK c \in Configs : configs = <<[terms |-> c, isActive |-> TRUE]>>
  BY DEF Init
<1>2. configs \in Seq(ConfigType)
  BY <1>1 DEF ConfigType
<1>3. deliveries \in Seq(DeliveryType) /\ DOMAIN deliveries = {}
  BY DEF Init
<1>4. req \in [Requests -> RequestType]
  BY IdleGood DEF Init
<1>5. TypeOK
  <2>1. MaxServed \in Nat /\ MaxFaults \in Nat
    BY BookingAssumption
  <2>2. served \in 0..MaxServed /\ faults \in 0..MaxFaults
    BY <2>1 DEF Init
  <2>3. /\ tariff \in [Times \union Catalog -> TimePricings] /\ muddled = {} /\ late = {}
        /\ unsettled \in BOOLEAN /\ withdrawn \in BOOLEAN
    BY BookingAssumption DEF Init
  <2> QED
    BY <1>2, <1>3, <1>4, <2>2, <2>3 DEF TypeOK
<1>6. RequestsGood
  BY IdleGood DEF Init, RequestsGood
<1>7. DeliveriesGood
  BY <1>3 DEF DeliveriesGood
<1> QED
  BY <1>5, <1>6, <1>7 DEF BookingInv

(* A request ends. *)
LEMMA FinishStep ==
    ASSUME BookingInv, NEW q \in Requests, Finish(q),
           DOMAIN configs \subseteq DOMAIN configs',
           DOMAIN deliveries \subseteq DOMAIN deliveries',
           \A d \in DOMAIN deliveries : deliveries'[d].pricing = deliveries[d].pricing
    PROVE  req' \in [Requests -> RequestType] /\ RequestsGood'
  BY IdleGood, RequestStep DEF Finish

(* The other configs of one are switched off. *)
LEMMA OnlyType ==
    ASSUME TypeOK, NEW i
    PROVE  Only(i) \in Seq(ConfigType) /\ DOMAIN Only(i) = DOMAIN configs
<1>1. configs \in Seq(ConfigType)
  BY DEF TypeOK
<1>2. DOMAIN configs = 1..Len(configs) /\ Len(configs) \in Nat
  BY <1>1, LenProperties
<1>3. \A j \in 1..Len(configs) : Only(i)[j] \in ConfigType
  <2> SUFFICES ASSUME NEW j \in 1..Len(configs) PROVE Only(i)[j] \in ConfigType
    OBVIOUS
  <2>1. configs[j] \in ConfigType
    BY <1>1, ElementOfSeq
  <2>2. [configs[j] EXCEPT !.isActive = FALSE] \in ConfigType
    BY <2>1 DEF ConfigType
  <2> QED
    BY <1>2, <2>1, <2>2 DEF Only
<1>4. Only(i) = [j \in 1..Len(configs) |-> Only(i)[j]]
  BY <1>2 DEF Only
<1> QED
  BY <1>2, <1>3, <1>4, IsASeq DEF Only

(* An admin creates a config: the index it got is that of a document. *)
LEMMA CreatePricingConfigInv ==
    ASSUME BookingInv, NEW q \in Requests, NEW c \in Configs, CreatePricingConfig(q, c)
    PROVE  BookingInv'
<1> USE DEF CreatePricingConfig
<1> DEFINE new == [terms |-> c, isActive |-> TRUE]
           x   == [Idle EXCEPT !.at = "others", !.doc = Len(configs) + 1]
<1>1. new \in ConfigType /\ configs \in Seq(ConfigType) /\ configs' = Append(configs, new)
  BY DEF ConfigType, BookingInv, TypeOK
<1>2. /\ configs' \in Seq(ConfigType) /\ DOMAIN configs \subseteq DOMAIN configs'
      /\ Len(configs) + 1 \in DOMAIN configs' /\ Len(configs) + 1 \in Nat
  <2> HIDE DEF CreatePricingConfig, new
  <2> QED
    BY <1>1, AppendGood
<1>3. x \in RequestType
  BY <1>2, IdleGood DEF RequestType, Activating
<1>4. Good(x, configs', deliveries')
  BY <1>2 DEF Good, Idle, Activating, Rescheduling
<1>5. BeginActivating(q, x) /\ UNCHANGED <<deliveries, muddled, late>>
  OBVIOUS
<1> HIDE DEF x
<1>6. req' \in [Requests -> RequestType] /\ RequestsGood' /\ unsettled' \in BOOLEAN
  BY <1>2, <1>3, <1>4, <1>5, SameDeliveries, BeginStep
<1>7. served' \in 0..MaxServed
  BY ServeType DEF BookingInv
<1> QED
  BY <1>2, <1>5, <1>6, <1>7, SameDeliveries DEF BookingInv, TypeOK

(* An admin activates a config. *)
LEMMA StartActivationInv ==
    ASSUME BookingInv, NEW q \in Requests, NEW i \in DOMAIN configs, StartActivation(q, i)
    PROVE  BookingInv'
<1> USE DEF StartActivation
<1> DEFINE x == [Idle EXCEPT !.at = "deactivate", !.doc = i]
<1>1. configs \in Seq(ConfigType) /\ i \in Nat
  BY Indices DEF BookingInv, TypeOK
<1>2. UNCHANGED <<configs, tariff, deliveries, muddled, late, faults, withdrawn>>
  BY DEF docs
<1>3. x \in RequestType
  BY <1>1, IdleGood DEF RequestType, Activating
<1>4. Good(x, configs', deliveries')
  BY <1>2 DEF Good, Idle, Activating, Rescheduling
<1>5. BeginActivating(q, x)
  OBVIOUS
<1> HIDE DEF x
<1>6. req' \in [Requests -> RequestType] /\ RequestsGood' /\ unsettled' \in BOOLEAN
  BY <1>2, <1>3, <1>4, <1>5, SameDeliveries, SameConfigs, BeginStep
<1>7. served' \in 0..MaxServed
  BY ServeType DEF BookingInv
<1> QED
  BY <1>2, <1>6, <1>7, SameDeliveries, SameConfigs DEF BookingInv, TypeOK

(* The second update of a creation. *)
LEMMA DeactivateOthersInv ==
    ASSUME BookingInv, NEW q \in Requests, DeactivateOthers(q)
    PROVE  BookingInv'
<1> USE DEF DeactivateOthers
<1>1. configs' \in Seq(ConfigType) /\ DOMAIN configs \subseteq DOMAIN configs'
  BY OnlyType DEF BookingInv
<1>2. req' \in [Requests -> RequestType] /\ RequestsGood'
  BY <1>1, FinishStep, SameDeliveries
<1>3. unsettled' \in BOOLEAN /\ withdrawn' \in BOOLEAN
  BY DEF Activated, BookingInv, TypeOK
<1> QED
  BY <1>1, <1>2, <1>3, SameDeliveries DEF BookingInv, TypeOK

(* The first update of an activation. *)
LEMMA DeactivateFirstInv ==
    ASSUME BookingInv, NEW q \in Requests, DeactivateFirst(q)
    PROVE  BookingInv'
<1> USE DEF DeactivateFirst
<1> DEFINE x == [req[q] EXCEPT !.at = "activate"]
<1>1. configs' \in Seq(ConfigType) /\ DOMAIN configs' = DOMAIN configs
  BY OnlyType DEF BookingInv
<1>2. req[q] \in RequestType /\ req[q].doc \in DOMAIN configs
  BY DEF BookingInv, TypeOK, RequestsGood, Good, At, Activating
<1>3. x \in RequestType /\ x.at = "activate" /\ x.doc = req[q].doc
  BY <1>2 DEF RequestType, Activating
<1>4. Good(x, configs', deliveries')
  BY <1>1, <1>2, <1>3 DEF Good, Rescheduling
<1>5. req' = [req EXCEPT ![q] = x]
  OBVIOUS
<1>6. UNCHANGED <<tariff, deliveries, muddled, late, served, faults, unsettled, withdrawn>>
  BY DEF history
<1> HIDE DEF x
<1>7. req' \in [Requests -> RequestType] /\ RequestsGood'
  BY <1>1, <1>3, <1>4, <1>5, <1>6, SameDeliveries, RequestStep
<1> QED
  BY <1>1, <1>6, <1>7, SameDeliveries DEF BookingInv, TypeOK

(* One config changes. *)
LEMMA ConfigStep ==
    ASSUME BookingInv, NEW i \in DOMAIN configs, NEW x \in ConfigType,
           configs' = [configs EXCEPT ![i] = x]
    PROVE  configs' \in Seq(ConfigType) /\ DOMAIN configs' = DOMAIN configs
  BY ExceptGood DEF BookingInv, TypeOK

(* The second update of an activation. *)
LEMMA ActivateInv ==
    ASSUME BookingInv, NEW q \in Requests, Activate(q)
    PROVE  BookingInv'
<1> USE DEF Activate
<1> DEFINE i == req[q].doc
           x == [configs[i] EXCEPT !.isActive = TRUE]
<1>1. i \in DOMAIN configs
  BY DEF BookingInv, RequestsGood, Good, At, Activating
<1>2. configs[i] \in ConfigType
  BY <1>1, Indices DEF BookingInv, TypeOK
<1>3. x \in ConfigType /\ configs' = [configs EXCEPT ![i] = x]
  BY <1>2 DEF ConfigType
<1>4. configs' \in Seq(ConfigType) /\ DOMAIN configs' = DOMAIN configs
  BY <1>1, <1>3, ConfigStep
<1>5. req' \in [Requests -> RequestType] /\ RequestsGood'
  BY <1>4, FinishStep, SameDeliveries
<1>6. unsettled' \in BOOLEAN /\ withdrawn' \in BOOLEAN
  BY DEF Activated, BookingInv, TypeOK
<1> QED
  BY <1>4, <1>5, <1>6, SameDeliveries DEF BookingInv, TypeOK

(* An admin changes the terms of a config: prices that were made stay. *)
LEMMA SetTermsInv ==
    ASSUME BookingInv, NEW i \in DOMAIN configs, NEW c \in Configs, SetTerms(i, c)
    PROVE  BookingInv'
<1> USE DEF SetTerms
<1> DEFINE x == [configs[i] EXCEPT !.terms = c]
<1>1. configs[i] \in ConfigType
  BY Indices DEF BookingInv, TypeOK
<1>2. x \in ConfigType /\ configs' = [configs EXCEPT ![i] = x]
  BY <1>1 DEF ConfigType
<1>3. configs' \in Seq(ConfigType) /\ DOMAIN configs' = DOMAIN configs
  BY <1>2, ConfigStep
<1>4. req' = req /\ req' \in [Requests -> RequestType]
  BY DEF BookingInv, TypeOK
<1>5. RequestsGood'
  BY <1>3, <1>4, SameDeliveries, SameRequests
<1>6. served' \in 0..MaxServed
  BY ServeType DEF BookingInv
<1> QED
  BY <1>3, <1>4, <1>5, <1>6, SameDeliveries DEF BookingInv, TypeOK

(* An admin deactivates a config. *)
LEMMA DeactivateInv ==
    ASSUME BookingInv, NEW i \in DOMAIN configs, Deactivate(i)
    PROVE  BookingInv'
<1> USE DEF Deactivate
<1> DEFINE x == [configs[i] EXCEPT !.isActive = FALSE]
<1>1. configs[i] \in ConfigType
  BY Indices DEF BookingInv, TypeOK
<1>2. x \in ConfigType /\ configs' = [configs EXCEPT ![i] = x]
  BY <1>1 DEF ConfigType
<1>3. configs' \in Seq(ConfigType) /\ DOMAIN configs' = DOMAIN configs
  BY <1>2, ConfigStep
<1>4. \A p \in Requests : [req[p] EXCEPT !.alone = FALSE] \in RequestType
  <2>1. \A r \in RequestType : [r EXCEPT !.alone = FALSE] \in RequestType
    BY DEF RequestType
  <2>2. \A p \in Requests : req[p] \in RequestType
    BY DEF BookingInv, TypeOK
  <2> QED
    BY <2>1, <2>2
<1>5. req' \in [Requests -> RequestType]
  BY <1>4
<1>6. \A p \in Requests : \E b \in BOOLEAN : req'[p] = [req[p] EXCEPT !.alone = b]
  OBVIOUS
<1>7. RequestsGood'
  BY <1>3, <1>5, <1>6, SameDeliveries, RequestsStay
<1>8. served' \in 0..MaxServed
  BY ServeType DEF BookingInv
<1> QED
  BY <1>3, <1>5, <1>7, <1>8, SameDeliveries DEF BookingInv, TypeOK

(* Whatever table an admin changes, it is a change of one entry.           *)
LEMMA TableChanges ==
    TimeTable \/ ZoneTable \/ CatalogTables
        => \E x \in Times \union Catalog : \E p \in TimePricings : ChangeTable(x, p)
  BY DEF TimeTable, ZoneTable, CatalogTables, ChangeTimePricing, ChangeZone, ChangeCategory,
     ChangeHandling, Catalog

(* An admin changes a table: what a delivery holds stays paid.             *)
LEMMA ChangeTableInv ==
    ASSUME BookingInv, NEW t \in Times \union Catalog, NEW p \in TimePricings, ChangeTable(t, p)
    PROVE  BookingInv'
<1> USE DEF ChangeTable
<1>1. tariff' \in [Times \union Catalog -> TimePricings]
  BY DEF BookingInv, TypeOK
<1>2. UNCHANGED <<configs, deliveries, req, faults, muddled, late, unsettled, withdrawn>>
  OBVIOUS
<1>3. RequestsGood'
  BY <1>2 DEF BookingInv, RequestsGood
<1>4. served' \in 0..MaxServed
  BY ServeType DEF BookingInv
<1> QED
  BY <1>1, <1>2, <1>3, <1>4, SameDeliveries DEF BookingInv, TypeOK

(* A customer books: the terms are those of a config. *)
LEMMA StartRequestInv ==
    ASSUME BookingInv, NEW q \in Requests, NEW o \in Orders, NEW t \in Times,
           StartRequest(q, o, t)
    PROVE  BookingInv'
<1>1. PICK i \in Active : Begin(q, [Idle EXCEPT !.at = "price", !.terms = configs[i].terms,
                                                !.order = o, !.time = t])
  BY DEF StartRequest
<1> DEFINE x == [Idle EXCEPT !.at = "price", !.terms = configs[i].terms, !.order = o, !.time = t]
<1>2. configs[i] \in ConfigType
  BY Indices DEF BookingInv, TypeOK, Active
<1>3. x \in RequestType
  BY <1>2, IdleGood DEF RequestType, ConfigType
<1>4. Good(x, configs', deliveries')
  BY DEF Good, Idle, Activating, Rescheduling
<1>5. req' = [req EXCEPT ![q] = x]
  BY <1>1 DEF Begin
<1>6. UNCHANGED <<configs, tariff, deliveries, faults, muddled, late, unsettled, withdrawn>>
  BY DEF StartRequest, docs
<1> HIDE DEF x
<1>7. req' \in [Requests -> RequestType] /\ RequestsGood'
  BY <1>3, <1>4, <1>5, <1>6, SameDeliveries, SameConfigs, RequestStep
<1>8. served' \in 0..MaxServed
  BY ServeType DEF BookingInv, StartRequest
<1> QED
  BY <1>6, <1>7, <1>8, SameDeliveries, SameConfigs DEF BookingInv, TypeOK

(* What the tables say of an order is an order that has a price.           *)
LEMMA LookUpType ==
    ASSUME TypeOK, NEW o \in Orders
    PROVE  LookUp(o) \in Order
<1>1. /\ o \in Parcel
      /\ tariff \in [Times \union Catalog -> TimePricings] /\ TimePricings \subseteq TimePricing
  BY BookingAssumption DEF TypeOK
<1>2. /\ tariff[o.pickup] \in TimePricing /\ tariff[o.category] \in TimePricing
      /\ tariff[o.handling] \in TimePricing
  BY <1>1 DEF Parcel, Catalog
<1>3. /\ o.distance \in Nat /\ o.coupon \in Coupon
      /\ tariff[o.category].additionalFee + tariff[o.handling].additionalFee \in Nat
      /\ CategoryMultiplier(o.category) \in Nat /\ tariff[o.pickup].priceMultiplier \in Nat
  BY <1>1, <1>2 DEF Parcel, TimePricing, CategoryMultiplier
<1>4. IsInterZone(o) \in BOOLEAN
  BY DEF IsInterZone
<1> QED
  BY <1>3, <1>4 DEF LookUp, ZoneAt, Order

(* A delivery is saved at the price of the terms that were read and of the *)
(* tables as they are now.                                                 *)
LEMMA CreateDeliveryRequestInv ==
    ASSUME BookingInv, NEW q \in Requests, CreateDeliveryRequest(q)
    PROVE  BookingInv'
<1> DEFINE t == req[q].time
           o == LookUp(req[q].order)
           c == req[q].terms
           pricing == Pricing(c, o, tariff[t])
           x == [pricing |-> pricing, scheduled |-> t, covered |-> pricing.timeMultiplier,
                 canReschedule |-> TRUE, moves |-> <<>>, booked |-> t]
<1>1. /\ t \in Times /\ o \in Order /\ c \in Config /\ c \in Configs
      /\ tariff[t] \in TimePricing
  <2>1. At(q, "price") /\ req[q] \in RequestType
    BY DEF CreateDeliveryRequest, BookingInv, TypeOK
  <2>2. t \in Times /\ o \in Order
    <3>1. t \in Times /\ req[q].order \in Orders
      BY <2>1 DEF At, BookingInv, RequestsGood, Good
    <3> QED
      BY <3>1, LookUpType DEF BookingInv
  <2>3. c \in Configs
    BY <2>1 DEF RequestType
  <2> QED
    BY <2>2, <2>3, BookingAssumption DEF BookingInv, TypeOK
<1>2. deliveries' = Append(deliveries, x)
  BY DEF CreateDeliveryRequest
<1> HIDE DEF t, o, c
<1>3. /\ pricing \in PricingType
      /\ pricing.totalPrice + pricing.discountAmount = pricing.subtotal + pricing.serviceFee
      /\ pricing.serviceFee <= pricing.totalPrice
      /\ \/ pricing.riderEarnings <= pricing.totalPrice
         \/ pricing.riderEarnings = c.minimumRiderPayout
  BY <1>1, PricingIsSound
<1> HIDE DEF pricing
<1>4. x \in DeliveryType
  BY <1>1, <1>3 DEF DeliveryType, PricingType
<1>5. PriceGood(x)
  <2>1. Pays(pricing, pricing.timeMultiplier)
    BY DEF Pays
  <2> QED
    BY <1>1, <1>3, <2>1 DEF PriceGood
<1> HIDE DEF x
<1>6. deliveries \in Seq(DeliveryType)
  BY DEF BookingInv, TypeOK
<1>7. /\ deliveries' \in Seq(DeliveryType)
      /\ DOMAIN deliveries \subseteq DOMAIN deliveries'
      /\ DOMAIN deliveries' = DOMAIN deliveries \union {Len(deliveries) + 1}
      /\ \A d \in DOMAIN deliveries : deliveries'[d] = deliveries[d]
      /\ deliveries'[Len(deliveries) + 1] = x
  BY <1>2, <1>4, <1>6, AppendGood
<1>8. DeliveriesGood'
  BY <1>5, <1>7 DEF DeliveriesGood, BookingInv
<1>9. UNCHANGED <<configs, tariff, history>> /\ Finish(q)
  BY DEF CreateDeliveryRequest
<1>10. req' \in [Requests -> RequestType] /\ RequestsGood'
  BY <1>7, <1>9, SameConfigs, FinishStep
<1> QED
  BY <1>7, <1>8, <1>9, <1>10, SameConfigs DEF BookingInv, TypeOK, history

(* A customer reschedules a delivery. *)
LEMMA StartRescheduleInv ==
    ASSUME BookingInv, NEW q \in Requests, NEW d \in DOMAIN deliveries, NEW t \in Times,
           StartReschedule(q, d, t)
    PROVE  BookingInv'
<1> USE DEF StartReschedule
<1> DEFINE x == [Idle EXCEPT !.at = "slot", !.doc = d, !.time = t,
                             !.from = deliveries[d].scheduled]
<1>1. deliveries[d] \in DeliveryType /\ d \in Nat
  BY Indices DEF BookingInv, TypeOK
<1>2. x \in RequestType
  BY <1>1, IdleGood DEF RequestType, DeliveryType, Rescheduling
<1>3. UNCHANGED <<configs, tariff, deliveries, faults, late, unsettled, withdrawn>>
  BY DEF docs
<1>4. Good(x, configs', deliveries')
  BY <1>1, <1>3 DEF Good, Idle, Activating, Rescheduling, DeliveryType
<1>5. req' = [req EXCEPT ![q] = x]
  BY DEF Begin
<1> HIDE DEF x
<1>6. /\ DOMAIN deliveries \subseteq DOMAIN deliveries'
      /\ \A e \in DOMAIN deliveries : deliveries'[e].pricing = deliveries[e].pricing
      /\ DeliveriesGood' /\ late' \subseteq DOMAIN deliveries'
      /\ deliveries' \in Seq(DeliveryType)
  BY <1>3 DEF BookingInv, DeliveriesGood, TypeOK
<1>7. req' \in [Requests -> RequestType] /\ RequestsGood'
  BY <1>2, <1>3, <1>4, <1>5, <1>6, SameConfigs, RequestStep
<1>8. served' \in 0..MaxServed
  BY ServeType DEF BookingInv
<1>9. muddled' \subseteq DOMAIN deliveries'
  BY <1>3 DEF BookingInv, TypeOK
<1> QED
  BY <1>3, <1>6, <1>7, <1>8, <1>9, SameConfigs DEF BookingInv, TypeOK

(* A time is not dearer than the price, rounded, means that the price pays *)
(* for its multiplier.                                                     *)
LEMMA CheapEnough ==
    ASSUME NEW pricing \in PricingType, NEW t \in TimePricing,
           PriceAt(pricing, t) <= pricing.totalPrice
    PROVE  Pays(pricing, t.priceMultiplier)
<1> DEFINE old == IF pricing.timeMultiplier = 0 THEN 100 ELSE pricing.timeMultiplier
           total == pricing.totalPrice
           m == t.priceMultiplier
<1>1. old \in Nat \ {0} /\ total \in Nat /\ m \in Nat
  BY DEF PricingType, TimePricing
<1>2. CASE t = NoTimePricing
  BY <1>2 DEF Pays
<1>3. CASE t # NoTimePricing
  <2>1. Round(total * m, old) <= total
    BY <1>3 DEF PriceAt
  <2> HIDE DEF old, total, m
  <2>2. total * m \in Nat
    BY <1>1, SMT
  <2> DEFINE n == total * m
             k == Round(n, old)
  <2>3. k \in Int /\ 2 * n + old < 2 * old * k + 2 * old
    BY <1>1, <2>2, RoundSpec
  <2> HIDE DEF k
  <2>4. old * k <= old * total
    <3>1. \A a \in Nat, b \in Int, e \in Nat : b <= e => a * b <= a * e
      BY SMT
    <3> QED
      BY <1>1, <2>1, <2>3, <3>1 DEF k
  <2>5. old * k \in Int /\ old * total \in Int /\ 2 * old * k = 2 * (old * k)
    BY <1>1, <2>3, SMT
  <2>6. 2 * n + old < 2 * (old * total) + 2 * old
    <3> DEFINE u == old * k
               v == old * total
    <3>1. u <= v /\ u \in Int /\ v \in Int /\ 2 * n + old < 2 * u + 2 * old
      BY <2>3, <2>4, <2>5
    <3> HIDE DEF u, v, n
    <3>2. n \in Nat
      BY <2>2 DEF n
    <3>3. 2 * n + old < 2 * v + 2 * old
      BY <1>1, <3>1, <3>2
    <3> QED
      BY <3>3 DEF v
  <2>7. (2 * total + 1) * old = 2 * (old * total) + old /\ 2 * total * m = 2 * n
    BY <1>1, SMT
  <2>8. 2 * n < 2 * (old * total) + old
    <3> DEFINE v == old * total
    <3> HIDE DEF v, n
    <3>1. v \in Int /\ n \in Nat /\ 2 * n + old < 2 * v + 2 * old
      BY <2>2, <2>5, <2>6 DEF v, n
    <3>2. 2 * n < 2 * v + old
      BY <1>1, <3>1
    <3> QED
      BY <3>2 DEF v
  <2>9. 2 * total * m < (2 * total + 1) * old
    BY <2>7, <2>8
  <2> QED
    BY <2>9 DEF Pays, total, m, old
<1> QED
  BY <1>2, <1>3

(* A request that goes on found a time that the delivery's price pays for. *)
LEMMA ReadSlotInv ==
    ASSUME BookingInv, NEW q \in Requests, ReadSlot(q)
    PROVE  BookingInv'
<1> DEFINE r == req[q]
           d == deliveries[r.doc]
           t == tariff[r.time]
           x == [r EXCEPT !.at = "remember", !.covers = t.priceMultiplier]
<1>1. UNCHANGED <<configs, tariff, deliveries, served, faults, muddled, late, unsettled, withdrawn>>
  BY DEF ReadSlot, docs, history
<1>2. /\ r \in RequestType /\ r.doc \in DOMAIN deliveries /\ r.time \in Times /\ r.from \in Times
  BY DEF ReadSlot, At, BookingInv, TypeOK, RequestsGood, Good, Rescheduling
<1>3. d.pricing \in PricingType
  <2>1. deliveries \in Seq(DeliveryType)
    BY DEF BookingInv, TypeOK
  <2>2. d \in DeliveryType
    BY <1>2, <2>1, Indices
  <2> QED
    BY <2>2 DEF DeliveryType
<1>4. t \in TimePricing
  BY <1>2, BookingAssumption DEF BookingInv, TypeOK
<1>5. PriceAt(d.pricing, t) \in Int
  <2> DEFINE old == IF d.pricing.timeMultiplier = 0 THEN 100 ELSE d.pricing.timeMultiplier
  <2>1. old \in Nat \ {0} /\ d.pricing.totalPrice \in Nat /\ t.priceMultiplier \in Nat
    BY <1>3, <1>4 DEF PricingType, TimePricing
  <2>2. d.pricing.totalPrice * t.priceMultiplier \in Int
    BY <2>1, SMT
  <2> HIDE DEF old
  <2>3. Round(d.pricing.totalPrice * t.priceMultiplier, old) \in Int
    BY <2>1, <2>2, RoundSpec
  <2> QED
    BY <2>1, <2>3 DEF PriceAt, old
<1>6. req' \in [Requests -> RequestType] /\ RequestsGood'
  <2>1. CASE Finish(q)
    BY <1>1, <2>1, SameDeliveries, SameConfigs, FinishStep
  <2>2. CASE ~Finish(q)
    <3>1. /\ PriceAt(d.pricing, t) <= d.pricing.totalPrice
          /\ req' = [req EXCEPT ![q].at = "remember", ![q].covers = t.priceMultiplier]
      <4>1. d.pricing.totalPrice \in Int
        BY <1>3 DEF PricingType
      <4> QED
        BY <1>5, <2>2, <4>1 DEF ReadSlot
    <3>2. Pays(d.pricing, t.priceMultiplier)
      BY <1>3, <1>4, <3>1, CheapEnough
    <3>3. req' = [req EXCEPT ![q] = x]
      BY <3>1 DEF BookingInv, TypeOK
    <3>4. /\ x \in RequestType /\ x.at = "remember" /\ x.covers = t.priceMultiplier
          /\ x.doc = r.doc /\ x.time = r.time /\ x.from = r.from
      BY <1>2, <1>4 DEF RequestType, Rescheduling, TimePricing
    <3>5. Good(x, configs', deliveries')
      BY <1>1, <1>2, <3>2, <3>4 DEF Good, Activating
    <3> HIDE DEF x
    <3> QED
      BY <1>1, <3>3, <3>4, <3>5, SameDeliveries, SameConfigs, RequestStep
  <2> QED
    BY <2>1, <2>2
<1> QED
  BY <1>1, <1>6, SameDeliveries, SameConfigs DEF BookingInv, TypeOK

(* The history is written: price and time stay. *)
LEMMA AddRescheduleHistoryInv ==
    ASSUME BookingInv, NEW q \in Requests, AddRescheduleHistory(q)
    PROVE  BookingInv'
<1> DEFINE r == req[q]
           d == r.doc
           x == [r EXCEPT !.at = "move"]
           move == [from |-> r.from, to |-> r.time]
           new == [deliveries[d] EXCEPT !.moves = Append(@, move)]
<1>1. UNCHANGED <<configs, tariff, served, faults, muddled, late, unsettled, withdrawn>>
  BY DEF AddRescheduleHistory, history
<1>2. /\ r \in RequestType /\ d \in DOMAIN deliveries /\ r.time \in Times /\ r.from \in Times
      /\ Pays(deliveries[d].pricing, r.covers)
  BY DEF AddRescheduleHistory, At, BookingInv, TypeOK, RequestsGood, Good, Rescheduling
<1>3. deliveries[d] \in DeliveryType /\ PriceGood(deliveries[d])
  BY <1>2, Indices DEF BookingInv, TypeOK, DeliveriesGood
<1>4. Append(deliveries[d].moves, move) \in Seq(MoveType)
  <2>1. move \in MoveType /\ deliveries[d].moves \in Seq(MoveType)
    BY <1>2, <1>3 DEF MoveType, DeliveryType
  <2> QED
    BY <2>1, AppendGood
<1>5. /\ new \in DeliveryType /\ new.pricing = deliveries[d].pricing
      /\ new.covered = deliveries[d].covered
  BY <1>3, <1>4 DEF DeliveryType
<1>6. deliveries' = [deliveries EXCEPT ![d] = new]
  BY DEF AddRescheduleHistory
<1>7. /\ x \in RequestType /\ x.at = "move" /\ x.covers = r.covers
      /\ x.doc = r.doc /\ x.time = r.time /\ x.from = r.from
  BY <1>2 DEF RequestType, Rescheduling
<1>8. req' = [req EXCEPT ![q] = x]
  BY DEF AddRescheduleHistory
<1> HIDE DEF new, x
<1>9. /\ DeliveriesGood' /\ deliveries' \in Seq(DeliveryType)
      /\ DOMAIN deliveries' = DOMAIN deliveries
      /\ \A e \in DOMAIN deliveries : deliveries'[e].pricing = deliveries[e].pricing
  BY <1>2, <1>3, <1>5, <1>6, DeliveryStep DEF PriceGood
<1>10. Good(x, configs', deliveries')
  BY <1>2, <1>7, <1>9 DEF Good, Activating
<1>11. req' \in [Requests -> RequestType] /\ RequestsGood'
  BY <1>1, <1>7, <1>8, <1>9, <1>10, SameConfigs, RequestStep
<1> QED
  BY <1>1, <1>9, <1>11, SameConfigs DEF BookingInv, TypeOK

(* The time is written, which the request found to be paid for. *)
LEMMA UpdateScheduledTimeInv ==
    ASSUME BookingInv, NEW q \in Requests, UpdateScheduledTime(q)
    PROVE  BookingInv'
<1> DEFINE r == req[q]
           d == r.doc
           new == [deliveries[d] EXCEPT !.scheduled = r.time, !.covered = r.covers]
<1>1. UNCHANGED <<configs, tariff, served, faults, muddled, late, unsettled, withdrawn>>
  BY DEF UpdateScheduledTime, history
<1>2. /\ r \in RequestType /\ d \in DOMAIN deliveries /\ r.time \in Times
      /\ Pays(deliveries[d].pricing, r.covers)
  BY DEF UpdateScheduledTime, At, BookingInv, TypeOK, RequestsGood, Good, Rescheduling
<1>3. deliveries[d] \in DeliveryType
  BY <1>2, Indices DEF BookingInv, TypeOK
<1>4. /\ new \in DeliveryType /\ new.pricing = deliveries[d].pricing
      /\ new.covered = r.covers
  BY <1>2, <1>3 DEF DeliveryType, RequestType
<1>5. deliveries' = [deliveries EXCEPT ![d] = new]
  BY DEF UpdateScheduledTime
<1> HIDE DEF new
<1>6. /\ DeliveriesGood' /\ deliveries' \in Seq(DeliveryType)
      /\ DOMAIN deliveries' = DOMAIN deliveries
      /\ \A e \in DOMAIN deliveries : deliveries'[e].pricing = deliveries[e].pricing
  BY <1>2, <1>4, <1>5, DeliveryStep
<1>7. req' \in [Requests -> RequestType] /\ RequestsGood'
  BY <1>1, <1>6, SameConfigs, FinishStep DEF UpdateScheduledTime
<1> QED
  BY <1>1, <1>6, <1>7, SameConfigs DEF BookingInv, TypeOK

(* A rider locks the time of a delivery, or gives it back. *)
LEMMA LockInv ==
    ASSUME BookingInv, NEW d \in DOMAIN deliveries, Lock(d) \/ Unlock(d)
    PROVE  BookingInv'
<1> DEFINE new(b) == [deliveries[d] EXCEPT !.canReschedule = b]
<1>1. UNCHANGED <<configs, tariff, req, served, faults, muddled, unsettled, withdrawn>>
  BY DEF Lock, Unlock, history
<1>2. deliveries[d] \in DeliveryType /\ PriceGood(deliveries[d])
  BY Indices DEF BookingInv, TypeOK, DeliveriesGood
<1>3. PICK b \in BOOLEAN : deliveries' = [deliveries EXCEPT ![d] = new(b)]
  BY DEF Lock, Unlock
<1> DEFINE x == new(b)
<1>4. /\ x \in DeliveryType /\ x.pricing = deliveries[d].pricing
      /\ x.covered = deliveries[d].covered
  BY <1>2 DEF DeliveryType
<1>5. deliveries' = [deliveries EXCEPT ![d] = x]
  BY <1>3
<1> HIDE DEF x
<1>6. /\ DeliveriesGood' /\ deliveries' \in Seq(DeliveryType)
      /\ DOMAIN deliveries' = DOMAIN deliveries
      /\ \A e \in DOMAIN deliveries : deliveries'[e].pricing = deliveries[e].pricing
  BY <1>2, <1>4, <1>5, DeliveryStep DEF PriceGood
<1>7. RequestsGood'
  BY <1>1, <1>6, SameConfigs, SameRequests
<1>8. late' \subseteq DOMAIN deliveries'
  BY <1>6 DEF Lock, Unlock, history, BookingInv, TypeOK
<1> QED
  BY <1>1, <1>6, <1>7, <1>8, SameConfigs DEF BookingInv, TypeOK

(* A request stops. *)
LEMMA FailInv ==
    ASSUME BookingInv, NEW q \in Requests, Fail(q)
    PROVE  BookingInv'
<1>1. UNCHANGED <<configs, tariff, deliveries, served, late, withdrawn>> /\ Finish(q)
  BY DEF Fail, docs
<1>2. /\ DOMAIN deliveries \subseteq DOMAIN deliveries' /\ DOMAIN configs \subseteq DOMAIN configs'
      /\ \A d \in DOMAIN deliveries : deliveries'[d].pricing = deliveries[d].pricing
      /\ DeliveriesGood'
  BY <1>1 DEF BookingInv, DeliveriesGood
<1>3. req' \in [Requests -> RequestType] /\ RequestsGood'
  BY <1>1, <1>2, FinishStep
<1>4. faults' \in 0..MaxFaults
  BY BookingAssumption DEF Fail, BookingInv, TypeOK
<1>5. muddled' \subseteq DOMAIN deliveries
  <2>1. At(q, "move") => req[q].doc \in DOMAIN deliveries
    BY DEF BookingInv, RequestsGood, Good, At, Rescheduling
  <2> QED
    BY <2>1 DEF Fail, BookingInv, TypeOK
<1>6. unsettled' \in BOOLEAN
  BY DEF Fail, BookingInv, TypeOK
<1> QED
  BY <1>1, <1>2, <1>3, <1>4, <1>5, <1>6 DEF BookingInv, TypeOK

(* Nothing happens. *)
LEMMA StutterInv ==
    ASSUME BookingInv, UNCHANGED vars
    PROVE  BookingInv'
  BY DEF BookingInv, TypeOK, RequestsGood, DeliveriesGood, vars, docs, history

(* Every step keeps the invariant. *)
LEMMA StepInv ==
    ASSUME BookingInv, [Next]_vars
    PROVE  BookingInv'
<1>1. CASE UNCHANGED vars
  BY <1>1, StutterInv
<1>2. ASSUME NEW q \in Requests, Step(q)
      PROVE  BookingInv'
  BY <1>2, DeactivateOthersInv, DeactivateFirstInv, ActivateInv, CreateDeliveryRequestInv,
     ReadSlotInv, AddRescheduleHistoryInv, UpdateScheduledTimeInv DEF Step
<1>3. ASSUME NEW q \in Requests, Start(q)
      PROVE  BookingInv'
  BY <1>3, CreatePricingConfigInv, StartActivationInv, StartRequestInv, StartRescheduleInv
     DEF Start
<1>4. ASSUME NEW q \in Requests, Fail(q)
      PROVE  BookingInv'
  BY <1>4, FailInv
<1>5. ASSUME NEW i \in DOMAIN configs, Deactivate(i) \/ \E c \in Configs : SetTerms(i, c)
      PROVE  BookingInv'
  BY <1>5, DeactivateInv, SetTermsInv
<1>6. ASSUME NEW t \in Times \union Catalog, NEW p \in TimePricings, ChangeTable(t, p)
      PROVE  BookingInv'
  BY <1>6, ChangeTableInv
<1>7. ASSUME NEW d \in DOMAIN deliveries, Lock(d) \/ Unlock(d)
      PROVE  BookingInv'
  BY <1>7, LockInv
<1> QED
  BY <1>1, <1>2, <1>3, <1>4, <1>5, <1>6, <1>7, TableChanges DEF Next

(* The invariant holds in every reachable state. *)
LEMMA BookingInvariant == Spec => []BookingInv
<1>1. BookingInv /\ [Next]_vars => BookingInv'
  BY StepInv
<1> QED
  BY <1>1, InitInv, PTL DEF Spec

-----------------------------------------------------------------------------
(* Locks. *)

(* A request that is under way on a delivery read it before it was locked, *)
(* or the delivery is among the late ones.                                 *)
LockRead ==
    \A q \in Requests : req[q].at \in Rescheduling /\ req[q].doc \notin late
                          => deliveries[req[q].doc].canReschedule

(* Steps that begin no rescheduling and lock no delivery. *)
LEMMA LockStays ==
    ASSUME BookingInv, LockRead,
           \A q \in Requests : req'[q].at \in Rescheduling =>
               req[q].at \in Rescheduling /\ req'[q].doc = req[q].doc,
           late \subseteq late',
           \A d \in DOMAIN deliveries \ late' :
               deliveries[d].canReschedule => deliveries'[d].canReschedule
    PROVE  LockRead'
<1>1. \A q \in Requests : req[q].at \in Rescheduling => req[q].doc \in DOMAIN deliveries
  BY DEF BookingInv, RequestsGood, Good
<1> QED
  BY <1>1 DEF LockRead

LEMMA LockKept ==
    ASSUME BookingInv, LockRead, UNCHANGED <<deliveries, late>>,
           \A q \in Requests : req'[q].at \in Rescheduling =>
               req[q].at \in Rescheduling /\ req'[q].doc = req[q].doc
    PROVE  LockRead'
<1>1. late \subseteq late' /\ deliveries' = deliveries
  OBVIOUS
<1>2. \A d \in DOMAIN deliveries \ late' :
          deliveries[d].canReschedule => deliveries'[d].canReschedule
  BY <1>1
<1> QED
  BY <1>1, <1>2, LockStays

(* What an activation that begins does to the requests. *)
LEMMA BeginRequests ==
    ASSUME BookingInv, NEW q \in Requests, NEW x \in RequestType, BeginActivating(q, x)
    PROVE  /\ req[q].at = "idle"
           /\ req'[q].at = x.at /\ req'[q].doc = x.doc
           /\ req'[q].alone = (Others(q, Activating) = {})
           /\ \A p \in Requests \ {q} :
                /\ req'[p].at = req[p].at /\ req'[p].doc = req[p].doc
                /\ req'[p].time = req[p].time /\ req'[p].from = req[p].from
                /\ req'[p].alone = FALSE
<1> DEFINE y == [x EXCEPT !.alone = (Others(q, Activating) = {})]
<1>1. /\ y.at = x.at /\ y.doc = x.doc /\ y.alone = (Others(q, Activating) = {})
  BY DEF RequestType
<1>2. req'[q] = y /\ req[q].at = "idle"
  BY DEF BeginActivating, At
<1>3. ASSUME NEW p \in Requests \ {q}
      PROVE  /\ req'[p].at = req[p].at /\ req'[p].doc = req[p].doc
             /\ req'[p].time = req[p].time /\ req'[p].from = req[p].from
             /\ req'[p].alone = FALSE
  <2>1. req'[p] = [req[p] EXCEPT !.alone = FALSE] /\ req[p] \in RequestType
    BY DEF BeginActivating, BookingInv, TypeOK
  <2> QED
    BY <2>1 DEF RequestType
<1> QED
  BY <1>1, <1>2, <1>3

(* What a request that ends does to the requests. *)
LEMMA FinishRequests ==
    ASSUME BookingInv, NEW q \in Requests, Finish(q)
    PROVE  req'[q] = Idle /\ req'[q].at = "idle" /\ \A p \in Requests \ {q} : req'[p] = req[p]
  BY DEF BookingInv, TypeOK, Finish, Idle

(* What a creation does to the configs and the requests. *)
LEMMA CreatePricingConfigBegins ==
    ASSUME BookingInv, NEW q \in Requests, NEW c \in Configs, CreatePricingConfig(q, c)
    PROVE  LET x == [Idle EXCEPT !.at = "others", !.doc = Len(configs) + 1]
               new == [terms |-> c, isActive |-> TRUE]
           IN /\ BeginActivating(q, x) /\ x \in RequestType /\ x.at = "others"
              /\ x.doc = Len(configs) + 1
              /\ DOMAIN configs' = DOMAIN configs \union {Len(configs) + 1}
              /\ Len(configs) + 1 \notin DOMAIN configs
              /\ configs'[Len(configs) + 1].isActive
              /\ \A i \in DOMAIN configs : configs'[i] = configs[i]
<1> DEFINE new == [terms |-> c, isActive |-> TRUE]
           x   == [Idle EXCEPT !.at = "others", !.doc = Len(configs) + 1]
<1>1. new \in ConfigType /\ configs \in Seq(ConfigType) /\ configs' = Append(configs, new)
  BY DEF ConfigType, BookingInv, TypeOK, CreatePricingConfig
<1>2. new.isActive
  OBVIOUS
<1> HIDE DEF new
<1>3. /\ DOMAIN configs' = DOMAIN configs \union {Len(configs) + 1}
      /\ Len(configs) + 1 \notin DOMAIN configs /\ Len(configs) + 1 \in Nat
      /\ configs'[Len(configs) + 1] = new
      /\ \A i \in DOMAIN configs : configs'[i] = configs[i]
  BY <1>1, AppendGood
<1>4. x \in RequestType /\ x.at = "others" /\ x.doc = Len(configs) + 1
  BY <1>3, IdleGood DEF RequestType, Activating
<1>5. BeginActivating(q, x)
  BY DEF CreatePricingConfig
<1> QED
  BY <1>2, <1>3, <1>4, <1>5

(* What an activation that starts does to the requests. *)
LEMMA StartActivationBegins ==
    ASSUME BookingInv, NEW q \in Requests, NEW i \in DOMAIN configs, StartActivation(q, i)
    PROVE  LET x == [Idle EXCEPT !.at = "deactivate", !.doc = i]
           IN BeginActivating(q, x) /\ x \in RequestType /\ x.at = "deactivate" /\ x.doc = i
<1>1. configs \in Seq(ConfigType) /\ i \in Nat
  BY Indices DEF BookingInv, TypeOK
<1> QED
  BY <1>1, IdleGood DEF RequestType, Activating, StartActivation

(* What a booking that starts does to the requests. *)
LEMMA StartRequestBegins ==
    ASSUME BookingInv, NEW q \in Requests, NEW o \in Orders, NEW t \in Times,
           StartRequest(q, o, t)
    PROVE  /\ req'[q].at = "price"
           /\ \A p \in Requests \ {q} : req'[p] = req[p]
           /\ req[q].at = "idle"
<1>1. PICK i \in Active : Begin(q, [Idle EXCEPT !.at = "price", !.terms = configs[i].terms,
                                                !.order = o, !.time = t])
  BY DEF StartRequest
<1>2. req \in [Requests -> RequestType] /\ Idle \in RequestType
  BY IdleGood DEF BookingInv, TypeOK
<1> QED
  BY <1>1, <1>2 DEF Begin, At, RequestType

(* What a rescheduling that starts does to the requests. *)
LEMMA StartRescheduleBegins ==
    ASSUME BookingInv, NEW q \in Requests, NEW d \in DOMAIN deliveries, NEW t \in Times,
           StartReschedule(q, d, t)
    PROVE  /\ req[q].at = "idle"
           /\ req'[q].at = "slot" /\ req'[q].doc = d /\ req'[q].time = t
           /\ req'[q].from = deliveries[d].scheduled
           /\ \A p \in Requests \ {q} : req'[p] = req[p]
<1>1. req \in [Requests -> RequestType] /\ Idle \in RequestType
  BY IdleGood DEF BookingInv, TypeOK
<1>2. Begin(q, [Idle EXCEPT !.at = "slot", !.doc = d, !.time = t,
                             !.from = deliveries[d].scheduled])
  BY DEF StartReschedule
<1> QED
  BY <1>1, <1>2 DEF Begin, At, RequestType

(* What reading the price of the new time does to the requests. *)
LEMMA ReadSlotGoes ==
    ASSUME BookingInv, NEW q \in Requests, ReadSlot(q)
    PROVE  /\ req[q].at = "slot"
           /\ \/ req'[q].at = "idle"
              \/ /\ req'[q].at = "remember" /\ req'[q].doc = req[q].doc
                 /\ req'[q].time = req[q].time /\ req'[q].from = req[q].from
           /\ \A p \in Requests \ {q} : req'[p] = req[p]
<1>1. req \in [Requests -> RequestType] /\ Idle.at = "idle"
  BY DEF BookingInv, TypeOK, Idle
<1>2. CASE Finish(q)
  BY <1>1, <1>2 DEF ReadSlot, At, Finish
<1>3. CASE ~Finish(q)
  <2>1. req' = [req EXCEPT ![q].at = "remember",
                           ![q].covers = tariff[req[q].time].priceMultiplier]
    BY <1>3 DEF ReadSlot
  <2> QED
    BY <1>1, <2>1 DEF ReadSlot, At, RequestType
<1> QED
  BY <1>2, <1>3

(* What writing the history does to the requests and the delivery. *)
LEMMA AddRescheduleHistoryGoes ==
    ASSUME BookingInv, NEW q \in Requests, AddRescheduleHistory(q)
    PROVE  /\ req[q].at = "remember"
           /\ req'[q].at = "move" /\ req'[q].doc = req[q].doc /\ req'[q].time = req[q].time
           /\ \A p \in Requests \ {q} : req'[p] = req[p]
           /\ req[q].doc \in DOMAIN deliveries
           /\ LET d == req[q].doc
              IN /\ deliveries'[d].canReschedule = deliveries[d].canReschedule
                 /\ deliveries'[d].scheduled = deliveries[d].scheduled
                 /\ deliveries'[d].booked = deliveries[d].booked
                 /\ deliveries'[d].moves = Append(deliveries[d].moves,
                                              [from |-> req[q].from, to |-> req[q].time])
                 /\ \A e \in DOMAIN deliveries \ {d} : deliveries'[e] = deliveries[e]
                 /\ DOMAIN deliveries' = DOMAIN deliveries
<1> USE DEF AddRescheduleHistory
<1>1. req \in [Requests -> RequestType]
  BY DEF BookingInv, TypeOK
<1>2. req[q].at = "remember" /\ req[q].doc \in DOMAIN deliveries
  BY DEF At, BookingInv, RequestsGood, Good, Rescheduling
<1>3. deliveries[req[q].doc] \in DeliveryType
  BY <1>2, Indices DEF BookingInv, TypeOK
<1>4. /\ req'[q].at = "move" /\ req'[q].doc = req[q].doc /\ req'[q].time = req[q].time
      /\ \A p \in Requests \ {q} : req'[p] = req[p]
  BY <1>1 DEF RequestType
<1>5. deliveries' = [deliveries EXCEPT ![req[q].doc].moves =
                        Append(@, [from |-> req[q].from, to |-> req[q].time])]
  OBVIOUS
<1> HIDE DEF AddRescheduleHistory
<1> QED
  BY <1>2, <1>3, <1>4, <1>5 DEF DeliveryType

(* What writing the time does to the requests and the delivery. *)
LEMMA UpdateScheduledTimeGoes ==
    ASSUME BookingInv, NEW q \in Requests, UpdateScheduledTime(q)
    PROVE  /\ req[q].at = "move" /\ req[q].doc \in DOMAIN deliveries
           /\ Finish(q)
           /\ LET d == req[q].doc
              IN /\ deliveries'[d].canReschedule = deliveries[d].canReschedule
                 /\ deliveries'[d].scheduled = req[q].time
                 /\ deliveries'[d].booked = deliveries[d].booked
                 /\ deliveries'[d].moves = deliveries[d].moves
                 /\ \A e \in DOMAIN deliveries \ {d} : deliveries'[e] = deliveries[e]
                 /\ DOMAIN deliveries' = DOMAIN deliveries
<1> USE DEF UpdateScheduledTime
<1>1. req[q].at = "move" /\ req[q].doc \in DOMAIN deliveries
  BY DEF At, BookingInv, RequestsGood, Good, Rescheduling
<1>2. deliveries[req[q].doc] \in DeliveryType
  BY <1>1, Indices DEF BookingInv, TypeOK
<1>3. /\ deliveries' = [deliveries EXCEPT ![req[q].doc].scheduled = req[q].time,
                                          ![req[q].doc].covered = req[q].covers]
      /\ Finish(q)
  OBVIOUS
<1> HIDE DEF UpdateScheduledTime
<1> QED
  BY <1>1, <1>2, <1>3 DEF DeliveryType

(* What saving a delivery does to the deliveries. *)
LEMMA CreateDeliveryRequestGoes ==
    ASSUME BookingInv, NEW q \in Requests, CreateDeliveryRequest(q)
    PROVE  LET n == Len(deliveries) + 1
           IN /\ Finish(q) /\ req[q].at = "price"
              /\ n \notin DOMAIN deliveries
              /\ DOMAIN deliveries' = DOMAIN deliveries \union {n}
              /\ \A e \in DOMAIN deliveries : deliveries'[e] = deliveries[e]
              /\ deliveries'[n].moves = <<>> /\ deliveries'[n].booked = req[q].time
              /\ deliveries'[n].scheduled = req[q].time
<1> DEFINE t == req[q].time
           pricing == Pricing(req[q].terms, LookUp(req[q].order), tariff[t])
           x == [pricing |-> pricing, scheduled |-> t, covered |-> pricing.timeMultiplier,
                 canReschedule |-> TRUE, moves |-> <<>>, booked |-> t]
<1>1. deliveries' = Append(deliveries, x) /\ Finish(q) /\ req[q].at = "price"
  BY DEF CreateDeliveryRequest, At
<1>2. DOMAIN deliveries = 1..Len(deliveries) /\ Len(deliveries) \in Nat
  BY LenProperties DEF BookingInv, TypeOK
<1>3. x.moves = <<>> /\ x.booked = req[q].time /\ x.scheduled = req[q].time
  OBVIOUS
<1> HIDE DEF x
<1>4. deliveries \in Seq(DeliveryType \union {x}) /\ x \in DeliveryType \union {x}
  BY SeqMonotonic DEF BookingInv, TypeOK
<1>5. /\ DOMAIN deliveries' = DOMAIN deliveries \union {Len(deliveries) + 1}
      /\ Len(deliveries) + 1 \notin DOMAIN deliveries
      /\ \A e \in DOMAIN deliveries : deliveries'[e] = deliveries[e]
      /\ deliveries'[Len(deliveries) + 1] = x
  BY <1>1, <1>4, AppendGood
<1> QED
  BY <1>1, <1>3, <1>5

(* What a rider who accepts or gives up does to the delivery. *)
LEMMA LockGoes ==
    ASSUME BookingInv, NEW d \in DOMAIN deliveries, NEW b \in BOOLEAN,
           deliveries' = [deliveries EXCEPT ![d].canReschedule = b]
    PROVE  /\ DOMAIN deliveries' = DOMAIN deliveries
           /\ deliveries'[d].canReschedule = b
           /\ \A e \in DOMAIN deliveries :
                /\ deliveries'[e].scheduled = deliveries[e].scheduled
                /\ deliveries'[e].booked = deliveries[e].booked
                /\ deliveries'[e].moves = deliveries[e].moves
                /\ e # d => deliveries'[e] = deliveries[e]
<1>1. deliveries[d] \in DeliveryType
  BY Indices DEF BookingInv, TypeOK
<1> QED
  BY <1>1 DEF DeliveryType

(* What a deactivation does to the requests. *)
LEMMA DeactivateRequests ==
    ASSUME BookingInv, NEW i \in DOMAIN configs, Deactivate(i)
    PROVE  \A p \in Requests :
              /\ req'[p].at = req[p].at /\ req'[p].doc = req[p].doc
              /\ req'[p].time = req[p].time /\ req'[p].from = req[p].from
              /\ req'[p].alone = FALSE
<1>1. ASSUME NEW p \in Requests
      PROVE  /\ req'[p].at = req[p].at /\ req'[p].doc = req[p].doc
             /\ req'[p].time = req[p].time /\ req'[p].from = req[p].from
             /\ req'[p].alone = FALSE
  <2>1. req'[p] = [req[p] EXCEPT !.alone = FALSE] /\ req[p] \in RequestType
    BY DEF Deactivate, BookingInv, TypeOK
  <2> QED
    BY <2>1 DEF RequestType
<1> QED
  BY <1>1

(* What the first update of an activation does to the requests. *)
LEMMA DeactivateFirstGoes ==
    ASSUME BookingInv, NEW q \in Requests, DeactivateFirst(q)
    PROVE  /\ req[q].at = "deactivate" /\ req'[q].at = "activate"
           /\ req'[q].doc = req[q].doc /\ req'[q].alone = req[q].alone
           /\ \A p \in Requests \ {q} : req'[p] = req[p]
<1>1. req \in [Requests -> RequestType]
  BY DEF BookingInv, TypeOK
<1> QED
  BY <1>1 DEF DeactivateFirst, At, RequestType

(* No request is under way at first. *)
LEMMA LockReadInit == Init => LockRead
  BY DEF Init, LockRead, Idle, Rescheduling

(* Only Lock puts a delivery ahead of the requests that read it. *)
LEMMA LockReadStep ==
    ASSUME BookingInv, LockRead, [Next]_vars
    PROVE  LockRead'
<1> USE DEF Rescheduling
<1>1. CASE UNCHANGED vars
  BY <1>1 DEF vars, docs, history, LockRead
<1>2. ASSUME NEW q \in Requests, DeactivateOthers(q) \/ Activate(q) \/ Fail(q)
      PROVE  LockRead'
  <2>1. Finish(q) /\ UNCHANGED <<deliveries, late>>
    BY <1>2 DEF DeactivateOthers, Activate, Fail, docs
  <2> QED
    BY <2>1, FinishRequests, LockStays
<1>3. ASSUME NEW q \in Requests, DeactivateFirst(q)
      PROVE  LockRead'
  <2>1. UNCHANGED <<deliveries, late>>
    BY <1>3 DEF DeactivateFirst, history
  <2> QED
    BY <1>3, <2>1, DeactivateFirstGoes, LockStays
<1>4. ASSUME NEW q \in Requests, CreateDeliveryRequest(q)
      PROVE  LockRead'
  <2>1. late' = late
    BY <1>4 DEF CreateDeliveryRequest, history
  <2> QED
    BY <1>4, <2>1, CreateDeliveryRequestGoes, FinishRequests, LockStays
<1>5. ASSUME NEW q \in Requests, ReadSlot(q)
      PROVE  LockRead'
  <2>1. UNCHANGED <<deliveries, late>>
    BY <1>5 DEF ReadSlot, docs, history
  <2> QED
    BY <1>5, <2>1, ReadSlotGoes, LockStays
<1>6. ASSUME NEW q \in Requests, AddRescheduleHistory(q)
      PROVE  LockRead'
  <2>1. late' = late
    BY <1>6 DEF AddRescheduleHistory, history
  <2> QED
    BY <1>6, <2>1, AddRescheduleHistoryGoes, LockStays
<1>7. ASSUME NEW q \in Requests, UpdateScheduledTime(q)
      PROVE  LockRead'
  <2>1. late' = late
    BY <1>7 DEF UpdateScheduledTime, history
  <2> QED
    BY <1>7, <2>1, UpdateScheduledTimeGoes, FinishRequests, LockStays
<1>8. ASSUME NEW q \in Requests, NEW c \in Configs, CreatePricingConfig(q, c)
      PROVE  LockRead'
  <2>1. UNCHANGED <<deliveries, late>>
    BY <1>8 DEF CreatePricingConfig
  <2>2. \A p \in Requests : req'[p].at \in Rescheduling =>
            req[p].at \in Rescheduling /\ req'[p].doc = req[p].doc
    <3> DEFINE x == [Idle EXCEPT !.at = "others", !.doc = Len(configs) + 1]
    <3>1. BeginActivating(q, x) /\ x \in RequestType /\ x.at = "others"
      BY <1>8, CreatePricingConfigBegins
    <3> HIDE DEF x
    <3>2. req'[q].at \notin Rescheduling
      BY <3>1, BeginRequests DEF Rescheduling
    <3>3. \A p \in Requests \ {q} : req'[p].at = req[p].at /\ req'[p].doc = req[p].doc
      BY <3>1, BeginRequests
    <3> QED
      BY <3>2, <3>3
  <2> QED
    BY <2>1, <2>2, LockKept
<1>9. ASSUME NEW q \in Requests, NEW i \in DOMAIN configs, StartActivation(q, i)
      PROVE  LockRead'
  <2>1. UNCHANGED <<deliveries, late>>
    BY <1>9 DEF StartActivation, docs
  <2>2. \A p \in Requests : req'[p].at \in Rescheduling =>
            req[p].at \in Rescheduling /\ req'[p].doc = req[p].doc
    <3> DEFINE x == [Idle EXCEPT !.at = "deactivate", !.doc = i]
    <3>1. BeginActivating(q, x) /\ x \in RequestType /\ x.at = "deactivate"
      BY <1>9, StartActivationBegins
    <3> HIDE DEF x
    <3>2. req'[q].at \notin Rescheduling
      BY <3>1, BeginRequests DEF Rescheduling
    <3>3. \A p \in Requests \ {q} : req'[p].at = req[p].at /\ req'[p].doc = req[p].doc
      BY <3>1, BeginRequests
    <3> QED
      BY <3>2, <3>3
  <2> QED
    BY <2>1, <2>2, LockKept
<1>10. ASSUME NEW q \in Requests, NEW o \in Orders, NEW t \in Times, StartRequest(q, o, t)
      PROVE  LockRead'
  <2>1. UNCHANGED <<deliveries, late>>
    BY <1>10 DEF StartRequest, docs
  <2> QED
    BY <1>10, <2>1, StartRequestBegins, LockStays
<1>11. ASSUME NEW q \in Requests, NEW d \in DOMAIN deliveries, NEW t \in Times,
              StartReschedule(q, d, t)
       PROVE  LockRead'
  <2>1. UNCHANGED <<deliveries, late>> /\ deliveries[d].canReschedule
    BY <1>11 DEF StartReschedule, docs
  <2> QED
    BY <1>11, <2>1, StartRescheduleBegins DEF LockRead
<1>12. ASSUME NEW i \in DOMAIN configs, Deactivate(i)
       PROVE  LockRead'
  <2>1. UNCHANGED <<deliveries, late>>
    BY <1>12 DEF Deactivate
  <2> QED
    BY <1>12, <2>1, DeactivateRequests, LockStays
<1>13. ASSUME NEW i \in DOMAIN configs, NEW c \in Configs, SetTerms(i, c)
       PROVE  LockRead'
  BY <1>13 DEF SetTerms, LockRead
<1>14. ASSUME NEW t \in Times \union Catalog, NEW p \in TimePricings, ChangeTable(t, p)
       PROVE  LockRead'
  BY <1>14 DEF ChangeTable, LockRead
<1>15. ASSUME NEW d \in DOMAIN deliveries, Lock(d)
       PROVE  LockRead'
  <2>1. /\ deliveries' = [deliveries EXCEPT ![d].canReschedule = FALSE] /\ req' = req
        /\ late' = IF \E q \in Requests : req[q].doc = d /\ req[q].at \in Rescheduling
                   THEN late \union {d} ELSE late
    BY <1>15 DEF Lock
  <2>2. ASSUME NEW q \in Requests, req'[q].at \in Rescheduling, req'[q].doc \notin late'
        PROVE  deliveries'[req'[q].doc].canReschedule
    <3>1. req[q].doc # d /\ req[q].doc \notin late /\ req[q].doc \in DOMAIN deliveries
      BY <2>1, <2>2 DEF BookingInv, RequestsGood, Good
    <3>2. deliveries[req[q].doc].canReschedule
      BY <2>1, <2>2, <3>1 DEF LockRead
    <3> QED
      BY <2>1, <3>1, <3>2, LockGoes
  <2> QED
    BY <2>2 DEF LockRead
<1>16. ASSUME NEW d \in DOMAIN deliveries, Unlock(d)
       PROVE  LockRead'
  <2>1. /\ deliveries' = [deliveries EXCEPT ![d].canReschedule = TRUE]
        /\ req' = req /\ late' = late
    BY <1>16 DEF Unlock, history
  <2> QED
    BY <2>1, LockGoes, LockStays
<1> HIDE DEF Rescheduling
<1> QED
  BY <1>1, <1>2, <1>3, <1>4, <1>5, <1>6, <1>7, <1>8, <1>9, <1>10, <1>11, <1>12, <1>13, <1>14,
     <1>15, <1>16, TableChanges DEF Next, Step, Start

-----------------------------------------------------------------------------
(* The active config. *)

(* An activation that is alone, or under way while nothing went wrong, is  *)
(* the only one; the config it creates is active, unless an admin withdrew *)
(* it, and the config it activates is the only one that may be.            *)
ActivationsInOrder ==
    /\ \A p, q \in Requests :
          p # q /\ req[p].at \in Activating /\ (req[p].alone \/ ~unsettled)
             => req[q].at \notin Activating
    /\ \A q \in Requests :
          /\ req[q].at = "others" /\ req[q].alone => req[q].doc \in Active
          /\ req[q].at = "others" /\ ~unsettled   => req[q].doc \in Active \/ withdrawn
          /\ req[q].at = "activate" /\ (req[q].alone \/ ~unsettled) => Active \subseteq {req[q].doc}
    /\ (\A q \in Requests : req[q].at \notin Activating) /\ ~unsettled =>
          (\E i : Active = {i}) \/ (Active = {} /\ withdrawn)

(* One config is active at first. *)
LEMMA ActivationsInit == Init => ActivationsInOrder
<1> SUFFICES ASSUME Init PROVE ActivationsInOrder
  OBVIOUS
<1>1. PICK c \in Configs : configs = <<[terms |-> c, isActive |-> TRUE]>>
  BY DEF Init
<1>2. Active = {1}
  BY <1>1 DEF Active
<1> QED
  BY <1>2 DEF Init, ActivationsInOrder, Idle, Activating

(* Requests that activate nothing, before or after. *)
LEMMA ActivationsStay ==
    ASSUME ActivationsInOrder, Active' = Active, unsettled' = unsettled, withdrawn' = withdrawn,
           \A q \in Requests : \/ req'[q] = req[q]
                               \/ req'[q].at \notin Activating /\ req[q].at \notin Activating
    PROVE  ActivationsInOrder'
  BY DEF ActivationsInOrder, Activating

(* Deactivating the others leaves at most the one. *)
LEMMA OnlyActive ==
    ASSUME TypeOK, NEW i, configs' = Only(i)
    PROVE  Active' = Active \intersect {i}
<1>1. DOMAIN configs' = DOMAIN configs
  BY DEF Only
<1>2. ASSUME NEW j \in DOMAIN configs
      PROVE  configs'[j].isActive <=> configs[j].isActive /\ j = i
  <2>1. configs[j] \in ConfigType
    BY Indices DEF TypeOK
  <2> QED
    BY <2>1 DEF Only, ConfigType
<1> QED
  BY <1>1, <1>2 DEF Active

(* Every step keeps the activations in order. *)
LEMMA ActivationsStep ==
    ASSUME BookingInv, ActivationsInOrder, [Next]_vars
    PROVE  ActivationsInOrder'
<1>1. CASE UNCHANGED vars
  BY <1>1 DEF vars, docs, history, ActivationsInOrder, Active
<1>2. ASSUME NEW q \in Requests, DeactivateOthers(q)
      PROVE  ActivationsInOrder'
  <2>1. Active' = Active \intersect {req[q].doc}
    BY <1>2, OnlyActive DEF DeactivateOthers, BookingInv
  <2>2. /\ req[q].at = "others"
        /\ unsettled' = (unsettled /\ ~req[q].alone)
        /\ withdrawn' = (withdrawn /\ ~req[q].alone)
    BY <1>2 DEF DeactivateOthers, Activated, At
  <2>3. req'[q].at = "idle" /\ \A p \in Requests \ {q} : req'[p] = req[p]
    BY <1>2, FinishRequests DEF DeactivateOthers
  <2>4. CASE req[q].alone
    <3>1. Active' = {req[q].doc} /\ \A p \in Requests : req'[p].at \notin Activating
      BY <2>1, <2>2, <2>3, <2>4 DEF ActivationsInOrder, Activating
    <3> QED
      BY <3>1 DEF ActivationsInOrder, Activating
  <2>5. CASE ~req[q].alone /\ ~unsettled
    <3>1. /\ \E i : Active' = {i} \/ (Active' = {} /\ withdrawn')
          /\ \A p \in Requests : req'[p].at \notin Activating
      <4>1. req[q].at \in Activating /\ "idle" \notin Activating
        BY <2>2 DEF Activating
      <4>2. \A p \in Requests : req'[p].at \notin Activating
        BY <2>3, <2>5, <4>1 DEF ActivationsInOrder
      <4>3. req[q].doc \in Active \/ withdrawn
        BY <2>2, <2>5 DEF ActivationsInOrder
      <4>4. Active' = {req[q].doc} \/ (Active' = {} /\ withdrawn')
        BY <2>1, <2>2, <2>5, <4>3
      <4> QED
        BY <4>2, <4>4
    <3> QED
      BY <3>1 DEF ActivationsInOrder, Activating
  <2>6. CASE ~req[q].alone /\ unsettled
    <3>1. \A p \in Requests : req'[p].at \in Activating => req'[p] = req[p] /\ ~req[p].alone
      BY <2>2, <2>3 DEF ActivationsInOrder, Activating
    <3>2. unsettled'
      BY <2>2, <2>6
    <3> QED
      BY <3>1, <3>2 DEF ActivationsInOrder, Activating
  <2> QED
    BY <2>4, <2>5, <2>6
<1>3. ASSUME NEW q \in Requests, DeactivateFirst(q)
      PROVE  ActivationsInOrder'
  <2>1. Active' = Active \intersect {req[q].doc}
    BY <1>3, OnlyActive DEF DeactivateFirst, BookingInv
  <2>2. unsettled' = unsettled /\ withdrawn' = withdrawn
    BY <1>3 DEF DeactivateFirst, history
  <2>3. /\ req[q].at = "deactivate" /\ req'[q].at = "activate"
        /\ req'[q].doc = req[q].doc /\ req'[q].alone = req[q].alone
        /\ \A p \in Requests \ {q} : req'[p] = req[p]
    BY <1>3, DeactivateFirstGoes
  <2>4. \A p \in Requests \ {q} : req[p].at \in Activating => ~req[p].alone /\ unsettled
    BY <2>3 DEF ActivationsInOrder, Activating
  <2> QED
    BY <2>1, <2>2, <2>3, <2>4 DEF ActivationsInOrder, Activating
<1>4. ASSUME NEW q \in Requests, Activate(q)
      PROVE  ActivationsInOrder'
  <2>1. req[q].at = "activate" /\ req[q].doc \in DOMAIN configs
    BY <1>4 DEF Activate, At, BookingInv, RequestsGood, Good, Activating
  <2>2. Active' = Active \union {req[q].doc}
    <3>1. configs' = [configs EXCEPT ![req[q].doc].isActive = TRUE]
      BY <1>4 DEF Activate
    <3>2. configs[req[q].doc] \in ConfigType
      BY <2>1, Indices DEF BookingInv, TypeOK
    <3> QED
      BY <2>1, <3>1, <3>2 DEF Active, ConfigType
  <2>3. /\ unsettled' = (unsettled /\ ~req[q].alone)
        /\ withdrawn' = (withdrawn /\ ~req[q].alone)
    BY <1>4 DEF Activate, Activated
  <2>4. req'[q].at = "idle" /\ \A p \in Requests \ {q} : req'[p] = req[p]
    BY <1>4, FinishRequests DEF Activate
  <2>5. CASE req[q].alone \/ ~unsettled
    <3>1. Active' = {req[q].doc} /\ \A p \in Requests : req'[p].at \notin Activating
      BY <2>1, <2>2, <2>4, <2>5 DEF ActivationsInOrder, Activating
    <3> QED
      BY <3>1 DEF ActivationsInOrder, Activating
  <2>6. CASE ~req[q].alone /\ unsettled
    <3>1. \A p \in Requests : req'[p].at \in Activating => req'[p] = req[p] /\ ~req[p].alone
      BY <2>1, <2>4 DEF ActivationsInOrder, Activating
    <3>2. unsettled'
      BY <2>3, <2>6
    <3> QED
      BY <3>1, <3>2 DEF ActivationsInOrder, Activating
  <2> QED
    BY <2>5, <2>6
<1>5. ASSUME NEW q \in Requests, NEW x \in RequestType, BeginActivating(q, x),
             withdrawn' = withdrawn,
             \/ x.at = "deactivate"
             \/ x.at = "others" /\ x.doc \in Active'
      PROVE  ActivationsInOrder'
  <2>1. /\ req[q].at = "idle" /\ req'[q].at = x.at /\ req'[q].doc = x.doc
        /\ req'[q].alone = (Others(q, Activating) = {})
        /\ \A p \in Requests \ {q} : /\ req'[p].at = req[p].at /\ ~req'[p].alone
    BY <1>5, BeginRequests
  <2>2. unsettled' = (unsettled \/ Others(q, Activating) # {})
    BY <1>5 DEF BeginActivating
  <2>3. \A p \in Requests \ {q} : req'[p].at \in Activating =>
            unsettled' /\ Others(q, Activating) # {}
    BY <2>1, <2>2 DEF Others
  <2>4. req'[q].at \in Activating /\ req'[q].at # "activate"
    BY <1>5, <2>1 DEF Activating
  <2>5. ASSUME NEW p \in Requests, NEW r \in Requests, p # r, req'[p].at \in Activating,
               req'[p].alone \/ ~unsettled'
        PROVE  req'[r].at \notin Activating
    <3>1. p = q
      BY <2>1, <2>3, <2>5
    <3>2. Others(q, Activating) = {}
      <4>1. CASE req'[p].alone
        BY <2>1, <3>1, <4>1
      <4>2. CASE ~unsettled'
        BY <2>2, <4>2
      <4> QED
        BY <2>5, <4>1, <4>2
    <3> QED
      BY <2>3, <2>5, <3>1, <3>2
  <2>6. ASSUME NEW p \in Requests
        PROVE  /\ req'[p].at = "others" /\ req'[p].alone => req'[p].doc \in Active'
               /\ req'[p].at = "others" /\ ~unsettled'   => req'[p].doc \in Active' \/ withdrawn'
               /\ req'[p].at = "activate" /\ (req'[p].alone \/ ~unsettled')
                     => Active' \subseteq {req'[p].doc}
    BY <1>5, <2>1, <2>3, <2>4 DEF Activating
  <2> QED
    BY <2>4, <2>5, <2>6 DEF ActivationsInOrder
<1>6. ASSUME NEW q \in Requests, NEW c \in Configs, CreatePricingConfig(q, c)
      PROVE  ActivationsInOrder'
  <2> DEFINE x == [Idle EXCEPT !.at = "others", !.doc = Len(configs) + 1]
  <2>1. /\ BeginActivating(q, x) /\ x \in RequestType /\ x.at = "others"
        /\ x.doc = Len(configs) + 1
        /\ DOMAIN configs' = DOMAIN configs \union {Len(configs) + 1}
        /\ configs'[Len(configs) + 1].isActive
    BY <1>6, CreatePricingConfigBegins
  <2>2. withdrawn' = withdrawn
    BY <1>6 DEF CreatePricingConfig
  <2> HIDE DEF x
  <2>3. x.doc \in Active'
    BY <2>1 DEF Active
  <2> QED
    BY <1>5, <2>1, <2>2, <2>3
<1>7. ASSUME NEW q \in Requests, NEW i \in DOMAIN configs, StartActivation(q, i)
      PROVE  ActivationsInOrder'
  <2> DEFINE x == [Idle EXCEPT !.at = "deactivate", !.doc = i]
  <2>1. BeginActivating(q, x) /\ x \in RequestType /\ x.at = "deactivate"
    BY <1>7, StartActivationBegins
  <2>2. withdrawn' = withdrawn
    BY <1>7 DEF StartActivation
  <2> HIDE DEF x
  <2> QED
    BY <1>5, <2>1, <2>2
<1>8. ASSUME NEW i \in DOMAIN configs, Deactivate(i)
      PROVE  ActivationsInOrder'
  <2>1. configs[i] \in ConfigType
    BY Indices DEF BookingInv, TypeOK
  <2>2. Active' = Active \ {i}
    BY <1>8, <2>1 DEF Deactivate, Active, ConfigType
  <2>3. withdrawn' /\ unsettled' = unsettled
    BY <1>8 DEF Deactivate
  <2>4. \A p \in Requests : /\ req'[p].at = req[p].at /\ req'[p].doc = req[p].doc
                            /\ req'[p].alone = FALSE
    BY <1>8, DeactivateRequests
  <2> QED
    BY <2>2, <2>3, <2>4 DEF ActivationsInOrder
<1>9. ASSUME NEW i \in DOMAIN configs, NEW c \in Configs, SetTerms(i, c)
      PROVE  ActivationsInOrder'
  <2>1. configs[i] \in ConfigType
    BY Indices DEF BookingInv, TypeOK
  <2>2. Active' = Active
    BY <1>9, <2>1 DEF SetTerms, Active, ConfigType
  <2> QED
    BY <1>9, <2>2, ActivationsStay DEF SetTerms
<1>10. ASSUME NEW q \in Requests, Fail(q)
       PROVE  ActivationsInOrder'
  <2>1. /\ Active' = Active /\ withdrawn' = withdrawn
        /\ unsettled' = (unsettled \/ req[q].at \in Activating)
    BY <1>10 DEF Fail, docs, Active
  <2>2. req'[q].at = "idle" /\ \A p \in Requests \ {q} : req'[p] = req[p]
    BY <1>10, FinishRequests DEF Fail
  <2>3. CASE unsettled' = unsettled /\ req[q].at \notin Activating
    BY <2>1, <2>2, <2>3, ActivationsStay DEF Activating
  <2>4. CASE unsettled'
    BY <2>1, <2>2, <2>4 DEF ActivationsInOrder, Activating
  <2> QED
    BY <2>1, <2>3, <2>4 DEF BookingInv, TypeOK
<1>11. ASSUME NEW q \in Requests, CreateDeliveryRequest(q)
       PROVE  ActivationsInOrder'
  <2>1. Active' = Active /\ unsettled' = unsettled /\ withdrawn' = withdrawn
    BY <1>11 DEF CreateDeliveryRequest, history, Active
  <2>2. Finish(q) /\ req[q].at = "price"
    BY <1>11, CreateDeliveryRequestGoes
  <2> QED
    BY <2>1, <2>2, FinishRequests, ActivationsStay DEF Activating
<1>12. ASSUME NEW q \in Requests, ReadSlot(q)
       PROVE  ActivationsInOrder'
  <2>1. Active' = Active /\ unsettled' = unsettled /\ withdrawn' = withdrawn
    BY <1>12 DEF ReadSlot, docs, history, Active
  <2> QED
    BY <1>12, <2>1, ReadSlotGoes, ActivationsStay DEF Activating
<1>13. ASSUME NEW q \in Requests, AddRescheduleHistory(q)
       PROVE  ActivationsInOrder'
  <2>1. Active' = Active /\ unsettled' = unsettled /\ withdrawn' = withdrawn
    BY <1>13 DEF AddRescheduleHistory, history, Active
  <2> QED
    BY <1>13, <2>1, AddRescheduleHistoryGoes, ActivationsStay DEF Activating
<1>14. ASSUME NEW q \in Requests, UpdateScheduledTime(q)
       PROVE  ActivationsInOrder'
  <2>1. Active' = Active /\ unsettled' = unsettled /\ withdrawn' = withdrawn
    BY <1>14 DEF UpdateScheduledTime, history, Active
  <2> QED
    BY <1>14, <2>1, UpdateScheduledTimeGoes, FinishRequests, ActivationsStay DEF Activating
<1>15. ASSUME NEW q \in Requests, NEW o \in Orders, NEW t \in Times, StartRequest(q, o, t)
       PROVE  ActivationsInOrder'
  <2>1. Active' = Active /\ unsettled' = unsettled /\ withdrawn' = withdrawn
    BY <1>15 DEF StartRequest, docs, Active
  <2> QED
    BY <1>15, <2>1, StartRequestBegins, ActivationsStay DEF Activating
<1>16. ASSUME NEW q \in Requests, NEW d \in DOMAIN deliveries, NEW t \in Times,
              StartReschedule(q, d, t)
       PROVE  ActivationsInOrder'
  <2>1. Active' = Active /\ unsettled' = unsettled /\ withdrawn' = withdrawn
    BY <1>16 DEF StartReschedule, docs, Active
  <2> QED
    BY <1>16, <2>1, StartRescheduleBegins, ActivationsStay DEF Activating
<1>17. ASSUME NEW t \in Times \union Catalog, NEW p \in TimePricings, ChangeTable(t, p)
       PROVE  ActivationsInOrder'
  BY <1>17, ActivationsStay DEF ChangeTable, Active
<1>18. ASSUME NEW d \in DOMAIN deliveries, Lock(d) \/ Unlock(d)
       PROVE  ActivationsInOrder'
  BY <1>18, ActivationsStay DEF Lock, Unlock, history, Active
<1> QED
  BY <1>1, <1>2, <1>3, <1>4, <1>6, <1>7, <1>8, <1>9, <1>10, <1>11, <1>12, <1>13, <1>14,
     <1>15, <1>16, <1>17, <1>18, TableChanges DEF Next, Step, Start

-----------------------------------------------------------------------------
(* The history of the times. *)

(* Where the moves of a delivery end. *)
Held(d) == IF Len(d.moves) = 0 THEN d.booked ELSE d.moves[Len(d.moves)].to

Chained(d) ==
    \A k \in 1..Len(d.moves) : d.moves[k].from = IF k = 1 THEN d.booked ELSE d.moves[k - 1].to

On(q, d) == req[q].doc = d /\ req[q].at \in Rescheduling

(* A delivery that no reschedulings muddled has one at most, which knows   *)
(* the time that holds; the history is at the new time before the delivery *)
(* is.                                                                     *)
MovesInOrder ==
    \A d \in DOMAIN deliveries \ muddled :
        /\ Chained(deliveries[d])
        /\ \A p, q \in Requests : On(p, d) /\ On(q, d) => p = q
        /\ \A q \in Requests : req[q].doc = d =>
              /\ req[q].at \in {"slot", "remember"} =>
                    req[q].from = deliveries[d].scheduled /\ deliveries[d].scheduled = Held(deliveries[d])
              /\ req[q].at = "move" => req[q].time = Held(deliveries[d])
        /\ (\A q \in Requests : ~On(q, d)) => deliveries[d].scheduled = Held(deliveries[d])

(* The sequence of times in HistoryIsChain, read one by one. *)
LEMMA TimesOfMoves ==
    ASSUME NEW d \in DeliveryType
    PROVE  LET times == <<d.booked>> \o [k \in DOMAIN d.moves |-> d.moves[k].to]
           IN /\ DOMAIN d.moves = 1..Len(d.moves)
              /\ \A k \in DOMAIN d.moves : times[k] = IF k = 1 THEN d.booked ELSE d.moves[k - 1].to
              /\ times[Len(times)] = Held(d)
<1> DEFINE one  == <<d.booked>>
           rest == [k \in DOMAIN d.moves |-> d.moves[k].to]
           n    == Len(d.moves)
<1>1. d.moves \in Seq(MoveType) /\ d.booked \in Times
  BY DEF DeliveryType
<1>2. n \in Nat /\ DOMAIN d.moves = 1..n
  BY <1>1, LenProperties
<1>3. \A k \in 1..n : d.moves[k].to \in Times
  <2> SUFFICES ASSUME NEW k \in 1..n PROVE d.moves[k].to \in Times
    OBVIOUS
  <2>1. d.moves[k] \in MoveType
    BY <1>1, <1>2, Indices
  <2> QED
    BY <2>1 DEF MoveType
<1>4. rest \in Seq(Times) /\ Len(rest) = n /\ \A k \in 1..n : rest[k] = d.moves[k].to
  <2>1. rest = [k \in 1..n |-> d.moves[k].to]
    BY <1>2
  <2> HIDE DEF rest, n
  <2>2. rest \in Seq(Times)
    BY <1>2, <1>3, <2>1, IsASeq
  <2>3. Len(rest) = n
    BY <1>2, <2>1, <2>2, LenProperties
  <2> QED
    BY <2>1, <2>2, <2>3
<1>5. one \in Seq(Times) /\ Len(one) = 1 /\ one[1] = d.booked
  BY <1>1
<1> HIDE DEF one, rest, n
<1> DEFINE times == one \o rest
<1>6. /\ Len(times) = 1 + n
      /\ \A k \in 1..(1 + n) : times[k] = IF k <= 1 THEN one[k] ELSE rest[k - 1]
  <2>1. /\ Len(times) = Len(one) + Len(rest)
        /\ \A k \in 1..(Len(one) + Len(rest)) :
              times[k] = IF k <= Len(one) THEN one[k] ELSE rest[k - Len(one)]
    BY <1>4, <1>5, ConcatProperties
  <2> HIDE DEF times
  <2> QED
    BY <1>4, <1>5, <2>1
<1>7. \A k \in 1..n : times[k] = IF k = 1 THEN d.booked ELSE d.moves[k - 1].to
  BY <1>2, <1>4, <1>5, <1>6
<1>8. times[1 + n] = IF n = 0 THEN d.booked ELSE d.moves[n].to
  BY <1>2, <1>4, <1>5, <1>6
<1> QED
  BY <1>2, <1>6, <1>7, <1>8 DEF Held, one, rest, n

(* There is no delivery at first. *)
LEMMA MovesInit == Init => MovesInOrder
  BY DEF Init, MovesInOrder

(* A step that touches no time, no history and no rescheduling. *)
LEMMA MovesStay ==
    ASSUME BookingInv, MovesInOrder,
           \A q \in Requests :
              \/ /\ req'[q].at = req[q].at /\ req'[q].doc = req[q].doc
                 /\ req'[q].time = req[q].time /\ req'[q].from = req[q].from
              \/ req[q].at \notin Rescheduling /\ req'[q].at \notin Rescheduling,
           muddled' = muddled, DOMAIN deliveries' = DOMAIN deliveries,
           \A d \in DOMAIN deliveries :
              /\ deliveries'[d].scheduled = deliveries[d].scheduled
              /\ deliveries'[d].booked = deliveries[d].booked
              /\ deliveries'[d].moves = deliveries[d].moves
    PROVE  MovesInOrder'
<1> SUFFICES ASSUME NEW d \in DOMAIN deliveries \ muddled
             PROVE  /\ Chained(deliveries'[d])
                    /\ \A p, q \in Requests : On(p, d)' /\ On(q, d)' => p = q
                    /\ \A q \in Requests : req'[q].doc = d =>
                          /\ req'[q].at \in {"slot", "remember"} =>
                                /\ req'[q].from = deliveries'[d].scheduled
                                /\ deliveries'[d].scheduled = Held(deliveries'[d])
                          /\ req'[q].at = "move" => req'[q].time = Held(deliveries'[d])
                    /\ (\A q \in Requests : ~On(q, d)') =>
                          deliveries'[d].scheduled = Held(deliveries'[d])
  BY DEF MovesInOrder
<1>1. Held(deliveries'[d]) = Held(deliveries[d]) /\ Chained(deliveries'[d])
  BY DEF MovesInOrder, Held, Chained
<1>2. \A q \in Requests : On(q, d)' <=> On(q, d)
  BY DEF On
<1>3. \A q \in Requests : req'[q].at \in Rescheduling =>
          /\ req'[q].at = req[q].at /\ req'[q].doc = req[q].doc
          /\ req'[q].time = req[q].time /\ req'[q].from = req[q].from
  OBVIOUS
<1> QED
  BY <1>1, <1>2, <1>3 DEF MovesInOrder, Rescheduling

(* A rescheduling gives up before it did anything. *)
LEMMA MovesEnd ==
    ASSUME BookingInv, MovesInOrder, NEW q \in Requests,
           req'[q].at = "idle", \A p \in Requests \ {q} : req'[p] = req[p],
           deliveries' = deliveries, muddled \subseteq muddled',
           req[q].at = "move" => req[q].doc \in muddled'
    PROVE  MovesInOrder'
<1> SUFFICES ASSUME NEW d \in DOMAIN deliveries \ muddled'
             PROVE  /\ Chained(deliveries[d])
                    /\ \A p, r \in Requests : On(p, d)' /\ On(r, d)' => p = r
                    /\ \A r \in Requests : req'[r].doc = d =>
                          /\ req'[r].at \in {"slot", "remember"} =>
                                /\ req'[r].from = deliveries[d].scheduled
                                /\ deliveries[d].scheduled = Held(deliveries[d])
                          /\ req'[r].at = "move" => req'[r].time = Held(deliveries[d])
                    /\ (\A r \in Requests : ~On(r, d)') =>
                          deliveries[d].scheduled = Held(deliveries[d])
  BY DEF MovesInOrder
<1>1. \A r \in Requests : On(r, d)' => On(r, d) /\ r # q /\ req'[r] = req[r]
  BY DEF On, Rescheduling
<1>2. \A r \in Requests : On(r, d) => On(r, d)' \/ (r = q /\ req[q].at \in {"slot", "remember"})
  BY DEF On, Rescheduling
<1>3. (\A r \in Requests : ~On(r, d)') => deliveries[d].scheduled = Held(deliveries[d])
  BY <1>2 DEF MovesInOrder, On
<1> QED
  BY <1>1, <1>3 DEF MovesInOrder, On, Rescheduling

(* A move from where the history ends makes it longer. *)
LEMMA MoveAdded ==
    ASSUME NEW d \in DeliveryType, NEW e, NEW t \in Times, Held(d) \in Times, Chained(d),
           e.booked = d.booked, e.moves = Append(d.moves, [from |-> Held(d), to |-> t])
    PROVE  Chained(e) /\ Held(e) = t
<1> DEFINE n == Len(d.moves)
           move == [from |-> Held(d), to |-> t]
<1>1. d.moves \in Seq(MoveType) /\ move \in MoveType
  BY DEF DeliveryType, MoveType
<1>2. move.from = Held(d) /\ move.to = t
  OBVIOUS
<1> HIDE DEF move
<1>3. /\ n \in Nat /\ Len(e.moves) = n + 1
      /\ \A k \in 1..n : e.moves[k] = d.moves[k]
      /\ e.moves[n + 1] = move
  BY <1>1, AppendProperties, LenProperties DEF move
<1>4. Held(e) = t
  BY <1>2, <1>3 DEF Held
<1>5. ASSUME NEW k \in 1..(n + 1)
      PROVE  e.moves[k].from = IF k = 1 THEN e.booked ELSE e.moves[k - 1].to
  <2>1. CASE k \in 1..n
    BY <1>3, <2>1 DEF Chained
  <2>2. CASE k = n + 1
    BY <1>2, <1>3, <2>2 DEF Held
  <2> QED
    BY <1>3, <2>1, <2>2
<1> QED
  BY <1>3, <1>4, <1>5 DEF Chained

(* Every step keeps the history in order. *)
LEMMA MovesStep ==
    ASSUME BookingInv, MovesInOrder, [Next]_vars
    PROVE  MovesInOrder'
<1>1. CASE UNCHANGED vars
  BY <1>1, MovesStay DEF vars, docs, history
<1>2. ASSUME NEW q \in Requests, DeactivateOthers(q) \/ Activate(q)
      PROVE  MovesInOrder'
  <2>1. Finish(q) /\ UNCHANGED <<deliveries, muddled>> /\ req[q].at \notin Rescheduling
    BY <1>2 DEF DeactivateOthers, Activate, At, Rescheduling
  <2> QED
    BY <2>1, FinishRequests, MovesStay DEF Rescheduling
<1>3. ASSUME NEW q \in Requests, DeactivateFirst(q)
      PROVE  MovesInOrder'
  <2>1. UNCHANGED <<deliveries, muddled>>
    BY <1>3 DEF DeactivateFirst, history
  <2> QED
    BY <1>3, <2>1, DeactivateFirstGoes, MovesStay DEF Rescheduling
<1>4. ASSUME NEW q \in Requests, NEW x \in RequestType, BeginActivating(q, x),
             x.at \in Activating, UNCHANGED <<deliveries, muddled>>
      PROVE  MovesInOrder'
  <2>1. req[q].at \notin Rescheduling /\ req'[q].at \notin Rescheduling
    BY <1>4, BeginRequests DEF Rescheduling, Activating
  <2> QED
    BY <1>4, <2>1, BeginRequests, MovesStay
<1>5. ASSUME NEW q \in Requests, NEW c \in Configs, CreatePricingConfig(q, c)
      PROVE  MovesInOrder'
  <2> DEFINE x == [Idle EXCEPT !.at = "others", !.doc = Len(configs) + 1]
  <2>1. /\ BeginActivating(q, x) /\ x \in RequestType /\ x.at = "others"
    BY <1>5, CreatePricingConfigBegins
  <2>2. UNCHANGED <<deliveries, muddled>>
    BY <1>5 DEF CreatePricingConfig
  <2> HIDE DEF x
  <2> QED
    BY <1>4, <2>1, <2>2 DEF Activating
<1>6. ASSUME NEW q \in Requests, NEW i \in DOMAIN configs, StartActivation(q, i)
      PROVE  MovesInOrder'
  <2> DEFINE x == [Idle EXCEPT !.at = "deactivate", !.doc = i]
  <2>1. BeginActivating(q, x) /\ x \in RequestType /\ x.at = "deactivate"
    BY <1>6, StartActivationBegins
  <2>2. UNCHANGED <<deliveries, muddled>>
    BY <1>6 DEF StartActivation, docs
  <2> HIDE DEF x
  <2> QED
    BY <1>4, <2>1, <2>2 DEF Activating
<1>7. ASSUME NEW q \in Requests, NEW o \in Orders, NEW t \in Times, StartRequest(q, o, t)
      PROVE  MovesInOrder'
  <2>1. UNCHANGED <<deliveries, muddled>>
    BY <1>7 DEF StartRequest, docs
  <2> QED
    BY <1>7, <2>1, StartRequestBegins, MovesStay DEF Rescheduling
<1>8. ASSUME NEW i \in DOMAIN configs, Deactivate(i)
      PROVE  MovesInOrder'
  <2>1. UNCHANGED <<deliveries, muddled>>
    BY <1>8 DEF Deactivate
  <2> QED
    BY <1>8, <2>1, DeactivateRequests, MovesStay
<1>9. ASSUME NEW i \in DOMAIN configs, NEW c \in Configs, SetTerms(i, c)
      PROVE  MovesInOrder'
  BY <1>9, MovesStay DEF SetTerms
<1>10. ASSUME NEW t \in Times \union Catalog, NEW p \in TimePricings, ChangeTable(t, p)
       PROVE  MovesInOrder'
  BY <1>10, MovesStay DEF ChangeTable
<1>11. ASSUME NEW d \in DOMAIN deliveries, Lock(d) \/ Unlock(d)
       PROVE  MovesInOrder'
  <2>1. PICK b \in BOOLEAN : deliveries' = [deliveries EXCEPT ![d].canReschedule = b]
    BY <1>11 DEF Lock, Unlock
  <2>2. req' = req /\ muddled' = muddled
    BY <1>11 DEF Lock, Unlock, history
  <2> QED
    BY <2>1, <2>2, LockGoes, MovesStay
<1>12. ASSUME NEW q \in Requests, Fail(q)
       PROVE  MovesInOrder'
  <2>1. /\ deliveries' = deliveries /\ muddled \subseteq muddled'
        /\ req[q].at = "move" => req[q].doc \in muddled'
    BY <1>12 DEF Fail, docs, At
  <2>2. Finish(q)
    BY <1>12 DEF Fail
  <2> QED
    BY <2>1, <2>2, FinishRequests, MovesEnd
<1>13. ASSUME NEW q \in Requests, ReadSlot(q)
       PROVE  MovesInOrder'
  <2>1. UNCHANGED <<deliveries, muddled>>
    BY <1>13 DEF ReadSlot, docs, history
  <2>2. /\ req[q].at = "slot"
        /\ \/ req'[q].at = "idle"
           \/ /\ req'[q].at = "remember" /\ req'[q].doc = req[q].doc
              /\ req'[q].time = req[q].time /\ req'[q].from = req[q].from
        /\ \A p \in Requests \ {q} : req'[p] = req[p]
    BY <1>13, ReadSlotGoes
  <2>3. CASE req'[q].at = "idle"
    BY <2>1, <2>2, <2>3, MovesEnd
  <2>4. CASE req'[q].at = "remember"
    <3>1. \A p \in Requests, d \in DOMAIN deliveries : On(p, d)' <=> On(p, d)
      BY <2>2, <2>4 DEF On, Rescheduling
    <3>2. \A p \in Requests :
             /\ req'[p].doc = req[p].doc /\ req'[p].time = req[p].time /\ req'[p].from = req[p].from
             /\ req'[p].at = "move" <=> req[p].at = "move"
             /\ req'[p].at \in {"slot", "remember"} <=> req[p].at \in {"slot", "remember"}
      BY <2>2, <2>4
    <3> QED
      BY <2>1, <3>1, <3>2 DEF MovesInOrder
  <2> QED
    BY <2>2, <2>3, <2>4
<1>14. ASSUME NEW q \in Requests, CreateDeliveryRequest(q)
       PROVE  MovesInOrder'
  <2> DEFINE n == Len(deliveries) + 1
  <2>1. /\ Finish(q) /\ req[q].at = "price"
        /\ n \notin DOMAIN deliveries
        /\ DOMAIN deliveries' = DOMAIN deliveries \union {n}
        /\ \A e \in DOMAIN deliveries : deliveries'[e] = deliveries[e]
        /\ deliveries'[n].moves = <<>> /\ deliveries'[n].booked = req[q].time
        /\ deliveries'[n].scheduled = req[q].time
    BY <1>14, CreateDeliveryRequestGoes
  <2>2. req'[q].at = "idle" /\ \A p \in Requests \ {q} : req'[p] = req[p]
    BY <2>1, FinishRequests
  <2>3. muddled' = muddled
    BY <1>14 DEF CreateDeliveryRequest, history
  <2>4. \A p \in Requests : req[p].at \in Rescheduling => req[p].doc \in DOMAIN deliveries
    BY DEF BookingInv, RequestsGood, Good
  <2>5. \A p \in Requests : req'[p].at \in Rescheduling => req'[p] = req[p] /\ req[p].doc # n
    BY <2>1, <2>2, <2>4 DEF Rescheduling
  <2>6. \A p \in Requests : ~(req'[p].doc = n /\ req'[p].at \in Rescheduling)
    BY <2>5
  <2> HIDE DEF n
  <2>7. Chained(deliveries'[n]) /\ deliveries'[n].scheduled = Held(deliveries'[n])
    BY <2>1 DEF Chained, Held
  <2>8. \A p \in Requests, d \in DOMAIN deliveries : On(p, d)' <=> On(p, d)
    BY <2>1, <2>2 DEF On, Rescheduling
  <2>9. ASSUME NEW d \in DOMAIN deliveries \ muddled
        PROVE  /\ Chained(deliveries'[d])
               /\ \A p, r \in Requests : On(p, d)' /\ On(r, d)' => p = r
               /\ \A r \in Requests : req'[r].doc = d =>
                     /\ req'[r].at \in {"slot", "remember"} =>
                           /\ req'[r].from = deliveries'[d].scheduled
                           /\ deliveries'[d].scheduled = Held(deliveries'[d])
                     /\ req'[r].at = "move" => req'[r].time = Held(deliveries'[d])
               /\ (\A r \in Requests : ~On(r, d)') =>
                     deliveries'[d].scheduled = Held(deliveries'[d])
    BY <2>1, <2>5, <2>8 DEF MovesInOrder, Rescheduling
  <2>10. ASSUME NEW d, d = n
        PROVE  /\ Chained(deliveries'[d])
               /\ \A p, r \in Requests : On(p, d)' /\ On(r, d)' => p = r
               /\ \A r \in Requests : req'[r].doc = d =>
                     /\ req'[r].at \in {"slot", "remember"} =>
                           /\ req'[r].from = deliveries'[d].scheduled
                           /\ deliveries'[d].scheduled = Held(deliveries'[d])
                     /\ req'[r].at = "move" => req'[r].time = Held(deliveries'[d])
               /\ (\A r \in Requests : ~On(r, d)') =>
                     deliveries'[d].scheduled = Held(deliveries'[d])
    BY <2>6, <2>7, <2>10 DEF On, Rescheduling
  <2> QED
    BY <2>1, <2>3, <2>9, <2>10 DEF MovesInOrder
<1>15. ASSUME NEW q \in Requests, NEW d \in DOMAIN deliveries, NEW t \in Times,
              StartReschedule(q, d, t)
       PROVE  MovesInOrder'
  <2>1. /\ req[q].at = "idle"
        /\ req'[q].at = "slot" /\ req'[q].doc = d /\ req'[q].time = t
        /\ req'[q].from = deliveries[d].scheduled
        /\ \A p \in Requests \ {q} : req'[p] = req[p]
    BY <1>15, StartRescheduleBegins
  <2>2. /\ deliveries' = deliveries
        /\ muddled' = IF \E p \in Others(q, Rescheduling) : req[p].doc = d
                      THEN muddled \union {d} ELSE muddled
    BY <1>15 DEF StartReschedule, docs
  <2>3. ASSUME NEW e \in DOMAIN deliveries \ muddled'
        PROVE  /\ \A p, r \in Requests : On(p, e)' /\ On(r, e)' => p = r
               /\ \A r \in Requests : req'[r].doc = e =>
                     /\ req'[r].at \in {"slot", "remember"} =>
                           /\ req'[r].from = deliveries[e].scheduled
                           /\ deliveries[e].scheduled = Held(deliveries[e])
                     /\ req'[r].at = "move" => req'[r].time = Held(deliveries[e])
               /\ (\A r \in Requests : ~On(r, e)') => deliveries[e].scheduled = Held(deliveries[e])
    <3>0. e \in DOMAIN deliveries \ muddled
      BY <2>2
    <3>1. CASE e = d
      <4>1. \A p \in Requests \ {q} : ~On(p, e) /\ ~On(p, e)'
        BY <2>1, <2>2, <2>3, <3>1 DEF On, Others
      <4>2. ~On(q, e)
        BY <2>1 DEF On, Rescheduling
      <4>3. deliveries[e].scheduled = Held(deliveries[e])
        BY <3>0, <4>1, <4>2 DEF MovesInOrder
      <4>4. On(q, e)'
        BY <2>1, <3>1 DEF On, Rescheduling
      <4> QED
        BY <2>1, <3>1, <4>1, <4>3, <4>4 DEF On, Rescheduling
    <3>2. CASE e # d
      <4>1. \A p \in Requests : On(p, e)' <=> On(p, e)
        BY <2>1, <3>2 DEF On, Rescheduling
      <4>2. \A p \in Requests : req'[p].doc = e => req'[p] = req[p]
        BY <2>1, <3>2
      <4> QED
        BY <3>0, <4>1, <4>2 DEF MovesInOrder
    <3> QED
      BY <3>1, <3>2
  <2>4. \A e \in DOMAIN deliveries \ muddled' : Chained(deliveries[e])
    BY <2>2 DEF MovesInOrder
  <2> QED
    BY <2>2, <2>3, <2>4 DEF MovesInOrder
<1>16. ASSUME NEW q \in Requests, AddRescheduleHistory(q)
       PROVE  MovesInOrder'
  <2> DEFINE d == req[q].doc
  <2>1. /\ req[q].at = "remember" /\ d \in DOMAIN deliveries
        /\ req'[q].at = "move" /\ req'[q].doc = d /\ req'[q].time = req[q].time
        /\ \A p \in Requests \ {q} : req'[p] = req[p]
        /\ deliveries'[d].scheduled = deliveries[d].scheduled
        /\ deliveries'[d].booked = deliveries[d].booked
        /\ deliveries'[d].moves = Append(deliveries[d].moves,
                                         [from |-> req[q].from, to |-> req[q].time])
        /\ \A e \in DOMAIN deliveries \ {d} : deliveries'[e] = deliveries[e]
        /\ DOMAIN deliveries' = DOMAIN deliveries
    BY <1>16, AddRescheduleHistoryGoes
  <2>2. muddled' = muddled
    BY <1>16 DEF AddRescheduleHistory, history
  <2>3. req[q].time \in Times /\ req[q].from \in Times
    BY <2>1 DEF BookingInv, RequestsGood, Good, Rescheduling
  <2>4. deliveries[d] \in DeliveryType
    BY <2>1, Indices DEF BookingInv, TypeOK
  <2> HIDE DEF d
  <2>5. ASSUME NEW e \in DOMAIN deliveries \ muddled
        PROVE  /\ Chained(deliveries'[e])
               /\ \A p, r \in Requests : On(p, e)' /\ On(r, e)' => p = r
               /\ \A r \in Requests : req'[r].doc = e =>
                     /\ req'[r].at \in {"slot", "remember"} =>
                           /\ req'[r].from = deliveries'[e].scheduled
                           /\ deliveries'[e].scheduled = Held(deliveries'[e])
                     /\ req'[r].at = "move" => req'[r].time = Held(deliveries'[e])
               /\ (\A r \in Requests : ~On(r, e)') =>
                     deliveries'[e].scheduled = Held(deliveries'[e])
    <3>1. \A p \in Requests : On(p, e)' <=> On(p, e)
      BY <2>1 DEF On, Rescheduling, d
    <3>2. \A p, r \in Requests : On(p, e)' /\ On(r, e)' => p = r
      BY <2>5, <3>1 DEF MovesInOrder
    <3>3. CASE e = d
      <4>1. On(q, e) /\ On(q, e)'
        BY <2>1, <3>3 DEF On, Rescheduling, d
      <4>2. req[q].from = Held(deliveries[d]) /\ Chained(deliveries[d])
        BY <2>1, <2>5, <3>3 DEF MovesInOrder, d
      <4>3. Chained(deliveries'[d]) /\ Held(deliveries'[d]) = req[q].time
        BY <2>1, <2>3, <2>4, <4>2, MoveAdded
      <4>4. \A r \in Requests : req'[r].doc = e /\ req'[r].at \in Rescheduling => r = q
        BY <3>2, <4>1 DEF On
      <4> QED
        BY <2>1, <3>2, <3>3, <4>1, <4>3, <4>4 DEF Rescheduling
    <3>4. CASE e # d
      <4>1. \A p \in Requests : req'[p].doc = e => req'[p] = req[p]
        BY <2>1, <3>4
      <4> QED
        BY <2>1, <2>5, <3>1, <3>4, <4>1 DEF MovesInOrder
    <3> QED
      BY <3>3, <3>4
  <2> QED
    BY <2>1, <2>2, <2>5 DEF MovesInOrder
<1>17. ASSUME NEW q \in Requests, UpdateScheduledTime(q)
       PROVE  MovesInOrder'
  <2> DEFINE d == req[q].doc
  <2>1. /\ req[q].at = "move" /\ d \in DOMAIN deliveries /\ Finish(q)
        /\ deliveries'[d].scheduled = req[q].time
        /\ deliveries'[d].booked = deliveries[d].booked
        /\ deliveries'[d].moves = deliveries[d].moves
        /\ \A e \in DOMAIN deliveries \ {d} : deliveries'[e] = deliveries[e]
        /\ DOMAIN deliveries' = DOMAIN deliveries
    BY <1>17, UpdateScheduledTimeGoes
  <2>2. req'[q].at = "idle" /\ \A p \in Requests \ {q} : req'[p] = req[p]
    BY <2>1, FinishRequests
  <2>3. muddled' = muddled
    BY <1>17 DEF UpdateScheduledTime, history
  <2>4. \A e \in DOMAIN deliveries : Held(deliveries'[e]) = Held(deliveries[e])
    BY <2>1 DEF Held
  <2>5. \A e \in DOMAIN deliveries : Chained(deliveries[e]) => Chained(deliveries'[e])
    BY <2>1 DEF Chained
  <2> HIDE DEF d
  <2>6. ASSUME NEW e \in DOMAIN deliveries \ muddled
        PROVE  /\ \A p, r \in Requests : On(p, e)' /\ On(r, e)' => p = r
               /\ \A r \in Requests : req'[r].doc = e =>
                     /\ req'[r].at \in {"slot", "remember"} =>
                           /\ req'[r].from = deliveries'[e].scheduled
                           /\ deliveries'[e].scheduled = Held(deliveries'[e])
                     /\ req'[r].at = "move" => req'[r].time = Held(deliveries'[e])
               /\ (\A r \in Requests : ~On(r, e)') =>
                     deliveries'[e].scheduled = Held(deliveries'[e])
    <3>1. \A r \in Requests : On(r, e)' => On(r, e) /\ r # q /\ req'[r] = req[r]
      BY <2>2 DEF On, Rescheduling
    <3>2. CASE e = d
      <4>1. On(q, e)
        BY <2>1, <3>2 DEF On, Rescheduling, d
      <4>2. \A r \in Requests : ~On(r, e)'
        BY <2>6, <3>1, <4>1 DEF MovesInOrder
      <4>3. deliveries'[e].scheduled = Held(deliveries'[e])
        BY <2>1, <2>4, <2>6, <3>2 DEF MovesInOrder, d
      <4> QED
        BY <4>2, <4>3 DEF On, Rescheduling
    <3>3. CASE e # d
      <4>1. \A r \in Requests : On(r, e) => On(r, e)'
        BY <2>2, <3>3 DEF On, d
      <4> QED
        BY <2>1, <2>4, <2>6, <3>1, <3>3, <4>1 DEF MovesInOrder, On, Rescheduling
    <3> QED
      BY <3>2, <3>3
  <2> QED
    BY <2>1, <2>3, <2>5, <2>6 DEF MovesInOrder
<1> QED
  BY <1>1, <1>2, <1>3, <1>5, <1>6, <1>7, <1>8, <1>9, <1>10, <1>11, <1>12, <1>13, <1>14,
     <1>15, <1>16, <1>17, TableChanges DEF Next, Step, Start

-----------------------------------------------------------------------------
(* The theorems. *)

(* Every document, price and request has its type: no part of a price is   *)
(* negative, whatever the configs, the orders and the times.               *)
THEOREM Typed == Spec => []TypeOK
<1>1. BookingInv => TypeOK
  BY DEF BookingInv
<1> QED
  BY <1>1, BookingInvariant, PTL

(* computeDeliveryPricing: the customer pays for what the rider gets, for  *)
(* every config, order and slot.                                           *)
THEOREM SharesAreCovered == Spec => []PriceCoversShare
<1>1. BookingInv => PriceCoversShare
  BY DEF BookingInv, DeliveriesGood, PriceGood, PriceCoversShare
<1> QED
  BY <1>1, BookingInvariant, PTL

(* rescheduleDelivery: no sequence of reschedulings, whichever requests    *)
(* cross or stop, brings a delivery to a time that its price does not pay. *)
THEOREM TimesArePaid == Spec => []TimeIsPaid
<1>1. BookingInv => TimeIsPaid
  BY DEF BookingInv, DeliveriesGood, PriceGood, TimeIsPaid
<1> QED
  BY <1>1, BookingInvariant, PTL

(* "Lock rescheduling once rider accepts": no step moves a delivery that   *)
(* is locked, unless its request had read it before.                       *)
THEOREM LocksHold == Spec => LockedStaysPut
<1>1. ASSUME BookingInv, LockRead, [Next]_vars
      PROVE  [\A d \in DOMAIN deliveries \ late :
                 ~deliveries[d].canReschedule => deliveries'[d].scheduled = deliveries[d].scheduled]_vars
  <2> SUFFICES ASSUME Next, NEW d \in DOMAIN deliveries \ late, ~deliveries[d].canReschedule
               PROVE  deliveries'[d].scheduled = deliveries[d].scheduled
    BY <1>1
  <2>1. ASSUME deliveries' = deliveries
        PROVE  deliveries'[d].scheduled = deliveries[d].scheduled
    BY <2>1
  <2>2. ASSUME NEW q \in Requests, CreateDeliveryRequest(q)
        PROVE  deliveries'[d].scheduled = deliveries[d].scheduled
    BY <1>1, <2>2, CreateDeliveryRequestGoes
  <2>3. ASSUME NEW q \in Requests, AddRescheduleHistory(q)
        PROVE  deliveries'[d].scheduled = deliveries[d].scheduled
    BY <1>1, <2>3, AddRescheduleHistoryGoes
  <2>4. ASSUME NEW q \in Requests, UpdateScheduledTime(q)
        PROVE  deliveries'[d].scheduled = deliveries[d].scheduled
    <3>1. req[q].doc # d
      BY <1>1, <2>4, UpdateScheduledTimeGoes DEF LockRead, Rescheduling
    <3> QED
      BY <1>1, <2>4, <3>1, UpdateScheduledTimeGoes
  <2>5. ASSUME NEW e \in DOMAIN deliveries, Lock(e) \/ Unlock(e)
        PROVE  deliveries'[d].scheduled = deliveries[d].scheduled
    <3>1. PICK b \in BOOLEAN : deliveries' = [deliveries EXCEPT ![e].canReschedule = b]
      BY <2>5 DEF Lock, Unlock
    <3> QED
      BY <1>1, <3>1, LockGoes
  <2>6. CASE \E q \in Requests : Step(q) \/ Start(q) \/ Fail(q)
    <3>1. PICK q \in Requests : Step(q) \/ Start(q) \/ Fail(q)
      BY <2>6
    <3>2. CASE Step(q)
      BY <2>1, <2>2, <2>3, <2>4, <3>2 DEF Step, DeactivateOthers, DeactivateFirst, Activate,
         ReadSlot, docs, history
    <3>3. CASE Start(q)
      BY <2>1, <3>3 DEF Start, CreatePricingConfig, StartActivation, StartRequest,
         StartReschedule, docs
    <3>4. CASE Fail(q)
      BY <2>1, <3>4 DEF Fail, docs
    <3> QED
      BY <3>1, <3>2, <3>3, <3>4
  <2>7. CASE \E i \in DOMAIN configs : Deactivate(i) \/ \E c \in Configs : SetTerms(i, c)
    BY <2>1, <2>7 DEF Deactivate, SetTerms
  <2>8. CASE TimeTable \/ ZoneTable \/ CatalogTables
    BY <2>1, <2>8, TableChanges DEF ChangeTable
  <2> QED
    BY <2>5, <2>6, <2>7, <2>8 DEF Next
<1> QED
  BY <1>1, BookingInvariant, LockReadInit, LockReadStep, PTL DEF Spec, LockedStaysPut

(* "Deactivate all other configs": activations that do not cross or stop   *)
(* leave one active config, and one that runs alone mends what others did. *)
THEOREM OneConfigHolds == Spec => []OneConfig
<1>1. ActivationsInOrder => OneConfig
  <2> SUFFICES ASSUME ActivationsInOrder, \A q \in Requests : req[q].at \notin Activating, ~unsettled
               PROVE  Cardinality(Active) = 1 \/ (Active = {} /\ withdrawn)
    BY DEF OneConfig
  <2>1. (\E i : Active = {i}) \/ (Active = {} /\ withdrawn)
    BY DEF ActivationsInOrder
  <2>2. \A i : Cardinality({i}) = 1
    BY FS_Singleton
  <2> QED
    BY <2>1, <2>2
<1> QED
  BY <1>1, BookingInvariant, ActivationsInit, ActivationsStep, PTL DEF Spec

(* addRescheduleHistory: the history of a delivery is a chain that ends at *)
(* its time, where no two reschedulings crossed and none stopped.          *)
THEOREM HistoriesAreChains == Spec => []HistoryIsChain
<1>1. BookingInv /\ MovesInOrder => HistoryIsChain
  <2> SUFFICES ASSUME BookingInv, MovesInOrder, NEW d \in DOMAIN deliveries \ muddled
               PROVE  LET moves == deliveries[d].moves
                          times == <<deliveries[d].booked>> \o [k \in DOMAIN moves |-> moves[k].to]
                      IN /\ \A k \in DOMAIN moves : moves[k].from = times[k]
                         /\ Resting(d) => deliveries[d].scheduled = times[Len(times)]
    BY DEF HistoryIsChain
  <2>1. deliveries[d] \in DeliveryType
    BY Indices DEF BookingInv, TypeOK
  <2>2. Chained(deliveries[d])
    BY DEF MovesInOrder
  <2>3. Resting(d) => deliveries[d].scheduled = Held(deliveries[d])
    BY DEF MovesInOrder, Resting, On
  <2> DEFINE times == <<deliveries[d].booked>>
                         \o [k \in DOMAIN deliveries[d].moves |-> deliveries[d].moves[k].to]
  <2>4. /\ DOMAIN deliveries[d].moves = 1..Len(deliveries[d].moves)
        /\ \A k \in DOMAIN deliveries[d].moves :
              times[k] = IF k = 1 THEN deliveries[d].booked ELSE deliveries[d].moves[k - 1].to
        /\ times[Len(times)] = Held(deliveries[d])
    BY <2>1, TimesOfMoves
  <2>5. \A k \in DOMAIN deliveries[d].moves : deliveries[d].moves[k].from = times[k]
    <3> HIDE DEF times
    <3> QED
      BY <2>2, <2>4 DEF Chained
  <2> QED
    BY <2>3, <2>4, <2>5
<1> QED
  BY <1>1, BookingInvariant, MovesInit, MovesStep, PTL DEF Spec
=============================================================================
