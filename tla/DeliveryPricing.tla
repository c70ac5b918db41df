-------------------------- MODULE DeliveryPricing --------------------------
(***************************************************************************)
(* computeDeliveryPricing, the arithmetic that user-api and admin-api      *)
(* share.  Amounts are whole naira, and multipliers, rates and shares are  *)
(* in percent: 150 is a multiplier of 1.5, 80 a commission of 0.8.         *)
(*                                                                         *)
(* An order is what the caller looked up before: the distance, in tenths   *)
(* of a kilometre, the multipliers of its category and its pickup zone,    *)
(* whether it leaves the zone, its flat fees and its coupon.  Currency and *)
(* names are left out.                                                     *)
(***************************************************************************)
EXTENDS Integers

(* Math.round(n / d), for d > 0: halves go up. *)
Round(n, d) == (2 * n + d) \div (2 * d)

AtLeast(x, y) == IF x < y THEN y ELSE x
AtMost(x, y)  == IF x > y THEN y ELSE x

(* A limit that is not set, or zero, does not bite. *)
Limit(x, most) == IF most = 0 THEN x ELSE AtMost(x, most)

Config ==
    [baseDeliveryFee : Nat, pricePerKm : Nat, minimumDeliveryFee : Nat,
     maximumDeliveryFee : Nat, interZoneMultiplier : Nat, serviceFeePercentage : Nat,
     minimumServiceFee : Nat, maximumServiceFee : Nat, fctDevelopmentLevy : Nat,
     riderCommissionPercentage : 0..100, minimumRiderPayout : Nat]

Coupon == [type : {"none", "percentage", "fixed"}, value : Nat, maxDiscountAmount : Nat]
Order  ==
    [distance : Nat, fees : Nat, category : Nat, zone : Nat, interZone : BOOLEAN,
     coupon : Coupon]

(* The price of a time of day.  If no slot covers it, its multiplier is 1.0. *)
TimePricing == [priceMultiplier : Nat, additionalFee : Nat, isActive : BOOLEAN]
NoTimePricing == [priceMultiplier |-> 100, additionalFee |-> 0, isActive |-> FALSE]

-----------------------------------------------------------------------------
DistancePart(c, o) == c.baseDeliveryFee + Round(o.distance * c.pricePerKm, 10)

(* Each multiplier adds its own share of the base: they are not chained.   *)
PreMultiplierBase(c, o, t) == DistancePart(c, o) + t.additionalFee + o.fees
Share(base, multiplier)    == Round(base * (multiplier - 100), 100)

Multiplied(c, o, t) ==
    LET base == PreMultiplierBase(c, o, t)
    IN base + Share(base, o.category) + Share(base, o.zone) + Share(base, t.priceMultiplier)
            + (IF o.interZone THEN Share(base, c.interZoneMultiplier) ELSE 0)

Subtotal(c, o, t) ==
    Limit(AtLeast(Multiplied(c, o, t), c.minimumDeliveryFee), c.maximumDeliveryFee)
        + c.fctDevelopmentLevy

ServiceFee(c, o) ==
    Limit(AtLeast(Round(DistancePart(c, o) * c.serviceFeePercentage, 100), c.minimumServiceFee),
          c.maximumServiceFee)

(* Mutant: a coupon is not limited to the price it is used on. *)
DiscountMutant(coupon, subtotal) ==
    CASE coupon.type = "none"       -> 0
      [] coupon.type = "percentage" -> Limit(Round(subtotal * coupon.value, 100), coupon.maxDiscountAmount)
      [] coupon.type = "fixed"      -> coupon.value

Discount(coupon, subtotal) ==
    LET amount == CASE coupon.type = "none"       -> 0
                    [] coupon.type = "percentage" -> Limit(Round(subtotal * coupon.value, 100),
                                                           coupon.maxDiscountAmount)
                    [] coupon.type = "fixed"      -> coupon.value
    IN AtMost(amount, subtotal)

RiderEarnings(c, total) ==
    AtLeast(Round(total * c.riderCommissionPercentage, 100), c.minimumRiderPayout)

(* Mutant: the rider's share is that of the price before the discount. *)
PricingMutant(c, o, t) ==
    LET subtotal == Subtotal(c, o, t)
        fee      == ServiceFee(c, o)
        discount == Discount(o.coupon, subtotal)
        total    == subtotal + fee - discount
    IN [subtotal |-> subtotal, serviceFee |-> fee, discountAmount |-> discount,
        totalPrice |-> total, riderEarnings |-> RiderEarnings(c, subtotal + fee),
        timeMultiplier |-> t.priceMultiplier]

(* The breakdown that is saved with the delivery. *)
Pricing(c, o, t) ==
    LET subtotal == Subtotal(c, o, t)
        fee      == ServiceFee(c, o)
        discount == Discount(o.coupon, subtotal)
        total    == subtotal + fee - discount
    IN [subtotal |-> subtotal, serviceFee |-> fee, discountAmount |-> discount,
        totalPrice |-> total, riderEarnings |-> RiderEarnings(c, total),
        timeMultiplier |-> t.priceMultiplier]

PricingType ==
    [subtotal : Nat, serviceFee : Nat, discountAmount : Nat, totalPrice : Nat,
     riderEarnings : Nat, timeMultiplier : Nat]
=============================================================================
