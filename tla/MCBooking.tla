----------------------------- MODULE MCBooking -----------------------------
(* Prices for TLC: orders with a coupon that exceeds the price and with    *)
(* multipliers below one, and times that cost nothing and a little more,   *)
(* which rounding hides from a low price and not from a high one.          *)
EXTENDS Booking, TLC

CONSTANTS t1, t2

MCConfig(base, least, most) ==
    [baseDeliveryFee |-> base, pricePerKm |-> 3, minimumDeliveryFee |-> least,
     maximumDeliveryFee |-> most, interZoneMultiplier |-> 120, serviceFeePercentage |-> 5,
     minimumServiceFee |-> 1, maximumServiceFee |-> 2, fctDevelopmentLevy |-> 1,
     riderCommissionPercentage |-> 80, minimumRiderPayout |-> 4]

MCConfigs == {MCConfig(10, 5, 0), MCConfig(40, 8, 60)}

MCOrder(from, coupon, value) ==
    [distance |-> 15, pickup |-> from, dropoff |-> "mainland", category |-> "food",
     handling |-> "fragile",
     coupon |-> [type |-> coupon, value |-> value, maxDiscountAmount |-> 0]]

MCOrders == {MCOrder("island", "percentage", 50), MCOrder("mainland", "fixed", 20)}

MCTimePricing(multiplier, fee) ==
    [priceMultiplier |-> multiplier, additionalFee |-> fee, isActive |-> TRUE]

MCTimePricings == {NoTimePricing, MCTimePricing(0, 0), MCTimePricing(102, 5)}

MCTariffs ==
    {f \in [{t1, t2, "island", "mainland", "food", "fragile"} -> MCTimePricings] :
        \A x, y \in {"island", "mainland", "food", "fragile"} : f[x] = f[y] /\ f[x] # MCTimePricing(0, 0)}

Symmetry == Permutations(Requests) \union Permutations({t1, t2})
=============================================================================
