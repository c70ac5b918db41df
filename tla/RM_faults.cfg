SPECIFICATION Spec
CONSTANTS
    Deliveries = {d1}
    Riders = {r1, r2}
    Tasks = {t1, t2}
    Requests = {q1}
    NoRider = NoRider
    NoDelivery = NoDelivery
    NoHash = NoHash
    MaxRiders = 2
    MaxGiveBacks = 1
    MaxFaults = 1
    MayPay = FALSE
    MayCancel = TRUE
SYMMETRY Symmetry
CHECK_DEADLOCK FALSE
INVARIANTS
    TypeOK
    SearchHasOwner
