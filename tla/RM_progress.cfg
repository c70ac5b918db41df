SPECIFICATION FairSpec
CONSTANTS
    Deliveries = {d1}
    Riders = {r1}
    Tasks = {t1, t2}
    Requests = {q1}
    NoRider = NoRider
    NoDelivery = NoDelivery
    NoHash = NoHash
    MaxRiders = 2
    MaxGiveBacks = 1
    MaxFaults = 0
    MayPay = TRUE
    MayCancel = TRUE
CHECK_DEADLOCK FALSE
PROPERTIES
    PaidSearchGoesOn
    
