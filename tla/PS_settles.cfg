SPECIFICATION FairSpec
CONSTANTS
    Payments = {p1}
    Deliveries = {d1}
    Quick = {d1}
    Handlers = {h1, h2}
    NoPayment = NoPayment
    NoDelivery = NoDelivery
    MaxNotices = 1
    MaxRefunds = 1
    MayFail = FALSE
    MayReverse = FALSE
    MayExpire = TRUE
CHECK_DEADLOCK FALSE
INVARIANT CacheIsCleared
PROPERTIES
    FundingSettles
    DeliverySettles
