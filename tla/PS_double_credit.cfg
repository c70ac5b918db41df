SPECIFICATION Spec
CONSTANTS
    Payments = {p1}
    Deliveries = {}
    Quick = {}
    Handlers = {h1, h2}
    NoPayment = NoPayment
    NoDelivery = NoDelivery
    MaxNotices = 1
    MaxRefunds = 1
    MayFail = FALSE
    MayReverse = FALSE
    MayExpire = FALSE
CHECK_DEADLOCK FALSE
INVARIANT CreditedAtMostOnce
