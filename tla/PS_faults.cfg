SPECIFICATION Spec
CONSTANTS
    Payments = {p1}
    Deliveries = {d1}
    Quick = {d1}
    Handlers = {h1, h2}
    NoPayment = NoPayment
    NoDelivery = NoDelivery
    MaxNotices = 1
    MaxRefunds = 1
    MayFail = TRUE
    MayReverse = TRUE
    MayExpire = TRUE
CHECK_DEADLOCK FALSE
SYMMETRY Symmetry
INVARIANTS
    TypeOK
    OnlyVerifiedMoneyCounts
    LedgerNeverAhead
    SettledFundingIsFinal
PROPERTY PaidIsNotForgotten
