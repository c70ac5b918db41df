SPECIFICATION Spec
CONSTANTS
    d1 = d1
    d2 = d2
    Deliveries = {d1, d2}
    Price <- MCPrice
    Percentage = 70
    MinimumPayout = 1
    MinimumAmount = 2
    Amounts = {2, 4}
    References = {w1, w2}
    NoReference = NoReference
    NoDelivery = NoDelivery
    Requests = {q1, q2}
    MaxCredits = 2
    MaxFaults = 1
SYMMETRY Symmetry
INVARIANTS
    BooksBalance
    NeverOverpaid
PROPERTY PaidOutIsFinal
CHECK_DEADLOCK FALSE
