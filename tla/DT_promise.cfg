SPECIFICATION Spec
CONSTANTS
    Deliveries = {d1}
    Riders = {r1, r2}
    Requests = {q1, q2}
    NoRider = NoRider
    Keep = Keep
    MaxConcurrent = 1
    MaxTrips = 1
    MaxPayments = 1
    MaxOverrides = 1
    MaxFaults = 1
    MaxDebt = 1
SYMMETRY Symmetry
INVARIANTS TypeOK CreditNotLost OverrunBounded
PROPERTY PromiseKept
CHECK_DEADLOCK FALSE
