SPECIFICATION Spec
CONSTANTS
    Deliveries = {d1, d2}
    Scheduled = {d1}
    Price <- MCPrice
    NewPrices = {3}
    Fundings = {f1}
    Amount <- MCAmount
    Fees = {0, 2}
    NoDelivery = NoDelivery
    Requests = {q1, q2}
    MaxPayments = 2
    MaxSyncs = 1
    MaxAdjusts = 1
    MaxFaults = 1
SYMMETRY Symmetry
INVARIANTS
    BooksAgree
    NotOverdrawn
    
    
CHECK_DEADLOCK FALSE
