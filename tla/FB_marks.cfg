SPECIFICATION FeedbackSpec
CONSTANTS
    Deliveries = {d1, d2}
    Scores = {4, 5}
    Statuses = {"open", "in_review", "resolved"}
    NoDelivery = NoDelivery
    Requests = {q1, q2}
    MaxDocuments = 2
    MaxWords = 1
    MaxFaults = 1
SYMMETRY Symmetry
INVARIANTS
    MarksAgree
    AverageIsCurrent
PROPERTY ClosedIsQuiet
CHECK_DEADLOCK FALSE
