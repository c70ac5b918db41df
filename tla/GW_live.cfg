SPECIFICATION Spec
CONSTANTS
    Services = {v1, v2}
    Sockets = {s1, s2}
    Gone = Gone
    Nobody = Nobody
    HistoryLimit = 1
    MaxTraffic = 2
    MaxRequests = 4
SYMMETRY Symmetry
CHECK_DEADLOCK FALSE
INVARIANTS
    UserIsReached
    
    
