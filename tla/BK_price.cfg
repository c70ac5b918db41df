SPECIFICATION Spec
CONSTANTS
    Configs <- MCConfigs
    Orders <- MCOrders
    t1 = t1
    t2 = t2
    Times = {t1, t2}
    Places = {"island", "mainland"}
    Categories = {"food"}
    Handlings = {"fragile"}
    Tariffs <- MCTariffs
    TimePricings <- MCTimePricings
    NoTime = NoTime
    Requests = {q1, q2}
    MaxDeliveries = 1
    MaxServed = 4
    MaxFaults = 1
SYMMETRY Symmetry
INVARIANTS
    TypeOK
    
    
    HistoryIsChain
    OneConfig
PROPERTY LockedStaysPut
CHECK_DEADLOCK FALSE
