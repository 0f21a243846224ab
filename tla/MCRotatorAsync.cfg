SPECIFICATION AsyncFairSpec
CONSTANTS
    t1 = t1
    t2 = t2
    NoTarget = NoTarget
    Targets <- const_Targets
    MaxSubmits <- const_MaxSubmits
INVARIANTS
    LastOrderWins
PROPERTIES
    OrdersKept
    SetDelivered
    MainComesBack
