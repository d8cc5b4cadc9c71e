SPECIFICATION FairSpec
CONSTANTS
    NumPayments = 2
    Pollers = {w1}
    EventIds = {e1}
    MaxAge = 2
    MaxCrashes = 1
INVARIANTS
    PaidMeansCaptured
    OnePending
PROPERTIES
    SuccessStays
    
CHECK_DEADLOCK FALSE
