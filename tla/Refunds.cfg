\* Two refund requests (key 2 is the late-payment one), one reconciliation run at a
\* time, one crash.
CONSTANTS
    NumKeys = 2
    Amount = 2
    LateKey = 2
    Jobs = {j1}
    MaxAttempts = 1
    MaxCrashes = 1
    RefusalIsRejection = FALSE
SPECIFICATION Spec
INVARIANTS
    TypeOK
    NeverOverReserved
    
    PaidOutIsCounted
    CouponBackOnlyWhenRefunded
PROPERTIES
    ImplementsLedger
\* A payment with nothing left to refund stops.
CHECK_DEADLOCK FALSE
