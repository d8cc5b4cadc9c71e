SPECIFICATION FairSpec
CONSTANTS
    NumPayments = 2
    Pollers = {}
    EventIds = {e1}
    MaxAge = 1
    MaxCrashes = 0
INVARIANTS
    AcknowledgedIsAccounted
PROPERTIES
    LateCaptureIsRefunded
    ImplementsSettlement
CHECK_DEADLOCK FALSE
