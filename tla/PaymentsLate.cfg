SPECIFICATION FairSpec
CONSTANTS
    NumPayments = 1
    Pollers = {w1}
    EventIds = {e1}
    MaxAge = 1
    MaxCrashes = 0
PROPERTIES
    LateCaptureIsRefunded
CHECK_DEADLOCK FALSE
