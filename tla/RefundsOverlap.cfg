\* One refund and two reconciliation runs that overlap: each works from its own
\* snapshot of the row while the other settles it.
CONSTANTS
    NumKeys = 1
    Amount = 2
    LateKey = 1
    Jobs = {j1, j2}
    MaxAttempts = 2
    MaxCrashes = 1
    RefusalIsRejection = TRUE
SPECIFICATION FairSpec
PROPERTIES
    TerminalIsFinal
    
\* A payment with nothing left to refund stops.
CHECK_DEADLOCK FALSE
