SPECIFICATION Spec
CONSTANTS
  Convs = {c1, c2}
  NoConv = none
  Late = {c2}
  Window = 1
  MaxMsgs = 3
  MaxCalls = 2
  MaxOps <- Ops
  MaxEvents <- Events
  MaxReconnects = 1
INVARIANTS NoDuplicates NoGhostBubble ReadIsRead
CHECK_DEADLOCK FALSE
