SPECIFICATION Spec
CONSTANTS
  Rows = {r1, r2}
  NoRow = none
  MaxCalls <- Calls
  FirstRows <- Existing
  MaxWrites <- Writes
  PageOf <- Paged
  Views <- SomeViews
INVARIANTS AckedWritesShown ShelfActionHoldsRow
PROPERTIES SpinnerStops RowReleased
CHECK_DEADLOCK FALSE
