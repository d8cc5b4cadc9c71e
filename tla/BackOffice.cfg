SPECIFICATION Spec
CONSTANTS
  User = {u1}
  NoUser = NoUser
  NumOrders = 2
  NumClaims = 2
  TotalCount = 2
  PerUserLimit = 1
  InitialStock = 2
  MaxQuantity = 1
  NumSales = 1
  Browsers = {u1}
  Admins = {a1}
INVARIANTS
  PaidBeforeShipped
  UsedIsPaid
  
CHECK_DEADLOCK FALSE
