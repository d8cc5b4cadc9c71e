SPECIFICATION Spec
CONSTANTS
  User = {u1, u2, u3}
  NoUser = NoUser
  NumOrders = 3
  NumClaims = 3
  TotalCount = 2
  PerUserLimit = 1
  InitialStock = 2
  MaxQuantity = 2
  NumSales = 0
  Browsers = {}
  Admins = {}
SYMMETRY Customers
INVARIANTS
  TypeOK
  StockAccounted
  
  WithinQuota
CHECK_DEADLOCK FALSE
