CONSTANTS
  Customers = {alice, bob}
  Skus = {beans}
  Keys = {k1}
  CartTTL = 1
  PaymentTTL = 1
  BatchSize = 1
  InitialStock = 2
  Unlimited = Unlimited
  CartsPerCustomer = 1
  MaxQty = 2
  MaxStock = 2
  MaxCorrections = 1
  MaxTime = 2
SPECIFICATION FairSpec
INVARIANTS
  NoOversell
  MoneyFollowsOrders
PROPERTY DueRowsClose
CHECK_DEADLOCK FALSE
