CONSTANTS
  Customers = {alice}
  Skus = {beans, cups}
  Keys = {k1, k2}
  CartTTL = 2
  PaymentTTL = 1
  BatchSize = 1
  InitialStock = 1
  Unlimited = Unlimited
  CartsPerCustomer = 2
  MaxQty = 1
  MaxStock = 2
  MaxCorrections = 1
  MaxTime = 3
SPECIFICATION Spec
SYMMETRY Symmetry
INVARIANT CheckedOutOnce
PROPERTY StockFallsByPaymentOnly
CHECK_DEADLOCK FALSE
