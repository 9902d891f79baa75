CONSTANTS
  Customers = {alice, bob}
  CartTTL = 1
  PaymentTTL = 1
  InitialStock = 2
  Fresh = Fresh
  MaxQty = 2
  MaxStock = 2
  MaxCorrections = 0
  MaxTime = 0
SPECIFICATION StockSpec
SYMMETRY Symmetry
INVARIANT NoOversell
CHECK_DEADLOCK FALSE
