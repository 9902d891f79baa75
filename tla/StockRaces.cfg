CONSTANTS
  Customers = {alice, bob}
  CartTTL = 2
  PaymentTTL = 1
  InitialStock = 2
  Fresh = Fresh
  MaxQty = 2
  MaxStock = 3
  MaxCorrections = 1
  MaxTime = 4
SPECIFICATION StockSpec
SYMMETRY Symmetry
INVARIANTS
  LockedReadsHold
  StockConserved
CHECK_DEADLOCK FALSE
