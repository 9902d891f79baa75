CONSTANTS
  beans = beans
  mills = mills
  Searches = {beans, mills}
  Nothing = Nothing
  Finds <- TwoSearches
  PerPage = 1
  MaxProducts = 3
  MaxCatalogMoves = 1
  Varieties = {1, 2}
  MaxStock = 2
  MaxOffers = 2
  MaxCatalogFaults = 1
  Skus = {s1}
  MaxQty = 2
  MaxFee = 1
  MaxTaps = 3
  MaxTapsPaying = 1
  MaxFaults = 1
  MaxScreens = 1
  MaxOrders = 1
  MaxMoves = 2
  MaxReplacements = 1
  MaxTrackFaults = 1
  Second = 3
  MaxStamp = 4
  MaxEntries = 5
  Numbers = {1}
  MaxWork = 1
  MaxMishaps = 1
SPECIFICATION ScreensSpec
INVARIANTS
  CatalogIsFollowed
  CacheSettles
  LastTapWins
  OnePaidOrder
  TrackingIsCurrent
  TimelineTellsTheMoves
  MachineIsCurrent
CHECK_DEADLOCK FALSE
