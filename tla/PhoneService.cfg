CONSTANTS
  b1 = b1
  b2 = b2
  m1 = m1
  m2 = m2
  Brands = {b1, b2}
  Models = {m1, m2}
  BrandOf <- TwoBrands
  NoChoice = NoChoice
  MaxPicks = 2
  MaxEdits = 3
  MaxLosses = 1
  Texts = {t1}
  NoText = NoText
  MaxScreens = 3
  MaxDrafts = 2
  MaxQueue = 1
  MaxFaults = 1
  Requests = {mine}
  Technicians = {dana}
  Nobody = Nobody
  Mine = mine
  MaxVisits = 1
  MaxRetries = 1
  MaxLost = 1
SPECIFICATION ServiceSpec
INVARIANTS
  PhotoIsSafe
  SubmittedOnce
  PaymentIsHonest
PROPERTY VerifiedIsShown
CHECK_DEADLOCK FALSE
