CONSTANTS
  ann = ann
  ben = ben
  tim = tim
  m1 = m1
  m2 = m2
  p1 = p1
  p2 = p2
  kim = kim
  lou = lou
  Users = {ann, ben, tim}
  FirstRole <- RolesOfTwo
  Changes <- BothWays
  Jobs = {j1, j2}
  Windows <- Appointments
  Transactions = {t1, t2}
  Nobody = Nobody
  Kinds = {"shop", "intake", "stock", "sku", "type", "category", "product", "model"}
  Media = {m1, m2}
  MaxVersion = 2
  MaxMishaps <- Mishaps
  NewKinds = {"category", "model", "product"}
  Drafts = {m1, m2}
  MaxRecords = 2
  MaxLosses = 1
  MaxTouches = 1
  Pages = {p1, p2}
  Staff = {kim, lou}
  MaxMounts = 2
  MaxBroken = 1
  MaxMoves = 3
SPECIFICATION ConsoleSpec
SYMMETRY Symmetry
INVARIANTS
  NothingUnseenIsReplaced
  CatalogPicturesAreKept
  CreatedOnce
  RefundIsAskedOnce
  ReassignedAsReviewed
PROPERTIES
  BookingsAreSound
  OnlyOvertakenRemoveTheLast
CHECK_DEADLOCK FALSE
