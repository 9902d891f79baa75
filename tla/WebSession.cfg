CONSTANTS
  Users = {u1, u2}
  Nobody = Nobody
  MaxSessions = 2
  MaxGen = 2
  t1 = t1
  t2 = t2
  Tabs = {t1, t2}
  c1 = c1
  c2 = c2
  Calls = {c1, c2}
  TabOf <- FirstTab
  KindOf <- OneOfEach
  MaxAged = 1
  MaxFaults = 1
SPECIFICATION Spec
SYMMETRY Symmetry
INVARIANTS
  CacheIsTheUsers
  ReuseOnlyAfterLoss
  UploadsRunAsTheirAuthor
CHECK_DEADLOCK FALSE
