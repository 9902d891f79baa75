CONSTANTS
  Users = {u1, u2}
  Nobody = Nobody
  MaxSessions = 2
  MaxGen = 2
  Calls = {c1, c2}
  MaxNatives = 2
  MaxFaults = 1
  Cooldown = 2
  Window = 4
  RequestLimit = 2
  VerifyLimit = 1
  MaxCodeFaults = 1
  MaxRows = 2
  MaxAtOnce = 2
  MaxBookFaults = 1
  PageSize = 2
  MaxNotices = 3
  MaxLate = 1
  MaxInboxFaults = 1
SPECIFICATION AccountSpec
SYMMETRY Symmetry
INVARIANTS
  ReuseHasACause
  StoreFollowsScreens
  
  SignInIsFair
  AddressesAgree
  NothingIsSkipped
CHECK_DEADLOCK FALSE
