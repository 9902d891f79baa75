CONSTANTS
  Requests = {r1, r2}
  Technicians = {dana}
  Nobody = Nobody
SPECIFICATION Spec
SYMMETRY Symmetry
INVARIANTS
  PaymentsAccounted
  WorkIsAccounted
PROPERTY ClosedStaysClosed
CHECK_DEADLOCK FALSE
