SPECIFICATION Spec
CONSTANTS
  Users = {u1, u2}
  Can <- MCCan
  Sessions = {s1, s2}
  Runs = {1, 2}
  Issues = {k1}
  Approvals = {a1}
  None = None
CHECK_DEADLOCK FALSE
INVARIANTS TypeOK MakerIsNotChecker WaivedWasGranted ClosedRunWasClear
SYMMETRY Symmetry
