CONSTANTS
  Requests = {r1, r2}
  DecidedKinds = {"mobile"}
  Calls = {c1, c2}
  NoCall = NoCall

SPECIFICATION Spec
SYMMETRY Symmetry

INVARIANTS
  TypeOK
  CodesAreSequential
  DecidedInOrder
  ApprovalOpensFollowOns

CHECK_DEADLOCK FALSE
