CONSTANTS
  Tickets = {t1}
  Calls = {c1, c2}
  Users <- MCUsers
  DeptHeads <- MCDeptHeads
  Holders <- MCHolders
  Amounts <- MCAmounts
  CfoThreshold = 1
  CeoThreshold = 2
  NoTicket = NoTicket
  NoCall = NoCall
  NoUser = NoUser

SPECIFICATION Spec

INVARIANTS
  UploadedIsAuthorised
  SignedInOrder
  SomeoneCanAct
PROPERTIES
  ClosedStaysClosed

CHECK_DEADLOCK FALSE
