CONSTANTS
  Users <- MCUsers
  Departments <- MCDepartments
  Sbus <- MCSbus
  LineItems <- MCLineItems
  OwnerDepartment <- MCOwnerDepartment
  CentralizedReviewer <- MCCentralizedReviewer
  DepartmentOf <- MCDepartmentOf
  Roles <- MCRoles
  DepartmentalCap <- MCDepartmentalCap
  Amounts <- MCAmounts
  Requests = {r1}
  Origins <- MCOrigins
  Pickable = {"officer"}
  Deadlines = {}
  MaxPostings = 2
  Calls = {c1}
  LateKinds <- Kinds
  NoCall = NoCall
  NoUser = NoUser
  NoSbu = NoSbu
  NoItem = NoItem
  NoRow = NoRow
  NoLine = NoLine

SPECIFICATION RacesSpec

CHECK_DEADLOCK FALSE

INVARIANT
  PostedWithItsLine
