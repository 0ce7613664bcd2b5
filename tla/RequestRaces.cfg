CONSTANTS
  Users <- MCUsers
  Departments <- MCDepartments
  Sbus <- MCSbus
  LineItems <- MCLineItems
  OwnerDepartment <- MCOwnerDepartment
  CentralizedReviewer <- MCCentralizedReviewer
  DepartmentOf <- MCDepartmentOf
  Roles <- MCRoles
  DepartmentalCap <- MCDepartmentalCap
  Amounts = {1}
  Requests = {r1}
  Origins <- MCOrigins
  Pickable = {"officer"}
  Deadlines = {}
  MaxPostings = 2
  Calls = {c1}
  LateKinds <- Kinds
  NoCall = NoCall
  NoUser = NoUser
  NoSbu = NoSbu
  NoItem = NoItem
  NoRow = NoRow
  NoLine = NoLine

SPECIFICATION RacesSpec

CONSTRAINT
  FilledForms

VIEW
  WithoutSignatures

CHECK_DEADLOCK FALSE

INVARIANTS
  EarlierStagesApproved
  ApprovedHasALine
  PublishedIsInSap
PROPERTIES
  RacesKeepLine
