CONSTANTS
  Users <- MCUsers
  Departments <- MCDepartments
  Sbus <- MCSbus
  LineItems <- MCLineItems
  OwnerDepartment <- MCOwnerDepartment
  CentralizedReviewer <- MCCentralizedReviewer
  DepartmentOf <- MCDepartmentOf
  Roles <- MCRoles
  DepartmentalCap <- MCDepartmentalCap
  Amounts <- MCAmounts
  Requests = {r1}
  Origins <- GaeOrigins
  Pickable = {"central"}
  Deadlines <- NoDeadlines
  MaxPostings = 2
  NoUser = NoUser
  NoSbu = NoSbu
  NoItem = NoItem
  NoRow = NoRow
  NoLine = NoLine

SPECIFICATION Spec

INVARIANT
  CutWithinProposed
