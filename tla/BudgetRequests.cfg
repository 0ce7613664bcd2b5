CONSTANTS
  Users <- MCUsers
  Departments <- MCDepartments
  Sbus <- MCSbus
  LineItems <- MCLineItems
  OwnerDepartment <- MCOwnerDepartment
  CentralizedReviewer <- MCCentralizedReviewer
  DepartmentOf <- MCDepartmentOf
  Roles <- MCRoles
  DepartmentalCap <- MCDepartmentalCap
  Amounts = {0, 1}
  Requests = {r1}
  Origins <- AllOrigins
  Pickable = {"central"}
  Deadlines <- TwoDeadlines
  MaxPostings = 2
  NoUser = NoUser
  NoSbu = NoSbu
  NoItem = NoItem
  NoRow = NoRow
  NoLine = NoLine

SPECIFICATION Spec

VIEW
  WhatMatters

INVARIANTS
  TypeOK
  SignedInOrder
  CfoSawOverLimit
  SomeoneCanAct
  ApprovedHasItsLine
PROPERTIES
  DueDateBlocks
  ImplementsLifecycle
