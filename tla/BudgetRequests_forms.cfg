CONSTANTS
  Users <- MCUsers
  Departments <- MCDepartments
  Sbus <- MCSbus
  LineItems <- MCLineItems
  OwnerDepartment <- MCOwnerDepartment
  CentralizedReviewer <- MCCentralizedReviewer
  DepartmentOf <- MCDepartmentOf
  Roles <- MCRoles
  DepartmentalCap <- MCDepartmentalCap
  Amounts = {0, 1}
  Requests = {r1}
  Origins <- EveryOrigin
  Pickable = {"central"}
  Deadlines <- NoDeadlines
  MaxPostings = 2
  NoUser = NoUser
  NoSbu = NoSbu
  NoItem = NoItem
  NoRow = NoRow
  NoLine = NoLine

SPECIFICATION Spec

VIEW
  WhatMatters

INVARIANTS
  StatusTracksStage
PROPERTIES
  CancelledIsFinal
  ReviewedFormFrozen
  LineIsPermanent
