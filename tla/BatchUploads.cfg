CONSTANTS
  Categories = {"REVENUE", "SBU"}
  Templates <- MCTemplates
  BoardAmounts = {3}
  EditAmounts = {2}
  DocThreshold = 1
  MaxRows = 3
  MovingGates = {"REQUEST_AND_AUTHORIZATION"}
  Calls = {c1, c2}
  NoAmount = NoAmount
  NoBatch = NoBatch
  NoRow = NoRow
  NoCall = NoCall

SPECIFICATION Spec
SYMMETRY Symmetry

INVARIANTS
  SiblingsMoveTogether
  EarlierStagesApproved
PROPERTIES
  DecidedRowsStay

CHECK_DEADLOCK FALSE
