CONSTANTS
  Companies = {"a"}
  Levels = {"r1", "r2"}
  Components = {"Basic Pay", "Guaranteed Bonus", "Meals"}
  Templates <- MCTemplates
  Cutoffs = {3, 4}
  EditMonths = {5}
  MaxActs = 3
  Runs = {m1}
  Calls = {c1, c2}
  NoRoster = NoRoster
  NoLump = NoLump
  NoCall = NoCall
  Unread = Unread

SPECIFICATION Spec

INVARIANTS
  TypeOK
  RosterFollowsRanks
  YearIsCovered
  UploadedWasReviewed
PROPERTIES
  GridFollowsRoster

CHECK_DEADLOCK FALSE
