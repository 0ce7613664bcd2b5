CONSTANTS
  Lines = {l1, l2}
  Files <- MCFiles
  LastMonth = 3
  MaxYear = 2
  StartYears = {1}
  Cutoffs = {1, 2}
  Calls = {c1}
  NoLine = NoLine
  NoCall = NoCall

SPECIFICATION Spec

INVARIANT ApprovalUnblocks

CHECK_DEADLOCK FALSE
