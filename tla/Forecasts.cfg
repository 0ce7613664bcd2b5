CONSTANTS
  Lines = {l1, l2}
  Files <- MCFiles
  LastMonth = 3
  MaxYear = 2
  StartYears = {2}
  Cutoffs = {1, 2}
  Calls = {c1, c2}
  NoLine = NoLine
  NoCall = NoCall

SPECIFICATION Spec
SYMMETRY Symmetry

INVARIANTS
  CompletedWasReviewed
  UnderReviewIsFilled
PROPERTIES
  EntriesStay

CHECK_DEADLOCK FALSE
