CONSTANTS
  Columns = {"CD"}
  Defaults = {"CD"}
  Lifetime = 2
  MaxActs = 2
  Calls = {c1, c2}
  NoCall = NoCall
  NoEntry = NoEntry

SPECIFICATION Spec

INVARIANTS
  TypeOK
  DecisionsAreRecent
PROPERTIES
  AccessCatchesUp
