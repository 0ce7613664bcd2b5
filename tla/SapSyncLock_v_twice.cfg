CONSTANTS
  Ticks = {t1, t2, t3}
  Clicks = {c1, c2}
  MaxCrashes = 2
  Nobody = Nobody

SPECIFICATION LockSpec

INVARIANT
  OneSyncPerJob
