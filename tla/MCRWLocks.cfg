SPECIFICATION LockFairSpec
CONSTANTS
  Readers = {r1, r2}
  Writers = {w1, w2}
  Calls = 2
INVARIANTS Exclusion NoLostWakeup
PROPERTIES Preference EveryRequestServed LockSpec
