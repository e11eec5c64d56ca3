SPECIFICATION Spec
CONSTANTS
  Zems = {zem}
  zem = zem
  Threads = {t1, t2, t3, t4}
  Initial = 1
  MaxUps = 7
  MaxDowns = 8
  MaxSpurious = 2
INVARIANTS NoOverdraw NoSleepOnPermit
PROPERTY SemaphoreSpec
CHECK_DEADLOCK FALSE
