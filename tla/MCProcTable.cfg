SPECIFICATION FairSpec
CONSTANTS
  NPROC = 3
  NCPU = 2
  KillPids = {0, 2}
  MaxForks = 3
INVARIANTS ParentsAlive WaitNotLost
PROPERTIES OrphansReaped KilledExits
CHECK_DEADLOCK FALSE
