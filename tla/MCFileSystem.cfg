SPECIFICATION Spec
CONSTANTS
  Procs = {p1, p2}
  FirstProc = p1
  Names = {"d", "f"}
  Workloads <- MCWorkloads
  Inums = {1, 2, 3, 4, 5}
  NBlocks = 5
  NFILE = 2
  NOFILE = 2
  NDIRECT = 1
  NINDIRECT = 1
INVARIANTS
  CountsAgree
  InodesLive
  DeadlockOnlyInPut
CHECK_DEADLOCK FALSE
