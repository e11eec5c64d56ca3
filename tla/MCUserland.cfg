SPECIFICATION FairSpec
CONSTANTS
  Code <- MCCode
  Mains <- MCMains
  Disk <- MCDisk
  NPROC = 6
  NINODES = 20
  NFILE = 7
  NOFILE = 6
  NPIPE = 3
  PIPESIZE = 2
  MAXFILE = 5
  PHYSPAGES = 4
  MAXARGS = 4
INVARIANTS
  Consistent
  TestsPass
PROPERTIES
  Finishes
