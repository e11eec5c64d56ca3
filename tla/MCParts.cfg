SPECIFICATION Spec
CONSTANTS
  Writers = {"w1", "w2"} Reader = "r" Message <- MCMessage ReadSize = 2 PIPESIZE = 2 UINT = 4 MaxKills = 2
  Users = {"u1", "u2"} NBUF = 3 BlockNos = {1, 2, 3, 4} Uses <- MCUses MaxPinned = 2
  Readers = {"p", "q"} Keys = {"a", "CR", "^U", "^H", "^D"} INPUT_BUF = 3 CUINT = 6 Sizes = {2} MaxTyped = 4
  NSLOT = 3 TOP = 2 Prios <- MCPrios Processors = {1, 2}
  NUM_ELE = 4 MAX_PAGES = 2 Requests = {2, 3, 4, 6} MaxCalls = 5
  Bytes = {8, 10, 40} HEADER = 8 CORE = 5 BREAK = 14 MaxMallocs = 5
  Typed <- MCTyped MaxInts = 1
  SLOTS = 3 ITEMS = 7 FIFOSIZE = 3
  MESSAGES = 4 ARRSIZE = 3 MESSAGELENS = {1, 3} ENDSIZE = 2
  FileSizes = {0, 7, 20} Lines <- MCLines ENDLEN = 4 QUEUE = 2
  Searches <- MCSearches BUFSIZE = 5
  MAXARGS = 3 Texts <- MCTexts
  NPROC = 4 NCPU = 1 KillPids = {2} MaxForks = 3
INVARIANTS Delivered DiskCoherent PrioritiesKept ChunksKept ShellsWait FunctionsRight TableKept
PROPERTY PartsFinish
