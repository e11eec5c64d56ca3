SPECIFICATION Spec
CONSTANTS
  Names = {f, g}
  NUM_INODES = 2
  NUM_DATA_BLOCKS = 2
  MAX_FILE_SIZE = 2
  BLOCKSIZE = 2
  MAX_OPEN_FILES = 1
  NUL = NUL
  Unknown = Unknown
  NoName = NoName
  MaxWrites = 3
  MaxOffset = 2
  Lengths = {0, 1, 2, 3}
INVARIANTS Consistent AppendsKept
PROPERTY StoreSpec
