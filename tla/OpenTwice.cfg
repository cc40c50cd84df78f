SPECIFICATION Spec
CONSTANTS
  Names = {f1, f2, f3}
  NoName = NoName
  NUM_BLOCKS = 6
  BITS = 3
  DIR_SIZE = 3
  INODE_BLOCKS = 2
  NUM_FD = 2
  Lens = {1, 2}
  BLOCK_SIZE = 2
  MaxHead = 3
  Reopen = TRUE
  Orderly = TRUE
INVARIANTS OpenOnce
