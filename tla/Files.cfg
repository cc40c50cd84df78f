SPECIFICATION Spec
CONSTANTS
  Names = {f1, f2, f3}
  NoName = NoName
  NUM_BLOCKS = 4
  BITS = 2
  DIR_SIZE = 4
  INODE_BLOCKS = 3
  NUM_FD = 2
  Lens = {1, 2}
  BLOCK_SIZE = 2
  MaxHead = 3
  Reopen = FALSE
  Orderly = TRUE
INVARIANTS ListingsTrue DirectoryExact MaskExact InodesAgree CreateServes
PROPERTIES FilesSpec
