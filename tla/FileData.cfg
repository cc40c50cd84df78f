SPECIFICATION FairSpec
CONSTANTS
  MDEV_BLOCK_SIZE = 2
  INODE_BLOCKS = 3
  Owned = 3
  Bytes = {0, 1}
  MaxLen = 5
INVARIANTS ReadsContent
PROPERTIES WritesBytes CallsReturn
CHECK_DEADLOCK FALSE
