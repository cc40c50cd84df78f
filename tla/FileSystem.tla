------------------------------ MODULE FileSystem ------------------------------
(***************************************************************************)
(* The file system: fs.c and lib/fs_*.c over the RAM disk of bs.c, with    *)
(* one caller at a time.  Neither the timer nor the UART touches its       *)
(* state, so a call is one step.  What the files hold is in FileData; here *)
(* a file is its directory entry, its inode and its bit in the bitmap, in  *)
(* memory and on the disk.                                                 *)
(*                                                                         *)
(* Calls that return -1 change nothing and are no steps; which calls they  *)
(* are is CreateRefused and OpenRefused.                                   *)
(***************************************************************************)
EXTENDS Integers, FiniteSetsExt

CONSTANTS
  Names, NoName,   \* file names, shorter than FILENAME_LEN, which fs_create does
                   \* not check, and the name of an unused directory entry
  NUM_BLOCKS,      \* 512, MDEV_NUM_BLOCKS in include/fs.h
  BITS,            \* 8, the bits of a byte of the bitmask
  DIR_SIZE,        \* 16
  INODE_BLOCKS,    \* 12, which fs_create takes for the size of the directory
  NUM_FD,          \* 10
  Lens,            \* the lengths that are read and written
  BLOCK_SIZE,      \* 512, MDEV_BLOCK_SIZE in include/fs.h
  MaxHead,         \* bound on the position in a file
  Reopen,          \* whether callers open a file that is open already
  Orderly          \* whether fs_mount is only called after fs_umount, and
                   \* nothing else between the two

SB_BIT == 0
BM_BIT == 1

\* What fs_create takes for the inode_block of an unused entry.
UNUSED == 16777215

ASSUME SizesAssumption ==
  /\ NUM_BLOCKS \in Nat /\ NUM_BLOCKS > BM_BIT
  /\ NUM_BLOCKS <= UNUSED
  /\ DIR_SIZE \in Nat /\ INODE_BLOCKS \in 0 .. DIR_SIZE /\ NUM_FD \in 0 .. DIR_SIZE

\* fs_mkfs rounds the size of the bitmask the wrong way: one byte too many when
\* the blocks fill the last one, one too few when they do not.  As it always
\* makes 512 blocks, each block has a bit.
MaskSize == NUM_BLOCKS \div BITS + IF NUM_BLOCKS % BITS # 0 THEN 0 ELSE 1

ASSUME MaskAssumption == BITS \in Nat /\ BITS > BM_BIT /\ NUM_BLOCKS <= MaskSize * BITS
ASSUME NamesAssumption == NoName \notin Names
ASSUME BlockSizeAssumption == BLOCK_SIZE \in Nat \ {0}

\* No caller leaves the blocks that an inode has places for: further on
\* fs_write.c 42 takes the number of the block from behind inode.blocks.
ASSUME LensAssumption ==
  Lens \subseteq Nat /\ MaxHead \in Nat /\ MaxHead <= INODE_BLOCKS * BLOCK_SIZE
ASSUME CallersAssumption == Reopen \in BOOLEAN /\ Orderly \in BOOLEAN

VARIABLES
  super,      \* block SB_BIT: the root directory as last written
  bitmap,     \* block BM_BIT: the blocks marked as used
  inodes,     \* the inode in each of the other blocks
  root_dir, freemask,   \* the same in memory, in *fsd
  oft,        \* the open file table
  mounted     \* between fs_mount and fs_umount

disk   == <<super, bitmap, inodes>>
memory == <<root_dir, freemask>>
vars   == <<disk, memory, oft, mounted>>

Blocks  == 0 .. NUM_BLOCKS - 1
Entries == 0 .. DIR_SIZE - 1
FDs     == 0 .. NUM_FD - 1

\* -1 in a uint32.
EMPTY == -1

\* memset in barelib.c clears one byte too many, the one in front: here that is
\* the highest of the four bytes of inode_block, which precedes the name.  The
\* sum is for EMPTY, here negative; 16777216 is 2^24.
MutMemsetBelow(block) == block               \* mutant: memset as in the C library
MemsetBelow(block)    == (block + 16777216) % 16777216

NoInode == [id |-> EMPTY, size |-> 0]
Inode   == [id : Blocks \cup {EMPTY}, size : Nat]

UnusedEntry == [name |-> NoName, inode_block |-> MemsetBelow(EMPTY)]

Directory ==
  [numentries : 0 .. DIR_SIZE,
   entry : [Entries -> [name : Names \cup {NoName},
                        inode_block : Blocks \cup {EMPTY, UNUSED}]]]

TypeOK ==
  /\ super \in Directory /\ root_dir \in Directory
  /\ bitmap \subseteq Blocks /\ freemask \subseteq Blocks
  /\ inodes \in [Blocks -> Inode]
  /\ oft \in [FDs -> [state : {"closed", "open"}, head : Nat, direntry : Entries,
                      inode : Inode]]
  /\ mounted \in BOOLEAN

ClosedFile == [state |-> "closed", head |-> 0, direntry |-> 0,
               inode |-> [id |-> SB_BIT, size |-> 0]]

\* initialize() has called bs_mk_ramdisk, fs_mkfs and fs_mount.
Init ==
  /\ super = [numentries |-> 0, entry |-> [i \in Entries |-> UnusedEntry]]
  /\ bitmap = {SB_BIT, BM_BIT}
  /\ inodes = [b \in Blocks |-> NoInode]
  /\ root_dir = super /\ freemask = bitmap
  /\ oft = [fd \in FDs |-> ClosedFile]
  /\ mounted = TRUE

\* The caller keeps to the order, if it is one that does.
InOrder == Orderly => mounted

-----------------------------------------------------------------------------
(***************************************************************************)
(* fs_create                                                               *)
(***************************************************************************)
EntriesOf(f) == {i \in Entries : root_dir.entry[i].name = f}

FreeBlocks  == {b \in Blocks : b \notin freemask}
FreeEntries == {i \in Entries : root_dir.entry[i].inode_block = UNUSED}

CreateRefused(f) ==
  \/ root_dir.numentries >= INODE_BLOCKS
  \/ EntriesOf(f) # {}
  \/ FreeBlocks = {}
  \/ FreeEntries = {}

MutMarked(block) == freemask                 \* mutant: without fs_create.c 97
Marked(block)    == freemask \cup {block}

MutCounted(n) == n                           \* mutant: without fs_create.c 70
Counted(n)    == n + 1

Create(f) ==
  /\ InOrder
  /\ ~CreateRefused(f)
  /\ LET block == Min(FreeBlocks)
         entry == Min(FreeEntries)
     IN  /\ root_dir' = [root_dir EXCEPT
                           !.numentries = Counted(@),
                           !.entry[entry] = [name |-> f, inode_block |-> block]]
         /\ inodes' = [inodes EXCEPT ![block] = [id |-> block, size |-> 0]]
         /\ freemask' = Marked(block)
  /\ bitmap' = freemask'
  /\ UNCHANGED <<super, oft, mounted>>

-----------------------------------------------------------------------------
(***************************************************************************)
(* fs_open and fs_close                                                    *)
(***************************************************************************)
OpenFDs == {fd \in FDs : oft[fd].state = "open"}

\* The loop looks at the directory entry with the number of the descriptor.
SeemsOpen(f) == \E fd \in OpenFDs : root_dir.entry[fd].name = f

\* The entry that the descriptor was opened with.
IsOpen(f) == \E fd \in OpenFDs : root_dir.entry[oft[fd].direntry].name = f

Listed(f) == {i \in EntriesOf(f) : i < root_dir.numentries}

OpenRefused(f) ==
  \/ SeemsOpen(f)
  \/ OpenFDs = FDs
  \/ Listed(f) = {}

Opened(i) ==
  [state |-> "open", head |-> 0, direntry |-> i,
   inode |-> inodes[root_dir.entry[i].inode_block]]

Open(f) ==
  /\ InOrder
  /\ Reopen \/ ~IsOpen(f)
  /\ ~OpenRefused(f)
  /\ LET slot == Min(FDs \ OpenFDs)
     IN  oft' = [oft EXCEPT ![slot] = Opened(Min(Listed(f)))]
  /\ UNCHANGED <<disk, memory, mounted>>

\* The inode goes back to the block that it names.
Stored(inode) == [inodes EXCEPT ![inode.id] = inode]

Close(fd) ==
  /\ InOrder
  /\ oft[fd].state = "open"
  /\ inodes' = Stored(oft[fd].inode)
  /\ oft' = [oft EXCEPT ![fd].state = "closed"]
  /\ UNCHANGED <<super, bitmap, memory, mounted>>

-----------------------------------------------------------------------------
(***************************************************************************)
(* fs_read and fs_write, of a descriptor that is open: neither looks.      *)
(***************************************************************************)
Read(fd, len) ==
  /\ InOrder
  /\ fd \in OpenFDs
  /\ oft[fd].head + len <= MaxHead
  /\ oft' = [oft EXCEPT ![fd].head = @ + len]
  /\ UNCHANGED <<disk, memory, mounted>>

Grown(size, head) == IF head > size THEN head ELSE size

MutWritten(inode) == inodes                  \* mutant: without fs_write.c 53
Written(inode)    == Stored(inode)

Write(fd, len) ==
  /\ InOrder
  /\ fd \in OpenFDs
  /\ oft[fd].head + len <= MaxHead
  /\ LET head  == oft[fd].head + len
         inode == [oft[fd].inode EXCEPT !.size = Grown(@, head)]
     IN  /\ oft' = [oft EXCEPT ![fd].head = head, ![fd].inode = inode]
         /\ inodes' = Written(inode)
  /\ UNCHANGED <<super, bitmap, memory, mounted>>

-----------------------------------------------------------------------------
(***************************************************************************)
(* fs_umount and fs_mount.  What fs_umount gives back to the heap stays as *)
(* it is: fsd is not reset, and malloc never hands the memory out again.   *)
(***************************************************************************)
MutSaved == super                            \* mutant: without fs.c 104
Saved    == root_dir

Umount ==
  /\ InOrder
  /\ bitmap' = freemask
  /\ super' = Saved
  /\ mounted' = FALSE
  /\ UNCHANGED <<inodes, memory, oft>>

Mount ==
  /\ Orderly => ~mounted
  /\ root_dir' = super
  /\ freemask' = bitmap
  /\ oft' = [fd \in FDs |-> [oft[fd] EXCEPT !.state = "closed", !.head = 0, !.direntry = 0]]
  /\ mounted' = TRUE
  /\ UNCHANGED disk

-----------------------------------------------------------------------------
Next ==
  \/ \E f \in Names : Create(f) \/ Open(f)
  \/ \E fd \in FDs : Close(fd) \/ \E len \in Lens : Read(fd, len) \/ Write(fd, len)
  \/ Umount \/ Mount

Spec == Init /\ [][Next]_vars
=============================================================================
