------------------------------- MODULE FileData -------------------------------
(***************************************************************************)
(* What fs_write puts into the blocks of an open file and fs_read gets out *)
(* of them, one step per turn of their loops: the arithmetic of head,      *)
(* block index and offset.                                                 *)
(*                                                                         *)
(* fs_create gives a file no blocks and fs_write allocates none: its       *)
(* branch for `blockSpace == 0' (fs_write.c 24-35) is never taken, since   *)
(* blockSpace lies between 1 and the size of a block.  A file has the      *)
(* blocks that somebody has written into its inode, as file_setup of       *)
(* testing/ms10.c does: the first Owned places of the array are blocks,    *)
(* the rest is no block of the device.  The blocks may hold anything, and  *)
(* the head be put anywhere in the file: fs_open puts it at the start, the *)
(* tests set it by hand, as the fs_seek would whose arguments fs.h names.  *)
(***************************************************************************)
EXTENDS Integers, Sequences, SequencesExt

CONSTANTS
  MDEV_BLOCK_SIZE,   \* 512
  INODE_BLOCKS,      \* 12
  Owned,             \* how many blocks the file has
  Bytes,
  MaxLen             \* bound on the length of a call

ASSUME BlocksAssumption ==
  MDEV_BLOCK_SIZE \in Nat \ {0} /\ INODE_BLOCKS \in Nat \ {0} /\ Owned \in 0 .. INODE_BLOCKS
ASSUME BytesAssumption == Bytes # {} /\ MaxLen \in Nat

VARIABLES
  device,            \* what is in each block
  head, size,        \* the head of the file table entry, the size in its inode
  pc,                \* "idle", "write" or "read"
  buff, bytes,       \* fs_write: the caller's buffer, and how much is written
  local, len, got    \* fs_read: head, blockIndex and offset; what is left to
                     \* read; what is in the caller's buffer

writer == <<buff, bytes>>
reader == <<local, len, got>>
vars   == <<device, head, size, pc, writer, reader>>

Blocks   == 0 .. Owned - 1
Offsets  == 0 .. MDEV_BLOCK_SIZE - 1
Capacity == INODE_BLOCKS * MDEV_BLOCK_SIZE

\* inode.blocks: in no order, and nothing where the file has no block.
EMPTY == -1
BlockAt(index) == IF index < Owned THEN Owned - 1 - index ELSE EMPTY

Texts == UNION {[1 .. n -> Bytes] : n \in 1 .. MaxLen}

TypeOK ==
  /\ device \in [Blocks -> [Offsets -> Bytes]]
  /\ head \in 0 .. Capacity /\ size \in 0 .. Capacity
  /\ pc \in {"idle", "write", "read"}
  /\ buff \in Seq(Bytes) /\ bytes \in 0 .. Len(buff)
  /\ local \in [head : 0 .. Capacity, blockIndex : 0 .. INODE_BLOCKS, offset : Offsets]
  /\ len \in Nat /\ got \in Seq(Bytes)

NoRead == [head |-> 0, blockIndex |-> 0, offset |-> 0]

Init ==
  /\ device \in [Blocks -> [Offsets -> Bytes]]
  /\ size \in 0 .. Capacity /\ head \in 0 .. size
  /\ pc = "idle" /\ buff = <<>> /\ bytes = 0
  /\ local = NoRead /\ len = 0 /\ got = <<>>

Lesser(m, n) == IF m < n THEN m ELSE n

-----------------------------------------------------------------------------
(***************************************************************************)
(* bs_read and bs_write: a range that is not within a block of the device  *)
(* is refused, which none of the callers looks at.                         *)
(***************************************************************************)
MutInBlock(block, offset, n) == block \in Blocks /\ offset + n < MDEV_BLOCK_SIZE  \* mutant: `>=' in bs.c 41, 54
InBlock(block, offset, n)    == block \in Blocks /\ offset + n <= MDEV_BLOCK_SIZE

BsWrite(block, offset, text) ==
  IF InBlock(block, offset, Len(text))
  THEN [device EXCEPT ![block] =
          [o \in Offsets |-> IF o \in offset .. offset + Len(text) - 1
                             THEN text[o - offset + 1] ELSE device[block][o]]]
  ELSE device

\* What can be in the local buffer of fs_read after bs_read: the bytes of the
\* block, or whatever was on the stack.
BsRead(block, offset, n) ==
  IF InBlock(block, offset, n)
  THEN {[i \in 1 .. n |-> device[block][offset + i - 1]]}
  ELSE [1 .. n -> Bytes]

-----------------------------------------------------------------------------
\* Between two calls the head is put somewhere in the file.
Seek ==
  /\ pc = "idle"
  /\ head' \in 0 .. size
  /\ UNCHANGED <<device, size, pc, writer, reader>>

(***************************************************************************)
(* fs_write.  Callers stay within the places of inode.blocks.              *)
(***************************************************************************)
WriteCall ==
  /\ pc = "idle"
  /\ buff' \in {text \in Texts : head + Len(text) <= Capacity}
  /\ bytes' = 0
  /\ pc' = "write"
  /\ UNCHANGED <<device, head, size, reader>>

MutBlockSpace(h) == MDEV_BLOCK_SIZE - 1 - (h % MDEV_BLOCK_SIZE)      \* mutant: off by one
BlockSpace(h)    == MDEV_BLOCK_SIZE - (h % MDEV_BLOCK_SIZE)

WriteTurn ==
  /\ pc = "write"
  /\ bytes < Len(buff)
  /\ LET write_size == Lesser(BlockSpace(head), Len(buff) - bytes)
     IN  /\ device' = BsWrite(BlockAt(head \div MDEV_BLOCK_SIZE), head % MDEV_BLOCK_SIZE,
                              SubSeq(buff, bytes + 1, bytes + write_size))
         /\ bytes' = bytes + write_size
         /\ head' = head + write_size
  /\ size' = IF head' > size THEN head' ELSE size
  /\ UNCHANGED <<pc, buff, reader>>

WriteReturn ==
  /\ pc = "write"
  /\ bytes = Len(buff)
  /\ pc' = "idle" /\ buff' = <<>> /\ bytes' = 0
  /\ UNCHANGED <<device, head, size, reader>>

-----------------------------------------------------------------------------
(***************************************************************************)
(* fs_read.  It does not look at the size of the file.                     *)
(***************************************************************************)
ReadCall ==
  /\ pc = "idle"
  /\ len' \in 1 .. Lesser(MaxLen, Capacity - head)
  /\ local' = [head |-> head, blockIndex |-> head \div MDEV_BLOCK_SIZE,
               offset |-> head % MDEV_BLOCK_SIZE]
  /\ pc' = "read"
  /\ UNCHANGED <<device, head, size, writer, got>>

MutNextOffset(o) == o                        \* mutant: without fs_read.c 41
NextOffset(o)    == 0

ReadTurn ==
  /\ pc = "read"
  /\ len > 0
  /\ LET rest == MDEV_BLOCK_SIZE - local.offset
         n    == Lesser(len, rest)
     IN  /\ \E block \in BsRead(BlockAt(local.blockIndex), local.offset, rest) :
              got' = got \o SubSeq(block, 1, n)
         /\ len' = len - n
         /\ local' = [head |-> local.head + n, blockIndex |-> local.blockIndex + 1,
                      offset |-> NextOffset(local.offset)]
  /\ UNCHANGED <<device, head, size, pc, writer>>

ReadReturn ==
  /\ pc = "read"
  /\ len = 0
  /\ head' = local.head
  /\ pc' = "idle" /\ got' = <<>> /\ local' = NoRead
  /\ UNCHANGED <<device, size, writer, len>>

-----------------------------------------------------------------------------
Turns == WriteTurn \/ WriteReturn \/ ReadTurn \/ ReadReturn

Next == Seek \/ WriteCall \/ ReadCall \/ Turns

Spec == Init /\ [][Next]_vars

\* A call that has begun goes on.
FairSpec == Spec /\ WF_vars(Turns)
=============================================================================
