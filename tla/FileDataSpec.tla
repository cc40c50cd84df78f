----------------------------- MODULE FileDataSpec -----------------------------
(***************************************************************************)
(* What is required of FileData.                                           *)
(***************************************************************************)
EXTENDS FileData

\* The byte at a position of the file, where the file has a block.
ByteAt(p) == device[BlockAt(p \div MDEV_BLOCK_SIZE)][p % MDEV_BLOCK_SIZE]

Content == [p \in 0 .. Owned * MDEV_BLOCK_SIZE - 1 |-> ByteAt(p)]

(***************************************************************************)
(* fs_read.c 8-10: what fs_read returns is what is in the file from its    *)
(* head on, over the ends of blocks too.                                   *)
(***************************************************************************)
ReadsContent ==
  pc = "read" =>
    /\ local.head = head + Len(got)
    /\ \A i \in 1 .. Len(got) :
         head + i - 1 \in DOMAIN Content => got[i] = Content[head + i - 1]

(***************************************************************************)
(* fs_write.c 8-11: a write replaces the bytes from the head on by those   *)
(* of the buffer and no others, however it is cut into blocks: FileData    *)
(* implements ByteFile.  It takes a file that has its blocks.              *)
(***************************************************************************)
Todo == SubSeq(buff, bytes + 1, Len(buff))

File == INSTANCE ByteFile WITH content <- Content, todo <- Todo

WritesBytes == File!Spec

(***************************************************************************)
(* fs_read.c 26 and fs_write.c 22: both loops end.                         *)
(***************************************************************************)
CallsReturn == pc # "idle" ~> pc = "idle"

(***************************************************************************)
(* fs_read.c 8-10: reading ends where the file does.                       *)
(***************************************************************************)
HeadInFile == head <= size
=============================================================================
