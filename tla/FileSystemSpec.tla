----------------------------- MODULE FileSystemSpec -----------------------------
(***************************************************************************)
(* What is required of FileSystem.                                         *)
(***************************************************************************)
EXTENDS FileSystem

Used == {i \in Entries : root_dir.entry[i].name # NoName}

BlockOf(i) == root_dir.entry[i].inode_block

(***************************************************************************)
(* fs.h 37-38 and fs_open.c 40: the first numentries entries are those in  *)
(* use, which is as far as fs_open looks; no name and no block appears in  *)
(* two of them, and none has one of the file system's own blocks.          *)
(***************************************************************************)
DirectoryExact ==
  /\ Used = 0 .. root_dir.numentries - 1
  /\ \A i \in Used : BlockOf(i) \in Blocks \ {SB_BIT, BM_BIT}
  /\ \A i, j \in Used :
       i # j => BlockOf(i) # BlockOf(j) /\ root_dir.entry[i].name # root_dir.entry[j].name

(***************************************************************************)
(* fs_create.c 97-99 and fs_umount: a block is marked as used if and only  *)
(* if a file has it, in memory and on the disk, so that unmounting and     *)
(* mounting neither loses a block nor gives one out twice.  Nothing of it  *)
(* holds for callers that mount without having unmounted.                  *)
(***************************************************************************)
MaskExact ==
  /\ freemask = {SB_BIT, BM_BIT} \cup {BlockOf(i) : i \in Used}
  /\ bitmap = freemask

(***************************************************************************)
(* fs_close.c 7-9: the inode in the open file table, which fs_close writes *)
(* back, is the one on the disk, and that is the inode of the file in the  *)
(* directory: writing it back never undoes anything.  It takes callers     *)
(* that open no file twice.                                                *)
(***************************************************************************)
InodesAgree ==
  /\ \A i \in Used : inodes[BlockOf(i)].id = BlockOf(i)
  /\ mounted => \A fd \in OpenFDs :
                  /\ oft[fd].direntry \in Used
                  /\ oft[fd].inode = inodes[BlockOf(oft[fd].direntry)]

(***************************************************************************)
(* fs_create.c 8-12: a name is refused exactly if a file has it, no block  *)
(* is left, or there are INODE_BLOCKS files (line 15), and never for want  *)
(* of an unused entry, although fs_create knows one only by what memset    *)
(* made of it in fs_mkfs.                                                  *)
(***************************************************************************)
NameUsed(f) == \E i \in Used : root_dir.entry[i].name = f

CreateServes ==
  \A f \in Names :
    CreateRefused(f) <=> NameUsed(f) \/ FreeBlocks = {} \/ Cardinality(Used) >= INODE_BLOCKS

(***************************************************************************)
(* fs.h 12 and 36: the root directory refers to as many as DIR_SIZE files, *)
(* so a new name is refused only when all its entries are used or no block *)
(* is left.                                                                *)
(***************************************************************************)
DirectoryFills ==
  \A f \in Names :
    CreateRefused(f) => NameUsed(f) \/ FreeBlocks = {} \/ Cardinality(Used) >= DIR_SIZE

(***************************************************************************)
(* The file system does what NamedFiles promises, the inode on the disk    *)
(* being where the size of a file is.                                      *)
(***************************************************************************)
Existing == {f \in Names : EntriesOf(f) # {}}

SizeOf(f) == inodes[BlockOf(Min(EntriesOf(f)))].size

PlaceOf(fd) ==
  [file |-> root_dir.entry[oft[fd].direntry].name, at |-> oft[fd].head]

FileSizes == [f \in Existing |-> SizeOf(f)]
Places    == [fd \in OpenFDs |-> PlaceOf(fd)]

Files == INSTANCE NamedFiles WITH Handles <- FDs, size <- FileSizes, place <- Places

FilesSpec == Files!Spec

(***************************************************************************)
(* fs_open.c 8-9: a file that is already open is not opened again.         *)
(***************************************************************************)
OpenOnce ==
  \A fd1, fd2 \in OpenFDs : oft[fd1].direntry = oft[fd2].direntry => fd1 = fd2

(***************************************************************************)
(* fs_open.c 8-11: a file that exists and is not open can be opened while  *)
(* a descriptor is free.                                                   *)
(***************************************************************************)
OpenServes ==
  \A f \in Names : mounted /\ EntriesOf(f) # {} /\ ~IsOpen(f) /\ OpenFDs # FDs => ~OpenRefused(f)

(***************************************************************************)
(* fs_close.c 7-9: closing a file does not take back what was written.     *)
(***************************************************************************)
SizesKept == [][\A b \in Blocks : inodes'[b].size >= inodes[b].size]_vars
=============================================================================
