--------------------------- MODULE FileSystemProofs ---------------------------
(***************************************************************************)
(* Proofs, for any names and any number of blocks, directory entries and   *)
(* descriptors, about FileSystem and callers that keep to the order of     *)
(* mounting and open no file twice, and about what Listings prints then.   *)
(***************************************************************************)
EXTENDS Listings, FiniteSetTheorems, SequenceTheorems, WellFoundedInduction, TLAPS

OrderlyCallers == Orderly /\ ~Reopen

LEMMA MinOf ==
  ASSUME NEW S \in SUBSET Nat, S # {}
  PROVE  Min(S) \in S /\ \A j \in S : Min(S) <= j
<1>1. PICK x \in S : \A y \in S : ~ (<<y, x>> \in {ss \in Nat \X Nat : ss[1] < ss[2]})
  BY NatLessThanWellFounded, WFMin DEF OpToRel
<1>2. ASSUME NEW y \in S PROVE x <= y
  <2>1. x \in Nat /\ y \in Nat
    OBVIOUS
  <2>2. ~ (y < x)
    BY <1>1, <2>1
  <2> QED BY <2>1, <2>2
<1> QED BY <1>2 DEF Min

LEMMA Sizes ==
  /\ NUM_BLOCKS \in Nat /\ NUM_BLOCKS > 1 /\ NUM_BLOCKS <= UNUSED
  /\ DIR_SIZE \in Nat /\ INODE_BLOCKS \in Nat /\ INODE_BLOCKS <= DIR_SIZE
  /\ NUM_FD \in Nat /\ NUM_FD <= DIR_SIZE
  /\ SB_BIT \in Blocks /\ BM_BIT \in Blocks /\ EMPTY \notin Blocks
  /\ UNUSED \notin Blocks
  /\ UnusedEntry = [name |-> NoName, inode_block |-> UNUSED]
<1>1. /\ NUM_BLOCKS \in Nat /\ NUM_BLOCKS > 1 /\ NUM_BLOCKS <= UNUSED
      /\ DIR_SIZE \in Nat /\ INODE_BLOCKS \in Nat /\ INODE_BLOCKS <= DIR_SIZE
      /\ NUM_FD \in Nat /\ NUM_FD <= DIR_SIZE
  BY SizesAssumption DEF BM_BIT
<1>2. MemsetBelow(EMPTY) = UNUSED
  BY SMT DEF MemsetBelow, EMPTY, UNUSED
<1>3. UNUSED \in Nat
  BY SMT DEF UNUSED
<1> QED BY <1>1, <1>2, <1>3 DEF Blocks, SB_BIT, BM_BIT, EMPTY, UnusedEntry

-----------------------------------------------------------------------------
(***************************************************************************)
(* The strengthening: an unused entry is one that fs_create takes for      *)
(* unused, and between fs_umount and fs_mount the disk has the directory.  *)
(***************************************************************************)
UnusedMarked ==
  \A i \in Entries : root_dir.entry[i].name = NoName <=> BlockOf(i) = UNUSED

SavedBetween == ~mounted => super = root_dir

DirectoryInv == TypeOK /\ DirectoryExact /\ UnusedMarked /\ MaskExact
FilesInv     == DirectoryInv /\ InodesAgree /\ OpenOnce /\ SavedBetween

LEMMA InitFiles == Init => FilesInv
<1> SUFFICES ASSUME Init PROVE FilesInv
  OBVIOUS
<1>1. /\ root_dir = [numentries |-> 0, entry |-> [i \in Entries |-> UnusedEntry]]
      /\ super = root_dir /\ bitmap = freemask /\ freemask = {SB_BIT, BM_BIT}
      /\ inodes = [b \in Blocks |-> NoInode] /\ oft = [fd \in FDs |-> ClosedFile]
      /\ mounted = TRUE
  BY DEF Init
<1>2. \A i \in Entries : root_dir.entry[i].name = NoName /\ BlockOf(i) = UNUSED
  BY <1>1, Sizes DEF BlockOf
<1>3. Used = {} /\ OpenFDs = {}
  BY <1>1, <1>2 DEF Used, OpenFDs, ClosedFile
<1>4. TypeOK
  <2>1. root_dir \in Directory
    BY <1>1, Sizes DEF Directory
  <2>2. NoInode \in Inode /\ (FDs # {} => ClosedFile.inode \in Inode /\ 0 \in Entries)
    BY Sizes DEF NoInode, Inode, ClosedFile, EMPTY, FDs, Entries
  <2> QED BY <1>1, <2>1, <2>2, Sizes DEF TypeOK, ClosedFile
<1>5. DirectoryExact
  BY <1>1, <1>3 DEF DirectoryExact
<1>6. UnusedMarked /\ SavedBetween
  BY <1>1, <1>2 DEF UnusedMarked, SavedBetween
<1>7. MaskExact
  BY <1>1, <1>3 DEF MaskExact
<1>8. InodesAgree /\ OpenOnce
  BY <1>3 DEF InodesAgree, OpenOnce
<1> QED BY <1>4, <1>5, <1>6, <1>7, <1>8 DEF FilesInv, DirectoryInv

-----------------------------------------------------------------------------
(***************************************************************************)
(* One lemma per action.                                                   *)
(***************************************************************************)
LEMMA UsedFacts ==
  ASSUME FilesInv
  PROVE  /\ \A i \in Used : /\ i \in Entries /\ i < root_dir.numentries
                            /\ BlockOf(i) \in Blocks
                            /\ inodes[BlockOf(i)] \in Inode
                            /\ inodes[BlockOf(i)].id = BlockOf(i)
         /\ \A i, j \in Used : BlockOf(i) = BlockOf(j) => i = j
         /\ \A i \in Entries : i \in Used <=> root_dir.entry[i].name # NoName
         /\ root_dir.numentries \in Nat
<1>1. root_dir.numentries \in Nat
  BY Sizes DEF FilesInv, DirectoryInv, TypeOK, Directory
<1>2. \A i \in Used : i < root_dir.numentries
  BY <1>1 DEF FilesInv, DirectoryInv, DirectoryExact
<1>3. \A i \in Used : BlockOf(i) \in Blocks /\ inodes[BlockOf(i)] \in Inode
  BY DEF FilesInv, DirectoryInv, DirectoryExact, TypeOK
<1> QED BY <1>1, <1>2, <1>3 DEF FilesInv, DirectoryInv, DirectoryExact, InodesAgree, Used

\* What a call on a descriptor knows of it.
LEMMA OpenFacts ==
  ASSUME FilesInv, mounted, NEW fd \in OpenFDs
  PROVE  LET b == BlockOf(oft[fd].direntry)
         IN  /\ fd \in FDs /\ oft[fd].state = "open"
             /\ oft[fd].direntry \in Used /\ b \in Blocks
             /\ oft[fd].inode = inodes[b] /\ oft[fd].inode \in Inode
             /\ oft[fd].inode.id = b
             /\ \A other \in OpenFDs : other # fd => BlockOf(oft[other].direntry) # b
<1>1. /\ fd \in FDs /\ oft[fd].state = "open"
      /\ \A other \in OpenFDs : /\ oft[other].direntry \in Used
                                /\ oft[other].inode = inodes[BlockOf(oft[other].direntry)]
  BY DEF FilesInv, InodesAgree, OpenFDs
<1>2. \A other \in OpenFDs : oft[other].direntry = oft[fd].direntry => other = fd
  BY DEF FilesInv, OpenOnce
<1> QED BY <1>1, <1>2, UsedFacts

\* A call that leaves the directory and the bitmap alone.
LEMMA DirectoryFrame ==
  ASSUME DirectoryInv, TypeOK', UNCHANGED <<root_dir, freemask, bitmap>>
  PROVE  DirectoryInv'
BY DEF DirectoryInv, DirectoryExact, UnusedMarked, MaskExact, Used, BlockOf

LEMMA CloseKeeps ==
  ASSUME OrderlyCallers, FilesInv, NEW fd \in FDs, Close(fd)
  PROVE  FilesInv' /\ inodes' = inodes
<1>1. mounted /\ fd \in OpenFDs
  BY DEF Close, InOrder, OrderlyCallers, OpenFDs
<1>2. inodes' = inodes
  <2>1. inodes \in [Blocks -> Inode]
    BY DEF FilesInv, DirectoryInv, TypeOK
  <2> QED BY <1>1, <2>1, OpenFacts DEF Close, Stored
<1>3. /\ oft' = [oft EXCEPT ![fd].state = "closed"]
      /\ UNCHANGED <<super, bitmap, root_dir, freemask, mounted>>
  BY DEF Close, memory
<1>4. TypeOK'
  BY <1>2, <1>3 DEF FilesInv, DirectoryInv, TypeOK
<1>5. DirectoryInv'
  BY <1>3, <1>4, DirectoryFrame DEF FilesInv
<1>6. /\ OpenFDs' \subseteq OpenFDs
      /\ \A g \in OpenFDs' : oft'[g] = oft[g]
  BY <1>3 DEF OpenFDs, FilesInv, DirectoryInv, TypeOK
<1>7. InodesAgree' /\ OpenOnce'
  BY <1>2, <1>3, <1>6 DEF FilesInv, InodesAgree, OpenOnce, Used, BlockOf
<1>8. SavedBetween'
  BY <1>3 DEF FilesInv, SavedBetween
<1> QED BY <1>2, <1>5, <1>7, <1>8 DEF FilesInv

LEMMA ReadKeeps ==
  ASSUME OrderlyCallers, FilesInv, NEW fd \in FDs, NEW len \in Lens, Read(fd, len)
  PROVE  FilesInv'
<1>1. /\ oft' = [oft EXCEPT ![fd].head = @ + len]
      /\ UNCHANGED <<super, bitmap, inodes, root_dir, freemask, mounted>>
  BY DEF Read, memory, disk
<1>2. TypeOK'
  BY <1>1, LensAssumption DEF FilesInv, DirectoryInv, TypeOK
<1>3. DirectoryInv'
  BY <1>1, <1>2, DirectoryFrame DEF FilesInv
<1>4. \A g \in FDs : /\ oft'[g].state = oft[g].state /\ oft'[g].direntry = oft[g].direntry
                     /\ oft'[g].inode = oft[g].inode
  BY <1>1 DEF FilesInv, DirectoryInv, TypeOK
<1>5. OpenFDs' = OpenFDs /\ OpenFDs \subseteq FDs
  BY <1>4 DEF OpenFDs
<1>6. InodesAgree' /\ OpenOnce'
  BY <1>1, <1>4, <1>5 DEF FilesInv, InodesAgree, OpenOnce, Used, BlockOf
<1>7. SavedBetween'
  BY <1>1 DEF FilesInv, SavedBetween
<1> QED BY <1>3, <1>6, <1>7 DEF FilesInv

LEMMA UmountKeeps ==
  ASSUME OrderlyCallers, FilesInv, Umount
  PROVE  FilesInv'
<1>1. /\ super' = root_dir /\ bitmap' = bitmap /\ mounted' = FALSE
      /\ UNCHANGED <<inodes, root_dir, freemask, oft>>
  BY DEF Umount, Saved, memory, FilesInv, DirectoryInv, MaskExact
<1>2. TypeOK'
  BY <1>1 DEF FilesInv, DirectoryInv, TypeOK
<1>3. DirectoryInv'
  BY <1>1, <1>2, DirectoryFrame DEF FilesInv
<1>4. InodesAgree' /\ OpenOnce'
  BY <1>1 DEF FilesInv, InodesAgree, OpenOnce, OpenFDs, Used, BlockOf
<1>5. SavedBetween'
  BY <1>1 DEF SavedBetween
<1> QED BY <1>3, <1>4, <1>5 DEF FilesInv

LEMMA MountKeeps ==
  ASSUME OrderlyCallers, FilesInv, Mount
  PROVE  FilesInv'
<1>1. /\ root_dir' = root_dir /\ freemask' = freemask /\ mounted' = TRUE
      /\ UNCHANGED <<super, bitmap, inodes>>
      /\ oft' = [fd \in FDs |-> [oft[fd] EXCEPT !.state = "closed", !.head = 0,
                                                !.direntry = 0]]
  BY DEF Mount, disk, OrderlyCallers, FilesInv, DirectoryInv, MaskExact, SavedBetween
<1>2. TypeOK'
  <2>1. FDs # {} => 0 \in Entries
    BY Sizes DEF FDs, Entries
  <2> QED BY <1>1, <2>1 DEF FilesInv, DirectoryInv, TypeOK
<1>3. DirectoryInv'
  BY <1>1, <1>2, DirectoryFrame DEF FilesInv
<1>4. OpenFDs' = {}
  BY <1>1 DEF OpenFDs, FilesInv, DirectoryInv, TypeOK
<1>5. InodesAgree' /\ OpenOnce'
  BY <1>1, <1>4 DEF FilesInv, InodesAgree, OpenOnce, Used, BlockOf
<1>6. SavedBetween'
  BY <1>1 DEF SavedBetween
<1> QED BY <1>3, <1>5, <1>6 DEF FilesInv

LEMMA OpenKeeps ==
  ASSUME OrderlyCallers, FilesInv, NEW f \in Names, Open(f)
  PROVE  FilesInv'
<1> DEFINE slot == Min(FDs \ OpenFDs)
           i    == Min(Listed(f))
           b    == BlockOf(i)
<1>1. slot \in FDs /\ slot \notin OpenFDs
  <2>1. FDs \ OpenFDs \in SUBSET Nat /\ FDs \ OpenFDs # {}
    BY Sizes DEF Open, OpenRefused, FDs, OpenFDs
  <2> QED BY <2>1, MinOf
<1>2. i \in Listed(f)
  <2>1. Listed(f) \in SUBSET Nat /\ Listed(f) # {}
    BY Sizes DEF Open, OpenRefused, Listed, EntriesOf, Entries
  <2> QED BY <2>1, MinOf
<1>3. i \in Used /\ i \in Entries /\ root_dir.entry[i].name = f
  BY <1>2, NamesAssumption DEF Listed, EntriesOf, Used
<1>4. /\ oft' = [oft EXCEPT ![slot] = Opened(i)]
      /\ UNCHANGED <<super, bitmap, inodes, root_dir, freemask, mounted>>
  BY DEF Open, memory, disk
<1>5. \A fd \in OpenFDs : oft[fd].direntry # i
  BY <1>3 DEF Open, OrderlyCallers, IsOpen
<1> HIDE DEF slot, i
<1>6. Opened(i) = [state |-> "open", head |-> 0, direntry |-> i, inode |-> inodes[b]]
  BY DEF Opened, BlockOf
<1>7. b \in Blocks /\ inodes[b] \in Inode
  BY <1>3, UsedFacts
<1>8. TypeOK'
  BY <1>1, <1>3, <1>4, <1>6, <1>7 DEF FilesInv, DirectoryInv, TypeOK
<1>9. DirectoryInv'
  BY <1>4, <1>8, DirectoryFrame DEF FilesInv
<1>10. /\ OpenFDs' = OpenFDs \cup {slot}
       /\ oft'[slot] = Opened(i)
       /\ \A fd \in OpenFDs : oft'[fd] = oft[fd] /\ fd # slot
  BY <1>1, <1>4, <1>6 DEF OpenFDs, FilesInv, DirectoryInv, TypeOK
<1>11. Used' = Used /\ \A k : BlockOf(k)' = BlockOf(k)
  BY <1>4 DEF Used, BlockOf
<1>12. InodesAgree'
  <2>1. \A k \in Used : inodes[BlockOf(k)].id = BlockOf(k)
    BY UsedFacts
  <2>2. ASSUME mounted, NEW fd \in OpenFDs'
        PROVE  oft'[fd].direntry \in Used /\ oft'[fd].inode = inodes[BlockOf(oft'[fd].direntry)]
    <3>1. CASE fd = slot
      BY <1>3, <1>6, <1>10, <3>1
    <3>2. CASE fd # slot
      BY <1>10, <2>2, <3>2 DEF FilesInv, InodesAgree
    <3> QED BY <3>1, <3>2
  <2> QED BY <1>4, <1>11, <2>1, <2>2 DEF InodesAgree, BlockOf
<1>13. OpenOnce'
  BY <1>5, <1>6, <1>10 DEF FilesInv, OpenOnce
<1>14. SavedBetween'
  BY <1>4 DEF FilesInv, SavedBetween
<1> QED BY <1>9, <1>12, <1>13, <1>14 DEF FilesInv

LEMMA WriteKeeps ==
  ASSUME OrderlyCallers, FilesInv, NEW fd \in FDs, NEW len \in Lens, Write(fd, len)
  PROVE  FilesInv'
<1> DEFINE head  == oft[fd].head + len
           inode == [oft[fd].inode EXCEPT !.size = Grown(@, head)]
           b     == BlockOf(oft[fd].direntry)
<1>1. mounted /\ fd \in OpenFDs
  BY DEF Write, InOrder, OrderlyCallers
<1>2. /\ b \in Blocks /\ oft[fd].direntry \in Used
      /\ oft[fd].inode = inodes[b] /\ oft[fd].inode \in Inode /\ oft[fd].inode.id = b
      /\ \A g \in OpenFDs : g # fd => BlockOf(oft[g].direntry) # b
  BY <1>1, OpenFacts
<1>3. /\ oft' = [oft EXCEPT ![fd].head = head, ![fd].inode = inode]
      /\ inodes' = Stored(inode)
      /\ UNCHANGED <<super, bitmap, root_dir, freemask, mounted>>
  BY DEF Write, Written, memory
<1>4. head \in Nat /\ inode \in Inode /\ inode.id = b
  BY <1>2, LensAssumption DEF FilesInv, DirectoryInv, TypeOK, Grown, Inode
<1> HIDE DEF head, inode
<1>5. inodes' = [inodes EXCEPT ![b] = inode]
  BY <1>3, <1>4 DEF Stored
<1>6. TypeOK'
  <2>1. inodes' \in [Blocks -> Inode]
    BY <1>2, <1>4, <1>5 DEF FilesInv, DirectoryInv, TypeOK
  <2>2. oft' \in [FDs -> [state : {"closed", "open"}, head : Nat, direntry : Entries,
                          inode : Inode]]
    BY <1>3, <1>4 DEF FilesInv, DirectoryInv, TypeOK
  <2> QED BY <1>3, <2>1, <2>2 DEF FilesInv, DirectoryInv, TypeOK
<1>7. DirectoryInv'
  BY <1>3, <1>6, DirectoryFrame DEF FilesInv
<1>8. /\ OpenFDs' = OpenFDs
      /\ oft'[fd].inode = inode
      /\ \A g \in FDs : oft'[g].direntry = oft[g].direntry
      /\ \A g \in FDs : g # fd => oft'[g] = oft[g]
  BY <1>3 DEF OpenFDs, FilesInv, DirectoryInv, TypeOK
<1>9. Used' = Used /\ \A k : BlockOf(k)' = BlockOf(k)
  BY <1>3 DEF Used, BlockOf
<1>10. inodes'[b] = inode /\ \A c \in Blocks : c # b => inodes'[c] = inodes[c]
  BY <1>2, <1>5 DEF FilesInv, DirectoryInv, TypeOK
<1>11. InodesAgree'
  <2>1. \A k \in Used : inodes'[BlockOf(k)].id = BlockOf(k)
    BY <1>4, <1>10, UsedFacts
  <2>2. ASSUME NEW g \in OpenFDs
        PROVE  oft'[g].direntry \in Used /\ oft'[g].inode = inodes'[BlockOf(oft'[g].direntry)]
    <3>1. g \in FDs /\ oft[g].direntry \in Used /\ BlockOf(oft[g].direntry) \in Blocks
      BY <1>1, OpenFacts
    <3>2. CASE g = fd
      BY <1>2, <1>8, <1>10, <3>1, <3>2
    <3>3. CASE g # fd
      BY <1>1, <1>2, <1>8, <1>10, <3>1, <3>3, OpenFacts
    <3> QED BY <3>2, <3>3
  <2> QED BY <1>8, <1>9, <2>1, <2>2 DEF InodesAgree, BlockOf
<1>12. OpenOnce'
  BY <1>8 DEF FilesInv, OpenOnce, OpenFDs
<1>13. SavedBetween'
  BY <1>3 DEF FilesInv, SavedBetween
<1> QED BY <1>7, <1>11, <1>12, <1>13 DEF FilesInv

\* fs_create takes the entry after the last one in use, and a block of no file.
LEMMA CreateTakes ==
  ASSUME FilesInv, NEW f \in Names, ~CreateRefused(f)
  PROVE  /\ root_dir.numentries < DIR_SIZE
         /\ Min(FreeEntries) = root_dir.numentries
         /\ Min(FreeBlocks) \in Blocks \ {SB_BIT, BM_BIT}
         /\ \A i \in Used : BlockOf(i) # Min(FreeBlocks) /\ root_dir.entry[i].name # f
<1> DEFINE n == root_dir.numentries
<1>1. n \in Nat /\ n < DIR_SIZE
  BY Sizes, UsedFacts DEF CreateRefused
<1>2. FreeEntries = {i \in Entries : i >= n}
  <2>1. \A i \in Entries : i \in FreeEntries <=> root_dir.entry[i].name = NoName
    BY DEF FilesInv, DirectoryInv, UnusedMarked, FreeEntries, BlockOf
  <2>2. \A i \in Entries : i \in FreeEntries <=> i \notin Used
    BY <2>1, UsedFacts
  <2>3. \A i \in Entries : i \in Used <=> i < n
    BY <1>1 DEF FilesInv, DirectoryInv, DirectoryExact, Entries
  <2> QED BY <1>1, <2>2, <2>3, Sizes DEF FreeEntries, Entries
<1>3. Min(FreeEntries) = n
  <2>1. n \in FreeEntries /\ FreeEntries \in SUBSET Nat
    BY <1>1, <1>2, Sizes DEF Entries
  <2>2. Min(FreeEntries) \in FreeEntries /\ Min(FreeEntries) <= n
    BY <2>1, MinOf
  <2> QED BY <1>1, <1>2, <2>1, <2>2
<1>4. Min(FreeBlocks) \in FreeBlocks
  <2>1. FreeBlocks \in SUBSET Nat /\ FreeBlocks # {}
    BY Sizes DEF CreateRefused, FreeBlocks, Blocks
  <2> QED BY <2>1, MinOf
<1>5. /\ Min(FreeBlocks) \in Blocks \ {SB_BIT, BM_BIT}
      /\ \A i \in Used : BlockOf(i) # Min(FreeBlocks)
  BY <1>4 DEF FreeBlocks, FilesInv, DirectoryInv, MaskExact
<1>6. \A i \in Used : root_dir.entry[i].name # f
  BY DEF CreateRefused, EntriesOf, Used
<1> QED BY <1>1, <1>3, <1>5, <1>6

LEMMA CreateKeeps ==
  ASSUME OrderlyCallers, FilesInv, NEW f \in Names, Create(f)
  PROVE  FilesInv'
<1> PICK n, b : n = root_dir.numentries /\ b = Min(FreeBlocks)
  OBVIOUS
<1>1. /\ n \in Nat /\ n < DIR_SIZE /\ n \in Entries
      /\ b \in Blocks /\ b # SB_BIT /\ b # BM_BIT
      /\ \A i \in Used : BlockOf(i) # b /\ root_dir.entry[i].name # f
      /\ Min(FreeEntries) = n
  BY CreateTakes, UsedFacts, Sizes DEF Create, Entries
<1>2. mounted
  BY DEF Create, InOrder, OrderlyCallers
<1>3. /\ root_dir' = [root_dir EXCEPT !.numentries = n + 1,
                                      !.entry[n] = [name |-> f, inode_block |-> b]]
      /\ inodes' = [inodes EXCEPT ![b] = [id |-> b, size |-> 0]]
      /\ freemask' = freemask \cup {b}
      /\ bitmap' = freemask'
      /\ UNCHANGED <<super, oft, mounted>>
  BY <1>1 DEF Create, Counted, Marked
<1>4. /\ root_dir'.numentries = n + 1
      /\ root_dir'.entry = [root_dir.entry EXCEPT ![n] = [name |-> f, inode_block |-> b]]
      /\ root_dir' = [numentries |-> root_dir'.numentries, entry |-> root_dir'.entry]
  BY <1>3 DEF FilesInv, DirectoryInv, TypeOK, Directory
<1>5. /\ root_dir'.entry[n] = [name |-> f, inode_block |-> b]
      /\ \A i \in Entries : i # n => root_dir'.entry[i] = root_dir.entry[i]
  BY <1>1, <1>4 DEF FilesInv, DirectoryInv, TypeOK, Directory
<1>6. TypeOK'
  <2>1. root_dir' \in Directory
    <3>1. root_dir'.numentries \in 0 .. DIR_SIZE
      BY <1>1, <1>4, Sizes
    <3>2. root_dir'.entry \in [Entries -> [name : Names \cup {NoName},
                                           inode_block : Blocks \cup {EMPTY, UNUSED}]]
      BY <1>1, <1>4 DEF FilesInv, DirectoryInv, TypeOK, Directory
    <3> QED BY <1>4, <3>1, <3>2 DEF Directory
  <2>2. inodes' \in [Blocks -> Inode]
    BY <1>1, <1>3 DEF FilesInv, DirectoryInv, TypeOK, Inode
  <2> QED BY <1>1, <1>3, <2>1, <2>2 DEF FilesInv, DirectoryInv, TypeOK
<1>7. /\ BlockOf(n)' = b
      /\ \A i \in Entries : i # n => BlockOf(i)' = BlockOf(i)
  BY <1>5 DEF BlockOf
<1>8. Used' = Used \cup {n} /\ n \notin Used
  <2>1. n \notin Used
    BY <1>1, UsedFacts
  <2>2. \A i \in Entries : i \in Used' <=> i \in Used \/ i = n
    BY <1>1, <1>5, NamesAssumption DEF Used
  <2> QED BY <1>1, <2>1, <2>2 DEF Used
<1>9. \A i \in Used : i \in Entries /\ i # n
  BY <1>8 DEF Used
<1>10. DirectoryExact'
  <2>1. Used' = 0 .. root_dir'.numentries - 1
    BY <1>1, <1>4, <1>8 DEF FilesInv, DirectoryInv, DirectoryExact
  <2>2. \A i \in Used' : BlockOf(i)' \in Blocks \ {SB_BIT, BM_BIT}
    BY <1>1, <1>7, <1>8, <1>9 DEF FilesInv, DirectoryInv, DirectoryExact
  <2>3. \A i, j \in Used' : i # j => /\ BlockOf(i)' # BlockOf(j)'
                                     /\ root_dir'.entry[i].name # root_dir'.entry[j].name
    BY <1>1, <1>5, <1>7, <1>8, <1>9 DEF FilesInv, DirectoryInv, DirectoryExact
  <2> QED BY <2>1, <2>2, <2>3 DEF DirectoryExact, BlockOf
<1>11. UnusedMarked'
  <2>1. b # UNUSED /\ f # NoName
    BY <1>1, Sizes, NamesAssumption
  <2> QED BY <1>5, <1>7, <2>1 DEF FilesInv, DirectoryInv, UnusedMarked, BlockOf
<1>12. MaskExact'
  <2>1. {BlockOf(i)' : i \in Used'} = {BlockOf(i) : i \in Used} \cup {b}
    BY <1>7, <1>8, <1>9
  <2> QED BY <1>3, <2>1 DEF FilesInv, DirectoryInv, MaskExact, BlockOf
<1>13. InodesAgree'
  <2>1. /\ inodes'[b] = [id |-> b, size |-> 0]
        /\ \A c \in Blocks : c # b => inodes'[c] = inodes[c]
    BY <1>1, <1>3 DEF FilesInv, DirectoryInv, TypeOK
  <2>2. \A i \in Used : BlockOf(i)' = BlockOf(i) /\ inodes'[BlockOf(i)] = inodes[BlockOf(i)]
    BY <1>1, <1>7, <1>9, <2>1, UsedFacts
  <2>3. \A i \in Used' : inodes'[BlockOf(i)'].id = BlockOf(i)'
    BY <1>7, <1>8, <2>1, <2>2, UsedFacts
  <2>4. ASSUME NEW fd \in OpenFDs
        PROVE  /\ oft'[fd].direntry \in Used'
               /\ oft'[fd].inode = inodes'[BlockOf(oft[fd].direntry)']
    <3>1. oft[fd].direntry \in Used /\ oft[fd].inode = inodes[BlockOf(oft[fd].direntry)]
      BY <1>2, OpenFacts
    <3> QED BY <1>3, <1>8, <2>2, <3>1 DEF BlockOf
  <2>5. OpenFDs' = OpenFDs
    BY <1>3 DEF OpenFDs
  <2> QED BY <1>3, <2>3, <2>4, <2>5 DEF InodesAgree, BlockOf
<1>14. OpenOnce' /\ SavedBetween'
  BY <1>2, <1>3 DEF FilesInv, OpenOnce, OpenFDs, SavedBetween
<1> QED BY <1>6, <1>10, <1>11, <1>12, <1>13, <1>14 DEF FilesInv, DirectoryInv

-----------------------------------------------------------------------------
(***************************************************************************)
(* The invariant, and what it gives.                                       *)
(***************************************************************************)
LEMMA StutterKeeps == FilesInv /\ UNCHANGED vars => FilesInv'
<1> SUFFICES ASSUME FilesInv, UNCHANGED vars PROVE FilesInv'
  OBVIOUS
<1>1. UNCHANGED <<super, bitmap, inodes, root_dir, freemask, oft, mounted>>
  BY DEF vars, disk, memory
<1>2. TypeOK'
  BY <1>1 DEF FilesInv, DirectoryInv, TypeOK
<1>3. DirectoryInv'
  BY <1>1, <1>2, DirectoryFrame DEF FilesInv
<1> QED BY <1>1, <1>3 DEF FilesInv, InodesAgree, OpenOnce, SavedBetween, OpenFDs, Used, BlockOf

LEMMA NextKeeps == OrderlyCallers /\ FilesInv /\ [Next]_vars => FilesInv'
<1> SUFFICES ASSUME OrderlyCallers, FilesInv, [Next]_vars PROVE FilesInv'
  OBVIOUS
<1>1. ASSUME NEW f \in Names, Create(f) PROVE FilesInv'
  BY <1>1, CreateKeeps
<1>2. ASSUME NEW f \in Names, Open(f) PROVE FilesInv'
  BY <1>2, OpenKeeps
<1>3. ASSUME NEW fd \in FDs, Close(fd) PROVE FilesInv'
  BY <1>3, CloseKeeps
<1>4. ASSUME NEW fd \in FDs, NEW len \in Lens, Read(fd, len) PROVE FilesInv'
  BY <1>4, ReadKeeps
<1>5. ASSUME NEW fd \in FDs, NEW len \in Lens, Write(fd, len) PROVE FilesInv'
  BY <1>5, WriteKeeps
<1>6. CASE Umount
  BY <1>6, UmountKeeps
<1>7. CASE Mount
  BY <1>7, MountKeeps
<1>8. CASE UNCHANGED vars
  BY <1>8, StutterKeeps
<1> QED BY <1>1, <1>2, <1>3, <1>4, <1>5, <1>6, <1>7, <1>8 DEF Next

(***************************************************************************)
(* fs_create.c, fs_open.c, fs_close.c, fs_read.c, fs_write.c and fs.c keep *)
(* all of the file system's tables of the right shape and in agreement.    *)
(***************************************************************************)
THEOREM FilesInvariant == OrderlyCallers => (Spec => []FilesInv)
<1> SUFFICES ASSUME OrderlyCallers PROVE Spec => []FilesInv
  OBVIOUS
<1>1. Init => FilesInv
  BY InitFiles
<1>2. FilesInv /\ [Next]_vars => FilesInv'
  BY NextKeeps
<1> QED BY <1>1, <1>2, PTL DEF Spec

\* The values stay in the ranges of fs.h, whatever is created, opened and written.
THEOREM TypeCorrect == OrderlyCallers => (Spec => []TypeOK)
<1>1. FilesInv => TypeOK
  BY DEF FilesInv, DirectoryInv
<1> QED BY <1>1, FilesInvariant, PTL

\* The first numentries directory entries are the files, each with a name and
\* a block of its own (fs_create.c 21-102, fs_open.c 40).
THEOREM DirectoryIsExact == OrderlyCallers => (Spec => []DirectoryExact)
<1>1. FilesInv => DirectoryExact
  BY DEF FilesInv, DirectoryInv
<1> QED BY <1>1, FilesInvariant, PTL

\* The blocks marked as used are those of the files, in memory and on the disk
\* (fs_create.c 97-99, fs_umount).
THEOREM MaskIsExact == OrderlyCallers => (Spec => []MaskExact)
<1>1. FilesInv => MaskExact
  BY DEF FilesInv, DirectoryInv
<1> QED BY <1>1, FilesInvariant, PTL

\* The inode of an open file is the one on the disk (fs_close.c 11-18,
\* fs_write.c 53).
THEOREM InodesDoAgree == OrderlyCallers => (Spec => []InodesAgree)
<1>1. FilesInv => InodesAgree
  BY DEF FilesInv
<1> QED BY <1>1, FilesInvariant, PTL

LEMMA InvServes == FilesInv => CreateServes
<1> SUFFICES ASSUME FilesInv, NEW f \in Names
             PROVE  CreateRefused(f) <=>
                      NameUsed(f) \/ FreeBlocks = {} \/ Cardinality(Used) >= INODE_BLOCKS
  BY DEF CreateServes
<1> DEFINE n == root_dir.numentries
<1>1. n \in Nat /\ Used = 0 .. n - 1
  BY UsedFacts DEF FilesInv, DirectoryInv, DirectoryExact
<1>2. Cardinality(Used) = n
  BY <1>1, FS_Interval
<1>3. ASSUME n < INODE_BLOCKS PROVE FreeEntries # {}
  <2>1. n \in Entries /\ n \notin Used
    BY <1>1, <1>3, Sizes DEF Entries
  <2>2. n \in FreeEntries
    BY <2>1, UsedFacts DEF FreeEntries, FilesInv, DirectoryInv, UnusedMarked, BlockOf
  <2> QED BY <2>2
<1>4. EntriesOf(f) # {} <=> NameUsed(f)
  BY NamesAssumption DEF EntriesOf, Used, NameUsed
<1>5. n >= INODE_BLOCKS <=> ~(n < INODE_BLOCKS)
  BY <1>1, Sizes
<1> QED BY <1>2, <1>3, <1>4, <1>5 DEF CreateRefused

\* A name is refused only if it is taken, there are INODE_BLOCKS files or no
\* block is left, and then always (fs_create.c 13-68): the directory always
\* has an entry that fs_create knows to be unused when it comes to look.
THEOREM CreateDoesServe == OrderlyCallers => (Spec => []CreateServes)
BY InvServes, FilesInvariant, PTL

-----------------------------------------------------------------------------
(***************************************************************************)
(* The refinement of NamedFiles.                                           *)
(***************************************************************************)
SizesKnown ==
  /\ \A i \in Used : root_dir.entry[i].name \in Names =>
       /\ root_dir.entry[i].name \in Existing
       /\ SizeOf(root_dir.entry[i].name) = inodes[BlockOf(i)].size
  /\ \A f \in Names : f \in Existing <=> \E i \in Used : root_dir.entry[i].name = f

LEMMA KnowSizes == FilesInv => SizesKnown
<1> SUFFICES ASSUME FilesInv PROVE SizesKnown
  OBVIOUS
<1>1. \A f \in Names : f \in Existing <=> \E i \in Used : root_dir.entry[i].name = f
  BY NamesAssumption DEF Existing, EntriesOf, Used
<1>2. ASSUME NEW i \in Used, root_dir.entry[i].name \in Names
      PROVE  /\ root_dir.entry[i].name \in Existing
             /\ SizeOf(root_dir.entry[i].name) = inodes[BlockOf(i)].size
  <2> DEFINE f == root_dir.entry[i].name
  <2>1. i \in EntriesOf(f) /\ EntriesOf(f) \in SUBSET Nat
    BY <1>2, Sizes DEF EntriesOf, Used, Entries
  <2>2. Min(EntriesOf(f)) \in EntriesOf(f)
    BY <2>1, MinOf
  <2>3. \A j \in EntriesOf(f) : j = i
    BY <1>2 DEF EntriesOf, Used, FilesInv, DirectoryInv, DirectoryExact
  <2>4. Min(EntriesOf(f)) = i
    BY <2>2, <2>3
  <2> QED BY <1>1, <1>2, <2>4 DEF SizeOf
<1> QED BY <1>1, <1>2 DEF SizesKnown

\* A call that leaves the directory and the inodes alone does so to the files.
LEMMA FilesFrame ==
  ASSUME UNCHANGED <<root_dir, inodes>>
  PROVE  /\ Existing' = Existing
         /\ FileSizes' = FileSizes
<1>1. Existing' = Existing /\ \A f \in Existing : SizeOf(f)' = SizeOf(f)
  BY DEF Existing, SizeOf, EntriesOf, BlockOf
<1> QED BY <1>1 DEF FileSizes

LEMMA Domains == DOMAIN FileSizes = Existing /\ DOMAIN Places = OpenFDs
BY DEF FileSizes, Places

LEMMA InitRefines == Init => Files!Init
<1> SUFFICES ASSUME Init PROVE Files!Init
  OBVIOUS
<1>1. \A i \in Entries : root_dir.entry[i].name = NoName
  BY Sizes DEF Init
<1>2. Existing = {}
  BY <1>1, NamesAssumption DEF Existing, EntriesOf
<1>3. OpenFDs = {}
  BY DEF Init, OpenFDs, ClosedFile
<1>4. mounted = TRUE
  BY DEF Init
<1> QED BY <1>2, <1>3, <1>4 DEF Files!Init, Files!Nothing, FileSizes, Places

LEMMA CreateRefines ==
  ASSUME OrderlyCallers, FilesInv, SizesKnown, SizesKnown', NEW f \in Names, Create(f)
  PROVE  Files!Create(f)
<1> PICK n, b : n = root_dir.numentries /\ b = Min(FreeBlocks)
  OBVIOUS
<1>1. /\ n \in Entries /\ b \in Blocks /\ n \notin Used
      /\ \A i \in Used : BlockOf(i) # b /\ root_dir.entry[i].name # f
      /\ Min(FreeEntries) = n
  BY CreateTakes, UsedFacts, Sizes DEF Create, Entries
<1>2. /\ root_dir' = [root_dir EXCEPT !.numentries = n + 1,
                                      !.entry[n] = [name |-> f, inode_block |-> b]]
      /\ inodes' = [inodes EXCEPT ![b] = [id |-> b, size |-> 0]]
      /\ UNCHANGED <<oft, mounted>>
  BY <1>1 DEF Create, Counted
<1>3. /\ root_dir'.entry[n] = [name |-> f, inode_block |-> b]
      /\ \A i \in Used : i \in Entries /\ root_dir'.entry[i] = root_dir.entry[i]
  BY <1>1, <1>2 DEF Used, FilesInv, DirectoryInv, TypeOK, Directory
<1>4. Used' = Used \cup {n}
  <2>1. \A i \in Entries : i # n => root_dir'.entry[i] = root_dir.entry[i]
    BY <1>1, <1>2 DEF FilesInv, DirectoryInv, TypeOK, Directory
  <2> QED BY <1>1, <1>3, <2>1, NamesAssumption DEF Used
<1>5. Existing' = Existing \cup {f} /\ f \notin Existing
  <2>1. \A g \in Names : g \in Existing' <=> \E i \in Used' : root_dir'.entry[i].name = g
    BY DEF SizesKnown
  <2>2. \A g \in Names : g \in Existing' <=> g \in Existing \/ g = f
    BY <1>3, <1>4, <2>1 DEF SizesKnown
  <2>3. f \notin Existing
    BY <1>1 DEF SizesKnown
  <2> QED BY <2>2, <2>3 DEF Existing
<1>6. SizeOf(f)' = 0
  <2>1. SizeOf(f)' = inodes'[b].size
    BY <1>3, <1>4 DEF SizesKnown, BlockOf
  <2>2. inodes'[b] = [id |-> b, size |-> 0]
    BY <1>1, <1>2 DEF FilesInv, DirectoryInv, TypeOK
  <2> QED BY <2>1, <2>2
<1>7. ASSUME NEW g \in Existing PROVE SizeOf(g)' = SizeOf(g)
  <2>1. PICK i \in Used : root_dir.entry[i].name = g
    BY <1>7 DEF SizesKnown, Existing
  <2>2. g \in Names /\ i \in Used' /\ root_dir'.entry[i] = root_dir.entry[i]
    BY <1>3, <1>4, <2>1 DEF Existing
  <2>3. SizeOf(g) = inodes[BlockOf(i)].size /\ SizeOf(g)' = inodes'[BlockOf(i)].size
    BY <2>1, <2>2 DEF SizesKnown, BlockOf
  <2>4. inodes'[BlockOf(i)] = inodes[BlockOf(i)]
    BY <1>1, <1>2, UsedFacts DEF FilesInv, DirectoryInv, TypeOK
  <2> QED BY <2>3, <2>4
<1>8. FileSizes' = Files!With(FileSizes, f, 0)
  BY <1>5, <1>6, <1>7 DEF FileSizes, Files!With
<1>9. Places' = Places
  <2>1. mounted
    BY DEF Create, InOrder, OrderlyCallers
  <2>2. OpenFDs' = OpenFDs
    BY <1>2 DEF OpenFDs
  <2>3. ASSUME NEW fd \in OpenFDs PROVE PlaceOf(fd)' = PlaceOf(fd)
    <3>1. oft[fd].direntry \in Used
      BY <2>1, OpenFacts
    <3> QED BY <1>2, <1>3, <3>1 DEF PlaceOf
  <2> QED BY <2>2, <2>3 DEF Places
<1>10. mounted /\ ~Files!Exists(f)
  BY <1>5, Domains DEF Create, InOrder, OrderlyCallers, Files!Exists
<1> QED BY <1>2, <1>8, <1>9, <1>10 DEF Files!Create

LEMMA OpenRefines ==
  ASSUME OrderlyCallers, FilesInv, SizesKnown, NEW f \in Names, Open(f)
  PROVE  \E h \in FDs : Files!Open(f, h)
<1> PICK slot, i : slot = Min(FDs \ OpenFDs) /\ i = Min(Listed(f))
  OBVIOUS
<1>1. slot \in FDs /\ slot \notin OpenFDs
  <2>1. FDs \ OpenFDs \in SUBSET Nat /\ FDs \ OpenFDs # {}
    BY Sizes DEF Open, OpenRefused, FDs, OpenFDs
  <2> QED BY <2>1, MinOf
<1>2. i \in EntriesOf(f)
  <2>1. Listed(f) \in SUBSET Nat /\ Listed(f) # {}
    BY Sizes DEF Open, OpenRefused, Listed, EntriesOf, Entries
  <2> QED BY <2>1, MinOf DEF Listed
<1>3. /\ oft' = [oft EXCEPT ![slot] = Opened(i)]
      /\ UNCHANGED <<inodes, root_dir, mounted>>
  BY DEF Open, memory, disk
<1>4. /\ OpenFDs' = OpenFDs \cup {slot}
      /\ oft'[slot] = Opened(i)
      /\ \A fd \in OpenFDs : oft'[fd] = oft[fd]
  BY <1>1, <1>3 DEF OpenFDs, Opened, FilesInv, DirectoryInv, TypeOK
<1>5. PlaceOf(slot)' = [file |-> f, at |-> 0]
  BY <1>2, <1>3, <1>4 DEF PlaceOf, Opened, EntriesOf
<1>6. \A fd \in OpenFDs : PlaceOf(fd)' = PlaceOf(fd)
  BY <1>3, <1>4 DEF PlaceOf
<1>7. Places' = Files!With(Places, slot, [file |-> f, at |-> 0])
  BY <1>1, <1>4, <1>5, <1>6 DEF Places, Files!With
<1>8. FileSizes' = FileSizes
  BY <1>3, FilesFrame
<1>9. mounted /\ Files!Exists(f) /\ ~Files!IsOpen(slot)
  BY <1>1, <1>2, Domains
     DEF Open, InOrder, OrderlyCallers, Files!Exists, Files!IsOpen, Existing
<1> QED BY <1>1, <1>3, <1>7, <1>8, <1>9 DEF Files!Open

LEMMA CloseRefines ==
  ASSUME OrderlyCallers, FilesInv, NEW fd \in FDs, Close(fd)
  PROVE  Files!Close(fd)
<1>1. inodes' = inodes
  BY CloseKeeps
<1>2. /\ mounted /\ fd \in OpenFDs
      /\ oft' = [oft EXCEPT ![fd].state = "closed"]
      /\ UNCHANGED <<root_dir, mounted>>
  BY DEF Close, InOrder, OrderlyCallers, OpenFDs, memory
<1>3. OpenFDs' = OpenFDs \ {fd} /\ \A g \in OpenFDs' : oft'[g] = oft[g]
  BY <1>2 DEF OpenFDs, FilesInv, DirectoryInv, TypeOK
<1>4. \A g \in OpenFDs' : PlaceOf(g)' = PlaceOf(g)
  BY <1>2, <1>3 DEF PlaceOf
<1>5. Places' = Files!Without(Places, fd)
  BY <1>3, <1>4 DEF Places, Files!Without
<1>6. FileSizes' = FileSizes
  BY <1>1, <1>2, FilesFrame
<1> QED BY <1>2, <1>5, <1>6, Domains DEF Files!Close, Files!IsOpen

\* fs_read and fs_write on the position in the file.
LEMMA PlaceMoves ==
  ASSUME TypeOK, UNCHANGED root_dir, NEW fd \in OpenFDs, NEW head \in Nat,
         OpenFDs' = OpenFDs, oft'[fd].head = head, oft'[fd].direntry = oft[fd].direntry,
         \A g \in OpenFDs : g # fd => oft'[g] = oft[g]
  PROVE  Places' = [Places EXCEPT ![fd].at = head]
<1>1. PlaceOf(fd)' = [PlaceOf(fd) EXCEPT !.at = head]
  BY DEF PlaceOf
<1>2. \A g \in OpenFDs : g # fd => PlaceOf(g)' = PlaceOf(g)
  BY DEF PlaceOf
<1> QED BY <1>1, <1>2 DEF Places

LEMMA ReadRefines ==
  ASSUME OrderlyCallers, FilesInv, NEW fd \in FDs, NEW len \in Lens, Read(fd, len)
  PROVE  Files!Read(fd, len)
<1>1. /\ mounted /\ fd \in OpenFDs
      /\ oft' = [oft EXCEPT ![fd].head = @ + len]
      /\ UNCHANGED <<inodes, root_dir, mounted>>
  BY DEF Read, InOrder, OrderlyCallers, memory, disk
<1>2. oft[fd].head + len \in Nat /\ TypeOK
  BY LensAssumption DEF FilesInv, DirectoryInv, TypeOK
<1>3. /\ OpenFDs' = OpenFDs
      /\ oft'[fd].head = oft[fd].head + len /\ oft'[fd].direntry = oft[fd].direntry
      /\ \A g \in OpenFDs : g # fd => oft'[g] = oft[g]
  BY <1>1, <1>2 DEF OpenFDs, TypeOK
<1>4. Places' = [Places EXCEPT ![fd].at = oft[fd].head + len]
  BY <1>1, <1>2, <1>3, PlaceMoves
<1>5. Places[fd].at = oft[fd].head
  BY <1>1 DEF Places, PlaceOf
<1>6. Places' = [Places EXCEPT ![fd].at = @ + len]
  BY <1>4, <1>5
<1>7. FileSizes' = FileSizes
  BY <1>1, FilesFrame
<1> QED BY <1>1, <1>6, <1>7, Domains DEF Files!Read, Files!IsOpen

LEMMA WriteRefines ==
  ASSUME OrderlyCallers, FilesInv, SizesKnown, SizesKnown',
         NEW fd \in FDs, NEW len \in Lens, Write(fd, len)
  PROVE  Files!Write(fd, len)
<1> PICK k, b, head : /\ k = oft[fd].direntry /\ b = BlockOf(k)
                      /\ head = oft[fd].head + len
  OBVIOUS
<1> DEFINE inode == [oft[fd].inode EXCEPT !.size = Grown(@, head)]
           f     == root_dir.entry[k].name
<1>1. mounted /\ fd \in OpenFDs
  BY DEF Write, InOrder, OrderlyCallers
<1>2. /\ k \in Used /\ b \in Blocks
      /\ oft[fd].inode = inodes[b] /\ inodes[b] \in Inode /\ oft[fd].inode.id = b
  BY <1>1, OpenFacts
<1>3. /\ oft' = [oft EXCEPT ![fd].head = head, ![fd].inode = inode]
      /\ inodes' = Stored(inode)
      /\ UNCHANGED <<root_dir, mounted>>
  BY DEF Write, Written, memory
<1>4. head \in Nat /\ TypeOK
  BY LensAssumption DEF FilesInv, DirectoryInv, TypeOK
<1>5. inodes' = [inodes EXCEPT ![b] = inode] /\ inode.size = Grown(inodes[b].size, head)
  BY <1>2, <1>3 DEF Stored, Inode
<1>6. /\ OpenFDs' = OpenFDs
      /\ oft'[fd].head = head /\ oft'[fd].direntry = oft[fd].direntry
      /\ \A g \in OpenFDs : g # fd => oft'[g] = oft[g]
  BY <1>3, <1>4 DEF OpenFDs, TypeOK
<1>7. Places' = [Places EXCEPT ![fd].at = head]
  BY <1>1, <1>3, <1>4, <1>6, PlaceMoves
<1>8. Places[fd].at + len = head /\ Places[fd].file = f
  BY <1>1 DEF Places, PlaceOf
<1>9. /\ inodes'[b].size = Grown(inodes[b].size, head)
      /\ \A c \in Blocks : c # b => inodes'[c] = inodes[c]
  BY <1>2, <1>4, <1>5 DEF TypeOK
<1> HIDE DEF inode
<1>10. Existing' = Existing /\ Used' = Used
  BY <1>3 DEF Existing, EntriesOf, Used
<1>11. f \in Existing /\ SizeOf(f) = inodes[b].size /\ SizeOf(f)' = inodes'[b].size
  <2>1. f \in Names
    BY <1>2 DEF Used, TypeOK, FilesInv, DirectoryInv, Directory
  <2> QED BY <1>2, <1>3, <1>10, <2>1 DEF SizesKnown, BlockOf
<1>12. ASSUME NEW g \in Existing, g # f PROVE SizeOf(g)' = SizeOf(g)
  <2>1. PICK i \in Used : root_dir.entry[i].name = g
    BY <1>12 DEF SizesKnown, Existing
  <2>2. SizeOf(g) = inodes[BlockOf(i)].size /\ SizeOf(g)' = inodes'[BlockOf(i)].size
    BY <1>3, <1>10, <2>1 DEF SizesKnown, BlockOf, Existing
  <2>3. BlockOf(i) \in Blocks /\ BlockOf(i) # b
    BY <1>2, <1>12, <2>1, UsedFacts
  <2> QED BY <1>9, <2>2, <2>3
<1>13. FileSizes' = [FileSizes EXCEPT ![f] = IF head > @ THEN head ELSE @]
  <2>1. SizeOf(f)' = IF head > SizeOf(f) THEN head ELSE SizeOf(f)
    BY <1>9, <1>11 DEF Grown
  <2>2. FileSizes' = [g \in Existing |-> IF g = f THEN SizeOf(f)' ELSE SizeOf(g)]
    BY <1>3, <1>10, <1>12 DEF FileSizes
  <2> QED BY <1>11, <2>1, <2>2 DEF FileSizes
<1> QED BY <1>1, <1>3, <1>7, <1>8, <1>13, Domains DEF Files!Write, Files!IsOpen

LEMMA MountsRefine ==
  ASSUME OrderlyCallers, FilesInv
  PROVE  (Umount => Files!Unmount) /\ (Mount => Files!Mount)
<1>1. ASSUME Umount PROVE Files!Unmount
  <2>1. /\ mounted /\ mounted' = FALSE
        /\ UNCHANGED <<inodes, root_dir, oft>>
    BY <1>1 DEF Umount, InOrder, OrderlyCallers, memory
  <2>2. Places' = Places
    BY <2>1 DEF Places, PlaceOf, OpenFDs
  <2> QED BY <2>1, <2>2, FilesFrame DEF Files!Unmount
<1>2. ASSUME Mount PROVE Files!Mount
  <2>1. /\ ~mounted /\ mounted' = TRUE
        /\ root_dir' = root_dir /\ inodes' = inodes
        /\ oft' = [fd \in FDs |-> [oft[fd] EXCEPT !.state = "closed", !.head = 0,
                                                  !.direntry = 0]]
    BY <1>2 DEF Mount, disk, OrderlyCallers, FilesInv, SavedBetween
  <2>2. OpenFDs' = {}
    BY <2>1 DEF OpenFDs, FilesInv, DirectoryInv, TypeOK
  <2>3. Places' = Files!Nothing
    BY <2>2 DEF Places, Files!Nothing
  <2> QED BY <2>1, <2>3, FilesFrame DEF Files!Mount
<1> QED BY <1>1, <1>2

LEMMA StutterRefines == UNCHANGED vars => UNCHANGED Files!vars
<1> SUFFICES ASSUME UNCHANGED vars PROVE UNCHANGED Files!vars
  OBVIOUS
<1>1. UNCHANGED <<inodes, root_dir, oft, mounted>>
  BY DEF vars, disk, memory
<1>2. Places' = Places
  BY <1>1 DEF Places, PlaceOf, OpenFDs
<1> QED BY <1>1, <1>2, FilesFrame DEF Files!vars

LEMMA NextRefines ==
  OrderlyCallers /\ FilesInv /\ SizesKnown /\ SizesKnown' /\ [Next]_vars
    => [Files!Next]_(Files!vars)
<1> SUFFICES ASSUME OrderlyCallers, FilesInv, SizesKnown, SizesKnown', [Next]_vars
             PROVE  [Files!Next]_(Files!vars)
  OBVIOUS
<1>1. ASSUME NEW f \in Names, Create(f) PROVE Files!Next
  BY <1>1, CreateRefines DEF Files!Next
<1>2. ASSUME NEW f \in Names, Open(f) PROVE Files!Next
  BY <1>2, OpenRefines DEF Files!Next
<1>3. ASSUME NEW fd \in FDs, Close(fd) PROVE Files!Next
  BY <1>3, CloseRefines DEF Files!Next
<1>4. ASSUME NEW fd \in FDs, NEW len \in Lens, Read(fd, len) PROVE Files!Next
  BY <1>4, ReadRefines DEF Files!Next
<1>5. ASSUME NEW fd \in FDs, NEW len \in Lens, Write(fd, len) PROVE Files!Next
  BY <1>5, WriteRefines DEF Files!Next
<1>6. ASSUME Umount \/ Mount PROVE Files!Next
  BY <1>6, MountsRefine DEF Files!Next
<1> QED BY <1>1, <1>2, <1>3, <1>4, <1>5, <1>6, StutterRefines DEF Next

(***************************************************************************)
(* fs.c and lib/fs_*.c implement NamedFiles: what a program sees of a file *)
(* is its size and where its handles are, over an unmount too.             *)
(***************************************************************************)
THEOREM FilesRefine == OrderlyCallers => (Spec => FilesSpec)
<1> SUFFICES ASSUME OrderlyCallers PROVE Spec => Files!Spec
  BY DEF FilesSpec
<1>1. Init => Files!Init
  BY InitRefines
<1>2. FilesInv /\ FilesInv' /\ [Next]_vars => [Files!Next]_(Files!vars)
  <2>1. FilesInv => SizesKnown
    BY KnowSizes
  <2>2. FilesInv' => SizesKnown'
    BY KnowSizes, PTL
  <2> QED BY <2>1, <2>2, NextRefines
<1>3. Spec => []FilesInv
  BY FilesInvariant
<1> QED BY <1>1, <1>2, <1>3, PTL DEF Spec, Files!Spec

-----------------------------------------------------------------------------
(***************************************************************************)
(* Induction and recursion over data, in the only form the provers can     *)
(* use: of sets and functions instead of predicates and operators.  By it  *)
(* the functions that Printf and Listings are defined by are determined by *)
(* their equations.                                                        *)
(***************************************************************************)
LEMMA Inductive ==
  ASSUME NEW S, 0 \in S, \A n \in Nat : n \in S => n + 1 \in S
  PROVE  \A n \in Nat : n \in S
<1> SUFFICES ASSUME NEW m \in Nat, m \notin S PROVE FALSE
  OBVIOUS
<1> DEFINE B == {n \in Nat : n \notin S}
<1>1. PICK x \in B : \A y \in B : ~ (<<y, x>> \in {ss \in Nat \X Nat : ss[1] < ss[2]})
  BY NatLessThanWellFounded, WFMin DEF OpToRel
<1>2. x \in Nat /\ x # 0 /\ x \notin S
  OBVIOUS
<1>3. x - 1 \in Nat /\ x - 1 < x /\ x = (x - 1) + 1
  BY <1>2
<1>4. x - 1 \in S
  BY <1>1, <1>2, <1>3
<1> QED BY <1>2, <1>3, <1>4

\* A function in which each place is determined by the places of lesser rank.
Determined(D, X, rank, F) ==
  /\ rank \in [D -> Nat] /\ F \in [D \X [D -> X] -> X]
  /\ \A d \in D : \A f, g \in [D -> X] :
       (\A e \in D : rank[e] < rank[d] => f[e] = g[e]) => F[<<d, f>>] = F[<<d, g>>]

Solves(D, rank, F, n, f) == \A d \in D : rank[d] < n => f[d] = F[<<d, f>>]

LEMMA Approximated ==
  ASSUME NEW D, NEW X, NEW x \in X, NEW rank, NEW F,
         Determined(D, X, rank, F)
  PROVE  \A n \in Nat : \E f \in [D -> X] : Solves(D, rank, F, n, f)
<1>0. rank \in [D -> Nat] /\ F \in [D \X [D -> X] -> X]
  BY DEF Determined
<1> USE <1>0
<1> DEFINE S == {n \in Nat : \E f \in [D -> X] : Solves(D, rank, F, n, f)}
<1>1. 0 \in S
  <2>1. [d \in D |-> x] \in [D -> X]
    OBVIOUS
  <2>2. \A d \in D : ~(rank[d] < 0)
    OBVIOUS
  <2> QED BY <2>1, <2>2 DEF Solves
<1>2. ASSUME NEW n \in Nat, n \in S PROVE n + 1 \in S
  <2>0. \A d \in D : rank[d] \in Nat /\ (rank[d] < n + 1 => rank[d] < n \/ rank[d] = n)
    <3>1. \A r \in Nat : r < n + 1 => r < n \/ r = n
      OBVIOUS
    <3> QED BY <3>1
  <2>1. PICK f \in [D -> X] : \A d \in D : rank[d] < n => f[d] = F[<<d, f>>]
    BY <1>2 DEF Solves
  <2> DEFINE g == [d \in D |-> IF rank[d] = n THEN F[<<d, f>>] ELSE f[d]]
  <2>2. g \in [D -> X]
    OBVIOUS
  <2>3. ASSUME NEW d \in D, rank[d] < n + 1 PROVE g[d] = F[<<d, g>>]
    <3>0. rank[d] \in Nat /\ (rank[d] < n \/ rank[d] = n)
      BY <2>0, <2>3
    <3>1. \A e \in D : rank[e] < rank[d] => f[e] = g[e]
      BY <3>0
    <3>2. F[<<d, f>>] = F[<<d, g>>]
      BY <2>2, <3>1 DEF Determined
    <3> QED BY <2>1, <3>0, <3>2
  <2> HIDE DEF g
  <2> QED BY <2>2, <2>3 DEF Solves
<1> HIDE DEF S
<1>3. \A n \in Nat : n \in S
  BY <1>1, <1>2, Inductive
<1> QED BY <1>3 DEF S

LEMMA Agreeing ==
  ASSUME NEW D, NEW X, NEW rank, NEW F,
         Determined(D, X, rank, F)
  PROVE  \A f, g \in [D -> X] : \A N \in Nat :
           Solves(D, rank, F, N, f) /\ Solves(D, rank, F, N, g)
             => \A d \in D : rank[d] < N => f[d] = g[d]
<1> SUFFICES ASSUME NEW f \in [D -> X], NEW g \in [D -> X], NEW N \in Nat,
                    Solves(D, rank, F, N, f), Solves(D, rank, F, N, g)
             PROVE  \A d \in D : rank[d] < N => f[d] = g[d]
  OBVIOUS
<1>0. rank \in [D -> Nat] /\ F \in [D \X [D -> X] -> X]
  BY DEF Determined
<1> USE <1>0
<1> DEFINE S == {n \in Nat : \A d \in D : rank[d] < n /\ rank[d] < N => f[d] = g[d]}
<1>1. 0 \in S
  <2>1. \A d \in D : ~(rank[d] < 0)
    OBVIOUS
  <2> QED BY <2>1
<1>2. ASSUME NEW n \in Nat, n \in S PROVE n + 1 \in S
  <2>1. ASSUME NEW d \in D, rank[d] < n + 1, rank[d] < N PROVE f[d] = g[d]
    <3>1. \A e \in D : rank[e] < rank[d] => f[e] = g[e]
      <4>1. rank[d] \in Nat
        OBVIOUS
      <4> QED BY <1>2, <2>1, <4>1
    <3>2. F[<<d, f>>] = F[<<d, g>>]
      BY <3>1 DEF Determined
    <3> QED BY <2>1, <3>2 DEF Solves
  <2> QED BY <2>1
<1> HIDE DEF S
<1>3. N \in S
  BY <1>1, <1>2, Inductive
<1> QED BY <1>3 DEF S

Solvable(D, X, F) == \E f \in [D -> X] : \A d \in D : f[d] = F[<<d, f>>]

LEMMA Recursive ==
  ASSUME NEW D, NEW X, NEW x \in X, NEW rank, NEW F,
         Determined(D, X, rank, F)
  PROVE  Solvable(D, X, F)
<1>0. rank \in [D -> Nat] /\ F \in [D \X [D -> X] -> X]
  BY DEF Determined
<1> USE <1>0
<1>a. \A f, g \in [D -> X] : \A N \in Nat :
        Solves(D, rank, F, N, f) /\ Solves(D, rank, F, N, g)
          => \A d \in D : rank[d] < N => f[d] = g[d]
  BY Agreeing
<1> DEFINE part(n) == CHOOSE f \in [D -> X] : Solves(D, rank, F, n, f)
           whole == [d \in D |-> part(rank[d] + 1)[d]]
<1>1. \A n \in Nat : part(n) \in [D -> X] /\ Solves(D, rank, F, n, part(n))
  <2>1. \A n \in Nat : \E f \in [D -> X] : Solves(D, rank, F, n, f)
    BY Approximated
  <2> QED BY <2>1
<1> HIDE DEF part
<1>2. whole \in [D -> X]
  BY <1>1
<1>3. ASSUME NEW d \in D PROVE whole[d] = F[<<d, whole>>]
  <2> DEFINE n == rank[d]
             p == part(n + 1)
  <2>1. n \in Nat /\ n + 1 \in Nat /\ n < n + 1
    OBVIOUS
  <2>2. p \in [D -> X] /\ Solves(D, rank, F, n + 1, p)
    BY <1>1, <2>1
  <2>3. ASSUME NEW e \in D, rank[e] < n PROVE p[e] = whole[e]
    <3> DEFINE k == rank[e] + 1
               q == part(k)
    <3>1. rank[e] \in Nat /\ k \in Nat /\ rank[e] < k /\ k < n + 1
      BY <2>1, <2>3
    <3>2. q \in [D -> X] /\ Solves(D, rank, F, k, q)
      BY <1>1, <3>1
    <3>3. Solves(D, rank, F, k, p)
      <4>1. ASSUME NEW c \in D, rank[c] < k PROVE rank[c] < n + 1
        <5> DEFINE r == rank[c]
        <5>1. r \in Nat
          OBVIOUS
        <5> HIDE DEF r, k, n
        <5> QED BY <2>1, <3>1, <4>1, <5>1 DEF r
      <4> QED BY <2>2, <4>1 DEF Solves
    <3>4. whole[e] = q[e]
      OBVIOUS
    <3> HIDE DEF p, q, k, n, whole
    <3>5. p[e] = q[e]
      <4>1. /\ p \in [D -> X] /\ q \in [D -> X] /\ k \in Nat
            /\ Solves(D, rank, F, k, p) /\ Solves(D, rank, F, k, q)
        BY <2>2, <3>1, <3>2, <3>3
      <4>2. \A c \in D : rank[c] < k => p[c] = q[c]
        BY <4>1, <1>a
      <4> QED BY <3>1, <4>2
    <3> QED BY <3>4, <3>5
  <2>4. whole[d] = p[d] /\ p[d] = F[<<d, p>>]
    BY <2>1, <2>2 DEF Solves
  <2> HIDE DEF p, whole
  <2>5. F[<<d, p>>] = F[<<d, whole>>]
    BY <1>2, <2>2, <2>3 DEF Determined
  <2> QED BY <2>4, <2>5
<1> HIDE DEF whole
<1> QED BY <1>2, <1>3 DEF Solvable

-----------------------------------------------------------------------------
(***************************************************************************)
(* Texts: what FlattenSeq puts together, piece by piece.                   *)
(***************************************************************************)
Joins(seqs, F) ==
  F[0] = <<>> /\ \A i \in 1 .. Len(seqs) : F[i] = F[i - 1] \o seqs[i]

LEMMA Flattened ==
  ASSUME NEW S, NEW seqs \in Seq(Seq(S))
  PROVE  \E F \in [0 .. Len(seqs) -> Seq(S)] : Joins(seqs, F) /\ FlattenSeq(seqs) = F[Len(seqs)]
<1> DEFINE n == Len(seqs)
           D == 1 .. n
           X == Seq(S)
           body(i, f) == IF i = 1 THEN seqs[i] ELSE f[i - 1] \o seqs[i]
           Def(f) == f = [i \in 1 .. n |-> body(i, f)]
           f0 == CHOOSE f : Def(f)
           rank == [i \in D |-> i]
           Next0 == [q \in D \X [D -> X] |-> body(q[1], q[2])]
<1>1. n \in Nat /\ \A i \in D : seqs[i] \in X
  BY LenProperties, ElementOfSeq
<1>2. <<>> \in X
  BY EmptySeq
<1>3. CASE n = 0
  <2>1. seqs = <<>>
    BY <1>3, EmptySeq
  <2>2. FlattenSeq(seqs) = <<>>
    BY <1>3, <2>1 DEF FlattenSeq
  <2> DEFINE F == [i \in 0 .. n |-> <<>>]
  <2>3. F \in [0 .. n -> X] /\ F[0] = <<>> /\ F[n] = <<>>
    BY <1>1, <1>2
  <2>4. \A i \in 1 .. n : F[i] = F[i - 1] \o seqs[i]
    BY <1>3
  <2>5. \E G \in [0 .. n -> X] : G[0] = <<>> /\ FlattenSeq(seqs) = G[n]
                                 /\ \A i \in 1 .. n : G[i] = G[i - 1] \o seqs[i]
    <3> HIDE DEF F, n, X
    <3> QED BY <2>2, <2>3, <2>4
  <2> QED BY <2>5 DEF Joins
<1>4. CASE n # 0
  <2>0. n \in Nat \ {0}
    BY <1>1, <1>4
  <2>1. ASSUME NEW i \in D, NEW f \in [D -> X] PROVE body(i, f) \in X
    <3>1. i # 1 => i - 1 \in D
      BY <2>0
    <3>2. seqs[i] \in X
      BY <1>1
    <3>3. \A s, t \in X : s \o t \in X
      BY ConcatProperties
    <3> HIDE DEF D, X, n
    <3> QED BY <3>1, <3>2, <3>3
  <2>2. Determined(D, X, rank, Next0)
    <3>1. rank \in [D -> Nat]
      BY <2>0
    <3>2. Next0 \in [D \X [D -> X] -> X]
      <4> HIDE DEF D, X, body
      <4> QED BY <2>1
    <3>3. ASSUME NEW d \in D, NEW f \in [D -> X], NEW g \in [D -> X],
                 \A e \in D : rank[e] < rank[d] => f[e] = g[e]
          PROVE  Next0[<<d, f>>] = Next0[<<d, g>>]
      <4>1. d # 1 => d - 1 \in D /\ rank[d - 1] < rank[d]
        BY <2>0
      <4>2. body(d, f) = body(d, g)
        <5> HIDE DEF D, rank
        <5> QED BY <3>3, <4>1
      <4> HIDE DEF D, X, body
      <4> QED BY <4>2
    <3> HIDE DEF rank, Next0, D, X
    <3> QED BY <3>1, <3>2, <3>3 DEF Determined
  <2>3. PICK g \in [D -> X] : \A d \in D : g[d] = Next0[<<d, g>>]
    <3> HIDE DEF D, X, rank, Next0
    <3>1. Solvable(D, X, Next0)
      BY <1>2, <2>2, Recursive
    <3> QED BY <3>1 DEF Solvable
  <2>4. Def(g)
    <3>1. \A d \in D : g[d] = body(d, g)
      <4> HIDE DEF body, X, D
      <4> QED BY <2>3
    <3> QED BY <3>1
  <2>5. Def(f0)
    <3> HIDE DEF Def
    <3> QED BY <2>4
  <2>6. FlattenSeq(seqs) = f0[n]
    <3> HIDE DEF n
    <3> QED BY <2>0 DEF FlattenSeq, n
  <2>7. \A i \in D : f0[i] = body(i, f0)
    <3> HIDE DEF f0
    <3> QED BY <2>5
  <2> HIDE DEF f0
  <2> DEFINE T == {m \in Nat : m \in D => f0[m] \in X}
  <2>8. 0 \in T
    OBVIOUS
  <2>9. ASSUME NEW m \in Nat, m \in T PROVE m + 1 \in T
    <3> SUFFICES ASSUME m + 1 \in D PROVE f0[m + 1] \in X
      OBVIOUS
    <3>1. m + 1 # 1 => m \in D /\ (m + 1) - 1 = m
      BY <2>0
    <3>2. seqs[m + 1] \in X
      BY <1>1
    <3>3. \A s, t \in X : s \o t \in X
      BY ConcatProperties
    <3>4. f0[m + 1] = body(m + 1, f0)
      BY <2>7
    <3> HIDE DEF D, X
    <3> QED BY <2>9, <3>1, <3>2, <3>3, <3>4
  <2> HIDE DEF T
  <2>10. \A m \in Nat : m \in T
    BY <2>8, <2>9, Inductive
  <2> DEFINE F == [i \in 0 .. n |-> IF i = 0 THEN <<>> ELSE f0[i]]
  <2>11. F \in [0 .. n -> X]
    <3> SUFFICES ASSUME NEW i \in 0 .. n, i # 0 PROVE f0[i] \in X
      BY <1>2
    <3>1. i \in Nat /\ i \in D
      BY <2>0
    <3> HIDE DEF D, X
    <3> QED BY <2>10, <3>1 DEF T
  <2>12. ASSUME NEW i \in 1 .. n PROVE F[i] = F[i - 1] \o seqs[i]
    <3>1. i # 0 /\ i \in 0 .. n /\ i - 1 \in 0 .. n /\ (i = 1 <=> i - 1 = 0)
      BY <2>0
    <3>2. f0[i] = IF i = 1 THEN seqs[i] ELSE f0[i - 1] \o seqs[i]
      BY <2>7
    <3>3. <<>> \o seqs[i] = seqs[i]
      <4>1. seqs[i] \in Seq(S)
        BY <1>1
      <4> QED BY <4>1, ConcatEmptySeq
    <3> HIDE DEF n
    <3> QED BY <3>1, <3>2, <3>3
  <2>13. F[0] = <<>> /\ F[n] = f0[n]
    BY <2>0
  <2>14. \E G \in [0 .. n -> X] : G[0] = <<>> /\ FlattenSeq(seqs) = G[n]
                                  /\ \A i \in 1 .. n : G[i] = G[i - 1] \o seqs[i]
    <3> HIDE DEF F, n, X
    <3> QED BY <2>6, <2>11, <2>12, <2>13
  <2> QED BY <2>14 DEF Joins
<1> QED BY <1>3, <1>4

LEMMA FlatSingles ==
  ASSUME NEW S, NEW text \in Seq(S)
  PROVE  FlattenSeq([i \in 1 .. Len(text) |-> <<text[i]>>]) = text
<1> DEFINE n == Len(text)
           seqs == [i \in 1 .. n |-> <<text[i]>>]
<1>1. n \in Nat /\ \A i \in 1 .. n : text[i] \in S
  BY LenProperties, ElementOfSeq
<1>2. Len(seqs) = n /\ seqs \in Seq(Seq(S))
  <2>1. \A i \in 1 .. n : <<text[i]>> \in Seq(S)
    BY <1>1
  <2> HIDE DEF n
  <2> QED BY <1>1, <2>1
<1>3. PICK F \in [0 .. n -> Seq(S)] : Joins(seqs, F) /\ FlattenSeq(seqs) = F[n]
  <2> HIDE DEF seqs, n
  <2> QED BY <1>2, Flattened
<1>4. F[0] = <<>> /\ \A i \in 1 .. n : F[i] = F[i - 1] \o <<text[i]>>
  BY <1>2, <1>3 DEF Joins
<1> DEFINE T == {m \in Nat : m <= n => F[m] = SubSeq(text, 1, m)}
<1>5. 0 \in T
  <2>1. SubSeq(text, 1, 0) = <<>>
    BY SubSeqEmpty
  <2> QED BY <1>4, <2>1
<1>6. ASSUME NEW m \in Nat, m \in T PROVE m + 1 \in T
  <2> SUFFICES ASSUME m + 1 <= n PROVE F[m + 1] = SubSeq(text, 1, m + 1)
    OBVIOUS
  <2>1. m <= n /\ m + 1 \in 1 .. n /\ (m + 1) - 1 = m /\ 1 \in 1 .. n
    BY <1>1
  <2>2. SubSeq(text, 1, m + 1) = SubSeq(text, 1, m) \o <<text[m + 1]>>
    BY <2>1, SubSeqRecursiveSecond
  <2> HIDE DEF n
  <2> QED BY <1>4, <1>6, <2>1, <2>2
<1> HIDE DEF T
<1>7. n \in T
  BY <1>1, <1>5, <1>6, Inductive
<1>8. F[n] = SubSeq(text, 1, n)
  BY <1>1, <1>7 DEF T
<1> QED BY <1>3, <1>8, SubSeqFull

\* What Only keeps of a text, character by character.
KeptOf(ch, chars) == IF ch \in chars THEN <<ch>> ELSE <<>>

Kept(text, chars) == [k \in 1 .. Len(text) |-> KeptOf(text[k], chars)]

Keeps(text, chars, F) ==
  F[0] = <<>> /\ \A k \in 1 .. Len(text) : F[k] = F[k - 1] \o KeptOf(text[k], chars)

LEMMA KeptSeq ==
  ASSUME NEW S, NEW text \in Seq(S), NEW chars
  PROVE  Kept(text, chars) \in Seq(Seq(S)) /\ Len(Kept(text, chars)) = Len(text)
<1> DEFINE n == Len(text)
           piece(k) == KeptOf(text[k], chars)
<1>1. n \in Nat /\ \A i \in 1 .. n : text[i] \in S
  BY LenProperties, ElementOfSeq
<1>2. \A k \in 1 .. n : piece(k) \in Seq(S)
  BY <1>1, EmptySeq DEF KeptOf
<1>3. Kept(text, chars) = [k \in 1 .. n |-> piece(k)]
  BY DEF Kept
<1> HIDE DEF n, piece
<1> QED BY <1>1, <1>2, <1>3 DEF n

LEMMA OnlyJoins ==
  ASSUME NEW S, NEW text \in Seq(S), NEW chars
  PROVE  \E F \in [0 .. Len(text) -> Seq(S)] :
           Only(text, chars) = F[Len(text)] /\ Keeps(text, chars, F)
<1> DEFINE seqs == Kept(text, chars)
<1>1. seqs \in Seq(Seq(S)) /\ Len(seqs) = Len(text)
  BY KeptSeq
<1>2. Only(text, chars) = FlattenSeq(seqs)
  BY DEF Only, Kept, KeptOf
<1>3. \A k \in 1 .. Len(text) : seqs[k] = KeptOf(text[k], chars)
  BY DEF Kept
<1> HIDE DEF seqs
<1>4. PICK F \in [0 .. Len(seqs) -> Seq(S)] : Joins(seqs, F) /\ FlattenSeq(seqs) = F[Len(seqs)]
  BY <1>1, Flattened
<1>5. F[0] = <<>> /\ \A k \in 1 .. Len(text) : F[k] = F[k - 1] \o seqs[k]
  BY <1>1, <1>4 DEF Joins
<1>6. Keeps(text, chars, F)
  BY <1>3, <1>5 DEF Keeps
<1> QED BY <1>1, <1>2, <1>4, <1>6

LEMMA OnlyAll ==
  ASSUME NEW chars, NEW text \in Seq(chars)
  PROVE  Only(text, chars) = text
<1>1. \A k \in 1 .. Len(text) : text[k] \in chars
  BY ElementOfSeq
<1>2. [k \in 1 .. Len(text) |-> IF text[k] \in chars THEN <<text[k]>> ELSE <<>>]
      = [k \in 1 .. Len(text) |-> <<text[k]>>]
  BY <1>1
<1> QED BY <1>2, FlatSingles DEF Only

LEMMA OnlyConcat ==
  ASSUME NEW S, NEW s \in Seq(S), NEW t \in Seq(S), NEW chars
  PROVE  Only(s \o t, chars) = Only(s, chars) \o Only(t, chars)
<1> DEFINE m == Len(s)
           n == Len(t)
           piece(ch) == KeptOf(ch, chars)
<1>1. /\ m \in Nat /\ n \in Nat /\ s \o t \in Seq(S) /\ Len(s \o t) = m + n
      /\ \A k \in 1 .. m : (s \o t)[k] = s[k]
      /\ \A k \in 1 .. n : (s \o t)[m + k] = t[k]
  <2>1. m \in Nat /\ n \in Nat
    BY LenProperties
  <2>2. /\ s \o t \in Seq(S) /\ Len(s \o t) = m + n
        /\ \A i \in 1 .. m + n : (s \o t)[i] = IF i <= m THEN s[i] ELSE t[i - m]
    BY ConcatProperties
  <2>3. \A k \in 1 .. m : k \in 1 .. m + n /\ k <= m
    BY <2>1
  <2>4. \A k \in 1 .. n : m + k \in 1 .. m + n /\ ~(m + k <= m) /\ (m + k) - m = k
    BY <2>1
  <2> HIDE DEF m, n
  <2> QED BY <2>1, <2>2, <2>3, <2>4
<1>2. PICK F \in [0 .. m -> Seq(S)] : Only(s, chars) = F[m] /\ Keeps(s, chars, F)
  BY OnlyJoins
<1>3. PICK G \in [0 .. n -> Seq(S)] : Only(t, chars) = G[n] /\ Keeps(t, chars, G)
  BY OnlyJoins
<1>4. PICK H \in [0 .. m + n -> Seq(S)] : Only(s \o t, chars) = H[m + n] /\ Keeps(s \o t, chars, H)
  <2> DEFINE st == s \o t
  <2>1. st \in Seq(S) /\ Len(st) = m + n
    BY <1>1
  <2> HIDE DEF st
  <2>2. \E H \in [0 .. Len(st) -> Seq(S)] : Only(st, chars) = H[Len(st)] /\ Keeps(st, chars, H)
    BY <2>1, OnlyJoins
  <2> HIDE DEF m, n
  <2> QED BY <2>1, <2>2 DEF st
<1>5. F[0] = <<>> /\ \A k \in 1 .. m : F[k] = F[k - 1] \o piece(s[k])
  BY <1>2 DEF Keeps
<1>6. G[0] = <<>> /\ \A k \in 1 .. n : G[k] = G[k - 1] \o piece(t[k])
  BY <1>3 DEF Keeps
<1>7. H[0] = <<>> /\ \A k \in 1 .. m + n : H[k] = H[k - 1] \o piece((s \o t)[k])
  BY <1>1, <1>4 DEF Keeps
<1>8. \A k \in 1 .. m : H[k] = H[k - 1] \o piece(s[k])
  <2>1. \A k \in 1 .. m : k \in 1 .. m + n
    BY <1>1
  <2> HIDE DEF piece, m, n
  <2> QED BY <1>1, <1>7, <2>1
<1>9. \A k \in 1 .. n : H[m + k] = H[(m + k) - 1] \o piece(t[k])
  <2> HIDE DEF piece, m, n
  <2> SUFFICES ASSUME NEW k \in 1 .. n PROVE H[m + k] = H[(m + k) - 1] \o piece(t[k])
    OBVIOUS
  <2> DEFINE j == m + k
  <2>1. j \in 1 .. m + n
    BY <1>1
  <2>2. (s \o t)[j] = t[k]
    BY <1>1
  <2> HIDE DEF j
  <2>3. H[j] = H[j - 1] \o piece((s \o t)[j])
    BY <1>7, <2>1
  <2>4. H[j] = H[j - 1] \o piece(t[k])
    BY <2>2, <2>3
  <2> QED BY <2>4 DEF j
<1> HIDE DEF m, n, piece
<1> DEFINE T == {k \in Nat : k <= m => H[k] = F[k]}
<1>10. H[m] = F[m]
  <2>1. 0 \in T
    BY <1>5, <1>7
  <2>2. ASSUME NEW k \in Nat, k \in T PROVE k + 1 \in T
    <3> SUFFICES ASSUME k + 1 <= m PROVE H[k + 1] = F[k + 1]
      OBVIOUS
    <3>1. m \in Nat
      BY <1>1
    <3>2. k <= m /\ k + 1 \in 1 .. m /\ (k + 1) - 1 = k
      BY <3>1
    <3> QED BY <1>5, <1>8, <2>2, <3>2
  <2> HIDE DEF T
  <2>3. m \in T
    BY <1>1, <2>1, <2>2, Inductive
  <2> QED BY <1>1, <2>3 DEF T
<1> DEFINE U == {k \in Nat : k <= n => H[m + k] = F[m] \o G[k]}
<1>11. H[m + n] = F[m] \o G[n]
  <2>0. F[m] \in Seq(S)
    BY <1>1
  <2>1. 0 \in U
    <3>1. m + 0 = m /\ F[m] \o <<>> = F[m]
      BY <1>1, <2>0, ConcatEmptySeq
    <3> QED BY <1>6, <1>10, <3>1
  <2>2. ASSUME NEW k \in Nat, k \in U PROVE k + 1 \in U
    <3> SUFFICES ASSUME k + 1 <= n PROVE H[m + (k + 1)] = F[m] \o G[k + 1]
      <4>1. k + 1 \in Nat
        OBVIOUS
      <4> DEFINE j == k + 1
      <4> HIDE DEF j
      <4>2. j \in Nat /\ (j <= n => H[m + j] = F[m] \o G[j]) => j \in U
        OBVIOUS
      <4> HIDE DEF U
      <4> QED BY <4>1, <4>2 DEF j
    <3>1. k <= n /\ k + 1 \in 1 .. n /\ (k + 1) - 1 = k /\ (m + (k + 1)) - 1 = m + k /\ k \in 0 .. n
      BY <1>1
    <3>2. H[m + (k + 1)] = H[m + k] \o piece(t[k + 1]) /\ G[k + 1] = G[k] \o piece(t[k + 1])
      <4> DEFINE j == k + 1
      <4>1. j \in 1 .. n /\ j - 1 = k /\ (m + j) - 1 = m + k
        BY <3>1
      <4> HIDE DEF j
      <4>2. H[m + j] = H[(m + j) - 1] \o piece(t[j]) /\ G[j] = G[j - 1] \o piece(t[j])
        BY <1>6, <1>9, <4>1
      <4> QED BY <4>1, <4>2 DEF j
    <3>3. piece(t[k + 1]) \in Seq(S)
      <4>1. t[k + 1] \in S
        BY <3>1, ElementOfSeq DEF n
      <4> QED BY <4>1, EmptySeq DEF piece, KeptOf
    <3>4. G[k] \in Seq(S)
      BY <3>1
    <3>5. (F[m] \o G[k]) \o piece(t[k + 1]) = F[m] \o (G[k] \o piece(t[k + 1]))
      <4> DEFINE x == F[m]
                 y == G[k]
                 z == piece(t[k + 1])
      <4>1. x \in Seq(S) /\ y \in Seq(S) /\ z \in Seq(S)
        BY <2>0, <3>3, <3>4
      <4> HIDE DEF x, y, z
      <4>2. (x \o y) \o z = x \o (y \o z)
        BY SMTT(20), <4>1, ConcatAssociative
      <4> QED BY <4>2 DEF x, y, z
    <3> QED BY <2>2, <3>1, <3>2, <3>5
  <2> HIDE DEF U
  <2>3. n \in U
    BY <1>1, <2>1, <2>2, Inductive
  <2> QED BY SMTT(20), <1>1, <2>3 DEF U
<1> QED BY <1>2, <1>3, <1>4, <1>10, <1>11

LEMMA OnlyNone ==
  ASSUME NEW S, NEW text \in Seq(S), NEW chars, S \cap chars = {}
  PROVE  Only(text, chars) = <<>>
<1> DEFINE n == Len(text)
<1>1. n \in Nat /\ \A k \in 1 .. n : text[k] \in S
  BY LenProperties, ElementOfSeq
<1>2. PICK F \in [0 .. n -> Seq(S)] : Only(text, chars) = F[n] /\ Keeps(text, chars, F)
  BY OnlyJoins
<1>3. F[0] = <<>> /\ \A k \in 1 .. n : F[k] = F[k - 1] \o <<>>
  <2>1. \A k \in 1 .. n : KeptOf(text[k], chars) = <<>>
    BY <1>1 DEF KeptOf
  <2> QED BY <1>2, <2>1 DEF Keeps
<1>4. <<>> \o <<>> = <<>>
  <2>1. <<>> \in Seq(S)
    BY EmptySeq
  <2> QED BY <2>1, ConcatEmptySeq
<1> HIDE DEF n
<1> DEFINE T == {k \in Nat : k <= n => F[k] = <<>>}
<1>5. 0 \in T
  BY <1>3
<1>6. ASSUME NEW k \in Nat, k \in T PROVE k + 1 \in T
  <2> SUFFICES ASSUME k + 1 <= n PROVE F[k + 1] = <<>>
    OBVIOUS
  <2>1. k <= n /\ k + 1 \in 1 .. n /\ (k + 1) - 1 = k
    BY <1>1
  <2> QED BY <1>3, <1>4, <1>6, <2>1
<1> HIDE DEF T
<1>7. n \in T
  BY <1>1, <1>5, <1>6, Inductive
<1> QED BY <1>1, <1>2, <1>7 DEF T

-----------------------------------------------------------------------------
(***************************************************************************)
(* What printf prints for a number: the digits it divides off, turned round. *)
(***************************************************************************)
\* The numerals of the bases up to 16.
Digits == {"0", "1", "2", "3", "4", "5", "6", "7",
           "8", "9", "a", "b", "c", "d", "e", "f"}

LEMMA Quotient ==
  ASSUME NEW n \in Nat \ {0}, NEW b \in Nat, b >= 2
  PROVE  n \div b \in Nat /\ n \div b < n /\ n % b \in 0 .. b - 1
OBVIOUS

\* The digits of a number, which is the only one when it is less than the base.
LEMMA DigitsOf ==
  ASSUME NEW b \in 2 .. 16, NEW num \in Nat \ {0}
  PROVE  /\ Backwards(num, b) \in Seq(Digits)
         /\ num < b => Backwards(num, b) = <<Numeral[num + 1]>>
<1> DEFINE Texts == Seq(Digits)
           Def(f) == f = [n \in Nat |-> IF n = 0 THEN <<>>
                                        ELSE <<Numeral[(n % b) + 1]>> \o f[n \div b]]
           f0 == CHOOSE f : Def(f)
           size == [n \in Nat |-> n]
           body(n, f) == IF n = 0 THEN <<>> ELSE <<Numeral[(n % b) + 1]>> \o f[n \div b]
           Grow == [q \in Nat \X [Nat -> Texts] |-> body(q[1], q[2])]
<1>0. b \in Nat /\ b >= 2 /\ b <= 16
  OBVIOUS
<1>1. ASSUME NEW n \in Nat \ {0} PROVE <<Numeral[(n % b) + 1]>> \in Texts
  <2> DEFINE d == (n % b) + 1
  <2>1. d \in 1 .. 16
    <3> DEFINE r == n % b
    <3>1. r \in 0 .. b - 1
      BY <1>0, Quotient
    <3> HIDE DEF r
    <3> QED BY <1>0, <3>1
  <2> HIDE DEF d
  <2>2. Numeral[d] \in Digits
    BY <2>1 DEF Numeral, Digits
  <2> DEFINE c == Numeral[d]
  <2> HIDE DEF c
  <2>3. c \in Digits => <<c>> \in Seq(Digits)
    OBVIOUS
  <2> QED BY <2>2, <2>3 DEF c, d
<1>2. ASSUME NEW n \in Nat, NEW f \in [Nat -> Texts] PROVE body(n, f) \in Texts
  <2>1. CASE n = 0
    BY <2>1, EmptySeq
  <2>2. CASE n # 0
    <3>1. f[n \div b] \in Texts /\ <<Numeral[(n % b) + 1]>> \in Texts
      BY <1>0, <1>1, <2>2, Quotient
    <3> HIDE DEF Texts
    <3>2. \A s, t \in Texts : s \o t \in Texts
      BY ConcatProperties DEF Texts
    <3> QED BY <2>2, <3>1, <3>2
  <2> QED BY <2>1, <2>2
<1>3. Determined(Nat, Texts, size, Grow)
  <2>1. size \in [Nat -> Nat]
    OBVIOUS
  <2>2. Grow \in [Nat \X [Nat -> Texts] -> Texts]
    <3> HIDE DEF Texts, body
    <3> QED BY <1>2
  <2>3. ASSUME NEW n \in Nat, NEW f \in [Nat -> Texts], NEW g \in [Nat -> Texts],
               \A e \in Nat : size[e] < size[n] => f[e] = g[e]
        PROVE  Grow[<<n, f>>] = Grow[<<n, g>>]
    <3>1. n # 0 => f[n \div b] = g[n \div b]
      BY <1>0, <2>3, Quotient
    <3>2. body(n, f) = body(n, g)
      BY <3>1
    <3> HIDE DEF Texts, body
    <3> QED BY <3>2
  <2> HIDE DEF size, Grow, Texts
  <2> QED BY <2>1, <2>2, <2>3 DEF Determined
<1>4. PICK g \in [Nat -> Texts] : \A n \in Nat : g[n] = Grow[<<n, g>>]
  <2>1. <<>> \in Texts
    BY EmptySeq
  <2> HIDE DEF Texts, size, Grow
  <2>2. Solvable(Nat, Texts, Grow)
    BY <1>3, <2>1, Recursive
  <2> QED BY <2>2 DEF Solvable
<1>5. Def(g)
  <2>1. \A n \in Nat : g[n] = body(n, g)
    <3> HIDE DEF body, Texts
    <3> QED BY <1>4
  <2> QED BY <2>1
<1>6. Def(f0)
  <2> HIDE DEF Def
  <2> QED BY <1>5
<1>7. \A n \in Nat : f0[n] = body(n, f0)
  <2> HIDE DEF f0
  <2> QED BY <1>6
<1>8. Backwards(num, b) = f0[num]
  BY DEF Backwards
<1> HIDE DEF f0
<1> DEFINE T == {m \in Nat : \A n \in 0 .. m : f0[n] \in Texts}
<1>9. 0 \in T
  <2>1. f0[0] = <<>>
    BY <1>7
  <2>2. f0[0] \in Texts
    BY <2>1, EmptySeq
  <2> HIDE DEF Texts
  <2>3. \A n \in 0 .. 0 : n = 0
    OBVIOUS
  <2> QED BY <2>2, <2>3
<1>10. ASSUME NEW m \in Nat, m \in T PROVE m + 1 \in T
  <2>1. f0[m + 1] \in Texts
    <3> DEFINE n == m + 1
               k == n \div b
               h == <<Numeral[(n % b) + 1]>>
    <3>1. n \in Nat \ {0}
      OBVIOUS
    <3>2. k \in Nat /\ k < n /\ h \in Texts
      BY <1>0, <1>1, <3>1, Quotient
    <3>3. f0[n] = h \o f0[k]
      BY <1>7, <3>1
    <3>4. f0[k] \in Texts
      <4> HIDE DEF k
      <4>1. k \in 0 .. m
        BY <3>2
      <4> QED BY <1>10, <4>1
    <3> HIDE DEF h, k, n
    <3>5. f0[n] \in Texts
      BY <3>2, <3>3, <3>4, ConcatProperties
    <3> QED BY <3>5 DEF n
  <2>2. \A n \in 0 .. m + 1 : n = m + 1 \/ n \in 0 .. m
    OBVIOUS
  <2> HIDE DEF Texts
  <2> QED BY <1>10, <2>1, <2>2
<1>11. \A n \in Nat : f0[n] \in Texts
  <2> HIDE DEF T
  <2>1. \A m \in Nat : m \in T
    BY <1>9, <1>10, Inductive
  <2>2. ASSUME NEW n \in Nat PROVE f0[n] \in Texts
    <3>1. n \in T /\ n \in 0 .. n
      BY <2>1
    <3> HIDE DEF Texts
    <3> QED BY <3>1 DEF T
  <2> QED BY <2>2
<1>12. ASSUME num < b PROVE f0[num] = <<Numeral[num + 1]>>
  <2>1. num \div b = 0 /\ num % b = num
    BY <1>0, <1>12
  <2> DEFINE h == <<Numeral[num + 1]>>
  <2>2. h \in Seq(Digits)
    BY <1>1, <2>1
  <2>3. f0[num] = h \o f0[0] /\ f0[0] = <<>>
    <3>1. f0[num] = body(num, f0) /\ f0[0] = body(0, f0)
      BY <1>7
    <3>2. num # 0 /\ f0[num \div b] = f0[0] /\ Numeral[(num % b) + 1] = Numeral[num + 1]
      BY <2>1
    <3>3. body(num, f0) = <<Numeral[(num % b) + 1]>> \o f0[num \div b] /\ body(0, f0) = <<>>
      BY <3>2
    <3> HIDE DEF body
    <3> QED BY <3>1, <3>2, <3>3
  <2> HIDE DEF h
  <2>4. h \o <<>> = h
    BY <2>2, ConcatEmptySeq
  <2> QED BY <2>3, <2>4 DEF h
<1> QED BY <1>8, <1>11, <1>12

LEMMA ForwardsOf ==
  ASSUME NEW S, NEW s \in Seq(S)
  PROVE  Forwards(s) \in Seq(S) /\ (Len(s) = 1 => Forwards(s) = s)
<1> DEFINE n == Len(s)
<1>1. n \in Nat /\ \A i \in 1 .. n : s[i] \in S
  BY LenProperties, ElementOfSeq
<1>2. \A i \in 1 .. n : (n - i) + 1 \in 1 .. n
  BY <1>1
<1> DEFINE t == [i \in 1 .. n |-> s[(n - i) + 1]]
<1>3. t \in Seq(S) /\ Len(t) = n
  <2> HIDE DEF n
  <2> QED BY <1>1, <1>2
<1>4. Forwards(s) = t
  BY DEF Forwards, Reverse
<1>5. ASSUME n = 1 PROVE t = s
  <2>1. \A i \in 1 .. n : t[i] = s[i]
    BY <1>5
  <2> HIDE DEF t
  <2> QED BY <1>3, <2>1, SeqEqual
<1> QED BY <1>3, <1>4, <1>5

\* What printf prints for %d.
LEMMA NumberPrinted == \A n \in Nat : IntPrint(n) \in Seq(Digits)
<1> SUFFICES ASSUME NEW n \in Nat PROVE IntPrint(n) \in Seq(Digits)
  OBVIOUS
<1>1. CASE n = 0
  <2>1. <<"0">> \in Seq(Digits)
    BY DEF Digits
  <2> QED BY <1>1, <2>1 DEF IntPrint
<1>2. CASE n # 0
  <2>1. IntPrint(n) = Forwards(Backwards(n, 10))
    BY <1>2 DEF IntPrint
  <2>2. n \in Nat \ {0} /\ 10 \in 2 .. 16
    BY <1>2
  <2>3. Backwards(n, 10) \in Seq(Digits)
    BY <2>2, DigitsOf
  <2> QED BY <2>1, <2>3, ForwardsOf
<1> QED BY <1>1, <1>2

LEMMA Pair ==
  ASSUME NEW a, NEW b
  PROVE  <<a>> \o <<b>> = <<a, b>>
<1> DEFINE S == {a, b}
           s == <<a>>
           t == <<b>>
           u == <<a, b>>
<1>1. s \in Seq(S) /\ t \in Seq(S) /\ u \in Seq(S) /\ Len(s) = 1 /\ Len(t) = 1 /\ Len(u) = 2
  OBVIOUS
<1>2. s[1] = a /\ t[1] = b /\ u[1] = a /\ u[2] = b
  OBVIOUS
<1> HIDE DEF s, t, u, S
<1>3. /\ s \o t \in Seq(S) /\ Len(s \o t) = 2
      /\ \A i \in 1 .. 2 : (s \o t)[i] = IF i <= 1 THEN s[i] ELSE t[i - 1]
  <2>1. /\ s \o t \in Seq(S) /\ Len(s \o t) = Len(s) + Len(t)
        /\ \A i \in 1 .. Len(s) + Len(t) :
             (s \o t)[i] = IF i <= Len(s) THEN s[i] ELSE t[i - Len(s)]
    BY <1>1, ConcatProperties
  <2>2. Len(s) + Len(t) = 2
    BY <1>1
  <2> QED BY <1>1, <2>1, <2>2
<1>4. \A i \in 1 .. 2 : (s \o t)[i] = u[i]
  <2>1. (s \o t)[1] = s[1] /\ (s \o t)[2] = t[1]
    BY <1>3
  <2>2. \A i \in 1 .. 2 : i = 1 \/ i = 2
    OBVIOUS
  <2> QED BY <1>2, <2>1, <2>2
<1>5. s \o t = u
  BY <1>1, <1>3, <1>4, SeqEqual
<1> QED BY <1>5 DEF s, t, u

LEMMA BitPrinted ==
  IntPrint(0) = <<"0">> /\ IntPrint(1) = <<"1">> /\ IntPrint(EMPTY) = <<"-", "1">>
<1>1. Backwards(1, 10) = <<"1">>
  <2>1. 1 \in Nat \ {0} /\ 10 \in 2 .. 16 /\ 1 < 10 /\ 1 + 1 = 2
    OBVIOUS
  <2>2. Backwards(1, 10) = <<Numeral[2]>>
    BY <2>1, DigitsOf
  <2> QED BY <2>2 DEF Numeral
<1>2. Forwards(<<"1">>) = <<"1">>
  <2>1. <<"1">> \in Seq(Digits) /\ Len(<<"1">>) = 1
    BY DEF Digits
  <2> QED BY <2>1, ForwardsOf
<1>3. <<"-">> \o <<"1">> = <<"-", "1">>
  BY Pair
<1>5. IntPrint(0) = <<"0">>
  BY DEF IntPrint
<1>6. IntPrint(1) = <<"1">>
  <2>1. IntPrint(1) = Forwards(Backwards(1, 10))
    BY SMT DEF IntPrint
  <2> QED BY <1>1, <1>2, <2>1
<1>7. IntPrint(EMPTY) = <<"-", "1">>
  <2>1. ASSUME NEW x \in Int, x + 1 = 0 PROVE IntPrint(x) = <<"-", "1">>
    <3>1. x < 0 /\ x # 0 /\ -x = 1
      BY <2>1
    <3> QED BY <1>1, <1>2, <1>3, <3>1 DEF IntPrint
  <2>2. EMPTY \in Int /\ EMPTY + 1 = 0
    BY DEF EMPTY
  <2> QED BY <2>1, <2>2
<1> QED BY <1>5, <1>6, <1>7

-----------------------------------------------------------------------------
(***************************************************************************)
(* What printf sends.                                                      *)
(***************************************************************************)
Conversions == {"%", "%d", "%x", "%s"}

LEMMA PrintedIn ==
  ASSUME NEW S, NEW format, NEW args, NEW n \in Nat, Len(format) = n,
         \A i \in 1 .. n : Sent(format, args, i) \in Seq(S)
  PROVE  Printed(format, args) \in Seq(S)
<1> DEFINE sent(i) == Sent(format, args, i)
           seqs == [i \in 1 .. n |-> sent(i)]
<1>1. seqs \in Seq(Seq(S)) /\ Len(seqs) = n
  <2>1. \A i \in 1 .. n : sent(i) \in Seq(S)
    OBVIOUS
  <2> HIDE DEF sent
  <2> QED BY <2>1
<1>2. Printed(format, args) = FlattenSeq(seqs)
  BY DEF Printed
<1> HIDE DEF seqs
<1>3. PICK F \in [0 .. n -> Seq(S)] : FlattenSeq(seqs) = F[n]
  BY <1>1, Flattened
<1> QED BY <1>2, <1>3

LEMMA PrintedThree ==
  ASSUME NEW S, NEW label \in S, label \notin Conversions, NEW conv, NEW arg,
         "\n" \in S, Sent(<<label, conv, "\n">>, <<arg>>, 2) \in Seq(S)
  PROVE  Printed(<<label, conv, "\n">>, <<arg>>)
         = (<<label>> \o Sent(<<label, conv, "\n">>, <<arg>>, 2)) \o <<"\n">>
<1> DEFINE format == <<label, conv, "\n">>
           args == <<arg>>
           sent(i) == Sent(format, args, i)
           seqs == [i \in 1 .. 3 |-> sent(i)]
<1>1. sent(1) = <<label>> /\ sent(3) = <<"\n">>
  <2>1. format[1] = label /\ format[3] = "\n" /\ "\n" \notin Conversions
    BY DEF Conversions
  <2> HIDE DEF format
  <2> QED BY <2>1 DEF Sent, Conversions
<1>2. Printed(format, args) = FlattenSeq(seqs)
  BY DEF Printed
<1> DEFINE x == sent(2)
<1>3. x \in Seq(S)
  OBVIOUS
<1> HIDE DEF sent, format, args
<1>4. seqs[1] = <<label>> /\ seqs[2] = x /\ seqs[3] = <<"\n">> /\ <<label>> \in Seq(S) /\ <<"\n">> \in Seq(S)
  BY <1>1
<1>5. seqs \in Seq(Seq(S)) /\ Len(seqs) = 3
  <2>1. \A i \in 1 .. 3 : i = 1 \/ i = 2 \/ i = 3
    OBVIOUS
  <2>2. \A i \in 1 .. 3 : sent(i) \in Seq(S)
    BY <1>1, <1>3, <1>4, <2>1
  <2> QED BY <2>2
<1> HIDE DEF seqs, x
<1>6. PICK F \in [0 .. 3 -> Seq(S)] : Joins(seqs, F) /\ FlattenSeq(seqs) = F[3]
  BY <1>5, Flattened
<1>7. F[0] = <<>> /\ F[1] = F[0] \o <<label>> /\ F[2] = F[1] \o x /\ F[3] = F[2] \o <<"\n">>
  <2>1. F[0] = <<>> /\ \A i \in 1 .. 3 : F[i] = F[i - 1] \o seqs[i]
    BY <1>5, <1>6 DEF Joins
  <2>2. 1 - 1 = 0 /\ 2 - 1 = 1 /\ 3 - 1 = 2 /\ 1 \in 1 .. 3 /\ 2 \in 1 .. 3 /\ 3 \in 1 .. 3
    OBVIOUS
  <2>3. F[1] = F[0] \o seqs[1]
    BY <2>1, <2>2
  <2>4. F[2] = F[1] \o seqs[2]
    BY <2>1, <2>2
  <2>5. F[3] = F[2] \o seqs[3]
    BY <2>1, <2>2
  <2> QED BY <1>4, <2>1, <2>3, <2>4, <2>5
<1>8. <<>> \o <<label>> = <<label>>
  BY <1>4, ConcatEmptySeq
<1>9. Printed(format, args) = (<<label>> \o x) \o <<"\n">>
  BY <1>2, <1>6, <1>7, <1>8
<1> QED BY <1>9 DEF x, format, args, sent

LEMMA PrintedOne ==
  ASSUME NEW S, NEW conv, NEW args, Sent(<<conv>>, args, 1) \in Seq(S)
  PROVE  Printed(<<conv>>, args) = Sent(<<conv>>, args, 1)
<1> DEFINE format == <<conv>>
           sent(i) == Sent(format, args, i)
           seqs == [i \in 1 .. 1 |-> sent(i)]
           x == sent(1)
<1>1. Printed(format, args) = FlattenSeq(seqs)
  BY DEF Printed
<1>2. x \in Seq(S)
  OBVIOUS
<1> HIDE DEF sent, format
<1>3. seqs \in Seq(Seq(S)) /\ Len(seqs) = 1 /\ seqs[1] = x
  <2>1. \A i \in 1 .. 1 : sent(i) \in Seq(S)
    BY <1>2
  <2> QED BY <2>1
<1> HIDE DEF seqs, x
<1>4. PICK F \in [0 .. 1 -> Seq(S)] : Joins(seqs, F) /\ FlattenSeq(seqs) = F[1]
  BY <1>3, Flattened
<1>5. F[0] = <<>> /\ \A i \in 1 .. 1 : F[i] = F[i - 1] \o seqs[i]
  BY <1>3, <1>4 DEF Joins
<1>6. F[1] = F[0] \o seqs[1]
  <2>1. 1 \in 1 .. 1 /\ 1 - 1 = 0
    OBVIOUS
  <2> QED BY <1>5, <2>1
<1>7. <<>> \o x = x
  BY <1>2, ConcatEmptySeq
<1> QED BY <1>1, <1>3, <1>4, <1>5, <1>6, <1>7 DEF x, format, sent

LEMMA PercentPrinted == \A args : Printed(<<"%">>, args) = <<>>
<1> SUFFICES ASSUME NEW args PROVE Printed(<<"%">>, args) = <<>>
  OBVIOUS
<1>1. Sent(<<"%">>, args, 1) = <<>>
  BY DEF Sent
<1>2. <<>> \in Seq({})
  BY EmptySeq
<1> QED BY <1>1, <1>2, PrintedOne

-----------------------------------------------------------------------------
(***************************************************************************)
(* The listing of the bitmask: the bits of a text that are the mask's from *)
(* a to b, the two that are printed as characters left out.                *)
(***************************************************************************)
BitChar(b) == IF b \in freemask THEN "1" ELSE "0"

Shows(s, a, b) ==
  /\ s \in Seq({"0", "1"})
  /\ Len(s) = b - a
  /\ \A k \in 1 .. b - a : s[k] = BitChar(a + (k - 1))

ShownFrom(b) == IF b < 2 THEN 2 ELSE b

LEMMA ShowsJoin ==
  ASSUME NEW a \in Nat, NEW b \in Nat, NEW c \in Nat, NEW s, NEW t, Shows(s, a, b), Shows(t, b, c)
  PROVE  Shows(s \o t, a, c)
<1> DEFINE B == {"0", "1"}
<1>1. s \in Seq(B) /\ t \in Seq(B) /\ Len(s) = b - a /\ Len(t) = c - b
  BY DEF Shows
<1>2. Len(s) \in Nat /\ Len(t) \in Nat
  BY <1>1, LenProperties
<1> HIDE DEF B
<1>3. /\ s \o t \in Seq(B) /\ Len(s \o t) = Len(s) + Len(t)
      /\ \A i \in 1 .. Len(s) + Len(t) :
           (s \o t)[i] = IF i <= Len(s) THEN s[i] ELSE t[i - Len(s)]
  BY <1>1, ConcatProperties
<1>4. Len(s) + Len(t) = c - a
  BY <1>1
<1>5. ASSUME NEW k \in 1 .. c - a PROVE (s \o t)[k] = BitChar(a + (k - 1))
  <2>1. (s \o t)[k] = IF k <= Len(s) THEN s[k] ELSE t[k - Len(s)]
    BY <1>3, <1>4
  <2>2. CASE k <= Len(s)
    <3>1. k \in 1 .. b - a
      BY <1>1, <2>2
    <3>2. s[k] = BitChar(a + (k - 1))
      BY <3>1 DEF Shows
    <3> QED BY <2>1, <2>2, <3>2
  <2>3. CASE ~(k <= Len(s))
    <3> DEFINE j == k - Len(s)
    <3>1. j \in 1 .. c - b /\ b + (j - 1) = a + (k - 1)
      BY <1>1, <1>2, <2>3
    <3> HIDE DEF j
    <3>2. t[j] = BitChar(b + (j - 1))
      BY <3>1 DEF Shows
    <3>3. (s \o t)[k] = t[j]
      BY <2>1, <2>3 DEF j
    <3> QED BY <3>1, <3>2, <3>3
  <2> QED BY <2>2, <2>3
<1> QED BY <1>3, <1>4, <1>5 DEF Shows, B

LEMMA ShowsNone ==
  ASSUME NEW a \in Nat
  PROVE  Shows(<<>>, a, a)
<1>1. <<>> \in Seq({"0", "1"}) /\ Len(<<>>) = 0
  BY EmptySeq
<1>2. a - a = 0 /\ \A k \in 1 .. a - a : FALSE
  OBVIOUS
<1> QED BY <1>1, <1>2 DEF Shows

LEMMA ShowsAll ==
  ASSUME NEW n \in Nat, NEW P \in [0 .. n -> Nat], NEW seqs \in Seq(Seq({"0", "1"})),
         Len(seqs) = n, \A i \in 1 .. n : Shows(seqs[i], P[i - 1], P[i])
  PROVE  Shows(FlattenSeq(seqs), P[0], P[n])
<1> DEFINE B == {"0", "1"}
<1>1. PICK F \in [0 .. n -> Seq(B)] : Joins(seqs, F) /\ FlattenSeq(seqs) = F[n]
  BY Flattened
<1>2. F[0] = <<>> /\ \A i \in 1 .. n : F[i] = F[i - 1] \o seqs[i]
  BY <1>1 DEF Joins
<1> DEFINE T == {m \in Nat : m <= n => Shows(F[m], P[0], P[m])}
<1>3. 0 \in T
  <2>1. P[0] \in Nat
    OBVIOUS
  <2> QED BY <1>2, <2>1, ShowsNone
<1>4. ASSUME NEW m \in Nat, m \in T PROVE m + 1 \in T
  <2> SUFFICES ASSUME m + 1 <= n PROVE Shows(F[m + 1], P[0], P[m + 1])
    OBVIOUS
  <2> DEFINE j == m + 1
  <2>1. m <= n /\ j \in 1 .. n /\ j - 1 = m /\ m \in 0 .. n /\ j \in 0 .. n /\ 0 \in 0 .. n
    OBVIOUS
  <2> HIDE DEF j
  <2>2. Shows(F[m], P[0], P[m]) /\ Shows(seqs[j], P[m], P[j]) /\ F[j] = F[m] \o seqs[j]
    BY <1>2, <1>4, <2>1
  <2>3. P[0] \in Nat /\ P[m] \in Nat /\ P[j] \in Nat
    BY <2>1
  <2>4. Shows(F[j], P[0], P[j])
    BY <2>2, <2>3, ShowsJoin
  <2> QED BY <2>4 DEF j
<1> HIDE DEF T
<1>5. n \in T
  BY <1>3, <1>4, Inductive
<1>6. Shows(F[n], P[0], P[n])
  BY <1>5 DEF T
<1> QED BY <1>1, <1>6

LEMMA MaskNumbers ==
  /\ BITS \in Nat /\ BITS >= 2
  /\ MaskSize \in Nat /\ NUM_BLOCKS \in Nat /\ NUM_BLOCKS >= 2 /\ NUM_BLOCKS <= MaskSize * BITS
  /\ BLOCK_SIZE \in Nat \ {0}
<1>1. BITS \in Nat /\ BITS >= 2 /\ NUM_BLOCKS <= MaskSize * BITS
  BY MaskAssumption DEF BM_BIT
<1>2. NUM_BLOCKS \in Nat /\ NUM_BLOCKS >= 2
  BY SizesAssumption DEF BM_BIT
<1>3. NUM_BLOCKS \div BITS \in Nat
  <2>1. \A a \in Nat : \A b \in Nat \ {0} : a \div b \in Nat
    OBVIOUS
  <2>2. BITS \in Nat \ {0}
    BY <1>1
  <2> QED BY <1>2, <2>1, <2>2
<1>4. MaskSize \in Nat
  BY <1>3 DEF MaskSize
<1> QED BY <1>1, <1>2, <1>4, BlockSizeAssumption

LEMMA MaskBitShown ==
  ASSUME NEW i \in Nat, NEW j \in Nat, j < BITS
  PROVE  Shows(FsPrintMaskBit(i, j), ShownFrom(i * BITS + j), ShownFrom((i * BITS + j) + 1))
<1> DEFINE x == i * BITS + j
<1>1. x \in Nat /\ (Lettered(i, j) <=> x < 2)
  <2>1. BITS \in Nat /\ BITS >= 2
    BY MaskNumbers
  <2>2. i * BITS \in Nat
    BY <2>1
  <2>3. CASE i = 0
    <3>1. i * BITS = 0
      BY <2>1, <2>3
    <3> QED BY <2>3, <3>1 DEF Lettered
  <2>4. CASE i # 0
    <3>1. i * BITS >= 2
      <4>1. \A a, b \in Nat : a >= 1 /\ b >= 2 => a * b >= 2
        OBVIOUS
      <4> QED BY <2>1, <2>4, <4>1
    <3> DEFINE p == i * BITS
    <3> HIDE DEF p
    <3>2. p \in Nat /\ p >= 2
      BY <2>2, <3>1 DEF p
    <3>3. p + j \in Nat /\ ~(p + j < 2)
      BY <3>2
    <3> QED BY <2>4, <3>3 DEF Lettered, p
  <2> QED BY <2>3, <2>4
<1>2. CASE Lettered(i, j)
  <2>1. FsPrintMaskBit(i, j) = <<>>
    BY <1>2, PercentPrinted DEF FsPrintMaskBit
  <2>2. ShownFrom(x) = 2 /\ ShownFrom(x + 1) = 2
    <3> HIDE DEF x
    <3> QED BY <1>1, <1>2 DEF ShownFrom
  <2>3. Shows(<<>>, 2, 2)
    BY ShowsNone
  <2> QED BY <2>1, <2>2, <2>3
<1>3. CASE ~Lettered(i, j)
  <2>1. ShownFrom(x) = x /\ ShownFrom(x + 1) = x + 1
    <3> HIDE DEF x
    <3> QED BY <1>1, <1>3 DEF ShownFrom
  <2> DEFINE v == FsGetMaskBit(x)
  <2>2. FsPrintMaskBit(i, j) = Printed(<<"%d">>, <<v>>)
    BY <1>3 DEF FsPrintMaskBit
  <2>3. IntPrint(v) = <<BitChar(x)>> /\ BitChar(x) \in {"0", "1"}
    BY BitPrinted DEF FsGetMaskBit, BitChar
  <2>4. Sent(<<"%d">>, <<v>>, 1) = IntPrint(v)
    <3>1. {k \in 1 .. 1 : Takes(<<"%d">>[k])} = {1}
      BY DEF Takes
    <3>2. Taken(<<"%d">>, 1) = 1
      BY <3>1, FS_Singleton DEF Taken
    <3> HIDE DEF v
    <3> QED BY <3>2 DEF Sent
  <2> HIDE DEF v, x
  <2>5. Printed(<<"%d">>, <<v>>) = <<BitChar(x)>>
    <3>1. Sent(<<"%d">>, <<v>>, 1) \in Seq({"0", "1"})
      <4> DEFINE c == BitChar(x)
      <4>1. c \in {"0", "1"}
        BY <2>3
      <4> HIDE DEF c
      <4>2. <<c>> \in Seq({"0", "1"})
        BY <4>1
      <4> QED BY <2>3, <2>4, <4>2 DEF c
    <3> QED BY <2>3, <2>4, <3>1, PrintedOne
  <2>6. Shows(<<BitChar(x)>>, x, x + 1)
    <3>1. (x + 1) - x = 1 /\ \A k \in 1 .. 1 : x + (k - 1) = x /\ k = 1
      BY <1>1
    <3> DEFINE c == BitChar(x)
    <3>2. <<c>> \in Seq({"0", "1"}) /\ Len(<<c>>) = 1 /\ <<c>>[1] = c
      BY <2>3
    <3> HIDE DEF c
    <3>3. \A k \in 1 .. 1 : <<c>>[k] = BitChar(x + (k - 1))
      BY <3>1, <3>2 DEF c
    <3> QED BY <3>1, <3>2, <3>3 DEF Shows, c
  <2> QED BY <2>1, <2>2, <2>5, <2>6 DEF x
<1> QED BY <1>2, <1>3

LEMMA MaskByteShown ==
  ASSUME NEW i \in Nat
  PROVE  Shows(FsPrintMaskByte(i), ShownFrom(i * BITS), ShownFrom((i + 1) * BITS))
<1> DEFINE B == {"0", "1"}
           x == i * BITS
           bit(j) == FsPrintMaskBit(i, j)
           seqs == [k \in 1 .. BITS |-> bit(k - 1)]
           P == [k \in 0 .. BITS |-> ShownFrom(x + k)]
<1>1. BITS \in Nat /\ x \in Nat /\ (i + 1) * BITS = x + BITS
  BY MaskNumbers
<1>2. ASSUME NEW k \in 1 .. BITS PROVE Shows(bit(k - 1), P[k - 1], P[k]) /\ bit(k - 1) \in Seq(B)
  <2> DEFINE j == k - 1
  <2>1. j \in Nat /\ j < BITS /\ j \in 0 .. BITS /\ k \in 0 .. BITS /\ (x + j) + 1 = x + k
    BY <1>1
  <2> HIDE DEF j, x
  <2>2. Shows(bit(j), ShownFrom(x + j), ShownFrom((x + j) + 1))
    BY <2>1, MaskBitShown DEF x
  <2> HIDE DEF bit
  <2>3. P[j] = ShownFrom(x + j) /\ P[k] = ShownFrom((x + j) + 1)
    BY <2>1
  <2> HIDE DEF P
  <2>4. Shows(bit(j), P[j], P[k])
    BY <2>2, <2>3
  <2> QED BY <2>4 DEF Shows, j
<1> HIDE DEF x, bit
<1>3. seqs \in Seq(Seq(B)) /\ Len(seqs) = BITS /\ \A k \in 1 .. BITS : seqs[k] = bit(k - 1)
  <2>1. \A k \in 1 .. BITS : bit(k - 1) \in Seq(B)
    BY <1>2
  <2>2. seqs \in Seq(Seq(B)) /\ Len(seqs) = BITS
    <3> HIDE DEF B
    <3> QED BY <1>1, <2>1
  <2> QED BY <2>2
<1>4. P \in [0 .. BITS -> Nat] /\ P[0] = ShownFrom(x) /\ P[BITS] = ShownFrom(x + BITS)
  <2>1. \A k \in 0 .. BITS : ShownFrom(x + k) \in Nat
    BY <1>1 DEF ShownFrom
  <2>2. 0 \in 0 .. BITS /\ BITS \in 0 .. BITS /\ x + 0 = x
    BY <1>1
  <2> QED BY <2>1, <2>2
<1>5. FsPrintMaskByte(i) = FlattenSeq(seqs) \o <<>>
  BY PercentPrinted DEF FsPrintMaskByte, bit
<1> HIDE DEF seqs, P
<1>6. Shows(FlattenSeq(seqs), P[0], P[BITS])
  BY <1>1, <1>2, <1>3, <1>4, ShowsAll
<1> DEFINE t == FlattenSeq(seqs)
<1>7. t \in Seq(B)
  BY <1>6 DEF Shows
<1>8. t \o <<>> = t
  <2> HIDE DEF t, B
  <2> QED BY <1>7, ConcatEmptySeq
<1> QED BY <1>1, <1>4, <1>5, <1>6, <1>8 DEF x

\* The bytes of the mask, without the title and the end of the line.
MaskBody == FlattenSeq([k \in 1 .. MaskSize |-> FsPrintMaskByte(k - 1)])

LEMMA MaskShown == Shows(MaskBody, 2, MaskSize * BITS)
<1> DEFINE B == {"0", "1"}
           n == MaskSize
           byte(i) == FsPrintMaskByte(i)
           seqs == [k \in 1 .. n |-> byte(k - 1)]
           at(k) == k * BITS
           P == [k \in 0 .. n |-> ShownFrom(at(k))]
<1>1. n \in Nat /\ BITS \in Nat /\ at(n) >= 2 /\ at(0) = 0 /\ \A k \in Nat : at(k) \in Nat
  <2>1. at(n) \in Nat /\ NUM_BLOCKS \in Nat /\ NUM_BLOCKS >= 2 /\ NUM_BLOCKS <= at(n)
    BY MaskNumbers
  <2> HIDE DEF at
  <2>2. at(n) >= 2
    BY <2>1
  <2> QED BY <2>2, MaskNumbers DEF at
<1>2. ASSUME NEW k \in 1 .. n PROVE Shows(byte(k - 1), P[k - 1], P[k]) /\ byte(k - 1) \in Seq(B)
  <2> DEFINE j == k - 1
  <2>1. j \in Nat /\ j + 1 = k /\ j \in 0 .. n /\ k \in 0 .. n
    BY <1>1
  <2> HIDE DEF j
  <2>2. Shows(byte(j), ShownFrom(at(j)), ShownFrom(at(k)))
    BY <2>1, MaskByteShown
  <2> HIDE DEF byte, at
  <2>3. P[j] = ShownFrom(at(j)) /\ P[k] = ShownFrom(at(k))
    BY <2>1
  <2> HIDE DEF P
  <2>4. Shows(byte(j), P[j], P[k])
    BY <2>2, <2>3
  <2> QED BY <2>4 DEF Shows, j
<1> HIDE DEF byte, at
<1>3. seqs \in Seq(Seq(B)) /\ Len(seqs) = n /\ \A k \in 1 .. n : seqs[k] = byte(k - 1)
  <2>1. \A k \in 1 .. n : byte(k - 1) \in Seq(B)
    BY <1>2
  <2>2. seqs \in Seq(Seq(B)) /\ Len(seqs) = n
    <3> HIDE DEF B, n
    <3> QED BY <1>1, <2>1
  <2> QED BY <2>2
<1>4. P \in [0 .. n -> Nat] /\ P[0] = 2 /\ P[n] = at(n)
  <2>1. \A k \in 0 .. n : ShownFrom(at(k)) \in Nat
    BY <1>1 DEF ShownFrom
  <2>2. 0 \in 0 .. n /\ n \in 0 .. n
    BY <1>1
  <2>3. ShownFrom(0) = 2 /\ ShownFrom(at(n)) = at(n)
    BY <1>1 DEF ShownFrom
  <2> HIDE DEF n
  <2> QED BY <1>1, <2>1, <2>2, <2>3
<1>5. MaskBody = FlattenSeq(seqs)
  BY DEF MaskBody, byte
<1> HIDE DEF seqs, P, n
<1>6. Shows(FlattenSeq(seqs), P[0], P[n])
  BY <1>1, <1>2, <1>3, <1>4, ShowsAll
<1>7. Shows(MaskBody, 2, at(n))
  BY <1>4, <1>5, <1>6
<1> QED BY <1>7 DEF at, n

LEMMA PrintedPlain ==
  ASSUME NEW S, NEW text \in Seq(S), S \cap Conversions = {}
  PROVE  Printed(text, <<>>) = text
<1>1. ASSUME NEW i \in 1 .. Len(text) PROVE Sent(text, <<>>, i) = <<text[i]>>
  <2>1. text[i] \notin Conversions
    BY ElementOfSeq
  <2> QED BY <2>1 DEF Sent, Conversions
<1>2. [i \in 1 .. Len(text) |-> Sent(text, <<>>, i)] = [i \in 1 .. Len(text) |-> <<text[i]>>]
  BY <1>1
<1> QED BY <1>2, FlatSingles DEF Printed

\* The bits are all that the listing of the mask has of the two characters.
LEMMA MaskBits == Bits(FsPrintMask) = MaskBody
<1> DEFINE B == {"0", "1"}
           N == {"\n", "free mask"}
           S == B \cup N
           a == <<"\n", "free mask", "\n">>
           c == IF (MaskSize + 1) % 8 # 0 THEN <<"\n">> ELSE <<>>
           m == MaskBody
<1>1. a \in Seq(N) /\ c \in Seq(N)
  <2>1. a \in Seq(N) /\ <<"\n">> \in Seq(N)
    OBVIOUS
  <2>2. <<>> \in Seq(N)
    BY EmptySeq
  <2> QED BY <2>1, <2>2
<1>2. m \in Seq(B)
  BY MaskShown DEF Shows
<1>3. Printed(a, <<>>) = a
  <2>1. N \cap Conversions = {}
    BY DEF Conversions
  <2> HIDE DEF N, a
  <2> QED BY <1>1, <2>1, PrintedPlain
<1>4. FsPrintMask = (a \o m) \o c
  <2>1. FsPrintMask = (Printed(a, <<>>) \o m) \o c
    BY DEF FsPrintMask, MaskBody
  <2> HIDE DEF a, c, m
  <2> QED BY <1>3, <2>1
<1>5. N \cap B = {} /\ N \subseteq S /\ B \subseteq S
  OBVIOUS
<1> HIDE DEF a, c, m, N, S
<1>6. a \in Seq(S) /\ m \in Seq(S) /\ c \in Seq(S)
  <2>1. \A u \in Seq(N) : u \in Seq(S)
    BY <1>5, SeqMonotonic
  <2>2. \A u \in Seq(B) : u \in Seq(S)
    BY <1>5, SeqMonotonic
  <2> HIDE DEF B
  <2> QED BY <1>1, <1>2, <2>1, <2>2
<1>7. Only(a, B) = <<>> /\ Only(c, B) = <<>> /\ Only(m, B) = m
  <2> HIDE DEF B
  <2> QED BY <1>1, <1>2, <1>5, OnlyNone, OnlyAll
<1>8. Only((a \o m) \o c, B) = (Only(a, B) \o Only(m, B)) \o Only(c, B)
  <2> HIDE DEF B
  <2>1. Only(a \o m, B) = Only(a, B) \o Only(m, B)
    BY <1>6, OnlyConcat
  <2> DEFINE u == a \o m
  <2>2. u \in Seq(S)
    BY <1>6, ConcatProperties
  <2> HIDE DEF u
  <2>3. Only(u \o c, B) = Only(u, B) \o Only(c, B)
    BY SMTT(20), <1>6, <2>2, OnlyConcat
  <2> QED BY <2>1, <2>3 DEF u
<1>9. <<>> \o m = m /\ m \o <<>> = m
  BY <1>2, ConcatEmptySeq
<1> QED BY <1>4, <1>7, <1>8, <1>9 DEF Bits, m

LEMMA MaskIsListed ==
  ASSUME DirectoryExact, MaskExact
  PROVE  MaskListed
<1> DEFINE bits == Bits(FsPrintMask)
           top == MaskSize * BITS
<1>1. Shows(bits, 2, top)
  BY MaskBits, MaskShown
<1>2. top \in Nat
  BY MaskNumbers
<1> HIDE DEF bits, top
<1>3. Len(bits) = top - 2
  BY <1>1 DEF Shows
<1>4. ASSUME NEW b \in 2 .. top - 1
      PROVE  bits[b - 1] = "1" <=> \E i \in Used : BlockOf(i) = b
  <2> DEFINE k == b - 1
  <2>1. k \in 1 .. top - 2 /\ 2 + (k - 1) = b
    BY <1>2
  <2> HIDE DEF k
  <2>2. bits[k] = BitChar(b)
    BY <1>1, <2>1 DEF Shows
  <2>3. b # SB_BIT /\ b # BM_BIT
    BY <1>2 DEF SB_BIT, BM_BIT
  <2>4. b \in freemask <=> \E i \in Used : BlockOf(i) = b
    BY <2>3 DEF MaskExact
  <2>5. bits[k] = "1" <=> b \in freemask
    BY <2>2 DEF BitChar
  <2> QED BY <2>4, <2>5 DEF k
<1>5. /\ Len(bits) = top - 2
      /\ \A b \in 2 .. top - 1 : bits[b - 1] = "1" <=> \E i \in Used : BlockOf(i) = b
  BY <1>3, <1>4
<1> QED BY <1>5 DEF MaskListed, bits, top

-----------------------------------------------------------------------------
(***************************************************************************)
(* The listings of the files: a line is what is behind its label, and the  *)
(* loop of fs_print_fd prints a block for every BLOCK_SIZE bytes.          *)
(***************************************************************************)
\* A text in which the label is once, with the end of its line behind it.
LEMMA LineFound ==
  ASSUME NEW S, NEW label, label \notin S, "\n" \in S,
         NEW a \in Seq(S), NEW b \in Seq(S \ {"\n"}), NEW c \in Seq(S)
  PROVE  LineOf((a \o ((<<label>> \o b) \o <<"\n">>)) \o c, label) = b
<1> DEFINE T == S \cup {label}
           h == <<label>>
           e == <<"\n">>
           l1 == h \o b
           l2 == l1 \o e
           l3 == a \o l2
           text == l3 \o c
           m == Len(a)
           n == Len(b)
           q == Len(c)
<1>1. /\ a \in Seq(T) /\ b \in Seq(T) /\ c \in Seq(T) /\ h \in Seq(T) /\ e \in Seq(T)
      /\ Len(h) = 1 /\ Len(e) = 1 /\ h[1] = label /\ e[1] = "\n"
  <2>1. S \subseteq T /\ S \ {"\n"} \subseteq T /\ label \in T /\ "\n" \in T
    OBVIOUS
  <2>2. a \in Seq(T)
    BY <2>1, SeqMonotonic
  <2>3. b \in Seq(T)
    BY <2>1, SeqMonotonic
  <2>4. c \in Seq(T)
    BY <2>1, SeqMonotonic
  <2> HIDE DEF T
  <2>5. h \in Seq(T) /\ e \in Seq(T) /\ Len(h) = 1 /\ Len(e) = 1 /\ h[1] = label /\ e[1] = "\n"
    BY <2>1
  <2> QED BY <2>2, <2>3, <2>4, <2>5
<1>2. /\ m \in Nat /\ n \in Nat /\ q \in Nat
      /\ \A i \in 1 .. m : a[i] \in S /\ a[i] # label
      /\ \A i \in 1 .. n : b[i] \in S /\ b[i] # "\n" /\ b[i] # label
      /\ \A i \in 1 .. q : c[i] \in S /\ c[i] # label
  <2>1. m \in Nat /\ n \in Nat /\ q \in Nat
    BY LenProperties
  <2>2. \A i \in 1 .. m : a[i] \in S
    BY ElementOfSeq
  <2>3. \A i \in 1 .. n : b[i] \in S \ {"\n"}
    BY ElementOfSeq
  <2>4. \A i \in 1 .. q : c[i] \in S
    BY ElementOfSeq
  <2> QED BY <2>1, <2>2, <2>3, <2>4
<1> HIDE DEF h, e, T
<1>3. l1 \in Seq(T) /\ Len(l1) = 1 + n
      /\ \A i \in 1 .. 1 + n : l1[i] = IF i <= 1 THEN h[i] ELSE b[i - 1]
  <2>1. /\ l1 \in Seq(T) /\ Len(l1) = Len(h) + Len(b)
        /\ \A i \in 1 .. Len(h) + Len(b) : l1[i] = IF i <= Len(h) THEN h[i] ELSE b[i - Len(h)]
    BY ZenonT(30), <1>1, ConcatProperties
  <2> HIDE DEF l1
  <2> QED BY <1>1, <2>1
<1> HIDE DEF l1
<1>4. l2 \in Seq(T) /\ Len(l2) = (1 + n) + 1
      /\ \A i \in 1 .. (1 + n) + 1 : l2[i] = IF i <= 1 + n THEN l1[i] ELSE e[i - (1 + n)]
  <2>1. /\ l2 \in Seq(T) /\ Len(l2) = Len(l1) + Len(e)
        /\ \A i \in 1 .. Len(l1) + Len(e) : l2[i] = IF i <= Len(l1) THEN l1[i] ELSE e[i - Len(l1)]
    BY <1>1, <1>3, ConcatProperties
  <2> HIDE DEF l2
  <2> QED BY <1>1, <1>3, <2>1
<1> HIDE DEF l2
<1>5. l3 \in Seq(T) /\ Len(l3) = m + (n + 2)
      /\ \A i \in 1 .. m + (n + 2) : l3[i] = IF i <= m THEN a[i] ELSE l2[i - m]
  <2>1. /\ l3 \in Seq(T) /\ Len(l3) = Len(a) + Len(l2)
        /\ \A i \in 1 .. Len(a) + Len(l2) : l3[i] = IF i <= Len(a) THEN a[i] ELSE l2[i - Len(a)]
    BY <1>1, <1>4, ConcatProperties
  <2>2. Len(l2) = n + 2
    BY <1>2, <1>4
  <2> HIDE DEF l3
  <2> QED BY <2>1, <2>2
<1> HIDE DEF l3
<1>6. text \in Seq(T) /\ Len(text) = (m + (n + 2)) + q
      /\ \A i \in 1 .. (m + (n + 2)) + q :
           text[i] = IF i <= m + (n + 2) THEN l3[i] ELSE c[i - (m + (n + 2))]
  <2>1. /\ text \in Seq(T) /\ Len(text) = Len(l3) + Len(c)
        /\ \A i \in 1 .. Len(l3) + Len(c) : text[i] = IF i <= Len(l3) THEN l3[i] ELSE c[i - Len(l3)]
    BY ZenonT(30), <1>1, <1>5, ConcatProperties
  <2> HIDE DEF text
  <2> QED BY <1>5, <2>1
<1> HIDE DEF text, m, n, q
<1> DEFINE p == m + 1
           z == m + (n + 2)
           top == z + q
<1>7. text[p] = label
  <2>1. p \in 1 .. top /\ p <= z /\ p \in 1 .. z /\ ~(p <= m) /\ p - m = 1 /\ 1 \in 1 .. 1 + n
        /\ 1 <= 1 + n /\ 1 \in 1 .. (1 + n) + 1
    BY <1>2
  <2>2. text[p] = l3[p] /\ l3[p] = l2[1] /\ l2[1] = l1[1] /\ l1[1] = h[1]
    BY <1>3, <1>4, <1>5, <1>6, <2>1
  <2> QED BY <1>1, <2>2
<1>8. text[z] = "\n"
  <2>1. z \in 1 .. top /\ z \in 1 .. z /\ ~(z <= m) /\ z - m = n + 2 /\ n + 2 \in 1 .. (1 + n) + 1
        /\ ~(n + 2 <= 1 + n) /\ (n + 2) - (1 + n) = 1
    BY <1>2
  <2>2. text[z] = l3[z]
    BY <1>6, <2>1
  <2>3. l3[z] = l2[n + 2]
    BY <1>5, <2>1
  <2>4. l2[n + 2] = e[1]
    BY <1>4, <2>1
  <2> QED BY <1>1, <2>2, <2>3, <2>4
<1>9. ASSUME NEW i \in 1 .. n PROVE text[p + i] = b[i]
  <2> DEFINE j == p + i
  <2>1. j \in 1 .. top /\ j <= z /\ j \in 1 .. z /\ ~(j <= m) /\ j - m = i + 1
    BY <1>2
  <2>2. i + 1 \in 1 .. (1 + n) + 1 /\ i + 1 <= 1 + n /\ i + 1 \in 1 .. 1 + n /\ ~(i + 1 <= 1)
        /\ (i + 1) - 1 = i
    BY <1>2
  <2> HIDE DEF j
  <2>3. text[j] = l3[j]
    BY <1>6, <2>1
  <2>4. l3[j] = l2[i + 1]
    BY <1>5, <2>1
  <2>5. l2[i + 1] = l1[i + 1]
    BY <1>4, <2>2
  <2>6. l1[i + 1] = b[i]
    BY <1>3, <2>2
  <2> QED BY <2>3, <2>4, <2>5, <2>6 DEF j
<1>10. ASSUME NEW i \in 1 .. top, i # p PROVE text[i] # label
  <2>1. CASE i < p
    <3>1. i \in 1 .. m /\ i <= z /\ i \in 1 .. z /\ i <= m
      BY <1>2, <2>1
    <3>2. text[i] = l3[i] /\ l3[i] = a[i]
      BY <1>5, <1>6, <3>1
    <3> QED BY <1>2, <3>1, <3>2
  <2>2. CASE i > p /\ i < z
    <3> DEFINE j == i - p
    <3>1. j \in 1 .. n /\ p + j = i
      BY <1>2, <2>2
    <3> HIDE DEF j, p
    <3>2. text[i] = b[j]
      BY <1>9, <3>1
    <3> QED BY <1>2, <3>1, <3>2
  <2>3. CASE i = z
    <3>1. "\n" # label
      OBVIOUS
    <3> QED BY <1>8, <2>3, <3>1
  <2>4. CASE i > z
    <3> DEFINE j == i - z
    <3>1. j \in 1 .. q /\ ~(i <= z)
      BY <1>2, <2>4
    <3>2. text[i] = c[j]
      BY <1>6, <3>1
    <3> HIDE DEF j
    <3> QED BY <1>2, <3>1, <3>2
  <2>5. i < p \/ (i > p /\ i < z) \/ i = z \/ i > z
    BY <1>2, <1>10
  <2> QED BY <2>1, <2>2, <2>3, <2>4, <2>5
<1>11. DOMAIN text = 1 .. top /\ Len(text) = top
  <2>1. DOMAIN text = 1 .. Len(text)
    BY <1>6, LenProperties
  <2> QED BY <1>6, <2>1
<1> DEFINE from == CHOOSE i \in DOMAIN text : text[i] = label
           Ends == {i \in from .. Len(text) : text[i] = "\n"}
<1>12. from = p
  <2>1. p \in DOMAIN text
    BY <1>2, <1>11
  <2>2. from \in DOMAIN text /\ text[from] = label
    BY <1>7, <2>1
  <2> HIDE DEF from
  <2> QED BY <1>10, <1>11, <2>2
<1> HIDE DEF from
<1>13. z \in Ends /\ Ends \in SUBSET Nat /\ \A i \in Ends : i >= z
  <2>1. p \in Nat /\ top \in Nat /\ z \in p .. top
    BY <1>2
  <2>2. z \in Ends
    BY <1>8, <1>11, <1>12, <2>1
  <2>3. ASSUME NEW i \in Ends PROVE i \in Nat /\ i >= z
    <3>1. i \in p .. top /\ text[i] = "\n"
      BY <1>11, <1>12
    <3>2. i # p
      <4>1. "\n" # label
        OBVIOUS
      <4> QED BY <1>7, <3>1, <4>1
    <3>3. ASSUME i < z PROVE FALSE
      <4> DEFINE j == i - p
      <4>1. j \in 1 .. n /\ p + j = i
        BY <1>2, <3>1, <3>2, <3>3
      <4> HIDE DEF j, p
      <4>2. text[i] = b[j]
        BY <1>9, <4>1
      <4> QED BY <1>2, <3>1, <4>1, <4>2
    <3> QED BY <1>2, <3>1, <3>3
  <2> QED BY <2>2, <2>3
<1> HIDE DEF Ends
<1>14. Min(Ends) = z
  <2>1. Ends # {}
    BY <1>13
  <2>2. Min(Ends) \in Ends /\ \A j \in Ends : Min(Ends) <= j
    BY <1>13, <2>1, MinOf
  <2>3. Min(Ends) \in Nat /\ Min(Ends) >= z /\ Min(Ends) <= z
    BY <1>13, <2>2
  <2> QED BY SMTT(20), <1>2, <2>3
<1>15. SubSeq(text, p + 1, z - 1) = b
  <2> DEFINE u == SubSeq(text, p + 1, z - 1)
  <2>1. p + 1 \in Int /\ z - 1 \in Int /\ (z - 1) - (p + 1) + 1 = n
    BY <1>2
  <2>2. \A i \in p + 1 .. z - 1 : text[i] \in T
    <3>1. \A i \in p + 1 .. z - 1 : i \in 1 .. Len(text)
      BY <1>2, <1>11
    <3> QED BY <1>6, <3>1, ElementOfSeq
  <2>3. /\ u \in Seq(T)
        /\ Len(u) = IF p + 1 <= z - 1 THEN (z - 1) - (p + 1) + 1 ELSE 0
        /\ \A i \in 1 .. (z - 1) - (p + 1) + 1 : u[i] = text[(p + 1) + i - 1]
    BY <2>1, <2>2, SubSeqProperties
  <2> HIDE DEF u
  <2>4. Len(u) = n
    BY <1>2, <2>3
  <2>5. ASSUME NEW i \in 1 .. n PROVE u[i] = b[i]
    <3>1. i \in 1 .. (z - 1) - (p + 1) + 1 /\ (p + 1) + i - 1 = p + i
      BY <1>2
    <3> QED BY <1>9, <2>3, <3>1
  <2> QED BY <1>1, <2>3, <2>4, <2>5, SeqEqual DEF n, u
<1>16. LineOf(text, label) = b
  BY <1>12, <1>14, <1>15 DEF LineOf, from, Ends
<1> QED BY <1>16 DEF text, l3, l2, l1, h, e

\* The bytes that the loop takes the first i blocks for.
Step(size, i) == IF size - i > BLOCK_SIZE THEN BLOCK_SIZE ELSE size - i

LEMMA BlocksCounted ==
  ASSUME NEW size \in Nat
  PROVE  \E sz \in [0 .. INODE_BLOCKS + 1 -> Int] :
           /\ sz[0] = 0
           /\ \A i \in 1 .. INODE_BLOCKS + 1 : sz[i] = sz[i - 1] + Step(size, i - 1)
           /\ BlocksPrinted(size)
              = Min({i \in 0 .. INODE_BLOCKS + 1 : MoreToPrint(sz[i], size) => i > INODE_BLOCKS})
<1> DEFINE N == INODE_BLOCKS + 1
           D == 0 .. N
           body(i, f) == IF i = 0 THEN 0 ELSE f[i - 1] + Step(size, i - 1)
           Def(f) == f = [i \in 0 .. INODE_BLOCKS + 1 |-> body(i, f)]
           f0 == CHOOSE f : Def(f)
           rank == [i \in D |-> i]
           Next0 == [q \in D \X [D -> Int] |-> body(q[1], q[2])]
<1>1. N \in Nat /\ INODE_BLOCKS \in Nat /\ BLOCK_SIZE \in Nat
  BY SizesAssumption, BlockSizeAssumption
<1>2. ASSUME NEW i \in D, NEW f \in [D -> Int] PROVE body(i, f) \in Int
  <2>1. i # 0 => i - 1 \in D /\ f[i - 1] \in Int /\ Step(size, i - 1) \in Int
    BY <1>1 DEF Step
  <2> HIDE DEF D
  <2> QED BY <2>1
<1>3. Determined(D, Int, rank, Next0)
  <2>1. rank \in [D -> Nat]
    BY <1>1
  <2>2. Next0 \in [D \X [D -> Int] -> Int]
    <3> HIDE DEF D, body
    <3> QED BY <1>2
  <2>3. ASSUME NEW d \in D, NEW f \in [D -> Int], NEW g \in [D -> Int],
               \A e \in D : rank[e] < rank[d] => f[e] = g[e]
        PROVE  Next0[<<d, f>>] = Next0[<<d, g>>]
    <3>1. d # 0 => d - 1 \in D /\ rank[d - 1] < rank[d]
      BY <1>1
    <3>2. body(d, f) = body(d, g)
      <4> HIDE DEF D, rank
      <4> QED BY <2>3, <3>1
    <3> HIDE DEF D, body
    <3> QED BY <3>2
  <2> HIDE DEF rank, Next0, D
  <2> QED BY <2>1, <2>2, <2>3 DEF Determined
<1>4. PICK g \in [D -> Int] : \A d \in D : g[d] = Next0[<<d, g>>]
  <2>1. 0 \in Int
    OBVIOUS
  <2> HIDE DEF D, rank, Next0
  <2>2. Solvable(D, Int, Next0)
    BY <1>3, <2>1, Recursive
  <2> QED BY <2>2 DEF Solvable
<1>5. Def(g)
  <2>1. \A d \in D : g[d] = body(d, g)
    <3> HIDE DEF body, D
    <3> QED BY <1>4
  <2>2. g = [d \in D |-> g[d]]
    <3> HIDE DEF D
    <3> QED BY <1>4
  <2> HIDE DEF body
  <2> QED BY <2>1, <2>2
<1>6. Def(f0)
  <2> HIDE DEF Def
  <2> QED BY <1>5
<1>7. f0 = [i \in D |-> body(i, f0)]
  <2> HIDE DEF f0
  <2> QED BY <1>6
<1>8. BlocksPrinted(size)
      = Min({i \in 0 .. INODE_BLOCKS + 1 : MoreToPrint(f0[i], size) => i > INODE_BLOCKS})
  BY DEF BlocksPrinted, Step
<1> HIDE DEF f0
<1>9. DOMAIN f0 = D /\ \A i \in D : f0[i] = body(i, f0)
  <2> HIDE DEF body, D
  <2> QED BY <1>7
<1> DEFINE T == {m \in Nat : m \in D => f0[m] \in Int}
<1>10. \A m \in Nat : m \in T
  <2>1. 0 \in T
    <3>1. 0 \in D
      BY <1>1
    <3> QED BY <1>9, <3>1
  <2>2. ASSUME NEW m \in Nat, m \in T PROVE m + 1 \in T
    <3> SUFFICES ASSUME m + 1 \in D PROVE f0[m + 1] \in Int
      OBVIOUS
    <3>1. m \in D /\ (m + 1) - 1 = m /\ m + 1 # 0 /\ Step(size, m) \in Int
      BY <1>1 DEF Step
    <3>2. f0[m + 1] = f0[m] + Step(size, m)
      BY <1>9, <3>1
    <3> HIDE DEF D
    <3> QED BY <2>2, <3>1, <3>2
  <2> HIDE DEF T
  <2> QED BY <2>1, <2>2, Inductive
<1>11. f0 \in [0 .. INODE_BLOCKS + 1 -> Int]
  <2>1. \A i \in D : i \in Nat
    BY <1>1
  <2>2. \A i \in D : f0[i] \in Int
    <3> HIDE DEF D
    <3> QED BY <1>10, <2>1
  <2>3. f0 = [i \in D |-> f0[i]]
    <3> HIDE DEF D, body
    <3> QED BY <1>7, <1>9
  <2> HIDE DEF T, D
  <2>4. f0 \in [D -> Int]
    BY <2>2, <2>3
  <2> QED BY <2>4 DEF D
<1>12. f0[0] = 0 /\ \A i \in 1 .. INODE_BLOCKS + 1 : f0[i] = f0[i - 1] + Step(size, i - 1)
  <2>1. 0 \in D /\ \A i \in 1 .. INODE_BLOCKS + 1 : i \in D /\ i # 0
    BY <1>1
  <2> HIDE DEF D, T
  <2> QED BY <1>9, <2>1
<1> QED BY <1>8, <1>11, <1>12

\* The blocks that the loop prints are those that the size takes.
LEMMA BlocksWhole ==
  ASSUME NEW size \in Nat
  PROVE  /\ BlocksPrinted(size) \in Nat
         /\ size <= INODE_BLOCKS * BLOCK_SIZE =>
              BlocksPrinted(size) = Min({n \in 0 .. size : n * BLOCK_SIZE >= size})
<1>1. INODE_BLOCKS \in Nat /\ BLOCK_SIZE \in Nat /\ BLOCK_SIZE >= 1
  BY SizesAssumption, BlockSizeAssumption
<1>2. PICK sz \in [0 .. INODE_BLOCKS + 1 -> Int] :
        /\ sz[0] = 0
        /\ \A i \in 1 .. INODE_BLOCKS + 1 : sz[i] = sz[i - 1] + Step(size, i - 1)
        /\ BlocksPrinted(size)
           = Min({i \in 0 .. INODE_BLOCKS + 1 : MoreToPrint(sz[i], size) => i > INODE_BLOCKS})
  BY BlocksCounted
<1> DEFINE Stops == {i \in 0 .. INODE_BLOCKS + 1 : MoreToPrint(sz[i], size) => i > INODE_BLOCKS}
           k == Min(Stops)
<1>3. k \in Stops /\ (\A j \in Stops : k <= j) /\ k \in Nat
  <2>1. INODE_BLOCKS + 1 \in Stops /\ Stops \in SUBSET Nat
    BY <1>1
  <2> HIDE DEF Stops
  <2> QED BY <2>1, MinOf
<1>4. BlocksPrinted(size) = k
  BY <1>2
<1> DEFINE Enough == {n \in 0 .. size : n * BLOCK_SIZE >= size}
           c == Min(Enough)
           at(n) == n * BLOCK_SIZE
<1>5. ASSUME size <= INODE_BLOCKS * BLOCK_SIZE PROVE k = c
  <2>1. /\ at(0) = 0 /\ at(INODE_BLOCKS) >= size
        /\ \A n \in Nat : at(n) \in Nat /\ at(n + 1) = at(n) + BLOCK_SIZE /\ at(n) >= n
    <3>1. \A n \in Nat : at(n) \in Nat /\ at(n + 1) = at(n) + BLOCK_SIZE
      BY <1>1
    <3>2. \A n \in Nat : at(n) >= n
      <4>1. \A a, b \in Nat : b >= 1 => a * b >= a
        OBVIOUS
      <4> QED BY <1>1, <4>1
    <3>3. at(0) = 0 /\ at(INODE_BLOCKS) >= size
      BY <1>1, <1>5
    <3> QED BY <3>1, <3>2, <3>3
  <2>2. Enough = {n \in 0 .. size : at(n) >= size}
    OBVIOUS
  <2> HIDE DEF at, Enough, k, Stops
  <2>3. c \in Enough /\ \A j \in Enough : c <= j
    <3>1. size \in Enough /\ Enough \in SUBSET Nat
      <4>1. size \in 0 .. size /\ at(size) >= size
        BY <2>1
      <4>2. \A n \in 0 .. size : n \in Nat
        OBVIOUS
      <4> QED BY <2>2, <4>1, <4>2
    <3> QED BY <3>1, MinOf
  <2>4. c \in Nat /\ c <= size /\ at(c) >= size /\ \A n \in 0 .. size : at(n) >= size => c <= n
    BY <2>2, <2>3
  <2> HIDE DEF c
  <2>5. \A n \in Nat : n < c => at(n) < size
    <3> SUFFICES ASSUME NEW n \in Nat, n < c, ~(at(n) < size) PROVE FALSE
      OBVIOUS
    <3>1. n \in 0 .. size /\ at(n) >= size
      BY <2>1, <2>4
    <3>2. c <= n
      BY <2>4, <3>1
    <3> QED BY <2>4, <3>2
  <2>6. c <= INODE_BLOCKS
    <3> SUFFICES ASSUME INODE_BLOCKS < c PROVE FALSE
      BY <1>1, <2>4
    <3>1. at(INODE_BLOCKS) < size
      BY <1>1, <2>5
    <3> QED BY <1>1, <2>1, <3>1
  \* At each block but the last the loop has counted whole blocks.
  <2> DEFINE T == {m \in Nat : /\ m < c => sz[m] = at(m)
                               /\ m = c => sz[m] >= size}
  <2>7. 0 \in T
    <3>1. 0 = c => size = 0
      BY <2>1, <2>4
    <3> QED BY <1>2, <2>1, <3>1
  <2>8. ASSUME NEW m \in Nat, m \in T PROVE m + 1 \in T
    <3> DEFINE j == m + 1
    <3>0. j \in Nat /\ ~(c < j) => m < c
      BY <2>4
    <3>1. CASE c < j
      <4>1. j \in Nat /\ ~(j < c) /\ j # c
        BY <2>4, <3>1
      <4> HIDE DEF j
      <4>2. j \in T
        BY <4>1
      <4> QED BY <4>2 DEF j
    <3>2. CASE ~(c < j)
      <4>1. m < c /\ j \in 1 .. INODE_BLOCKS + 1 /\ j - 1 = m /\ j \in Nat
        BY <1>1, <2>4, <2>6, <3>2
      <4>2. sz[m] = at(m) /\ at(m) < size /\ at(m) \in Nat /\ at(m) >= m /\ at(j) = at(m) + BLOCK_SIZE
        BY <2>1, <2>5, <2>8, <4>1
      <4>3. sz[j] = at(m) + Step(size, m)
        <5> HIDE DEF j
        <5> QED BY <1>2, <4>1, <4>2
      <4>4. j < c => at(j) < size
        BY <2>5, <4>1
      <4>5. j = c => at(j) >= size
        BY <2>4
      <4> DEFINE x == at(m)
                 y == at(j)
                 v == sz[j]
      <4> HIDE DEF j, x, y, v
      <4>6. x \in Nat /\ x < size /\ x >= m /\ y = x + BLOCK_SIZE /\ v = x + Step(size, m)
        BY <4>2, <4>3 DEF x, y, v
      <4>7. (y < size => v = y) /\ (y >= size => v >= size)
        BY <1>1, <4>6 DEF Step
      <4>8. (j < c => sz[j] = at(j)) /\ (j = c => sz[j] >= size)
        BY <4>4, <4>5, <4>7 DEF x, y, v
      <4>9. j \in T
        BY <4>1, <4>8
      <4> QED BY <4>9 DEF j
    <3> QED BY <3>1, <3>2
  <2> HIDE DEF T
  <2>9. \A m \in Nat : m \in T
    BY <2>7, <2>8, Inductive
  <2>10. sz[c] >= size /\ \A m \in Nat : m < c => sz[m] < size
    <3>1. c \in T /\ \A m \in Nat : m < c => sz[m] = at(m)
      BY <2>4, <2>9 DEF T
    <3> QED BY <2>4, <2>5, <3>1 DEF T
  <2>11. c \in 0 .. INODE_BLOCKS + 1
    BY <1>1, <2>4, <2>6
  <2>12. c \in Stops
    <3>1. sz[c] \in Int
      BY <2>11
    <3>2. ~MoreToPrint(sz[c], size)
      BY <2>10, <3>1 DEF MoreToPrint
    <3> QED BY <2>11, <3>2 DEF Stops
  <2>13. ASSUME k < c PROVE FALSE
    <3>1. sz[k] < size /\ k <= INODE_BLOCKS
      BY <1>1, <1>3, <2>4, <2>6, <2>10, <2>13
    <3>2. MoreToPrint(sz[k], size) /\ ~(k > INODE_BLOCKS)
      BY <1>1, <1>3, <3>1 DEF MoreToPrint
    <3> QED BY <1>3, <3>2 DEF Stops
  <2>14. k <= c
    BY <1>3, <2>12
  <2> QED BY <1>3, <2>4, <2>13, <2>14
<1> QED BY <1>3, <1>4, <1>5

LEMMA TakenOne ==
  ASSUME NEW format, NEW n \in Nat, NEW i \in 1 .. n,
         \A k \in 1 .. n : Takes(format[k]) <=> k = i
  PROVE  Taken(format, i) = 1
<1>1. {k \in 1 .. i : Takes(format[k])} = {i}
  OBVIOUS
<1> QED BY <1>1, FS_Singleton DEF Taken

\* A label, a number and the end of the line.
LEMMA PrintedNumber ==
  ASSUME NEW S, NEW label \in S, label \notin Conversions, "\n" \in S, Digits \subseteq S, NEW v \in Nat
  PROVE  /\ Printed(<<label, "%d", "\n">>, <<v>>) = (<<label>> \o IntPrint(v)) \o <<"\n">>
         /\ Printed(<<label, "%d", "\n">>, <<v>>) \in Seq(S)
         /\ IntPrint(v) \in Seq(S)
<1> DEFINE format == <<label, "%d", "\n">>
<1>1. Taken(format, 2) = 1
  <2>1. \A k \in 1 .. 3 : Takes(format[k]) <=> k = 2
    <3>1. format[1] = label /\ format[2] = "%d" /\ format[3] = "\n"
      OBVIOUS
    <3>2. \A k \in 1 .. 3 : k = 1 \/ k = 2 \/ k = 3
      OBVIOUS
    <3>3. ~Takes(label) /\ Takes("%d") /\ ~Takes("\n")
      BY DEF Takes, Conversions
    <3> HIDE DEF format
    <3> QED BY <3>1, <3>2, <3>3
  <2>2. 3 \in Nat /\ 2 \in 1 .. 3
    OBVIOUS
  <2> HIDE DEF format
  <2> QED BY <2>1, <2>2, TakenOne
<1>2. Sent(format, <<v>>, 2) = IntPrint(v)
  <2>1. format[2] = "%d" /\ <<v>>[1] = v
    OBVIOUS
  <2> HIDE DEF format
  <2> QED BY <1>1, <2>1 DEF Sent
<1>3. IntPrint(v) \in Seq(S)
  <2>1. IntPrint(v) \in Seq(Digits)
    BY NumberPrinted
  <2> QED BY <2>1, SeqMonotonic
<1>4. Printed(format, <<v>>) = (<<label>> \o IntPrint(v)) \o <<"\n">>
  <2>1. Sent(<<label, "%d", "\n">>, <<v>>, 2) \in Seq(S)
    BY <1>2, <1>3
  <2>2. Printed(<<label, "%d", "\n">>, <<v>>)
        = (<<label>> \o Sent(<<label, "%d", "\n">>, <<v>>, 2)) \o <<"\n">>
    BY <2>1, PrintedThree
  <2> QED BY <1>2, <2>2
<1> DEFINE h == <<label>>
           e == <<"\n">>
           t == IntPrint(v)
<1>5. h \in Seq(S) /\ e \in Seq(S) /\ t \in Seq(S)
  BY <1>3
<1> HIDE DEF h, e, t
<1>6. (h \o t) \o e \in Seq(S)
  <2>1. h \o t \in Seq(S)
    BY <1>5, ConcatProperties
  <2> DEFINE u == h \o t
  <2> HIDE DEF u
  <2>2. u \o e \in Seq(S)
    BY <1>5, <2>1, ConcatProperties DEF u
  <2> QED BY <2>2 DEF u
<1> QED BY <1>3, <1>4, <1>6 DEF h, e, t

LEMMA NumberLine ==
  ASSUME NEW S, NEW label, label \notin S, label \notin Conversions, "\n" \in S, Digits \subseteq S,
         NEW a \in Seq(S), NEW c \in Seq(S), NEW v \in Nat
  PROVE  LineOf((a \o Printed(<<label, "%d", "\n">>, <<v>>)) \o c, label) = IntPrint(v)
<1> DEFINE T == S \cup {label}
<1>1. Printed(<<label, "%d", "\n">>, <<v>>) = (<<label>> \o IntPrint(v)) \o <<"\n">>
  <2>1. label \in T /\ "\n" \in T /\ Digits \subseteq T
    OBVIOUS
  <2> HIDE DEF T
  <2> QED BY <2>1, PrintedNumber
<1>2. IntPrint(v) \in Seq(S \ {"\n"})
  <2>1. IntPrint(v) \in Seq(Digits)
    BY NumberPrinted
  <2>2. Digits \subseteq S \ {"\n"}
    BY DEF Digits
  <2> QED BY <2>1, <2>2, SeqMonotonic
<1> DEFINE b == IntPrint(v)
<1> HIDE DEF b
<1>3. LineOf((a \o ((<<label>> \o b) \o <<"\n">>)) \o c, label) = b
  BY <1>2, LineFound DEF b
<1> QED BY <1>1, <1>3 DEF b

\* The line of the number of files, in the listing of the file system.
LEMMA CountListed ==
  ASSUME root_dir.numentries \in Nat
  PROVE  LineOf(FsPrintFsd, "numfiles:") = IntPrint(root_dir.numentries)
<1> DEFINE Q == Digits \cup {"\n", "fsd", "nblocks:", "blocksz:", "masksz:"}
           p1 == Printed(<<"\n", "fsd", "\n">>, <<>>)
           p2 == Printed(<<"nblocks:", "%d", "\n">>, <<Device.nblocks>>)
           p3 == Printed(<<"blocksz:", "%d", "\n">>, <<Device.blocksz>>)
           p4 == Printed(<<"masksz:", "%d", "\n">>, <<MaskSize>>)
           p5 == Printed(<<"numfiles:", "%d", "\n">>, <<root_dir.numentries>>)
<1>1. FsPrintFsd = (((p1 \o p2) \o p3) \o p4) \o p5
  BY DEF FsPrintFsd
<1>2. Device.nblocks \in Nat /\ Device.blocksz \in Nat /\ MaskSize \in Nat
  BY MaskNumbers DEF Device, BsMkRamdisk
<1>3. "\n" \in Q /\ Digits \subseteq Q /\ "numfiles:" \notin Q /\ "numfiles:" \notin Conversions
      /\ "nblocks:" \in Q /\ "blocksz:" \in Q /\ "masksz:" \in Q
      /\ "nblocks:" \notin Conversions /\ "blocksz:" \notin Conversions /\ "masksz:" \notin Conversions
  BY DEF Conversions, Digits
<1>4. p1 \in Seq(Q)
  <2> DEFINE t == <<"\n", "fsd", "\n">>
  <2>1. t \in Seq({"\n", "fsd"}) /\ t \in Seq(Q)
    OBVIOUS
  <2>2. {"\n", "fsd"} \cap Conversions = {}
    BY DEF Conversions
  <2> HIDE DEF t
  <2>3. Printed(t, <<>>) = t
    BY <2>1, <2>2, PrintedPlain
  <2> QED BY <2>1, <2>3 DEF t
<1> HIDE DEF Q, p1
<1>5. p2 \in Seq(Q) /\ p3 \in Seq(Q) /\ p4 \in Seq(Q)
  BY <1>2, <1>3, PrintedNumber
<1> HIDE DEF p2, p3, p4
<1> DEFINE q2 == p1 \o p2
           q3 == q2 \o p3
           q4 == q3 \o p4
<1>6. q4 \in Seq(Q)
  <2>1. q2 \in Seq(Q)
    BY <1>4, <1>5, ConcatProperties
  <2> HIDE DEF q2
  <2>2. q3 \in Seq(Q)
    BY <1>5, <2>1, ConcatProperties
  <2> HIDE DEF q3
  <2> QED BY <1>5, <2>2, ConcatProperties
<1>7. FsPrintFsd = (q4 \o p5) \o <<>>
  <2>1. p5 \in Seq(Q \cup {"numfiles:"})
    <3> DEFINE T == Q \cup {"numfiles:"}
    <3>1. "numfiles:" \in T /\ "\n" \in T /\ Digits \subseteq T
      BY <1>3
    <3> HIDE DEF T
    <3>2. p5 \in Seq(T)
      BY <1>3, <3>1, PrintedNumber
    <3> QED BY <3>2 DEF T
  <2>2. q4 \in Seq(Q \cup {"numfiles:"})
    <3>1. Q \subseteq Q \cup {"numfiles:"}
      OBVIOUS
    <3> HIDE DEF q4
    <3> QED BY <1>6, <3>1, SeqMonotonic
  <2> DEFINE u == q4 \o p5
             T == Q \cup {"numfiles:"}
  <2>3. u \in Seq(T)
    <3> HIDE DEF q4, p5, T
    <3>1. q4 \in Seq(T) /\ p5 \in Seq(T)
      BY <2>1, <2>2 DEF T
    <3> QED BY <3>1, ConcatProperties
  <2>4. FsPrintFsd = u
    BY <1>1
  <2> HIDE DEF u, T
  <2>5. u \o <<>> = u
    BY <2>3, ConcatEmptySeq
  <2> QED BY <2>4, <2>5 DEF u
<1>8. <<>> \in Seq(Q)
  BY EmptySeq
<1> HIDE DEF q4
<1>9. LineOf((q4 \o p5) \o <<>>, "numfiles:") = IntPrint(root_dir.numentries)
  BY <1>3, <1>6, <1>8, NumberLine
<1> QED BY <1>7, <1>9

-----------------------------------------------------------------------------
\* The characters of the listing of a descriptor, the labels that a line of it is
\* found by left out.
Around ==
  Digits \cup Names \cup
  {"\n", " ", "-", "file descriptor", "[", "]", "Name:", "State:", "Fileptr:"}

LEMMA AroundPlain == "Size:" \notin Around /\ "blocks:" \notin Around
<1>1. "Size:" \notin Names /\ "blocks:" \notin Names
  BY NamesPlain
<1> QED BY <1>1 DEF Around, Digits

LEMMA StringIn ==
  ASSUME NEW S, NEW str \in Seq(S)
  PROVE  StrPrint(str) \in Seq(S)
<1> DEFINE n == Len(str)
           Ends == {i \in 1 .. Len(str) + 1 : i > Len(str) \/ str[i] = NUL}
           e == Min(Ends)
<1>1. n \in Nat /\ \A i \in 1 .. n : str[i] \in S
  BY LenProperties, ElementOfSeq
<1>2. e \in 1 .. n + 1
  <2>1. n + 1 \in Ends /\ Ends \in SUBSET Nat
    BY <1>1
  <2>2. Min(Ends) \in Ends
    <3> HIDE DEF Ends
    <3> QED BY <2>1, MinOf
  <2> QED BY <2>2
<1>3. StrPrint(str) = SubSeq(str, 1, e - 1)
  BY DEF StrPrint
<1> HIDE DEF e, n
<1>4. 1 \in Int /\ e - 1 \in Int /\ \A i \in 1 .. e - 1 : str[i] \in S
  BY <1>1, <1>2
<1> QED BY <1>3, <1>4, SubSeqProperties

LEMMA NameIn ==
  ASSUME NEW name \in Around
  PROVE  Printed(<<"Name:", "%s", "\n">>, <<<<name>>>>) \in Seq(Around)
<1> DEFINE format == <<"Name:", "%s", "\n">>
           args == <<<<name>>>>
<1>1. format[1] = "Name:" /\ format[2] = "%s" /\ format[3] = "\n" /\ Len(format) = 3
  OBVIOUS
<1>2. \A k \in 1 .. 3 : k = 1 \/ k = 2 \/ k = 3
  OBVIOUS
<1>3. args[1] = <<name>> /\ <<name>> \in Seq(Around)
  OBVIOUS
<1>4. "Name:" \in Around /\ "\n" \in Around
  BY DEF Around
<1> HIDE DEF format, args
<1>5. Taken(format, 2) = 1
  <2>1. ~Takes("Name:") /\ Takes("%s") /\ ~Takes("\n")
    BY DEF Takes
  <2>2. \A k \in 1 .. 3 : Takes(format[k]) <=> k = 2
    BY <1>1, <1>2, <2>1
  <2>3. 3 \in Nat /\ 2 \in 1 .. 3
    OBVIOUS
  <2> QED BY <2>2, <2>3, TakenOne
<1>6. Sent(format, args, 1) = <<"Name:">> /\ Sent(format, args, 3) = <<"\n">>
  BY <1>1 DEF Sent
<1>7. Sent(format, args, 2) = StrPrint(<<name>>)
  BY <1>1, <1>3, <1>5 DEF Sent
<1>8. StrPrint(<<name>>) \in Seq(Around)
  <2> DEFINE s == <<name>>
  <2>1. s \in Seq(Around)
    BY <1>3
  <2> HIDE DEF s
  <2>2. StrPrint(s) \in Seq(Around)
    BY <2>1, StringIn
  <2> QED BY <2>2 DEF s
<1>9. <<"Name:">> \in Seq(Around) /\ <<"\n">> \in Seq(Around)
  BY <1>4
<1>10. \A k \in 1 .. 3 : Sent(format, args, k) \in Seq(Around)
  BY <1>2, <1>6, <1>7, <1>8, <1>9
<1>11. Printed(format, args) \in Seq(Around)
  <2>1. 3 \in Nat
    OBVIOUS
  <2> QED BY <1>1, <1>10, <2>1, PrintedIn
<1> QED BY <1>11 DEF format, args

LEMMA TitleIn ==
  ASSUME NEW fd \in Nat
  PROVE  Printed(<<"\n", "file descriptor", "[", "%d", "]", "\n">>, <<fd>>) \in Seq(Around)
<1> DEFINE format == <<"\n", "file descriptor", "[", "%d", "]", "\n">>
           args == <<fd>>
<1>1. /\ format[1] = "\n" /\ format[2] = "file descriptor" /\ format[3] = "["
      /\ format[4] = "%d" /\ format[5] = "]" /\ format[6] = "\n" /\ Len(format) = 6
  OBVIOUS
<1>2. \A k \in 1 .. 6 : k = 1 \/ k = 2 \/ k = 3 \/ k = 4 \/ k = 5 \/ k = 6
  OBVIOUS
<1>3. args[1] = fd
  OBVIOUS
<1> DEFINE T == {"\n", "file descriptor", "[", "]"}
<1>4. \A c \in T : <<c>> \in Seq(Around) /\ ~Takes(c) /\ c \notin Conversions
  <2> SUFFICES ASSUME NEW c \in T PROVE <<c>> \in Seq(Around) /\ ~Takes(c) /\ c \notin Conversions
    OBVIOUS
  <2>1. c \in Around
    BY DEF Around
  <2>2. <<c>> \in Seq(Around)
    <3> HIDE DEF T
    <3> QED BY <2>1
  <2>3. ~Takes(c) /\ c \notin Conversions
    BY DEF Takes, Conversions
  <2> QED BY <2>2, <2>3
<1> HIDE DEF format, args
<1>5. \A k \in 1 .. 6 : k # 4 => format[k] \in T
  BY <1>1, <1>2
<1> HIDE DEF T
<1>6. Taken(format, 4) = 1
  <2>1. Takes("%d")
    BY DEF Takes
  <2>2. \A k \in 1 .. 6 : Takes(format[k]) <=> k = 4
    BY <1>1, <1>4, <1>5, <2>1
  <2>3. 6 \in Nat /\ 4 \in 1 .. 6
    OBVIOUS
  <2> QED BY <2>2, <2>3, TakenOne
<1>7. Sent(format, args, 4) = IntPrint(fd)
  BY <1>1, <1>3, <1>6 DEF Sent
<1>8. IntPrint(fd) \in Seq(Around)
  <2>1. IntPrint(fd) \in Seq(Digits)
    BY NumberPrinted
  <2>2. Digits \subseteq Around
    BY DEF Around
  <2> QED BY <2>1, <2>2, SeqMonotonic
<1>9. ASSUME NEW k \in 1 .. 6 PROVE Sent(format, args, k) \in Seq(Around)
  <2>1. CASE k = 4
    BY <1>7, <1>8, <2>1
  <2>2. CASE k # 4
    <3>1. format[k] \in T
      BY <1>5, <2>2
    <3>2. Sent(format, args, k) = <<format[k]>>
      <4>1. format[k] \notin Conversions
        BY <1>4, <3>1
      <4> QED BY <4>1 DEF Sent, Conversions
    <3> QED BY <1>4, <3>1, <3>2
  <2> QED BY <2>1, <2>2
<1>10. Printed(format, args) \in Seq(Around)
  <2>1. 6 \in Nat
    OBVIOUS
  <2> QED BY <1>1, <1>9, <2>1, PrintedIn
<1> QED BY <1>10 DEF format, args

\* One block, which is always EMPTY, and what is blank in it.
BlockText == Printed(<<" ", "%d">>, <<EMPTY>>)
BlockChars == {" ", "-", "1"}

LEMMA BlockBlank ==
  BlockText \in Seq(BlockChars) /\ Only(BlockText, {" "}) = <<" ">>
<1>c. \A s, v \in Seq(BlockChars) : \A c : Only(s \o v, c) = Only(s, c) \o Only(v, c)
  BY OnlyConcat
<1> DEFINE format == <<" ", "%d">>
           args == <<EMPTY>>
           sent(i) == Sent(format, args, i)
           seqs == [i \in 1 .. 2 |-> sent(i)]
           x == <<" ">>
           y == <<"-", "1">>
           S == BlockChars
<1>1. format[1] = " " /\ format[2] = "%d" /\ Len(format) = 2 /\ args[1] = EMPTY
  OBVIOUS
<1>2. \A k \in 1 .. 2 : k = 1 \/ k = 2
  OBVIOUS
<1>3. BlockText = FlattenSeq(seqs)
  BY DEF BlockText, Printed
<1>4. x \in Seq(S) /\ y \in Seq(S) /\ x \in Seq({" "}) /\ y \in Seq({"-", "1"})
  BY DEF BlockChars
<1> HIDE DEF format, args
<1>5. Taken(format, 2) = 1
  <2>1. ~Takes(" ") /\ Takes("%d")
    BY DEF Takes
  <2>2. \A k \in 1 .. 2 : Takes(format[k]) <=> k = 2
    BY <1>1, <1>2, <2>1
  <2>3. 2 \in Nat /\ 2 \in 1 .. 2
    OBVIOUS
  <2> QED BY <2>2, <2>3, TakenOne
<1>6. sent(1) = x /\ sent(2) = y
  <2>1. sent(1) = x
    BY <1>1 DEF Sent
  <2>2. sent(2) = IntPrint(EMPTY)
    BY <1>1, <1>5 DEF Sent
  <2> QED BY <2>1, <2>2, BitPrinted
<1> HIDE DEF sent, x, y, S
<1>7. seqs \in Seq(Seq(S)) /\ Len(seqs) = 2 /\ seqs[1] = x /\ seqs[2] = y
  <2>1. \A i \in 1 .. 2 : sent(i) \in Seq(S)
    BY <1>2, <1>4, <1>6
  <2> QED BY <1>6, <2>1
<1> HIDE DEF seqs
<1>8. PICK F \in [0 .. 2 -> Seq(S)] : Joins(seqs, F) /\ FlattenSeq(seqs) = F[2]
  BY <1>7, Flattened
<1>9. F[2] = x \o y
  <2>1. F[0] = <<>> /\ \A i \in 1 .. 2 : F[i] = F[i - 1] \o seqs[i]
    BY <1>7, <1>8 DEF Joins
  <2>2. 1 - 1 = 0 /\ 2 - 1 = 1 /\ 1 \in 1 .. 2 /\ 2 \in 1 .. 2
    OBVIOUS
  <2>3. F[1] = F[0] \o seqs[1]
    BY <2>1, <2>2
  <2>4. F[2] = F[1] \o seqs[2]
    BY <2>1, <2>2
  <2>5. <<>> \o x = x
    BY <1>4, ConcatEmptySeq
  <2> QED BY <1>7, <2>1, <2>3, <2>4, <2>5
<1>10. Only(x, {" "}) = x /\ Only(y, {" "}) = <<>>
  <2>1. {"-", "1"} \cap {" "} = {}
    OBVIOUS
  <2> QED BY <1>4, <2>1, OnlyAll, OnlyNone
<1>11. Only(x \o y, {" "}) = x \o <<>> /\ x \o y \in Seq(S) /\ x \o <<>> = x
  <2> DEFINE B == {" "}
  <2> HIDE DEF B
  <2>0. x \in Seq(S) /\ y \in Seq(S)
    BY <1>4
  <2>1. Only(x \o y, B) = Only(x, B) \o Only(y, B)
    BY <2>0, <1>c DEF S
  <2>2. x \o y \in Seq(S)
    BY <1>4, ConcatProperties
  <2>3. x \o <<>> = x
    BY <1>4, ConcatEmptySeq
  <2> QED BY <1>10, <2>1, <2>2, <2>3 DEF B
<1> QED BY <1>3, <1>8, <1>9, <1>11 DEF x, S

BlocksText(n) == FlattenSeq([i \in 1 .. n |-> BlockText])

LEMMA BlocksBlank ==
  ASSUME NEW n \in Nat
  PROVE  BlocksText(n) \in Seq(BlockChars) /\ Len(Only(BlocksText(n), {" "})) = n
<1>c. \A s, v \in Seq(BlockChars) : \A c : Only(s \o v, c) = Only(s, c) \o Only(v, c)
  BY OnlyConcat
<1> DEFINE t == BlockText
           S == BlockChars
           seqs == [i \in 1 .. n |-> t]
           B == {" "}
           h == <<" ">>
<1>0. h \in Seq(B) /\ Len(h) = 1
  OBVIOUS
<1>1. t \in Seq(S) /\ Only(t, B) = h
  BY BlockBlank
<1> HIDE DEF t, S, h
<1>2. seqs \in Seq(Seq(S)) /\ Len(seqs) = n /\ \A i \in 1 .. n : seqs[i] = t
  <2> DEFINE X == Seq(S)
  <2>1. t \in X
    BY <1>1
  <2> HIDE DEF X
  <2>2. seqs \in Seq(X) /\ Len(seqs) = n
    BY <2>1
  <2> QED BY <2>2 DEF X
<1>3. BlocksText(n) = FlattenSeq(seqs)
  BY DEF BlocksText, t
<1> HIDE DEF seqs, B
<1>4. PICK F \in [0 .. n -> Seq(S)] : Joins(seqs, F) /\ FlattenSeq(seqs) = F[n]
  BY <1>2, Flattened
<1>5. F[0] = <<>> /\ \A i \in 1 .. n : F[i] = F[i - 1] \o t
  BY <1>2, <1>4 DEF Joins
<1> DEFINE T == {m \in Nat : m <= n => Only(F[m], B) \in Seq(B) /\ Len(Only(F[m], B)) = m}
<1>6. 0 \in T
  <2>1. <<>> \in Seq({}) /\ <<>> \in Seq(B) /\ Len(<<>>) = 0
    BY EmptySeq
  <2>2. {} \cap B = {}
    OBVIOUS
  <2>3. Only(<<>>, B) = <<>>
    BY <2>1, <2>2, OnlyNone
  <2> QED BY <1>5, <2>1, <2>3
<1>7. ASSUME NEW m \in Nat, m \in T PROVE m + 1 \in T
  <2> SUFFICES ASSUME m + 1 <= n
               PROVE  Only(F[m + 1], B) \in Seq(B) /\ Len(Only(F[m + 1], B)) = m + 1
    OBVIOUS
  <2> DEFINE j == m + 1
  <2>1. j \in 1 .. n /\ j - 1 = m /\ m \in 0 .. n /\ m <= n
    OBVIOUS
  <2> HIDE DEF j
  <2>2. F[j] = F[m] \o t /\ F[m] \in Seq(S)
    BY <1>5, <2>1
  <2> DEFINE u == Only(F[m], B)
  <2>3. u \in Seq(B) /\ Len(u) = m
    BY <1>7, <2>1
  <2>4. Only(F[j], B) = u \o h
    <3> DEFINE f == F[m]
    <3>1. f \in Seq(S)
      BY <2>2
    <3> HIDE DEF f
    <3>2. t \in Seq(S)
      BY <1>1
    <3>4. Only(f \o t, B) = Only(f, B) \o Only(t, B)
      BY SMTT(20), <3>1, <3>2, <1>c DEF S
    <3> QED BY <1>1, <2>2, <3>4 DEF f
  <2> HIDE DEF u
  <2>5. u \o h \in Seq(B) /\ Len(u \o h) = Len(u) + Len(h)
    BY <1>0, <2>3, ConcatProperties
  <2>6. Only(F[j], B) \in Seq(B) /\ Len(Only(F[j], B)) = m + 1
    BY <1>0, <2>3, <2>4, <2>5
  <2> QED BY <2>6 DEF j
<1> HIDE DEF T
<1>8. n \in T
  BY <1>6, <1>7, Inductive
<1>9. Len(Only(F[n], B)) = n
  BY <1>8 DEF T
<1>10. F[n] \in Seq(S)
  <2>1. n \in 0 .. n
    OBVIOUS
  <2> QED BY <2>1
<1>11. BlocksText(n) = F[n]
  BY <1>3, <1>4
<1> QED BY <1>9, <1>10, <1>11 DEF S, B

\* The line of the blocks in its place, and what is behind the line of the size.
Regrouped(q, e, h, t) ==
  LET p == e \o h IN
  /\ ((q \o p) \o t) \o e = q \o ((p \o t) \o e)
  /\ ((q \o p) \o t) \o e = ((q \o e) \o ((h \o t) \o e)) \o <<>>

\* Concatenation as an operator of no meaning but this.
Cat(s, t) == s \o t

Associates(T) ==
  /\ \A u, x \in Seq(T) : Cat(u, x) \in Seq(T)
  /\ \A u, x, y \in Seq(T) : Cat(Cat(u, x), y) = Cat(u, Cat(x, y))
  /\ \A u \in Seq(T) : Cat(u, <<>>) = u

LEMMA CatAssociates == \A T : Associates(T)
<1> SUFFICES ASSUME NEW T PROVE Associates(T)
  OBVIOUS
<1>1. \A u, x, y \in Seq(T) : (u \o x) \o y = u \o (x \o y)
  BY ConcatAssociative
<1>2. \A u, x \in Seq(T) : u \o x \in Seq(T)
  BY ConcatProperties
<1>3. \A u \in Seq(T) : u \o <<>> = u
  BY ConcatEmptySeq
<1> QED BY <1>1, <1>2, <1>3 DEF Associates, Cat

LEMMA Regroup ==
  ASSUME NEW T, NEW q \in Seq(T), NEW e \in Seq(T), NEW h \in Seq(T), NEW t \in Seq(T)
  PROVE  Regrouped(q, e, h, t)
<1>1. Associates(T)
  BY CatAssociates
<1>2. Cat(Cat(Cat(q, Cat(e, h)), t), e) = Cat(q, Cat(Cat(Cat(e, h), t), e))
  BY <1>1 DEF Associates
<1>3. Cat(Cat(Cat(q, Cat(e, h)), t), e) = Cat(Cat(q, e), Cat(Cat(h, t), e))
  BY <1>1 DEF Associates
<1>4. Cat(Cat(Cat(q, e), Cat(Cat(h, t), e)), <<>>) = Cat(Cat(q, e), Cat(Cat(h, t), e))
  BY <1>1 DEF Associates
<1> QED BY <1>2, <1>3, <1>4 DEF Regrouped, Cat

\* What the listing of a descriptor takes of it.
FdKnown(fd) ==
  /\ fd \in Nat /\ oft[fd].head \in Nat /\ oft[fd].inode.size \in Nat
  /\ root_dir.entry[oft[fd].direntry].name \in Names

\* The lines of the size and of the blocks, in the listing of a descriptor.
LEMMA FdListed ==
  ASSUME NEW fd, FdKnown(fd)
  PROVE  /\ LineOf(FsPrintFd(fd), "Size:") = IntPrint(oft[fd].inode.size)
         /\ LineOf(FsPrintFd(fd), "blocks:") = BlocksText(BlocksPrinted(oft[fd].inode.size))
<1> DEFINE S == Around \cup {"blocks:"}
           B == Around \cup {"Size:"}
           Whole == Around \cup {"Size:", "blocks:"}
           size == oft[fd].inode.size
           name == root_dir.entry[oft[fd].direntry].name
           open == IF oft[fd].state = "open" THEN 1 ELSE 0
           p1 == Printed(<<"\n", "file descriptor", "[", "%d", "]", "\n">>, <<fd>>)
           p2 == Printed(<<"Name:", "%s", "\n">>, <<<<name>>>>)
           p3 == Printed(<<"State:", "%d", "\n">>, <<open>>)
           p4 == Printed(<<"Fileptr:", "%d", "\n">>, <<oft[fd].head>>)
           p5 == Printed(<<"Size:", "%d", "\n">>, <<size>>)
           nl == <<"\n">>
           bl == <<"blocks:">>
           n  == BlocksPrinted(size)
           p7 == BlocksText(n)
           q4 == ((p1 \o p2) \o p3) \o p4
           q5 == q4 \o p5
<1>1. FsPrintFd(fd) = ((q5 \o Printed(<<"\n", "blocks:">>, <<>>)) \o p7) \o Printed(<<"\n">>, <<>>)
  BY DEF FsPrintFd, BlocksText, BlockText
<1>2. /\ Printed(<<"\n", "blocks:">>, <<>>) = <<"\n", "blocks:">>
      /\ Printed(<<"\n">>, <<>>) = nl
  <2> DEFINE X == {"\n", "blocks:"}
             t == <<"\n", "blocks:">>
  <2>1. t \in Seq(X) /\ nl \in Seq(X) /\ X \cap Conversions = {}
    BY DEF Conversions
  <2> HIDE DEF X, t, nl
  <2>2. Printed(t, <<>>) = t /\ Printed(nl, <<>>) = nl
    BY <2>1, PrintedPlain
  <2> QED BY <2>2 DEF t, nl
<1>3. /\ "\n" \in Around /\ Digits \subseteq Around /\ "State:" \in Around /\ "Fileptr:" \in Around
      /\ BlockChars \subseteq Around \ {"\n"} /\ name \in Around
  BY DEF Around, Digits, BlockChars, FdKnown
<1>4. /\ "State:" \notin Conversions /\ "Fileptr:" \notin Conversions /\ "Size:" \notin Conversions
  BY DEF Conversions
<1>5. "Size:" \notin S /\ "blocks:" \notin B /\ S \subseteq Whole /\ B \subseteq Whole
      /\ Around \subseteq S /\ Around \subseteq B
  BY AroundPlain
<1>6. open \in Nat /\ size \in Nat /\ n \in Nat
  BY BlocksWhole DEF FdKnown
<1> HIDE DEF size, name, open, n
<1>7. p1 \in Seq(Around) /\ p2 \in Seq(Around) /\ p3 \in Seq(Around) /\ p4 \in Seq(Around)
  <2>1. p1 \in Seq(Around)
    BY TitleIn DEF FdKnown
  <2>2. p2 \in Seq(Around)
    BY <1>3, NameIn
  <2>3. p3 \in Seq(Around)
    BY <1>3, <1>4, <1>6, PrintedNumber
  <2>4. p4 \in Seq(Around)
    BY <1>3, <1>4, PrintedNumber DEF FdKnown
  <2> QED BY <2>1, <2>2, <2>3, <2>4
<1>8. p7 \in Seq(BlockChars)
  BY <1>6, BlocksBlank
<1> HIDE DEF p1, p2, p3, p4, p7
<1>9. q4 \in Seq(Around)
  <2>1. p1 \o p2 \in Seq(Around)
    BY <1>7, ConcatProperties
  <2> DEFINE u == p1 \o p2
  <2> HIDE DEF u
  <2>2. u \o p3 \in Seq(Around)
    BY <1>7, <2>1, ConcatProperties DEF u
  <2> DEFINE v == u \o p3
  <2> HIDE DEF v
  <2>3. v \o p4 \in Seq(Around)
    BY <1>7, <2>2, ConcatProperties DEF v
  <2> QED BY <2>3 DEF u, v
<1> HIDE DEF q4
<1>10. p5 \in Seq(B)
  <2>1. "Size:" \in B /\ "\n" \in B /\ Digits \subseteq B
    BY <1>3
  <2> HIDE DEF B
  <2> QED BY <1>4, <1>6, <2>1, PrintedNumber
<1>11. "\n" \in S /\ "\n" \in B /\ "blocks:" \in S /\ Digits \subseteq S
  BY <1>3
<1> HIDE DEF S, B, Whole
<1>12. /\ \A u \in Seq(Around) : u \in Seq(S) /\ u \in Seq(B)
       /\ \A u \in Seq(S) : u \in Seq(Whole)
       /\ \A u \in Seq(B) : u \in Seq(Whole)
       /\ p7 \in Seq(Around) /\ p7 \in Seq(B \ {"\n"})
  <2>1. \A u \in Seq(Around) : u \in Seq(S)
    BY <1>5, SeqMonotonic
  <2>2. \A u \in Seq(Around) : u \in Seq(B)
    BY <1>5, SeqMonotonic
  <2>3. \A u \in Seq(S) : u \in Seq(Whole)
    BY <1>5, SeqMonotonic
  <2>4. \A u \in Seq(B) : u \in Seq(Whole)
    BY <1>5, SeqMonotonic
  <2>5. BlockChars \subseteq Around
    BY <1>3
  <2>6. p7 \in Seq(Around)
    BY <1>8, <2>5, SeqMonotonic
  <2>7. BlockChars \subseteq B \ {"\n"}
    BY <1>3, <1>5
  <2>8. p7 \in Seq(B \ {"\n"})
    BY <1>8, <2>7, SeqMonotonic
  <2> QED BY <2>1, <2>2, <2>3, <2>4, <2>6, <2>8
<1>13. nl \in Seq(S) /\ nl \in Seq(B) /\ bl \in Seq(S) /\ nl \o bl = <<"\n", "blocks:">>
  <2>1. nl \in Seq(S) /\ nl \in Seq(B) /\ bl \in Seq(S)
    BY <1>11
  <2>2. nl \o bl = <<"\n", "blocks:">>
    BY Pair
  <2> QED BY <2>1, <2>2
<1> HIDE DEF nl, bl
<1> DEFINE p6 == nl \o bl
<1>14. p6 \in Seq(S)
  BY <1>13, ConcatProperties
<1>15. FsPrintFd(fd) = ((q5 \o p6) \o p7) \o nl
  BY <1>1, <1>2, <1>13
<1>16. q5 \in Seq(B)
  <2>1. q4 \in Seq(B)
    BY <1>9, <1>12
  <2> HIDE DEF p5
  <2> QED BY <1>10, <2>1, ConcatProperties
<1>17. Regrouped(q5, nl, bl, p7)
  <2> HIDE DEF q5
  <2>1. q5 \in Seq(Whole) /\ nl \in Seq(Whole) /\ bl \in Seq(Whole) /\ p7 \in Seq(Whole)
    BY <1>12, <1>13, <1>16
  <2> QED BY <2>1, Regroup
<1> DEFINE c == (p6 \o p7) \o nl
           a == q5 \o nl
<1>18. LineOf(FsPrintFd(fd), "Size:") = IntPrint(size)
  <2>1. c \in Seq(S)
    <3> HIDE DEF p6
    <3>1. p6 \o p7 \in Seq(S)
      BY <1>12, <1>14, ConcatProperties
    <3> DEFINE w == p6 \o p7
    <3> HIDE DEF w
    <3>2. w \o nl \in Seq(S)
      BY <1>13, <3>1, ConcatProperties DEF w
    <3> QED BY <3>2 DEF w
  <2>2. FsPrintFd(fd) = (q4 \o p5) \o c
    BY <1>15, <1>17 DEF Regrouped
  <2> HIDE DEF c
  <2>3. q4 \in Seq(S)
    BY <1>9, <1>12
  <2>4. LineOf((q4 \o p5) \o c, "Size:") = IntPrint(size)
    BY <1>4, <1>5, <1>6, <1>11, <2>1, <2>3, NumberLine
  <2> QED BY <2>2, <2>4
<1>19. LineOf(FsPrintFd(fd), "blocks:") = p7
  <2> HIDE DEF q5
  <2>1. a \in Seq(B)
    BY <1>13, <1>16, ConcatProperties
  <2>2. FsPrintFd(fd) = (a \o ((bl \o p7) \o nl)) \o <<>>
    BY <1>15, <1>17 DEF Regrouped
  <2> HIDE DEF a
  <2>3. <<>> \in Seq(B)
    BY EmptySeq
  <2> DEFINE label == "blocks:"
             none == <<>>
  <2>5. label \notin B /\ "\n" \in B /\ p7 \in Seq(B \ {"\n"}) /\ none \in Seq(B)
    BY <1>5, <1>11, <1>12, <2>3
  <2> HIDE DEF label, none
  <2>6. LineOf((a \o ((<<label>> \o p7) \o <<"\n">>)) \o none, label) = p7
    BY <2>1, <2>5, LineFound
  <2>4. LineOf((a \o ((<<"blocks:">> \o p7) \o <<"\n">>)) \o <<>>, "blocks:") = p7
    BY <2>6 DEF label, none
  <2> QED BY <2>2, <2>4 DEF bl, nl
<1> QED BY <1>18, <1>19 DEF size, p7, n

\* The files and the descriptors are as the listings take them.
LEMMA FilesAreListed ==
  ASSUME FilesInv
  PROVE  FilesListed
<1>1. LineOf(FsPrintFsd, "numfiles:") = IntPrint(Cardinality(Used))
  <2>1. root_dir.numentries \in Nat
    BY UsedFacts
  <2>2. Used = 0 .. root_dir.numentries - 1
    BY DEF FilesInv, DirectoryInv, DirectoryExact
  <2>3. Cardinality(Used) = root_dir.numentries
    <3> DEFINE n == root_dir.numentries
    <3>1. n \in Nat /\ Used = 0 .. n - 1
      BY <2>1, <2>2
    <3> HIDE DEF n
    <3>2. Cardinality(0 .. n - 1) = IF 0 > n - 1 THEN 0 ELSE (n - 1) - 0 + 1
      BY <3>1, FS_Interval
    <3>3. Cardinality(Used) = n
      BY <3>1, <3>2
    <3> QED BY <3>3 DEF n
  <2>4. LineOf(FsPrintFsd, "numfiles:") = IntPrint(root_dir.numentries)
    BY <2>1, CountListed
  <2> QED BY <2>3, <2>4
<1>2. ASSUME mounted, NEW fd \in OpenFDs
      PROVE  LET size == SizeOf(root_dir.entry[oft[fd].direntry].name)
                 text == FsPrintFd(fd)
             IN  /\ LineOf(text, "Size:") = IntPrint(size)
                 /\ size <= INODE_BLOCKS * BLOCK_SIZE =>
                      Len(Only(LineOf(text, "blocks:"), {" "})) =
                        Min({n \in 0 .. size : n * BLOCK_SIZE >= size})
  <2> DEFINE size == oft[fd].inode.size
             text == FsPrintFd(fd)
             name == root_dir.entry[oft[fd].direntry].name
  <2>1. /\ fd \in FDs /\ oft[fd].direntry \in Used
        /\ oft[fd].inode = inodes[BlockOf(oft[fd].direntry)]
    BY <1>2, OpenFacts
  <2>2. name \in Names
    <3>1. root_dir.entry \in [Entries -> [name : Names \cup {NoName},
                                          inode_block : Blocks \cup {EMPTY, UNUSED}]]
      BY DEF FilesInv, DirectoryInv, TypeOK, Directory
    <3> QED BY <2>1, <3>1 DEF Used
  <2>3. SizeOf(name) = size
    BY <2>1, <2>2, KnowSizes DEF SizesKnown
  <2>4. FdKnown(fd)
    <3>1. fd \in Nat
      BY <2>1, Sizes DEF FDs
    <3>2. oft[fd].head \in Nat /\ oft[fd].inode.size \in Nat
      BY <2>1 DEF FilesInv, DirectoryInv, TypeOK, Inode
    <3> QED BY <2>2, <3>1, <3>2 DEF FdKnown
  <2>5. /\ LineOf(text, "Size:") = IntPrint(size)
        /\ LineOf(text, "blocks:") = BlocksText(BlocksPrinted(size))
    BY <2>4, FdListed
  <2>6. size \in Nat
    BY <2>4 DEF FdKnown
  <2> HIDE DEF size, text
  <2>7. Len(Only(LineOf(text, "blocks:"), {" "})) = BlocksPrinted(size)
    BY <2>5, <2>6, BlocksWhole, BlocksBlank
  <2>8. size <= INODE_BLOCKS * BLOCK_SIZE =>
          BlocksPrinted(size) = Min({n \in 0 .. size : n * BLOCK_SIZE >= size})
    BY <2>6, BlocksWhole
  <2> QED BY <2>3, <2>5, <2>7, <2>8 DEF text
<1> QED BY <1>1, <1>2 DEF FilesListed

(***************************************************************************)
(* fsutil.c 8, 17 and 62: what is printed of the bitmask, of the number of *)
(* files and of an open file is what they are, at any time and for any     *)
(* number of blocks, files and descriptors.                                *)
(***************************************************************************)
THEOREM ListingsAreTrue == OrderlyCallers => (Spec => []ListingsTrue)
<1>1. FilesInv => ListingsTrue
  BY MaskIsListed, FilesAreListed DEF ListingsTrue, FilesInv, DirectoryInv
<1> QED BY <1>1, FilesInvariant, PTL
=============================================================================
