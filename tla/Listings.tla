------------------------------- MODULE Listings -------------------------------
(***************************************************************************)
(* What system/fsutil.c prints of the file system, by printf of            *)
(* lib/printf.c.  Nothing here changes the state; a name is one character. *)
(***************************************************************************)
EXTENDS FileSystemSpec, Printf

\* A name is none of the labels by which the lines of a listing are found.
ASSUME NamesPlain == Names \cap {"Size:", "blocks:"} = {}

-----------------------------------------------------------------------------
\* The block device.  initialize() passes bs_mk_ramdisk the number of the blocks
\* for their size and their size for the number, which are the same.
BsMkRamdisk(blocksize, numblocks) == [nblocks |-> numblocks, blocksz |-> blocksize]

Device == BsMkRamdisk(BLOCK_SIZE, NUM_BLOCKS)

FsPrintFsd ==
  Printed(<<"\n", "fsd", "\n">>, <<>>)
  \o Printed(<<"nblocks:", "%d", "\n">>, <<Device.nblocks>>)
  \o Printed(<<"blocksz:", "%d", "\n">>, <<Device.blocksz>>)
  \o Printed(<<"masksz:", "%d", "\n">>, <<MaskSize>>)
  \o Printed(<<"numfiles:", "%d", "\n">>, <<root_dir.numentries>>)

\* The bitmask is kept as the set of the bits that are set in it.
FsGetMaskBit(x) == IF x \in freemask THEN 1 ELSE 0

\* The bits that are printed as characters, which printf does not know of.
MutLettered(i, j) == j < 2                   \* mutant: in every byte
Lettered(i, j) == i = 0 /\ j < 2

FsPrintMaskBit(i, j) ==
  IF Lettered(i, j) THEN Printed(<<"%">>, <<"s">>)
                    ELSE Printed(<<"%d">>, <<FsGetMaskBit(i * BITS + j)>>)

FsPrintMaskByte(i) ==
  FlattenSeq([k \in 1 .. BITS |-> FsPrintMaskBit(i, k - 1)]) \o Printed(<<"%">>, <<" ">>)

FsPrintMask ==
  Printed(<<"\n", "free mask", "\n">>, <<>>)
  \o FlattenSeq([k \in 1 .. MaskSize |-> FsPrintMaskByte(k - 1)])
  \o IF (MaskSize + 1) % 8 # 0 THEN <<"\n">> ELSE <<>>

\* How many blocks the loop of fs_print_fd prints: i of them are sz[i] bytes for
\* it.  Its bsize is what is left of the size less the number of the block.
MoreToPrint(sz, size) == sz < size

BlocksPrinted(size) ==
  LET sz[i \in 0 .. INODE_BLOCKS + 1] ==
        IF i = 0 THEN 0
        ELSE sz[i - 1] + IF size - (i - 1) > BLOCK_SIZE THEN BLOCK_SIZE ELSE size - (i - 1)
  IN Min({i \in 0 .. INODE_BLOCKS + 1 : MoreToPrint(sz[i], size) => i > INODE_BLOCKS})

\* fs_create leaves every place of inode.blocks EMPTY, and nothing fills them.
\* The space behind "blocks:" is layout and left out, so that after the label
\* each space belongs to a block.
FsPrintFd(fd) ==
  Printed(<<"\n", "file descriptor", "[", "%d", "]", "\n">>, <<fd>>)
  \o Printed(<<"Name:", "%s", "\n">>, <<<<root_dir.entry[oft[fd].direntry].name>>>>)
  \o Printed(<<"State:", "%d", "\n">>, <<IF oft[fd].state = "open" THEN 1 ELSE 0>>)
  \o Printed(<<"Fileptr:", "%d", "\n">>, <<oft[fd].head>>)
  \o Printed(<<"Size:", "%d", "\n">>, <<oft[fd].inode.size>>)
  \o Printed(<<"\n", "blocks:">>, <<>>)
  \o FlattenSeq([i \in 1 .. BlocksPrinted(oft[fd].inode.size) |->
                   Printed(<<" ", "%d">>, <<EMPTY>>)])
  \o Printed(<<"\n">>, <<>>)

-----------------------------------------------------------------------------
\* The rows of fs_print_oft and fs_print_root and the kinds of their arguments.
\* A width is a letter that printf does not know, and what follows it is text.
OftRow  == [format |-> <<"%", "d", " ", "%", "s", " ", "%", "d", " ", "%", "d", " ",
                         "%s", " ", "0", "x", "%x", "\n">>,
            kinds  |-> <<"int", "str", "int", "str", "pointer">>]
RootRow == [format |-> <<"%", "d", " ", "%", "d", " ", "%s", " ", "\n">>,
            kinds  |-> <<"int", "int", "str">>]

-----------------------------------------------------------------------------
(***************************************************************************)
(* fsutil.c 17-18: the bits that are printed are those of the blocks that  *)
(* no file has and of those that one has, in order, the file system's own  *)
(* two left out and the bits behind the last block all zero.               *)
(***************************************************************************)
Only(text, chars) ==
  FlattenSeq([k \in 1 .. Len(text) |-> IF text[k] \in chars THEN <<text[k]>> ELSE <<>>])

Bits(text) == Only(text, {"0", "1"})

MaskListed ==
  LET bits == Bits(FsPrintMask)
  IN  /\ Len(bits) = MaskSize * BITS - 2
      /\ \A b \in 2 .. MaskSize * BITS - 1 :
           bits[b - 1] = "1" <=> \E i \in Used : BlockOf(i) = b

(***************************************************************************)
(* fsutil.c 8 and 62: the number of files is printed, and of each that is  *)
(* open its size on the disk and as many blocks as it takes, while it is   *)
(* no longer than the blocks in an inode can hold.                         *)
(***************************************************************************)
\* The line of a text that begins with a label.
LineOf(text, label) ==
  LET from == CHOOSE i \in DOMAIN text : text[i] = label
      end  == Min({i \in from .. Len(text) : text[i] = "\n"})
  IN SubSeq(text, from + 1, end - 1)

FilesListed ==
  /\ LineOf(FsPrintFsd, "numfiles:") = IntPrint(Cardinality(Used))
  /\ mounted => \A fd \in OpenFDs :
       LET size == SizeOf(root_dir.entry[oft[fd].direntry].name)
           text == FsPrintFd(fd)
       IN  /\ LineOf(text, "Size:") = IntPrint(size)
           /\ size <= INODE_BLOCKS * BLOCK_SIZE =>
                Len(Only(LineOf(text, "blocks:"), {" "})) =
                  Min({n \in 0 .. size : n * BLOCK_SIZE >= size})

\* The listings of the bitmask and of the files are those of the file system.
ListingsTrue == MaskListed /\ FilesListed

(***************************************************************************)
(* fsutil.c 35 and 50: printf can print the rows of both tables, taking an *)
(* address for each text.                                                  *)
(***************************************************************************)
RowsListed ==
  Used # {} => Matches(OftRow.format, OftRow.kinds) /\ Matches(RootRow.format, RootRow.kinds)
=============================================================================
