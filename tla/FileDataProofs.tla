----------------------------- MODULE FileDataProofs -----------------------------
(***************************************************************************)
(* Proofs, for every size and number of blocks and every length of a call, *)
(* about FileData.                                                         *)
(***************************************************************************)
EXTENDS FileDataSpec, SequenceTheorems, TLAPS

B == MDEV_BLOCK_SIZE

LEMMA BlockFacts ==
  /\ B \in Nat /\ B > 0 /\ INODE_BLOCKS \in Nat /\ INODE_BLOCKS > 0
  /\ Owned \in Nat /\ Owned <= INODE_BLOCKS
  /\ Capacity \in Nat
  /\ Offsets = 0 .. B - 1 /\ Blocks = 0 .. Owned - 1
<1>1. /\ B \in Nat /\ B > 0 /\ INODE_BLOCKS \in Nat /\ INODE_BLOCKS > 0
      /\ Owned \in Nat /\ Owned <= INODE_BLOCKS
  BY BlocksAssumption DEF B
<1> QED BY <1>1 DEF Capacity, Offsets, Blocks, B

LEMMA CapacityIs == Capacity = B * INODE_BLOCKS
BY BlocksAssumption DEF Capacity, B

(***************************************************************************)
(* Division by the size of a block.                                        *)
(***************************************************************************)
LEMMA Division ==
  ASSUME NEW p \in Nat
  PROVE  /\ p \div B \in Nat /\ p % B \in 0 .. B - 1
         /\ p = B * (p \div B) + (p % B)
<1>1. B \in Nat /\ B > 0
  BY BlockFacts
<1>2. p \div B \in Nat /\ p % B \in 0 .. B - 1
  BY <1>1, Z3
<1>3. p % B = p - (p \div B) * B
  BY <1>1, Z3
<1>4. (p \div B) * B = B * (p \div B)
  BY <1>1, <1>2
<1> QED BY <1>1, <1>2, <1>3, <1>4

LEMMA Multiples ==
  ASSUME NEW q1 \in Nat, NEW q2 \in Nat, q1 < q2
  PROVE  /\ B * q1 \in Nat /\ B * q2 \in Nat
         /\ B * q1 + B <= B * q2
BY BlockFacts, SMTT(30)

LEMMA Product ==
  ASSUME NEW q \in Nat
  PROVE  B * q \in Nat /\ B * (q + 1) = B * q + B
BY BlockFacts

LEMMA Quotient ==
  ASSUME NEW q \in Nat, NEW r \in 0 .. B - 1, NEW p \in Nat, p = B * q + r
  PROVE  p \div B = q /\ p % B = r
<1> DEFINE q0 == p \div B
           r0 == p % B
<1>1. q0 \in Nat /\ r0 \in 0 .. B - 1 /\ p = B * q0 + r0
  BY Division
<1> HIDE DEF q0, r0
<1>2. B \in Nat /\ r \in Nat /\ r0 \in Nat /\ r < B /\ r0 < B /\ B * q \in Nat /\ B * q0 \in Nat
  BY <1>1, BlockFacts
<1>3. ~(q < q0)
  <2> SUFFICES ASSUME q < q0 PROVE FALSE
    OBVIOUS
  <2>1. B * q + B <= B * q0
    BY <1>1, Multiples
  <2> QED BY <1>1, <1>2, <2>1
<1>4. ~(q0 < q)
  <2> SUFFICES ASSUME q0 < q PROVE FALSE
    OBVIOUS
  <2>1. B * q0 + B <= B * q
    BY <1>1, Multiples
  <2> QED BY <1>1, <1>2, <2>1
<1>5. q = q0
  BY <1>1, <1>3, <1>4
<1>6. r = r0
  BY <1>1, <1>2, <1>5
<1> QED BY <1>5, <1>6 DEF q0, r0

\* A position is in front of block q if and only if its own block is.
LEMMA InFront ==
  ASSUME NEW p \in Nat, NEW q \in Nat
  PROVE  p < B * q <=> p \div B < q
<1> DEFINE q0 == p \div B
           r0 == p % B
<1>1. q0 \in Nat /\ r0 \in 0 .. B - 1 /\ p = B * q0 + r0
  BY Division
<1> HIDE DEF q0, r0
<1>2. B \in Nat /\ r0 \in Nat /\ r0 < B /\ B * q \in Nat /\ B * q0 \in Nat
  BY <1>1, BlockFacts
<1>3. CASE q0 < q
  <2>1. B * q0 + B <= B * q
    BY <1>1, <1>3, Multiples
  <2> QED BY <1>1, <1>2, <1>3, <2>1 DEF q0
<1>4. CASE q < q0
  <2>1. B * q + B <= B * q0
    BY <1>1, <1>4, Multiples
  <2> QED BY <1>1, <1>2, <1>4, <2>1 DEF q0
<1>5. CASE q = q0
  BY <1>1, <1>2, <1>5 DEF q0
<1> QED BY <1>1, <1>3, <1>4, <1>5

\* The n elements behind the first m.
IsSlice(t, S, s, m, n) == t \in Seq(S) /\ Len(t) = n /\ \A i \in 1 .. n : t[i] = s[m + i]

LEMMA Slice ==
  ASSUME NEW S, NEW s, NEW m \in Nat, NEW n \in Nat,
         \A i \in m + 1 .. m + n : s[i] \in S
  PROVE  IsSlice(SubSeq(s, m + 1, m + n), S, s, m, n)
<1> DEFINE t == SubSeq(s, m + 1, m + n)
<1>1. /\ t \in Seq(S)
      /\ Len(t) = IF m + 1 <= m + n THEN m + n - (m + 1) + 1 ELSE 0
      /\ \A i \in 1 .. m + n - (m + 1) + 1 : t[i] = s[m + 1 + i - 1]
  BY SubSeqProperties
<1> HIDE DEF t
<1>2. Len(t) = n
  BY <1>1
<1>3. ASSUME NEW i \in 1 .. n PROVE t[i] = s[m + i]
  <2>1. i \in 1 .. m + n - (m + 1) + 1 /\ m + 1 + i - 1 = m + i
    OBVIOUS
  <2> QED BY <1>1, <2>1
<1> QED BY <1>1, <1>2, <1>3 DEF t, IsSlice

LEMMA Prefix ==
  ASSUME NEW S, NEW s, NEW n \in Nat, \A i \in 1 .. n : s[i] \in S
  PROVE  /\ SubSeq(s, 1, n) \in Seq(S)
         /\ Len(SubSeq(s, 1, n)) = n
         /\ \A i \in 1 .. n : SubSeq(s, 1, n)[i] = s[i]
<1> DEFINE t == SubSeq(s, 1, n)
<1>1. /\ t \in Seq(S)
      /\ Len(t) = IF 1 <= n THEN n - 1 + 1 ELSE 0
      /\ \A i \in 1 .. n - 1 + 1 : t[i] = s[1 + i - 1]
  BY SubSeqProperties
<1> HIDE DEF t
<1>2. Len(t) = n /\ n - 1 + 1 = n /\ \A i \in 1 .. n : 1 + i - 1 = i
  BY <1>1
<1> QED BY <1>1, <1>2 DEF t

ContentIs ==
  /\ DOMAIN Content = 0 .. B * Owned - 1
  /\ \A p \in DOMAIN Content :
       /\ p \in Nat /\ p \div B < Owned /\ p \div B \in Nat
       /\ Content[p] = device[Owned - 1 - p \div B][p % B]

LEMMA ContentFacts == ContentIs
<1>1. DOMAIN Content = 0 .. B * Owned - 1
  <2>1. Owned * B = B * Owned
    BY BlockFacts
  <2> QED BY <2>1 DEF Content, B
<1>2. ASSUME NEW p \in DOMAIN Content
      PROVE  /\ p \in Nat /\ p \div B < Owned /\ p \div B \in Nat
             /\ Content[p] = device[Owned - 1 - p \div B][p % B]
  <2>1. p \in Nat /\ p < B * Owned
    BY <1>1, <1>2, BlockFacts
  <2>2. p \div B < Owned
    BY <2>1, InFront, BlockFacts
  <2>3. Content[p] = device[BlockAt(p \div B)][p % B]
    BY <1>2 DEF Content, ByteAt, B
  <2> QED BY <2>1, <2>2, <2>3, Division DEF BlockAt
<1> QED BY <1>1, <1>2 DEF ContentIs

-----------------------------------------------------------------------------
(***************************************************************************)
(* The strengthening: what is left of a call stays within the places of    *)
(* inode.blocks, and as long as something is left to be read, blockIndex   *)
(* and offset are those of the position.                                   *)
(***************************************************************************)
WriteLocals ==
  /\ pc = "write" => head + Len(buff) - bytes <= Capacity
  /\ pc # "write" => buff = <<>> /\ bytes = 0

ReadLocals ==
  /\ pc = "read" => /\ local.head + len <= Capacity
                    /\ Len(got) + len > 0
                    /\ len > 0 => local.head = B * local.blockIndex + local.offset
  /\ pc # "read" => len = 0 /\ got = <<>>

DataInv == TypeOK /\ WriteLocals /\ ReadLocals /\ ReadsContent

Local == [head : 0 .. Capacity, blockIndex : 0 .. INODE_BLOCKS, offset : Offsets]

LEMMA InitData == Init => DataInv
<1> SUFFICES ASSUME Init PROVE DataInv
  OBVIOUS
<1>1. NoRead \in Local
  BY BlockFacts DEF NoRead, Local
<1>2. device \in [Blocks -> [Offsets -> Bytes]]
  BY DEF Init
<1>3. head \in 0 .. Capacity /\ size \in 0 .. Capacity
  BY BlockFacts DEF Init
<1>4. TypeOK
  BY <1>1, <1>2, <1>3 DEF Init, TypeOK, Local
<1> QED BY <1>4 DEF Init, DataInv, WriteLocals, ReadLocals, ReadsContent

LEMMA SeekKeeps == ASSUME DataInv, Seek PROVE DataInv'
<1>1. /\ pc = "idle" /\ pc' = "idle" /\ head' \in 0 .. size
      /\ UNCHANGED <<device, size, buff, bytes, local, len, got>>
  BY DEF Seek, writer, reader
<1>2. head' \in 0 .. Capacity
  BY <1>1, BlockFacts DEF DataInv, TypeOK
<1>3. TypeOK'
  BY <1>1, <1>2 DEF DataInv, TypeOK
<1> QED BY <1>1, <1>3 DEF DataInv, WriteLocals, ReadLocals, ReadsContent

LEMMA WriteCallKeeps == ASSUME DataInv, WriteCall PROVE DataInv'
<1>1. PICK text \in Texts : buff' = text /\ head + Len(text) <= Capacity
  BY DEF WriteCall
<1>2. text \in Seq(Bytes)
  BY DEF Texts
<1>3. /\ pc = "idle" /\ pc' = "write" /\ bytes' = 0
      /\ UNCHANGED <<device, head, size, local, len, got>>
  BY DEF WriteCall, reader
<1>4. TypeOK'
  BY <1>1, <1>2, <1>3 DEF DataInv, TypeOK
<1>5. WriteLocals'
  BY <1>1, <1>2, <1>3, BlockFacts DEF DataInv, TypeOK, WriteLocals
<1> QED BY <1>3, <1>4, <1>5 DEF DataInv, ReadLocals, ReadsContent

\* What one turn of the loop of fs_write writes.
Wrote == Lesser(BlockSpace(head), Len(buff) - bytes)
Text  == SubSeq(buff, bytes + 1, bytes + Wrote)

LEMMA TurnWrites ==
  ASSUME DataInv, WriteTurn
  PROVE  /\ Wrote \in Nat /\ Wrote > 0 /\ bytes + Wrote <= Len(buff)
         /\ head \in Nat /\ head + Wrote <= Capacity /\ head < Capacity
         /\ head % B \in 0 .. B - 1 /\ (head % B) + Wrote <= B
         /\ Text \in Seq(Bytes) /\ Len(Text) = Wrote
         /\ \A i \in 1 .. Wrote : Text[i] = buff[bytes + i] /\ Text[i] \in Bytes
<1>1. /\ buff \in Seq(Bytes) /\ Len(buff) \in Nat /\ bytes \in Nat /\ bytes < Len(buff)
      /\ head \in Nat /\ head + Len(buff) - bytes <= Capacity
  BY BlockFacts DEF DataInv, TypeOK, WriteTurn, WriteLocals
<1>2. head % B \in 0 .. B - 1
  BY <1>1, Division
<1>3. BlockSpace(head) = B - (head % B)
  BY DEF BlockSpace, B
<1>4. /\ Wrote \in Nat /\ Wrote > 0 /\ bytes + Wrote <= Len(buff)
      /\ (head % B) + Wrote <= B
  <2>1. /\ BlockSpace(head) \in Nat /\ BlockSpace(head) > 0
        /\ (head % B) + BlockSpace(head) = B /\ head % B \in Nat
    BY <1>2, <1>3, BlockFacts
  <2>2. Wrote = IF BlockSpace(head) < Len(buff) - bytes THEN BlockSpace(head)
                ELSE Len(buff) - bytes
    BY DEF Wrote, Lesser
  <2> QED BY <1>1, <2>1, <2>2, BlockFacts
<1> HIDE DEF Wrote
<1>5. /\ Text \in Seq(Bytes) /\ Len(Text) = Wrote
      /\ \A i \in 1 .. Wrote : Text[i] = buff[bytes + i] /\ Text[i] \in Bytes
  <2>1. \A i \in bytes + 1 .. bytes + Wrote : buff[i] \in Bytes
    BY <1>1, <1>4, ElementOfSeq
  <2>2. bytes \in Nat /\ Wrote \in Nat
    BY <1>1, <1>4
  <2>3. IsSlice(Text, Bytes, buff, bytes, Wrote)
    BY <2>1, <2>2, Slice, Zenon DEF Text
  <2>4. \A i \in 1 .. Wrote : bytes + i \in bytes + 1 .. bytes + Wrote
    BY <2>2
  <2> QED BY <2>1, <2>3, <2>4 DEF IsSlice
<1> QED BY <1>1, <1>2, <1>4, <1>5, BlockFacts

LEMMA BsWriteType ==
  ASSUME device \in [Blocks -> [Offsets -> Bytes]], NEW block, NEW offset \in Nat,
         NEW text \in Seq(Bytes)
  PROVE  BsWrite(block, offset, text) \in [Blocks -> [Offsets -> Bytes]]
<1>1. CASE ~InBlock(block, offset, Len(text))
  BY <1>1 DEF BsWrite
<1>2. CASE InBlock(block, offset, Len(text))
  <2> DEFINE row == [o \in Offsets |-> IF o \in offset .. offset + Len(text) - 1
                                       THEN text[o - offset + 1] ELSE device[block][o]]
  <2>1. block \in Blocks
    BY <1>2 DEF InBlock
  <2>2. ASSUME NEW o \in Offsets PROVE row[o] \in Bytes
    <3>1. o \in Nat /\ Len(text) \in Nat
      BY BlockFacts
    <3>2. CASE o \in offset .. offset + Len(text) - 1
      <4>1. o - offset + 1 \in 1 .. Len(text)
        BY <3>1, <3>2
      <4> QED BY <3>2, <4>1
    <3>3. CASE o \notin offset .. offset + Len(text) - 1
      BY <2>1, <3>3
    <3> QED BY <3>2, <3>3
  <2>3. row \in [Offsets -> Bytes]
    BY <2>2
  <2>4. BsWrite(block, offset, text) = [device EXCEPT ![block] = row]
    BY <1>2 DEF BsWrite
  <2> HIDE DEF row
  <2> QED BY <2>1, <2>3, <2>4
<1> QED BY <1>1, <1>2

LEMMA WriteTurnKeeps == ASSUME DataInv, WriteTurn PROVE DataInv'
<1>1. /\ device' = BsWrite(BlockAt(head \div B), head % B, Text)
      /\ bytes' = bytes + Wrote /\ head' = head + Wrote
      /\ size' = IF head' > size THEN head' ELSE size
      /\ pc = "write" /\ UNCHANGED <<pc, buff, local, len, got>>
  BY DEF WriteTurn, Wrote, Text, reader, B
<1>2. /\ Wrote \in Nat /\ bytes + Wrote <= Len(buff)
      /\ head \in Nat /\ head + Wrote <= Capacity
      /\ head % B \in Nat /\ Text \in Seq(Bytes)
  BY TurnWrites, BlockFacts
<1> HIDE DEF Wrote, Text
<1>3. device' \in [Blocks -> [Offsets -> Bytes]]
  BY <1>1, <1>2, BsWriteType DEF DataInv, TypeOK
<1>4. /\ head' \in 0 .. Capacity /\ size' \in 0 .. Capacity
      /\ bytes' \in 0 .. Len(buff')
  BY <1>1, <1>2, BlockFacts DEF DataInv, TypeOK
<1>5. TypeOK'
  BY <1>1, <1>3, <1>4 DEF DataInv, TypeOK
<1>6. WriteLocals'
  <2>1. Len(buff) \in Nat /\ bytes \in Nat /\ head + Len(buff) - bytes <= Capacity
    BY <1>1, BlockFacts DEF DataInv, TypeOK, WriteLocals
  <2>2. head' + Len(buff') - bytes' <= Capacity
    BY <1>1, <1>2, <2>1, BlockFacts
  <2> QED BY <1>1, <2>2 DEF WriteLocals
<1> QED BY <1>1, <1>5, <1>6 DEF DataInv, ReadLocals, ReadsContent

LEMMA WriteReturnKeeps == ASSUME DataInv, WriteReturn PROVE DataInv'
<1>1. /\ pc = "write" /\ pc' = "idle" /\ buff' = <<>> /\ bytes' = 0
      /\ UNCHANGED <<device, head, size, local, len, got>>
  BY DEF WriteReturn, reader
<1>2. TypeOK'
  BY <1>1 DEF DataInv, TypeOK
<1> QED BY <1>1, <1>2 DEF DataInv, WriteLocals, ReadLocals, ReadsContent

LEMMA ReadCallKeeps == ASSUME DataInv, ReadCall PROVE DataInv'
<1>1. PICK n \in 1 .. Lesser(MaxLen, Capacity - head) :
        /\ len' = n
        /\ local' = [head |-> head, blockIndex |-> head \div B, offset |-> head % B]
        /\ pc = "idle" /\ pc' = "read"
        /\ UNCHANGED <<device, head, size, buff, bytes, got>>
  BY DEF ReadCall, writer, B
<1>2. head \in Nat /\ n \in Nat /\ n > 0 /\ head + n <= Capacity /\ head < Capacity
  <2>1. head \in 0 .. Capacity /\ MaxLen \in Nat
    BY BytesAssumption DEF DataInv, TypeOK
  <2> QED BY <2>1, BlockFacts DEF Lesser
<1>3. /\ head \div B \in Nat /\ head % B \in 0 .. B - 1
      /\ head = B * (head \div B) + (head % B)
  BY <1>2, Division
<1>4. head \div B \in 0 .. INODE_BLOCKS
  <2>1. head \div B < INODE_BLOCKS
    BY <1>2, InFront, CapacityIs, BlockFacts
  <2> QED BY <1>3, <2>1, BlockFacts
<1>5. local' \in Local
  <2>1. head \in 0 .. Capacity /\ head % B \in Offsets
    BY <1>2, <1>3, BlockFacts
  <2> QED BY <1>1, <1>4, <2>1 DEF Local
<1>6. TypeOK'
  BY <1>1, <1>2, <1>5 DEF DataInv, TypeOK, Local
<1>7. got' = <<>> /\ Len(got') = 0
  BY <1>1 DEF DataInv, ReadLocals
<1>8. ReadLocals'
  <2>1. local'.head = head /\ local'.blockIndex = head \div B /\ local'.offset = head % B
    BY <1>1
  <2>2. local'.head = B * local'.blockIndex + local'.offset
    BY <1>3, <2>1
  <2>3. local'.head + len' <= Capacity
    BY <1>1, <1>2, <2>1
  <2>4. Len(got') + len' > 0
    BY <1>1, <1>2, <1>7
  <2> QED BY <1>1, <2>2, <2>3, <2>4 DEF ReadLocals
<1>9. ReadsContent'
  <2>1. local'.head = head' + Len(got')
    BY <1>1, <1>2, <1>7
  <2> QED BY <1>7, <2>1 DEF ReadsContent
<1> QED BY <1>1, <1>6, <1>8, <1>9 DEF DataInv, WriteLocals

\* What one turn of the loop of fs_read asks bs_read for, and takes of it.
Rest == B - local.offset
Took == Lesser(len, Rest)

LEMMA TurnReads ==
  ASSUME DataInv, ReadTurn
  PROVE  /\ local.head \in Nat /\ local.blockIndex \in Nat /\ local.offset \in 0 .. B - 1
         /\ local.head = B * local.blockIndex + local.offset
         /\ Rest \in Nat /\ Rest > 0 /\ local.offset + Rest = B
         /\ Took \in Nat /\ Took > 0 /\ Took <= Rest /\ Took <= len
         /\ Took = len \/ Took = Rest
         /\ local.head + len <= Capacity /\ local.blockIndex < INODE_BLOCKS
<1>1. /\ local.head \in Nat /\ local.blockIndex \in Nat /\ local.offset \in 0 .. B - 1
      /\ local.head = B * local.blockIndex + local.offset
      /\ local.head + len <= Capacity /\ len \in Nat /\ len > 0
  BY BlockFacts DEF ReadTurn, DataInv, TypeOK, ReadLocals
<1>2. Rest \in Nat /\ Rest > 0 /\ local.offset + Rest = B
  BY <1>1, BlockFacts DEF Rest
<1>3. /\ Took \in Nat /\ Took > 0 /\ Took <= Rest /\ Took <= len
      /\ Took = len \/ Took = Rest
  BY <1>1, <1>2 DEF Took, Lesser
<1>4. local.blockIndex < INODE_BLOCKS
  <2>1. local.head < Capacity /\ INODE_BLOCKS \in Nat
    BY <1>1, BlockFacts
  <2>2. local.head \div B = local.blockIndex
    BY <1>1, Quotient
  <2> QED BY <1>1, <2>1, <2>2, InFront, CapacityIs
<1> QED BY <1>1, <1>2, <1>3, <1>4

\* What bs_read leaves in the local buffer, if the range ends with the block.
Gives(block, index, offset, n) ==
  /\ \A i \in 1 .. n : block[i] \in Bytes
  /\ index < Owned =>
       \A i \in 1 .. n : block[i] = device[Owned - 1 - index][offset + i - 1]

LEMMA BsReadGives ==
  ASSUME device \in [Blocks -> [Offsets -> Bytes]], NEW index \in Nat,
         NEW offset \in 0 .. B - 1, NEW n \in Nat, offset + n = B,
         NEW block \in BsRead(BlockAt(index), offset, n)
  PROVE  Gives(block, index, offset, n)
<1>1. CASE index < Owned
  <2>1. BlockAt(index) = Owned - 1 - index /\ BlockAt(index) \in Blocks
    BY <1>1, BlockFacts DEF BlockAt
  <2>2. InBlock(BlockAt(index), offset, n)
    BY <2>1 DEF InBlock, B
  <2>3. block = [i \in 1 .. n |-> device[Owned - 1 - index][offset + i - 1]]
    BY <2>1, <2>2 DEF BsRead
  <2>4. \A i \in 1 .. n : offset + i - 1 \in Offsets
    BY BlockFacts
  <2> QED BY <2>1, <2>3, <2>4 DEF Gives
<1>2. CASE ~(index < Owned)
  <2>1. BlockAt(index) \notin Blocks
    BY <1>2, BlockFacts DEF BlockAt, EMPTY
  <2>2. block \in [1 .. n -> Bytes]
    BY <2>1 DEF BsRead, InBlock
  <2> QED BY <1>2, <2>2 DEF Gives
<1> QED BY <1>1, <1>2

LEMMA ReadTurnKeeps == ASSUME DataInv, ReadTurn PROVE DataInv'
<1>1. PICK rest, n, h, index, offset, base, m, left :
        /\ rest = Rest /\ n = Took /\ left = len /\ m = Len(got)
        /\ h = local.head /\ index = local.blockIndex /\ offset = local.offset
        /\ base = B * index
  OBVIOUS
<1>2. /\ h \in Nat /\ index \in Nat /\ offset \in 0 .. B - 1
      /\ rest \in Nat /\ rest > 0 /\ offset + rest = B
      /\ n \in Nat /\ n > 0 /\ n <= rest /\ n <= left /\ (n = left \/ n = rest)
      /\ h + left <= Capacity /\ index < INODE_BLOCKS
      /\ h = base + offset
  BY <1>1, TurnReads
<1>3. base \in Nat /\ B * (index + 1) = base + B
  BY <1>1, <1>2, Product
<1>4. head \in Nat /\ h = head + m /\ m \in Nat /\ left \in Nat
  BY <1>1 DEF DataInv, TypeOK, ReadsContent, ReadTurn
<1>0. /\ got \in Seq(Bytes) /\ device \in [Blocks -> [Offsets -> Bytes]]
      /\ \A i \in 1 .. m : head + i - 1 \in DOMAIN Content => got[i] = Content[head + i - 1]
  BY <1>1 DEF DataInv, TypeOK, ReadsContent, ReadTurn
<1>5. PICK block \in BsRead(BlockAt(index), offset, rest) : got' = got \o SubSeq(block, 1, n)
  BY <1>1 DEF ReadTurn, Rest, Took, B
<1>6. /\ len' = left - n
      /\ local' = [head |-> h + n, blockIndex |-> index + 1, offset |-> 0]
      /\ pc = "read" /\ UNCHANGED <<device, head, size, pc, buff, bytes>>
  BY <1>1 DEF ReadTurn, Rest, Took, B, NextOffset, writer
<1>7. /\ \A i \in 1 .. rest : block[i] \in Bytes
      /\ index < Owned => \A i \in 1 .. rest : block[i] = device[Owned - 1 - index][offset + i - 1]
  <2>1. block \in BsRead(BlockAt(index), offset, rest)
    BY <1>5
  <2>2. index \in Nat /\ offset \in 0 .. B - 1 /\ rest \in Nat /\ offset + rest = B
    BY <1>2
  <2>3. Gives(block, index, offset, rest)
    BY <1>0, <2>1, <2>2, BsReadGives, Zenon
  <2> QED BY <2>3 DEF Gives
<1>8. PICK piece : /\ got' = got \o piece
                   /\ piece \in Seq(Bytes) /\ Len(piece) = n
                   /\ \A i \in 1 .. n : piece[i] = block[i]
  <2> DEFINE t == SubSeq(block, 1, n)
  <2>1. \A i \in 1 .. n : block[i] \in Bytes
    BY <1>2, <1>7
  <2>2. t \in Seq(Bytes) /\ Len(t) = n /\ \A i \in 1 .. n : t[i] = block[i]
    BY <1>2, <2>1, Prefix
  <2> QED BY <1>5, <2>2
<1>9. /\ got' \in Seq(Bytes) /\ Len(got') = m + n
      /\ \A i \in 1 .. m + n : got'[i] = IF i <= m THEN got[i] ELSE piece[i - m]
  <2>1. got \in Seq(Bytes) /\ piece \in Seq(Bytes)
    BY <1>0, <1>8, Zenon
  <2>2. got' = got \o piece /\ Len(got) = m /\ Len(piece) = n
    BY <1>1, <1>8, Zenon
  <2>3. /\ got \o piece \in Seq(Bytes)
        /\ Len(got \o piece) = Len(got) + Len(piece)
        /\ \A i \in 1 .. Len(got) + Len(piece) :
             (got \o piece)[i] = IF i <= Len(got) THEN got[i] ELSE piece[i - Len(got)]
    BY <2>1, ConcatProperties, Zenon
  <2> QED BY <2>2, <2>3, Zenon
<1>10. /\ left - n \in Nat /\ h + n + (left - n) <= Capacity /\ h + n \in 0 .. Capacity
       /\ index + 1 \in 0 .. INODE_BLOCKS /\ 0 \in Offsets
       /\ m + n + (left - n) > 0 /\ (left - n > 0 => h + n = base + B + 0)
       /\ h + n = head + (m + n)
  BY <1>2, <1>3, <1>4, BlockFacts
<1>11. TypeOK'
  <2>1. local' \in Local
    BY <1>6, <1>10 DEF Local
  <2> QED BY <1>6, <1>9, <1>10, <2>1 DEF DataInv, TypeOK, Local
<1>12. ReadLocals'
  <2>1. /\ local'.head = h + n /\ local'.blockIndex = index + 1 /\ local'.offset = 0
        /\ len' = left - n /\ Len(got') = m + n /\ pc' = "read"
    BY <1>6, <1>9
  <2>2. /\ local'.head + len' <= Capacity /\ Len(got') + len' > 0
        /\ len' > 0 => local'.head = B * local'.blockIndex + local'.offset
    BY <1>3, <1>10, <2>1
  <2> QED BY <2>1, <2>2 DEF ReadLocals
<1>13. ASSUME NEW i \in 1 .. m + n, head + i - 1 \in DOMAIN Content
       PROVE  got'[i] = Content[head + i - 1]
  <2>1. CASE i <= m
    <3>1. i \in 1 .. m
      BY <1>2, <1>4, <2>1
    <3> QED BY <1>0, <1>9, <1>13, <2>1, <3>1
  <2>2. CASE ~(i <= m)
    <3>1. PICK j, p : j = i - m /\ p = head + i - 1
      OBVIOUS
    <3>2. j \in 1 .. n /\ j \in 1 .. rest
      BY <1>2, <1>4, <2>2, <3>1
    <3>3. got'[i] = block[j]
      BY <1>8, <1>9, <2>2, <3>1, <3>2
    <3>4. p \in Nat /\ p = base + (offset + j - 1) /\ offset + j - 1 \in 0 .. B - 1
      BY <1>2, <1>3, <1>4, <2>2, <3>1, BlockFacts
    <3>5. p \div B = index /\ p % B = offset + j - 1
      BY <1>1, <1>2, <3>4, Quotient
    <3>6. index < Owned /\ Content[p] = device[Owned - 1 - index][offset + j - 1]
      BY <1>13, <3>1, <3>5, ContentFacts DEF ContentIs
    <3> QED BY <1>7, <3>1, <3>2, <3>3, <3>6
  <2> QED BY <2>1, <2>2
<1>14. ReadsContent'
  <2>1. Content' = Content
    BY <1>6 DEF Content, ByteAt
  <2>2. local'.head = head' + Len(got')
    BY <1>6, <1>9, <1>10
  <2> QED BY <1>6, <1>9, <1>13, <2>1, <2>2 DEF ReadsContent
<1> QED BY <1>6, <1>11, <1>12, <1>14 DEF DataInv, WriteLocals

LEMMA ReadReturnKeeps == ASSUME DataInv, ReadReturn PROVE DataInv'
<1>1. /\ pc = "read" /\ pc' = "idle" /\ head' = local.head /\ got' = <<>> /\ local' = NoRead
      /\ len = 0 /\ UNCHANGED <<device, size, buff, bytes, len>>
  BY DEF ReadReturn, writer
<1>2. local' \in Local
  BY <1>1, BlockFacts DEF NoRead, Local
<1>3. TypeOK'
  BY <1>1, <1>2 DEF DataInv, TypeOK, Local
<1> QED BY <1>1, <1>3 DEF DataInv, WriteLocals, ReadLocals, ReadsContent

-----------------------------------------------------------------------------
(***************************************************************************)
(* The invariant, and what it gives.                                       *)
(***************************************************************************)
LEMMA NextKeepsData == DataInv /\ [Next]_vars => DataInv'
<1> SUFFICES ASSUME DataInv, [Next]_vars PROVE DataInv'
  OBVIOUS
<1>1. CASE WriteCall
  BY <1>1, WriteCallKeeps
<1>2. CASE WriteTurn
  BY <1>2, WriteTurnKeeps
<1>3. CASE WriteReturn
  BY <1>3, WriteReturnKeeps
<1>4. CASE ReadCall
  BY <1>4, ReadCallKeeps
<1>5. CASE ReadTurn
  BY <1>5, ReadTurnKeeps
<1>6. CASE ReadReturn
  BY <1>6, ReadReturnKeeps
<1>7. CASE Seek
  BY <1>7, SeekKeeps
<1>8. CASE UNCHANGED vars
  BY <1>8 DEF vars, writer, reader, DataInv, TypeOK, WriteLocals, ReadLocals, ReadsContent,
              Content, ByteAt
<1> QED BY <1>1, <1>2, <1>3, <1>4, <1>5, <1>6, <1>7, <1>8 DEF Next, Turns

(***************************************************************************)
(* The loops of fs_read.c and fs_write.c stay within the blocks of the     *)
(* file and the buffers of their callers.                                  *)
(***************************************************************************)
THEOREM DataInvariant == Spec => []DataInv
<1>1. Init => DataInv
  BY InitData
<1>2. DataInv /\ [Next]_vars => DataInv'
  BY NextKeepsData
<1> QED BY <1>1, <1>2, PTL DEF Spec

\* head and size stay within the places of inode.blocks, bytes within the
\* buffer (fs_write.c 22-51, fs_read.c 26-43).
THEOREM TypeCorrect == Spec => []TypeOK
<1>1. DataInv => TypeOK
  BY DEF DataInv
<1> QED BY <1>1, DataInvariant, PTL

\* Whatever the blocks of the device hold at first and wherever the head is put,
\* fs_read returns what is in the file from there on, however many blocks it goes
\* over (fs_read.c 16-48).
THEOREM ReadReturnsContent == Spec => []ReadsContent
<1>1. DataInv => ReadsContent
  BY DEF DataInv
<1> QED BY <1>1, DataInvariant, PTL

-----------------------------------------------------------------------------
(***************************************************************************)
(* The refinement of ByteFile, for a file that has all its blocks.         *)
(***************************************************************************)
AllOwned == Owned = INODE_BLOCKS

LEMMA NothingToDo == DataInv /\ pc # "write" => Todo = <<>>
<1> SUFFICES ASSUME DataInv, pc # "write" PROVE Todo = <<>>
  OBVIOUS
<1>1. buff = <<>> /\ bytes = 0
  BY DEF DataInv, WriteLocals
<1> QED BY <1>1, SubSeqEmpty DEF Todo

LEMMA TodoFacts ==
  ASSUME DataInv
  PROVE  /\ Todo \in Seq(Bytes) /\ Len(Todo) = Len(buff) - bytes
         /\ \A i \in 1 .. Len(buff) - bytes : Todo[i] = buff[bytes + i]
<1>1. PICK m, n : m = bytes /\ n = Len(buff) - bytes
  OBVIOUS
<1>2. m \in Nat /\ n \in Nat /\ m + n = Len(buff) /\ buff \in Seq(Bytes)
  BY <1>1 DEF DataInv, TypeOK
<1>3. \A i \in m + 1 .. m + n : buff[i] \in Bytes
  BY <1>2, ElementOfSeq
<1>4. IsSlice(SubSeq(buff, m + 1, m + n), Bytes, buff, m, n)
  <2>1. m \in Nat /\ n \in Nat
    BY <1>2
  <2> QED BY <1>3, <2>1, Slice, Zenon
<1>5. Todo = SubSeq(buff, m + 1, m + n)
  BY <1>1, <1>2 DEF Todo
<1> QED BY <1>1, <1>4, <1>5 DEF IsSlice

LEMMA TodoShrinks ==
  ASSUME DataInv, DataInv', WriteTurn
  PROVE  Wrote \in 1 .. Len(Todo) /\ Todo' = SubSeq(Todo, Wrote + 1, Len(Todo))
<1>1. PICK w, m, n : w = Wrote /\ m = bytes /\ n = Len(buff) - bytes - Wrote
  OBVIOUS
<1>2. /\ w \in Nat /\ w > 0 /\ m \in Nat /\ n \in Nat /\ m + w + n = Len(buff)
      /\ buff \in Seq(Bytes) /\ Len(Todo) = w + n
  <2>1. /\ Wrote \in Nat /\ Wrote > 0 /\ bytes + Wrote <= Len(buff)
        /\ Len(Todo) = Len(buff) - bytes
    BY TurnWrites, TodoFacts
  <2>2. buff \in Seq(Bytes) /\ Len(buff) \in Nat /\ bytes \in Nat
    BY DEF DataInv, TypeOK
  <2> QED BY <1>1, <2>1, <2>2
<1>3. buff' = buff /\ bytes' = m + w
  BY <1>1 DEF WriteTurn, Wrote
<1>4. Todo \in Seq(Bytes) /\ \A i \in 1 .. w + n : Todo[i] = buff[m + i]
  BY <1>1, <1>2, TodoFacts
<1>5. /\ Todo' \in Seq(Bytes) /\ Len(Todo') = n
      /\ \A i \in 1 .. n : Todo'[i] = buff[m + w + i]
  <2>1. \A i \in m + w + 1 .. m + w + n : buff[i] \in Bytes
    BY <1>2, ElementOfSeq
  <2>2. m + w \in Nat /\ n \in Nat
    BY <1>2
  <2>3. IsSlice(SubSeq(buff, m + w + 1, m + w + n), Bytes, buff, m + w, n)
    BY <2>1, <2>2, Slice, Zenon
  <2>4. Todo' = SubSeq(buff, m + w + 1, m + w + n)
    BY <1>2, <1>3 DEF Todo
  <2> QED BY <2>3, <2>4 DEF IsSlice
<1>6. PICK tail : tail = SubSeq(Todo, w + 1, w + n)
  OBVIOUS
<1>7. /\ tail \in Seq(Bytes) /\ Len(tail) = n
      /\ \A i \in 1 .. n : tail[i] = Todo[w + i]
  <2>1. \A i \in w + 1 .. w + n : Todo[i] \in Bytes
    BY <1>2, <1>4, ElementOfSeq
  <2>2. w \in Nat /\ n \in Nat
    BY <1>2
  <2>3. IsSlice(tail, Bytes, Todo, w, n)
    BY <1>6, <2>1, <2>2, Slice, Zenon
  <2> QED BY <2>3 DEF IsSlice
<1>8. \A i \in 1 .. n : tail[i] = Todo'[i]
  <2>1. \A i \in 1 .. n : w + i \in 1 .. w + n /\ m + (w + i) = m + w + i
    BY <1>2
  <2> QED BY <1>4, <1>5, <1>7, <2>1
<1>9. tail = Todo'
  BY <1>5, <1>7, <1>8, SeqEqual
<1> QED BY <1>1, <1>2, <1>6, <1>9

\* The bytes of the file after a turn of the loop of fs_write.
LEMMA TurnPuts ==
  ASSUME AllOwned, DataInv, WriteTurn
  PROVE  Content' = [p \in DOMAIN Content |->
                       IF p \in head .. head + Wrote - 1 THEN Todo[p - head + 1]
                       ELSE Content[p]]
<1>1. PICK w, h, index, offset, base, m :
        /\ w = Wrote /\ h = head /\ m = bytes
        /\ index = h \div B /\ offset = h % B /\ base = B * index
  OBVIOUS
<1>2. /\ w \in Nat /\ w > 0 /\ h \in Nat /\ h < Capacity /\ m \in Nat
      /\ offset \in 0 .. B - 1 /\ offset + w <= B
      /\ Text \in Seq(Bytes) /\ Len(Text) = w
  BY <1>1, TurnWrites DEF DataInv, TypeOK
<1>3. /\ index \in Nat /\ base \in Nat /\ h = base + offset
  BY <1>1, <1>2, Division, Product
<1>4. index < Owned
  BY <1>1, <1>2, InFront, CapacityIs, BlockFacts DEF AllOwned
<1>5. \A i \in 1 .. w : Text[i] = Todo[i]
  <2>1. \A i \in 1 .. w : Text[i] = buff[bytes + i]
    BY <1>1, TurnWrites
  <2>2. \A i \in 1 .. w : i \in 1 .. Len(buff) - bytes
    BY <1>1, <1>2, TurnWrites DEF DataInv, TypeOK
  <2> QED BY <2>1, <2>2, TodoFacts
<1> DEFINE k   == Owned - 1 - index
           row == [o \in Offsets |-> IF o \in offset .. offset + w - 1
                                     THEN Text[o - offset + 1] ELSE device[k][o]]
<1>6. BlockAt(index) = k /\ k \in Blocks
  BY <1>3, <1>4, BlockFacts DEF BlockAt
<1>7. device' = [device EXCEPT ![k] = row]
  <2>1. device' = BsWrite(BlockAt(index), offset, Text)
    BY <1>1 DEF WriteTurn, Wrote, Text, B
  <2>2. InBlock(BlockAt(index), offset, Len(Text))
    BY <1>2, <1>6 DEF InBlock, B
  <2> QED BY <1>2, <1>6, <2>1, <2>2 DEF BsWrite
<1>8. device'[k] = row /\ \A c \in Blocks : c # k => device'[c] = device[c]
  BY <1>6, <1>7 DEF DataInv, TypeOK
<1>9. ContentIs /\ ContentIs'
  BY ContentFacts, PTL
<1>10. DOMAIN Content' = DOMAIN Content
  BY <1>9 DEF ContentIs
<1>11. ASSUME NEW p \in DOMAIN Content
       PROVE  Content'[p] = IF p \in h .. h + w - 1 THEN Todo[p - h + 1] ELSE Content[p]
  <2>1. PICK q, r : q = p \div B /\ r = p % B
    OBVIOUS
  <2>2. /\ p \in Nat /\ q \in Nat /\ q < Owned /\ r \in 0 .. B - 1
        /\ p = B * q + r
    BY <1>9, <2>1, Division DEF ContentIs
  <2>3. /\ Content[p] = device[Owned - 1 - q][r]
        /\ Content'[p] = device'[Owned - 1 - q][r]
    BY <1>9, <1>10, <2>1 DEF ContentIs
  <2>4. Owned - 1 - q \in Blocks /\ (Owned - 1 - q = k <=> q = index)
    BY <1>3, <1>4, <2>2, BlockFacts
  <2>5. CASE q = index
    <3>1. p = base + r /\ r \in Offsets /\ r \in Nat
      BY <1>1, <2>2, <2>5, BlockFacts
    <3>2. Content'[p] = row[r] /\ Content[p] = device[k][r]
      BY <1>8, <2>3, <2>5
    <3>3. p \in h .. h + w - 1 <=> r \in offset .. offset + w - 1
      BY <1>2, <1>3, <3>1
    <3>4. CASE r \in offset .. offset + w - 1
      <4>1. r - offset + 1 \in 1 .. w /\ p - h + 1 = r - offset + 1
        BY <1>2, <1>3, <3>1, <3>4
      <4>2. row[r] = Text[r - offset + 1]
        BY <3>1, <3>4
      <4> QED BY <1>5, <3>2, <3>3, <3>4, <4>1, <4>2
    <3>5. CASE r \notin offset .. offset + w - 1
      <4>1. row[r] = device[k][r]
        BY <3>1, <3>5
      <4> QED BY <3>2, <3>3, <3>5, <4>1
    <3> QED BY <3>4, <3>5
  <2>6. CASE q # index
    <3>1. Content'[p] = Content[p]
      BY <1>8, <2>3, <2>4, <2>6
    <3>2. p \notin h .. h + w - 1
      <4> SUFFICES ASSUME p \in h .. h + w - 1 PROVE FALSE
        OBVIOUS
      <4>1. PICK d : d = p - base
        OBVIOUS
      <4>2. d \in 0 .. B - 1 /\ p = base + d
        BY <1>2, <1>3, <2>2, <4>1, BlockFacts
      <4>3. p = B * index + d
        BY <1>1, <4>2
      <4>4. p \div B = index
        BY <1>3, <2>2, <4>2, <4>3, Quotient
      <4> QED BY <2>1, <2>6, <4>4
    <3> QED BY <3>1, <3>2
  <2> QED BY <2>5, <2>6
<1>12. Content' = [p \in DOMAIN Content |-> Content'[p]]
  BY <1>10 DEF Content
<1> QED BY <1>1, <1>11, <1>12

LEMMA WriteTurnRefines ==
  ASSUME AllOwned, DataInv, DataInv', WriteTurn
  PROVE  File!Next
<1>1. Wrote \in 1 .. Len(Todo) /\ Todo' = SubSeq(Todo, Wrote + 1, Len(Todo))
  BY TodoShrinks
<1>2. /\ head' = head + Wrote
      /\ size' = IF head + Wrote > size THEN head + Wrote ELSE size
  BY DEF WriteTurn, Wrote
<1>3. File!Put(Wrote)
  BY <1>1, <1>2, TurnPuts DEF File!Put
<1> QED BY <1>1, <1>3 DEF File!Next

LEMMA StepsRefine ==
  ASSUME AllOwned, DataInv, DataInv', [Next]_vars
  PROVE  [File!Next]_(File!vars)
<1>1. CASE WriteCall
  <2>1. PICK text \in Texts : buff' = text
    BY <1>1 DEF WriteCall
  <2>2. /\ Todo = <<>> /\ bytes' = 0
        /\ UNCHANGED <<device, head, size>>
    BY <1>1, NothingToDo DEF WriteCall
  <2>3. Todo' = text
    <3>1. text \in Seq(Bytes)
      BY DEF Texts
    <3>2. Todo' = SubSeq(text, 1, Len(text))
      BY <2>1, <2>2 DEF Todo
    <3> QED BY <3>1, <3>2, SubSeqFull
  <2>4. Content' = Content
    BY <2>2 DEF Content, ByteAt
  <2> QED BY <2>1, <2>2, <2>3, <2>4 DEF File!Next, File!Call
<1>2. CASE WriteTurn
  BY <1>2, WriteTurnRefines
<1>3. CASE WriteReturn
  <2>1. /\ bytes = Len(buff) /\ buff \in Seq(Bytes) /\ pc' # "write"
        /\ UNCHANGED <<device, head, size>>
    BY <1>3 DEF WriteReturn, DataInv, TypeOK
  <2>2. Todo = <<>>
    BY <2>1, SubSeqEmpty DEF Todo
  <2>3. Todo' = <<>>
    <3>1. buff' = <<>> /\ bytes' = 0
      BY <1>3 DEF WriteReturn
    <3> QED BY <3>1, SubSeqEmpty DEF Todo
  <2> QED BY <2>1, <2>2, <2>3 DEF File!vars, Content, ByteAt
<1>4. CASE ReadCall \/ ReadTurn
  <2>1. UNCHANGED <<device, head, size, buff, bytes>>
    BY <1>4 DEF ReadCall, ReadTurn, writer
  <2> QED BY <2>1 DEF File!vars, Content, ByteAt, Todo
<1>5. CASE ReadReturn
  <2>1. /\ head' = head + Len(got) /\ Len(got) \in Nat /\ Len(got) > 0
        /\ Len(got) <= Capacity
    BY <1>5, BlockFacts DEF ReadReturn, DataInv, TypeOK, ReadLocals, ReadsContent
  <2>2. Len(got) - 1 \in DOMAIN Content
    BY <2>1, ContentFacts, CapacityIs, BlockFacts DEF ContentIs, AllOwned
  <2>3. UNCHANGED <<device, size, buff, bytes>> /\ Todo = <<>>
    BY <1>5, NothingToDo DEF ReadReturn, writer
  <2>4. Content' = Content /\ Todo' = Todo
    BY <2>3 DEF Content, ByteAt, Todo
  <2>5. File!Move(Len(got) - 1 + 1)
    BY <2>1, <2>3, <2>4 DEF File!Move
  <2> QED BY <2>2, <2>5 DEF File!Next
<1>6. CASE Seek
  <2>1. UNCHANGED <<device, size, buff, bytes>> /\ Todo = <<>> /\ head' \in 0 .. size
    BY <1>6, NothingToDo DEF Seek, writer
  <2>2. Content' = Content /\ Todo' = Todo
    BY <2>1 DEF Content, ByteAt, Todo
  <2>3. File!Seek(head')
    BY <2>1, <2>2 DEF File!Seek
  <2> QED BY <2>1, <2>3 DEF File!Next
<1>7. CASE UNCHANGED vars
  BY <1>7 DEF vars, writer, File!vars, Content, ByteAt, Todo
<1> QED BY <1>1, <1>2, <1>3, <1>4, <1>5, <1>6, <1>7 DEF Next, Turns

(***************************************************************************)
(* fs_write replaces the bytes from the head on by those of the buffer and *)
(* no others (fs_write.c 15-56), in a file that has all its blocks.        *)
(***************************************************************************)
THEOREM WriteRefines == AllOwned => (Spec => WritesBytes)
<1> SUFFICES ASSUME AllOwned PROVE Spec => File!Spec
  BY DEF WritesBytes
<1>1. Init => Todo = <<>>
  <2>1. DataInv /\ pc # "write" => Todo = <<>>
    BY NothingToDo
  <2>2. Init => pc # "write"
    BY DEF Init
  <2> QED BY <2>1, <2>2, InitData
<1>2. DataInv /\ DataInv' /\ [Next]_vars => [File!Next]_(File!vars)
  BY StepsRefine
<1>3. Spec => []DataInv
  BY DataInvariant
<1> QED BY <1>1, <1>2, <1>3, PTL DEF Spec, File!Spec
=============================================================================
