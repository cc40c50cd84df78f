------------------------------ MODULE TtyProofs ------------------------------
(***************************************************************************)
(* Proofs, for every length of the ring buffers and any number of key      *)
(* presses and characters, about Tty.                                      *)
(***************************************************************************)
EXTENDS TtySpec, SequenceTheorems, TLAPS

\* The places of a ring, and that they are apart.
LEMMA SlotValue ==
  ASSUME NEW h \in Index, NEW n \in 0 .. TTY_BUFFLEN
  PROVE  Slot(h, n) = IF h + n < TTY_BUFFLEN THEN h + n ELSE h + n - TTY_BUFFLEN
<1>1. TTY_BUFFLEN \in Nat /\ TTY_BUFFLEN > 0 /\ h \in 0 .. TTY_BUFFLEN - 1 /\ n \in Nat
  BY TTY_BUFFLENAssumption DEF Index
<1>2. CASE h + n < TTY_BUFFLEN
  BY <1>1, <1>2 DEF Slot
<1>3. CASE h + n >= TTY_BUFFLEN
  BY <1>1, <1>3 DEF Slot
<1> QED BY <1>1, <1>2, <1>3

LEMMA SlotFacts ==
  ASSUME NEW h \in Index
  PROVE  /\ \A n \in 0 .. TTY_BUFFLEN : Slot(h, n) \in Index
         /\ Slot(h, 0) = h
         /\ \A m, n \in 0 .. TTY_BUFFLEN - 1 : Slot(h, m) = Slot(h, n) => m = n
         /\ \A n \in 0 .. TTY_BUFFLEN - 1 : Slot(Slot(h, 1), n) = Slot(h, n + 1)
<1>1. TTY_BUFFLEN \in Nat /\ TTY_BUFFLEN > 0 /\ h \in 0 .. TTY_BUFFLEN - 1
  BY TTY_BUFFLENAssumption DEF Index
<1>2. \A n \in 0 .. TTY_BUFFLEN :
        Slot(h, n) = IF h + n < TTY_BUFFLEN THEN h + n ELSE h + n - TTY_BUFFLEN
  BY SlotValue
<1>3. \A n \in 0 .. TTY_BUFFLEN : Slot(h, n) \in Index
  BY <1>1, <1>2 DEF Index
<1>4. Slot(h, 0) = h
  BY <1>1, <1>2
<1>5. \A m, n \in 0 .. TTY_BUFFLEN - 1 : Slot(h, m) = Slot(h, n) => m = n
  BY <1>1, <1>2
<1>6. ASSUME NEW n \in 0 .. TTY_BUFFLEN - 1 PROVE Slot(Slot(h, 1), n) = Slot(h, n + 1)
  <2> DEFINE g == Slot(h, 1)
  <2>1. g \in Index /\ g = IF h + 1 < TTY_BUFFLEN THEN h + 1 ELSE h + 1 - TTY_BUFFLEN
    BY <1>1, <1>2, <1>3
  <2> HIDE DEF g
  <2>2. n \in 0 .. TTY_BUFFLEN
    BY <1>1
  <2>3. Slot(g, n) = IF g + n < TTY_BUFFLEN THEN g + n ELSE g + n - TTY_BUFFLEN
    BY <2>1, <2>2, SlotValue
  <2>4. n + 1 \in 0 .. TTY_BUFFLEN
    BY <1>1
  <2>5. Slot(h, n + 1) = IF h + n + 1 < TTY_BUFFLEN THEN h + n + 1
                         ELSE h + n + 1 - TTY_BUFFLEN
    BY <1>1, <1>2, <2>4
  <2>6. Slot(g, n) = Slot(h, n + 1)
    BY <1>1, <2>1, <2>3, <2>5
  <2> QED BY <2>6 DEF g
<1> QED BY <1>3, <1>4, <1>5, <1>6

-----------------------------------------------------------------------------
(***************************************************************************)
(* The counts: what a call has loaded is never behind the count itself.    *)
(* Interrupts may only raise tty_in_count, and only lower tty_out_count.   *)
(***************************************************************************)
Counts ==
  /\ pc = "getc load" => tty_in_count >= 1
  /\ pc = "getc store" => count >= 1 /\ count <= tty_in_count
  /\ pc = "putc head" => count \in Index
  /\ pc \in {"putc head", "putc count", "putc load"} => tty_out_count < TTY_BUFFLEN
  /\ pc = "putc store" => count < TTY_BUFFLEN

\* What uart_getc has read is older than what it reads next.
Mailbox ==
  /\ readchar <= keys
  /\ \A i \in 1 .. Len(read) : read[i] <= keys
  /\ readchar # NUL => \A i \in 1 .. Len(read) : read[i] < readchar
  /\ gpc = "clear" => gch <= keys /\ \A i \in 1 .. Len(read) : read[i] < gch

LEMMA Types ==
  ASSUME TypeOK
  PROVE  /\ TTY_BUFFLEN \in Nat /\ TTY_BUFFLEN > 0
         /\ tty_in_count \in Nat /\ tty_in_count <= TTY_BUFFLEN
         /\ tty_out_count \in Nat /\ tty_out_count <= TTY_BUFFLEN
         /\ count \in Nat /\ count <= TTY_BUFFLEN
         /\ tty_in_head \in Index /\ tty_out_head \in Index
         /\ readchar \in Nat /\ keys \in Nat /\ gch \in Nat /\ ch \in Nat /\ puts \in Nat
         /\ Len(accepted) \in Nat /\ Len(delivered) \in Nat
         /\ Len(read) \in Nat /\ Len(sent) \in Nat
<1>1. TTY_BUFFLEN \in Nat /\ TTY_BUFFLEN > 0
  BY TTY_BUFFLENAssumption
<1>2. /\ tty_in_count \in 0 .. TTY_BUFFLEN /\ tty_out_count \in 0 .. TTY_BUFFLEN
      /\ count \in 0 .. TTY_BUFFLEN
      /\ accepted \in Seq(Nat) /\ delivered \in Seq(Nat)
      /\ read \in Seq(Nat) /\ sent \in Seq(Nat)
  BY DEF TypeOK
<1>3. /\ tty_in_head \in Index /\ tty_out_head \in Index /\ readchar \in Nat
      /\ keys \in Nat /\ gch \in Nat /\ ch \in Nat /\ puts \in Nat
  BY DEF TypeOK
<1>4. /\ Len(accepted) \in Nat /\ Len(delivered) \in Nat
      /\ Len(read) \in Nat /\ Len(sent) \in Nat
  BY <1>2, LenProperties
<1> QED BY <1>1, <1>2, <1>3, <1>4

LEMMA TypesNext ==
  ASSUME TypeOK, Counts, [Next]_vars
  PROVE  TypeOK'
<1> USE Types
<1>1. CASE UNCHANGED vars
  BY <1>1 DEF vars, input, output, caller, reader, history, TypeOK
<1>2. CASE GetcCall
  BY <1>2 DEF GetcCall, input, output, reader, history, TypeOK
<1>3. CASE GetcTake
  <2>1. tty_in[tty_in_head] \in Nat
    BY DEF TypeOK
  <2>2. Slot(tty_in_head, 1) \in Index
    BY SlotFacts
  <2> QED BY <1>3, <2>1, <2>2 DEF GetcTake, output, reader, history, TypeOK
<1>4. CASE GetcLoad
  BY <1>4 DEF GetcLoad, input, output, reader, history, TypeOK
<1>5. CASE GetcStore
  <2>1. count >= 1
    BY <1>5 DEF GetcStore, Counts
  <2>2. count - 1 \in 0 .. TTY_BUFFLEN
    BY <2>1
  <2>3. Append(delivered, ch) \in Seq(Nat)
    BY AppendProperties DEF TypeOK
  <2> QED BY <1>5, <2>2, <2>3 DEF GetcStore, OneFewer, output, reader, TypeOK
<1>6. CASE PutcCall
  BY <1>6 DEF PutcCall, input, output, reader, TypeOK
<1>7. CASE PutcFirst
  <2>1. tty_out_head \in 0 .. TTY_BUFFLEN /\ tty_out_count \in 0 .. TTY_BUFFLEN
    BY DEF Index
  <2> QED BY <1>7, <2>1 DEF PutcFirst, input, output, reader, history, TypeOK
<1>8. CASE PutcPlace
  <2>1. ASSUME pc = "putc head" PROVE Slot(count, tty_out_count) \in Index
    <3>1. count \in Index /\ tty_out_count \in 0 .. TTY_BUFFLEN
      BY <2>1 DEF Counts, TypeOK
    <3> QED BY <3>1, SlotFacts
  <2>2. Slot(tty_out_head, count) \in Index
    BY SlotFacts
  <2> QED BY <1>8, <2>1, <2>2 DEF PutcPlace, input, reader, history, TypeOK
<1>9. CASE PutcLoad
  BY <1>9 DEF PutcLoad, input, output, reader, history, TypeOK
<1>10. CASE PutcStore
  <2>1. count < TTY_BUFFLEN
    BY <1>10 DEF PutcStore, Counts
  <2>2. count + 1 \in 0 .. TTY_BUFFLEN
    BY <2>1
  <2> QED BY <1>10, <2>2 DEF PutcStore, input, reader, history, TypeOK
<1>11. CASE ReadCall \/ ReadTake
  BY <1>11 DEF ReadCall, ReadTake, input, output, caller, history, TypeOK
<1>12. CASE ReadClear
  <2>1. Append(read, gch) \in Seq(Nat)
    BY AppendProperties DEF TypeOK
  <2> QED BY <1>12, <2>1 DEF ReadClear, Cleared, NUL, input, output, caller, TypeOK
<1>13. CASE Receive
  <2>1. Slot(tty_in_head, tty_in_count) \in Index
    BY SlotFacts
  <2>2. keys + 1 \in Nat /\ (tty_in_count < TTY_BUFFLEN => tty_in_count + 1 \in 0 .. TTY_BUFFLEN)
    OBVIOUS
  <2>3. Append(accepted, keys + 1) \in Seq(Nat)
    BY <2>2, AppendProperties DEF TypeOK
  <2>4. tty_in' \in [Index -> Nat] /\ accepted' \in Seq(Nat)
    BY <1>13, <2>1, <2>2, <2>3 DEF Receive, TypeOK
  <2>5. tty_in_count' \in 0 .. TTY_BUFFLEN
    <3>1. tty_in_count' = tty_in_count \/ (HasRoom(tty_in_count) /\ tty_in_count' = tty_in_count + 1)
      BY <1>13 DEF Receive
    <3> QED BY <2>2, <3>1 DEF HasRoom
  <2>6. inRaced' \in BOOLEAN /\ keys' \in Nat /\ readchar' \in Nat /\ tx' \in BOOLEAN
    BY <1>13, <2>2 DEF Receive, TypeOK
  <2> QED BY <1>13, <2>4, <2>5, <2>6 DEF Receive, output, caller, reader, TypeOK
<1>14. CASE Transmit
  <2>1. Slot(tty_out_head, 1) \in Index
    BY SlotFacts
  <2>2. tty_out_count > 0 => tty_out_count - 1 \in 0 .. TTY_BUFFLEN
    OBVIOUS
  <2>3. Append(sent, tty_out[tty_out_head]) \in Seq(Nat)
    BY AppendProperties DEF TypeOK
  <2>4. tty_out_head' \in Index /\ tty_out_count' \in 0 .. TTY_BUFFLEN
        /\ sent' \in Seq(Nat) /\ outRaced' \in BOOLEAN
    BY <1>14, <2>1, <2>2, <2>3 DEF Transmit, TypeOK
  <2> QED BY <1>14, <2>4 DEF Transmit, input, caller, reader, TypeOK
<1> QED BY <1>1, <1>2, <1>3, <1>4, <1>5, <1>6, <1>7, <1>8, <1>9, <1>10, <1>11, <1>12, <1>13,
           <1>14 DEF Next, Getc, Putc, Reads

LEMMA CountTypesNext ==
  ASSUME TypeOK, Counts, [Next]_vars
  PROVE  /\ tty_in_count' \in Nat /\ tty_out_count' \in Nat /\ count' \in Nat
         /\ tty_in_count' <= TTY_BUFFLEN /\ tty_out_count' <= TTY_BUFFLEN
         /\ count' <= TTY_BUFFLEN
<1>1. /\ tty_in_count' \in 0 .. TTY_BUFFLEN /\ tty_out_count' \in 0 .. TTY_BUFFLEN
      /\ count' \in 0 .. TTY_BUFFLEN
  BY TypesNext DEF TypeOK
<1> QED BY <1>1, TTY_BUFFLENAssumption

LEMMA CountsNext ==
  ASSUME TypeOK, Counts, [Next]_vars
  PROVE  Counts'
<1>0. /\ tty_in_count \in Nat /\ tty_out_count \in Nat /\ count \in Nat
      /\ tty_in_count' \in Nat /\ tty_out_count' \in Nat /\ count' \in Nat
      /\ tty_out_count <= TTY_BUFFLEN /\ TTY_BUFFLEN \in Nat
  BY Types, CountTypesNext
<1>1. CASE UNCHANGED vars
  BY <1>1 DEF vars, input, output, caller, Counts
<1>2. CASE GetcTake
  <2>1. tty_in_count # 0 /\ tty_in_count' = tty_in_count /\ pc' = "getc load"
    BY <1>2 DEF GetcTake
  <2>2. tty_in_count' >= 1
    <3>1. tty_in_count # 0 /\ tty_in_count' = tty_in_count
      BY <2>1
    <3> QED BY <1>0, <3>1
  <2> QED BY <2>1, <2>2 DEF Counts
<1>3. CASE GetcLoad
  <2>1. /\ pc = "getc load" /\ pc' = "getc store" /\ count' = tty_in_count
        /\ tty_in_count' = tty_in_count /\ tty_in_count >= 1
    BY <1>3 DEF GetcLoad, input, Counts
  <2>2. count' <= tty_in_count'
    <3>1. count' = tty_in_count /\ tty_in_count' = tty_in_count
      BY <2>1
    <3> QED BY <1>0, <3>1
  <2> QED BY <2>1, <2>2 DEF Counts
<1>4. CASE PutcFirst
  <2>1. /\ tty_out_count # TTY_BUFFLEN /\ tty_out_count' = tty_out_count
        /\ pc' = "putc head" => count' = tty_out_head
        /\ pc' \in {"putc head", "putc count"}
    BY <1>4 DEF PutcFirst, output
  <2>2. tty_out_count' < TTY_BUFFLEN
    <3>1. tty_out_count # TTY_BUFFLEN /\ tty_out_count' = tty_out_count
      BY <2>1
    <3> QED BY <1>0, <3>1
  <2>3. tty_out_head \in Index
    BY Types
  <2> QED BY <2>1, <2>2, <2>3 DEF Counts
<1>5. CASE PutcPlace
  BY <1>5 DEF PutcPlace, Counts
<1>6. CASE PutcLoad
  BY <1>6 DEF PutcLoad, Counts
<1>7. CASE ReadCall \/ Reads
  BY <1>7 DEF ReadCall, Reads, ReadTake, ReadClear, input, output, caller, Counts
<1>8. CASE Receive
  <2>1. tty_in_count' = tty_in_count + 1 \/ tty_in_count' = tty_in_count
    BY <1>8 DEF Receive
  <2>2. /\ tty_in_count >= 1 => tty_in_count' >= 1
        /\ count <= tty_in_count => count <= tty_in_count'
    BY <1>0, <2>1
  <2>3. UNCHANGED <<pc, count, tty_out_count>>
    BY <1>8 DEF Receive, output, caller
  <2> QED BY <2>2, <2>3 DEF Counts
<1>9. CASE Transmit
  <2>1. tty_out_count' = tty_out_count - 1 \/ tty_out_count' = tty_out_count
    BY <1>9 DEF Transmit
  <2>2. tty_out_count < TTY_BUFFLEN => tty_out_count' < TTY_BUFFLEN
    BY <1>0, <2>1
  <2>3. UNCHANGED <<pc, count, tty_in_count>>
    BY <1>9 DEF Transmit, input, caller
  <2> QED BY <2>2, <2>3 DEF Counts
<1>10. CASE GetcCall \/ GetcStore \/ PutcCall \/ PutcStore
  BY <1>10 DEF GetcCall, GetcStore, PutcCall, PutcStore, Counts
<1> QED BY <1>1, <1>2, <1>3, <1>4, <1>5, <1>6, <1>7, <1>8, <1>9, <1>10
        DEF Next, Getc, Putc

LEMMA NeverMoreNext ==
  ASSUME TypeOK, Counts, NeverMore, [Next]_vars
  PROVE  NeverMore'
<1>0. /\ tty_in_count \in Nat /\ count \in Nat /\ keys \in Nat
      /\ Len(accepted) \in Nat /\ Len(delivered) \in Nat
  BY Types
<1>1. CASE UNCHANGED <<tty_in_count, accepted, delivered>>
  BY <1>1 DEF NeverMore
<1>2. CASE GetcStore
  <2>1. Len(delivered') = Len(delivered) + 1 /\ accepted' = accepted
    BY <1>2, AppendProperties DEF GetcStore, TypeOK
  <2>2. tty_in_count' = count - 1 /\ count <= tty_in_count
    BY <1>2 DEF GetcStore, OneFewer, Counts
  <2> QED BY <1>0, <2>1, <2>2 DEF NeverMore
<1>3. CASE Receive /\ tty_in_count' = tty_in_count + 1 /\ accepted' = Append(accepted, keys + 1)
  <2>1. keys + 1 \in Nat
    BY <1>0
  <2>2. Len(accepted') = Len(accepted) + 1
    BY <1>3, <2>1, AppendProperties DEF TypeOK
  <2>3. delivered' = delivered
    BY <1>3 DEF Receive
  <2> QED BY <1>0, <1>3, <2>2, <2>3 DEF NeverMore
<1>4. CASE Receive /\ UNCHANGED <<tty_in_count, accepted>>
  BY <1>1, <1>4 DEF Receive
<1>5. UNCHANGED vars \/ GetcCall \/ GetcTake \/ GetcLoad =>
        UNCHANGED <<tty_in_count, accepted, delivered>>
  BY DEF vars, GetcCall, GetcTake, GetcLoad, input, history
<1>6. PutcCall \/ Putc \/ Transmit => UNCHANGED <<tty_in_count, accepted, delivered>>
  BY DEF PutcCall, Putc, PutcFirst, PutcPlace, PutcLoad, PutcStore, Transmit, input, history
<1>7. ReadCall \/ Reads => UNCHANGED <<tty_in_count, accepted, delivered>>
  BY DEF ReadCall, Reads, ReadTake, ReadClear, input, history
<1>8. CASE Receive
  BY <1>3, <1>4, <1>8 DEF Receive
<1> QED BY <1>1, <1>2, <1>5, <1>6, <1>7, <1>8 DEF Next, Getc

LEMMA MailboxNext ==
  ASSUME TypeOK, Mailbox, KeysReadOnce, [Next]_vars
  PROVE  Mailbox' /\ KeysReadOnce'
<1> USE DEF NUL
<1>0. /\ readchar \in Nat /\ keys \in Nat /\ gch \in Nat /\ Len(read) \in Nat
      /\ read \in Seq(Nat) /\ \A i \in 1 .. Len(read) : read[i] \in Nat
  BY Types, ElementOfSeq DEF TypeOK
<1>1. CASE UNCHANGED <<readchar, keys, read, gpc, gch>>
  BY <1>1 DEF Mailbox, KeysReadOnce
<1>2. UNCHANGED vars \/ GetcCall \/ Getc =>
        UNCHANGED <<readchar, keys, read, gpc, gch>>
  BY DEF vars, GetcCall, Getc, GetcTake, GetcLoad, GetcStore, reader, history
<1>3. PutcCall \/ Putc \/ Transmit => UNCHANGED <<readchar, keys, read, gpc, gch>>
  BY DEF PutcCall, Putc, PutcFirst, PutcPlace, PutcLoad, PutcStore, Transmit, reader, history
<1>4. CASE ReadCall
  BY <1>0, <1>4 DEF ReadCall, history, Mailbox, KeysReadOnce
<1>5. CASE ReadTake
  <2>1. /\ readchar # NUL /\ gch' = readchar /\ gpc' = "clear"
        /\ UNCHANGED <<readchar, read, keys>>
    BY <1>5 DEF ReadTake, history
  <2> QED BY <1>0, <2>1 DEF Mailbox, KeysReadOnce
<1>6. CASE ReadClear
  <2>1. /\ Len(read') = Len(read) + 1
        /\ \A i \in 1 .. Len(read) : read'[i] = read[i]
        /\ read'[Len(read) + 1] = gch
    BY <1>6, AppendProperties DEF ReadClear, TypeOK
  <2>2. readchar' = 0 /\ gpc' = "idle" /\ keys' = keys /\ gch' = gch /\ gpc = "clear"
    BY <1>6 DEF ReadClear, Cleared
  <2>3. gch <= keys /\ \A i \in 1 .. Len(read) : read[i] < gch
    BY <2>2 DEF Mailbox
  <2>4. \A i \in 1 .. Len(read') : read'[i] <= keys'
    BY <1>0, <2>1, <2>2, <2>3
  <2>5. KeysReadOnce'
    <3> SUFFICES ASSUME NEW i \in 1 .. Len(read'), NEW j \in 1 .. Len(read'), i < j
                 PROVE  read'[i] < read'[j]
      BY DEF KeysReadOnce
    <3>1. i \in 1 .. Len(read)
      BY <1>0, <2>1
    <3>2. CASE j = Len(read) + 1
      BY <1>0, <2>1, <2>3, <3>1, <3>2
    <3>3. CASE j # Len(read) + 1
      <4>1. j \in 1 .. Len(read)
        BY <1>0, <2>1, <3>3
      <4> QED BY <2>1, <3>1, <4>1 DEF KeysReadOnce
    <3> QED BY <3>2, <3>3
  <2> QED BY <1>0, <2>2, <2>4, <2>5 DEF Mailbox
<1>7. CASE Receive
  <2>1. readchar' = keys + 1 /\ keys' = keys + 1 /\ UNCHANGED <<read, gpc, gch>>
    BY <1>7 DEF Receive, reader
  <2>2. \A i \in 1 .. Len(read) : read[i] < keys + 1
    BY <1>0 DEF Mailbox
  <2>3. Mailbox'
    BY <1>0, <2>1, <2>2 DEF Mailbox
  <2> QED BY <2>1, <2>3 DEF KeysReadOnce
<1> QED BY <1>1, <1>2, <1>3, <1>4, <1>5, <1>6, <1>7 DEF Next, Reads

-----------------------------------------------------------------------------
(***************************************************************************)
(* What a ring holds                                                       *)
(***************************************************************************)

LEMMA ConcatAppend ==
  ASSUME NEW S, NEW s \in Seq(S), NEW t \in Seq(S), NEW x \in S
  PROVE  s \o Append(t, x) = Append(s \o t, x)
<1> DEFINE one == <<x>>
<1>1. one \in Seq(S) /\ s \o t \in Seq(S)
  BY ConcatProperties
<1>2. Append(t, x) = t \o one /\ Append(s \o t, x) = (s \o t) \o one
  BY <1>1, AppendIsConcat
<1> HIDE DEF one
<1>3. (s \o t) \o one = s \o (t \o one)
  BY <1>1, ConcatAssociative
<1> QED BY <1>2, <1>3

LEMMA HeldElements ==
  ASSUME NEW ring \in [Index -> Nat], NEW h \in Index, NEW n \in 0 .. TTY_BUFFLEN
  PROVE  /\ Held(ring, h, n) \in Seq(Nat)
         /\ Len(Held(ring, h, n)) = n
         /\ \A i \in 1 .. n : Held(ring, h, n)[i] = ring[Slot(h, i - 1)]
<1>1. n \in Nat /\ TTY_BUFFLEN \in Nat
  BY TTY_BUFFLENAssumption
<1>2. \A i \in 1 .. n : ring[Slot(h, i - 1)] \in Nat
  <2> TAKE i \in 1 .. n
  <2>1. i - 1 \in 0 .. TTY_BUFFLEN
    BY <1>1
  <2> QED BY <2>1, SlotFacts
<1>3. Held(ring, h, n) \in [1 .. n -> Nat]
  BY <1>2 DEF Held
<1> QED BY <1>1, <1>3 DEF Held

\* A character placed behind the last is held as the last.
LEMMA HeldAdd ==
  ASSUME NEW ring \in [Index -> Nat], NEW h \in Index, NEW n \in 0 .. TTY_BUFFLEN - 1,
         NEW x \in Nat
  PROVE  Held([ring EXCEPT ![Slot(h, n)] = x], h, n + 1) = Append(Held(ring, h, n), x)
<1> DEFINE new  == [ring EXCEPT ![Slot(h, n)] = x]
           old  == Held(ring, h, n)
           held == Held(new, h, n + 1)
<1>1. /\ TTY_BUFFLEN \in Nat /\ n \in Nat /\ n \in 0 .. TTY_BUFFLEN
      /\ n + 1 \in 0 .. TTY_BUFFLEN
  BY TTY_BUFFLENAssumption
<1>2. new \in [Index -> Nat]
  OBVIOUS
<1>3. /\ old \in Seq(Nat) /\ Len(old) = n
      /\ \A i \in 1 .. n : old[i] = ring[Slot(h, i - 1)]
  BY <1>1, HeldElements
<1>4. \A i \in 1 .. n + 1 : i - 1 \in 0 .. TTY_BUFFLEN - 1 /\ Slot(h, i - 1) \in Index
  <2> TAKE i \in 1 .. n + 1
  <2>1. i - 1 \in 0 .. TTY_BUFFLEN - 1 /\ i - 1 \in 0 .. TTY_BUFFLEN
    BY <1>1
  <2> QED BY <2>1, SlotFacts
<1>5. Slot(h, n) \in Index
  BY <1>1, SlotFacts
<1>6. new[Slot(h, n)] = x
  BY <1>5
<1>7. \A i \in 1 .. n : new[Slot(h, i - 1)] = ring[Slot(h, i - 1)]
  <2> TAKE i \in 1 .. n
  <2>1. i \in 1 .. n + 1 /\ i - 1 # n
    BY <1>1
  <2>2. Slot(h, i - 1) # Slot(h, n)
    BY <1>4, <2>1, SlotFacts
  <2> QED BY <1>4, <2>1, <2>2
<1> HIDE DEF new
<1>8. /\ held \in Seq(Nat) /\ Len(held) = n + 1
      /\ \A i \in 1 .. n + 1 : held[i] = new[Slot(h, i - 1)]
  BY <1>1, <1>2, HeldElements
<1> HIDE DEF old, held
<1>9. /\ Append(old, x) \in Seq(Nat) /\ Len(Append(old, x)) = n + 1
      /\ \A i \in 1 .. n : Append(old, x)[i] = old[i]
      /\ Append(old, x)[n + 1] = x
  BY <1>3, AppendProperties
<1>10. \A i \in 1 .. n + 1 : held[i] = Append(old, x)[i]
  <2> TAKE i \in 1 .. n + 1
  <2>1. CASE i = n + 1
    <3>1. i - 1 = n
      BY <1>1, <2>1
    <3>2. held[i] = new[Slot(h, n)]
      BY <1>8, <3>1
    <3> QED BY <1>6, <1>9, <2>1, <3>2
  <2>2. CASE i # n + 1
    <3>1. i \in 1 .. n
      BY <1>1, <2>2
    <3> QED BY <1>3, <1>7, <1>8, <1>9, <3>1
  <2> QED BY <2>1, <2>2
<1>11. held = Append(old, x)
  BY <1>8, <1>9, <1>10, SeqEqual
<1> QED BY <1>11 DEF held, old, new

\* The character at the head is held as the first.
LEMMA HeldTake ==
  ASSUME NEW ring \in [Index -> Nat], NEW h \in Index, NEW n \in 1 .. TTY_BUFFLEN
  PROVE  Held(ring, h, n) = <<ring[h]>> \o Held(ring, Slot(h, 1), n - 1)
<1> DEFINE held == Held(ring, h, n)
           rest == Held(ring, Slot(h, 1), n - 1)
           one  == <<ring[h]>>
<1>1. /\ TTY_BUFFLEN \in Nat /\ n \in Nat /\ n \in 0 .. TTY_BUFFLEN /\ n >= 1
      /\ n - 1 \in 0 .. TTY_BUFFLEN /\ 1 \in 0 .. TTY_BUFFLEN
  BY TTY_BUFFLENAssumption
<1>2. Slot(h, 1) \in Index /\ Slot(h, 0) = h
  BY <1>1, SlotFacts
<1>3. /\ held \in Seq(Nat) /\ Len(held) = n
      /\ \A i \in 1 .. n : held[i] = ring[Slot(h, i - 1)]
  BY <1>1, HeldElements
<1>4. /\ rest \in Seq(Nat) /\ Len(rest) = n - 1
      /\ \A i \in 1 .. n - 1 : rest[i] = ring[Slot(Slot(h, 1), i - 1)]
  BY <1>1, <1>2, HeldElements
<1>5. one \in Seq(Nat) /\ Len(one) = 1 /\ one[1] = ring[h]
  OBVIOUS
<1> HIDE DEF held, rest, one
<1>6. /\ one \o rest \in Seq(Nat) /\ Len(one \o rest) = Len(one) + Len(rest)
      /\ \A i \in 1 .. Len(one) + Len(rest) :
           (one \o rest)[i] = IF i <= Len(one) THEN one[i] ELSE rest[i - Len(one)]
  BY <1>4, <1>5, ConcatProperties
<1>7. Len(one \o rest) = n /\ \A i \in 1 .. n :
        (one \o rest)[i] = IF i <= 1 THEN one[i] ELSE rest[i - 1]
  BY <1>1, <1>4, <1>5, <1>6
<1>8. \A i \in 1 .. n : held[i] = (one \o rest)[i]
  <2> TAKE i \in 1 .. n
  <2>1. CASE i = 1
    <3>1. held[1] = ring[Slot(h, 0)]
      BY <1>1, <1>3
    <3>2. (one \o rest)[1] = ring[h]
      BY <1>1, <1>5, <1>7
    <3> QED BY <1>2, <2>1, <3>1, <3>2
  <2>2. CASE i # 1
    <3>1. i - 1 \in 1 .. n - 1 /\ i - 2 \in 0 .. TTY_BUFFLEN - 1 /\ i - 2 = (i - 1) - 1
          /\ i - 1 = (i - 2) + 1 /\ ~(i <= 1)
      BY <1>1, <2>2
    <3>2. (one \o rest)[i] = rest[i - 1]
      BY <1>7, <3>1
    <3>3. rest[i - 1] = ring[Slot(Slot(h, 1), i - 2)]
      BY <1>4, <3>1
    <3>4. Slot(Slot(h, 1), i - 2) = Slot(h, i - 1)
      BY <3>1, SlotFacts
    <3> QED BY <1>3, <3>2, <3>3, <3>4
  <2> QED BY <2>1, <2>2
<1>9. held = one \o rest
  BY <1>3, <1>6, <1>7, <1>8, SeqEqual
<1> QED BY <1>9 DEF held, rest, one

-----------------------------------------------------------------------------
(***************************************************************************)
(* What came in                                                            *)
(***************************************************************************)

\* Unless an interrupt fell into a window, what tty_getc or tty_putc has loaded is
\* still what is there.
CountHeld ==
  /\ pc = "getc store" /\ ~inRaced => count = tty_in_count
  /\ pc \in {"putc count", "putc store"} /\ ~outRaced => count = tty_out_count
  /\ pc = "putc head" /\ ~outRaced => count = tty_out_head

\* What tty_getc has taken out of the ring, delivered or not.
Taken == delivered \o (IF InFlight THEN <<ch>> ELSE <<>>)

LEMMA BufferedType ==
  ASSUME TypeOK, Counts
  PROVE  Buffered \in 0 .. TTY_BUFFLEN /\ (~InFlight => Buffered = tty_in_count)
<1>1. tty_in_count \in Nat /\ tty_in_count <= TTY_BUFFLEN /\ TTY_BUFFLEN \in Nat /\ count \in Nat
  BY Types
<1>2. CASE InFlight
  <2>1. tty_in_count >= 1
    <3>1. CASE pc = "getc load"
      BY <3>1 DEF Counts
    <3>2. CASE pc = "getc store"
      <4>1. count >= 1 /\ count <= tty_in_count
        BY <3>2 DEF Counts
      <4> QED BY <1>1, <4>1
    <3> QED BY <1>2, <3>1, <3>2 DEF InFlight
  <2>2. Buffered = tty_in_count - 1
    BY <1>2 DEF Buffered
  <2>3. tty_in_count - 1 \in 0 .. TTY_BUFFLEN
    BY <1>1, <2>1
  <2> QED BY <1>2, <2>2, <2>3
<1>3. CASE ~InFlight
  <2>1. Buffered = tty_in_count - 0
    BY <1>3 DEF Buffered
  <2> QED BY <1>1, <2>1
<1> QED BY <1>2, <1>3

LEMMA KeysKeptGetc ==
  ASSUME TypeOK, Counts, CountHeld, KeysKept, Getc
  PROVE  KeysKept'
<1>0. /\ tty_in_count \in Nat /\ tty_in_count <= TTY_BUFFLEN /\ TTY_BUFFLEN \in Nat
      /\ delivered \in Seq(Nat) /\ ch \in Nat /\ tty_in_head \in Index
      /\ tty_in \in [Index -> Nat] /\ delivered \o <<>> = delivered
  BY Types, ConcatEmptySeq DEF TypeOK
<1> SUFFICES ASSUME ~inRaced'
             PROVE  Taken' \o Held(tty_in', tty_in_head', Buffered') = accepted'
  BY DEF KeysKept, Taken
<1>1. ~inRaced /\ UNCHANGED <<accepted, tty_in>>
  <2>1. CASE GetcTake
    BY <2>1 DEF GetcTake, history
  <2>2. CASE GetcLoad
    BY <2>2 DEF GetcLoad, input, history
  <2>3. CASE GetcStore
    BY <2>3 DEF GetcStore
  <2> QED BY <2>1, <2>2, <2>3 DEF Getc
<1>2. Taken \o Held(tty_in, tty_in_head, Buffered) = accepted
  BY <1>1 DEF KeysKept, Taken
<1>3. CASE GetcTake
  <2>1. /\ pc = "getc" /\ pc' = "getc load" /\ ch' = tty_in[tty_in_head]
        /\ tty_in_head' = Slot(tty_in_head, 1) /\ tty_in_count # 0
        /\ tty_in_count' = tty_in_count /\ delivered' = delivered
    BY <1>3 DEF GetcTake, history
  <2>2. ~InFlight /\ InFlight' /\ Buffered = tty_in_count
    BY <2>1, BufferedType DEF InFlight
  <2>3. Taken = delivered /\ Taken' = delivered \o <<tty_in[tty_in_head]>>
    BY <1>0, <2>1, <2>2 DEF Taken
  <2>4. Buffered' = tty_in_count - 1
    BY <2>1, <2>2 DEF Buffered
  <2>5. tty_in_count \in 1 .. TTY_BUFFLEN
    <3>1. tty_in_count # 0
      BY <2>1
    <3> QED BY <1>0, <3>1
  <2>6. Held(tty_in, tty_in_head, tty_in_count)
          = <<tty_in[tty_in_head]>> \o Held(tty_in, Slot(tty_in_head, 1), tty_in_count - 1)
    BY <1>0, <2>5, HeldTake
  <2> DEFINE x == <<tty_in[tty_in_head]>>
             r == Held(tty_in, Slot(tty_in_head, 1), tty_in_count - 1)
  <2>7. x \in Seq(Nat)
    BY <1>0
  <2>8. r \in Seq(Nat)
    <3>1. tty_in_count - 1 \in 0 .. TTY_BUFFLEN /\ 1 \in 0 .. TTY_BUFFLEN
      BY <1>0, <2>5
    <3> QED BY <1>0, <3>1, HeldElements, SlotFacts
  <2>9. delivered \o (x \o r) = accepted
    BY <1>2, <2>2, <2>3, <2>6
  <2>10. Taken' = delivered \o x /\ Held(tty_in', tty_in_head', Buffered') = r
    BY <1>1, <2>1, <2>3, <2>4
  <2> HIDE DEF x, r
  <2>11. (delivered \o x) \o r = delivered \o (x \o r)
    <3>1. delivered \in Seq(Nat)
      BY <1>0
    <3> QED BY <2>7, <2>8, <3>1, ConcatAssociative
  <2> QED BY <1>1, <2>9, <2>10, <2>11
<1>4. CASE GetcLoad
  <2>1. UNCHANGED <<tty_in_count, tty_in_head, ch, delivered>>
        /\ pc = "getc load" /\ pc' = "getc store"
    BY <1>4 DEF GetcLoad, input, history
  <2>2. UNCHANGED <<Taken, Buffered>>
    BY <2>1 DEF Taken, Buffered, InFlight
  <2> QED BY <1>1, <1>2, <2>1, <2>2
<1>5. CASE GetcStore
  <2>1. /\ pc = "getc store" /\ pc' = "idle" /\ tty_in_count' = count - 1
        /\ delivered' = Append(delivered, ch) /\ tty_in_head' = tty_in_head
    BY <1>5 DEF GetcStore, OneFewer
  <2>2. count = tty_in_count
    BY <1>1, <2>1 DEF CountHeld
  <2>3. InFlight /\ ~InFlight'
    BY <2>1 DEF InFlight
  <2>4. Buffered' = Buffered
    <3>1. Buffered = tty_in_count - 1 /\ Buffered' = (tty_in_count - 1) - 0
      BY <2>1, <2>2, <2>3 DEF Buffered
    <3> QED BY <1>0, <3>1
  <2>5. Taken' = Taken
    <3>1. Taken = delivered \o <<ch>> /\ Taken' = Append(delivered, ch) \o <<>>
      BY <2>1, <2>3 DEF Taken
    <3>2. Append(delivered, ch) = delivered \o <<ch>> /\ Append(delivered, ch) \in Seq(Nat)
      BY <1>0, AppendIsConcat, AppendProperties
    <3> QED BY <3>1, <3>2, ConcatEmptySeq
  <2> QED BY <1>1, <1>2, <2>1, <2>4, <2>5
<1> QED BY <1>3, <1>4, <1>5 DEF Getc

LEMMA KeysKeptReceive ==
  ASSUME TypeOK, Counts, KeysKept, Receive
  PROVE  KeysKept'
<1>0. /\ tty_in_count \in Nat /\ tty_in_count <= TTY_BUFFLEN /\ TTY_BUFFLEN \in Nat
      /\ delivered \in Seq(Nat) /\ tty_in_head \in Index /\ keys + 1 \in Nat
      /\ tty_in \in [Index -> Nat] /\ delivered \o <<>> = delivered
  <2>1. keys \in Nat
    BY Types
  <2>2. keys + 1 \in Nat
    BY <2>1
  <2>3. delivered \in Seq(Nat) /\ tty_in \in [Index -> Nat]
    BY DEF TypeOK
  <2>4. delivered \o <<>> = delivered
    BY <2>3, ConcatEmptySeq
  <2> QED BY <2>2, <2>3, <2>4, Types
<1> SUFFICES ASSUME ~inRaced'
             PROVE  Taken' \o Held(tty_in', tty_in_head', Buffered') = accepted'
  BY DEF KeysKept, Taken
<1>1. UNCHANGED <<pc, ch, count, tty_in_head, delivered>>
  BY DEF Receive, caller
<1>2. InFlight' = InFlight /\ Taken' = Taken
  BY <1>1 DEF Taken, InFlight
<1>3. CASE HasRoom(tty_in_count) /\ tty_in_count' = tty_in_count + 1
  <2>1. /\ tty_in' = [tty_in EXCEPT ![Slot(tty_in_head, tty_in_count)] = keys + 1]
        /\ accepted' = Append(accepted, keys + 1)
        /\ inRaced' = (inRaced \/ pc \in {"getc load", "getc store"})
    <3>1. tty_in_count' # tty_in_count
      <4>1. tty_in_count + 1 # tty_in_count
        BY <1>0
      <4> QED BY <1>3, <4>1
    <3> QED BY <1>3, <3>1 DEF Receive
  <2>2. ~inRaced /\ ~InFlight
    BY <2>1 DEF InFlight
  <2>3. Buffered = tty_in_count /\ Buffered' = tty_in_count + 1
    <3>1. Buffered = tty_in_count - 0 /\ Buffered' = (tty_in_count + 1) - 0
      BY <1>2, <1>3, <2>2 DEF Buffered
    <3> QED BY <1>0, <3>1
  <2>4. tty_in_count \in 0 .. TTY_BUFFLEN - 1 /\ tty_in_count \in 0 .. TTY_BUFFLEN
    <3>1. tty_in_count < TTY_BUFFLEN
      BY <1>3 DEF HasRoom
    <3> QED BY <1>0, <3>1
  <2> DEFINE old == Held(tty_in, tty_in_head, tty_in_count)
  <2>5. Held(tty_in', tty_in_head', Buffered') = Append(old, keys + 1)
    BY <1>0, <1>1, <2>1, <2>3, <2>4, HeldAdd
  <2>6. delivered \o old = accepted /\ Taken' = delivered
    BY <1>0, <1>2, <2>2, <2>3 DEF KeysKept, Taken
  <2>7. old \in Seq(Nat)
    BY <1>0, <2>4, HeldElements
  <2> HIDE DEF old
  <2> DEFINE k == keys + 1
  <2>8. k \in Nat /\ Held(tty_in', tty_in_head', Buffered') = Append(old, k)
        /\ accepted' = Append(accepted, k)
    BY <1>0, <2>1, <2>5
  <2> HIDE DEF k
  <2>9. delivered \o Append(old, k) = Append(delivered \o old, k)
    BY <1>0, <2>7, <2>8, ConcatAppend
  <2> QED BY <2>6, <2>8, <2>9
<1>4. CASE UNCHANGED <<tty_in, tty_in_count, accepted, inRaced>>
  <2>1. Buffered' = Buffered
    BY <1>2, <1>4 DEF Buffered
  <2> QED BY <1>1, <1>2, <1>4, <2>1 DEF KeysKept, Taken
<1> QED BY <1>3, <1>4 DEF Receive

LEMMA KeysKeptNext ==
  ASSUME TypeOK, Counts, CountHeld, KeysKept, [Next]_vars
  PROVE  KeysKept'
<1>1. ASSUME UNCHANGED <<tty_in, tty_in_head, tty_in_count, accepted, delivered, inRaced>>,
             InFlight' <=> InFlight, InFlight => ch' = ch
      PROVE  KeysKept'
  <2>1. Buffered' = Buffered
    BY <1>1 DEF Buffered
  <2>2. Taken' = Taken
    BY <1>1 DEF Taken
  <2> QED BY <1>1, <2>1, <2>2 DEF KeysKept, Taken
<1>2. CASE UNCHANGED vars
  BY <1>1, <1>2 DEF vars, input, caller, history, InFlight
<1>3. CASE GetcCall \/ PutcCall \/ Putc
  <2>1. UNCHANGED <<tty_in, tty_in_head, tty_in_count, accepted, delivered, inRaced>>
    BY <1>3 DEF GetcCall, PutcCall, Putc, PutcFirst, PutcPlace, PutcLoad, PutcStore, input, history
  <2>2. ~InFlight /\ ~InFlight'
    BY <1>3 DEF GetcCall, PutcCall, Putc, PutcFirst, PutcPlace, PutcLoad, PutcStore, InFlight
  <2> QED BY <1>1, <2>1, <2>2
<1>4. CASE ReadCall \/ Reads \/ Transmit
  BY <1>1, <1>4 DEF ReadCall, Reads, ReadTake, ReadClear, Transmit, input, caller, history,
                    InFlight
<1> QED BY <1>2, <1>3, <1>4, KeysKeptGetc, KeysKeptReceive DEF Next

LEMMA CountHeldNext ==
  ASSUME TypeOK, CountHeld, [Next]_vars
  PROVE  CountHeld'
<1>1. CASE UNCHANGED vars
  BY <1>1 DEF vars, input, output, caller, history, CountHeld
<1>2. CASE GetcCall \/ Getc
  BY <1>2 DEF GetcCall, Getc, GetcTake, GetcLoad, GetcStore, input, history, CountHeld
<1>3. CASE PutcCall \/ Putc
  BY <1>3 DEF PutcCall, Putc, PutcFirst, PutcPlace, PutcLoad, PutcStore, output, history,
              CountHeld
<1>4. CASE ReadCall \/ Reads
  BY <1>4 DEF ReadCall, Reads, ReadTake, ReadClear, input, output, caller, history,
              CountHeld
<1>5. CASE Receive
  <2>1. UNCHANGED <<pc, count, tty_out_head, tty_out_count, outRaced>>
    BY <1>5 DEF Receive, output, caller
  <2>2. \/ inRaced' = (inRaced \/ pc \in {"getc load", "getc store"})
        \/ UNCHANGED <<tty_in_count, inRaced>>
    BY <1>5 DEF Receive
  <2> QED BY <2>1, <2>2 DEF CountHeld
<1>6. CASE Transmit
  <2>1. UNCHANGED <<pc, count, tty_in_count, inRaced>>
    BY <1>6 DEF Transmit, input, caller
  <2>2. \/ outRaced' = (outRaced \/ pc \in {"putc head", "putc count", "putc store"})
        \/ UNCHANGED <<tty_out_head, tty_out_count, outRaced>>
    BY <1>6 DEF Transmit
  <2> QED BY <2>1, <2>2 DEF CountHeld
<1> QED BY <1>1, <1>2, <1>3, <1>4, <1>5, <1>6 DEF Next

-----------------------------------------------------------------------------
(***************************************************************************)
(* What goes out                                                           *)
(***************************************************************************)

\* The characters written, 1 to n.
Puts(n) == [i \in 1 .. n |-> i]

\* A tty_putc that has not placed its character yet has the last one put.
PutHeld == pc \in {"putc", "putc head", "putc count"} => puts >= 1 /\ ch = puts

LEMMA PutsAppend ==
  ASSUME NEW n \in Nat
  PROVE  Puts(n) \in Seq(Nat) /\ Puts(n + 1) = Append(Puts(n), n + 1)
<1>1. /\ Puts(n) \in Seq(Nat) /\ Len(Puts(n)) = n
      /\ \A i \in 1 .. n : Puts(n)[i] = i
  BY DEF Puts
<1>2. /\ Puts(n + 1) \in Seq(Nat) /\ Len(Puts(n + 1)) = n + 1
      /\ \A i \in 1 .. n + 1 : Puts(n + 1)[i] = i
  BY DEF Puts
<1> DEFINE a == Append(Puts(n), n + 1)
<1>3. /\ a \in Seq(Nat) /\ Len(a) = n + 1 /\ a[n + 1] = n + 1
      /\ \A i \in 1 .. n : a[i] = i
  BY <1>1, AppendProperties
<1> HIDE DEF a
<1>4. \A i \in 1 .. n + 1 : Puts(n + 1)[i] = a[i]
  BY <1>2, <1>3
<1>5. Puts(n + 1) = a
  BY <1>2, <1>3, <1>4, SeqEqual
<1> QED BY <1>1, <1>5 DEF a

LEMMA PutHeldNext ==
  ASSUME TypeOK, PutHeld, [Next]_vars
  PROVE  PutHeld'
<1>1. CASE UNCHANGED vars \/ ReadCall \/ Reads \/ Receive \/ Transmit
  BY <1>1 DEF vars, ReadCall, Reads, ReadTake, ReadClear, Receive, Transmit, caller, history,
              PutHeld
<1>2. CASE GetcCall \/ Getc \/ Putc
  BY <1>2 DEF GetcCall, Getc, GetcTake, GetcLoad, GetcStore, Putc, PutcFirst, PutcPlace,
              PutcLoad, PutcStore, history, PutHeld
<1>3. CASE PutcCall
  <2>1. puts' = puts + 1 /\ ch' = puts + 1
    BY <1>3 DEF PutcCall
  <2>2. puts + 1 >= 1
    BY Types
  <2> QED BY <2>1, <2>2 DEF PutHeld
<1> QED BY <1>1, <1>2, <1>3 DEF Next

LEMMA OutputKeptPlace ==
  ASSUME TypeOK, Counts, CountHeld, PutHeld, OutputKept, PutcPlace
  PROVE  OutputKept'
<1>0. /\ tty_out_count \in Nat /\ tty_out_count <= TTY_BUFFLEN /\ TTY_BUFFLEN \in Nat
      /\ tty_out_head \in Index /\ puts \in Nat /\ ch \in Nat
  BY Types
<1>1. sent \in Seq(Nat) /\ tty_out \in [Index -> Nat]
  BY DEF TypeOK
<1>2. /\ pc \in {"putc head", "putc count"} /\ pc' = "putc load"
       /\ UNCHANGED <<tty_out_head, tty_out_count, puts, sent, outRaced>>
  BY DEF PutcPlace, history
<1>3. tty_out_count # TTY_BUFFLEN
  <2>1. tty_out_count < TTY_BUFFLEN
    BY <1>2 DEF Counts
  <2> QED BY <1>0, <2>1
<1>4. puts >= 1 /\ ch = puts
  BY <1>2 DEF PutHeld
<1> SUFFICES ASSUME ~outRaced'
             PROVE  sent' \o Held(tty_out', tty_out_head', Pending') = Puts(Written')
  BY DEF OutputKept, Puts
<1>5. /\ pc \in {"putc head", "putc count"} /\ pc' = "putc load"
      /\ tty_out_count # TTY_BUFFLEN
      /\ tty_out' = [tty_out EXCEPT ![Slot(tty_out_head, tty_out_count)] = ch]
      /\ UNCHANGED <<tty_out_head, tty_out_count, puts, sent, outRaced>>
  <2>1. ~outRaced
    BY <1>2
  <2>2. /\ pc = "putc head" => count = tty_out_head
        /\ pc = "putc count" => count = tty_out_count
    BY <2>1 DEF CountHeld
  <2>3. tty_out' = [tty_out EXCEPT ![Slot(tty_out_head, tty_out_count)] = ch]
    BY <2>2 DEF PutcPlace
  <2> QED BY <1>2, <1>3, <2>3
<1> DEFINE old == Held(tty_out, tty_out_head, tty_out_count)
<1>6. Written = puts - 1 /\ Written' = puts /\ puts - 1 \in Nat /\ (puts - 1) + 1 = puts
  <2>1. puts - 1 \in Nat /\ (puts - 1) + 1 = puts
    BY <1>0, <1>4
  <2> QED BY <1>5, <2>1 DEF Written
<1>7. Pending = tty_out_count /\ Pending' = tty_out_count + 1
  <2>1. Pending = tty_out_count + 0 /\ Pending' = tty_out_count + 1
    BY <1>5 DEF Pending
  <2> QED BY <1>0, <2>1
<1>8. sent \o old = Puts(puts - 1)
  BY <1>5, <1>6, <1>7 DEF OutputKept, Puts
<1>9. tty_out_count \in 0 .. TTY_BUFFLEN - 1 /\ tty_out_count \in 0 .. TTY_BUFFLEN
  <2>1. tty_out_count # TTY_BUFFLEN
    BY <1>5
  <2> QED BY <1>0, <2>1
<1>10. Held(tty_out', tty_out_head', Pending') = Append(old, puts) /\ old \in Seq(Nat)
  BY <1>0, <1>1, <1>5, <1>4, <1>7, <1>9, HeldAdd, HeldElements
<1> HIDE DEF old
<1>11. sent \o Append(old, puts) = Append(sent \o old, puts)
  BY <1>0, <1>1, <1>10, ConcatAppend
<1>12. Puts(puts) = Append(Puts(puts - 1), puts)
  BY <1>6, PutsAppend
<1> QED BY <1>5, <1>6, <1>8, <1>10, <1>11, <1>12

LEMMA PendingType ==
  ASSUME TypeOK, Counts, CountHeld, ~outRaced
  PROVE  Pending \in 0 .. TTY_BUFFLEN /\ Pending >= tty_out_count
<1>0. /\ tty_out_count \in Nat /\ tty_out_count <= TTY_BUFFLEN /\ TTY_BUFFLEN \in Nat
      /\ count \in Nat
  BY Types
<1>1. CASE pc \in {"putc load", "putc store"}
  <2>1. Pending = tty_out_count + 1
    BY <1>1 DEF Pending
  <2>2. tty_out_count < TTY_BUFFLEN
    BY <1>1 DEF Counts, CountHeld
  <2>3. tty_out_count + 1 \in 0 .. TTY_BUFFLEN /\ tty_out_count + 1 >= tty_out_count
    BY <1>0, <2>2
  <2> QED BY <2>1, <2>3
<1>2. CASE pc \notin {"putc load", "putc store"}
  <2>1. Pending = tty_out_count + 0
    BY <1>2 DEF Pending
  <2> QED BY <1>0, <2>1
<1> QED BY <1>1, <1>2

LEMMA OutputKeptTransmit ==
  ASSUME TypeOK, Counts, CountHeld, OutputKept, Transmit
  PROVE  OutputKept'
<1>0. /\ tty_out_count \in Nat /\ tty_out_count <= TTY_BUFFLEN /\ TTY_BUFFLEN \in Nat
      /\ tty_out_head \in Index
  BY Types
<1>1. sent \in Seq(Nat) /\ tty_out \in [Index -> Nat]
  BY DEF TypeOK
<1>2. UNCHANGED <<tty_out, pc, puts>> /\ Written' = Written
  BY DEF Transmit, caller, Written
<1> SUFFICES ASSUME ~outRaced'
             PROVE  sent' \o Held(tty_out', tty_out_head', Pending') = Puts(Written')
  BY DEF OutputKept, Puts
<1>3. CASE UNCHANGED <<sent, tty_out_head, tty_out_count, outRaced>>
  <2>1. Pending' = Pending
    BY <1>2, <1>3 DEF Pending
  <2> QED BY <1>2, <1>3, <2>1 DEF OutputKept, Puts
<1>4. CASE /\ tty_out_count > 0
           /\ sent' = Append(sent, tty_out[tty_out_head])
           /\ tty_out_head' = Slot(tty_out_head, 1)
           /\ tty_out_count' = tty_out_count - 1
           /\ outRaced' = (outRaced \/ pc \in {"putc head", "putc count", "putc store"})
  <2>1. ~outRaced
    BY <1>4
  <2>2. Pending \in 0 .. TTY_BUFFLEN /\ Pending >= tty_out_count
    BY <2>1, PendingType
  <2>3. Pending \in 1 .. TTY_BUFFLEN /\ Pending - 1 \in 0 .. TTY_BUFFLEN
    <3>1. tty_out_count > 0
      BY <1>4
    <3> QED BY <1>0, <2>2, <3>1
  <2>4. Pending' = Pending - 1
    <3> DEFINE d == IF pc \in {"putc load", "putc store"} THEN 1 ELSE 0
    <3>1. Pending = tty_out_count + d /\ Pending' = (tty_out_count - 1) + d
      BY <1>2, <1>4 DEF Pending
    <3>2. d \in Nat
      OBVIOUS
    <3> HIDE DEF d
    <3> QED BY <1>0, <3>1, <3>2
  <2> DEFINE c == tty_out[tty_out_head]
             x == <<c>>
             r == Held(tty_out, Slot(tty_out_head, 1), Pending - 1)
  <2>5. Held(tty_out, tty_out_head, Pending) = x \o r
    BY <1>0, <1>1, <2>3, HeldTake
  <2>6. c \in Nat /\ x \in Seq(Nat)
    BY <1>0, <1>1
  <2>7. r \in Seq(Nat)
    <3>1. 1 \in 0 .. TTY_BUFFLEN
      BY <1>0, <2>3
    <3> QED BY <1>0, <1>1, <2>3, <3>1, HeldElements, SlotFacts
  <2>8. sent \o (x \o r) = Puts(Written)
    BY <2>1, <2>5 DEF OutputKept, Puts
  <2>9. sent' = sent \o x
    <3>1. sent' = Append(sent, c)
      BY <1>4
    <3> QED BY <1>1, <2>6, <3>1, AppendIsConcat
  <2>10. Held(tty_out', tty_out_head', Pending') = r
    BY <1>2, <1>4, <2>4
  <2> HIDE DEF r, x, c
  <2>11. (sent \o x) \o r = sent \o (x \o r)
    BY <1>1, <2>6, <2>7, ConcatAssociative
  <2> QED BY <1>2, <2>8, <2>9, <2>10, <2>11
<1> QED BY <1>3, <1>4 DEF Transmit

LEMMA OutputKeptNext ==
  ASSUME TypeOK, Counts, CountHeld, PutHeld, OutputKept, [Next]_vars
  PROVE  OutputKept'
<1>0. tty_out_count \in Nat /\ puts \in Nat /\ count \in Nat
  BY Types
<1>1. ASSUME UNCHANGED <<tty_out, tty_out_head, sent, outRaced>>,
             ~outRaced => Written' = Written /\ Pending' = Pending
      PROVE  OutputKept'
  BY <1>1 DEF OutputKept
<1>2. CASE UNCHANGED vars \/ ReadCall \/ Reads \/ Receive
  <2>1. UNCHANGED <<tty_out, tty_out_head, tty_out_count, sent, outRaced, puts, pc>>
    BY <1>2 DEF vars, ReadCall, Reads, ReadTake, ReadClear, Receive, output, caller, history
  <2> QED BY <1>1, <2>1 DEF Written, Pending
<1>3. CASE GetcCall \/ Getc
  <2>1. UNCHANGED <<tty_out, tty_out_head, tty_out_count, sent, outRaced, puts>>
    BY <1>3 DEF GetcCall, Getc, GetcTake, GetcLoad, GetcStore, output, history
  <2>2. /\ pc \notin {"putc", "putc head", "putc count", "putc load", "putc store"}
        /\ pc' \notin {"putc", "putc head", "putc count", "putc load", "putc store"}
    BY <1>3 DEF GetcCall, Getc, GetcTake, GetcLoad, GetcStore
  <2>3. Written' = Written /\ Pending' = Pending
    BY <2>1, <2>2 DEF Written, Pending
  <2> QED BY <1>1, <2>1, <2>3
<1>4. CASE PutcCall
  <2>1. UNCHANGED <<tty_out, tty_out_head, tty_out_count, sent, outRaced>>
        /\ pc = "idle" /\ pc' = "putc" /\ puts' = puts + 1
    BY <1>4 DEF PutcCall, output
  <2>2. Pending' = Pending
    BY <2>1 DEF Pending
  <2>3. Written = puts /\ Written' = (puts + 1) - 1
    BY <2>1 DEF Written
  <2>4. (puts + 1) - 1 = puts
    BY <1>0
  <2> QED BY <1>1, <2>1, <2>2, <2>3, <2>4
<1>5. CASE PutcFirst
  <2>1. /\ UNCHANGED <<tty_out, tty_out_head, tty_out_count, sent, outRaced, puts>>
        /\ pc = "putc" /\ pc' \in {"putc head", "putc count"}
    BY <1>5 DEF PutcFirst, output, history
  <2> QED BY <1>1, <2>1 DEF Written, Pending
<1>6. CASE PutcLoad
  <2>1. UNCHANGED <<tty_out, tty_out_head, tty_out_count, sent, outRaced, puts>>
        /\ pc = "putc load" /\ pc' = "putc store"
    BY <1>6 DEF PutcLoad, output, history
  <2> QED BY <1>1, <2>1 DEF Written, Pending
<1>7. CASE PutcStore
  <2>1. UNCHANGED <<tty_out, tty_out_head, sent, outRaced, puts>>
        /\ pc = "putc store" /\ pc' = "idle" /\ tty_out_count' = count + 1
    BY <1>7 DEF PutcStore, history
  <2>2. Written' = Written
    BY <2>1 DEF Written
  <2>3. ~outRaced => count = tty_out_count
    BY <2>1 DEF CountHeld
  <2>4. Pending = tty_out_count + 1 /\ Pending' = (count + 1) + 0
    BY <2>1 DEF Pending
  <2>5. (count + 1) + 0 = count + 1
    BY <1>0
  <2> QED BY <1>1, <2>1, <2>2, <2>3, <2>4, <2>5
<1> QED BY <1>2, <1>3, <1>4, <1>5, <1>6, <1>7, OutputKeptPlace, OutputKeptTransmit
    DEF Next, Putc

-----------------------------------------------------------------------------
(***************************************************************************)
(* The invariant                                                           *)
(***************************************************************************)
IInv ==
  /\ TypeOK /\ Counts /\ CountHeld /\ NeverMore
  /\ Mailbox /\ KeysReadOnce
  /\ KeysKept
  /\ PutHeld /\ OutputKept

LEMMA InitIInv ==
  ASSUME Init
  PROVE  IInv
<1>1. TTY_BUFFLEN \in Nat /\ TTY_BUFFLEN >= 1 /\ 0 \in Index /\ 0 \in 0 .. TTY_BUFFLEN
  BY TTY_BUFFLENAssumption DEF Index
<1>2. <<>> \in Seq(Nat) /\ Len(<<>>) = 0
  OBVIOUS
<1>3. pc = "idle" /\ gpc = "idle" /\ tx \in BOOLEAN
  BY TxEnabledAssumption DEF Init
<1>4. TypeOK
  BY <1>1, <1>2, <1>3 DEF Init, TypeOK, NUL
<1>5. Counts /\ CountHeld /\ PutHeld
  BY <1>3 DEF Counts, CountHeld, PutHeld
<1>6. NeverMore
  BY <1>2 DEF Init, NeverMore
<1>7. Mailbox /\ KeysReadOnce
  BY <1>2, <1>3 DEF Init, Mailbox, KeysReadOnce, NUL
<1>8. ASSUME NEW ring, NEW h PROVE Held(ring, h, 0) = <<>>
  BY DEF Held
<1>9. KeysKept
  <2>1. ~InFlight
    BY <1>3 DEF InFlight
  <2>2. Buffered = 0
    <3>1. tty_in_count = 0
      BY DEF Init
    <3>2. Buffered = tty_in_count - 0
      BY <2>1 DEF Buffered
    <3> QED BY <3>1, <3>2
  <2>3. delivered = <<>> /\ accepted = <<>>
    BY DEF Init
  <2> QED BY <1>8, <2>1, <2>2, <2>3 DEF KeysKept
<1>10. OutputKept
  <2>1. Written = 0 /\ Pending = 0
    BY <1>3 DEF Written, Pending, Init
  <2> QED BY <1>8, <2>1 DEF OutputKept, Init
<1> QED BY <1>4, <1>5, <1>6, <1>7, <1>9, <1>10 DEF IInv

LEMMA Invariance == Spec => []IInv
<1>1. Init => IInv
  BY InitIInv
<1>2. IInv /\ [Next]_vars => IInv'
  BY TypesNext, CountsNext, CountHeldNext, NeverMoreNext, MailboxNext, KeysKeptNext,
     PutHeldNext, OutputKeptNext DEF IInv
<1> QED BY <1>1, <1>2, PTL DEF Spec

\* tty_in_count and tty_out_count stay between 0 and TTY_BUFFLEN, and the heads
\* within the buffers, wherever an interrupt falls into tty_getc and tty_putc.
THEOREM TypeCorrect == Spec => []TypeOK
<1>1. IInv => TypeOK
  BY DEF IInv
<1> QED BY <1>1, Invariance, PTL

\* tty_getc never returns a character that was not there to be returned: it
\* does not overtake uart_handler, not even through a count that it stored late.
THEOREM NeverAhead == Spec => []NeverMore
<1>1. IInv => NeverMore
  BY DEF IInv
<1> QED BY <1>1, Invariance, PTL

\* As long as uart_handler has not come between tty_getc's access to the head and
\* its store of the count, no key press is lost, repeated or moved.
THEOREM NoKeyLost == Spec => []KeysKept
<1>1. IInv => KeysKept
  BY DEF IInv
<1> QED BY <1>1, Invariance, PTL

\* As long as uart_handler has not come between tty_putc's loads of the head and of
\* the count (tty.c 56), or its load and store of the count (57), what was written is
\* sent or still held, in order and once.
THEOREM NoOutputLost == Spec => []OutputKept
<1>1. IInv => OutputKept
  BY DEF IInv
<1> QED BY <1>1, Invariance, PTL

\* uart_getc's two accesses to readchar never make it return a key press twice or
\* after a later one, whatever uart_handler writes between them.
THEOREM NoKeyReadTwice == Spec => []KeysReadOnce
<1>1. IInv => KeysReadOnce
  BY DEF IInv
<1> QED BY <1>1, Invariance, PTL
=============================================================================
