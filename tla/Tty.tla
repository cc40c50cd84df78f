--------------------------------- MODULE Tty ---------------------------------
(***************************************************************************)
(* The terminal: the ring buffers of tty.c, the handler of uart.c that     *)
(* fills one and drains the other, and the one-character mailbox that      *)
(* uart_getc reads.                                                        *)
(*                                                                         *)
(* tty_getc and tty_putc clear sstatus.SIE, so that no other thread runs   *)
(* while they do; the handler runs in machine mode and may land between    *)
(* any two of their accesses.  They are split where that can be told:      *)
(* around the access to the buffer, between the loads of the head and of   *)
(* the count that give tty_putc its place, and between the load and the    *)
(* store of `count--' and `count++'.  The handler itself is not            *)
(* interrupted.                                                            *)
(*                                                                         *)
(* A character is the number of the key press or of the tty_putc that it   *)
(* came from, so that no two are the same; NUL is 0, as in the code.       *)
(***************************************************************************)
EXTENDS Integers, Sequences

CONSTANTS
  TTY_BUFFLEN,    \* 128 in include/tty.h
  TxEnabled,      \* whether the UART's transmit interrupt may be on at first:
                  \* FALSE after uart_init, TRUE where the tests set it
  MaxKeys,        \* bound on the number of key presses
  MaxPuts         \* bound on the number of characters written

ASSUME TTY_BUFFLENAssumption == TTY_BUFFLEN \in Nat \ {0}
ASSUME TxEnabledAssumption   == TxEnabled \subseteq BOOLEAN
ASSUME BoundsAssumption      == MaxKeys \in Nat /\ MaxPuts \in Nat

NUL == 0

VARIABLES
  tty_in, tty_in_head, tty_in_count,
  tty_out, tty_out_head, tty_out_count,
  tx,          \* the bit UART_TX_ON of the UART's interrupt register
  readchar,    \* the mailbox of uart.c
  pc,          \* where the call of tty_getc or tty_putc is, "idle" if none is
  ch, count,   \* its character, and the count (tty_putc: or the head) it has loaded
  gpc, gch     \* the same for a thread in uart_getc

(***************************************************************************)
(* History variables, which no guard reads but for the bounds: the number  *)
(* of key presses, those the handler had room for, those tty_getc and      *)
(* uart_getc returned, the characters put and those sent, and whether an   *)
(* interrupt has fallen into a window of tty_in or tty_out.                *)
(***************************************************************************)
VARIABLES keys, accepted, delivered, read, puts, sent, inRaced, outRaced

input   == <<tty_in, tty_in_head, tty_in_count>>
output  == <<tty_out, tty_out_head, tty_out_count>>
caller  == <<pc, ch, count>>
reader  == <<gpc, gch>>
history == <<keys, accepted, delivered, read, puts, sent, inRaced, outRaced>>
vars    == <<input, output, tx, readchar, caller, reader, history>>

Index == 0 .. TTY_BUFFLEN - 1

\* The place n elements behind head.
Slot(head, n) == (head + n) % TTY_BUFFLEN

TypeOK ==
  /\ tty_in \in [Index -> Nat] /\ tty_in_head \in Index /\ tty_in_count \in 0 .. TTY_BUFFLEN
  /\ tty_out \in [Index -> Nat] /\ tty_out_head \in Index /\ tty_out_count \in 0 .. TTY_BUFFLEN
  /\ tx \in BOOLEAN
  /\ readchar \in Nat
  /\ pc \in {"idle", "getc", "getc load", "getc store",
             "putc", "putc head", "putc count", "putc load", "putc store"}
  /\ ch \in Nat
  /\ count \in 0 .. TTY_BUFFLEN
  /\ gpc \in {"idle", "wait", "clear"}
  /\ gch \in Nat
  /\ keys \in Nat /\ puts \in Nat
  /\ accepted \in Seq(Nat) /\ delivered \in Seq(Nat) /\ read \in Seq(Nat) /\ sent \in Seq(Nat)
  /\ inRaced \in BOOLEAN /\ outRaced \in BOOLEAN

Init ==
  /\ tty_in = [n \in Index |-> NUL] /\ tty_in_head = 0 /\ tty_in_count = 0
  /\ tty_out = [n \in Index |-> NUL] /\ tty_out_head = 0 /\ tty_out_count = 0
  /\ tx \in TxEnabled
  /\ readchar = NUL
  /\ pc = "idle" /\ ch = NUL /\ count = 0
  /\ gpc = "idle" /\ gch = NUL
  /\ keys = 0 /\ puts = 0 /\ accepted = <<>> /\ delivered = <<>> /\ read = <<>> /\ sent = <<>>
  /\ inRaced = FALSE /\ outRaced = FALSE

-----------------------------------------------------------------------------
(***************************************************************************)
(* tty_getc                                                                *)
(***************************************************************************)
GetcCall ==
  /\ pc = "idle"
  /\ pc' = "getc"
  /\ UNCHANGED <<input, output, tx, readchar, ch, count, reader, history>>

MutGetcTake ==                               \* mutant: without tty.c 38
  /\ pc = "getc"
  /\ tty_in_count # 0
  /\ ch' = tty_in[tty_in_head]
  /\ pc' = "getc load"
  /\ UNCHANGED <<input, output, tx, readchar, count, reader, history>>

\* A character is there: it is read and the head moves on.
GetcTake ==
  /\ pc = "getc"
  /\ tty_in_count # 0
  /\ ch' = tty_in[tty_in_head]
  /\ tty_in_head' = Slot(tty_in_head, 1)
  /\ pc' = "getc load"
  /\ UNCHANGED <<tty_in, tty_in_count, output, tx, readchar, count, reader, history>>

GetcLoad ==
  /\ pc = "getc load"
  /\ count' = tty_in_count
  /\ pc' = "getc store"
  /\ UNCHANGED <<input, output, tx, readchar, ch, reader, history>>

MutOneFewer(n) == n                          \* mutant: without tty.c 39
OneFewer(n) == n - 1

GetcStore ==
  /\ pc = "getc store"
  /\ tty_in_count' = OneFewer(count)
  /\ delivered' = Append(delivered, ch)
  /\ pc' = "idle"
  /\ UNCHANGED <<tty_in, tty_in_head, output, tx, readchar, ch, count, reader,
                 keys, accepted, read, puts, sent, inRaced, outRaced>>

(***************************************************************************)
(* tty_putc.  It does not turn the transmit interrupt on.                  *)
(***************************************************************************)
PutcCall ==
  /\ pc = "idle"
  /\ puts < MaxPuts
  /\ puts' = puts + 1
  /\ ch' = puts + 1
  /\ pc' = "putc"
  /\ UNCHANGED <<input, output, tx, readchar, count, reader,
                 keys, accepted, delivered, read, sent, inRaced, outRaced>>

MutPutcFirst ==                              \* mutant: without tty.c 53
  /\ pc = "putc"
  /\ \/ pc' = "putc head" /\ count' = tty_out_head
     \/ pc' = "putc count" /\ count' = tty_out_count
  /\ UNCHANGED <<input, output, tx, readchar, ch, reader, history>>

\* There is space.  The place is the sum of the head and the count; C leaves open
\* which of them is loaded first.
PutcFirst ==
  /\ pc = "putc"
  /\ tty_out_count # TTY_BUFFLEN
  /\ \/ pc' = "putc head" /\ count' = tty_out_head
     \/ pc' = "putc count" /\ count' = tty_out_count
  /\ UNCHANGED <<input, output, tx, readchar, ch, reader, history>>

\* The other one is loaded and the character stored: no interrupt between these
\* two can be told, as the place it would free is not the place found.
PutcPlace ==
  /\ \/ pc = "putc head" /\ tty_out' = [tty_out EXCEPT ![Slot(count, tty_out_count)] = ch]
     \/ pc = "putc count" /\ tty_out' = [tty_out EXCEPT ![Slot(tty_out_head, count)] = ch]
  /\ pc' = "putc load"
  /\ UNCHANGED <<input, tty_out_head, tty_out_count, tx, readchar, ch, count, reader, history>>

PutcLoad ==
  /\ pc = "putc load"
  /\ count' = tty_out_count
  /\ pc' = "putc store"
  /\ UNCHANGED <<input, output, tx, readchar, ch, reader, history>>

PutcStore ==
  /\ pc = "putc store"
  /\ tty_out_count' = count + 1
  /\ pc' = "idle"
  /\ UNCHANGED <<input, tty_out, tty_out_head, tx, readchar, ch, count, reader, history>>

-----------------------------------------------------------------------------
(***************************************************************************)
(* uart_getc, in a thread that runs while no other is in a tty call.       *)
(***************************************************************************)
ReadCall ==
  /\ pc = "idle" /\ gpc = "idle"
  /\ gpc' = "wait"
  /\ UNCHANGED <<input, output, tx, readchar, caller, gch, history>>

ReadTake ==
  /\ pc = "idle" /\ gpc = "wait"
  /\ readchar # NUL
  /\ gch' = readchar
  /\ gpc' = "clear"
  /\ UNCHANGED <<input, output, tx, readchar, caller, history>>

\* The mailbox is emptied, whatever has arrived in it since.
MutCleared == readchar                       \* mutant: without uart.c 48
Cleared == NUL

ReadClear ==
  /\ pc = "idle" /\ gpc = "clear"
  /\ readchar' = Cleared
  /\ read' = Append(read, gch)
  /\ gpc' = "idle"
  /\ UNCHANGED <<input, output, tx, caller, gch,
                 keys, accepted, delivered, puts, sent, inRaced, outRaced>>

-----------------------------------------------------------------------------
(***************************************************************************)
(* uart_handler.  Whatever the interrupt was, it leaves the transmit       *)
(* interrupt off.                                                          *)
(***************************************************************************)
HasRoom(n)    == n < TTY_BUFFLEN

Receive ==
  /\ keys < MaxKeys
  /\ keys' = keys + 1
  /\ readchar' = keys + 1
  /\ \/ /\ HasRoom(tty_in_count)
        /\ tty_in' = [tty_in EXCEPT ![Slot(tty_in_head, tty_in_count)] = keys + 1]
        /\ tty_in_count' = tty_in_count + 1
        /\ accepted' = Append(accepted, keys + 1)
        /\ inRaced' = (inRaced \/ pc \in {"getc load", "getc store"})
     \/ ~HasRoom(tty_in_count) /\ UNCHANGED <<tty_in, tty_in_count, accepted, inRaced>>
  /\ tx' = FALSE
  /\ UNCHANGED <<tty_in_head, output, caller, reader, delivered, read, puts, sent, outRaced>>

\* The transmit interrupt comes while it is on and the UART is idle.
Transmit ==
  /\ tx
  /\ \/ /\ tty_out_count > 0
        /\ sent' = Append(sent, tty_out[tty_out_head])
        /\ tty_out_head' = Slot(tty_out_head, 1)
        /\ tty_out_count' = tty_out_count - 1
        /\ outRaced' = (outRaced \/ pc \in {"putc head", "putc count", "putc store"})
     \/ tty_out_count = 0 /\ UNCHANGED <<sent, tty_out_head, tty_out_count, outRaced>>
  /\ tx' = FALSE
  /\ UNCHANGED <<input, tty_out, readchar, caller, reader,
                 keys, accepted, delivered, read, puts, inRaced>>

-----------------------------------------------------------------------------
Getc  == GetcTake \/ GetcLoad \/ GetcStore
Putc  == PutcFirst \/ PutcPlace \/ PutcLoad \/ PutcStore
Reads == ReadTake \/ ReadClear

Next ==
  \/ GetcCall \/ PutcCall \/ ReadCall
  \/ Getc \/ Putc \/ Reads
  \/ Receive \/ Transmit

Spec == Init /\ [][Next]_vars

\* A call that can go on does.
FairSpec == Spec /\ WF_vars(Getc) /\ WF_vars(Putc)
=============================================================================
