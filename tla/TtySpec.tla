------------------------------- MODULE TtySpec -------------------------------
(***************************************************************************)
(* What is required of Tty.                                                *)
(***************************************************************************)
EXTENDS Tty

\* The n characters that a ring holds from its head on.
Held(ring, head, n) == [i \in 1 .. n |-> ring[Slot(head, i - 1)]]

\* tty_getc has taken a character that the count still counts.
InFlight == pc \in {"getc load", "getc store"}

Buffered == tty_in_count - (IF InFlight THEN 1 ELSE 0)

(***************************************************************************)
(* tty.c 8: the characters that were read from the UART are those that     *)
(* tty_getc has returned, or is about to, and those that are in the ring,  *)
(* in the order in which they came.  It holds as long as no interrupt has  *)
(* come between the two accesses to the head and to the count in tty_getc: *)
(* the arithmetic of the ring is right, and nothing else can spoil it.     *)
(***************************************************************************)
KeysKept ==
  ~inRaced =>
    delivered \o (IF InFlight THEN <<ch>> ELSE <<>>)
              \o Held(tty_in, tty_in_head, Buffered) = accepted

(***************************************************************************)
(* Interrupts that do come in between may lose characters or bring old     *)
(* ones back, but tty_getc never returns more characters than were         *)
(* accepted, and so never runs ahead of the producer.                      *)
(***************************************************************************)
NeverMore == Len(delivered) + tty_in_count <= Len(accepted)

(***************************************************************************)
(* tty.c 9: what was written is sent in order, each character once; all of *)
(* it is sent or still in the ring.  It holds unless the handler comes     *)
(* between the loads of tty_out_head and tty_out_count in line 56, or      *)
(* between the load and the store of `tty_out_count++' in line 57.         *)
(***************************************************************************)
Written == IF pc \in {"putc", "putc head", "putc count"} THEN puts - 1 ELSE puts

Pending == tty_out_count + (IF pc \in {"putc load", "putc store"} THEN 1 ELSE 0)

OutputKept ==
  ~outRaced =>
    sent \o Held(tty_out, tty_out_head, Pending) = [i \in 1 .. Written |-> i]

(***************************************************************************)
(* uart.c 46-48: uart_getc returns the characters of key presses in their  *)
(* order and none of them twice, although it reads the mailbox and empties *)
(* it in two statements.                                                   *)
(***************************************************************************)
KeysReadOnce == \A i, j \in 1 .. Len(read) : i < j => read[i] < read[j]

(***************************************************************************)
(* tty.c 28: nothing comes between the accesses of tty_getc, so the        *)
(* characters it returns are the ones that came, in their order.           *)
(***************************************************************************)
KeysInOrder == \A i \in 1 .. Len(delivered) : delivered[i] = accepted[i]

(***************************************************************************)
(* tty.c 46-49: a tty_putc that finds the buffer full goes on when the     *)
(* UART has made space.                                                    *)
(***************************************************************************)
PutcReturns == pc = "putc" ~> pc = "idle"
=============================================================================
