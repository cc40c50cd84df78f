------------------------------ MODULE FifoQueue ------------------------------
(***************************************************************************)
(* What queue.c promises of the ready list: threads come out in the order  *)
(* in which they went in, a thread is in it at most once, and a thread may *)
(* be taken out of its middle without disturbing the others.               *)
(***************************************************************************)
EXTENDS Sequences, Integers

CONSTANTS Thread, NoThread      \* NoThread: what Get returns for an empty queue

VARIABLES items,    \* the threads in the queue, the oldest first
          out       \* what the last Get returned

Init == items = <<>> /\ out = NoThread

Put(t) ==
  /\ \A i \in 1 .. Len(items) : items[i] # t
  /\ items' = Append(items, t)
  /\ UNCHANGED out

Get ==
  \/ items # <<>> /\ out' = Head(items) /\ items' = Tail(items)
  \/ items = <<>> /\ out' = NoThread /\ UNCHANGED items

Take(i) ==
  /\ items' = SubSeq(items, 1, i - 1) \o SubSeq(items, i + 1, Len(items))
  /\ UNCHANGED out

Next ==
  \/ \E t \in Thread : Put(t)
  \/ Get
  \/ \E i \in 1 .. Len(items) : Take(i)

Spec == Init /\ [][Next]_<<items, out>>
=============================================================================
