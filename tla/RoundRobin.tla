----------------------------- MODULE RoundRobin -----------------------------
(***************************************************************************)
(* What the scheduler promises the threads that want to run: they stand in *)
(* a line, the one at the head runs, and nobody ever overtakes.            *)
(***************************************************************************)
EXTENDS Sequences, Integers

CONSTANTS Thread, First     \* First: the thread that the system starts with

VARIABLE line

Waiting(t) == \E i \in 1 .. Len(line) : line[i] = t

Init == line = <<First>>

\* The running thread gives way.
Rotate == line' = Append(Tail(line), Head(line))

\* The running thread lets another one enter the line, and gives way.
Enter(t) == ~Waiting(t) /\ line' = Append(Tail(Append(line, t)), Head(line))

\* The running thread ends.
Leave == Len(line) > 1 /\ line' = Tail(line)

Next == Rotate \/ Leave \/ \E t \in Thread : Enter(t)

Spec == Init /\ [][Next]_line
=============================================================================
