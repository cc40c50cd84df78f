------------------------------- MODULE ByteFile -------------------------------
(***************************************************************************)
(* What writing to a file promises: a file is a row of bytes, and a call   *)
(* replaces those from the head on by the ones it was given, in any number *)
(* of pieces.  Reading and seeking move the head and nothing else.         *)
(***************************************************************************)
EXTENDS Integers, Sequences

CONSTANT Texts       \* what a call may be asked to write

VARIABLES
  content,           \* the bytes, including those behind the end
  size, head,
  todo               \* what is left of the call

vars == <<content, size, head, todo>>

Call(text) ==
  /\ todo = <<>>
  /\ todo' = text
  /\ UNCHANGED <<content, size, head>>

Put(n) ==
  /\ content' = [p \in DOMAIN content |->
                   IF p \in head .. head + n - 1 THEN todo[p - head + 1] ELSE content[p]]
  /\ head' = head + n
  /\ size' = IF head + n > size THEN head + n ELSE size
  /\ todo' = SubSeq(todo, n + 1, Len(todo))

Move(n) ==
  /\ todo = <<>>
  /\ head' = head + n
  /\ UNCHANGED <<content, size, todo>>

Seek(p) ==
  /\ todo = <<>>
  /\ head' = p
  /\ UNCHANGED <<content, size, todo>>

Next ==
  \/ \E text \in Texts : Call(text)
  \/ \E n \in 1 .. Len(todo) : Put(n)
  \/ \E n \in DOMAIN content : Move(n + 1)
  \/ \E p \in 0 .. size : Seek(p)

Spec == todo = <<>> /\ [][Next]_vars
=============================================================================
