------------------------------ MODULE NamedFiles ------------------------------
(***************************************************************************)
(* What the file system promises, without blocks, inodes or a directory:   *)
(* files with a name and a size, and handles on them with a place of their *)
(* own.  fs_read and fs_write move the place; a file grows when the place  *)
(* passes its end, and keeps its size otherwise, over an unmount too.      *)
(***************************************************************************)
EXTENDS Integers

CONSTANTS Names, Handles, Lens

VARIABLES
  size,        \* of each file that exists
  place,       \* of each open handle: the file and the position in it
  mounted

vars == <<size, place, mounted>>

Exists(f) == f \in DOMAIN size
IsOpen(h) == h \in DOMAIN place

With(fun, x, y) == [z \in DOMAIN fun \cup {x} |-> IF z = x THEN y ELSE fun[z]]
Without(fun, x) == [z \in DOMAIN fun \ {x} |-> fun[z]]

Nothing == [x \in {} |-> 0]

Init == size = Nothing /\ place = Nothing /\ mounted = TRUE

Create(f) ==
  /\ mounted /\ ~Exists(f)
  /\ size' = With(size, f, 0)
  /\ UNCHANGED <<place, mounted>>

Open(f, h) ==
  /\ mounted /\ Exists(f) /\ ~IsOpen(h)
  /\ place' = With(place, h, [file |-> f, at |-> 0])
  /\ UNCHANGED <<size, mounted>>

Close(h) ==
  /\ mounted /\ IsOpen(h)
  /\ place' = Without(place, h)
  /\ UNCHANGED <<size, mounted>>

Read(h, len) ==
  /\ mounted /\ IsOpen(h)
  /\ place' = [place EXCEPT ![h].at = @ + len]
  /\ UNCHANGED <<size, mounted>>

Write(h, len) ==
  /\ mounted /\ IsOpen(h)
  /\ LET end == place[h].at + len
     IN  /\ place' = [place EXCEPT ![h].at = end]
         /\ size' = [size EXCEPT ![place[h].file] = IF end > @ THEN end ELSE @]
  /\ UNCHANGED mounted

Unmount ==
  /\ mounted /\ mounted' = FALSE
  /\ UNCHANGED <<size, place>>

Mount ==
  /\ ~mounted /\ mounted' = TRUE
  /\ place' = Nothing
  /\ UNCHANGED size

Next ==
  \/ \E f \in Names : Create(f) \/ \E h \in Handles : Open(f, h)
  \/ \E h \in Handles : Close(h) \/ \E len \in Lens : Read(h, len) \/ Write(h, len)
  \/ Unmount \/ Mount

Spec == Init /\ [][Next]_vars
=============================================================================
