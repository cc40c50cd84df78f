------------------------------- MODULE HeapSpec -------------------------------
(***************************************************************************)
(* What is required of Heap.  As long as every search succeeds and splits  *)
(* the block it finds, the free list is exactly what is not given out of   *)
(* the memory that it started with.                                        *)
(***************************************************************************)
EXTENDS Heap

\* The blocks on the free list.
Listed ==
  LET chain[n \in 0 .. Cardinality(Pool)] ==
        IF n = 0 THEN freelist
        ELSE IF chain[n - 1] = NULL THEN NULL ELSE header[chain[n - 1]].next
  IN  {chain[n] : n \in DOMAIN chain} \ {NULL}

Held == {a \in Pool : held[a] # 0}

Spans(a, size, x) == x \in a .. a + HDR + size - 1

(***************************************************************************)
(* malloc.c 23-26: of the memory that the free list started with, every    *)
(* byte is in one allocation or in one block of the list, and in no two:   *)
(* nothing is given out twice, and of what malloc and free have in their   *)
(* hands nothing is lost.                                                  *)
(***************************************************************************)
InOneBlock(x) ==
  Cardinality({a \in Held : Spans(a, held[a], x)})
    + Cardinality({a \in Listed : Spans(a, header[a].size, x)}) = 1

Tiled == ~spoiled => \A x \in Pool : InOneBlock(x)

(***************************************************************************)
(* malloc.c 11-13: heap_init creates a free allocation for the entire      *)
(* heap.  The code breaks it: the size it stores counts words.             *)
(***************************************************************************)
TheHeap == mem_start .. mem_start + HeapBytes - 1

EntireHeap == ~spoiled => \A x \in TheHeap : InOneBlock(x)

(***************************************************************************)
(* malloc.c 73-76: between two calls no two blocks of the free list are    *)
(* neighbours.                                                             *)
(***************************************************************************)
Coalesced ==
  pc = "idle" /\ ~spoiled => \A a, b \in Listed : EndOf(a) # b

(***************************************************************************)
(* malloc.c 23-24: a call fails only if the allocation and its header fit  *)
(* nowhere between those there are in the memory that the free list        *)
(* started with, whatever the order in which the list was split, linked    *)
(* and coalesced.  (How much memory that is, is EntireHeap.)               *)
(***************************************************************************)
Room(n) ==
  \E a \in Pool :
    /\ a + HDR + n - 1 <= pool_end
    /\ \A h \in Held, x \in a .. a + HDR + n - 1 : ~Spans(h, held[h], x)

MallocServes == [][~spoiled /\ MallocFails => ~Room(arg)]_vars

(***************************************************************************)
(* malloc.c 33, 92 and 122: the loops end.                                 *)
(***************************************************************************)
CallsReturn == pc # "idle" ~> pc \in {"idle", "undefined"} \/ spoiled

(***************************************************************************)
(* malloc.c 23-26: no byte is in two allocations.  It takes callers that   *)
(* ask for what can be split off.                                          *)
(***************************************************************************)
NoOverlap ==
  \A a, b \in Held : a # b => \A x \in Pool : ~(Spans(a, held[a], x) /\ Spans(b, held[b], x))

(***************************************************************************)
(* malloc.h 19: an allocation can be given back to the pool.               *)
(***************************************************************************)
FreeDefined == pc # "undefined"
=============================================================================
