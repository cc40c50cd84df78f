--------------------------------- MODULE Heap ---------------------------------
(***************************************************************************)
(* malloc and free of lib/malloc.c, one step per turn of their loops: a    *)
(* first-fit free list in the order of addresses.  An allocation of n is   *)
(* a header and n more; `header' is what the header at an address says,    *)
(* and callers keep to the memory they are given, so it says so as long as *)
(* nothing was given out twice.                                            *)
(*                                                                         *)
(* The free list starts with one block, which heap_init means to be all of *)
(* the heap; it takes a number of words for its size in bytes, so that it  *)
(* is a quarter.  Or it starts as free_tests of testing/ms7.c lays it out: *)
(* a free block in front of a row of used ones.  Only there does free find *)
(* a block to link behind: after heap_init the free list moves up behind   *)
(* all that was given out, and free writes through a null pointer.         *)
(***************************************************************************)
EXTENDS Integers, FiniteSets

CONSTANTS
  HDR,                    \* sizeof(alloc_t)
  HeapBytes,              \* from mem_start to the stacks of the threads
  Layouts,                \* how the free list may start
  FirstSize,              \* of the free block of the tests' layout,
  BlockSize, BlockCount,  \* and of the used ones
  Requests,               \* what malloc is called with
  GoOn                    \* whether callers go on once the list is spoiled

ASSUME HeapAssumption ==
  /\ HDR \in Nat \ {0} /\ FirstSize \in Nat /\ BlockSize \in Nat \ {0} /\ BlockCount \in Nat
  /\ HeapBytes \in Nat /\ Layouts \subseteq {"heap_init", "tests"}
  /\ Requests \subseteq Nat \ {0} /\ GoOn \in BOOLEAN

VARIABLES
  header, freelist,
  pc,            \* "idle", "malloc", "free" and "coalesce" are the loops; after
                 \* a write through a null pointer it is "undefined"
  prev, curr,    \* their locals
  arg,           \* the size malloc was asked for, or toFree
  held,          \* history: the size of each allocation, 0 where there is none
  spoiled        \* history: whether a search has failed or a block was too
                 \* small to be split, which leave used blocks in the list

locals  == <<prev, curr, arg>>
vars    == <<header, freelist, pc, locals, held, spoiled>>

NULL      == 0
mem_start == 1
Block(i)  == mem_start + HDR + FirstSize + (i - 1) * (HDR + BlockSize)
pool_end  == Block(BlockCount + 1) - 1

\* The memory that the free list is given.
Pool == mem_start .. pool_end

WORD == 4                 \* sizeof(uint32)

\* The row of the tests is taken to be as long as what heap_init gives; with no
\* used block and FirstSize chosen for it, that is any heap with room for a header.
ASSUME PoolAssumption == HeapBytes \div WORD = pool_end - mem_start + 1

Header == [size : Nat, state : {"M_FREE", "M_USED"}, next : Pool \cup {NULL}]

TypeOK ==
  /\ header \in [Pool -> Header]
  /\ freelist \in Pool
  /\ pc \in {"idle", "malloc", "free", "coalesce", "undefined"}
  /\ prev \in Pool \cup {NULL} /\ curr \in Pool \cup {NULL}
  /\ arg \in Nat
  /\ held \in [Pool -> Nat] /\ spoiled \in BOOLEAN

Free(size) == [size |-> size, state |-> "M_FREE", next |-> NULL]
Used(size) == [size |-> size, state |-> "M_USED", next |-> NULL]

\* get_stack(NTHREADS) - mem_start is a difference of pointers to uint32.
HeapInit ==
  /\ header = [a \in Pool |-> IF a = mem_start THEN Free(HeapBytes \div WORD - HDR)
                                               ELSE Used(0)]
  /\ held = [a \in Pool |-> 0]

TestsInit ==
  LET blocks == {Block(i) : i \in 1 .. BlockCount} IN
  /\ header = [a \in Pool |-> IF a = mem_start THEN Free(FirstSize)
                              ELSE IF a \in blocks THEN Used(BlockSize) ELSE Used(0)]
  /\ held = [a \in Pool |-> IF a \in blocks THEN BlockSize ELSE 0]

Init ==
  /\ \/ "heap_init" \in Layouts /\ HeapInit
     \/ "tests" \in Layouts /\ TestsInit
  /\ freelist = mem_start
  /\ pc = "idle" /\ prev = NULL /\ curr = NULL /\ arg = 0
  /\ spoiled = FALSE

-----------------------------------------------------------------------------
MayCall == pc = "idle" /\ (spoiled => GoOn)

Return == pc' = "idle" /\ prev' = NULL /\ curr' = NULL /\ arg' = 0

(***************************************************************************)
(* malloc                                                                  *)
(***************************************************************************)
MallocCall(n) ==
  /\ MayCall
  /\ pc' = "malloc"
  /\ arg' = n /\ prev' = NULL /\ curr' = freelist
  /\ UNCHANGED <<header, freelist, held, spoiled>>

MutFits(h, n) == h.state = "M_FREE" /\ h.size > n     \* mutant: > in malloc.c 35
Fits(h, n)    == h.state = "M_FREE" /\ h.size >= n

MallocSkips ==
  /\ pc = "malloc"
  /\ curr # NULL /\ ~Fits(header[curr], arg)
  /\ header[curr].next # NULL
  /\ prev' = curr /\ curr' = header[curr].next
  /\ UNCHANGED <<header, freelist, pc, arg, held, spoiled>>

\* The last block does not fit either, and is marked as used.
MallocFails ==
  /\ pc = "malloc"
  /\ curr # NULL /\ ~Fits(header[curr], arg)
  /\ header[curr].next = NULL
  /\ header' = [header EXCEPT ![curr].state = "M_USED"]
  /\ spoiled' = TRUE
  /\ Return
  /\ UNCHANGED <<freelist, held>>

Splits(size, n) == size - n >= HDR

\* The block found is split, and what is left takes its place in the list.
MallocSplits ==
  /\ pc = "malloc"
  /\ curr # NULL /\ Fits(header[curr], arg) /\ Splits(header[curr].size, arg)
  /\ LET new_free == curr + arg + HDR
         rest     == [header[curr] EXCEPT !.size = @ - HDR - arg]
         split    == [header EXCEPT ![new_free] = rest, ![curr] = Used(arg)]
     IN  IF prev = NULL
           THEN freelist' = new_free /\ header' = split
           ELSE freelist' = freelist /\ header' = [split EXCEPT ![prev].next = new_free]
  /\ held' = [held EXCEPT ![curr] = arg]
  /\ Return
  /\ UNCHANGED spoiled

\* There is no room for another header: the block stays in the list, as its
\* last one.
MallocTakes ==
  /\ pc = "malloc"
  /\ curr # NULL /\ Fits(header[curr], arg) /\ ~Splits(header[curr].size, arg)
  /\ header' = [header EXCEPT ![curr] = Used(arg)]
  /\ held' = [held EXCEPT ![curr] = arg]
  /\ spoiled' = TRUE
  /\ Return
  /\ UNCHANGED freelist

-----------------------------------------------------------------------------
(***************************************************************************)
(* free, of an allocation: its search, and the loop that coalesces.        *)
(***************************************************************************)
FreeCall(a) ==
  /\ MayCall
  /\ held[a] # 0
  /\ header[a].state = "M_USED"
  /\ header' = [header EXCEPT ![a].state = "M_FREE"]
  /\ pc' = "free"
  /\ arg' = a /\ prev' = NULL /\ curr' = freelist
  /\ UNCHANGED <<freelist, held, spoiled>>

FreeSkips ==
  /\ pc = "free"
  /\ curr < arg /\ curr # NULL
  /\ prev' = curr /\ curr' = header[curr].next
  /\ UNCHANGED <<header, freelist, pc, arg, held, spoiled>>

FreeLinks ==
  /\ pc = "free"
  /\ ~(curr < arg /\ curr # NULL) /\ prev # NULL
  /\ header' = [header EXCEPT ![prev].next = arg, ![arg].next = curr]
  /\ held' = [held EXCEPT ![arg] = 0]
  /\ pc' = "coalesce" /\ curr' = freelist
  /\ UNCHANGED <<freelist, prev, arg, spoiled>>

\* The block is in front of the free list: prev is null.
FreeUndefined ==
  /\ pc = "free"
  /\ ~(curr < arg /\ curr # NULL) /\ prev = NULL
  /\ pc' = "undefined"
  /\ UNCHANGED <<header, freelist, locals, held, spoiled>>

EndOf(a) == a + header[a].size + HDR

MoreToCoalesce == pc = "coalesce" /\ curr # NULL /\ header[curr].next # NULL

MutMerged(size, next) == size + next         \* mutant: without sizeof in malloc.c 126
Merged(size, next)    == size + next + HDR

MutAfterMerge(a) == header[a].next           \* mutant: goes on after a merge
AfterMerge(a)    == a

CoalesceMerges ==
  /\ MoreToCoalesce
  /\ EndOf(curr) = header[curr].next
  /\ LET next == header[header[curr].next]
     IN  header' = [header EXCEPT ![curr].size = Merged(@, next.size), ![curr].next = next.next]
  /\ curr' = AfterMerge(curr)
  /\ UNCHANGED <<freelist, pc, prev, arg, held, spoiled>>

MutOnward(a) == a                            \* mutant: without malloc.c 131
Onward(a)    == header[a].next

CoalesceSkips ==
  /\ MoreToCoalesce
  /\ EndOf(curr) # header[curr].next
  /\ curr' = Onward(curr)
  /\ UNCHANGED <<header, freelist, pc, prev, arg, held, spoiled>>

FreeReturns ==
  /\ pc = "coalesce" /\ ~MoreToCoalesce
  /\ Return
  /\ UNCHANGED <<header, freelist, held, spoiled>>

-----------------------------------------------------------------------------
Turns ==
  \/ MallocSkips \/ MallocFails \/ MallocSplits \/ MallocTakes
  \/ FreeSkips \/ FreeLinks \/ FreeUndefined
  \/ CoalesceMerges \/ CoalesceSkips \/ FreeReturns

Next ==
  \/ \E n \in Requests : MallocCall(n)
  \/ \E a \in Pool : FreeCall(a)
  \/ Turns

Spec == Init /\ [][Next]_vars

\* A call that has begun goes on.
FairSpec == Spec /\ WF_vars(Turns)
=============================================================================
