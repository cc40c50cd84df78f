------------------------------ MODULE HeapProofs ------------------------------
(***************************************************************************)
(* Proofs, for every size of the heap, every layout of the free list and   *)
(* any requests, about Heap.  What they say of bytes, they say of those    *)
(* that the free list was given, a quarter of the heap after heap_init.    *)
(***************************************************************************)
EXTENDS HeapSpec, FiniteSetTheorems, WellFoundedInduction, TLAPS

LEMMA PoolFacts ==
  /\ HDR \in Nat /\ HDR > 0 /\ pool_end \in Nat /\ pool_end >= 1
  /\ Pool = 1 .. pool_end /\ NULL = 0 /\ mem_start = 1
<1>1. /\ HDR \in Nat /\ HDR > 0 /\ FirstSize \in Nat /\ BlockSize \in Nat /\ BlockCount \in Nat
  BY HeapAssumption
<1> DEFINE blocks == BlockCount * (HDR + BlockSize)
<1>2. blocks \in Nat
  BY <1>1
<1>3. pool_end = HDR + FirstSize + blocks
  BY <1>1 DEF pool_end, Block, mem_start
<1> HIDE DEF blocks
<1> QED BY <1>1, <1>2, <1>3 DEF Pool, mem_start, NULL

-----------------------------------------------------------------------------
(***************************************************************************)
(* F is what is on the free list that begins at fl, in the order of        *)
(* addresses.                                                              *)
(***************************************************************************)
ListOf(h, fl, F) ==
  /\ F \subseteq Pool /\ fl \in F
  /\ \A a \in F : fl <= a
  /\ \A a \in F :
       \/ h[a].next = NULL /\ \A b \in F : b <= a
       \/ /\ h[a].next \in F /\ a < h[a].next
          /\ \A b \in F : b <= a \/ h[a].next <= b

(***************************************************************************)
(* The blocks B, each as long as its header says, are side by side from    *)
(* the start of the heap to its end.                                       *)
(***************************************************************************)
After(h, a) == a + h[a].size + HDR

Tiles(h, B) ==
  /\ B \subseteq Pool
  /\ \A a \in B : After(h, a) <= pool_end + 1
  /\ \A a, b \in B : a < b => After(h, a) <= b
  /\ \A x \in Pool : \E a \in B : a <= x /\ x < After(h, a)

LEMMA AfterType ==
  ASSUME NEW h \in [Pool -> Header], NEW a \in Pool
  PROVE  /\ h[a].size \in Nat /\ After(h, a) \in Nat /\ a < After(h, a)
         /\ After(h, a) = a + h[a].size + HDR
BY PoolFacts DEF After, Header

\* A block is cut in two.
LEMMA SplitTiles ==
  ASSUME NEW h \in [Pool -> Header], NEW g \in [Pool -> Header], NEW B, Tiles(h, B),
         NEW a \in B, NEW n \in Pool, a < n,
         After(g, a) = n, After(g, n) = After(h, a),
         \A b \in B \ {a} : g[b].size = h[b].size
  PROVE  Tiles(g, B \cup {n}) /\ n \notin B
<1>1. B \subseteq Pool
  BY DEF Tiles
<1>2. /\ \A b \in Pool : b \in Nat /\ After(h, b) \in Nat /\ b < After(h, b)
      /\ \A b \in Pool : After(g, b) \in Nat /\ b < After(g, b)
      /\ \A b \in B \ {a} : After(g, b) = After(h, b)
  <2>1. \A b \in Pool : b \in Nat
    BY PoolFacts
  <2>2. \A b \in B \ {a} : After(g, b) = After(h, b)
    BY DEF After
  <2> QED BY <2>1, <2>2, AfterType
<1>3. \A b \in B : b <= a \/ After(h, a) <= b
  BY <1>1, <1>2 DEF Tiles
<1>4. n < After(h, a)
  BY <1>2
<1>5. n \notin B
  BY <1>1, <1>2, <1>3, <1>4
<1>6. \A b, c \in B \cup {n} : b < c => After(g, b) <= c
  BY <1>1, <1>2, <1>3, <1>4 DEF Tiles
<1>7. \A x \in Pool : \E b \in B \cup {n} : b <= x /\ x < After(g, b)
  <2> TAKE x \in Pool
  <2>1. PICK b \in B : b <= x /\ x < After(h, b)
    BY DEF Tiles
  <2>2. CASE b # a
    BY <1>2, <2>1, <2>2
  <2>3. CASE b = a /\ x < n
    BY <2>1, <2>3
  <2>4. CASE b = a /\ ~(x < n)
    BY <1>1, <1>2, <2>1, <2>4
  <2> QED BY <2>2, <2>3, <2>4
<1>8. \A b \in B \cup {n} : After(g, b) <= pool_end + 1
  <2>1. \A b \in B : After(h, b) <= pool_end + 1
    BY DEF Tiles
  <2>2. pool_end \in Nat /\ n <= pool_end
    BY PoolFacts
  <2>3. n <= pool_end + 1
    BY <1>2, <2>2
  <2> QED BY <1>2, <2>1, <2>3
<1> QED BY <1>1, <1>5, <1>6, <1>7, <1>8 DEF Tiles

\* Two neighbours become one.
LEMMA MergeTiles ==
  ASSUME NEW h \in [Pool -> Header], NEW g \in [Pool -> Header], NEW B, Tiles(h, B),
         NEW a \in B, NEW n \in B, After(h, a) = n, After(g, a) = After(h, n),
         \A b \in B \ {a, n} : g[b].size = h[b].size
  PROVE  Tiles(g, B \ {n})
<1>1. B \subseteq Pool
  BY DEF Tiles
<1>2. /\ \A b \in Pool : b \in Nat /\ After(h, b) \in Nat /\ b < After(h, b)
      /\ \A b \in Pool : After(g, b) \in Nat /\ b < After(g, b)
      /\ \A b \in B \ {a, n} : After(g, b) = After(h, b)
  <2>1. \A b \in Pool : b \in Nat
    BY PoolFacts
  <2>2. \A b \in B \ {a, n} : After(g, b) = After(h, b)
    BY DEF After
  <2> QED BY <2>1, <2>2, AfterType
<1>3. a < n /\ a # n /\ n < After(h, n)
  BY <1>1, <1>2
<1>4. ASSUME NEW b \in B \ {n}, NEW c \in B \ {n}, b < c
      PROVE  After(g, b) <= c
  <2>1. \A d, e \in B : d < e => After(h, d) <= e
    BY DEF Tiles
  <2>2. CASE b = a
    <3>1. n <= c /\ n \in Nat /\ c \in Nat
      BY <1>1, <1>2, <1>4, <2>1, <2>2
    <3>2. n < c
      BY <3>1
    <3> QED BY <2>1, <2>2, <3>2
  <2>3. CASE b # a
    BY <1>2, <1>4, <2>1, <2>3
  <2> QED BY <2>2, <2>3
<1>5. \A x \in Pool : \E b \in B \ {n} : b <= x /\ x < After(g, b)
  <2> TAKE x \in Pool
  <2>1. PICK b \in B : b <= x /\ x < After(h, b)
    BY DEF Tiles
  <2>2. CASE b \notin {a, n}
    BY <1>2, <2>1, <2>2
  <2>3. CASE b \in {a, n}
    BY <1>1, <1>2, <1>3, <2>1, <2>3
  <2> QED BY <2>2, <2>3
<1>6. \A b \in B \ {n} : After(g, b) <= pool_end + 1
  BY <1>2, <1>3 DEF Tiles
<1> QED BY <1>1, <1>4, <1>5, <1>6 DEF Tiles

-----------------------------------------------------------------------------
\* What is left of a block takes its place in the list, behind p or as its head.
LEMMA SplitList ==
  ASSUME NEW h, NEW g, NEW F, NEW fl, NEW fl2, ListOf(h, fl, F),
         NEW a \in F, NEW n \in Pool, a < n, \A b \in F : b <= a \/ n < b,
         g[n].next = h[a].next, NEW p,
         \/ /\ a = fl /\ fl2 = n
            /\ \A b \in F \ {a} : g[b].next = h[b].next
         \/ /\ p \in F /\ h[p].next = a /\ g[p].next = n /\ fl2 = fl
            /\ \A b \in F \ {a, p} : g[b].next = h[b].next
  PROVE  ListOf(g, fl2, (F \ {a}) \cup {n})
<1> DEFINE G == (F \ {a}) \cup {n}
<1>1. F \subseteq Pool /\ n \notin F /\ \A b \in Pool : b \in Nat /\ b # NULL
  BY PoolFacts DEF ListOf
<1>2. \A b \in F : fl <= b
  BY DEF ListOf
<1>3. \A b \in F : \/ h[b].next = NULL /\ \A c \in F : c <= b
                   \/ /\ h[b].next \in F /\ b < h[b].next
                      /\ \A c \in F : c <= b \/ h[b].next <= c
  BY DEF ListOf
<1>4. CASE /\ p \in F /\ h[p].next = a /\ g[p].next = n /\ fl2 = fl
           /\ \A b \in F \ {a, p} : g[b].next = h[b].next
  <2>1. p < a /\ p # a /\ fl # a
    BY <1>1, <1>2, <1>3, <1>4 DEF ListOf
  <2>2. fl2 \in G /\ \A b \in G : fl2 <= b
    BY <1>1, <1>2, <1>4, <2>1 DEF ListOf
  <2>3. \A b \in F : b # a => \/ h[b].next # a /\ g[b].next = h[b].next
                              \/ b = p /\ g[b].next = n
    BY <1>1, <1>3, <1>4
  <2>4. ASSUME NEW b \in G
        PROVE  \/ g[b].next = NULL /\ \A c \in G : c <= b
               \/ g[b].next \in G /\ b < g[b].next /\ \A c \in G : c <= b \/ g[b].next <= c
    <3>1. CASE b = n
      BY <1>1, <1>3, <3>1
    <3>2. CASE b = p
      BY <1>1, <1>3, <1>4, <2>1, <3>2
    <3>3. CASE b \notin {n, p}
      BY <1>1, <1>3, <2>3, <3>3
    <3> QED BY <3>1, <3>2, <3>3
  <2> QED BY <1>1, <2>2, <2>4 DEF ListOf
<1>5. CASE a = fl /\ fl2 = n /\ \A b \in F \ {a} : g[b].next = h[b].next
  <2>1. fl2 \in G /\ \A b \in G : fl2 <= b
    BY <1>1, <1>2, <1>5
  <2>2. \A b \in F : b # a => h[b].next # a /\ g[b].next = h[b].next
    BY <1>1, <1>2, <1>3, <1>5
  <2>3. ASSUME NEW b \in G
        PROVE  \/ g[b].next = NULL /\ \A c \in G : c <= b
               \/ g[b].next \in G /\ b < g[b].next /\ \A c \in G : c <= b \/ g[b].next <= c
    BY <1>1, <1>3, <2>2
  <2> QED BY <1>1, <2>1, <2>3 DEF ListOf
<1> QED BY <1>4, <1>5

\* A block is linked behind p.
LEMMA InsertList ==
  ASSUME NEW h, NEW g, NEW F, NEW fl, ListOf(h, fl, F),
         NEW a \in Pool, a \notin F, NEW p \in F, p < a,
         h[p].next = NULL \/ a < h[p].next,
         g[p].next = a, g[a].next = h[p].next,
         \A b \in F \ {p} : g[b].next = h[b].next
  PROVE  ListOf(g, fl, F \cup {a})
<1> DEFINE G == F \cup {a}
<1>1. F \subseteq Pool /\ \A b \in Pool : b \in Nat /\ b # NULL
  BY PoolFacts DEF ListOf
<1>2. \A b \in F : fl <= b
  BY DEF ListOf
<1>3. \A b \in F : \/ h[b].next = NULL /\ \A c \in F : c <= b
                   \/ /\ h[b].next \in F /\ b < h[b].next
                      /\ \A c \in F : c <= b \/ h[b].next <= c
  BY DEF ListOf
<1>4. fl \in G /\ \A b \in G : fl <= b
  BY <1>1, <1>2 DEF ListOf
<1>5. \A b \in F : b <= p \/ a < b
  BY <1>1, <1>3
<1>6. ASSUME NEW b \in G
      PROVE  \/ g[b].next = NULL /\ \A c \in G : c <= b
             \/ g[b].next \in G /\ b < g[b].next /\ \A c \in G : c <= b \/ g[b].next <= c
  <2>1. CASE b = a
    BY <1>1, <1>3, <1>5, <2>1
  <2>2. CASE b = p
    BY <1>1, <1>3, <1>5, <2>2
  <2>3. CASE b \notin {a, p}
    <3>1. b \in F /\ g[b].next = h[b].next /\ (b <= p \/ a < b)
      BY <1>5, <2>3
    <3>2. h[b].next = NULL => a < b
      BY <1>1, <1>3, <2>3, <3>1
    <3>3. h[b].next # NULL => a <= b \/ h[b].next <= a
      BY <1>1, <1>3, <2>3, <3>1
    <3> QED BY <1>1, <1>3, <3>1, <3>2, <3>3
  <2> QED BY <2>1, <2>2, <2>3
<1> QED BY <1>1, <1>4, <1>6 DEF ListOf

\* The block behind a is merged into it.
LEMMA RemoveList ==
  ASSUME NEW h, NEW g, NEW F, NEW fl, ListOf(h, fl, F),
         NEW a \in F, NEW n, n = h[a].next, n # NULL,
         g[a].next = h[n].next, \A b \in F \ {a, n} : g[b].next = h[b].next
  PROVE  ListOf(g, fl, F \ {n}) /\ n \in F /\ a < n
<1> DEFINE G == F \ {n}
<1>1. F \subseteq Pool /\ \A b \in Pool : b \in Nat /\ b # NULL
  BY PoolFacts DEF ListOf
<1>2. \A b \in F : fl <= b
  BY DEF ListOf
<1>3. \A b \in F : \/ h[b].next = NULL /\ \A c \in F : c <= b
                   \/ /\ h[b].next \in F /\ b < h[b].next
                      /\ \A c \in F : c <= b \/ h[b].next <= c
  BY DEF ListOf
<1>4. n \in F /\ a < n /\ \A b \in F : b <= a \/ n <= b
  BY <1>3
<1>5. fl \in G /\ \A b \in G : fl <= b
  BY <1>1, <1>2, <1>4 DEF ListOf
<1>6. ASSUME NEW b \in G
      PROVE  \/ g[b].next = NULL /\ \A c \in G : c <= b
             \/ g[b].next \in G /\ b < g[b].next /\ \A c \in G : c <= b \/ g[b].next <= c
  <2>1. CASE b = a
    BY <1>1, <1>3, <1>4, <2>1
  <2>2. CASE b # a
    <3>1. b \in F /\ b # n /\ g[b].next = h[b].next
      BY <2>2
    <3>2. h[b].next # n
      BY <1>1, <1>3, <1>4, <2>2, <3>1
    <3> QED BY <1>1, <1>3, <1>4, <3>1, <3>2
  <2> QED BY <2>1, <2>2
<1> QED BY <1>1, <1>4, <1>5, <1>6 DEF ListOf
-----------------------------------------------------------------------------
(***************************************************************************)
(* The invariant, up to the first search that fails or block that is not   *)
(* split.  F stands for what is on the free list, which is easier to reason*)
(* about than the recursive Listed.                                        *)
(***************************************************************************)

\* malloc.c 23-26: the free list and what callers hold partition the memory.
Whole(F) ==
  /\ ListOf(header, freelist, F)
  /\ Tiles(header, F \cup Held)
  /\ F \cap Held = {}
  /\ \A a \in F : header[a].state = "M_FREE"
  /\ \A a \in Held : header[a].size = held[a]

\* No neighbours are left on the list, or none that the loop has passed.
Apart(F) ==
  \A a, b \in F : After(header, a) = b => pc = "coalesce" /\ curr <= a

\* Where the three loops are in the list, and what they know of the part of it
\* that is behind them.
Behind(F) ==
  \/ prev = NULL /\ curr = freelist
  \/ prev \in F /\ header[prev].next = curr

Searches(F) ==
  /\ pc = "malloc" => /\ arg \in Requests /\ curr \in F /\ Behind(F)
                      /\ \A b \in F : b < curr => header[b].size < arg
  /\ pc = "free" => /\ arg \in Held /\ header[arg].state = "M_FREE"
                    /\ curr \in F \cup {NULL} /\ Behind(F)
                    /\ prev # NULL => prev < arg
  /\ pc = "coalesce" => curr \in F

Good(F) == Whole(F) /\ Apart(F) /\ Searches(F)

HeapInv == ~spoiled => TypeOK /\ \E F \in SUBSET Pool : Good(F)
-----------------------------------------------------------------------------
(***************************************************************************)
(* The heap as heap_init leaves it, and as the tests lay it out.           *)
(***************************************************************************)
D == HDR + BlockSize

LEMMA BlockFacts ==
  /\ D \in Nat /\ D > 0 /\ BlockSize \in Nat /\ BlockSize > 0 /\ BlockCount \in Nat
  /\ Block(1) = 1 + HDR + FirstSize /\ FirstSize \in Nat
  /\ pool_end + 1 = Block(BlockCount + 1)
  /\ \A i \in Nat : D * i \in Nat /\ Block(i + 1) = Block(1) + D * i
<1>1. /\ HDR \in Nat /\ HDR > 0 /\ FirstSize \in Nat /\ BlockSize \in Nat /\ BlockSize > 0
      /\ BlockCount \in Nat
  BY HeapAssumption
<1>2. D \in Nat /\ D > 0
  BY <1>1 DEF D
<1>3. Block(1) = 1 + HDR + FirstSize
  BY <1>1 DEF Block, mem_start
<1>4. ASSUME NEW i \in Nat PROVE D * i \in Nat /\ Block(i + 1) = Block(1) + D * i
  <2>1. i * (HDR + BlockSize) = D * i /\ D * i \in Nat
    BY <1>1, <1>2 DEF D
  <2>2. Block(i + 1) = 1 + HDR + FirstSize + (i + 1 - 1) * (HDR + BlockSize)
    BY DEF Block, mem_start
  <2>3. i + 1 - 1 = i
    OBVIOUS
  <2> QED BY <1>3, <2>1, <2>2, <2>3
<1>5. pool_end + 1 = Block(BlockCount + 1)
  <2>1. Block(BlockCount + 1) \in Nat
    <3>1. D * BlockCount \in Nat /\ Block(BlockCount + 1) = Block(1) + D * BlockCount
      BY <1>1, <1>4
    <3> QED BY <1>1, <1>3, <3>1
  <2> QED BY <2>1 DEF pool_end
<1> QED BY <1>1, <1>2, <1>3, <1>4, <1>5

LEMMA BlockOrder ==
  ASSUME NEW i \in Nat, NEW j \in Nat
  PROVE  /\ i < j => Block(i + 1) + D <= Block(j + 1)
         /\ Block(i + 2) = Block(i + 1) + D
         /\ Block(i + 1) \in Nat
<1>1. D * i \in Nat /\ D * j \in Nat /\ D * (i + 1) = D * i + D /\ D \in Nat
  BY BlockFacts
<1>2. Block(1) \in Nat
  BY BlockFacts, PoolFacts
<1>3. Block(i + 1) = Block(1) + D * i /\ Block(j + 1) = Block(1) + D * j
  BY BlockFacts
<1>4. Block(i + 2) = Block(1) + D * (i + 1)
  <2>1. i + 2 = (i + 1) + 1 /\ i + 1 \in Nat
    OBVIOUS
  <2> QED BY <2>1, BlockFacts
<1>5. i < j => D * i + D <= D * j
  BY BlockFacts, SMTT(30)
<1> QED BY <1>1, <1>2, <1>3, <1>4, <1>5

LEMMA InitGood == Init => HeapInv
<1> SUFFICES ASSUME Init PROVE TypeOK /\ \E F \in SUBSET Pool : Good(F)
  BY DEF HeapInv
<1> DEFINE F == {mem_start}
<1>0. /\ mem_start \in Pool /\ NULL \notin Pool /\ freelist = mem_start
      /\ pc = "idle" /\ prev = NULL /\ curr = NULL /\ arg = 0 /\ spoiled = FALSE
  BY PoolFacts DEF Init
<1>1. CASE HeapInit
  <2>1. pool_end - HDR \in Nat
    <3>1. pool_end + 1 = 1 + HDR + FirstSize + D * BlockCount /\ D * BlockCount \in Nat
      BY BlockFacts
    <3> QED BY <3>1, BlockFacts, PoolFacts
  <2>2. /\ header[mem_start] = Free(pool_end - HDR)
        /\ header \in [Pool -> Header] /\ held \in [Pool -> Nat] /\ Held = {}
    <3>1. HeapBytes \div WORD - HDR = pool_end - HDR
      BY PoolFacts, PoolAssumption
    <3>2. \A n \in Nat : Free(n) \in Header /\ Used(n) \in Header
      BY DEF Free, Used, Header
    <3> QED BY <1>0, <1>1, <2>1, <3>1, <3>2 DEF HeapInit, Held
  <2>3. TypeOK
    BY <1>0, <2>2 DEF TypeOK
  <2>4. header[mem_start].next = NULL /\ header[mem_start].state = "M_FREE"
    BY <2>2 DEF Free
  <2>5. After(header, mem_start) = pool_end + 1
    BY <2>1, <2>2, PoolFacts DEF After, Free
  <2>6. Tiles(header, F)
    BY <1>0, <2>5, PoolFacts DEF Tiles
  <2>7. ListOf(header, freelist, F)
    BY <1>0, <2>4, PoolFacts DEF ListOf
  <2>8. Whole(F)
    BY <2>2, <2>4, <2>6, <2>7 DEF Whole
  <2>9. Apart(F) /\ Searches(F)
    BY <1>0, <2>5, PoolFacts DEF Apart, Searches
  <2> QED BY <1>0, <2>3, <2>8, <2>9 DEF Good
<1>2. CASE TestsInit
  <2> DEFINE blocks == {Block(i) : i \in 1 .. BlockCount}
  <2>1. \A b \in blocks : \E i \in Nat : i < BlockCount /\ b = Block(i + 1)
    <3> TAKE b \in blocks
    <3>1. PICK j \in 1 .. BlockCount : b = Block(j)
      OBVIOUS
    <3>2. j - 1 \in Nat /\ j - 1 < BlockCount /\ (j - 1) + 1 = j
      BY BlockFacts
    <3> QED BY <3>1, <3>2
  <2>2. \A i \in Nat : i < BlockCount => Block(i + 1) \in blocks
    <3> TAKE i \in Nat
    <3>1. i < BlockCount => i + 1 \in 1 .. BlockCount
      BY BlockFacts
    <3> QED BY <3>1
  <2> HIDE DEF blocks
  <2>3. /\ header = [a \in Pool |-> IF a = mem_start THEN Free(FirstSize)
                                ELSE IF a \in blocks THEN Used(BlockSize) ELSE Used(0)]
        /\ held = [a \in Pool |-> IF a \in blocks THEN BlockSize ELSE 0]
    BY <1>2 DEF TestsInit, blocks
  <2>4. \A b \in blocks : b \in Pool /\ Block(1) <= b /\ b # mem_start /\ b + D <= pool_end + 1
    <3> TAKE b \in blocks
    <3>1. PICK i \in Nat : i < BlockCount /\ b = Block(i + 1)
      BY <2>1
    <3>2. b \in Nat /\ b + D <= pool_end + 1
      BY <3>1, BlockOrder, BlockFacts
    <3>3. Block(1) <= b
      BY <3>1, BlockFacts, PoolFacts
    <3> QED BY <3>2, <3>3, BlockFacts, PoolFacts
  <2>5. /\ header \in [Pool -> Header] /\ held \in [Pool -> Nat] /\ Held = blocks
    <3>1. \A n \in Nat : Free(n) \in Header /\ Used(n) \in Header
      BY DEF Free, Used, Header
    <3>2. FirstSize \in Nat /\ BlockSize \in Nat /\ BlockSize # 0
      BY BlockFacts
    <3>3. header \in [Pool -> Header] /\ held \in [Pool -> Nat]
      BY <2>3, <3>1, <3>2
    <3>4. Held = blocks
      BY <2>3, <2>4, <3>2 DEF Held
    <3> QED BY <3>3, <3>4
  <2>6. TypeOK
    BY <1>0, <2>5 DEF TypeOK
  <2>7. /\ header[mem_start].next = NULL /\ header[mem_start].state = "M_FREE"
        /\ header[mem_start].size = FirstSize
        /\ \A b \in blocks : header[b].size = BlockSize /\ held[b] = BlockSize
    BY <1>0, <2>3, <2>4 DEF Free, Used
  <2>8. /\ After(header, mem_start) = Block(1)
        /\ \A b \in blocks : After(header, b) = b + D
    <3>1. After(header, mem_start) = Block(1)
      BY <2>7, BlockFacts, PoolFacts DEF After
    <3>2. \A b \in blocks : b + BlockSize + HDR = b + D
      BY <2>4, BlockFacts, PoolFacts DEF D
    <3> QED BY <2>7, <3>1, <3>2 DEF After
  <2>9. Tiles(header, F \cup blocks)
    <3>1. \A a \in F \cup blocks : After(header, a) <= pool_end + 1
      <4>1. Block(1) <= pool_end + 1
        BY BlockFacts, PoolFacts
      <4> QED BY <2>4, <2>8, <4>1
    <3>2. \A a, b \in blocks : a < b => a + D <= b
      <4> TAKE a, b \in blocks
      <4>1. PICK i \in Nat : i < BlockCount /\ a = Block(i + 1)
        BY <2>1
      <4>2. PICK j \in Nat : j < BlockCount /\ b = Block(j + 1)
        BY <2>1
      <4>3. a \in Nat /\ b \in Nat
        BY <4>1, <4>2, BlockOrder
      <4>4. j < i => b + D <= a
        BY <4>1, <4>2, BlockOrder
      <4>5. i < j => a + D <= b
        BY <4>1, <4>2, BlockOrder
      <4>6. i = j \/ i < j \/ j < i
        OBVIOUS
      <4> QED BY <4>1, <4>2, <4>3, <4>4, <4>5, <4>6, BlockFacts
    <3>3. \A a, b \in F \cup blocks : a < b => After(header, a) <= b
      <4> TAKE a, b \in F \cup blocks
      <4>1. CASE b \in blocks
        BY <2>4, <2>8, <3>2, <4>1
      <4>2. CASE b = mem_start /\ a \in blocks
        BY <2>4, <4>2, PoolFacts
      <4>3. CASE b = mem_start /\ a = mem_start
        BY <4>3, PoolFacts
      <4> QED BY <4>1, <4>2, <4>3
    <3>4. \A x \in Pool : \E a \in F \cup blocks : a <= x /\ x < After(header, a)
      <4> TAKE x \in Pool
      <4>0. x \in Nat /\ x >= 1 /\ x < pool_end + 1 /\ Block(1) \in Nat
        BY PoolFacts, BlockFacts
      <4>1. CASE x < Block(1)
        BY <2>8, <4>0, <4>1, PoolFacts
      <4>2. CASE ~(x < Block(1))
        <5> DEFINE y == x - Block(1)
                   i == y \div D
        <5>1. y \in Nat /\ D \in Nat /\ D > 0
          BY <4>0, <4>2, BlockFacts
        <5> HIDE DEF y
        <5>2. i \in Nat /\ y % D \in 0 .. D - 1
          BY <5>1, Z3
        <5>3. y % D = y - i * D
          BY <5>1, Z3
        <5>4. i * D = D * i /\ D * i \in Nat
          BY <5>1, <5>2
        <5> HIDE DEF i
        <5>5. y = D * i + (y % D)
          BY <5>1, <5>2, <5>3, <5>4
        <5>6. Block(i + 1) = Block(1) + D * i
          BY <5>2, BlockFacts
        <5>7. Block(i + 1) <= x /\ x < Block(i + 1) + D
          BY <4>0, <5>1, <5>2, <5>4, <5>5, <5>6 DEF y
        <5>8. i < BlockCount
          <6>1. BlockCount < i => Block(BlockCount + 1) + D <= Block(i + 1)
            BY <5>2, BlockOrder, BlockFacts
          <6>2. BlockCount = i => Block(BlockCount + 1) = Block(i + 1)
            OBVIOUS
          <6>3. Block(BlockCount + 1) = pool_end + 1 /\ Block(i + 1) \in Nat /\ pool_end \in Nat
            BY <5>2, BlockOrder, BlockFacts, PoolFacts
          <6>4. ~(BlockCount < i) /\ BlockCount # i
            BY <4>0, <5>1, <5>7, <6>1, <6>2, <6>3
          <6> QED BY <5>2, <6>4, BlockFacts
        <5>9. Block(i + 1) \in blocks
          BY <2>2, <5>2, <5>8
        <5> QED BY <2>8, <5>7, <5>9
      <4> QED BY <4>1, <4>2
    <3>5. F \cup blocks \subseteq Pool
      BY <1>0, <2>4
    <3> QED BY <3>1, <3>3, <3>4, <3>5 DEF Tiles
  <2>10. ListOf(header, freelist, F)
    BY <1>0, <2>7, PoolFacts DEF ListOf
  <2>11. Whole(F)
    BY <2>4, <2>5, <2>7, <2>9, <2>10 DEF Whole
  <2>12. Apart(F) /\ Searches(F)
    BY <1>0, <2>8, BlockFacts, PoolFacts DEF Apart, Searches
  <2> QED BY <1>0, <2>6, <2>11, <2>12 DEF Good
<1> QED BY <1>1, <1>2 DEF Init
-----------------------------------------------------------------------------
(***************************************************************************)
(* One lemma for each action, with its new free list G.                    *)
(***************************************************************************)
LEMMA ListFacts ==
  ASSUME TypeOK, NEW F, Good(F)
  PROVE  /\ F \subseteq Pool /\ freelist \in F
         /\ \A a \in Pool : a \in Nat /\ a # NULL
         /\ \A a \in F : freelist <= a
         /\ \A a \in F :
              \/ header[a].next = NULL /\ \A b \in F : b <= a
              \/ /\ header[a].next \in F /\ a < header[a].next
                 /\ \A b \in F : b <= a \/ header[a].next <= b
         /\ \A a, b \in F : a < b => After(header, a) <= b
         /\ \A a \in F : header[a].state = "M_FREE"
         /\ Held \subseteq Pool
BY PoolFacts DEF Good, Whole, ListOf, Tiles, Held

LEMMA MallocCallGood ==
  ASSUME TypeOK, NEW F, Good(F), NEW n \in Requests, MallocCall(n)
  PROVE  TypeOK' /\ Good(F)'
<1>1. /\ pc = "idle" /\ pc' = "malloc" /\ arg' = n /\ prev' = NULL /\ curr' = freelist
      /\ header' = header /\ freelist' = freelist /\ held' = held /\ spoiled' = spoiled
  BY DEF MallocCall, MayCall
<1>2. TypeOK'
  BY <1>1, HeapAssumption DEF TypeOK
<1>3. Whole(F)'
  BY <1>1 DEF Good, Whole, ListOf, Tiles, Held, After
<1>4. Apart(F)'
  BY <1>1 DEF Good, Apart, After
<1>5. Searches(F)'
  BY <1>1, ListFacts DEF Searches, Behind
<1> QED BY <1>2, <1>3, <1>4, <1>5 DEF Good

LEMMA MallocSkipsGood ==
  ASSUME TypeOK, NEW F, Good(F), MallocSkips
  PROVE  TypeOK' /\ Good(F)'
<1>1. /\ pc = "malloc" /\ pc' = "malloc" /\ arg' = arg /\ prev' = curr
      /\ curr' = header[curr].next /\ header[curr].next # NULL /\ ~Fits(header[curr], arg)
      /\ header' = header /\ freelist' = freelist /\ held' = held /\ spoiled' = spoiled
  BY DEF MallocSkips
<1>2. curr \in F /\ arg \in Requests /\ \A b \in F : b < curr => header[b].size < arg
  BY <1>1 DEF Good, Searches
<1>3. curr' \in F /\ curr < curr' /\ \A b \in F : b <= curr \/ curr' <= b
  BY <1>1, <1>2, ListFacts
<1>4. header[curr].size < arg
  <2>1. header[curr].state = "M_FREE" /\ curr \in Pool
    BY <1>2, ListFacts
  <2>2. header[curr].size \in Nat /\ arg \in Nat
    BY <2>1 DEF TypeOK, Header
  <2> QED BY <1>1, <2>1, <2>2 DEF Fits
<1>5. TypeOK'
  BY <1>1, <1>2, <1>3, ListFacts DEF TypeOK
<1>6. Whole(F)'
  BY <1>1 DEF Good, Whole, ListOf, Tiles, Held, After
<1>7. Apart(F)'
  BY <1>1 DEF Good, Apart, After
<1>8. \A b \in F : b < curr' => header[b].size < arg
  BY <1>2, <1>3, <1>4, ListFacts
<1>9. Searches(F)'
  BY <1>1, <1>2, <1>3, <1>8 DEF Searches, Behind
<1> QED BY <1>5, <1>6, <1>7, <1>9 DEF Good

LEMMA MallocSplitsGood ==
  ASSUME TypeOK, NEW F, Good(F), MallocSplits
  PROVE  TypeOK' /\ \E G \in SUBSET Pool : Good(G)'
<1>1. /\ pc = "malloc" /\ Fits(header[curr], arg) /\ Splits(header[curr].size, arg)
      /\ held' = [held EXCEPT ![curr] = arg]
      /\ pc' = "idle" /\ prev' = NULL /\ curr' = NULL /\ arg' = 0 /\ spoiled' = spoiled
  BY DEF MallocSplits, Return
<1>2. curr \in F /\ arg \in Requests /\ Behind(F)
  BY <1>1 DEF Good, Searches
<1>3. /\ header \in [Pool -> Header] /\ held \in [Pool -> Nat] /\ curr \in Pool
      /\ arg \in Nat /\ arg # 0 /\ HDR \in Nat /\ HDR > 0
  BY <1>2, ListFacts, HeapAssumption, PoolFacts DEF TypeOK
<1>4. PICK a : a = curr
  OBVIOUS
<1>5. PICK n : n = a + arg + HDR
  OBVIOUS
<1>6. PICK s : s = header[a].size
  OBVIOUS
<1>7. /\ a \in Nat /\ s \in Nat /\ s - HDR - arg \in Nat /\ a < n /\ n \in Nat
      /\ n < After(header, a) /\ After(header, a) \in Nat
  <2>1. s \in Nat /\ a \in Nat
    BY <1>3, <1>4, <1>6, PoolFacts DEF Header
  <2>2. s - arg >= HDR
    BY <1>1, <1>4, <1>6 DEF Splits
  <2>3. After(header, a) = a + s + HDR
    BY <1>6 DEF After
  <2> QED BY <1>3, <1>5, <2>1, <2>2, <2>3
<1>8. n \in Pool
  <2>1. After(header, a) <= pool_end + 1
    BY <1>2, <1>4 DEF Good, Whole, Tiles
  <2> QED BY <1>7, <2>1, PoolFacts
<1> DEFINE rest == [header[a] EXCEPT !.size = s - HDR - arg]
           split == [header EXCEPT ![n] = rest, ![a] = Used(arg)]
<1>9. \/ prev = NULL /\ freelist' = n /\ header' = split
      \/ prev # NULL /\ freelist' = freelist /\ header' = [split EXCEPT ![prev].next = n]
  <2>1. [header[curr] EXCEPT !.size = @ - HDR - arg] = rest
    BY <1>4, <1>6
  <2> QED BY <1>4, <1>5, <2>1 DEF MallocSplits
<1>10. \/ prev = NULL /\ a = freelist
       \/ prev \in F /\ header[prev].next = a /\ prev # NULL
  BY <1>2, <1>4, ListFacts DEF Behind
<1>11. prev # NULL => prev \in Pool /\ prev < a /\ prev # n
  BY <1>2, <1>3, <1>4, <1>7, <1>10, ListFacts
<1>12. /\ rest \in Header /\ rest.size = s - HDR - arg /\ rest.next = header[a].next
       /\ rest.state = header[a].state
       /\ Used(arg) \in Header /\ Used(arg).size = arg
  BY <1>3, <1>4, <1>7 DEF Header, Used
<1> HIDE DEF rest
<1>13. /\ split \in [Pool -> Header] /\ split[n] = rest /\ split[a] = Used(arg)
       /\ \A b \in Pool \ {a, n} : split[b] = header[b]
  BY <1>3, <1>4, <1>7, <1>8, <1>12
<1> HIDE DEF split
<1>14. /\ header' \in [Pool -> Header]
       /\ header'[n] = rest /\ header'[a] = Used(arg)
       /\ \A b \in Pool \ {a, n} :
            header'[b].size = header[b].size /\ header'[b].state = header[b].state
       /\ \A b \in Pool \ {a, n, prev} : header'[b].next = header[b].next
       /\ prev # NULL => header'[prev].next = n
  <2>1. CASE prev = NULL
    BY <1>9, <1>13, <2>1
  <2>2. CASE prev # NULL
    <3>1. header' = [split EXCEPT ![prev].next = n] /\ prev \in Pool /\ prev # a /\ prev # n
      BY <1>7, <1>9, <1>11, <2>2, PoolFacts
    <3>2. split[prev] \in Header /\ header'[prev] = [split[prev] EXCEPT !.next = n]
      BY <1>13, <3>1
    <3>3. /\ header'[prev] \in Header /\ header'[prev].next = n
          /\ header'[prev].size = split[prev].size /\ header'[prev].state = split[prev].state
      BY <1>8, <3>2 DEF Header
    <3>4. \A b \in Pool \ {prev} : header'[b] = split[b]
      BY <1>13, <3>1
    <3>5. header' \in [Pool -> Header]
      BY <1>13, <3>1, <3>3
    <3> QED BY <1>7, <1>8, <1>13, <3>1, <3>3, <3>4, <3>5
  <2> QED BY <2>1, <2>2
<1>15. PICK h : h = header
  OBVIOUS
<1>16. PICK g : g = header'
  OBVIOUS
<1>17. PICK G : G = (F \ {a}) \cup {n}
  OBVIOUS
<1>18. PICK B : B = F \cup Held
  OBVIOUS
<1>19. Tiles(h, B) /\ F \cap Held = {} /\ \A b \in Held : h[b].size = held[b]
  BY <1>15, <1>18 DEF Good, Whole
<1>20. After(g, a) = n /\ After(g, n) = After(h, a)
  <2>1. g[a].size = arg /\ g[n].size = s - HDR - arg /\ h[a].size = s
    BY <1>6, <1>12, <1>14, <1>15, <1>16
  <2> QED BY <1>3, <1>5, <1>7, <2>1 DEF After
<1>21. B \subseteq Pool /\ \A b \in B \ {a} : b # n => g[b].size = h[b].size
  BY <1>14, <1>15, <1>16, <1>19 DEF Tiles
<1>22. \A b \in B : b <= a \/ n < b
  <2>1. \A b \in B : a < b => After(h, a) <= b
    BY <1>2, <1>4, <1>18, <1>19 DEF Tiles
  <2> QED BY <1>7, <1>15, <1>21, <2>1, PoolFacts
<1>23. n \notin B
  BY <1>7, <1>22
<1>24. Tiles(g, B \cup {n})
  <2>1. \A b \in B \ {a} : g[b].size = h[b].size
    BY <1>21, <1>23
  <2>2. h \in [Pool -> Header] /\ g \in [Pool -> Header] /\ a \in B
    BY <1>2, <1>3, <1>4, <1>14, <1>15, <1>16, <1>18
  <2> QED BY <1>7, <1>8, <1>19, <1>20, <2>1, <2>2, SplitTiles
<1>25. Held' = Held \cup {a}
  <2>1. held' = [held EXCEPT ![a] = arg]
    BY <1>1, <1>4
  <2> QED BY <1>3, <1>4, <2>1 DEF Held
<1>26. a \in F /\ B \cup {n} = G \cup Held'
  BY <1>2, <1>4, <1>17, <1>18, <1>25
<1>27. ListOf(g, freelist', G)
  <2>1. ListOf(h, freelist, F)
    BY <1>15 DEF Good, Whole
  <2>2. g[n].next = h[a].next
    BY <1>12, <1>14, <1>15, <1>16
  <2>3. \A b \in F : b \in Pool /\ b # n
    BY <1>18, <1>21, <1>23
  <2>4. \/ /\ a = freelist /\ freelist' = n
           /\ \A b \in F \ {a} : g[b].next = h[b].next
        \/ /\ prev \in F /\ h[prev].next = a /\ g[prev].next = n /\ freelist' = freelist
           /\ \A b \in F \ {a, prev} : g[b].next = h[b].next
    <3>1. CASE prev = NULL
      BY <1>9, <1>10, <1>14, <1>15, <1>16, <2>3, <3>1, ListFacts
    <3>2. CASE prev # NULL
      BY <1>9, <1>10, <1>14, <1>15, <1>16, <2>3, <3>2
    <3> QED BY <3>1, <3>2
  <2>5. \A b \in F : b <= a \/ n < b
    BY <1>18, <1>22
  <2> QED BY <1>7, <1>8, <1>17, <1>26, <2>1, <2>2, <2>4, <2>5, SplitList
<1>28. Whole(G)'
  <2>1. G \cap Held' = {}
    BY <1>7, <1>17, <1>18, <1>19, <1>23, <1>25
  <2>2. \A b \in G : g[b].state = "M_FREE"
    <3>1. \A b \in F : h[b].state = "M_FREE" /\ b \in Pool
      BY <1>15, ListFacts
    <3> QED BY <1>4, <1>12, <1>14, <1>15, <1>16, <1>17, <1>26, <3>1
  <2>3. \A b \in Held' : g[b].size = held'[b]
    <3>1. g[a].size = arg /\ held'[a] = arg
      BY <1>1, <1>3, <1>4, <1>12, <1>14, <1>16
    <3>2. \A b \in Held : b # a /\ b # n /\ b \in Pool
      BY <1>18, <1>19, <1>21, <1>23, <1>26
    <3>3. \A b \in Held : held'[b] = held[b] /\ g[b].size = h[b].size
      BY <1>1, <1>3, <1>4, <1>14, <1>15, <1>16, <3>2
    <3> QED BY <1>19, <1>25, <3>1, <3>3
  <2>4. Tiles(g, G \cup Held')
    BY <1>24, <1>26
  <2> QED BY <1>16, <1>27, <2>1, <2>2, <2>3, <2>4 DEF Whole
<1>29. Apart(G)'
  <2>1. \A b, c \in F : After(h, b) # c
    BY <1>1, <1>15 DEF Good, Apart
  <2>2. \A b \in Pool : After(g, b) \in Nat /\ b < After(g, b)
    <3>1. g \in [Pool -> Header]
      BY <1>14, <1>16
    <3> QED BY <3>1, AfterType
  <2>3. \A b \in F \ {a} : After(g, b) = After(h, b)
    BY <1>18, <1>21, <1>23 DEF After
  <2>4. \A b \in F \ {a} : After(h, b) # n
    <3>1. \A b \in F : b < a => After(h, b) <= a
      BY <1>15, <1>26, ListFacts
    <3>2. \A b \in F \ {a} : b <= a \/ n < b
      BY <1>18, <1>22
    <3>3. \A b \in F \ {a} : b \in Nat /\ After(h, b) \in Nat /\ b < After(h, b)
      BY <1>18, <1>21, <2>2, <2>3, PoolFacts
    <3> QED BY <1>7, <3>1, <3>2, <3>3
  <2>5. \A b, c \in G : After(g, b) # c
    <3>1. \A b \in G : After(g, b) # n
      BY <1>7, <1>8, <1>17, <2>2, <2>3, <2>4
    <3>2. \A b \in G, c \in F : After(g, b) # c
      BY <1>17, <1>20, <1>26, <2>1, <2>3
    <3> QED BY <1>17, <3>1, <3>2
  <2> QED BY <1>16, <2>5 DEF Apart
<1>30. Searches(G)'
  BY <1>1 DEF Searches
<1>31. G \subseteq Pool
  BY <1>8, <1>17, ListFacts
<1>32. TypeOK'
  <2>1. freelist' \in Pool
    BY <1>27, <1>31 DEF ListOf
  <2>2. held' \in [Pool -> Nat]
    BY <1>1, <1>3
  <2> QED BY <1>1, <1>14, <2>1, <2>2 DEF TypeOK
<1> QED BY <1>28, <1>29, <1>30, <1>31, <1>32 DEF Good

LEMMA FreeCallGood ==
  ASSUME TypeOK, NEW F, Good(F), NEW a \in Pool, FreeCall(a)
  PROVE  TypeOK' /\ Good(F)'
<1>1. /\ pc = "idle" /\ pc' = "free" /\ arg' = a /\ prev' = NULL /\ curr' = freelist
      /\ header' = [header EXCEPT ![a].state = "M_FREE"] /\ held[a] # 0
      /\ freelist' = freelist /\ held' = held /\ spoiled' = spoiled
  BY DEF FreeCall, MayCall
<1>2. /\ header' \in [Pool -> Header] /\ header'[a].state = "M_FREE"
      /\ \A b \in Pool : header'[b].size = header[b].size /\ header'[b].next = header[b].next
      /\ \A b \in Pool \ {a} : header'[b].state = header[b].state
  BY <1>1 DEF TypeOK, Header
<1>3. TypeOK'
  BY <1>1, <1>2, PoolFacts DEF TypeOK
<1>4. a \in Held /\ Held' = Held
  BY <1>1 DEF Held
<1>5. \A b \in Pool : After(header', b) = After(header, b)
  BY <1>2 DEF After
<1>6. Whole(F)'
  <2>1. ListOf(header', freelist', F)
    BY <1>1, <1>2, ListFacts DEF Good, Whole, ListOf
  <2>2. Tiles(header', F \cup Held)
    BY <1>5 DEF Good, Whole, Tiles
  <2> QED BY <1>1, <1>2, <1>4, <2>1, <2>2, ListFacts DEF Good, Whole
<1>7. Apart(F)'
  BY <1>1, <1>5, ListFacts DEF Good, Apart
<1>8. Searches(F)'
  BY <1>1, <1>2, <1>4, ListFacts DEF Searches, Behind
<1> QED BY <1>3, <1>6, <1>7, <1>8 DEF Good

LEMMA FreeSkipsGood ==
  ASSUME TypeOK, NEW F, Good(F), FreeSkips
  PROVE  TypeOK' /\ Good(F)'
<1>1. /\ pc = "free" /\ pc' = "free" /\ arg' = arg /\ prev' = curr
      /\ curr' = header[curr].next /\ curr < arg /\ curr # NULL
      /\ header' = header /\ freelist' = freelist /\ held' = held /\ spoiled' = spoiled
  BY DEF FreeSkips
<1>2. curr \in F /\ arg \in Held /\ header[arg].state = "M_FREE"
  BY <1>1 DEF Good, Searches
<1>3. curr' \in F \cup {NULL}
  BY <1>1, <1>2, ListFacts
<1>4. TypeOK'
  BY <1>1, <1>2, <1>3, ListFacts DEF TypeOK
<1>5. Whole(F)'
  BY <1>1 DEF Good, Whole, ListOf, Tiles, Held, After
<1>6. Apart(F)'
  BY <1>1 DEF Good, Apart, After
<1>7. Searches(F)'
  <2>1. Held' = Held
    BY <1>1 DEF Held
  <2> QED BY <1>1, <1>2, <1>3, <2>1 DEF Searches, Behind
<1> QED BY <1>4, <1>5, <1>6, <1>7 DEF Good

LEMMA FreeLinksGood ==
  ASSUME TypeOK, NEW F, Good(F), FreeLinks
  PROVE  TypeOK' /\ \E G \in SUBSET Pool : Good(G)'
<1>1. /\ pc = "free" /\ ~(curr < arg /\ curr # NULL) /\ prev # NULL
      /\ header' = [header EXCEPT ![prev].next = arg, ![arg].next = curr]
      /\ held' = [held EXCEPT ![arg] = 0]
      /\ pc' = "coalesce" /\ curr' = freelist
      /\ freelist' = freelist /\ prev' = prev /\ arg' = arg /\ spoiled' = spoiled
  BY DEF FreeLinks
<1>2. /\ arg \in Held /\ curr \in F \cup {NULL} /\ prev \in F /\ header[prev].next = curr
      /\ prev < arg
  BY <1>1 DEF Good, Searches, Behind
<1>3. PICK a : a = arg
  OBVIOUS
<1>4. PICK h : h = header
  OBVIOUS
<1>5. PICK g : g = header'
  OBVIOUS
<1>6. PICK G : G = F \cup {a}
  OBVIOUS
<1>7. /\ a \in Pool /\ a \in Held /\ a \notin F /\ prev \in Pool /\ prev # a
      /\ h \in [Pool -> Header] /\ held \in [Pool -> Nat] /\ h[a].state = "M_FREE"
  <2>1. a \in Pool /\ a \in Held /\ prev \in Pool /\ h \in [Pool -> Header]
    BY <1>2, <1>3, <1>4, ListFacts DEF TypeOK
  <2>2. a \notin F /\ held \in [Pool -> Nat]
    BY <2>1 DEF Good, Whole, TypeOK
  <2>3. header[arg].state = "M_FREE"
    BY <1>1 DEF Good, Searches
  <2> QED BY <1>2, <1>3, <1>4, <2>1, <2>2, <2>3
<1>8. /\ g \in [Pool -> Header] /\ g[prev].next = a /\ g[a].next = curr
      /\ \A b \in Pool : g[b].size = h[b].size /\ g[b].state = h[b].state
      /\ \A b \in Pool \ {a, prev} : g[b].next = h[b].next
  <2>1. curr \in Pool \cup {NULL}
    BY <1>2, ListFacts
  <2> DEFINE k == [h EXCEPT ![prev].next = a]
  <2>2. g = [k EXCEPT ![a].next = curr]
    BY <1>1, <1>3, <1>4, <1>5
  <2>3. /\ k \in [Pool -> Header] /\ k[prev].next = a
        /\ \A b \in Pool : k[b].size = h[b].size /\ k[b].state = h[b].state
        /\ \A b \in Pool \ {prev} : k[b].next = h[b].next
    BY <1>7 DEF Header
  <2> HIDE DEF k
  <2> QED BY <1>7, <2>1, <2>2, <2>3 DEF Header
<1>9. Held' = Held \ {a}
  BY <1>1, <1>3, <1>7 DEF Held
<1>10. \A b \in Pool : After(g, b) = After(h, b)
  BY <1>8 DEF After
<1>11. G \subseteq Pool /\ F \cup Held = G \cup Held'
  BY <1>6, <1>7, <1>9, ListFacts
<1>12. ListOf(g, freelist', G)
  <2>1. h[prev].next = NULL \/ a < h[prev].next
    <3>1. CASE curr = NULL
      BY <1>2, <1>4, <3>1
    <3>2. CASE curr # NULL
      <4>1. curr \in Pool /\ curr # a /\ ~(curr < a)
        BY <1>1, <1>2, <1>3, <1>7, <3>2, ListFacts
      <4>2. a < curr
        BY <1>7, <4>1, PoolFacts
      <4> QED BY <1>2, <1>4, <4>2
    <3> QED BY <3>1, <3>2
  <2>2. ListOf(h, freelist, F)
    BY <1>4 DEF Good, Whole
  <2>3. \A b \in F \ {prev} : g[b].next = h[b].next
    BY <1>7, <1>8, ListFacts
  <2>4. ListOf(g, freelist, F \cup {a})
    BY <1>2, <1>3, <1>4, <1>7, <1>8, <2>1, <2>2, <2>3, InsertList
  <2> QED BY <1>1, <1>6, <2>4
<1>13. Whole(G)'
  <2>1. Tiles(g, G \cup Held')
    BY <1>4, <1>10, <1>11 DEF Good, Whole, Tiles
  <2>2. G \cap Held' = {}
    BY <1>6, <1>9 DEF Good, Whole
  <2>3. \A b \in G : g[b].state = "M_FREE"
    BY <1>4, <1>6, <1>7, <1>8, ListFacts
  <2>4. \A b \in Held' : g[b].size = held'[b]
    <3>1. \A b \in Held' : b \in Held /\ b \in Pool /\ held'[b] = held[b]
      BY <1>1, <1>3, <1>7, <1>9, ListFacts
    <3> QED BY <1>4, <1>8, <3>1 DEF Good, Whole
  <2> QED BY <1>5, <1>12, <2>1, <2>2, <2>3, <2>4 DEF Whole
<1>14. freelist \in F /\ \A b \in G : freelist <= b
  BY <1>1, <1>12 DEF ListOf, Good, Whole
<1>15. Apart(G)'
  BY <1>1, <1>14 DEF Apart
<1>16. Searches(G)'
  BY <1>1, <1>6, <1>14 DEF Searches
<1>17. TypeOK'
  <2>1. freelist' \in Pool /\ curr' \in Pool
    BY <1>1, <1>14, ListFacts
  <2>2. held' \in [Pool -> Nat]
    BY <1>1, <1>7
  <2> QED BY <1>1, <1>5, <1>8, <2>1, <2>2 DEF TypeOK
<1> QED BY <1>11, <1>13, <1>15, <1>16, <1>17 DEF Good

LEMMA FreeUndefinedGood ==
  ASSUME TypeOK, NEW F, Good(F), FreeUndefined
  PROVE  TypeOK' /\ Good(F)'
<1>1. /\ pc = "free" /\ pc' = "undefined" /\ arg' = arg /\ prev' = prev /\ curr' = curr
      /\ header' = header /\ freelist' = freelist /\ held' = held /\ spoiled' = spoiled
  BY DEF FreeUndefined, locals
<1>2. TypeOK'
  BY <1>1 DEF TypeOK
<1>3. Whole(F)'
  BY <1>1 DEF Good, Whole, ListOf, Tiles, Held, After
<1>4. Apart(F)'
  BY <1>1 DEF Good, Apart, After
<1>5. Searches(F)'
  BY <1>1 DEF Searches
<1> QED BY <1>2, <1>3, <1>4, <1>5 DEF Good

LEMMA CoalesceMergesGood ==
  ASSUME TypeOK, NEW F, Good(F), CoalesceMerges
  PROVE  TypeOK' /\ \E G \in SUBSET Pool : Good(G)'
<1>1. PICK a : a = curr
  OBVIOUS
<1>2. PICK n : n = header[a].next
  OBVIOUS
<1>3. PICK h : h = header
  OBVIOUS
<1>4. PICK g : g = header'
  OBVIOUS
<1>5. PICK G : G = F \ {n}
  OBVIOUS
<1>6. /\ pc = "coalesce" /\ a # NULL /\ n # NULL /\ After(h, a) = n
      /\ g = [h EXCEPT ![a].size = Merged(@, h[n].size), ![a].next = h[n].next]
      /\ curr' = a /\ freelist' = freelist /\ pc' = pc /\ prev' = prev /\ arg' = arg
      /\ held' = held /\ spoiled' = spoiled
  BY <1>1, <1>2, <1>3, <1>4 DEF CoalesceMerges, MoreToCoalesce, EndOf, After, AfterMerge
<1>7. a \in F /\ a \in Pool /\ n \in F /\ n \in Pool /\ a < n /\ a # n
  <2>1. a \in F
    BY <1>1, <1>6 DEF Good, Searches
  <2> QED BY <1>2, <1>6, <2>1, ListFacts
<1>8. /\ h \in [Pool -> Header]
      /\ h[a].size \in Nat /\ h[n].size \in Nat /\ h[n].next \in Pool \cup {NULL}
      /\ HDR \in Nat
  BY <1>3, <1>7, PoolFacts DEF TypeOK, Header
<1>9. /\ g \in [Pool -> Header]
      /\ g[a].size = h[a].size + h[n].size + HDR /\ g[a].next = h[n].next
      /\ \A b \in Pool : g[b].state = h[b].state
      /\ \A b \in Pool \ {a} : g[b] = h[b]
  <2>1. PICK s : s = h[a].size + h[n].size + HDR
    OBVIOUS
  <2>2. s \in Nat
    BY <1>8, <2>1
  <2>3. g = [h EXCEPT ![a].size = s, ![a].next = h[n].next]
    BY <1>6, <2>1 DEF Merged
  <2> QED BY <1>7, <1>8, <2>1, <2>2, <2>3 DEF Header
<1>10. After(g, a) = After(h, n)
  BY <1>6, <1>7, <1>8, <1>9, PoolFacts DEF After
<1>11. ListOf(g, freelist, G)
  <2>1. ListOf(h, freelist, F) /\ \A b \in F \ {a, n} : g[b].next = h[b].next
    BY <1>3, <1>9, ListFacts DEF Good, Whole
  <2>2. n = h[a].next /\ n # NULL /\ g[a].next = h[n].next /\ a \in F
    BY <1>2, <1>3, <1>6, <1>7, <1>9
  <2>3. ListOf(g, freelist, F \ {n})
    BY <2>1, <2>2, RemoveList
  <2> QED BY <1>5, <2>3
<1>12. Held' = Held /\ F \cap Held = {} /\ (F \cup Held) \ {n} = G \cup Held
  BY <1>5, <1>6, <1>7 DEF Held, Good, Whole
<1>13. Tiles(g, G \cup Held)
  <2>1. PICK B : B = F \cup Held
    OBVIOUS
  <2>2. Tiles(h, B)
    BY <1>3, <2>1 DEF Good, Whole
  <2>3. \A b \in B \ {a, n} : g[b].size = h[b].size
    BY <1>9, <2>1, ListFacts
  <2>4. Tiles(g, B \ {n})
    <3>1. a \in B /\ n \in B /\ After(h, a) = n
      BY <1>6, <1>7, <2>1
    <3> QED BY <1>8, <1>9, <1>10, <2>2, <2>3, <3>1, MergeTiles
  <2> QED BY <1>12, <2>1, <2>4
<1>14. Whole(G)'
  <2>1. \A b \in G : g[b].state = "M_FREE"
    BY <1>3, <1>5, <1>9, ListFacts
  <2>2. \A b \in Held : g[b].size = held[b]
    <3>1. \A b \in Held : b \in Pool \ {a}
      BY <1>7, <1>12, ListFacts
    <3> QED BY <1>3, <1>9, <3>1 DEF Good, Whole
  <2>3. G \cap Held = {}
    BY <1>5, <1>12
  <2> QED BY <1>4, <1>6, <1>11, <1>12, <1>13, <2>1, <2>2, <2>3 DEF Whole
<1>15. Apart(G)'
  <2>1. \A b, c \in F : After(h, b) = c => a <= b
    BY <1>1, <1>3 DEF Good, Apart
  <2>2. \A b \in F \ {a} : After(g, b) = After(h, b)
    BY <1>9, ListFacts DEF After
  <2>3. \A b, c \in G : After(g, b) = c => a <= b
    BY <1>5, <1>7, <2>1, <2>2, ListFacts
  <2> QED BY <1>4, <1>6, <2>3 DEF Apart
<1>16. Searches(G)'
  BY <1>5, <1>6, <1>7 DEF Searches
<1>17. G \subseteq Pool
  BY <1>5, ListFacts
<1>18. TypeOK'
  BY <1>4, <1>6, <1>7, <1>9 DEF TypeOK
<1> QED BY <1>14, <1>15, <1>16, <1>17, <1>18 DEF Good

LEMMA CoalesceSkipsGood ==
  ASSUME TypeOK, NEW F, Good(F), CoalesceSkips
  PROVE  TypeOK' /\ Good(F)'
<1>1. /\ pc = "coalesce" /\ pc' = "coalesce" /\ arg' = arg /\ prev' = prev
      /\ curr' = header[curr].next /\ curr # NULL /\ header[curr].next # NULL
      /\ After(header, curr) # header[curr].next
      /\ header' = header /\ freelist' = freelist /\ held' = held /\ spoiled' = spoiled
  BY DEF CoalesceSkips, MoreToCoalesce, Onward, EndOf, After
<1>2. curr \in F
  BY <1>1 DEF Good, Searches
<1>3. curr' \in F /\ curr < curr' /\ \A b \in F : b <= curr \/ curr' <= b
  BY <1>1, <1>2, ListFacts
<1>4. TypeOK'
  BY <1>1, <1>2, <1>3, ListFacts DEF TypeOK
<1>5. Whole(F)'
  BY <1>1 DEF Good, Whole, ListOf, Tiles, Held, After
<1>6. \A b, c \in F : After(header, b) = c => curr' <= b
  <2> SUFFICES ASSUME NEW b \in F, NEW c \in F, After(header, b) = c, ~(curr' <= b)
               PROVE  FALSE
    OBVIOUS
  <2>1. curr <= b
    BY <1>1 DEF Good, Apart
  <2>2. b = curr
    <3>1. b \in Nat /\ curr \in Nat /\ b <= curr
      BY <1>2, <1>3, ListFacts
    <3> QED BY <2>1, <3>1
  <2>3. curr < c /\ After(header, curr) <= curr'
    <3>1. header \in [Pool -> Header] /\ curr \in Pool
      BY <1>2, ListFacts DEF TypeOK
    <3> QED BY <1>2, <1>3, <2>2, <3>1, AfterType, ListFacts
  <2> QED BY <1>1, <1>2, <1>3, <2>2, <2>3, ListFacts
<1>7. Apart(F)'
  BY <1>1, <1>6 DEF Apart
<1>8. Searches(F)'
  BY <1>1, <1>3 DEF Searches
<1> QED BY <1>4, <1>5, <1>7, <1>8 DEF Good

LEMMA FreeReturnsGood ==
  ASSUME TypeOK, NEW F, Good(F), FreeReturns
  PROVE  TypeOK' /\ Good(F)'
<1>1. /\ pc = "coalesce" /\ ~(curr # NULL /\ header[curr].next # NULL)
      /\ pc' = "idle" /\ prev' = NULL /\ curr' = NULL /\ arg' = 0
      /\ header' = header /\ freelist' = freelist /\ held' = held /\ spoiled' = spoiled
  BY DEF FreeReturns, MoreToCoalesce, Return
<1>2. curr \in F
  BY <1>1 DEF Good, Searches
<1>3. \A b \in F : b <= curr
  BY <1>1, <1>2, ListFacts
<1>4. TypeOK'
  BY <1>1 DEF TypeOK
<1>5. Whole(F)'
  BY <1>1 DEF Good, Whole, ListOf, Tiles, Held, After
<1>6. \A b, c \in F : After(header, b) # c
  <2> SUFFICES ASSUME NEW b \in F, NEW c \in F, After(header, b) = c
               PROVE  FALSE
    OBVIOUS
  <2>1. curr <= b
    BY <1>1 DEF Good, Apart
  <2>2. b < c
    <3>1. header \in [Pool -> Header] /\ b \in Pool
      BY ListFacts DEF TypeOK
    <3> QED BY <3>1, AfterType
  <2> QED BY <1>2, <1>3, <2>1, <2>2, ListFacts
<1>7. Apart(F)'
  BY <1>1, <1>6 DEF Apart
<1>8. Searches(F)'
  BY <1>1 DEF Searches
<1> QED BY <1>4, <1>5, <1>7, <1>8 DEF Good

LEMMA StutterGood ==
  ASSUME TypeOK, NEW F, Good(F), UNCHANGED vars
  PROVE  TypeOK' /\ Good(F)'
<1>1. /\ pc' = pc /\ arg' = arg /\ prev' = prev /\ curr' = curr
      /\ header' = header /\ freelist' = freelist /\ held' = held /\ spoiled' = spoiled
  BY DEF vars, locals
<1>2. TypeOK'
  BY <1>1 DEF TypeOK
<1>3. Whole(F)'
  BY <1>1 DEF Good, Whole, ListOf, Tiles, Held, After
<1>4. Apart(F)' /\ Searches(F)'
  BY <1>1 DEF Good, Apart, After, Searches, Behind, Held
<1> QED BY <1>2, <1>3, <1>4 DEF Good

LEMMA HeapInvStep == HeapInv /\ [Next]_vars => HeapInv'
<1> SUFFICES ASSUME HeapInv, [Next]_vars, ~spoiled' PROVE TypeOK' /\ \E G \in SUBSET Pool : Good(G)'
  BY DEF HeapInv
<1>1. ~spoiled
  BY DEF Next, Turns, MallocCall, FreeCall, MallocSkips, MallocFails, MallocSplits, MallocTakes,
         FreeSkips, FreeLinks, FreeUndefined, CoalesceMerges, CoalesceSkips, FreeReturns, vars
<1>2. TypeOK
  BY <1>1 DEF HeapInv
<1>3. PICK F \in SUBSET Pool : Good(F)
  BY <1>1 DEF HeapInv
<1>4. ASSUME NEW n \in Requests, MallocCall(n) PROVE TypeOK' /\ Good(F)'
  BY <1>2, <1>3, <1>4, MallocCallGood
<1>5. ASSUME NEW a \in Pool, FreeCall(a) PROVE TypeOK' /\ Good(F)'
  BY <1>2, <1>3, <1>5, FreeCallGood
<1>6. CASE MallocSkips
  BY <1>2, <1>3, <1>6, MallocSkipsGood
<1>7. CASE MallocFails \/ MallocTakes
  BY <1>7 DEF MallocFails, MallocTakes
<1>8. CASE MallocSplits
  BY <1>2, <1>3, <1>8, MallocSplitsGood
<1>9. CASE FreeSkips
  BY <1>2, <1>3, <1>9, FreeSkipsGood
<1>10. CASE FreeLinks
  BY <1>2, <1>3, <1>10, FreeLinksGood
<1>11. CASE FreeUndefined
  BY <1>2, <1>3, <1>11, FreeUndefinedGood
<1>12. CASE CoalesceMerges
  BY <1>2, <1>3, <1>12, CoalesceMergesGood
<1>13. CASE CoalesceSkips
  BY <1>2, <1>3, <1>13, CoalesceSkipsGood
<1>14. CASE FreeReturns
  BY <1>2, <1>3, <1>14, FreeReturnsGood
<1>15. CASE UNCHANGED vars
  BY <1>2, <1>3, <1>15, StutterGood
<1> QED BY <1>4, <1>5, <1>6, <1>7, <1>8, <1>9, <1>10, <1>11, <1>12, <1>13, <1>14, <1>15
        DEF Next, Turns

(***************************************************************************)
(* malloc.c 23-26 and 73-76.  As long as no search has failed and every    *)
(* block found was split, the list and the allocations partition what the  *)
(* list was given, in whatever order blocks were split, linked, coalesced. *)
(***************************************************************************)
THEOREM HeapInvariant == Spec => []HeapInv
<1>1. Init => HeapInv
  BY InitGood
<1>2. HeapInv /\ [Next]_vars => HeapInv'
  BY HeapInvStep
<1> QED BY <1>1, <1>2, PTL DEF Spec

-----------------------------------------------------------------------------
(***************************************************************************)
(* What HeapSpec's recursive Listed finds is F.                            *)
(***************************************************************************)
LEMMA MinOf ==
  ASSUME NEW S \in SUBSET Nat, S # {}
  PROVE  \E x \in S : \A y \in S : x <= y
<1>1. PICK x \in S : \A y \in S : ~ (<<y, x>> \in {ss \in Nat \X Nat : ss[1] < ss[2]})
  BY NatLessThanWellFounded, WFMin DEF OpToRel
<1>2. ASSUME NEW y \in S PROVE x <= y
  <2>1. x \in Nat /\ y \in Nat
    OBVIOUS
  <2>2. ~ (y < x)
    BY <1>1, <2>1
  <2> QED BY <2>1, <2>2
<1> QED BY <1>2

\* The first k members of a sequence that is defined by recursion exist.
Iterates(c, S, next, s, N) ==
  c \in [0 .. N -> S] /\ c[0] = s /\ \A n \in 1 .. N : c[n] = next[c[n - 1]]

LEMMA IterationExists ==
  ASSUME NEW S, NEW next \in [S -> S], NEW s \in S, NEW N \in Nat
  PROVE  \E c : Iterates(c, S, next, s, N)
<1> DEFINE Exists(k) == \E c : Iterates(c, S, next, s, k)
           bad == {k \in Nat : ~Exists(k)}
<1>1. CASE bad = {}
  BY <1>1
<1>2. CASE bad # {}
  <2>1. PICK k \in bad : \A j \in bad : k <= j
    BY <1>2, MinOf
  <2>2. k # 0
    <3>1. [n \in 0 .. 0 |-> s] \in [0 .. 0 -> S]
      OBVIOUS
    <3>2. [n \in 0 .. 0 |-> s][0] = s /\ 1 .. 0 = {}
      OBVIOUS
    <3>3. Iterates([n \in 0 .. 0 |-> s], S, next, s, 0)
      BY <3>1, <3>2 DEF Iterates
    <3> QED BY <3>3
  <2>3. k - 1 \in Nat /\ Exists(k - 1)
    <3>1. k \in Nat /\ k - 1 \in Nat /\ ~(k <= k - 1)
      BY <2>2
    <3>2. k - 1 \notin bad
      BY <2>1, <3>1
    <3> QED BY <3>1, <3>2
  <2>4. PICK c \in [0 .. k - 1 -> S] : c[0] = s /\ \A n \in 1 .. k - 1 : c[n] = next[c[n - 1]]
    BY <2>3 DEF Iterates
  <2> DEFINE d == [n \in 0 .. k |-> IF n = k THEN next[c[k - 1]] ELSE c[n]]
  <2>5. /\ k \in Nat /\ k - 1 \in 0 .. k - 1 /\ 0 \in 0 .. k
        /\ \A n \in 0 .. k : n # k => n \in 0 .. k - 1
        /\ \A n \in 1 .. k : n - 1 \in 0 .. k - 1 /\ n - 1 # k /\ n - 1 \in 0 .. k /\ n \in 0 .. k
        /\ \A n \in 1 .. k : n # k => n \in 1 .. k - 1
    BY <2>3
  <2>6. d \in [0 .. k -> S]
    BY <2>4, <2>5
  <2>7. d[0] = s
    BY <2>2, <2>4, <2>5
  <2>8. \A n \in 1 .. k : d[n] = next[d[n - 1]]
    <3> TAKE n \in 1 .. k
    <3>1. d[n - 1] = c[n - 1]
      BY <2>5
    <3>2. d[n] = IF n = k THEN next[c[k - 1]] ELSE c[n]
      BY <2>5
    <3> HIDE DEF d
    <3>3. CASE n = k
      BY <3>1, <3>2, <3>3
    <3>4. CASE n # k
      BY <2>4, <2>5, <3>1, <3>2, <3>4
    <3> QED BY <3>3, <3>4
  <2> HIDE DEF d
  <2>9. Iterates(d, S, next, s, k)
    BY <2>6, <2>7, <2>8 DEF Iterates
  <2> QED BY <2>9
<1> QED BY <1>1, <1>2

LEMMA ListedIs ==
  ASSUME TypeOK
  PROVE  \E c \in [0 .. pool_end -> Pool \cup {NULL}] :
           /\ c[0] = freelist
           /\ \A n \in 1 .. pool_end :
                c[n] = IF c[n - 1] = NULL THEN NULL ELSE header[c[n - 1]].next
           /\ Listed = {c[n] : n \in 0 .. pool_end} \ {NULL}
<1> DEFINE N == Cardinality(Pool)
           Eq(c) == c = [n \in 0 .. N |->
                           IF n = 0 THEN freelist
                           ELSE IF c[n - 1] = NULL THEN NULL ELSE header[c[n - 1]].next]
           Meets(c) == /\ c[0] = freelist
                       /\ \A n \in 1 .. N :
                            c[n] = IF c[n - 1] = NULL THEN NULL ELSE header[c[n - 1]].next
<1>0. PICK S : S = Pool \cup {NULL}
  OBVIOUS
<1>1. N = pool_end /\ N \in Nat
  <2>1. 1 \in Int /\ pool_end \in Int /\ ~(pool_end < 1) /\ pool_end - 1 + 1 = pool_end
    BY PoolFacts
  <2>2. Cardinality(1 .. pool_end) = pool_end
    BY <2>1, FS_Interval
  <2> QED BY <2>2, PoolFacts
<1> HIDE DEF N
<1>2. PICK next : next = [a \in S |-> IF a = NULL THEN NULL ELSE header[a].next]
  OBVIOUS
<1>3. PICK c \in [0 .. N -> S] : c[0] = freelist /\ \A n \in 1 .. N : c[n] = next[c[n - 1]]
  <2>1. next \in [S -> S] /\ freelist \in S
    BY <1>0, <1>2 DEF TypeOK, Header
  <2>2. \E c : Iterates(c, S, next, freelist, N)
    BY <1>1, <2>1, IterationExists
  <2> QED BY <2>2 DEF Iterates
<1>4. Meets(c)
  <2>1. \A n \in 1 .. N : n - 1 \in 0 .. N
    BY <1>1
  <2> QED BY <1>2, <1>3, <2>1
<1>5. Eq(c)
  <2>1. \A n \in 0 .. N : n # 0 => n \in 1 .. N
    BY <1>1
  <2>2. \A n \in 0 .. N : c[n] = IF n = 0 THEN freelist
                           ELSE IF c[n - 1] = NULL THEN NULL ELSE header[c[n - 1]].next
    BY <1>4, <2>1
  <2> QED BY <1>3, <2>2
<1> DEFINE d == CHOOSE e : Eq(e)
<1>6. Listed = {d[n] : n \in DOMAIN d} \ {NULL}
  BY DEF Listed, N
<1>7. Eq(d)
  BY <1>5
<1> HIDE DEF d
<1>8. DOMAIN d = 0 .. N /\ Meets(d)
  <2>1. /\ DOMAIN d = 0 .. N
        /\ \A n \in 0 .. N : d[n] = IF n = 0 THEN freelist
                             ELSE IF d[n - 1] = NULL THEN NULL ELSE header[d[n - 1]].next
    BY <1>7
  <2>2. 0 \in 0 .. N /\ \A n \in 1 .. N : n \in 0 .. N /\ n # 0
    BY <1>1
  <2> QED BY <2>1, <2>2
<1>9. d \in [0 .. N -> S]
  <2>1. \A n \in 0 .. N : d[n] \in S
    <3> DEFINE bad == {n \in 0 .. N : d[n] \notin S}
    <3>1. SUFFICES ASSUME bad # {} PROVE FALSE
      OBVIOUS
    <3>0. bad \in SUBSET Nat
      BY <1>1
    <3>2. PICK k \in bad : \A j \in bad : k <= j
      <4> HIDE DEF bad
      <4> QED BY <3>0, <3>1, MinOf
    <3>3. k # 0
      BY <1>0, <1>8 DEF TypeOK
    <3>4. k \in 1 .. N /\ k - 1 \in 0 .. N /\ ~(k <= k - 1)
      BY <1>1, <3>3
    <3>5. d[k - 1] \in S
      BY <3>2, <3>4
    <3>6. d[k] \in S
      BY <1>0, <1>8, <3>4, <3>5 DEF TypeOK, Header
    <3> QED BY <3>6
  <2>2. d = [n \in 0 .. N |-> d[n]]
    BY <1>7
  <2> QED BY <2>1, <2>2
<1> QED BY <1>0, <1>1, <1>6, <1>8, <1>9

LEMMA ListedIsF ==
  ASSUME TypeOK, NEW F, Good(F)
  PROVE  Listed = F
<1>1. PICK c \in [0 .. pool_end -> Pool \cup {NULL}] :
           /\ c[0] = freelist
           /\ \A n \in 1 .. pool_end :
                c[n] = IF c[n - 1] = NULL THEN NULL ELSE header[c[n - 1]].next
           /\ Listed = {c[n] : n \in 0 .. pool_end} \ {NULL}
  BY ListedIs
<1>2. pool_end \in Nat /\ pool_end \in 0 .. pool_end /\ 0 .. pool_end \subseteq Nat
  BY PoolFacts
<1> DEFINE Climbs(n) == c[n] = NULL \/ (c[n] \in F /\ c[n] >= n + 1)
<1>3. \A n \in 0 .. pool_end : Climbs(n)
  <2> DEFINE bad == {n \in 0 .. pool_end : ~Climbs(n)}
  <2>1. SUFFICES ASSUME bad # {} PROVE FALSE
    OBVIOUS
  <2>2. PICK k \in bad : \A j \in bad : k <= j
    BY <1>2, <2>1, MinOf
  <2>3. k # 0
    BY <1>1, ListFacts, PoolFacts
  <2>4. k \in 1 .. pool_end /\ k - 1 \in 0 .. pool_end /\ ~(k <= k - 1)
    BY <1>2, <2>3
  <2>5. Climbs(k - 1)
    BY <2>2, <2>4
  <2>6. c[k] = IF c[k - 1] = NULL THEN NULL ELSE header[c[k - 1]].next
    BY <1>1, <2>4
  <2>7. CASE c[k - 1] = NULL
    BY <2>6, <2>7
  <2>8. CASE c[k - 1] # NULL
    <3>1. c[k - 1] \in F /\ c[k - 1] >= k /\ c[k - 1] \in Nat
      BY <2>4, <2>5, <2>8, ListFacts
    <3>2. c[k] = NULL \/ (c[k] \in F /\ c[k - 1] < c[k] /\ c[k] \in Nat)
      BY <2>6, <2>8, <3>1, ListFacts
    <3>3. Climbs(k)
      BY <2>4, <3>1, <3>2
    <3> QED BY <3>3
  <2> QED BY <2>7, <2>8
<1>4. ASSUME NEW a \in F PROVE \E m \in 0 .. pool_end : c[m] = a
  <2> DEFINE Met(n) == (c[n] # NULL /\ c[n] <= a) \/ \E m \in 0 .. pool_end : c[m] = a
             bad == {n \in 0 .. pool_end : ~Met(n)}
  <2>1. a \in Pool /\ a \in Nat /\ a <= pool_end
    BY ListFacts, PoolFacts
  <2>2. bad = {}
    <3>1. SUFFICES ASSUME bad # {} PROVE FALSE
      OBVIOUS
    <3>2. PICK k \in bad : \A j \in bad : k <= j
      BY <1>2, <3>1, MinOf
    <3>3. k # 0
      BY <1>1, ListFacts
    <3>4. k \in 1 .. pool_end /\ k - 1 \in 0 .. pool_end /\ ~(k <= k - 1)
      BY <1>2, <3>3
    <3>5. c[k - 1] # NULL /\ c[k - 1] <= a /\ c[k - 1] # a /\ c[k - 1] \in F
      BY <1>3, <3>2, <3>4
    <3>6. c[k] = header[c[k - 1]].next /\ c[k - 1] \in Nat
      BY <1>1, <3>4, <3>5, ListFacts
    <3>7. c[k - 1] < a /\ ~(a <= c[k - 1])
      BY <2>1, <3>5, <3>6
    <3>8. c[k] \in F /\ c[k] # NULL /\ c[k] <= a
      BY <3>5, <3>6, <3>7, ListFacts
    <3> QED BY <3>2, <3>8
  <2>3. Met(pool_end)
    BY <1>2, <2>2
  <2>4. ~(c[pool_end] # NULL /\ c[pool_end] <= a)
    <3>1. c[pool_end] # NULL => c[pool_end] >= pool_end + 1 /\ c[pool_end] \in Nat
      BY <1>2, <1>3, ListFacts
    <3> QED BY <1>2, <2>1, <3>1
  <2> QED BY <2>3, <2>4
<1>5. NULL \notin F
  BY ListFacts
<1> QED BY <1>1, <1>3, <1>4, <1>5

-----------------------------------------------------------------------------
LEMMA SpansFacts ==
  ASSUME TypeOK, NEW F, Good(F), NEW x \in Pool
  PROVE  /\ \A a \in F : Spans(a, header[a].size, x) <=> a <= x /\ x < After(header, a)
         /\ \A a \in Held : Spans(a, held[a], x) <=> a <= x /\ x < After(header, a)
<1>1. \A a \in F \cup Held : /\ a \in Nat /\ header[a].size \in Nat
                             /\ After(header, a) = a + header[a].size + HDR
  BY ListFacts, AfterType DEF TypeOK
<1>2. x \in Nat /\ HDR \in Nat /\ \A a \in Held : header[a].size = held[a]
  BY PoolFacts DEF Good, Whole
<1>3. ASSUME NEW a \in F \cup Held
      PROVE  Spans(a, header[a].size, x) <=> a <= x /\ x < After(header, a)
  BY <1>1, <1>2 DEF Spans
<1> QED BY <1>2, <1>3

LEMMA OneSpans ==
  ASSUME TypeOK, NEW F, Good(F), NEW x \in Pool
  PROVE  Cardinality({a \in Held : Spans(a, held[a], x)})
           + Cardinality({a \in F : Spans(a, header[a].size, x)}) = 1
<1> DEFINE H == {a \in Held : Spans(a, held[a], x)}
           L == {a \in F : Spans(a, header[a].size, x)}
<1>1. PICK a \in F \cup Held : a <= x /\ x < After(header, a)
  BY DEF Good, Whole, Tiles
<1>2. ASSUME NEW b \in F \cup Held, b <= x, x < After(header, b) PROVE b = a
  <2>1. /\ a \in Nat /\ After(header, a) \in Nat /\ b \in Nat /\ After(header, b) \in Nat
        /\ x \in Nat
    BY ListFacts, AfterType, PoolFacts DEF TypeOK
  <2>2. (a < b => After(header, a) <= b) /\ (b < a => After(header, b) <= a)
    BY DEF Good, Whole, Tiles
  <2> QED BY <1>1, <1>2, <2>1, <2>2
<1>3. F \cap Held = {}
  BY DEF Good, Whole
<1>4. CASE a \in F
  <2>1. L = {a} /\ H = {}
    BY <1>1, <1>2, <1>3, <1>4, SpansFacts
  <2>2. Cardinality(L) = 1 /\ Cardinality(H) = 0
    BY <2>1, FS_Singleton, FS_EmptySet
  <2> QED BY <2>2
<1>5. CASE a \in Held
  <2>1. H = {a} /\ L = {}
    BY <1>1, <1>2, <1>3, <1>5, SpansFacts
  <2>2. Cardinality(H) = 1 /\ Cardinality(L) = 0
    BY <2>1, FS_Singleton, FS_EmptySet
  <2> QED BY <2>2
<1> QED BY <1>4, <1>5

(***************************************************************************)
(* malloc.c 23-26.  Nothing is given out twice, and of what the free list  *)
(* was given nothing is lost: until a search fails or a block is not       *)
(* split, every byte of Pool is in one allocation or in one block that the *)
(* free list reaches.                                                      *)
(***************************************************************************)
THEOREM TiledAlways == Spec => []Tiled
<1>1. HeapInv => Tiled
  <2> SUFFICES ASSUME HeapInv, ~spoiled, NEW x \in Pool
               PROVE  Cardinality({a \in Held : Spans(a, held[a], x)})
                        + Cardinality({a \in Listed : Spans(a, header[a].size, x)}) = 1
    BY DEF Tiled, InOneBlock
  <2>1. PICK F \in SUBSET Pool : Good(F)
    BY DEF HeapInv
  <2>2. TypeOK
    BY DEF HeapInv
  <2>3. Listed = F
    BY <2>1, <2>2, ListedIsF
  <2> QED BY <2>1, <2>2, <2>3, OneSpans
<1> QED BY <1>1, HeapInvariant, PTL

(***************************************************************************)
(* malloc.c 73-76.  The loop of free merges all neighbours, the blocks in  *)
(* front of and behind the one freed too, and malloc leaves none.          *)
(***************************************************************************)
THEOREM CoalescedAlways == Spec => []Coalesced
<1>1. HeapInv => Coalesced
  <2> SUFFICES ASSUME HeapInv, ~spoiled, pc = "idle", NEW a \in Listed, NEW b \in Listed,
                      EndOf(a) = b
               PROVE  FALSE
    BY DEF Coalesced
  <2>1. PICK F \in SUBSET Pool : Good(F)
    BY DEF HeapInv
  <2>2. Listed = F
    BY <2>1, ListedIsF DEF HeapInv
  <2> QED BY <2>1, <2>2 DEF Good, Apart, After, EndOf
<1> QED BY <1>1, HeapInvariant, PTL

(***************************************************************************)
(* malloc.c 23-24.  The first search that fails fails for want of room in  *)
(* Pool: no gap between the allocations there has a place for the header   *)
(* and n bytes, as a gap is one block, and every block has been looked at. *)
(***************************************************************************)
THEOREM MallocServesAlways == Spec => MallocServes
<1>1. HeapInv /\ [Next]_vars => (~spoiled /\ MallocFails => ~Room(arg))
  <2> SUFFICES ASSUME HeapInv, ~spoiled, MallocFails, Room(arg)
               PROVE  FALSE
    OBVIOUS
  <2>1. PICK F \in SUBSET Pool : Good(F)
    BY DEF HeapInv
  <2>2. TypeOK
    BY DEF HeapInv
  <2>3. pc = "malloc" /\ ~Fits(header[curr], arg) /\ header[curr].next = NULL
    BY DEF MallocFails
  <2>4. /\ arg \in Nat /\ curr \in F /\ \A b \in F : b < curr => header[b].size < arg
    BY <2>1, <2>2, <2>3 DEF Good, Searches, TypeOK
  <2>5. \A b \in F : /\ header[b].size \in Nat /\ b \in Nat /\ After(header, b) \in Nat
                     /\ After(header, b) = b + header[b].size + HDR /\ b < After(header, b)
    BY <2>1, <2>2, ListFacts, AfterType DEF TypeOK
  <2>6. \A b \in F : header[b].size < arg
    <3>1. \A b \in F : b <= curr
      BY <2>1, <2>2, <2>3, <2>4, ListFacts
    <3>2. header[curr].size < arg
      BY <2>1, <2>2, <2>3, <2>4, <2>5, ListFacts DEF Fits
    <3>3. \A b \in F : b = curr \/ b < curr
      BY <2>4, <2>5, <3>1
    <3> QED BY <2>4, <3>2, <3>3
  <2>7. PICK a \in Pool :
          /\ a + HDR + arg - 1 <= pool_end
          /\ \A h \in Held, x \in a .. a + HDR + arg - 1 : ~Spans(h, held[h], x)
    BY DEF Room
  <2>8. a \in Nat /\ HDR \in Nat /\ HDR > 0 /\ pool_end \in Nat
    BY PoolFacts
  <2>9. \A x \in a .. a + HDR + arg - 1 : /\ x \in Pool
                                          /\ \E b \in F : b <= x /\ x < After(header, b)
    <3> TAKE x \in a .. a + HDR + arg - 1
    <3>1. x \in Pool
      BY <2>4, <2>7, <2>8, PoolFacts
    <3>2. PICK b \in F \cup Held : b <= x /\ x < After(header, b)
      BY <2>1, <3>1 DEF Good, Whole, Tiles
    <3>3. b \notin Held
      BY <2>1, <2>2, <2>7, <3>1, <3>2, SpansFacts
    <3> QED BY <3>1, <3>2, <3>3
  <2>10. a \in a .. a + HDR + arg - 1
    BY <2>4, <2>6, <2>8
  <2>11. PICK b \in F : b <= a /\ a < After(header, b)
    BY <2>9, <2>10
  <2>12. After(header, b) \in a .. a + HDR + arg - 1
    BY <2>4, <2>5, <2>6, <2>8, <2>11
  <2>13. PICK c \in F : c <= After(header, b) /\ After(header, b) < After(header, c)
    BY <2>9, <2>12
  <2>14. (b < c => After(header, b) <= c) /\ (c < b => After(header, c) <= b)
    BY <2>1, <2>2, ListFacts
  <2>15. After(header, b) = c
    <3>1. /\ b \in Nat /\ c \in Nat /\ After(header, b) \in Nat /\ After(header, c) \in Nat
          /\ b < After(header, b)
      BY <2>5
    <3>2. b < c \/ c < b \/ b = c
      BY <3>1
    <3>3. ~(c < b) /\ b # c
      BY <2>13, <2>14, <3>1
    <3>4. After(header, b) <= c
      BY <2>14, <3>2, <3>3
    <3> QED BY <2>13, <3>1, <3>4
  <2> QED BY <2>1, <2>3, <2>15 DEF Good, Apart
<1> QED BY <1>1, HeapInvariant, PTL DEF Spec, MallocServes

-----------------------------------------------------------------------------
(***************************************************************************)
(* Callers that stop when the list is spoiled find every address in the    *)
(* heap: no header is written outside it.  Those that go on do not.        *)
(***************************************************************************)
TypeInv == TypeOK /\ HeapInv /\ (spoiled => pc = "idle")

LEMMA TypeInvStep ==
  ASSUME ~GoOn, TypeInv, [Next]_vars
  PROVE  TypeInv'
<1>1. HeapInv'
  BY HeapInvStep DEF TypeInv
<1>2. CASE ~spoiled'
  BY <1>1, <1>2 DEF HeapInv, TypeInv
<1>3. CASE spoiled' /\ spoiled
  <2>1. UNCHANGED vars
    BY <1>3 DEF TypeInv, Next, Turns, MayCall, MallocCall, FreeCall, MallocSkips, MallocFails,
                MallocSplits, MallocTakes, FreeSkips, FreeLinks, FreeUndefined, CoalesceMerges,
                CoalesceSkips, FreeReturns, MoreToCoalesce
  <2> QED BY <1>1, <1>3, <2>1 DEF TypeInv, TypeOK, vars, locals
<1>4. CASE spoiled' /\ ~spoiled
  <2>1. MallocFails \/ MallocTakes
    BY <1>4 DEF Next, Turns, MallocCall, FreeCall, MallocSkips, MallocSplits, FreeSkips,
                FreeLinks, FreeUndefined, CoalesceMerges, CoalesceSkips, FreeReturns, vars
  <2>2. /\ pc = "malloc" /\ pc' = "idle" /\ prev' = NULL /\ curr' = NULL /\ arg' = 0
        /\ freelist' = freelist
    BY <2>1 DEF MallocFails, MallocTakes, Return
  <2>3. curr \in Pool /\ header \in [Pool -> Header] /\ arg \in Nat /\ held \in [Pool -> Nat]
    BY <1>4, <2>2 DEF TypeInv, HeapInv, Good, Searches, TypeOK
  <2>4. header' \in [Pool -> Header] /\ held' \in [Pool -> Nat]
    BY <2>1, <2>3 DEF MallocFails, MallocTakes, Header, Used
  <2> QED BY <1>1, <1>4, <2>2, <2>4 DEF TypeInv, TypeOK
<1> QED BY <1>2, <1>3, <1>4 DEF TypeInv, TypeOK

THEOREM TypeCorrect == ~GoOn => (Spec => []TypeOK)
<1> SUFFICES ASSUME ~GoOn PROVE Spec => []TypeOK
  OBVIOUS
<1>1. Init => TypeInv
  BY InitGood DEF Init, HeapInv, TypeInv
<1>2. TypeInv /\ [Next]_vars => TypeInv'
  BY TypeInvStep
<1>3. TypeInv => TypeOK
  BY DEF TypeInv
<1> QED BY <1>1, <1>2, <1>3, PTL DEF Spec
=============================================================================
