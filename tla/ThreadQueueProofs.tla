------------------------- MODULE ThreadQueueProofs -------------------------
(***************************************************************************)
(* Proofs, for every number of threads and every width of a key, that the  *)
(* links of thread_queue always form two rings, that a thread is in at     *)
(* most one of them, and that the ready list is a first-in first-out queue.*)
(***************************************************************************)
EXTENDS ThreadQueueSpec, SequenceTheorems, WellFoundedInduction, TLAPS

-----------------------------------------------------------------------------
(***************************************************************************)
(* Sequences                                                               *)
(***************************************************************************)

\* Inserting at place p shifts the elements from p on.
LEMMA InsertAtElements ==
  ASSUME NEW S, NEW s \in Seq(S), NEW e \in S, NEW p \in 1 .. Len(s) + 1
  PROVE  /\ InsertAt(s, p, e) \in Seq(S)
         /\ Len(InsertAt(s, p, e)) = Len(s) + 1
         /\ \A i \in 1 .. Len(s) + 1 :
              InsertAt(s, p, e)[i] =
                IF i < p THEN s[i] ELSE IF i = p THEN e ELSE s[i - 1]
<1> DEFINE l == SubSeq(s, 1, p - 1)
           r == SubSeq(s, p, Len(s))
           m == l \o <<e>>
<1>1. Len(s) \in Nat /\ \A i \in 1 .. Len(s) : s[i] \in S
  BY ElementOfSeq
<1>2. l \in Seq(S) /\ Len(l) = p - 1 /\ \A i \in 1 .. p - 1 : l[i] = s[i]
  BY <1>1, SubSeqProperties
<1>3. /\ r \in Seq(S) /\ Len(r) = Len(s) - p + 1
      /\ \A i \in 1 .. Len(s) - p + 1 : r[i] = s[p + i - 1]
  BY <1>1, SubSeqProperties
<1>4. <<e>> \in Seq(S) /\ Len(<<e>>) = 1 /\ <<e>>[1] = e
  OBVIOUS
<1>5. /\ m \in Seq(S) /\ Len(m) = p
      /\ \A i \in 1 .. p : m[i] = IF i < p THEN s[i] ELSE e
  <2> HIDE DEF l
  <2> QED BY <1>1, <1>2, <1>4, ConcatProperties
<1>6. InsertAt(s, p, e) = m \o r
  BY DEF InsertAt
<1> HIDE DEF m, r, l
<1>7. /\ m \o r \in Seq(S) /\ Len(m \o r) = Len(m) + Len(r)
      /\ \A i \in 1 .. Len(m) + Len(r) :
           (m \o r)[i] = IF i <= Len(m) THEN m[i] ELSE r[i - Len(m)]
  BY <1>3, <1>5, ConcatProperties
<1>8. \A i \in 1 .. Len(s) + 1 :
        (m \o r)[i] = IF i < p THEN s[i] ELSE IF i = p THEN e ELSE s[i - 1]
  BY <1>1, <1>3, <1>5, <1>7
<1> QED BY <1>1, <1>3, <1>5, <1>6, <1>7, <1>8

\* Removing the element at place p shifts back the elements behind it.
LEMMA RemoveAtElements ==
  ASSUME NEW S, NEW s \in Seq(S), NEW p \in 1 .. Len(s)
  PROVE  /\ RemoveAt(s, p) \in Seq(S)
         /\ Len(RemoveAt(s, p)) = Len(s) - 1
         /\ \A i \in 1 .. Len(s) - 1 :
              RemoveAt(s, p)[i] = IF i < p THEN s[i] ELSE s[i + 1]
<1> DEFINE l == SubSeq(s, 1, p - 1)
           r == SubSeq(s, p + 1, Len(s))
<1>1. Len(s) \in Nat /\ \A i \in 1 .. Len(s) : s[i] \in S
  BY ElementOfSeq
<1>2. l \in Seq(S) /\ Len(l) = p - 1 /\ \A i \in 1 .. p - 1 : l[i] = s[i]
  BY <1>1, SubSeqProperties
<1>3. /\ r \in Seq(S) /\ Len(r) = Len(s) - p
      /\ \A i \in 1 .. Len(s) - p : r[i] = s[p + i]
  BY <1>1, SubSeqProperties
<1>4. RemoveAt(s, p) = l \o r
  BY DEF RemoveAt
<1> HIDE DEF r, l
<1>5. /\ l \o r \in Seq(S) /\ Len(l \o r) = Len(l) + Len(r)
      /\ \A i \in 1 .. Len(l) + Len(r) :
           (l \o r)[i] = IF i <= Len(l) THEN l[i] ELSE r[i - Len(l)]
  BY <1>2, <1>3, ConcatProperties
<1>6. \A i \in 1 .. Len(s) - 1 : (l \o r)[i] = IF i < p THEN s[i] ELSE s[i + 1]
  <2> TAKE i \in 1 .. Len(s) - 1
  <2>1. CASE i < p
    BY <2>1, <1>1, <1>2, <1>3, <1>5
  <2>2. CASE i >= p
    <3>1. (l \o r)[i] = r[i - (p - 1)] /\ i - (p - 1) \in 1 .. Len(s) - p
      BY <2>2, <1>1, <1>2, <1>3, <1>5
    <3>2. p + (i - (p - 1)) = i + 1
      BY <1>1
    <3> QED BY <2>2, <3>1, <3>2, <1>1, <1>3
  <2>3. i < p \/ i >= p
    OBVIOUS
  <2> QED BY <2>1, <2>2, <2>3
<1> QED BY <1>1, <1>2, <1>3, <1>4, <1>5, <1>6

\* Inserting behind the last element is appending.
LEMMA InsertLastIsAppend ==
  ASSUME NEW S, NEW s \in Seq(S), NEW e \in S, NEW p, p = Len(s) + 1
  PROVE  InsertAt(s, p, e) = Append(s, e)
<1> DEFINE u == InsertAt(s, p, e)
           v == Append(s, e)
<1>1. Len(s) \in Nat /\ p \in 1 .. Len(s) + 1
  OBVIOUS
<1>2. /\ v \in Seq(S) /\ Len(v) = p
      /\ \A i \in 1 .. p : v[i] = IF i <= Len(s) THEN s[i] ELSE e
  BY <1>1, AppendProperties
<1>3. /\ u \in Seq(S) /\ Len(u) = p
      /\ \A i \in 1 .. p : u[i] = IF i < p THEN s[i] ELSE IF i = p THEN e ELSE s[i - 1]
  <2>1. ASSUME NEW m \in 1 .. Len(s) + 1
        PROVE  /\ InsertAt(s, m, e) \in Seq(S) /\ Len(InsertAt(s, m, e)) = Len(s) + 1
               /\ \A i \in 1 .. Len(s) + 1 :
                    InsertAt(s, m, e)[i] =
                      IF i < m THEN s[i] ELSE IF i = m THEN e ELSE s[i - 1]
    BY InsertAtElements
  <2>2. u = InsertAt(s, p, e)
    OBVIOUS
  <2> HIDE DEF u
  <2> QED BY <1>1, <2>1, <2>2
<1> HIDE DEF u, v
<1>4. \A i \in 1 .. Len(u) : u[i] = v[i]
  BY <1>1, <1>2, <1>3
<1>5. u = v
  BY <1>2, <1>3, <1>4, SeqEqual
<1> QED BY <1>5 DEF u, v

\* Removing the first element leaves the tail.
LEMMA RemoveFirstIsTail ==
  ASSUME NEW S, NEW s \in Seq(S), s # <<>>
  PROVE  RemoveAt(s, 1) = Tail(s)
<1> DEFINE u == RemoveAt(s, 1)
           v == Tail(s)
<1>1. Len(s) \in Nat /\ Len(s) >= 1
  BY EmptySeq
<1>2. /\ v \in Seq(S) /\ Len(v) = Len(s) - 1
      /\ \A i \in 1 .. Len(s) - 1 : v[i] = s[i + 1]
  BY <1>1, HeadTailProperties
<1>3. /\ u \in Seq(S) /\ Len(u) = Len(s) - 1
      /\ \A i \in 1 .. Len(s) - 1 : u[i] = IF i < 1 THEN s[i] ELSE s[i + 1]
  BY <1>1, RemoveAtElements
<1> HIDE DEF u, v
<1>4. \A i \in 1 .. Len(u) : u[i] = v[i]
  BY <1>1, <1>2, <1>3
<1>5. u = v
  BY <1>2, <1>3, <1>4, SeqEqual
<1> QED BY <1>5 DEF u, v

-----------------------------------------------------------------------------
(***************************************************************************)
(* Sums along a sequence                                                   *)
(***************************************************************************)

LEMMA MinOf ==
  ASSUME NEW S \in SUBSET Nat, S # {}
  PROVE  \E x \in S : \A y \in S : x <= y
<1>1. PICK x \in S : \A y \in S : ~ (<<y, x>> \in {ss \in Nat \X Nat : ss[1] < ss[2]})
  BY NatLessThanWellFounded, WFMin DEF OpToRel
<1>2. ASSUME NEW y \in S PROVE x <= y
  <2>1. x \in Nat /\ y \in Nat
    OBVIOUS
  <2>2. ~ (y < x)
    BY <1>1, <2>1
  <2> QED BY <2>1, <2>2
<1> QED BY <1>2

\* it is the function of sets of places that SumFrom takes its value from.
Sums(it, m, base, ky, s) ==
  it = [z \in SUBSET (1 .. m) |->
          IF z = {} THEN base ELSE it[z \ {Max(z)}] + ky[s[Max(z)]]]

LEMMA SumUnfolded ==
  ASSUME NEW base, NEW ky, NEW s, NEW m, DOMAIN s = 1 .. m
  PROVE  SumFrom(base, ky, s) = (CHOOSE it : Sums(it, m, base, ky, s))[1 .. m]
BY DEF SumFrom, FoldLeft, MapThenFoldSet, Sums

\* A set of places that has m, the last of them.
LEMMA LastPlace ==
  ASSUME NEW m \in Nat, NEW z \in SUBSET (1 .. m), m \in z
  PROVE  Max(z) = m
<1>1. \A y \in z : y \in 1 .. m
  OBVIOUS
<1>2. \A y \in z : m >= y
  BY <1>1
<1>3. Max(z) \in z /\ \A y \in z : Max(z) >= y
  BY <1>2 DEF Max
<1>4. Max(z) \in 1 .. m /\ Max(z) >= m
  BY <1>1, <1>3
<1> QED BY <1>4

\* There is such a function, since one for m - 1 places can be made one for m.
LEMMA SumsExist ==
  ASSUME NEW base, NEW ky, NEW s, NEW n \in Nat
  PROVE  \E it : Sums(it, n, base, ky, s)
<1> DEFINE bad == {m \in Nat : ~ \E it : Sums(it, m, base, ky, s)}
<1>1. CASE bad = {}
  BY <1>1
<1>2. CASE bad # {}
  <2>1. PICK m \in bad : \A j \in bad : m <= j
    BY <1>2, MinOf
  <2>2. m # 0
    <3>1. SUBSET (1 .. 0) = {{}}
      OBVIOUS
    <3> DEFINE it == [z \in SUBSET (1 .. 0) |-> base]
    <3>2. it = [z \in SUBSET (1 .. 0) |->
                  IF z = {} THEN base ELSE it[z \ {Max(z)}] + ky[s[Max(z)]]]
      BY <3>1
    <3>3. Sums(it, 0, base, ky, s)
      BY <3>2 DEF Sums
    <3> QED BY <3>3
  <2>3. m - 1 \in Nat /\ m - 1 \notin bad
    BY <2>1, <2>2
  <2>4. PICK old : Sums(old, m - 1, base, ky, s)
    BY <2>3
  <2> DEFINE it == [z \in SUBSET (1 .. m) |->
                      IF m \in z THEN old[z \ {m}] + ky[s[m]] ELSE old[z]]
  <2>5. ASSUME NEW z \in SUBSET (1 .. m)
        PROVE  it[z] = IF z = {} THEN base ELSE it[z \ {Max(z)}] + ky[s[Max(z)]]
    <3>1. \A i \in 1 .. m : i # m => i \in 1 .. m - 1
      BY <2>3
    <3>2. CASE m \in z
      <4>1. Max(z) = m
        BY <3>2, LastPlace
      <4>2. z \ {m} \in SUBSET (1 .. m) /\ m \notin z \ {m} /\ z # {}
        BY <3>2
      <4>3. it[z] = old[z \ {m}] + ky[s[m]] /\ it[z \ {m}] = old[z \ {m}]
        BY <3>2, <4>2
      <4> QED BY <4>1, <4>2, <4>3
    <3>3. CASE m \notin z
      <4>1. z \in SUBSET (1 .. m - 1)
        BY <3>1, <3>3
      <4>2. it[z] = old[z]
        BY <3>3
      <4>3. z \ {Max(z)} \in SUBSET (1 .. m) /\ m \notin z \ {Max(z)}
        BY <3>3
      <4>4. it[z \ {Max(z)}] = old[z \ {Max(z)}]
        BY <4>3
      <4>5. old[z] = IF z = {} THEN base ELSE old[z \ {Max(z)}] + ky[s[Max(z)]]
        BY <2>4, <4>1 DEF Sums
      <4> HIDE DEF it
      <4> QED BY <4>2, <4>4, <4>5
    <3> QED BY <3>2, <3>3
  <2>6. Sums(it, m, base, ky, s)
    <3>1. it = [z \in SUBSET (1 .. m) |-> it[z]]
      OBVIOUS
    <3> HIDE DEF it
    <3> QED BY <2>5, <3>1 DEF Sums
  <2> QED BY <2>1, <2>6
<1> QED BY <1>1, <1>2

\* A function g that goes up by the key of each element ends at the sum.
LEMMA SumIs ==
  ASSUME NEW base, NEW ky, NEW s, Len(s) \in Nat, DOMAIN s = 1 .. Len(s),
         NEW g, g[0] = base,
         \A i \in 1 .. Len(s) : g[i] = g[i - 1] + ky[s[i]]
  PROVE  SumFrom(base, ky, s) = g[Len(s)]
<1> DEFINE n == Len(s)
           it == CHOOSE f : Sums(f, n, base, ky, s)
           bad == {i \in 0 .. n : it[1 .. i] # g[i]}
<1>1. Sums(it, n, base, ky, s)
  BY SumsExist
<1>2. SumFrom(base, ky, s) = it[1 .. n]
  BY SumUnfolded
<1> HIDE DEF it
<1>3. CASE bad = {}
  BY <1>2, <1>3
<1>4. CASE bad # {}
  <2>1. PICK i \in bad : \A j \in bad : i <= j
    <3>1. bad \in SUBSET Nat
      OBVIOUS
    <3> HIDE DEF bad
    <3> QED BY <1>4, <3>1, MinOf
  <2>2. i # 0
    <3>1. 1 .. 0 = {} /\ 1 .. 0 \in SUBSET (1 .. n)
      OBVIOUS
    <3> QED BY <1>1, <2>1, <3>1 DEF Sums
  <2>3. /\ i \in 1 .. n /\ i - 1 \in 0 .. n /\ ~(i <= i - 1)
        /\ 1 .. i \in SUBSET (1 .. n) /\ i \in 1 .. i /\ (1 .. i) \ {i} = 1 .. i - 1
    BY <2>2
  <2>4. it[1 .. i - 1] = g[i - 1]
    BY <2>1, <2>3
  <2>5. Max(1 .. i) = i
    BY <2>3, LastPlace
  <2>6. it[1 .. i] = it[(1 .. i) \ {Max(1 .. i)}] + ky[s[Max(1 .. i)]]
    BY <1>1, <2>3 DEF Sums
  <2> QED BY <2>1, <2>3, <2>4, <2>5, <2>6
<1> QED BY <1>3, <1>4

-----------------------------------------------------------------------------
(***************************************************************************)
(* Rings                                                                   *)
(***************************************************************************)

\* A queue that holds s: distinct threads, linked to the root q both ways.
Ring(qn, qp, s, q) ==
  /\ s \in Seq(Threads)
  /\ \A i, j \in 1 .. Len(s) : s[i] = s[j] => i = j
  /\ RingOf(qn, qp, s, q)

\* The places of a queue are distinct nodes.
LEMMA PlacesDistinct ==
  ASSUME NEW s \in Seq(Threads), NEW q \in Queues,
         \A i, j \in 1 .. Len(s) : s[i] = s[j] => i = j
  PROVE  /\ \A i \in Nat : Place(s, q, i) \in Node
         /\ \A i, j \in 0 .. Len(s) : Place(s, q, i) = Place(s, q, j) => i = j
         /\ \A i, j \in 1 .. Len(s) + 1 : Place(s, q, i) = Place(s, q, j) => i = j
<1>1. Len(s) \in Nat /\ \A i \in 1 .. Len(s) : s[i] \in Threads
  BY ElementOfSeq
<1>2. q \notin Threads
  BY NTHREADSAssumption DEF Queues, Threads, ready_list, sleep_list
<1> QED BY <1>1, <1>2 DEF Place, Node

\* Links that agree on the places of a queue keep its ring.
LEMMA RingFrame ==
  ASSUME NEW qn, NEW qp, NEW qn2, NEW qp2, NEW s, NEW q,
         Len(s) \in Nat,
         RingOf(qn, qp, s, q),
         \A i \in 0 .. Len(s) + 1 : /\ qn2[Place(s, q, i)] = qn[Place(s, q, i)]
                                  /\ qp2[Place(s, q, i)] = qp[Place(s, q, i)]
  PROVE  RingOf(qn2, qp2, s, q)
BY DEF RingOf

\* The surgery of thread_enqueue and thread_enqueue_sleep inserts in a ring.
LEMMA InsertKeepsRing ==
  ASSUME NEW qn \in [Node -> Node], NEW qp \in [Node -> Node],
         NEW s, NEW q \in Queues, Ring(qn, qp, s, q),
         NEW t \in Threads, \A i \in 1 .. Len(s) : s[i] # t,
         NEW p \in 1 .. Len(s) + 1
  PROVE  Ring(InsertNext(qn, qp, t, Place(s, q, p)),
              InsertPrev(qp, t, Place(s, q, p)), InsertAt(s, p, t), q)
<1> DEFINE u == InsertAt(s, p, t)
           c == Place(s, q, p)
           b == Place(s, q, p - 1)
           qn2 == InsertNext(qn, qp, t, c)
           qp2 == InsertPrev(qp, t, c)
<1>1. s \in Seq(Threads) /\ Len(s) \in Nat /\ \A i \in 1 .. Len(s) : s[i] \in Threads
  BY ElementOfSeq DEF Ring
<1>2. /\ u \in Seq(Threads) /\ Len(u) = Len(s) + 1
      /\ \A i \in 1 .. Len(s) + 1 :
           u[i] = IF i < p THEN s[i] ELSE IF i = p THEN t ELSE s[i - 1]
  BY <1>1, InsertAtElements
<1>3. q \notin Threads
  BY NTHREADSAssumption DEF Queues, Threads, ready_list, sleep_list
<1>4. /\ \A i \in Nat : Place(s, q, i) \in Node
      /\ \A i, j \in 0 .. Len(s) : Place(s, q, i) = Place(s, q, j) => i = j
      /\ \A i, j \in 1 .. Len(s) + 1 : Place(s, q, i) = Place(s, q, j) => i = j
  BY PlacesDistinct DEF Ring
<1> HIDE DEF u
<1>5. \A i \in 0 .. Len(s) + 2 :
        Place(u, q, i) = IF i < p THEN Place(s, q, i)
                         ELSE IF i = p THEN t ELSE Place(s, q, i - 1)
  BY <1>1, <1>2 DEF Place
<1>6. \A i \in 0 .. Len(s) + 1 : Place(s, q, i) # t
  BY <1>1, <1>3 DEF Place
<1>7. /\ \A i \in 0 .. Len(s) : qn[Place(s, q, i)] = Place(s, q, i + 1)
      /\ \A i \in 1 .. Len(s) + 1 : qp[Place(s, q, i)] = Place(s, q, i - 1)
  <2>1. \A i \in 1 .. Len(s) + 1 : i - 1 \in 0 .. Len(s) /\ (i - 1) + 1 = i
    BY <1>1
  <2> QED BY <2>1 DEF Ring, RingOf
<1>8. qp[c] = b /\ b \in Node /\ c \in Node /\ t \in Node
  BY <1>1, <1>4, <1>7 DEF Node
<1> HIDE DEF c, b
<1>9. /\ qn2[t] = c /\ (b # t => qn2[b] = t)
      /\ \A n \in Node : n # t /\ n # b => qn2[n] = qn[n]
  BY <1>8 DEF InsertNext
<1>10. /\ qp2[c] = t /\ (t # c => qp2[t] = b)
       /\ \A n \in Node : n # t /\ n # c => qp2[n] = qp[n]
  BY <1>8 DEF InsertPrev
<1> HIDE DEF qn2, qp2
<1>11. ASSUME NEW i \in 0 .. Len(u)
       PROVE  qn2[Place(u, q, i)] = Place(u, q, i + 1)
  <2>1. CASE i < p - 1
    <3>1. Place(u, q, i) = Place(s, q, i) /\ Place(u, q, i + 1) = Place(s, q, i + 1)
      BY <2>1, <1>1, <1>2, <1>5
    <3>2. i \in 0 .. Len(s) /\ p - 1 \in 0 .. Len(s) /\ i # p - 1
      BY <2>1, <1>1, <1>2
    <3>3. Place(s, q, i) # b /\ Place(s, q, i) # t /\ Place(s, q, i) \in Node
      BY <3>2, <1>1, <1>4, <1>6 DEF b
    <3> QED BY <3>1, <3>2, <3>3, <1>7, <1>9
  <2>2. CASE i = p - 1
    <3>1. Place(u, q, i) = b /\ Place(u, q, i + 1) = t
      BY <2>2, <1>1, <1>2, <1>5 DEF b
    <3>2. b # t
      BY <1>1, <1>6 DEF b
    <3> QED BY <3>1, <3>2, <1>9
  <2>3. CASE i = p
    <3>1. Place(u, q, i) = t /\ Place(u, q, i + 1) = c
      <4>1. p \in 0 .. Len(s) + 2 /\ p + 1 \in 0 .. Len(s) + 2 /\ p + 1 - 1 = p
        BY <1>1
      <4> QED BY <2>3, <4>1, <1>5 DEF c
    <3> QED BY <3>1, <1>9
  <2>4. CASE i > p
    <3>1. i - 1 \in 0 .. Len(s) /\ i - 1 # p - 1 /\ p - 1 \in 0 .. Len(s)
      BY <2>4, <1>1, <1>2
    <3>2. Place(u, q, i) = Place(s, q, i - 1) /\ Place(u, q, i + 1) = Place(s, q, i)
      BY <2>4, <1>1, <1>2, <1>5
    <3>3. Place(s, q, i - 1) # b
      BY <3>1, <1>4 DEF b
    <3>4. Place(s, q, i - 1) \in Node /\ Place(s, q, i - 1) # t /\ i - 1 + 1 = i
      BY <3>1, <1>1, <1>4, <1>6
    <3> QED BY <3>1, <3>2, <3>3, <3>4, <1>7, <1>9
  <2> QED BY <2>1, <2>2, <2>3, <2>4, <1>1, <1>2
<1>12. ASSUME NEW i \in 0 .. Len(u)
       PROVE  qp2[Place(u, q, i + 1)] = Place(u, q, i)
  <2>1. CASE i + 1 < p
    <3>1. Place(u, q, i) = Place(s, q, i) /\ Place(u, q, i + 1) = Place(s, q, i + 1)
      BY <2>1, <1>1, <1>2, <1>5
    <3>2. i + 1 \in 1 .. Len(s) + 1 /\ i + 1 # p /\ (i + 1) - 1 = i
      BY <2>1, <1>1, <1>2
    <3>3. Place(s, q, i + 1) # c /\ Place(s, q, i + 1) # t /\ Place(s, q, i + 1) \in Node
      BY <3>2, <1>1, <1>4, <1>6 DEF c
    <3> QED BY <3>1, <3>2, <3>3, <1>7, <1>10
  <2>2. CASE i + 1 = p
    <3>1. Place(u, q, i) = b /\ Place(u, q, i + 1) = t
      <4>1. i = p - 1 /\ i \in 0 .. Len(s) + 2 /\ i + 1 \in 0 .. Len(s) + 2 /\ i < p
        BY <2>2, <1>1, <1>2
      <4> QED BY <2>2, <4>1, <1>5 DEF b
    <3>2. c # t
      BY <1>1, <1>6 DEF c
    <3> QED BY <3>1, <3>2, <1>10
  <2>3. CASE i = p
    <3>1. Place(u, q, i) = t /\ Place(u, q, i + 1) = c
      <4>1. p \in 0 .. Len(s) + 2 /\ p + 1 \in 0 .. Len(s) + 2 /\ p + 1 - 1 = p
        BY <1>1
      <4> QED BY <2>3, <4>1, <1>5 DEF c
    <3> QED BY <3>1, <1>10
  <2>4. CASE i > p
    <3>1. Place(u, q, i) = Place(s, q, i - 1) /\ Place(u, q, i + 1) = Place(s, q, i)
      BY <2>4, <1>1, <1>2, <1>5
    <3>2. i \in 1 .. Len(s) + 1 /\ i # p
      BY <2>4, <1>1, <1>2
    <3>3. Place(s, q, i) # c /\ Place(s, q, i) # t /\ Place(s, q, i) \in Node
      BY <3>2, <1>1, <1>4, <1>6 DEF c
    <3> QED BY <3>1, <3>2, <3>3, <1>7, <1>10
  <2> QED BY <2>1, <2>2, <2>3, <2>4, <1>1, <1>2
<1>13. \A i, j \in 1 .. Len(u) : u[i] = u[j] => i = j
  <2> SUFFICES ASSUME NEW i \in 1 .. Len(u), NEW j \in 1 .. Len(u), u[i] = u[j]
               PROVE  i = j
    OBVIOUS
  <2>1. \A m, n \in 1 .. Len(s) : s[m] = s[n] => m = n
    BY DEF Ring
  <2>2. CASE i = p \/ j = p
    <3>1. u[p] = t
      BY <1>1, <1>2
    <3>2. ASSUME NEW x \in 1 .. Len(u), x # p
          PROVE  u[x] # t
      <4>1. CASE x < p
        BY <4>1, <1>1, <1>2
      <4>2. CASE x > p
        <5>1. x - 1 \in 1 .. Len(s) /\ u[x] = s[x - 1]
          BY <4>2, <1>1, <1>2
        <5> QED BY <5>1
      <4> QED BY <3>2, <4>1, <4>2
    <3> QED BY <2>2, <3>1, <3>2
  <2>3. CASE i # p /\ j # p
    <3> DEFINE f(x) == IF x < p THEN x ELSE x - 1
    <3>1. f(i) \in 1 .. Len(s) /\ f(j) \in 1 .. Len(s)
      BY <2>3, <1>1, <1>2
    <3>2. u[i] = s[f(i)] /\ u[j] = s[f(j)]
      BY <2>3, <1>1, <1>2
    <3>3. f(i) = f(j)
      BY <2>1, <3>1, <3>2
    <3> QED BY <2>3, <3>3, <1>1, <1>2
  <2> QED BY <2>2, <2>3
<1>14. RingOf(qn2, qp2, u, q)
  BY <1>11, <1>12 DEF RingOf
<1> QED BY <1>2, <1>13, <1>14 DEF Ring, u, c, qn2, qp2

\* The surgery of sleep and unsleep takes a thread out of a ring.
LEMMA UnlinkKeepsRing ==
  ASSUME NEW qn \in [Node -> Node], NEW qp \in [Node -> Node],
         NEW s, NEW q \in Queues, Ring(qn, qp, s, q),
         NEW p \in 1 .. Len(s)
  PROVE  Ring(UnlinkNext(qn, qp, s[p]), UnlinkPrev(qn, qp, s[p]), RemoveAt(s, p), q)
<1> DEFINE u == RemoveAt(s, p)
           x == s[p]
           a == Place(s, q, p - 1)
           b == Place(s, q, p + 1)
           qn2 == UnlinkNext(qn, qp, x)
           qp2 == UnlinkPrev(qn, qp, x)
<1>1. s \in Seq(Threads) /\ Len(s) \in Nat /\ \A i \in 1 .. Len(s) : s[i] \in Threads
  BY ElementOfSeq DEF Ring
<1>2. /\ u \in Seq(Threads) /\ Len(u) = Len(s) - 1
      /\ \A i \in 1 .. Len(s) - 1 : u[i] = IF i < p THEN s[i] ELSE s[i + 1]
  BY <1>1, RemoveAtElements
<1>4. /\ \A i \in Nat : Place(s, q, i) \in Node
      /\ \A i, j \in 0 .. Len(s) : Place(s, q, i) = Place(s, q, j) => i = j
      /\ \A i, j \in 1 .. Len(s) + 1 : Place(s, q, i) = Place(s, q, j) => i = j
  BY PlacesDistinct DEF Ring
<1>5. x = Place(s, q, p)
  BY DEF Place
<1> HIDE DEF u
<1>6. \A i \in 0 .. Len(s) :
        Place(u, q, i) = IF i < p THEN Place(s, q, i) ELSE Place(s, q, i + 1)
  BY <1>1, <1>2 DEF Place
<1>7. /\ \A i \in 0 .. Len(s) : qn[Place(s, q, i)] = Place(s, q, i + 1)
      /\ \A i \in 1 .. Len(s) + 1 : qp[Place(s, q, i)] = Place(s, q, i - 1)
  <2>1. \A i \in 1 .. Len(s) + 1 : i - 1 \in 0 .. Len(s) /\ (i - 1) + 1 = i
    BY <1>1
  <2> QED BY <2>1 DEF Ring, RingOf
<1>8. /\ qn[x] = b /\ qp[x] = a
      /\ a \in Node /\ b \in Node /\ x \in Node /\ a # x /\ b # x
  <2>1. p \in 0 .. Len(s) /\ p \in 1 .. Len(s) + 1 /\ p - 1 \in 0 .. Len(s)
        /\ p + 1 \in 1 .. Len(s) + 1 /\ p - 1 # p /\ p + 1 # p
        /\ p \in Nat /\ p - 1 \in Nat /\ p + 1 \in Nat
    BY <1>1
  <2>2. qn[x] = b /\ qp[x] = a
    BY <2>1, <1>5, <1>7
  <2>3. a # x /\ b # x
    BY <2>1, <1>4, <1>5
  <2> QED BY <2>1, <2>2, <2>3, <1>4, <1>5
<1> HIDE DEF a, b, x
<1>9. /\ qn2[a] = b
      /\ \A n \in Node : n # x /\ n # a => qn2[n] = qn[n]
  BY <1>8 DEF UnlinkNext
<1>10. /\ qp2[b] = a
       /\ \A n \in Node : n # x /\ n # b => qp2[n] = qp[n]
  BY <1>8 DEF UnlinkPrev
<1> HIDE DEF qn2, qp2
<1>11. ASSUME NEW i \in 0 .. Len(u)
       PROVE  qn2[Place(u, q, i)] = Place(u, q, i + 1)
  <2>0. i \in 0 .. Len(s) /\ i + 1 \in 0 .. Len(s) /\ p \in 0 .. Len(s)
        /\ p - 1 \in 0 .. Len(s)
    BY <1>1, <1>2
  <2>1. CASE i < p - 1
    <3>1. Place(u, q, i) = Place(s, q, i) /\ Place(u, q, i + 1) = Place(s, q, i + 1)
      BY <2>0, <2>1, <1>1, <1>6
    <3>2. Place(s, q, i) # a /\ Place(s, q, i) # x /\ Place(s, q, i) \in Node
      BY <2>0, <2>1, <1>1, <1>4, <1>5 DEF a
    <3> QED BY <2>0, <3>1, <3>2, <1>7, <1>9
  <2>2. CASE i = p - 1
    <3>1. Place(u, q, i) = a /\ Place(u, q, i + 1) = b
      <4>1. i < p /\ i + 1 = p /\ ~(i + 1 < p)
        BY <2>2
      <4> QED BY <2>0, <2>2, <4>1, <1>6 DEF a, b
    <3> QED BY <3>1, <1>9
  <2>3. CASE i > p - 1
    <3>1. Place(u, q, i) = Place(s, q, i + 1) /\ Place(u, q, i + 1) = Place(s, q, (i + 1) + 1)
      <4>1. ~(i < p) /\ ~(i + 1 < p)
        BY <2>3, <2>0
      <4> QED BY <2>0, <4>1, <1>6
    <3>2. i + 1 # p /\ i + 1 # p - 1
      BY <2>3, <2>0
    <3>3. Place(s, q, i + 1) # a /\ Place(s, q, i + 1) # x /\ Place(s, q, i + 1) \in Node
      BY <2>0, <3>2, <1>1, <1>4, <1>5 DEF a
    <3> QED BY <2>0, <3>1, <3>3, <1>7, <1>9
  <2> QED BY <2>0, <2>1, <2>2, <2>3
<1>12. ASSUME NEW i \in 0 .. Len(u)
       PROVE  qp2[Place(u, q, i + 1)] = Place(u, q, i)
  <2>0. i \in 0 .. Len(s) /\ i + 1 \in 0 .. Len(s) /\ p \in 1 .. Len(s) + 1
        /\ p + 1 \in 1 .. Len(s) + 1 /\ i + 1 \in 1 .. Len(s) + 1
        /\ (i + 1) + 1 \in 1 .. Len(s) + 1
    BY <1>1, <1>2
  <2>1. CASE i + 1 < p
    <3>1. Place(u, q, i) = Place(s, q, i) /\ Place(u, q, i + 1) = Place(s, q, i + 1)
      BY <2>0, <2>1, <1>1, <1>6
    <3>2. i + 1 # p /\ i + 1 # p + 1 /\ (i + 1) - 1 = i
      BY <2>0, <2>1
    <3>3. Place(s, q, i + 1) # b /\ Place(s, q, i + 1) # x /\ Place(s, q, i + 1) \in Node
      BY <2>0, <3>2, <1>1, <1>4, <1>5 DEF b
    <3> QED BY <2>0, <3>1, <3>2, <3>3, <1>7, <1>10
  <2>2. CASE i + 1 = p
    <3>1. Place(u, q, i) = a /\ Place(u, q, i + 1) = b
      <4>1. i < p /\ i = p - 1 /\ ~(i + 1 < p)
        BY <2>0, <2>2
      <4> QED BY <2>0, <2>2, <4>1, <1>6 DEF a, b
    <3> QED BY <3>1, <1>10
  <2>3. CASE i + 1 > p
    <3>1. Place(u, q, i) = Place(s, q, i + 1) /\ Place(u, q, i + 1) = Place(s, q, (i + 1) + 1)
      <4>1. ~(i < p) /\ ~(i + 1 < p)
        BY <2>3, <2>0
      <4> QED BY <2>0, <4>1, <1>6
    <3>2. (i + 1) + 1 # p /\ (i + 1) + 1 # p + 1 /\ ((i + 1) + 1) - 1 = i + 1
          /\ (i + 1) + 1 \in Nat
      BY <2>3, <2>0
    <3>3. /\ Place(s, q, (i + 1) + 1) # b /\ Place(s, q, (i + 1) + 1) # x
          /\ Place(s, q, (i + 1) + 1) \in Node
      BY <2>0, <3>2, <1>1, <1>4, <1>5 DEF b
    <3> QED BY <2>0, <3>1, <3>2, <3>3, <1>7, <1>10
  <2> QED BY <2>0, <2>1, <2>2, <2>3
<1>13. \A i, j \in 1 .. Len(u) : u[i] = u[j] => i = j
  <2> SUFFICES ASSUME NEW i \in 1 .. Len(u), NEW j \in 1 .. Len(u), u[i] = u[j]
               PROVE  i = j
    OBVIOUS
  <2> DEFINE f(y) == IF y < p THEN y ELSE y + 1
  <2>1. \A m, n \in 1 .. Len(s) : s[m] = s[n] => m = n
    BY DEF Ring
  <2>2. f(i) \in 1 .. Len(s) /\ f(j) \in 1 .. Len(s)
    BY <1>1, <1>2
  <2>3. u[i] = s[f(i)] /\ u[j] = s[f(j)]
    BY <1>1, <1>2
  <2>4. f(i) = f(j)
    BY <2>1, <2>2, <2>3
  <2> QED BY <2>4, <1>1, <1>2
<1>14. RingOf(qn2, qp2, u, q)
  BY <1>11, <1>12 DEF RingOf
<1> QED BY <1>2, <1>13, <1>14 DEF Ring, u, x, qn2, qp2

\* thread_dequeue does to the head what sleep does to any thread.
LEMMA DequeueIsUnlink ==
  ASSUME NEW qn \in [Node -> Node], NEW qp \in [Node -> Node],
         NEW s, NEW q \in Queues, Ring(qn, qp, s, q), s # <<>>
  PROVE  /\ qn[q] = s[1]
         /\ DequeueNext(qn, q) = UnlinkNext(qn, qp, s[1])
         /\ DequeuePrev(qn, qp, q) = UnlinkPrev(qn, qp, s[1])
<1>1. s \in Seq(Threads) /\ Len(s) \in Nat /\ Len(s) >= 1
  BY EmptySeq DEF Ring
<1>2. qn[q] = s[1] /\ qp[s[1]] = q
  <2>1. Place(s, q, 0) = q /\ Place(s, q, 0 + 1) = s[1] /\ 0 \in 0 .. Len(s)
    BY <1>1 DEF Place
  <2> QED BY <2>1 DEF Ring, RingOf
<1> QED BY <1>2 DEF DequeueNext, DequeuePrev, UnlinkNext, UnlinkPrev

-----------------------------------------------------------------------------
(***************************************************************************)
(* All queues together                                                     *)
(***************************************************************************)

\* Rings and OneQueueEach, of links, homes and orders that are given.
Queued(qn, qp, h, ord) ==
  /\ ord \in [Queues -> Seq(Threads)]
  /\ h \in [Threads -> Queues \cup {NoQueue}]
  /\ \A q \in Queues : RingOf(qn, qp, ord[q], q)
  /\ \A q \in Queues : \A i \in 1 .. Len(ord[q]) : h[ord[q][i]] = q
  /\ \A q \in Queues : \A i, j \in 1 .. Len(ord[q]) : ord[q][i] = ord[q][j] => i = j
  /\ \A t \in Threads, q \in Queues :
       h[t] = q => \E i \in 1 .. Len(ord[q]) : ord[q][i] = t

LEMMA QueueFacts ==
  /\ ready_list \in Queues /\ sleep_list \in Queues /\ ready_list # sleep_list
  /\ NoQueue \notin Queues
  /\ \A q \in Queues : q \in Node /\ q \notin Threads /\ q # NULL
  /\ \A t \in Threads : t \in Node
  /\ 0 \in Threads /\ NTHREADS \notin Threads
BY NTHREADSAssumption DEF Queues, Threads, Node, ready_list, sleep_list, NoQueue, NULL

\* A thread that is in no queue is put into one.
LEMMA InsertKeepsQueues ==
  ASSUME NEW qn \in [Node -> Node], NEW qp \in [Node -> Node], NEW h, NEW ord,
         Queued(qn, qp, h, ord),
         NEW q \in Queues, NEW t \in Threads, h[t] = NoQueue,
         NEW p \in 1 .. Len(ord[q]) + 1,
         NEW c, c = Place(ord[q], q, p)
  PROVE  /\ InsertNext(qn, qp, t, c) \in [Node -> Node]
         /\ InsertPrev(qp, t, c) \in [Node -> Node]
         /\ Queued(InsertNext(qn, qp, t, c), InsertPrev(qp, t, c),
                   [h EXCEPT ![t] = q], [ord EXCEPT ![q] = InsertAt(@, p, t)])
<1> DEFINE qn2 == InsertNext(qn, qp, t, c)
           qp2 == InsertPrev(qp, t, c)
           h2 == [h EXCEPT ![t] = q]
           u == InsertAt(ord[q], p, t)
           ord2 == [ord EXCEPT ![q] = InsertAt(@, p, t)]
<1>1. ord[q] \in Seq(Threads) /\ Len(ord[q]) \in Nat
  BY DEF Queued
<1>2. \A r \in Queues : \A i \in 1 .. Len(ord[r]) : ord[r][i] # t /\ ord[r][i] \in Threads
  BY QueueFacts, ElementOfSeq DEF Queued
<1>3. Ring(qn, qp, ord[q], q)
  BY <1>1 DEF Ring, Queued
<1>4. Ring(qn2, qp2, u, q)
  BY <1>2, <1>3, InsertKeepsRing
<1>5. /\ u \in Seq(Threads) /\ Len(u) = Len(ord[q]) + 1
      /\ \A i \in 1 .. Len(ord[q]) + 1 :
           u[i] = IF i < p THEN ord[q][i] ELSE IF i = p THEN t ELSE ord[q][i - 1]
  <2>1. ASSUME NEW s \in Seq(Threads), NEW m \in 1 .. Len(s) + 1
        PROVE  /\ InsertAt(s, m, t) \in Seq(Threads) /\ Len(InsertAt(s, m, t)) = Len(s) + 1
               /\ \A i \in 1 .. Len(s) + 1 :
                    InsertAt(s, m, t)[i] =
                      IF i < m THEN s[i] ELSE IF i = m THEN t ELSE s[i - 1]
    BY InsertAtElements
  <2> HIDE DEF u
  <2>2. u = InsertAt(ord[q], p, t)
    BY DEF u
  <2> QED BY <2>1, <2>2, <1>1
<1>6. c \in Node /\ qp[c] \in Node /\ t \in Node
  BY <1>1, <1>3, PlacesDistinct, QueueFacts DEF Ring
<1>7. qn2 \in [Node -> Node] /\ qp2 \in [Node -> Node]
  BY <1>6 DEF InsertNext, InsertPrev
<1>8. ord2 \in [Queues -> Seq(Threads)] /\ ord2[q] = u
      /\ \A r \in Queues \ {q} : ord2[r] = ord[r]
  BY <1>5 DEF Queued
<1>9. h2 \in [Threads -> Queues \cup {NoQueue}] /\ h2[t] = q
      /\ \A x \in Threads \ {t} : h2[x] = h[x]
  BY DEF Queued
<1> HIDE DEF qn2, qp2, h2, u, ord2
<1>10. ASSUME NEW r \in Queues \ {q}
       PROVE  RingOf(qn2, qp2, ord[r], r)
  <2>1. \A i \in 1 .. Len(ord[r]) : h[ord[r][i]] = r
    BY DEF Queued
  <2>2. c \in Threads => h[c] = q
    BY <1>1, QueueFacts DEF Queued, Place
  <2>3. qp[c] = q \/ (qp[c] \in Threads /\ h[qp[c]] = q)
    <3>1. p - 1 \in 0 .. Len(ord[q]) /\ (p - 1) + 1 = p
      BY <1>1
    <3>2. qp[c] = Place(ord[q], q, p - 1)
      BY <3>1, <1>3 DEF Ring, RingOf
    <3> QED BY <1>2, <3>1, <3>2 DEF Place, Queued
  <2>4. c = q \/ c \in Threads
    BY <1>2 DEF Place
  <2>5. \A i \in Nat : LET n == Place(ord[r], r, i) IN n \in Node /\ n # t /\ n # c /\ n # qp[c]
    BY <1>2, <2>1, <2>2, <2>3, <2>4, QueueFacts DEF Place
  <2>6. \A n \in Node : n # t /\ n # c /\ n # qp[c] => qn2[n] = qn[n] /\ qp2[n] = qp[n]
    BY <1>6 DEF InsertNext, InsertPrev, qn2, qp2
  <2>7. Len(ord[r]) \in Nat /\ RingOf(qn, qp, ord[r], r)
    BY DEF Queued
  <2>8. \A i \in 0 .. Len(ord[r]) + 1 : i \in Nat
    BY <2>7
  <2> QED BY <2>5, <2>6, <2>7, <2>8, RingFrame
<1>11. \A r \in Queues : RingOf(qn2, qp2, ord2[r], r)
  BY <1>4, <1>8, <1>10 DEF Ring
<1>12. ASSUME NEW r \in Queues, NEW i \in 1 .. Len(ord2[r])
       PROVE  h2[ord2[r][i]] = r
  <2>1. CASE r = q
    <3>1. CASE i < p
      <4>1. u[i] = ord[q][i] /\ i \in 1 .. Len(ord[q])
        BY <2>1, <3>1, <1>1, <1>5, <1>8
      <4> QED BY <2>1, <4>1, <1>2, <1>8, <1>9 DEF Queued
    <3>2. CASE i = p
      BY <2>1, <3>2, <1>5, <1>8, <1>9
    <3>3. CASE i > p
      <4>0. i \in 1 .. Len(ord[q]) + 1 /\ ~(i < p) /\ i # p
        BY <2>1, <3>3, <1>1, <1>5, <1>8
      <4>1. u[i] = ord[q][i - 1] /\ i - 1 \in 1 .. Len(ord[q])
        BY <3>3, <4>0, <1>1, <1>5
      <4> QED BY <2>1, <4>1, <1>2, <1>8, <1>9 DEF Queued
    <3> QED BY <2>1, <3>1, <3>2, <3>3, <1>1, <1>5, <1>8
  <2>2. CASE r # q
    BY <2>2, <1>2, <1>8, <1>9 DEF Queued
  <2> QED BY <2>1, <2>2
<1>13. \A r \in Queues : \A i, j \in 1 .. Len(ord2[r]) : ord2[r][i] = ord2[r][j] => i = j
  <2> TAKE r \in Queues
  <2>1. CASE r = q
    BY <2>1, <1>4, <1>8 DEF Ring
  <2>2. CASE r # q
    BY <2>2, <1>8 DEF Queued
  <2> QED BY <2>1, <2>2
<1>14. ASSUME NEW x \in Threads, NEW r \in Queues, h2[x] = r
       PROVE  \E i \in 1 .. Len(ord2[r]) : ord2[r][i] = x
  <2>1. CASE x = t
    <3>1. r = q /\ p \in 1 .. Len(u) /\ u[p] = t
      BY <2>1, <1>1, <1>5, <1>9, <1>14
    <3> QED BY <2>1, <3>1, <1>8
  <2>2. CASE x # t
    <3>1. PICK i \in 1 .. Len(ord[r]) : ord[r][i] = x
      BY <2>2, <1>9, <1>14 DEF Queued
    <3>2. CASE r # q
      BY <3>1, <3>2, <1>8
    <3>3. CASE r = q /\ i < p
      <4>1. i \in 1 .. Len(u) /\ u[i] = x
        BY <3>1, <3>3, <1>1, <1>5
      <4> QED BY <3>3, <4>1, <1>8
    <3>4. CASE r = q /\ i >= p
      <4>0. /\ i + 1 \in 1 .. Len(ord[q]) + 1 /\ ~(i + 1 < p) /\ i + 1 # p
            /\ (i + 1) - 1 = i
        BY <3>1, <3>4, <1>1
      <4>1. i + 1 \in 1 .. Len(u) /\ u[i + 1] = ord[q][(i + 1) - 1] /\ (i + 1) - 1 = i
        BY <4>0, <1>5
      <4> QED BY <3>1, <3>4, <4>1, <1>8
    <3> QED BY <3>2, <3>3, <3>4, <3>1, <1>1
  <2> QED BY <2>1, <2>2
<1>15. Queued(qn2, qp2, h2, ord2)
  BY <1>8, <1>9, <1>11, <1>12, <1>13, <1>14 DEF Queued
<1> QED BY <1>7, <1>15 DEF qn2, qp2, h2, ord2

\* A thread is taken out of its queue.
LEMMA UnlinkKeepsQueues ==
  ASSUME NEW qn \in [Node -> Node], NEW qp \in [Node -> Node], NEW h, NEW ord,
         Queued(qn, qp, h, ord),
         NEW q \in Queues, NEW p \in 1 .. Len(ord[q]),
         NEW t, t = ord[q][p]
  PROVE  /\ UnlinkNext(qn, qp, t) \in [Node -> Node]
         /\ UnlinkPrev(qn, qp, t) \in [Node -> Node]
         /\ Queued(UnlinkNext(qn, qp, t), UnlinkPrev(qn, qp, t),
                   [h EXCEPT ![t] = NoQueue], [ord EXCEPT ![q] = RemoveAt(@, p)])
<1> DEFINE qn2 == UnlinkNext(qn, qp, t)
           qp2 == UnlinkPrev(qn, qp, t)
           h2 == [h EXCEPT ![t] = NoQueue]
           u == RemoveAt(ord[q], p)
           ord2 == [ord EXCEPT ![q] = RemoveAt(@, p)]
<1>1. ord[q] \in Seq(Threads) /\ Len(ord[q]) \in Nat /\ t \in Threads /\ h[t] = q
  BY ElementOfSeq DEF Queued
<1>2. \A r \in Queues : \A i \in 1 .. Len(ord[r]) : ord[r][i] \in Threads
  BY ElementOfSeq DEF Queued
<1>3. Ring(qn, qp, ord[q], q)
  BY <1>1 DEF Ring, Queued
<1>4. Ring(qn2, qp2, u, q)
  BY <1>3, UnlinkKeepsRing
<1>5. /\ u \in Seq(Threads) /\ Len(u) = Len(ord[q]) - 1
      /\ \A i \in 1 .. Len(ord[q]) - 1 :
           u[i] = IF i < p THEN ord[q][i] ELSE ord[q][i + 1]
  <2>1. ASSUME NEW s \in Seq(Threads), NEW m \in 1 .. Len(s)
        PROVE  /\ RemoveAt(s, m) \in Seq(Threads) /\ Len(RemoveAt(s, m)) = Len(s) - 1
               /\ \A i \in 1 .. Len(s) - 1 :
                    RemoveAt(s, m)[i] = IF i < m THEN s[i] ELSE s[i + 1]
    BY RemoveAtElements
  <2> HIDE DEF u
  <2>2. u = RemoveAt(ord[q], p)
    BY DEF u
  <2> QED BY <2>1, <2>2, <1>1
<1>6. qp[t] \in Node /\ qn[t] \in Node /\ t \in Node
  BY <1>1, QueueFacts
<1>7. qn2 \in [Node -> Node] /\ qp2 \in [Node -> Node]
  BY <1>6, QueueFacts DEF UnlinkNext, UnlinkPrev, NULL
<1>8. ord2 \in [Queues -> Seq(Threads)] /\ ord2[q] = u
      /\ \A r \in Queues \ {q} : ord2[r] = ord[r]
  BY <1>5 DEF Queued
<1>9. h2 \in [Threads -> Queues \cup {NoQueue}] /\ h2[t] = NoQueue
      /\ \A x \in Threads \ {t} : h2[x] = h[x]
  BY <1>1 DEF Queued
<1> HIDE DEF qn2, qp2, h2, u, ord2
<1>10. ASSUME NEW r \in Queues \ {q}
       PROVE  RingOf(qn2, qp2, ord[r], r)
  <2>1. \A i \in 1 .. Len(ord[r]) : h[ord[r][i]] = r
    BY DEF Queued
  <2>2. \A n \in {qn[t], qp[t]} : n = q \/ (n \in Threads /\ h[n] = q)
    <3>1. p - 1 \in 0 .. Len(ord[q]) /\ (p - 1) + 1 = p /\ p \in 0 .. Len(ord[q])
      BY <1>1
    <3>2. Place(ord[q], q, p) = t
      BY DEF Place
    <3>3. qp[t] = Place(ord[q], q, p - 1) /\ qn[t] = Place(ord[q], q, p + 1)
      BY <3>1, <3>2, <1>3 DEF Ring, RingOf
    <3> QED BY <1>2, <3>3 DEF Place, Queued
  <2>5. \A i \in Nat : LET n == Place(ord[r], r, i)
                       IN n \in Node /\ n # t /\ n # qn[t] /\ n # qp[t]
    BY <1>1, <1>2, <2>1, <2>2, QueueFacts DEF Place
  <2>6. \A n \in Node : n # t /\ n # qn[t] /\ n # qp[t] => qn2[n] = qn[n] /\ qp2[n] = qp[n]
    BY <1>6 DEF UnlinkNext, UnlinkPrev, qn2, qp2
  <2>7. Len(ord[r]) \in Nat /\ RingOf(qn, qp, ord[r], r)
    BY DEF Queued
  <2>8. \A i \in 0 .. Len(ord[r]) + 1 : i \in Nat
    BY <2>7
  <2> QED BY <2>5, <2>6, <2>7, <2>8, RingFrame
<1>11. \A r \in Queues : RingOf(qn2, qp2, ord2[r], r)
  BY <1>4, <1>8, <1>10 DEF Ring
<1>12. ASSUME NEW r \in Queues, NEW i \in 1 .. Len(ord2[r])
       PROVE  h2[ord2[r][i]] = r
  <2>1. CASE r = q
    <3> DEFINE j == IF i < p THEN i ELSE i + 1
    <3>1. i \in 1 .. Len(ord[q]) - 1
      BY <2>1, <1>5, <1>8
    <3>2. j \in 1 .. Len(ord[q]) /\ j # p /\ ord2[r][i] = ord[q][j]
      BY <2>1, <3>1, <1>1, <1>5, <1>8
    <3> HIDE DEF j
    <3>3. ord[q][j] # t /\ h[ord[q][j]] = q /\ ord[q][j] \in Threads
      BY <3>2, <1>2 DEF Queued
    <3> QED BY <2>1, <3>2, <3>3, <1>9
  <2>2. CASE r # q
    <3>1. ord2[r] = ord[r] /\ h[ord[r][i]] = r /\ ord[r][i] \in Threads
      BY <2>2, <1>2, <1>8 DEF Queued
    <3> QED BY <2>2, <3>1, <1>1, <1>9
  <2> QED BY <2>1, <2>2
<1>13. \A r \in Queues : \A i, j \in 1 .. Len(ord2[r]) : ord2[r][i] = ord2[r][j] => i = j
  <2> TAKE r \in Queues
  <2>1. CASE r = q
    BY <2>1, <1>4, <1>8 DEF Ring
  <2>2. CASE r # q
    BY <2>2, <1>8 DEF Queued
  <2> QED BY <2>1, <2>2
<1>14. ASSUME NEW x \in Threads, NEW r \in Queues, h2[x] = r
       PROVE  \E i \in 1 .. Len(ord2[r]) : ord2[r][i] = x
  <2>1. x # t /\ h[x] = r
    BY <1>9, <1>14, QueueFacts
  <2>2. PICK i \in 1 .. Len(ord[r]) : ord[r][i] = x
    BY <2>1 DEF Queued
  <2>3. CASE r # q
    BY <2>2, <2>3, <1>8
  <2>4. CASE r = q /\ i < p
    <3>1. i \in 1 .. Len(u) /\ u[i] = x
      BY <2>2, <2>4, <1>1, <1>5
    <3> QED BY <2>4, <3>1, <1>8
  <2>5. CASE r = q /\ i > p
    <3>1. /\ i - 1 \in 1 .. Len(ord[q]) - 1 /\ ~(i - 1 < p) /\ (i - 1) + 1 = i
          /\ i - 1 \in 1 .. Len(u)
      BY <2>2, <2>5, <1>1, <1>5
    <3>2. u[i - 1] = x
      BY <2>2, <2>5, <3>1, <1>5
    <3> QED BY <2>5, <3>1, <3>2, <1>8
  <2>6. ~(r = q /\ i = p)
    BY <2>1, <2>2
  <2> QED BY <2>2, <2>3, <2>4, <2>5, <2>6, <1>1
<1>15. Queued(qn2, qp2, h2, ord2)
  BY <1>8, <1>9, <1>11, <1>12, <1>13, <1>14 DEF Queued
<1> QED BY <1>7, <1>15 DEF qn2, qp2, h2, ord2

\* A walk that is at a thread of the queue moves to the next place of it.
LEMMA WalkMoves ==
  ASSUME NEW qn, NEW qp, NEW h, NEW ord, Queued(qn, qp, h, ord), NEW q \in Queues
  PROVE  /\ Len(ord[q]) \in Nat
         /\ qn[q] = Place(ord[q], q, 1)
         /\ \A i \in 1 .. Len(ord[q]) + 1 :
              LET n == Place(ord[q], q, i) IN
              /\ n = q \/ (n \in Threads /\ h[n] = q)
              /\ n = q <=> i = Len(ord[q]) + 1
              /\ n # q => /\ i \in 1 .. Len(ord[q])
                          /\ n = ord[q][i]
                          /\ qn[n] = Place(ord[q], q, i + 1)
<1>1. ord[q] \in Seq(Threads) /\ Len(ord[q]) \in Nat
  BY DEF Queued
<1>2. \A i \in 1 .. Len(ord[q]) : ord[q][i] \in Threads /\ h[ord[q][i]] = q
  BY <1>1, ElementOfSeq DEF Queued
<1>3. qn[q] = Place(ord[q], q, 1)
  <2>1. Place(ord[q], q, 0) = q /\ 0 \in 0 .. Len(ord[q]) /\ 0 + 1 = 1
    BY <1>1 DEF Place
  <2> QED BY <2>1 DEF Queued, RingOf
<1>4. ASSUME NEW i \in 1 .. Len(ord[q])
      PROVE  qn[Place(ord[q], q, i)] = Place(ord[q], q, i + 1)
  <2>1. i \in 0 .. Len(ord[q])
    BY <1>1
  <2> QED BY <2>1 DEF Queued, RingOf
<1>5. ASSUME NEW i \in 1 .. Len(ord[q]) + 1, NEW n, n = Place(ord[q], q, i)
      PROVE  /\ n = q \/ (n \in Threads /\ h[n] = q)
             /\ n = q <=> i = Len(ord[q]) + 1
             /\ n # q => /\ i \in 1 .. Len(ord[q])
                         /\ n = ord[q][i]
                         /\ qn[n] = Place(ord[q], q, i + 1)
  <2>1. CASE i \in 1 .. Len(ord[q])
    <3>1. n = ord[q][i] /\ n \in Threads /\ h[n] = q /\ n # q /\ i # Len(ord[q]) + 1
      BY <2>1, <1>1, <1>2, <1>5, QueueFacts DEF Place
    <3> QED BY <2>1, <3>1, <1>4, <1>5
  <2>2. CASE i = Len(ord[q]) + 1
    <3>1. i \notin 1 .. Len(ord[q])
      BY <2>2, <1>1
    <3> QED BY <2>2, <3>1, <1>5 DEF Place
  <2> QED BY <2>1, <2>2, <1>1
<1> QED BY <1>1, <1>3, <1>5

-----------------------------------------------------------------------------
(***************************************************************************)
(* The inductive invariant                                                 *)
(***************************************************************************)

IInv == TypeOK /\ Rings /\ OneQueueEach /\ WalkInQueue /\ ReadyKeys

LEMMA QueuedNow ==
  TypeOK => (Rings /\ OneQueueEach <=> Queued(qnext, qprev, home, order))
BY DEF TypeOK, Rings, OneQueueEach, Queued

LEMMA QueuedNext ==
  TypeOK' => (Rings' /\ OneQueueEach' <=> Queued(qnext', qprev', home', order'))
BY DEF TypeOK, Rings, OneQueueEach, Queued

LEMMA PriorityIsAKey == priority \in Keys /\ KeyMod \in Nat
BY KeyModAssumption DEF priority, Keys

\* It holds of the queues as initialize() leaves them (initialize.c 40-45).
THEOREM InitInvariant == Init => IInv
<1> SUFFICES ASSUME Init PROVE IInv
  OBVIOUS
<1>1. TypeOK
  <2>1. priority \in Keys /\ priority = 0
    BY PriorityIsAKey DEF priority
  <2>2. <<>> \in Seq(Threads)
    OBVIOUS
  <2> QED BY <2>1, <2>2, QueueFacts DEF Init, TypeOK, PCs, NULL
<1>2. \A q \in Queues : order[q] = <<>> /\ Len(order[q]) = 0
  BY DEF Init
<1>3. Rings
  <2> SUFFICES ASSUME NEW q \in Queues PROVE RingOf(qnext, qprev, order[q], q)
    BY DEF Rings
  <2>1. \A i \in 0 .. 1 : Place(order[q], q, i) = q
    BY <1>2 DEF Place
  <2>2. qnext[q] = q /\ qprev[q] = q
    BY QueueFacts DEF Init
  <2>3. \A i \in 0 .. Len(order[q]) : i = 0
    BY <1>2
  <2>4. Place(order[q], q, 0) = q /\ Place(order[q], q, 0 + 1) = q
    BY <2>1
  <2> QED BY <2>2, <2>3, <2>4 DEF RingOf
<1>4. OneQueueEach
  BY <1>2, QueueFacts DEF Init, OneQueueEach
<1>5. WalkInQueue /\ ReadyKeys
  BY QueueFacts DEF Init, WalkInQueue, ReadyKeys
<1> QED BY <1>1, <1>3, <1>4, <1>5 DEF IInv

\* A call of thread_enqueue begins at the head of the ready list.
LEMMA EnqueueCallStep ==
  ASSUME IInv, NEW t \in Threads, EnqueueCall(t)
  PROVE  IInv'
<1> USE DEF IInv, EnqueueCall, links
<1>1. TypeOK'
  BY PriorityIsAKey, QueueFacts DEF TypeOK, PCs
<1>2. Rings' /\ OneQueueEach'
  BY <1>1, QueuedNow, QueuedNext
<1>3. WalkInQueue'
  <2>1. Queued(qnext, qprev, home, order)
    BY QueuedNow
  <2>2. Walked' = ready_list
    BY DEF Walked
  <2> QED BY <2>1, <2>2, WalkMoves, QueueFacts DEF WalkInQueue
<1>4. ReadyKeys'
  BY DEF ReadyKeys
<1> QED BY <1>1, <1>2, <1>3, <1>4

LEMMA EnqueueWalkStep ==
  ASSUME IInv, EnqueueWalk
  PROVE  IInv'
<1> USE DEF IInv, EnqueueWalk, links
<1>1. TypeOK'
  BY QueueFacts DEF TypeOK
<1>2. Rings' /\ OneQueueEach'
  BY <1>1, QueuedNow, QueuedNext
<1>3. WalkInQueue'
  <2>1. Queued(qnext, qprev, home, order)
    BY QueuedNow
  <2>2. Walked' = ready_list /\ Walked = ready_list
    BY DEF Walked
  <2>3. curr # ready_list
    BY DEF EnqueuePasses
  <2>4. /\ pos \in 1 .. Len(order[ready_list]) /\ Len(order[ready_list]) \in Nat
        /\ qnext[curr] = Place(order[ready_list], ready_list, pos + 1)
    BY <2>1, <2>2, <2>3, WalkMoves, QueueFacts DEF WalkInQueue
  <2>5. pos + 1 \in 1 .. Len(order[ready_list]) + 1
    BY <2>4
  <2> QED BY <2>2, <2>4, <2>5 DEF WalkInQueue
<1>4. ReadyKeys'
  BY DEF ReadyKeys
<1> QED BY <1>1, <1>2, <1>3, <1>4

\* The place at which a call links its thread is the place of curr, or the
\* tail if curr is thread 0.
LEMMA InsertionPlace ==
  ASSUME NEW qn, NEW qp, NEW h, NEW ord, Queued(qn, qp, h, ord), NEW q \in Queues,
         NEW m \in 1 .. Len(ord[q]) + 1, NEW n, n = Place(ord[q], q, m),
         NEW p, p = IF InsertBefore(q, n) = n THEN m ELSE Len(ord[q]) + 1
  PROVE  p \in 1 .. Len(ord[q]) + 1 /\ InsertBefore(q, n) = Place(ord[q], q, p)
<1>1. Len(ord[q]) \in Nat /\ Len(ord[q]) + 1 \in 1 .. Len(ord[q]) + 1
  BY WalkMoves
<1>2. Place(ord[q], q, Len(ord[q]) + 1) = q
  BY <1>1 DEF Place
<1> QED BY <1>1, <1>2 DEF InsertBefore

LEMMA EnqueueLinkStep ==
  ASSUME IInv, EnqueueLink
  PROVE  IInv'
<1> DEFINE c == InsertBefore(ready_list, curr)
           p == IF c = curr THEN pos ELSE Len(order[ready_list]) + 1
<1> USE DEF IInv
<1>1. Queued(qnext, qprev, home, order)
  BY QueuedNow
<1>2. /\ Walked = ready_list /\ home[tid] = NoQueue /\ tid \in Threads
      /\ pos \in 1 .. Len(order[ready_list]) + 1
      /\ curr = Place(order[ready_list], ready_list, pos)
  BY DEF EnqueueLink, EnqueueEnds, WalkInQueue, Walked, TypeOK, Returns
<1>3. p \in 1 .. Len(order[ready_list]) + 1 /\ c = Place(order[ready_list], ready_list, p)
  BY <1>1, <1>2, QueueFacts, InsertionPlace
<1>4. /\ qnext' = InsertNext(qnext, qprev, tid, c) /\ qprev' = InsertPrev(qprev, tid, c)
      /\ home' = [home EXCEPT ![tid] = ready_list]
      /\ order' = [order EXCEPT ![ready_list] = InsertAt(@, p, tid)]
  <2>1. c = curr <=> curr # NULL
    BY NTHREADSAssumption DEF InsertBefore, ready_list, NULL
  <2> QED BY <2>1 DEF EnqueueLink, EnqueueEnds, Returns
<1> HIDE DEF c, p
<1>5. /\ qnext' \in [Node -> Node] /\ qprev' \in [Node -> Node]
      /\ Queued(qnext', qprev', home', order')
  BY <1>1, <1>2, <1>3, <1>4, QueueFacts, InsertKeepsQueues DEF TypeOK
<1>6. TypeOK'
  BY <1>5, QueueFacts, PriorityIsAKey
  DEF TypeOK, EnqueueLink, EnqueueEnds, locals, Queued, PCs, KeySet, Returns, priority
<1>7. Rings' /\ OneQueueEach'
  BY <1>5, <1>6, QueuedNext
<1>8. WalkInQueue'
  BY DEF EnqueueLink, EnqueueEnds, WalkInQueue, Returns
<1>9. ReadyKeys'
  BY <1>2, <1>4, QueueFacts DEF EnqueueLink, EnqueueEnds, ReadyKeys, TypeOK, KeySet, Returns
<1> QED BY <1>6, <1>7, <1>8, <1>9

LEMMA DequeueEmptyStep ==
  ASSUME IInv, DequeueEmpty
  PROVE  IInv'
<1> USE DEF IInv, DequeueEmpty, links, locals, history
<1>1. TypeOK'
  BY DEF TypeOK
<1>2. Rings' /\ OneQueueEach'
  BY <1>1, QueuedNow, QueuedNext
<1>3. WalkInQueue' /\ ReadyKeys'
  BY DEF WalkInQueue, Walked, ReadyKeys
<1> QED BY <1>1, <1>2, <1>3

\* The head of the ready list, as thread_dequeue finds it.
LEMMA ReadyHead ==
  ASSUME IInv, qnext[ready_list] # ready_list
  PROVE  /\ order[ready_list] # <<>>
         /\ 1 \in 1 .. Len(order[ready_list])
         /\ qnext[ready_list] = order[ready_list][1]
         /\ order[ready_list][1] \in Threads
         /\ Head(order[ready_list]) = order[ready_list][1]
         /\ DequeueNext(qnext, ready_list) = UnlinkNext(qnext, qprev, order[ready_list][1])
         /\ DequeuePrev(qnext, qprev, ready_list) = UnlinkPrev(qnext, qprev, order[ready_list][1])
         /\ RemoveAt(order[ready_list], 1) = Tail(order[ready_list])
<1> DEFINE s == order[ready_list]
<1>1. Queued(qnext, qprev, home, order)
  BY QueuedNow DEF IInv
<1>2. s \in Seq(Threads) /\ Len(s) \in Nat /\ qnext[ready_list] = Place(s, ready_list, 1)
  <2>1. s \in Seq(Threads)
    BY <1>1, QueueFacts DEF Queued
  <2>2. \A q \in Queues : qnext[q] = Place(order[q], q, 1)
    BY <1>1, WalkMoves
  <2> QED BY <2>1, <2>2, QueueFacts
<1>3. s # <<>> /\ 1 \in 1 .. Len(s) /\ s[1] \in Threads
  <2>1. 1 \in 1 .. Len(s)
    BY <1>2 DEF Place
  <2> QED BY <1>2, <2>1, ElementOfSeq
<1>4. Ring(qnext, qprev, s, ready_list)
  BY <1>1, <1>2, QueueFacts DEF Ring, Queued
<1>5. qnext[ready_list] = s[1] /\ Head(s) = s[1]
  BY <1>2, <1>3 DEF Place
<1> HIDE DEF s
<1>6. /\ DequeueNext(qnext, ready_list) = UnlinkNext(qnext, qprev, s[1])
      /\ DequeuePrev(qnext, qprev, ready_list) = UnlinkPrev(qnext, qprev, s[1])
  <2>1. qnext \in [Node -> Node] /\ qprev \in [Node -> Node] /\ ready_list \in Queues
    BY QueueFacts DEF IInv, TypeOK
  <2> QED BY <1>3, <1>4, <2>1, DequeueIsUnlink
<1>7. RemoveAt(s, 1) = Tail(s)
  BY <1>2, <1>3, RemoveFirstIsTail
<1> QED BY <1>3, <1>5, <1>6, <1>7 DEF s

LEMMA DequeueHeadStep ==
  ASSUME IInv, DequeueHead
  PROVE  IInv'
<1> DEFINE s == order[ready_list]
           t == s[1]
<1> USE DEF IInv
<1>1. Queued(qnext, qprev, home, order)
  BY QueuedNow
<1>2. /\ 1 \in 1 .. Len(s) /\ t \in Threads /\ qnext[ready_list] = t
      /\ DequeueNext(qnext, ready_list) = UnlinkNext(qnext, qprev, t)
      /\ DequeuePrev(qnext, qprev, ready_list) = UnlinkPrev(qnext, qprev, t)
      /\ RemoveAt(s, 1) = Tail(s)
  BY ReadyHead DEF DequeueHead, DequeueTakes
<1>3. /\ qnext' = UnlinkNext(qnext, qprev, t) /\ qprev' = UnlinkPrev(qnext, qprev, t)
      /\ home' = [home EXCEPT ![t] = NoQueue]
      /\ order' = [order EXCEPT ![ready_list] = RemoveAt(@, 1)]
      /\ ret' = t
  <2> HIDE DEF IInv, s
  <2>1. order' = [order EXCEPT ![ready_list] = Tail(order[ready_list])]
        /\ RemoveAt(order[ready_list], 1) = Tail(order[ready_list])
    BY <1>2 DEF DequeueHead, DequeueTakes, s
  <2> QED BY <1>2, <2>1 DEF DequeueHead, DequeueTakes
<1>4. /\ qnext' \in [Node -> Node] /\ qprev' \in [Node -> Node]
      /\ Queued(qnext', qprev', home', order')
  <2> HIDE DEF IInv
  <2> QED BY <1>1, <1>2, <1>3, QueueFacts, UnlinkKeepsQueues DEF TypeOK, IInv
<1>5. TypeOK'
  <2>1. /\ order' \in [Queues -> Seq(Threads)]
        /\ home' \in [Threads -> Queues \cup {NoQueue}]
    BY <1>4 DEF Queued
  <2>2. UNCHANGED <<key, pc, curr, tid, k, pos, asked>> /\ ret' \in Threads
    BY <1>2, <1>3 DEF DequeueHead, DequeueTakes, locals
  <2> QED BY <1>4, <2>1, <2>2 DEF TypeOK
<1>6. Rings' /\ OneQueueEach'
  BY <1>4, <1>5, QueuedNext
<1>7. WalkInQueue' /\ ReadyKeys'
  <2>1. pc' = "idle" /\ key' = key /\ k' = k
    BY DEF DequeueHead, DequeueTakes, locals
  <2>2. \A x \in Threads : home'[x] = ready_list => home[x] = ready_list
    BY <1>2, <1>3, QueueFacts DEF TypeOK
  <2> QED BY <2>1, <2>2 DEF WalkInQueue, ReadyKeys
<1> QED BY <1>5, <1>6, <1>7

\* The call that sleeps a thread begins to search the ready list for it.
LEMMA SleepCallStep ==
  ASSUME IInv, NEW t \in Threads, NEW d \in Delays, SleepCall(t, d)
  PROVE  IInv'
<1> USE DEF IInv, SleepCall, links
<1>1. TypeOK'
  BY DelaysAssumption, QueueFacts DEF TypeOK, PCs
<1>2. Rings' /\ OneQueueEach'
  BY <1>1, QueuedNow, QueuedNext
<1>3. WalkInQueue'
  <2>1. Queued(qnext, qprev, home, order)
    BY QueuedNow
  <2>2. Walked' = ready_list
    BY DEF Walked
  <2> QED BY <2>1, <2>2, WalkMoves, QueueFacts DEF WalkInQueue
<1>4. ReadyKeys'
  BY DEF ReadyKeys
<1> QED BY <1>1, <1>2, <1>3, <1>4

LEMMA UnsleepCallStep ==
  ASSUME IInv, NEW t \in Threads, UnsleepCall(t)
  PROVE  IInv'
<1> USE DEF IInv, UnsleepCall, links
<1>1. TypeOK'
  BY QueueFacts DEF TypeOK, PCs
<1>2. Rings' /\ OneQueueEach'
  BY <1>1, QueuedNow, QueuedNext
<1>3. WalkInQueue'
  <2>1. Queued(qnext, qprev, home, order)
    BY QueuedNow
  <2>2. Walked' = sleep_list
    BY DEF Walked
  <2> QED BY <2>1, <2>2, WalkMoves, QueueFacts DEF WalkInQueue
<1>4. ReadyKeys'
  BY DEF ReadyKeys
<1> QED BY <1>1, <1>2, <1>3, <1>4

\* While a search has not met its thread, the thread is at a later place, and
\* the search is at a thread of its queue.
LEMMA SearchAhead ==
  ASSUME IInv, pc \in {"find", "unfind"}
  PROVE  /\ Walked \in Queues
         /\ Len(order[Walked]) \in Nat
         /\ pos \in 1 .. Len(order[Walked])
         /\ curr = order[Walked][pos]
         /\ curr \in Threads
         /\ qnext[curr] = Place(order[Walked], Walked, pos + 1)
<1> DEFINE q == Walked
<1>1. q \in Queues
  BY QueueFacts DEF Walked
<1>2. Queued(qnext, qprev, home, order)
  BY QueuedNow DEF IInv
<1>3. /\ pos \in 1 .. Len(order[q]) + 1 /\ curr = Place(order[q], q, pos)
      /\ home[tid] = q /\ tid \in Threads
      /\ \A i \in 1 .. pos - 1 : order[q][i] # tid
  BY DEF IInv, WalkInQueue, TypeOK
<1> HIDE DEF q
<1>4. Len(order[q]) \in Nat
  BY <1>1, <1>2, WalkMoves
<1>5. PICK j \in 1 .. Len(order[q]) : order[q][j] = tid
  BY <1>1, <1>2, <1>3 DEF Queued
<1>6. pos \in 1 .. Len(order[q])
  BY <1>3, <1>4, <1>5
<1>7. pos # Len(order[q]) + 1
  BY <1>4, <1>6
<1>8. LET n == Place(order[q], q, pos) IN
        /\ n = q \/ (n \in Threads /\ home[n] = q)
        /\ n = q <=> pos = Len(order[q]) + 1
        /\ n # q => /\ pos \in 1 .. Len(order[q])
                    /\ n = order[q][pos]
                    /\ qnext[n] = Place(order[q], q, pos + 1)
  BY <1>1, <1>2, <1>3, WalkMoves
<1>9. /\ curr = order[q][pos] /\ curr \in Threads
      /\ qnext[curr] = Place(order[q], q, pos + 1)
  BY <1>3, <1>7, <1>8
<1> QED BY <1>1, <1>4, <1>6, <1>9 DEF q

LEMMA FindWalkStep ==
  ASSUME IInv, SleepFindWalk \/ UnsleepFindWalk
  PROVE  IInv'
<1>1. /\ pc \in {"find", "unfind"} /\ curr # tid
      /\ curr' = qnext[curr] /\ pos' = pos + 1
      /\ UNCHANGED <<qnext, qprev, key, home, pc, tid, k, ret, order, asked>>
  BY DEF SleepFindWalk, UnsleepFindWalk, links, FindStops
<1>2. TypeOK'
  BY <1>1, QueueFacts DEF IInv, TypeOK
<1>3. Rings' /\ OneQueueEach'
  BY <1>1, <1>2, QueuedNow, QueuedNext DEF IInv
<1>4. WalkInQueue'
  <2>1. Walked' = Walked
    BY <1>1 DEF Walked
  <2>2. /\ Len(order[Walked]) \in Nat /\ pos \in 1 .. Len(order[Walked])
        /\ curr = order[Walked][pos]
        /\ qnext[curr] = Place(order[Walked], Walked, pos + 1)
    BY <1>1, SearchAhead
  <2>3. home[tid] = Walked /\ \A i \in 1 .. pos - 1 : order[Walked][i] # tid
    BY <1>1 DEF IInv, WalkInQueue
  <2>4. \A i \in 1 .. (pos + 1) - 1 : order[Walked][i] # tid
    <3>1. \A i \in 1 .. (pos + 1) - 1 : i = pos \/ i \in 1 .. pos - 1
      BY <2>2
    <3> QED BY <3>1, <2>2, <2>3, <1>1
  <2>5. pos + 1 \in 1 .. Len(order[Walked]) + 1
    BY <2>2
  <2> QED BY <1>1, <2>1, <2>2, <2>3, <2>4, <2>5 DEF WalkInQueue
<1>5. ReadyKeys'
  BY <1>1 DEF IInv, ReadyKeys
<1> QED BY <1>2, <1>3, <1>4, <1>5 DEF IInv

\* A search ends at its thread, never at a root, and unlinks it.
LEMMA SearchEnds ==
  ASSUME IInv, pc \in {"find", "unfind"}, curr = ready_list \/ curr = tid,
         NEW qn2, qn2 = UnlinkNext(qnext, qprev, curr),
         NEW qp2, qp2 = UnlinkPrev(qnext, qprev, curr),
         NEW h2, h2 = [home EXCEPT ![tid] = NoQueue],
         NEW ord2, ord2 = [order EXCEPT ![Walked] = RemoveAt(@, pos)]
  PROVE  /\ curr = tid
         /\ qn2 \in [Node -> Node] /\ qp2 \in [Node -> Node]
         /\ Queued(qn2, qp2, h2, ord2)
<1>1. /\ Walked \in Queues /\ pos \in 1 .. Len(order[Walked])
      /\ curr = order[Walked][pos] /\ curr \in Threads
  BY SearchAhead
<1>2. curr = tid
  BY <1>1, QueueFacts
<1>3. Queued(qnext, qprev, home, order)
  BY QueuedNow DEF IInv
<1>4. qnext \in [Node -> Node] /\ qprev \in [Node -> Node]
  BY DEF IInv, TypeOK
<1> QED BY <1>1, <1>2, <1>3, <1>4, UnlinkKeepsQueues

LEMMA SleepUnlinkStep ==
  ASSUME IInv, SleepUnlink
  PROVE  IInv'
<1>1. /\ pc = "find" /\ (curr = ready_list \/ curr = tid)
      /\ qnext' = UnlinkNext(qnext, qprev, curr)
      /\ qprev' = UnlinkPrev(qnext, qprev, curr)
      /\ home' = [home EXCEPT ![tid] = NoQueue]
      /\ order' = [order EXCEPT ![ready_list] = RemoveAt(@, pos)]
      /\ UNCHANGED ret
  BY DEF SleepUnlink, SleepFinds, FindStops, KeySet, Returns
<1>2. /\ curr = tid
      /\ qnext' \in [Node -> Node] /\ qprev' \in [Node -> Node]
      /\ Queued(qnext', qprev', home', order')
  <2>1. Walked = ready_list
    BY <1>1 DEF Walked
  <2> QED BY <1>1, <2>1, SearchEnds
<1>3. tid \in Threads /\ key \in [Node -> Keys] /\ k \in Keys /\ home \in [Threads -> Queues \cup {NoQueue}]
  BY DEF IInv, TypeOK
<1>4. home'[tid] = NoQueue /\ \A t \in Threads : home'[t] = ready_list => home[t] = ready_list /\ t # tid
  BY <1>1, <1>3, QueueFacts
<1>5. order' \in [Queues -> Seq(Threads)] /\ home' \in [Threads -> Queues \cup {NoQueue}]
  BY <1>2 DEF Queued
<1>6. CASE /\ key' = [key EXCEPT ![tid] = k] /\ pc' = "enqueue_sleep"
           /\ curr' = qnext'[sleep_list] /\ pos' = 1
           /\ asked' = [asked EXCEPT ![tid] = k] /\ UNCHANGED <<tid, k>>
  <2>1. TypeOK'
    BY <1>1, <1>2, <1>3, <1>5, <1>6, QueueFacts DEF IInv, TypeOK, PCs
  <2>2. WalkInQueue'
    <3>1. Walked' = sleep_list
      BY <1>6 DEF Walked
    <3>2. curr' = Place(order'[sleep_list], sleep_list, 1) /\ Len(order'[sleep_list]) \in Nat
      BY <1>2, <1>6, WalkMoves, QueueFacts
    <3>3. 1 \in 1 .. Len(order'[sleep_list]) + 1
      BY <3>2
    <3> QED BY <1>1, <1>4, <1>6, <3>1, <3>2, <3>3 DEF WalkInQueue
  <2>3. ReadyKeys'
    BY <1>3, <1>4, <1>6, QueueFacts DEF IInv, ReadyKeys
  <2> QED BY <1>2, <2>1, <2>2, <2>3, QueuedNext DEF IInv
<1>7. CASE Returns /\ UNCHANGED <<key, asked>>
  <2>1. TypeOK'
    BY <1>1, <1>2, <1>5, <1>7, QueueFacts, PriorityIsAKey DEF IInv, TypeOK, PCs, Returns, priority
  <2>2. WalkInQueue' /\ ReadyKeys'
    BY <1>4, <1>7 DEF IInv, WalkInQueue, ReadyKeys, Returns
  <2> QED BY <1>2, <2>1, <2>2, QueuedNext DEF IInv
<1> QED BY <1>2, <1>6, <1>7 DEF SleepUnlink, SleepFinds, KeySet

LEMMA EnqueueSleepWalkStep ==
  ASSUME IInv, EnqueueSleepWalk
  PROVE  IInv'
<1> USE DEF IInv, EnqueueSleepWalk, links
<1>1. TypeOK'
  <2>1. k \in Keys /\ key[curr] \in Keys /\ key[curr] <= k /\ curr \in Node
    BY DEF TypeOK, EnqueueSleepPasses
  <2>2. k - key[curr] \in Keys
    BY <2>1, PriorityIsAKey DEF Keys
  <2>3. pos + 1 \in Nat
    BY DEF TypeOK
  <2> QED BY <2>1, <2>2, <2>3 DEF TypeOK
<1>2. Rings' /\ OneQueueEach'
  BY <1>1, QueuedNow, QueuedNext
<1>3. WalkInQueue'
  <2>1. Queued(qnext, qprev, home, order)
    BY QueuedNow
  <2>2. Walked' = sleep_list /\ Walked = sleep_list
    BY DEF Walked
  <2>3. curr # sleep_list
    BY DEF EnqueueSleepPasses
  <2>4. /\ pos \in 1 .. Len(order[sleep_list]) /\ Len(order[sleep_list]) \in Nat
        /\ qnext[curr] = Place(order[sleep_list], sleep_list, pos + 1)
    BY <2>1, <2>2, <2>3, WalkMoves, QueueFacts DEF WalkInQueue
  <2>5. pos + 1 \in 1 .. Len(order[sleep_list]) + 1
    BY <2>4
  <2> QED BY <2>2, <2>4, <2>5 DEF WalkInQueue
<1>4. ReadyKeys'
  BY DEF ReadyKeys
<1> QED BY <1>1, <1>2, <1>3, <1>4

\* The element behind curr in the sleep list, whose key insertion and removal
\* change, is not a thread of the ready list.
LEMMA SleepKeysApart ==
  ASSUME IInv, Walked = sleep_list, pc # "idle"
  PROVE  /\ curr \in Node /\ (curr \in Threads => home[curr] # ready_list)
         /\ curr # sleep_list =>
              qnext[curr] \in Node /\ (qnext[curr] \in Threads => home[qnext[curr]] # ready_list)
<1>1. Queued(qnext, qprev, home, order)
  BY QueuedNow DEF IInv
<1>2. /\ pos \in 1 .. Len(order[sleep_list]) + 1 /\ Len(order[sleep_list]) \in Nat
      /\ curr = Place(order[sleep_list], sleep_list, pos)
  BY <1>1, WalkMoves, QueueFacts DEF IInv, WalkInQueue
<1>3. ASSUME NEW i \in 1 .. Len(order[sleep_list]) + 1, NEW n,
             n = Place(order[sleep_list], sleep_list, i)
      PROVE  /\ n = sleep_list \/ (n \in Threads /\ home[n] = sleep_list)
             /\ n # sleep_list => /\ i \in 1 .. Len(order[sleep_list])
                                  /\ qnext[n] = Place(order[sleep_list], sleep_list, i + 1)
  BY <1>1, <1>3, WalkMoves, QueueFacts
<1>4. curr \in Node /\ (curr \in Threads => home[curr] # ready_list)
  BY <1>2, <1>3, QueueFacts
<1>5. ASSUME curr # sleep_list
      PROVE  qnext[curr] \in Node /\ (qnext[curr] \in Threads => home[qnext[curr]] # ready_list)
  <2>1. pos \in 1 .. Len(order[sleep_list]) /\ qnext[curr] = Place(order[sleep_list], sleep_list, pos + 1)
    BY <1>2, <1>3, <1>5
  <2>2. pos + 1 \in 1 .. Len(order[sleep_list]) + 1
    BY <1>2, <2>1
  <2> QED BY <1>3, <2>1, <2>2, QueueFacts
<1> QED BY <1>4, <1>5

LEMMA EnqueueSleepLinkStep ==
  ASSUME IInv, EnqueueSleepLink
  PROVE  IInv'
<1> DEFINE c == InsertBefore(sleep_list, curr)
           p == IF c = curr THEN pos ELSE Len(order[sleep_list]) + 1
<1>1. Queued(qnext, qprev, home, order)
  BY QueuedNow DEF IInv
<1>2. /\ Walked = sleep_list /\ home[tid] = NoQueue /\ tid \in Threads
      /\ pos \in 1 .. Len(order[sleep_list]) + 1
      /\ curr = Place(order[sleep_list], sleep_list, pos)
      /\ pc # "idle"
  BY DEF EnqueueSleepLink, EnqueueSleepEnds, IInv, WalkInQueue, Walked, TypeOK, Returns
<1>3. p \in 1 .. Len(order[sleep_list]) + 1 /\ c = Place(order[sleep_list], sleep_list, p)
  BY <1>1, <1>2, QueueFacts, InsertionPlace
<1>4. /\ qnext' = InsertNext(qnext, qprev, tid, c) /\ qprev' = InsertPrev(qprev, tid, c)
      /\ home' = [home EXCEPT ![tid] = sleep_list]
      /\ order' = [order EXCEPT ![sleep_list] = InsertAt(@, p, tid)]
      /\ Returns /\ UNCHANGED <<ret, asked>>
  <2>1. c = curr <=> curr # NULL
    BY NTHREADSAssumption DEF InsertBefore, sleep_list, NULL
  <2> QED BY <2>1 DEF EnqueueSleepLink, EnqueueSleepEnds
<1> HIDE DEF c, p
<1>5. /\ qnext' \in [Node -> Node] /\ qprev' \in [Node -> Node]
      /\ Queued(qnext', qprev', home', order')
  BY <1>1, <1>2, <1>3, <1>4, QueueFacts, InsertKeepsQueues DEF IInv, TypeOK
<1>6. /\ key' \in [Node -> Keys]
      /\ \A t \in Threads : home[t] = ready_list => key'[t] = key[t]
  <2>1. /\ key \in [Node -> Keys] /\ k \in Keys /\ tid \in Node /\ curr \in Node
        /\ (curr \in Threads => home[curr] # ready_list) /\ key[curr] \in Keys
    BY <1>2, QueueFacts, SleepKeysApart DEF IInv, TypeOK
  <2>2. (key[curr] - k) % KeyMod \in Keys
    BY <2>1, KeyModAssumption DEF Keys
  <2> QED BY <1>2, <2>1, <2>2, QueueFacts DEF EnqueueSleepLink, EnqueueSleepEnds, KeySet, KeyTake, Returns
<1>7. order' \in [Queues -> Seq(Threads)] /\ home' \in [Threads -> Queues \cup {NoQueue}]
  BY <1>5 DEF Queued
<1>8. TypeOK'
  BY <1>4, <1>5, <1>6, <1>7, QueueFacts, PriorityIsAKey DEF IInv, TypeOK, PCs, Returns, priority
<1>9. \A t \in Threads : home'[t] = ready_list => home[t] = ready_list
  BY <1>2, <1>4, QueueFacts DEF IInv, TypeOK
<1>10. WalkInQueue' /\ ReadyKeys'
  BY <1>4, <1>6, <1>9 DEF IInv, WalkInQueue, ReadyKeys, Returns
<1> QED BY <1>5, <1>8, <1>10, QueuedNext DEF IInv

LEMMA UnsleepUnlinkStep ==
  ASSUME IInv, UnsleepUnlink
  PROVE  IInv'
<1>1. /\ pc = "unfind" /\ (curr = ready_list \/ curr = tid)
      /\ qnext' = UnlinkNext(qnext, qprev, curr)
      /\ qprev' = UnlinkPrev(qnext, qprev, curr)
      /\ home' = [home EXCEPT ![tid] = NoQueue]
      /\ order' = [order EXCEPT ![sleep_list] = RemoveAt(@, pos)]
      /\ key' = [key EXCEPT ![qnext[curr]] = (@ + key[curr]) % KeyMod]
      /\ pc' = "enqueue" /\ tid' = curr /\ k' = priority /\ pos' = 1
      /\ curr' = qnext'[ready_list] /\ UNCHANGED ret
      /\ asked' = [asked EXCEPT ![tid] = 0]
  BY DEF UnsleepUnlink, UnsleepFinds, FindStops, KeyGive
<1>2. Walked = sleep_list
  BY <1>1 DEF Walked
<1>3. /\ curr = tid
      /\ qnext' \in [Node -> Node] /\ qprev' \in [Node -> Node]
      /\ Queued(qnext', qprev', home', order')
  BY <1>1, <1>2, SearchEnds
<1>4. /\ tid \in Threads /\ key \in [Node -> Keys]
      /\ home \in [Threads -> Queues \cup {NoQueue}]
  BY DEF IInv, TypeOK
<1>5. /\ qnext[curr] \in Node
      /\ (qnext[curr] \in Threads => home[qnext[curr]] # ready_list)
  BY <1>1, <1>2, <1>3, <1>4, QueueFacts, SleepKeysApart
<1>6. /\ key' \in [Node -> Keys]
      /\ \A t \in Threads : home[t] = ready_list => key'[t] = key[t]
  <2>1. key[curr] \in Keys /\ key[qnext[curr]] \in Keys
    BY <1>3, <1>4, <1>5, QueueFacts
  <2>2. (key[qnext[curr]] + key[curr]) % KeyMod \in Keys
    BY <2>1, KeyModAssumption DEF Keys
  <2> QED BY <1>1, <1>4, <1>5, <2>2, QueueFacts
<1>7. order' \in [Queues -> Seq(Threads)] /\ home' \in [Threads -> Queues \cup {NoQueue}]
  BY <1>3 DEF Queued
<1>8. TypeOK'
  BY <1>1, <1>3, <1>4, <1>6, <1>7, QueueFacts, PriorityIsAKey DEF IInv, TypeOK, PCs, priority
<1>9. home'[tid'] = NoQueue /\ \A t \in Threads : home'[t] = ready_list => home[t] = ready_list
  BY <1>1, <1>3, <1>4, QueueFacts
<1>10. WalkInQueue'
  <2>1. Walked' = ready_list
    BY <1>1 DEF Walked
  <2>2. curr' = Place(order'[ready_list], ready_list, 1) /\ Len(order'[ready_list]) \in Nat
    <3>1. \A q \in Queues : qnext'[q] = Place(order'[q], q, 1) /\ Len(order'[q]) \in Nat
      BY <1>3, WalkMoves
    <3> QED BY <1>1, <3>1, QueueFacts
  <2>3. 1 \in 1 .. Len(order'[ready_list]) + 1
    BY <2>2
  <2> QED BY <1>1, <1>9, <2>1, <2>2, <2>3 DEF WalkInQueue
<1>11. ReadyKeys'
  BY <1>1, <1>6, <1>9 DEF IInv, ReadyKeys
<1> QED BY <1>3, <1>8, <1>10, <1>11, QueuedNext DEF IInv

-----------------------------------------------------------------------------
(***************************************************************************)
(* The theorems                                                            *)
(***************************************************************************)

\* Every step of every call, and a step of nothing, keeps the invariant.
THEOREM StepInvariant == IInv /\ [Next]_vars => IInv'
<1> SUFFICES ASSUME IInv, [Next]_vars PROVE IInv'
  OBVIOUS
<1>1. CASE UNCHANGED vars
  <2>1. TypeOK' /\ WalkInQueue' /\ ReadyKeys'
    BY <1>1 DEF IInv, vars, TypeOK, WalkInQueue, Walked, ReadyKeys
  <2>2. Queued(qnext', qprev', home', order')
    BY <1>1, QueuedNow DEF IInv, vars
  <2> QED BY <2>1, <2>2, QueuedNext DEF IInv
<1>2. CASE Caller
  BY <1>2, EnqueueCallStep, UnsleepCallStep, SleepCallStep, DequeueEmptyStep,
     DequeueHeadStep DEF Caller
<1>3. CASE Progress
  BY <1>3, EnqueueWalkStep, EnqueueLinkStep, FindWalkStep, SleepUnlinkStep,
     EnqueueSleepWalkStep, EnqueueSleepLinkStep, UnsleepUnlinkStep DEF Progress, Walk
<1> QED BY <1>1, <1>2, <1>3 DEF Next

\* The invariant holds in every state of queue.c and sleep.c.
THEOREM Invariance == Spec => []IInv
BY InitInvariant, StepInvariant, PTL DEF Spec

\* The state of the queues has the types the code declares for it.
THEOREM TypeCorrect == Spec => []TypeOK
<1>1. IInv => TypeOK
  BY DEF IInv
<1> QED BY Invariance, <1>1, PTL

\* The links form rings through the roots at all times (queue.c 4-8), for
\* every number of threads, in the middle of every call.
THEOREM AlwaysRings == Spec => []Rings
<1>1. IInv => Rings
  BY DEF IInv
<1> QED BY Invariance, <1>1, PTL

\* A thread is in one queue at most, and once (queue.h 6-9).
THEOREM AlwaysOneQueueEach == Spec => []OneQueueEach
<1>1. IInv => OneQueueEach
  BY DEF IInv
<1> QED BY Invariance, <1>1, PTL

\* A search of sleep or unsleep never runs into a root, and a walk never
\* leaves its queue.
THEOREM AlwaysWalkInQueue == Spec => []WalkInQueue
<1>1. IInv => WalkInQueue
  BY DEF IInv
<1> QED BY Invariance, <1>1, PTL

-----------------------------------------------------------------------------
(***************************************************************************)
(* The ready list is a FifoQueue: every step of ThreadQueue is a step of   *)
(* it, or leaves it alone.                                                 *)
(***************************************************************************)

\* The keys of the ready list are all alike, so the loop of thread_enqueue
\* passes every thread and ends at the root: the new thread goes to the tail.
LEMMA EnqueueAppends ==
  ASSUME IInv, EnqueueLink
  PROVE  Fifo!Put(tid)
<1> DEFINE s == order[ready_list]
<1>1. Queued(qnext, qprev, home, order)
  BY QueuedNow DEF IInv
<1>2. /\ home[tid] = NoQueue /\ tid \in Threads /\ k = priority
      /\ pos \in 1 .. Len(s) + 1 /\ curr = Place(s, ready_list, pos)
      /\ key \in [Node -> Keys]
  BY DEF EnqueueLink, EnqueueEnds, IInv, WalkInQueue, Walked, ReadyKeys, TypeOK, Returns
<1>3. s \in Seq(Threads)
  BY <1>1, QueueFacts DEF Queued
<1>4. curr = ready_list
  <2>1. curr = ready_list \/ (curr \in Threads /\ home[curr] = ready_list)
    <3>1. ready_list \in Queues
      BY QueueFacts
    <3>2. \A i \in 1 .. Len(s) + 1 :
            \/ Place(s, ready_list, i) = ready_list
            \/ /\ Place(s, ready_list, i) \in Threads
               /\ home[Place(s, ready_list, i)] = ready_list
      BY <1>1, <3>1, WalkMoves
    <3>3. pos \in 1 .. Len(s) + 1 /\ curr = Place(s, ready_list, pos)
      BY <1>2
    <3> HIDE DEF s
    <3> QED BY <3>2, <3>3
  <2>2. curr \in Threads /\ home[curr] = ready_list => key[curr] = priority
    BY DEF IInv, ReadyKeys
  <2>3. priority <= priority
    BY DEF priority
  <2> QED BY <1>2, <2>1, <2>2, <2>3 DEF EnqueueLink, EnqueueEnds, EnqueuePasses, Returns
<1>5. pos = Len(s) + 1
  <2>1. ASSUME pos \in 1 .. Len(s) PROVE FALSE
    BY <1>2, <1>3, <1>4, <2>1, ElementOfSeq, QueueFacts DEF Place
  <2>2. Len(s) \in Nat
    BY <1>3
  <2>3. pos \in 1 .. Len(s) + 1 /\ pos \notin 1 .. Len(s)
    BY <1>2, <2>1
  <2> HIDE DEF s
  <2> QED BY <2>2, <2>3
<1>6. order' = [order EXCEPT ![ready_list] = InsertAt(s, Len(s) + 1, tid)] /\ ret' = ret
  BY <1>4, <1>5, QueueFacts DEF EnqueueLink, EnqueueEnds, InsertBefore, Returns
<1>7. order'[ready_list] = Append(s, tid)
  BY <1>1, <1>2, <1>3, <1>6, InsertLastIsAppend, QueueFacts DEF Queued
<1>8. \A i \in 1 .. Len(s) : s[i] # tid
  <2>1. \A i \in 1 .. Len(s) : home[s[i]] = ready_list
    BY <1>1, QueueFacts DEF Queued
  <2> QED BY <1>2, <2>1, QueueFacts
<1> QED BY <1>6, <1>7, <1>8 DEF Fifo!Put

LEMMA DequeueGets ==
  ASSUME IInv, DequeueHead \/ DequeueEmpty
  PROVE  Fifo!Get
<1>1. CASE DequeueHead
  <2>1. qnext[ready_list] # ready_list /\ ret' = qnext[ready_list]
        /\ order' = [order EXCEPT ![ready_list] = Tail(@)]
    BY <1>1 DEF DequeueHead, DequeueTakes
  <2>2. order[ready_list] # <<>> /\ qnext[ready_list] = Head(order[ready_list])
    BY <2>1, ReadyHead
  <2>3. order'[ready_list] = Tail(order[ready_list])
    BY <2>1, QueueFacts DEF IInv, TypeOK
  <2> QED BY <2>1, <2>2, <2>3 DEF Fifo!Get
<1>2. CASE DequeueEmpty
  <2>1. Queued(qnext, qprev, home, order)
    BY QueuedNow DEF IInv
  <2>2. qnext[ready_list] = ready_list /\ ret' = NTHREADS /\ order' = order
    BY <1>2 DEF DequeueEmpty, history
  <2>3. order[ready_list] \in Seq(Threads)
    BY <2>1, QueueFacts DEF Queued
  <2>4. Len(order[ready_list]) = 0
    <3>1. /\ Len(order[ready_list]) \in Nat
          /\ ready_list = Place(order[ready_list], ready_list, 1)
      BY <2>1, <2>2, WalkMoves, QueueFacts
    <3>2. ASSUME 1 \in 1 .. Len(order[ready_list]) PROVE FALSE
      BY <3>1, <3>2, <2>3, ElementOfSeq, QueueFacts DEF Place
    <3> QED BY <3>1, <3>2
  <2>5. order[ready_list] = <<>>
    BY <2>3, <2>4, EmptySeq
  <2> QED BY <2>2, <2>5 DEF Fifo!Get
<1> QED BY <1>1, <1>2

LEMMA SleepTakes ==
  ASSUME IInv, SleepUnlink
  PROVE  Fifo!Take(pos) /\ pos \in 1 .. Len(order[ready_list])
<1>1. pc = "find" /\ Walked = ready_list
  BY DEF SleepUnlink, SleepFinds, Walked, Returns
<1>2. order' = [order EXCEPT ![ready_list] = RemoveAt(@, pos)] /\ ret' = ret
  BY DEF SleepUnlink, SleepFinds, Returns
<1>3. order'[ready_list] = RemoveAt(order[ready_list], pos)
  BY <1>2, QueueFacts DEF IInv, TypeOK
<1> QED BY <1>1, <1>2, <1>3, SearchAhead DEF Fifo!Take, RemoveAt

\* What the links, the keys and the loops do to the ready list is what a
\* first-in first-out queue does (queue.c 15-18 and 80-83).
THEOREM ReadyListIsFifo == Spec => FifoSpec
<1>1. Init => Fifo!Init
  BY QueueFacts DEF Init, Fifo!Init
<1>2. IInv /\ [Next]_vars => [Fifo!Next]_<<order[ready_list], ret>>
  <2> SUFFICES ASSUME IInv, [Next]_vars PROVE [Fifo!Next]_<<order[ready_list], ret>>
    OBVIOUS
  <2>1. CASE EnqueueLink
    <3>1. tid \in Threads
      BY DEF IInv, TypeOK
    <3> QED BY <2>1, <3>1, EnqueueAppends DEF Fifo!Next
  <2>2. CASE DequeueHead \/ DequeueEmpty
    BY <2>2, DequeueGets DEF Fifo!Next
  <2>3. CASE SleepUnlink
    BY <2>3, SleepTakes DEF Fifo!Next
  <2>4. CASE EnqueueSleepLink \/ UnsleepUnlink
    BY <2>4, QueueFacts DEF EnqueueSleepLink, EnqueueSleepEnds, UnsleepUnlink, UnsleepFinds, IInv, TypeOK, Returns
  <2>5. CASE UNCHANGED vars
    BY <2>5 DEF vars
  <2>6. CASE \/ \E t \in Threads : EnqueueCall(t) \/ UnsleepCall(t)
             \/ \E t \in Threads, d \in Delays : SleepCall(t, d)
    BY <2>6 DEF EnqueueCall, UnsleepCall, SleepCall
  <2>7. CASE EnqueueWalk \/ SleepFindWalk \/ EnqueueSleepWalk \/ UnsleepFindWalk
    BY <2>7 DEF EnqueueWalk, SleepFindWalk, EnqueueSleepWalk, UnsleepFindWalk
  <2> QED BY <2>1, <2>2, <2>3, <2>4, <2>5, <2>6, <2>7 DEF Next, Caller, Progress, Walk
<1> QED BY <1>1, <1>2, Invariance, PTL DEF Spec, FifoSpec, Fifo!Spec

-----------------------------------------------------------------------------
(***************************************************************************)
(* The delta list                                                          *)
(***************************************************************************)

\* What is due at place i of the sequence s, nothing in front of the first.
At(due, s, i) == IF i \in 1 .. Len(s) THEN due[s[i]] ELSE 0

\* The key of each element is what is due there beyond what is due in front of it.
Deltas(ky, due, s) ==
  \A i \in 1 .. Len(s) : ky[s[i]] = due[s[i]] - At(due, s, i - 1)

\* The key of the root completes what is due at the tail to the width of a key.
RootCompletes ==
  key[sleep_list] + At(asked, order[sleep_list], Len(order[sleep_list])) \in {0, KeyMod}

\* Thread 0 never comes into the sleep list, where it would be taken for nothing.
NullAwake ==
  /\ home[NULL] # sleep_list
  /\ pc = "enqueue_sleep" => tid # NULL

\* What thread_enqueue_sleep has passed and what is left make up the delay.
DelaySplit ==
  pc = "enqueue_sleep" => k + At(asked, order[sleep_list], pos - 1) = asked[tid]

DeltaInv ==
  /\ Deltas(key, asked, order[sleep_list])
  /\ RootCompletes
  /\ NullAwake
  /\ DelaySplit

\* Unsigned arithmetic that wraps at most once.
LEMMA Wraps ==
  ASSUME NEW v \in Int, -KeyMod < v, v < KeyMod + KeyMod
  PROVE  v % KeyMod = IF v < 0 THEN v + KeyMod ELSE IF v < KeyMod THEN v ELSE v - KeyMod
<1> DEFINE q == v \div KeyMod
<1>1. KeyMod \in Nat /\ KeyMod > 0
  BY KeyModAssumption
<1>2. q \in Int /\ v % KeyMod \in 0 .. KeyMod - 1
  BY <1>1, Z3
<1>3. v % KeyMod = v - q * KeyMod
  BY <1>1, Z3
<1> HIDE DEF q
<1>4. q * KeyMod \in Int
  BY <1>1, <1>2
<1>5. /\ q >= 2 => q * KeyMod >= KeyMod + KeyMod
      /\ q = 1 => q * KeyMod = KeyMod
      /\ q = 0 => q * KeyMod = 0
      /\ q = -1 => q * KeyMod = -KeyMod
      /\ q <= -2 => q * KeyMod <= -KeyMod - KeyMod
  BY <1>1, <1>2, SMTT(30)
<1>6. q >= 2 \/ q = 1 \/ q = 0 \/ q = -1 \/ q <= -2
  BY <1>2
<1> HIDE DEF q
<1> QED BY <1>1, <1>2, <1>3, <1>4, <1>5, <1>6

LEMMA AtIsAKey ==
  ASSUME NEW s \in Seq(Threads), NEW due \in [Threads -> Keys], NEW i
  PROVE  At(due, s, i) \in Keys
BY ElementOfSeq, PriorityIsAKey DEF At, priority

\* ky2 is ky with kk taken from the element at place p of s, if there is one.
KeyTaken(ky, ky2, s, p, kk) ==
  \A i \in 1 .. Len(s) : ky2[s[i]] = IF i = p THEN ky[s[i]] - kk ELSE ky[s[i]]

\* Inserting t, with kk left of its delay x, keeps the sums in front of the
\* others, as the element behind it gives kk away.
LEMMA InsertDeltas ==
  ASSUME NEW s \in Seq(Threads),
         NEW t \in Threads, \A i \in 1 .. Len(s) : s[i] # t,
         NEW p \in 1 .. Len(s) + 1,
         NEW ky \in [Node -> Keys], NEW due \in [Threads -> Keys], Deltas(ky, due, s),
         NEW kk \in Keys, NEW x \in Keys, x = kk + At(due, s, p - 1),
         NEW ky2 \in [Node -> Keys], ky2[t] = kk, KeyTaken(ky, ky2, s, p, kk)
  PROVE  Deltas(ky2, [due EXCEPT ![t] = x], InsertAt(s, p, t))
<1> DEFINE u == InsertAt(s, p, t)
           due2 == [due EXCEPT ![t] = x]
<1>1. Len(s) \in Nat /\ \A i \in 1 .. Len(s) : s[i] \in Threads
  BY ElementOfSeq
<1>2. /\ u \in Seq(Threads) /\ Len(u) = Len(s) + 1
      /\ \A i \in 1 .. Len(s) + 1 :
           u[i] = IF i < p THEN s[i] ELSE IF i = p THEN t ELSE s[i - 1]
  BY InsertAtElements, SMTT(30)
<1>3. due2[t] = x /\ \A i \in 1 .. Len(s) : due2[s[i]] = due[s[i]]
  BY <1>1
<1> HIDE DEF u, due2
<1>4. ASSUME NEW j \in 0 .. Len(s) + 1
      PROVE  At(due2, u, j) =
               IF j < p THEN At(due, s, j) ELSE IF j = p THEN x ELSE At(due, s, j - 1)
  <2>1. CASE j < p
    <3>1. j \in 1 .. Len(u) <=> j \in 1 .. Len(s)
      BY <1>1, <1>2, <2>1
    <3>2. j \in 1 .. Len(s) => u[j] = s[j]
      BY <1>1, <1>2, <2>1
    <3> QED BY <1>3, <2>1, <3>1, <3>2 DEF At
  <2>2. CASE j = p
    <3>1. j \in 1 .. Len(u) /\ u[j] = t
      BY <1>1, <1>2, <2>2
    <3> QED BY <1>3, <2>2, <3>1 DEF At
  <2>3. CASE j > p
    <3>1. /\ j \in 1 .. Len(u) /\ u[j] = s[j - 1] /\ j - 1 \in 1 .. Len(s)
          /\ ~(j < p) /\ j # p
      BY <1>1, <1>2, <2>3
    <3>2. At(due2, u, j) = due2[u[j]] /\ At(due, s, j - 1) = due[s[j - 1]]
      BY <3>1 DEF At
    <3> QED BY <1>3, <3>1, <3>2
  <2> QED BY <1>1, <2>1, <2>2, <2>3
<1>5. \A j \in 0 .. Len(s) + 1 : At(due, s, j) \in Keys
  BY AtIsAKey
<1>6. Keys \subseteq Int
  BY DEF Keys
<1>7. ASSUME NEW i \in 1 .. Len(s) + 1
      PROVE  ky2[u[i]] = due2[u[i]] - At(due2, u, i - 1)
  <2>0. i - 1 \in 0 .. Len(s) + 1 /\ i \in Int
    BY <1>1
  <2>1. CASE i < p
    <3>1. i \in 1 .. Len(s) /\ u[i] = s[i] /\ i # p
      BY <1>1, <1>2, <2>1
    <3>2. At(due2, u, i - 1) = At(due, s, i - 1)
      BY <1>4, <2>0, <2>1
    <3>3. ky[s[i]] = due[s[i]] - At(due, s, i - 1)
      BY <3>1 DEF Deltas
    <3> QED BY <1>3, <3>1, <3>2, <3>3 DEF KeyTaken
  <2>2. CASE i = p
    <3>1. u[i] = t /\ At(due2, u, i - 1) = At(due, s, p - 1)
      BY <1>2, <1>4, <2>0, <2>2
    <3>2. At(due, s, p - 1) \in Int /\ kk \in Int
      BY <1>5, <1>6, <2>0, <2>2
    <3> QED BY <1>3, <3>1, <3>2
  <2>3. CASE i = p + 1
    <3>1. /\ p \in 1 .. Len(s) /\ u[i] = s[p] /\ i - 1 = p /\ p \in 0 .. Len(s) + 1
          /\ ~(i < p) /\ i # p
      BY <1>1, <1>2, <2>3
    <3>2. At(due2, u, i - 1) = x /\ ky2[s[p]] = ky[s[p]] - kk /\ due2[s[p]] = due[s[p]]
      BY <1>3, <1>4, <3>1 DEF KeyTaken
    <3>3. ky[s[p]] = due[s[p]] - At(due, s, p - 1)
      BY <3>1 DEF Deltas
    <3>4. due[s[p]] \in Int /\ At(due, s, p - 1) \in Int /\ kk \in Int
      BY <1>1, <1>6, <3>1, AtIsAKey
    <3> HIDE DEF At
    <3> QED BY <3>1, <3>2, <3>3, <3>4
  <2>4. CASE i > p + 1
    <3>1. /\ i - 1 \in 1 .. Len(s) /\ u[i] = s[i - 1] /\ i - 1 # p /\ ~(i - 1 < p)
          /\ i - 1 \in 0 .. Len(s) + 1
      BY <1>1, <1>2, <2>4
    <3>2. At(due2, u, i - 1) = At(due, s, i - 1 - 1)
      BY <1>4, <3>1
    <3>3. ky[s[i - 1]] = due[s[i - 1]] - At(due, s, i - 1 - 1)
      BY <3>1 DEF Deltas
    <3> QED BY <1>3, <3>1, <3>2, <3>3 DEF KeyTaken
  <2> QED BY <1>1, <2>0, <2>1, <2>2, <2>3, <2>4
<1> QED BY <1>2, <1>7 DEF Deltas, u, due2

\* Removing an element keeps them, as the one behind it is given its key.
LEMMA RemoveDeltas ==
  ASSUME NEW s \in Seq(Threads),
         NEW p \in 1 .. Len(s),
         NEW ky \in [Node -> Keys], NEW due \in [Threads -> Keys], Deltas(ky, due, s),
         NEW ky2 \in [Node -> Keys],
         \A i \in 1 .. Len(s) : i # p =>
           ky2[s[i]] = IF i = p + 1 THEN ky[s[i]] + ky[s[p]] ELSE ky[s[i]]
  PROVE  Deltas(ky2, due, RemoveAt(s, p))
<1> DEFINE u == RemoveAt(s, p)
<1>1. Len(s) \in Nat /\ \A i \in 1 .. Len(s) : s[i] \in Threads
  BY ElementOfSeq
<1>2. /\ Len(u) = Len(s) - 1
      /\ \A i \in 1 .. Len(s) - 1 : u[i] = IF i < p THEN s[i] ELSE s[i + 1]
  BY RemoveAtElements
<1> HIDE DEF u
<1>3. ASSUME NEW j \in 0 .. Len(s) - 1
      PROVE  At(due, u, j) = IF j < p THEN At(due, s, j) ELSE At(due, s, j + 1)
  <2>1. CASE j = 0
    <3>1. j \notin 1 .. Len(u) /\ j \notin 1 .. Len(s) /\ j < p
      BY <1>1, <2>1
    <3> QED BY <3>1 DEF At
  <2>2. CASE j # 0
    <3>1. /\ j \in 1 .. Len(s) - 1 /\ j \in 1 .. Len(u) /\ j \in 1 .. Len(s)
          /\ j + 1 \in 1 .. Len(s)
      BY <1>1, <1>2, <2>2
    <3>2. u[j] = IF j < p THEN s[j] ELSE s[j + 1]
      BY <1>2, <3>1
    <3> QED BY <3>1, <3>2 DEF At
  <2> QED BY <2>1, <2>2
<1>4. Keys \subseteq Int /\ \A j : At(due, s, j) \in Keys
  <2>1. \A j : At(due, s, j) \in Keys
    BY AtIsAKey
  <2> QED BY <2>1 DEF Keys
<1>5. ASSUME NEW i \in 1 .. Len(s) - 1
      PROVE  ky2[u[i]] = due[u[i]] - At(due, u, i - 1)
  <2>0. i - 1 \in 0 .. Len(s) - 1 /\ i \in Int /\ i \in 1 .. Len(s) /\ i + 1 \in 1 .. Len(s)
    BY <1>1
  <2>1. CASE i < p
    <3>1. u[i] = s[i] /\ i # p /\ i # p + 1 /\ i - 1 < p
      BY <1>2, <2>1
    <3>2. At(due, u, i - 1) = At(due, s, i - 1)
      BY <1>3, <2>0, <3>1
    <3> QED BY <2>0, <3>1, <3>2 DEF Deltas
  <2>2. CASE i = p
    <3>1. u[i] = s[p + 1] /\ i - 1 < p /\ p + 1 # p /\ p + 1 \in 1 .. Len(s)
      BY <1>2, <2>0, <2>2
    <3>2. At(due, u, i - 1) = At(due, s, p - 1)
      BY <1>3, <2>0, <2>2, <3>1
    <3>3. /\ ky2[s[p + 1]] = ky[s[p + 1]] + ky[s[p]]
          /\ ky[s[p + 1]] = due[s[p + 1]] - At(due, s, p + 1 - 1)
          /\ ky[s[p]] = due[s[p]] - At(due, s, p - 1)
      BY <3>1 DEF Deltas
    <3>4. At(due, s, p + 1 - 1) = due[s[p]]
      BY DEF At
    <3>5. due[s[p]] \in Int /\ due[s[p + 1]] \in Int /\ At(due, s, p - 1) \in Int
      BY <1>1, <1>4, <3>1
    <3>6. due[u[i]] - At(due, u, i - 1) = due[s[p + 1]] - At(due, s, p - 1)
      BY <3>1, <3>2
    <3>7. ky2[u[i]] = (due[s[p + 1]] - due[s[p]]) + (due[s[p]] - At(due, s, p - 1))
      BY <3>1, <3>3, <3>4
    <3> HIDE DEF At
    <3>8. (due[s[p + 1]] - due[s[p]]) + (due[s[p]] - At(due, s, p - 1))
            = due[s[p + 1]] - At(due, s, p - 1)
      BY <3>5
    <3> QED BY <3>6, <3>7, <3>8
  <2>3. CASE i > p
    <3>0. i + 1 # p /\ i + 1 # p + 1 /\ ~(i < p) /\ ~(i - 1 < p) /\ i - 1 + 1 = i /\ i + 1 - 1 = i
      BY <2>0, <2>3
    <3>1. u[i] = s[i + 1] /\ i + 1 # p /\ i + 1 # p + 1 /\ ~(i - 1 < p) /\ i - 1 + 1 = i /\ i + 1 - 1 = i
      BY <1>2, <3>0
    <3>2. At(due, u, i - 1) = At(due, s, i)
      BY <1>3, <2>0, <3>1
    <3>3. ky2[s[i + 1]] = ky[s[i + 1]] /\ ky[s[i + 1]] = due[s[i + 1]] - At(due, s, i)
      BY <2>0, <3>1 DEF Deltas
    <3> QED BY <3>1, <3>2, <3>3
  <2> QED BY <2>0, <2>1, <2>2, <2>3
<1> QED BY <1>2, <1>5 DEF Deltas, u

\* Only linking into the sleep list and unlinking from it change its keys.
LEMMA SleepersSame ==
  ASSUME IInv, [Next]_vars, ~EnqueueSleepLink, ~UnsleepUnlink
  PROVE  LET s == order[sleep_list] IN
         /\ order'[sleep_list] = s
         /\ key'[sleep_list] = key[sleep_list]
         /\ \A i \in 1 .. Len(s) : key'[s[i]] = key[s[i]] /\ asked'[s[i]] = asked[s[i]]
<1> DEFINE s == order[sleep_list]
<1>1. /\ order \in [Queues -> Seq(Threads)] /\ key \in [Node -> Keys]
      /\ asked \in [Threads -> Keys] /\ tid \in Threads
  BY DEF IInv, TypeOK
<1>2. \A i \in 1 .. Len(s) : s[i] \in Threads /\ home[s[i]] = sleep_list
  BY <1>1, ElementOfSeq, QueueFacts DEF IInv, OneQueueEach
<1>3. CASE UNCHANGED vars
  BY <1>3 DEF vars
<1>4. CASE Caller
  <2>1. UNCHANGED <<key, asked>> /\ order'[sleep_list] = s
    BY <1>1, <1>4, QueueFacts
    DEF Caller, EnqueueCall, UnsleepCall, SleepCall, DequeueEmpty, DequeueHead, DequeueTakes, links, history
  <2> QED BY <2>1
<1>5. CASE EnqueueWalk \/ SleepFindWalk \/ EnqueueSleepWalk \/ UnsleepFindWalk
  BY <1>5 DEF EnqueueWalk, SleepFindWalk, EnqueueSleepWalk, UnsleepFindWalk, links
<1>6. CASE EnqueueLink
  <2>1. /\ key' = [key EXCEPT ![tid] = k] /\ asked' = asked /\ order'[sleep_list] = s
        /\ home[tid] = NoQueue
    BY <1>1, <1>6, QueueFacts DEF EnqueueLink, EnqueueEnds, KeySet, IInv, WalkInQueue, Returns
  <2> QED BY <1>1, <1>2, <2>1, QueueFacts
<1>7. CASE SleepUnlink
  <2>1. /\ key' = [key EXCEPT ![tid] = k] \/ key' = key
        /\ asked' = [asked EXCEPT ![tid] = k] \/ asked' = asked
        /\ order'[sleep_list] = s
        /\ home[tid] = ready_list
    BY <1>1, <1>7, QueueFacts DEF SleepUnlink, SleepFinds, KeySet, IInv, WalkInQueue, Walked, Returns
  <2> QED BY <1>1, <1>2, <2>1, QueueFacts
<1> QED BY <1>3, <1>4, <1>5, <1>6, <1>7 DEF Next, Progress, Walk

LEMMA SleepLinkDeltas ==
  ASSUME IInv, NullAwake, EnqueueSleepLink,
         NEW due \in [Threads -> Keys], Deltas(key, due, order[sleep_list]),
         NEW x \in Keys, x = k + At(due, order[sleep_list], pos - 1)
  PROVE  LET s == order[sleep_list] IN
         /\ pos \in 1 .. Len(s) + 1
         /\ order'[sleep_list] = InsertAt(s, pos, tid)
         /\ Deltas(key', [due EXCEPT ![tid] = x], order'[sleep_list])
         /\ key'[sleep_list] = IF pos = Len(s) + 1 THEN (key[sleep_list] - k) % KeyMod
                               ELSE key[sleep_list]
<1> DEFINE s == order[sleep_list]
<1>1. /\ Queued(qnext, qprev, home, order)
      /\ order \in [Queues -> Seq(Threads)] /\ key \in [Node -> Keys]
      /\ tid \in Threads /\ k \in Keys /\ key' \in [Node -> Keys]
  BY QueuedNow, EnqueueSleepLinkStep DEF IInv, TypeOK
<1>2. /\ pc = "enqueue_sleep" /\ pos \in 1 .. Len(s) + 1
      /\ curr = Place(s, sleep_list, pos) /\ home[tid] = NoQueue
      /\ tid # NULL /\ home[NULL] # sleep_list
  BY DEF EnqueueSleepLink, EnqueueSleepEnds, IInv, WalkInQueue, Walked, NullAwake, Returns
<1>3. /\ s \in Seq(Threads) /\ Len(s) \in Nat
      /\ \A i \in 1 .. Len(s) : s[i] \in Threads /\ home[s[i]] = sleep_list
      /\ \A i, j \in 1 .. Len(s) : s[i] = s[j] => i = j
  BY <1>1, ElementOfSeq, QueueFacts DEF Queued
<1>4. \A i \in 1 .. Len(s) : s[i] # tid
  BY <1>2, <1>3, QueueFacts
<1>5. curr # NULL
  BY <1>2, <1>3, QueueFacts DEF Place
<1>6. /\ order' = [order EXCEPT ![sleep_list] = InsertAt(s, pos, tid)]
      /\ key' = [[key EXCEPT ![curr] = (@ - k) % KeyMod] EXCEPT ![tid] = k]
      /\ ~EnqueueSleepPasses(curr)
  BY <1>5 DEF EnqueueSleepLink, EnqueueSleepEnds, InsertBefore, KeySet, KeyTake, Returns
<1>7. order'[sleep_list] = InsertAt(s, pos, tid)
  BY <1>1, <1>6, QueueFacts
<1>8. /\ curr \in Node /\ sleep_list \in Node /\ sleep_list # tid
      /\ \A i \in 1 .. Len(s) : curr = s[i] <=> i = pos
      /\ curr = sleep_list <=> pos = Len(s) + 1
  <2>1. pos \in 1 .. Len(s) => curr = s[pos]
    BY <1>2 DEF Place
  <2>2. pos = Len(s) + 1 => curr = sleep_list
    BY <1>2, <1>3 DEF Place
  <2>3. pos \in 1 .. Len(s) \/ pos = Len(s) + 1
    BY <1>2, <1>3
  <2>4. pos = Len(s) + 1 => pos \notin 1 .. Len(s)
    BY <1>3
  <2> HIDE DEF s
  <2> QED BY <1>1, <1>3, <2>1, <2>2, <2>3, <2>4, QueueFacts
<1>9. pos \in 1 .. Len(s) => (key[s[pos]] - k) % KeyMod = key[s[pos]] - k
  <2> SUFFICES ASSUME pos \in 1 .. Len(s)
               PROVE  (key[s[pos]] - k) % KeyMod = key[s[pos]] - k
    OBVIOUS
  <2>1. curr = s[pos] /\ curr # sleep_list
    BY <1>3, <1>8, QueueFacts
  <2>2. key[curr] \in Keys /\ ~(key[curr] <= k)
    BY <1>1, <1>6, <1>8, <2>1 DEF EnqueueSleepPasses
  <2>3. key[curr] - k \in Int /\ -KeyMod < key[curr] - k /\ key[curr] - k < KeyMod /\ key[curr] - k >= 0
    <3> DEFINE a == key[curr]
    <3>1. a \in Nat /\ a < KeyMod /\ k \in Nat /\ KeyMod \in Nat /\ ~(a <= k)
      BY <1>1, <2>2, KeyModAssumption DEF Keys
    <3> HIDE DEF a
    <3>2. a - k \in Int /\ -KeyMod < a - k /\ a - k < KeyMod /\ a - k >= 0
      BY <3>1
    <3> QED BY <3>2 DEF a
  <2>4. (key[curr] - k) % KeyMod = key[curr] - k
    BY <2>3, Wraps, KeyModAssumption
  <2>5. k <= key[curr]
    BY <2>3, <1>1, <2>2 DEF Keys
  <2> QED BY <2>1, <2>4, <2>5
<1>10. /\ key'[tid] = k
       /\ \A i \in 1 .. Len(s) : key'[s[i]] = IF i = pos THEN key[s[i]] - k ELSE key[s[i]]
       /\ key'[sleep_list] = IF pos = Len(s) + 1 THEN (key[sleep_list] - k) % KeyMod
                             ELSE key[sleep_list]
  <2> HIDE DEF s
  <2>1. tid \in Node /\ \A i \in 1 .. Len(s) : s[i] \in Node
    BY <1>1, <1>3, QueueFacts
  <2> QED BY <1>1, <1>4, <1>6, <1>8, <1>9, <2>1
<1>11. Deltas(key', [due EXCEPT ![tid] = x], InsertAt(s, pos, tid))
  <2>1. Deltas(key, due, s) /\ x = k + At(due, s, pos - 1)
    OBVIOUS
  <2> DEFINE ky2 == key'
  <2> HIDE DEF s
  <2>2. /\ ky2 \in [Node -> Keys] /\ ky2[tid] = k
        /\ KeyTaken(key, ky2, s, pos, k)
    BY <1>1, <1>10 DEF KeyTaken
  <2>3. s \in Seq(Threads) /\ \A i \in 1 .. Len(s) : s[i] # tid
    BY <1>3, <1>4
  <2>4. pos \in 1 .. Len(s) + 1 /\ tid \in Threads /\ k \in Keys /\ key \in [Node -> Keys]
    BY <1>1, <1>2
  <2> HIDE DEF ky2
  <2>5. Deltas(ky2, [due EXCEPT ![tid] = x], InsertAt(s, pos, tid))
    BY <2>1, <2>2, <2>3, <2>4, InsertDeltas
  <2> QED BY <2>5 DEF ky2
<1> QED BY <1>2, <1>7, <1>10, <1>11

LEMMA UnsleepDeltas ==
  ASSUME IInv, UnsleepUnlink,
         NEW due \in [Threads -> Keys], Deltas(key, due, order[sleep_list])
  PROVE  LET s == order[sleep_list] IN
         /\ pos \in 1 .. Len(s) /\ curr = s[pos]
         /\ order'[sleep_list] = RemoveAt(s, pos)
         /\ Deltas(key', due, order'[sleep_list])
         /\ key'[sleep_list] = IF pos = Len(s) THEN (key[sleep_list] + key[curr]) % KeyMod
                               ELSE key[sleep_list]
<1> DEFINE s == order[sleep_list]
<1>1. /\ Queued(qnext, qprev, home, order)
      /\ order \in [Queues -> Seq(Threads)] /\ key \in [Node -> Keys]
      /\ key' \in [Node -> Keys]
  BY QueuedNow, UnsleepUnlinkStep DEF IInv, TypeOK
<1>2. /\ pc = "unfind" /\ Walked = sleep_list
      /\ key' = [key EXCEPT ![qnext[curr]] = (@ + key[curr]) % KeyMod]
      /\ order' = [order EXCEPT ![sleep_list] = RemoveAt(s, pos)]
  BY DEF UnsleepUnlink, UnsleepFinds, Walked, KeyGive
<1>3. /\ s \in Seq(Threads) /\ Len(s) \in Nat
      /\ \A i \in 1 .. Len(s) : s[i] \in Threads
      /\ \A i, j \in 1 .. Len(s) : s[i] = s[j] => i = j
  <2>1. s \in Seq(Threads) /\ \A i, j \in 1 .. Len(s) : s[i] = s[j] => i = j
    BY <1>1, QueueFacts DEF Queued
  <2> HIDE DEF s
  <2> QED BY <2>1, ElementOfSeq
<1>4. pos \in 1 .. Len(s) /\ curr = s[pos] /\ qnext[curr] = Place(s, sleep_list, pos + 1)
  BY <1>2, SearchAhead
<1>5. order'[sleep_list] = RemoveAt(s, pos)
  BY <1>1, <1>2, QueueFacts
<1> HIDE DEF s
<1>6. /\ pos # Len(s) => pos + 1 \in 1 .. Len(s) /\ qnext[curr] = s[pos + 1]
      /\ pos = Len(s) => qnext[curr] = sleep_list
  BY <1>3, <1>4 DEF Place
<1>7. qnext[curr] \in Node /\ sleep_list \in Node /\ \A i \in 1 .. Len(s) : s[i] \in Node /\ s[i] # sleep_list
  BY <1>3, <1>6, QueueFacts
<1>8. pos + 1 \in 1 .. Len(s) =>
        (key[s[pos + 1]] + key[s[pos]]) % KeyMod = key[s[pos + 1]] + key[s[pos]]
  <2> SUFFICES ASSUME pos + 1 \in 1 .. Len(s)
               PROVE  (key[s[pos + 1]] + key[s[pos]]) % KeyMod = key[s[pos + 1]] + key[s[pos]]
    OBVIOUS
  <2> DEFINE v == key[s[pos + 1]] + key[s[pos]]
  <2>1. /\ key[s[pos + 1]] = due[s[pos + 1]] - At(due, s, pos + 1 - 1)
        /\ key[s[pos]] = due[s[pos]] - At(due, s, pos - 1)
    BY <1>4 DEF Deltas, s
  <2>2. At(due, s, pos + 1 - 1) = due[s[pos]]
    BY <1>4 DEF At
  <2>3. due[s[pos]] \in Keys /\ due[s[pos + 1]] \in Keys /\ At(due, s, pos - 1) \in Keys
    BY <1>3, <1>4, AtIsAKey
  <2>4. key[s[pos + 1]] \in Keys /\ key[s[pos]] \in Keys
    BY <1>1, <1>4, <1>7
  <2>5. v = due[s[pos + 1]] - At(due, s, pos - 1)
    BY <2>1, <2>2, <2>3 DEF Keys
  <2>6. v \in Int /\ v >= 0 /\ v < KeyMod
    <3> DEFINE a == due[s[pos + 1]]
               b == At(due, s, pos - 1)
               c == key[s[pos + 1]]
               d == key[s[pos]]
    <3>1. a \in Nat /\ b \in Nat /\ c \in Nat /\ d \in Nat /\ a < KeyMod /\ KeyMod \in Nat
      BY <2>3, <2>4, KeyModAssumption DEF Keys
    <3>2. v = a - b /\ v = c + d
      BY <2>5
    <3> HIDE DEF v, a, b, c, d
    <3> QED BY <3>1, <3>2
  <2> HIDE DEF v
  <2>7. v % KeyMod = v
    BY <2>6, Wraps, KeyModAssumption
  <2> QED BY <2>7 DEF v
<1>9. /\ \A i \in 1 .. Len(s) : i # pos =>
           key'[s[i]] = IF i = pos + 1 THEN key[s[i]] + key[s[pos]] ELSE key[s[i]]
      /\ key'[sleep_list] = IF pos = Len(s) THEN (key[sleep_list] + key[curr]) % KeyMod
                            ELSE key[sleep_list]
  <2>1. /\ \A n \in Node : n # qnext[curr] => key'[n] = key[n]
        /\ key'[qnext[curr]] = (key[qnext[curr]] + key[curr]) % KeyMod
    BY <1>1, <1>2, <1>7
  <2>2. ASSUME NEW i \in 1 .. Len(s), i # pos
        PROVE  key'[s[i]] = IF i = pos + 1 THEN key[s[i]] + key[s[pos]] ELSE key[s[i]]
    <3>1. CASE i = pos + 1
      <4>1. pos # Len(s)
        BY <1>3, <3>1
      <4> QED BY <1>4, <1>6, <1>8, <2>1, <3>1, <4>1
    <3>2. CASE i # pos + 1
      <4>1. s[i] # qnext[curr]
        BY <1>3, <1>6, <1>7, <3>2
      <4> QED BY <1>7, <2>1, <3>2, <4>1
    <3> QED BY <3>1, <3>2
  <2>3. pos # Len(s) => qnext[curr] # sleep_list
    BY <1>6, <1>7
  <2> QED BY <1>6, <1>7, <2>1, <2>2, <2>3
<1>10. Deltas(key', due, RemoveAt(s, pos))
  <2>1. Deltas(key, due, s)
    BY DEF s
  <2> QED BY <1>1, <1>3, <1>4, <1>9, <2>1, RemoveDeltas
<1> QED BY <1>4, <1>5, <1>9, <1>10 DEF s

LEMMA SleepLinkDeltaStep ==
  ASSUME IInv, DeltaInv, EnqueueSleepLink
  PROVE  DeltaInv'
<1> DEFINE s == order[sleep_list]
           root == key[sleep_list]
           a == At(asked, s, Len(s))
<1>1. /\ pc = "enqueue_sleep" /\ tid \in Threads /\ tid # NULL /\ k \in Keys
      /\ order \in [Queues -> Seq(Threads)] /\ key \in [Node -> Keys]
      /\ asked \in [Threads -> Keys] /\ asked' = asked /\ pc' = "idle"
      /\ home \in [Threads -> Queues \cup {NoQueue}]
      /\ home' = [home EXCEPT ![tid] = sleep_list]
  BY DEF IInv, TypeOK, DeltaInv, NullAwake, EnqueueSleepLink, EnqueueSleepEnds, Returns
<1>2. s \in Seq(Threads) /\ Len(s) \in Nat /\ root \in Keys /\ asked[tid] \in Keys
  BY <1>1, QueueFacts
<1>3. asked[tid] = k + At(asked, s, pos - 1)
  <2>1. At(asked, s, pos - 1) \in Keys
    BY <1>1, <1>2, AtIsAKey
  <2> QED BY <1>1, <2>1 DEF DeltaInv, DelaySplit
<1>4. /\ pos \in 1 .. Len(s) + 1
      /\ order'[sleep_list] = InsertAt(s, pos, tid)
      /\ Deltas(key', [asked EXCEPT ![tid] = asked[tid]], order'[sleep_list])
      /\ key'[sleep_list] = IF pos = Len(s) + 1 THEN (root - k) % KeyMod ELSE root
  BY <1>1, <1>2, <1>3, SleepLinkDeltas DEF DeltaInv
<1>5. Deltas(key', asked', order'[sleep_list])
  <2>1. [asked EXCEPT ![tid] = asked[tid]] = asked
    BY <1>1
  <2> QED BY <1>1, <1>4, <2>1
<1> HIDE DEF s, root
<1>6. At(asked, InsertAt(s, pos, tid), Len(InsertAt(s, pos, tid))) =
        IF pos = Len(s) + 1 THEN asked[tid] ELSE a
  <2> DEFINE u == InsertAt(s, pos, tid)
  <2> SUFFICES At(asked, u, Len(u)) = IF pos = Len(s) + 1 THEN asked[tid] ELSE a
    OBVIOUS
  <2>1. /\ Len(u) = Len(s) + 1
        /\ \A i \in 1 .. Len(s) + 1 :
             u[i] = IF i < pos THEN s[i] ELSE IF i = pos THEN tid ELSE s[i - 1]
    BY <1>1, <1>2, <1>4, InsertAtElements
  <2> HIDE DEF u
  <2>2. CASE pos = Len(s) + 1
    BY <1>2, <2>1, <2>2 DEF At
  <2>3. CASE pos # Len(s) + 1
    <3>1. Len(s) \in 1 .. Len(s) /\ u[Len(s) + 1] = s[Len(s)] /\ Len(s) + 1 \in 1 .. Len(u)
      BY <1>2, <1>4, <2>1, <2>3
    <3> QED BY <2>1, <2>3, <3>1 DEF At
  <2> QED BY <2>2, <2>3
<1>7. RootCompletes'
  <2>1. a \in Keys /\ root + a \in {0, KeyMod}
    BY <1>1, <1>2, AtIsAKey DEF DeltaInv, RootCompletes, s, root
  <2> SUFFICES key'[sleep_list] + At(asked, InsertAt(s, pos, tid), Len(InsertAt(s, pos, tid)))
                 \in {0, KeyMod}
    BY <1>1, <1>4 DEF RootCompletes
  <2>2. CASE pos = Len(s) + 1
    <3>1. asked[tid] = k + a
      BY <1>2, <1>3, <2>2
    <3> HIDE DEF a
    <3>2. root - k \in Int /\ -KeyMod < root - k /\ root - k < KeyMod + KeyMod
      BY <1>1, <1>2, KeyModAssumption DEF Keys
    <3>3. (root - k) % KeyMod =
            IF root - k < 0 THEN root - k + KeyMod
            ELSE IF root - k < KeyMod THEN root - k ELSE root - k - KeyMod
      BY <3>2, Wraps
    <3> DEFINE w == (root - k) % KeyMod
    <3> HIDE DEF w
    <3>4. k \in 0 .. KeyMod - 1 /\ root \in 0 .. KeyMod - 1 /\ a \in 0 .. KeyMod - 1
          /\ k + a \in 0 .. KeyMod - 1
      BY <1>1, <1>2, <2>1, <3>1 DEF Keys
    <3>5. w + (k + a) \in {0, KeyMod}
      BY <2>1, <3>3, <3>4, KeyModAssumption DEF w
    <3> QED BY <1>4, <1>6, <2>2, <3>1, <3>5 DEF w
  <2>3. CASE pos # Len(s) + 1
    BY <1>4, <1>6, <2>1, <2>3
  <2> QED BY <2>2, <2>3
<1>8. NullAwake'
  BY <1>1, QueueFacts DEF DeltaInv, NullAwake, NULL
<1>9. DelaySplit'
  BY <1>1 DEF DelaySplit
<1> QED BY <1>5, <1>7, <1>8, <1>9 DEF DeltaInv

LEMMA UnsleepDeltaStep ==
  ASSUME IInv, DeltaInv, UnsleepUnlink
  PROVE  DeltaInv'
<1> DEFINE s == order[sleep_list]
           root == key[sleep_list]
           a == At(asked, s, Len(s))
           b == At(asked, s, Len(s) - 1)
<1>1. /\ tid \in Threads
      /\ order \in [Queues -> Seq(Threads)] /\ key \in [Node -> Keys]
      /\ asked \in [Threads -> Keys] /\ asked' = [asked EXCEPT ![tid] = 0] /\ pc' = "enqueue"
      /\ home \in [Threads -> Queues \cup {NoQueue}]
      /\ home' = [home EXCEPT ![tid] = NoQueue]
  BY DEF IInv, TypeOK, UnsleepUnlink, UnsleepFinds
<1>2. s \in Seq(Threads) /\ Len(s) \in Nat /\ root \in Keys /\ a \in Keys /\ b \in Keys
  BY <1>1, QueueFacts, AtIsAKey
<1>3. /\ pos \in 1 .. Len(s) /\ curr = s[pos]
      /\ order'[sleep_list] = RemoveAt(s, pos)
      /\ Deltas(key', asked, order'[sleep_list])
      /\ key'[sleep_list] = IF pos = Len(s) THEN (root + key[curr]) % KeyMod ELSE root
  BY <1>1, UnsleepDeltas DEF DeltaInv
<1>4. Deltas(key, asked, s) /\ root + a \in {0, KeyMod}
  BY DEF DeltaInv, RootCompletes
<1>5. /\ \A j : At(asked', order'[sleep_list], j) = At(asked, order'[sleep_list], j)
      /\ \A i \in 1 .. Len(order'[sleep_list]) :
           asked'[order'[sleep_list][i]] = asked[order'[sleep_list][i]]
  <2>1. \A i \in 1 .. Len(order'[sleep_list]) :
          order'[sleep_list][i] \in Threads /\ home'[order'[sleep_list][i]] = sleep_list
    BY UnsleepUnlinkStep, QueueFacts DEF IInv, OneQueueEach, TypeOK
  <2>2. home'[tid] = NoQueue /\ NoQueue # sleep_list
    BY <1>1, QueueFacts
  <2>3. \A i \in 1 .. Len(order'[sleep_list]) :
          asked'[order'[sleep_list][i]] = asked[order'[sleep_list][i]]
    BY <1>1, <2>1, <2>2
  <2> QED BY <2>3 DEF At
<1>6. Deltas(key', asked', order'[sleep_list])
  BY <1>3, <1>5 DEF Deltas
<1> HIDE DEF s, root
<1>7. At(asked, RemoveAt(s, pos), Len(RemoveAt(s, pos))) = IF pos = Len(s) THEN b ELSE a
  <2> DEFINE u == RemoveAt(s, pos)
  <2> SUFFICES At(asked, u, Len(u)) = IF pos = Len(s) THEN b ELSE a
    OBVIOUS
  <2>1. /\ Len(u) = Len(s) - 1
        /\ \A i \in 1 .. Len(s) - 1 : u[i] = IF i < pos THEN s[i] ELSE s[i + 1]
    BY <1>1, <1>2, <1>3, RemoveAtElements
  <2> HIDE DEF u
  <2>2. CASE pos = Len(s)
    <3>1. CASE Len(s) = 1
      <4>1. Len(s) - 1 \notin 1 .. Len(u) /\ Len(s) - 1 \notin 1 .. Len(s)
        BY <2>1, <3>1
      <4> QED BY <2>1, <2>2, <4>1 DEF At
    <3>2. CASE Len(s) # 1
      <4>1. /\ Len(s) - 1 \in 1 .. Len(u) /\ Len(s) - 1 \in 1 .. Len(s)
            /\ u[Len(s) - 1] = s[Len(s) - 1]
        BY <1>2, <1>3, <2>1, <2>2, <3>2
      <4> QED BY <2>1, <2>2, <4>1 DEF At
    <3> QED BY <3>1, <3>2
  <2>3. CASE pos # Len(s)
    <3>1. Len(s) \in 1 .. Len(s) /\ u[Len(s) - 1] = s[Len(s)] /\ Len(s) - 1 \in 1 .. Len(u)
      BY <1>2, <1>3, <2>1, <2>3
    <3> QED BY <2>1, <2>3, <3>1 DEF At
  <2> QED BY <2>2, <2>3
<1>8. RootCompletes'
  <2> SUFFICES key'[sleep_list] + At(asked, RemoveAt(s, pos), Len(RemoveAt(s, pos)))
                 \in {0, KeyMod}
    BY <1>3, <1>5 DEF RootCompletes
  <2>1. CASE pos = Len(s)
    <3> DEFINE v == root + key[curr]
    <3>1. key[curr] = a - b /\ key[curr] \in Keys
      <4>1. s[pos] \in Threads /\ s[pos] \in Node
        BY <1>2, <1>3, ElementOfSeq, QueueFacts
      <4> QED BY <1>1, <1>3, <1>4, <2>1, <4>1 DEF Deltas, At
    <3> HIDE DEF a, b
    <3>2. v + b \in {0, KeyMod} /\ v \in Nat /\ v < KeyMod + KeyMod
      BY <1>2, <1>4, <3>1, KeyModAssumption DEF Keys
    <3> HIDE DEF v
    <3>3. v % KeyMod = IF v < KeyMod THEN v ELSE v - KeyMod
      BY <3>2, Wraps, KeyModAssumption
    <3>4. (v % KeyMod) + b \in {0, KeyMod}
      BY <1>2, <3>2, <3>3, KeyModAssumption DEF Keys
    <3> QED BY <1>3, <1>7, <2>1, <3>4 DEF v
  <2>2. CASE pos # Len(s)
    BY <1>3, <1>4, <1>7, <2>2
  <2> QED BY <2>1, <2>2
<1>9. NullAwake'
  BY <1>1, QueueFacts DEF DeltaInv, NullAwake, NULL
<1>10. DelaySplit'
  BY <1>1 DEF DelaySplit
<1> QED BY <1>8, <1>9, <1>10, <1>6 DEF DeltaInv

LEMMA OtherDeltaStep ==
  ASSUME IInv, DeltaInv, [Next]_vars, ~EnqueueSleepLink, ~UnsleepUnlink
  PROVE  DeltaInv'
<1> DEFINE s == order[sleep_list]
<1>1. /\ tid \in Threads /\ k \in Keys
      /\ order \in [Queues -> Seq(Threads)] /\ key \in [Node -> Keys]
      /\ asked \in [Threads -> Keys] /\ home \in [Threads -> Queues \cup {NoQueue}]
  BY DEF IInv, TypeOK
<1>2. /\ order'[sleep_list] = s /\ key'[sleep_list] = key[sleep_list]
      /\ \A i \in 1 .. Len(s) : key'[s[i]] = key[s[i]] /\ asked'[s[i]] = asked[s[i]]
  BY SleepersSame
<1>3. s \in Seq(Threads) /\ Len(s) \in Nat
  BY <1>1, QueueFacts
<1>4. \A j : At(asked', s, j) = At(asked, s, j)
  BY <1>2 DEF At
<1>5. Deltas(key, asked, s) /\ key[sleep_list] + At(asked, s, Len(s)) \in {0, KeyMod}
  BY DEF DeltaInv, RootCompletes
<1>6. home[NULL] # sleep_list
  BY DEF DeltaInv, NullAwake
<1> HIDE DEF s
<1>7. Deltas(key', asked', order'[sleep_list])
  BY <1>2, <1>4, <1>5 DEF Deltas
<1>8. RootCompletes'
  BY <1>2, <1>4, <1>5 DEF RootCompletes
<1>9. NullAwake' /\ DelaySplit'
  <2>1. CASE UNCHANGED vars
    <3>1. UNCHANGED <<home, pc, tid, k, pos, asked>>
      BY <2>1 DEF vars
    <3>2. pc = "enqueue_sleep" => k + At(asked, s, pos - 1) = asked[tid]
      BY DEF s, DeltaInv, DelaySplit
    <3>3. pc' = "enqueue_sleep" => k' + At(asked', s, pos' - 1) = asked'[tid']
      BY <3>1, <3>2
    <3>4. DelaySplit'
      BY <1>2, <3>3 DEF DelaySplit
    <3> QED BY <3>1, <3>4 DEF DeltaInv, NullAwake
  <2>2. CASE Caller \/ EnqueueWalk \/ EnqueueLink \/ SleepFindWalk \/ UnsleepFindWalk
    <3>1. pc' # "enqueue_sleep"
      BY <2>2 DEF Caller, EnqueueCall, UnsleepCall, SleepCall, DequeueEmpty, DequeueHead, DequeueTakes,
                  EnqueueWalk, EnqueueLink, EnqueueEnds, SleepFindWalk, UnsleepFindWalk, Returns
    <3>2. \/ home' = home
          \/ \E t \in Threads : home' = [home EXCEPT ![t] = ready_list]
          \/ home' = [home EXCEPT ![qnext[ready_list]] = NoQueue]
      BY <1>1, <2>2
      DEF Caller, EnqueueCall, UnsleepCall, SleepCall, DequeueEmpty, DequeueHead, DequeueTakes,
          EnqueueWalk, EnqueueLink, EnqueueEnds, SleepFindWalk, UnsleepFindWalk, Returns
    <3>3. home'[NULL] # sleep_list
      BY <1>1, <1>6, <3>2, QueueFacts DEF NULL
    <3> QED BY <3>1, <3>3 DEF NullAwake, DelaySplit
  <2>3. CASE SleepUnlink
    <3>1. curr = tid
      BY <2>3, SearchEnds DEF SleepUnlink, SleepFinds, FindStops, Walked, Returns
    <3>2. /\ home' = [home EXCEPT ![tid] = NoQueue]
          /\ \/ /\ curr # NULL /\ pos' = 1 /\ asked' = [asked EXCEPT ![tid] = k]
                /\ tid' = tid /\ k' = k
             \/ pc' = "idle"
      BY <2>3 DEF SleepUnlink, SleepFinds, Returns
    <3>3. home'[NULL] # sleep_list
      BY <1>1, <1>6, <3>2, QueueFacts DEF NULL
    <3>4. NullAwake'
      BY <3>1, <3>2, <3>3 DEF NullAwake
    <3>5. pc' = "enqueue_sleep" => k' + At(asked', s, pos' - 1) = asked'[tid']
      <4> SUFFICES ASSUME pc' = "enqueue_sleep"
                   PROVE  k + At(asked', s, 0) = k
        BY <1>1, <3>2
      <4>1. At(asked', s, 0) = 0
        BY <1>3 DEF At
      <4> QED BY <1>1, <4>1 DEF Keys
    <3> QED BY <1>2, <3>4, <3>5 DEF DelaySplit
  <2>4. CASE EnqueueSleepWalk
    <3>1. /\ pc = "enqueue_sleep" /\ curr # sleep_list /\ k' = k - key[curr]
          /\ pos' = pos + 1 /\ UNCHANGED <<key, home, pc, tid, order, asked>>
      BY <2>4 DEF EnqueueSleepWalk, EnqueueSleepPasses, links
    <3>2. /\ tid # NULL /\ k + At(asked, s, pos - 1) = asked[tid]
          /\ pos \in 1 .. Len(s) + 1 /\ curr = Place(s, sleep_list, pos)
      BY <3>1 DEF s, DeltaInv, NullAwake, DelaySplit, IInv, WalkInQueue, Walked
    <3>3. pos \in 1 .. Len(s) /\ curr = s[pos]
      BY <3>1, <3>2 DEF Place
    <3>4. key[curr] = asked[curr] - At(asked, s, pos - 1)
      BY <1>5, <3>3 DEF Deltas
    <3>5. At(asked, s, pos' - 1) = asked[curr]
      <4>1. pos' - 1 = pos
        BY <3>1, <3>3
      <4> QED BY <3>3, <4>1 DEF At
    <3>6. At(asked, s, pos - 1) \in Keys /\ asked[curr] \in Keys
      BY <1>1, <1>3, <3>3, AtIsAKey, ElementOfSeq
    <3>7. k' + At(asked', s, pos' - 1) = asked'[tid']
      <4>1. k - key[curr] + asked[curr] = asked[tid]
        BY <1>1, <3>2, <3>4, <3>6 DEF Keys
      <4> QED BY <3>1, <3>5, <4>1
    <3>8. DelaySplit'
      BY <1>2, <3>7 DEF DelaySplit
    <3> QED BY <1>6, <3>1, <3>2, <3>8 DEF NullAwake
  <2> QED BY <2>1, <2>2, <2>3, <2>4 DEF Next, Progress, Walk
<1> QED BY <1>7, <1>8, <1>9 DEF DeltaInv

\* The local form of the sums gives the sums: up to an element ...
LEMMA SumOfDeltas ==
  ASSUME NEW s \in Seq(Threads), NEW ky, NEW due \in [Threads -> Keys],
         Deltas(ky, due, s), NEW i \in 1 .. Len(s)
  PROVE  SumFrom(0, ky, SubSeq(s, 1, i)) = due[s[i]]
<1> DEFINE g == [j \in 0 .. Len(s) |-> At(due, s, j)]
           u == SubSeq(s, 1, i)
<1>1. Len(s) \in Nat /\ i \in 0 .. Len(s)
  OBVIOUS
<1>2. ASSUME NEW j \in 1 .. Len(s)
      PROVE  g[j] = g[j - 1] + ky[s[j]]
  <2>1. j \in 0 .. Len(s) /\ j - 1 \in 0 .. Len(s)
    BY <1>1
  <2>2. ky[s[j]] = At(due, s, j) - At(due, s, j - 1)
    BY DEF Deltas, At
  <2>3. At(due, s, j) \in Keys /\ At(due, s, j - 1) \in Keys
    BY AtIsAKey
  <2>4. At(due, s, j) = At(due, s, j - 1) + (At(due, s, j) - At(due, s, j - 1))
    BY <2>3 DEF Keys
  <2> QED BY <2>1, <2>2, <2>4
<1>3. g[0] = 0 /\ g[i] = due[s[i]]
  <2>1. 0 \in 0 .. Len(s) /\ At(due, s, 0) = 0 /\ At(due, s, i) = due[s[i]]
    BY <1>1 DEF At
  <2> QED BY <1>1, <2>1
<1>4. /\ Len(u) = i /\ DOMAIN u = 1 .. i
      /\ \A j \in 1 .. i : u[j] = s[j]
  BY <1>1
<1> HIDE DEF g, u
<1>5. ASSUME NEW j \in 1 .. Len(u) PROVE g[j] = g[j - 1] + ky[u[j]]
  <2>1. j \in 1 .. Len(s) /\ u[j] = s[j]
    BY <1>1, <1>4
  <2> QED BY <1>2, <2>1
<1>6. Len(u) \in Nat /\ DOMAIN u = 1 .. Len(u)
  BY <1>1, <1>4
<1>7. SumFrom(0, ky, u) = g[Len(u)]
  BY <1>3, <1>5, <1>6, SumIs
<1> QED BY <1>3, <1>4, <1>7 DEF u

\* ... and around the ring.
LEMMA SumsFromDeltas ==
  ASSUME IInv, DeltaInv
  PROVE  DeltasAddUp
<1> DEFINE s == order[sleep_list]
           root == key[sleep_list]
           h == [j \in 0 .. Len(s) |-> root + At(asked, s, j)]
<1>1. /\ order \in [Queues -> Seq(Threads)] /\ key \in [Node -> Keys]
      /\ asked \in [Threads -> Keys]
  BY DEF IInv, TypeOK
<1>2. s \in Seq(Threads) /\ Len(s) \in Nat /\ root \in Keys
  BY <1>1, QueueFacts
<1>3. Deltas(key, asked, s) /\ root + At(asked, s, Len(s)) \in {0, KeyMod}
  BY DEF DeltaInv, RootCompletes
<1> HIDE DEF s, root
<1>4. \A i \in 1 .. Len(s) : SumFrom(0, key, SubSeq(s, 1, i)) = asked[s[i]]
  BY <1>1, <1>2, <1>3, SumOfDeltas
<1>5. \A j : At(asked, s, j) \in Int
  BY <1>1, <1>2, AtIsAKey DEF Keys
<1>6. ASSUME NEW j \in 1 .. Len(s)
      PROVE  h[j] = h[j - 1] + key[s[j]]
  <2>1. j \in 0 .. Len(s) /\ j - 1 \in 0 .. Len(s)
    BY <1>2
  <2>2. key[s[j]] = At(asked, s, j) - At(asked, s, j - 1)
    BY <1>3 DEF Deltas, At
  <2>3. root \in Int /\ At(asked, s, j) \in Int /\ At(asked, s, j - 1) \in Int
    BY <1>2, <1>5 DEF Keys
  <2> QED BY <2>1, <2>2, <2>3
<1>7. h[0] = root /\ h[Len(s)] \in {0, KeyMod}
  <2>1. 0 \in 0 .. Len(s) /\ Len(s) \in 0 .. Len(s) /\ At(asked, s, 0) = 0 /\ root \in Int
    BY <1>2 DEF At, Keys
  <2>2. h[0] = root + At(asked, s, 0) /\ h[Len(s)] = root + At(asked, s, Len(s))
    BY <2>1
  <2> HIDE DEF h
  <2> QED BY <1>3, <2>1, <2>2
<1> HIDE DEF h
<1>8. SumFrom(root, key, s) % KeyMod = 0
  <2>1. DOMAIN s = 1 .. Len(s)
    BY <1>2
  <2>2. SumFrom(root, key, s) = h[Len(s)]
    BY <1>2, <1>6, <1>7, <2>1, SumIs
  <2> DEFINE v == h[Len(s)]
  <2> HIDE DEF v
  <2>3. v \in {0, KeyMod}
    BY <1>7 DEF v
  <2>4. v % KeyMod = 0
    BY <2>3, Wraps, KeyModAssumption
  <2> QED BY <2>2, <2>4 DEF v
<1> QED BY <1>4, <1>8 DEF DeltasAddUp, RingSumsToZero, s, root

\* DeltaInv holds in every state of every behaviour: of the keys in the sleep
\* list it says place by place what the sums say of all places in front of one.
THEOREM DeltaInvariance == Spec => []DeltaInv
<1>1. Init => DeltaInv
  <2> SUFFICES ASSUME Init PROVE DeltaInv
    OBVIOUS
  <2>1. /\ order[sleep_list] = <<>> /\ key[sleep_list] = 0 /\ home[NULL] = NoQueue
        /\ pc = "idle"
    BY QueueFacts DEF Init, NULL
  <2>2. At(asked, order[sleep_list], Len(order[sleep_list])) = 0
    BY <2>1 DEF At
  <2>3. Deltas(key, asked, order[sleep_list])
    BY <2>1 DEF Deltas
  <2>4. RootCompletes
    BY <2>1, <2>2 DEF RootCompletes
  <2>5. NullAwake /\ DelaySplit
    BY <2>1, QueueFacts DEF NullAwake, DelaySplit
  <2> QED BY <2>3, <2>4, <2>5 DEF DeltaInv
<1>2. IInv /\ DeltaInv /\ [Next]_vars => DeltaInv'
  BY SleepLinkDeltaStep, UnsleepDeltaStep, OtherDeltaStep
<1> QED BY <1>1, <1>2, Invariance, PTL DEF Spec

\* The keys from the head of the sleep list up to a thread always add up to the
\* delay it was put to sleep with, and all of them with the root's to zero
\* modulo the width of a key (sleep.c 6-7, queue.c 66): insertion takes from
\* the key behind the new thread what it gives it, removal gives it back.
THEOREM AlwaysDeltasAddUp == Spec => []DeltasAddUp
BY Invariance, DeltaInvariance, SumsFromDeltas, PTL
=============================================================================
