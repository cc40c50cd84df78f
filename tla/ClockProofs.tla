----------------------------- MODULE ClockProofs -----------------------------
(***************************************************************************)
(* Proofs, for every number of threads, every width of a key and any       *)
(* number of ticks, that the timer interrupt handler leaves both queues    *)
(* rings, as long as the root of the sleep list is linked and a tick that  *)
(* lands in a call finds nobody due and no block of the sleep list half    *)
(* done; and, whenever ticks come, that delays age until one of them finds *)
(* somebody due or such a block.                                           *)
(*                                                                         *)
(* While the handler is out, the queues make the steps of ThreadQueue,     *)
(* with a thread that a tick has lost counting as one in no queue, and     *)
(* with the links, the keys and curr_thread as the block under way will    *)
(* leave them: opening a block is then a step of Base, each of its         *)
(* assignments none, and the invariant of Base need not be proved again.   *)
(***************************************************************************)
EXTENDS ClockProps, ThreadQueueProofs, FiniteSetTheorems

-----------------------------------------------------------------------------
(***************************************************************************)
(* What a block will leave                                                 *)
(***************************************************************************)

Fields == {"qnext", "qprev", "key", "take", "give", "curr"}

Assignments == [field : Fields, at : Node, is : Nat]

Mem(qn, qp, ky, c) == [qnext |-> qn, qprev |-> qp, key |-> ky, curr |-> c]

Put(f, n, v) == [f EXCEPT ![n] = v]

\* No block has more than six assignments.
Do1(todos, m) == IF todos = <<>> THEN m ELSE Run(Head(todos), m)
Do2(todos, m) == IF todos = <<>> THEN m ELSE Do1(Tail(todos), Run(Head(todos), m))
Do3(todos, m) == IF todos = <<>> THEN m ELSE Do2(Tail(todos), Run(Head(todos), m))
Do4(todos, m) == IF todos = <<>> THEN m ELSE Do3(Tail(todos), Run(Head(todos), m))
Do5(todos, m) == IF todos = <<>> THEN m ELSE Do4(Tail(todos), Run(Head(todos), m))
Do6(todos, m) == IF todos = <<>> THEN m ELSE Do5(Tail(todos), Run(Head(todos), m))

SeenMemory == Do6(todo, Memory)

SeenNext == SeenMemory.qnext
SeenPrev == SeenMemory.qprev
SeenKey  == SeenMemory.key
SeenCurr == SeenMemory.curr

LEMMA RunIs ==
  ASSUME NEW a, a.field \in Fields, NEW qn, NEW qp, NEW ky, NEW c
  PROVE  Run(a, Mem(qn, qp, ky, c)) =
           Mem(IF a.field = "qnext" THEN Put(qn, a.at, a.is) ELSE qn,
               IF a.field = "qprev" THEN Put(qp, a.at, a.is) ELSE qp,
               CASE a.field = "key"  -> KeySet(ky, a.at, a.is)
                 [] a.field = "take" -> KeyTake(ky, qn[a.at], a.is)
                 [] a.field = "give" -> KeyGive(ky, a.at, ky[a.is])
                 [] OTHER            -> ky,
               IF a.field = "curr" THEN qn[a.at] ELSE c)
<1> DEFINE m == Mem(qn, qp, ky, c)
<1>1. CASE a.field = "qnext"
  <2>1. Run(a, m) = [m EXCEPT !.qnext[a.at] = a.is]
    BY <1>1 DEF Run
  <2> QED BY <1>1, <2>1 DEF Mem, Put
<1>2. CASE a.field = "qprev"
  <2>1. Run(a, m) = [m EXCEPT !.qprev[a.at] = a.is]
    BY <1>2 DEF Run
  <2> QED BY <1>2, <2>1 DEF Mem, Put
<1>3. CASE a.field = "key"
  <2>1. Run(a, m) = [m EXCEPT !.key = KeySet(@, a.at, a.is)]
    BY <1>3 DEF Run
  <2> QED BY <1>3, <2>1 DEF Mem
<1>4. CASE a.field = "take"
  <2>1. Run(a, m) = [m EXCEPT !.key = KeyTake(@, m.qnext[a.at], a.is)]
    BY <1>4 DEF Run
  <2> QED BY <1>4, <2>1 DEF Mem
<1>5. CASE a.field = "give"
  <2>1. Run(a, m) = [m EXCEPT !.key = KeyGive(@, a.at, m.key[a.is])]
    BY <1>5 DEF Run
  <2> QED BY <1>5, <2>1 DEF Mem
<1>6. CASE a.field = "curr"
  <2>1. Run(a, m) = [m EXCEPT !.curr = m.qnext[a.at]]
    BY <1>6 DEF Run
  <2> QED BY <1>6, <2>1 DEF Mem
<1> QED BY <1>1, <1>2, <1>3, <1>4, <1>5, <1>6 DEF Fields

\* A sequence that is not longer than n is done after n assignments.
LEMMA Longer ==
  ASSUME NEW S, NEW d \in Seq(S), Len(d) <= 5, NEW m
  PROVE  Do6(d, m) = Do5(d, m)
<1>0. \A e \in Seq(S) : e # <<>> => Tail(e) \in Seq(S) /\ Len(Tail(e)) = Len(e) - 1 /\ Len(e) \in Nat
  OBVIOUS
<1>1. ASSUME NEW e \in Seq(S), NEW n, Len(e) <= 0
      PROVE  Do1(e, n) = n
  <2>1. e = <<>>
    BY <1>0, <1>1
  <2> QED BY <2>1 DEF Do1
<1>2. ASSUME NEW e \in Seq(S), NEW n, Len(e) <= 1
      PROVE  Do2(e, n) = Do1(e, n)
  <2> DEFINE r == Run(Head(e), n)
  <2>1. CASE e = <<>>
    BY <2>1 DEF Do2, Do1
  <2>2. CASE e # <<>>
    <3>1. Tail(e) \in Seq(S) /\ Len(Tail(e)) <= 0
      BY <1>0, <1>2, <2>2
    <3>2. Do1(Tail(e), r) = r
      BY <1>1, <3>1
    <3> QED BY <2>2, <3>2 DEF Do2, Do1
  <2> QED BY <2>1, <2>2
<1>3. ASSUME NEW e \in Seq(S), NEW n, Len(e) <= 2
      PROVE  Do3(e, n) = Do2(e, n)
  <2> DEFINE r == Run(Head(e), n)
  <2>1. CASE e = <<>>
    BY <2>1 DEF Do3, Do2
  <2>2. CASE e # <<>>
    <3>1. Tail(e) \in Seq(S) /\ Len(Tail(e)) <= 1
      BY <1>0, <1>3, <2>2
    <3>2. Do2(Tail(e), r) = Do1(Tail(e), r)
      BY <1>2, <3>1
    <3> QED BY <2>2, <3>2 DEF Do3, Do2
  <2> QED BY <2>1, <2>2
<1>4. ASSUME NEW e \in Seq(S), NEW n, Len(e) <= 3
      PROVE  Do4(e, n) = Do3(e, n)
  <2> DEFINE r == Run(Head(e), n)
  <2>1. CASE e = <<>>
    BY <2>1 DEF Do4, Do3
  <2>2. CASE e # <<>>
    <3>1. Tail(e) \in Seq(S) /\ Len(Tail(e)) <= 2
      BY <1>0, <1>4, <2>2
    <3>2. Do3(Tail(e), r) = Do2(Tail(e), r)
      BY <1>3, <3>1
    <3> QED BY <2>2, <3>2 DEF Do4, Do3
  <2> QED BY <2>1, <2>2
<1>5. ASSUME NEW e \in Seq(S), NEW n, Len(e) <= 4
      PROVE  Do5(e, n) = Do4(e, n)
  <2> DEFINE r == Run(Head(e), n)
  <2>1. CASE e = <<>>
    BY <2>1 DEF Do5, Do4
  <2>2. CASE e # <<>>
    <3>1. Tail(e) \in Seq(S) /\ Len(Tail(e)) <= 3
      BY <1>0, <1>5, <2>2
    <3>2. Do4(Tail(e), r) = Do3(Tail(e), r)
      BY <1>4, <3>1
    <3> QED BY <2>2, <3>2 DEF Do5, Do4
  <2> QED BY <2>1, <2>2
<1>6. ASSUME NEW e \in Seq(S), NEW n, Len(e) <= 5
      PROVE  Do6(e, n) = Do5(e, n)
  <2> DEFINE r == Run(Head(e), n)
  <2>1. CASE e = <<>>
    BY <2>1 DEF Do6, Do5
  <2>2. CASE e # <<>>
    <3>1. Tail(e) \in Seq(S) /\ Len(Tail(e)) <= 4
      BY <1>0, <1>6, <2>2
    <3>2. Do5(Tail(e), r) = Do4(Tail(e), r)
      BY <1>5, <3>1
    <3> QED BY <2>2, <3>2 DEF Do6, Do5
  <2> QED BY <2>1, <2>2
<1> QED BY <1>6

\* So an assignment brings what it will leave no closer and no farther.
LEMMA ShiftDoes ==
  ASSUME NEW S, NEW d \in Seq(S), Len(d) <= 6, d # <<>>, NEW m
  PROVE  Do6(Tail(d), Run(Head(d), m)) = Do6(d, m)
<1>1. Tail(d) \in Seq(S) /\ Len(Tail(d)) <= 5
  OBVIOUS
<1> QED BY <1>1, Longer DEF Do6

\* The blocks of four, five and six assignments.
LEMMA DoesFour ==
  ASSUME NEW a, NEW b, NEW c, NEW d, NEW m
  PROVE  Do6(<<a, b, c, d>>, m) = Run(d, Run(c, Run(b, Run(a, m))))
<1>1. <<a, b, c, d>> # <<>> /\ Head(<<a, b, c, d>>) = a /\ Tail(<<a, b, c, d>>) = <<b, c, d>>
  OBVIOUS
<1>2. <<b, c, d>> # <<>> /\ Head(<<b, c, d>>) = b /\ Tail(<<b, c, d>>) = <<c, d>>
  OBVIOUS
<1>3. <<c, d>> # <<>> /\ Head(<<c, d>>) = c /\ Tail(<<c, d>>) = <<d>>
  OBVIOUS
<1>4. <<d>> # <<>> /\ Head(<<d>>) = d /\ Tail(<<d>>) = <<>>
  OBVIOUS
<1> QED BY <1>1, <1>2, <1>3, <1>4 DEF Do6, Do5, Do4, Do3, Do2

LEMMA DoesFive ==
  ASSUME NEW a, NEW b, NEW c, NEW d, NEW e, NEW m
  PROVE  Do6(<<a, b, c, d, e>>, m) = Run(e, Run(d, Run(c, Run(b, Run(a, m)))))
<1>0. /\ <<a, b, c, d, e>> # <<>> /\ Head(<<a, b, c, d, e>>) = a
      /\ Tail(<<a, b, c, d, e>>) = <<b, c, d, e>>
  OBVIOUS
<1>1. <<b, c, d, e>> # <<>> /\ Head(<<b, c, d, e>>) = b /\ Tail(<<b, c, d, e>>) = <<c, d, e>>
  OBVIOUS
<1>2. <<c, d, e>> # <<>> /\ Head(<<c, d, e>>) = c /\ Tail(<<c, d, e>>) = <<d, e>>
  OBVIOUS
<1>3. <<d, e>> # <<>> /\ Head(<<d, e>>) = d /\ Tail(<<d, e>>) = <<e>>
  OBVIOUS
<1>4. <<e>> # <<>> /\ Head(<<e>>) = e /\ Tail(<<e>>) = <<>>
  OBVIOUS
<1> QED BY <1>0, <1>1, <1>2, <1>3, <1>4 DEF Do6, Do5, Do4, Do3, Do2, Do1

LEMMA DoesSix ==
  ASSUME NEW a, NEW b, NEW c, NEW d, NEW e, NEW f, NEW m
  PROVE  Do6(<<a, b, c, d, e, f>>, m) = Run(f, Run(e, Run(d, Run(c, Run(b, Run(a, m))))))
<1>0. /\ <<a, b, c, d, e, f>> # <<>> /\ Head(<<a, b, c, d, e, f>>) = a
      /\ Tail(<<a, b, c, d, e, f>>) = <<b, c, d, e, f>>
  OBVIOUS
<1>1. /\ <<b, c, d, e, f>> # <<>> /\ Head(<<b, c, d, e, f>>) = b
      /\ Tail(<<b, c, d, e, f>>) = <<c, d, e, f>>
  OBVIOUS
<1>2. <<c, d, e, f>> # <<>> /\ Head(<<c, d, e, f>>) = c /\ Tail(<<c, d, e, f>>) = <<d, e, f>>
  OBVIOUS
<1>3. <<d, e, f>> # <<>> /\ Head(<<d, e, f>>) = d /\ Tail(<<d, e, f>>) = <<e, f>>
  OBVIOUS
<1>4. <<e, f>> # <<>> /\ Head(<<e, f>>) = e /\ Tail(<<e, f>>) = <<f>>
  OBVIOUS
<1>5. <<f>> # <<>> /\ Head(<<f>>) = f /\ Tail(<<f>>) = <<>>
  OBVIOUS
<1> QED BY <1>0, <1>1, <1>2, <1>3, <1>4, <1>5 DEF Do6, Do5, Do4, Do3, Do2, Do1

-----------------------------------------------------------------------------
(***************************************************************************)
(* A tick under a block of the ready list                                  *)
(***************************************************************************)

OnNodes(f) == f = [n \in Node |-> f[n]]

IsMem(m) ==
  /\ m = Mem(m.qnext, m.qprev, m.key, m.curr)
  /\ OnNodes(m.qnext) /\ OnNodes(m.qprev) /\ OnNodes(m.key)

\* Assignments, and the loading of a local, that leave all but the elements of
\* A alone, and read nothing that a tick changes.
Leaves(a, A) ==
  /\ a.field \in {"qnext", "qprev", "key", "curr"}
  /\ a.field # "curr" => a.at \in A

Quiet(todos, A) == \A i \in 1 .. Len(todos) : Leaves(todos[i], A)

\* The memory after a tick.
Ticked(m, h) == Mem(m.qnext, m.qprev, KeyTake(m.key, h, 1), m.curr)

\* What m2 has of m apart from the elements of A.
SameBut(A, m, m2) ==
  \A n \in Node \ A : m2.qnext[n] = m.qnext[n] /\ m2.key[n] = m.key[n]

LEMMA RunQuiet ==
  ASSUME NEW A \in SUBSET Node, NEW h \in Node \ A, NEW a \in Assignments, Leaves(a, A),
         NEW m, IsMem(m)
  PROVE  /\ Run(a, Ticked(m, h)) = Ticked(Run(a, m), h)
         /\ IsMem(Run(a, m)) /\ SameBut(A, m, Run(a, m))
<1> DEFINE r == Run(a, m)
           t == Run(a, Ticked(m, h))
           ky2 == KeyTake(m.key, h, 1)
<1>1. /\ a.field \in Fields /\ a.at \in Node
      /\ a.field \in {"qnext", "qprev", "key", "curr"} /\ (a.field # "curr" => a.at # h /\ a.at \in A)
  BY DEF Assignments, Leaves
<1>2. /\ m = Mem(m.qnext, m.qprev, m.key, m.curr)
      /\ OnNodes(m.qnext) /\ OnNodes(m.qprev) /\ OnNodes(m.key)
  BY DEF IsMem
<1>3. Run(a, Mem(m.qnext, m.qprev, m.key, m.curr)) =
        Mem(IF a.field = "qnext" THEN Put(m.qnext, a.at, a.is) ELSE m.qnext,
            IF a.field = "qprev" THEN Put(m.qprev, a.at, a.is) ELSE m.qprev,
            IF a.field = "key" THEN KeySet(m.key, a.at, a.is) ELSE m.key,
            IF a.field = "curr" THEN m.qnext[a.at] ELSE m.curr)
  <2> DEFINE qn == m.qnext
             qp == m.qprev
             ky == m.key
             c == m.curr
  <2> HIDE DEF qn, qp, ky, c
  <2>1. Run(a, Mem(qn, qp, ky, c)) =
          Mem(IF a.field = "qnext" THEN Put(qn, a.at, a.is) ELSE qn,
              IF a.field = "qprev" THEN Put(qp, a.at, a.is) ELSE qp,
              IF a.field = "key" THEN KeySet(ky, a.at, a.is) ELSE ky,
              IF a.field = "curr" THEN qn[a.at] ELSE c)
    BY <1>1, RunIs
  <2> QED BY <2>1 DEF qn, qp, ky, c
<1>4. t = Mem(IF a.field = "qnext" THEN Put(m.qnext, a.at, a.is) ELSE m.qnext,
              IF a.field = "qprev" THEN Put(m.qprev, a.at, a.is) ELSE m.qprev,
              IF a.field = "key" THEN KeySet(ky2, a.at, a.is) ELSE ky2,
              IF a.field = "curr" THEN m.qnext[a.at] ELSE m.curr)
  <2> HIDE DEF ky2
  <2>1. Ticked(m, h) = Mem(m.qnext, m.qprev, ky2, m.curr)
    BY DEF Ticked, ky2
  <2> QED BY <1>1, <2>1, RunIs
<1>5. /\ r.qnext = IF a.field = "qnext" THEN Put(m.qnext, a.at, a.is) ELSE m.qnext
      /\ r.qprev = IF a.field = "qprev" THEN Put(m.qprev, a.at, a.is) ELSE m.qprev
      /\ r.key = IF a.field = "key" THEN KeySet(m.key, a.at, a.is) ELSE m.key
      /\ r.curr = IF a.field = "curr" THEN m.qnext[a.at] ELSE m.curr
      /\ r = Mem(r.qnext, r.qprev, r.key, r.curr)
  BY <1>2, <1>3 DEF Mem
<1>6. a.field = "key" => KeySet(ky2, a.at, a.is) = KeyTake(KeySet(m.key, a.at, a.is), h, 1)
  <2> DEFINE f == m.key
             x == a.at
             v == a.is
  <2>1. OnNodes(f) /\ h \in Node /\ (a.field = "key" => x # h)
    BY <1>1, <1>2
  <2> HIDE DEF f, x, v
  <2>2. x # h => KeySet(KeyTake(f, h, 1), x, v) = KeyTake(KeySet(f, x, v), h, 1)
    BY <2>1 DEF KeySet, KeyTake, OnNodes
  <2> QED BY <2>1, <2>2 DEF f, x, v
<1>7. t = Ticked(r, h)
  <2> HIDE DEF r, t
  <2> QED BY <1>4, <1>5, <1>6 DEF Ticked
<1>8. IsMem(r)
  <2> HIDE DEF r, t
  <2>1. OnNodes(r.qnext)
    BY <1>2, <1>5 DEF OnNodes, Put
  <2>2. OnNodes(r.qprev)
    BY <1>2, <1>5 DEF OnNodes, Put
  <2>3. OnNodes(r.key)
    BY <1>2, <1>5 DEF OnNodes, KeySet
  <2> QED BY <1>5, <2>1, <2>2, <2>3 DEF IsMem
<1>9. SameBut(A, m, r)
  <2> HIDE DEF r, t
  <2> QED BY <1>1, <1>2, <1>5 DEF SameBut, OnNodes, KeySet, Put
<1> QED BY <1>7, <1>8, <1>9

LEMMA QuietTail ==
  ASSUME NEW A, NEW d \in Seq(Assignments), d # <<>>, Quiet(d, A)
  PROVE  /\ Head(d) \in Assignments /\ Leaves(Head(d), A)
         /\ Tail(d) \in Seq(Assignments) /\ Quiet(Tail(d), A)
<1>1. Len(d) \in Nat /\ Len(d) >= 1 /\ Head(d) = d[1]
  OBVIOUS
<1>2. Leaves(d[1], A)
  BY <1>1 DEF Quiet
<1>3. Tail(d) \in Seq(Assignments) /\ \A i \in 1 .. Len(Tail(d)) : i + 1 \in 1 .. Len(d) /\ Tail(d)[i] = d[i + 1]
  BY <1>1
<1>4. Quiet(Tail(d), A)
  BY <1>3 DEF Quiet
<1>5. Head(d) \in Assignments
  BY <1>1, ElementOfSeq
<1> QED BY <1>1, <1>2, <1>3, <1>4, <1>5

\* The rest of a block that leaves the sleep list alone, and a tick, can come
\* in either order.
LEMMA DoesQuiet ==
  ASSUME NEW A \in SUBSET Node, NEW h \in Node \ A
  PROVE  \A d \in Seq(Assignments) : \A m : Quiet(d, A) /\ IsMem(m) =>
           /\ Do6(d, Ticked(m, h)) = Ticked(Do6(d, m), h)
           /\ IsMem(Do6(d, m)) /\ SameBut(A, m, Do6(d, m))
<1>0. \A m : SameBut(A, m, m)
  BY DEF SameBut
<1>1. ASSUME NEW d \in Seq(Assignments), NEW m, Quiet(d, A), IsMem(m)
      PROVE  /\ Do1(d, Ticked(m, h)) = Ticked(Do1(d, m), h)
             /\ IsMem(Do1(d, m)) /\ SameBut(A, m, Do1(d, m))
  <2>1. CASE d = <<>>
    BY <1>0, <1>1, <2>1 DEF Do1
  <2>2. CASE d # <<>>
    <3>1. Head(d) \in Assignments /\ Leaves(Head(d), A)
      BY <1>1, <2>2, QuietTail
    <3> QED BY <1>1, <2>2, <3>1, RunQuiet DEF Do1
  <2> QED BY <2>1, <2>2
<1>2. ASSUME NEW d \in Seq(Assignments), NEW m, Quiet(d, A), IsMem(m)
      PROVE  /\ Do2(d, Ticked(m, h)) = Ticked(Do2(d, m), h)
             /\ IsMem(Do2(d, m)) /\ SameBut(A, m, Do2(d, m))
  <2> DEFINE r == Run(Head(d), m)
  <2>1. CASE d = <<>>
    BY <1>0, <1>2, <2>1 DEF Do2
  <2>2. CASE d # <<>>
    <3>1. /\ Head(d) \in Assignments /\ Leaves(Head(d), A)
          /\ Tail(d) \in Seq(Assignments) /\ Quiet(Tail(d), A)
      BY <1>2, <2>2, QuietTail
    <3>2. Run(Head(d), Ticked(m, h)) = Ticked(r, h) /\ IsMem(r) /\ SameBut(A, m, r)
      BY <1>2, <3>1, RunQuiet
    <3>3. /\ Do1(Tail(d), Ticked(r, h)) = Ticked(Do1(Tail(d), r), h)
          /\ IsMem(Do1(Tail(d), r)) /\ SameBut(A, r, Do1(Tail(d), r))
      BY <1>1, <3>1, <3>2
    <3>4. SameBut(A, m, Do1(Tail(d), r))
      BY <3>2, <3>3 DEF SameBut
    <3> QED BY <2>2, <3>2, <3>3, <3>4 DEF Do2
  <2> QED BY <2>1, <2>2
<1>3. ASSUME NEW d \in Seq(Assignments), NEW m, Quiet(d, A), IsMem(m)
      PROVE  /\ Do3(d, Ticked(m, h)) = Ticked(Do3(d, m), h)
             /\ IsMem(Do3(d, m)) /\ SameBut(A, m, Do3(d, m))
  <2> DEFINE r == Run(Head(d), m)
  <2>1. CASE d = <<>>
    BY <1>0, <1>3, <2>1 DEF Do3
  <2>2. CASE d # <<>>
    <3>1. /\ Head(d) \in Assignments /\ Leaves(Head(d), A)
          /\ Tail(d) \in Seq(Assignments) /\ Quiet(Tail(d), A)
      BY <1>3, <2>2, QuietTail
    <3>2. Run(Head(d), Ticked(m, h)) = Ticked(r, h) /\ IsMem(r) /\ SameBut(A, m, r)
      BY <1>3, <3>1, RunQuiet
    <3>3. /\ Do2(Tail(d), Ticked(r, h)) = Ticked(Do2(Tail(d), r), h)
          /\ IsMem(Do2(Tail(d), r)) /\ SameBut(A, r, Do2(Tail(d), r))
      BY <1>2, <3>1, <3>2
    <3>4. SameBut(A, m, Do2(Tail(d), r))
      BY <3>2, <3>3 DEF SameBut
    <3> QED BY <2>2, <3>2, <3>3, <3>4 DEF Do3
  <2> QED BY <2>1, <2>2
<1>4. ASSUME NEW d \in Seq(Assignments), NEW m, Quiet(d, A), IsMem(m)
      PROVE  /\ Do4(d, Ticked(m, h)) = Ticked(Do4(d, m), h)
             /\ IsMem(Do4(d, m)) /\ SameBut(A, m, Do4(d, m))
  <2> DEFINE r == Run(Head(d), m)
  <2>1. CASE d = <<>>
    BY <1>0, <1>4, <2>1 DEF Do4
  <2>2. CASE d # <<>>
    <3>1. /\ Head(d) \in Assignments /\ Leaves(Head(d), A)
          /\ Tail(d) \in Seq(Assignments) /\ Quiet(Tail(d), A)
      BY <1>4, <2>2, QuietTail
    <3>2. Run(Head(d), Ticked(m, h)) = Ticked(r, h) /\ IsMem(r) /\ SameBut(A, m, r)
      BY <1>4, <3>1, RunQuiet
    <3>3. /\ Do3(Tail(d), Ticked(r, h)) = Ticked(Do3(Tail(d), r), h)
          /\ IsMem(Do3(Tail(d), r)) /\ SameBut(A, r, Do3(Tail(d), r))
      BY <1>3, <3>1, <3>2
    <3>4. SameBut(A, m, Do3(Tail(d), r))
      BY <3>2, <3>3 DEF SameBut
    <3> QED BY <2>2, <3>2, <3>3, <3>4 DEF Do4
  <2> QED BY <2>1, <2>2
<1>5. ASSUME NEW d \in Seq(Assignments), NEW m, Quiet(d, A), IsMem(m)
      PROVE  /\ Do5(d, Ticked(m, h)) = Ticked(Do5(d, m), h)
             /\ IsMem(Do5(d, m)) /\ SameBut(A, m, Do5(d, m))
  <2> DEFINE r == Run(Head(d), m)
  <2>1. CASE d = <<>>
    BY <1>0, <1>5, <2>1 DEF Do5
  <2>2. CASE d # <<>>
    <3>1. /\ Head(d) \in Assignments /\ Leaves(Head(d), A)
          /\ Tail(d) \in Seq(Assignments) /\ Quiet(Tail(d), A)
      BY <1>5, <2>2, QuietTail
    <3>2. Run(Head(d), Ticked(m, h)) = Ticked(r, h) /\ IsMem(r) /\ SameBut(A, m, r)
      BY <1>5, <3>1, RunQuiet
    <3>3. /\ Do4(Tail(d), Ticked(r, h)) = Ticked(Do4(Tail(d), r), h)
          /\ IsMem(Do4(Tail(d), r)) /\ SameBut(A, r, Do4(Tail(d), r))
      BY <1>4, <3>1, <3>2
    <3>4. SameBut(A, m, Do4(Tail(d), r))
      BY <3>2, <3>3 DEF SameBut
    <3> QED BY <2>2, <3>2, <3>3, <3>4 DEF Do5
  <2> QED BY <2>1, <2>2
<1>6. ASSUME NEW d \in Seq(Assignments), NEW m, Quiet(d, A), IsMem(m)
      PROVE  /\ Do6(d, Ticked(m, h)) = Ticked(Do6(d, m), h)
             /\ IsMem(Do6(d, m)) /\ SameBut(A, m, Do6(d, m))
  <2> DEFINE r == Run(Head(d), m)
  <2>1. CASE d = <<>>
    BY <1>0, <1>6, <2>1 DEF Do6
  <2>2. CASE d # <<>>
    <3>1. /\ Head(d) \in Assignments /\ Leaves(Head(d), A)
          /\ Tail(d) \in Seq(Assignments) /\ Quiet(Tail(d), A)
      BY <1>6, <2>2, QuietTail
    <3>2. Run(Head(d), Ticked(m, h)) = Ticked(r, h) /\ IsMem(r) /\ SameBut(A, m, r)
      BY <1>6, <3>1, RunQuiet
    <3>3. /\ Do5(Tail(d), Ticked(r, h)) = Ticked(Do5(Tail(d), r), h)
          /\ IsMem(Do5(Tail(d), r)) /\ SameBut(A, r, Do5(Tail(d), r))
      BY <1>5, <3>1, <3>2
    <3>4. SameBut(A, m, Do5(Tail(d), r))
      BY <3>2, <3>3 DEF SameBut
    <3> QED BY <2>2, <3>2, <3>3, <3>4 DEF Do6
  <2> QED BY <2>1, <2>2
<1> QED BY <1>6

-----------------------------------------------------------------------------
(***************************************************************************)
(* What the blocks leave is what the steps of ThreadQueue do               *)
(***************************************************************************)

LEMMA JoinFive ==
  ASSUME NEW a, NEW b, NEW c, NEW d, NEW e
  PROVE  <<a, b, c, d>> \o <<e>> = <<a, b, c, d, e>>
<1> DEFINE S == {a, b, c, d, e}
           s == <<a, b, c, d>>
           t == <<e>>
           u == <<a, b, c, d, e>>
<1>1. s \in Seq(S) /\ Len(s) = 4 /\ s[1] = a /\ s[2] = b /\ s[3] = c /\ s[4] = d
  OBVIOUS
<1>2. t \in Seq(S) /\ Len(t) = 1 /\ t[1] = e
  OBVIOUS
<1>3. u \in Seq(S) /\ Len(u) = 5 /\ u[1] = a /\ u[2] = b /\ u[3] = c /\ u[4] = d /\ u[5] = e
  OBVIOUS
<1> HIDE DEF s, t, u, S
<1> DEFINE w == s \o t
<1>4. /\ w \in Seq(S) /\ Len(w) = Len(s) + Len(t)
      /\ \A i \in 1 .. Len(s) + Len(t) : w[i] = IF i <= Len(s) THEN s[i] ELSE t[i - Len(s)]
  BY <1>1, <1>2, ConcatProperties
<1> HIDE DEF w
<1>5. w \in Seq(S) /\ Len(w) = 5 /\ \A i \in 1 .. 5 : w[i] = IF i <= 4 THEN s[i] ELSE t[i - 4]
  BY <1>1, <1>2, <1>4
<1>6. w[1] = s[1] /\ w[2] = s[2] /\ w[3] = s[3] /\ w[4] = s[4] /\ w[5] = t[1]
  BY <1>5
<1>7. \A i \in 1 .. 5 : i = 1 \/ i = 2 \/ i = 3 \/ i = 4 \/ i = 5
  OBVIOUS
<1>8. \A i \in 1 .. 5 : w[i] = u[i]
  BY <1>1, <1>2, <1>3, <1>6, <1>7
<1>9. w = u
  BY <1>3, <1>5, <1>8, SeqEqual
<1> QED BY <1>9 DEF s, t, u, w

LEMMA JoinSix ==
  ASSUME NEW a, NEW b, NEW c, NEW d, NEW e, NEW f
  PROVE  <<a, b, c, d, e>> \o <<f>> = <<a, b, c, d, e, f>>
<1> DEFINE S == {a, b, c, d, e, f}
           s == <<a, b, c, d, e>>
           t == <<f>>
           u == <<a, b, c, d, e, f>>
<1>1. s \in Seq(S) /\ Len(s) = 5 /\ s[1] = a /\ s[2] = b /\ s[3] = c /\ s[4] = d /\ s[5] = e
  OBVIOUS
<1>2. t \in Seq(S) /\ Len(t) = 1 /\ t[1] = f
  OBVIOUS
<1>3. u \in Seq(S) /\ Len(u) = 6 /\ u[1] = a /\ u[2] = b /\ u[3] = c /\ u[4] = d /\ u[5] = e /\ u[6] = f
  OBVIOUS
<1> HIDE DEF s, t, u, S
<1> DEFINE w == s \o t
<1>4. /\ w \in Seq(S) /\ Len(w) = Len(s) + Len(t)
      /\ \A i \in 1 .. Len(s) + Len(t) : w[i] = IF i <= Len(s) THEN s[i] ELSE t[i - Len(s)]
  BY <1>1, <1>2, ConcatProperties
<1> HIDE DEF w
<1>5. w \in Seq(S) /\ Len(w) = 6 /\ \A i \in 1 .. 6 : w[i] = IF i <= 5 THEN s[i] ELSE t[i - 5]
  BY <1>1, <1>2, <1>4
<1>6. w[1] = s[1] /\ w[2] = s[2] /\ w[3] = s[3] /\ w[4] = s[4] /\ w[5] = s[5] /\ w[6] = t[1]
  BY <1>5
<1>7. \A i \in 1 .. 6 : i = 1 \/ i = 2 \/ i = 3 \/ i = 4 \/ i = 5 \/ i = 6
  OBVIOUS
<1>8. \A i \in 1 .. 6 : w[i] = u[i]
  BY <1>1, <1>2, <1>3, <1>6, <1>7
<1>9. w = u
  BY <1>3, <1>5, <1>8, SeqEqual
<1> QED BY <1>9 DEF s, t, u, w

LEMMA JoinFront ==
  ASSUME NEW a, NEW b, NEW c, NEW d, NEW e
  PROVE  <<a>> \o <<b, c, d, e>> = <<a, b, c, d, e>>
<1> DEFINE S == {a, b, c, d, e}
           s == <<a>>
           t == <<b, c, d, e>>
           u == <<a, b, c, d, e>>
<1>1. s \in Seq(S) /\ Len(s) = 1 /\ s[1] = a
  OBVIOUS
<1>2. t \in Seq(S) /\ Len(t) = 4 /\ t[1] = b /\ t[2] = c /\ t[3] = d /\ t[4] = e
  OBVIOUS
<1>3. u \in Seq(S) /\ Len(u) = 5 /\ u[1] = a /\ u[2] = b /\ u[3] = c /\ u[4] = d /\ u[5] = e
  OBVIOUS
<1> HIDE DEF s, t, u, S
<1> DEFINE w == s \o t
<1>4. /\ w \in Seq(S) /\ Len(w) = Len(s) + Len(t)
      /\ \A i \in 1 .. Len(s) + Len(t) : w[i] = IF i <= Len(s) THEN s[i] ELSE t[i - Len(s)]
  BY <1>1, <1>2, ConcatProperties
<1> HIDE DEF w
<1>5. w \in Seq(S) /\ Len(w) = 5 /\ \A i \in 1 .. 5 : w[i] = IF i <= 1 THEN s[i] ELSE t[i - 1]
  BY <1>1, <1>2, <1>4
<1>6. w[1] = s[1] /\ w[2] = t[1] /\ w[3] = t[2] /\ w[4] = t[3] /\ w[5] = t[4]
  BY <1>5
<1>7. \A i \in 1 .. 5 : i = 1 \/ i = 2 \/ i = 3 \/ i = 4 \/ i = 5
  OBVIOUS
<1>8. \A i \in 1 .. 5 : w[i] = u[i]
  BY <1>1, <1>2, <1>3, <1>6, <1>7
<1>9. w = u
  BY <1>3, <1>5, <1>8, SeqEqual
<1> QED BY <1>9 DEF s, t, u, w

\* The operators of QueueLinks are made of assignments to elements.
LEMMA PutsAre ==
  /\ \A qn, qp, t, c : InsertNext(qn, qp, t, c) = Put(Put(qn, qp[c], t), t, c)
  /\ \A qp, t, c : InsertPrev(qp, t, c) = Put(Put(qp, t, qp[c]), c, t)
  /\ \A qn, qp, t : UnlinkNext(qn, qp, t) = Put(Put(qn, t, NULL), qp[t], qn[t])
  /\ \A qn, qp, t : UnlinkPrev(qn, qp, t) = Put(Put(qp, t, NULL), qn[t], qp[t])
  /\ \A qn, q : DequeueNext(qn, q) = Put(Put(qn, qn[q], NULL), q, qn[qn[q]])
  /\ \A qn, qp, q : DequeuePrev(qn, qp, q) = Put(Put(qp, qn[q], NULL), qn[qn[q]], q)
BY DEF InsertNext, InsertPrev, UnlinkNext, UnlinkPrev, DequeueNext, DequeuePrev, Put

LEMMA RunOn ==
  ASSUME NEW n, NEW v, NEW qn, NEW qp, NEW ky, NEW c
  PROVE  /\ Run(Assign("qnext", n, v), Mem(qn, qp, ky, c)) = Mem(Put(qn, n, v), qp, ky, c)
         /\ Run(Assign("qprev", n, v), Mem(qn, qp, ky, c)) = Mem(qn, Put(qp, n, v), ky, c)
         /\ Run(Assign("key", n, v), Mem(qn, qp, ky, c)) = Mem(qn, qp, KeySet(ky, n, v), c)
         /\ Run(Assign("take", n, v), Mem(qn, qp, ky, c)) = Mem(qn, qp, KeyTake(ky, qn[n], v), c)
         /\ Run(Assign("give", n, v), Mem(qn, qp, ky, c)) = Mem(qn, qp, KeyGive(ky, n, ky[v]), c)
         /\ Run(Assign("curr", n, v), Mem(qn, qp, ky, c)) = Mem(qn, qp, ky, qn[n])
<1>1. ASSUME NEW f \in Fields
      PROVE  /\ Assign(f, n, v).field = f /\ Assign(f, n, v).at = n /\ Assign(f, n, v).is = v
             /\ Assign(f, n, v).field \in Fields
  BY DEF Assign
<1>2. \A f \in Fields :
        Run(Assign(f, n, v), Mem(qn, qp, ky, c)) =
          Mem(IF f = "qnext" THEN Put(qn, n, v) ELSE qn,
              IF f = "qprev" THEN Put(qp, n, v) ELSE qp,
              CASE f = "key"  -> KeySet(ky, n, v)
                [] f = "take" -> KeyTake(ky, qn[n], v)
                [] f = "give" -> KeyGive(ky, n, ky[v])
                [] OTHER      -> ky,
              IF f = "curr" THEN qn[n] ELSE c)
  <2> TAKE f \in Fields
  <2> DEFINE a == Assign(f, n, v)
  <2>1. a.field = f /\ a.at = n /\ a.is = v /\ a.field \in Fields
    BY <1>1
  <2> HIDE DEF a
  <2>2. Run(a, Mem(qn, qp, ky, c)) =
          Mem(IF a.field = "qnext" THEN Put(qn, a.at, a.is) ELSE qn,
              IF a.field = "qprev" THEN Put(qp, a.at, a.is) ELSE qp,
              CASE a.field = "key"  -> KeySet(ky, a.at, a.is)
                [] a.field = "take" -> KeyTake(ky, qn[a.at], a.is)
                [] a.field = "give" -> KeyGive(ky, a.at, ky[a.is])
                [] OTHER            -> ky,
              IF a.field = "curr" THEN qn[a.at] ELSE c)
    BY <2>1, RunIs
  <2>3. Run(a, Mem(qn, qp, ky, c)) =
          Mem(IF f = "qnext" THEN Put(qn, n, v) ELSE qn,
              IF f = "qprev" THEN Put(qp, n, v) ELSE qp,
              CASE f = "key"  -> KeySet(ky, n, v)
                [] f = "take" -> KeyTake(ky, qn[n], v)
                [] f = "give" -> KeyGive(ky, n, ky[v])
                [] OTHER      -> ky,
              IF f = "curr" THEN qn[n] ELSE c)
    BY <2>1, <2>2
  <2> QED BY <2>3 DEF a
<1>3. Run(Assign("qnext", n, v), Mem(qn, qp, ky, c)) = Mem(Put(qn, n, v), qp, ky, c)
  BY <1>2 DEF Fields
<1>4. Run(Assign("qprev", n, v), Mem(qn, qp, ky, c)) = Mem(qn, Put(qp, n, v), ky, c)
  BY <1>2 DEF Fields
<1>5. Run(Assign("key", n, v), Mem(qn, qp, ky, c)) = Mem(qn, qp, KeySet(ky, n, v), c)
  BY <1>2 DEF Fields
<1>6. Run(Assign("take", n, v), Mem(qn, qp, ky, c)) = Mem(qn, qp, KeyTake(ky, qn[n], v), c)
  BY <1>2 DEF Fields
<1>7. Run(Assign("give", n, v), Mem(qn, qp, ky, c)) = Mem(qn, qp, KeyGive(ky, n, ky[v]), c)
  BY <1>2 DEF Fields
<1>8. Run(Assign("curr", n, v), Mem(qn, qp, ky, c)) = Mem(qn, qp, ky, qn[n])
  BY <1>2 DEF Fields
<1> QED BY <1>3, <1>4, <1>5, <1>6, <1>7, <1>8

\* queue.c 31-46.
LEMMA LinkDoes ==
  ASSUME NEW queue, NEW c2
  PROVE  Do6(Linking(queue, <<>>), Mem(qnext, qprev, key, c2)) =
           Mem(InsertNext(qnext, qprev, tid, InsertBefore(queue, curr)),
               InsertPrev(qprev, tid, InsertBefore(queue, curr)),
               KeySet(key, tid, k), c2)
<1> DEFINE m == Mem(qnext, qprev, key, c2)
           at == InsertBefore(queue, curr)
<1>1. CASE curr # NULL
  <2> DEFINE a1 == Assign("qnext", qprev[curr], tid)
             a2 == Assign("qnext", tid, curr)
             a3 == Assign("qprev", tid, qprev[curr])
             a4 == Assign("qprev", curr, tid)
             a5 == Assign("key", tid, k)
  <2>1. at = curr /\ Linking(queue, <<>>) = <<a1, a2, a3, a4>> \o <<>> \o <<a5>>
    BY <1>1 DEF Linking, InsertBefore
  <2>2. Run(a5, Run(a4, Run(a3, Run(a2, Run(a1, m))))) =
          Mem(InsertNext(qnext, qprev, tid, curr), InsertPrev(qprev, tid, curr), KeySet(key, tid, k), c2)
    BY RunOn, PutsAre
  <2> HIDE DEF a1, a2, a3, a4, a5
  <2>3. <<a1, a2, a3, a4>> \o <<>> \o <<a5>> = <<a1, a2, a3, a4, a5>>
    <3>1. <<a1, a2, a3, a4>> \o <<>> = <<a1, a2, a3, a4>>
      OBVIOUS
    <3>2. <<a1, a2, a3, a4>> \o <<a5>> = <<a1, a2, a3, a4, a5>>
      BY JoinFive
    <3> QED BY <3>1, <3>2, Zenon
  <2>4. Do6(<<a1, a2, a3, a4, a5>>, m) = Run(a5, Run(a4, Run(a3, Run(a2, Run(a1, m)))))
    BY DoesFive
  <2> HIDE DEF m
  <2> QED BY <2>1, <2>2, <2>3, <2>4 DEF m
<1>2. CASE curr = NULL
  <2> DEFINE a1 == Assign("qnext", qprev[queue], tid)
             a2 == Assign("qprev", tid, qprev[queue])
             a3 == Assign("qnext", tid, queue)
             a4 == Assign("qprev", queue, tid)
             a5 == Assign("key", tid, k)
  <2>1. at = queue /\ Linking(queue, <<>>) = <<a1, a2, a3, a4, a5>>
    BY <1>2 DEF Linking, InsertBefore
  <2>2. Run(a5, Run(a4, Run(a3, Run(a2, Run(a1, m))))) =
          Mem(InsertNext(qnext, qprev, tid, queue), InsertPrev(qprev, tid, queue), KeySet(key, tid, k), c2)
    BY RunOn, PutsAre
  <2> HIDE DEF a1, a2, a3, a4, a5
  <2>3. Do6(<<a1, a2, a3, a4, a5>>, m) = Run(a5, Run(a4, Run(a3, Run(a2, Run(a1, m)))))
    BY DoesFive
  <2> HIDE DEF m
  <2> QED BY <2>1, <2>2, <2>3 DEF m
<1> QED BY <1>1, <1>2

\* queue.c 60-76.
LEMMA SleepLinkDoes ==
  ASSUME NEW c2, tid \in Node, OnNodes(qnext), curr # tid, curr # NULL
  PROVE  Do6(Linking(sleep_list, << Assign("take", tid, k) >>), Mem(qnext, qprev, key, c2)) =
           Mem(InsertNext(qnext, qprev, tid, curr), InsertPrev(qprev, tid, curr),
               KeySet(KeyTake(key, curr, k), tid, k), c2)
<1> DEFINE m == Mem(qnext, qprev, key, c2)
           a1 == Assign("qnext", qprev[curr], tid)
           a2 == Assign("qnext", tid, curr)
           a3 == Assign("qprev", tid, qprev[curr])
           a4 == Assign("qprev", curr, tid)
           a5 == Assign("take", tid, k)
           a6 == Assign("key", tid, k)
<1>1. Linking(sleep_list, << Assign("take", tid, k) >>) = <<a1, a2, a3, a4>> \o <<a5>> \o <<a6>>
  BY DEF Linking
<1>2. Run(a4, Run(a3, Run(a2, Run(a1, m)))) =
        Mem(InsertNext(qnext, qprev, tid, curr), InsertPrev(qprev, tid, curr), key, c2)
  BY RunOn, PutsAre
<1>3. InsertNext(qnext, qprev, tid, curr)[tid] = curr
  BY DEF InsertNext, OnNodes
<1>4. Run(a6, Run(a5, Run(a4, Run(a3, Run(a2, Run(a1, m)))))) =
        Mem(InsertNext(qnext, qprev, tid, curr), InsertPrev(qprev, tid, curr),
            KeySet(KeyTake(key, curr, k), tid, k), c2)
  <2> DEFINE qn == InsertNext(qnext, qprev, tid, curr)
             qp == InsertPrev(qprev, tid, curr)
  <2> HIDE DEF qn, qp
  <2>1. Run(a6, Run(a5, Mem(qn, qp, key, c2))) = Mem(qn, qp, KeySet(KeyTake(key, qn[tid], k), tid, k), c2)
    BY RunOn
  <2>2. qn[tid] = curr
    BY <1>3 DEF qn
  <2> HIDE DEF a1, a2, a3, a4, a5, a6, m
  <2> QED BY <1>2, <2>1, <2>2 DEF qn, qp
<1> HIDE DEF a1, a2, a3, a4, a5, a6
<1>5. <<a1, a2, a3, a4>> \o <<a5>> \o <<a6>> = <<a1, a2, a3, a4, a5, a6>>
  <2>1. <<a1, a2, a3, a4>> \o <<a5>> = <<a1, a2, a3, a4, a5>>
    BY JoinFive
  <2>2. <<a1, a2, a3, a4, a5>> \o <<a6>> = <<a1, a2, a3, a4, a5, a6>>
    BY JoinSix
  <2> QED BY <2>1, <2>2, Zenon
<1>6. Do6(<<a1, a2, a3, a4, a5, a6>>, m) = Run(a6, Run(a5, Run(a4, Run(a3, Run(a2, Run(a1, m))))))
  BY DoesSix
<1> HIDE DEF m
<1> QED BY <1>1, <1>4, <1>5, <1>6 DEF m

\* queue.c 92-95.
LEMMA DequeueDoes ==
  ASSUME NEW c2
  PROVE  Do6(Dequeuing(ready_list), Mem(qnext, qprev, key, c2)) =
           Mem(DequeueNext(qnext, ready_list), DequeuePrev(qnext, qprev, ready_list), key, c2)
<1> DEFINE m == Mem(qnext, qprev, key, c2)
           first == qnext[ready_list]
           a1 == Assign("qnext", first, NULL)
           a2 == Assign("qprev", first, NULL)
           a3 == Assign("qnext", ready_list, qnext[first])
           a4 == Assign("qprev", qnext[first], ready_list)
<1>1. Dequeuing(ready_list) = <<a1, a2, a3, a4>>
  BY DEF Dequeuing
<1>2. Run(a4, Run(a3, Run(a2, Run(a1, m)))) =
        Mem(DequeueNext(qnext, ready_list), DequeuePrev(qnext, qprev, ready_list), key, c2)
  BY RunOn, PutsAre
<1> HIDE DEF a1, a2, a3, a4
<1>3. Do6(<<a1, a2, a3, a4>>, m) = Run(a4, Run(a3, Run(a2, Run(a1, m))))
  BY DoesFour
<1> HIDE DEF m
<1> QED BY <1>1, <1>2, <1>3 DEF m

\* sleep.c 26-31, of thread 0.
LEMMA UnlinkDoes ==
  ASSUME NEW c2
  PROVE  Do6(Unlinking(curr), Mem(qnext, qprev, key, c2)) =
           Mem(UnlinkNext(qnext, qprev, curr), UnlinkPrev(qnext, qprev, curr), key, c2)
<1> DEFINE m == Mem(qnext, qprev, key, c2)
           a1 == Assign("qnext", curr, NULL)
           a2 == Assign("qprev", curr, NULL)
           a3 == Assign("qnext", qprev[curr], qnext[curr])
           a4 == Assign("qprev", qnext[curr], qprev[curr])
<1>1. Unlinking(curr) = <<a1, a2, a3, a4>>
  BY DEF Unlinking
<1>2. Run(a4, Run(a3, Run(a2, Run(a1, m)))) =
        Mem(UnlinkNext(qnext, qprev, curr), UnlinkPrev(qnext, qprev, curr), key, c2)
  BY RunOn, PutsAre
<1> HIDE DEF a1, a2, a3, a4
<1>3. Do6(<<a1, a2, a3, a4>>, m) = Run(a4, Run(a3, Run(a2, Run(a1, m))))
  BY DoesFour
<1> HIDE DEF m
<1> QED BY <1>1, <1>2, <1>3 DEF m

\* sleep.c 26-41, of the other threads, and the beginning of the walk behind it.
LEMMA SleepDoes ==
  ASSUME NEW c2
  PROVE  Do6(Unlinking(curr) \o << Assign("key", tid, k) >> \o Entering(sleep_list),
             Mem(qnext, qprev, key, c2)) =
           Mem(UnlinkNext(qnext, qprev, curr), UnlinkPrev(qnext, qprev, curr),
               KeySet(key, tid, k), UnlinkNext(qnext, qprev, curr)[sleep_list])
<1> DEFINE m == Mem(qnext, qprev, key, c2)
           a1 == Assign("qnext", curr, NULL)
           a2 == Assign("qprev", curr, NULL)
           a3 == Assign("qnext", qprev[curr], qnext[curr])
           a4 == Assign("qprev", qnext[curr], qprev[curr])
           a5 == Assign("key", tid, k)
           a6 == Assign("curr", sleep_list, NULL)
<1>1. Unlinking(curr) = <<a1, a2, a3, a4>> /\ Entering(sleep_list) = <<a6>>
  BY DEF Unlinking, Entering
<1>2. Run(a4, Run(a3, Run(a2, Run(a1, m)))) =
        Mem(UnlinkNext(qnext, qprev, curr), UnlinkPrev(qnext, qprev, curr), key, c2)
  BY RunOn, PutsAre
<1>3. Run(a6, Run(a5, Run(a4, Run(a3, Run(a2, Run(a1, m)))))) =
        Mem(UnlinkNext(qnext, qprev, curr), UnlinkPrev(qnext, qprev, curr),
            KeySet(key, tid, k), UnlinkNext(qnext, qprev, curr)[sleep_list])
  <2> DEFINE qn == UnlinkNext(qnext, qprev, curr)
             qp == UnlinkPrev(qnext, qprev, curr)
  <2> HIDE DEF qn, qp
  <2>1. Run(a6, Run(a5, Mem(qn, qp, key, c2))) = Mem(qn, qp, KeySet(key, tid, k), qn[sleep_list])
    BY RunOn
  <2> HIDE DEF a1, a2, a3, a4, a5, a6, m
  <2> QED BY <1>2, <2>1 DEF qn, qp
<1> HIDE DEF a1, a2, a3, a4, a5, a6
<1>4. <<a1, a2, a3, a4>> \o <<a5>> \o <<a6>> = <<a1, a2, a3, a4, a5, a6>>
  <2>1. <<a1, a2, a3, a4>> \o <<a5>> = <<a1, a2, a3, a4, a5>>
    BY JoinFive
  <2>2. <<a1, a2, a3, a4, a5>> \o <<a6>> = <<a1, a2, a3, a4, a5, a6>>
    BY JoinSix
  <2> QED BY <2>1, <2>2, Zenon
<1>5. Do6(<<a1, a2, a3, a4, a5, a6>>, m) = Run(a6, Run(a5, Run(a4, Run(a3, Run(a2, Run(a1, m))))))
  BY DoesSix
<1> HIDE DEF m
<1> QED BY <1>1, <1>3, <1>4, <1>5 DEF m, a5

\* sleep.c 66-75, and the beginning of the walk behind it.
LEMMA UnsleepDoes ==
  ASSUME NEW c2
  PROVE  Do6(<< Assign("give", qnext[curr], curr) >> \o Unlinking(curr) \o Entering(ready_list),
             Mem(qnext, qprev, key, c2)) =
           Mem(UnlinkNext(qnext, qprev, curr), UnlinkPrev(qnext, qprev, curr),
               KeyGive(key, qnext[curr], key[curr]), UnlinkNext(qnext, qprev, curr)[ready_list])
<1> DEFINE m == Mem(qnext, qprev, key, c2)
           a1 == Assign("give", qnext[curr], curr)
           a2 == Assign("qnext", curr, NULL)
           a3 == Assign("qprev", curr, NULL)
           a4 == Assign("qnext", qprev[curr], qnext[curr])
           a5 == Assign("qprev", qnext[curr], qprev[curr])
           a6 == Assign("curr", ready_list, NULL)
<1>1. Unlinking(curr) = <<a2, a3, a4, a5>> /\ Entering(ready_list) = <<a6>>
  BY DEF Unlinking, Entering
<1>2. Run(a6, Run(a5, Run(a4, Run(a3, Run(a2, Run(a1, m)))))) =
        Mem(UnlinkNext(qnext, qprev, curr), UnlinkPrev(qnext, qprev, curr),
            KeyGive(key, qnext[curr], key[curr]), UnlinkNext(qnext, qprev, curr)[ready_list])
  <2> DEFINE ky == KeyGive(key, qnext[curr], key[curr])
  <2> HIDE DEF ky
  <2>1. Run(a1, m) = Mem(qnext, qprev, ky, c2)
    BY RunOn DEF ky
  <2>2. Run(a5, Run(a4, Run(a3, Run(a2, Mem(qnext, qprev, ky, c2))))) =
          Mem(UnlinkNext(qnext, qprev, curr), UnlinkPrev(qnext, qprev, curr), ky, c2)
    BY RunOn, PutsAre
  <2> DEFINE qn == UnlinkNext(qnext, qprev, curr)
             qp == UnlinkPrev(qnext, qprev, curr)
  <2> HIDE DEF qn, qp
  <2>3. Run(a6, Mem(qn, qp, ky, c2)) = Mem(qn, qp, ky, qn[ready_list])
    BY RunOn
  <2> HIDE DEF a1, a2, a3, a4, a5, a6, m
  <2> QED BY <2>1, <2>2, <2>3 DEF qn, qp, ky
<1> HIDE DEF a1, a2, a3, a4, a5, a6
<1>3. <<a1>> \o <<a2, a3, a4, a5>> \o <<a6>> = <<a1, a2, a3, a4, a5, a6>>
  <2>1. <<a1>> \o <<a2, a3, a4, a5>> = <<a1, a2, a3, a4, a5>>
    BY JoinFront
  <2>2. <<a1, a2, a3, a4, a5>> \o <<a6>> = <<a1, a2, a3, a4, a5, a6>>
    BY JoinSix
  <2> QED BY <2>1, <2>2, Zenon
<1>4. Do6(<<a1, a2, a3, a4, a5, a6>>, m) = Run(a6, Run(a5, Run(a4, Run(a3, Run(a2, Run(a1, m))))))
  BY DoesSix
<1> HIDE DEF m
<1> QED BY <1>1, <1>2, <1>3, <1>4 DEF m, a1


-----------------------------------------------------------------------------
(***************************************************************************)
(* The inductive invariant                                                 *)
(***************************************************************************)

\* Between thread_dequeue and the linking the thread is in neither list.
InHand(t) == hpc = "walk" /\ t = threadid

SeenHome ==
  [t \in Threads |-> IF home[t] = Lost \/ InHand(t) THEN NoQueue ELSE home[t]]

SeenOrder ==
  IF hpc = "walk" /\ threadid \in Threads
    THEN [order EXCEPT ![sleep_list] = Tail(@)] ELSE order

Base ==
  INSTANCE ThreadQueueProofs
    WITH home <- SeenHome, order <- SeenOrder, qnext <- SeenNext, qprev <- SeenPrev,
         key <- SeenKey, curr <- SeenCurr

\* The elements that neither the handler's loop nor its decrement comes to.
Away == {n \in Node : n # sleep_list /\ (n \in Threads => SeenHome[n] # sleep_list)}

HandlerTypes ==
  /\ hpc \in {"out", "loop", "walk"}
  /\ head \in Node
  /\ hcurr \in Node
  /\ hkey \in Keys
  /\ threadid \in Threads \cup {NTHREADS}
  /\ home \in [Threads -> Queues \cup {NoQueue, Lost}]
  /\ order \in [Queues -> Seq(Threads)]

\* A block of the ready list leaves the sleep list alone; over one of the sleep
\* list the handler does not come.
BlockInv ==
  /\ todo \in Seq(Assignments) /\ Len(todo) <= 6
  /\ IsMem(Memory)
  /\ linking \in {NoQueue, ready_list, sleep_list}
  /\ linking = NoQueue <=> todo = <<>>
  /\ linking = ready_list => Quiet(todo, Away)
  /\ linking = sleep_list => hpc = "out"
  /\ hpc = "walk" => todo = <<>>

\* In the middle of a call, and until a tick finds somebody due, the loop stays
\* on the sleep list.
LoopHarmless ==
  hpc # "out" /\ ~(NoCall /\ woke) =>
    /\ hpc = "loop"
    /\ \E i \in 1 .. Len(order[sleep_list]) + 1 :
         head = Place(order[sleep_list], sleep_list, i)
    /\ \A i \in 1 .. Len(order[sleep_list]) + 1 :
         ~Due(key, Place(order[sleep_list], sleep_list, i))

\* The walk of the handler's thread_enqueue stays on the ready list.
WalkOnReady ==
  hpc = "walk" =>
    /\ pc = "idle" /\ woke
    /\ \E i \in 1 .. Len(order[ready_list]) + 1 :
         hcurr = Place(order[ready_list], ready_list, i)
    /\ threadid \in Threads => hkey = priority /\ order[sleep_list] # <<>>

ClockInv == HandlerTypes /\ BlockInv /\ Base!IInv /\ LoopHarmless /\ WalkOnReady

-----------------------------------------------------------------------------
(***************************************************************************)
(* What Base says, in the words of this module                             *)
(***************************************************************************)

SeenTypes ==
  /\ SeenNext \in [Node -> Node]
  /\ SeenPrev \in [Node -> Node]
  /\ SeenKey \in [Node -> Keys]
  /\ pc \in PCs
  /\ SeenCurr \in Node
  /\ tid \in Threads
  /\ k \in Keys
  /\ ret \in Threads \cup {NTHREADS}
  /\ pos \in Nat
  /\ asked \in [Threads -> Keys]

SeenWalk ==
  pc # "idle" =>
    /\ pos \in 1 .. Len(SeenOrder[Walked]) + 1
    /\ SeenCurr = Place(SeenOrder[Walked], Walked, pos)
    /\ pc \in {"enqueue", "enqueue_sleep"} => SeenHome[tid] = NoQueue
    /\ pc \in {"find", "unfind"} =>
         /\ SeenHome[tid] = Walked
         /\ \A i \in 1 .. pos - 1 : SeenOrder[Walked][i] # tid

SeenKeys ==
  /\ \A t \in Threads : SeenHome[t] = ready_list => SeenKey[t] = priority
  /\ pc = "enqueue" => k = priority

SeenQueued == Queued(SeenNext, SeenPrev, SeenHome, SeenOrder)

LEMMA BaseNow ==
  Base!IInv <=> SeenTypes /\ SeenWalk /\ SeenKeys /\ SeenQueued
BY DEF Base!IInv, Base!TypeOK, Base!Rings, Base!RingOf, Base!Place, Base!OneQueueEach,
   Base!WalkInQueue, Base!Walked, Base!ReadyKeys, Base!Node, Base!Threads, Base!Queues,
   Base!Keys, Base!PCs, Base!NoQueue, Base!priority, Base!ready_list, Base!sleep_list,
   SeenTypes, SeenWalk, SeenKeys, SeenQueued, Queued, RingOf, Place, Walked, Node, Threads,
   Queues, Keys, PCs, NoQueue, priority, ready_list, sleep_list

LEMMA BaseNext ==
  Base!IInv' <=> SeenTypes' /\ SeenWalk' /\ SeenKeys' /\ SeenQueued'
BY DEF Base!IInv, Base!TypeOK, Base!Rings, Base!RingOf, Base!Place, Base!OneQueueEach,
   Base!WalkInQueue, Base!Walked, Base!ReadyKeys, Base!Node, Base!Threads, Base!Queues,
   Base!Keys, Base!PCs, Base!NoQueue, Base!priority, Base!ready_list, Base!sleep_list,
   SeenTypes, SeenWalk, SeenKeys, SeenQueued, Queued, RingOf, Place, Walked, Node, Threads,
   Queues, Keys, PCs, NoQueue, priority, ready_list, sleep_list

LEMMA ClockFacts ==
  /\ Lost \notin Queues \cup {NoQueue}
  /\ ready_list = NTHREADS /\ ready_list # NULL
  /\ Threads \subseteq Node /\ NTHREADS \notin Threads
BY NTHREADSAssumption DEF Lost, Queues, NoQueue, ready_list, sleep_list, NULL, Threads, Node

LEMMA SeenOutside ==
  ASSUME hpc # "walk"
  PROVE  /\ SeenOrder = order
         /\ SeenHome = [t \in Threads |-> IF home[t] = Lost THEN NoQueue ELSE home[t]]
BY DEF SeenOrder, SeenHome, InHand

LEMMA SeenOutsideNext ==
  ASSUME hpc' # "walk"
  PROVE  /\ SeenOrder' = order'
         /\ SeenHome' = [t \in Threads |-> IF home'[t] = Lost THEN NoQueue ELSE home'[t]]
BY DEF SeenOrder, SeenHome, InHand

\* With no block under way what is seen is what is there.
LEMMA SeenIsNow ==
  ASSUME todo = <<>>
  PROVE  SeenNext = qnext /\ SeenPrev = qprev /\ SeenKey = key /\ SeenCurr = curr
<1>1. SeenMemory = Memory
  BY DEF SeenMemory, Do6
<1> QED BY <1>1 DEF SeenNext, SeenPrev, SeenKey, SeenCurr, Memory

LEMMA SeenIsNext ==
  ASSUME todo' = <<>>
  PROVE  SeenNext' = qnext' /\ SeenPrev' = qprev' /\ SeenKey' = key' /\ SeenCurr' = curr'
<1>1. SeenMemory' = Memory'
  BY DEF SeenMemory, Do6
<1> QED BY <1>1 DEF SeenNext, SeenPrev, SeenKey, SeenCurr, Memory

LEMMA SeenSame ==
  ASSUME SeenMemory' = SeenMemory
  PROVE  /\ SeenNext' = SeenNext /\ SeenPrev' = SeenPrev
         /\ SeenKey' = SeenKey /\ SeenCurr' = SeenCurr
BY DEF SeenNext, SeenPrev, SeenKey, SeenCurr

\* A step that Base does not see.
LEMMA Unseen ==
  ASSUME Base!IInv, SeenMemory' = SeenMemory, SeenOrder' = SeenOrder, SeenHome' = SeenHome,
         UNCHANGED <<pc, tid, k, ret, pos, asked>>
  PROVE  Base!IInv'
<1>1. /\ SeenNext' = SeenNext /\ SeenPrev' = SeenPrev
      /\ SeenKey' = SeenKey /\ SeenCurr' = SeenCurr
  BY SeenSame
<1>2. SeenTypes /\ SeenWalk /\ SeenKeys /\ SeenQueued
  BY BaseNow
<1>3. SeenTypes'
  BY <1>1, <1>2 DEF SeenTypes
<1>4. SeenWalk'
  BY <1>1, <1>2 DEF SeenWalk, Walked
<1>5. SeenKeys' /\ SeenQueued'
  BY <1>1, <1>2 DEF SeenKeys, SeenQueued
<1> QED BY <1>3, <1>4, <1>5, BaseNext

LEMMA AwaySame ==
  ASSUME SeenHome' = SeenHome
  PROVE  Away' = Away
BY DEF Away

\* The memory is that of functions on the elements.
LEMMA MemoryIs ==
  ASSUME qnext \in [Node -> Node], qprev \in [Node -> Node], key \in [Node -> Keys]
  PROVE  IsMem(Memory)
BY DEF IsMem, Memory, Mem, OnNodes

LEMMA MemoryIsNext ==
  ASSUME qnext' \in [Node -> Node], qprev' \in [Node -> Node], key' \in [Node -> Keys]
  PROVE  IsMem(Memory)'
BY DEF IsMem, Memory, Mem, OnNodes

\* No block is under way, nor begun.
LEMMA NoBlock ==
  ASSUME BlockInv, todo = <<>>, UNCHANGED block,
         qnext' \in [Node -> Node], qprev' \in [Node -> Node], key' \in [Node -> Keys]
  PROVE  BlockInv'
<1>1. todo' = <<>> /\ linking' = NoQueue /\ NoQueue # ready_list /\ NoQueue # sleep_list
  BY QueueFacts DEF BlockInv, block
<1>2. todo' \in Seq(Assignments) /\ Len(todo') <= 6
  BY <1>1
<1> QED BY <1>1, <1>2, MemoryIsNext DEF BlockInv

\* The links, keys and curr_thread that a block leads to are those of a step
\* of Base if it comes to them from where it begins.
LEMMA BlockSeen ==
  ASSUME todo = <<>>, UNCHANGED links,
         NEW qn, NEW qp, NEW ky, NEW c,
         Do6(todo', Mem(qnext, qprev, key, curr')) = Mem(qn, qp, ky, c)
  PROVE  SeenNext' = qn /\ SeenPrev' = qp /\ SeenKey' = ky /\ SeenCurr' = c
<1>1. Memory' = Mem(qnext, qprev, key, curr')
  BY DEF Memory, Mem, links
<1>2. SeenMemory' = Do6(todo', Memory')
  BY DEF SeenMemory
<1>3. SeenMemory' = Mem(qn, qp, ky, c)
  BY <1>1, <1>2
<1> QED BY <1>3 DEF SeenNext, SeenPrev, SeenKey, SeenCurr, Mem

-----------------------------------------------------------------------------
(***************************************************************************)
(* The steps of ThreadQueue                                                *)
(***************************************************************************)

\* The sleep list begins as the ready list does only if its root is linked.
LEMMA ClockInitInvariant ==
  ASSUME SleepRootLinked, ClockInit
  PROVE  ClockInv
<1>1. /\ hpc = "out" /\ pc = "idle" /\ head = 0 /\ hcurr = 0 /\ threadid = 0 /\ hkey = 0
      /\ home = [t \in Threads |-> NoQueue] /\ order = [q \in Queues |-> <<>>]
      /\ todo = <<>> /\ linking = NoQueue
  BY DEF ClockInit
<1>2. 0 \in Keys
  BY KeyModAssumption DEF Keys
<1>3. HandlerTypes
  <2>1. <<>> \in Seq(Threads)
    OBVIOUS
  <2> QED BY <1>1, <1>2, <2>1, QueueFacts DEF HandlerTypes
<1>4. SeenOrder = order /\ SeenHome = [t \in Threads |-> NoQueue]
  BY <1>1, SeenOutside, ClockFacts
<1>5. SeenNext = qnext /\ SeenPrev = qprev /\ SeenKey = key /\ SeenCurr = curr
  BY <1>1, SeenIsNow
<1>6. Base!Init
  BY <1>4, <1>5 DEF ClockInit, Base!Init, Base!Node, Base!Threads, Base!Queues, Base!NoQueue,
     Base!NULL, Base!ready_list, Base!sleep_list, Node, Threads, Queues, NoQueue, NULL,
     ready_list, sleep_list
<1>7. Base!IInv
  BY <1>6, Base!InitInvariant, NTHREADSAssumption, KeyModAssumption, DelaysAssumption
  DEF Keys, Base!Keys
<1>8. BlockInv
  <2>1. todo \in Seq(Assignments) /\ Len(todo) <= 6
    BY <1>1
  <2>2. qnext \in [Node -> Node] /\ qprev \in [Node -> Node] /\ key \in [Node -> Keys]
    BY <1>5, <1>7, BaseNow DEF SeenTypes
  <2> QED BY <1>1, <2>1, <2>2, MemoryIs, QueueFacts DEF BlockInv
<1> QED BY <1>1, <1>3, <1>7, <1>8 DEF ClockInv, LoopHarmless, WalkOnReady

\* What a step does to the homes it does to the homes as Base sees them.
LEMMA HomesSeen ==
  ASSUME HandlerTypes, hpc = "out", hpc' = "out",
         NEW e \in Threads, NEW v \in Queues \cup {NoQueue},
         home' = [home EXCEPT ![e] = v]
  PROVE  /\ SeenHome' = [SeenHome EXCEPT ![e] = v]
         /\ home' \in [Threads -> Queues \cup {NoQueue, Lost}]
<1>1. SeenHome = [t \in Threads |-> IF home[t] = Lost THEN NoQueue ELSE home[t]]
  BY SeenOutside
<1>2. SeenHome' = [t \in Threads |-> IF home'[t] = Lost THEN NoQueue ELSE home'[t]]
  BY SeenOutsideNext
<1>3. home \in [Threads -> Queues \cup {NoQueue, Lost}]
  BY DEF HandlerTypes
<1>4. home' \in [Threads -> Queues \cup {NoQueue, Lost}]
  BY <1>3
<1>5. \A t \in Threads : home'[t] = IF t = e THEN v ELSE home[t]
  BY <1>3
<1>6. v # Lost
  BY ClockFacts
<1>7. \A t \in Threads : SeenHome'[t] = IF t = e THEN v ELSE SeenHome[t]
  BY <1>1, <1>2, <1>5, <1>6
<1> QED BY <1>1, <1>2, <1>4, <1>7

LEMMA HomesSame ==
  ASSUME HandlerTypes, hpc = "out", hpc' = "out", home' = home
  PROVE  /\ SeenHome' = SeenHome
         /\ home' \in [Threads -> Queues \cup {NoQueue, Lost}]
BY SeenOutside, SeenOutsideNext DEF HandlerTypes

LEMMA HomeSeen ==
  ASSUME HandlerTypes, hpc = "out", NEW t \in Threads, home[t] \in Queues \cup {NoQueue}
  PROVE  SeenHome[t] = home[t]
BY SeenOutside, ClockFacts DEF HandlerTypes

\* A call that begins, or makes a turn of its loop.
LEMMA MovesSeen ==
  ASSUME ClockInv, hpc = "out", hpc' = "out", Moves
  PROVE  /\ Base!Next
         /\ home' \in [Threads -> Queues \cup {NoQueue, Lost}]
         /\ todo = <<>> /\ UNCHANGED <<links, block>>
<1>1. /\ HandlerTypes /\ SeenOrder = order /\ SeenOrder' = order'
      /\ todo = <<>> /\ todo' = <<>> /\ UNCHANGED block
  BY SeenOutside, SeenOutsideNext DEF ClockInv, Moves, block
<1>2. /\ SeenNext = qnext /\ SeenPrev = qprev /\ SeenKey = key /\ SeenCurr = curr
      /\ SeenNext' = qnext' /\ SeenPrev' = qprev' /\ SeenKey' = key' /\ SeenCurr' = curr'
  BY <1>1, SeenIsNow, SeenIsNext
<1>3. \/ \E t \in Users : EnqueueCall(t) \/ UnsleepCall(t)
      \/ \E t \in Users, d \in Delays : SleepCall(t, d)
      \/ DequeueEmpty
      \/ Walk
  BY DEF Moves
<1>4. home' = home /\ order' = order /\ UNCHANGED links
  BY <1>3 DEF EnqueueCall, UnsleepCall, SleepCall, DequeueEmpty, Walk, EnqueueWalk,
     SleepFindWalk, EnqueueSleepWalk, UnsleepFindWalk, history
<1>5. SeenHome' = SeenHome /\ home' \in [Threads -> Queues \cup {NoQueue, Lost}]
  BY <1>1, <1>4, HomesSame
<1> USE DEF Base!links, links, Base!locals, locals, Base!history, history,
      Base!ready_list, ready_list, Base!sleep_list, sleep_list
<1>6. ASSUME NEW t \in Users, EnqueueCall(t)
      PROVE  Base!EnqueueCall(t)
  <2>1. SeenHome[t] = NoQueue
    BY <1>1, <1>6, ClockAssumption, HomeSeen DEF EnqueueCall
  <2> QED BY <1>1, <1>2, <1>5, <1>6, <2>1
     DEF EnqueueCall, Base!EnqueueCall, Base!NoQueue, NoQueue, Base!priority, priority
<1>7. ASSUME NEW t \in Users, UnsleepCall(t)
      PROVE  Base!UnsleepCall(t)
  <2>1. SeenHome[t] = sleep_list
    BY <1>1, <1>7, ClockAssumption, HomeSeen, QueueFacts DEF UnsleepCall
  <2> QED BY <1>1, <1>2, <1>5, <1>7, <2>1 DEF UnsleepCall, Base!UnsleepCall
<1>8. ASSUME NEW t \in Users, NEW d \in Delays, SleepCall(t, d)
      PROVE  Base!SleepCall(t, d)
  <2>1. SeenHome[t] = ready_list
    BY <1>1, <1>8, ClockAssumption, HomeSeen, QueueFacts DEF SleepCall
  <2> QED BY <1>1, <1>2, <1>5, <1>8, <2>1 DEF SleepCall, Base!SleepCall
<1>9. DequeueEmpty => Base!DequeueEmpty
  BY <1>1, <1>2, <1>5 DEF DequeueEmpty, Base!DequeueEmpty
<1>10. EnqueueWalk => Base!EnqueueWalk
  BY <1>1, <1>2, <1>5 DEF EnqueueWalk, Base!EnqueueWalk, EnqueuePasses, Base!EnqueuePasses
<1>11. SleepFindWalk => Base!SleepFindWalk
  BY <1>1, <1>2, <1>5 DEF SleepFindWalk, Base!SleepFindWalk, FindStops, Base!FindStops
<1>12. EnqueueSleepWalk => Base!EnqueueSleepWalk
  BY <1>1, <1>2, <1>5
  DEF EnqueueSleepWalk, Base!EnqueueSleepWalk, EnqueueSleepPasses, Base!EnqueueSleepPasses
<1>13. UnsleepFindWalk => Base!UnsleepFindWalk
  BY <1>1, <1>2, <1>5 DEF UnsleepFindWalk, Base!UnsleepFindWalk, FindStops, Base!FindStops
<1>14. Users \subseteq Threads
  BY ClockAssumption
<1>15. Base!Next
  BY <1>3, <1>6, <1>7, <1>8, <1>9, <1>10, <1>11, <1>12, <1>13, <1>14
  DEF Walk, Base!Walk, Base!Next, Base!Caller, Base!Progress, Base!Threads, Threads
<1> QED BY <1>1, <1>4, <1>5, <1>15

\* An assignment of a block is what Base has already seen.
LEMMA RunIsMem ==
  ASSUME NEW a \in Assignments, NEW m, IsMem(m)
  PROVE  IsMem(Run(a, m))
<1> DEFINE qn == m.qnext
           qp == m.qprev
           ky == m.key
           c == m.curr
<1>1. m = Mem(qn, qp, ky, c) /\ OnNodes(qn) /\ OnNodes(qp) /\ OnNodes(ky)
  BY DEF IsMem
<1> HIDE DEF qn, qp, ky, c
<1>2. a.field \in Fields
  BY DEF Assignments
<1> DEFINE qn2 == IF a.field = "qnext" THEN Put(qn, a.at, a.is) ELSE qn
           qp2 == IF a.field = "qprev" THEN Put(qp, a.at, a.is) ELSE qp
           ky2 == CASE a.field = "key"  -> KeySet(ky, a.at, a.is)
                    [] a.field = "take" -> KeyTake(ky, qn[a.at], a.is)
                    [] a.field = "give" -> KeyGive(ky, a.at, ky[a.is])
                    [] OTHER            -> ky
           c2 == IF a.field = "curr" THEN qn[a.at] ELSE c
<1>3. Run(a, Mem(qn, qp, ky, c)) = Mem(qn2, qp2, ky2, c2)
  BY <1>2, RunIs
<1>4. OnNodes(qn2) /\ OnNodes(qp2)
  BY <1>1 DEF OnNodes, Put
<1>5. OnNodes(ky2)
  BY <1>1, <1>2 DEF OnNodes, KeySet, KeyTake, KeyGive, Fields
<1> HIDE DEF qn2, qp2, ky2, c2
<1>6. IsMem(Mem(qn2, qp2, ky2, c2))
  BY <1>4, <1>5 DEF IsMem, Mem
<1> QED BY <1>1, <1>3, <1>6

LEMMA StatementSeen ==
  ASSUME ClockInv, hpc = "out", hpc' = "out", Statement
  PROVE  Base!IInv' /\ BlockInv' /\ SeenMemory' = SeenMemory
<1> DEFINE m == Run(Head(todo), Memory)
<1>1. /\ todo # <<>> /\ todo' = Tail(todo)
      /\ qnext' = m.qnext /\ qprev' = m.qprev /\ key' = m.key /\ curr' = m.curr
      /\ linking' = IF Tail(todo) = <<>> THEN NoQueue ELSE linking
      /\ UNCHANGED <<home, pc, tid, k, ret, order, pos, asked>>
  BY DEF Statement, history
<1>2. /\ todo \in Seq(Assignments) /\ Len(todo) <= 6 /\ IsMem(Memory)
      /\ linking \in {NoQueue, ready_list, sleep_list}
      /\ linking = NoQueue <=> todo = <<>>
      /\ linking = ready_list => Quiet(todo, Away)
      /\ Base!IInv
  BY DEF ClockInv, BlockInv
<1>3. Head(todo) \in Assignments /\ Tail(todo) \in Seq(Assignments) /\ Len(Tail(todo)) <= 6
  BY <1>1, <1>2
<1>4. IsMem(m)
  BY <1>2, <1>3, RunIsMem
<1> HIDE DEF m
<1>5. Memory' = m
  BY <1>1, <1>4 DEF Memory, IsMem, Mem
<1>6. SeenMemory' = SeenMemory
  <2>1. SeenMemory' = Do6(Tail(todo), m)
    BY <1>1, <1>5 DEF SeenMemory
  <2>2. Do6(Tail(todo), Run(Head(todo), Memory)) = Do6(todo, Memory)
    BY <1>1, <1>2, ShiftDoes
  <2> QED BY <2>1, <2>2 DEF SeenMemory, m
<1>7. SeenOrder' = SeenOrder /\ SeenHome' = SeenHome
  BY <1>1, SeenOutside, SeenOutsideNext
<1>8. Base!IInv'
  BY <1>1, <1>2, <1>6, <1>7, Unseen
<1>9. BlockInv'
  <2>1. linking = ready_list => Quiet(Tail(todo), Away)
    BY <1>1, <1>2, QuietTail
  <2>2. NoQueue # ready_list /\ NoQueue # sleep_list
    BY QueueFacts
  <2>3. Away' = Away
    BY <1>7, AwaySame
  <2>4. IsMem(Memory)'
    BY <1>4, <1>5
  <2> QED BY <1>1, <1>2, <1>3, <2>1, <2>2, <2>3, <2>4 DEF BlockInv
<1> QED BY <1>6, <1>8, <1>9

\* The elements of the ready list and their neighbours are no sleepers.
LEMMA ReadyAway ==
  ASSUME SeenQueued, NEW i \in 1 .. Len(SeenOrder[ready_list]) + 1,
         NEW n, n = Place(SeenOrder[ready_list], ready_list, i)
  PROVE  n \in Away /\ SeenNext[n] \in Away /\ SeenPrev[n] \in Away
<1> DEFINE s == SeenOrder[ready_list]
           P(j) == Place(s, ready_list, j)
<1>1. /\ Len(s) \in Nat
      /\ \A j \in 1 .. Len(s) + 1 : P(j) = ready_list \/ (P(j) \in Threads /\ SeenHome[P(j)] = ready_list)
      /\ P(Len(s) + 1) = ready_list /\ P(0) = ready_list
  <2>1. Len(s) + 1 \notin 1 .. Len(s) /\ 0 \notin 1 .. Len(s) /\ Len(s) \in Nat
    BY WalkMoves, QueueFacts DEF SeenQueued
  <2>2. \A j \in 1 .. Len(s) + 1 : P(j) = ready_list \/ (P(j) \in Threads /\ SeenHome[P(j)] = ready_list)
    BY WalkMoves, QueueFacts DEF SeenQueued
  <2> QED BY <2>1, <2>2 DEF Place
<1>2. RingOf(SeenNext, SeenPrev, s, ready_list)
  BY QueueFacts DEF SeenQueued, Queued
<1>3. \A j \in 0 .. Len(s) : SeenNext[P(j)] = P(j + 1) /\ SeenPrev[P(j + 1)] = P(j)
  BY <1>2 DEF RingOf
<1>4. n = P(i)
  OBVIOUS
<1> HIDE DEF P, s
<1>5. \A j \in 0 .. Len(s) + 1 : P(j) \in Away
  BY <1>1, QueueFacts DEF Away
<1>6. SeenPrev[n] \in Away
  <2>1. i - 1 \in 0 .. Len(s) /\ (i - 1) + 1 = i /\ i - 1 \in 0 .. Len(s) + 1
    BY <1>1 DEF s
  <2> QED BY <1>3, <1>4, <1>5, <2>1
<1>7. SeenNext[n] \in Away
  <2>1. CASE i \in 1 .. Len(s)
    <3>1. i \in 0 .. Len(s) /\ i + 1 \in 0 .. Len(s) + 1
      BY <1>1, <2>1
    <3> QED BY <1>3, <1>4, <1>5, <3>1
  <2>2. CASE i = Len(s) + 1
    <3>1. n = P(0) /\ 0 \in 0 .. Len(s) /\ 0 + 1 \in 0 .. Len(s) + 1
      BY <1>1, <1>4, <2>2
    <3> QED BY <1>3, <1>5, <3>1
  <2> QED BY <1>1, <2>1, <2>2 DEF s
<1>8. n \in Away
  <2>1. i \in 0 .. Len(s) + 1
    BY <1>1 DEF s
  <2> QED BY <1>4, <1>5, <2>1
<1> QED BY <1>6, <1>7, <1>8

\* A thread that comes into no queue, or into the ready list, makes none a sleeper.
LEMMA AwayGrows ==
  ASSUME NEW e \in Threads, NEW v, v # sleep_list, SeenHome' = [SeenHome EXCEPT ![e] = v],
         SeenHome \in [Threads -> Queues \cup {NoQueue}]
  PROVE  \A n \in Away \cup {e} : n \in Away'
BY QueueFacts DEF Away

LEMMA AreAssignments ==
  ASSUME NEW f \in Fields, NEW n \in Node, NEW v \in Nat
  PROVE  /\ Assign(f, n, v) \in Assignments
         /\ \A A : n \in A /\ f \in {"qnext", "qprev", "key"} => Leaves(Assign(f, n, v), A)
         /\ \A A : f = "curr" => Leaves(Assign(f, n, v), A)
BY DEF Assign, Assignments, Leaves

LEMMA QuietFour ==
  ASSUME NEW A, NEW a \in Assignments, NEW b \in Assignments, NEW c \in Assignments,
         NEW d \in Assignments
  PROVE  /\ <<a, b, c, d>> \in Seq(Assignments) /\ Len(<<a, b, c, d>>) = 4
         /\ Leaves(a, A) /\ Leaves(b, A) /\ Leaves(c, A) /\ Leaves(d, A)
              => Quiet(<<a, b, c, d>>, A)
<1> DEFINE s == <<a, b, c, d>>
<1>1. s \in Seq(Assignments) /\ Len(s) = 4 /\ s[1] = a /\ s[2] = b /\ s[3] = c /\ s[4] = d
  OBVIOUS
<1> HIDE DEF s
<1>2. \A i \in 1 .. 4 : i = 1 \/ i = 2 \/ i = 3 \/ i = 4
  OBVIOUS
<1>3. Leaves(a, A) /\ Leaves(b, A) /\ Leaves(c, A) /\ Leaves(d, A) => Quiet(s, A)
  BY <1>1, <1>2 DEF Quiet
<1> QED BY <1>1, <1>3 DEF s

LEMMA QuietFive ==
  ASSUME NEW A, NEW a \in Assignments, NEW b \in Assignments, NEW c \in Assignments,
         NEW d \in Assignments, NEW e \in Assignments
  PROVE  /\ <<a, b, c, d, e>> \in Seq(Assignments) /\ Len(<<a, b, c, d, e>>) = 5
         /\ Leaves(a, A) /\ Leaves(b, A) /\ Leaves(c, A) /\ Leaves(d, A) /\ Leaves(e, A)
              => Quiet(<<a, b, c, d, e>>, A)
<1> DEFINE s == <<a, b, c, d, e>>
<1>1. /\ s \in Seq(Assignments) /\ Len(s) = 5 /\ s[1] = a /\ s[2] = b /\ s[3] = c /\ s[4] = d
      /\ s[5] = e
  OBVIOUS
<1> HIDE DEF s
<1>2. \A i \in 1 .. 5 : i = 1 \/ i = 2 \/ i = 3 \/ i = 4 \/ i = 5
  OBVIOUS
<1>3. Leaves(a, A) /\ Leaves(b, A) /\ Leaves(c, A) /\ Leaves(d, A) /\ Leaves(e, A) => Quiet(s, A)
  BY <1>1, <1>2 DEF Quiet
<1> QED BY <1>1, <1>3 DEF s

LEMMA QuietSix ==
  ASSUME NEW A, NEW a \in Assignments, NEW b \in Assignments, NEW c \in Assignments,
         NEW d \in Assignments, NEW e \in Assignments, NEW f \in Assignments
  PROVE  /\ <<a, b, c, d, e, f>> \in Seq(Assignments) /\ Len(<<a, b, c, d, e, f>>) = 6
         /\ (Leaves(a, A) /\ Leaves(b, A) /\ Leaves(c, A) /\ Leaves(d, A) /\ Leaves(e, A)
               /\ Leaves(f, A)) => Quiet(<<a, b, c, d, e, f>>, A)
<1> DEFINE s == <<a, b, c, d, e, f>>
<1>1. /\ s \in Seq(Assignments) /\ Len(s) = 6 /\ s[1] = a /\ s[2] = b /\ s[3] = c /\ s[4] = d
      /\ s[5] = e /\ s[6] = f
  OBVIOUS
<1> HIDE DEF s
<1>2. \A i \in 1 .. 6 : i = 1 \/ i = 2 \/ i = 3 \/ i = 4 \/ i = 5 \/ i = 6
  OBVIOUS
<1>3. ASSUME Leaves(a, A), Leaves(b, A), Leaves(c, A), Leaves(d, A), Leaves(e, A), Leaves(f, A)
      PROVE  Quiet(s, A)
  <2>1. \A i \in 1 .. 6 : Leaves(s[i], A)
    BY <1>1, <1>2, <1>3
  <2> QED BY <1>1, <2>1 DEF Quiet
<1>4. s \in Seq(Assignments) /\ Len(s) = 6
  BY <1>1
<1> QED BY <1>3, <1>4, Zenon DEF s

\* The blocks are made of assignments, and of elements of A if what they change is.
LEMMA LinkingIs ==
  ASSUME NEW queue \in Queues, curr \in Node, tid \in Threads, k \in Keys,
         qprev \in [Node -> Node], NEW A
  PROVE  /\ Linking(queue, <<>>) \in Seq(Assignments) /\ Len(Linking(queue, <<>>)) \in 1 .. 6
         /\ queue \in A /\ curr \in A /\ tid \in A /\ qprev[curr] \in A /\ qprev[queue] \in A
              => Quiet(Linking(queue, <<>>), A)
<1>1. /\ Node \subseteq Nat /\ Keys \subseteq Nat /\ queue \in Node /\ tid \in Node
      /\ qprev[curr] \in Node /\ qprev[queue] \in Node
  BY QueueFacts, NTHREADSAssumption, KeyModAssumption
  DEF Node, Threads, Queues, Keys, ready_list, sleep_list
<1>2. {"qnext", "qprev", "key"} \subseteq Fields
  BY DEF Fields
<1> DEFINE P == queue \in A /\ curr \in A /\ tid \in A /\ qprev[curr] \in A /\ qprev[queue] \in A
<1>3. CASE curr # NULL
  <2> DEFINE a1 == Assign("qnext", qprev[curr], tid)
             a2 == Assign("qnext", tid, curr)
             a3 == Assign("qprev", tid, qprev[curr])
             a4 == Assign("qprev", curr, tid)
             a5 == Assign("key", tid, k)
  <2>1. Linking(queue, <<>>) = <<a1, a2, a3, a4>> \o <<>> \o <<a5>>
    BY <1>3 DEF Linking
  <2>2. /\ a1 \in Assignments /\ a2 \in Assignments /\ a3 \in Assignments /\ a4 \in Assignments
        /\ a5 \in Assignments
    BY <1>1, <1>2, AreAssignments
  <2>3. P => Leaves(a1, A) /\ Leaves(a2, A) /\ Leaves(a3, A) /\ Leaves(a4, A) /\ Leaves(a5, A)
    BY <1>1, <1>2, AreAssignments
  <2> HIDE DEF a1, a2, a3, a4, a5, P
  <2>4. <<a1, a2, a3, a4>> \o <<>> \o <<a5>> = <<a1, a2, a3, a4, a5>>
    <3>1. <<a1, a2, a3, a4>> \o <<>> = <<a1, a2, a3, a4>>
      OBVIOUS
    <3>2. <<a1, a2, a3, a4>> \o <<a5>> = <<a1, a2, a3, a4, a5>>
      BY JoinFive
    <3> QED BY <3>1, <3>2, Zenon
  <2>5. /\ <<a1, a2, a3, a4, a5>> \in Seq(Assignments) /\ Len(<<a1, a2, a3, a4, a5>>) = 5
        /\ P => Quiet(<<a1, a2, a3, a4, a5>>, A)
    BY <2>2, <2>3, QuietFive
  <2> DEFINE l == <<a1, a2, a3, a4, a5>>
  <2> HIDE DEF l
  <2>6. Linking(queue, <<>>) = l /\ l \in Seq(Assignments) /\ Len(l) \in 1 .. 6 /\ (P => Quiet(l, A))
    BY <2>1, <2>4, <2>5 DEF l
  <2> QED BY <2>6 DEF P
<1>4. CASE curr = NULL
  <2> DEFINE a1 == Assign("qnext", qprev[queue], tid)
             a2 == Assign("qprev", tid, qprev[queue])
             a3 == Assign("qnext", tid, queue)
             a4 == Assign("qprev", queue, tid)
             a5 == Assign("key", tid, k)
  <2>1. Linking(queue, <<>>) = <<a1, a2, a3, a4, a5>>
    BY <1>4 DEF Linking
  <2>2. /\ a1 \in Assignments /\ a2 \in Assignments /\ a3 \in Assignments /\ a4 \in Assignments
        /\ a5 \in Assignments
    BY <1>1, <1>2, AreAssignments
  <2>3. P => Leaves(a1, A) /\ Leaves(a2, A) /\ Leaves(a3, A) /\ Leaves(a4, A) /\ Leaves(a5, A)
    BY <1>1, <1>2, AreAssignments
  <2> HIDE DEF a1, a2, a3, a4, a5, P
  <2>4. /\ <<a1, a2, a3, a4, a5>> \in Seq(Assignments) /\ Len(<<a1, a2, a3, a4, a5>>) = 5
        /\ P => Quiet(<<a1, a2, a3, a4, a5>>, A)
    BY <2>2, <2>3, QuietFive
  <2> DEFINE l == <<a1, a2, a3, a4, a5>>
  <2> HIDE DEF l
  <2>5. Linking(queue, <<>>) = l /\ l \in Seq(Assignments) /\ Len(l) \in 1 .. 6 /\ (P => Quiet(l, A))
    BY <2>1, <2>4 DEF l
  <2> QED BY <2>5 DEF P
<1> QED BY <1>3, <1>4

LEMMA SleepLinkingIs ==
  ASSUME curr \in Node, curr # NULL, tid \in Threads, k \in Keys, qprev \in [Node -> Node]
  PROVE  LET l == Linking(sleep_list, << Assign("take", tid, k) >>) IN
         l \in Seq(Assignments) /\ Len(l) \in 1 .. 6
<1>1. Node \subseteq Nat /\ Keys \subseteq Nat /\ tid \in Node /\ qprev[curr] \in Node
  BY QueueFacts, NTHREADSAssumption, KeyModAssumption
  DEF Node, Threads, Queues, Keys, ready_list, sleep_list
<1>2. {"qnext", "qprev", "key", "take"} \subseteq Fields
  BY DEF Fields
<1> DEFINE a1 == Assign("qnext", qprev[curr], tid)
           a2 == Assign("qnext", tid, curr)
           a3 == Assign("qprev", tid, qprev[curr])
           a4 == Assign("qprev", curr, tid)
           a5 == Assign("take", tid, k)
           a6 == Assign("key", tid, k)
           l == <<a1, a2, a3, a4, a5, a6>>
<1>3. Linking(sleep_list, << Assign("take", tid, k) >>) = <<a1, a2, a3, a4>> \o <<a5>> \o <<a6>>
  BY DEF Linking
<1>4. /\ a1 \in Assignments /\ a2 \in Assignments /\ a3 \in Assignments /\ a4 \in Assignments
      /\ a5 \in Assignments /\ a6 \in Assignments
  BY <1>1, <1>2, AreAssignments
<1> HIDE DEF a1, a2, a3, a4, a5, a6
<1>5. <<a1, a2, a3, a4>> \o <<a5>> \o <<a6>> = l
  <2>1. <<a1, a2, a3, a4>> \o <<a5>> = <<a1, a2, a3, a4, a5>>
    BY JoinFive
  <2>2. <<a1, a2, a3, a4, a5>> \o <<a6>> = <<a1, a2, a3, a4, a5, a6>>
    BY JoinSix
  <2> QED BY <2>1, <2>2, Zenon
<1>6. l \in Seq(Assignments) /\ Len(l) = 6
  BY <1>4, QuietSix
<1> HIDE DEF l
<1>7. Linking(sleep_list, << Assign("take", tid, k) >>) = l
  BY <1>3, <1>5
<1>8. l \in Seq(Assignments) /\ Len(l) \in 1 .. 6
  BY <1>6
<1> QED BY <1>7, <1>8, Zenon

LEMMA DequeuingIs ==
  ASSUME qnext \in [Node -> Node], NEW A
  PROVE  /\ Dequeuing(ready_list) \in Seq(Assignments) /\ Len(Dequeuing(ready_list)) \in 1 .. 6
         /\ ready_list \in A /\ qnext[ready_list] \in A /\ qnext[qnext[ready_list]] \in A
              => Quiet(Dequeuing(ready_list), A)
<1> DEFINE first == qnext[ready_list]
           P == ready_list \in A /\ first \in A /\ qnext[first] \in A
           a1 == Assign("qnext", first, NULL)
           a2 == Assign("qprev", first, NULL)
           a3 == Assign("qnext", ready_list, qnext[first])
           a4 == Assign("qprev", qnext[first], ready_list)
<1>1. Dequeuing(ready_list) = <<a1, a2, a3, a4>>
  BY DEF Dequeuing
<1>2. /\ Node \subseteq Nat /\ NULL \in Nat /\ ready_list \in Node /\ first \in Node
      /\ qnext[first] \in Node
  BY QueueFacts, NTHREADSAssumption DEF Node, Threads, Queues, ready_list, sleep_list, NULL
<1>3. {"qnext", "qprev", "key"} \subseteq Fields
  BY DEF Fields
<1> HIDE DEF first
<1>4. a1 \in Assignments /\ a2 \in Assignments /\ a3 \in Assignments /\ a4 \in Assignments
  BY <1>2, <1>3, AreAssignments
<1>5. P => Leaves(a1, A) /\ Leaves(a2, A) /\ Leaves(a3, A) /\ Leaves(a4, A)
  BY <1>2, <1>3, AreAssignments
<1> HIDE DEF a1, a2, a3, a4, P
<1>6. /\ <<a1, a2, a3, a4>> \in Seq(Assignments) /\ Len(<<a1, a2, a3, a4>>) = 4
      /\ P => Quiet(<<a1, a2, a3, a4>>, A)
  BY <1>4, <1>5, QuietFour
<1> DEFINE l == <<a1, a2, a3, a4>>
<1> HIDE DEF l
<1>7. Dequeuing(ready_list) = l /\ l \in Seq(Assignments) /\ Len(l) \in 1 .. 6 /\ (P => Quiet(l, A))
  BY <1>1, <1>6 DEF l
<1> QED BY <1>7 DEF P, first

LEMMA UnlinkingIs ==
  ASSUME curr \in Node, tid \in Threads, k \in Keys,
         qnext \in [Node -> Node], qprev \in [Node -> Node], NEW A
  PROVE  LET u == Unlinking(curr)
             s == Unlinking(curr) \o << Assign("key", tid, k) >> \o Entering(sleep_list)
             w == << Assign("give", qnext[curr], curr) >> \o Unlinking(curr) \o Entering(ready_list)
         IN
         /\ u \in Seq(Assignments) /\ Len(u) \in 1 .. 6
         /\ s \in Seq(Assignments) /\ Len(s) \in 1 .. 6
         /\ w \in Seq(Assignments) /\ Len(w) \in 1 .. 6
         /\ curr \in A /\ tid \in A /\ qprev[curr] \in A /\ qnext[curr] \in A
              => Quiet(u, A) /\ Quiet(s, A)
<1> DEFINE P == curr \in A /\ tid \in A /\ qprev[curr] \in A /\ qnext[curr] \in A
           a1 == Assign("qnext", curr, NULL)
           a2 == Assign("qprev", curr, NULL)
           a3 == Assign("qnext", qprev[curr], qnext[curr])
           a4 == Assign("qprev", qnext[curr], qprev[curr])
           a5 == Assign("key", tid, k)
           a6 == Assign("curr", sleep_list, NULL)
           b1 == Assign("give", qnext[curr], curr)
           b6 == Assign("curr", ready_list, NULL)
<1>1. /\ Node \subseteq Nat /\ Keys \subseteq Nat /\ NULL \in Nat /\ NULL \in Node
      /\ ready_list \in Node /\ sleep_list \in Node /\ tid \in Node
      /\ qnext[curr] \in Node /\ qprev[curr] \in Node
  BY QueueFacts, NTHREADSAssumption, KeyModAssumption
  DEF Node, Threads, Queues, Keys, ready_list, sleep_list, NULL
<1>2. {"qnext", "qprev", "key", "give", "curr"} \subseteq Fields
  BY DEF Fields
<1>3. /\ Unlinking(curr) = <<a1, a2, a3, a4>>
      /\ Entering(sleep_list) = <<a6>> /\ Entering(ready_list) = <<b6>>
  BY DEF Unlinking, Entering
<1>4. /\ a1 \in Assignments /\ a2 \in Assignments /\ a3 \in Assignments /\ a4 \in Assignments
      /\ a5 \in Assignments /\ a6 \in Assignments /\ b1 \in Assignments /\ b6 \in Assignments
  BY <1>1, <1>2, AreAssignments
<1>5. P => /\ Leaves(a1, A) /\ Leaves(a2, A) /\ Leaves(a3, A) /\ Leaves(a4, A)
           /\ Leaves(a5, A)
  BY <1>1, <1>2, AreAssignments
<1>6. Leaves(a6, A)
  BY <1>1, <1>2, AreAssignments
<1>7. << Assign("key", tid, k) >> = <<a5>> /\ << Assign("give", qnext[curr], curr) >> = <<b1>>
  OBVIOUS
<1> HIDE DEF a1, a2, a3, a4, a5, a6, b1, b6, P
<1>8. /\ <<a1, a2, a3, a4>> \in Seq(Assignments) /\ Len(<<a1, a2, a3, a4>>) = 4
      /\ P => Quiet(<<a1, a2, a3, a4>>, A)
  BY <1>4, <1>5, QuietFour
<1>9. /\ <<a1, a2, a3, a4, a5, a6>> \in Seq(Assignments) /\ Len(<<a1, a2, a3, a4, a5, a6>>) = 6
      /\ P => Quiet(<<a1, a2, a3, a4, a5, a6>>, A)
  BY <1>4, <1>5, <1>6, QuietSix
<1>10. <<b1, a1, a2, a3, a4, b6>> \in Seq(Assignments) /\ Len(<<b1, a1, a2, a3, a4, b6>>) = 6
  BY <1>4, QuietSix
<1>11. <<a1, a2, a3, a4>> \o <<a5>> \o <<a6>> = <<a1, a2, a3, a4, a5, a6>>
  <2>1. <<a1, a2, a3, a4>> \o <<a5>> = <<a1, a2, a3, a4, a5>>
    BY JoinFive
  <2>2. <<a1, a2, a3, a4, a5>> \o <<a6>> = <<a1, a2, a3, a4, a5, a6>>
    BY JoinSix
  <2> QED BY <2>1, <2>2, Zenon
<1>12. <<b1>> \o <<a1, a2, a3, a4>> \o <<b6>> = <<b1, a1, a2, a3, a4, b6>>
  <2>1. <<b1>> \o <<a1, a2, a3, a4>> = <<b1, a1, a2, a3, a4>>
    BY JoinFront
  <2>2. <<b1, a1, a2, a3, a4>> \o <<b6>> = <<b1, a1, a2, a3, a4, b6>>
    BY JoinSix
  <2> QED BY <2>1, <2>2, Zenon
<1> DEFINE u == <<a1, a2, a3, a4>>
           s == <<a1, a2, a3, a4, a5, a6>>
           w == <<b1, a1, a2, a3, a4, b6>>
<1>13. /\ Unlinking(curr) = u
       /\ Unlinking(curr) \o << Assign("key", tid, k) >> \o Entering(sleep_list) = s
       /\ << Assign("give", qnext[curr], curr) >> \o Unlinking(curr) \o Entering(ready_list) = w
  BY <1>3, <1>7, <1>11, <1>12, Zenon
<1>14. /\ u \in Seq(Assignments) /\ Len(u) \in 1 .. 6 /\ (P => Quiet(u, A))
       /\ s \in Seq(Assignments) /\ Len(s) \in 1 .. 6 /\ (P => Quiet(s, A))
       /\ w \in Seq(Assignments) /\ Len(w) \in 1 .. 6
  BY <1>8, <1>9, <1>10
<1> HIDE DEF u, s, w
<1> QED BY <1>13, <1>14 DEF P

LEMMA OnReadyList ==
  ASSUME SeenQueued,
         NEW i \in 1 .. Len(SeenOrder[ready_list]) + 1,
         NEW n, n = Place(SeenOrder[ready_list], ready_list, i)
  PROVE  n = ready_list \/ (n \in Threads /\ SeenHome[n] = ready_list)
BY WalkMoves, QueueFacts DEF SeenQueued

LEMMA OneToSix == \A n \in 1 .. 6 : n \in Nat /\ n <= 6 /\ n # 0
OBVIOUS

\* A block is opened.
LEMMA BlockOpens ==
  ASSUME HandlerTypes, Base!IInv, todo = <<>>, UNCHANGED links, hpc' = "out",
         linking' \in Queues, todo' \in Seq(Assignments), Len(todo') \in 1 .. 6,
         linking' = ready_list => Quiet(todo', Away')
  PROVE  BlockInv'
<1>1. qnext' \in [Node -> Node] /\ qprev' \in [Node -> Node] /\ key' \in [Node -> Keys]
  BY BaseNow, SeenIsNow DEF SeenTypes, links
<1>2. Len(todo') <= 6 /\ Len(todo') # 0
  BY OneToSix, Zenon
<1>3. todo' # <<>>
  BY <1>2
<1>4. linking' \in {NoQueue, ready_list, sleep_list} /\ linking' # NoQueue
  BY QueueFacts DEF Queues
<1>5. IsMem(Memory)'
  BY <1>1, MemoryIsNext
<1> QED BY <1>2, <1>3, <1>4, <1>5 DEF BlockInv

\* What there is when a block is opened.
LEMMA BlockContext ==
  ASSUME ClockInv, hpc = "out", hpc' = "out", todo = <<>>
  PROVE  /\ HandlerTypes /\ SeenOrder = order /\ SeenOrder' = order' /\ Base!IInv
         /\ SeenNext = qnext /\ SeenPrev = qprev /\ SeenKey = key /\ SeenCurr = curr
         /\ SeenTypes /\ SeenWalk /\ SeenQueued
         /\ qnext \in [Node -> Node] /\ qprev \in [Node -> Node] /\ key \in [Node -> Keys]
         /\ curr \in Node /\ tid \in Threads /\ k \in Keys
         /\ SeenHome \in [Threads -> Queues \cup {NoQueue}]
<1>1. HandlerTypes /\ SeenOrder = order /\ SeenOrder' = order' /\ Base!IInv
  BY SeenOutside, SeenOutsideNext DEF ClockInv
<1>2. SeenNext = qnext /\ SeenPrev = qprev /\ SeenKey = key /\ SeenCurr = curr
  BY SeenIsNow
<1>3. SeenTypes /\ SeenWalk /\ SeenQueued
  BY <1>1, BaseNow
<1>4. /\ qnext \in [Node -> Node] /\ qprev \in [Node -> Node] /\ key \in [Node -> Keys]
      /\ curr \in Node /\ tid \in Threads /\ k \in Keys
  BY <1>2, <1>3 DEF SeenTypes
<1> QED BY <1>1, <1>2, <1>3, <1>4 DEF SeenQueued, Queued

LEMMA EnqueueBlock ==
  ASSUME ClockInv, hpc = "out", hpc' = "out",
         Block(EnqueueEnds, ready_list, Linking(ready_list, <<>>))
  PROVE  /\ Base!EnqueueLink /\ BlockInv'
         /\ home' \in [Threads -> Queues \cup {NoQueue, Lost}]
<1> DEFINE c == InsertBefore(ready_list, curr)
<1>1. /\ todo = <<>> /\ EnqueueEnds /\ todo' = Linking(ready_list, <<>>)
      /\ linking' = ready_list /\ UNCHANGED links
  BY DEF Block
<1>2. /\ HandlerTypes /\ SeenOrder = order /\ SeenOrder' = order' /\ Base!IInv
      /\ SeenNext = qnext /\ SeenPrev = qprev /\ SeenKey = key /\ SeenCurr = curr
      /\ SeenWalk /\ SeenQueued
      /\ qnext \in [Node -> Node] /\ qprev \in [Node -> Node] /\ key \in [Node -> Keys]
      /\ curr \in Node /\ tid \in Threads /\ k \in Keys
      /\ SeenHome \in [Threads -> Queues \cup {NoQueue}]
  BY <1>1, BlockContext
<1>3. /\ SeenHome' = [SeenHome EXCEPT ![tid] = ready_list]
      /\ home' \in [Threads -> Queues \cup {NoQueue, Lost}]
  BY <1>1, <1>2, HomesSeen, QueueFacts DEF EnqueueEnds
<1>4. /\ SeenNext' = InsertNext(qnext, qprev, tid, c) /\ SeenPrev' = InsertPrev(qprev, tid, c)
      /\ SeenKey' = KeySet(key, tid, k) /\ SeenCurr' = curr'
  <2>1. Do6(todo', Mem(qnext, qprev, key, curr')) =
          Mem(InsertNext(qnext, qprev, tid, c), InsertPrev(qprev, tid, c), KeySet(key, tid, k), curr')
    BY <1>1, LinkDoes
  <2> HIDE DEF c
  <2> QED BY <1>1, <2>1, BlockSeen
<1>5. Base!EnqueueLink
  BY <1>1, <1>2, <1>3, <1>4
  DEF EnqueueEnds, Base!EnqueueLink, Base!EnqueueEnds, EnqueuePasses, Base!EnqueuePasses,
      Returns, Base!Returns, Base!ready_list, ready_list, Base!NULL, NULL,
      Base!InsertBefore, InsertBefore, Base!InsertNext, InsertNext,
      Base!InsertPrev, InsertPrev, Base!KeySet, KeySet, Base!InsertAt, InsertAt
<1>6. BlockInv'
  <2>1. /\ todo' \in Seq(Assignments) /\ Len(todo') \in 1 .. 6
        /\ ready_list \in Away' /\ curr \in Away' /\ tid \in Away' /\ qprev[curr] \in Away'
             /\ qprev[ready_list] \in Away'
             => Quiet(todo', Away')
    BY <1>1, <1>2, LinkingIs, QueueFacts
  <2>2. PICK i \in 1 .. Len(SeenOrder[ready_list]) + 1 : curr = Place(SeenOrder[ready_list], ready_list, i)
    BY <1>1, <1>2 DEF SeenWalk, Walked, EnqueueEnds
  <2>3. curr \in Away /\ qprev[curr] \in Away
    BY <1>2, <2>2, ReadyAway
  <2>4. ready_list \in Away /\ qprev[ready_list] \in Away
    <3>1. /\ Len(SeenOrder[ready_list]) + 1 \in 1 .. Len(SeenOrder[ready_list]) + 1
          /\ ready_list = Place(SeenOrder[ready_list], ready_list, Len(SeenOrder[ready_list]) + 1)
      BY <1>2, WalkMoves, QueueFacts DEF SeenQueued, Place
    <3> QED BY <1>2, <3>1, ReadyAway
  <2>5. \A n \in Away \cup {tid} : n \in Away'
    BY <1>2, <1>3, AwayGrows, QueueFacts
  <2> QED BY <1>1, <1>2, <2>1, <2>3, <2>4, <2>5, BlockOpens, QueueFacts
<1> QED BY <1>3, <1>5, <1>6

LEMMA DequeueBlock ==
  ASSUME ClockInv, hpc = "out", hpc' = "out",
         Block(DequeueTakes, ready_list, Dequeuing(ready_list))
  PROVE  /\ Base!DequeueHead /\ BlockInv'
         /\ home' \in [Threads -> Queues \cup {NoQueue, Lost}]
<1> DEFINE s == SeenOrder[ready_list]
           first == qnext[ready_list]
<1>1. /\ todo = <<>> /\ DequeueTakes /\ todo' = Dequeuing(ready_list)
      /\ linking' = ready_list /\ UNCHANGED links /\ first # ready_list /\ curr' = curr
      /\ home' = [home EXCEPT ![first] = NoQueue]
  BY DEF Block, DequeueTakes, locals
<1>2. /\ HandlerTypes /\ SeenOrder = order /\ SeenOrder' = order' /\ Base!IInv
      /\ SeenNext = qnext /\ SeenPrev = qprev /\ SeenKey = key /\ SeenCurr = curr
      /\ SeenQueued
      /\ qnext \in [Node -> Node] /\ qprev \in [Node -> Node] /\ key \in [Node -> Keys]
      /\ SeenHome \in [Threads -> Queues \cup {NoQueue}]
  BY <1>1, BlockContext
<1>3. /\ Len(s) \in Nat /\ first = Place(s, ready_list, 1) /\ 1 \in 1 .. Len(s) + 1
      /\ ready_list = Place(s, ready_list, Len(s) + 1) /\ Len(s) + 1 \in 1 .. Len(s) + 1
      /\ first \in Threads
  <2>1. Len(s) \in Nat /\ first = Place(s, ready_list, 1)
    BY <1>2, WalkMoves, QueueFacts DEF SeenQueued
  <2>2. 1 \in 1 .. Len(s) + 1 /\ Len(s) + 1 \in 1 .. Len(s) + 1 /\ Len(s) + 1 \notin 1 .. Len(s)
    BY <2>1
  <2>3. first = ready_list \/ first \in Threads
    BY <1>2, <2>1, <2>2, OnReadyList DEF SeenQueued
  <2> QED BY <1>1, <2>1, <2>2, <2>3 DEF Place
<1>4. /\ SeenHome' = [SeenHome EXCEPT ![first] = NoQueue]
      /\ home' \in [Threads -> Queues \cup {NoQueue, Lost}]
  BY <1>1, <1>2, <1>3, HomesSeen
<1>5. /\ SeenNext' = DequeueNext(qnext, ready_list)
      /\ SeenPrev' = DequeuePrev(qnext, qprev, ready_list)
      /\ SeenKey' = key /\ SeenCurr' = curr
  <2>1. Do6(todo', Mem(qnext, qprev, key, curr')) =
          Mem(DequeueNext(qnext, ready_list), DequeuePrev(qnext, qprev, ready_list), key, curr')
    BY <1>1, DequeueDoes
  <2>2. SeenCurr' = curr'
    BY <1>1, <2>1, BlockSeen
  <2> QED BY <1>1, <2>1, <2>2, BlockSeen
<1>6. Base!DequeueHead
  BY <1>1, <1>2, <1>4, <1>5
  DEF DequeueTakes, Base!DequeueHead, Base!DequeueTakes, DequeueNext, Base!DequeueNext,
      DequeuePrev, Base!DequeuePrev, Base!NULL, NULL, Base!ready_list, ready_list,
      Base!NoQueue, NoQueue, locals, Base!locals
<1>7. BlockInv'
  <2>1. /\ todo' \in Seq(Assignments) /\ Len(todo') \in 1 .. 6
        /\ ready_list \in Away' /\ first \in Away' /\ qnext[first] \in Away'
             => Quiet(todo', Away')
    BY <1>1, <1>2, DequeuingIs
  <2>2. first \in Away /\ qnext[first] \in Away /\ ready_list \in Away
    BY <1>2, <1>3, ReadyAway
  <2>3. \A n \in Away \cup {first} : n \in Away'
    BY <1>2, <1>3, <1>4, AwayGrows, QueueFacts
  <2> QED BY <1>1, <1>2, <2>1, <2>2, <2>3, BlockOpens, QueueFacts
<1> QED BY <1>4, <1>6, <1>7

LEMMA SleepBlock ==
  ASSUME ClockInv, hpc = "out", hpc' = "out",
         \/ curr = NULL /\ Block(SleepFinds, ready_list, Unlinking(curr))
         \/ /\ curr # NULL /\ curr' = curr
            /\ Block(SleepFinds, ready_list,
                     Unlinking(curr) \o << Assign("key", tid, k) >> \o Entering(sleep_list))
  PROVE  /\ Base!SleepUnlink /\ BlockInv'
         /\ home' \in [Threads -> Queues \cup {NoQueue, Lost}]
<1> DEFINE u == Unlinking(curr)
           v == Unlinking(curr) \o << Assign("key", tid, k) >> \o Entering(sleep_list)
<1>1. /\ todo = <<>> /\ SleepFinds /\ todo' \in {u, v} /\ linking' = ready_list /\ UNCHANGED links
      /\ curr = NULL => todo' = u
      /\ curr # NULL => todo' = v
  BY DEF Block
<1>2. /\ HandlerTypes /\ SeenOrder = order /\ SeenOrder' = order' /\ Base!IInv
      /\ SeenNext = qnext /\ SeenPrev = qprev /\ SeenKey = key /\ SeenCurr = curr
      /\ SeenWalk /\ SeenQueued
      /\ qnext \in [Node -> Node] /\ qprev \in [Node -> Node] /\ key \in [Node -> Keys]
      /\ curr \in Node /\ tid \in Threads /\ k \in Keys
      /\ SeenHome \in [Threads -> Queues \cup {NoQueue}]
  BY <1>1, BlockContext
<1>3. /\ SeenHome' = [SeenHome EXCEPT ![tid] = NoQueue]
      /\ home' \in [Threads -> Queues \cup {NoQueue, Lost}]
  BY <1>1, <1>2, HomesSeen DEF SleepFinds
<1> DEFINE qn == UnlinkNext(qnext, qprev, curr)
           qp == UnlinkPrev(qnext, qprev, curr)
<1>4. curr = NULL => SeenNext' = qn /\ SeenPrev' = qp /\ SeenKey' = key /\ SeenCurr' = curr'
  <2> SUFFICES ASSUME curr = NULL
               PROVE  SeenNext' = qn /\ SeenPrev' = qp /\ SeenKey' = key /\ SeenCurr' = curr'
    OBVIOUS
  <2>1. Do6(todo', Mem(qnext, qprev, key, curr')) = Mem(qn, qp, key, curr')
    BY <1>1, UnlinkDoes
  <2> HIDE DEF qn, qp
  <2> QED BY <1>1, <2>1, BlockSeen
<1>5. curr # NULL => /\ SeenNext' = qn /\ SeenPrev' = qp
                     /\ SeenKey' = KeySet(key, tid, k) /\ SeenCurr' = qn[sleep_list]
  <2> SUFFICES ASSUME curr # NULL
               PROVE  /\ SeenNext' = qn /\ SeenPrev' = qp
                      /\ SeenKey' = KeySet(key, tid, k) /\ SeenCurr' = qn[sleep_list]
    OBVIOUS
  <2>1. Do6(todo', Mem(qnext, qprev, key, curr')) = Mem(qn, qp, KeySet(key, tid, k), qn[sleep_list])
    BY <1>1, SleepDoes
  <2> HIDE DEF qn, qp
  <2> QED BY <1>1, <2>1, BlockSeen
<1>6. Base!SleepUnlink
  <2>1. Base!UnlinkNext(SeenNext, SeenPrev, SeenCurr) = qn /\ Base!UnlinkPrev(SeenNext, SeenPrev, SeenCurr) = qp
    BY <1>2 DEF UnlinkNext, UnlinkPrev, Base!UnlinkNext, Base!UnlinkPrev, NULL, Base!NULL
  <2>2. Base!SleepFinds
    BY <1>1, <1>2, <1>3, <1>4
    DEF SleepFinds, Base!SleepFinds, FindStops, Base!FindStops, Returns, Base!Returns,
        Base!ready_list, ready_list, Base!NoQueue, NoQueue, Base!NULL, NULL,
        Base!RemoveAt, RemoveAt
  <2> HIDE DEF qn, qp
  <2> QED BY <1>2, <1>4, <1>5, <2>1, <2>2
     DEF Base!SleepUnlink, Base!KeySet, KeySet, Base!sleep_list, sleep_list, Base!NULL, NULL
<1>7. BlockInv'
  <2>1. /\ todo' \in Seq(Assignments) /\ Len(todo') \in 1 .. 6
        /\ curr \in Away' /\ tid \in Away' /\ qprev[curr] \in Away' /\ qnext[curr] \in Away'
             => Quiet(todo', Away')
    <3>1. /\ u \in Seq(Assignments) /\ Len(u) \in 1 .. 6
          /\ v \in Seq(Assignments) /\ Len(v) \in 1 .. 6
      BY <1>2, UnlinkingIs
    <3>2. curr \in Away' /\ tid \in Away' /\ qprev[curr] \in Away' /\ qnext[curr] \in Away'
             => Quiet(u, Away') /\ Quiet(v, Away')
      BY <1>2, UnlinkingIs
    <3> HIDE DEF u, v
    <3> QED BY <1>1, <3>1, <3>2
  <2>2. PICK i \in 1 .. Len(SeenOrder[ready_list]) + 1 : curr = Place(SeenOrder[ready_list], ready_list, i)
    BY <1>1, <1>2 DEF SeenWalk, Walked, SleepFinds
  <2>3. curr \in Away /\ qprev[curr] \in Away /\ qnext[curr] \in Away
    BY <1>2, <2>2, ReadyAway
  <2>4. \A n \in Away \cup {tid} : n \in Away'
    BY <1>2, <1>3, AwayGrows, QueueFacts
  <2> QED BY <1>1, <1>2, <2>1, <2>3, <2>4, BlockOpens, QueueFacts
<1> QED BY <1>3, <1>6, <1>7

LEMMA SleepLinkBlock ==
  ASSUME ClockInv, hpc = "out", hpc' = "out",
         Block(EnqueueSleepEnds, sleep_list, Linking(sleep_list, << Assign("take", tid, k) >>))
  PROVE  /\ Base!EnqueueSleepLink /\ BlockInv'
         /\ home' \in [Threads -> Queues \cup {NoQueue, Lost}]
<1> DEFINE c == InsertBefore(sleep_list, curr)
           ky == IF curr # NULL THEN KeyTake(key, curr, k) ELSE key
           l == Linking(sleep_list, << Assign("take", tid, k) >>)
<1>1. /\ todo = <<>> /\ EnqueueSleepEnds /\ todo' = l
      /\ linking' = sleep_list /\ UNCHANGED links
  BY DEF Block
<1>2. /\ HandlerTypes /\ SeenOrder = order /\ SeenOrder' = order' /\ Base!IInv
      /\ SeenNext = qnext /\ SeenPrev = qprev /\ SeenKey = key /\ SeenCurr = curr
      /\ SeenWalk /\ SeenQueued
      /\ qnext \in [Node -> Node] /\ qprev \in [Node -> Node] /\ key \in [Node -> Keys]
      /\ curr \in Node /\ tid \in Threads /\ k \in Keys
      /\ SeenHome \in [Threads -> Queues \cup {NoQueue}]
  BY <1>1, BlockContext
<1>3. /\ SeenHome' = [SeenHome EXCEPT ![tid] = sleep_list]
      /\ home' \in [Threads -> Queues \cup {NoQueue, Lost}]
  BY <1>1, <1>2, HomesSeen, QueueFacts DEF EnqueueSleepEnds
<1>4. curr # tid
  <2>1. /\ pc = "enqueue_sleep" /\ Walked = sleep_list
    BY <1>1 DEF EnqueueSleepEnds, Walked
  <2>2. /\ SeenHome[tid] = NoQueue
        /\ pos \in 1 .. Len(SeenOrder[sleep_list]) + 1
        /\ curr = Place(SeenOrder[sleep_list], sleep_list, pos)
    BY <1>2, <2>1 DEF SeenWalk
  <2>3. curr = sleep_list \/ SeenHome[curr] = sleep_list
    BY <1>2, <2>2, WalkMoves, QueueFacts DEF SeenQueued
  <2> QED BY <1>2, <2>2, <2>3, QueueFacts
<1>5. /\ todo' \in Seq(Assignments) /\ Len(todo') \in 1 .. 6
      /\ Do6(todo', Mem(qnext, qprev, key, curr')) =
           Mem(InsertNext(qnext, qprev, tid, c), InsertPrev(qprev, tid, c), KeySet(ky, tid, k), curr')
  <2>1. CASE curr # NULL
    <3>1. c = curr /\ ky = KeyTake(key, curr, k)
      BY <2>1 DEF InsertBefore
    <3>2. l \in Seq(Assignments) /\ Len(l) \in 1 .. 6
      BY <1>2, <2>1, SleepLinkingIs
    <3>3. Do6(l, Mem(qnext, qprev, key, curr')) =
            Mem(InsertNext(qnext, qprev, tid, curr), InsertPrev(qprev, tid, curr),
                KeySet(KeyTake(key, curr, k), tid, k), curr')
      <4>1. OnNodes(qnext) /\ tid \in Node
        BY <1>2, QueueFacts DEF OnNodes
      <4> QED BY <1>4, <2>1, <4>1, SleepLinkDoes
    <3> HIDE DEF l, c, ky
    <3> QED BY <1>1, <3>1, <3>2, <3>3
  <2>2. CASE curr = NULL
    <3>1. c = sleep_list /\ ky = key /\ l = Linking(sleep_list, <<>>)
      BY <2>2 DEF InsertBefore, Linking
    <3>2. Linking(sleep_list, <<>>) \in Seq(Assignments) /\ Len(Linking(sleep_list, <<>>)) \in 1 .. 6
      BY <1>2, LinkingIs, QueueFacts
    <3>3. Do6(Linking(sleep_list, <<>>), Mem(qnext, qprev, key, curr')) =
            Mem(InsertNext(qnext, qprev, tid, InsertBefore(sleep_list, curr)),
                InsertPrev(qprev, tid, InsertBefore(sleep_list, curr)), KeySet(key, tid, k), curr')
      BY LinkDoes
    <3>4. InsertBefore(sleep_list, curr) = c
      OBVIOUS
    <3> HIDE DEF l, c, ky
    <3> QED BY <1>1, <3>1, <3>2, <3>3, <3>4
  <2> QED BY <2>1, <2>2
<1>6. /\ SeenNext' = InsertNext(qnext, qprev, tid, c) /\ SeenPrev' = InsertPrev(qprev, tid, c)
      /\ SeenKey' = KeySet(ky, tid, k) /\ SeenCurr' = curr'
  <2> HIDE DEF c, ky, l
  <2> QED BY <1>1, <1>5, BlockSeen
<1>7. Base!EnqueueSleepLink
  BY <1>1, <1>2, <1>3, <1>6
  DEF EnqueueSleepEnds, Base!EnqueueSleepLink, Base!EnqueueSleepEnds, EnqueueSleepPasses,
      Base!EnqueueSleepPasses, Returns, Base!Returns, Base!sleep_list, sleep_list,
      Base!NULL, NULL, Base!InsertBefore, InsertBefore, Base!InsertNext, InsertNext,
      Base!InsertPrev, InsertPrev, Base!KeySet, KeySet, Base!KeyTake, KeyTake,
      Base!InsertAt, InsertAt
<1>8. BlockInv'
  <2>1. linking' \in Queues /\ linking' # ready_list
    BY <1>1, QueueFacts
  <2> QED BY <1>1, <1>2, <1>5, <2>1, BlockOpens
<1> QED BY <1>3, <1>7, <1>8

LEMMA UnsleepBlock ==
  ASSUME ClockInv, hpc = "out", hpc' = "out", curr' = curr,
         Block(UnsleepFinds, sleep_list,
               << Assign("give", qnext[curr], curr) >> \o Unlinking(curr) \o Entering(ready_list))
  PROVE  /\ Base!UnsleepUnlink /\ BlockInv'
         /\ home' \in [Threads -> Queues \cup {NoQueue, Lost}]
<1> DEFINE w == << Assign("give", qnext[curr], curr) >> \o Unlinking(curr) \o Entering(ready_list)
           qn == UnlinkNext(qnext, qprev, curr)
           qp == UnlinkPrev(qnext, qprev, curr)
           ky == KeyGive(key, qnext[curr], key[curr])
<1>1. /\ todo = <<>> /\ UnsleepFinds /\ todo' = w /\ linking' = sleep_list /\ UNCHANGED links
  BY DEF Block
<1>2. /\ HandlerTypes /\ SeenOrder = order /\ SeenOrder' = order' /\ Base!IInv
      /\ SeenNext = qnext /\ SeenPrev = qprev /\ SeenKey = key /\ SeenCurr = curr
      /\ qnext \in [Node -> Node] /\ qprev \in [Node -> Node] /\ key \in [Node -> Keys]
      /\ curr \in Node /\ tid \in Threads /\ k \in Keys
      /\ SeenHome \in [Threads -> Queues \cup {NoQueue}]
  BY <1>1, BlockContext
<1>3. /\ SeenHome' = [SeenHome EXCEPT ![tid] = NoQueue]
      /\ home' \in [Threads -> Queues \cup {NoQueue, Lost}]
  BY <1>1, <1>2, HomesSeen DEF UnsleepFinds
<1>4. SeenNext' = qn /\ SeenPrev' = qp /\ SeenKey' = ky /\ SeenCurr' = qn[ready_list]
  <2>1. Do6(todo', Mem(qnext, qprev, key, curr')) = Mem(qn, qp, ky, qn[ready_list])
    BY <1>1, UnsleepDoes
  <2> HIDE DEF qn, qp, ky, w
  <2> QED BY <1>1, <2>1, BlockSeen
<1>5. Base!UnsleepUnlink
  <2>1. /\ Base!UnlinkNext(SeenNext, SeenPrev, SeenCurr) = qn
        /\ Base!UnlinkPrev(SeenNext, SeenPrev, SeenCurr) = qp
        /\ Base!KeyGive(SeenKey, SeenNext[SeenCurr], SeenKey[SeenCurr]) = ky
    BY <1>2 DEF UnlinkNext, UnlinkPrev, Base!UnlinkNext, Base!UnlinkPrev, NULL, Base!NULL,
       KeyGive, Base!KeyGive
  <2>2. Base!UnsleepFinds
    BY <1>1, <1>2, <1>3
    DEF UnsleepFinds, Base!UnsleepFinds, FindStops, Base!FindStops,
        Base!ready_list, ready_list, Base!sleep_list, sleep_list, Base!NoQueue, NoQueue,
        Base!NULL, NULL, Base!RemoveAt, RemoveAt, Base!priority, priority
  <2> HIDE DEF qn, qp, ky
  <2> QED BY <1>4, <2>1, <2>2 DEF Base!UnsleepUnlink, Base!ready_list, ready_list
<1>6. BlockInv'
  <2>1. w \in Seq(Assignments) /\ Len(w) \in 1 .. 6
    BY <1>2, UnlinkingIs
  <2>2. linking' \in Queues /\ linking' # ready_list
    BY <1>1, QueueFacts
  <2> HIDE DEF w
  <2> QED BY <1>1, <1>2, <2>1, <2>2, BlockOpens
<1> QED BY <1>3, <1>5, <1>6

\* Opening a block is the step of Base that its assignments amount to.
LEMMA BlocksSeen ==
  ASSUME ClockInv, hpc = "out", hpc' = "out", Blocks
  PROVE  /\ Base!Next /\ BlockInv'
         /\ home' \in [Threads -> Queues \cup {NoQueue, Lost}]
<1>1. CASE Block(EnqueueEnds, ready_list, Linking(ready_list, <<>>))
  BY <1>1, EnqueueBlock DEF Base!Next, Base!Progress
<1>2. CASE Block(DequeueTakes, ready_list, Dequeuing(ready_list))
  BY <1>2, DequeueBlock DEF Base!Next, Base!Caller
<1>3. CASE \/ curr = NULL /\ Block(SleepFinds, ready_list, Unlinking(curr))
           \/ /\ curr # NULL /\ curr' = curr
              /\ Block(SleepFinds, ready_list,
                       Unlinking(curr) \o << Assign("key", tid, k) >> \o Entering(sleep_list))
  BY <1>3, SleepBlock DEF Base!Next, Base!Progress
<1>4. CASE Block(EnqueueSleepEnds, sleep_list, Linking(sleep_list, << Assign("take", tid, k) >>))
  BY <1>4, SleepLinkBlock DEF Base!Next, Base!Progress
<1>5. CASE /\ curr' = curr
           /\ Block(UnsleepFinds, sleep_list,
                    << Assign("give", qnext[curr], curr) >> \o Unlinking(curr)
                      \o Entering(ready_list))
  BY <1>5, UnsleepBlock DEF Base!Next, Base!Progress
<1> QED BY <1>1, <1>2, <1>3, <1>4, <1>5 DEF Blocks

\* What the kernel does while the handler is out Base does, or does not see.
LEMMA OutsideSeen ==
  ASSUME ClockInv, Outside(Moves \/ Blocks \/ Statement)
  PROVE  /\ BlockInv' /\ Base!IInv'
         /\ home' \in [Threads -> Queues \cup {NoQueue, Lost}]
         /\ \/ Base!Next
            \/ SeenMemory' = SeenMemory /\ UNCHANGED <<home, pc, tid, k, order, pos, asked>>
<1>1. hpc = "out" /\ hpc' = "out" /\ (Moves \/ Blocks \/ Statement)
  BY DEF Outside, handler
<1>2. Base!Next => Base!IInv'
  BY Base!StepInvariant, NTHREADSAssumption, KeyModAssumption, DelaysAssumption
  DEF ClockInv, Keys, Base!Keys
<1>3. CASE Moves
  <2>1. /\ Base!Next /\ home' \in [Threads -> Queues \cup {NoQueue, Lost}]
        /\ todo = <<>> /\ UNCHANGED <<links, block>>
    BY <1>1, <1>3, MovesSeen
  <2>2. qnext \in [Node -> Node] /\ qprev \in [Node -> Node] /\ key \in [Node -> Keys]
    BY <1>1, <2>1, BlockContext
  <2>3. BlockInv'
    BY <2>1, <2>2, NoBlock DEF ClockInv, links
  <2> QED BY <1>2, <2>1, <2>3
<1>4. CASE Blocks
  BY <1>1, <1>2, <1>4, BlocksSeen
<1>5. CASE Statement
  <2>1. Base!IInv' /\ BlockInv' /\ SeenMemory' = SeenMemory
    BY <1>1, <1>5, StatementSeen
  <2>2. UNCHANGED <<home, pc, tid, k, order, pos, asked>>
    BY <1>5 DEF Statement, history
  <2> QED BY <2>1, <2>2 DEF ClockInv, HandlerTypes
<1> QED BY <1>1, <1>3, <1>4, <1>5

LEMMA OutsideStep ==
  ASSUME ClockInv, Outside(Moves \/ Blocks \/ Statement)
  PROVE  ClockInv'
<1>1. hpc = "out" /\ hpc' = "out" /\ UNCHANGED handler
  BY DEF Outside, handler
<1>2. /\ BlockInv' /\ Base!IInv'
      /\ home' \in [Threads -> Queues \cup {NoQueue, Lost}]
  BY OutsideSeen
<1>3. order' \in [Queues -> Seq(Threads)]
  BY <1>1, <1>2, BaseNext, SeenOutsideNext DEF SeenQueued, Queued
<1>4. HandlerTypes'
  BY <1>1, <1>2, <1>3 DEF ClockInv, HandlerTypes, handler
<1> QED BY <1>1, <1>2, <1>4 DEF ClockInv, LoopHarmless, WalkOnReady

-----------------------------------------------------------------------------
(***************************************************************************)
(* The steps of the handler                                                *)
(***************************************************************************)

\* Where the handler comes, a block of the ready list changes nothing.
LEMMA SleepSeen ==
  ASSUME BlockInv, linking # sleep_list, NEW n \in Node, n \notin Away
  PROVE  qnext[n] = SeenNext[n] /\ key[n] = SeenKey[n]
<1>1. CASE todo = <<>>
  BY <1>1, SeenIsNow
<1>2. CASE todo # <<>>
  <2>1. todo \in Seq(Assignments) /\ IsMem(Memory) /\ Quiet(todo, Away)
    BY <1>2 DEF BlockInv
  <2>2. Away \in SUBSET Node /\ n \in Node \ Away
    BY DEF Away
  <2>3. SameBut(Away, Memory, Do6(todo, Memory))
    BY <2>1, <2>2, DoesQuiet
  <2> QED BY <2>2, <2>3 DEF SameBut, SeenNext, SeenKey, SeenMemory, Memory
<1> QED BY <1>1, <1>2

\* What the links say of the sleep list.
LEMMA SleepList ==
  ASSUME HandlerTypes, BlockInv, SeenQueued, hpc # "walk", linking # sleep_list
  PROVE  LET s == order[sleep_list] IN
         /\ s \in Seq(Threads) /\ Len(s) \in Nat
         /\ qnext[sleep_list] = Place(s, sleep_list, 1)
         /\ 1 \in 1 .. Len(s) + 1
         /\ \A i \in 1 .. Len(s) + 1 :
              LET n == Place(s, sleep_list, i) IN
              /\ n \in Node /\ n \notin Away
              /\ n \in ToSet(s) \cup {sleep_list}
              /\ n \in Threads => SeenHome[n] = sleep_list
              /\ key[n] = SeenKey[n]
              /\ \E j \in 1 .. Len(s) + 1 : qnext[n] = Place(s, sleep_list, j)
<1> DEFINE s == order[sleep_list]
<1>1. SeenOrder = order
  BY SeenOutside
<1>2. s \in Seq(Threads) /\ Len(s) \in Nat /\ 1 \in 1 .. Len(s) + 1
  BY QueueFacts DEF HandlerTypes
<1>3. sleep_list \in Node /\ sleep_list \notin Away
  BY QueueFacts DEF Away
<1>4. qnext[sleep_list] = Place(s, sleep_list, 1)
  <2>1. SeenNext[sleep_list] = Place(s, sleep_list, 1)
    BY <1>1, WalkMoves, QueueFacts DEF SeenQueued
  <2> QED BY <1>3, <2>1, SleepSeen
<1>5. ASSUME NEW i \in 1 .. Len(s) + 1, NEW n, n = Place(s, sleep_list, i)
      PROVE  /\ n \in Node /\ n \notin Away
             /\ n \in ToSet(s) \cup {sleep_list}
             /\ n \in Threads => SeenHome[n] = sleep_list
             /\ key[n] = SeenKey[n]
             /\ \E j \in 1 .. Len(s) + 1 : qnext[n] = Place(s, sleep_list, j)
  <2>1. CASE n = sleep_list
    BY <1>2, <1>3, <1>4, <2>1, SleepSeen, QueueFacts
  <2>2. CASE n # sleep_list
    <3>1. /\ n \in Threads /\ SeenHome[n] = sleep_list /\ i \in 1 .. Len(s) /\ n = s[i]
          /\ SeenNext[n] = Place(s, sleep_list, i + 1)
      BY <1>1, <1>5, <2>2, WalkMoves, QueueFacts DEF SeenQueued
    <3>2. n \in ToSet(s)
      BY <3>1 DEF ToSet
    <3>3. i + 1 \in 1 .. Len(s) + 1
      BY <1>2, <3>1
    <3>4. n \in Node /\ n \notin Away
      BY <3>1, QueueFacts DEF Away
    <3>5. qnext[n] = SeenNext[n] /\ key[n] = SeenKey[n]
      BY <3>4, SleepSeen
    <3> QED BY <3>1, <3>2, <3>3, <3>4, <3>5
  <2> QED BY <2>1, <2>2
<1> QED BY <1>2, <1>4, <1>5

\* A tick takes one from the key of the first sleeper, under a block of the
\* ready list too.
LEMMA TickSeen ==
  ASSUME HandlerTypes, BlockInv, SeenQueued, Tick, linking # sleep_list
  PROVE  LET h == qnext[sleep_list] IN
         /\ SeenNext' = SeenNext /\ SeenPrev' = SeenPrev /\ SeenCurr' = SeenCurr
         /\ SeenKey' = IF h # sleep_list THEN KeyTake(SeenKey, h, 1) ELSE SeenKey
         /\ BlockInv' /\ SeenHome' = SeenHome /\ SeenOrder' = SeenOrder
<1> DEFINE h == qnext[sleep_list]
<1>1. /\ hpc = "out" /\ hpc' = "loop" /\ key' = Decremented
      /\ qnext' = qnext /\ qprev' = qprev /\ home' = home /\ order' = order /\ curr' = curr
      /\ todo' = todo /\ linking' = linking
  BY DEF Tick, locals, block
<1>2. SeenHome' = SeenHome /\ SeenOrder' = SeenOrder /\ Away' = Away
  BY <1>1, SeenOutside, SeenOutsideNext, AwaySame
<1>3. h \in Node \ Away
  <2>1. h = Place(order[sleep_list], sleep_list, 1)
    BY <1>1, SleepList
  <2> QED BY <1>1, <2>1, SleepList
<1>4. /\ todo \in Seq(Assignments) /\ Len(todo) <= 6 /\ IsMem(Memory)
      /\ linking \in {NoQueue, ready_list} /\ (linking = NoQueue <=> todo = <<>>)
      /\ linking = ready_list => Quiet(todo, Away)
  BY DEF BlockInv
<1>5. Memory' = IF h # sleep_list THEN Ticked(Memory, h) ELSE Memory
  BY <1>1 DEF Memory, Ticked, Mem, Decremented
<1>6. SeenMemory' = IF h # sleep_list THEN Ticked(SeenMemory, h) ELSE SeenMemory
  <2>1. CASE todo = <<>>
    BY <1>1, <1>5, <2>1 DEF SeenMemory, Do6
  <2>2. CASE todo # <<>>
    <3>1. Away \in SUBSET Node /\ Quiet(todo, Away)
      BY <1>4, <2>2 DEF Away
    <3>2. Do6(todo, Ticked(Memory, h)) = Ticked(Do6(todo, Memory), h)
      BY <1>3, <1>4, <3>1, DoesQuiet
    <3>3. SeenMemory' = Do6(todo, Memory')
      BY <1>1 DEF SeenMemory
    <3> QED BY <1>5, <3>2, <3>3 DEF SeenMemory
  <2> QED BY <2>1, <2>2
<1>7. /\ SeenNext' = SeenNext /\ SeenPrev' = SeenPrev /\ SeenCurr' = SeenCurr
      /\ SeenKey' = IF h # sleep_list THEN KeyTake(SeenKey, h, 1) ELSE SeenKey
  <2>1. CASE h = sleep_list
    BY <1>6, <2>1, SeenSame
  <2>2. CASE h # sleep_list
    <3>1. SeenMemory' = Ticked(SeenMemory, h)
      BY <1>6, <2>2
    <3> QED BY <2>2, <3>1 DEF Ticked, Mem, SeenNext, SeenPrev, SeenKey, SeenCurr
  <2> QED BY <2>1, <2>2
<1>8. IsMem(Memory)'
  <2>1. Memory = Mem(qnext, qprev, key, curr) /\ OnNodes(qnext) /\ OnNodes(qprev) /\ OnNodes(key)
    BY <1>4 DEF IsMem, Memory, Mem
  <2>2. OnNodes(Decremented)
    BY <2>1 DEF Decremented, KeyTake, OnNodes
  <2> QED BY <1>1, <2>1, <2>2 DEF IsMem, Memory, Mem
<1>9. BlockInv'
  BY <1>1, <1>2, <1>4, <1>8, QueueFacts DEF BlockInv
<1> QED BY <1>2, <1>7, <1>9

\* No ring depends on that key; in the middle of a call the tick finds nobody
\* due.
LEMMA TickStep ==
  ASSUME ClockInv, Tick, NoCall \/ (NobodyDue /\ ~InSleepBlock)
  PROVE  ClockInv'
<1> DEFINE s == order[sleep_list]
           h == qnext[sleep_list]
<1>1. /\ hpc = "out" /\ hpc' = "loop" /\ head' = h
      /\ UNCHANGED <<home, pc, tid, k, ret, order, pos, threadid, hcurr, hkey, todo>>
      /\ asked' = OneLess(asked, {t \in Threads : home[t] = sleep_list})
      /\ key' = Decremented
      /\ woke' = (woke \/ ~NobodyDue)
  BY DEF Tick, locals, block
<1>2. HandlerTypes /\ BlockInv /\ SeenTypes /\ SeenWalk /\ SeenKeys /\ SeenQueued
  BY BaseNow DEF ClockInv
<1>3. linking # sleep_list
  BY <1>2, QueueFacts DEF BlockInv, NoCall, InSleepBlock
<1>4. /\ SeenOrder' = SeenOrder /\ SeenHome' = SeenHome /\ BlockInv'
      /\ SeenNext' = SeenNext /\ SeenPrev' = SeenPrev /\ SeenCurr' = SeenCurr
      /\ SeenKey' = IF h # sleep_list THEN KeyTake(SeenKey, h, 1) ELSE SeenKey
  BY <1>2, <1>3, TickSeen
<1>5. /\ s \in Seq(Threads) /\ Len(s) \in Nat /\ 1 \in 1 .. Len(s) + 1
      /\ h = Place(s, sleep_list, 1)
      /\ \A i \in 1 .. Len(s) + 1 :
           /\ Place(s, sleep_list, i) \in Node
           /\ Place(s, sleep_list, i) \in ToSet(s) \cup {sleep_list}
           /\ Place(s, sleep_list, i) \in Threads => SeenHome[Place(s, sleep_list, i)] = sleep_list
  BY <1>1, <1>2, <1>3, SleepList
<1>6. HandlerTypes'
  <2>1. h \in Node
    BY <1>5
  <2> QED BY <1>1, <1>2, <2>1 DEF HandlerTypes
<1>7. /\ SeenKey' \in [Node -> Keys]
      /\ \A t \in Threads : SeenHome[t] = ready_list => SeenKey'[t] = SeenKey[t]
  <2>1. /\ h \in Node /\ SeenKey \in [Node -> Keys]
        /\ h \in Threads => SeenHome[h] = sleep_list
    BY <1>2, <1>5 DEF SeenTypes
  <2>2. (SeenKey[h] - 1) % KeyMod \in Keys
    BY <2>1, KeyModAssumption DEF Keys
  <2> QED BY <1>4, <2>1, <2>2, QueueFacts DEF KeyTake
<1>8. asked' \in [Threads -> Keys]
  <2>1. asked \in [Threads -> Keys]
    BY <1>2 DEF SeenTypes
  <2>2. \A x \in Keys : x > 0 => x - 1 \in Keys
    BY KeyModAssumption DEF Keys
  <2> QED BY <1>1, <2>1, <2>2 DEF OneLess
<1>9. SeenTypes' /\ SeenWalk' /\ SeenKeys' /\ SeenQueued'
  <2>1. SeenTypes'
    BY <1>1, <1>2, <1>4, <1>7, <1>8 DEF SeenTypes
  <2>2. SeenWalk'
    BY <1>1, <1>2, <1>4 DEF SeenWalk, Walked
  <2>3. SeenKeys'
    BY <1>1, <1>2, <1>4, <1>7 DEF SeenKeys
  <2> QED BY <1>2, <1>4, <2>1, <2>2, <2>3 DEF SeenQueued
<1>10. Base!IInv'
  BY <1>9, BaseNext
<1>11. LoopHarmless'
  <2> SUFFICES ASSUME ~(NoCall /\ woke')
               PROVE  /\ \E i \in 1 .. Len(s) + 1 : h = Place(s, sleep_list, i)
                      /\ \A i \in 1 .. Len(s) + 1 : ~Due(key', Place(s, sleep_list, i))
    BY <1>1 DEF LoopHarmless, Due, NoCall
  <2>1. NobodyDue
    BY <1>1
  <2> QED BY <1>1, <1>5, <2>1 DEF NobodyDue
<1>12. WalkOnReady'
  BY <1>1 DEF WalkOnReady
<1> QED BY <1>4, <1>6, <1>10, <1>11, <1>12 DEF ClockInv

\* A step that moves nothing but the locals of the handler.
LEMMA HandlerMoves ==
  ASSUME ClockInv, UNCHANGED <<vars, block, threadid>>, (hpc = "walk") <=> (hpc' = "walk"),
         hpc = "out" => hpc' = "out"
  PROVE  /\ Base!IInv' /\ BlockInv'
         /\ home' \in [Threads -> Queues \cup {NoQueue, Lost}]
         /\ order' \in [Queues -> Seq(Threads)]
<1>1. UNCHANGED <<qnext, qprev, key, home, pc, curr, tid, k, ret, order, pos, asked, threadid>>
  BY DEF vars
<1>2. todo' = todo /\ linking' = linking
  BY DEF block
<1>3. SeenOrder' = SeenOrder /\ SeenHome' = SeenHome
  BY <1>1 DEF SeenOrder, SeenHome, InHand
<1>4. Memory' = Memory
  BY <1>1 DEF Memory
<1>5. SeenMemory' = SeenMemory
  BY <1>2, <1>4 DEF SeenMemory
<1>6. Base!IInv'
  BY <1>1, <1>3, <1>5, Unseen DEF ClockInv
<1>7. BlockInv'
  <2>1. BlockInv
    BY DEF ClockInv
  <2>2. Away' = Away
    BY <1>3, AwaySame
  <2> QED BY <1>2, <1>4, <2>1, <2>2 DEF BlockInv
<1> QED BY <1>1, <1>6, <1>7 DEF ClockInv, HandlerTypes

\* The loop goes past an element that is not due.
LEMMA LoopSkipsStep ==
  ASSUME ClockInv, LoopSkips
  PROVE  ClockInv'
<1>1. /\ hpc = "loop" /\ hpc' = "loop" /\ ~Due(key, head) /\ head' = qnext[head]
      /\ UNCHANGED <<vars, block, threadid, hcurr, hkey>>
      /\ UNCHANGED <<key, pc, order, todo, woke>>
  BY DEF LoopSkips, vars, block
<1>2. /\ Base!IInv' /\ BlockInv'
      /\ home' \in [Threads -> Queues \cup {NoQueue, Lost}]
      /\ order' \in [Queues -> Seq(Threads)]
  BY <1>1, HandlerMoves
<1>3. HandlerTypes /\ BlockInv /\ SeenTypes /\ SeenQueued /\ linking # sleep_list
  BY <1>1, BaseNow DEF ClockInv, BlockInv
<1>4. ~(NoCall /\ woke) =>
        \E i \in 1 .. Len(order[sleep_list]) + 1 :
          qnext[head] = Place(order[sleep_list], sleep_list, i)
  BY <1>1, <1>3, SleepList DEF ClockInv, LoopHarmless
<1>5. HandlerTypes'
  <2>1. NoCall => qnext[head] \in Node
    BY <1>3, SeenIsNow DEF NoCall, HandlerTypes, SeenTypes
  <2>2. ~NoCall => qnext[head] \in Node
    BY <1>1, <1>3, <1>4, SleepList
  <2> QED BY <1>1, <1>2, <1>3, <2>1, <2>2 DEF HandlerTypes
<1>6. LoopHarmless'
  BY <1>1, <1>4 DEF ClockInv, LoopHarmless, Due, NoCall
<1>7. WalkOnReady'
  BY <1>1 DEF WalkOnReady
<1> QED BY <1>2, <1>5, <1>6, <1>7 DEF ClockInv

\* The handler returns.
LEMMA LoopEndsStep ==
  ASSUME ClockInv, LoopEnds
  PROVE  ClockInv'
<1>1. /\ hpc = "loop" /\ hpc' = "out" /\ head' = 0 /\ threadid' = 0 /\ hcurr' = 0 /\ hkey' = 0
      /\ UNCHANGED <<qnext, qprev, key, home, pc, curr, tid, k, ret, order, pos, asked>>
      /\ todo' = todo /\ linking' = linking
  BY DEF LoopEnds, vars, block
<1>2. HandlerTypes /\ BlockInv
  BY DEF ClockInv
<1>3. SeenOrder' = SeenOrder /\ SeenHome' = SeenHome
  BY <1>1, SeenOutside, SeenOutsideNext
<1>4. Memory' = Memory
  BY <1>1 DEF Memory
<1>5. SeenMemory' = SeenMemory
  BY <1>1, <1>4 DEF SeenMemory
<1>6. Base!IInv'
  BY <1>1, <1>3, <1>5, Unseen DEF ClockInv
<1>7. BlockInv'
  <2>1. Away' = Away
    BY <1>3, AwaySame
  <2> QED BY <1>1, <1>2, <1>4, <2>1 DEF BlockInv
<1>8. HandlerTypes'
  <2>1. 0 \in Keys
    BY KeyModAssumption DEF Keys
  <2> QED BY <1>1, <1>2, <2>1, QueueFacts DEF HandlerTypes
<1> QED BY <1>1, <1>6, <1>7, <1>8 DEF ClockInv, LoopHarmless, WalkOnReady

\* Where the handler walks no block is under way.
LEMMA WalkIdle ==
  ASSUME ClockInv, hpc = "walk"
  PROVE  /\ todo = <<>> /\ linking = NoQueue /\ pc = "idle" /\ woke
         /\ HandlerTypes /\ BlockInv /\ SeenTypes /\ SeenWalk /\ SeenKeys
         /\ SeenQueued /\ Queued(qnext, qprev, SeenHome, SeenOrder)
         /\ SeenNext = qnext /\ SeenPrev = qprev /\ SeenKey = key /\ SeenCurr = curr
         /\ qnext \in [Node -> Node] /\ qprev \in [Node -> Node] /\ key \in [Node -> Keys]
<1>1. todo = <<>> /\ linking = NoQueue /\ pc = "idle" /\ woke /\ HandlerTypes /\ BlockInv
  BY DEF ClockInv, BlockInv, WalkOnReady
<1>2. SeenTypes /\ SeenWalk /\ SeenKeys /\ SeenQueued
  BY BaseNow DEF ClockInv
<1>3. SeenNext = qnext /\ SeenPrev = qprev /\ SeenKey = key /\ SeenCurr = curr
  BY <1>1, SeenIsNow
<1> QED BY <1>1, <1>2, <1>3 DEF SeenTypes, SeenQueued

\* A turn of the loop of its thread_enqueue.
LEMMA WalkOnStep ==
  ASSUME ClockInv, WalkOn
  PROVE  ClockInv'
<1> DEFINE s == order[ready_list]
<1>1. /\ hpc = "walk" /\ hpc' = "walk" /\ hcurr # ready_list /\ hcurr' = qnext[hcurr]
      /\ UNCHANGED <<vars, block, threadid, head, hkey>>
      /\ UNCHANGED <<pc, order, woke>>
  BY DEF WalkOn, WalkPasses, vars
<1>2. /\ Base!IInv' /\ BlockInv'
      /\ home' \in [Threads -> Queues \cup {NoQueue, Lost}]
      /\ order' \in [Queues -> Seq(Threads)]
  BY <1>1, HandlerMoves
<1>3. /\ HandlerTypes /\ Queued(qnext, qprev, SeenHome, SeenOrder) /\ qnext \in [Node -> Node]
      /\ todo = <<>>
  BY <1>1, WalkIdle
<1>4. SeenOrder[ready_list] = s
  BY <1>3, QueueFacts DEF SeenOrder, HandlerTypes
<1>5. qnext[hcurr] \in Node
  BY <1>3 DEF HandlerTypes
<1>6. \E j \in 1 .. Len(s) + 1 : qnext[hcurr] = Place(s, ready_list, j)
  <2>1. PICK i \in 1 .. Len(s) + 1 : hcurr = Place(s, ready_list, i)
    BY <1>1 DEF ClockInv, WalkOnReady
  <2>2. /\ Len(s) \in Nat /\ i \in 1 .. Len(s)
        /\ qnext[hcurr] = Place(s, ready_list, i + 1)
    BY <1>1, <1>3, <1>4, <2>1, WalkMoves, QueueFacts
  <2>3. i + 1 \in 1 .. Len(s) + 1
    BY <2>2
  <2> QED BY <2>2, <2>3
<1>7. HandlerTypes'
  BY <1>1, <1>2, <1>3, <1>5 DEF HandlerTypes
<1>8. LoopHarmless' /\ WalkOnReady'
  <2>1. NoCall' /\ woke'
    BY <1>1, <1>3 DEF NoCall, block, ClockInv, WalkOnReady
  <2> QED BY <1>1, <1>6, <2>1 DEF ClockInv, LoopHarmless, WalkOnReady
<1> QED BY <1>2, <1>7, <1>8 DEF ClockInv

\* Taking the head off the sleep list unlinks it; an empty list gives the index
\* of the other root instead.
LEMMA LoopWakesStep ==
  ASSUME ClockInv, LoopWakes
  PROVE  ClockInv'
<1> DEFINE s == order[sleep_list]
           t == s[1]
<1>1. /\ hpc = "loop" /\ hpc' = "walk" /\ Due(key, head) /\ hcurr' = qnext'[ready_list]
      /\ UNCHANGED <<key, home, pc, curr, tid, k, ret, order, pos, asked, head, todo, woke>>
      /\ UNCHANGED block
      /\ hkey' \in IF threadid' \in Threads THEN {priority} ELSE BehindTable
  BY DEF LoopWakes, locals, history, block
<1>2. /\ HandlerTypes /\ BlockInv /\ SeenTypes /\ SeenKeys /\ SeenQueued
      /\ todo = <<>> /\ todo' = <<>> /\ pc = "idle" /\ woke
      /\ SeenNext = qnext /\ SeenPrev = qprev /\ SeenKey = key /\ SeenCurr = curr
      /\ SeenNext' = qnext' /\ SeenPrev' = qprev' /\ SeenKey' = key' /\ SeenCurr' = curr'
      /\ qnext \in [Node -> Node] /\ qprev \in [Node -> Node] /\ key \in [Node -> Keys]
      /\ linking # sleep_list /\ Queued(qnext, qprev, SeenHome, SeenOrder)
  <2>1. /\ HandlerTypes /\ BlockInv /\ SeenTypes /\ SeenKeys /\ SeenQueued
    BY BaseNow DEF ClockInv
  <2>2. NoCall /\ woke
    BY <1>1 DEF ClockInv, LoopHarmless
  <2>3. todo = <<>> /\ todo' = <<>> /\ pc = "idle"
    BY <1>1, <2>2 DEF NoCall
  <2>4. /\ SeenNext = qnext /\ SeenPrev = qprev /\ SeenKey = key /\ SeenCurr = curr
        /\ SeenNext' = qnext' /\ SeenPrev' = qprev' /\ SeenKey' = key' /\ SeenCurr' = curr'
    BY <2>3, SeenIsNow, SeenIsNext
  <2> QED BY <1>1, <2>1, <2>2, <2>3, <2>4 DEF SeenTypes, SeenQueued, BlockInv
<1>3. pc = "idle" /\ woke
  BY <1>2
<1>4. SeenOrder = order
  BY <1>1, SeenOutside
<1>5. /\ qnext' \in [Node -> Node] /\ qprev' \in [Node -> Node]
      /\ threadid' \in Threads \cup {NTHREADS}
      /\ threadid' \in Threads => s # <<>>
      /\ Queued(qnext', qprev', SeenHome', SeenOrder')
      /\ \A u \in Threads : SeenHome'[u] = ready_list => SeenHome[u] = ready_list
  <2>1. CASE qnext[sleep_list] = sleep_list
    <3>1. threadid' = NTHREADS /\ qnext' = qnext /\ qprev' = qprev
      BY <2>1 DEF LoopWakes
    <3>2. SeenOrder' = SeenOrder /\ SeenHome' = SeenHome
      BY <1>1, <3>1, ClockFacts DEF SeenOrder, SeenHome, InHand
    <3> QED BY <1>2, <3>1, <3>2, ClockFacts DEF SeenTypes
  <2>2. CASE qnext[sleep_list] # sleep_list
    <3>1. /\ threadid' = qnext[sleep_list]
          /\ qnext' = DequeueNext(qnext, sleep_list)
          /\ qprev' = DequeuePrev(qnext, qprev, sleep_list)
      BY <2>2 DEF LoopWakes
    <3>2. s \in Seq(Threads) /\ Len(s) \in Nat /\ qnext[sleep_list] = Place(s, sleep_list, 1)
      BY <1>1, <1>2, SleepList
    <3>3. 1 \in 1 .. Len(s) /\ s # <<>>
      BY <2>2, <3>2 DEF Place
    <3>4. Ring(qnext, qprev, s, sleep_list)
      BY <1>2, <1>4, <3>2, QueueFacts DEF Queued, Ring
    <3>5. /\ qnext[sleep_list] = t /\ t \in Threads
          /\ qnext' = UnlinkNext(qnext, qprev, t) /\ qprev' = UnlinkPrev(qnext, qprev, t)
          /\ RemoveAt(s, 1) = Tail(s)
      <4>1. /\ qnext[sleep_list] = t
            /\ DequeueNext(qnext, sleep_list) = UnlinkNext(qnext, qprev, t)
            /\ DequeuePrev(qnext, qprev, sleep_list) = UnlinkPrev(qnext, qprev, t)
        BY <1>2, <3>3, <3>4, QueueFacts, DequeueIsUnlink DEF SeenTypes
      <4>2. t \in Threads
        BY <3>2, <3>3, ElementOfSeq
      <4>3. RemoveAt(s, 1) = Tail(s)
        BY <3>2, <3>3, RemoveFirstIsTail
      <4> QED BY <3>1, <4>1, <4>2, <4>3
    <3>6. /\ qnext' \in [Node -> Node] /\ qprev' \in [Node -> Node]
          /\ Queued(qnext', qprev', [SeenHome EXCEPT ![t] = NoQueue],
                    [order EXCEPT ![sleep_list] = RemoveAt(@, 1)])
      BY <1>2, <1>4, <3>3, <3>5, QueueFacts, UnlinkKeepsQueues DEF SeenTypes
    <3>7. SeenHome' = [SeenHome EXCEPT ![t] = NoQueue]
      BY <1>1, <3>1, <3>5 DEF SeenHome, InHand
    <3>8. SeenOrder' = [order EXCEPT ![sleep_list] = RemoveAt(@, 1)]
      BY <1>1, <1>2, <3>1, <3>5, QueueFacts DEF SeenOrder, HandlerTypes
    <3>9. \A u \in Threads : SeenHome'[u] = ready_list => SeenHome[u] = ready_list
      BY <3>5, <3>7, QueueFacts DEF SeenHome
    <3> QED BY <3>1, <3>3, <3>5, <3>6, <3>7, <3>8, <3>9
  <2> QED BY <2>1, <2>2
<1>6. SeenTypes' /\ SeenWalk' /\ SeenKeys'
  BY <1>1, <1>2, <1>3, <1>5 DEF SeenTypes, SeenWalk, SeenKeys
<1>7. Base!IInv' /\ BlockInv'
  <2>1. SeenQueued'
    BY <1>2, <1>5 DEF SeenQueued
  <2> QED BY <1>1, <1>2, <1>5, <1>6, <2>1, BaseNext, NoBlock
<1>8. HandlerTypes'
  <2>1. qnext'[ready_list] \in Node
    BY <1>5, QueueFacts
  <2>2. hkey' \in Keys
    BY <1>1, ClockAssumption, PriorityIsAKey
  <2> QED BY <1>1, <1>2, <1>5, <2>1, <2>2 DEF HandlerTypes
<1>9. WalkOnReady'
  <2>1. SeenOrder'[ready_list] = order[ready_list]
    BY <1>1, <1>2, QueueFacts DEF SeenOrder, HandlerTypes
  <2>2. /\ Len(order[ready_list]) \in Nat
        /\ qnext'[ready_list] = Place(order[ready_list], ready_list, 1)
    BY <1>5, <2>1, WalkMoves, QueueFacts
  <2>3. 1 \in 1 .. Len(order[ready_list]) + 1
    BY <2>2
  <2> QED BY <1>1, <1>3, <1>5, <2>2, <2>3 DEF WalkOnReady
<1>10. LoopHarmless'
  BY <1>1, <1>2 DEF LoopHarmless, NoCall
<1> QED BY <1>7, <1>8, <1>9, <1>10 DEF ClockInv

\* Linking the thread the handler holds appends it to the ready list.
LEMMA WalkLinksThread ==
  ASSUME ClockInv, WalkLinks, threadid \in Threads
  PROVE  /\ Queued(qnext', qprev', SeenHome', SeenOrder')
         /\ qnext' \in [Node -> Node] /\ qprev' \in [Node -> Node]
         /\ home' \in [Threads -> Queues \cup {NoQueue, Lost}]
         /\ order' \in [Queues -> Seq(Threads)]
         /\ \A t \in Threads : SeenHome'[t] = ready_list => SeenHome[t] = ready_list \/ t = threadid
<1> DEFINE s == order[ready_list]
           z == order[sleep_list]
<1>1. /\ hpc = "walk" /\ hpc' = "loop" /\ ~WalkPasses(hcurr)
      /\ qnext' = InsertNext(qnext, qprev, threadid, InsertBefore(ready_list, hcurr))
      /\ qprev' = InsertPrev(qprev, threadid, InsertBefore(ready_list, hcurr))
      /\ home' = [home EXCEPT ![threadid] = ready_list]
      /\ order' = [order EXCEPT ![ready_list] = Append(@, threadid),
                     ![sleep_list] = IF @ = <<>> THEN @ ELSE Tail(@)]
  BY DEF WalkLinks
<1>2. /\ HandlerTypes /\ SeenTypes /\ SeenKeys /\ Queued(qnext, qprev, SeenHome, SeenOrder)
      /\ SeenQueued /\ SeenKey = key
      /\ qnext \in [Node -> Node] /\ qprev \in [Node -> Node]
  BY <1>1, WalkIdle
<1>3. SeenOrder = [order EXCEPT ![sleep_list] = Tail(@)] /\ z # <<>>
  BY <1>1 DEF SeenOrder, ClockInv, WalkOnReady
<1>4. s \in Seq(Threads) /\ Len(s) \in Nat /\ SeenOrder[ready_list] = s /\ z \in Seq(Threads)
  BY <1>2, <1>3, QueueFacts DEF HandlerTypes
<1>5. hcurr = ready_list
  <2>1. PICK i \in 1 .. Len(s) + 1 : hcurr = Place(s, ready_list, i)
    BY <1>1 DEF ClockInv, WalkOnReady
  <2>2. hcurr = ready_list \/ (hcurr \in Threads /\ SeenHome[hcurr] = ready_list)
    BY <1>2, <1>4, <2>1, OnReadyList
  <2>3. hcurr \in Threads /\ SeenHome[hcurr] = ready_list => key[hcurr] <= hkey
    <3>1. hkey \in Keys /\ \A x \in Keys : priority <= x
      BY <1>2, KeyModAssumption DEF HandlerTypes, Keys, priority
    <3> QED BY <1>2, <3>1 DEF SeenKeys
  <2> QED BY <1>1, <2>2, <2>3 DEF WalkPasses
<1>6. InsertBefore(ready_list, hcurr) = ready_list
  BY <1>5 DEF InsertBefore
<1>7. /\ Len(s) + 1 \in 1 .. Len(s) + 1
      /\ ready_list = Place(s, ready_list, Len(s) + 1)
  BY <1>4 DEF Place
<1>8. SeenHome[threadid] = NoQueue
  BY <1>1 DEF SeenHome, InHand
<1>9. /\ qnext' \in [Node -> Node] /\ qprev' \in [Node -> Node]
      /\ Queued(qnext', qprev', [SeenHome EXCEPT ![threadid] = ready_list],
                [SeenOrder EXCEPT ![ready_list] = InsertAt(@, Len(s) + 1, threadid)])
  <2>1. /\ Len(s) + 1 \in 1 .. Len(SeenOrder[ready_list]) + 1
        /\ ready_list = Place(SeenOrder[ready_list], ready_list, Len(s) + 1)
    BY <1>4, <1>7
  <2>2. /\ qnext \in [Node -> Node] /\ qprev \in [Node -> Node]
        /\ qnext' = InsertNext(qnext, qprev, threadid, ready_list)
        /\ qprev' = InsertPrev(qprev, threadid, ready_list)
        /\ ready_list \in Queues
    BY <1>1, <1>2, <1>6, QueueFacts DEF SeenTypes
  <2> DEFINE p == Len(s) + 1
  <2> HIDE DEF p
  <2>3. p \in 1 .. Len(SeenOrder[ready_list]) + 1 /\ ready_list = Place(SeenOrder[ready_list], ready_list, p)
    BY <2>1 DEF p
  <2>4. /\ InsertNext(qnext, qprev, threadid, ready_list) \in [Node -> Node]
        /\ InsertPrev(qprev, threadid, ready_list) \in [Node -> Node]
        /\ Queued(InsertNext(qnext, qprev, threadid, ready_list),
                  InsertPrev(qprev, threadid, ready_list),
                  [SeenHome EXCEPT ![threadid] = ready_list],
                  [SeenOrder EXCEPT ![ready_list] = InsertAt(@, p, threadid)])
    BY <1>2, <1>8, <2>2, <2>3, InsertKeepsQueues
  <2> QED BY <2>2, <2>4 DEF p
<1>10. SeenHome' = [SeenHome EXCEPT ![threadid] = ready_list]
  <2>1. home \in [Threads -> Queues \cup {NoQueue, Lost}]
    BY <1>2 DEF HandlerTypes
  <2>2. \A t \in Threads : home'[t] = IF t = threadid THEN ready_list ELSE home[t]
    BY <1>1, <2>1
  <2>3. SeenHome' = [t \in Threads |-> IF home'[t] = Lost THEN NoQueue ELSE home'[t]]
    BY <1>1, SeenOutsideNext
  <2> QED BY <1>1, <2>2, <2>3, ClockFacts, QueueFacts DEF SeenHome, InHand
<1>11. SeenOrder' = [SeenOrder EXCEPT ![ready_list] = InsertAt(@, Len(s) + 1, threadid)]
  <2>1. SeenOrder' = order'
    BY <1>1, SeenOutsideNext
  <2>2. InsertAt(s, Len(s) + 1, threadid) = Append(s, threadid)
    BY <1>4, InsertLastIsAppend
  <2>3. order \in [Queues -> Seq(Threads)]
    BY <1>2 DEF HandlerTypes
  <2>4. order' = [order EXCEPT ![ready_list] = Append(s, threadid), ![sleep_list] = Tail(z)]
    BY <1>1, <1>3, <2>3, QueueFacts
  <2> QED BY <1>3, <1>4, <2>1, <2>2, <2>3, <2>4, QueueFacts
<1>12. order' \in [Queues -> Seq(Threads)]
  BY <1>1, <1>9, <1>11, SeenOutsideNext DEF Queued
<1>13. home' \in [Threads -> Queues \cup {NoQueue, Lost}]
  BY <1>1, <1>2, QueueFacts DEF HandlerTypes
<1>14. \A t \in Threads : SeenHome'[t] = ready_list => SeenHome[t] = ready_list \/ t = threadid
  BY <1>10 DEF SeenHome
<1> QED BY <1>9, <1>10, <1>11, <1>12, <1>13, <1>14

\* Linking the root of the ready list in front of itself leaves it a ring, of

\* Linking the root of the ready list in front of itself leaves it a ring, of
\* nobody: the threads that were in it are linked to no root any more.
LEMMA WalkLinksRoot ==
  ASSUME ClockInv, WalkLinks, threadid \notin Threads
  PROVE  /\ Queued(qnext', qprev', SeenHome', SeenOrder')
         /\ qnext' \in [Node -> Node] /\ qprev' \in [Node -> Node]
         /\ home' \in [Threads -> Queues \cup {NoQueue, Lost}]
         /\ order' \in [Queues -> Seq(Threads)]
         /\ \A t \in Threads : SeenHome'[t] # ready_list
<1> DEFINE s == order[ready_list]
           z == order[sleep_list]
<1>1. /\ hpc = "walk" /\ hpc' = "loop" /\ ~WalkPasses(hcurr)
      /\ qnext' = InsertNext(qnext, qprev, threadid, InsertBefore(ready_list, hcurr))
      /\ qprev' = InsertPrev(qprev, threadid, InsertBefore(ready_list, hcurr))
      /\ home' = [t \in Threads |-> IF home[t] = ready_list THEN Lost ELSE home[t]]
      /\ order' = [order EXCEPT ![ready_list] = <<>>]
  BY DEF WalkLinks
<1>2. /\ HandlerTypes /\ SeenTypes /\ SeenKeys /\ Queued(qnext, qprev, SeenHome, SeenOrder)
      /\ SeenQueued /\ SeenKey = key
      /\ qnext \in [Node -> Node] /\ qprev \in [Node -> Node]
  BY <1>1, WalkIdle
<1>3. SeenOrder = order /\ SeenOrder[ready_list] = s /\ threadid = ready_list
  BY <1>2, ClockFacts DEF SeenOrder, HandlerTypes
<1>4. s \in Seq(Threads) /\ Len(s) \in Nat /\ z \in Seq(Threads) /\ Len(z) \in Nat
  BY <1>2, QueueFacts DEF HandlerTypes
<1>5. hcurr = ready_list
  <2>1. PICK i \in 1 .. Len(s) + 1 : hcurr = Place(s, ready_list, i)
    BY <1>1 DEF ClockInv, WalkOnReady
  <2>2. hcurr = ready_list \/ (hcurr \in Threads /\ SeenHome[hcurr] = ready_list)
    BY <1>2, <1>3, <2>1, OnReadyList
  <2>3. hcurr \in Threads /\ SeenHome[hcurr] = ready_list => key[hcurr] <= hkey
    <3>1. hkey \in Keys /\ \A x \in Keys : priority <= x
      BY <1>2, KeyModAssumption DEF HandlerTypes, Keys, priority
    <3> QED BY <1>2, <3>1 DEF SeenKeys
  <2> QED BY <1>1, <2>2, <2>3 DEF WalkPasses
<1>6. InsertBefore(ready_list, hcurr) = ready_list
  BY <1>5 DEF InsertBefore
<1>7. qprev[ready_list] = Place(s, ready_list, Len(s)) /\ qnext[qprev[ready_list]] = ready_list
  <2>1. /\ Len(s) \in 0 .. Len(s)
        /\ Place(s, ready_list, Len(s) + 1) = ready_list
    BY <1>4 DEF Place
  <2>2. RingOf(qnext, qprev, s, ready_list)
    BY <1>2, <1>3, QueueFacts DEF Queued
  <2> QED BY <2>1, <2>2 DEF RingOf
<1>8. /\ qnext' = [qnext EXCEPT ![ready_list] = ready_list]
      /\ qprev' = [qprev EXCEPT ![ready_list] = ready_list]
  <2>1. qnext \in [Node -> Node] /\ qprev \in [Node -> Node] /\ ready_list \in Node
    BY <1>2, QueueFacts DEF SeenTypes
  <2>2. /\ qnext' = [qnext EXCEPT ![qprev[ready_list]] = ready_list, ![ready_list] = ready_list]
        /\ qprev' = [qprev EXCEPT ![ready_list] = qprev[ready_list], ![ready_list] = ready_list]
    BY <1>1, <1>3, <1>6 DEF InsertNext, InsertPrev
  <2> QED BY <1>7, <2>1, <2>2
<1>9. qnext' \in [Node -> Node] /\ qprev' \in [Node -> Node]
  BY <1>2, <1>8, QueueFacts DEF SeenTypes
<1>10. home' \in [Threads -> Queues \cup {NoQueue, Lost}]
  BY <1>1, <1>2 DEF HandlerTypes
<1>11. order' \in [Queues -> Seq(Threads)] /\ order'[ready_list] = <<>> /\ order'[sleep_list] = z
  <2>1. <<>> \in Seq(Threads)
    OBVIOUS
  <2> QED BY <1>1, <1>2, <2>1, QueueFacts DEF HandlerTypes
<1>12. SeenOrder' = order'
  BY <1>1, SeenOutsideNext
<1>13. SeenHome' = [t \in Threads |-> IF SeenHome[t] = ready_list THEN NoQueue ELSE SeenHome[t]]
  <2>1. SeenHome' = [t \in Threads |-> IF home'[t] = Lost THEN NoQueue ELSE home'[t]]
    BY <1>1, SeenOutsideNext
  <2>2. \A t \in Threads : ~InHand(t)
    BY DEF InHand
  <2>3. SeenHome = [t \in Threads |-> IF home[t] = Lost THEN NoQueue ELSE home[t]]
    BY <2>2 DEF SeenHome
  <2> QED BY <1>1, <2>1, <2>3, ClockFacts, QueueFacts
<1>14. RingOf(qnext', qprev', <<>>, ready_list)
  <2>1. \A i \in 0 .. 1 : Place(<<>>, ready_list, i) = ready_list
    BY DEF Place
  <2>2. Len(<<>>) = 0 /\ qnext'[ready_list] = ready_list /\ qprev'[ready_list] = ready_list
    BY <1>2, <1>8, QueueFacts DEF SeenTypes
  <2> QED BY <2>1, <2>2 DEF RingOf
<1>15. RingOf(qnext', qprev', z, sleep_list)
  <2>1. RingOf(qnext, qprev, z, sleep_list)
    BY <1>2, <1>3, QueueFacts DEF Queued
  <2>2. \A i \in 0 .. Len(z) + 1 : Place(z, sleep_list, i) \in Node \ {ready_list}
    BY <1>4, ElementOfSeq, QueueFacts DEF Place
  <2>3. \A i \in 0 .. Len(z) + 1 :
          /\ qnext'[Place(z, sleep_list, i)] = qnext[Place(z, sleep_list, i)]
          /\ qprev'[Place(z, sleep_list, i)] = qprev[Place(z, sleep_list, i)]
    BY <1>2, <1>8, <2>2 DEF SeenTypes
  <2> QED BY <1>4, <2>1, <2>3, RingFrame
<1>16. Queued(qnext', qprev', SeenHome', SeenOrder')
  <2>1. SeenHome' \in [Threads -> Queues \cup {NoQueue}]
    BY <1>2, <1>13 DEF Queued
  <2>2. Queues = {ready_list, sleep_list} /\ ready_list # sleep_list
    BY QueueFacts DEF Queues
  <2>3. /\ \A i \in 1 .. Len(z) : SeenHome[z[i]] = sleep_list /\ z[i] \in Threads
        /\ \A i, j \in 1 .. Len(z) : z[i] = z[j] => i = j
        /\ \A t \in Threads : SeenHome[t] = sleep_list => \E i \in 1 .. Len(z) : z[i] = t
    BY <1>2, <1>3, <1>4, <2>2, ElementOfSeq DEF Queued
  <2>4. /\ \A i \in 1 .. Len(z) : SeenHome'[z[i]] = sleep_list
        /\ \A t \in Threads : SeenHome'[t] = sleep_list => \E i \in 1 .. Len(z) : z[i] = t
        /\ \A t \in Threads : SeenHome'[t] # ready_list
    BY <1>13, <2>2, <2>3, QueueFacts
  <2>5. 1 .. Len(<<>>) = {}
    OBVIOUS
  <2> HIDE DEF s, z
  <2> QED BY <1>11, <1>12, <1>14, <1>15, <2>1, <2>2, <2>3, <2>4, <2>5 DEF Queued
<1> QED BY <1>9, <1>10, <1>11, <1>13, <1>16, QueueFacts

LEMMA WalkLinksStep ==
  ASSUME ClockInv, WalkLinks
  PROVE  ClockInv'
<1>1. /\ hpc = "walk" /\ hpc' = "loop" /\ key' = KeySet(key, threadid, hkey)
      /\ head' = qnext'[head]
      /\ UNCHANGED <<pc, curr, tid, k, ret, pos, threadid, hcurr, hkey, woke, todo>>
      /\ UNCHANGED block
  BY DEF WalkLinks, locals, block
<1>2. /\ HandlerTypes /\ BlockInv /\ SeenTypes /\ SeenKeys /\ SeenKey = key /\ SeenCurr = curr
      /\ key \in [Node -> Keys]
      /\ pc = "idle" /\ woke /\ todo = <<>> /\ todo' = <<>>
      /\ threadid \in Threads => hkey = priority
  BY <1>1, WalkIdle DEF ClockInv, WalkOnReady
<1>3. /\ Queued(qnext', qprev', SeenHome', SeenOrder')
      /\ qnext' \in [Node -> Node] /\ qprev' \in [Node -> Node]
      /\ home' \in [Threads -> Queues \cup {NoQueue, Lost}]
      /\ order' \in [Queues -> Seq(Threads)]
      /\ \A t \in Threads : SeenHome'[t] = ready_list => SeenHome[t] = ready_list \/ t = threadid
  BY WalkLinksThread, WalkLinksRoot
<1>4. key' \in [Node -> Keys] /\ \A t \in Threads : key'[t] = IF t = threadid THEN hkey ELSE key[t]
  <2>1. hkey \in Keys /\ threadid \in Node
    BY <1>2, ClockFacts, QueueFacts DEF HandlerTypes
  <2> QED BY <1>1, <1>2, <2>1, QueueFacts DEF KeySet
<1>5. SeenNext' = qnext' /\ SeenPrev' = qprev' /\ SeenKey' = key' /\ SeenCurr' = curr'
  BY <1>2, SeenIsNext
<1>6. asked' \in [Threads -> Keys]
  <2>1. asked \in [Threads -> Keys] /\ 0 \in Keys
    BY <1>2, KeyModAssumption DEF SeenTypes, Keys
  <2>2. asked' = asked \/ asked' = [asked EXCEPT ![threadid] = 0]
    BY DEF WalkLinks
  <2> QED BY <2>1, <2>2
<1>7. SeenTypes' /\ SeenWalk' /\ SeenKeys' /\ SeenQueued'
  <2>1. SeenTypes'
    BY <1>1, <1>2, <1>3, <1>4, <1>5, <1>6 DEF SeenTypes
  <2>2. SeenWalk'
    BY <1>1, <1>2 DEF SeenWalk
  <2>3. SeenKeys'
    BY <1>1, <1>2, <1>3, <1>4, <1>5 DEF SeenKeys
  <2> QED BY <1>3, <1>5, <2>1, <2>2, <2>3 DEF SeenQueued
<1>8. Base!IInv' /\ BlockInv'
  BY <1>1, <1>2, <1>3, <1>4, <1>7, BaseNext, NoBlock
<1>9. HandlerTypes'
  <2>1. qnext'[head] \in Node
    BY <1>2, <1>3 DEF HandlerTypes
  <2> QED BY <1>1, <1>2, <1>3, <2>1 DEF HandlerTypes
<1>10. LoopHarmless' /\ WalkOnReady'
  BY <1>1, <1>2 DEF LoopHarmless, WalkOnReady, NoCall
<1> QED BY <1>8, <1>9, <1>10 DEF ClockInv

-----------------------------------------------------------------------------
(***************************************************************************)
(* The steps of the interleaving                                           *)
(***************************************************************************)

LEMMA ClockStep ==
  ASSUME ClockInv, [ClockNext]_clockVars, Tick => NoCall \/ (NobodyDue /\ ~InSleepBlock)
  PROVE  ClockInv'
<1>1. CASE UNCHANGED clockVars
  <2>1. UNCHANGED <<vars, block, threadid, hpc, head, hcurr, hkey>>
    BY <1>1 DEF clockVars, handler
  <2>2. UNCHANGED <<pc, key, order, todo, woke>>
    BY <1>1, <2>1 DEF vars, block, clockVars
  <2>3. /\ Base!IInv' /\ BlockInv' /\ home' \in [Threads -> Queues \cup {NoQueue, Lost}]
        /\ order' \in [Queues -> Seq(Threads)]
    BY <2>1, HandlerMoves
  <2>4. HandlerTypes' /\ LoopHarmless' /\ WalkOnReady'
    BY <2>1, <2>2, <2>3 DEF ClockInv, HandlerTypes, LoopHarmless, WalkOnReady, Due, NoCall
  <2> QED BY <2>3, <2>4 DEF ClockInv
<1>2. CASE ClockNext
  BY <1>2, OutsideStep, TickStep, LoopSkipsStep, LoopWakesStep, WalkOnStep, WalkLinksStep,
     LoopEndsStep DEF ClockNext, Handler
<1> QED BY <1>1, <1>2

\* With the root of the sleep list linked, and with every tick that lands in a
\* call one that finds nobody due and no block of the sleep list half done, the
\* invariant holds whatever the handler does: in its loop, in its walk and
\* between them, and between any two assignments of a block.
THEOREM ClockInvariance ==
  ASSUME SleepRootLinked, TicksWhen \in {"idle", "safe"}
  PROVE  ClockSpec => []ClockInv
<1>1. ClockInit => ClockInv
  BY ClockInitInvariant
<1>2. ClockInv /\ [ClockNext]_clockVars => ClockInv'
  BY ClockStep DEF Tick, MayTick
<1> QED BY <1>1, <1>2, PTL DEF ClockSpec

-----------------------------------------------------------------------------
(***************************************************************************)
(* What the recursive Path of ClockProps meets                             *)
(***************************************************************************)
\* The first m members of a sequence that is defined by recursion exist.
Iterates(c, S, next, s, N) ==
  c \in [0 .. N -> S] /\ c[0] = s /\ \A n \in 1 .. N : c[n] = next[c[n - 1]]

LEMMA IterationExists ==
  ASSUME NEW S, NEW next \in [S -> S], NEW s \in S, NEW N \in Nat
  PROVE  \E c : Iterates(c, S, next, s, N)
<1> DEFINE Exists(m) == \E c : Iterates(c, S, next, s, m)
           bad == {m \in Nat : ~Exists(m)}
<1>1. CASE bad = {}
  BY <1>1
<1>2. CASE bad # {}
  <2>1. PICK m \in bad : \A j \in bad : m <= j
    BY <1>2, MinOf
  <2>2. m # 0
    <3>1. [n \in 0 .. 0 |-> s] \in [0 .. 0 -> S]
      OBVIOUS
    <3>2. [n \in 0 .. 0 |-> s][0] = s /\ 1 .. 0 = {}
      OBVIOUS
    <3>3. Iterates([n \in 0 .. 0 |-> s], S, next, s, 0)
      BY <3>1, <3>2 DEF Iterates
    <3> QED BY <3>3
  <2>3. m - 1 \in Nat /\ Exists(m - 1)
    <3>1. m \in Nat /\ m - 1 \in Nat /\ ~(m <= m - 1)
      BY <2>2
    <3>2. m - 1 \notin bad
      BY <2>1, <3>1
    <3> QED BY <3>1, <3>2
  <2>4. PICK c \in [0 .. m - 1 -> S] : c[0] = s /\ \A n \in 1 .. m - 1 : c[n] = next[c[n - 1]]
    BY <2>3 DEF Iterates
  <2> DEFINE d == [n \in 0 .. m |-> IF n = m THEN next[c[m - 1]] ELSE c[n]]
  <2>5. /\ m \in Nat /\ m - 1 \in 0 .. m - 1 /\ 0 \in 0 .. m
        /\ \A n \in 0 .. m : n # m => n \in 0 .. m - 1
        /\ \A n \in 1 .. m : n - 1 \in 0 .. m - 1 /\ n - 1 # m /\ n - 1 \in 0 .. m /\ n \in 0 .. m
        /\ \A n \in 1 .. m : n # m => n \in 1 .. m - 1
    BY <2>3
  <2>6. d \in [0 .. m -> S]
    BY <2>4, <2>5
  <2>7. d[0] = s
    BY <2>2, <2>4, <2>5
  <2>8. \A n \in 1 .. m : d[n] = next[d[n - 1]]
    <3> TAKE n \in 1 .. m
    <3>1. d[n - 1] = c[n - 1]
      BY <2>5
    <3>2. d[n] = IF n = m THEN next[c[m - 1]] ELSE c[n]
      BY <2>5
    <3> HIDE DEF d
    <3>3. CASE n = m
      BY <3>1, <3>2, <3>3
    <3>4. CASE n # m
      BY <2>4, <2>5, <3>1, <3>2, <3>4
    <3> QED BY <3>3, <3>4
  <2> HIDE DEF d
  <2>9. Iterates(d, S, next, s, m)
    BY <2>6, <2>7, <2>8 DEF Iterates
  <2> QED BY <2>9
<1> QED BY <1>1, <1>2

\* The queue's threads are distinct, so there are not more than NTHREADS.
LEMMA QueueFits ==
  ASSUME NEW s \in Seq(Threads), \A i, j \in 1 .. Len(s) : s[i] = s[j] => i = j
  PROVE  Len(s) \in 0 .. NTHREADS
<1>1. Len(s) \in Nat /\ \A i \in 1 .. Len(s) : s[i] \in Threads
  BY ElementOfSeq
<1> DEFINE f == [i \in 1 .. Len(s) |-> s[i]]
<1>2. f \in Injection(1 .. Len(s), Threads)
  BY <1>1 DEF Injection, IsInjective
<1>3. IsFiniteSet(Threads) /\ Cardinality(Threads) = NTHREADS
  BY FS_Interval, NTHREADSAssumption DEF Threads
<1>4. Cardinality(1 .. Len(s)) = Len(s)
  <2>1. \A n \in Nat : Cardinality(1 .. n) = IF 1 > n THEN 0 ELSE n - 1 + 1
    BY FS_Interval
  <2> QED BY <1>1, <2>1
<1>5. Cardinality(1 .. Len(s)) <= Cardinality(Threads)
  BY <1>2, <1>3, FS_Injection
<1> QED BY <1>1, <1>3, <1>4, <1>5, NTHREADSAssumption

\* The path from a root is the root and what qnext leads to.
LEMMA PathIs ==
  ASSUME qnext \in [Node -> Node], NEW q \in Node
  PROVE  /\ Path(q)[0] = q
         /\ \A n \in 1 .. NTHREADS + 2 : Path(q)[n] = qnext[Path(q)[n - 1]]
<1> DEFINE N == NTHREADS + 2
           Eq(p) == p = [n \in 0 .. N |-> IF n = 0 THEN q ELSE qnext[p[n - 1]]]
<1>1. N \in Nat
  BY NTHREADSAssumption
<1>2. PICK c : Iterates(c, Node, qnext, q, N)
  <2> HIDE DEF N
  <2> QED BY <1>1, IterationExists
<1>3. Eq(c)
  <2> HIDE DEF N
  <2>1. \A n \in 0 .. N : n # 0 => n \in 1 .. N
    BY <1>1
  <2>2. \A n \in 0 .. N : c[n] = IF n = 0 THEN q ELSE qnext[c[n - 1]]
    BY <1>2, <2>1 DEF Iterates
  <2> QED BY <1>2, <2>2 DEF Iterates
<1> DEFINE d == CHOOSE p : Eq(p)
<1>4. Path(q) = d
  BY DEF Path
<1>5. Eq(d)
  BY <1>3
<1> HIDE DEF d
<1>6. d[0] = q /\ \A n \in 1 .. N : d[n] = qnext[d[n - 1]]
  <2>1. 0 \in 0 .. N /\ \A n \in 1 .. N : n \in 0 .. N /\ n # 0
    BY <1>1
  <2>2. \A n \in 0 .. N : d[n] = IF n = 0 THEN q ELSE qnext[d[n - 1]]
    BY <1>5
  <2> HIDE DEF N
  <2> QED BY <2>1, <2>2
<1> QED BY <1>4, <1>6

\* On a ring it meets the places of the queue, one after the other.
LEMMA PathMeets ==
  ASSUME qnext \in [Node -> Node], NEW q \in Queues, NEW s \in Seq(Threads),
         RingOf(qnext, qprev, s, q), Len(s) \in 0 .. NTHREADS
  PROVE  \A n \in 0 .. Len(s) + 1 : Path(q)[n] = Place(s, q, n)
<1> DEFINE bad == {n \in 0 .. Len(s) + 1 : Path(q)[n] # Place(s, q, n)}
<1>1. CASE bad = {}
  BY <1>1
<1>2. CASE bad # {}
  <2>1. bad \in SUBSET Nat
    OBVIOUS
  <2> HIDE DEF bad
  <2>2. PICK n \in bad : \A m \in bad : n <= m
    BY <1>2, <2>1, MinOf
  <2>3. n \in 0 .. Len(s) + 1 /\ Path(q)[n] # Place(s, q, n)
    BY <2>2 DEF bad
  <2>4. n # 0
    BY <2>3, PathIs, QueueFacts DEF Place
  <2>5. n - 1 \in 0 .. Len(s) /\ n - 1 + 1 = n /\ n \in 1 .. NTHREADS + 2 /\ ~(n <= n - 1)
    BY <2>3, <2>4, NTHREADSAssumption
  <2>6. Path(q)[n - 1] = Place(s, q, n - 1)
    <3>1. n - 1 \notin bad
      BY <2>2, <2>5
    <3>2. n - 1 \in 0 .. Len(s) + 1
      BY <2>5
    <3> QED BY <3>1, <3>2 DEF bad
  <2>7. qnext[Place(s, q, n - 1)] = Place(s, q, n)
    BY <2>5 DEF RingOf
  <2>8. Path(q)[n] = qnext[Path(q)[n - 1]]
    BY <2>5, PathIs, QueueFacts
  <2> QED BY <2>3, <2>6, <2>7, <2>8
<1> QED BY <1>1, <1>2

\* While neither the handler nor a block is half done, there are both rings.
LEMMA OutsideRings ==
  ASSUME ClockInv, Settled, NEW q \in Queues
  PROVE  LET s == order[q] IN
         /\ s \in Seq(Threads) /\ Len(s) \in 0 .. NTHREADS
         /\ RingOf(qnext, qprev, s, q)
         /\ \A n \in 0 .. Len(s) + 1 : Path(q)[n] = Place(s, q, n)
<1> DEFINE s == order[q]
<1>1. qnext \in [Node -> Node] /\ Queued(qnext, qprev, SeenHome, order)
  BY BaseNow, SeenOutside, SeenIsNow DEF ClockInv, Settled, SeenTypes, SeenQueued
<1>2. s \in Seq(Threads) /\ RingOf(qnext, qprev, s, q)
  BY <1>1 DEF Queued
<1>3. \A i, j \in 1 .. Len(s) : s[i] = s[j] => i = j
  BY <1>1 DEF Queued
<1>4. Len(s) \in 0 .. NTHREADS
  BY <1>2, <1>3, QueueFits
<1>5. qnext \in [Node -> Node]
  BY <1>1
<1>6. \A n \in 0 .. Len(s) + 1 : Path(q)[n] = Place(s, q, n)
  <2> HIDE DEF s
  <2> QED BY <1>2, <1>4, <1>5, PathMeets
<1> QED BY <1>2, <1>4, <1>6

LEMMA RingLeadsBack ==
  ASSUME ClockInv, Settled, NEW q \in Queues
  PROVE  LeadsBack(q)
<1> DEFINE s == order[q]
<1>1. /\ s \in Seq(Threads) /\ Len(s) \in 0 .. NTHREADS
      /\ RingOf(qnext, qprev, s, q)
      /\ \A n \in 0 .. Len(s) + 1 : Path(q)[n] = Place(s, q, n)
  BY OutsideRings
<1> HIDE DEF s
<1>2. Len(s) + 1 \in 1 .. NTHREADS + 2
  BY <1>1, NTHREADSAssumption
<1>3. Path(q)[Len(s) + 1] = q
  <2>1. Len(s) + 1 \in 0 .. Len(s) + 1 /\ Len(s) + 1 \notin 1 .. Len(s)
    BY <1>1
  <2> QED BY <1>1, <2>1 DEF Place
<1>4. ASSUME NEW m \in 1 .. Len(s) + 1
      PROVE  qprev[Path(q)[m]] = Path(q)[m - 1]
  <2>1. m - 1 \in 0 .. Len(s) /\ m - 1 + 1 = m /\ m \in 0 .. Len(s) + 1 /\ m - 1 \in 0 .. Len(s) + 1
    BY <1>1
  <2>2. qprev[Place(s, q, m - 1 + 1)] = Place(s, q, m - 1)
    BY <1>1, <2>1 DEF RingOf
  <2> QED BY <1>1, <2>1, <2>2
<1> QED BY <1>2, <1>3, <1>4 DEF LeadsBack

-----------------------------------------------------------------------------
(***************************************************************************)
(* The theorems                                                            *)
(***************************************************************************)

\* No tick leaves the ring of the sleep list open (queue.c 6-8), although the
\* loop of timer.c follows a woken thread into the ready list, takes sleepers
\* that are not due off their list, and goes on when the list is empty; a tick
\* that wakes nobody may land between any two assignments of queue.c and
\* sleep.c, the blocks that change the sleep list itself (queue.c 60-76, sleep.c
\* 66-74) excepted.
THEOREM SleepListIsRing ==
  ASSUME SleepRootLinked, TicksWhen \in {"idle", "safe"}
  PROVE  ClockSpec => []SleepLeadsBack
<1>1. ClockInv => SleepLeadsBack
  BY RingLeadsBack, QueueFacts DEF SleepLeadsBack
<1> QED BY <1>1, ClockInvariance, PTL

\* Nor the ring of the ready list, whose own blocks ticks do land in: enqueueing
\* its root makes it the ring of nobody, and what was in it is lost, but a walk
\* over it still ends.
THEOREM ReadyListIsRing ==
  ASSUME SleepRootLinked, TicksWhen \in {"idle", "safe"}
  PROVE  ClockSpec => []ReadyLeadsBack
<1>1. ClockInv => ReadyLeadsBack
  BY RingLeadsBack, QueueFacts DEF ReadyLeadsBack
<1> QED BY <1>1, ClockInvariance, PTL

\* A loop of queue.c or sleep.c is still on the ring it walks after a tick that
\* wakes nobody, whether that came between two of its turns or in the block that
\* it opened (interrupts.h 6, on which the code relies).
THEOREM WalkSurvivesTicks ==
  ASSUME SleepRootLinked, TicksWhen \in {"idle", "safe"}
  PROVE  ClockSpec => []WalkStaysOnRing
<1>1. ClockInv => WalkStaysOnRing
  <2> SUFFICES ASSUME ClockInv, Settled, pc # "idle"
               PROVE  \E n \in 1 .. NTHREADS + 2 : Path(Walked)[n] = curr
    BY DEF WalkStaysOnRing
  <2> DEFINE s == order[Walked]
  <2>1. Walked \in Queues
    BY QueueFacts DEF Walked
  <2>2. pos \in 1 .. Len(s) + 1 /\ curr = Place(s, Walked, pos)
    BY BaseNow, SeenOutside, SeenIsNow DEF ClockInv, SeenWalk, Settled
  <2>3. Len(s) \in 0 .. NTHREADS /\ \A n \in 0 .. Len(s) + 1 : Path(Walked)[n] = Place(s, Walked, n)
    BY <2>1, OutsideRings
  <2> HIDE DEF s
  <2>4. pos \in 1 .. NTHREADS + 2 /\ pos \in 0 .. Len(s) + 1
    BY <2>2, <2>3, NTHREADSAssumption
  <2> QED BY <2>2, <2>3, <2>4
<1> QED BY <1>1, ClockInvariance, PTL

-----------------------------------------------------------------------------
(***************************************************************************)
(* How delays age                                                          *)
(***************************************************************************)

\* What is due at each place is at least one tick, and between what is left of
\* the delay since the call of sleep and since the search of its place.
Aged(due) ==
  LET s == order[sleep_list] IN
  /\ Deltas(SeenKey, due, s)
  /\ \A i \in 1 .. Len(s) : due[s[i]] >= 1 /\ due[s[i]] \in since[s[i]] .. asked[s[i]]
  /\ pc = "enqueue_sleep" => k + At(due, s, pos - 1) \in since[tid] .. asked[tid]

\* So it is, up to the first tick that finds somebody due.
AgeInv ==
  /\ since \in [Threads -> Keys]
  /\ ~woke =>
       /\ SeenHome[NULL] # sleep_list
       /\ pc = "enqueue_sleep" => tid # NULL /\ (pos = 1 => k >= 1)
       /\ pc = "find" => k >= 1 /\ since[tid] <= k
       /\ \E due \in [Threads -> Keys] : Aged(due)

LEMMA BaseDeltas ==
  ASSUME NEW ky, NEW due, NEW s
  PROVE  /\ \A i : Base!At(due, s, i) = At(due, s, i)
         /\ Base!Deltas(ky, due, s) <=> Deltas(ky, due, s)
BY DEF Base!At, At, Base!Deltas, Deltas

\* The sleep list and what is due in it.
LEMMA Sleepers ==
  ASSUME ClockInv, hpc # "walk"
  PROVE  LET s == order[sleep_list] IN
         /\ s \in Seq(Threads) /\ Len(s) \in Nat
         /\ \A i \in 1 .. Len(s) : s[i] \in Threads /\ SeenHome[s[i]] = sleep_list
         /\ \A i, j \in 1 .. Len(s) : s[i] = s[j] => i = j
         /\ \A t \in Threads : SeenHome[t] = sleep_list => \E i \in 1 .. Len(s) : s[i] = t
<1>1. Queued(SeenNext, SeenPrev, SeenHome, order)
  BY BaseNow, SeenOutside DEF ClockInv, SeenQueued
<1> DEFINE s == order[sleep_list]
<1>2. /\ s \in Seq(Threads)
      /\ \A i \in 1 .. Len(s) : SeenHome[s[i]] = sleep_list
      /\ \A i, j \in 1 .. Len(s) : s[i] = s[j] => i = j
      /\ \A t \in Threads : SeenHome[t] = sleep_list => \E i \in 1 .. Len(s) : s[i] = t
  BY <1>1, QueueFacts DEF Queued
<1> HIDE DEF s
<1>3. Len(s) \in Nat /\ \A i \in 1 .. Len(s) : s[i] \in Threads
  BY <1>2, ElementOfSeq
<1> QED BY <1>2, <1>3 DEF s

\* Which delays run.
LEMMA CountedSeen ==
  ASSUME hpc # "walk"
  PROVE  \A t \in Threads :
           Counted(t) <=> SeenHome[t] = sleep_list
                          \/ (pc \in {"find", "enqueue_sleep"} /\ t = tid)
BY SeenOutside, ClockFacts, QueueFacts DEF Counted

LEMMA CountedSeenNext ==
  ASSUME hpc' # "walk"
  PROVE  \A t \in Threads :
           Counted(t)' <=> SeenHome'[t] = sleep_list
                           \/ (pc' \in {"find", "enqueue_sleep"} /\ t = tid')
BY SeenOutsideNext, ClockFacts, QueueFacts DEF Counted

\* A tick that finds nobody due takes one from all that is due, in the list and
\* since the call; what is due is more than that.
LEMMA AgeTick ==
  ASSUME ClockInv, AgeInv, Tick, linking # sleep_list
  PROVE  AgeInv'
<1> DEFINE s == order[sleep_list]
           sleepers == {t \in Threads : home[t] = sleep_list}
           counted == {t \in Threads : Counted(t)}
<1>1. /\ hpc = "out" /\ hpc' = "loop"
      /\ asked' = OneLess(asked, sleepers)
      /\ since' = OneLess(since, counted)
      /\ woke' = (woke \/ ~NobodyDue)
      /\ UNCHANGED <<home, pc, tid, k, order, pos>>
  BY DEF Tick, locals
<1>2. /\ SeenKey \in [Node -> Keys] /\ asked \in [Threads -> Keys] /\ since \in [Threads -> Keys]
      /\ tid \in Threads /\ k \in Keys /\ pos \in Nat
      /\ Keys = 0 .. KeyMod - 1 /\ KeyMod \in Nat /\ KeyMod > 0
  BY BaseNow, KeyModAssumption DEF ClockInv, SeenTypes, AgeInv, Keys
<1>3. /\ s \in Seq(Threads) /\ Len(s) \in Nat
      /\ \A i \in 1 .. Len(s) : s[i] \in Threads /\ SeenHome[s[i]] = sleep_list
      /\ \A i, j \in 1 .. Len(s) : s[i] = s[j] => i = j
      /\ \A t \in Threads : SeenHome[t] = sleep_list => \E i \in 1 .. Len(s) : s[i] = t
  BY <1>1, Sleepers
<1>4. /\ SeenHome' = SeenHome
      /\ SeenKey' = IF qnext[sleep_list] # sleep_list THEN KeyTake(SeenKey, qnext[sleep_list], 1)
                    ELSE SeenKey
  BY BaseNow, TickSeen DEF ClockInv
<1>5. /\ \A t \in Threads : home[t] = sleep_list <=> SeenHome[t] = sleep_list
      /\ \A t \in Threads : t \in sleepers => t \in counted
      /\ pc \in {"find", "enqueue_sleep"} => tid \in counted
  BY <1>1, <1>2, SeenOutside, ClockFacts, QueueFacts DEF Counted
<1>6. \A t \in Threads :
        /\ since'[t] = IF t \in counted /\ since[t] > 0 THEN since[t] - 1 ELSE since[t]
        /\ asked'[t] = IF t \in sleepers /\ asked[t] > 0 THEN asked[t] - 1 ELSE asked[t]
  BY <1>1 DEF OneLess
<1>7. since' \in [Threads -> Keys]
  <2>1. \A t \in Threads : since[t] \in Keys
    BY <1>2
  <2>2. \A t \in Threads : since'[t] \in Keys
    BY <1>2, <1>6, <2>1
  <2> QED BY <1>1, <2>2 DEF OneLess
<1>8. ASSUME ~woke'
      PROVE  /\ SeenHome'[NULL] # sleep_list
             /\ pc' = "enqueue_sleep" => tid' # NULL /\ (pos' = 1 => k' >= 1)
             /\ pc' = "find" => k' >= 1 /\ since'[tid'] <= k'
             /\ \E due \in [Threads -> Keys] : Aged(due)'
  <2>1. ~woke /\ NobodyDue
    BY <1>1, <1>8
  <2>2. /\ SeenHome[NULL] # sleep_list
        /\ pc = "enqueue_sleep" => tid # NULL /\ (pos = 1 => k >= 1)
        /\ pc = "find" => k >= 1 /\ since[tid] <= k
    BY <2>1 DEF AgeInv
  <2>3. PICK due \in [Threads -> Keys] : Aged(due)
    BY <2>1 DEF AgeInv
  <2>4. /\ \A i \in 1 .. Len(s) : SeenKey[s[i]] = due[s[i]] - At(due, s, i - 1)
        /\ \A i \in 1 .. Len(s) : due[s[i]] >= 1 /\ due[s[i]] \in since[s[i]] .. asked[s[i]]
        /\ pc = "enqueue_sleep" => k + At(due, s, pos - 1) \in since[tid] .. asked[tid]
    BY <2>3 DEF Aged, Deltas
  <2>5. /\ qnext[sleep_list] = Place(s, sleep_list, 1)
        /\ \A i \in 1 .. Len(s) + 1 :
             key[Place(s, sleep_list, i)] = SeenKey[Place(s, sleep_list, i)]
    BY <1>1, SleepList, BaseNow DEF ClockInv
  <2>6. 1 \in 1 .. Len(s) =>
          /\ SeenKey' = [SeenKey EXCEPT ![s[1]] = (SeenKey[s[1]] - 1) % KeyMod]
          /\ \A i \in 1 .. Len(s) : SeenKey'[s[i]] # 0
    <3> SUFFICES ASSUME 1 \in 1 .. Len(s)
                 PROVE  /\ SeenKey' = [SeenKey EXCEPT ![s[1]] = (SeenKey[s[1]] - 1) % KeyMod]
                        /\ \A i \in 1 .. Len(s) : SeenKey'[s[i]] # 0
      OBVIOUS
    <3>1. qnext[sleep_list] = s[1] /\ s[1] # sleep_list
      BY <1>3, <2>5, QueueFacts DEF Place
    <3>2. SeenKey' = [SeenKey EXCEPT ![s[1]] = (SeenKey[s[1]] - 1) % KeyMod]
      BY <1>4, <3>1 DEF KeyTake
    <3>3. ASSUME NEW i \in 1 .. Len(s)
          PROVE  SeenKey'[s[i]] # 0
      <4>1. Decremented[s[i]] # 0
        BY <2>1 DEF NobodyDue, ToSet, Due
      <4>2. Decremented = [key EXCEPT ![s[1]] = (key[s[1]] - 1) % KeyMod]
        BY <3>1 DEF Decremented, KeyTake
      <4>3. key = [n \in Node |-> key[n]]
        BY DEF ClockInv, BlockInv, IsMem, Memory, OnNodes
      <4>4. key[s[i]] = SeenKey[s[i]] /\ key[s[1]] = SeenKey[s[1]] /\ s[i] \in Node /\ s[1] \in Node
        <5>1. i \in 1 .. Len(s) + 1 /\ Place(s, sleep_list, i) = s[i]
          BY <1>3 DEF Place
        <5>2. 1 \in 1 .. Len(s) + 1 /\ Place(s, sleep_list, 1) = s[1]
          BY <1>3 DEF Place
        <5>3. s[i] \in Node /\ s[1] \in Node
          BY <1>3, QueueFacts
        <5>4. key[s[i]] = SeenKey[s[i]]
          BY <2>5, <5>1
        <5>5. key[s[1]] = SeenKey[s[1]]
          BY <2>5, <5>2
        <5> QED BY <5>3, <5>4, <5>5
      <4> DEFINE x == s[i]
                 y == s[1]
                 v == (SeenKey[y] - 1) % KeyMod
      <4>5. /\ Decremented[x] # 0 /\ Decremented = [key EXCEPT ![y] = v]
            /\ key = [n \in Node |-> key[n]] /\ SeenKey \in [Node -> Keys]
            /\ key[x] = SeenKey[x] /\ x \in Node /\ y \in Node
            /\ SeenKey' = [SeenKey EXCEPT ![y] = v]
        BY <1>2, <3>2, <4>1, <4>2, <4>3, <4>4
      <4> HIDE DEF x, y, v
      <4>6. SeenKey'[x] # 0
        BY <4>5
      <4> QED BY <4>6 DEF x
    <3> QED BY <3>2, <3>3
  <2> HIDE DEF s, sleepers, counted
  <2>7. /\ 1 \in 1 .. Len(s) => /\ SeenKey'[s[1]] = SeenKey[s[1]] - 1
                                /\ due[s[1]] >= 2
        /\ \A i \in 1 .. Len(s) : i # 1 => SeenKey'[s[i]] = SeenKey[s[i]] /\ SeenKey[s[i]] # 0
    <3>1. CASE 1 \notin 1 .. Len(s)
      BY <1>3, <3>1
    <3>2. CASE 1 \in 1 .. Len(s)
      <4>1. \A i \in 1 .. Len(s) : s[i] \in Node
        BY <1>3, QueueFacts
      <4>2. SeenKey[s[1]] = due[s[1]]
        <5>1. At(due, s, 1 - 1) = 0
          BY <1>3 DEF At
        <5>2. due[s[1]] \in Keys
          BY <1>3, <3>2
        <5> QED BY <1>2, <2>4, <3>2, <5>1, <5>2
      <4>3. SeenKey[s[1]] - 1 \in Nat /\ SeenKey[s[1]] - 1 < KeyMod /\ SeenKey[s[1]] \in Int
        <5>1. SeenKey[s[1]] >= 1 /\ SeenKey[s[1]] \in Keys
          BY <1>2, <2>4, <3>2, <4>1, <4>2
        <5> QED BY <1>2, <5>1
      <4>4. (SeenKey[s[1]] - 1) % KeyMod = SeenKey[s[1]] - 1
        <5> DEFINE v == SeenKey[s[1]] - 1
        <5> HIDE DEF v
        <5>1. v \in Nat /\ v < KeyMod
          BY <4>3 DEF v
        <5>2. v % KeyMod = v
          BY <1>2, <5>1, Wraps
        <5> QED BY <5>2 DEF v
      <4>5. /\ SeenKey'[s[1]] = SeenKey[s[1]] - 1
            /\ \A i \in 1 .. Len(s) : i # 1 => SeenKey'[s[i]] = SeenKey[s[i]]
        <5>1. SeenKey' = [SeenKey EXCEPT ![s[1]] = SeenKey[s[1]] - 1]
          BY <2>6, <3>2, <4>4
        <5>2. \A i \in 1 .. Len(s) : i # 1 => s[i] # s[1]
          BY <1>3, <3>2
        <5> QED BY <1>2, <3>2, <4>1, <5>1, <5>2
      <4>6. SeenKey'[s[1]] # 0 /\ \A i \in 1 .. Len(s) : i # 1 => SeenKey[s[i]] # 0
        BY <2>6, <3>2, <4>5
      <4>7. SeenKey[s[1]] - 1 # 0
        BY <4>5, <4>6
      <4>8. due[s[1]] >= 2
        BY <4>2, <4>3, <4>7
      <4> QED BY <4>5, <4>6, <4>8
    <3> QED BY <3>1, <3>2
  <2>8. \A i \in 1 .. Len(s) : due[s[i]] >= 2 /\ due[s[i]] \in Keys /\ s[i] \in Threads
    <3> SUFFICES ASSUME NEW i \in 1 .. Len(s), i # 1 PROVE due[s[i]] >= 2
      BY <1>3, <2>7
    <3>1. /\ i - 1 \in 1 .. Len(s) /\ i \in Int
      BY <1>3
    <3>2. At(due, s, i - 1) = due[s[i - 1]]
      BY <3>1 DEF At
    <3>3. /\ due[s[i]] \in Keys /\ due[s[i - 1]] \in Keys /\ SeenKey[s[i]] \in Keys
      BY <1>2, <1>3, <3>1, QueueFacts
    <3>4. /\ SeenKey[s[i]] = due[s[i]] - due[s[i - 1]] /\ due[s[i - 1]] >= 1 /\ SeenKey[s[i]] # 0
      BY <2>4, <2>7, <3>1, <3>2
    <3> DEFINE a == due[s[i]]
               b == due[s[i - 1]]
               c == SeenKey[s[i]]
    <3>5. a \in Nat /\ b \in Nat /\ c \in Nat /\ c = a - b /\ b >= 1 /\ c # 0
      BY <1>2, <3>3, <3>4
    <3> HIDE DEF a, b, c
    <3>6. a >= 2
      BY <3>5
    <3> QED BY <3>6 DEF a
  <2> DEFINE due2 == [t \in Threads |-> IF SeenHome[t] = sleep_list THEN due[t] - 1 ELSE due[t]]
  <2>9. due2 \in [Threads -> Keys]
    <3>1. ASSUME NEW t \in Threads, SeenHome[t] = sleep_list PROVE due[t] - 1 \in Keys
      <4>1. PICK i \in 1 .. Len(s) : s[i] = t
        BY <1>3, <3>1
      <4> QED BY <1>2, <2>8, <4>1
    <3> QED BY <3>1
  <2>10. \A i \in 1 .. Len(s) : due2[s[i]] = due[s[i]] - 1
    BY <1>3
  <2> HIDE DEF due2
  <2>11. \A i \in 1 .. Len(s) : At(due2, s, i) = due[s[i]] - 1 /\ At(due, s, i) = due[s[i]]
    BY <2>10 DEF At
  <2>12. At(due2, s, 0) = 0 /\ At(due, s, 0) = 0
    BY <1>3 DEF At
  <2>13. Deltas(SeenKey', due2, s)
    <3> SUFFICES ASSUME NEW i \in 1 .. Len(s)
                 PROVE  SeenKey'[s[i]] = due2[s[i]] - At(due2, s, i - 1)
      BY DEF Deltas
    <3>1. due[s[i]] \in Int
      BY <1>2, <2>8
    <3>2. CASE i = 1
      <4>1. SeenKey[s[1]] = due[s[1]] - 0
        BY <2>4, <2>12, <3>2
      <4> QED BY <2>7, <2>10, <2>12, <3>1, <3>2, <4>1
    <3>3. CASE i # 1
      <4>1. i - 1 \in 1 .. Len(s)
        BY <1>3, <3>3
      <4>2. due[s[i - 1]] \in Int
        BY <1>2, <2>8, <4>1
      <4>3. SeenKey'[s[i]] = due[s[i]] - due[s[i - 1]]
        BY <2>4, <2>7, <2>11, <3>3, <4>1
      <4>4. due2[s[i]] - At(due2, s, i - 1) = (due[s[i]] - 1) - (due[s[i - 1]] - 1)
        BY <2>10, <2>11, <4>1
      <4> DEFINE a == due[s[i]]
                 b == due[s[i - 1]]
      <4>5. a \in Int /\ b \in Int
        BY <3>1, <4>2
      <4> HIDE DEF a, b
      <4>6. (a - 1) - (b - 1) = a - b
        BY <4>5
      <4> QED BY <4>3, <4>4, <4>6 DEF a, b
    <3> QED BY <3>2, <3>3
  <2>14. ASSUME NEW i \in 1 .. Len(s)
         PROVE  due2[s[i]] >= 1 /\ due2[s[i]] \in since'[s[i]] .. asked'[s[i]]
    <3> DEFINE n == s[i]
    <3>1. n \in Threads /\ n \in sleepers /\ n \in counted
      BY <1>3, <1>5 DEF sleepers
    <3>2. /\ since[n] \in Keys /\ asked[n] \in Keys /\ due[n] \in Keys
          /\ due[n] >= 2 /\ since[n] <= due[n] /\ due[n] <= asked[n] /\ due2[n] = due[n] - 1
      <4>1. since[n] \in Keys /\ asked[n] \in Keys /\ due[n] \in Keys
        BY <1>2, <3>1
      <4>2. due[n] >= 2 /\ due[n] \in since[n] .. asked[n] /\ due2[n] = due[n] - 1
        BY <2>4, <2>8, <2>10
      <4> DEFINE a == since[n]
                 b == asked[n]
                 c == due[n]
      <4>3. a \in Nat /\ b \in Nat /\ c \in Nat /\ c \in a .. b
        BY <1>2, <4>1, <4>2
      <4> HIDE DEF a, b, c
      <4>4. a <= c /\ c <= b
        BY <4>3
      <4> QED BY <4>1, <4>2, <4>4 DEF a, b, c
    <3>3. /\ since'[n] = IF since[n] > 0 THEN since[n] - 1 ELSE since[n]
          /\ asked'[n] = IF asked[n] > 0 THEN asked[n] - 1 ELSE asked[n]
      BY <1>6, <3>1
    <3> DEFINE a == since[n]
               a2 == since'[n]
               b == asked[n]
               b2 == asked'[n]
               d == due[n]
    <3>4. /\ a \in Nat /\ b \in Nat /\ d \in Nat /\ d >= 2 /\ a <= d /\ d <= b
          /\ a2 = (IF a > 0 THEN a - 1 ELSE a) /\ b2 = (IF b > 0 THEN b - 1 ELSE b)
      BY <1>2, <3>2, <3>3
    <3> HIDE DEF a, a2, b, b2, d
    <3>5. d - 1 >= 1 /\ d - 1 \in a2 .. b2
      BY <3>4
    <3> HIDE DEF n
    <3> QED BY <3>2, <3>5 DEF n, a2, b2, d
  <2>15. pc = "enqueue_sleep" => k + At(due2, s, pos - 1) \in since'[tid] .. asked'[tid]
    <3> SUFFICES ASSUME pc = "enqueue_sleep"
                 PROVE  k + At(due2, s, pos - 1) \in since'[tid] .. asked'[tid]
      OBVIOUS
    <3>1. pos \in 1 .. Len(s) + 1 /\ SeenHome[tid] = NoQueue
      BY <1>1, BaseNow, SeenOutside DEF ClockInv, SeenWalk, Walked, s
    <3>2. tid \notin sleepers /\ tid \in counted
      BY <1>2, <1>5, <3>1, QueueFacts DEF sleepers
    <3>3. /\ asked'[tid] = asked[tid] /\ asked[tid] \in Keys /\ since[tid] \in Keys
          /\ since'[tid] = IF since[tid] > 0 THEN since[tid] - 1 ELSE since[tid]
      BY <1>2, <1>6, <3>2
    <3>4. k + At(due, s, pos - 1) \in since[tid] .. asked[tid]
      BY <2>4
    <3>5. CASE pos = 1
      <4>1. At(due2, s, pos - 1) = 0 /\ At(due, s, pos - 1) = 0
        BY <2>12, <3>5
      <4> QED BY <1>2, <3>3, <3>4, <4>1
    <3>6. CASE pos # 1
      <4>1. pos - 1 \in 1 .. Len(s)
        BY <1>3, <3>1, <3>6
      <4>2. /\ At(due2, s, pos - 1) = due[s[pos - 1]] - 1 /\ At(due, s, pos - 1) = due[s[pos - 1]]
            /\ due[s[pos - 1]] \in Keys /\ due[s[pos - 1]] >= 2
        BY <2>8, <2>11, <4>1
      <4> DEFINE a == due[s[pos - 1]]
                 b == since[tid]
                 b2 == since'[tid]
                 c == asked[tid]
      <4>3. /\ a \in Nat /\ b \in Nat /\ c \in Nat /\ k \in Nat /\ a >= 2
            /\ b <= k + a /\ k + a <= c
            /\ b2 = IF b > 0 THEN b - 1 ELSE b
        BY <1>2, <3>3, <3>4, <4>2
      <4> HIDE DEF a, b, b2, c
      <4>4. k + (a - 1) \in b2 .. c
        BY <4>3
      <4> QED BY <3>3, <4>2, <4>4 DEF a, b2, c
    <3> QED BY <3>5, <3>6
  <2>16. pc = "find" => since'[tid] <= k
    <3> DEFINE b == since[tid]
               b2 == since'[tid]
    <3>1. b \in Nat /\ (b2 = b - 1 \/ b2 = b) /\ k \in Nat /\ (pc = "find" => b <= k)
      BY <1>2, <1>6, <2>2
    <3> HIDE DEF b, b2
    <3>2. pc = "find" => b2 <= k
      BY <3>1
    <3> QED BY <3>2 DEF b2
  <2>17. PICK aged \in [Threads -> Keys] : aged = due2
    BY <2>9
  <2>18. Aged(aged)'
    <3>1. order'[sleep_list] = s
      BY <1>1 DEF s
    <3>2. pc' = pc /\ k' = k /\ pos' = pos /\ tid' = tid
      BY <1>1
    <3>3. pc' = "enqueue_sleep" =>
            k' + At(due2, s, pos' - 1) \in since'[tid'] .. asked'[tid']
      BY <2>15, <3>2
    <3> QED BY <2>13, <2>14, <2>17, <3>1, <3>3 DEF Aged
  <2>19. pc' = pc /\ k' = k /\ pos' = pos /\ tid' = tid
    BY <1>1
  <2>20. SeenHome'[NULL] # sleep_list
    BY <1>4, <2>2
  <2>21. pc' = "enqueue_sleep" => tid' # NULL /\ (pos' = 1 => k' >= 1)
    BY <2>2, <2>19
  <2>22. pc' = "find" => k' >= 1 /\ since'[tid'] <= k'
    BY <2>2, <2>16, <2>19
  <2> QED BY <2>17, <2>18, <2>20, <2>21, <2>22
<1> QED BY <1>7, <1>8 DEF AgeInv

\* The elements of a queue into which an element was put.
LEMMA Inserted ==
  ASSUME NEW s \in Seq(Threads), NEW e \in Threads, NEW p \in 1 .. Len(s) + 1,
         NEW i \in 1 .. Len(InsertAt(s, p, e))
  PROVE  InsertAt(s, p, e)[i] = e \/ \E j \in 1 .. Len(s) : InsertAt(s, p, e)[i] = s[j]
<1> DEFINE u == InsertAt(s, p, e)
<1>0. Len(s) \in Nat
  BY ElementOfSeq
<1>1. /\ Len(s) \in Nat /\ Len(u) = Len(s) + 1
      /\ \A j \in 1 .. Len(s) + 1 : u[j] = IF j < p THEN s[j] ELSE IF j = p THEN e ELSE s[j - 1]
  <2>1. /\ Len(u) = Len(s) + 1
        /\ \A j \in 1 .. Len(s) + 1 :
             u[j] = IF j < p THEN s[j] ELSE IF j = p THEN e ELSE s[j - 1]
    BY InsertAtElements
  <2> QED BY <1>0, <2>1
<1> HIDE DEF u
<1>2. u[i] = IF i < p THEN s[i] ELSE IF i = p THEN e ELSE s[i - 1]
  BY <1>1 DEF u
<1>3. CASE i < p
  <2>1. i \in 1 .. Len(s)
    BY <1>1, <1>3 DEF u
  <2> QED BY <1>2, <1>3, <2>1 DEF u
<1>4. CASE i = p
  BY <1>2, <1>4 DEF u
<1>5. CASE i > p
  <2>1. i - 1 \in 1 .. Len(s) /\ ~(i < p) /\ i # p
    BY <1>1, <1>5 DEF u
  <2> QED BY <1>2, <2>1 DEF u
<1>6. i < p \/ i = p \/ i > p
  BY <1>1 DEF u
<1> QED BY <1>3, <1>4, <1>5, <1>6

LEMMA Removed ==
  ASSUME NEW s \in Seq(Threads), NEW p \in 1 .. Len(s), NEW i \in 1 .. Len(RemoveAt(s, p))
  PROVE  \E j \in 1 .. Len(s) : RemoveAt(s, p)[i] = s[j]
<1> DEFINE u == RemoveAt(s, p)
<1>1. /\ Len(s) \in Nat /\ Len(u) = Len(s) - 1
      /\ \A j \in 1 .. Len(s) - 1 : u[j] = IF j < p THEN s[j] ELSE s[j + 1]
  BY RemoveAtElements, ElementOfSeq
<1> HIDE DEF u
<1>2. u[i] = (IF i < p THEN s[i] ELSE s[i + 1]) /\ i \in 1 .. Len(s) /\ i + 1 \in 1 .. Len(s)
  BY <1>1 DEF u
<1> QED BY <1>2 DEF u

\* What a step of a call finds.
AgeContext ==
  /\ ClockInv /\ AgeInv /\ hpc = "out" /\ hpc' = "out" /\ Base!Next
  /\ since' = [t \in Threads |->
                IF ~Counted(t)' THEN 0 ELSE IF Counted(t) THEN since[t] ELSE k']
  /\ woke' = woke

LEMMA AgeTypes ==
  ASSUME AgeContext
  PROVE  /\ SeenKey \in [Node -> Keys] /\ asked \in [Threads -> Keys]
         /\ since \in [Threads -> Keys]
         /\ tid \in Threads /\ k \in Keys /\ pos \in Nat /\ tid' \in Threads /\ k' \in Keys
         /\ SeenKey' \in [Node -> Keys] /\ asked' \in [Threads -> Keys] /\ pos' \in Nat
         /\ since' \in [Threads -> Keys]
         /\ SeenHome \in [Threads -> Queues \cup {NoQueue}]
         /\ Keys = 0 .. KeyMod - 1 /\ KeyMod \in Nat /\ KeyMod > 0
         /\ Base!IInv /\ SeenOrder = order /\ SeenOrder' = order'
         /\ \A i \in 1 .. Len(order'[sleep_list]) :
              /\ order'[sleep_list][i] \in Threads
              /\ SeenHome'[order'[sleep_list][i]] = sleep_list
<1>1. Base!IInv /\ Base!IInv'
  BY Base!StepInvariant, NTHREADSAssumption, KeyModAssumption, DelaysAssumption
  DEF AgeContext, ClockInv, Keys, Base!Keys
<1>2. SeenTypes /\ SeenTypes' /\ SeenQueued /\ SeenQueued'
  BY <1>1, BaseNow, BaseNext
<1>3. /\ SeenKey \in [Node -> Keys] /\ asked \in [Threads -> Keys]
      /\ tid \in Threads /\ k \in Keys /\ pos \in Nat /\ tid' \in Threads /\ k' \in Keys
      /\ SeenKey' \in [Node -> Keys] /\ asked' \in [Threads -> Keys] /\ pos' \in Nat
  BY <1>2 DEF SeenTypes
<1>4. since \in [Threads -> Keys]
  BY DEF AgeContext, AgeInv
<1>5. since' \in [Threads -> Keys]
  <2>1. 0 \in Keys
    BY KeyModAssumption DEF Keys
  <2> QED BY <1>3, <1>4, <2>1 DEF AgeContext
<1>6. SeenHome \in [Threads -> Queues \cup {NoQueue}]
  BY <1>2 DEF SeenQueued, Queued
<1>7. SeenOrder = order /\ SeenOrder' = order'
  BY SeenOutside, SeenOutsideNext DEF AgeContext
<1>8. \A i \in 1 .. Len(order'[sleep_list]) :
        /\ order'[sleep_list][i] \in Threads
        /\ SeenHome'[order'[sleep_list][i]] = sleep_list
  BY <1>2, <1>7, QueueFacts, ElementOfSeq DEF SeenQueued, Queued
<1> QED BY <1>1, <1>3, <1>4, <1>5, <1>6, <1>7, <1>8, KeyModAssumption DEF Keys

\* What is left of a delay is what was left, while the delay runs; it is all of
\* it when sleep is called.
LEMMA AgeSince ==
  ASSUME AgeContext, NEW t \in Threads
  PROVE  /\ /\ SeenHome[t] = sleep_list \/ (pc \in {"find", "enqueue_sleep"} /\ t = tid)
            /\ SeenHome'[t] = sleep_list \/ (pc' \in {"find", "enqueue_sleep"} /\ t = tid')
            => since'[t] = since[t]
         /\ SeenHome[t] # sleep_list /\ pc = "idle" /\ pc' = "find" /\ t = tid' => since'[t] = k'
<1>1. /\ Counted(t) <=> SeenHome[t] = sleep_list \/ (pc \in {"find", "enqueue_sleep"} /\ t = tid)
      /\ Counted(t)' <=> SeenHome'[t] = sleep_list
                         \/ (pc' \in {"find", "enqueue_sleep"} /\ t = tid')
  BY CountedSeen, CountedSeenNext DEF AgeContext
<1>2. since'[t] = IF ~Counted(t)' THEN 0 ELSE IF Counted(t) THEN since[t] ELSE k'
  BY DEF AgeContext
<1> QED BY <1>1, <1>2

\* A new sleeper gets what is left of its delay.
LEMMA AgeLink ==
  ASSUME AgeContext, Base!EnqueueSleepLink, ~woke,
         NEW due \in [Threads -> Keys], Aged(due)
  PROVE  \E aged \in [Threads -> Keys] : Aged(aged)'
<1> DEFINE s == order[sleep_list]
           x == k + At(due, s, pos - 1)
<1>1. pc = "enqueue_sleep" /\ pc' = "idle" /\ asked' = asked
  BY DEF Base!EnqueueSleepLink, Base!EnqueueSleepEnds, Base!Returns
<1>2. /\ tid \in Threads /\ k \in Keys /\ asked \in [Threads -> Keys]
      /\ since \in [Threads -> Keys] /\ Keys = 0 .. KeyMod - 1 /\ KeyMod \in Nat
  BY AgeTypes
<1>3. /\ s \in Seq(Threads) /\ Len(s) \in Nat
      /\ \A i \in 1 .. Len(s) : s[i] \in Threads /\ SeenHome[s[i]] = sleep_list
  BY Sleepers DEF AgeContext
<1>4. /\ tid # NULL /\ (pos = 1 => k >= 1) /\ SeenHome[NULL] # sleep_list
      /\ x \in since[tid] .. asked[tid]
      /\ \A i \in 1 .. Len(s) : due[s[i]] >= 1 /\ due[s[i]] \in since[s[i]] .. asked[s[i]]
      /\ Deltas(SeenKey, due, s)
  BY <1>1 DEF AgeContext, AgeInv, Aged
<1>5. x \in Keys
  <2>1. asked[tid] \in Keys /\ since[tid] \in Keys
    BY <1>2
  <2> HIDE DEF x
  <2> QED BY <1>2, <1>4, <2>1
<1>6. Base!NullAwake
  BY <1>4 DEF Base!NullAwake, Base!NULL, NULL, Base!sleep_list, sleep_list
<1> HIDE DEF x
<1>7. /\ pos \in 1 .. Len(s) + 1
      /\ order'[sleep_list] = InsertAt(s, pos, tid)
      /\ Deltas(SeenKey', [due EXCEPT ![tid] = x], order'[sleep_list])
  <2>1. Base!IInv /\ SeenOrder[Base!sleep_list] = s /\ SeenOrder'[Base!sleep_list] = order'[sleep_list]
    BY AgeTypes DEF Base!sleep_list, sleep_list
  <2>2. x = k + Base!At(due, s, pos - 1) /\ Base!Deltas(SeenKey, due, s)
    BY <1>4, BaseDeltas DEF x
  <2>3. due \in [Base!Threads -> Base!Keys] /\ x \in Base!Keys
    BY <1>5 DEF Base!Threads, Threads, Base!Keys, Keys
  <2> HIDE DEF s
  <2>4. /\ pos \in 1 .. Len(s) + 1
        /\ SeenOrder'[Base!sleep_list] = Base!InsertAt(s, pos, tid)
        /\ Base!Deltas(SeenKey', [due EXCEPT ![tid] = x], SeenOrder'[Base!sleep_list])
    BY <1>6, <2>1, <2>2, <2>3, Base!SleepLinkDeltas,
       NTHREADSAssumption, KeyModAssumption, DelaysAssumption DEF Keys, Base!Keys
  <2>5. Base!InsertAt(s, pos, tid) = InsertAt(s, pos, tid)
    BY DEF Base!InsertAt, InsertAt
  <2> QED BY <2>1, <2>4, <2>5, BaseDeltas
<1> DEFINE u == order'[sleep_list]
<1>8. x >= 1
  <2>1. CASE pos = 1
    <3>1. At(due, s, pos - 1) = 0
      BY <1>3, <2>1 DEF At
    <3> QED BY <1>2, <1>4, <2>1, <3>1 DEF x
  <2>2. CASE pos # 1
    <3>1. pos - 1 \in 1 .. Len(s)
      BY <1>3, <1>7, <2>2
    <3>2. At(due, s, pos - 1) = due[s[pos - 1]]
      BY <3>1 DEF At
    <3>3. due[s[pos - 1]] \in Nat /\ due[s[pos - 1]] >= 1
      <4>1. due[s[pos - 1]] \in Keys
        BY <1>3, <3>1
      <4> QED BY <1>2, <1>4, <3>1, <4>1
    <3> HIDE DEF s
    <3> QED BY <1>2, <3>2, <3>3 DEF x
  <2> QED BY <2>1, <2>2
<1>9. PICK aged \in [Threads -> Keys] : aged = [due EXCEPT ![tid] = x]
  BY <1>2, <1>5
<1>10. ASSUME NEW i \in 1 .. Len(u)
       PROVE  /\ aged[u[i]] >= 1 /\ aged[u[i]] \in since[u[i]] .. asked[u[i]]
              /\ since'[u[i]] = since[u[i]]
  <2>1. u[i] = tid \/ \E j \in 1 .. Len(s) : u[i] = s[j]
    <3> HIDE DEF s
    <3>1. i \in 1 .. Len(InsertAt(s, pos, tid))
      BY <1>7
    <3>2. InsertAt(s, pos, tid)[i] = tid \/ \E j \in 1 .. Len(s) : InsertAt(s, pos, tid)[i] = s[j]
      BY <1>2, <1>3, <1>7, <3>1, Inserted
    <3> QED BY <1>7, <3>2
  <2>4. u[i] \in Threads /\ SeenHome'[u[i]] = sleep_list
    BY AgeTypes
  <2>2. CASE u[i] = tid
    <3>1. since'[u[i]] = since[u[i]]
      BY <1>1, <2>2, <2>4, AgeSince
    <3> QED BY <1>2, <1>4, <1>8, <1>9, <2>2, <3>1
  <2>3. ASSUME NEW j \in 1 .. Len(s), u[i] = s[j], u[i] # tid
        PROVE  /\ aged[u[i]] >= 1 /\ aged[u[i]] \in since[u[i]] .. asked[u[i]]
               /\ since'[u[i]] = since[u[i]]
    <3>1. aged[s[j]] = due[s[j]]
      BY <1>3, <1>9, <2>3
    <3>2. SeenHome[u[i]] = sleep_list
      BY <1>3, <2>3
    <3>3. since'[u[i]] = since[u[i]]
      BY <2>4, <3>2, AgeSince
    <3> QED BY <1>4, <2>3, <3>1, <3>3
  <2> QED BY <2>1, <2>2, <2>3
<1>11. Aged(aged)'
  <2>1. Deltas(SeenKey', aged, u)
    BY <1>7, <1>9
  <2>2. pc' # "enqueue_sleep"
    BY <1>1
  <2>3. \A i \in 1 .. Len(u) : aged[u[i]] >= 1 /\ aged[u[i]] \in since'[u[i]] .. asked'[u[i]]
    BY <1>1, <1>10
  <2> QED BY <2>1, <2>2, <2>3 DEF Aged
<1> QED BY <1>11

\* What is due at the others does not change when one is taken out.
LEMMA AgeUnlink ==
  ASSUME AgeContext, Base!UnsleepUnlink, NEW due \in [Threads -> Keys], Aged(due)
  PROVE  Aged(due)'
<1> DEFINE s == order[sleep_list]
           u == order'[sleep_list]
<1>1. /\ pc' = "enqueue" /\ asked' = [asked EXCEPT ![tid] = 0]
      /\ SeenHome' = [SeenHome EXCEPT ![tid] = Base!NoQueue]
  BY DEF Base!UnsleepUnlink, Base!UnsleepFinds
<1>2. /\ s \in Seq(Threads)
      /\ \A i \in 1 .. Len(s) : s[i] \in Threads /\ SeenHome[s[i]] = sleep_list
  BY Sleepers DEF AgeContext
<1>3. /\ \A i \in 1 .. Len(s) : due[s[i]] >= 1 /\ due[s[i]] \in since[s[i]] .. asked[s[i]]
      /\ Deltas(SeenKey, due, s)
  BY DEF Aged
<1>4. /\ pos \in 1 .. Len(s) /\ u = RemoveAt(s, pos) /\ Deltas(SeenKey', due, u)
  <2>1. Base!IInv /\ SeenOrder[Base!sleep_list] = s /\ SeenOrder'[Base!sleep_list] = u
    BY AgeTypes DEF Base!sleep_list, sleep_list
  <2>2. Base!Deltas(SeenKey, due, s)
    BY <1>3, BaseDeltas
  <2>3. due \in [Base!Threads -> Base!Keys]
    BY DEF Base!Threads, Threads, Base!Keys, Keys
  <2> HIDE DEF s, u
  <2>4. /\ pos \in 1 .. Len(s)
        /\ SeenOrder'[Base!sleep_list] = Base!RemoveAt(s, pos)
        /\ Base!Deltas(SeenKey', due, SeenOrder'[Base!sleep_list])
    BY <2>1, <2>2, <2>3, Base!UnsleepDeltas,
       NTHREADSAssumption, KeyModAssumption, DelaysAssumption DEF Keys, Base!Keys
  <2>5. Base!RemoveAt(s, pos) = RemoveAt(s, pos)
    BY DEF Base!RemoveAt, RemoveAt
  <2> QED BY <2>1, <2>4, <2>5, BaseDeltas
<1>5. ASSUME NEW i \in 1 .. Len(u)
      PROVE  due[u[i]] >= 1 /\ due[u[i]] \in since'[u[i]] .. asked'[u[i]]
  <2>1. PICK j \in 1 .. Len(s) : u[i] = s[j]
    <3> HIDE DEF s, u
    <3>1. i \in 1 .. Len(RemoveAt(s, pos))
      BY <1>4
    <3>2. \E j \in 1 .. Len(s) : RemoveAt(s, pos)[i] = s[j]
      BY <1>2, <1>4, <3>1, Removed
    <3> QED BY <1>4, <3>2
  <2>2. u[i] \in Threads /\ SeenHome[u[i]] = sleep_list /\ SeenHome'[u[i]] = sleep_list
    BY <1>2, <2>1, AgeTypes
  <2>3. u[i] # tid
    <3>1. tid \in Threads /\ SeenHome \in [Threads -> Queues \cup {NoQueue}]
      BY AgeTypes
    <3>2. Base!NoQueue # sleep_list
      BY QueueFacts DEF Base!NoQueue, NoQueue
    <3> QED BY <1>1, <2>2, <3>1, <3>2
  <2>4. since'[u[i]] = since[u[i]]
    BY <2>2, AgeSince
  <2>5. asked'[u[i]] = asked[u[i]]
    <3>1. asked \in [Threads -> Keys]
      BY AgeTypes
    <3> QED BY <1>1, <2>2, <2>3, <3>1
  <2> QED BY <1>3, <2>1, <2>4, <2>5
<1> QED BY <1>1, <1>4, <1>5 DEF Aged

\* How a step of a call gets to thread_enqueue_sleep, and how far it is there.
Arrives ==
  /\ pc = "find" /\ tid' = tid /\ tid # NULL
  /\ pos' = 1 /\ k' = k /\ asked' = [asked EXCEPT ![tid] = k]

GoesOn ==
  /\ pc = "enqueue_sleep" /\ tid' = tid /\ tid # NULL /\ asked' = asked
  /\ pos' = pos + 1 /\ pos \in 1 .. Len(order[sleep_list])
  /\ SeenKey[order[sleep_list][pos]] <= k /\ k' = k - SeenKey[order[sleep_list][pos]]

Stays == pc' = pc /\ tid' = tid /\ k' = k /\ pos' = pos /\ asked' = asked

LEMMA AgeMoves ==
  ASSUME AgeContext, ~woke
  PROVE  /\ SeenHome'[NULL] # sleep_list
         /\ pc' = "enqueue_sleep" => Arrives \/ GoesOn
         /\ pc' = "find" => \/ pc = "idle" /\ k' \in Delays /\ SeenHome[tid'] = ready_list
                            \/ pc = "find" /\ k' = k /\ tid' = tid
<1>1. /\ SeenHome \in [Threads -> Queues \cup {NoQueue}] /\ tid \in Threads
      /\ SeenHome[NULL] # sleep_list /\ (pc = "enqueue_sleep" => tid # NULL)
      /\ Base!IInv /\ SeenOrder = order
  BY AgeTypes DEF AgeContext, AgeInv
<1>2. NoQueue # sleep_list /\ ready_list # sleep_list /\ NULL \in Threads
  BY QueueFacts, NTHREADSAssumption DEF NULL, Threads
<1> USE DEF Base!links, Base!locals, Base!history, Base!ready_list, ready_list,
      Base!sleep_list, sleep_list, Base!NoQueue, NoQueue, Base!NULL, NULL
<1>3. CASE Base!Caller
  <2>1. ASSUME NEW t \in Threads, Base!EnqueueCall(t)
        PROVE  SeenHome' = SeenHome /\ pc' = "enqueue"
    BY <2>1 DEF Base!EnqueueCall
  <2>2. ASSUME NEW t \in Threads, Base!UnsleepCall(t)
        PROVE  SeenHome' = SeenHome /\ pc' = "unfind"
    BY <2>2 DEF Base!UnsleepCall
  <2>3. ASSUME NEW t \in Threads, NEW d \in Delays, Base!SleepCall(t, d)
        PROVE  /\ SeenHome' = SeenHome /\ pc' = "find"
               /\ pc = "idle" /\ k' \in Delays /\ SeenHome[tid'] = ready_list
    BY <2>3 DEF Base!SleepCall
  <2>4. Base!DequeueEmpty => SeenHome' = SeenHome /\ pc' = "idle"
    BY DEF Base!DequeueEmpty
  <2>5. Base!DequeueHead => SeenHome'[NULL] # sleep_list /\ pc' = "idle"
    BY <1>1, <1>2 DEF Base!DequeueHead, Base!DequeueTakes
  <2> QED BY <1>1, <1>3, <2>1, <2>2, <2>3, <2>4, <2>5 DEF Base!Caller, Base!Threads, Threads
<1>4. CASE Base!EnqueueWalk \/ Base!SleepFindWalk \/ Base!UnsleepFindWalk
  BY <1>1, <1>4 DEF Base!EnqueueWalk, Base!SleepFindWalk, Base!UnsleepFindWalk
<1>5. CASE Base!EnqueueLink \/ Base!EnqueueSleepLink
  <2>1. pc' = "idle"
    BY <1>5 DEF Base!EnqueueLink, Base!EnqueueSleepLink, Base!EnqueueEnds, Base!EnqueueSleepEnds,
       Base!Returns
  <2>2. \/ SeenHome' = [SeenHome EXCEPT ![tid] = ready_list]
        \/ pc = "enqueue_sleep" /\ SeenHome' = [SeenHome EXCEPT ![tid] = sleep_list]
    BY <1>5 DEF Base!EnqueueLink, Base!EnqueueSleepLink, Base!EnqueueEnds, Base!EnqueueSleepEnds
  <2>3. SeenHome'[NULL] # sleep_list
    BY <1>1, <1>2, <2>2
  <2> QED BY <2>1, <2>3
<1>6. CASE Base!SleepUnlink
  <2>1. pc = "find" /\ (SeenCurr = Base!ready_list \/ SeenCurr = tid)
    BY <1>6 DEF Base!SleepUnlink, Base!SleepFinds, Base!FindStops
  <2>2. SeenHome'[NULL] # sleep_list
    BY <1>1, <1>2, <1>6 DEF Base!SleepUnlink, Base!SleepFinds
  <2>3. SeenCurr = tid
    <3>1. /\ Base!Walked = Base!ready_list
          /\ SeenNext' = Base!UnlinkNext(SeenNext, SeenPrev, SeenCurr)
          /\ SeenPrev' = Base!UnlinkPrev(SeenNext, SeenPrev, SeenCurr)
          /\ SeenHome' = [SeenHome EXCEPT ![tid] = Base!NoQueue]
          /\ SeenOrder' = [SeenOrder EXCEPT ![Base!Walked] = Base!RemoveAt(@, pos)]
      BY <1>6, <2>1 DEF Base!SleepUnlink, Base!SleepFinds, Base!Walked
    <3> QED BY <1>1, <2>1, <3>1, Base!SearchEnds,
       NTHREADSAssumption, KeyModAssumption, DelaysAssumption DEF Keys, Base!Keys
  <2>4. \/ /\ SeenCurr # NULL /\ pos' = 1 /\ asked' = [asked EXCEPT ![tid] = k]
           /\ tid' = tid /\ k' = k /\ pc' = "enqueue_sleep"
        \/ pc' = "idle"
    BY <1>6 DEF Base!SleepUnlink, Base!SleepFinds, Base!Returns
  <2> QED BY <2>1, <2>2, <2>3, <2>4 DEF Arrives
<1>7. CASE Base!EnqueueSleepWalk
  <2>1. /\ pc = "enqueue_sleep" /\ pc' = pc /\ tid' = tid /\ asked' = asked /\ SeenHome' = SeenHome
        /\ SeenKey[SeenCurr] <= k /\ SeenCurr # sleep_list /\ k' = k - SeenKey[SeenCurr]
        /\ pos' = pos + 1
    BY <1>7 DEF Base!EnqueueSleepWalk, Base!EnqueueSleepPasses
  <2>2. /\ pos \in 1 .. Len(order[sleep_list]) + 1
        /\ SeenCurr = Place(order[sleep_list], sleep_list, pos)
    BY <1>1, <2>1, BaseNow DEF SeenWalk, Walked
  <2>3. pos \in 1 .. Len(order[sleep_list]) /\ SeenCurr = order[sleep_list][pos]
    BY <2>1, <2>2 DEF Place
  <2> QED BY <1>1, <2>1, <2>3 DEF GoesOn
<1>8. CASE Base!UnsleepUnlink
  <2>1. pc' = "enqueue"
    BY <1>8 DEF Base!UnsleepUnlink, Base!UnsleepFinds
  <2>2. SeenHome'[NULL] # sleep_list
    BY <1>1, <1>2, <1>8 DEF Base!UnsleepUnlink, Base!UnsleepFinds
  <2> QED BY <2>1, <2>2
<1> QED BY <1>3, <1>4, <1>5, <1>6, <1>7, <1>8 DEF AgeContext, Base!Next, Base!Progress,
   Base!Walk

\* A step that leaves the sleepers alone.
LEMMA AgeOther ==
  ASSUME AgeContext, ~Base!EnqueueSleepLink, ~Base!UnsleepUnlink, ~woke,
         NEW due \in [Threads -> Keys], Aged(due)
  PROVE  Aged(due)'
<1> DEFINE s == order[sleep_list]
<1>1. /\ order'[sleep_list] = s
      /\ \A i \in 1 .. Len(s) : SeenKey'[s[i]] = SeenKey[s[i]] /\ asked'[s[i]] = asked[s[i]]
  <2>1. Base!IInv /\ SeenOrder = order /\ SeenOrder' = order' /\ [Base!Next]_Base!vars
    BY AgeTypes DEF AgeContext
  <2>2. LET u == SeenOrder[Base!sleep_list] IN
        /\ SeenOrder'[Base!sleep_list] = u
        /\ \A i \in 1 .. Len(u) : SeenKey'[u[i]] = SeenKey[u[i]] /\ asked'[u[i]] = asked[u[i]]
    BY <2>1, Base!SleepersSame,
       NTHREADSAssumption, KeyModAssumption, DelaysAssumption DEF Keys, Base!Keys
  <2> QED BY <2>1, <2>2 DEF Base!sleep_list, sleep_list
<1>2. /\ s \in Seq(Threads) /\ Len(s) \in Nat
      /\ \A i \in 1 .. Len(s) : s[i] \in Threads /\ SeenHome[s[i]] = sleep_list
  BY Sleepers DEF AgeContext
<1>3. /\ SeenKey \in [Node -> Keys] /\ asked \in [Threads -> Keys] /\ since \in [Threads -> Keys]
      /\ tid \in Threads /\ k \in Keys /\ tid' \in Threads
      /\ Keys = 0 .. KeyMod - 1 /\ KeyMod \in Nat
  BY AgeTypes
<1>4. /\ pc' = "enqueue_sleep" => Arrives \/ GoesOn
      /\ pc' = "find" => \/ pc = "idle" /\ SeenHome[tid'] = ready_list
                         \/ pc = "find"
      /\ pc = "find" => since[tid] <= k
  BY AgeMoves DEF AgeContext, AgeInv
<1>5. /\ Deltas(SeenKey, due, s)
      /\ \A i \in 1 .. Len(s) : due[s[i]] >= 1 /\ due[s[i]] \in since[s[i]] .. asked[s[i]]
      /\ pc = "enqueue_sleep" => k + At(due, s, pos - 1) \in since[tid] .. asked[tid]
  BY DEF Aged
<1>6. \A i \in 1 .. Len(s) : since'[s[i]] = since[s[i]]
  <2>1. \A i \in 1 .. Len(s) : SeenHome'[s[i]] = sleep_list
    BY <1>1, AgeTypes
  <2> QED BY <1>2, <2>1, AgeSince
<1> HIDE DEF s
<1>7. Deltas(SeenKey', due, s)
  BY <1>1, <1>5 DEF Deltas
<1>8. \A i \in 1 .. Len(s) : due[s[i]] >= 1 /\ due[s[i]] \in since'[s[i]] .. asked'[s[i]]
  BY <1>1, <1>5, <1>6
<1>9. ASSUME pc' = "enqueue_sleep"
      PROVE  k' + At(due, s, pos' - 1) \in since'[tid'] .. asked'[tid']
  <2>1. CASE Arrives
    <3>1. /\ pc = "find" /\ tid' = tid /\ k' = k /\ pos' = 1 /\ asked'[tid] = k
          /\ since'[tid] = since[tid] /\ since[tid] <= k
      BY <1>3, <1>4, <1>9, <2>1, AgeSince DEF Arrives
    <3>2. At(due, s, 0) = 0
      BY <1>2 DEF At
    <3>3. since[tid] \in Nat /\ k \in Nat
      BY <1>3
    <3>4. pos' - 1 = 0 /\ k + 0 = k
      BY <3>1, <3>3
    <3> QED BY <3>1, <3>2, <3>3, <3>4
  <2>2. CASE GoesOn
    <3>1. /\ pc = "enqueue_sleep" /\ tid' = tid /\ asked' = asked /\ since'[tid] = since[tid]
          /\ pos' - 1 = pos /\ pos \in 1 .. Len(s) /\ k' = k - SeenKey[s[pos]]
      <4>1. /\ pc = "enqueue_sleep" /\ tid' = tid /\ asked' = asked /\ pos' = pos + 1
            /\ pos \in 1 .. Len(s) /\ k' = k - SeenKey[s[pos]]
        BY <2>2 DEF GoesOn, s
      <4> QED BY <1>2, <1>3, <1>9, <4>1, AgeSince
    <3>2. SeenKey[s[pos]] = due[s[pos]] - At(due, s, pos - 1)
      BY <1>5, <3>1 DEF Deltas
    <3>3. At(due, s, pos) = due[s[pos]]
      BY <3>1 DEF At
    <3>4. due[s[pos]] \in Int /\ At(due, s, pos - 1) \in Int
      <4>1. due[s[pos]] \in Keys
        BY <1>2, <3>1
      <4>2. At(due, s, pos - 1) \in Keys \cup {0}
        BY <1>2, <3>1 DEF At
      <4> QED BY <1>3, <4>1, <4>2
    <3> DEFINE a == due[s[pos]]
               b == At(due, s, pos - 1)
    <3>5. a \in Int /\ b \in Int /\ k \in Int
      BY <1>3, <3>4
    <3> HIDE DEF a, b
    <3>6. (k - (a - b)) + a = k + b
      BY <3>5
    <3>7. k' + At(due, s, pos' - 1) = k + At(due, s, pos - 1)
      BY <3>1, <3>2, <3>3, <3>6 DEF a, b
    <3> QED BY <1>5, <3>1, <3>7
  <2> QED BY <1>4, <1>9, <2>1, <2>2
<1> QED BY <1>1, <1>7, <1>8, <1>9 DEF Aged, s

LEMMA AgeStep ==
  ASSUME AgeContext
  PROVE  AgeInv'
<1>1. since' \in [Threads -> Keys]
  BY AgeTypes
<1>2. ASSUME ~woke'
      PROVE  /\ SeenHome'[NULL] # sleep_list
             /\ pc' = "enqueue_sleep" => tid' # NULL /\ (pos' = 1 => k' >= 1)
             /\ pc' = "find" => k' >= 1 /\ since'[tid'] <= k'
             /\ \E due \in [Threads -> Keys] : Aged(due)'
  <2>1. ~woke
    BY <1>2 DEF AgeContext
  <2>2. /\ pc = "find" => k >= 1 /\ since[tid] <= k
        /\ \E due \in [Threads -> Keys] : Aged(due)
    BY <2>1 DEF AgeContext, AgeInv
  <2>3. /\ SeenHome'[NULL] # sleep_list
        /\ pc' = "enqueue_sleep" => Arrives \/ GoesOn
        /\ pc' = "find" => \/ pc = "idle" /\ k' \in Delays /\ SeenHome[tid'] = ready_list
                           \/ pc = "find" /\ k' = k /\ tid' = tid
    BY <2>1, AgeMoves
  <2>4. pc' = "enqueue_sleep" => tid' # NULL /\ (pos' = 1 => k' >= 1)
    <3>1. Arrives => tid' # NULL /\ k' >= 1
      BY <2>2 DEF Arrives
    <3>2. GoesOn => tid' # NULL /\ pos' # 1
      <4>1. Len(order[sleep_list]) \in Nat
        BY Sleepers DEF AgeContext
      <4> QED BY <4>1 DEF GoesOn
    <3> QED BY <2>3, <3>1, <3>2
  <2>5. pc' = "find" => k' >= 1 /\ since'[tid'] <= k'
    <3>1. tid' \in Threads /\ since \in [Threads -> Keys] /\ Keys = 0 .. KeyMod - 1 /\ KeyMod \in Nat
      BY AgeTypes
    <3>2. k' \in Delays => k' \in Nat /\ k' >= 1
      BY <3>1, DelaysAssumption
    <3>3. pc = "idle" /\ pc' = "find" /\ SeenHome[tid'] = ready_list => since'[tid'] = k'
      BY <3>1, AgeSince, QueueFacts
    <3>4. pc = "find" /\ pc' = "find" /\ tid' = tid => since'[tid'] = since[tid]
      BY <3>1, AgeSince
    <3> QED BY <2>2, <2>3, <3>1, <3>2, <3>3, <3>4
  <2>6. PICK due \in [Threads -> Keys] : Aged(due)
    BY <2>2
  <2>7. \E aged \in [Threads -> Keys] : Aged(aged)'
    BY <2>1, <2>6, AgeLink, AgeUnlink, AgeOther
  <2> QED BY <2>3, <2>4, <2>5, <2>7
<1> QED BY <1>1, <1>2 DEF AgeInv

\* The handler's own steps: until a tick has found somebody due, it only looks.
LEMMA AgeHandler ==
  ASSUME ClockInv, AgeInv, Handler
  PROVE  AgeInv'
<1>1. woke' = woke /\ hpc # "out"
  BY DEF Handler, LoopSkips, LoopWakes, WalkOn, WalkLinks, LoopEnds
<1>2. since' \in [Threads -> Keys]
  <2>1. since \in [Threads -> Keys] /\ 0 \in Keys
    BY KeyModAssumption DEF AgeInv, Keys
  <2>2. since' = since \/ since' = [since EXCEPT ![threadid] = 0]
    BY DEF Handler, LoopSkips, LoopWakes, WalkOn, WalkLinks, LoopEnds
  <2> QED BY <2>1, <2>2
<1>3. ASSUME ~woke'
      PROVE  /\ SeenHome'[NULL] # sleep_list
             /\ pc' = "enqueue_sleep" => tid' # NULL /\ (pos' = 1 => k' >= 1)
             /\ pc' = "find" => k' >= 1 /\ since'[tid'] <= k'
             /\ \E due \in [Threads -> Keys] : Aged(due)'
  <2>1. hpc = "loop"
    BY <1>1, <1>3 DEF ClockInv, LoopHarmless
  <2>2. ~Due(key, head)
    BY <1>1, <1>3 DEF ClockInv, LoopHarmless
  <2>3. LoopSkips \/ LoopEnds
    BY <2>1, <2>2 DEF Handler, LoopWakes, WalkOn, WalkLinks
  <2>4. UNCHANGED <<vars, block>> /\ hpc' # "walk"
    BY <2>1, <2>3 DEF LoopSkips, LoopEnds
  <2>10. since' = since
    BY <2>3 DEF LoopSkips, LoopEnds
  <2>5. UNCHANGED <<SeenKey, home, pc, tid, k, order, pos, asked>>
    <3>1. UNCHANGED <<home, pc, tid, k, order, pos, asked, todo, qnext, qprev, key, curr>>
      BY <2>4 DEF vars, block
    <3>2. Memory' = Memory
      BY <3>1 DEF Memory
    <3>3. SeenMemory' = SeenMemory
      BY <3>1, <3>2 DEF SeenMemory
    <3> QED BY <3>1, <3>3, SeenSame
  <2>6. SeenHome' = SeenHome
    BY <2>1, <2>4, <2>5, SeenOutside, SeenOutsideNext
  <2>7. /\ SeenHome[NULL] # sleep_list
        /\ pc = "enqueue_sleep" => tid # NULL /\ (pos = 1 => k >= 1)
        /\ pc = "find" => k >= 1 /\ since[tid] <= k
    BY <1>1, <1>3 DEF AgeInv
  <2>8. PICK due \in [Threads -> Keys] : Aged(due)
    BY <1>1, <1>3 DEF AgeInv
  <2>9. Aged(due)'
    BY <2>5, <2>8, <2>10 DEF Aged
  <2> QED BY <2>5, <2>6, <2>7, <2>9, <2>10
<1> QED BY <1>2, <1>3 DEF AgeInv

LEMMA AgeInit ==
  ASSUME ClockInit
  PROVE  AgeInv
<1>1. /\ pc = "idle" /\ since = [t \in Threads |-> 0] /\ home = [t \in Threads |-> NoQueue]
      /\ order = [q \in Queues |-> <<>>] /\ hpc = "out"
  BY DEF ClockInit
<1>2. 0 \in Keys
  BY KeyModAssumption DEF Keys
<1>3. SeenHome[NULL] # sleep_list
  BY <1>1, SeenOutside, QueueFacts, NTHREADSAssumption DEF NULL, Threads
<1>4. since \in [Threads -> Keys]
  BY <1>1, <1>2
<1>5. Len(order[sleep_list]) = 0
  BY <1>1, QueueFacts
<1>6. Aged(since)
  BY <1>1, <1>5 DEF Aged, Deltas
<1> QED BY <1>1, <1>3, <1>4, <1>6 DEF AgeInv

LEMMA AgeUnchanged ==
  ASSUME AgeInv, UNCHANGED clockVars
  PROVE  AgeInv'
<1>1. /\ UNCHANGED <<SeenKey, home, pc, tid, k, order, pos, asked>>
      /\ UNCHANGED <<hpc, threadid, woke, since>>
  <2>1. /\ UNCHANGED <<home, pc, tid, k, order, pos, asked, todo, qnext, qprev, key, curr>>
        /\ UNCHANGED <<hpc, threadid, woke, since>>
    BY DEF clockVars, vars, block, handler
  <2>2. Memory' = Memory
    BY <2>1 DEF Memory
  <2>3. SeenMemory' = SeenMemory
    BY <2>1, <2>2 DEF SeenMemory
  <2> QED BY <2>1, <2>3, SeenSame
<1>2. SeenHome' = SeenHome
  BY <1>1 DEF SeenHome, InHand
<1>3. \A due : Aged(due)' <=> Aged(due)
  BY <1>1 DEF Aged
<1> QED BY <1>1, <1>2, <1>3 DEF AgeInv

\* An assignment of a block changes nothing that ages.
LEMMA AgeStatement ==
  ASSUME ClockInv, AgeInv, Outside(Moves \/ Blocks \/ Statement), SeenMemory' = SeenMemory,
         UNCHANGED <<home, pc, tid, k, order, pos, asked>>
  PROVE  AgeInv'
<1>1. /\ hpc = "out" /\ hpc' = "out" /\ woke' = woke
      /\ since' = [t \in Threads |->
                    IF ~Counted(t)' THEN 0 ELSE IF Counted(t) THEN since[t] ELSE k']
  BY DEF Outside, handler
<1>2. SeenKey' = SeenKey
  BY SeenSame
<1>3. SeenHome' = SeenHome
  BY <1>1, SeenOutside, SeenOutsideNext
<1>4. /\ \A t \in Threads : Counted(t)' <=> Counted(t)
      /\ \A t \in Threads : SeenHome[t] = sleep_list => Counted(t)
      /\ \A t \in Threads : pc \in {"find", "enqueue_sleep"} /\ t = tid => Counted(t)
  BY <1>1, <1>3, CountedSeen, CountedSeenNext
<1>5. /\ \A t \in Threads : SeenHome[t] = sleep_list => since'[t] = since[t]
      /\ tid \in Threads /\ pc \in {"find", "enqueue_sleep"} => since'[tid] = since[tid]
  BY <1>1, <1>4
<1>6. since' \in [Threads -> Keys]
  <2>1. k \in Keys /\ 0 \in Keys /\ since \in [Threads -> Keys]
    BY BaseNow, KeyModAssumption DEF ClockInv, SeenTypes, AgeInv, Keys
  <2> QED BY <1>1, <2>1
<1>7. tid \in Threads
  BY BaseNow DEF ClockInv, SeenTypes
<1>8. ASSUME NEW due, Aged(due)
      PROVE  Aged(due)'
  <2> DEFINE s == order[sleep_list]
  <2>1. /\ order'[sleep_list] = s
        /\ \A i \in 1 .. Len(s) : s[i] \in Threads /\ SeenHome[s[i]] = sleep_list
    BY <1>1, Sleepers
  <2>2. \A i \in 1 .. Len(s) : since'[s[i]] = since[s[i]]
    BY <1>5, <2>1
  <2> QED BY <1>2, <1>5, <1>7, <1>8, <2>1, <2>2 DEF Aged
<1>9. ASSUME ~woke'
      PROVE  /\ SeenHome'[NULL] # sleep_list
             /\ pc' = "enqueue_sleep" => tid' # NULL /\ (pos' = 1 => k' >= 1)
             /\ pc' = "find" => k' >= 1 /\ since'[tid'] <= k'
             /\ \E due \in [Threads -> Keys] : Aged(due)'
  <2>1. /\ SeenHome[NULL] # sleep_list
        /\ pc = "enqueue_sleep" => tid # NULL /\ (pos = 1 => k >= 1)
        /\ pc = "find" => k >= 1 /\ since[tid] <= k
        /\ \E due \in [Threads -> Keys] : Aged(due)
    BY <1>1, <1>9 DEF AgeInv
  <2> QED BY <1>3, <1>5, <1>7, <1>8, <2>1
<1> QED BY <1>6, <1>9 DEF AgeInv

\* What is due is what the keys up to a sleeper add up to.
LEMMA AgesNow ==
  ASSUME ClockInv, AgeInv
  PROVE  DelaysAge
<1> DEFINE s == order[sleep_list]
<1> SUFFICES ASSUME ~woke, ~InSleepBlock, NEW n \in 1 .. Len(s)
             PROVE  SumFrom(0, key, SubSeq(s, 1, n)) \in since[s[n]] .. asked[s[n]]
  BY DEF DelaysAge
<1>1. hpc # "walk"
  BY DEF ClockInv, WalkOnReady
<1>2. s \in Seq(Threads)
  BY <1>1, Sleepers
<1>3. /\ SeenKey \in [Node -> Keys]
      /\ \A m \in 1 .. Len(s) : s[m] \in Node /\ s[m] \notin Away
      /\ BlockInv /\ linking # sleep_list
  <2>1. \A m \in 1 .. Len(s) : s[m] \in Threads /\ SeenHome[s[m]] = sleep_list
    BY <1>1, Sleepers
  <2>2. \A m \in 1 .. Len(s) : s[m] \in Node /\ s[m] \notin Away
    BY <2>1, QueueFacts DEF Away
  <2> QED BY <2>2, BaseNow DEF ClockInv, SeenTypes, InSleepBlock
<1>4. PICK due \in [Threads -> Keys] : Aged(due)
  BY DEF AgeInv
<1>5. Deltas(SeenKey, due, s) /\ due[s[n]] \in since[s[n]] .. asked[s[n]]
  BY <1>4 DEF Aged
<1> HIDE DEF s
<1>6. \A m \in 1 .. Len(s) : key[s[m]] = SeenKey[s[m]]
  BY <1>3, SleepSeen
<1>7. Deltas(key, due, s)
  BY <1>5, <1>6 DEF Deltas
<1>8. SumFrom(0, key, SubSeq(s, 1, n)) = due[s[n]]
  BY <1>2, <1>7, SumOfDeltas
<1> QED BY <1>5, <1>8

\* Until a tick finds somebody due or a block on the sleep list under way it does
\* not matter when ticks come.
CalmInv == ~woke /\ ~torn => ClockInv /\ AgeInv

THEOREM CalmInvariance ==
  ASSUME SleepRootLinked
  PROVE  ClockSpec => []CalmInv
<1>1. ClockInit => CalmInv
  BY ClockInitInvariant, AgeInit DEF CalmInv
<1>2. CalmInv /\ [ClockNext]_clockVars => CalmInv'
  <2> SUFFICES ASSUME CalmInv, [ClockNext]_clockVars, ~woke', ~torn'
               PROVE  ClockInv' /\ AgeInv'
    BY DEF CalmInv
  <2>1. ~woke /\ ~torn /\ (Tick => NobodyDue /\ ~InSleepBlock)
    <3>1. ASSUME Tick PROVE ~woke /\ ~torn /\ NobodyDue /\ ~InSleepBlock
      <4>1. woke' = (woke \/ ~NobodyDue) /\ torn' = (torn \/ InSleepBlock)
        BY <3>1 DEF Tick
      <4> QED BY <4>1
    <3>2. CASE Outside(Moves \/ Blocks \/ Statement) \/ Handler
      <4>1. woke' = woke /\ torn' = torn
        BY <3>2 DEF Outside, Handler, LoopSkips, LoopWakes, WalkOn, WalkLinks, LoopEnds
      <4> QED BY <3>1, <4>1
    <3>3. CASE UNCHANGED clockVars
      <4>1. woke' = woke /\ torn' = torn
        BY <3>3 DEF clockVars
      <4> QED BY <3>1, <4>1
    <3> QED BY <3>1, <3>2, <3>3 DEF ClockNext
  <2>2. ClockInv /\ AgeInv
    BY <2>1 DEF CalmInv
  <2>3. ClockInv'
    BY <2>1, <2>2, ClockStep
  <2>4. ASSUME Outside(Moves \/ Blocks \/ Statement) PROVE AgeInv'
    <3>1. /\ hpc = "out" /\ hpc' = "out" /\ woke' = woke
          /\ since' = [t \in Threads |->
                        IF ~Counted(t)' THEN 0 ELSE IF Counted(t) THEN since[t] ELSE k']
      BY <2>4 DEF Outside, handler
    <3>2. \/ Base!Next
          \/ SeenMemory' = SeenMemory /\ UNCHANGED <<home, pc, tid, k, order, pos, asked>>
      BY <2>2, <2>4, OutsideSeen
    <3>3. Base!Next => AgeContext
      BY <2>2, <3>1 DEF AgeContext
    <3> QED BY <2>2, <2>4, <3>2, <3>3, AgeStep, AgeStatement
  <2>5. AgeInv'
    <3>1. Tick => linking # sleep_list
      BY <2>1 DEF InSleepBlock
    <3> QED BY <2>2, <2>4, <3>1, AgeTick, AgeHandler, AgeUnchanged DEF ClockNext
  <2> QED BY <2>3, <2>5
<1> QED BY <1>1, <1>2, PTL DEF ClockSpec

\* Until a tick finds somebody due or lands between two assignments of a block
\* on the sleep list, the keys up to a sleeper add up to what is left of its
\* delay, counted from some moment between the call of sleep and the insertion
\* (sleep.c 6-7, timer.c 37): for any delays, and however many ticks come,
\* between any two turns of a loop and any two assignments of the other blocks.
THEOREM DelaysAgeAlways ==
  ASSUME SleepRootLinked
  PROVE  ClockSpec => []DelaysAge
<1>1. CalmInv => DelaysAge
  BY AgesNow DEF CalmInv, DelaysAge
<1> QED BY <1>1, CalmInvariance, PTL
=============================================================================
