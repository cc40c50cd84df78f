---------------------------- MODULE KernelProofs ----------------------------
(***************************************************************************)
(* Proofs, for every number of threads, about Kernel.  Whatever is called  *)
(* by whom, nobody but the current thread is running.  If the calls are    *)
(* those of the shell and its commands, the ready list is exact, no call   *)
(* breaks the contract of the queues, and the threads are served in turn.  *)
(***************************************************************************)
EXTENDS KernelSpec, SequenceTheorems, TLAPS

LEMMA ThreadZero == 0 \in Threads
BY NTHREADSAssumption DEF Threads

-----------------------------------------------------------------------------
(***************************************************************************)
(* Any calls by any thread                                                 *)
(***************************************************************************)

\* What resched leaves behind has the right types.
LEMMA ReschedTypes ==
  ASSUME TypeOK, NEW st \in [Threads -> States], NEW rd \in Seq(Threads),
         NEW m \in BOOLEAN, Resched(st, rd, m)
  PROVE  /\ state' \in [Threads -> States]
         /\ ready' \in Seq(Threads)
         /\ current' \in Threads
         /\ sie' \in BOOLEAN
         /\ mask' \in [Threads -> BOOLEAN]
         /\ fault' \in Faults
<1>1. ASSUME NEW why \in Faults, Broken(why)
      PROVE  /\ state' \in [Threads -> States] /\ ready' \in Seq(Threads)
             /\ current' \in Threads /\ sie' \in BOOLEAN
             /\ mask' \in [Threads -> BOOLEAN] /\ fault' \in Faults
  BY <1>1 DEF Broken, TypeOK
<1>2. "nested ecall" \in Faults /\ "double enqueue" \in Faults
  BY DEF Faults
<1>3. ASSUME NEW r \in Seq(Threads), Stay(st, r, m)
      PROVE  /\ state' \in [Threads -> States] /\ ready' \in Seq(Threads)
             /\ current' \in Threads /\ sie' \in BOOLEAN
             /\ mask' \in [Threads -> BOOLEAN] /\ fault' \in Faults
  BY <1>3 DEF Stay, SieOf, TypeOK
<1>4. rd # <<>> => Head(rd) \in Threads /\ Tail(rd) \in Seq(Threads)
  BY HeadTailProperties
<1>5. CASE rd # <<>> /\ Switch(st, rd, m)
  <2>1. state' \in [Threads -> States]
    BY <1>4, <1>5 DEF Switch, OldState, TypeOK, States
  <2>2. ready' \in Seq(Threads)
    BY <1>4, <1>5, AppendProperties DEF Switch, NextReady, TypeOK
  <2>3. current' \in Threads /\ mask' \in [Threads -> BOOLEAN] /\ fault' \in Faults
    BY <1>4, <1>5 DEF Switch, TypeOK
  <2>4. sie' \in BOOLEAN
    BY <1>4, <1>5, <2>3 DEF Switch, SieOf
  <2> QED BY <2>1, <2>2, <2>3, <2>4
<1> QED BY <1>1, <1>2, <1>3, <1>4, <1>5 DEF Resched, Stays

\* resched makes its choice among the ready, makes that thread the running one
\* and leaves no other running.
LEMMA ReschedRunsOne ==
  ASSUME TypeOK, OnlyCurrentRuns, NEW st \in [Threads -> States],
         NEW rd \in Seq(Threads), NEW m \in BOOLEAN, Resched(st, rd, m),
         \A t \in Threads : st[t] = "running" => t = current
  PROVE  /\ \A t \in Threads : state'[t] = "running" => t = current'
         /\ current' # current => st[current'] = "ready"
<1>1. rd # <<>> => Head(rd) \in Threads
  BY HeadTailProperties
<1>2. CASE rd # <<>> /\ Switch(st, rd, m) /\ ~Stays(st, rd)
  BY <1>1, <1>2 DEF Switch, OldState, Stays, TypeOK
<1>3. CASE \/ \E r \in Seq(Threads) : Stay(st, r, m)
           \/ \E why \in Faults : Broken(why)
  BY <1>3 DEF Stay, Broken, OnlyCurrentRuns
<1>4. "nested ecall" \in Faults /\ "double enqueue" \in Faults
  BY DEF Faults
<1>5. rd # <<>> => Tail(rd) \in Seq(Threads)
  BY HeadTailProperties
<1> QED BY <1>2, <1>3, <1>4, <1>5 DEF Resched, Stays

\* Whoever runs after a resched has its interrupts off if it is in join_thread.
LEMMA ReschedMasksJoin ==
  ASSUME JoinsMasked, UNCHANGED pc, NEW st, NEW rd, NEW m, Resched(st, rd, m)
  PROVE  JoinsMasked'
BY DEF Resched, Broken, Stay, Switch, SieOf, JoinsMasked

AnyInv == TypeOK /\ OnlyCurrentRuns /\ JoinsMasked

LEMMA AnyInit == Init => AnyInv
BY ThreadZero, RetValsAssumption
   DEF Init, AnyInv, TypeOK, OnlyCurrentRuns, JoinsMasked, States, Faults, Threads

\* RemoveAt yields a sequence of the same elements' type.
LEMMA RemoveAtType ==
  ASSUME NEW S, NEW s \in Seq(S), NEW i \in 1 .. Len(s)
  PROVE  RemoveAt(s, i) \in Seq(S)
<1>1. Len(s) \in Nat /\ \A j \in 1 .. Len(s) : s[j] \in S
  BY LenProperties, ElementOfSeq
<1>2. SubSeq(s, 1, i - 1) \in Seq(S) /\ SubSeq(s, i + 1, Len(s)) \in Seq(S)
  BY <1>1, SubSeqProperties
<1> QED BY <1>2, ConcatProperties DEF RemoveAt

\* A call that calls resched keeps the invariant, if the table it hands over
\* makes nobody ready but a suspended thread, and nobody running.
LEMMA ReschedStep ==
  ASSUME AnyInv, UNCHANGED <<parent, asleep, where>>, retval' \in [Threads -> RetVals],
         NEW st \in [Threads -> States], NEW rd \in Seq(Threads), NEW m \in BOOLEAN,
         Resched(st, rd, m),
         \A t \in Threads : st[t] = "running" => state[t] = "running",
         \A t \in Threads : st[t] = "ready" => state[t] \in {"ready", "suspend"}
  PROVE  AnyInv' /\ (current' # current => state[current'] \in {"ready", "suspend"})
<1>1. TypeOK'
  BY ReschedTypes DEF AnyInv, TypeOK, where
<1>2. /\ \A t \in Threads : state'[t] = "running" => t = current'
      /\ current' # current => st[current'] = "ready"
  BY ReschedRunsOne DEF AnyInv, OnlyCurrentRuns
<1>3. JoinsMasked'
  BY ReschedMasksJoin DEF AnyInv, where
<1>4. current' \in Threads
  BY <1>1 DEF TypeOK
<1> QED BY <1>1, <1>2, <1>3, <1>4 DEF AnyInv, OnlyCurrentRuns

\* A call that breaks the contract changes nothing but `fault'.
LEMMA BrokenStep ==
  ASSUME AnyInv, UNCHANGED <<parent, asleep, where>>, retval' \in [Threads -> RetVals],
         NEW why \in Faults, Broken(why)
  PROVE  AnyInv' /\ current' = current
BY DEF AnyInv, TypeOK, OnlyCurrentRuns, JoinsMasked, Broken, where

Chosen == current' # current => state[current'] \in {"ready", "suspend"}

LEMMA CreateStep ==
  ASSUME AnyInv, Create \/ CreateRefused \/ BootCreate \/ BootRun
  PROVE  AnyInv' /\ Chosen
<1> USE DEF AnyInv, TypeOK, OnlyCurrentRuns, JoinsMasked, Chosen
<1>1. ASSUME NEW i \in Threads, NewThread(i)
      PROVE  /\ state' \in [Threads -> States] /\ parent' \in [Threads -> Threads]
             /\ mask' \in [Threads -> BOOLEAN]
             /\ \A t \in Threads : state'[t] = "running" => state[t] = "running"
  BY <1>1 DEF NewThread, States
<1>2. CASE Create
  <2>1. PICK i \in Threads : NewThread(i) /\ pc' = [pc EXCEPT ![i] = "user"]
    BY <1>2 DEF Create
  <2>2. pc' \in [Threads -> {"boot", "created", "user", "join"}] /\ pc'[current] = "user"
    BY <1>2, <2>1 DEF Create, Calls
  <2> QED BY <1>1, <1>2, <2>1, <2>2 DEF Create
<1>3. CASE BootCreate
  <2>1. PICK i \in Threads : NewThread(i)
    BY <1>3 DEF BootCreate
  <2>2. /\ pc' \in [Threads -> {"boot", "created", "user", "join"}]
        /\ pc'[current] = "created"
    BY <1>3 DEF BootCreate
  <2> QED BY <1>1, <1>3, <2>1, <2>2 DEF BootCreate
<1>4. CASE CreateRefused
  BY <1>4 DEF CreateRefused, table, where
<1>5. CASE BootRun
  BY <1>5 DEF BootRun, States
<1> QED BY <1>2, <1>3, <1>4, <1>5

LEMMA JoinStep ==
  ASSUME AnyInv, NEW t \in Threads, Join(t) \/ JoinBegin(t) \/ JoinEnds \/ JoinFails
  PROVE  AnyInv' /\ Chosen
<1> USE DEF AnyInv, TypeOK, OnlyCurrentRuns, JoinsMasked, Chosen
<1>1. CASE Join(t)
  BY <1>1 DEF Join, Calls, Returned, States
<1>2. CASE JoinBegin(t)
  BY <1>2 DEF JoinBegin, table
<1>3. CASE JoinEnds
  BY <1>3, RetValsAssumption DEF JoinEnds, table
<1>4. CASE JoinFails
  BY <1>4 DEF JoinFails, table
<1> QED BY <1>1, <1>2, <1>3, <1>4

LEMMA FaultNames ==
  /\ "double enqueue" \in Faults /\ "root unlinked" \in Faults
  /\ "endless search" \in Faults /\ "clock" \in Faults
  /\ "returned to noop" \in Faults
BY DEF Faults

LEMMA ThreadCallStep ==
  ASSUME AnyInv, NEW t \in Threads, Resume(t) \/ Suspend(t) \/ Kill(t)
  PROVE  AnyInv' /\ Chosen
<1>1. /\ state \in [Threads -> States] /\ ready \in Seq(Threads) /\ sie \in BOOLEAN
      /\ retval \in [Threads -> RetVals]
  BY DEF AnyInv, TypeOK
<1>2. CASE Resume(t)
  <2> DEFINE st == [state EXCEPT ![t] = "ready"]
  <2>1. st \in [Threads -> States] /\ Enter(ready, t) \in Seq(Threads)
    BY <1>1, AppendProperties DEF States, Enter
  <2>2. /\ state[t] = "suspend" /\ UNCHANGED <<parent, retval, asleep, where>>
        /\ Broken("double enqueue") \/ Resched(st, Enter(ready, t), sie)
    BY <1>2 DEF Resume
  <2>3. /\ \A u \in Threads : st[u] = "running" => state[u] = "running"
        /\ \A u \in Threads : st[u] = "ready" => state[u] \in {"ready", "suspend"}
    BY <1>1, <2>2
  <2> HIDE DEF st
  <2> QED BY <1>1, <2>1, <2>2, <2>3, ReschedStep, BrokenStep, FaultNames DEF Chosen
<1>3. CASE Suspend(t)
  <2> DEFINE st == [state EXCEPT ![t] = "suspend"]
  <2>1. st \in [Threads -> States] /\ SuspendDequeues(ready, t) \in Seq(Threads)
    BY <1>1, HeadTailProperties DEF States, SuspendDequeues
  <2>2. /\ UNCHANGED <<parent, retval, asleep, where>>
        /\ Resched(st, SuspendDequeues(ready, t), sie)
    BY <1>3 DEF Suspend
  <2>3. /\ \A u \in Threads : st[u] = "running" => state[u] = "running"
        /\ \A u \in Threads : st[u] = "ready" => state[u] \in {"ready", "suspend"}
    BY <1>1
  <2> HIDE DEF st
  <2> QED BY <1>1, <2>1, <2>2, <2>3, ReschedStep DEF Chosen
<1>4. CASE Kill(t)
  <2>1. /\ Reaped(t) \in [Threads -> States]
        /\ \A u \in Threads : Reaped(t)[u] = "running" => state[u] = "running"
        /\ \A u \in Threads : Reaped(t)[u] = "ready" => state[u] \in {"ready", "suspend"}
    BY <1>1 DEF Reaped, States
  <2>2. Resched(Reaped(t), ready, sie) /\ UNCHANGED <<parent, retval, asleep, where>>
    BY <1>4 DEF Kill
  <2> QED BY <1>1, <2>1, <2>2, ReschedStep DEF Chosen
<1> QED BY <1>2, <1>3, <1>4

LEMMA ExitStep ==
  ASSUME AnyInv, NEW v \in RetVals, Exit(v)
  PROVE  AnyInv' /\ Chosen
<1>1. /\ state \in [Threads -> States] /\ ready \in Seq(Threads) /\ sie \in BOOLEAN
      /\ retval \in [Threads -> RetVals] /\ current \in Threads
  BY DEF AnyInv, TypeOK
<1>2. /\ Reaped(current) \in [Threads -> States]
      /\ \A u \in Threads : Reaped(current)[u] = "running" => state[u] = "running"
      /\ \A u \in Threads :
           Reaped(current)[u] = "ready" => state[u] \in {"ready", "suspend"}
  BY <1>1 DEF Reaped, States
<1>3. retval' \in [Threads -> RetVals] /\ UNCHANGED <<parent, asleep, where>>
  BY <1>1 DEF Exit
<1>4. Broken("returned to noop") \/ Resched(Reaped(current), ready, sie)
  BY DEF Exit
<1> QED BY <1>1, <1>2, <1>3, <1>4, ReschedStep, BrokenStep, FaultNames DEF Chosen

LEMMA YieldStep ==
  ASSUME AnyInv, Yield \/ JoinWaits \/ Tick
  PROVE  AnyInv' /\ Chosen
<1>1. /\ state \in [Threads -> States] /\ ready \in Seq(Threads) /\ sie \in BOOLEAN
      /\ retval \in [Threads -> RetVals] /\ mask[current] \in BOOLEAN
  BY DEF AnyInv, TypeOK
<1>2. \/ Broken("clock")
      \/ \E m \in BOOLEAN : Resched(state, ready, m)
  BY <1>1 DEF Yield, JoinWaits, Tick
<1>3. UNCHANGED <<parent, retval, asleep, where>>
  BY DEF Yield, JoinWaits, Tick
<1> QED BY <1>1, <1>2, <1>3, ReschedStep, BrokenStep, FaultNames DEF Chosen

LEMMA SleepStep ==
  ASSUME AnyInv, NEW t \in Threads, Sleep(t)
  PROVE  AnyInv' /\ Chosen
<1>1. UNCHANGED <<parent, retval, where>>
  BY DEF Sleep
<1>2. CASE Broken("root unlinked") /\ UNCHANGED asleep
  BY <1>1, <1>2, BrokenStep, FaultNames DEF Chosen, AnyInv, TypeOK
<1>3. CASE /\ \E i \in 1 .. Len(ready) : ready[i] = t /\ ready' = RemoveAt(ready, i)
           /\ state' = IF t = 0 THEN state ELSE [state EXCEPT ![t] = "sleep"]
           /\ asleep' = IF t = 0 THEN asleep ELSE asleep \cup {t}
           /\ UNCHANGED <<current, sie, mask, fault>>
  <2>1. ready' \in Seq(Threads)
    BY <1>3, RemoveAtType DEF AnyInv, TypeOK
  <2>2. /\ state' \in [Threads -> States] /\ asleep' \subseteq Threads
        /\ \A u \in Threads : state'[u] = "running" => state[u] = "running"
    BY <1>3 DEF AnyInv, TypeOK, States
  <2>3. current' = current /\ sie' = sie /\ mask' = mask /\ fault' = fault
    BY <1>3
  <2>4. TypeOK'
    BY <1>1, <2>1, <2>2, <2>3 DEF AnyInv, TypeOK, where
  <2>5. OnlyCurrentRuns' /\ JoinsMasked' /\ Chosen
    BY <1>1, <2>2, <2>3 DEF AnyInv, OnlyCurrentRuns, JoinsMasked, Chosen, where
  <2> QED BY <2>4, <2>5 DEF AnyInv
<1> QED BY <1>2, <1>3 DEF Sleep

LEMMA UnsleepStep ==
  ASSUME AnyInv, NEW t \in Threads, Unsleep(t)
  PROVE  AnyInv' /\ Chosen
<1>1. /\ state \in [Threads -> States] /\ Enter(ready, t) \in Seq(Threads)
      /\ sie \in BOOLEAN /\ asleep \subseteq Threads
  BY AppendProperties DEF AnyInv, TypeOK, Enter
<1>2. UNCHANGED <<parent, retval, where>> /\ asleep' \subseteq Threads
  BY <1>1 DEF Unsleep
<1>3. CASE t \in asleep /\ Resched(state, Enter(ready, t), sie)
  <2>1. TypeOK'
    BY <1>1, <1>2, <1>3, ReschedTypes DEF AnyInv, TypeOK, where
  <2>2. /\ \A u \in Threads : state'[u] = "running" => u = current'
        /\ current' # current => state[current'] = "ready"
    BY <1>1, <1>3, ReschedRunsOne DEF AnyInv, OnlyCurrentRuns
  <2>3. JoinsMasked'
    BY <1>2, <1>3, ReschedMasksJoin DEF AnyInv, where
  <2> QED BY <2>1, <2>2, <2>3 DEF AnyInv, OnlyCurrentRuns, Chosen
<1>4. CASE t \notin asleep /\ Broken("endless search")
  <2>1. asleep' = asleep
    BY <1>4 DEF Unsleep
  <2> QED BY <1>2, <1>4, <2>1, BrokenStep, FaultNames DEF Chosen, AnyInv, TypeOK
<1> QED BY <1>3, <1>4 DEF Unsleep

LEMMA AnyStep == AnyInv /\ [Next]_vars => AnyInv' /\ Chosen
<1> SUFFICES ASSUME AnyInv, [Next]_vars PROVE AnyInv' /\ Chosen
  OBVIOUS
<1>1. CASE UNCHANGED vars
  BY <1>1 DEF vars, AnyInv, TypeOK, OnlyCurrentRuns, JoinsMasked, Chosen
<1>2. CASE Create \/ CreateRefused \/ Boot
  BY <1>2, CreateStep DEF Boot
<1>3. CASE Yield \/ JoinWaits \/ Tick
  BY <1>3, YieldStep
<1>4. CASE JoinEnds \/ JoinFails
  BY <1>4, JoinStep, ThreadZero
<1>5. CASE \E t \in Threads : Resume(t) \/ Suspend(t) \/ Kill(t)
  BY <1>5, ThreadCallStep
<1>6. CASE \E t \in Threads : Join(t) \/ JoinBegin(t)
  BY <1>6, JoinStep
<1>7. CASE \E t \in Threads : Sleep(t) \/ Unsleep(t)
  BY <1>7, SleepStep, UnsleepStep
<1>8. CASE \E v \in RetVals : Exit(v)
  BY <1>8, ExitStep
<1> QED BY <1>1, <1>2, <1>3, <1>4, <1>5, <1>6, <1>7, <1>8 DEF Next, Call

\* The state of the kernel has the types that thread.h declares, whatever the
\* threads call.
THEOREM TypeCorrect == Spec => []TypeOK
<1>1. AnyInv => TypeOK
  BY DEF AnyInv
<1> QED BY AnyInit, AnyStep, <1>1, PTL DEF Spec

\* Whatever the threads call, nobody but current_thread is in the state running
\* (thread.h 29).
THEOREM NobodyElseRuns == Spec => []OnlyCurrentRuns
<1>1. AnyInv => OnlyCurrentRuns
  BY DEF AnyInv
<1> QED BY AnyInit, AnyStep, <1>1, PTL DEF Spec

\* A thread in the loop of join_thread is never interrupted by the scheduler
\* (join.c 10).
THEOREM JoinUndisturbed == Spec => []JoinsMasked
<1>1. AnyInv => JoinsMasked
  BY DEF AnyInv
<1> QED BY AnyInit, AnyStep, <1>1, PTL DEF Spec

\* A killed, freed or sleeping thread that is still in the ready list is not
\* switched to (resched.c 28).
THEOREM StaleNeverScheduled == Spec => StaleNotScheduled
<1>1. Chosen => [current' # current => state[current'] \in {"ready", "suspend"}]_vars
  BY DEF Chosen
<1> QED BY AnyInit, AnyStep, <1>1, PTL DEF Spec, StaleNotScheduled

-----------------------------------------------------------------------------
(***************************************************************************)
(* The calls of the shell and its commands                                 *)
(***************************************************************************)

ShellWorkload ==
  /\ RootCalls \subseteq {"create", "create with a long argument", "resume", "join",
                          "join of no thread", "yield"}
  /\ ChildCalls \subseteq {"yield", "exit"}
  /\ Ticks \subseteq {"root", "child"}
  /\ "child" \in Ticks => SleepRootLinked

Distinct(rd) == \A i, j \in 1 .. Len(rd) : rd[i] = rd[j] => i = j

\* ReadyListExact, of any table and list.
Exact(st, rd) ==
  /\ \A t \in Threads : st[t] = "ready" <=> InReady(rd, t)
  /\ Distinct(rd)

LEMMA TailElements ==
  ASSUME NEW S, NEW rd \in Seq(S), rd # <<>>, Distinct(rd)
  PROVE  /\ Tail(rd) \in Seq(S)
         /\ Distinct(Tail(rd))
         /\ \A t : InReady(Tail(rd), t) <=> InReady(rd, t) /\ t # Head(rd)
<1>1. /\ Tail(rd) \in Seq(S) /\ Len(Tail(rd)) = Len(rd) - 1 /\ Len(rd) \in Nat \ {0}
      /\ \A i \in 1 .. Len(Tail(rd)) : Tail(rd)[i] = rd[i + 1]
  BY HeadTailProperties, EmptySeq
<1>2. Head(rd) = rd[1]
  BY <1>1
<1>3. Distinct(Tail(rd))
  BY <1>1 DEF Distinct
<1>4. ASSUME NEW t, InReady(Tail(rd), t) PROVE InReady(rd, t) /\ t # Head(rd)
  BY <1>1, <1>2, <1>4 DEF Distinct, InReady
<1>5. ASSUME NEW t, InReady(rd, t), t # Head(rd) PROVE InReady(Tail(rd), t)
  <2>1. PICK i \in 1 .. Len(rd) : rd[i] = t
    BY <1>5 DEF InReady
  <2>2. i - 1 \in 1 .. Len(Tail(rd)) /\ Tail(rd)[i - 1] = t
    BY <1>1, <1>2, <1>5, <2>1
  <2> QED BY <2>2 DEF InReady
<1> QED BY <1>1, <1>3, <1>4, <1>5

LEMMA AppendElements ==
  ASSUME NEW S, NEW rd \in Seq(S), NEW c \in S
  PROVE  /\ Append(rd, c) \in Seq(S) /\ Append(rd, c) # <<>>
         /\ Distinct(rd) /\ ~InReady(rd, c) => Distinct(Append(rd, c))
         /\ \A t : InReady(Append(rd, c), t) <=> InReady(rd, t) \/ t = c
<1>1. /\ Append(rd, c) \in Seq(S) /\ Len(Append(rd, c)) = Len(rd) + 1
      /\ Len(rd) \in Nat /\ Append(rd, c)[Len(rd) + 1] = c
      /\ \A i \in 1 .. Len(rd) : Append(rd, c)[i] = rd[i]
  BY AppendProperties, LenProperties
<1>2. Append(rd, c) # <<>>
  BY <1>1, EmptySeq
<1>3. ASSUME Distinct(rd), ~InReady(rd, c) PROVE Distinct(Append(rd, c))
  BY <1>1, <1>3 DEF Distinct, InReady
<1>4. ASSUME NEW t PROVE InReady(Append(rd, c), t) <=> InReady(rd, t) \/ t = c
  BY <1>1 DEF InReady
<1> QED BY <1>1, <1>2, <1>3, <1>4

LEMMA ExactReadyList == TypeOK => (ReadyListExact <=> Exact(state, ready))
<1> SUFFICES ASSUME TypeOK PROVE ReadyListExact <=> Exact(state, ready)
  OBVIOUS
<1>1. \A i \in 1 .. Len(ready) : ready[i] \in Threads
  BY ElementOfSeq DEF TypeOK
<1> QED BY <1>1 DEF ReadyListExact, Exact, Distinct, InReady

LEMMA ExactReadyListNext == TypeOK' /\ Exact(state', ready') => ReadyListExact'
<1> SUFFICES ASSUME TypeOK', Exact(state', ready') PROVE ReadyListExact'
  OBVIOUS
<1>1. \A i \in 1 .. Len(ready') : ready'[i] \in Threads
  BY ElementOfSeq DEF TypeOK
<1> QED BY <1>1 DEF ReadyListExact, Exact, Distinct, InReady

\* What resched does when nobody but the running thread, or one that has just
\* ended while others are ready, calls it, and the ready list is exact.
LEMMA ReschedExact ==
  ASSUME TypeOK, asleep = {}, fault = "none",
         NEW st \in [Threads -> States], NEW rd \in Seq(Threads), NEW m,
         Exact(st, rd), Resched(st, rd, m),
         \A t \in Threads : st[t] = "running" => t = current,
         \/ st[current] = "running"
         \/ st[current] = "defunct" /\ rd # <<>>
  PROVE  /\ Exact(state', ready') /\ fault' = "none"
         /\ \A t \in Threads : state'[t] = "running" <=> t = current'
         /\ \A t \in Threads :
              \/ state'[t] = st[t]
              \/ st[t] = "running" /\ state'[t] = "ready"
              \/ st[t] = "ready" /\ state'[t] = "running"
         /\ IF rd = <<>> THEN current' = current /\ ready' = rd
                         ELSE current' = Head(rd) /\ ready' = NextReady(st, rd)
<1>1. CASE rd = <<>>
  <2>1. Stay(st, rd, m)
    BY <1>1 DEF Resched, Stays
  <2>2. state' = st /\ ready' = rd /\ current' = current /\ fault' = "none"
    BY <2>1 DEF Stay
  <2> QED BY <1>1, <2>2
<1>2. CASE rd # <<>>
  <2> DEFINE h == Head(rd)
  <2>1. /\ Tail(rd) \in Seq(Threads) /\ Distinct(Tail(rd)) /\ h \in Threads
        /\ \A t : InReady(Tail(rd), t) <=> InReady(rd, t) /\ t # h
    BY <1>2, TailElements, HeadTailProperties DEF Exact
  <2>2. InReady(rd, h) /\ st[h] = "ready"
    <3>1. Len(rd) \in Nat \ {0} /\ h = rd[1]
      BY <1>2, EmptySeq
    <3>2. InReady(rd, h)
      BY <3>1 DEF InReady
    <3> QED BY <2>1, <3>2 DEF Exact
  <2> HIDE DEF h
  <2>3. /\ current \in Threads /\ st[current] # "ready" /\ current # h
        /\ ~InReady(rd, current)
    BY <2>2 DEF TypeOK, Exact
  <2>4. Switch(st, rd, m)
    BY <1>2, <2>1, <2>2, <2>3 DEF Resched, Stays, Queued, h
  <2>5. /\ state' = [st EXCEPT ![current] = OldState(@), ![h] = "running"]
        /\ ready' = NextReady(st, rd) /\ current' = h /\ fault' = "none"
    BY <2>4 DEF Switch, h
  <2>6. CASE st[current] = "running"
    <3>1. ready' = Append(Tail(rd), current)
      BY <2>5, <2>6 DEF NextReady, GoesBack
    <3>2. /\ Distinct(ready')
          /\ \A t : InReady(ready', t) <=> (InReady(rd, t) /\ t # h) \/ t = current
      BY <2>1, <2>3, <3>1, AppendElements
    <3>3. \A t \in Threads : state'[t] = IF t = h THEN "running"
                                         ELSE IF t = current THEN "ready" ELSE st[t]
      BY <2>3, <2>5, <2>6 DEF OldState
    <3>4. Exact(state', ready')
      BY <2>3, <3>2, <3>3 DEF Exact
    <3> QED BY <1>2, <2>2, <2>5, <2>6, <3>3, <3>4 DEF h
  <2>7. CASE st[current] = "defunct"
    <3>1. ready' = Tail(rd)
      BY <2>5, <2>7 DEF NextReady, GoesBack
    <3>2. \A t \in Threads : state'[t] = IF t = h THEN "running" ELSE st[t]
      BY <2>1, <2>3, <2>5, <2>7 DEF OldState
    <3>3. Exact(state', ready')
      BY <2>1, <2>2, <3>1, <3>2 DEF Exact
    <3> QED BY <1>2, <2>2, <2>3, <2>5, <2>7, <3>2, <3>3 DEF h
  <2> QED BY <2>6, <2>7
<1> QED BY <1>1, <1>2

(***************************************************************************)
(* All threads are children of the shell, which never ends: when a child   *)
(* exits, no slot but its own is touched and the shell is there to go on.  *)
(***************************************************************************)
Family ==
  /\ asleep = {}
  /\ \A t \in Threads : parent[t] = 0
  /\ \A t \in Threads \ {0} : pc[t] = "user"
  /\ pc[0] = "boot" => \A t \in Threads : state[t] = "free"
  /\ pc[0] = "created" => state[0] = "suspend"
  /\ pc[0] \in {"user", "join"} => state[0] \in {"running", "ready"}

ShellInv == TypeOK /\ ReadyListExact /\ OneRunning /\ ContractKept /\ Family

LEMMA ShellInvInit == Init => ShellInv
<1> SUFFICES ASSUME Init PROVE ShellInv
  OBVIOUS
<1>1. TypeOK
  BY AnyInit DEF AnyInv
<1> QED
  BY <1>1, ThreadZero
     DEF Init, ShellInv, ReadyListExact, OneRunning, ContractKept, Family, Booted, InReady

\* What the invariant says of the running thread and of the threads not ready.
LEMMA ShellFacts ==
  ASSUME ShellInv
  PROVE  /\ Exact(state, ready) /\ current \in Threads /\ 0 \in Threads
         /\ ready \in Seq(Threads) /\ state \in [Threads -> States] /\ sie \in BOOLEAN
         /\ \A t \in Threads : state[t] = "running" => t = current
         /\ pc[current] \in {"user", "join"} => state[current] = "running"
         /\ pc[current] \notin {"user", "join"} => current = 0
         /\ pc[0] \in {"boot", "created"} => current = 0
BY ExactReadyList, ThreadZero DEF ShellInv, OneRunning, Booted, Family, TypeOK

\* A call of the running thread, after which resched finds an exact list.
LEMMA ShellResched ==
  ASSUME ShellInv, TypeOK', pc[current] \in {"user", "join"},
         UNCHANGED <<parent, asleep, where>>,
         NEW st \in [Threads -> States], NEW rd \in Seq(Threads), NEW m,
         Exact(st, rd), Resched(st, rd, m), st[0] = state[0],
         \A t \in Threads : st[t] = "running" => t = current,
         st[current] = "running" \/ (st[current] = "defunct" /\ rd # <<>>)
  PROVE  ShellInv'
<1>1. asleep = {} /\ fault = "none" /\ TypeOK
  BY DEF ShellInv, Family, ContractKept
<1>2. /\ Exact(state', ready') /\ fault' = "none"
      /\ \A t \in Threads : state'[t] = "running" <=> t = current'
      /\ st[0] \in {"running", "ready"} => state'[0] \in {"running", "ready"}
  BY <1>1, ReschedExact, ShellFacts
<1>3. pc' = pc /\ pc[0] \in {"user", "join"}
  BY ShellFacts DEF where, ShellInv, TypeOK
<1>4. Booted'
  BY <1>3 DEF Booted, ShellInv, Family, TypeOK
<1>5. ReadyListExact'
  BY <1>2, ExactReadyListNext
<1>6. OneRunning'
  BY <1>2, <1>4 DEF OneRunning
<1>7. Family'
  BY <1>2, <1>3 DEF Family, ShellInv, where
<1> QED BY <1>2, <1>5, <1>6, <1>7 DEF ShellInv, ContractKept

\* What a command may not call is called by the shell.
LEMMA ShellCalls ==
  ASSUME ShellWorkload, NEW call, call \notin {"yield", "exit"}, Calls(call)
  PROVE  current = 0 /\ pc[0] = "user"
BY DEF ShellWorkload, Calls

\* The calls that make and start threads.
LEMMA ShellCreateStep ==
  ASSUME ShellWorkload, ShellInv, TypeOK',
         Create \/ CreateRefused \/ BootCreate \/ BootRun
  PROVE  ShellInv'
<1> USE ShellFacts
<1>1. CASE Create
  <2>1. current = 0 /\ pc[0] = "user" /\ pc[current] = "user"
    BY <1>1, ShellCalls DEF Create
  <2>2. PICK i \in Threads : FirstFree(i) /\ NewThread(i) /\ pc' = [pc EXCEPT ![i] = "user"]
    BY <1>1 DEF Create
  <2>3. state[i] = "free" /\ i # 0 /\ pc' = pc
    BY <2>1, <2>2 DEF FirstFree, FreeSlots, ShellInv, Family, TypeOK
  <2>4. /\ state' = [state EXCEPT ![i] = "suspend"] /\ parent' = [parent EXCEPT ![i] = 0]
        /\ UNCHANGED <<ready, current, asleep, fault>>
    BY <1>1, <2>1, <2>2 DEF Create, NewThread
  <2>5. Exact(state', ready')
    BY <2>3, <2>4 DEF Exact
  <2>6. ReadyListExact'
    BY <2>5, ExactReadyListNext
  <2>7. OneRunning' /\ ContractKept'
    BY <2>1, <2>3, <2>4 DEF OneRunning, Booted, ContractKept, ShellInv
  <2>8. Family'
    BY <2>1, <2>3, <2>4 DEF Family, ShellInv, TypeOK
  <2> QED BY <2>6, <2>7, <2>8 DEF ShellInv
<1>2. CASE CreateRefused
  <2>1. UNCHANGED <<state, parent, current, ready, asleep, pc, fault>>
    BY <1>2 DEF CreateRefused, table, where
  <2>2. ReadyListExact'
    BY <2>1, ExactReadyListNext DEF Exact
  <2>3. OneRunning' /\ ContractKept'
    BY <2>1 DEF OneRunning, Booted, ContractKept, ShellInv
  <2>4. Family'
    BY <2>1 DEF Family, ShellInv
  <2> QED BY <2>2, <2>3, <2>4 DEF ShellInv
<1>3. CASE BootCreate
  <2>1. current = 0 /\ pc[0] = "boot" /\ \A t \in Threads : state[t] = "free"
    BY <1>3 DEF BootCreate, ShellInv, Family
  <2>2. PICK i \in Threads : FirstFree(i) /\ NewThread(i)
    BY <1>3 DEF BootCreate
  <2>3. i = 0
    BY <2>1, <2>2 DEF FirstFree, FreeSlots, Threads
  <2>4. /\ state' = [state EXCEPT ![0] = "suspend"] /\ parent' = [parent EXCEPT ![0] = 0]
        /\ pc' = [pc EXCEPT ![0] = "created"] /\ UNCHANGED <<ready, current, asleep, fault>>
    BY <1>3, <2>1, <2>2, <2>3 DEF BootCreate, NewThread
  <2>5. Exact(state', ready')
    BY <2>1, <2>4 DEF Exact
  <2>6. ReadyListExact'
    BY <2>5, ExactReadyListNext
  <2>7. OneRunning' /\ ContractKept'
    BY <2>1, <2>4 DEF OneRunning, Booted, ContractKept, ShellInv, TypeOK
  <2>8. Family'
    BY <2>1, <2>4 DEF Family, ShellInv, TypeOK
  <2> QED BY <2>6, <2>7, <2>8 DEF ShellInv
<1>4. CASE BootRun
  <2>1. current = 0 /\ pc[0] = "created" /\ state[0] = "suspend"
    BY <1>4 DEF BootRun, ShellInv, Family
  <2>2. /\ state' = [state EXCEPT ![0] = "running"] /\ pc' = [pc EXCEPT ![0] = "user"]
        /\ UNCHANGED <<parent, ready, current, asleep, fault>>
    BY <1>4, <2>1 DEF BootRun
  <2>3. Exact(state', ready')
    BY <2>1, <2>2 DEF Exact
  <2>4. ReadyListExact'
    BY <2>3, ExactReadyListNext
  <2>5. OneRunning' /\ ContractKept'
    BY <2>1, <2>2 DEF OneRunning, Booted, ContractKept, ShellInv, TypeOK
  <2>6. Family'
    BY <2>1, <2>2 DEF Family, ShellInv, TypeOK
  <2> QED BY <2>4, <2>5, <2>6 DEF ShellInv
<1> QED BY <1>1, <1>2, <1>3, <1>4

LEMMA ShellJoinStep ==
  ASSUME ShellWorkload, ShellInv, TypeOK', NEW t \in Threads,
         Join(t) \/ JoinBegin(t) \/ JoinEnds \/ JoinFails
  PROVE  ShellInv'
<1> USE ShellFacts
<1>1. current = 0 /\ pc[0] \in {"user", "join"}
  <2>1. Join(t) \/ JoinBegin(t) => current = 0 /\ pc[0] = "user"
    BY ShellCalls DEF Join, JoinBegin
  <2>2. JoinEnds \/ JoinFails => current = 0 /\ pc[0] = "join"
    BY DEF JoinEnds, JoinFails, InJoin, ShellInv, Family
  <2> QED BY <2>1, <2>2
<1>2. /\ UNCHANGED <<parent, ready, current, asleep, fault>>
      /\ pc' = pc \/ pc' = [pc EXCEPT ![0] = "user"] \/ pc' = [pc EXCEPT ![0] = "join"]
  BY <1>1 DEF Join, JoinBegin, JoinEnds, JoinFails, table
<1>3. /\ \A u \in Threads : state'[u] = "ready" <=> state[u] = "ready"
      /\ \A u \in Threads : state'[u] = "running" <=> state[u] = "running"
  BY DEF Join, JoinBegin, JoinEnds, JoinFails, table
<1>4. ReadyListExact'
  BY <1>2, <1>3, ExactReadyListNext DEF Exact
<1>5. OneRunning' /\ ContractKept'
  BY <1>1, <1>2, <1>3 DEF OneRunning, Booted, ContractKept, ShellInv, TypeOK
<1>6. Family'
  BY <1>1, <1>2, <1>3 DEF Family, ShellInv, TypeOK
<1> QED BY <1>4, <1>5, <1>6 DEF ShellInv

LEMMA ShellResumeStep ==
  ASSUME ShellWorkload, ShellInv, TypeOK', NEW t \in Threads, Resume(t)
  PROVE  ShellInv'
<1> USE ShellFacts
<1> DEFINE st == [state EXCEPT ![t] = "ready"]
           rd == Enter(ready, t)
<1>1. /\ pc[current] = "user" /\ state[t] = "suspend" /\ asleep = {}
      /\ UNCHANGED <<parent, asleep, where>>
  BY DEF Resume, Calls, ShellInv, Family
<1>2. ~InReady(ready, t)
  BY <1>1 DEF Exact
<1>3. Resched(st, rd, sie)
  BY <1>1, <1>2 DEF Resume, Queued
<1>4. st \in [Threads -> States] /\ rd \in Seq(Threads) /\ Exact(st, rd)
  BY <1>2, AppendElements DEF Exact, Enter, States
<1>5. /\ state[current] = "running" /\ st[current] = "running"
      /\ \A u \in Threads : st[u] = "running" => u = current
      /\ st[0] = state[0]
  BY <1>1 DEF ShellInv, Family, TypeOK
<1> HIDE DEF st, rd
<1> QED BY <1>1, <1>3, <1>4, <1>5, ShellResched

\* A command that ends: the table and the list that resched finds.
LEMMA ExitReaps ==
  ASSUME ShellWorkload, ShellInv, NEW v \in RetVals, Exit(v)
  PROVE  \E st \in [Threads -> States] :
           /\ \A u \in Threads : st[u] = IF u = current THEN "defunct" ELSE state[u]
           /\ Exact(st, ready) /\ ready # <<>> /\ Resched(st, ready, sie)
           /\ pc[current] = "user" /\ state[current] = "running" /\ current # 0
<1> USE ShellFacts
<1> DEFINE st == Reaped(current)
<1>1. pc[current] = "user" /\ current # 0
  BY DEF Exit, Calls, ShellWorkload
<1>2. /\ \A u \in Threads : parent[u] = 0
      /\ pc[0] \in {"user", "join"}
  BY <1>1 DEF ShellInv, Family, TypeOK
<1>3. /\ st \in [Threads -> States]
      /\ \A u \in Threads : st[u] = IF u = current THEN "defunct" ELSE state[u]
  BY <1>1, <1>2 DEF Reaped, States
<1>4. state[current] = "running" /\ state[0] = "ready"
  BY <1>1, <1>2 DEF ShellInv, Family
<1>5. Exact(st, ready)
  BY <1>3, <1>4 DEF Exact
<1> HIDE DEF st
<1>6. ready # <<>> /\ ~Stays(st, ready)
  <2>1. InReady(ready, 0)
    BY <1>4 DEF Exact
  <2>2. ready # <<>> /\ InReady(ready, Head(ready))
    BY <2>1, EmptySeq DEF InReady
  <2>3. Head(ready) \in Threads
    BY <2>2, HeadTailProperties
  <2> QED BY <1>5, <2>2, <2>3 DEF Exact, Stays
<1>7. Resched(st, ready, sie)
  BY <1>6 DEF Exit, st
<1> QED BY <1>1, <1>3, <1>4, <1>5, <1>6, <1>7

LEMMA ShellExitStep ==
  ASSUME ShellWorkload, ShellInv, TypeOK', NEW v \in RetVals, Exit(v)
  PROVE  ShellInv'
<1> USE ShellFacts
<1>1. UNCHANGED <<parent, asleep, where>>
  BY DEF Exit
<1>2. PICK st \in [Threads -> States] :
        /\ \A u \in Threads : st[u] = IF u = current THEN "defunct" ELSE state[u]
        /\ Exact(st, ready) /\ ready # <<>> /\ Resched(st, ready, sie)
        /\ pc[current] = "user" /\ current # 0
  BY ExitReaps
<1> QED BY <1>1, <1>2, ShellResched

LEMMA ShellYieldStep ==
  ASSUME ShellWorkload, ShellInv, TypeOK', Yield \/ JoinWaits \/ Tick
  PROVE  ShellInv'
<1> USE ShellFacts
<1>1. pc[current] \in {"user", "join"} /\ UNCHANGED <<parent, asleep, where>>
  BY DEF Yield, JoinWaits, InJoin, Tick, Running, Calls, ShellWorkload, ShellInv, TypeOK
<1>2. state[current] = "running"
  BY <1>1
<1>3. Tick => SleepRootLinked \/ ~InReady(ready, 0)
  <2>1. Tick => SleepRootLinked \/ current = 0
    BY DEF Tick, Running, ShellWorkload
  <2> QED BY <1>2, <2>1 DEF Exact
<1>4. \E m : Resched(state, ready, m)
  BY <1>3 DEF Yield, JoinWaits, Tick
<1> QED BY <1>1, <1>2, <1>4, ShellResched

LEMMA ShellStep == ShellWorkload /\ ShellInv /\ TypeOK' /\ [Next]_vars => ShellInv'
<1> SUFFICES ASSUME ShellWorkload, ShellInv, TypeOK', [Next]_vars PROVE ShellInv'
  OBVIOUS
<1>1. CASE UNCHANGED vars
  BY <1>1 DEF vars, ShellInv, ReadyListExact, InReady, OneRunning, Booted, ContractKept,
              Family
<1>2. CASE Create \/ CreateRefused \/ Boot
  BY <1>2, ShellCreateStep DEF Boot
<1>3. CASE Yield \/ JoinWaits \/ Tick
  BY <1>3, ShellYieldStep
<1>4. CASE JoinEnds \/ JoinFails
  BY <1>4, ShellJoinStep, ThreadZero
<1>5. CASE \E t \in Threads : Join(t) \/ JoinBegin(t)
  BY <1>5, ShellJoinStep
<1>6. CASE \E t \in Threads : Resume(t)
  BY <1>6, ShellResumeStep
<1>7. CASE \E v \in RetVals : Exit(v)
  BY <1>7, ShellExitStep
<1>8. CASE \E t \in Threads : Suspend(t) \/ Kill(t) \/ Sleep(t) \/ Unsleep(t)
  BY <1>8 DEF Suspend, Kill, Sleep, Unsleep, Calls, ShellWorkload
<1> QED BY <1>1, <1>2, <1>3, <1>4, <1>5, <1>6, <1>7, <1>8 DEF Next, Call

\* The calls of the shell and its commands keep the invariant: resume.c, join.c
\* and kill.c undo in the end what create.c began.
THEOREM ShellInvariance == ShellWorkload => (Spec => []ShellInv)
<1>1. ASSUME ShellWorkload PROVE ShellInv /\ TypeOK' /\ [Next]_vars => ShellInv'
  BY <1>1, ShellStep
<1>2. ASSUME ShellWorkload PROVE Spec => []ShellInv
  BY <1>1, <1>2, ShellInvInit, TypeCorrect, PTL DEF Spec
<1> QED BY <1>2

\* As long as the calls are those of the shell and its commands, the ready list
\* holds exactly the ready threads (resched.c 28 and 32, kill.c 17).
THEOREM ShellReadyListExact == ShellWorkload => (Spec => []ReadyListExact)
<1>1. ShellInv => ReadyListExact
  BY DEF ShellInv
<1>2. ASSUME ShellWorkload PROVE Spec => []ReadyListExact
  BY <1>1, <1>2, ShellInvariance, PTL
<1> QED BY <1>2

\* With the same calls the current thread is running at all times after boot.
THEOREM ShellOneRunning == ShellWorkload => (Spec => []OneRunning)
<1>1. ShellInv => OneRunning
  BY DEF ShellInv
<1>2. ASSUME ShellWorkload PROVE Spec => []OneRunning
  BY <1>1, <1>2, ShellInvariance, PTL
<1> QED BY <1>2

\* With the same calls no thread is enqueued twice, no root unlinked, no ecall
\* raised in a handler and no dead thread run on (queue.h 6-7).
THEOREM ShellKeepsContract == ShellWorkload => (Spec => []ContractKept)
<1>1. ShellInv => ContractKept
  BY DEF ShellInv
<1>2. ASSUME ShellWorkload PROVE Spec => []ContractKept
  BY <1>1, <1>2, ShellInvariance, PTL
<1> QED BY <1>2

-----------------------------------------------------------------------------
(***************************************************************************)
(* The scheduler of the shell's threads is a RoundRobin                    *)
(***************************************************************************)

\* Putting an element before a sequence.
LEMMA BeforeElements ==
  ASSUME NEW S, NEW s \in Seq(S), NEW c \in S
  PROVE  /\ <<c>> \o s \in Seq(S) /\ Len(<<c>> \o s) = Len(s) + 1 /\ Len(s) \in Nat
         /\ \A i \in 1 .. Len(s) + 1 : (<<c>> \o s)[i] = IF i = 1 THEN c ELSE s[i - 1]
<1> DEFINE one == <<c>>
<1>1. one \in Seq(S) /\ Len(one) = 1 /\ one[1] = c /\ Len(s) \in Nat
  BY LenProperties
<1> HIDE DEF one
<1>2. /\ one \o s \in Seq(S) /\ Len(one \o s) = Len(one) + Len(s)
      /\ \A i \in 1 .. Len(one) + Len(s) :
           (one \o s)[i] = IF i <= Len(one) THEN one[i] ELSE s[i - Len(one)]
  BY <1>1, ConcatProperties
<1>3. /\ Len(one \o s) = Len(s) + 1
      /\ \A i \in 1 .. Len(s) + 1 : (one \o s)[i] = IF i = 1 THEN c ELSE s[i - 1]
  BY <1>1, <1>2
<1> QED BY <1>1, <1>2, <1>3, Zenon DEF one

LEMMA LineFacts ==
  ASSUME NEW S, NEW rd \in Seq(S), NEW c \in S
  PROVE  /\ <<c>> \o rd \in Seq(S) /\ Len(<<c>> \o rd) = Len(rd) + 1
         /\ Head(<<c>> \o rd) = c /\ Tail(<<c>> \o rd) = rd
         /\ \A t \in S : Append(<<c>> \o rd, t) = <<c>> \o Append(rd, t)
         /\ rd # <<>> => <<Head(rd)>> \o Tail(rd) = rd
         /\ \A t : InReady(<<c>> \o rd, t) => t = c \/ InReady(rd, t)
<1> DEFINE l == <<c>> \o rd
<1>1. /\ l \in Seq(S) /\ Len(l) = Len(rd) + 1 /\ Len(rd) \in Nat
      /\ \A i \in 1 .. Len(rd) + 1 : l[i] = IF i = 1 THEN c ELSE rd[i - 1]
  BY BeforeElements
<1> HIDE DEF l
<1>2. l # <<>> /\ Head(l) = c
  BY <1>1, EmptySeq
<1>3. Tail(l) = rd
  <2>1. /\ Tail(l) \in Seq(S) /\ Len(Tail(l)) = Len(rd)
        /\ \A i \in 1 .. Len(Tail(l)) : Tail(l)[i] = l[i + 1]
    BY <1>1, <1>2, HeadTailProperties
  <2>2. \A i \in 1 .. Len(rd) : Tail(l)[i] = rd[i]
    BY <1>1, <2>1
  <2> QED BY <2>1, <2>2, SeqEqual
<1>4. \A t \in S : Append(l, t) = <<c>> \o Append(rd, t)
  <2> TAKE t \in S
  <2>1. Append(l, t) = l \o <<t>> /\ Append(rd, t) = rd \o <<t>>
    BY <1>1, AppendIsConcat
  <2> DEFINE x == <<c>>
             y == <<t>>
  <2>2. x \in Seq(S) /\ y \in Seq(S)
    OBVIOUS
  <2> HIDE DEF x, y
  <2>3. (x \o rd) \o y = x \o (rd \o y)
    BY <2>2, ConcatAssociative
  <2> QED BY <2>1, <2>3, Zenon DEF l, x, y
<1>5. rd # <<>> => <<Head(rd)>> \o Tail(rd) = rd
  <2> SUFFICES ASSUME rd # <<>> PROVE <<Head(rd)>> \o Tail(rd) = rd
    OBVIOUS
  <2> DEFINE d == <<Head(rd)>> \o Tail(rd)
  <2>1. /\ Head(rd) \in S /\ Head(rd) = rd[1] /\ Tail(rd) \in Seq(S)
        /\ Len(Tail(rd)) = Len(rd) - 1
        /\ \A i \in 1 .. Len(Tail(rd)) : Tail(rd)[i] = rd[i + 1]
    BY HeadTailProperties
  <2>2. /\ d \in Seq(S) /\ Len(d) = Len(rd)
        /\ \A i \in 1 .. Len(rd) : d[i] = IF i = 1 THEN Head(rd) ELSE Tail(rd)[i - 1]
    BY <1>1, <2>1, BeforeElements
  <2> HIDE DEF d
  <2>3. \A i \in 1 .. Len(rd) : d[i] = rd[i]
    BY <1>1, <2>1, <2>2
  <2>4. d = rd
    BY <2>2, <2>3, SeqEqual
  <2> QED BY <2>4 DEF d
<1>6. \A t : InReady(l, t) => t = c \/ InReady(rd, t)
  <2> TAKE t
  <2> SUFFICES ASSUME InReady(l, t), t # c PROVE InReady(rd, t)
    OBVIOUS
  <2>1. PICK i \in 1 .. Len(rd) + 1 : l[i] = t
    BY <1>1 DEF InReady
  <2>2. i - 1 \in 1 .. Len(rd) /\ rd[i - 1] = t
    BY <1>1, <2>1
  <2> QED BY <2>2 DEF InReady
<1> QED BY <1>1, <1>2, <1>3, <1>4, <1>5, <1>6 DEF l

\* What resched does to the line: the caller goes to the end of it, or leaves.
LEMMA LineMoves ==
  ASSUME ShellInv, pc[current] \in {"user", "join"},
         NEW st \in [Threads -> States], NEW rd \in Seq(Threads), NEW m,
         Exact(st, rd), Resched(st, rd, m),
         \A t \in Threads : st[t] = "running" => t = current,
         st[current] = "running" \/ (st[current] = "defunct" /\ rd # <<>>)
  PROVE  /\ \A t \in Threads :
              \/ state'[t] = st[t]
              \/ st[t] = "running" /\ state'[t] = "ready"
              \/ st[t] = "ready" /\ state'[t] = "running"
         /\ <<current'>> \o ready' =
              IF rd = <<>> THEN <<current>>
              ELSE IF st[current] = "running" THEN Append(rd, current) ELSE rd
<1> USE ShellFacts
<1>1. /\ \A t \in Threads :
              \/ state'[t] = st[t]
              \/ st[t] = "running" /\ state'[t] = "ready"
              \/ st[t] = "ready" /\ state'[t] = "running"
      /\ IF rd = <<>> THEN current' = current /\ ready' = rd
                      ELSE current' = Head(rd) /\ ready' = NextReady(st, rd)
  BY ReschedExact DEF ShellInv, Family, ContractKept
<1>2. CASE rd = <<>>
  <2>1. <<current>> \o <<>> = <<current>>
    BY ConcatEmptySeq
  <2> QED BY <1>1, <1>2, <2>1
<1>3. CASE rd # <<>>
  <2>1. Head(rd) \in Threads /\ Tail(rd) \in Seq(Threads) /\ <<Head(rd)>> \o Tail(rd) = rd
    BY <1>3, HeadTailProperties, LineFacts
  <2>2. CASE st[current] = "running"
    <3>1. ready' = Append(Tail(rd), current) /\ current' = Head(rd)
      BY <1>1, <1>3, <2>2 DEF NextReady, GoesBack
    <3>2. <<Head(rd)>> \o Append(Tail(rd), current) = Append(rd, current)
      BY <2>1, LineFacts
    <3> QED BY <1>1, <1>3, <2>2, <3>1, <3>2
  <2>3. CASE st[current] = "defunct"
    <3>1. ready' = Tail(rd) /\ current' = Head(rd)
      BY <1>1, <1>3, <2>3 DEF NextReady, GoesBack
    <3> QED BY <1>1, <1>3, <2>1, <2>3, <3>1
  <2> QED BY <2>2, <2>3
<1> QED BY <1>1, <1>2, <1>3

InLine == [Scheduler!Next]_(<<current>> \o ready)

Moved(t) == state'[t] # state[t] => <<state[t], state'[t]>> \in Moves

\* A thread that yields, waits or is preempted goes to the end of the line.
LEMMA YieldMoves ==
  ASSUME ShellWorkload, ShellInv, Yield \/ JoinWaits \/ Tick
  PROVE  InLine /\ \A t \in Threads : Moved(t)
<1> USE ShellFacts
<1>1. pc[current] \in {"user", "join"} /\ state[current] = "running"
  BY DEF Yield, JoinWaits, InJoin, Tick, Running, Calls, ShellWorkload, ShellInv, TypeOK
<1>2. Tick => SleepRootLinked \/ ~InReady(ready, 0)
  <2>1. Tick => SleepRootLinked \/ current = 0
    BY DEF Tick, Running, ShellWorkload
  <2> QED BY <1>1, <2>1 DEF Exact
<1>3. PICK m : Resched(state, ready, m)
  BY <1>2 DEF Yield, JoinWaits, Tick
<1>4. /\ \A t \in Threads :
           \/ state'[t] = state[t]
           \/ state[t] = "running" /\ state'[t] = "ready"
           \/ state[t] = "ready" /\ state'[t] = "running"
      /\ <<current'>> \o ready' =
           IF ready = <<>> THEN <<current>> ELSE Append(ready, current)
  BY <1>1, <1>3, LineMoves
<1>5. \A t \in Threads : Moved(t)
  BY <1>4 DEF Moved, Moves
<1>6. CASE ready = <<>>
  <2>1. <<current>> \o ready = <<current>>
    BY <1>6, ConcatEmptySeq
  <2> QED BY <1>4, <1>5, <1>6, <2>1 DEF InLine
<1>7. CASE ready # <<>>
  <2>1. Tail(<<current>> \o ready) = ready /\ Head(<<current>> \o ready) = current
    BY LineFacts
  <2>2. Scheduler!Rotate
    BY <1>4, <1>7, <2>1 DEF Scheduler!Rotate
  <2> QED BY <1>5, <2>2 DEF InLine, Scheduler!Next
<1> QED BY <1>6, <1>7

\* A resumed thread enters the line at its end, just before the caller.
LEMMA ResumeMoves ==
  ASSUME ShellWorkload, ShellInv, NEW t \in Threads, Resume(t)
  PROVE  InLine /\ \A u \in Threads : Moved(u)
<1> USE ShellFacts
<1> DEFINE st == [state EXCEPT ![t] = "ready"]
           rd == Enter(ready, t)
           line == <<current>> \o ready
<1>1. pc[current] = "user" /\ state[t] = "suspend" /\ asleep = {} /\ state[current] = "running"
  BY DEF Resume, Calls, ShellInv, Family
<1>2. ~InReady(ready, t) /\ t # current
  BY <1>1 DEF Exact
<1>3. Resched(st, rd, sie)
  BY <1>1, <1>2 DEF Resume, Queued
<1>4. /\ st \in [Threads -> States] /\ rd \in Seq(Threads) /\ rd # <<>> /\ Exact(st, rd)
  BY <1>2, AppendElements DEF Exact, Enter, States
<1>5. st[current] = "running" /\ \A u \in Threads : st[u] = "running" => u = current
  BY <1>1, <1>2
<1>6. \A u \in Threads : st[u] = IF u = t THEN "ready" ELSE state[u]
  OBVIOUS
<1> HIDE DEF st
<1>7. /\ \A u \in Threads :
           \/ state'[u] = st[u]
           \/ st[u] = "running" /\ state'[u] = "ready"
           \/ st[u] = "ready" /\ state'[u] = "running"
      /\ <<current'>> \o ready' = Append(rd, current)
  BY <1>1, <1>3, <1>4, <1>5, LineMoves
<1>8. \A u \in Threads : Moved(u)
  BY <1>1, <1>6, <1>7 DEF Moved, Moves
<1>9. Scheduler!Enter(t)
  <2>1. \A u \in Threads : Append(line, u) = <<current>> \o Append(ready, u)
    BY LineFacts
  <2>2. Append(line, t) = <<current>> \o rd
    BY <2>1 DEF Enter
  <2>3. ~InReady(line, t) /\ Head(line) = current
    BY <1>2, LineFacts
  <2>4. Tail(Append(line, t)) = rd
    BY <1>4, <2>2, LineFacts
  <2>5. ~Scheduler!Waiting(t)
    BY <2>3 DEF Scheduler!Waiting, InReady
  <2>6. <<current'>> \o ready' = Append(Tail(Append(line, t)), Head(line))
    BY <1>7, <2>3, <2>4
  <2> QED BY <2>5, <2>6 DEF Scheduler!Enter
<1> QED BY <1>8, <1>9 DEF InLine, Scheduler!Next

\* A thread that ends leaves the line to those behind it.
LEMMA ExitMoves ==
  ASSUME ShellWorkload, ShellInv, NEW v \in RetVals, Exit(v)
  PROVE  InLine /\ \A t \in Threads : Moved(t)
<1> USE ShellFacts
<1>1. PICK st \in [Threads -> States] :
        /\ \A u \in Threads : st[u] = IF u = current THEN "defunct" ELSE state[u]
        /\ Exact(st, ready) /\ ready # <<>> /\ Resched(st, ready, sie)
        /\ pc[current] = "user" /\ state[current] = "running"
  BY ExitReaps
<1>2. /\ \A t \in Threads :
           \/ state'[t] = st[t]
           \/ st[t] = "running" /\ state'[t] = "ready"
           \/ st[t] = "ready" /\ state'[t] = "running"
      /\ <<current'>> \o ready' = ready
  BY <1>1, LineMoves
<1>3. \A t \in Threads : Moved(t)
  BY <1>1, <1>2 DEF Moved, Moves
<1>4. Scheduler!Leave
  <2>1. /\ Tail(<<current>> \o ready) = ready
        /\ Len(<<current>> \o ready) = Len(ready) + 1 /\ Len(ready) \in Nat \ {0}
    BY <1>1, LineFacts, EmptySeq
  <2> QED BY <1>2, <2>1 DEF Scheduler!Leave
<1> QED BY <1>3, <1>4 DEF InLine, Scheduler!Next

\* The other calls leave the line alone.
LEMMA OtherMoves ==
  ASSUME ShellInv, NEW t \in Threads,
         \/ Create \/ CreateRefused \/ BootCreate \/ BootRun
         \/ Join(t) \/ JoinBegin(t) \/ JoinEnds \/ JoinFails
  PROVE  UNCHANGED <<current, ready>> /\ \A u \in Threads : Moved(u)
<1>1. ASSUME NEW i \in Threads, FirstFree(i), NewThread(i)
      PROVE  \A u \in Threads : Moved(u)
  BY <1>1 DEF FirstFree, FreeSlots, NewThread, Moved, Moves, ShellInv, TypeOK
<1>2. CASE Create \/ BootCreate
  BY <1>1, <1>2 DEF Create, BootCreate
<1>3. CASE BootRun
  <2>1. current = 0 /\ pc[0] = "created" /\ state[0] = "suspend"
    BY <1>3, ShellFacts DEF BootRun, ShellInv, Family
  <2> QED BY <1>3, <2>1 DEF BootRun, Moved, Moves, ShellInv, TypeOK
<1>4. CASE CreateRefused \/ JoinBegin(t) \/ JoinEnds \/ JoinFails
  BY <1>4 DEF CreateRefused, JoinBegin, JoinEnds, JoinFails, table, Moved
<1>5. CASE Join(t)
  BY <1>5 DEF Join, Moved, Moves, ShellInv, TypeOK
<1> QED BY <1>2, <1>3, <1>4, <1>5

LEMMA ShellMoves ==
  ShellWorkload /\ ShellInv /\ [Next]_vars => InLine /\ \A t \in Threads : Moved(t)
<1> SUFFICES ASSUME ShellWorkload, ShellInv, [Next]_vars
             PROVE  InLine /\ \A t \in Threads : Moved(t)
  OBVIOUS
<1>1. CASE UNCHANGED vars
  BY <1>1 DEF vars, InLine, Moved
<1>2. UNCHANGED <<current, ready>> => InLine
  BY DEF InLine
<1>3. CASE Create \/ CreateRefused \/ Boot \/ JoinEnds \/ JoinFails
  BY <1>2, <1>3, OtherMoves, ThreadZero DEF Boot
<1>4. CASE \E t \in Threads : Join(t) \/ JoinBegin(t)
  BY <1>2, <1>4, OtherMoves
<1>5. CASE Yield \/ JoinWaits \/ Tick
  BY <1>5, YieldMoves
<1>6. CASE \E t \in Threads : Resume(t)
  BY <1>6, ResumeMoves
<1>7. CASE \E v \in RetVals : Exit(v)
  BY <1>7, ExitMoves
<1>8. CASE \E t \in Threads : Suspend(t) \/ Kill(t) \/ Sleep(t) \/ Unsleep(t)
  BY <1>8 DEF Suspend, Kill, Sleep, Unsleep, Calls, ShellWorkload
<1> QED BY <1>1, <1>3, <1>4, <1>5, <1>6, <1>7, <1>8 DEF Next, Call

\* With the calls of the shell and its commands, a thread's slot goes round free,
\* suspend, ready, running, ..., defunct, free (create.c 22-25, join.c 7-9).
THEOREM ShellLifecycle == ShellWorkload => (Spec => Lifecycle)
<1>1. ASSUME ShellWorkload, ShellInv, [Next]_vars
      PROVE  [\A t \in Threads : state'[t] # state[t] => <<state[t], state'[t]>> \in Moves]_vars
  BY <1>1, ShellMoves DEF Moved
<1>2. ASSUME ShellWorkload PROVE Spec => Lifecycle
  BY <1>1, <1>2, ShellInvariance, PTL DEF Spec, Lifecycle
<1> QED BY <1>2

\* With the same calls resched serves the threads that can run in turn: Kernel
\* implements RoundRobin (resched.c 19-34).
THEOREM ShellRoundRobin == ShellWorkload => (Spec => SchedulerSpec)
<1>1. Init => Scheduler!Init
  <2>1. <<0>> \o <<>> = <<0>>
    BY ThreadZero, ConcatEmptySeq
  <2> QED BY <2>1 DEF Init, Scheduler!Init
<1>2. ASSUME ShellWorkload, ShellInv, [Next]_vars
      PROVE  [Scheduler!Next]_(<<current>> \o ready)
  BY <1>2, ShellMoves DEF InLine
<1>3. ASSUME ShellWorkload PROVE Spec => SchedulerSpec
  BY <1>1, <1>2, <1>3, ShellInvariance, PTL DEF Spec, SchedulerSpec, Scheduler!Spec
<1> QED BY <1>3
=============================================================================
