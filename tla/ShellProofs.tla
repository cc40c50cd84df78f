----------------------------- MODULE ShellProofs -----------------------------
(***************************************************************************)
(* Proofs about Traps and Shell, for the calls of the shell and its        *)
(* commands, every number of threads, and any lines.                       *)
(***************************************************************************)
EXTENDS ShellProps, KernelProofs, SequenceTheorems, WellFoundedInduction

(***************************************************************************)
(* What the other threads see: KernelProofs, of the table as it was before *)
(* a kill_thread that is under way.                                        *)
(***************************************************************************)
Abs == INSTANCE KernelProofs WITH
         state  <- IF InKill THEN was.state ELSE state,
         retval <- IF InKill THEN was.retval ELSE retval

SeenState  == IF InKill THEN was.state ELSE state
SeenRetval == IF InKill THEN was.retval ELSE retval

Dead == {"defunct", "free"}

\* Nobody but the current thread is at a point where it has work to do in
\* kill_thread or raise_syscall, but for those that have ended.
TrapPlaces ==
  /\ place \in [Threads -> Places]
  /\ place[current] \in {"own", "raise", "ecall"}
  /\ \A t \in Threads \ {current} : place[t] \in {"own", "masked"} \/ state[t] \in Dead

\* kill.c 16-19 of a thread that ends: what it has done so far.
EndUnderWay ==
  InKill => /\ Calls("exit")
            /\ state = Abs!Reaped(current)
            /\ \E v \in RetVals : retval = [was.retval EXCEPT ![current] = v]

TrapInv == Abs!AnyInv /\ Abs!ShellInv /\ TrapPlaces /\ EndUnderWay /\ SignalIntact

LEMMA AbsStep ==
  ASSUME ShellWorkload, TrapInv, [Abs!Next]_Abs!vars
  PROVE  Abs!AnyInv' /\ Abs!ShellInv'
<1>1. Abs!AnyInv'
  BY Abs!AnyStep, NTHREADSAssumption, RetValsAssumption, RootLinkAssumption, ImageAssumption
     DEF TrapInv
<1>2. Abs!ShellWorkload
  BY DEF ShellWorkload, Abs!ShellWorkload
<1> QED
  BY <1>1, <1>2, Abs!ShellStep, NTHREADSAssumption, RetValsAssumption, RootLinkAssumption,
     ImageAssumption
     DEF TrapInv, Abs!AnyInv

\* What the invariant says of the table that is seen.
LEMMA SeenFacts ==
  ASSUME TrapInv
  PROVE  /\ SeenState \in [Threads -> States] /\ SeenRetval \in [Threads -> RetVals]
         /\ current \in Threads /\ 0 \in Threads /\ ready \in Seq(Threads)
         /\ fault = "none" /\ asleep = {}
         /\ \A t \in Threads : SeenState[t] = "ready" <=> InReady(ready, t)
         /\ \A t \in Threads : SeenState[t] = "running" => t = current
         /\ pc[current] \in {"user", "join"} => SeenState[current] = "running"
         /\ pc[current] \notin {"user", "join"} => current = 0
         /\ \A t \in Threads : parent[t] = 0
         /\ pc \in [Threads -> {"boot", "created", "user", "join"}]
         /\ \A t \in Threads \ {0} : pc[t] = "user"
         /\ pc[0] \in {"user", "join"} => SeenState[0] \in {"running", "ready"}
         /\ pc[0] \in {"boot", "created"} => current = 0
<1>1. Abs!ShellInv
  BY DEF TrapInv
<1>2. /\ Abs!Exact(SeenState, ready)
      /\ \A t \in Threads : SeenState[t] = "running" => t = current
      /\ pc[current] \in {"user", "join"} => SeenState[current] = "running"
      /\ pc[current] \notin {"user", "join"} => current = 0
      /\ pc[0] \in {"boot", "created"} => current = 0
  BY <1>1, Abs!ShellFacts, NTHREADSAssumption, RetValsAssumption, RootLinkAssumption,
     ImageAssumption
     DEF SeenState, Threads, Abs!Threads
<1>3. /\ SeenState \in [Threads -> States] /\ SeenRetval \in [Threads -> RetVals]
      /\ current \in Threads /\ ready \in Seq(Threads)
      /\ pc \in [Threads -> {"boot", "created", "user", "join"}]
  BY <1>1 DEF Abs!ShellInv, Abs!TypeOK, SeenState, SeenRetval, Threads, Abs!Threads,
              States, Abs!States
<1>4. /\ fault = "none" /\ asleep = {} /\ \A t \in Threads : parent[t] = 0
      /\ \A t \in Threads \ {0} : pc[t] = "user"
      /\ pc[0] \in {"user", "join"} => SeenState[0] \in {"running", "ready"}
  BY <1>1 DEF Abs!ShellInv, Abs!ContractKept, Abs!Family, SeenState, Threads, Abs!Threads
<1>5. \A t \in Threads : SeenState[t] = "ready" <=> InReady(ready, t)
  BY <1>2 DEF Abs!Exact, InReady, Abs!InReady, Threads, Abs!Threads
<1> QED BY <1>2, <1>3, <1>4, <1>5, ThreadZero

-----------------------------------------------------------------------------
(***************************************************************************)
(* What resched and the return from the handler do                         *)
(***************************************************************************)
LEMMA ReschedDead ==
  ASSUME current \in Threads, NEW st \in [Threads -> States], NEW rd \in Seq(Threads), NEW m,
         Resched(st, rd, m)
  PROVE  /\ current' \in Threads
         /\ current' # current => st[current'] = "ready"
         /\ \A t \in Threads : st[t] \in Dead => state'[t] \in Dead \/ state'[t] = state[t]
         /\ \A t \in Threads : state'[t] \in Dead => st[t] \in Dead \/ state'[t] = state[t]
<1>1. rd # <<>> => Head(rd) \in Threads
  BY HeadTailProperties
<1>2. CASE rd # <<>> /\ ~Stays(st, rd) /\ Switch(st, rd, m)
  BY <1>1, <1>2 DEF Switch, Stays, OldState, Dead, States
<1>3. CASE \/ \E r : Stay(st, r, m)
           \/ \E why : Broken(why)
  BY <1>3 DEF Stay, Broken
<1> QED BY <1>2, <1>3 DEF Resched, Stays

LEMMA LandsOwn ==
  ASSUME NEW p \in [Threads -> Places], NEW sig, current' \in Threads, Lands(sig, p),
         p[current'] \in {"own", "masked"}
  PROVE  /\ place' \in [Threads -> Places] /\ place'[current'] = "own"
         /\ \A t \in Threads : t # current' => place'[t] = p[t]
BY DEF Lands, Places

\* While no kill_thread is under way, what is seen is the table.
LEMMA AbsResched ==
  ASSUME ~InKill, ~InKill', NEW st, NEW rd, NEW m, Resched(st, rd, m)
  PROVE  Abs!Resched(st, rd, m)
BY DEF Resched, Abs!Resched, Stay, Abs!Stay, Broken, Abs!Broken, Switch, Abs!Switch,
       Stays, Abs!Stays, SieOf, Abs!SieOf, GoesBack, Abs!GoesBack, Queued, Abs!Queued,
       InReady, Abs!InReady, OldState, Abs!OldState, NextReady, Abs!NextReady

\* A call that is one step and leaves its thread in its own code.
LEMMA TrapInvAgain ==
  ASSUME ShellWorkload, TrapInv, place'[current'] = "own",
         [Abs!Next]_Abs!vars, place' \in [Threads -> Places],
         \A t \in Threads \ {current'} : place'[t] \in {"own", "masked"} \/ state'[t] \in Dead
  PROVE  TrapInv'
<1>1. Abs!AnyInv' /\ Abs!ShellInv'
  BY AbsStep
<1>2. ~InKill' /\ ~At("ecall")'
  BY DEF InKill, At
<1> QED BY <1>1, <1>2 DEF TrapInv, TrapPlaces, EndUnderWay, SignalIntact

-----------------------------------------------------------------------------
(***************************************************************************)
(* One lemma for each kind of step: it keeps the invariant, and is a step  *)
(* of Kernel for all others.                                               *)
(***************************************************************************)
LEMMA OwnFacts ==
  ASSUME TrapInv, InOwnCode
  PROVE  /\ ~InKill /\ place \in [Threads -> Places] /\ place[current] = "own"
         /\ state \in [Threads -> States] /\ SeenState = state /\ SeenRetval = retval
         /\ current \in Threads /\ ready \in Seq(Threads)
         /\ \A t \in Threads \ {current} : place[t] \in {"own", "masked"} \/ state[t] \in Dead
BY SeenFacts DEF TrapInv, TrapPlaces, InOwnCode, InKill, SeenState, SeenRetval

QuietCall ==
  \/ Boot \/ Create \/ CreateRefused \/ JoinEnds \/ JoinFails
  \/ \E t \in Threads : Join(t) \/ JoinBegin(t) \/ Sleep(t)

LEMMA QuietStep ==
  ASSUME ShellWorkload, TrapInv, Quiet(QuietCall)
  PROVE  TrapInv' /\ [Abs!Next]_Abs!vars
<1> USE OwnFacts
<1>1. InOwnCode /\ QuietCall
  BY DEF Quiet
<1>2. place' = [t \in Threads |-> IF state[t] = "free" /\ state'[t] # "free" THEN "own" ELSE place[t]]
  BY DEF Quiet
<1>3. \A t \in Threads : ~Sleep(t)
  BY DEF Sleep, Calls, ShellWorkload
<1>4. current' = current
  BY <1>1, <1>3 DEF QuietCall, Boot, BootCreate, BootRun, Create, CreateRefused, JoinEnds,
                    JoinFails, Join, JoinBegin
<1>5. /\ place' \in [Threads -> Places] /\ place'[current'] = "own" /\ ~InKill'
  BY <1>1, <1>2, <1>4 DEF Places, InKill
<1>6. \A t \in Threads : state[t] \in Dead =>
           state'[t] \in Dead \/ t = current \/ (state[t] = "free" /\ state'[t] # "free")
  <2>1. ASSUME NEW i \in Threads, FirstFree(i), NewThread(i)
        PROVE  \A t \in Threads : state[t] \in Dead =>
                 state'[t] \in Dead \/ (state[t] = "free" /\ state'[t] # "free")
    BY <1>1, <2>1 DEF FirstFree, FreeSlots, NewThread, Dead
  <2>2. CASE Create \/ BootCreate
    BY <2>1, <2>2 DEF Create, BootCreate
  <2>3. CASE BootRun
    BY <1>1, <2>3 DEF BootRun, Dead
  <2>4. CASE CreateRefused \/ JoinEnds \/ JoinFails \/ \E t \in Threads : Join(t) \/ JoinBegin(t)
    BY <1>1, <2>4 DEF CreateRefused, JoinEnds, JoinFails, Join, JoinBegin, table, Dead
  <2> QED BY <1>1, <1>3, <2>2, <2>3, <2>4 DEF QuietCall, Boot
<1>7. \A t \in Threads \ {current'} : place'[t] \in {"own", "masked"} \/ state'[t] \in Dead
  BY <1>1, <1>2, <1>4, <1>6
<1>8. Abs!Next
  <2> USE DEF Threads, Abs!Threads, InKill
  <2>0. ~InKill /\ ~InKill'
    BY <1>1, <1>5
  <2>1. Create => Abs!Create
    BY <2>0 DEF Create, Abs!Create, Calls, Abs!Calls, FirstFree, Abs!FirstFree,
                FreeSlots, Abs!FreeSlots, NewThread, Abs!NewThread
  <2>2. BootCreate => Abs!BootCreate
    BY <2>0 DEF BootCreate, Abs!BootCreate, FirstFree, Abs!FirstFree,
                FreeSlots, Abs!FreeSlots, NewThread, Abs!NewThread
  <2>3. BootRun => Abs!BootRun
    BY <2>0 DEF BootRun, Abs!BootRun
  <2>4. CreateRefused => Abs!CreateRefused
    BY <2>0 DEF CreateRefused, Abs!CreateRefused, Calls, Abs!Calls, FreeSlots, Abs!FreeSlots,
                table, Abs!table, where, Abs!where
  <2>5. (JoinEnds => Abs!JoinEnds) /\ (JoinFails => Abs!JoinFails)
    BY <2>0 DEF JoinEnds, Abs!JoinEnds, JoinFails, Abs!JoinFails, InJoin, Abs!InJoin,
                table, Abs!table
  <2>6. \A t \in Threads : Join(t) => Abs!Join(t)
    BY <2>0 DEF Join, Abs!Join, Calls, Abs!Calls, Returned, Abs!Returned
  <2>7. \A t \in Threads : JoinBegin(t) => Abs!JoinBegin(t)
    BY <2>0 DEF JoinBegin, Abs!JoinBegin, Calls, Abs!Calls, table, Abs!table
  <2> QED BY <1>1, <1>3, <2>1, <2>2, <2>3, <2>4, <2>5, <2>6, <2>7
          DEF QuietCall, Boot, Abs!Next, Abs!Boot, Abs!Call
<1> QED BY <1>5, <1>7, <1>8, TrapInvAgain

RaisingCall == Yield \/ JoinWaits \/ \E t \in Threads : Resume(t) \/ Suspend(t) \/ Unsleep(t)

LEMMA RaisingStep ==
  ASSUME ShellWorkload, TrapInv, Raising(RaisingCall)
  PROVE  TrapInv' /\ [Abs!Next]_Abs!vars
<1> USE OwnFacts
<1>1. /\ InOwnCode /\ RaisingCall
      /\ Lands(RESCHED, [place EXCEPT ![current] = "masked"])
  BY DEF Raising
<1>2. Yield \/ JoinWaits \/ \E t \in Threads : Resume(t)
  BY <1>1 DEF RaisingCall, Suspend, Unsleep, Calls, ShellWorkload
<1>3. /\ current' \in Threads
      /\ current' # current => state[current'] \notin Dead
      /\ \A t \in Threads : state[t] \in Dead => state'[t] \in Dead
  <2>1. CASE Yield \/ JoinWaits
    <3>1. PICK m : Resched(state, ready, m)
      BY <2>1 DEF Yield, JoinWaits
    <3> QED BY <1>1, <3>1, ReschedDead DEF Dead
  <2>2. ASSUME NEW t \in Threads, Resume(t)
        PROVE  /\ current' \in Threads
               /\ current' # current => state[current'] \notin Dead
               /\ \A u \in Threads : state[u] \in Dead => state'[u] \in Dead
    <3>1. state[t] = "suspend"
      BY <2>2 DEF Resume
    <3>2. CASE Broken("double enqueue")
      BY <1>1, <3>2 DEF Broken
    <3>3. CASE Resched([state EXCEPT ![t] = "ready"], Enter(ready, t), sie)
      <4> DEFINE st == [state EXCEPT ![t] = "ready"]
      <4>1. st \in [Threads -> States] /\ Enter(ready, t) \in Seq(Threads)
        BY <1>1, AppendProperties DEF Enter, States
      <4>2. \A u \in Threads : st[u] = IF u = t THEN "ready" ELSE state[u]
        BY <1>1
      <4>3. Resched(st, Enter(ready, t), sie)
        BY <3>3
      <4> HIDE DEF st
      <4>4. /\ current' \in Threads
            /\ current' # current => st[current'] = "ready"
            /\ \A u \in Threads : st[u] \in Dead => state'[u] \in Dead \/ state'[u] = state[u]
        BY <1>1, <4>1, <4>3, ReschedDead
      <4> QED BY <3>1, <4>2, <4>4 DEF Dead
    <3> QED BY <2>2, <3>2, <3>3 DEF Resume
  <2> QED BY <1>2, <2>1, <2>2
<1> DEFINE p == [place EXCEPT ![current] = "masked"]
<1>4. /\ p \in [Threads -> Places] /\ p[current] = "masked"
      /\ \A t \in Threads : t # current => p[t] = place[t]
  BY <1>1 DEF Places
<1>5. Lands(RESCHED, p)
  BY <1>1
<1> HIDE DEF p
<1>6. p[current'] \in {"own", "masked"}
  BY <1>1, <1>3, <1>4
<1>7. /\ place' \in [Threads -> Places] /\ place'[current'] = "own"
      /\ \A t \in Threads : t # current' => place'[t] = p[t]
  BY <1>3, <1>4, <1>5, <1>6, LandsOwn
<1>8. \A t \in Threads \ {current'} : place'[t] \in {"own", "masked"} \/ state'[t] \in Dead
  BY <1>1, <1>3, <1>4, <1>7
<1>9. ~InKill /\ ~InKill'
  BY <1>1, <1>7 DEF InKill
<1>10. Abs!Next
  <2>1. Yield => Abs!Yield
    BY <1>9, AbsResched DEF Yield, Abs!Yield, Calls, Abs!Calls, where, Abs!where
  <2>2. JoinWaits => Abs!JoinWaits
    BY <1>9, AbsResched DEF JoinWaits, Abs!JoinWaits, InJoin, Abs!InJoin, where, Abs!where
  <2>3. \A t \in Threads : Resume(t) => Abs!Resume(t)
    BY <1>9, AbsResched DEF Resume, Abs!Resume, Calls, Abs!Calls, Queued, Abs!Queued,
         InReady, Abs!InReady, Enter, Abs!Enter, Broken, Abs!Broken, where, Abs!where
  <2> QED BY <1>2, <2>1, <2>2, <2>3 DEF Abs!Next, Abs!Call, Threads, Abs!Threads
<1> QED BY <1>7, <1>8, <1>10, TrapInvAgain

\* kill.c 16-19 of a thread that ends: the others see nothing of it.
LEMMA EndsStep ==
  ASSUME ShellWorkload, TrapInv, NEW v \in RetVals, Killing(Ends(v))
  PROVE  TrapInv' /\ [Abs!Next]_Abs!vars
<1>1. InOwnCode /\ Calls("exit")
  BY DEF Killing, Ends
<1> USE OwnFacts, SeenFacts
<1>2. current # 0
  BY <1>1 DEF Calls, ShellWorkload
<1>3. /\ UNCHANGED <<parent, current, ready, asleep, sie, pc, target, result, mask, fault>>
      /\ was' = [state |-> state, retval |-> retval]
      /\ place' = [place EXCEPT ![current] = "raise"]
      /\ retval' = [retval EXCEPT ![current] = v]
      /\ state' = Reaped(current)
  BY DEF Killing, Ends, Doomed, where, Remembered
<1>4. /\ place' \in [Threads -> Places] /\ place'[current] = "raise"
      /\ \A t \in Threads : t # current => place'[t] = place[t]
      /\ InKill' /\ ~At("ecall")'
  BY <1>1, <1>3 DEF Places, InKill, At
<1>5. UNCHANGED Abs!vars
  BY <1>1, <1>3, <1>4 DEF Abs!vars
<1>6. Abs!AnyInv' /\ Abs!ShellInv'
  BY <1>5, AbsStep
<1>7. \A t \in Threads : state'[t] = IF t = current THEN "defunct" ELSE state[t]
  BY <1>2, <1>3 DEF Reaped
<1>8. TrapPlaces'
  BY <1>1, <1>3, <1>4, <1>7 DEF TrapPlaces
<1>9. EndUnderWay'
  <2>1. Calls("exit")'
    BY <1>1, <1>3 DEF Calls
  <2>2. state' = Abs!Reaped(current)'
    BY <1>3, <1>4 DEF Reaped, Abs!Reaped, Threads, Abs!Threads
  <2>3. retval' = [was'.retval EXCEPT ![current'] = v]
    BY <1>3
  <2> QED BY <2>1, <2>2, <2>3 DEF EndUnderWay
<1> QED BY <1>4, <1>5, <1>6, <1>8, <1>9 DEF TrapInv, SignalIntact

\* traps.c 25.
LEMMA SignalSetStep ==
  ASSUME ShellWorkload, TrapInv, SignalSet
  PROVE  TrapInv' /\ [Abs!Next]_Abs!vars
<1> USE SeenFacts
<1>1. /\ place[current] = "raise" /\ place \in [Threads -> Places] /\ InKill
      /\ signal' = RESCHED /\ was' = was
      /\ place' = [place EXCEPT ![current] = "ecall"]
      /\ UNCHANGED <<state, parent, retval, current, ready, asleep, sie, pc, target, result,
                     mask, fault>>
  BY DEF SignalSet, At, vars, TrapInv, TrapPlaces, InKill
<1>2. /\ place' \in [Threads -> Places] /\ place'[current] = "ecall" /\ InKill'
      /\ \A t \in Threads : t # current => place'[t] = place[t]
  BY <1>1 DEF Places, InKill
<1>3. UNCHANGED Abs!vars
  BY <1>1, <1>2 DEF Abs!vars
<1>4. Abs!AnyInv' /\ Abs!ShellInv'
  BY <1>3, AbsStep
<1>5. TrapPlaces'
  BY <1>1, <1>2 DEF TrapPlaces, TrapInv
<1>6. EndUnderWay'
  <2>1. /\ Calls("exit") /\ state = Abs!Reaped(current)
        /\ \E v \in RetVals : retval = [was.retval EXCEPT ![current] = v]
    BY <1>1 DEF TrapInv, EndUnderWay
  <2>2. Calls("exit")'
    BY <1>1, <2>1 DEF Calls
  <2>3. state' = Abs!Reaped(current)'
    BY <1>1, <1>2, <2>1 DEF Abs!Reaped
  <2> QED BY <1>1, <2>1, <2>2, <2>3 DEF EndUnderWay
<1> QED BY <1>1, <1>3, <1>4, <1>5, <1>6 DEF TrapInv, SignalIntact

\* With the shell ready, resched finds somebody to switch to.
LEMMA EndFacts ==
  ASSUME ShellWorkload, TrapInv, InKill, Resched(state, ready, sie)
  PROVE  /\ Calls("exit") /\ pc[current] = "user" /\ current # 0
         /\ state = Abs!Reaped(current) /\ state \in [Threads -> States]
         /\ state[current] = "defunct"
         /\ Switch(state, ready, sie) /\ ~Stays(state, ready)
         /\ current' \in Threads /\ current' # current /\ state[current'] = "ready"
         /\ \A t \in Threads : state[t] \in Dead => state'[t] \in Dead
<1> USE SeenFacts
<1>1. Calls("exit") /\ state = Abs!Reaped(current) /\ SeenState = was.state
  BY DEF TrapInv, EndUnderWay, SeenState
<1>2. pc[current] = "user" /\ current # 0 /\ SeenState[0] = "ready"
  BY <1>1 DEF Calls, ShellWorkload
<1>3. /\ state \in [Threads -> States]
      /\ \A t \in Threads : state[t] = IF t = current THEN "defunct" ELSE SeenState[t]
  <2>1. \A t \in Threads : state[t] = IF t = current THEN "defunct" ELSE SeenState[t]
    BY <1>1, <1>2 DEF Abs!Reaped, Threads, Abs!Threads, SeenState
  <2>2. state \in [Threads -> States]
    BY <1>1, <1>2 DEF Abs!Reaped, Threads, Abs!Threads, SeenState, States
  <2> QED BY <2>1, <2>2
<1>4. ready # <<>> /\ Head(ready) \in Threads /\ InReady(ready, Head(ready))
  <2>1. InReady(ready, 0)
    BY <1>2
  <2>2. ready # <<>> /\ InReady(ready, Head(ready))
    BY <2>1, EmptySeq DEF InReady
  <2> QED BY <2>2, HeadTailProperties
<1>5. Head(ready) # current /\ state[Head(ready)] = "ready"
  BY <1>2, <1>3, <1>4
<1>6. Switch(state, ready, sie) /\ ~Stays(state, ready)
  BY <1>3, <1>4, <1>5 DEF Resched, Stays, GoesBack
<1>7. current' = Head(ready) /\ \A t \in Threads : state[t] \in Dead => state'[t] \in Dead
  BY <1>3, <1>4, <1>5, <1>6 DEF Switch, OldState, Dead
<1> QED BY <1>1, <1>2, <1>3, <1>4, <1>5, <1>6, <1>7

\* The switch away from a thread that ends, at its ecall or by the timer, is
\* what the others see of its end.
LEMMA EndSwitches ==
  ASSUME ShellWorkload, TrapInv, InKill, Resched(state, ready, sie),
         UNCHANGED <<parent, retval, asleep, where, was>>,
         NEW sig, NEW p \in [Threads -> Places], Lands(sig, p),
         \A t \in Threads \ {current} : p[t] = place[t]
  PROVE  TrapInv' /\ [Abs!Next]_Abs!vars
<1> USE EndFacts
<1>1. p[current'] \in {"own", "masked"}
  BY DEF TrapInv, TrapPlaces, Dead
<1>2. /\ place' \in [Threads -> Places] /\ place'[current'] = "own"
      /\ \A t \in Threads : t # current' => place'[t] = p[t]
  BY <1>1, LandsOwn
<1>3. \A t \in Threads \ {current'} : place'[t] \in {"own", "masked"} \/ state'[t] \in Dead
  <2>1. current \in Threads /\ state[current] \in Dead
    BY SeenFacts DEF Dead
  <2> QED BY <1>2, <2>1 DEF TrapInv, TrapPlaces
<1>4. ~InKill'
  BY <1>2 DEF InKill
<1>5. PICK v \in RetVals : retval = [was.retval EXCEPT ![current] = v]
  BY DEF TrapInv, EndUnderWay
<1>6. Abs!Exit(v)
  <2>1. Abs!Calls("exit")
    BY DEF Calls, Abs!Calls
  <2>2. ~Abs!Stays(state, ready) /\ ~Abs!GoesBack(state[current])
    BY DEF Stays, Abs!Stays, Abs!GoesBack
  <2>3. Abs!Switch(state, ready, sie)
    BY <1>4 DEF Switch, Abs!Switch, OldState, Abs!OldState, NextReady, Abs!NextReady,
                GoesBack, Abs!GoesBack, SieOf, Abs!SieOf
  <2>4. Abs!Resched(state, ready, sie)
    BY <2>2, <2>3 DEF Abs!Resched
  <2> QED BY <1>4, <1>5, <2>1, <2>2, <2>4 DEF Abs!Exit, where, Abs!where
<1>7. Abs!Next
  BY <1>6 DEF Abs!Next, Abs!Call
<1> QED BY <1>2, <1>3, <1>7, TrapInvAgain

\* traps.c 26: the signal is still the one that was raised.
LEMMA EcallStep ==
  ASSUME ShellWorkload, TrapInv, Ecall
  PROVE  TrapInv' /\ [Abs!Next]_Abs!vars
<1>1. InKill /\ signal = RESCHED
  BY DEF Ecall, At, InKill, TrapInv, SignalIntact
<1>2. /\ Resched(state, ready, sie) /\ UNCHANGED <<parent, retval, asleep, where, was>>
      /\ Lands(signal, [place EXCEPT ![current] = "killed"])
  BY <1>1 DEF Ecall
<1>3. [place EXCEPT ![current] = "killed"] \in [Threads -> Places]
  BY DEF TrapInv, TrapPlaces, Places
<1>4. \A t \in Threads \ {current} : [place EXCEPT ![current] = "killed"][t] = place[t]
  BY DEF TrapInv, TrapPlaces
<1> QED BY <1>1, <1>2, <1>3, <1>4, EndSwitches

\* timer.c 52, between any two steps of a thread.
LEMMA TimerStep ==
  ASSUME ShellWorkload, TrapInv, TimerSwitch
  PROVE  TrapInv' /\ [Abs!Next]_Abs!vars
<1> USE SeenFacts
<1>1. /\ Tick /\ was' = was /\ UNCHANGED <<parent, retval, asleep, where>>
      /\ IF current' = current THEN UNCHANGED <<signal, place>> ELSE Lands(signal, place)
  BY DEF TimerSwitch, Tick
<1>2. place \in [Threads -> Places] /\ place[current] \in {"own", "raise", "ecall"}
  BY DEF TrapInv, TrapPlaces
<1>3. CASE InKill
  <2>1. Running = "child"
    BY <1>3 DEF TrapInv, EndUnderWay, Calls, ShellWorkload, Running
  <2>2. Resched(state, ready, sie)
    BY <1>1, <2>1 DEF Tick, ShellWorkload
  <2>3. current' # current
    BY <1>3, <2>2, EndFacts
  <2> QED BY <1>1, <1>2, <1>3, <2>2, <2>3, EndSwitches
<1>4. CASE ~InKill
  <2>1. place[current] = "own" /\ SeenState = state
    BY <1>2, <1>4 DEF InKill, SeenState
  <2>2. Broken("clock") \/ Resched(state, ready, sie)
    BY <1>1 DEF Tick
  <2>3. /\ current' \in Threads
        /\ current' # current => state[current'] = "ready"
        /\ \A t \in Threads : state[t] \in Dead => state'[t] \in Dead
    <3>1. CASE Broken("clock")
      BY <3>1 DEF Broken
    <3>2. CASE Resched(state, ready, sie)
      BY <2>1, <3>2, ReschedDead
    <3> QED BY <2>2, <3>1, <3>2
  <2>4. /\ place' \in [Threads -> Places] /\ place'[current'] = "own"
        /\ \A t \in Threads : t # current' => place'[t] = place[t]
    <3>1. CASE current' = current
      BY <1>1, <1>2, <2>1, <3>1
    <3>2. CASE current' # current
      <4>1. place[current'] \in {"own", "masked"}
        BY <2>3, <3>2 DEF TrapInv, TrapPlaces, Dead
      <4> QED BY <1>1, <1>2, <2>3, <3>2, <4>1, LandsOwn
    <3> QED BY <3>1, <3>2
  <2>5. \A t \in Threads \ {current'} : place'[t] \in {"own", "masked"} \/ state'[t] \in Dead
    BY <2>1, <2>3, <2>4 DEF TrapInv, TrapPlaces
  <2>6. ~InKill'
    BY <2>4 DEF InKill
  <2>7. Abs!Tick
    BY <1>1, <1>4, <2>6, AbsResched
       DEF Tick, Abs!Tick, Running, Abs!Running, InReady, Abs!InReady, Broken, Abs!Broken,
           where, Abs!where
  <2> QED BY <2>4, <2>5, <2>7, TrapInvAgain DEF Abs!Next
<1> QED BY <1>3, <1>4

LEMMA TrapStep ==
  ShellWorkload /\ TrapInv /\ [TrapNext]_<<vars, trap>> => TrapInv' /\ [Abs!Next]_Abs!vars
<1> SUFFICES ASSUME ShellWorkload, TrapInv, [TrapNext]_<<vars, trap>>
             PROVE  TrapInv' /\ [Abs!Next]_Abs!vars
  OBVIOUS
<1>1. CASE UNCHANGED <<vars, trap>>
  <2>1. UNCHANGED Abs!vars /\ UNCHANGED <<vars, trap>>
    BY <1>1 DEF vars, trap, Abs!vars, InKill
  <2>2. Abs!AnyInv' /\ Abs!ShellInv'
    BY <2>1, AbsStep
  <2>3. TrapPlaces' /\ SignalIntact'
    BY <2>1 DEF TrapInv, TrapPlaces, SignalIntact, At, vars, trap
  <2>4. EndUnderWay'
    BY <2>1 DEF TrapInv, EndUnderWay, InKill, Calls, Abs!Reaped, vars, trap
  <2> QED BY <2>1, <2>2, <2>3, <2>4 DEF TrapInv
<1>2. CASE Quiet(QuietCall)
  BY <1>2, QuietStep
<1>3. CASE Raising(RaisingCall)
  BY <1>3, RaisingStep
<1>4. CASE \E v \in RetVals : Killing(Ends(v))
  BY <1>4, EndsStep
<1>5. CASE \E t \in Threads : Killing(Ended(t))
  BY <1>5 DEF Killing, Ended, Calls, ShellWorkload
<1>6. CASE SignalSet
  BY <1>6, SignalSetStep
<1>7. CASE Ecall
  BY <1>7, EcallStep
<1>8. CASE SignalReset
  BY <1>8 DEF SignalReset, At, TrapInv, TrapPlaces
<1>9. CASE TimerSwitch
  BY <1>9, TimerStep
<1> QED BY <1>1, <1>2, <1>3, <1>4, <1>5, <1>6, <1>7, <1>8, <1>9
        DEF TrapNext, QuietCall, RaisingCall, KillGoesOn

LEMMA TrapInvInit == TrapInit => TrapInv /\ Abs!Init
<1> SUFFICES ASSUME TrapInit PROVE TrapInv /\ Abs!Init
  OBVIOUS
<1>1. ~InKill /\ ~At("ecall")
  BY ThreadZero DEF TrapInit, Init, InKill, At
<1>2. Abs!Init
  BY <1>1 DEF TrapInit, Init, Abs!Init, Threads, Abs!Threads
<1>3. Abs!AnyInv /\ Abs!ShellInv
  BY <1>2, Abs!AnyInit, Abs!ShellInvInit, NTHREADSAssumption, RetValsAssumption,
     RootLinkAssumption, ImageAssumption
<1>4. TrapPlaces
  BY ThreadZero DEF TrapInit, Init, TrapPlaces, Places
<1> QED BY <1>1, <1>2, <1>3, <1>4 DEF TrapInv, EndUnderWay, SignalIntact

\* The invariant of kill_thread and raise_syscall taken apart.
THEOREM TrapInvariance == ShellWorkload => (TrapSpec => []TrapInv)
<1>1. ASSUME ShellWorkload PROVE TrapInv /\ [TrapNext]_<<vars, trap>> => TrapInv'
  BY <1>1, TrapStep
<1>2. TrapInit => TrapInv
  BY TrapInvInit
<1>3. ASSUME ShellWorkload PROVE TrapSpec => []TrapInv
  BY <1>1, <1>2, <1>3, PTL DEF TrapSpec
<1> QED BY <1>3

\* kill.c 7-8, with the calls of the shell and its commands: the RESCHED that a
\* thread raises at its end is still in __exception_signal at its ecall.
THEOREM SignalKept == ShellWorkload => (TrapSpec => []SignalIntact)
<1>1. TrapInv => SignalIntact
  BY DEF TrapInv
<1>2. ASSUME ShellWorkload PROVE TrapSpec => []SignalIntact
  BY <1>1, <1>2, TrapInvariance, PTL
<1> QED BY <1>2

-----------------------------------------------------------------------------
(***************************************************************************)
(* The end of a thread is one step: Traps names the instance of Kernel     *)
(* Atomic, its definitions are those of Abs.                               *)
(***************************************************************************)
LEMMA AtomicNext == [Abs!Next]_Abs!vars => [Atomic!Next]_Atomic!vars
<1> USE DEF Atomic!Threads, Abs!Threads, Abs!table, Atomic!table, Abs!where, Atomic!where
<1>1. UNCHANGED Abs!vars => UNCHANGED Atomic!vars
  BY DEF Atomic!vars, Abs!vars
<1>2. \A st, rd, m : Abs!Resched(st, rd, m) <=> Atomic!Resched(st, rd, m)
  BY DEF Abs!Resched, Atomic!Resched, Abs!Stay, Atomic!Stay, Abs!Broken, Atomic!Broken,
         Abs!Switch, Atomic!Switch, Abs!Stays, Atomic!Stays, Abs!SieOf, Atomic!SieOf,
         Abs!GoesBack, Atomic!GoesBack, Abs!Queued, Atomic!Queued, Abs!InReady,
         Atomic!InReady, Abs!OldState, Atomic!OldState, Abs!NextReady, Atomic!NextReady
<1>3. /\ \A c : Abs!Calls(c) <=> Atomic!Calls(c)
      /\ \A why : Abs!Broken(why) <=> Atomic!Broken(why)
      /\ \A rd, t : Abs!InReady(rd, t) <=> Atomic!InReady(rd, t)
      /\ \A rd, t : Abs!Queued(rd, t) <=> Atomic!Queued(rd, t)
      /\ \A rd, t : Abs!Enter(rd, t) = Atomic!Enter(rd, t)
      /\ \A st, rd : Abs!Stays(st, rd) <=> Atomic!Stays(st, rd)
      /\ \A t : Abs!Reaped(t) = Atomic!Reaped(t)
      /\ \A i : Abs!FirstFree(i) <=> Atomic!FirstFree(i)
      /\ \A i : Abs!NewThread(i) <=> Atomic!NewThread(i)
      /\ Abs!FreeSlots = Atomic!FreeSlots
      /\ Abs!InJoin <=> Atomic!InJoin
      /\ Abs!Running = Atomic!Running
  BY DEF Abs!Calls, Atomic!Calls, Abs!Broken, Atomic!Broken, Abs!InReady, Atomic!InReady,
         Abs!Queued, Atomic!Queued, Abs!Enter, Atomic!Enter, Abs!Stays, Atomic!Stays,
         Abs!Reaped, Atomic!Reaped, Abs!FreeSlots, Atomic!FreeSlots, Abs!FirstFree,
         Atomic!FirstFree, Abs!NewThread, Atomic!NewThread, Abs!InJoin, Atomic!InJoin, Abs!Running, Atomic!Running
<1>4. Abs!Create \/ Abs!CreateRefused => Atomic!Create \/ Atomic!CreateRefused
  BY <1>3 DEF Abs!Create, Atomic!Create, Abs!CreateRefused, Atomic!CreateRefused
<1>5. Abs!Boot => Atomic!Boot
  BY <1>3 DEF Abs!Boot, Atomic!Boot, Abs!BootCreate, Atomic!BootCreate, Abs!BootRun,
              Atomic!BootRun
<1>6. Abs!Yield \/ Abs!JoinWaits => Atomic!Yield \/ Atomic!JoinWaits
  BY <1>2, <1>3 DEF Abs!Yield, Atomic!Yield, Abs!JoinWaits, Atomic!JoinWaits
<1>7. Abs!JoinEnds \/ Abs!JoinFails => Atomic!JoinEnds \/ Atomic!JoinFails
  BY <1>3 DEF Abs!JoinEnds, Atomic!JoinEnds, Abs!JoinFails, Atomic!JoinFails
<1>8. \A t \in Abs!Threads : Abs!Resume(t) => Atomic!Resume(t)
  BY <1>2, <1>3 DEF Abs!Resume, Atomic!Resume
<1>9. \A t \in Abs!Threads : Abs!Suspend(t) => Atomic!Suspend(t)
  BY <1>2, <1>3 DEF Abs!Suspend, Atomic!Suspend, Abs!SuspendDequeues, Atomic!SuspendDequeues
<1>10. \A t \in Abs!Threads : Abs!Kill(t) => Atomic!Kill(t)
  BY <1>2, <1>3 DEF Abs!Kill, Atomic!Kill
<1>11. \A t \in Abs!Threads : Abs!Join(t) => Atomic!Join(t)
  BY <1>3 DEF Abs!Join, Atomic!Join, Abs!Returned, Atomic!Returned
<1>12. \A t \in Abs!Threads : Abs!JoinBegin(t) => Atomic!JoinBegin(t)
  BY <1>3 DEF Abs!JoinBegin, Atomic!JoinBegin
<1>13. \A t \in Abs!Threads : Abs!Sleep(t) => Atomic!Sleep(t)
  BY <1>3 DEF Abs!Sleep, Atomic!Sleep, Abs!RemoveAt, Atomic!RemoveAt
<1>14. \A t \in Abs!Threads : Abs!Unsleep(t) => Atomic!Unsleep(t)
  BY <1>2, <1>3 DEF Abs!Unsleep, Atomic!Unsleep
<1>15. \A v \in RetVals : Abs!Exit(v) => Atomic!Exit(v)
  BY <1>2, <1>3 DEF Abs!Exit, Atomic!Exit
<1>16. Abs!Tick => Atomic!Tick
  BY <1>2, <1>3 DEF Abs!Tick, Atomic!Tick
<1>17. Abs!Next => Atomic!Next
  BY <1>4, <1>5, <1>6, <1>7, <1>8, <1>9, <1>10, <1>11, <1>12, <1>13, <1>14, <1>15, <1>16
     DEF Abs!Next, Atomic!Next, Abs!Call, Atomic!Call
<1> QED BY <1>1, <1>17

\* kill.c 14-22, with the calls of the shell and its commands: for all others a
\* thread ends in one step, wherever the timer lands in its kill_thread.
THEOREM EndIsAtomic == ShellWorkload => (TrapSpec => KillAtomic)
<1>1. ASSUME ShellWorkload
      PROVE  TrapInv /\ [TrapNext]_<<vars, trap>> => [Atomic!Next]_Atomic!vars
  BY <1>1, TrapStep, AtomicNext
<1>2. TrapInit => Atomic!Init
  BY TrapInvInit DEF Abs!Init, Atomic!Init, Abs!Threads, Atomic!Threads
<1>3. ASSUME ShellWorkload PROVE TrapSpec => KillAtomic
  BY <1>1, <1>2, <1>3, TrapInvariance, PTL DEF TrapSpec, KillAtomic, Atomic!Spec
<1> QED BY <1>3

-----------------------------------------------------------------------------
(***************************************************************************)
(* The shell makes no calls but those that Traps has, and one command at a *)
(* time is at work.                                                        *)
(***************************************************************************)
Shape(r) == r = [at |-> r.at, arg |-> r.arg, reply |-> r.reply]

TaskTypes ==
  /\ tid \in Threads
  /\ task = [t \in Threads |-> task[t]]
  /\ \A t \in Threads :
       /\ Shape(task[t])
       /\ task[t].reply \in Nat
       /\ task[t].at = "done" => task[t].reply \in RetVals

LEMMA TaskTypesInit == ShellInit => TaskTypes
BY ThreadZero DEF ShellInit, TaskTypes, Shape, NoTask

\* What a step of the current command does to its task.
TaskGoes(p, r) ==
  task' = [task EXCEPT ![current] = [at |-> p, arg |-> task[current].arg, reply |-> r]]

TaskGoesOn ==
  \E p, r : r \in Nat /\ (p = "done" => r \in RetVals) /\ TaskGoes(p, r)

LEMMA ReplyTypes ==
  ASSUME TaskTypes, current \in Threads, TaskGoesOn, tid' = tid
  PROVE  TaskTypes' /\ \A t \in Threads \ {current} : task'[t] = task[t]
<1>1. PICK p, r : r \in Nat /\ (p = "done" => r \in RetVals) /\ TaskGoes(p, r)
  BY DEF TaskGoesOn
<1>2. /\ task' = [t \in Threads |-> task'[t]]
      /\ \A t \in Threads \ {current} : task'[t] = task[t]
      /\ task'[current] = [at |-> p, arg |-> task[current].arg, reply |-> r]
  BY <1>1 DEF TaskGoes, TaskTypes
<1> QED BY <1>1, <1>2 DEF TaskTypes, Shape

LEMMA CommandMoves ==
  ASSUME TaskTypes, current \in Threads,
         Hello \/ Echo \/ \E n \in Typed : EchoText(n)
  PROVE  /\ TaskTypes'
         /\ UNCHANGED <<vars, trap, step, line, code, tid>>
         /\ current # 0 /\ task[current].at # "none"
         /\ \A t \in Threads \ {current} : task'[t] = task[t]
<1>1. ByteMod \in Nat \ {0, 1} /\ RetVals = 0 .. ByteMod - 1
  BY CodesAssumption
<1>2. \A r : Replies(r) => TaskGoes("done", r)
  BY DEF Replies, TaskGoes, TaskTypes, Shape
<1>3. /\ UNCHANGED <<vars, trap, step, line, code, tid>>
      /\ current # 0 /\ task[current].at # "none"
  BY Zenon DEF Hello, Echo, EchoText, InTask
<1>4. task[current].reply \in Nat
  BY DEF TaskTypes
<1>5. ASSUME Replies(0) \/ Replies(1) PROVE TaskGoesOn
  BY <1>1, <1>2, <1>5 DEF TaskGoesOn
<1>6. CASE Hello
  <2>1. Replies(0) \/ Replies(1)
    BY <1>6, Zenon DEF Hello
  <2> QED BY <2>1, <1>3, <1>5, ReplyTypes
<1>7. CASE Echo
  <2>1. Replies(0) \/ task' = [task EXCEPT ![current].at = "type"]
    BY <1>7, Zenon DEF Echo
  <2>2. task' = [task EXCEPT ![current].at = "type"] => TaskGoes("type", task[current].reply)
    BY DEF TaskGoes, TaskTypes, Shape
  <2>3. TaskGoesOn
    BY <1>4, <1>5, <2>1, <2>2 DEF TaskGoesOn
  <2> QED BY <2>3, <1>3, ReplyTypes
<1>8. ASSUME NEW n \in Typed, EchoText(n)
      PROVE  TaskGoesOn
  <2>1. n \in Nat
    BY TypedAssumption
  <2>2. \/ Replies(task[current].reply % ByteMod)
        \/ task' = [task EXCEPT ![current].reply = @ + n]
    BY <1>8, Zenon DEF EchoText
  <2>3. task[current].reply % ByteMod \in RetVals
    BY <1>1, <1>4
  <2>4. CASE Replies(task[current].reply % ByteMod)
    BY <1>1, <1>2, <2>3, <2>4 DEF TaskGoesOn
  <2>5. CASE task' = [task EXCEPT ![current].reply = @ + n]
    <3>1. task[current].at = "type"
      BY <1>8, Zenon DEF EchoText, InTask
    <3> DEFINE r == task[current].reply + n
    <3>2. TaskGoes("type", r)
      <4>1. task' = [task EXCEPT ![current] = [task[current] EXCEPT !.reply = r]]
        BY <2>5 DEF TaskTypes
      <4> HIDE DEF r
      <4>2. [task[current] EXCEPT !.reply = r] = [at |-> "type", arg |-> task[current].arg,
                                                  reply |-> r]
        BY <3>1 DEF TaskTypes, Shape
      <4> QED BY <4>1, <4>2 DEF TaskGoes
    <3>3. task[current].reply + n \in Nat
      BY <1>4, <2>1
    <3> QED BY <3>2, <3>3, Zenon DEF TaskGoesOn
  <2> QED BY <2>2, <2>4, <2>5
<1> QED BY <1>3, <1>6, <1>7, <1>8, ReplyTypes

\* Who is at work: the command that the shell has created and not yet joined,
\* which has not ended.
OneCommand ==
  /\ \A t \in Threads : task[t].at # "none" =>
       t # 0 /\ t = tid /\ step \in {"resume", "join", "store"} /\ state[t] \notin Dead
  /\ step = "store" /\ pc[0] = "user" => \A t \in Threads : task[t].at = "none"
  /\ pc[0] = "join" => step = "store" /\ target[0] = tid
  /\ pc[0] \in {"boot", "created"} => step = "prompt"

TaskInv == TaskTypes /\ OneCommand

LEMMA TaskInvInit == ShellInit => TaskInv
<1> SUFFICES ASSUME ShellInit PROVE OneCommand
  BY TaskTypesInit DEF TaskInv
<1> QED BY ThreadZero DEF ShellInit, OneCommand, NoTask, TrapInit, Init

\* Quiet and raising calls of the shell are calls of Traps.
LEMMA TrapNextQuiet ==
  ASSUME Quiet(Create) \/ Quiet(CreateRefused) \/ Quiet(JoinEnds \/ JoinFails)
           \/ Quiet(Boot) \/ \E t \in Threads : Quiet(Join(t) \/ JoinBegin(t))
  PROVE  TrapNext
<1>1. Quiet(QuietCall)
  BY DEF Quiet, QuietCall
<1> QED BY <1>1 DEF TrapNext, QuietCall

LEMMA TrapNextRaising ==
  ASSUME Raising(JoinWaits) \/ \E t \in Threads : Raising(Resume(t))
  PROVE  TrapNext
<1>1. Raising(RaisingCall)
  BY DEF Raising, RaisingCall
<1> QED BY <1>1 DEF TrapNext, RaisingCall

LEMMA TableTypes ==
  ASSUME ShellWorkload, TrapInv
  PROVE  state \in [Threads -> States]
<1>1. CASE InKill
  <2>1. state = Abs!Reaped(current) /\ SeenState \in [Threads -> States]
    BY <1>1, SeenFacts DEF TrapInv, EndUnderWay
  <2> QED BY <2>1 DEF Abs!Reaped, Threads, Abs!Threads, SeenState, States
<1>2. CASE ~InKill
  BY <1>2, SeenFacts DEF SeenState
<1> QED BY <1>1, <1>2

LEMMA InShellFacts ==
  ASSUME ShellWorkload, TrapInv, NEW s, InShell(s)
  PROVE  /\ InOwnCode /\ current = 0 /\ pc[0] = "user" /\ step = s
         /\ state \in [Threads -> States] /\ state[0] = "running" /\ 0 \in Threads
         /\ pc \in [Threads -> {"boot", "created", "user", "join"}]
BY SeenFacts, OwnFacts DEF InShell

\* The shell at its prompt, and its calls.
LEMMA PromptStep ==
  ASSUME ShellWorkload, TrapInv, TaskInv,
         Prompt \/ (\E l \in Lines : ReadLine(l)) \/ CreateFails \/ Store
  PROVE  [TrapNext]_<<vars, trap>> /\ TaskInv'
<1>1. PICK s \in {"prompt", "read", "create", "store"} :
        /\ InShell(s) /\ UNCHANGED <<tid, task, target, state>>
        /\ UNCHANGED pc /\ step' \in {"prompt", "read", "create", "undefined"}
        /\ UNCHANGED <<vars, trap>> \/ Quiet(CreateRefused)
  <2>1. CASE Prompt
    BY <2>1, Zenon DEF Prompt, vars
  <2>2. CASE \E l \in Lines : ReadLine(l)
    BY <2>2, Zenon DEF ReadLine, vars
  <2>3. CASE CreateFails
    <3>1. /\ InShell("create") /\ Quiet(CreateRefused) /\ step' = "undefined"
          /\ UNCHANGED <<tid, task>>
      BY <2>3, Zenon DEF CreateFails
    <3>2. UNCHANGED <<state, pc, target>>
      BY <3>1, Zenon DEF Quiet, CreateRefused, table, where
    <3> QED BY <3>1, <3>2, Zenon
  <2>4. CASE Store
    BY <2>4 DEF Store, vars
  <2> QED BY <2>1, <2>2, <2>3, <2>4
<1>2. InShell(s) => pc[0] = "user" /\ step = s
  BY InShellFacts
<1>3. \A t \in Threads : task[t].at = "none"
  BY <1>1, <1>2 DEF TaskInv, OneCommand
<1>4. TaskTypes'
  BY <1>1 DEF TaskInv, TaskTypes, Shape
<1>5. OneCommand'
  BY <1>1, <1>2, <1>3 DEF OneCommand
<1> QED BY <1>1, <1>4, <1>5, TrapNextQuiet DEF TaskInv

LEMMA CreateThreadStep ==
  ASSUME ShellWorkload, TrapInv, TaskInv, CreateThread
  PROVE  [TrapNext]_<<vars, trap>> /\ TaskInv'
<1>1. InShell("create") /\ Quiet(Create) /\ step' = "resume"
  BY DEF CreateThread
<1> USE InShellFacts
<1>2. PICK i \in Threads :
        /\ FirstFree(i) /\ tid' = i
        /\ task' = [task EXCEPT ![i] = [at |-> "start", arg |-> Argument, reply |-> 0]]
  BY DEF CreateThread
<1>3. PICK j \in Threads : /\ FirstFree(j) /\ state' = [state EXCEPT ![j] = "suspend"]
                           /\ pc' = [pc EXCEPT ![j] = "user"]
  BY <1>1 DEF Quiet, Create, NewThread
<1>4. i = j /\ state[i] = "free"
  BY <1>2, <1>3 DEF FirstFree, FreeSlots, Threads
<1>5. i # 0 /\ state'[i] \notin Dead /\ pc'[0] = "user"
  BY <1>1, <1>3, <1>4 DEF Dead
<1>6. \A t \in Threads : task[t].at = "none"
  BY <1>1 DEF TaskInv, OneCommand
<1>7. TaskTypes' /\ \A t \in Threads : t # i => task'[t].at = "none"
  <2>1. task'[i] = [at |-> "start", arg |-> Argument, reply |-> 0]
    BY <1>2 DEF TaskInv, TaskTypes
  <2>2. \A t \in Threads : t # i => task'[t] = task[t]
    BY <1>2 DEF TaskInv, TaskTypes
  <2>3. task' = [t \in Threads |-> task'[t]]
    BY <1>2 DEF TaskInv, TaskTypes
  <2> QED BY <1>2, <1>6, <2>1, <2>2, <2>3 DEF TaskInv, TaskTypes, Shape
<1>8. OneCommand'
  BY <1>1, <1>2, <1>5, <1>7 DEF OneCommand
<1> QED BY <1>1, <1>7, <1>8, TrapNextQuiet DEF TaskInv

\* resched ends nobody.
LEMMA NobodyEnds ==
  ASSUME TaskInv, UNCHANGED <<task, tid, target>>, pc'[0] = pc[0],
         \/ step' = step
         \/ step = "resume" /\ step' = "join" /\ pc[0] = "user"
         \/ step = "join" /\ step' = "store" /\ pc[0] = "user"
              /\ \A t \in Threads : task[t].at = "none",
         \A t \in Threads : state'[t] \in Dead => state[t] \in Dead
  PROVE  TaskInv'
BY DEF TaskInv, TaskTypes, Shape, OneCommand

LEMMA ResumeThreadStep ==
  ASSUME ShellWorkload, TrapInv, TaskInv, ResumeThread
  PROVE  [TrapNext]_<<vars, trap>> /\ TaskInv'
<1>0. Raising(Resume(tid))
  BY Zenon DEF ResumeThread
<1>1. /\ InShell("resume") /\ step' = "join" /\ UNCHANGED <<task, tid, pc, target>>
      /\ state[tid] = "suspend"
      /\ \/ \E why : Broken(why)
         \/ Resched([state EXCEPT ![tid] = "ready"], Enter(ready, tid), sie)
  <2>1. InShell("resume") /\ step' = "join" /\ UNCHANGED <<task, tid>>
    BY Zenon DEF ResumeThread
  <2>2. /\ UNCHANGED <<pc, target>> /\ state[tid] = "suspend"
        /\ \/ \E why : Broken(why)
           \/ Resched([state EXCEPT ![tid] = "ready"], Enter(ready, tid), sie)
    BY <1>0, Zenon DEF Raising, Resume, where
  <2> QED BY <2>1, <2>2
<1>2. tid \in Threads
  BY DEF TaskInv, TaskTypes
<1>3. \A t \in Threads : state'[t] \in Dead => state[t] \in Dead
  <2>1. CASE \E why : Broken(why)
    BY <2>1 DEF Broken
  <2>2. CASE Resched([state EXCEPT ![tid] = "ready"], Enter(ready, tid), sie)
    <3> DEFINE st == [state EXCEPT ![tid] = "ready"]
    <3>1. st \in [Threads -> States] /\ Enter(ready, tid) \in Seq(Threads)
      BY <1>1, <1>2, InShellFacts, SeenFacts, AppendProperties DEF Enter, States
    <3>2. \A t \in Threads : st[t] \in Dead => state[t] \in Dead
      BY <1>1, <1>2, InShellFacts DEF Dead
    <3>3. Resched(st, Enter(ready, tid), sie)
      BY <2>2
    <3> HIDE DEF st
    <3>4. \A t \in Threads : state'[t] \in Dead => st[t] \in Dead \/ state'[t] = state[t]
      BY <3>1, <3>3, SeenFacts, ReschedDead
    <3> QED BY <3>2, <3>4
  <2> QED BY <1>1, <2>1, <2>2
<1>4. TaskInv'
  BY <1>1, <1>3, InShellFacts, NobodyEnds
<1> QED BY <1>0, <1>2, <1>4, TrapNextRaising

LEMMA JoinThreadStep ==
  ASSUME ShellWorkload, TrapInv, TaskInv, JoinThread
  PROVE  [TrapNext]_<<vars, trap>> /\ TaskInv'
<1>0. Quiet(Join(tid) \/ JoinBegin(tid))
  BY Zenon DEF JoinThread
<1>1. /\ InShell("join") /\ step' = "store" /\ UNCHANGED <<task, tid>>
  BY Zenon DEF JoinThread
<1> USE InShellFacts
<1>2. tid \in Threads /\ TrapNext
  <2>1. tid \in Threads
    BY DEF TaskInv, TaskTypes
  <2> QED BY <1>0, <2>1, TrapNextQuiet
<1>3. TaskTypes'
  BY <1>1 DEF TaskInv, TaskTypes, Shape
<1>4. CASE Join(tid)
  <2>1. /\ state[tid] = "defunct" /\ pc' = pc /\ target' = target
        /\ state' = [state EXCEPT ![tid] = "free"]
    BY <1>4 DEF Join
  <2>2. \A t \in Threads : task[t].at = "none"
    BY <2>1 DEF TaskInv, OneCommand, Dead
  <2>3. OneCommand'
    BY <1>1, <2>1, <2>2 DEF OneCommand
  <2> QED BY <1>2, <1>3, <2>3 DEF TaskInv
<1>5. CASE JoinBegin(tid)
  <2>1. /\ state' = state /\ pc' = [pc EXCEPT ![0] = "join"]
        /\ target' = [target EXCEPT ![0] = tid]
    <3>1. current = 0
      BY <1>1
    <3> QED BY <1>5, <3>1, Zenon DEF JoinBegin, table
  <2>2. pc'[0] = "join" /\ target'[0] = tid
    <3>1. target \in [Threads -> Threads]
      BY DEF TrapInv, Abs!AnyInv, Abs!TypeOK, Threads, Abs!Threads
    <3> QED BY <1>1, <2>1, <3>1
  <2>3. OneCommand'
    BY <1>1, <2>1, <2>2 DEF TaskInv, OneCommand
  <2> QED BY <1>2, <1>3, <2>3 DEF TaskInv
<1> QED BY <1>0, <1>4, <1>5, Zenon DEF Quiet

LEMMA JoinGoesOnStep ==
  ASSUME ShellWorkload, TrapInv, TaskInv, JoinGoesOn
  PROVE  [TrapNext]_<<vars, trap>> /\ TaskInv'
<1> USE SeenFacts, TableTypes
<1>1. /\ current = 0
      /\ Raising(JoinWaits) \/ Quiet(JoinEnds \/ JoinFails)
      /\ UNCHANGED <<task, tid, step>>
  BY DEF JoinGoesOn, shell
<1>2. TrapNext
  BY <1>1, TrapNextRaising, TrapNextQuiet
<1>3. CASE JoinWaits
  <2>1. Resched(state, ready, mask[current]) /\ pc' = pc /\ target' = target
    BY <1>3 DEF JoinWaits, where
  <2>2. \A t \in Threads : state'[t] \in Dead => state[t] \in Dead
    BY <2>1, ReschedDead
  <2> QED BY <1>1, <1>2, <2>1, <2>2, NobodyEnds
<1>4. CASE JoinEnds \/ JoinFails
  <2>1. /\ pc[0] = "join" /\ state[target[0]] \in Dead
        /\ pc' = [pc EXCEPT ![0] = "user"] /\ target' = target /\ state' = state
    BY <1>1, <1>4 DEF JoinEnds, JoinFails, InJoin, table, Dead
  <2>2. target[0] = tid /\ step = "store"
    BY <2>1 DEF TaskInv, OneCommand
  <2>3. \A t \in Threads : task[t].at = "none"
    BY <2>1, <2>2 DEF TaskInv, OneCommand
  <2>4. OneCommand'
    BY <1>1, <2>1, <2>2, <2>3 DEF OneCommand
  <2>5. TaskTypes'
    BY <1>1 DEF TaskInv, TaskTypes, Shape
  <2> QED BY <1>2, <2>4, <2>5 DEF TaskInv
<1> QED BY <1>1, <1>3, <1>4 DEF Raising, Quiet

\* The commands at work.
LEMMA CommandStep ==
  ASSUME ShellWorkload, TrapInv, TaskInv, Hello \/ Echo \/ \E n \in Typed : EchoText(n)
  PROVE  [TrapNext]_<<vars, trap>> /\ TaskInv'
<1>1. current \in Threads
  BY SeenFacts
<1>2. /\ TaskTypes' /\ UNCHANGED <<vars, trap, step, tid>>
      /\ current # 0 /\ task[current].at # "none"
      /\ \A t \in Threads \ {current} : task'[t] = task[t]
  BY <1>1, CommandMoves DEF TaskInv
<1>3. OneCommand'
  BY <1>1, <1>2 DEF TaskInv, OneCommand, vars
<1> QED BY <1>2, <1>3 DEF TaskInv

LEMMA EndTaskStep ==
  ASSUME ShellWorkload, TrapInv, TaskInv, EndTask
  PROVE  [TrapNext]_<<vars, trap>> /\ TaskInv'
<1> USE SeenFacts
<1>1. /\ current # 0 /\ task[current].at = "done" /\ UNCHANGED <<step, tid>>
      /\ task' = [task EXCEPT ![current] = NoTask]
      /\ Killing(Ends(task[current].reply))
  BY DEF EndTask, InTask
<1>2. task[current].reply \in RetVals
  BY <1>1 DEF TaskInv, TaskTypes
<1>3. TrapNext
  BY <1>1, <1>2 DEF TrapNext
<1>4. UNCHANGED <<pc, target>> /\ state' = Reaped(current)
  BY <1>1, Zenon DEF Killing, Ends, Doomed, where
<1>5. \A t \in Threads : t # current => state'[t] = state[t]
  BY <1>1, <1>4 DEF Reaped
<1>6. /\ task'[current] = NoTask /\ task' = [t \in Threads |-> task'[t]]
      /\ \A t \in Threads : t # current => task'[t] = task[t]
  BY <1>1 DEF TaskInv, TaskTypes
<1>7. TaskTypes'
  BY <1>1, <1>6 DEF TaskInv, TaskTypes, Shape, NoTask
<1>8. OneCommand'
  BY <1>1, <1>4, <1>5, <1>6 DEF TaskInv, OneCommand, NoTask
<1> QED BY <1>3, <1>7, <1>8 DEF TaskInv

LEMMA KillGoesOnStep ==
  ASSUME ShellWorkload, TrapInv, TaskInv, KillGoesOn, UNCHANGED shell
  PROVE  [TrapNext]_<<vars, trap>> /\ TaskInv'
<1> USE SeenFacts, TableTypes
<1>1. UNCHANGED <<task, tid, step>>
  BY DEF shell
<1>2. UNCHANGED <<pc, target>> /\ \A t \in Threads : state'[t] \in Dead => state[t] \in Dead
  <2>1. CASE SignalSet
    BY <2>1 DEF SignalSet, vars
  <2>2. CASE Ecall
    <3>1. signal = RESCHED
      BY <2>2 DEF Ecall, TrapInv, SignalIntact
    <3>2. Resched(state, ready, sie) /\ UNCHANGED <<pc, target>>
      BY <2>2, <3>1 DEF Ecall, where
    <3> QED BY <3>2, ReschedDead
  <2>3. CASE SignalReset
    <3>1. place[current] = "back"
      BY <2>3, Zenon DEF SignalReset, At
    <3> QED BY <3>1 DEF TrapInv, TrapPlaces
  <2> QED BY <2>1, <2>2, <2>3 DEF KillGoesOn
<1>3. TaskInv'
  BY <1>1, <1>2, NobodyEnds
<1> QED BY <1>3 DEF TrapNext

LEMMA SystemStep ==
  ASSUME ShellWorkload, TrapInv, TaskInv, System
  PROVE  [TrapNext]_<<vars, trap>> /\ TaskInv'
<1> USE SeenFacts, TableTypes
<1>1. UNCHANGED <<task, tid, step>>
  BY DEF System, shell
<1>2. CASE Quiet(Boot)
  <2>1. /\ current = 0 /\ pc[0] \in {"boot", "created"} /\ target' = target
        /\ pc' = [pc EXCEPT ![0] = IF pc[0] = "boot" THEN "created" ELSE "user"]
    BY <1>2 DEF Quiet, Boot, BootCreate, BootRun, InOwnCode
  <2>2. step = "prompt" /\ pc'[0] \in {"created", "user"}
    BY <2>1 DEF TaskInv, OneCommand
  <2>3. OneCommand'
    BY <1>1, <2>1, <2>2 DEF TaskInv, OneCommand
  <2>4. TaskTypes'
    BY <1>1 DEF TaskInv, TaskTypes, Shape
  <2> QED BY <1>2, <2>3, <2>4, TrapNextQuiet DEF TaskInv
<1>3. CASE TimerSwitch
  <2>1. UNCHANGED <<pc, target>> /\ (Broken("clock") \/ Resched(state, ready, sie))
    BY <1>3 DEF TimerSwitch, Tick, where
  <2>2. \A t \in Threads : state'[t] \in Dead => state[t] \in Dead
    BY <2>1, ReschedDead DEF Broken
  <2>3. TaskInv'
    BY <1>1, <2>1, <2>2, NobodyEnds
  <2> QED BY <1>3, <2>3 DEF TrapNext
<1> QED BY <1>2, <1>3 DEF System

LEMMA ShellTaskStep ==
  ShellWorkload /\ TrapInv /\ TaskInv /\ [ShellNext]_allVars
    => [TrapNext]_<<vars, trap>> /\ TaskInv'
<1> SUFFICES ASSUME ShellWorkload, TrapInv, TaskInv, [ShellNext]_allVars
             PROVE  [TrapNext]_<<vars, trap>> /\ TaskInv'
  OBVIOUS
<1>1. CASE UNCHANGED allVars
  <2>1. UNCHANGED <<vars, trap>> /\ UNCHANGED <<task, tid, step, pc, target, state>>
    BY <1>1 DEF allVars, vars, shell
  <2>2. TaskInv'
    BY <2>1, NobodyEnds
  <2> QED BY <2>1, <2>2
<1>2. CASE Prompt \/ (\E l \in Lines : ReadLine(l)) \/ CreateFails \/ Store
  BY <1>2, PromptStep
<1>3. CASE CreateThread
  BY <1>3, CreateThreadStep
<1>4. CASE ResumeThread
  BY <1>4, ResumeThreadStep
<1>5. CASE JoinThread
  BY <1>5, JoinThreadStep
<1>6. CASE JoinGoesOn
  BY <1>6, JoinGoesOnStep
<1>7. CASE Hello \/ Echo \/ \E n \in Typed : EchoText(n)
  BY <1>7, CommandStep
<1>8. CASE EndTask
  BY <1>8, EndTaskStep
<1>9. CASE KillGoesOn /\ UNCHANGED shell
  BY <1>9, KillGoesOnStep
<1>10. CASE System
  BY <1>10, SystemStep
<1> QED BY <1>1, <1>2, <1>3, <1>4, <1>5, <1>6, <1>7, <1>8, <1>9, <1>10
        DEF ShellNext, ShellSteps, TaskSteps, Keyboard

THEOREM ShellTasks == ShellWorkload => (ShellSpec => [](TrapInv /\ TaskInv))
<1>1. ASSUME ShellWorkload
      PROVE  TrapInv /\ TaskInv /\ [ShellNext]_allVars => TrapInv' /\ TaskInv'
  BY <1>1, ShellTaskStep, TrapStep
<1>2. ShellInit => TrapInv /\ TaskInv
  BY TaskInvInit, TrapInvInit DEF ShellInit
<1>3. ASSUME ShellWorkload PROVE ShellSpec => [](TrapInv /\ TaskInv)
  BY <1>1, <1>2, <1>3, PTL DEF ShellSpec
<1> QED BY <1>3

\* shell.c 90 and builtin_hello and builtin_echo call nothing that Traps does not
\* have, and in its order.
THEOREM ShellCallsTraps == ShellWorkload => (ShellSpec => TrapSpec)
<1>1. ASSUME ShellWorkload
      PROVE  TrapInv /\ TaskInv /\ [ShellNext]_allVars => [TrapNext]_<<vars, trap>>
  BY <1>1, ShellTaskStep
<1>2. ShellInit => TrapInit
  BY DEF ShellInit
<1>3. ASSUME ShellWorkload PROVE ShellSpec => TrapSpec
  BY <1>1, <1>2, <1>3, ShellTasks, PTL DEF ShellSpec, TrapSpec
<1> QED BY <1>3

\* shell.c 90, hello.c and echo.c: whatever is typed and wherever the timer lands,
\* all others see a command end in one step.
THEOREM CommandsEndAtomically == ShellWorkload => (ShellSpec => KillAtomic)
<1>1. ASSUME ShellWorkload PROVE ShellSpec => KillAtomic
  BY <1>1, ShellCallsTraps, EndIsAtomic, PTL
<1> QED BY <1>1

\* uart.c 43-52: the shell reads no line while a command that reads is at work, as
\* it waits for its end, and no two commands are at work.
THEOREM OneReaderAlways == ShellWorkload => (ShellSpec => []OneReader)
<1>1. TrapInv /\ TaskInv => OneReader
  BY DEF TaskInv, OneCommand, OneReader, Reads
<1>2. ASSUME ShellWorkload PROVE ShellSpec => []OneReader
  BY <1>1, <1>2, ShellTasks, PTL
<1> QED BY <1>2

-----------------------------------------------------------------------------
(***************************************************************************)
(* Recursive functions, folds and printed texts: the functions by which    *)
(* Printf, Shell and Repl are defined are determined by their equations, and *)
(* a text without a conversion is printed as it is.                        *)
(***************************************************************************)
(***************************************************************************)
(* Induction and recursion over data, in the only form the provers can     *)
(* use: of sets and functions instead of predicates and operators.         *)
(***************************************************************************)
LEMMA Inductive ==
  ASSUME NEW S, 0 \in S, \A n \in Nat : n \in S => n + 1 \in S
  PROVE  \A n \in Nat : n \in S
<1> SUFFICES ASSUME NEW m \in Nat, m \notin S PROVE FALSE
  OBVIOUS
<1> DEFINE B == {n \in Nat : n \notin S}
<1>1. PICK x \in B : \A y \in B : ~ (<<y, x>> \in {ss \in Nat \X Nat : ss[1] < ss[2]})
  BY NatLessThanWellFounded, WFMin DEF OpToRel
<1>2. x \in Nat /\ x # 0 /\ x \notin S
  OBVIOUS
<1>3. x - 1 \in Nat /\ x - 1 < x /\ x = (x - 1) + 1
  BY <1>2
<1>4. x - 1 \in S
  BY <1>1, <1>2, <1>3
<1> QED BY <1>2, <1>3, <1>4

\* A function in which each place is determined by the places of lesser rank.
Determined(D, X, rank, F) ==
  /\ rank \in [D -> Nat] /\ F \in [D \X [D -> X] -> X]
  /\ \A d \in D : \A f, g \in [D -> X] :
       (\A e \in D : rank[e] < rank[d] => f[e] = g[e]) => F[<<d, f>>] = F[<<d, g>>]

Solves(D, rank, F, n, f) == \A d \in D : rank[d] < n => f[d] = F[<<d, f>>]

LEMMA Approximated ==
  ASSUME NEW D, NEW X, NEW x \in X, NEW rank, NEW F,
         Determined(D, X, rank, F)
  PROVE  \A n \in Nat : \E f \in [D -> X] : Solves(D, rank, F, n, f)
<1>0. rank \in [D -> Nat] /\ F \in [D \X [D -> X] -> X]
  BY DEF Determined
<1> USE <1>0
<1> DEFINE S == {n \in Nat : \E f \in [D -> X] : Solves(D, rank, F, n, f)}
<1>1. 0 \in S
  <2>1. [d \in D |-> x] \in [D -> X]
    OBVIOUS
  <2>2. \A d \in D : ~(rank[d] < 0)
    OBVIOUS
  <2> QED BY <2>1, <2>2 DEF Solves
<1>2. ASSUME NEW n \in Nat, n \in S PROVE n + 1 \in S
  <2>0. \A d \in D : rank[d] \in Nat /\ (rank[d] < n + 1 => rank[d] < n \/ rank[d] = n)
    <3>1. \A r \in Nat : r < n + 1 => r < n \/ r = n
      OBVIOUS
    <3> QED BY <3>1
  <2>1. PICK f \in [D -> X] : \A d \in D : rank[d] < n => f[d] = F[<<d, f>>]
    BY <1>2 DEF Solves
  <2> DEFINE g == [d \in D |-> IF rank[d] = n THEN F[<<d, f>>] ELSE f[d]]
  <2>2. g \in [D -> X]
    OBVIOUS
  <2>3. ASSUME NEW d \in D, rank[d] < n + 1 PROVE g[d] = F[<<d, g>>]
    <3>0. rank[d] \in Nat /\ (rank[d] < n \/ rank[d] = n)
      BY <2>0, <2>3
    <3>1. \A e \in D : rank[e] < rank[d] => f[e] = g[e]
      BY <3>0
    <3>2. F[<<d, f>>] = F[<<d, g>>]
      BY <2>2, <3>1 DEF Determined
    <3> QED BY <2>1, <3>0, <3>2
  <2> HIDE DEF g
  <2> QED BY <2>2, <2>3 DEF Solves
<1> HIDE DEF S
<1>3. \A n \in Nat : n \in S
  BY <1>1, <1>2, Inductive
<1> QED BY <1>3 DEF S

LEMMA Agreeing ==
  ASSUME NEW D, NEW X, NEW rank, NEW F,
         Determined(D, X, rank, F)
  PROVE  \A f, g \in [D -> X] : \A N \in Nat :
           Solves(D, rank, F, N, f) /\ Solves(D, rank, F, N, g)
             => \A d \in D : rank[d] < N => f[d] = g[d]
<1> SUFFICES ASSUME NEW f \in [D -> X], NEW g \in [D -> X], NEW N \in Nat,
                    Solves(D, rank, F, N, f), Solves(D, rank, F, N, g)
             PROVE  \A d \in D : rank[d] < N => f[d] = g[d]
  OBVIOUS
<1>0. rank \in [D -> Nat] /\ F \in [D \X [D -> X] -> X]
  BY DEF Determined
<1> USE <1>0
<1> DEFINE S == {n \in Nat : \A d \in D : rank[d] < n /\ rank[d] < N => f[d] = g[d]}
<1>1. 0 \in S
  <2>1. \A d \in D : ~(rank[d] < 0)
    OBVIOUS
  <2> QED BY <2>1
<1>2. ASSUME NEW n \in Nat, n \in S PROVE n + 1 \in S
  <2>1. ASSUME NEW d \in D, rank[d] < n + 1, rank[d] < N PROVE f[d] = g[d]
    <3>1. \A e \in D : rank[e] < rank[d] => f[e] = g[e]
      <4>1. rank[d] \in Nat
        OBVIOUS
      <4> QED BY <1>2, <2>1, <4>1
    <3>2. F[<<d, f>>] = F[<<d, g>>]
      BY <3>1 DEF Determined
    <3> QED BY <2>1, <3>2 DEF Solves
  <2> QED BY <2>1
<1> HIDE DEF S
<1>3. N \in S
  BY <1>1, <1>2, Inductive
<1> QED BY <1>3 DEF S

Solvable(D, X, F) == \E f \in [D -> X] : \A d \in D : f[d] = F[<<d, f>>]

LEMMA Recursive ==
  ASSUME NEW D, NEW X, NEW x \in X, NEW rank, NEW F,
         Determined(D, X, rank, F)
  PROVE  Solvable(D, X, F)
<1>0. rank \in [D -> Nat] /\ F \in [D \X [D -> X] -> X]
  BY DEF Determined
<1> USE <1>0
<1>a. \A f, g \in [D -> X] : \A N \in Nat :
        Solves(D, rank, F, N, f) /\ Solves(D, rank, F, N, g)
          => \A d \in D : rank[d] < N => f[d] = g[d]
  BY Agreeing
<1> DEFINE part(n) == CHOOSE f \in [D -> X] : Solves(D, rank, F, n, f)
           whole == [d \in D |-> part(rank[d] + 1)[d]]
<1>1. \A n \in Nat : part(n) \in [D -> X] /\ Solves(D, rank, F, n, part(n))
  <2>1. \A n \in Nat : \E f \in [D -> X] : Solves(D, rank, F, n, f)
    BY Approximated
  <2> QED BY <2>1
<1> HIDE DEF part
<1>2. whole \in [D -> X]
  BY <1>1
<1>3. ASSUME NEW d \in D PROVE whole[d] = F[<<d, whole>>]
  <2> DEFINE n == rank[d]
             p == part(n + 1)
  <2>1. n \in Nat /\ n + 1 \in Nat /\ n < n + 1
    OBVIOUS
  <2>2. p \in [D -> X] /\ Solves(D, rank, F, n + 1, p)
    BY <1>1, <2>1
  <2>3. ASSUME NEW e \in D, rank[e] < n PROVE p[e] = whole[e]
    <3> DEFINE k == rank[e] + 1
               q == part(k)
    <3>1. rank[e] \in Nat /\ k \in Nat /\ rank[e] < k /\ k < n + 1
      BY <2>1, <2>3
    <3>2. q \in [D -> X] /\ Solves(D, rank, F, k, q)
      BY <1>1, <3>1
    <3>3. Solves(D, rank, F, k, p)
      <4>1. ASSUME NEW c \in D, rank[c] < k PROVE rank[c] < n + 1
        <5> DEFINE r == rank[c]
        <5>1. r \in Nat
          OBVIOUS
        <5> HIDE DEF r, k, n
        <5> QED BY <2>1, <3>1, <4>1, <5>1 DEF r
      <4> QED BY <2>2, <4>1 DEF Solves
    <3>4. whole[e] = q[e]
      OBVIOUS
    <3> HIDE DEF p, q, k, n, whole
    <3>5. p[e] = q[e]
      <4>1. /\ p \in [D -> X] /\ q \in [D -> X] /\ k \in Nat
            /\ Solves(D, rank, F, k, p) /\ Solves(D, rank, F, k, q)
        BY <2>2, <3>1, <3>2, <3>3
      <4>2. \A c \in D : rank[c] < k => p[c] = q[c]
        BY <4>1, <1>a
      <4> QED BY <3>1, <4>2
    <3> QED BY <3>4, <3>5
  <2>4. whole[d] = p[d] /\ p[d] = F[<<d, p>>]
    BY <2>1, <2>2 DEF Solves
  <2> HIDE DEF p, whole
  <2>5. F[<<d, p>>] = F[<<d, whole>>]
    BY <1>2, <2>2, <2>3 DEF Determined
  <2> QED BY <2>4, <2>5
<1> HIDE DEF whole
<1> QED BY <1>2, <1>3 DEF Solvable

Digits == {"0", "1", "2", "3", "4", "5", "6", "7",
           "8", "9", "a", "b", "c", "d", "e", "f"}

Chars == STRING \cup Digits \cup {NUL}

LEMMA FlatSingles ==
  ASSUME NEW S, NEW text \in Seq(S)
  PROVE  FlattenSeq([i \in 1 .. Len(text) |-> <<text[i]>>]) = text
<1> DEFINE n == Len(text)
           seqs == [i \in 1 .. n |-> <<text[i]>>]
<1>1. n \in Nat /\ Len(seqs) = n
  BY LenProperties
<1>2. CASE n = 0
  <2>1. text = <<>> /\ seqs = <<>>
    BY <1>2, EmptySeq
  <2> QED BY <1>2, <2>1 DEF FlattenSeq
<1>3. CASE n # 0
  <2> DEFINE G == [i \in 1 .. n |-> SubSeq(text, 1, i)]
             Flat(f) == f = [i \in 1 .. n |-> IF i = 1 THEN seqs[i] ELSE f[i - 1] \o seqs[i]]
             F == CHOOSE f : Flat(f)
  <2>1. SubSeq(text, 1, 1) = <<text[1]>>
    <3>1. SubSeq(text, 1, 1) = <<text[1]>> \o SubSeq(text, 2, 1)
      BY <1>1, <1>3, SubSeqRecursiveFirst
    <3>2. SubSeq(text, 2, 1) = <<>>
      BY SubSeqEmpty
    <3>3. <<text[1]>> \in Seq(S)
      BY <1>1, <1>3, ElementOfSeq
    <3> QED BY <3>1, <3>2, <3>3, ConcatEmptySeq
  <2>2. ASSUME NEW i \in 2 .. n
        PROVE  SubSeq(text, 1, i) = SubSeq(text, 1, i - 1) \o <<text[i]>>
    BY <1>1, SubSeqRecursiveSecond
  <2>3. Flat(G)
    <3> SUFFICES ASSUME NEW i \in 1 .. n
                 PROVE  SubSeq(text, 1, i) = IF i = 1 THEN seqs[i] ELSE G[i - 1] \o seqs[i]
      OBVIOUS
    <3>1. i # 1 => i - 1 \in 1 .. n /\ i \in 2 .. n
      BY <1>1
    <3> QED BY <2>1, <2>2, <3>1
  <2>4. Flat(F)
    <3> HIDE DEF Flat, G
    <3> QED BY <2>3
  <2>5. \A i \in 1 .. n : F[i] = IF i = 1 THEN seqs[i] ELSE F[i - 1] \o seqs[i]
    <3> HIDE DEF F
    <3> QED BY <2>4
  <2>6. FlattenSeq(seqs) = F[n]
    <3> HIDE DEF n
    <3> QED BY <1>1, <1>3 DEF FlattenSeq
  <2> HIDE DEF F
  <2> DEFINE T == {m \in Nat : m + 1 \in 1 .. n => F[m + 1] = SubSeq(text, 1, m + 1)}
  <2>7. 0 \in T
    <3>1. 1 \in 1 .. n
      BY <1>1, <1>3
    <3>2. F[1] = seqs[1] /\ seqs[1] = <<text[1]>>
      BY <2>5, <3>1
    <3> QED BY <2>1, <3>2
  <2>8. ASSUME NEW m \in Nat, m \in T PROVE m + 1 \in T
    <3> SUFFICES ASSUME m + 2 \in 1 .. n PROVE F[m + 2] = SubSeq(text, 1, m + 2)
      BY <1>1
    <3>1. m + 2 \in 2 .. n /\ m + 1 \in 1 .. n /\ (m + 2) - 1 = m + 1
      BY <1>1
    <3>2. F[m + 2] = F[m + 1] \o seqs[m + 2]
      <4> DEFINE i == m + 2
      <4>1. i \in 1 .. n /\ i # 1 /\ i - 1 = m + 1
        BY <3>1
      <4> HIDE DEF i, seqs
      <4>2. F[i] = F[i - 1] \o seqs[i]
        BY <2>5, <4>1
      <4> QED BY <4>1, <4>2 DEF i
    <3>4. seqs[m + 2] = <<text[m + 2]>>
      BY <3>1
    <3>3. F[m + 1] = SubSeq(text, 1, m + 1)
      BY <2>8, <3>1
    <3> QED BY <2>2, <3>1, <3>2, <3>3, <3>4
  <2> HIDE DEF T
  <2>9. n - 1 \in T
    BY <1>1, <1>3, <2>7, <2>8, Inductive
  <2>10. F[n] = SubSeq(text, 1, n)
    BY <1>1, <1>3, <2>9 DEF T
  <2> QED BY <2>6, <2>10, SubSeqFull
<1> QED BY <1>2, <1>3

Conversions == {"%", "%d", "%x", "%s"}

LEMMA PrintedPlain ==
  ASSUME NEW S, NEW text \in Seq(S), \A i \in 1 .. Len(text) : text[i] \notin Conversions
  PROVE  Printed(text, <<>>) = text
<1>1. ASSUME NEW i \in 1 .. Len(text) PROVE Sent(text, <<>>, i) = <<text[i]>>
  <2>1. text[i] \notin Conversions
    OBVIOUS
  <2> QED BY <2>1 DEF Sent, Conversions
<1>2. [i \in 1 .. Len(text) |-> Sent(text, <<>>, i)] = [i \in 1 .. Len(text) |-> <<text[i]>>]
  BY <1>1
<1> QED BY <1>2, FlatSingles DEF Printed

-----------------------------------------------------------------------------
(***************************************************************************)
(* The line buffer: what hello and echo find in their copy of the line.    *)
(***************************************************************************)
\* What printf prints for %s is the text in front of the first NUL.
LEMMA StringPrinted ==
  ASSUME NEW S, NEW str \in Seq(S), NEW e \in 0 .. Len(str),
         \A i \in 1 .. e : str[i] # NUL, e = Len(str) \/ str[e + 1] = NUL
  PROVE  StrPrint(str) = SubSeq(str, 1, e)
<1> DEFINE n == Len(str)
           Ends0 == {i \in 1 .. n + 1 : i > n \/ str[i] = NUL}
<1>1. n \in Nat /\ e \in Nat /\ e <= n
  BY LenProperties
<1>2. e + 1 \in Ends0
  BY <1>1
<1>3. \A i \in Ends0 : e + 1 <= i
  BY <1>1
<1> HIDE DEF Ends0
<1>4. Ends0 \subseteq Int
  BY <1>1 DEF Ends0
<1>5. Min(Ends0) = e + 1
  <2>1. \A i \in Ends0 : i <= e + 1 => i = e + 1
    BY <1>1, <1>3, <1>4
  <2>2. \E i \in Ends0 : \A j \in Ends0 : i <= j
    BY <1>2, <1>3
  <2>3. Min(Ends0) \in Ends0 /\ \A j \in Ends0 : Min(Ends0) <= j
    BY <2>2 DEF Min
  <2> QED BY <1>2, <2>1, <2>3
<1>6. (e + 1) - 1 = e
  BY <1>1
<1> QED BY <1>5, <1>6 DEF StrPrint, Ends0

LEMMA StringHeld ==
  ASSUME NEW S, NEW arg \in [Places0 -> S], NEW p \in Nat, NEW s \in Seq(S),
         p + Len(s) < MAX, arg[p + Len(s)] = NUL,
         \A i \in 1 .. Len(s) : s[i] # NUL /\ arg[p + i - 1] = s[i]
  PROVE  StringAt(arg, p) = s
<1> DEFINE str == [i \in 1 .. MAX - p |-> arg[p + i - 1]]
           n == MAX - p
           e == Len(s)
<1>1. e \in Nat /\ n \in Nat /\ MAX \in Nat /\ e + 1 \in 1 .. n /\ e \in 0 .. n
  BY LenProperties, LinesAssumption
<1>2. str \in Seq(S) /\ Len(str) = n
  <2>1. ASSUME NEW i \in 1 .. n PROVE arg[p + i - 1] \in S
    <3>1. p + i - 1 \in Places0
      BY <1>1, <2>1 DEF Places0
    <3> QED BY <3>1
  <2>2. str \in [1 .. n -> S]
    BY <2>1
  <2> HIDE DEF str
  <2> QED BY <1>1, <2>2
<1>3. \A i \in 1 .. e : str[i] = s[i]
  BY <1>1
<1>4. str[e + 1] = NUL
  <2>1. p + (e + 1) - 1 = p + e
    BY <1>1
  <2> QED BY <1>1, <2>1
<1> HIDE DEF str
<1>5. StrPrint(str) = SubSeq(str, 1, e)
  <2>1. e \in 0 .. Len(str) /\ \A i \in 1 .. e : str[i] # NUL
    BY <1>1, <1>2, <1>3
  <2> HIDE DEF e
  <2> QED BY <1>2, <1>4, <2>1, StringPrinted
<1>6. SubSeq(str, 1, e) = s
  <2> DEFINE sub == SubSeq(str, 1, e)
  <2>1. \A i \in 1 .. e : str[i] \in S
    BY <1>1, <1>2, ElementOfSeq
  <2>2. /\ sub \in Seq(S) /\ Len(sub) = IF 1 <= e THEN e - 1 + 1 ELSE 0
        /\ \A i \in 1 .. e - 1 + 1 : sub[i] = str[1 + i - 1]
    BY <1>1, <2>1, SubSeqProperties
  <2> HIDE DEF sub
  <2>3. Len(sub) = Len(s) /\ \A i \in 1 .. Len(sub) : sub[i] = s[i]
    BY <1>1, <1>3, <2>2
  <2> QED BY <2>2, <2>3, SeqEqual DEF sub
<1> QED BY <1>5, <1>6 DEF StringAt, str

-----------------------------------------------------------------------------
\* A line that was typed.
LEMMA TypedLine ==
  ASSUME NEW l \in Lines
  PROVE  /\ l \in Seq(Chars) /\ Len(l) \in Nat /\ Len(l) >= 1 /\ Len(l) + 2 <= MAX
         /\ Head(l) = l[1] /\ l[1] \in Words /\ MAX \in Nat
         /\ \A i \in 1 .. Len(l) : l[i] \in Chars
         /\ \A i \in 2 .. Len(l) : l[i] \notin {NUL, "%", "%d", "%x", "%s"}
         /\ Buffer(l) \in [Places0 -> Chars]
         /\ \A p \in Places0 : Buffer(l)[p] = IF p < Len(l) THEN l[p + 1] ELSE NUL
<1>1. /\ l \in Seq(Chars) /\ l # <<>> /\ MAX \in Nat
      /\ Head(l) \in Words /\ Len(l) + 2 <= MAX
      /\ \A i \in 2 .. Len(l) : l[i] \notin {NUL, "%", "%d", "%x", "%s"}
  BY LinesAssumption, SeqMonotonic DEF Chars
<1>2. Len(l) \in Nat /\ Len(l) >= 1 /\ Head(l) = l[1]
  BY <1>1, EmptySeq
<1>3. \A i \in 1 .. Len(l) : l[i] \in Chars
  BY <1>1, ElementOfSeq
<1>4. \A p \in Places0 : Buffer(l)[p] = IF p < Len(l) THEN l[p + 1] ELSE NUL
  BY DEF Buffer
<1>5. Buffer(l) \in [Places0 -> Chars]
  <2>1. ASSUME NEW p \in Places0 PROVE (IF p < Len(l) THEN l[p + 1] ELSE NUL) \in Chars
    <3>1. p < Len(l) => p + 1 \in 1 .. Len(l)
      BY <1>1, <1>2 DEF Places0
    <3>2. NUL \in Chars
      BY DEF Chars
    <3> QED BY <1>3, <3>1, <3>2
  <2> QED BY <2>1 DEF Buffer
<1> QED BY <1>1, <1>2, <1>3, <1>4, <1>5

LEMMA HelloCopy ==
  ASSUME NEW l \in Lines, Head(l) = "hello", NEW arg, arg = Copied(Buffer(l), Len(l))
  PROVE  /\ arg[0] = "hello" /\ (NoName(arg) <=> Len(l) < 3)
         /\ Len(l) >= 3 => StringAt(arg, 1) = Tail(l)
<1>0. /\ l \in Seq(Chars) /\ Len(l) \in Nat /\ Len(l) >= 1 /\ Len(l) + 2 <= MAX
      /\ MAX \in Nat /\ \A i \in 2 .. Len(l) : l[i] # NUL
  BY TypedLine
<1>1. /\ arg \in [Places0 -> Chars]
      /\ \A p \in Places0 : arg[p] = IF p < Len(l) THEN l[p + 1] ELSE NUL
  BY TypedLine DEF Copied, Chars
<1>2. 0 \in Places0 /\ 2 \in Places0
  BY <1>0 DEF Places0
<1>3. arg[0] = "hello"
  BY <1>1, <1>2, TypedLine
<1>4. NoName(arg) <=> Len(l) < 3
  <2>1. Len(l) >= 3 => l[3] # NUL
    BY <1>0
  <2> QED BY <1>0, <1>1, <1>2, <2>1 DEF NoName
<1>5. StringAt(arg, 1) = Tail(l)
  <2> DEFINE s == Tail(l)
  <2>1. /\ s \in Seq(Chars) /\ Len(s) = Len(l) - 1
        /\ \A i \in 1 .. Len(s) : s[i] = l[i + 1]
    BY <1>0, EmptySeq, HeadTailProperties
  <2> HIDE DEF s
  <2>2. 1 + Len(s) < MAX /\ 1 + Len(s) = Len(l) /\ Len(l) \in Places0
    BY <1>0, <2>1 DEF Places0
  <2>3. arg[1 + Len(s)] = NUL
    BY <1>1, <2>2
  <2>4. ASSUME NEW i \in 1 .. Len(s) PROVE s[i] # NUL /\ arg[1 + i - 1] = s[i]
    <3>1. i + 1 \in 2 .. Len(l) /\ 1 + i - 1 = i /\ i \in Places0 /\ i < Len(l)
      BY <1>0, <2>1 DEF Places0
    <3>2. arg[i] = l[i + 1] /\ s[i] = l[i + 1]
      BY <1>1, <2>1, <3>1
    <3>3. l[i + 1] # NUL
      BY <1>0, <3>1
    <3>4. arg[1 + i - 1] = arg[i]
      BY <3>1
    <3> QED BY <3>2, <3>3, <3>4, Zenon
  <2>5. /\ 1 \in Nat /\ s \in Seq(Chars) /\ arg \in [Places0 -> Chars]
        /\ \A i \in 1 .. Len(s) : s[i] # NUL /\ arg[1 + i - 1] = s[i]
    BY <1>1, <2>1, <2>4
  <2>6. StringAt(arg, 1) = s
    BY <2>2, <2>3, <2>5, StringHeld
  <2> QED BY <2>6 DEF s
<1> QED BY <1>3, <1>4, <1>5

LEMMA Quotient ==
  ASSUME NEW n \in Nat \ {0}, NEW b \in Nat, b >= 2
  PROVE  n \div b \in Nat /\ n \div b < n /\ n % b \in 0 .. b - 1
OBVIOUS

\* The digits of a number: there is one at least.
LEMMA DigitsOf ==
  ASSUME NEW b \in 2 .. 16, NEW num \in Nat \ {0}
  PROVE  Backwards(num, b) \in Seq(Digits) /\ Len(Backwards(num, b)) >= 1
<1> DEFINE Texts == Seq(Digits)
           Def(f) == f = [n \in Nat |-> IF n = 0 THEN <<>>
                                        ELSE <<Numeral[(n % b) + 1]>> \o f[n \div b]]
           f0 == CHOOSE f : Def(f)
           size == [n \in Nat |-> n]
           body(n, f) == IF n = 0 THEN <<>> ELSE <<Numeral[(n % b) + 1]>> \o f[n \div b]
           Grow == [q \in Nat \X [Nat -> Texts] |-> body(q[1], q[2])]
<1>0. b \in Nat /\ b >= 2 /\ b <= 16
  OBVIOUS
<1>1. ASSUME NEW n \in Nat \ {0} PROVE <<Numeral[(n % b) + 1]>> \in Texts
  <2> DEFINE d == (n % b) + 1
  <2>1. d \in 1 .. 16
    <3> DEFINE r == n % b
    <3>1. r \in 0 .. b - 1
      BY <1>0, Quotient
    <3> HIDE DEF r
    <3> QED BY <1>0, <3>1
  <2> HIDE DEF d
  <2>2. Numeral[d] \in Digits
    BY <2>1 DEF Numeral, Digits
  <2> DEFINE c == Numeral[d]
  <2> HIDE DEF c
  <2>3. c \in Digits => <<c>> \in Seq(Digits)
    OBVIOUS
  <2> QED BY <2>2, <2>3 DEF c, d
<1>2. ASSUME NEW n \in Nat, NEW f \in [Nat -> Texts] PROVE body(n, f) \in Texts
  <2>1. CASE n = 0
    BY <2>1, EmptySeq
  <2>2. CASE n # 0
    <3>1. f[n \div b] \in Texts /\ <<Numeral[(n % b) + 1]>> \in Texts
      BY <1>0, <1>1, <2>2, Quotient
    <3> HIDE DEF Texts
    <3>2. \A s, t \in Texts : s \o t \in Texts
      BY ConcatProperties DEF Texts
    <3> QED BY <2>2, <3>1, <3>2
  <2> QED BY <2>1, <2>2
<1>3. Determined(Nat, Texts, size, Grow)
  <2>1. size \in [Nat -> Nat]
    OBVIOUS
  <2>2. Grow \in [Nat \X [Nat -> Texts] -> Texts]
    <3> HIDE DEF Texts, body
    <3> QED BY <1>2
  <2>3. ASSUME NEW n \in Nat, NEW f \in [Nat -> Texts], NEW g \in [Nat -> Texts],
               \A e \in Nat : size[e] < size[n] => f[e] = g[e]
        PROVE  Grow[<<n, f>>] = Grow[<<n, g>>]
    <3>1. n # 0 => f[n \div b] = g[n \div b]
      BY <1>0, <2>3, Quotient
    <3>2. body(n, f) = body(n, g)
      BY <3>1
    <3> HIDE DEF Texts, body
    <3> QED BY <3>2
  <2> HIDE DEF size, Grow, Texts
  <2> QED BY <2>1, <2>2, <2>3 DEF Determined
<1>4. PICK g \in [Nat -> Texts] : \A n \in Nat : g[n] = Grow[<<n, g>>]
  <2>1. <<>> \in Texts
    BY EmptySeq
  <2> HIDE DEF Texts, size, Grow
  <2>2. Solvable(Nat, Texts, Grow)
    BY <1>3, <2>1, Recursive
  <2> QED BY <2>2 DEF Solvable
<1>5. Def(g)
  <2>1. \A n \in Nat : g[n] = body(n, g)
    <3> HIDE DEF body, Texts
    <3> QED BY <1>4
  <2> QED BY <2>1
<1>6. Def(f0)
  <2> HIDE DEF Def
  <2> QED BY <1>5
<1>7. \A n \in Nat : f0[n] = body(n, f0)
  <2> HIDE DEF f0
  <2> QED BY <1>6
<1>8. Backwards(num, b) = f0[num]
  BY DEF Backwards
<1> HIDE DEF f0
<1> DEFINE T == {m \in Nat : \A n \in 0 .. m : f0[n] \in Texts}
<1>9. 0 \in T
  <2>1. f0[0] = <<>>
    BY <1>7
  <2>2. f0[0] \in Texts
    BY <2>1, EmptySeq
  <2> HIDE DEF Texts
  <2>3. \A n \in 0 .. 0 : n = 0
    OBVIOUS
  <2> QED BY <2>2, <2>3
<1>10. ASSUME NEW m \in Nat, m \in T PROVE m + 1 \in T
  <2>1. f0[m + 1] \in Texts
    <3> DEFINE n == m + 1
               k == n \div b
               h == <<Numeral[(n % b) + 1]>>
    <3>1. n \in Nat \ {0}
      OBVIOUS
    <3>2. k \in Nat /\ k < n /\ h \in Texts
      BY <1>0, <1>1, <3>1, Quotient
    <3>3. f0[n] = h \o f0[k]
      BY <1>7, <3>1
    <3>4. f0[k] \in Texts
      <4> HIDE DEF k
      <4>1. k \in 0 .. m
        BY <3>2
      <4> QED BY <1>10, <4>1
    <3> HIDE DEF h, k, n
    <3>5. f0[n] \in Texts
      BY <3>2, <3>3, <3>4, ConcatProperties
    <3> QED BY <3>5 DEF n
  <2>2. \A n \in 0 .. m + 1 : n = m + 1 \/ n \in 0 .. m
    OBVIOUS
  <2> HIDE DEF Texts
  <2> QED BY <1>10, <2>1, <2>2
<1>11. \A n \in Nat : f0[n] \in Texts
  <2> HIDE DEF T
  <2>1. \A m \in Nat : m \in T
    BY <1>9, <1>10, Inductive
  <2>2. ASSUME NEW n \in Nat PROVE f0[n] \in Texts
    <3>1. n \in T /\ n \in 0 .. n
      BY <2>1
    <3> HIDE DEF Texts
    <3> QED BY <3>1 DEF T
  <2> QED BY <2>2
<1>12. Len(f0[num]) >= 1
  <2> DEFINE h == <<Numeral[(num % b) + 1]>>
             r == f0[num \div b]
  <2>1. f0[num] = h \o r /\ h \in Texts /\ r \in Texts /\ Len(h) = 1
    BY <1>0, <1>1, <1>7, <1>11, Quotient
  <2> HIDE DEF h, r
  <2>2. Len(h \o r) = Len(h) + Len(r) /\ Len(r) \in Nat
    BY <2>1, ConcatProperties, LenProperties
  <2> QED BY <2>1, <2>2
<1> QED BY <1>8, <1>11, <1>12

-----------------------------------------------------------------------------
(***************************************************************************)
(* `$?' in the line buffer, a turn of the loop over j at a time: what is   *)
(* printed behind the blank is the text with each `$?' replaced, if the code *)
(* has less than three digits or the line no `$?'.                         *)
(***************************************************************************)
Buffers == [Places0 -> Chars]

LastPlace(j, length, i) == IF i > j + length THEN j + 2 + (i - (j + length)) ELSE j + 2

Filled(f, buffer, j, length, i) ==
  \A q \in Places0 :
    f[q] = LET next == q - length + 2 IN
           IF q \notin j + length .. i - 1 THEN buffer[q]
           ELSE IF next < q THEN f[next] ELSE buffer[next]

LEMMA ClosedUpFills ==
  ASSUME NEW buffer \in Buffers, NEW j \in Nat, NEW length \in Nat, NEW i \in Nat,
         length >= 1, i < MAX
  PROVE  \E f \in Buffers :
           /\ Filled(f, buffer, j, length, i)
           /\ ClosedUp(buffer, j, length, i) = [f EXCEPT ![LastPlace(j, length, i)] = NUL]
<1> DEFINE next(q) == q - length + 2
           body(q, f) == IF q \notin j + length .. i - 1 THEN buffer[q]
                         ELSE IF next(q) < q THEN f[next(q)] ELSE buffer[next(q)]
           Def(f) == f = [q \in Places0 |-> body(q, f)]
           f0 == CHOOSE f : Def(f)
           size == [q \in Places0 |-> q]
           Fill == [a \in Places0 \X Buffers |-> body(a[1], a[2])]
<1>0. MAX \in Nat /\ Places0 = 0 .. MAX - 1
  BY LinesAssumption DEF Places0
<1>1. ASSUME NEW q \in Places0, q \in j + length .. i - 1 PROVE next(q) \in Places0
  BY <1>0, <1>1
<1>2. ASSUME NEW q \in Places0, NEW f \in Buffers PROVE body(q, f) \in Chars
  <2>1. CASE q \notin j + length .. i - 1
    BY <2>1 DEF Buffers
  <2>2. CASE q \in j + length .. i - 1
    <3>1. next(q) \in Places0
      BY <1>1, <2>2
    <3>2. f[next(q)] \in Chars /\ buffer[next(q)] \in Chars
      <4> HIDE DEF next
      <4> QED BY <3>1 DEF Buffers
    <3> HIDE DEF next
    <3> QED BY <2>2, <3>2
  <2> QED BY <2>1, <2>2
<1>3. Determined(Places0, Chars, size, Fill)
  <2>1. size \in [Places0 -> Nat]
    BY <1>0
  <2>2. Fill \in [Places0 \X [Places0 -> Chars] -> Chars]
    <3> HIDE DEF body
    <3> QED BY <1>2 DEF Buffers
  <2>3. ASSUME NEW q \in Places0, NEW f \in [Places0 -> Chars], NEW g \in [Places0 -> Chars],
               \A e \in Places0 : size[e] < size[q] => f[e] = g[e]
        PROVE  Fill[<<q, f>>] = Fill[<<q, g>>]
    <3>1. q \in j + length .. i - 1 /\ next(q) < q => f[next(q)] = g[next(q)]
      BY <1>1, <2>3
    <3>2. body(q, f) = body(q, g)
      <4> HIDE DEF next
      <4> QED BY <3>1
    <3> HIDE DEF body
    <3> QED BY <3>2 DEF Buffers
  <2> HIDE DEF size, Fill
  <2> QED BY <2>1, <2>2, <2>3 DEF Determined
<1>4. PICK g \in [Places0 -> Chars] : \A q \in Places0 : g[q] = Fill[<<q, g>>]
  <2>1. NUL \in Chars
    BY DEF Chars
  <2> HIDE DEF size, Fill
  <2>2. Solvable(Places0, Chars, Fill)
    BY <1>3, <2>1, Recursive
  <2> QED BY <2>2 DEF Solvable
<1>5. Def(g)
  <2>1. \A q \in Places0 : g[q] = body(q, g)
    <3> HIDE DEF body
    <3> QED BY <1>4 DEF Buffers
  <2> HIDE DEF body
  <2> QED BY <2>1
<1>6. Def(f0)
  <2> HIDE DEF Def
  <2> QED BY <1>5
<1>7. \A q \in Places0 : f0[q] = body(q, f0)
  <2> HIDE DEF f0, body
  <2> QED BY <1>6
<1>8. Filled(f0, buffer, j, length, i)
  <2> HIDE DEF f0
  <2> QED BY <1>7 DEF Filled
<1>9. ClosedUp(buffer, j, length, i) = [f0 EXCEPT ![LastPlace(j, length, i)] = NUL]
  BY DEF ClosedUp, LastPlace
<1> HIDE DEF f0
<1> DEFINE T == {m \in Nat : \A q \in Places0 : q <= m => f0[q] \in Chars}
<1>10. \A m \in Nat : m \in T
  <2>0. ASSUME NEW q \in Places0, \A e \in Places0 : e < q => f0[e] \in Chars
        PROVE  f0[q] \in Chars
    <3>1. CASE q \notin j + length .. i - 1
      BY <1>7, <3>1 DEF Buffers
    <3>2. CASE q \in j + length .. i - 1
      <4>1. next(q) \in Places0
        BY <1>1, <3>2
      <4>2. f0[q] = IF next(q) < q THEN f0[next(q)] ELSE buffer[next(q)]
        BY <1>7, <3>2
      <4> HIDE DEF next
      <4> QED BY <2>0, <4>1, <4>2 DEF Buffers
    <3> QED BY <3>1, <3>2
  <2>1. 0 \in T
    <3>1. ASSUME NEW q \in Places0, q <= 0 PROVE f0[q] \in Chars
      <4>1. \A e \in Places0 : ~(e < q)
        BY <1>0, <3>1
      <4> QED BY <2>0, <4>1
    <3> QED BY <3>1
  <2>2. ASSUME NEW m \in Nat, m \in T PROVE m + 1 \in T
    <3>1. ASSUME NEW q \in Places0, q <= m + 1 PROVE f0[q] \in Chars
      <4>1. \A e \in Places0 : e < q => e <= m
        BY <1>0, <3>1
      <4> QED BY <2>0, <2>2, <4>1
    <3> QED BY <3>1
  <2> HIDE DEF T
  <2> QED BY <2>1, <2>2, Inductive
<1>11. f0 \in Buffers
  <2>1. f0 = [q \in Places0 |-> f0[q]]
    <3> HIDE DEF body
    <3> QED BY <1>6 DEF f0
  <2>2. ASSUME NEW q \in Places0 PROVE f0[q] \in Chars
    <3>1. q \in T /\ q <= q
      BY <1>0, <1>10
    <3> QED BY <3>1
  <2> QED BY <2>1, <2>2 DEF Buffers
<1> QED BY <1>8, <1>9, <1>11

\* Whatever the number of digits, the places up to the first of them stay.
LEMMA ClosedUpKeeps ==
  ASSUME NEW buffer \in Buffers, NEW j \in Nat, NEW length \in Nat, NEW i \in Nat,
         length >= 1, i < MAX
  PROVE  /\ ClosedUp(buffer, j, length, i) \in Buffers
         /\ \A q \in Places0 : q <= j => ClosedUp(buffer, j, length, i)[q] = buffer[q]
<1>1. PICK f \in Buffers :
        /\ Filled(f, buffer, j, length, i)
        /\ ClosedUp(buffer, j, length, i) = [f EXCEPT ![LastPlace(j, length, i)] = NUL]
  BY ClosedUpFills
<1>2. LastPlace(j, length, i) > j
  BY DEF LastPlace
<1>3. \A q \in Places0 : q <= j => f[q] = buffer[q]
  <2>1. ASSUME NEW q \in Places0, q <= j PROVE q \notin j + length .. i - 1
    BY <2>1, LinesAssumption DEF Places0
  <2> QED BY <1>1, <2>1 DEF Filled
<1>4. \A q \in Places0 : q <= j => q # LastPlace(j, length, i)
  BY <1>2, LinesAssumption DEF Places0
<1> QED BY <1>1, <1>3, <1>4 DEF Buffers, Chars

\* One digit takes the place of two characters: those behind it move up.
LEMMA ClosedUpOne ==
  ASSUME NEW buffer \in Buffers, NEW j \in Nat, NEW i \in Nat, j + 1 < i, i < MAX
  PROVE  \A q \in Places0 :
           ClosedUp(buffer, j, 1, i)[q] =
             IF q = i + 1 THEN NUL ELSE IF q \in j + 1 .. i - 1 THEN buffer[q + 1] ELSE buffer[q]
<1>1. PICK f \in Buffers :
        /\ Filled(f, buffer, j, 1, i)
        /\ ClosedUp(buffer, j, 1, i) = [f EXCEPT ![LastPlace(j, 1, i)] = NUL]
  BY ClosedUpFills
<1>2. LastPlace(j, 1, i) = i + 1
  BY DEF LastPlace
<1>3. ASSUME NEW q \in Places0
      PROVE  f[q] = IF q \in j + 1 .. i - 1 THEN buffer[q + 1] ELSE buffer[q]
  <2>1. q \in Nat /\ q - 1 + 2 = q + 1 /\ ~(q + 1 < q)
    BY LinesAssumption DEF Places0
  <2> QED BY <1>1, <2>1 DEF Filled
<1> QED BY <1>1, <1>2, <1>3 DEF Buffers

\* Two digits fit where they are.
LEMMA ClosedUpTwo ==
  ASSUME NEW buffer \in Buffers, NEW j \in Nat, NEW i \in Nat, j + 1 < i, i < MAX
  PROVE  \A q \in Places0 :
           ClosedUp(buffer, j, 2, i)[q] = IF q = i THEN NUL ELSE buffer[q]
<1>1. PICK f \in Buffers :
        /\ Filled(f, buffer, j, 2, i)
        /\ ClosedUp(buffer, j, 2, i) = [f EXCEPT ![LastPlace(j, 2, i)] = NUL]
  BY ClosedUpFills
<1>2. LastPlace(j, 2, i) = i
  BY DEF LastPlace
<1>3. ASSUME NEW q \in Places0 PROVE f[q] = buffer[q]
  <2>1. q \in Nat /\ q - 2 + 2 = q /\ ~(q < q)
    BY LinesAssumption DEF Places0
  <2> QED BY <1>1, <2>1 DEF Filled
<1> QED BY <1>1, <1>2, <1>3 DEF Buffers

LEMMA PutDigits ==
  ASSUME NEW buffer \in Buffers, NEW j \in Nat, NEW digits \in Seq(Digits)
  PROVE  /\ Put(buffer, j, digits) \in Buffers
         /\ \A q \in Places0 :
              Put(buffer, j, digits)[q] =
                IF q - j \in 0 .. Len(digits) - 1 THEN digits[Len(digits) - (q - j)]
                ELSE buffer[q]
         /\ \A q \in Places0 : q - j \in 0 .. Len(digits) - 1 =>
              digits[Len(digits) - (q - j)] \in Digits
<1>1. \A q \in Places0 : q - j \in 0 .. Len(digits) - 1 =>
              digits[Len(digits) - (q - j)] \in Digits
  <2>1. ASSUME NEW q \in Places0, q - j \in 0 .. Len(digits) - 1
        PROVE  digits[Len(digits) - (q - j)] \in Digits
    <3>1. Len(digits) \in Nat /\ q \in Nat
      BY LenProperties, LinesAssumption DEF Places0
    <3>2. Len(digits) - (q - j) \in 1 .. Len(digits)
      BY <2>1, <3>1
    <3> QED BY <3>2, ElementOfSeq
  <2> QED BY <2>1
<1> QED BY <1>1 DEF Put, Buffers, Chars

-----------------------------------------------------------------------------
\* What the loop does at place j.
Turn(b, j, digits, i) ==
  IF Marked(b, j) THEN ClosedUp(Put(b, j, digits), j, Len(digits), i) ELSE b

LEMMA TurnBuffer ==
  ASSUME NEW b \in Buffers, NEW j \in Nat, NEW digits \in Seq(Digits), NEW i \in Nat,
         Len(digits) >= 1, i < MAX
  PROVE  Turn(b, j, digits, i) \in Buffers
<1>1. Put(b, j, digits) \in Buffers /\ Len(digits) \in Nat
  BY PutDigits, LenProperties
<1>2. ClosedUp(Put(b, j, digits), j, Len(digits), i) \in Buffers
  BY <1>1, ClosedUpKeeps
<1> QED BY <1>2 DEF Turn

LEMMA IntToCharDigits ==
  ASSUME NEW num \in Nat
  PROVE  IntToChar(num) \in Seq(Digits) /\ Len(IntToChar(num)) >= 1
<1>1. CASE num = 0
  <2>1. <<"0">> \in Seq(Digits) /\ Len(<<"0">>) = 1
    BY DEF Digits
  <2> QED BY <1>1, <2>1 DEF IntToChar
<1>2. CASE num # 0
  <2>1. Base \in 2 .. 16
    BY CodesAssumption
  <2> QED BY <1>2, <2>1, DigitsOf DEF IntToChar
<1> QED BY <1>1, <1>2

LEMMA SubstitutedTurns ==
  ASSUME NEW buffer \in Buffers, NEW i \in Nat, NEW num \in Nat, i < MAX
  PROVE  \E f \in [0 .. i -> Buffers] :
           /\ f[0] = buffer
           /\ \A j \in 0 .. i - 1 : f[j + 1] = Turn(f[j], j, IntToChar(num), i)
           /\ Substituted(buffer, i, num) = f[i]
<1> DEFINE digits == IntToChar(num)
           body(j, f) == IF j = 0 THEN buffer ELSE Turn(f[j - 1], j - 1, digits, i)
           Def(f) == f = [j \in 0 .. i |-> body(j, f)]
           f0 == CHOOSE f : Def(f)
           size == [j \in 0 .. i |-> j]
           Go == [a \in (0 .. i) \X [0 .. i -> Buffers] |-> body(a[1], a[2])]
<1>1. \A j \in 0 .. i : j # 0 => j - 1 \in 0 .. i /\ j - 1 \in Nat /\ j - 1 < j
  OBVIOUS
<1>2. ASSUME NEW j \in 0 .. i, NEW f \in [0 .. i -> Buffers] PROVE body(j, f) \in Buffers
  <2>1. j # 0 => Turn(f[j - 1], j - 1, digits, i) \in Buffers
    BY <1>1, IntToCharDigits, TurnBuffer
  <2> QED BY <2>1
<1>3. Determined(0 .. i, Buffers, size, Go)
  <2>1. size \in [0 .. i -> Nat]
    OBVIOUS
  <2>2. Go \in [(0 .. i) \X [0 .. i -> Buffers] -> Buffers]
    <3> HIDE DEF body
    <3> QED BY <1>2
  <2>3. ASSUME NEW j \in 0 .. i, NEW f \in [0 .. i -> Buffers], NEW g \in [0 .. i -> Buffers],
               \A e \in 0 .. i : size[e] < size[j] => f[e] = g[e]
        PROVE  Go[<<j, f>>] = Go[<<j, g>>]
    <3>1. j # 0 => f[j - 1] = g[j - 1]
      BY <1>1, <2>3
    <3>2. body(j, f) = body(j, g)
      BY <3>1
    <3> HIDE DEF body
    <3> QED BY <3>2
  <2> HIDE DEF size, Go
  <2> QED BY <2>1, <2>2, <2>3 DEF Determined
<1>4. PICK g \in [0 .. i -> Buffers] : \A j \in 0 .. i : g[j] = Go[<<j, g>>]
  <2> HIDE DEF size, Go
  <2>2. Solvable(0 .. i, Buffers, Go)
    BY <1>3, Recursive
  <2> QED BY <2>2 DEF Solvable
<1>5. Def(g)
  <2>1. \A j \in 0 .. i : g[j] = body(j, g)
    <3> HIDE DEF body
    <3> QED BY <1>4
  <2> HIDE DEF body
  <2> QED BY <2>1
<1>6. Def(f0)
  <2> HIDE DEF Def
  <2> QED BY <1>5
<1>7. \A j \in 0 .. i : f0[j] = body(j, f0)
  <2> HIDE DEF f0, body
  <2> QED BY <1>6
<1>8. Substituted(buffer, i, num) = f0[i]
  BY DEF Substituted, Turn
<1>9. f0 = [j \in 0 .. i |-> f0[j]]
  <2> HIDE DEF body
  <2> QED BY <1>6 DEF f0
<1> HIDE DEF f0
<1> DEFINE T == {m \in Nat : m <= i => f0[m] \in Buffers}
<1>10. 0 \in T
  BY <1>7
<1>11. ASSUME NEW m \in Nat, m \in T PROVE m + 1 \in T
  <2>1. ASSUME m + 1 <= i PROVE f0[m + 1] \in Buffers
    <3>1. m + 1 \in 0 .. i /\ m + 1 # 0 /\ (m + 1) - 1 = m /\ m <= i
      BY <2>1
    <3>2. f0[m + 1] = Turn(f0[m], m, digits, i)
      BY <1>7, <3>1
    <3>3. f0[m] \in Buffers
      BY <1>11, <3>1
    <3> QED BY <3>2, <3>3, IntToCharDigits, TurnBuffer
  <2> QED BY <2>1
<1>12. f0 \in [0 .. i -> Buffers]
  <2> HIDE DEF T
  <2>1. \A m \in Nat : m \in T
    BY <1>10, <1>11, Inductive
  <2>2. \A j \in 0 .. i : f0[j] \in Buffers
    BY <2>1 DEF T
  <2> QED BY <1>9, <2>2
<1>13. ASSUME NEW j \in 0 .. i - 1 PROVE f0[j + 1] = Turn(f0[j], j, digits, i)
  <2>1. j + 1 \in 0 .. i /\ j + 1 # 0 /\ (j + 1) - 1 = j
    OBVIOUS
  <2> QED BY <1>7, <2>1
<1> QED BY <1>7, <1>8, <1>12, <1>13

\* Replaced, place after place.
FromText(from, text, d) ==
  /\ from \in [1 .. Len(text) + 2 -> Seq(Chars)]
  /\ from[Len(text) + 1] = <<>>
  /\ \A i \in 1 .. Len(text) :
       from[i] = IF i < Len(text) /\ text[i] = "$" /\ text[i + 1] = "?"
                   THEN d \o from[i + 2]
                   ELSE <<text[i]>> \o from[i + 1]

LEMMA ReplacedFrom ==
  ASSUME NEW text \in Seq(Chars), NEW d \in Seq(Chars)
  PROVE  \E from : FromText(from, text, d) /\ ReadEvalPrint!Replaced(text, d) = from[1]
<1> DEFINE n == Len(text)
           D == 1 .. n + 2
           Texts == Seq(Chars)
           Mark(i) == i < n /\ text[i] = "$" /\ text[i + 1] = "?"
           body(i, f) == IF i > n THEN <<>>
                         ELSE IF i < n /\ text[i] = "$" /\ text[i + 1] = "?"
                           THEN d \o f[i + 2] ELSE <<text[i]>> \o f[i + 1]
           Def(f) == f = [i \in D |-> body(i, f)]
           f0 == CHOOSE f : Def(f)
           size == [i \in D |-> n + 2 - i]
           Go == [a \in D \X [D -> Texts] |-> body(a[1], a[2])]
<1>0. n \in Nat
  BY LenProperties
<1>1. ASSUME NEW i \in D, i <= n
      PROVE  /\ i + 1 \in D /\ i + 2 \in D /\ n + 2 - (i + 1) < n + 2 - i
             /\ n + 2 - (i + 2) < n + 2 - i /\ <<text[i]>> \in Texts
  <2>1. i \in 1 .. n
    BY <1>0, <1>1
  <2> QED BY <1>0, <1>1, <2>1, ElementOfSeq
<1>2. ASSUME NEW i \in D, NEW f, i <= n => f[i + 1] \in Texts /\ f[i + 2] \in Texts
      PROVE body(i, f) \in Texts
  <2>1. i > n => body(i, f) = <<>> /\ <<>> \in Texts
    BY EmptySeq
  <2>2. CASE i <= n
    <3>1. d \in Texts /\ \A s, t \in Texts : s \o t \in Texts
      BY ConcatProperties
    <3>2. f[i + 1] \in Texts /\ f[i + 2] \in Texts /\ <<text[i]>> \in Texts
      BY <1>1, <1>2, <2>2
    <3>3. ~(i > n)
      BY <1>0, <2>2
    <3> HIDE DEF Texts
    <3> QED BY <3>1, <3>2, <3>3
  <2> HIDE DEF Texts, body
  <2>3. i > n \/ i <= n
    BY <1>0
  <2> QED BY <2>1, <2>2, <2>3
<1> HIDE DEF Texts
<1>3. Determined(D, Texts, size, Go)
  <2>1. size \in [D -> Nat]
    BY <1>0
  <2>2. Go \in [D \X [D -> Texts] -> Texts]
    <3>1. ASSUME NEW i \in D, NEW f \in [D -> Texts] PROVE body(i, f) \in Texts
      <4>1. i <= n => f[i + 1] \in Texts /\ f[i + 2] \in Texts
        BY <1>1
      <4> HIDE DEF body, D, n
      <4> QED BY <1>2, <4>1
    <3> HIDE DEF body, D
    <3> QED BY <3>1
  <2>3. ASSUME NEW i \in D, NEW f \in [D -> Texts], NEW g \in [D -> Texts],
               \A e \in D : size[e] < size[i] => f[e] = g[e]
        PROVE  Go[<<i, f>>] = Go[<<i, g>>]
    <3>1. i <= n => f[i + 1] = g[i + 1] /\ f[i + 2] = g[i + 2]
      BY <1>1, <2>3
    <3>2. body(i, f) = body(i, g)
      <4>1. i > n \/ i <= n
        BY <1>0
      <4> QED BY <3>1, <4>1
    <3> HIDE DEF body, D
    <3> QED BY <3>2
  <2> HIDE DEF size, Go, D
  <2> QED BY <2>1, <2>2, <2>3 DEF Determined
<1>4. PICK g \in [D -> Texts] : \A i \in D : g[i] = Go[<<i, g>>]
  <2>1. <<>> \in Texts
    BY EmptySeq DEF Texts
  <2> HIDE DEF size, Go, D
  <2>2. Solvable(D, Texts, Go)
    BY <1>3, <2>1, Recursive
  <2> QED BY <2>2 DEF Solvable
<1>5. Def(g)
  <2>1. \A i \in D : g[i] = body(i, g)
    <3> HIDE DEF body, D
    <3> QED BY <1>4
  <2> HIDE DEF body, D
  <2> QED BY <2>1
<1>6. Def(f0)
  <2> HIDE DEF Def
  <2> QED BY <1>5
<1>7. \A i \in D : f0[i] = body(i, f0)
  <2> HIDE DEF f0, body, D
  <2> QED BY <1>6
<1>8. ReadEvalPrint!Replaced(text, d) = f0[1]
  BY DEF ReadEvalPrint!Replaced
<1>9. f0 = [i \in D |-> f0[i]]
  <2> HIDE DEF body, D
  <2> QED BY <1>6 DEF f0
<1> HIDE DEF f0
<1> DEFINE T == {m \in Nat : \A i \in D : n + 2 - i <= m => f0[i] \in Texts}
<1>10. ASSUME NEW i \in D, \A e \in D : n + 2 - e < n + 2 - i => f0[e] \in Texts
       PROVE  f0[i] \in Texts
  <2>1. i <= n => f0[i + 1] \in Texts /\ f0[i + 2] \in Texts
    BY <1>1, <1>10
  <2> HIDE DEF body, D, n
  <2> QED BY <1>2, <1>7, <2>1
<1>11. 0 \in T
  <2>1. ASSUME NEW i \in D, n + 2 - i <= 0 PROVE f0[i] \in Texts
    <3>1. \A e \in D : ~(n + 2 - e < n + 2 - i)
      BY <1>0, <2>1
    <3> QED BY <1>10, <3>1
  <2> QED BY <2>1
<1>12. ASSUME NEW m \in Nat, m \in T PROVE m + 1 \in T
  <2>1. ASSUME NEW i \in D, n + 2 - i <= m + 1 PROVE f0[i] \in Texts
    <3>1. \A e \in D : n + 2 - e < n + 2 - i => n + 2 - e <= m
      BY <1>0, <2>1
    <3> HIDE DEF D
    <3> QED BY <1>10, <1>12, <3>1
  <2> QED BY <2>1
<1>13. f0 \in [D -> Texts]
  <2> HIDE DEF T
  <2>1. n + 2 \in T
    BY <1>0, <1>11, <1>12, Inductive
  <2>2. \A i \in D : n + 2 - i <= n + 2
    BY <1>0
  <2>3. \A i \in D : f0[i] \in Texts
    BY <2>1, <2>2 DEF T
  <2> HIDE DEF D
  <2> QED BY <1>9, <2>3
<1>14. f0[n + 1] = <<>>
  <2>1. n + 1 \in D /\ n + 1 > n
    BY <1>0
  <2>2. f0[n + 1] = body(n + 1, f0)
    BY <1>7, <2>1
  <2> HIDE DEF D
  <2> QED BY <2>1, <2>2
<1>15. \A i \in 1 .. n : i \in D /\ ~(i > n)
  BY <1>0
<1>16. \A i \in 1 .. n : f0[i] = IF i < n /\ text[i] = "$" /\ text[i + 1] = "?"
                                  THEN d \o f0[i + 2] ELSE <<text[i]>> \o f0[i + 1]
  <2> HIDE DEF D
  <2> QED BY <1>7, <1>15
<1>17. FromText(f0, text, d)
  BY <1>13, <1>14, <1>16 DEF FromText, Texts
<1> QED BY <1>8, <1>17

Begins(b, c) == b[0] = "echo" /\ (b[1] = " " <=> c[1] = " ")

LEMMA TurnFirst ==
  ASSUME NEW b \in Buffers, NEW j \in Nat, NEW digits \in Seq(Digits), NEW i \in Nat,
         Len(digits) >= 1, i < MAX, 2 <= MAX, NEW a,
         Begins(b, a)
  PROVE  Begins(Turn(b, j, digits, i), a)
<1> SUFFICES /\ Turn(b, j, digits, i)[0] = "echo"
             /\ Turn(b, j, digits, i)[1] = " " <=> b[1] = " "
  BY DEF Begins
<1>a. b[0] = "echo"
  BY DEF Begins
<1> DEFINE c == Put(b, j, digits)
<1>0. 0 \in Places0 /\ 1 \in Places0 /\ Len(digits) \in Nat
  BY LenProperties, LinesAssumption DEF Places0
<1>1. CASE ~Marked(b, j)
  BY <1>a, <1>1 DEF Turn
<1>2. CASE Marked(b, j)
  <2>1. j # 0 /\ b[j] = "$"
    BY <1>a, <1>2 DEF Marked
  <2>2. /\ c \in Buffers
        /\ \A q \in Places0 :
             c[q] = IF q - j \in 0 .. Len(digits) - 1 THEN digits[Len(digits) - (q - j)]
                    ELSE b[q]
        /\ \A q \in Places0 : q - j \in 0 .. Len(digits) - 1 =>
             digits[Len(digits) - (q - j)] \in Digits
    BY PutDigits
  <2>3. Turn(b, j, digits, i) = ClosedUp(c, j, Len(digits), i)
    BY <1>2 DEF Turn
  <2> HIDE DEF c
  <2>4. /\ Turn(b, j, digits, i)[0] = c[0]
        /\ Turn(b, j, digits, i)[1] = c[1]
    <3>1. \A q \in Places0 : q <= j => ClosedUp(c, j, Len(digits), i)[q] = c[q]
      BY <1>0, <2>2, ClosedUpKeeps
    <3>2. 0 <= j /\ 1 <= j
      BY <2>1
    <3> QED BY <1>0, <2>3, <3>1, <3>2
  <2>5. c[0] = b[0]
    <3>1. 0 - j \notin 0 .. Len(digits) - 1
      BY <1>0, <2>1
    <3> QED BY <1>0, <2>2, <3>1
  <2>6. CASE j # 1
    <3>1. 1 - j \notin 0 .. Len(digits) - 1
      BY <1>0, <2>1, <2>6
    <3> QED BY <1>0, <1>a, <2>2, <2>4, <2>5, <3>1
  <2>7. CASE j = 1
    <3>1. 1 - j \in 0 .. Len(digits) - 1
      BY <1>0, <2>7
    <3>2. c[1] \in Digits
      BY <1>0, <2>2, <3>1
    <3>3. " " \notin Digits /\ b[1] # " "
      BY <2>1, <2>7 DEF Digits
    <3> QED BY <1>a, <2>4, <2>5, <2>7, <3>2, <3>3
  <2> QED BY <2>6, <2>7
<1> QED BY <1>1, <1>2

\* The word stays, and so does the blank behind it.
LEMMA EchoCopy ==
  ASSUME NEW l \in Lines, Head(l) = "echo", NEW num \in Nat, NEW arg,
         arg = Copied(Substituted(Buffer(l), Len(l), num), Len(l))
  PROVE  /\ arg[0] = "echo"
         /\ arg[1] = " " <=> ~(Len(l) = 1 \/ l[2] # " ")
<1> DEFINE i == Len(l)
           digits == IntToChar(num)
           buffer == Buffer(l)
<1>1. /\ i \in Nat /\ i >= 1 /\ i < MAX /\ 2 <= MAX /\ 0 \in Places0 /\ 1 \in Places0
      /\ buffer[0] = "echo" /\ (1 < i => buffer[1] = l[2]) /\ buffer \in Buffers
  BY TypedLine DEF Places0, Buffers
<1>2. arg[0] = Substituted(buffer, i, num)[0]
      /\ arg[1] = IF 1 < i THEN Substituted(buffer, i, num)[1] ELSE NUL
  BY <1>1 DEF Copied
<1>3. digits \in Seq(Digits) /\ Len(digits) >= 1
  BY IntToCharDigits
<1> HIDE DEF i, buffer
<1>4. PICK f \in [0 .. i -> Buffers] :
        /\ f[0] = buffer
        /\ \A j \in 0 .. i - 1 : f[j + 1] = Turn(f[j], j, digits, i)
        /\ Substituted(buffer, i, num) = f[i]
  <2>1. i \in Nat /\ i < MAX /\ buffer \in Buffers
    BY <1>1
  <2> QED BY <2>1, SubstitutedTurns
<1> HIDE DEF digits
<1> DEFINE Same(b) == Begins(b, buffer)
           T == {m \in Nat : m <= i => Same(f[m])}
<1>5. ASSUME NEW b \in Buffers, NEW j \in Nat, Same(b)
      PROVE  Same(Turn(b, j, digits, i))
  BY <1>1, <1>3, <1>5, TurnFirst
<1>6. 0 \in T
  BY <1>1, <1>4 DEF Begins
<1>7. ASSUME NEW m \in Nat, m \in T PROVE m + 1 \in T
  <2>1. ASSUME m + 1 <= i PROVE Same(f[m + 1])
    <3>1. m \in 0 .. i - 1 /\ m \in 0 .. i /\ m <= i
      BY <1>1, <2>1
    <3>2. f[m + 1] = Turn(f[m], m, digits, i) /\ f[m] \in Buffers /\ Same(f[m])
      BY <1>4, <1>7, <3>1
    <3> HIDE DEF Same
    <3> QED BY <1>5, <3>2
  <2> HIDE DEF Same
  <2> QED BY <2>1
<1>8. Same(f[i])
  <2> HIDE DEF T
  <2>1. i \in T
    BY <1>1, <1>6, <1>7, Inductive
  <2>2. i <= i
    BY <1>1
  <2> HIDE DEF Same
  <2> QED BY <2>1, <2>2 DEF T
<1>9. NUL # " " /\ (1 < i <=> i # 1)
  BY <1>1 DEF NUL
<1>10. arg[0] = "echo" /\ (arg[1] = " " <=> ~(i = 1 \/ l[2] # " "))
  BY <1>1, <1>2, <1>4, <1>8, <1>9 DEF Begins
<1> QED BY <1>10 DEF i

Special == Conversions \cup {NUL}

Held(b, out) ==
  \A k \in 1 .. Len(out) : b[k + 1] = out[k] /\ out[k] \notin Special

Rest(b, text, p, w) ==
  \A q \in Places0 : q >= w + 2 =>
    b[q] = IF p + (q - (w + 2)) <= Len(text) THEN text[p + (q - (w + 2))] ELSE NUL

Plain(text) ==
  /\ text \in Seq(Chars) /\ Len(text) + 4 <= MAX
  /\ \A k \in 1 .. Len(text) : text[k] \notin Special

\* In front of place j: `out' is written, from place p of the text on nothing is.
Through(b, j, text, from, p, out) ==
  /\ b \in Buffers
  /\ p \in 1 .. Len(text) + 1
  /\ out \in Seq(Chars)
  /\ Len(out) < p
  /\ from[1] = out \o from[p]
  /\ Held(b, out)
  /\ Rest(b, text, p, Len(out))
  /\ \/ p = Len(text) + 1 /\ Len(out) <= j - 2
     \/ Len(out) = j - 2
     \/ Len(out) = j - 1 /\ b[j] \in Digits

LEMMA Appended ==
  ASSUME NEW out \in Seq(Chars), NEW d \in Seq(Chars), NEW b, NEW c,
         Held(b, out), \A k \in 1 .. Len(out) : c[k + 1] = b[k + 1],
         \A k \in 1 .. Len(d) : c[Len(out) + k + 1] = d[k] /\ d[k] \notin Special
  PROVE  /\ out \o d \in Seq(Chars) /\ Len(out \o d) = Len(out) + Len(d)
         /\ Held(c, out \o d)
<1> DEFINE w == Len(out)
           m == Len(d)
<1>1. /\ out \o d \in Seq(Chars) /\ Len(out \o d) = w + m
      /\ \A k \in 1 .. w + m : (out \o d)[k] = IF k <= w THEN out[k] ELSE d[k - w]
      /\ w \in Nat /\ m \in Nat
  BY ConcatProperties, LenProperties
<1>2. ASSUME NEW k \in 1 .. w + m
      PROVE  c[k + 1] = (out \o d)[k] /\ (out \o d)[k] \notin Special
  <2>1. CASE k <= w
    <3>1. k \in 1 .. w
      BY <1>1, <2>1
    <3> QED BY <1>1, <2>1, <3>1 DEF Held
  <2>2. CASE ~(k <= w)
    <3>1. k - w \in 1 .. m /\ w + (k - w) + 1 = k + 1
      BY <1>1, <2>2
    <3>2. c[w + (k - w) + 1] = d[k - w] /\ d[k - w] \notin Special
      BY <3>1
    <3> QED BY <1>1, <2>2, <3>1, <3>2
  <2> QED BY <2>1, <2>2
<1> HIDE DEF w, m
<1>3. \A k \in 1 .. Len(out \o d) : c[k + 1] = (out \o d)[k] /\ (out \o d)[k] \notin Special
  BY <1>1, <1>2
<1> QED BY <1>1, <1>3 DEF Held, w, m

\* The loop is at place j.
Turning(text, d, from, j, b, p, out) ==
  /\ Plain(text) /\ d \in Seq(Chars) /\ FromText(from, text, d)
  /\ j \in 2 .. Len(text) + 1
  /\ Through(b, j, text, from, p, out)

LEMMA RestNext ==
  ASSUME NEW b, NEW text, NEW p \in Nat, NEW w \in Nat, NEW j \in Nat, w = j - 2,
         j + 1 \in Places0, Rest(b, text, p, w)
  PROVE  b[j + 1] = IF p + 1 <= Len(text) THEN text[p + 1] ELSE NUL
<1> DEFINE q == j + 1
           m == p + (q - (w + 2))
<1>1. q >= w + 2 /\ m = p + 1
  OBVIOUS
<1>2. q \in Places0
  OBVIOUS
<1> HIDE DEF q
<1>3. b[q] = IF m <= Len(text) THEN text[m] ELSE NUL
  BY <1>1, <1>2 DEF Rest
<1> HIDE DEF m
<1> QED BY <1>1, <1>3 DEF q

\* A place without a mark.
LEMMA ThroughLetter ==
  ASSUME NEW text, NEW d, NEW from, NEW j, NEW b, NEW p, NEW out,
         Turning(text, d, from, j, b, p, out), ~Marked(b, j)
  PROVE  \E p2, out2 : Through(b, j + 1, text, from, p2, out2)
<1> USE DEF Turning
<1> DEFINE n == Len(text)
           w == Len(out)
<1>1. /\ n \in Nat /\ w \in Nat /\ MAX \in Nat /\ n + 4 <= MAX /\ p \in 1 .. n + 1 /\ w < p
      /\ j \in 2 .. n + 1 /\ j \in Places0 /\ j + 1 \in Places0
  BY LenProperties, LinesAssumption DEF Through, Plain, Places0
<1>2. CASE p = n + 1 /\ w <= j - 2
  <2>1. w <= (j + 1) - 2
    BY <1>1, <1>2
  <2>2. Through(b, j + 1, text, from, p, out)
    BY <1>2, <2>1 DEF Through
  <2> QED BY <2>2
<1>3. CASE w = j - 1 /\ b[j] \in Digits
  <2>1. w = (j + 1) - 2
    BY <1>1, <1>3
  <2>2. Through(b, j + 1, text, from, p, out)
    BY <2>1 DEF Through
  <2> QED BY <2>2
<1>4. CASE w = j - 2 /\ p <= n
  <2> DEFINE c == text[p]
             out2 == out \o <<c>>
  <2>1. p \in 1 .. n /\ p + 1 \in 1 .. n + 1 /\ p + (j - (w + 2)) = p /\ j >= w + 2
        /\ w + 1 + 1 = j
    BY <1>1, <1>4
  <2>2. b[j] = c /\ c \in Chars /\ c \notin Special
    <3>1. b[j] = text[p]
      BY <1>1, <2>1 DEF Through, Rest
    <3>2. text[p] \in Chars
      BY <2>1, ElementOfSeq DEF Plain
    <3> QED BY <2>1, <3>1, <3>2 DEF Plain
  <2> HIDE DEF c
  <2>3. <<c>> \in Seq(Chars) /\ Len(<<c>>) = 1 /\ <<c>>[1] = c
    BY <2>2
  <2>4. out2 \in Seq(Chars) /\ Len(out2) = w + 1 /\ Held(b, out2)
    <3>1. \A k \in 1 .. 1 : b[w + k + 1] = <<c>>[k] /\ <<c>>[k] \notin Special
      BY <2>1, <2>2, <2>3
    <3>2. out \in Seq(Chars) /\ Held(b, out)
      BY DEF Through
    <3> QED BY <2>3, <3>1, <3>2, Appended
  <2>5. from[1] = out2 \o from[p + 1]
    <3>1. from[p] = <<c>> \o from[p + 1]
      <4>1. ~(p < n /\ text[p] = "$" /\ text[p + 1] = "?")
        <5>1. ASSUME p < n PROVE b[j + 1] = text[p + 1]
          <6>1. p + 1 <= n /\ p \in Nat /\ j \in Nat /\ w = j - 2 /\ Rest(b, text, p, w)
            BY <1>1, <1>4, <5>1 DEF Through
          <6> HIDE DEF w, n
          <6>2. b[j + 1] = IF p + 1 <= Len(text) THEN text[p + 1] ELSE NUL
            BY <1>1, <6>1, RestNext
          <6> QED BY <6>1, <6>2 DEF n
        <5> QED BY <2>2, <5>1 DEF Marked, c
      <4> QED BY <2>1, <4>1 DEF FromText, c
    <3>2. from[p + 1] \in Seq(Chars) /\ out \in Seq(Chars) /\ from[1] = out \o from[p]
      <4>1. p + 1 \in 1 .. n + 2
        BY <1>1, <2>1
      <4> QED BY <4>1 DEF FromText, Through
    <3>3. (out \o <<c>>) \o from[p + 1] = out \o (<<c>> \o from[p + 1])
      <4> DEFINE one == <<c>>
                 rest == from[p + 1]
      <4>1. out \in Seq(Chars) /\ one \in Seq(Chars) /\ rest \in Seq(Chars)
        BY <2>3, <3>2
      <4> HIDE DEF one, rest
      <4>2. (out \o one) \o rest = out \o (one \o rest)
        BY <4>1, ConcatAssociative
      <4> QED BY <4>2 DEF one, rest
    <3> QED BY <3>1, <3>2, <3>3
  <2> HIDE DEF out2
  <2>6. Rest(b, text, p + 1, w + 1)
    <3>1. ASSUME NEW q \in Places0, q >= w + 1 + 2
          PROVE  b[q] = IF p + 1 + (q - (w + 1 + 2)) <= n
                          THEN text[p + 1 + (q - (w + 1 + 2))] ELSE NUL
      <4>1. p + 1 + (q - (w + 1 + 2)) = p + (q - (w + 2)) /\ q >= w + 2
        BY <1>1, <3>1 DEF Places0
      <4> QED BY <4>1 DEF Through, Rest
    <3> QED BY <3>1 DEF Rest
  <2>7. w + 1 < p + 1 /\ w + 1 = (j + 1) - 2
    BY <1>1, <1>4
  <2>8. Through(b, j + 1, text, from, p + 1, out2)
    BY <2>1, <2>4, <2>5, <2>6, <2>7 DEF Through
  <2> QED BY <2>8
<1>5. p = n + 1 \/ p <= n
  BY <1>1
<1> QED
  <2>1. (p = n + 1 /\ w <= j - 2) \/ w = j - 2 \/ (w = j - 1 /\ b[j] \in Digits)
    BY DEF Through
  <2>2. w = j - 2 => w <= j - 2
    BY <1>1
  <2> QED BY <1>2, <1>3, <1>4, <1>5, <2>1, <2>2

\* The mark is the next of the text.
MarkNext(text, d, from, j, p, out) ==
  /\ Len(out) = j - 2 /\ p < Len(text) /\ p \in 1 .. Len(text)
  /\ text[p] = "$" /\ text[p + 1] = "?"
  /\ from[1] = (out \o d) \o from[p + 2]

LEMMA AtMark ==
  ASSUME NEW text, NEW d, NEW from, NEW j, NEW b, NEW p, NEW out,
         Turning(text, d, from, j, b, p, out), Marked(b, j)
  PROVE  MarkNext(text, d, from, j, p, out)
<1> USE DEF Turning
<1> DEFINE n == Len(text)
           w == Len(out)
<1>1. /\ n \in Nat /\ w \in Nat /\ MAX \in Nat /\ n + 4 <= MAX /\ p \in 1 .. n + 1 /\ w < p
      /\ j \in 2 .. n + 1 /\ j \in Places0 /\ j + 1 \in Places0
  BY LenProperties, LinesAssumption DEF Through, Plain, Places0
<1>2. b[j] = "$" /\ b[j + 1] = "?" /\ "$" \notin Digits /\ NUL # "$" /\ NUL # "?"
  BY DEF Marked, Digits, NUL
<1>3. w <= j - 2 => p + (j - (w + 2)) <= n
  BY <1>1, <1>2 DEF Through, Rest
<1>4. w = j - 2
  <2>1. ~(p = n + 1 /\ w <= j - 2)
    BY <1>1, <1>3
  <2> QED BY <1>2, <2>1 DEF Through
<1>5. p <= n /\ p + (j - (w + 2)) = p /\ w <= j - 2
  BY <1>1, <1>3, <1>4
<1>6. text[p] = "$"
  BY <1>1, <1>2, <1>5 DEF Through, Rest
<1>7. p + 1 <= n /\ text[p + 1] = "?"
  <2>1. p \in Nat /\ j \in Nat /\ Rest(b, text, p, w)
    BY <1>1 DEF Through
  <2> HIDE DEF w
  <2>2. b[j + 1] = IF p + 1 <= Len(text) THEN text[p + 1] ELSE NUL
    BY <1>1, <1>4, <2>1, RestNext
  <2>3. NUL # "?"
    BY <1>2
  <2>4. p + 1 <= Len(text) /\ text[p + 1] = "?"
    BY <1>2, <2>2, <2>3, Zenon
  <2> QED BY <2>4
<1>8. p \in 1 .. n /\ p < n /\ p + 2 \in 1 .. n + 2
  BY <1>1, <1>7
<1>9. from[p] = d \o from[p + 2]
  BY <1>6, <1>7, <1>8 DEF FromText
<1>10. from[1] = (out \o d) \o from[p + 2]
  <2> DEFINE rest == from[p + 2]
  <2>1. out \in Seq(Chars) /\ rest \in Seq(Chars)
    BY <1>8 DEF FromText, Through
  <2> HIDE DEF rest
  <2>2. (out \o d) \o rest = out \o (d \o rest)
    BY <2>1, ConcatAssociative
  <2> QED BY <1>9, <2>2 DEF rest, Through
<1> QED BY <1>4, <1>6, <1>7, <1>8, <1>10 DEF MarkNext


\* One digit in the place of a mark.
LEMMA OneDigit ==
  ASSUME NEW digits \in Seq(Digits), Len(digits) = 1
  PROVE  /\ Reverse(digits) \in Seq(Chars) /\ Len(Reverse(digits)) = 1
         /\ Reverse(digits)[1] = digits[1] /\ digits[1] \in Digits
<1>1. digits[1] \in Digits
  BY ElementOfSeq
<1>2. Reverse(digits) = [k \in 1 .. 1 |-> digits[(1 - k) + 1]]
  BY DEF Reverse
<1>3. \A k \in 1 .. 1 : (1 - k) + 1 = 1
  OBVIOUS
<1>4. Reverse(digits) = [k \in 1 .. 1 |-> digits[1]]
  BY <1>2, <1>3
<1>5. digits[1] \in Chars
  BY <1>1 DEF Chars
<1>6. \A x \in Chars : /\ [k \in 1 .. 1 |-> x] \in Seq(Chars)
                       /\ Len([k \in 1 .. 1 |-> x]) = 1 /\ [k \in 1 .. 1 |-> x][1] = x
  OBVIOUS
<1> QED BY <1>1, <1>4, <1>5, <1>6

LEMMA TwoDigits ==
  ASSUME NEW digits \in Seq(Digits), Len(digits) = 2
  PROVE  /\ Reverse(digits) \in Seq(Chars) /\ Len(Reverse(digits)) = 2
         /\ Reverse(digits)[1] = digits[2] /\ Reverse(digits)[2] = digits[1]
         /\ digits[1] \in Digits /\ digits[2] \in Digits
<1>1. digits[1] \in Digits /\ digits[2] \in Digits
  BY ElementOfSeq
<1>2. Reverse(digits) = [k \in 1 .. 2 |-> digits[(2 - k) + 1]]
  BY DEF Reverse
<1>3. \A k \in 1 .. 2 : (2 - k) + 1 = 3 - k
  OBVIOUS
<1>4. Reverse(digits) = [k \in 1 .. 2 |-> digits[3 - k]]
  BY <1>2, <1>3
<1>5. digits[1] \in Chars /\ digits[2] \in Chars
  BY <1>1 DEF Chars
<1>6. /\ Reverse(digits)[1] = digits[2] /\ Reverse(digits)[2] = digits[1]
  BY <1>4
<1>7. \A k \in 1 .. 2 : digits[3 - k] \in Chars
  <2>1. ASSUME NEW k \in 1 .. 2 PROVE digits[3 - k] \in Chars
    <3>1. 3 - k = 1 \/ 3 - k = 2
      OBVIOUS
    <3> QED BY <1>5, <3>1
  <2> QED BY <2>1
<1>8. Reverse(digits) \in Seq(Chars) /\ Len(Reverse(digits)) = 2
  BY <1>4, <1>7
<1> QED BY <1>1, <1>6, <1>8

TurnedOne(c, b, j, digits, i) ==
  /\ c \in Buffers /\ c[j] = digits[1]
  /\ \A q \in Places0 : q # j =>
       c[q] = IF q = i + 1 THEN NUL ELSE IF q \in j + 1 .. i - 1 THEN b[q + 1] ELSE b[q]

TurnedTwo(c, b, j, digits, i) ==
  /\ c \in Buffers /\ c[j] = digits[2] /\ c[j + 1] = digits[1]
  /\ \A q \in Places0 : q # j /\ q # j + 1 => c[q] = IF q = i THEN NUL ELSE b[q]

LEMMA TurnOne ==
  ASSUME NEW b \in Buffers, NEW j \in Nat, NEW i \in Nat, j + 1 < i, i + 2 <= MAX,
         NEW digits \in Seq(Digits), Len(digits) = 1, Marked(b, j)
  PROVE  TurnedOne(Turn(b, j, digits, i), b, j, digits, i)
<1> DEFINE put == Put(b, j, digits)
           c == ClosedUp(put, j, 1, i)
<1>1. j \in Places0 /\ i < MAX /\ MAX \in Nat
  BY LinesAssumption DEF Places0
<1>2. \A q \in Places0 : q - j \in 0 .. 1 - 1 <=> q = j
  BY <1>1 DEF Places0
<1>3. \A q \in Places0 : put[q] = IF q - j \in 0 .. Len(digits) - 1
                                    THEN digits[Len(digits) - (q - j)] ELSE b[q]
  <2> HIDE DEF put
  <2>1. /\ Put(b, j, digits) \in Buffers
        /\ \A q \in Places0 :
              Put(b, j, digits)[q] =
                IF q - j \in 0 .. Len(digits) - 1 THEN digits[Len(digits) - (q - j)]
                ELSE b[q]
    BY PutDigits
  <2> QED BY <2>1 DEF put
<1>4. put \in Buffers
  BY PutDigits
<1>5. Turn(b, j, digits, i) = c
  BY DEF Turn
<1> HIDE DEF put
<1>6. put[j] = digits[1] /\ \A q \in Places0 : q # j => put[q] = b[q]
  <2>1. 1 - (j - j) = 1
    OBVIOUS
  <2> QED BY <1>1, <1>2, <1>3, <2>1
<1>7. /\ c \in Buffers
      /\ \A q \in Places0 :
           c[q] = IF q = i + 1 THEN NUL ELSE IF q \in j + 1 .. i - 1 THEN put[q + 1] ELSE put[q]
  <2>1. 1 \in Nat /\ 1 >= 1
    OBVIOUS
  <2> QED BY <1>1, <1>4, <2>1, ClosedUpKeeps, ClosedUpOne
<1> HIDE DEF c
<1>8. c[j] = digits[1]
  <2>1. j # i + 1 /\ j \notin j + 1 .. i - 1
    OBVIOUS
  <2> QED BY <1>1, <1>6, <1>7, <2>1
<1>9. ASSUME NEW q \in Places0, q # j
      PROVE  c[q] = IF q = i + 1 THEN NUL ELSE IF q \in j + 1 .. i - 1 THEN b[q + 1] ELSE b[q]
  <2>1. q \in j + 1 .. i - 1 => q + 1 \in Places0 /\ q + 1 # j
    BY <1>1 DEF Places0
  <2> QED BY <1>6, <1>7, <1>9, <2>1
<1> QED BY <1>5, <1>7, <1>8, <1>9 DEF TurnedOne

LEMMA TurnTwo ==
  ASSUME NEW b \in Buffers, NEW j \in Nat, NEW i \in Nat, j + 1 < i, i + 2 <= MAX,
         NEW digits \in Seq(Digits), Len(digits) = 2, Marked(b, j)
  PROVE  TurnedTwo(Turn(b, j, digits, i), b, j, digits, i)
<1> DEFINE put == Put(b, j, digits)
           c == ClosedUp(put, j, 2, i)
<1>1. j \in Places0 /\ j + 1 \in Places0 /\ i < MAX /\ MAX \in Nat
  BY LinesAssumption DEF Places0
<1>2. \A q \in Places0 : q - j \in 0 .. 2 - 1 <=> q = j \/ q = j + 1
  BY <1>1 DEF Places0
<1>3. \A q \in Places0 : put[q] = IF q - j \in 0 .. Len(digits) - 1
                                    THEN digits[Len(digits) - (q - j)] ELSE b[q]
  <2> HIDE DEF put
  <2>1. /\ Put(b, j, digits) \in Buffers
        /\ \A q \in Places0 :
              Put(b, j, digits)[q] =
                IF q - j \in 0 .. Len(digits) - 1 THEN digits[Len(digits) - (q - j)]
                ELSE b[q]
    BY PutDigits
  <2> QED BY <2>1 DEF put
<1>4. put \in Buffers
  BY PutDigits
<1>5. Turn(b, j, digits, i) = c
  BY DEF Turn
<1> HIDE DEF put
<1>6. /\ put[j] = digits[2] /\ put[j + 1] = digits[1]
      /\ \A q \in Places0 : q # j /\ q # j + 1 => put[q] = b[q]
  <2>1. Len(digits) - (j - j) = 2 /\ Len(digits) - (j + 1 - j) = 1
    OBVIOUS
  <2>2. j - j \in 0 .. Len(digits) - 1 /\ j + 1 - j \in 0 .. Len(digits) - 1
    OBVIOUS
  <2>3. put[j] = digits[2]
    BY <1>1, <1>3, <2>1, <2>2
  <2>4. put[j + 1] = digits[Len(digits) - (j + 1 - j)]
    BY <1>1, <1>3, <2>2
  <2>5. \A q \in Places0 : q # j /\ q # j + 1 => put[q] = b[q]
    BY <1>2, <1>3
  <2> QED BY <2>1, <2>3, <2>4, <2>5
<1>7. c \in Buffers /\ \A q \in Places0 : c[q] = IF q = i THEN NUL ELSE put[q]
  <2>1. 2 \in Nat /\ 2 >= 1
    OBVIOUS
  <2> QED BY <1>1, <1>4, <2>1, ClosedUpKeeps, ClosedUpTwo
<1> HIDE DEF c
<1>8. c[j] = digits[2] /\ c[j + 1] = digits[1]
  <2>1. j # i /\ j + 1 # i
    OBVIOUS
  <2> QED BY <1>1, <1>6, <1>7, <2>1
<1> QED BY <1>5, <1>6, <1>7, <1>8 DEF TurnedTwo

\* A mark that one digit takes the place of.
LEMMA ThroughOne ==
  ASSUME NEW text, NEW digits \in Seq(Digits), Len(digits) = 1, NEW from, NEW j,
         NEW b, NEW p, NEW out,
         Turning(text, Reverse(digits), from, j, b, p, out), Marked(b, j)
  PROVE  \E p2, out2 : Through(Turn(b, j, digits, Len(text) + 2), j + 1, text, from, p2, out2)
<1> DEFINE n == Len(text)
           i == n + 2
           w == Len(out)
           d == Reverse(digits)
           c == Turn(b, j, digits, i)
           out2 == out \o d
<1>1. /\ n \in Nat /\ w \in Nat /\ MAX \in Nat /\ n + 4 <= MAX /\ p \in 1 .. n + 1 /\ w < p
      /\ j \in 2 .. n + 1 /\ j \in Places0 /\ j + 1 \in Places0 /\ b \in Buffers /\ j \in Nat
      /\ i \in Nat /\ i + 2 <= MAX /\ i = n + 2
  BY LenProperties, LinesAssumption DEF Turning, Through, Plain, Places0
<1>2. /\ w = j - 2 /\ p < n /\ p \in 1 .. n /\ from[1] = out2 \o from[p + 2]
  <2>1. MarkNext(text, Reverse(digits), from, j, p, out)
    BY AtMark
  <2> QED BY <2>1 DEF MarkNext
<1>3. /\ d \in Seq(Chars) /\ Len(d) = 1 /\ d[1] = digits[1] /\ digits[1] \in Digits
  BY OneDigit
<1> HIDE DEF i
<1>4. j + 1 < i
  BY <1>1, <1>2
<1>5. /\ c \in Buffers /\ c[j] = digits[1]
      /\ \A q \in Places0 : q # j =>
           c[q] = IF q = i + 1 THEN NUL ELSE IF q \in j + 1 .. i - 1 THEN b[q + 1] ELSE b[q]
  <2>1. TurnedOne(c, b, j, digits, i)
    BY <1>1, <1>4, TurnOne
  <2> QED BY <2>1 DEF TurnedOne
<1>6. Held(b, out) /\ Rest(b, text, p, w) /\ out \in Seq(Chars)
  BY DEF Turning, Through
<1> HIDE DEF c, out2, d, w, n
<1>7. out2 \in Seq(Chars) /\ Len(out2) = w + 1 /\ Held(c, out2)
  <2>1. ASSUME NEW k \in 1 .. w PROVE c[k + 1] = b[k + 1]
    <3>1. /\ k + 1 \in Places0 /\ k + 1 # j /\ k + 1 # i + 1
          /\ k + 1 \notin j + 1 .. i - 1
      BY <1>1, <1>2, <1>4 DEF Places0
    <3> QED BY <1>5, <3>1
  <2>2. ASSUME NEW k \in 1 .. Len(d) PROVE c[w + k + 1] = d[k] /\ d[k] \notin Special
    <3>1. k = 1 /\ w + k + 1 = j
      BY <1>1, <1>2, <1>3
    <3>2. d[1] \notin Special
      BY <1>3 DEF Digits, Special, Conversions, NUL
    <3> QED BY <1>3, <1>5, <3>1, <3>2
  <2>3. /\ out \o d \in Seq(Chars) /\ Len(out \o d) = Len(out) + Len(d)
        /\ Held(c, out \o d)
    BY <1>3, <1>6, <2>1, <2>2, Appended DEF w
  <2> QED BY <1>3, <2>3 DEF out2, w
<1>8. Rest(c, text, p + 2, w + 1)
  <2>1. ASSUME NEW q \in Places0, q >= w + 1 + 2
        PROVE  c[q] = IF p + 2 + (q - (w + 1 + 2)) <= n
                        THEN text[p + 2 + (q - (w + 1 + 2))] ELSE NUL
    <3>0. q \in Nat /\ q > j /\ q # j
      BY <1>1, <1>2, <2>1 DEF Places0
    <3>1. CASE q \in j + 1 .. i - 1
      <4> DEFINE r == q + 1
      <4>1. /\ r \in Places0 /\ q # i + 1 /\ r >= w + 2
            /\ p + 2 + (q - (w + 1 + 2)) = p + (r - (w + 2))
        BY <1>1, <1>2, <3>0, <3>1 DEF Places0
      <4>2. c[q] = b[r]
        BY <1>5, <3>0, <3>1, <4>1
      <4> HIDE DEF r
      <4>3. b[r] = IF p + (r - (w + 2)) <= n THEN text[p + (r - (w + 2))] ELSE NUL
        BY <1>6, <4>1 DEF Rest, n
      <4> QED BY <4>1, <4>2, <4>3
    <3>2. CASE q >= i
      <4>1. /\ q \notin j + 1 .. i - 1 /\ q >= w + 2
            /\ ~(p + 2 + (q - (w + 1 + 2)) <= n) /\ ~(p + (q - (w + 2)) <= n)
        BY <1>1, <1>2, <3>0, <3>2
      <4>2. b[q] = NUL
        BY <1>6, <4>1 DEF Rest, n
      <4>3. c[q] = NUL
        BY <1>5, <3>0, <4>1, <4>2
      <4> QED BY <4>1, <4>3
    <3> QED BY <1>1, <3>0, <3>1, <3>2
  <2> QED BY <2>1 DEF Rest, n
<1>9. w + 1 < p + 2 /\ w + 1 = (j + 1) - 2 /\ p + 2 \in 1 .. n + 1
  BY <1>1, <1>2
<1>10. Through(c, j + 1, text, from, p + 2, out2)
  BY <1>2, <1>5, <1>7, <1>8, <1>9 DEF Through, n
<1> QED BY <1>10 DEF c, i, n

\* A mark that two digits take the place of: the loop looks at the second one, too.
LEMMA ThroughTwo ==
  ASSUME NEW text, NEW digits \in Seq(Digits), Len(digits) = 2, NEW from, NEW j,
         NEW b, NEW p, NEW out,
         Turning(text, Reverse(digits), from, j, b, p, out), Marked(b, j)
  PROVE  \E p2, out2 : Through(Turn(b, j, digits, Len(text) + 2), j + 1, text, from, p2, out2)
<1> DEFINE n == Len(text)
           i == n + 2
           w == Len(out)
           d == Reverse(digits)
           c == Turn(b, j, digits, i)
           out2 == out \o d
<1>1. /\ n \in Nat /\ w \in Nat /\ MAX \in Nat /\ n + 4 <= MAX /\ p \in 1 .. n + 1 /\ w < p
      /\ j \in 2 .. n + 1 /\ j \in Places0 /\ j + 1 \in Places0 /\ b \in Buffers /\ j \in Nat
      /\ i \in Nat /\ i + 2 <= MAX /\ i = n + 2
  BY LenProperties, LinesAssumption DEF Turning, Through, Plain, Places0
<1>2. /\ w = j - 2 /\ p < n /\ p \in 1 .. n /\ from[1] = out2 \o from[p + 2]
  <2>1. MarkNext(text, Reverse(digits), from, j, p, out)
    BY AtMark
  <2> QED BY <2>1 DEF MarkNext
<1>3. /\ d \in Seq(Chars) /\ Len(d) = 2 /\ d[1] = digits[2] /\ d[2] = digits[1]
      /\ digits[1] \in Digits /\ digits[2] \in Digits
  BY TwoDigits
<1> HIDE DEF i
<1>4. j + 1 < i
  BY <1>1, <1>2
<1>5. /\ c \in Buffers /\ c[j] = digits[2] /\ c[j + 1] = digits[1]
      /\ \A q \in Places0 : q # j /\ q # j + 1 => c[q] = IF q = i THEN NUL ELSE b[q]
  <2>1. TurnedTwo(c, b, j, digits, i)
    BY <1>1, <1>4, TurnTwo
  <2> QED BY <2>1 DEF TurnedTwo
<1>6. Held(b, out) /\ Rest(b, text, p, w) /\ out \in Seq(Chars)
  BY DEF Turning, Through
<1> HIDE DEF c, out2, d, w, n
<1>7. out2 \in Seq(Chars) /\ Len(out2) = w + 2 /\ Held(c, out2)
  <2>1. ASSUME NEW k \in 1 .. w PROVE c[k + 1] = b[k + 1]
    <3>1. k + 1 \in Places0 /\ k + 1 # i /\ k + 1 # j /\ k + 1 # j + 1
      BY <1>1, <1>2, <1>4 DEF Places0
    <3> QED BY <1>5, <3>1
  <2>2. ASSUME NEW k \in 1 .. Len(d) PROVE c[w + k + 1] = d[k] /\ d[k] \notin Special
    <3>1. (k = 1 /\ w + k + 1 = j) \/ (k = 2 /\ w + k + 1 = j + 1)
      BY <1>1, <1>2, <1>3
    <3>2. d[1] \notin Special /\ d[2] \notin Special
      BY <1>3 DEF Digits, Special, Conversions, NUL
    <3> QED BY <1>3, <1>5, <3>1, <3>2
  <2>3. /\ out \o d \in Seq(Chars) /\ Len(out \o d) = Len(out) + Len(d)
        /\ Held(c, out \o d)
    BY <1>3, <1>6, <2>1, <2>2, Appended DEF w
  <2> QED BY <1>3, <2>3 DEF out2, w
<1>8. Rest(c, text, p + 2, w + 2)
  <2>1. ASSUME NEW q \in Places0, q >= w + 2 + 2
        PROVE  c[q] = IF p + 2 + (q - (w + 2 + 2)) <= n
                        THEN text[p + 2 + (q - (w + 2 + 2))] ELSE NUL
    <3>0. /\ q \in Nat /\ q # j /\ q # j + 1 /\ q >= w + 2
          /\ p + 2 + (q - (w + 2 + 2)) = p + (q - (w + 2))
      BY <1>1, <1>2, <2>1 DEF Places0
    <3>1. CASE q = i
      <4>1. ~(p + (q - (w + 2)) <= n)
        BY <1>1, <1>2, <3>1
      <4> QED BY <1>5, <3>0, <3>1, <4>1
    <3>2. CASE q # i
      <4>1. b[q] = IF p + (q - (w + 2)) <= n THEN text[p + (q - (w + 2))] ELSE NUL
        BY <1>6, <3>0 DEF Rest, n
      <4> QED BY <1>5, <3>0, <3>2, <4>1
    <3> QED BY <3>1, <3>2
  <2> QED BY <2>1 DEF Rest, n
<1>9. w + 2 < p + 2 /\ w + 2 = (j + 1) - 1 /\ p + 2 \in 1 .. n + 1
  BY <1>1, <1>2
<1>10. Through(c, j + 1, text, from, p + 2, out2)
  BY <1>2, <1>3, <1>5, <1>7, <1>8, <1>9 DEF Through, n
<1> QED BY <1>10 DEF c, i, n

\* No mark, or one that is gone: three digits are not told apart any more.
Kept(text, digits) ==
  \/ Len(digits) < 3
  \/ ~\E k \in 1 .. Len(text) : k < Len(text) /\ text[k] = "$" /\ text[k + 1] = "?"

LEMMA ThroughTurn ==
  ASSUME NEW text, NEW digits \in Seq(Digits), Len(digits) >= 1, NEW from, NEW j,
         NEW b, NEW p, NEW out, Turning(text, Reverse(digits), from, j, b, p, out),
         Kept(text, digits)
  PROVE  \E p2, out2 : Through(Turn(b, j, digits, Len(text) + 2), j + 1, text, from, p2, out2)
<1>1. CASE ~Marked(b, j)
  <2>1. \E p2, out2 : Through(b, j + 1, text, from, p2, out2)
    BY <1>1, ThroughLetter
  <2>2. Turn(b, j, digits, Len(text) + 2) = b
    BY <1>1 DEF Turn
  <2> QED BY <2>1, <2>2
<1>2. CASE Marked(b, j)
  <2>1. MarkNext(text, Reverse(digits), from, j, p, out)
    BY <1>2, AtMark
  <2>2. Len(digits) = 1 \/ Len(digits) = 2
    <3> DEFINE m == Len(digits)
    <3>1. m \in Nat /\ m >= 1
      BY LenProperties
    <3>2. m < 3
      BY <2>1 DEF MarkNext, Kept
    <3> HIDE DEF m
    <3>3. m = 1 \/ m = 2
      BY <3>1, <3>2
    <3> QED BY <3>3 DEF m
  <2> QED BY <1>2, <2>2, ThroughOne, ThroughTwo
<1> QED BY <1>1, <1>2

LEMMA ReverseChars ==
  ASSUME NEW digits \in Seq(Digits)
  PROVE  Reverse(digits) \in Seq(Chars)
<1> DEFINE n == Len(digits)
<1>1. n \in Nat /\ digits \in [1 .. n -> Digits]
  BY LenProperties
<1>2. \A k \in 1 .. n : digits[(n - k) + 1] \in Chars
  <2>1. ASSUME NEW k \in 1 .. n PROVE digits[(n - k) + 1] \in Chars
    <3>1. (n - k) + 1 \in 1 .. n
      BY <1>1
    <3> QED BY <1>1, <3>1 DEF Chars
  <2> QED BY <2>1
<1>3. Reverse(digits) = [k \in 1 .. n |-> digits[(n - k) + 1]]
  BY DEF Reverse
<1> HIDE DEF n
<1> QED BY <1>1, <1>2, <1>3

\* What stands behind the word and the blank.
LEMMA Behind ==
  ASSUME NEW s \in Seq(Chars), NEW i \in Nat, i >= 2, i = Len(s)
  PROVE  /\ SubSeq(s, 3, i) \in Seq(Chars) /\ Len(SubSeq(s, 3, i)) = i - 2
         /\ \A k \in 1 .. i - 2 : SubSeq(s, 3, i)[k] = s[k + 2]
<1>1. \A k \in 3 .. i : s[k] \in Chars
  <2>1. \A k \in 3 .. i : k \in 1 .. i
    OBVIOUS
  <2> QED BY <2>1, ElementOfSeq
<1> DEFINE sub == SubSeq(s, 3, i)
<1>2. /\ sub \in Seq(Chars) /\ Len(sub) = IF 3 <= i THEN i - 3 + 1 ELSE 0
      /\ \A k \in 1 .. i - 3 + 1 : sub[k] = s[3 + k - 1]
  <2>1. 3 \in Int /\ i \in Int
    OBVIOUS
  <2> QED BY <1>1, <2>1, SubSeqProperties
<1> HIDE DEF sub
<1>3. Len(sub) = i - 2
  BY <1>2
<1>4. ASSUME NEW k \in 1 .. i - 2 PROVE sub[k] = s[k + 2]
  <2>1. k \in 1 .. i - 3 + 1 /\ 3 + k - 1 = k + 2
    OBVIOUS
  <2> QED BY <1>2, <2>1
<1> QED BY <1>2, <1>3, <1>4 DEF sub

LEMMA EchoedText ==
  ASSUME NEW l \in Lines, Len(l) >= 2
  PROVE  /\ Plain(SubSeq(l, 3, Len(l))) /\ Len(SubSeq(l, 3, Len(l))) = Len(l) - 2
         /\ \A k \in 1 .. Len(l) - 2 : SubSeq(l, 3, Len(l))[k] = l[k + 2]
<1> DEFINE i == Len(l)
           text == SubSeq(l, 3, i)
<1>1. /\ l \in Seq(Chars) /\ i \in Nat /\ i >= 2 /\ i + 2 <= MAX /\ MAX \in Nat
      /\ \A k \in 2 .. i : l[k] \notin {NUL, "%", "%d", "%x", "%s"}
  BY TypedLine
<1>2. /\ text \in Seq(Chars) /\ Len(text) = i - 2
      /\ \A k \in 1 .. i - 2 : text[k] = l[k + 2]
  BY <1>1, Behind
<1> HIDE DEF i, text
<1>3. ASSUME NEW k \in 1 .. i - 2 PROVE text[k] \notin Special
  <2>1. k + 2 \in 2 .. i
    BY <1>1
  <2> QED BY <1>1, <1>2, <2>1 DEF Special, Conversions
<1>4. Len(text) + 4 <= MAX
  BY <1>1, <1>2
<1> QED BY <1>2, <1>3, <1>4 DEF Plain, i, text

\* The buffer, turn after turn.
Turns(f, buffer, digits, i) ==
  /\ f[0] = buffer
  /\ \A j \in 0 .. i - 1 : f[j + 1] = Turn(f[j], j, digits, i)

Begun(buffer) == buffer[0] = "echo" /\ buffer[1] = " "

LEMMA FirstTurns ==
  ASSUME NEW i \in Nat, i >= 2, NEW buffer, Begun(buffer),
         NEW digits, NEW f, Turns(f, buffer, digits, i)
  PROVE  f[2] = buffer
<1>1. 0 \in 0 .. i - 1 /\ 1 \in 0 .. i - 1 /\ 0 + 1 = 1 /\ 1 + 1 = 2
  OBVIOUS
<1>2. f[1] = Turn(f[0], 0, digits, i) /\ f[2] = Turn(f[1], 1, digits, i) /\ f[0] = buffer
  BY <1>1 DEF Turns
<1>3. ~Marked(buffer, 0) /\ ~Marked(buffer, 1)
  BY DEF Marked, Begun
<1> QED BY <1>2, <1>3 DEF Turn

\* The line as it was typed, behind the word.
Typing(buffer, text, n) ==
  /\ n \in Nat /\ Plain(text) /\ Len(text) = n
  /\ buffer \in Buffers /\ Begun(buffer) /\ Rest(buffer, text, 1, 0)

\* An echo with something to print.
EchoLine(l) == l \in Lines /\ Head(l) = "echo" /\ Len(l) >= 2 /\ l[2] = " "

LEMMA EchoTyping ==
  ASSUME NEW l, EchoLine(l)
  PROVE  Typing(Buffer(l), SubSeq(l, 3, Len(l)), Len(l) - 2)
<1> DEFINE i == Len(l)
           text == SubSeq(l, 3, i)
           n == i - 2
           buffer == Buffer(l)
<1>1. /\ i \in Nat /\ i >= 2 /\ i + 2 <= MAX /\ MAX \in Nat
      /\ l[1] = "echo" /\ l[2] = " " /\ buffer \in Buffers
      /\ \A q \in Places0 : buffer[q] = IF q < i THEN l[q + 1] ELSE NUL
  BY TypedLine DEF Buffers, EchoLine
<1>2. Plain(text) /\ Len(text) = n /\ \A k \in 1 .. n : text[k] = l[k + 2]
  BY EchoedText DEF EchoLine
<1>0. i \in Nat /\ i >= 2 /\ i + 2 <= MAX /\ MAX \in Nat
  BY <1>1
<1> HIDE DEF i, text, buffer
<1>3. n \in Nat /\ n + 2 = i
  BY <1>0
<1> HIDE DEF n
<1>4. Begun(buffer)
  <2>1. 0 \in Places0 /\ 1 \in Places0 /\ 0 < i /\ 1 < i /\ 0 + 1 = 1 /\ 1 + 1 = 2
    BY <1>0 DEF Places0
  <2> QED BY <1>1, <2>1 DEF Begun
<1>5. ASSUME NEW q \in Places0, q >= 0 + 2
      PROVE  buffer[q] = IF 1 + (q - (0 + 2)) <= n THEN text[1 + (q - (0 + 2))] ELSE NUL
  <2> DEFINE r == 1 + (q - (0 + 2))
  <2>1. /\ q \in Nat /\ r \in Nat /\ (q < i <=> r <= n) /\ (r <= n => r \in 1 .. n)
        /\ r + 2 = q + 1
    BY <1>0, <1>3, <1>5 DEF Places0
  <2> HIDE DEF r
  <2>2. buffer[q] = IF r <= n THEN text[r] ELSE NUL
    BY <1>1, <1>2, <2>1
  <2> QED BY <2>2 DEF r
<1>6. Rest(buffer, text, 1, 0)
  BY <1>2, <1>5 DEF Rest
<1>7. Typing(buffer, text, n)
  BY <1>1, <1>2, <1>3, <1>4, <1>6 DEF Typing
<1> QED BY <1>7 DEF i, text, n, buffer

LEMMA ThroughAll ==
  ASSUME NEW n, NEW text, NEW buffer, Typing(buffer, text, n),
         NEW digits \in Seq(Digits), Len(digits) >= 1, Kept(text, digits),
         NEW from, FromText(from, text, Reverse(digits)),
         NEW f, Turns(f, buffer, digits, n + 2)
  PROVE  \E p, out : Through(f[n + 2], n + 2, text, from, p, out)
<1> DEFINE d == Reverse(digits)
           i == n + 2
<1>1. n \in Nat /\ Len(text) = n /\ Plain(text) /\ d \in Seq(Chars)
  BY ReverseChars DEF Typing
<1> HIDE DEF d
<1>2. f[2] = buffer
  <2>1. n + 2 \in Nat /\ n + 2 >= 2 /\ Begun(buffer)
    BY <1>1 DEF Typing
  <2> QED BY <2>1, FirstTurns
<1>3. Through(buffer, 2, text, from, 1, <<>>)
  <2>1. from[1] = <<>> \o from[1]
    <3>1. 1 \in 1 .. n + 2
      BY <1>1
    <3>2. from[1] \in Seq(Chars)
      BY <1>1, <3>1 DEF FromText
    <3> QED BY <3>2, ConcatEmptySeq
  <2>2. /\ <<>> \in Seq(Chars) /\ Len(<<>>) = 0 /\ 1 \in 1 .. n + 1 /\ 0 < 1 /\ 0 = 2 - 2
        /\ Held(buffer, <<>>)
    BY <1>1, EmptySeq DEF Held
  <2> QED BY <1>1, <2>1, <2>2 DEF Through, Typing
<1> DEFINE Good(j) == \E p, out : Through(f[j], j, text, from, p, out)
           T == {m \in Nat : m <= n => Good(m + 2)}
<1>4. 0 \in T
  <2>1. 0 + 2 = 2
    OBVIOUS
  <2> QED BY <1>2, <1>3, <2>1
<1>5. ASSUME NEW m \in Nat, m \in T PROVE m + 1 \in T
  <2> DEFINE j == m + 2
  <2>1. ASSUME m + 1 <= n PROVE Good(j + 1)
    <3>1. j \in 0 .. (n + 2) - 1 /\ m <= n /\ j \in 2 .. n + 1
      BY <1>1, <2>1
    <3>2. Good(j)
      <4> HIDE DEF Good
      <4> QED BY <1>5, <3>1
    <3> HIDE DEF j
    <3>3. PICK p, out : Through(f[j], j, text, from, p, out)
      BY <3>2
    <3>4. Turning(text, Reverse(digits), from, j, f[j], p, out)
      BY <1>1, <3>1, <3>3 DEF Turning, d
    <3>5. \E p2, out2 : Through(Turn(f[j], j, digits, n + 2), j + 1, text, from, p2, out2)
      BY <1>1, <3>4, ThroughTurn
    <3>6. Turn(f[j], j, digits, n + 2) = f[j + 1]
      BY <3>1 DEF Turns
    <3> QED BY <3>5, <3>6
  <2>2. (m + 1) + 2 = j + 1
    OBVIOUS
  <2> HIDE DEF Good, j
  <2>3. m + 1 <= n => Good((m + 1) + 2)
    BY <2>1, <2>2
  <2>4. m + 1 \in Nat
    OBVIOUS
  <2> QED BY <2>3, <2>4
<1> HIDE DEF T
<1>6. n \in T /\ n <= n
  BY <1>1, <1>4, <1>5, Inductive
<1> HIDE DEF Good
<1>7. Good(n + 2)
  BY <1>6 DEF T
<1> QED BY <1>7 DEF Good

LEMMA EchoCopied ==
  ASSUME NEW n \in Nat, NEW text, Plain(text), Len(text) = n,
         NEW digits, NEW from, FromText(from, text, digits),
         NEW b, NEW p, NEW out, Through(b, n + 2, text, from, p, out),
         NEW arg, arg = Copied(b, n + 2)
  PROVE  /\ out \in Seq(Chars) /\ StringAt(arg, 2) = out /\ from[1] = out
         /\ \A k \in 1 .. Len(out) : out[k] \notin Special
<1> DEFINE i == n + 2
           w == Len(out)
<1>1. /\ i \in Nat /\ i + 2 <= MAX /\ MAX \in Nat /\ n = i - 2 /\ b \in Buffers
  BY LinesAssumption DEF Plain, Through
<1>2. /\ \A q \in Places0 : arg[q] = IF q < i THEN b[q] ELSE NUL
      /\ arg \in [Places0 -> Chars]
  <2>1. NUL \in Chars
    BY DEF Chars
  <2> QED BY <1>1, <2>1 DEF Copied, Buffers
<1>3. out \in Seq(Chars) /\ w \in Nat /\ p = n + 1 /\ w <= n
  <2>1. out \in Seq(Chars) /\ w \in Nat /\ p \in 1 .. n + 1 /\ w < p
    BY LenProperties DEF Through
  <2>2. (p = n + 1 /\ w <= i - 2) \/ w = i - 2 \/ w = i - 1
    BY DEF Through
  <2> HIDE DEF w
  <2>3. p = n + 1 /\ w <= n
    BY <1>1, <2>1, <2>2
  <2> QED BY <2>1, <2>3
<1>4. from[1] = out
  <2>1. from[n + 1] = <<>>
    BY DEF FromText
  <2>2. from[1] = out \o <<>>
    BY <1>3, <2>1 DEF Through
  <2> QED BY <1>3, <2>2, ConcatEmptySeq
<1>5. Held(b, out) /\ Rest(b, text, n + 1, w)
  BY <1>3 DEF Through
<1> HIDE DEF i, w
<1>6. arg[2 + w] = NUL
  <2> DEFINE q == 2 + w
  <2>1. q \in Places0 /\ q >= w + 2 /\ ~((n + 1) + (q - (w + 2)) <= n)
    BY <1>1, <1>3 DEF Places0
  <2> HIDE DEF q
  <2>2. b[q] = NUL
    BY <1>5, <2>1 DEF Rest
  <2>3. arg[q] = NUL
    BY <1>2, <2>1, <2>2
  <2> QED BY <2>3 DEF q
<1>7. ASSUME NEW k \in 1 .. w
      PROVE  out[k] # NUL /\ arg[2 + k - 1] = out[k] /\ out[k] \notin Special
  <2>1. 2 + k - 1 = k + 1 /\ k + 1 \in Places0 /\ k + 1 < i
    BY <1>1, <1>3 DEF Places0
  <2>2. b[k + 1] = out[k] /\ out[k] \notin Special
    BY <1>5 DEF Held, w
  <2> QED BY <1>2, <2>1, <2>2 DEF Special
<1>8. StringAt(arg, 2) = out
  <2>1. 2 \in Nat /\ 2 + w < MAX
    BY <1>1, <1>3
  <2> QED BY <1>2, <1>3, <1>6, <1>7, <2>1, StringHeld DEF w
<1> QED BY <1>3, <1>4, <1>7, <1>8 DEF w

\* What ReadEvalPrint calls a settled line, of the digits.
Readable(l, digits) ==
  \/ Len(digits) < 3
  \/ ~\E k \in 1 .. Len(l) - 1 : l[k] = "$" /\ l[k + 1] = "?"

LEMMA BufferTurns ==
  ASSUME NEW i \in Nat, i < MAX, NEW buffer \in Buffers, NEW num \in Nat
  PROVE  \E f : /\ Turns(f, buffer, IntToChar(num), i)
                /\ Substituted(buffer, i, num) = f[i]
BY SubstitutedTurns DEF Turns

\* The marks of the text are marks of the line.
LEMMA KeptText ==
  ASSUME NEW l, EchoLine(l), NEW digits, Readable(l, digits)
  PROVE  Kept(SubSeq(l, 3, Len(l)), digits)
<1> DEFINE i == Len(l)
           text == SubSeq(l, 3, i)
           n == i - 2
           Mark(m) == l[m] = "$" /\ l[m + 1] = "?"
<1>1. i \in Nat /\ i >= 2
  BY TypedLine DEF EchoLine
<1>2. Len(text) = n /\ \A k \in 1 .. n : text[k] = l[k + 2]
  BY EchoedText DEF EchoLine
<1> HIDE DEF i, text
<1>3. n \in Nat /\ n + 2 = i
  BY <1>1
<1> HIDE DEF n
<1>4. ASSUME NEW k \in 1 .. n, k < n, text[k] = "$", text[k + 1] = "?"
      PROVE  \E m \in 1 .. i - 1 : Mark(m)
  <2> DEFINE m == k + 2
             k2 == k + 1
  <2>1. k2 \in 1 .. n /\ m \in 1 .. i - 1 /\ k2 + 2 = m + 1
    BY <1>1, <1>3, <1>4
  <2> HIDE DEF k2
  <2>2. text[k2] = "?"
    BY <1>4 DEF k2
  <2>3. l[m] = "$" /\ l[k2 + 2] = "?"
    BY <1>2, <1>4, <2>1, <2>2
  <2> HIDE DEF m
  <2>4. Mark(m)
    BY <2>1, <2>3
  <2> QED BY <2>1, <2>4
<1>5. Len(digits) < 3 \/ ~\E m \in 1 .. i - 1 : Mark(m)
  BY DEF i, Readable
<1> HIDE DEF Mark
<1> QED BY <1>2, <1>4, <1>5 DEF Kept, text, i

\* What is printed behind the blank is the text with the marks replaced.
LEMMA EchoPrints ==
  ASSUME NEW l, EchoLine(l), NEW num \in Nat, NEW arg,
         arg = Copied(Substituted(Buffer(l), Len(l), num), Len(l)),
         Readable(l, IntToChar(num))
  PROVE  \E out \in Seq(Chars) :
           /\ StringAt(arg, 2) = out
           /\ ReadEvalPrint!Replaced(SubSeq(l, 3, Len(l)), Reverse(IntToChar(num))) = out
           /\ \A k \in 1 .. Len(out) : out[k] \notin Special
<1> DEFINE i == Len(l)
           text == SubSeq(l, 3, i)
           digits == IntToChar(num)
           d == Reverse(digits)
           buffer == Buffer(l)
<1>0. Kept(text, digits)
  BY KeptText
<1>1. i \in Nat /\ i < MAX /\ i >= 2
  <2>1. i \in Nat /\ i + 2 <= MAX /\ MAX \in Nat /\ i >= 2
    BY TypedLine DEF EchoLine
  <2> HIDE DEF i
  <2> QED BY <2>1
<1>2. Typing(buffer, text, i - 2)
  BY EchoTyping
<1>3. digits \in Seq(Digits) /\ Len(digits) >= 1 /\ d \in Seq(Chars)
  BY IntToCharDigits, ReverseChars
<1>4. arg = Copied(Substituted(buffer, i, num), i)
  OBVIOUS
<1> HIDE DEF i, text, buffer
<1>5. PICK f : Turns(f, buffer, digits, i) /\ Substituted(buffer, i, num) = f[i]
  BY <1>1, <1>2, BufferTurns DEF Typing
<1> HIDE DEF digits
<1> DEFINE n == i - 2
<1>6. n \in Nat /\ n + 2 = i
  BY <1>1
<1>7. Typing(buffer, text, n) /\ Plain(text) /\ Len(text) = n /\ text \in Seq(Chars)
  BY <1>2 DEF Typing, Plain
<1> HIDE DEF n
<1>8. PICK from : FromText(from, text, d) /\ ReadEvalPrint!Replaced(text, d) = from[1]
  <2> HIDE DEF d
  <2> QED BY <1>3, <1>7, ReplacedFrom
<1>9. PICK p, out : Through(f[i], i, text, from, p, out)
  <2>1. Turns(f, buffer, digits, n + 2) /\ FromText(from, text, Reverse(digits))
    BY <1>5, <1>6, <1>8
  <2>2. \E p, out : Through(f[n + 2], n + 2, text, from, p, out)
    BY <1>0, <1>3, <1>7, <2>1, ThroughAll
  <2> QED BY <1>6, <2>2
<1> HIDE DEF d
<1>10. Through(f[i], n + 2, text, from, p, out) /\ arg = Copied(f[i], n + 2)
  BY <1>4, <1>5, <1>6, <1>9
<1>11. /\ out \in Seq(Chars) /\ StringAt(arg, 2) = out /\ from[1] = out
       /\ \A k \in 1 .. Len(out) : out[k] \notin Special
  BY <1>6, <1>7, <1>8, <1>10, EchoCopied
<1> QED BY <1>8, <1>11 DEF text, d, digits, i

-----------------------------------------------------------------------------
(***************************************************************************)
(* Each line is answered as Repl says: the invariant that ties the line, the *)
(* command at work, its copy of the line and the code that join_thread returns, *)
(* and one lemma for each step of the shell and its commands.              *)
(***************************************************************************)
Work    == {"resume", "join", "store"}
Serving == {"create", "undefined"} \cup Work

\* The line that is served is one that was typed and is a command.
LineKept ==
  /\ step \in {"prompt", "read"} \cup Serving
  /\ code \in 0 .. ByteMod - 1
  /\ step \in Serving => line \in Lines /\ ReadEvalPrint!Known(line)

\* The command at work has the line, with the code, as it was typed.
TaskServes ==
  \A t \in Threads : task[t].at # "none" =>
    /\ task[t].at \in {"start", "type", "done"}
    /\ task[t].arg = Argument
    /\ task[t].at = "type" => ReadEvalPrint!Interactive(line)

\* The command that the shell joins is there, and join returns its code or 0.
Joinable == step \in {"resume", "join"} \/ pc[0] = "join" => state[tid] # "free"

ResultKept == step = "store" /\ pc[0] = "user" => result[0] \in {retval[tid], 0}

AnswerInv == LineKept /\ TaskServes /\ Joinable /\ ResultKept

Answers == AnswerInv' /\ [ReadEvalPrint!Next]_ReadEvalPrint!vars

LEMMA AnswerInit == ShellInit => AnswerInv /\ ReadEvalPrint!Init
<1> SUFFICES ASSUME ShellInit PROVE AnswerInv /\ ReadEvalPrint!Init
  OBVIOUS
<1>1. ByteMod \in Nat \ {0, 1}
  BY CodesAssumption
<1>2. /\ step = "prompt" /\ line = <<>> /\ code = 0 /\ shown = <<>>
      /\ \A t \in Threads : task[t].at = "none"
      /\ pc[0] = "boot"
  BY ThreadZero DEF ShellInit, NoTask, TrapInit, Init
<1>3. AnswerInv
  BY <1>1, <1>2 DEF AnswerInv, LineKept, TaskServes, Joinable, ResultKept, Serving, Work
<1>4. Phase = "prompt" /\ Reply = 0
  BY <1>2 DEF Phase, Reply
<1> QED BY <1>2, <1>3, <1>4 DEF ReadEvalPrint!Init, ReadEvalPrint!NoLine

LEMMA Unseen ==
  ASSUME UNCHANGED <<line, code, shown, tid, task, retval>>,
         step' = step \/ (step \in Work /\ step' \in Work)
  PROVE  UNCHANGED ReadEvalPrint!vars
<1>1. Busy' = Busy
  BY DEF Busy, Work
<1>2. Phase' = Phase
  BY <1>1 DEF Phase, Work
<1>3. Reply' = Reply
  BY DEF Reply, Work
<1> QED BY <1>2, <1>3 DEF ReadEvalPrint!vars

LEMMA ServesOn ==
  ASSUME AnswerInv, UNCHANGED <<line, code, tid, task>>,
         step' = step \/ (step \in Serving /\ step' \in Serving)
  PROVE  LineKept' /\ TaskServes'
<1>1. Argument' = Argument
  BY DEF Argument
<1>2. ReadEvalPrint!Interactive(line)' = ReadEvalPrint!Interactive(line)
  BY DEF ReadEvalPrint!Interactive
<1>3. ReadEvalPrint!Known(line)' = ReadEvalPrint!Known(line)
  BY DEF ReadEvalPrint!Known
<1> QED BY <1>1, <1>2, <1>3 DEF AnswerInv, LineKept, TaskServes

\* A step of others than the shell and its command.
LEMMA Passes ==
  ASSUME AnswerInv, UNCHANGED <<line, code, shown, tid, task, retval, step, result>>,
         pc'[0] = pc[0], state'[tid] = "free" => state[tid] = "free"
  PROVE  Answers
<1>1. LineKept' /\ TaskServes'
  BY ServesOn
<1>2. Joinable' /\ ResultKept'
  BY DEF AnswerInv, Joinable, ResultKept
<1> QED BY <1>1, <1>2, Unseen DEF Answers, AnswerInv

LEMMA ReschedFree ==
  ASSUME current \in Threads, NEW st \in [Threads -> States], NEW rd \in Seq(Threads), NEW m,
         Resched(st, rd, m)
  PROVE  \A t \in Threads : state'[t] = "free" => st[t] = "free" \/ state'[t] = state[t]
<1>1. rd # <<>> => Head(rd) \in Threads
  BY HeadTailProperties
<1>2. CASE rd # <<>> /\ ~Stays(st, rd) /\ Switch(st, rd, m)
  BY <1>1, <1>2 DEF Switch, Stays, OldState, States
<1>3. CASE \/ \E r : Stay(st, r, m)
           \/ \E why : Broken(why)
  BY <1>3 DEF Stay, Broken
<1> QED BY <1>2, <1>3 DEF Resched, Stays

LEMMA PromptAnswers ==
  ASSUME ShellWorkload, TrapInv, TaskInv, AnswerInv, Prompt
  PROVE  Answers
<1>1. /\ step = "prompt" /\ step' = "read" /\ line' = <<>> /\ shown' = <<>>
      /\ code' = code /\ tid' = tid /\ task' = task /\ pc' = pc /\ pc[0] = "user"
  BY DEF Prompt, InShell, vars, where
<1>2. \A t \in Threads : task[t].at = "none"
  BY <1>1 DEF TaskInv, OneCommand
<1>3. AnswerInv'
  BY <1>1, <1>2 DEF AnswerInv, LineKept, TaskServes, Joinable, ResultKept, Serving, Work
<1>4. Phase = "prompt" /\ Phase' = "read" /\ Reply' = 0
  BY <1>1 DEF Phase, Reply
<1>5. ReadEvalPrint!Prompt
  BY <1>1, <1>4 DEF ReadEvalPrint!Prompt, ReadEvalPrint!NoLine
<1> QED BY <1>3, <1>5 DEF Answers, ReadEvalPrint!Next

LEMMA TwoTexts ==
  ASSUME NEW S, NEW a \in S, NEW b \in S
  PROVE  /\ <<a, b>> \in Seq(S) /\ Len(<<a, b>>) = 2
         /\ \A i \in 1 .. 2 : <<a, b>>[i] \in {a, b}
<1>1. \A i \in 1 .. 2 : i = 1 \/ i = 2
  OBVIOUS
<1>2. <<a, b>> \in Seq(S) /\ Len(<<a, b>>) = 2
  OBVIOUS
<1> QED BY <1>1, <1>2

LEMMA TwoPrinted ==
  ASSUME NEW a, NEW b, a \notin Conversions, b \notin Conversions
  PROVE  Printed(<<a, b>>, <<>>) = <<a, b>>
<1> DEFINE text == <<a, b>>
           S == {a, b}
<1>1. text \in Seq(S) /\ Len(text) = 2 /\ \A i \in 1 .. 2 : text[i] \in {a, b}
  BY TwoTexts
<1>2. \A x \in {a, b} : x \notin Conversions
  OBVIOUS
<1> HIDE DEF text, S
<1>3. Printed(text, <<>>) = text
  BY <1>1, <1>2, PrintedPlain
<1> QED BY <1>3 DEF text

LEMMA OnePrinted ==
  ASSUME NEW a, a \notin Conversions
  PROVE  Printed(<<a>>, <<>>) = <<a>>
<1> DEFINE text == <<a>>
           S == {a}
<1>1. text \in Seq(S) /\ Len(text) = 1 /\ \A i \in 1 .. 1 : text[i] = a
  OBVIOUS
<1> HIDE DEF text, S
<1>3. Printed(text, <<>>) = text
  BY <1>1, PrintedPlain
<1> QED BY <1>3 DEF text

\* The messages hold no conversion.
LEMMA MessagesPrinted ==
  /\ Printed(<<"Unknown command", "\n">>, <<>>) = <<"Unknown command", "\n">>
  /\ Printed(<<"Error - bad argument", "\n">>, <<>>) = <<"Error - bad argument", "\n">>
  /\ Printed(<<"!", "\n">>, <<>>) = <<"!", "\n">>
  /\ Printed(<<"Hello,">>, <<>>) = <<"Hello,">>
  /\ Printed(<<"\n">>, <<>>) = <<"\n">>
<1>1. \A x \in {"Unknown command", "Error - bad argument", "!", "Hello,", "\n"} :
        x \notin Conversions
  BY DEF Conversions
<1>2. \A a, b \in {"Unknown command", "Error - bad argument", "!", "Hello,", "\n"} :
        /\ Printed(<<a, b>>, <<>>) = <<a, b>>
        /\ Printed(<<a>>, <<>>) = <<a>>
  BY <1>1, TwoPrinted, OnePrinted
<1> QED BY <1>2

LEMMA ReadAnswers ==
  ASSUME ShellWorkload, TrapInv, TaskInv, AnswerInv, NEW l \in Lines, ReadLine(l)
  PROVE  Answers
<1>1. /\ step = "read" /\ line' = l /\ code' = code /\ tid' = tid /\ task' = task
      /\ pc' = pc /\ pc[0] = "user"
      /\ IF Head(l) = "other"
           THEN step' = "prompt" /\ shown' = Printed(<<"Unknown command", "\n">>, <<>>)
           ELSE step' = "create" /\ shown' = shown
  BY DEF ReadLine, InShell, vars, where
<1>2. \A t \in Threads : task[t].at = "none"
  BY <1>1 DEF TaskInv, OneCommand
<1>3. ReadEvalPrint!Known(l) <=> Head(l) # "other"
  BY LinesAssumption DEF Words, ReadEvalPrint!Known
<1>4. AnswerInv'
  <2>1. LineKept'
    <3>1. code' \in 0 .. ByteMod - 1
      BY <1>1 DEF AnswerInv, LineKept
    <3>2. Head(l) # "other" => ReadEvalPrint!Known(line)'
      BY <1>1, <1>3 DEF ReadEvalPrint!Known
    <3>3. step' \in {"prompt", "create"} /\ (step' = "create" => Head(l) # "other")
      BY <1>1
    <3> QED BY <1>1, <3>1, <3>2, <3>3 DEF LineKept, Serving, Work
  <2>2. TaskServes' /\ Joinable' /\ ResultKept'
    BY <1>1, <1>2 DEF TaskServes, Joinable, ResultKept
  <2> QED BY <2>1, <2>2 DEF AnswerInv
<1>5. Printed(<<"Unknown command", "\n">>, <<>>) = <<"Unknown command", "\n">>
  BY MessagesPrinted
<1>6. /\ Phase = "read" /\ Reply = 0 /\ Reply' = 0
      /\ Phase' = IF Head(l) = "other" THEN "prompt" ELSE "busy"
  BY <1>1 DEF Phase, Reply, Busy
<1>7. ReadEvalPrint!Enter(l)
  BY <1>1, <1>3, <1>5, <1>6 DEF ReadEvalPrint!Enter
<1> QED BY <1>4, <1>7 DEF Answers, ReadEvalPrint!Next

LEMMA CreateAnswers ==
  ASSUME ShellWorkload, TrapInv, TaskInv, AnswerInv, CreateThread
  PROVE  Answers
<1>1. /\ InShell("create") /\ step = "create" /\ step' = "resume" /\ Quiet(Create)
      /\ line' = line /\ code' = code /\ shown' = shown
  BY DEF CreateThread, InShell
<1> USE InShellFacts
<1>2. PICK i \in Threads :
        /\ FirstFree(i) /\ tid' = i
        /\ task' = [task EXCEPT ![i] = [at |-> "start", arg |-> Argument, reply |-> 0]]
  BY DEF CreateThread
<1>3. PICK j \in Threads : /\ FirstFree(j) /\ state' = [state EXCEPT ![j] = "suspend"]
                           /\ pc' = [pc EXCEPT ![j] = "user"]
  BY <1>1 DEF Quiet, Create, NewThread
<1>4. i = j /\ state[i] = "free"
  BY <1>2, <1>3 DEF FirstFree, FreeSlots, Threads
<1>5. i # 0 /\ state'[i] # "free" /\ pc'[0] = "user"
  BY <1>1, <1>3, <1>4
<1>6. \A t \in Threads : task[t].at = "none"
  BY <1>1 DEF TaskInv, OneCommand
<1>7. /\ task'[i] = [at |-> "start", arg |-> Argument, reply |-> 0]
      /\ \A t \in Threads : t # i => task'[t].at = "none"
  BY <1>2, <1>6 DEF TaskInv, TaskTypes
<1>8. Argument' = Argument
  BY <1>1 DEF Argument
<1>9. AnswerInv'
  <2>1. LineKept'
    BY <1>1 DEF AnswerInv, LineKept, Serving, Work, ReadEvalPrint!Known
  <2>2. TaskServes'
    BY <1>7, <1>8 DEF TaskServes
  <2>3. Joinable' /\ ResultKept'
    BY <1>1, <1>2, <1>5 DEF Joinable, ResultKept
  <2> QED BY <2>1, <2>2, <2>3 DEF AnswerInv
<1>10. Phase = "busy" /\ Phase' = "busy"
  BY <1>1, <1>2, <1>7 DEF Phase, Busy
<1>11. Reply = 0 /\ Reply' = 0
  <2>1. 0 % ByteMod = 0
    BY CodesAssumption
  <2> QED BY <1>1, <1>2, <1>7, <2>1 DEF Reply
<1>12. UNCHANGED ReadEvalPrint!vars
  BY <1>1, <1>10, <1>11 DEF ReadEvalPrint!vars
<1> QED BY <1>9, <1>12 DEF Answers

\* The retval that a thread in its own code sees.
LEMMA OwnRetval ==
  ASSUME ShellWorkload, TrapInv, TaskInv, InOwnCode
  PROVE  retval \in [Threads -> RetVals] /\ tid \in Threads /\ retval[tid] \in 0 .. ByteMod - 1
<1>1. retval \in [Threads -> RetVals] /\ tid \in Threads
  BY OwnFacts, SeenFacts DEF TaskInv, TaskTypes
<1> QED BY <1>1, CodesAssumption

LEMMA StoreAnswers ==
  ASSUME ShellWorkload, TrapInv, TaskInv, AnswerInv, Store
  PROVE  Answers
<1>1. /\ InOwnCode /\ step = "store" /\ pc[0] = "user" /\ step' = "prompt"
      /\ code' = result[0] % ByteMod
      /\ line' = line /\ tid' = tid /\ task' = task /\ shown' = shown /\ pc' = pc
  BY DEF Store, InShell, vars, where
<1>2. (\A t \in Threads : task[t].at = "none") /\ tid \in Threads
  BY <1>1 DEF TaskInv, OneCommand, TaskTypes
<1>3. code' \in {retval[tid], 0} /\ code' \in 0 .. ByteMod - 1
  <2> DEFINE v == retval[tid]
  <2>1. v \in 0 .. ByteMod - 1 /\ result[0] \in {v, 0} /\ ByteMod \in Nat /\ ByteMod >= 2
    BY <1>1, OwnRetval, CodesAssumption DEF AnswerInv, ResultKept
  <2> HIDE DEF v
  <2>2. v % ByteMod = v /\ 0 % ByteMod = 0
    BY <2>1
  <2>3. code' \in {v, 0} /\ code' \in 0 .. ByteMod - 1
    BY <1>1, <2>1, <2>2
  <2> QED BY <2>3 DEF v
<1>4. AnswerInv'
  BY <1>1, <1>2, <1>3 DEF AnswerInv, LineKept, TaskServes, Joinable, ResultKept, Serving, Work
<1>5. Phase = "answered" /\ Phase' = "prompt"
  BY <1>1, <1>2 DEF Phase, Busy
<1>6. Reply = retval[tid] /\ Reply' = 0
  BY <1>1, <1>2 DEF Reply
<1>7. ReadEvalPrint!Finish
  BY <1>1, <1>3, <1>5, <1>6 DEF ReadEvalPrint!Finish
<1> QED BY <1>4, <1>7 DEF Answers, ReadEvalPrint!Next

LEMMA CreateFailsAnswers ==
  ASSUME ShellWorkload, TrapInv, TaskInv, AnswerInv, CreateFails
  PROVE  Answers
<1>1. /\ step = "create" /\ step' = "undefined" /\ pc[0] = "user"
      /\ line' = line /\ code' = code /\ tid' = tid /\ task' = task /\ shown' = shown
      /\ pc' = pc
  <2>1. /\ InShell("create") /\ step' = "undefined" /\ Quiet(CreateRefused)
        /\ line' = line /\ code' = code /\ tid' = tid /\ task' = task /\ shown' = shown
    BY Zenon DEF CreateFails
  <2>2. pc' = pc
    BY <2>1, Zenon DEF Quiet, CreateRefused, where
  <2> QED BY <2>1, <2>2, Zenon DEF InShell
<1>2. LineKept' /\ TaskServes'
  BY <1>1, ServesOn DEF Serving
<1>3. Joinable' /\ ResultKept'
  BY <1>1 DEF Joinable, ResultKept
<1>4. Phase = "busy" /\ Phase' = "busy" /\ Reply = 0 /\ Reply' = 0
  BY <1>1 DEF Phase, Busy, Reply
<1>5. UNCHANGED ReadEvalPrint!vars
  BY <1>1, <1>4 DEF ReadEvalPrint!vars
<1> QED BY <1>2, <1>3, <1>5 DEF Answers, AnswerInv

LEMMA ResumeAnswers ==
  ASSUME ShellWorkload, TrapInv, TaskInv, AnswerInv, ResumeThread
  PROVE  Answers
<1>0. Raising(Resume(tid))
  BY Zenon DEF ResumeThread
<1>1. /\ InShell("resume") /\ step = "resume" /\ step' = "join"
      /\ line' = line /\ code' = code /\ tid' = tid /\ task' = task /\ shown' = shown
  BY Zenon DEF ResumeThread, InShell
<1>2. /\ pc' = pc /\ retval' = retval /\ state[tid] = "suspend"
      /\ \/ \E why : Broken(why)
         \/ Resched([state EXCEPT ![tid] = "ready"], Enter(ready, tid), sie)
  BY <1>0, Zenon DEF Raising, Resume, where
<1>3. tid \in Threads /\ pc[0] = "user"
  BY <1>1, InShellFacts DEF TaskInv, TaskTypes
<1>4. state'[tid] # "free"
  <2>1. CASE \E why : Broken(why)
    BY <1>2, <2>1 DEF Broken
  <2>2. CASE Resched([state EXCEPT ![tid] = "ready"], Enter(ready, tid), sie)
    <3> DEFINE st == [state EXCEPT ![tid] = "ready"]
    <3>1. st \in [Threads -> States] /\ Enter(ready, tid) \in Seq(Threads)
      BY <1>1, <1>3, InShellFacts, SeenFacts, AppendProperties DEF Enter, States
    <3>2. st[tid] = "ready"
      BY <1>1, <1>3, InShellFacts
    <3>3. Resched(st, Enter(ready, tid), sie)
      BY <2>2
    <3> HIDE DEF st
    <3>4. \A t \in Threads : state'[t] = "free" => st[t] = "free" \/ state'[t] = state[t]
      BY <3>1, <3>3, SeenFacts, ReschedFree
    <3> QED BY <1>2, <1>3, <3>2, <3>4
  <2> QED BY <1>2, <2>1, <2>2
<1>5. LineKept' /\ TaskServes'
  BY <1>1, ServesOn DEF Serving, Work
<1>6. Joinable' /\ ResultKept'
  BY <1>1, <1>4 DEF Joinable, ResultKept
<1>7. UNCHANGED ReadEvalPrint!vars
  BY <1>1, <1>2, Unseen DEF Work
<1> QED BY <1>5, <1>6, <1>7 DEF Answers, AnswerInv

LEMMA JoinAnswers ==
  ASSUME ShellWorkload, TrapInv, TaskInv, AnswerInv, JoinThread
  PROVE  Answers
<1>0. Quiet(Join(tid) \/ JoinBegin(tid))
  BY Zenon DEF JoinThread
<1>1. /\ InShell("join") /\ step = "join" /\ step' = "store"
      /\ line' = line /\ code' = code /\ tid' = tid /\ task' = task /\ shown' = shown
  BY Zenon DEF JoinThread, InShell
<1>2. /\ tid \in Threads /\ current = 0 /\ pc[0] = "user" /\ 0 \in Threads
      /\ pc \in [Threads -> {"boot", "created", "user", "join"}]
  BY <1>1, InShellFacts DEF TaskInv, TaskTypes
<1>3. LineKept' /\ TaskServes'
  BY <1>1, ServesOn DEF Serving, Work
<1>4. CASE Join(tid)
  <2>1. /\ retval' = retval /\ pc' = pc /\ result' = [result EXCEPT ![0] = retval[tid]]
    BY <1>2, <1>4 DEF Join, Returned
  <2>2. result'[0] = retval'[tid']
    <3>1. result \in [Threads -> RetVals \cup {-1}]
      BY DEF TrapInv, Abs!AnyInv, Abs!TypeOK, Threads, Abs!Threads
    <3> QED BY <1>1, <1>2, <2>1, <3>1
  <2>3. Joinable' /\ ResultKept'
    BY <1>1, <1>2, <2>1, <2>2 DEF Joinable, ResultKept
  <2> QED BY <1>1, <1>3, <2>1, <2>3, Unseen DEF Answers, AnswerInv, Work
<1>5. CASE JoinBegin(tid)
  <2>1. state' = state /\ retval' = retval /\ pc' = [pc EXCEPT ![0] = "join"]
    BY <1>2, <1>5, Zenon DEF JoinBegin, table
  <2>2. pc'[0] = "join" /\ state'[tid'] # "free"
    BY <1>1, <1>2, <2>1 DEF AnswerInv, Joinable
  <2>3. Joinable' /\ ResultKept'
    BY <2>2 DEF Joinable, ResultKept
  <2> QED BY <1>1, <1>3, <2>1, <2>3, Unseen DEF Answers, AnswerInv, Work
<1> QED BY <1>0, <1>4, <1>5, Zenon DEF Quiet

LEMMA JoinGoesOnAnswers ==
  ASSUME ShellWorkload, TrapInv, TaskInv, AnswerInv, JoinGoesOn
  PROVE  Answers
<1> USE SeenFacts, TableTypes
<1>1. /\ current = 0
      /\ Raising(JoinWaits) \/ Quiet(JoinEnds \/ JoinFails)
      /\ UNCHANGED <<step, line, code, tid, task, shown>>
  BY DEF JoinGoesOn, shell
<1>2. tid \in Threads
  BY DEF TaskInv, TaskTypes
<1>3. CASE JoinWaits
  <2>1. Resched(state, ready, mask[current]) /\ UNCHANGED <<pc, retval, result>>
    BY <1>3 DEF JoinWaits, where
  <2>2. state'[tid] = "free" => state[tid] = "free"
    BY <1>2, <2>1, ReschedFree
  <2> QED BY <1>1, <2>1, <2>2, Passes
<1>4. CASE JoinEnds \/ JoinFails
  <2>1. /\ pc[0] = "join" /\ state' = state /\ retval' = retval
        /\ pc' = [pc EXCEPT ![0] = "user"]
        /\ \/ result' = [result EXCEPT ![0] = 0]
           \/ state[target[0]] = "free"
    BY <1>1, <1>4 DEF JoinEnds, JoinFails, InJoin, table
  <2>2. target[0] = tid /\ step = "store" /\ state[tid] # "free"
    BY <2>1 DEF TaskInv, OneCommand, AnswerInv, Joinable
  <2>3. result'[0] = 0
    <3>1. result \in [Threads -> RetVals \cup {-1}]
      BY DEF TrapInv, Abs!AnyInv, Abs!TypeOK, Threads, Abs!Threads
    <3> QED BY <2>1, <2>2, <3>1
  <2>4. Joinable' /\ ResultKept'
    BY <1>1, <2>1, <2>2, <2>3 DEF Joinable, ResultKept
  <2>5. LineKept' /\ TaskServes'
    BY <1>1, ServesOn
  <2>6. UNCHANGED ReadEvalPrint!vars
    BY <1>1, <2>1, Unseen
  <2> QED BY <2>4, <2>5, <2>6 DEF Answers, AnswerInv
<1> QED BY <1>1, <1>3, <1>4 DEF Raising, Quiet

LEMMA EndTaskAnswers ==
  ASSUME ShellWorkload, TrapInv, TaskInv, AnswerInv, EndTask
  PROVE  Answers
<1> USE SeenFacts
<1>1. /\ current # 0 /\ task[current].at = "done"
      /\ UNCHANGED <<step, line, code, tid, shown>>
      /\ task' = [task EXCEPT ![current] = NoTask]
      /\ Killing(Ends(task[current].reply))
  BY DEF EndTask, InTask
<1>2. /\ current = tid /\ step \in Work /\ tid \in Threads
      /\ task[tid].reply \in RetVals
  BY <1>1 DEF TaskInv, TaskTypes, OneCommand, Work
<1>3. /\ InOwnCode /\ pc' = pc /\ state' = Reaped(tid)
      /\ retval' = [retval EXCEPT ![tid] = task[tid].reply]
  BY <1>1, <1>2, Zenon DEF Killing, Ends, Doomed, where
<1>4. retval'[tid] = task[tid].reply /\ state'[tid] = "defunct"
  BY <1>2, <1>3, OwnRetval DEF Reaped
<1>5. /\ task'[tid] = NoTask
      /\ \A t \in Threads : t # tid => task'[t] = task[t]
  BY <1>1, <1>2 DEF TaskInv, TaskTypes
<1>6. LineKept'
  BY <1>1, <1>2 DEF AnswerInv, LineKept, ReadEvalPrint!Known
<1>7. TaskServes'
  <2>1. Argument' = Argument
    BY <1>1 DEF Argument
  <2>2. ReadEvalPrint!Interactive(line)' = ReadEvalPrint!Interactive(line)
    BY <1>1 DEF ReadEvalPrint!Interactive
  <2> QED BY <1>5, <2>1, <2>2 DEF AnswerInv, TaskServes, NoTask
<1>8. Joinable'
  BY <1>1, <1>4 DEF Joinable
<1>9. ResultKept'
  <2>1. ~(step = "store" /\ pc[0] = "user")
    BY <1>1, <1>2 DEF TaskInv, OneCommand
  <2> QED BY <1>1, <1>3, <2>1 DEF ResultKept
<1>10. Phase' = Phase
  BY <1>1, <1>2, <1>5 DEF Phase, Busy, NoTask, Work
<1>11. Reply' = Reply
  <2> DEFINE r == task[tid].reply
  <2>1. r % ByteMod = r
    <3>1. r \in 0 .. ByteMod - 1 /\ ByteMod \in Nat /\ ByteMod >= 2
      BY <1>2, CodesAssumption
    <3> HIDE DEF r
    <3> QED BY <3>1
  <2> QED BY <1>1, <1>2, <1>4, <1>5, <2>1 DEF Reply, NoTask, Work
<1>12. UNCHANGED ReadEvalPrint!vars
  BY <1>1, <1>10, <1>11 DEF ReadEvalPrint!vars
<1> QED BY <1>6, <1>7, <1>8, <1>9, <1>12 DEF Answers, AnswerInv

LEMMA OthersAnswer ==
  ASSUME ShellWorkload, TrapInv, TaskInv, AnswerInv,
         UNCHANGED allVars \/ (KillGoesOn /\ UNCHANGED shell) \/ System
  PROVE  Answers
<1> USE SeenFacts, TableTypes
<1>1. UNCHANGED <<line, code, shown, tid, task, step>>
  BY DEF System, shell, allVars
<1>2. tid \in Threads
  BY DEF TaskInv, TaskTypes
<1>3. CASE UNCHANGED allVars
  <2>1. UNCHANGED <<retval, result, state, pc>>
    BY <1>3 DEF allVars, vars, table, where
  <2> QED BY <1>1, <2>1, Passes
<1>4. CASE KillGoesOn
  <2>1. CASE SignalSet
    <3>1. UNCHANGED <<retval, result, state, pc>>
      BY <2>1 DEF SignalSet, vars, table, where
    <3> QED BY <1>1, <3>1, Passes
  <2>2. CASE Ecall
    <3>1. signal = RESCHED
      BY <2>2 DEF Ecall, TrapInv, SignalIntact
    <3>2. Resched(state, ready, sie) /\ UNCHANGED <<pc, retval, result>>
      BY <2>2, <3>1 DEF Ecall, where
    <3>3. state'[tid] = "free" => state[tid] = "free"
      BY <1>2, <3>2, ReschedFree
    <3> QED BY <1>1, <3>2, <3>3, Passes
  <2>3. CASE SignalReset
    <3>1. place[current] = "back"
      BY <2>3, Zenon DEF SignalReset, At
    <3> QED BY <3>1 DEF TrapInv, TrapPlaces
  <2> QED BY <1>4, <2>1, <2>2, <2>3 DEF KillGoesOn
<1>5. CASE Quiet(Boot)
  <2>1. /\ current = 0 /\ pc[0] \in {"boot", "created"} /\ retval' = retval
        /\ pc' = [pc EXCEPT ![0] = IF pc[0] = "boot" THEN "created" ELSE "user"]
    BY <1>5 DEF Quiet, Boot, BootCreate, BootRun, InOwnCode
  <2>2. step = "prompt" /\ pc'[0] \in {"created", "user"}
    BY <2>1 DEF TaskInv, OneCommand
  <2>3. Joinable' /\ ResultKept'
    BY <1>1, <2>2 DEF Joinable, ResultKept
  <2>4. LineKept' /\ TaskServes'
    BY <1>1, ServesOn
  <2>5. UNCHANGED ReadEvalPrint!vars
    BY <1>1, <2>1, Unseen
  <2> QED BY <2>3, <2>4, <2>5 DEF Answers, AnswerInv
<1>6. CASE TimerSwitch
  <2>1. UNCHANGED <<pc, retval, result>> /\ (Broken("clock") \/ Resched(state, ready, sie))
    BY <1>6 DEF TimerSwitch, Tick, where
  <2>2. state'[tid] = "free" => state[tid] = "free"
    BY <1>2, <2>1, ReschedFree DEF Broken
  <2> QED BY <1>1, <2>1, <2>2, Passes
<1> QED BY <1>3, <1>4, <1>5, <1>6 DEF System

\* What a command finds in its copy of the line.
LEMMA HelloArgument ==
  ASSUME NEW l \in Lines, Head(l) = "hello", NEW arg, arg = Copied(Buffer(l), Len(l))
  PROVE  /\ arg[0] = "hello" /\ (NoName(arg) <=> Len(l) < 3)
         /\ ~NoName(arg) => /\ Printed(StringAt(arg, 1), <<>>) = Tail(l)
                            /\ Len(l) >= 3
<1>1. /\ arg[0] = "hello" /\ (NoName(arg) <=> Len(l) < 3)
      /\ Len(l) >= 3 => StringAt(arg, 1) = Tail(l)
  BY HelloCopy
<1>2. ASSUME Len(l) >= 3 PROVE Printed(Tail(l), <<>>) = Tail(l)
  <2> DEFINE s == Tail(l)
  <2>1. /\ s \in Seq(Chars) /\ Len(s) = Len(l) - 1 /\ Len(l) \in Nat
        /\ \A i \in 1 .. Len(s) : s[i] = l[i + 1]
    BY <1>2, TypedLine, EmptySeq, HeadTailProperties
  <2>2. \A i \in 2 .. Len(l) : l[i] \notin Conversions
    BY TypedLine DEF Conversions
  <2> HIDE DEF s
  <2>3. \A i \in 1 .. Len(s) : s[i] \notin Conversions
    BY <2>1, <2>2
  <2>4. Printed(s, <<>>) = s
    BY <2>1, <2>3, PrintedPlain
  <2> QED BY <2>4 DEF s
<1>3. Len(l) \in Nat
  BY TypedLine
<1>4. ~NoName(arg) => Len(l) >= 3
  <2> DEFINE n == Len(l)
  <2>1. n \in Nat /\ (NoName(arg) <=> n < 3)
    BY <1>1, <1>3
  <2> HIDE DEF n
  <2>2. n < 3 \/ n >= 3
    BY <2>1
  <2> QED BY <2>1, <2>2 DEF n
<1>5. Len(l) >= 3 => Printed(StringAt(arg, 1), <<>>) = Tail(l)
  BY <1>1, <1>2, Zenon
<1> QED BY <1>1, <1>4, <1>5, Zenon

LEMMA EchoArgument ==
  ASSUME NEW l, EchoLine(l), NEW num \in Nat, NEW arg,
         arg = Copied(Substituted(Buffer(l), Len(l), num), Len(l)),
         Readable(l, IntToChar(num))
  PROVE  Printed(StringAt(arg, 2), <<>>)
           = ReadEvalPrint!Replaced(SubSeq(l, 3, Len(l)), Reverse(IntToChar(num)))
<1>1. PICK out \in Seq(Chars) :
        /\ StringAt(arg, 2) = out
        /\ ReadEvalPrint!Replaced(SubSeq(l, 3, Len(l)), Reverse(IntToChar(num))) = out
        /\ \A k \in 1 .. Len(out) : out[k] \notin Special
  BY EchoPrints
<1>2. Printed(out, <<>>) = out
  BY <1>1, PrintedPlain DEF Special
<1> QED BY <1>1, <1>2

LEMMA ReverseLen ==
  ASSUME NEW digits \in Seq(Digits)
  PROVE  Len(Reverse(digits)) = Len(digits)
<1> DEFINE n == Len(digits)
           f == [k \in 1 .. n |-> digits[(n - k) + 1]]
<1>1. n \in Nat /\ DOMAIN f = 1 .. n
  BY LenProperties
<1>2. f \in Seq({digits[(n - k) + 1] : k \in 1 .. n})
  BY <1>1
<1>3. Len(f) = n
  BY <1>1, <1>2, LenProperties
<1> QED BY <1>3 DEF Reverse

LEMMA SettledReadable ==
  ASSUME NEW l \in Lines, Head(l) = "echo", code \in Nat, ReadEvalPrint!Settled(l)
  PROVE  Readable(l, IntToChar(code))
<1> DEFINE digits == IntToChar(code)
<1>1. digits \in Seq(Digits)
  BY IntToCharDigits
<1>2. Len(Reverse(digits)) = Len(digits)
  BY <1>1, ReverseLen
<1>3. Len(Reverse(digits)) < 3 \/ ~\E k \in 1 .. Len(l) - 1 : l[k] = "$" /\ l[k + 1] = "?"
  BY DEF ReadEvalPrint!Settled
<1> QED BY <1>2, <1>3 DEF Readable

-----------------------------------------------------------------------------
\* A step of the command that is at work.
LEMMA Works ==
  ASSUME ShellWorkload, TrapInv, TaskInv, AnswerInv, NEW p \in {"type", "done"}, NEW r \in Nat,
         TaskGoes(p, r), task[current].at \in {"start", "type"},
         p = "type" => ReadEvalPrint!Interactive(line),
         UNCHANGED <<vars, trap, step, line, code, tid>>
  PROVE  /\ AnswerInv'
         /\ Phase = "busy" /\ Phase' = IF p = "done" THEN "answered" ELSE "busy"
         /\ Reply = task[current].reply % ByteMod /\ Reply' = r % ByteMod
<1> USE SeenFacts
<1>1. current = tid /\ step \in Work /\ tid \in Threads
  BY DEF TaskInv, TaskTypes, OneCommand, Work
<1>2. /\ task'[tid] = [at |-> p, arg |-> task[tid].arg, reply |-> r]
      /\ \A t \in Threads : t # tid => task'[t] = task[t]
  BY <1>1 DEF TaskInv, TaskTypes, TaskGoes
<1>3. UNCHANGED <<pc, state, retval, result, step, line, code, tid>>
  BY DEF vars, table, where
<1>4. LineKept'
  BY <1>3 DEF AnswerInv, LineKept, ReadEvalPrint!Known
<1>5. TaskServes'
  <2>1. Argument' = Argument
    BY <1>3 DEF Argument
  <2>2. ReadEvalPrint!Interactive(line)' = ReadEvalPrint!Interactive(line)
    BY <1>3 DEF ReadEvalPrint!Interactive
  <2>3. task[tid].arg = Argument
    BY <1>1 DEF AnswerInv, TaskServes
  <2>4. ASSUME NEW t \in Threads, task'[t].at # "none"
        PROVE  /\ task'[t].at \in {"start", "type", "done"} /\ task'[t].arg = Argument
               /\ task'[t].at = "type" => ReadEvalPrint!Interactive(line)
    BY <1>1, <1>2, <2>3, <2>4 DEF AnswerInv, TaskServes
  <2> QED BY <2>1, <2>2, <2>4 DEF TaskServes
<1>6. Joinable' /\ ResultKept'
  BY <1>3 DEF AnswerInv, Joinable, ResultKept
<1>7. Phase = "busy" /\ Phase' = IF p = "done" THEN "answered" ELSE "busy"
  BY <1>1, <1>2, <1>3 DEF Phase, Busy, Work
<1>8. Reply = task[current].reply % ByteMod /\ Reply' = r % ByteMod
  BY <1>1, <1>2, <1>3 DEF Reply, Work
<1> QED BY <1>4, <1>5, <1>6, <1>7, <1>8 DEF AnswerInv

LEMMA Served ==
  ASSUME ShellWorkload, TrapInv, TaskInv, AnswerInv, task[current].at # "none"
  PROVE  /\ line \in Lines /\ Head(line) \in {"hello", "echo"} /\ code \in Nat
         /\ task[current].arg = Argument /\ task[current].reply \in Nat
         /\ task[current].at = "type" => ReadEvalPrint!Interactive(line)
<1>1. current \in Threads
  BY SeenFacts
<1>2. step \in Serving
  BY <1>1 DEF TaskInv, OneCommand, Serving, Work
<1>3. code \in Nat
  BY CodesAssumption DEF AnswerInv, LineKept
<1>4. line \in Lines /\ ReadEvalPrint!Known(line)
  BY <1>2 DEF AnswerInv, LineKept
<1>5. task[current].reply \in Nat
  BY <1>1 DEF TaskInv, TaskTypes
<1> QED BY <1>1, <1>3, <1>4, <1>5 DEF AnswerInv, TaskServes, ReadEvalPrint!Known

LEMMA SmallReplies == 0 % ByteMod = 0 /\ 1 % ByteMod = 1 /\ \A r \in Nat : (r % ByteMod) % ByteMod = r % ByteMod
<1>1. ByteMod \in Nat /\ ByteMod >= 2
  BY CodesAssumption
<1>2. \A r \in Nat : r % ByteMod \in 0 .. ByteMod - 1
  BY <1>1
<1>3. \A q \in 0 .. ByteMod - 1 : q % ByteMod = q
  BY <1>1
<1>4. 0 % ByteMod = 0 /\ 1 % ByteMod = 1
  BY <1>1
<1> QED BY <1>2, <1>3, <1>4

\* Which word arg begins with is the command of the line.
LEMMA WordKept ==
  ASSUME NEW l \in Lines, Head(l) \in {"hello", "echo"}, NEW num \in Nat, NEW arg,
         arg = Copied(IF Head(l) = "echo" THEN Substituted(Buffer(l), Len(l), num)
                                          ELSE Buffer(l), Len(l))
  PROVE  arg[0] = Head(l)
<1>1. CASE Head(l) = "echo"
  BY <1>1, EchoCopy
<1>2. CASE Head(l) = "hello"
  BY <1>2, HelloCopy
<1> QED BY <1>1, <1>2

\* How the command ends, or goes on.
LEMMA RepliesEnd ==
  ASSUME TaskTypes, current \in Threads
  PROVE  \A r : Replies(r) => TaskGoes("done", r)
BY DEF Replies, TaskGoes, TaskTypes, Shape

LEMMA RepliesGoes ==
  ASSUME ShellWorkload, TrapInv, TaskInv, NEW r, Replies(r)
  PROVE  TaskGoes("done", r)
<1>1. current \in Threads /\ TaskTypes
  BY SeenFacts DEF TaskInv
<1> QED BY <1>1, RepliesEnd

LEMMA HelloAnswers ==
  ASSUME ShellWorkload, TrapInv, TaskInv, AnswerInv, Hello
  PROVE  Answers
<1> DEFINE arg == task[current].arg
<1>1. /\ task[current].at = "start" /\ arg[0] = "hello"
      /\ UNCHANGED <<vars, trap, step, line, code, tid>>
  BY Zenon DEF Hello, InTask
<1>2. \/ /\ NoName(arg) /\ Replies(1)
         /\ shown' = Printed(<<"Error - bad argument", "\n">>, <<>>)
      \/ /\ ~NoName(arg) /\ Replies(0)
         /\ shown' = Printed(<<"Hello,">>, <<>>) \o Printed(StringAt(arg, 1), <<>>)
                       \o Printed(<<"!", "\n">>, <<>>)
  BY Zenon DEF Hello
<1>3. task[current].at # "none" /\ task[current].at \in {"start", "type"}
  BY <1>1
<1>4. /\ line \in Lines /\ Head(line) \in {"hello", "echo"} /\ code \in Nat
      /\ arg = Argument
  BY <1>3, Served
<1>5. arg = Copied(IF Head(line) = "echo" THEN Substituted(Buffer(line), Len(line), code)
                                          ELSE Buffer(line), Len(line))
  BY <1>4 DEF Argument
<1> HIDE DEF arg
<1>6. Head(line) = "hello"
  BY <1>1, <1>4, <1>5, WordKept
<1>7. arg = Copied(Buffer(line), Len(line))
  BY <1>5, <1>6
<1>8. /\ NoName(arg) <=> Len(line) < 3
      /\ ~NoName(arg) => Printed(StringAt(arg, 1), <<>>) = Tail(line)
  BY <1>4, <1>6, <1>7, HelloArgument
<1>9. ~ReadEvalPrint!Interactive(line)
  BY <1>6 DEF ReadEvalPrint!Interactive
<1>10. ASSUME NEW r \in {0, 1}, Replies(r)
       PROVE  AnswerInv' /\ Phase = "busy" /\ Phase' = "answered" /\ Reply' = r
  <2>1. TaskGoes("done", r) /\ r \in Nat /\ r % ByteMod = r
    BY <1>10, RepliesGoes, SmallReplies
  <2>2. "done" \in {"type", "done"} /\ ("done" = "type" => ReadEvalPrint!Interactive(line))
    OBVIOUS
  <2> QED BY <1>1, <1>3, <2>1, <2>2, Works
<1>11. UNCHANGED <<line, code>>
  BY <1>1
<1>12. CASE NoName(arg)
  <2>1. Replies(1) /\ shown' = <<"Error - bad argument", "\n">> /\ Len(line) < 3
    BY <1>2, <1>8, <1>12, MessagesPrinted, Zenon
  <2>2. shown' = ReadEvalPrint!Answer(line)
    BY <1>6, <2>1 DEF ReadEvalPrint!Answer
  <2>3. AnswerInv' /\ Phase = "busy" /\ Phase' = "answered" /\ Reply' = 1
    BY <1>10, <2>1
  <2>4. ReadEvalPrint!Respond
    BY <1>6, <1>9, <1>11, <2>1, <2>2, <2>3 DEF ReadEvalPrint!Respond
  <2> QED BY <2>3, <2>4 DEF Answers, ReadEvalPrint!Next
<1>13. CASE ~NoName(arg)
  <2>1. Replies(0) /\ ~(Len(line) < 3)
    BY <1>2, <1>8, <1>13, Zenon
  <2>2. shown' = <<"Hello,">> \o Tail(line) \o <<"!", "\n">>
    BY <1>2, <1>8, <1>13, MessagesPrinted, Zenon
  <2>3. shown' = ReadEvalPrint!Answer(line)
    BY <1>6, <2>1, <2>2 DEF ReadEvalPrint!Answer
  <2>4. AnswerInv' /\ Phase = "busy" /\ Phase' = "answered" /\ Reply' = 0
    BY <1>10, <2>1
  <2>5. ReadEvalPrint!Respond
    BY <1>6, <1>9, <1>11, <2>1, <2>3, <2>4 DEF ReadEvalPrint!Respond
  <2> QED BY <2>4, <2>5 DEF Answers, ReadEvalPrint!Next
<1> QED BY <1>12, <1>13

LEMMA EchoAnswers ==
  ASSUME ShellWorkload, TrapInv, TaskInv, AnswerInv, Echo
  PROVE  Answers
<1> DEFINE arg == task[current].arg
<1>1. /\ task[current].at = "start" /\ arg[0] = "echo"
      /\ UNCHANGED <<vars, trap, step, line, code, tid>>
  BY Zenon DEF Echo, InTask
<1>2. \/ /\ arg[1] = " " /\ Replies(0)
         /\ shown' = Printed(StringAt(arg, 2), <<>>) \o Printed(<<"\n">>, <<>>)
      \/ /\ arg[1] # " " /\ shown' = shown
         /\ task' = [task EXCEPT ![current].at = "type"]
  BY Zenon DEF Echo
<1>3. /\ task[current].at # "none" /\ task[current].at \in {"start", "type"}
      /\ current \in Threads
  BY <1>1, SeenFacts
<1>4. /\ line \in Lines /\ Head(line) \in {"hello", "echo"} /\ code \in Nat
      /\ arg = Argument /\ task[current].reply \in Nat
  BY <1>3, Served
<1>5. arg = Copied(IF Head(line) = "echo" THEN Substituted(Buffer(line), Len(line), code)
                                          ELSE Buffer(line), Len(line))
  BY <1>4 DEF Argument
<1>6. arg[1] # " " /\ task' = [task EXCEPT ![current].at = "type"]
        => TaskGoes("type", task[current].reply)
  BY <1>3 DEF TaskInv, TaskTypes, TaskGoes, Shape
<1> HIDE DEF arg
<1>7. Head(line) = "echo"
  BY <1>1, <1>4, <1>5, WordKept
<1>8. arg = Copied(Substituted(Buffer(line), Len(line), code), Len(line))
  BY <1>5, <1>7
<1>9. arg[1] = " " <=> ~ReadEvalPrint!Interactive(line)
  <2>1. arg[1] = " " <=> ~(Len(line) = 1 \/ line[2] # " ")
    BY <1>4, <1>7, <1>8, EchoCopy
  <2> QED BY <1>7, <2>1 DEF ReadEvalPrint!Interactive
<1>10. UNCHANGED <<line, code>>
  BY <1>1
<1>11. CASE arg[1] = " "
  <2>1. Replies(0) /\ shown' = Printed(StringAt(arg, 2), <<>>) \o <<"\n">>
    BY <1>2, <1>11, MessagesPrinted, Zenon
  <2>2. ASSUME ReadEvalPrint!Settled(line)
        PROVE  shown' = ReadEvalPrint!Answer(line)
    <3>1. Readable(line, IntToChar(code))
      BY <1>4, <1>7, <2>2, SettledReadable
    <3>2. EchoLine(line)
      <4>1. ~(Len(line) = 1 \/ line[2] # " ")
        BY <1>7, <1>9, <1>11 DEF ReadEvalPrint!Interactive
      <4>2. Len(line) \in Nat /\ Len(line) >= 1
        BY <1>4, TypedLine
      <4>3. Len(line) >= 2
        <5> DEFINE m == Len(line)
        <5>1. m \in Nat /\ m >= 1 /\ m # 1
          BY <4>1, <4>2
        <5> HIDE DEF m
        <5>2. m >= 2
          BY <5>1
        <5> QED BY <5>2 DEF m
      <4> QED BY <1>4, <1>7, <4>1, <4>3, Zenon DEF EchoLine
    <3>3. Printed(StringAt(arg, 2), <<>>)
            = ReadEvalPrint!Replaced(SubSeq(line, 3, Len(line)), Reverse(IntToChar(code)))
      BY <1>4, <1>8, <3>1, <3>2, EchoArgument
    <3> QED BY <1>7, <2>1, <3>3 DEF ReadEvalPrint!Answer
  <2>3. AnswerInv' /\ Phase = "busy" /\ Phase' = "answered" /\ Reply' = 0
    <3>1. TaskGoes("done", 0) /\ 0 \in Nat /\ 0 % ByteMod = 0
      BY <2>1, RepliesGoes, SmallReplies
    <3>2. "done" \in {"type", "done"} /\ ("done" = "type" => ReadEvalPrint!Interactive(line))
      OBVIOUS
    <3> QED BY <1>1, <1>3, <3>1, <3>2, Works
  <2>4. ReadEvalPrint!Respond
    BY <1>7, <1>9, <1>10, <1>11, <2>2, <2>3 DEF ReadEvalPrint!Respond
  <2> QED BY <2>3, <2>4 DEF Answers, ReadEvalPrint!Next
<1>12. CASE arg[1] # " "
  <2>1. /\ TaskGoes("type", task[current].reply) /\ shown' = shown
        /\ ReadEvalPrint!Interactive(line)
    BY <1>2, <1>6, <1>9, <1>12, Zenon
  <2>2. "type" \in {"type", "done"} /\ "type" # "done"
    OBVIOUS
  <2>3. /\ AnswerInv' /\ Phase = "busy" /\ Phase' = "busy"
        /\ Reply' = Reply
    BY <1>1, <1>3, <1>4, <2>1, <2>2, Works
  <2>4. UNCHANGED ReadEvalPrint!vars
    BY <1>10, <2>1, <2>3 DEF ReadEvalPrint!vars
  <2> QED BY <2>3, <2>4 DEF Answers
<1> QED BY <1>11, <1>12

\* A line of n characters, repeated.
LEMMA Repeated ==
  ASSUME NEW n \in Nat, NEW text, text = [k \in 1 .. n |-> "a"] \o <<"\n">>
  PROVE  text # <<>> /\ Len(text) = n + 1 /\ text[Len(text)] = "\n"
<1> DEFINE as == [k \in 1 .. n |-> "a"]
           S == {"a", "\n"}
<1>1. as \in Seq(S) /\ Len(as) = n
  OBVIOUS
<1>2. <<"\n">> \in Seq(S) /\ Len(<<"\n">>) = 1 /\ <<"\n">>[1] = "\n"
  OBVIOUS
<1>3. text = as \o <<"\n">>
  OBVIOUS
<1> HIDE DEF as, S
<1>4. Len(text) = n + 1 /\ text[n + 1] = "\n"
  BY <1>1, <1>2, <1>3, ConcatProperties
<1>5. Len(<<>>) = 0 /\ n + 1 # 0
  OBVIOUS
<1> QED BY <1>4, <1>5

\* The count kept modulo the byte is the byte of the count.
LEMMA Divided ==
  ASSUME NEW x \in Nat, NEW m \in Nat, m >= 2
  PROVE  x \div m \in Int /\ x % m \in 0 .. m - 1 /\ x = m * (x \div m) + (x % m)
OBVIOUS

LEMMA CountsOn ==
  ASSUME NEW r \in Nat, NEW n \in Nat
  PROVE  (r + n) % ByteMod = ((r % ByteMod) + n) % ByteMod
<1> DEFINE m == ByteMod
           q == r \div m
           a == r % m
           b == r + n
           c == a + n
           qb == b \div m
           ab == b % m
           qc == c \div m
           ac == c % m
<1>1. m \in Nat /\ m >= 2
  BY CodesAssumption
<1> HIDE DEF m
<1>2. q \in Int /\ a \in 0 .. m - 1 /\ r = m * q + a
  BY <1>1, Divided
<1> HIDE DEF q, a
<1>3. b \in Nat /\ c \in Nat /\ b = r + n /\ c = a + n
  BY <1>1, <1>2
<1> HIDE DEF b, c
<1>4. qb \in Int /\ ab \in 0 .. m - 1 /\ b = m * qb + ab
  BY <1>1, <1>3, Divided
<1>5. qc \in Int /\ ac \in 0 .. m - 1 /\ c = m * qc + ac
  BY <1>1, <1>3, Divided
<1> HIDE DEF qb, ab, qc, ac
<1>6. ab = ac
  <2> DEFINE k == (q + qc) - qb
  <2>1. k \in Int /\ m * k = ab - ac
    BY <1>1, <1>2, <1>3, <1>4, <1>5
  <2>2. ab - ac < m /\ ac - ab < m
    BY <1>1, <1>4, <1>5
  <2> HIDE DEF k
  <2>3. k = 0
    <3>1. CASE k >= 1
      <4>1. m * k >= m
        BY <1>1, <2>1, <3>1
      <4> QED BY <1>1, <1>4, <1>5, <2>1, <2>2, <4>1
    <3>2. CASE k <= -1
      <4>1. m * k <= -m
        BY <1>1, <2>1, <3>2
      <4> QED BY <1>1, <1>4, <1>5, <2>1, <2>2, <4>1
    <3> QED BY <2>1, <3>1, <3>2
  <2> QED BY <1>1, <1>4, <1>5, <2>1, <2>3
<1> QED BY <1>6 DEF ab, ac, b, c, a, m

LEMMA EchoTextAnswers ==
  ASSUME ShellWorkload, TrapInv, TaskInv, AnswerInv, NEW n \in Typed, EchoText(n)
  PROVE  Answers
<1> DEFINE r == task[current].reply
<1>1. /\ task[current].at = "type"
      /\ UNCHANGED <<vars, trap, step, line, code, tid>>
  BY Zenon DEF EchoText, InTask
<1>2. \/ n = 0 /\ Replies(r % ByteMod) /\ shown' = shown
      \/ /\ n # 0 /\ shown' = [k \in 1 .. n |-> "a"] \o <<"\n">>
         /\ task' = [task EXCEPT ![current].reply = @ + n]
  BY Zenon DEF EchoText
<1>3. /\ task[current].at # "none" /\ task[current].at \in {"start", "type"}
      /\ current \in Threads /\ n \in Nat
  BY <1>1, SeenFacts, TypedAssumption
<1>4. r \in Nat /\ ReadEvalPrint!Interactive(line)
  BY <1>1, <1>3, Served
<1>5. UNCHANGED <<line, code>>
  BY <1>1
<1>6. CASE n = 0
  <2>1. TaskGoes("done", r % ByteMod) /\ shown' = shown
    BY <1>2, <1>6, RepliesGoes
  <2>2. /\ r % ByteMod \in Nat /\ (r % ByteMod) % ByteMod = r % ByteMod
        /\ "done" \in {"type", "done"}
        /\ ("done" = "type" => ReadEvalPrint!Interactive(line))
    <3>1. ByteMod \in Nat /\ ByteMod >= 2
      BY CodesAssumption
    <3> QED BY <1>4, <3>1, SmallReplies
  <2>3. /\ AnswerInv' /\ Phase = "busy" /\ Phase' = "answered"
        /\ Reply = r % ByteMod /\ Reply' = (r % ByteMod) % ByteMod
    BY <1>1, <1>3, <2>1, <2>2, Works
  <2>4. ReadEvalPrint!Stop
    BY <1>4, <1>5, <2>1, <2>2, <2>3 DEF ReadEvalPrint!Stop
  <2> QED BY <2>3, <2>4 DEF Answers, ReadEvalPrint!Next
<1>7. CASE n # 0
  <2>1. TaskGoes("type", r + n)
    <3>1. task' = [task EXCEPT ![current] = [task[current] EXCEPT !.reply = r + n]]
      BY <1>2, <1>3, <1>7 DEF TaskInv, TaskTypes
    <3> DEFINE s == r + n
    <3>2. [task[current] EXCEPT !.reply = s]
            = [at |-> "type", arg |-> task[current].arg, reply |-> s]
      <4> HIDE DEF s
      <4> QED BY <1>1, <1>3 DEF TaskInv, TaskTypes, Shape
    <3> QED BY <3>1, <3>2 DEF TaskGoes
  <2>2. r + n \in Nat /\ "type" \in {"type", "done"} /\ "type" # "done"
    BY <1>3, <1>4
  <2>3. /\ AnswerInv' /\ Phase = "busy" /\ Phase' = "busy"
        /\ Reply = r % ByteMod /\ Reply' = (r + n) % ByteMod
    BY <1>1, <1>3, <1>4, <2>1, <2>2, Works
  <2>4. /\ shown' # <<>> /\ Len(shown') = n + 1 /\ shown'[Len(shown')] = "\n"
    BY <1>2, <1>3, <1>7, Repeated
  <2>5. Reply' = (Reply + Len(shown') - 1) % ByteMod
    <3>1. Reply' = ((r % ByteMod) + n) % ByteMod
      BY <1>3, <1>4, <2>3, CountsOn
    <3> DEFINE a == r % ByteMod
    <3>2. a \in Nat
      BY <1>4, CodesAssumption
    <3>3. Reply = a /\ Reply' = (a + n) % ByteMod
      BY <2>3, <3>1
    <3> HIDE DEF a
    <3>4. Reply + Len(shown') - 1 = a + n
      BY <1>3, <2>4, <3>2, <3>3
    <3> QED BY <3>3, <3>4
  <2>6. ReadEvalPrint!Repeat
    BY <1>4, <1>5, <2>3, <2>4, <2>5 DEF ReadEvalPrint!Repeat
  <2> QED BY <2>3, <2>6 DEF Answers, ReadEvalPrint!Next
<1> QED BY <1>6, <1>7

LEMMA AnswerStep ==
  ShellWorkload /\ TrapInv /\ TaskInv /\ AnswerInv /\ [ShellNext]_allVars => Answers
<1> SUFFICES ASSUME ShellWorkload, TrapInv, TaskInv, AnswerInv, [ShellNext]_allVars
             PROVE  Answers
  OBVIOUS
<1>1. CASE Prompt
  BY <1>1, PromptAnswers
<1>2. CASE \E l \in Lines : ReadLine(l)
  BY <1>2, ReadAnswers
<1>3. CASE CreateThread
  BY <1>3, CreateAnswers
<1>4. CASE CreateFails
  BY <1>4, CreateFailsAnswers
<1>5. CASE ResumeThread
  BY <1>5, ResumeAnswers
<1>6. CASE JoinThread
  BY <1>6, JoinAnswers
<1>7. CASE JoinGoesOn
  BY <1>7, JoinGoesOnAnswers
<1>8. CASE Store
  BY <1>8, StoreAnswers
<1>9. CASE Hello
  BY <1>9, HelloAnswers
<1>10. CASE Echo
  BY <1>10, EchoAnswers
<1>11. CASE \E n \in Typed : EchoText(n)
  BY <1>11, EchoTextAnswers
<1>12. CASE EndTask
  BY <1>12, EndTaskAnswers
<1>13. CASE UNCHANGED allVars \/ (KillGoesOn /\ UNCHANGED shell) \/ System
  BY <1>13, OthersAnswer
<1> QED BY <1>1, <1>2, <1>3, <1>4, <1>5, <1>6, <1>7, <1>8, <1>9, <1>10, <1>11, <1>12, <1>13
        DEF ShellNext, ShellSteps, TaskSteps, Keyboard

\* shell.c 90, hello.c 5-9 and echo.c 4-9: through create_thread, the copy of the
\* line, preemption, the end of the command and join_thread, each line is answered
\* as Repl says, of whatever lines are typed and wherever the timer lands.
THEOREM ShellAnswers == ShellWorkload => (ShellSpec => ReplSpec)
<1>1. ASSUME ShellWorkload
      PROVE  TrapInv /\ TaskInv /\ AnswerInv /\ [ShellNext]_allVars
               => AnswerInv' /\ [ReadEvalPrint!Next]_ReadEvalPrint!vars
  BY <1>1, AnswerStep DEF Answers
<1>2. ShellInit => AnswerInv /\ ReadEvalPrint!Init
  BY AnswerInit
<1>3. ASSUME ShellWorkload PROVE ShellSpec => ReplSpec
  BY <1>1, <1>2, <1>3, ShellTasks, PTL DEF ShellSpec, ReplSpec, ReadEvalPrint!Spec
<1> QED BY <1>3
=============================================================================
