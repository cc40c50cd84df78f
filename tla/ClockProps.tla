----------------------------- MODULE ClockProps -----------------------------
(***************************************************************************)
(* What is required of Clock.                                              *)
(***************************************************************************)
EXTENDS Clock

\* The elements met on the way from the root q, in as many steps as there are
\* elements.
Path(q) == LET p[n \in 0 .. NTHREADS + 2] == IF n = 0 THEN q ELSE qnext[p[n - 1]] IN p

(***************************************************************************)
(* queue.c 6-8, in terms of the links alone: following qnext from the root *)
(* leads back to the root, and qprev is the way back.                      *)
(***************************************************************************)
LeadsBack(q) ==
  \E n \in 1 .. NTHREADS + 2 :
    /\ Path(q)[n] = q
    /\ \A m \in 1 .. n : qprev[Path(q)[m]] = Path(q)[m - 1]

\* Neither the handler nor a block is half done.
Settled == hpc = "out" /\ todo = <<>>

\* No tick leaves the ready list's ring open.
ReadyLeadsBack == Settled => LeadsBack(ready_list)

\* No tick leaves the sleep list's ring open, nor does a tick that lands
\* between two assignments of a block make the rest of them do so.
SleepLeadsBack == Settled => LeadsBack(sleep_list)

\* timer.c 42: the handler comes back.
TickReturns == hpc # "out" ~> hpc = "out"

(***************************************************************************)
(* queue.c 15-18: a thread that was added to the ready list can be found   *)
(* there: no tick makes it vanish.                                         *)
(***************************************************************************)
ReadyNotLost ==
  Settled =>
    \A t \in Threads : home[t] \in {ready_list, Lost} =>
      \E n \in 1 .. NTHREADS + 2 : Path(ready_list)[n] = t

(***************************************************************************)
(* sleep.c 6-7, timer.c 40: the handler wakes a thread when its delay has  *)
(* passed, not before.                                                     *)
(***************************************************************************)
WokenInTime ==
  [][\A t \in Threads :
       hpc = "walk" /\ home[t] = sleep_list /\ home'[t] = ready_list
         => asked[t] = 0]_clockVars

(***************************************************************************)
(* interrupts.h 6: a loop of queue.c or sleep.c, which runs with the       *)
(* interrupts off, is after a tick still on the ring that it was walking.  *)
(***************************************************************************)
WalkStaysOnRing ==
  Settled /\ pc # "idle" => \E n \in 1 .. NTHREADS + 2 : Path(Walked)[n] = curr

(***************************************************************************)
(* Until a tick finds somebody due (from then on WokenInTime is at stake)  *)
(* or lands between the assignments of a block on the sleep list (which    *)
(* may take its unit from an element that is being unlinked), the keys up  *)
(* to a sleeper add up to what is left of its delay, counted from some     *)
(* moment between the call of sleep and the insertion: a tick that lands   *)
(* in the walk of thread_enqueue_sleep costs or saves one tick at most,    *)
(* and one between the assignments of a block on the ready list nothing.   *)
(***************************************************************************)
DelaysAge ==
  ~woke /\ ~torn /\ ~InSleepBlock =>
  LET sleepers == order[sleep_list] IN
  \A n \in 1 .. Len(sleepers) :
    SumFrom(0, key, SubSeq(sleepers, 1, n)) \in since[sleepers[n]] .. asked[sleepers[n]]
=============================================================================
