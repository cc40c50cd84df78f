-------------------------------- MODULE Traps --------------------------------
(***************************************************************************)
(* raise_syscall and handle_exception of system/traps.c between the calls  *)
(* of Kernel and their resched: the number of the call is handed over in   *)
(* the global __exception_signal.                                          *)
(*                                                                         *)
(* All calls but kill_thread raise RESCHED with sstatus.SIE clear, so that *)
(* the timer switches nobody out before the ecall (timer.c 52): such a     *)
(* call is one step, and resets the signal when its thread is switched in  *)
(* again.  kill_thread has restored SIE by then (kill.c 20); it is taken   *)
(* apart here, at every point where the timer may take the thread away.    *)
(***************************************************************************)
EXTENDS KernelSpec

RESCHED  == 0
NoSignal == -1

VARIABLES
  signal,     \* __exception_signal
  place,      \* how far each thread is in kill_thread or raise_syscall
  was         \* history: the table before the current thread's kill_thread

trap == <<signal, place, was>>

\* "own": in its own code or in a call that is one step; "raise": before
\* traps.c 25, "ecall": before 26, "back": before 27; "masked", "killed":
\* switched out in the handler, with SIE clear or as it was.
Places == {"own", "raise", "ecall", "back", "masked", "killed"}

Remembered == [state |-> state, retval |-> retval]

TrapInit ==
  /\ Init
  /\ signal = NoSignal
  /\ place = [t \in Threads |-> "own"]
  /\ was = Remembered

InOwnCode == fault = "none" /\ place[current] = "own"

\* The handler returns to the thread that is current now: one that was in it
\* with SIE clear resets the signal at once, any other goes on where it was.
Lands(sig, p) ==
  LET new == current' IN
  \/ /\ p[new] = "masked"
     /\ signal' = NoSignal
     /\ place' = [p EXCEPT ![new] = "own"]
  \/ /\ p[new] = "killed"
     /\ signal' = sig
     /\ place' = [p EXCEPT ![new] = "back"]
  \/ /\ p[new] \notin {"masked", "killed"}
     /\ signal' = sig
     /\ place' = p

\* A call of Kernel that raises nothing, and one that raises RESCHED.
Quiet(call) ==
  /\ InOwnCode
  /\ call
  /\ place' = [t \in Threads |-> IF state[t] = "free" /\ state'[t] # "free"
                                 THEN "own" ELSE place[t]]
  /\ UNCHANGED <<signal, was>>

Raising(call) ==
  /\ InOwnCode
  /\ call
  /\ Lands(RESCHED, [place EXCEPT ![current] = "masked"])
  /\ UNCHANGED was

\* kill_thread up to its raise_syscall: the thread's own end, and the end of
\* another.
MutDoomed(t) == [Reaped(t) EXCEPT ![t] = state[t]]   \* mutant: without kill.c 19
Doomed(t) == Reaped(t)

Ends(v) ==
  /\ InOwnCode
  /\ Calls("exit")
  /\ retval' = [retval EXCEPT ![current] = v]
  /\ state' = Doomed(current)

Ended(t) ==
  /\ InOwnCode
  /\ Calls("kill")
  /\ t # current /\ state[t] # "free"
  /\ state' = Doomed(t)
  /\ UNCHANGED retval

Killing(change) ==
  /\ change
  /\ place' = [place EXCEPT ![current] = "raise"]
  /\ was' = Remembered
  /\ UNCHANGED <<parent, current, ready, asleep, sie, where, mask, fault, signal>>

At(p) == fault = "none" /\ place[current] = p

SignalSet ==
  /\ At("raise")
  /\ signal' = RESCHED
  /\ place' = [place EXCEPT ![current] = "ecall"]
  /\ UNCHANGED <<vars, was>>

\* handle_exception looks a signal up only if it is in the table.
Ecall ==
  /\ At("ecall")
  /\ IF signal = RESCHED
       THEN /\ Resched(state, ready, sie)
            /\ Lands(signal, [place EXCEPT ![current] = "killed"])
            /\ UNCHANGED <<parent, retval, asleep, where>>
       ELSE /\ place' = [place EXCEPT ![current] = "back"]
            /\ UNCHANGED <<vars, signal>>
  /\ UNCHANGED was

\* kill_thread returns, into wrapper if it was the thread's own end.
SignalReset ==
  /\ At("back")
  /\ signal' = NoSignal
  /\ place' = [place EXCEPT ![current] = "own"]
  /\ IF state[current] = "defunct" THEN Broken("returned to noop")
                                   ELSE UNCHANGED <<state, ready, current, sie, mask, fault>>
  /\ UNCHANGED <<parent, retval, asleep, where, was>>

\* The timer may switch the thread out wherever SIE is set.
TimerSwitch ==
  /\ Tick
  /\ IF current' = current THEN UNCHANGED <<signal, place>> ELSE Lands(signal, place)
  /\ UNCHANGED was

-----------------------------------------------------------------------------
KillGoesOn == SignalSet \/ Ecall \/ SignalReset

TrapNext ==
  \/ Quiet(\/ Boot \/ Create \/ CreateRefused \/ JoinEnds \/ JoinFails
           \/ \E t \in Threads : Join(t) \/ JoinBegin(t) \/ Sleep(t))
  \/ Raising(\/ Yield \/ JoinWaits
             \/ \E t \in Threads : Resume(t) \/ Suspend(t) \/ Unsleep(t))
  \/ \E v \in RetVals : Killing(Ends(v))
  \/ \E t \in Threads : Killing(Ended(t))
  \/ KillGoesOn \/ TimerSwitch

TrapSpec == TrapInit /\ [][TrapNext]_<<vars, trap>>

-----------------------------------------------------------------------------
(***************************************************************************)
(* kill.c 7-8: a RESCHED that was raised is carried out.  The signal that  *)
(* kill_thread wrote is still there at its ecall, whatever ran in between: *)
(* so it is for a thread that ends, which does not come back to its ecall, *)
(* and not for one that kills another.                                     *)
(***************************************************************************)
SignalIntact == At("ecall") => signal = RESCHED

(***************************************************************************)
(* kill.c 14-22: the end of a thread is one step for all others, as Kernel *)
(* has it, although the timer may land between the change of the table and *)
(* the RESCHED: the dead thread does not run on, nobody is lost.  Up to    *)
(* the switch the others see the table as it was.                          *)
(***************************************************************************)
InKill == place[current] \in {"raise", "ecall"}

Atomic == INSTANCE Kernel WITH
            state  <- IF InKill THEN was.state ELSE state,
            retval <- IF InKill THEN was.retval ELSE retval
KillAtomic == Atomic!Spec
=============================================================================
