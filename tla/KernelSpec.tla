----------------------------- MODULE KernelSpec -----------------------------
(***************************************************************************)
(* What is required of Kernel.                                             *)
(***************************************************************************)
EXTENDS Kernel

(***************************************************************************)
(* resched.c 28: the head of the ready list is worth switching to.  The    *)
(* ready list holds exactly the threads in the state ready, each once: no  *)
(* ready thread is stranded outside, no thread in another state is queued. *)
(***************************************************************************)
ReadyListExact ==
  /\ \A i \in 1 .. Len(ready) : state[ready[i]] = "ready"
  /\ \A i, j \in 1 .. Len(ready) : ready[i] = ready[j] => i = j
  /\ \A t \in Threads : state[t] = "ready" => InReady(ready, t)

(***************************************************************************)
(* thread.h 29: current_thread is the running thread, and the only one; it *)
(* stays so through every switch, until then there is no thread at all.    *)
(***************************************************************************)
Booted == pc[current] \notin {"boot", "created"}

OneRunning == \A t \in Threads : state[t] = "running" <=> t = current /\ Booted

(***************************************************************************)
(* Every call keeps to what queue.c and the trap handler expect of it: no  *)
(* thread is enqueued twice (queue.h 6-7), no root is unlinked, no search  *)
(* runs on for ever, no ecall is raised in a handler.                      *)
(***************************************************************************)
ContractKept == fault = "none"

(***************************************************************************)
(* create.c 22-25, join.c 7-9: a slot goes round free, suspend, ready,     *)
(* running, ..., defunct, free.  No thread ends without having run, no     *)
(* slot is taken for a new thread while the old one might still run.       *)
(***************************************************************************)
Moves == { <<"free", "suspend">>, <<"suspend", "running">>, <<"suspend", "ready">>,
           <<"ready", "running">>, <<"running", "ready">>,
           <<"running", "defunct">>, <<"defunct", "free">> }

Lifecycle ==
  [][\A t \in Threads : state'[t] # state[t] => <<state[t], state'[t]>> \in Moves]_vars

(***************************************************************************)
(* Whatever is called: at most one thread is the running one, and nobody   *)
(* but the current thread.                                                 *)
(***************************************************************************)
OnlyCurrentRuns == \A t \in Threads : state[t] = "running" => t = current

(***************************************************************************)
(* resched.c 28: kill_thread and unsleep leave threads in the ready list   *)
(* that are in another state by the time they are its head.  They are not  *)
(* switched to: a thread that gets the processor was ready, or suspended   *)
(* and resumed in this very call.                                          *)
(***************************************************************************)
StaleNotScheduled ==
  [][current' # current => state[current'] \in {"ready", "suspend"}]_vars

(***************************************************************************)
(* A thread waiting in join_thread keeps the loop's interrupts off: no     *)
(* timer tick lands between its test of the state and its RESCHED, and the *)
(* threads that run in between get their own masks.                        *)
(***************************************************************************)
JoinsMasked == pc[current] = "join" => ~sie

(***************************************************************************)
(* create.c 17 and 29: interrupts are off while the kernel is at work, and *)
(* a thread in its own code has them on, to be preempted.                  *)
(***************************************************************************)
UserInterruptible == Booted /\ pc[current] = "user" => sie

(***************************************************************************)
(* suspend.c 9-13: whoever is suspended, the other threads stay where they *)
(* are: one that was in the ready list, and is still ready, is still there.*)
(***************************************************************************)
OthersStayQueued ==
  [][\A t \in Threads : InReady(ready, t) /\ state'[t] = "ready" => InReady(ready', t)]_vars

(***************************************************************************)
(* join.c 7-8: whoever waits for a thread to end then takes its slot back  *)
(* and gets what it returned.                                              *)
(***************************************************************************)
JoinCollects ==
  [][\A t \in Threads :
       pc[t] = "join" /\ pc'[t] = "user" /\ state[target[t]] = "defunct"
         => state'[target[t]] = "free" /\ result'[t] = retval[target[t]]]_vars

\* join.c 12 and 30: join_thread leaves the interrupts as it found them.
JoinRestores ==
  [][(\E t \in Threads : state[t] = "defunct" /\ state'[t] = "free") => sie' = sie]_vars

(***************************************************************************)
(* sleep.c 47-48: a thread in the sleep state that unsleep has taken off   *)
(* the sleep list is resumed.                                              *)
(***************************************************************************)
UnsleptRuns ==
  \A t \in Threads :
    (state[t] = "sleep" /\ t \notin asleep) ~> (state[t] = "running" \/ ~ContractKept)

\* A thread that is in line to run does so.
ReadyRuns == \A t \in Threads : InReady(ready, t) ~> state[t] = "running"

(***************************************************************************)
(* join.c 7-9: if every thread that is given the processor again and again *)
(* ends at last, to join a thread that has been resumed is to get it back. *)
(***************************************************************************)
ThreadsEnd ==
  \A t \in Threads \ {0} : SF_vars(current = t /\ \E v \in RetVals : Exit(v))

JoinReturns ==
  ThreadsEnd =>
    \A t \in Threads : \A u \in Threads \ {t} :
      (pc[t] = "join" /\ target[t] = u /\ state[u] \in {"ready", "defunct", "free"})
        ~> pc[t] = "user"

\* The threads that can run, the running one first, are served in turn.
Scheduler == INSTANCE RoundRobin WITH Thread <- Threads, First <- 0,
                                      line <- <<current>> \o ready
SchedulerSpec == Scheduler!Spec

(***************************************************************************)
(* The processor executes the current thread, and each thread's own code   *)
(* gets to its next call.                                                  *)
(***************************************************************************)
FairSpec == Spec /\ WF_vars(Boot \/ Call)
=============================================================================
