------------------------------- MODULE Kernel -------------------------------
(***************************************************************************)
(* The life of threads in bareOS: create.c, resume.c, suspend.c, kill.c,   *)
(* join.c, resched.c, the calls of sleep.c, the boot sequence of           *)
(* initialize.c and the preemption by handle_clk.                          *)
(*                                                                         *)
(* The queues are what ThreadQueue shows them to be: the ready list is a   *)
(* sequence, the sleep list a set.  ThreadQueue assumes something of its   *)
(* callers; a call here that breaks the assumption, or that runs into      *)
(* undefined behaviour, ends the behaviour with `fault' saying why.        *)
(*                                                                         *)
(* A call runs with sstatus.SIE clear up to the ecall and the trap handler *)
(* runs in machine mode, so no other thread runs in between and a call is  *)
(* one step, up to the point where the caller is switched out.  It goes on *)
(* from there when it is switched in again; all that remains to do then is *)
(* to restore SIE, except in join, which goes round its loop.              *)
(***************************************************************************)
EXTENDS Integers, Sequences, SequencesExt

CONSTANTS
  NTHREADS,
  RootCalls,        \* the calls that thread 0, the shell, makes
  ChildCalls,       \* the calls that other threads make
  Ticks,            \* when the timer may interrupt: in "boot", "root", "child"
  SleepRootLinked,  \* whether the root of the sleep list is linked to itself
  RetVals           \* what thread functions return

ASSUME NTHREADSAssumption == NTHREADS \in Nat \ {0}
ASSUME RetValsAssumption  == 0 \in RetVals
ASSUME RootLinkAssumption == SleepRootLinked \in BOOLEAN

\* initialize() leaves the root of the sleep list zero, the tests (ms5.c 60)
\* want it linked to itself.  The timer is modelled on an empty sleep list, with
\* either root, the calls of sleep.c on one with its root linked.
ASSUME ImageAssumption ==
  Ticks = {} \/ (RootCalls \cup ChildCalls) \cap {"sleep", "unsleep"} = {}

Threads == 0 .. NTHREADS - 1
States  == {"free", "running", "ready", "suspend", "defunct", "sleep"}
Faults  == {"none", "double enqueue", "root unlinked", "endless search",
            "clock", "nested ecall", "returned to noop"}

VARIABLES
  state, parent, retval,  \* thread_table[]
  current,                \* current_thread
  ready,                  \* the ready list, as thread_dequeue takes it
  asleep,                 \* the threads in the sleep list
  sie,                    \* sstatus.SIE
  pc,                     \* where each thread is: in the boot sequence, in
                          \* its own code, or in the loop of join_thread
  target,                 \* whom join_thread waits for
  result,                 \* what join_thread last returned
  mask,                   \* the `mask' a thread in a call will restore
  fault                   \* what went wrong, "none" while nothing did

table == <<state, parent, retval>>
where == <<pc, target, result>>
vars  == <<state, parent, retval, current, ready, asleep, sie, pc, target, result,
          mask, fault>>

TypeOK ==
  /\ state \in [Threads -> States]
  /\ parent \in [Threads -> Threads]
  /\ retval \in [Threads -> RetVals]
  /\ current \in Threads
  /\ ready \in Seq(Threads)
  /\ asleep \subseteq Threads
  /\ sie \in BOOLEAN
  /\ pc \in [Threads -> {"boot", "created", "user", "join"}]
  /\ target \in [Threads -> Threads]
  /\ result \in [Threads -> RetVals \cup {-1}]
  /\ mask \in [Threads -> BOOLEAN]
  /\ fault \in Faults

(***************************************************************************)
(* initialize() after `boot_complete = 1': no thread yet, interrupts on    *)
(* (bootstrap.S starts it with SIE set), current_thread zero.              *)
(***************************************************************************)
Init ==
  /\ state = [t \in Threads |-> "free"]
  /\ parent = [t \in Threads |-> 0]
  /\ retval = [t \in Threads |-> 0]
  /\ current = 0 /\ ready = <<>> /\ asleep = {} /\ sie = TRUE
  /\ pc = [t \in Threads |-> IF t = 0 THEN "boot" ELSE "user"]
  /\ target = [t \in Threads |-> 0]
  /\ result = [t \in Threads |-> 0]
  /\ mask = [t \in Threads |-> TRUE]
  /\ fault = "none"

InReady(rd, t) == \E i \in 1 .. Len(rd) : rd[i] = t

\* thread_enqueue may only be called for a thread that is in no queue.
Queued(rd, t) == InReady(rd, t) \/ t \in asleep

-----------------------------------------------------------------------------
(***************************************************************************)
(* resched(), called with the table st and the ready list rd by a thread   *)
(* whose call will restore SIE to m.                                       *)
(***************************************************************************)
Broken(why) ==
  /\ fault' = why
  /\ UNCHANGED <<state, ready, current, sie, mask>>

\* A thread that runs on restores its mask, but in the loop of join_thread
\* interrupts stay off.
MutSieOf(t, m) == m                          \* mutant: join leaves them on
SieOf(t, m) == IF pc[t] = "join" THEN FALSE ELSE m

Stay(st, rd, m) ==
  /\ state' = st
  /\ ready' = rd
  /\ sie' = SieOf(current, m)
  /\ UNCHANGED <<current, mask, fault>>

\* Nobody to switch to: no thread is ready, or the head of the list is in
\* another state and is dropped.
MutStays(st, rd) == rd = <<>>                \* mutant: without resched.c 28
Stays(st, rd) == rd = <<>> \/ st[Head(rd)] # "ready"

MutOldState(s) == s                          \* mutant: without resched.c 30
OldState(s) == IF s = "running" THEN "ready" ELSE s

\* A running thread goes to the tail, and so does one that is ready already.
MutGoesBack(s) == s # "suspend"              \* mutant: the dead go back too
GoesBack(s) == s \in {"running", "ready"}

\* Mutants: the head is not taken off; the old thread goes to the head.
KeepHead(st, rd) == IF GoesBack(st[current]) THEN Append(rd, current) ELSE rd
GoToHead(st, rd) == IF GoesBack(st[current]) THEN <<current>> \o Tail(rd) ELSE Tail(rd)
NextReady(st, rd) == IF GoesBack(st[current]) THEN Append(Tail(rd), current) ELSE Tail(rd)

Switch(st, rd, m) ==
  LET new == Head(rd) IN
  /\ state' = [st EXCEPT ![current] = OldState(@), ![new] = "running"]
  /\ ready' = NextReady(st, rd)
  /\ current' = new
  /\ mask' = [mask EXCEPT ![current] = m]
  /\ sie' = SieOf(new, mask'[new])
  /\ UNCHANGED fault

\* With no thread ready resched calls resume_thread on the current thread.
\* If that one is suspended it is enqueued and an ecall raised in the handler.
Resched(st, rd, m) ==
  \/ rd = <<>> /\ st[current] # "suspend" /\ Stay(st, rd, m)
  \/ rd = <<>> /\ st[current] = "suspend" /\ Broken("nested ecall")
  \/ rd # <<>> /\ Stays(st, rd) /\ Stay(st, Tail(rd), m)
  \/ /\ ~Stays(st, rd)
     /\ IF GoesBack(st[current]) /\ Queued(Tail(rd), current)
          THEN Broken("double enqueue")
          ELSE Switch(st, rd, m)

-----------------------------------------------------------------------------
\* The current thread is in its own code and may make the call.
Calls(call) ==
  /\ fault = "none"
  /\ pc[current] = "user"
  /\ call \in (IF current = 0 THEN RootCalls ELSE ChildCalls)

FreeSlots == {i \in Threads : state[i] = "free"}

\* The slot create_thread takes, of those there are.
FirstFree(i) == i \in FreeSlots /\ \A j \in FreeSlots : i <= j

\* A created thread starts in wrapper, which enables interrupts.
NewThread(i) ==
  /\ state' = [state EXCEPT ![i] = "suspend"]
  /\ parent' = [parent EXCEPT ![i] = current]
  /\ mask' = [mask EXCEPT ![i] = TRUE]

Create ==
  /\ Calls("create")
  /\ \E i \in Threads :
       /\ FirstFree(i)
       /\ NewThread(i)
       /\ pc' = [pc EXCEPT ![i] = "user"]
  /\ UNCHANGED <<retval, current, ready, asleep, sie, target, result, fault>>

\* No slot is left, or the argument is too long: SIE is not restored.
CreateRefused ==
  /\ \/ Calls("create") /\ FreeSlots = {}
     \/ Calls("create with a long argument") /\ FreeSlots # {}
  /\ sie' = FALSE
  /\ UNCHANGED <<table, current, ready, asleep, where, mask, fault>>

MutEnter(rd, t) == <<t>> \o rd               \* mutant: first, not last
Enter(rd, t) == Append(rd, t)

Resume(t) ==
  /\ Calls("resume")
  /\ state[t] = "suspend"
  /\ IF Queued(ready, t)
       THEN Broken("double enqueue")
       ELSE Resched([state EXCEPT ![t] = "ready"], Enter(ready, t), sie)
  /\ UNCHANGED <<parent, retval, asleep, where>>

\* suspend_thread takes the head off the ready list, whoever that is.
SuspendDequeues(rd, t) == IF rd = <<>> THEN rd ELSE Tail(rd)

Suspend(t) ==
  /\ Calls("suspend")
  /\ state[t] \in {"running", "ready"}
  /\ Resched([state EXCEPT ![t] = "suspend"], SuspendDequeues(ready, t), sie)
  /\ UNCHANGED <<parent, retval, asleep, where>>

\* kill_thread frees the children's slots, wherever the children are linked.
ReapedToFree(t) ==                           \* mutant: the thread is freed too
  [i \in Threads |-> IF i = t \/ parent[i] = t THEN "free" ELSE state[i]]
Reaped(t) ==
  [i \in Threads |-> IF i = t THEN "defunct"
                     ELSE IF parent[i] = t THEN "free" ELSE state[i]]

Kill(t) ==
  /\ Calls("kill")
  /\ state[t] # "free"
  /\ Resched(Reaped(t), ready, sie)
  /\ UNCHANGED <<parent, retval, asleep, where>>

\* The thread's function returns to wrapper.  If kill_thread comes back,
\* wrapper returns too, into __noop.
Exit(v) ==
  /\ Calls("exit")
  /\ retval' = [retval EXCEPT ![current] = v]
  /\ IF Stays(Reaped(current), ready)
       THEN Broken("returned to noop")
       ELSE Resched(Reaped(current), ready, sie)
  /\ UNCHANGED <<parent, asleep, where>>

-----------------------------------------------------------------------------
Returned(t) == retval[t]

\* join_thread on a defunct thread leaves SIE off.
Join(t) ==
  /\ Calls("join")
  /\ state[t] = "defunct"
  /\ state' = [state EXCEPT ![t] = "free"]
  /\ sie' = FALSE
  /\ result' = [result EXCEPT ![current] = Returned(t)]
  /\ UNCHANGED <<parent, retval, current, ready, asleep, pc, target, mask, fault>>

JoinBegin(t) ==
  /\ Calls(IF state[t] = "free" THEN "join of no thread" ELSE "join")
  /\ state[t] # "defunct"
  /\ pc' = [pc EXCEPT ![current] = "join"]
  /\ target' = [target EXCEPT ![current] = t]
  /\ mask' = [mask EXCEPT ![current] = sie]
  /\ sie' = FALSE
  /\ UNCHANGED <<table, current, ready, asleep, result, fault>>

InJoin == fault = "none" /\ pc[current] = "join"

\* The thread has ended: its slot stays as it is, and join returns 0.
JoinEnds ==
  /\ InJoin
  /\ state[target[current]] = "defunct"
  /\ sie' = mask[current]
  /\ pc' = [pc EXCEPT ![current] = "user"]
  /\ result' = [result EXCEPT ![current] = 0]
  /\ UNCHANGED <<table, current, ready, asleep, target, mask, fault>>

\* There is no such thread any more: SIE is not restored.  The -1 reaches the
\* caller as the byte 255.
JoinFails ==
  /\ InJoin
  /\ state[target[current]] = "free"
  /\ pc' = [pc EXCEPT ![current] = "user"]
  /\ result' = [result EXCEPT ![current] = -1]
  /\ UNCHANGED <<table, current, ready, asleep, sie, target, mask, fault>>

MutJoinWaits ==                              \* mutant: without join.c 25
  /\ InJoin
  /\ state[target[current]] \notin {"defunct", "free"}
  /\ UNCHANGED vars

JoinWaits ==
  /\ InJoin
  /\ state[target[current]] \notin {"defunct", "free"}
  /\ Resched(state, ready, mask[current])
  /\ UNCHANGED <<parent, retval, asleep, where>>

-----------------------------------------------------------------------------
\* sleep(_, 0)
Yield ==
  /\ Calls("yield")
  /\ Resched(state, ready, sie)
  /\ UNCHANGED <<parent, retval, asleep, where>>

(***************************************************************************)
(* sleep(t, d) with d > 0 unlinks what its search of the ready list stops  *)
(* at: t, or the root if t is not there, as the running thread never is.   *)
(* Thread 0 it unlinks and then forgets.  No other thread is scheduled.    *)
(***************************************************************************)
Sleep(t) ==
  /\ Calls("sleep")
  /\ \/ /\ \E i \in 1 .. Len(ready) : ready[i] = t /\ ready' = RemoveAt(ready, i)
        /\ state' = IF t = 0 THEN state ELSE [state EXCEPT ![t] = "sleep"]
        /\ asleep' = IF t = 0 THEN asleep ELSE asleep \cup {t}
        /\ UNCHANGED <<current, sie, mask, fault>>
     \/ ~InReady(ready, t) /\ Broken("root unlinked") /\ UNCHANGED asleep
  /\ UNCHANGED <<parent, retval, where>>

\* unsleep moves a thread to the ready list and leaves its state at "sleep",
\* so a second call for it looks for it in vain.
Unsleep(t) ==
  /\ Calls("unsleep")
  /\ state[t] = "sleep"
  /\ IF t \in asleep
       THEN Resched(state, Enter(ready, t), sie)
       ELSE Broken("endless search")
  /\ asleep' = asleep \ {t}
  /\ UNCHANGED <<parent, retval, where>>

-----------------------------------------------------------------------------
\* create_thread(shell): the first slot is slot 0.
BootCreate ==
  /\ fault = "none" /\ pc[current] = "boot"
  /\ \E i \in Threads : FirstFree(i) /\ NewThread(i)
  /\ pc' = [pc EXCEPT ![current] = "created"]
  /\ UNCHANGED <<retval, current, ready, asleep, sie, target, result, fault>>

\* The shell is made the running thread and ctxload enters its wrapper.
BootRun ==
  /\ fault = "none" /\ pc[current] = "created"
  /\ state' = [state EXCEPT ![current] = "running"]
  /\ pc' = [pc EXCEPT ![current] = "user"]
  /\ sie' = TRUE
  /\ UNCHANGED <<parent, retval, current, ready, asleep, target, result, mask, fault>>

Running ==
  IF pc[current] \in {"boot", "created"} THEN "boot"
  ELSE IF current = 0 THEN "root" ELSE "child"

(***************************************************************************)
(* handle_clk on an empty sleep list.  If its root is zero, as initialize()*)
(* leaves it, the handler takes thread 0 for the first sleeper: while that *)
(* is in no queue no harm is done, while it is in the ready list the       *)
(* handler never comes back or tears the list (module Clock).              *)
(***************************************************************************)
Tick ==
  /\ fault = "none"
  /\ Running \in Ticks
  /\ IF ~SleepRootLinked /\ InReady(ready, 0)
       THEN Broken("clock")
       ELSE sie /\ Resched(state, ready, sie)
  /\ UNCHANGED <<parent, retval, asleep, where>>

-----------------------------------------------------------------------------
Boot == BootCreate \/ BootRun

Call ==
  \/ Create \/ CreateRefused \/ Yield
  \/ JoinEnds \/ JoinFails \/ JoinWaits
  \/ \E t \in Threads :
       \/ Resume(t) \/ Suspend(t) \/ Kill(t)
       \/ Join(t) \/ JoinBegin(t) \/ Sleep(t) \/ Unsleep(t)
  \/ \E v \in RetVals : Exit(v)

Next == Boot \/ Call \/ Tick

Spec == Init /\ [][Next]_vars
=============================================================================
