---------------------------- MODULE ThreadQueue ----------------------------
(***************************************************************************)
(* The thread queues of bareOS: queue.c, and the two searches of sleep.c   *)
(* that unlink a thread from the middle of a queue.                        *)
(*                                                                         *)
(* The kernel is preempted inside these functions (the timer interrupt is  *)
(* taken in machine mode whatever sstatus.SIE says), and a walk that       *)
(* starts at a root only ends if the links lead back to it.  So a call is  *)
(* not one step here: each turn of a loop is a step, and so is the block   *)
(* of assignments that links or unlinks a thread.  What a block does       *)
(* besides the links is an operator of its own: Clock, where the timer     *)
(* lands inside the block too, makes the assignments one at a time.        *)
(*                                                                         *)
(* The environment is the callers' contract: resume, resched and the wake- *)
(* up enqueue a thread that is in no queue, sleep is asked for a thread of *)
(* the ready list, unsleep for a thread of the sleep list.  Callers that   *)
(* break the contract are the subject of Kernel.                           *)
(***************************************************************************)
EXTENDS QueueLinks, SequencesExt

CONSTANT Delays     \* the delays that sleep is called with

ASSUME DelaysAssumption == Delays \subseteq Keys \ {0}

NoQueue == NTHREADS + 2

VARIABLES
  qnext, qprev, key,     \* thread_queue[]
  home,                  \* which queue thread_table[] says a thread is in
  pc,                    \* where the call under way is, "idle" if none is
  curr, tid, k,          \* its locals: curr_thread, threadid, key (or delay)
  ret                    \* what the last thread_dequeue returned

(***************************************************************************)
(* History variables, which no guard reads: the threads of each queue in   *)
(* order, the place of curr in the queue being walked, and the delay with  *)
(* which each sleeper was put to sleep.                                    *)
(***************************************************************************)
VARIABLES order, pos, asked

links   == <<qnext, qprev, key>>
locals  == <<curr, tid, k>>
history == <<order, pos, asked>>
vars    == <<qnext, qprev, key, home, pc, curr, tid, k, ret, order, pos, asked>>

\* No code assigns thread_table[].priority, so it is 0 for every thread.
priority == 0

PCs == {"idle", "enqueue", "find", "enqueue_sleep", "unfind"}

TypeOK ==
  /\ qnext \in [Node -> Node]
  /\ qprev \in [Node -> Node]
  /\ key \in [Node -> Keys]
  /\ home \in [Threads -> Queues \cup {NoQueue}]
  /\ pc \in PCs
  /\ curr \in Node
  /\ tid \in Threads
  /\ k \in Keys
  /\ ret \in Threads \cup {NTHREADS}
  /\ order \in [Queues -> Seq(Threads)]
  /\ pos \in Nat
  /\ asked \in [Threads -> Keys]

(***************************************************************************)
(* initialize() links the root of the ready list to itself; the root of    *)
(* the sleep list is taken as the test harness leaves it (t__mem_reset),   *)
(* linked to itself too.  The other elements are zero.                     *)
(***************************************************************************)
Init ==
  /\ qnext = [n \in Node |-> IF n \in Queues THEN n ELSE NULL]
  /\ qprev = [n \in Node |-> IF n \in Queues THEN n ELSE NULL]
  /\ key = [n \in Node |-> 0]
  /\ home = [t \in Threads |-> NoQueue]
  /\ pc = "idle" /\ curr = 0 /\ tid = 0 /\ k = 0 /\ ret = NTHREADS
  /\ order = [q \in Queues |-> <<>>] /\ pos = 0 /\ asked = [t \in Threads |-> 0]

-----------------------------------------------------------------------------
(***************************************************************************)
(* thread_enqueue(ready_list, t)                                           *)
(***************************************************************************)
EnqueueCall(t) ==
  /\ pc = "idle"
  /\ home[t] = NoQueue
  /\ pc' = "enqueue"
  /\ tid' = t
  /\ k' = priority
  /\ curr' = qnext[ready_list]
  /\ pos' = 1
  /\ UNCHANGED <<links, home, ret, order, asked>>

\* The loop of thread_enqueue goes past every element with a key up to k.
StrictEnqueuePasses(c) == key[c] < k /\ c # ready_list   \* mutant: `<' for `<='
EnqueuePasses(c) == key[c] <= k /\ c # ready_list

MutEnqueueWalk ==                            \* mutant: without queue.c 28
  /\ pc = "enqueue"
  /\ EnqueuePasses(curr)
  /\ UNCHANGED vars

EnqueueWalk ==
  /\ pc = "enqueue"
  /\ EnqueuePasses(curr)
  /\ curr' = qnext[curr]
  /\ pos' = pos + 1
  /\ UNCHANGED <<links, home, pc, tid, k, ret, order, asked>>

\* The locals are gone with the call.
Returns ==
  /\ pc' = "idle"
  /\ curr' = 0 /\ tid' = 0 /\ k' = 0 /\ pos' = 0

EnqueueEnds ==
  /\ pc = "enqueue"
  /\ ~EnqueuePasses(curr)
  /\ home' = [home EXCEPT ![tid] = ready_list]
  /\ order' = [order EXCEPT ![ready_list] =
                 InsertAt(@, IF curr # NULL THEN pos ELSE Len(@) + 1, tid)]
  /\ Returns
  /\ UNCHANGED <<ret, asked>>

EnqueueLink ==
  LET c == InsertBefore(ready_list, curr) IN
  /\ EnqueueEnds
  /\ qnext' = InsertNext(qnext, qprev, tid, c)
  /\ qprev' = InsertPrev(qprev, tid, c)
  /\ key' = KeySet(key, tid, k)

(***************************************************************************)
(* thread_dequeue(ready_list), as resched calls it                         *)
(***************************************************************************)
DequeueEmpty ==
  /\ pc = "idle"
  /\ qnext[ready_list] = ready_list
  /\ ret' = NTHREADS
  /\ UNCHANGED <<links, home, pc, locals, history>>

DequeueTakes ==
  LET head == qnext[ready_list] IN
  /\ pc = "idle"
  /\ head # ready_list
  /\ ret' = head
  /\ home' = [home EXCEPT ![head] = NoQueue]
  /\ order' = [order EXCEPT ![ready_list] = Tail(@)]
  /\ UNCHANGED <<pc, locals, pos, asked>>

DequeueHead ==
  /\ DequeueTakes
  /\ qnext' = DequeueNext(qnext, ready_list)
  /\ qprev' = DequeuePrev(qnext, qprev, ready_list)
  /\ UNCHANGED key

-----------------------------------------------------------------------------
(***************************************************************************)
(* sleep(t, d): search the ready list for t, unlink it, and insert it into *)
(* the delta list with thread_enqueue_sleep.                               *)
(***************************************************************************)
SleepCall(t, d) ==
  /\ pc = "idle"
  /\ home[t] = ready_list
  /\ pc' = "find"
  /\ tid' = t
  /\ k' = d
  /\ curr' = qnext[ready_list]
  /\ pos' = 1
  /\ UNCHANGED <<links, home, ret, order, asked>>

\* Both searches of sleep.c stop at the thread, or at the root ready_list.
BlindFindStops(c) == c = ready_list          \* mutant: only at the root
FindStops(c) == c = ready_list \/ c = tid

SleepFindWalk ==
  /\ pc = "find"
  /\ ~FindStops(curr)
  /\ curr' = qnext[curr]
  /\ pos' = pos + 1
  /\ UNCHANGED <<links, home, pc, tid, k, ret, order, asked>>

\* Thread 0 is unlinked like any other, but then `if (curr_thread)' skips
\* the rest, and it is left in no queue at all.
SleepFinds ==
  /\ pc = "find"
  /\ FindStops(curr)
  /\ home' = [home EXCEPT ![tid] = NoQueue]
  /\ order' = [order EXCEPT ![ready_list] = RemoveAt(@, pos)]
  /\ \/ /\ curr # NULL
        /\ pc' = "enqueue_sleep"
        /\ pos' = 1
        /\ asked' = [asked EXCEPT ![tid] = k]
        /\ UNCHANGED <<tid, k>>
     \/ /\ curr = NULL
        /\ Returns
        /\ UNCHANGED asked
  /\ UNCHANGED ret

SleepUnlink ==
  /\ SleepFinds
  /\ qnext' = UnlinkNext(qnext, qprev, curr)
  /\ qprev' = UnlinkPrev(qnext, qprev, curr)
  /\ \/ /\ curr # NULL
        /\ key' = KeySet(key, tid, k)
        /\ curr' = qnext'[sleep_list]
     \/ /\ curr = NULL
        /\ UNCHANGED key

\* The loop of thread_enqueue_sleep takes the keys it passes off the delay.
EnqueueSleepPasses(c) == key[c] <= k /\ c # sleep_list

EnqueueSleepWalk ==
  /\ pc = "enqueue_sleep"
  /\ EnqueueSleepPasses(curr)
  /\ k' = k - key[curr]
  /\ curr' = qnext[curr]
  /\ pos' = pos + 1
  /\ UNCHANGED <<links, home, pc, tid, ret, order, asked>>

\* The element behind the new one gives the new key away, the root too: its
\* key wraps below zero.
EnqueueSleepEnds ==
  /\ pc = "enqueue_sleep"
  /\ ~EnqueueSleepPasses(curr)
  /\ home' = [home EXCEPT ![tid] = sleep_list]
  /\ order' = [order EXCEPT ![sleep_list] =
                 InsertAt(@, IF curr # NULL THEN pos ELSE Len(@) + 1, tid)]
  /\ Returns
  /\ UNCHANGED <<ret, asked>>

EnqueueSleepLink ==
  LET c == InsertBefore(sleep_list, curr) IN
  /\ EnqueueSleepEnds
  /\ qnext' = InsertNext(qnext, qprev, tid, c)
  /\ qprev' = InsertPrev(qprev, tid, c)
  /\ key' = KeySet(IF curr # NULL THEN KeyTake(key, curr, k) ELSE key, tid, k)

(***************************************************************************)
(* unsleep(t): search from the root of the sleep list (the loop stops at   *)
(* the other root, ready_list), give the key of t to the element behind    *)
(* it, unlink t and go on in thread_enqueue(ready_list, t).                *)
(***************************************************************************)
UnsleepCall(t) ==
  /\ pc = "idle"
  /\ home[t] = sleep_list
  /\ pc' = "unfind"
  /\ tid' = t
  /\ curr' = qnext[sleep_list]
  /\ pos' = 1
  /\ UNCHANGED <<links, home, k, ret, order, asked>>

UnsleepFindWalk ==
  /\ pc = "unfind"
  /\ ~FindStops(curr)
  /\ curr' = qnext[curr]
  /\ pos' = pos + 1
  /\ UNCHANGED <<links, home, pc, tid, k, ret, order, asked>>

UnsleepFinds ==
  /\ pc = "unfind"
  /\ FindStops(curr)
  /\ curr # NULL
  /\ home' = [home EXCEPT ![tid] = NoQueue]
  /\ order' = [order EXCEPT ![sleep_list] = RemoveAt(@, pos)]
  /\ pc' = "enqueue"
  /\ tid' = curr
  /\ k' = priority
  /\ pos' = 1
  /\ asked' = [asked EXCEPT ![tid] = 0]
  /\ UNCHANGED ret

UnsleepUnlink ==
  /\ UnsleepFinds
  /\ key' = KeyGive(key, qnext[curr], key[curr])
  /\ qnext' = UnlinkNext(qnext, qprev, curr)
  /\ qprev' = UnlinkPrev(qnext, qprev, curr)
  /\ curr' = qnext'[ready_list]

-----------------------------------------------------------------------------
Caller ==
  \/ \E t \in Threads : EnqueueCall(t) \/ UnsleepCall(t)
  \/ \E t \in Threads, d \in Delays : SleepCall(t, d)
  \/ DequeueEmpty
  \/ DequeueHead

\* A turn of a loop.
Walk == EnqueueWalk \/ SleepFindWalk \/ EnqueueSleepWalk \/ UnsleepFindWalk

\* The steps of a call under way.
Progress == Walk \/ EnqueueLink \/ SleepUnlink \/ EnqueueSleepLink \/ UnsleepUnlink

Next == Caller \/ Progress

Spec == Init /\ [][Next]_vars

\* A call that has begun runs on: the processor keeps executing it.
FairSpec == Spec /\ WF_vars(Progress)
=============================================================================
