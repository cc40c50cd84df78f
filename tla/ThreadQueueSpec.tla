-------------------------- MODULE ThreadQueueSpec --------------------------
(***************************************************************************)
(* What is required of ThreadQueue.                                        *)
(***************************************************************************)
EXTENDS ThreadQueue

\* The element i places behind the root q of a queue that holds s: the root
\* itself is at both ends.
Place(s, q, i) == IF i \in 1 .. Len(s) THEN s[i] ELSE q

\* Links qn and qp lead from q through the elements of s back to q, both ways.
RingOf(qn, qp, s, q) ==
  \A i \in 0 .. Len(s) :
    /\ qn[Place(s, q, i)] = Place(s, q, i + 1)
    /\ qp[Place(s, q, i + 1)] = Place(s, q, i)

(***************************************************************************)
(* queue.c 4-8: following qnext from a root meets the threads of the queue *)
(* in order and leads back to the root, and qprev does the same in         *)
(* reverse.  It holds in the middle of every call too, between two turns   *)
(* of a loop, where a timer interrupt finds the queues.                    *)
(***************************************************************************)
Rings == \A q \in Queues : RingOf(qnext, qprev, order[q], q)

(***************************************************************************)
(* queue.h 6-9: each thread belongs to at most one queue at a time, and    *)
(* occurs in it once: a thread occurs at a place of a queue exactly if     *)
(* that queue is its home.                                                 *)
(***************************************************************************)
OneQueueEach ==
  /\ \A q \in Queues : \A i \in 1 .. Len(order[q]) : home[order[q][i]] = q
  /\ \A q \in Queues : \A i, j \in 1 .. Len(order[q]) :
       order[q][i] = order[q][j] => i = j
  /\ \A t \in Threads, q \in Queues :
       home[t] = q => \E i \in 1 .. Len(order[q]) : order[q][i] = t

\* The queue that the call under way walks.
Walked == IF pc \in {"enqueue", "find"} THEN ready_list ELSE sleep_list

(***************************************************************************)
(* A walk is always at a place of the queue it began in: curr_thread never *)
(* strays into the other queue or onto a thread in no queue.  A thread     *)
(* being inserted is in no queue, and a thread being searched for is still *)
(* ahead, so that neither search of sleep.c runs into a root.              *)
(***************************************************************************)
WalkInQueue ==
  pc # "idle" =>
    /\ pos \in 1 .. Len(order[Walked]) + 1
    /\ curr = Place(order[Walked], Walked, pos)
    /\ pc \in {"enqueue", "enqueue_sleep"} => home[tid] = NoQueue
    /\ pc \in {"find", "unfind"} =>
         /\ home[tid] = Walked
         /\ \A i \in 1 .. pos - 1 : order[Walked][i] # tid

\* The elements of the ready list have the one key there is, so that
\* thread_enqueue walks to the tail: what is left of a delay never stays behind.
ReadyKeys ==
  /\ \A t \in Threads : home[t] = ready_list => key[t] = priority
  /\ pc = "enqueue" => k = priority

\* base and the keys of the threads of s.
SumFrom(base, ky, s) == FoldLeft(LAMBDA sum, t : sum + ky[t], base, s)

\* What insertion takes from the key of the next element it gives to the new
\* one, and removal gives it back: so the root's key, which takes part, is not
\* stuck at a stale value once the list is empty.
RingSumsToZero ==
  SumFrom(key[sleep_list], key, order[sleep_list]) % KeyMod = 0

(***************************************************************************)
(* sleep.c 6-7 calls the sleep list a delta list: the keys from the head   *)
(* up to a thread add up to the delay the thread was put to sleep with,    *)
(* whatever was inserted in front of it or woken from in front of it since *)
(* (queue.c 66), and around the ring to zero modulo the width of a key.    *)
(***************************************************************************)
DeltasAddUp ==
  LET sleepers == order[sleep_list] IN
  /\ \A i \in 1 .. Len(sleepers) :
       SumFrom(0, key, SubSeq(sleepers, 1, i)) = asked[sleepers[i]]
  /\ RingSumsToZero

\* Every loop over a queue ends: a call that began returns.
CallsReturn == pc # "idle" ~> pc = "idle"

\* The links, the keys and the walk of thread_enqueue make the ready list the
\* first-in first-out queue of FifoQueue.
Fifo == INSTANCE FifoQueue WITH Thread <- Threads, NoThread <- NTHREADS,
                                items <- order[ready_list], out <- ret
FifoSpec == Fifo!Spec
=============================================================================
