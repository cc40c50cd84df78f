----------------------------- MODULE QueueLinks -----------------------------
(***************************************************************************)
(* The array thread_queue of system/queue.c as three functions on Node     *)
(* (qnext, qprev, key), and the pointer surgery of queue.c and sleep.c as  *)
(* operators on them.  Assignments that one C statement sequence makes to  *)
(* one field are one EXCEPT, in the order of the code, so that two of them *)
(* that hit the same element resolve as they do in C.                      *)
(*                                                                         *)
(* Integers are unsigned and wrap modulo KeyMod (2^32 in the code).        *)
(***************************************************************************)
EXTENDS Integers

CONSTANTS
  NTHREADS,       \* number of threads (20 in include/thread.h)
  KeyMod          \* one more than the largest uint32

ASSUME NTHREADSAssumption == NTHREADS \in Nat \ {0}
ASSUME KeyModAssumption   == KeyMod \in Nat \ {0}

ready_list == NTHREADS
sleep_list == NTHREADS + 1

Threads == 0 .. NTHREADS - 1
Queues  == {ready_list, sleep_list}
Node    == Threads \cup Queues          \* the indices of thread_queue
Keys    == 0 .. KeyMod - 1

NULL == 0   \* barelib's NULL; also the index of thread 0

(***************************************************************************)
(* queue.c tells "walked off to nothing" from "found the place" by testing *)
(* the index against 0, which is thread 0: inserting in front of thread 0  *)
(* takes the else branch and appends at the tail of the queue instead.     *)
(* Both branches are an insertion in front of a node, the else branch in   *)
(* front of the root.                                                      *)
(***************************************************************************)
InsertBefore(queue, curr) == IF curr # NULL THEN curr ELSE queue

\* Link t in front of node c (queue.c 32-36, and 40-44 with c = queue).
InsertNext(qn, qp, t, c)    == [qn EXCEPT ![qp[c]] = t, ![t] = c]

MutInsertPrev(qp, t, c) == [qp EXCEPT ![t] = qp[c]]   \* without queue.c 36
InsertPrev(qp, t, c)    == [qp EXCEPT ![t] = qp[c], ![c] = t]

\* Unlink node x from wherever it is linked (sleep.c 26-31 and 68-74).
MutUnlinkNext(qn, qp, x) == [qn EXCEPT ![x] = NULL]   \* without sleep.c 30
UnlinkNext(qn, qp, x)    == [qn EXCEPT ![x] = NULL, ![qp[x]] = qn[x]]

UnlinkPrev(qn, qp, x)    == [qp EXCEPT ![x] = NULL, ![qn[x]] = qp[x]]

\* Unlink the head of queue (queue.c 89-95).
DequeueNext(qn, queue)     == [qn EXCEPT ![qn[queue]] = NULL, ![queue] = qn[qn[queue]]]
DequeuePrev(qn, qp, queue) == [qp EXCEPT ![qn[queue]] = NULL, ![qn[qn[queue]]] = queue]

(***************************************************************************)
(* The arithmetic on keys: `key = k', `-=' and `+=' on a uint32.           *)
(***************************************************************************)
KeySet(ky, t, kk)    == [ky EXCEPT ![t] = kk]

MutKeyTake(ky, n, kk)  == ky                      \* without queue.c 66
KeyTake(ky, n, kk)     == [ky EXCEPT ![n] = (@ - kk) % KeyMod]

KeyGive(ky, n, kk)    == [ky EXCEPT ![n] = (@ + kk) % KeyMod]
=============================================================================
