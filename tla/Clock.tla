-------------------------------- MODULE Clock --------------------------------
(***************************************************************************)
(* The timer interrupt handler of device/timer.c over the thread queues.   *)
(* It is taken whenever the timer fires (sstatus.SIE does not mask machine *)
(* mode), between two turns of the loops of ThreadQueue and between two    *)
(* assignments of the blocks that link and unlink a thread, and runs to    *)
(* its end before they go on.  Its own loops are steps as well: whether it *)
(* has an end is in question.                                              *)
(*                                                                         *)
(* The resched at the end of the handler is a DequeueHead and an enqueue   *)
(* of the environment.                                                     *)
(***************************************************************************)
EXTENDS ThreadQueueSpec

CONSTANTS
  SleepRootLinked,   \* whether the root of the sleep list is linked to itself
  Users,             \* the threads that enter the queues
  TicksWhen,         \* at "any" time, with no call under way ("idle"), with
                     \* nobody due ("early"), or with no call under way or, up
                     \* to a block on the sleep list, nobody due ("safe")
  MaxTicks,          \* bound on the number of ticks
  BehindTable        \* what the word behind the last priority may hold

ASSUME ClockAssumption ==
  /\ SleepRootLinked \in BOOLEAN
  /\ Users \subseteq Threads
  /\ TicksWhen \in {"any", "idle", "early", "safe"}
  /\ MaxTicks \in Nat
  /\ BehindTable \subseteq Keys

VARIABLES
  todo,      \* the assignments that the block under way has still to make
  linking,   \* the queue whose links it changes, NoQueue if there is no block
  hpc,       \* where the handler is: "out", in its "loop", or in the "walk"
             \* of the thread_enqueue it calls
  head, turn,    \* its locals: head and i
  threadid,      \* what its thread_dequeue(sleep_list) returned
  hcurr, hkey,   \* curr_thread and key of its thread_enqueue
  ticks,         \* history: how many times the timer has fired
  woke,          \* history: whether a tick has found somebody due
  torn,          \* history: whether one has landed in a block on the sleep list
  since          \* history: what is left of each delay, from the call of sleep
                 \* on (asked is what is left from the search on)

block     == <<todo, linking>>
handler   == <<hpc, head, turn, threadid, hcurr, hkey>>
clockVars == <<vars, block, handler, ticks, woke, torn, since>>

Lost == NTHREADS + 3     \* the home of a thread that a queue has lost

\* initialize.c 42 links the root of the ready list only.
ClockInit ==
  LET linked == IF SleepRootLinked THEN Queues ELSE {ready_list} IN
  /\ qnext = [n \in Node |-> IF n \in linked THEN n ELSE NULL]
  /\ qprev = [n \in Node |-> IF n \in linked THEN n ELSE NULL]
  /\ key = [n \in Node |-> 0]
  /\ home = [t \in Threads |-> NoQueue]
  /\ pc = "idle" /\ curr = 0 /\ tid = 0 /\ k = 0 /\ ret = NTHREADS
  /\ order = [q \in Queues |-> <<>>] /\ pos = 0 /\ asked = [t \in Threads |-> 0]
  /\ todo = <<>> /\ linking = NoQueue
  /\ hpc = "out" /\ head = 0 /\ turn = 0 /\ threadid = 0 /\ hcurr = 0 /\ hkey = 0
  /\ ticks = 0 /\ woke = FALSE /\ torn = FALSE /\ since = [t \in Threads |-> 0]

-----------------------------------------------------------------------------
(***************************************************************************)
(* The blocks of ThreadQueue, one assignment at a time and in the order of *)
(* the code.  Their locals (prev, next, last) are loaded when the search   *)
(* that precedes them ends, what else they read is read when its turn      *)
(* comes; the loop behind a block begins with a load of its own.           *)
(***************************************************************************)
Assign(field, at, is) == [field |-> field, at |-> at, is |-> is]

\* queue.c 31-46 and 60-76: taken is what the one in front of an element does
\* besides, and the one at the tail does not.
Linking(queue, taken) ==
  IF curr # NULL
    THEN << Assign("qnext", qprev[curr], tid), Assign("qnext", tid, curr),
            Assign("qprev", tid, qprev[curr]), Assign("qprev", curr, tid) >>
           \o taken \o << Assign("key", tid, k) >>
    ELSE << Assign("qnext", qprev[queue], tid), Assign("qprev", tid, qprev[queue]),
            Assign("qnext", tid, queue), Assign("qprev", queue, tid),
            Assign("key", tid, k) >>

\* sleep.c 28-31 and 71-74.
MutUnlinking(x) ==                           \* mutant: without sleep.c 31
  << Assign("qnext", x, NULL), Assign("qprev", x, NULL),
     Assign("qnext", qprev[x], qnext[x]) >>
Unlinking(x) ==
  << Assign("qnext", x, NULL), Assign("qprev", x, NULL),
     Assign("qnext", qprev[x], qnext[x]), Assign("qprev", qnext[x], qprev[x]) >>

\* queue.c 92-95.
Dequeuing(queue) ==
  LET first == qnext[queue] IN
  << Assign("qnext", first, NULL), Assign("qprev", first, NULL),
     Assign("qnext", queue, qnext[first]), Assign("qprev", qnext[first], queue) >>

\* curr_thread of thread_enqueue and thread_enqueue_sleep (queue.c 26, 54).
Entering(queue) == << Assign("curr", queue, NULL) >>

\* What an assignment does to the queues and to curr_thread; line 66 looks up
\* the element behind the new one, line 70 the key that it adds.
Run(a, m) ==
  CASE a.field = "qnext" -> [m EXCEPT !.qnext[a.at] = a.is]
    [] a.field = "qprev" -> [m EXCEPT !.qprev[a.at] = a.is]
    [] a.field = "key"   -> [m EXCEPT !.key = KeySet(@, a.at, a.is)]
    [] a.field = "take"  -> [m EXCEPT !.key = KeyTake(@, m.qnext[a.at], a.is)]
    [] a.field = "give"  -> [m EXCEPT !.key = KeyGive(@, a.at, m.key[a.is])]
    [] a.field = "curr"  -> [m EXCEPT !.curr = m.qnext[a.at]]

Memory == [qnext |-> qnext, qprev |-> qprev, key |-> key, curr |-> curr]

Statement ==
  LET m == Run(Head(todo), Memory) IN
  /\ todo # <<>>
  /\ qnext' = m.qnext /\ qprev' = m.qprev /\ key' = m.key /\ curr' = m.curr
  /\ todo' = Tail(todo)
  /\ linking' = IF Tail(todo) = <<>> THEN NoQueue ELSE linking
  /\ UNCHANGED <<home, pc, tid, k, ret, history>>

Block(A, queue, assignments) ==
  /\ todo = <<>>
  /\ A
  /\ todo' = assignments
  /\ linking' = queue
  /\ UNCHANGED links

Blocks ==
  \/ Block(EnqueueEnds, ready_list, Linking(ready_list, <<>>))
  \/ Block(DequeueTakes, ready_list, Dequeuing(ready_list))
  \/ /\ curr = NULL
     /\ Block(SleepFinds, ready_list, Unlinking(curr))
  \/ /\ curr # NULL
     /\ Block(SleepFinds, ready_list,
              Unlinking(curr) \o << Assign("key", tid, k) >> \o Entering(sleep_list))
     /\ UNCHANGED curr
  \/ Block(EnqueueSleepEnds, sleep_list,
           Linking(sleep_list, << Assign("take", tid, k) >>))
  \/ /\ Block(UnsleepFinds, sleep_list,
              << Assign("give", qnext[curr], curr) >> \o Unlinking(curr)
                \o Entering(ready_list))
     /\ UNCHANGED curr

\* A call begins, or makes a turn of its loop.
Moves ==
  /\ todo = <<>>
  /\ \/ \E t \in Users : EnqueueCall(t) \/ UnsleepCall(t)
     \/ \E t \in Users, d \in Delays : SleepCall(t, d)
     \/ DequeueEmpty
     \/ Walk
  /\ UNCHANGED block

\* The threads whose delay runs: the sleepers, and from its call on the one
\* that sleep is about to insert.
Counted(t) == home[t] = sleep_list \/ (pc \in {"find", "enqueue_sleep"} /\ t = tid)

\* The kernel at work, while the handler is not.
Outside(A) ==
  /\ hpc = "out"
  /\ A
  /\ since' = [t \in Threads |->
                IF ~Counted(t)' THEN 0 ELSE IF Counted(t) THEN since[t] ELSE k']
  /\ UNCHANGED <<handler, ticks, woke, torn>>

-----------------------------------------------------------------------------
\* The head of the sleep list comes closer by one tick.  With the root zero
\* the head is thread 0, whatever it is doing.
MutDecremented == key                        \* mutant: without timer.c 37
Decremented ==
  IF qnext[sleep_list] # sleep_list THEN KeyTake(key, qnext[sleep_list], 1) ELSE key

Due(ky, n) == ky[n] = 0

NobodyDue ==
  \A n \in ToSet(order[sleep_list]) \cup {sleep_list} : ~Due(Decremented, n)

NoCall == pc = "idle" /\ todo = <<>>

\* The sleep list's links and keys are half changed.
InSleepBlock == linking = sleep_list

MayTick ==
  /\ ticks < MaxTicks
  /\ TicksWhen = "idle" => NoCall
  /\ TicksWhen = "early" => NobodyDue
  /\ TicksWhen = "safe" => NoCall \/ (NobodyDue /\ ~InSleepBlock)

\* One tick less to wait for.
OneLess(f, S) == [t \in Threads |-> IF t \in S /\ f[t] > 0 THEN f[t] - 1 ELSE f[t]]

Tick ==
  /\ hpc = "out"
  /\ MayTick
  /\ key' = Decremented
  /\ head' = qnext[sleep_list]
  /\ turn' = 0
  /\ hpc' = "loop"
  /\ ticks' = ticks + 1
  /\ woke' = (woke \/ ~NobodyDue)
  /\ torn' = (torn \/ InSleepBlock)
  /\ asked' = OneLess(asked, {t \in Threads : home[t] = sleep_list})
  /\ since' = OneLess(since, {t \in Threads : Counted(t)})
  /\ UNCHANGED <<qnext, qprev, home, pc, locals, ret, order, pos>>
  /\ UNCHANGED <<block, threadid, hcurr, hkey>>

\* The loop makes NTHREADS turns, and at each goes on to the next element.
MutOnePast(n) == n                           \* mutant: without `i++'
OnePast(n) == n + 1

LoopSkips ==
  /\ hpc = "loop" /\ turn < NTHREADS
  /\ ~Due(key, head)
  /\ head' = qnext[head]
  /\ turn' = OnePast(turn)
  /\ UNCHANGED <<vars, block, hpc, threadid, hcurr, hkey, ticks, woke, torn, since>>

\* An element with key 0: the head of the sleep list, which need not be that
\* element, is taken off the list and thread_enqueue begins.  For an empty list
\* that is the index NTHREADS, and its priority lies behind thread_table.
LoopWakes ==
  /\ hpc = "loop" /\ turn < NTHREADS
  /\ Due(key, head)
  /\ IF qnext[sleep_list] = sleep_list
       THEN threadid' = NTHREADS /\ UNCHANGED <<qnext, qprev>>
       ELSE /\ threadid' = qnext[sleep_list]
            /\ qnext' = DequeueNext(qnext, sleep_list)
            /\ qprev' = DequeuePrev(qnext, qprev, sleep_list)
  /\ hkey' \in IF threadid' \in Threads THEN {priority} ELSE BehindTable
  /\ hcurr' = qnext'[ready_list]
  /\ hpc' = "walk"
  /\ UNCHANGED <<key, home, pc, locals, ret, history>>
  /\ UNCHANGED <<block, head, turn, ticks, woke, torn, since>>

WalkPasses(c) == key[c] <= hkey /\ c # ready_list

WalkOn ==
  /\ hpc = "walk"
  /\ WalkPasses(hcurr)
  /\ hcurr' = qnext[hcurr]
  /\ UNCHANGED <<vars, block, hpc, head, turn, threadid, hkey, ticks, woke, torn, since>>

\* Enqueueing what thread_dequeue returns for an empty list, the index of the
\* root, cuts the root off from the threads of the ready list.  The state that
\* the handler then sets (timer.c 46) is home; for NTHREADS it is a word behind
\* thread_table, which no variable of this module stands for.
WalkLinks ==
  LET c == InsertBefore(ready_list, hcurr) IN
  /\ hpc = "walk"
  /\ ~WalkPasses(hcurr)
  /\ qnext' = InsertNext(qnext, qprev, threadid, c)
  /\ qprev' = InsertPrev(qprev, threadid, c)
  /\ key' = KeySet(key, threadid, hkey)
  /\ \/ /\ threadid \in Threads
        /\ home' = [home EXCEPT ![threadid] = ready_list]
        /\ order' = [order EXCEPT ![ready_list] = Append(@, threadid),
                       ![sleep_list] = IF @ = <<>> THEN @ ELSE Tail(@)]
        /\ asked' = [asked EXCEPT ![threadid] = 0]
        /\ since' = [since EXCEPT ![threadid] = 0]
     \/ /\ threadid \notin Threads
        /\ home' = [t \in Threads |-> IF home[t] = ready_list THEN Lost ELSE home[t]]
        /\ order' = [order EXCEPT ![ready_list] = <<>>]
        /\ UNCHANGED <<asked, since>>
  /\ head' = qnext'[head]
  /\ turn' = OnePast(turn)
  /\ hpc' = "loop"
  /\ UNCHANGED <<pc, locals, ret, pos>>
  /\ UNCHANGED <<block, threadid, hcurr, hkey, ticks, woke, torn>>

\* The locals are gone with the handler.
LoopEnds ==
  /\ hpc = "loop" /\ turn = NTHREADS
  /\ hpc' = "out"
  /\ head' = 0 /\ turn' = 0 /\ threadid' = 0 /\ hcurr' = 0 /\ hkey' = 0
  /\ UNCHANGED <<vars, block, ticks, woke, torn, since>>

Handler == LoopSkips \/ LoopWakes \/ WalkOn \/ WalkLinks \/ LoopEnds

ClockNext == Outside(Moves \/ Blocks \/ Statement) \/ Tick \/ Handler

ClockSpec == ClockInit /\ [][ClockNext]_clockVars

\* The processor goes on executing the handler.
FairClock == ClockSpec /\ WF_clockVars(Handler)
=============================================================================
