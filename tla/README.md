# bareOS in TLA+

bareOS is a small teaching kernel for one RISC-V hart (QEMU `virt`): threads with a
round-robin scheduler, a delta list for sleeping threads, a preemptive timer, a UART with
ring buffers, a first-fit heap, a RAM disk with a flat file system, and a shell. This
directory holds TLA+ modules for the parts of it where several actors meet, the TLC
configurations that check them on small instances, and TLAPS proofs of the most important
results for every value of the constants.

All line numbers refer to the files under `src/kernel/`.

## 1. The system

### Parts, their state and their operations

| Part | State | Operations | Source |
|---|---|---|---|
| thread queues | `thread_queue[]` (`qnext`, `qprev`, `key`), two roots behind the threads' elements | `thread_enqueue`, `thread_enqueue_sleep`, `thread_dequeue` | `system/queue.c` |
| sleep | the sleep list, a delta list | `sleep`, `unsleep` | `system/sleep.c` |
| thread life cycle | `thread_table[]` (`state`, `parent`, `retval`) | `create_thread`, `wrapper`, `resume_thread`, `suspend_thread`, `kill_thread`, `join_thread` | `system/create.c` ... |
| scheduler | `current_thread`, saved contexts | `resched`, `ctxsw`, `ctxload` | `system/resched.c`, `ctxsw.s` |
| traps | `sstatus.SIE`, `__exception_signal` | `raise_syscall`, `handle_exception`, `disable_interrupts`, ... | `system/traps.c`, `bootstrap.S` |
| timer | the comparator | `handle_clk` | `device/timer.c` |
| boot | `boot_complete` | `initialize` | `system/initialize.c` |
| terminal | `tty_in`, `tty_out` with head and count | `tty_getc`, `tty_putc` | `device/tty.c` |
| UART, PLIC | `readchar`, the interrupt enable register | `uart_handler`, `uart_getc`, `uart_putc`, `handle_plic` | `device/uart.c`, `plic.c` |
| semaphores | `sem_table[]` | four functions, two of them empty, none called | `system/semaphore.c` |
| heap | the free list | `malloc`, `free` | `lib/malloc.c` |
| block store | the RAM disk | `bs_read`, `bs_write` | `system/bs.c` |
| file system | `fsd`, `oft[]`, the inodes on the disk | `fs_mkfs`, `fs_mount`, `fs_umount`, `fs_create`, `fs_open`, `fs_close`, `fs_read`, `fs_write` | `system/fs.c`, `lib/fs_*.c` |
| shell and commands | the line buffer, the last command's code | `shell`, `builtin_hello`, `builtin_echo` | `app/` |
| printing | none | `printf`, `fs_print_*` | `lib/printf.c`, `system/fsutil.c` |

### How they interact

Everything shares one address space and one hart. The kernel runs in supervisor mode; no
trap is delegated (`mideleg` is never written), so the timer, the UART and `ecall` are all
taken in machine mode, where the handlers run to their end without a further interrupt.
Two facts follow which most of the models turn on:

* `disable_interrupts()` clears `sstatus.SIE`, which does **not** mask machine-mode
  interrupts. The timer and the UART handlers run in the middle of "protected" code. The
  flag is only advisory: `handle_clk` reads it (`timer.c` 52) before it calls `resched`. So
  with SIE clear no other *thread* runs, but the handler's own work on the queues is done.
* `resched` and everything it calls run inside the `ecall` handler and are atomic.

The shell (thread 0) creates a thread per command, resumes it and joins it. `resume`,
`suspend`, `kill`, `join`, `sleep` and `unsleep` raise the RESCHED call; the timer calls
`resched` itself. Index 0 is both thread 0 and the `NULL` that several tests compare with.

### What is hard, and what correctness means

* **queues**: the links must be rings with the roots on them, at every turn of a loop and after
  every timer interrupt; every thread in at most one; every loop must end; the delta keys must
  add up to what each sleeper asked for although they wrap.
* **threads and scheduler**: states, ready list and `current_thread` must agree; nobody
  starves; a joined thread comes back; slots are not reused too early.
* **timer**: the handler must return, wake who is due, lose nobody.
* **terminal**: producer and consumer of a ring run without exclusion.
* **traps**: the number of a system call is in a global between two instructions; the timer
  may land there.
* **heap, file system**: no overlap, nothing lost, the copy in memory agrees with the disk,
  and the listings show it.
* **shell**: a line passes through a buffer that is edited in place, a stack, two other
  threads' slots and a byte before its answer and its code are there.

## 2. The modules

| Module | What it is |
|---|---|
| `QueueLinks` | the array `thread_queue` as functions and the pointer surgery on it |
| `ThreadQueue` | `queue.c` and the searches of `sleep.c`, one step per loop turn |
| `ThreadQueueSpec` | their properties |
| `FifoQueue` | abstract: a first-in first-out queue with removal from the middle |
| `ThreadQueueProofs` | TLAPS proofs about `ThreadQueue` |
| `Kernel` | thread life cycle, scheduler, boot, preemption, one step per call up to the switch |
| `KernelSpec` | their properties |
| `RoundRobin` | abstract: threads standing in a line, the first one runs |
| `KernelProofs` | TLAPS proofs about `Kernel` |
| `Traps` | `raise_syscall` and the end of a thread, taken apart where the timer may land |
| `Shell` | `shell`, `hello` and `echo` as threads of `Kernel` and `Traps` |
| `ShellProps`, `MCShell` | their properties; the lines that TLC types |
| `ShellProofs` | TLAPS proofs about `Traps` and `Shell` |
| `Repl` | abstract: a line is read, answered, and its code kept |
| `Printf` | what `printf` sends for a format and its arguments |
| `Clock` | `handle_clk` interrupting `ThreadQueue`, whose blocks are taken apart, one step per assignment |
| `ClockProps` | its properties |
| `ClockProofs` | TLAPS proofs about `Clock` |
| `Tty` | the ring buffers, the UART handler, the mailbox |
| `TtySpec` | their properties |
| `TtyProofs` | TLAPS proofs about `Tty` |
| `Heap` | `malloc` and `free`, one step per turn of their loops |
| `HeapSpec` | their properties |
| `HeapProofs` | TLAPS proofs about `Heap` |
| `FileSystem` | directory, bitmap, inodes, open file table, in memory and on the disk, one step per call |
| `FileSystemSpec` | their properties |
| `FileSystemProofs` | TLAPS proofs about `FileSystem` and `Listings` |
| `Listings` | what `fsutil.c` prints of `FileSystem` through `Printf` |
| `NamedFiles` | abstract: files with a name and a size, handles with a place |
| `FileData` | the loops of `fs_read` and `fs_write` over `bs_read` and `bs_write`, one step per turn |
| `FileDataSpec` | their properties |
| `FileDataProofs` | TLAPS proofs about `FileData` |
| `ByteFile` | abstract: a file as a row of bytes |

`Clock` extends `ThreadQueueSpec`, which extends `ThreadQueue` and `QueueLinks`: the
handler's steps are interleaved with those of the calls it interrupts, whose blocks of link
assignments, one step in `ThreadQueue`, are one step per assignment here. `Kernel` uses the
queues as what `ThreadQueue` shows them to be, a sequence and a set, and treats a call that
breaks `ThreadQueue`'s assumption as a fault that ends the behaviour. `Traps` extends
`KernelSpec` and is shown to implement `Kernel`; `Shell` extends `Traps` and `Printf`, and is
shown to implement `Repl` and, through `Traps`, `Kernel`: the calls of `Kernel` are made by
the program that the repository has, in its order, instead of by any that keeps to a set of
calls. `Listings` extends `FileSystemSpec` and `Printf`.

### ThreadQueue

`qnext`, `qprev` and `key` are the fields of `thread_queue`; `pc`, `curr`, `tid` and `k` are the
place and the locals of the call under way (`curr_thread`, `threadid`, `key`/`delay`). `home` is
which queue a thread is in as far as `thread_table` and the callers know. A loop turn is a step
(`EnqueueWalk`, `SleepFindWalk`, `EnqueueSleepWalk`, `UnsleepFindWalk`), the block of assignments
behind a loop another (`EnqueueLink`, ...), as there are no ticks in this module; what such a
block does besides the links (`EnqueueEnds`, ...) is shared with `Clock`. The `if (curr_thread)`
of `queue.c` 31 and 60 is `InsertBefore`: thread 0 is taken for nothing and the insertion goes in
front of the root. Assignments to one field are one `EXCEPT` in the order of the code, so that
coinciding indices resolve as in C. `order`, `pos` and `asked` are history variables. The
environment keeps the callers' contract (enqueue only a thread that is in no queue, sleep only one
in the ready list, unsleep only one in the sleep list); `Kernel` is where callers break it.
`thread_table[].priority` is never assigned, so the key in the ready list is 0 for everybody.

### Kernel

`state`, `parent`, `retval` are `thread_table`, `current` is `current_thread`, `sie` is
`sstatus.SIE`. `pc` says whether a thread is in the boot code, in its own code or in the
loop of `join_thread`; `mask` is the local of the same name of a thread that is switched out
in a call, `target` and `result` the argument and the value of `join_thread`. `Resched(st,
rd, m)` is the whole of `resched.c` after a call has produced the table `st` and the ready
list `rd`. `RootCalls` and `ChildCalls` are the calls that thread 0 and the others make:
the workload of a run. `Ticks` is when the timer may fire. `fault` names a broken contract:
a thread enqueued twice, a root unlinked by `sleep` of a thread that is not ready, an
endless search, an `ecall` inside a handler, a dead thread returning from `wrapper`, or the
timer handler caught on the boot-time sleep list.

### Clock

The handler has its own place and locals (`hpc`, `head`, `turn`, `threadid`, `hcurr`).
`SleepRootLinked` selects the sleep list's root as `initialize()` leaves it (zero) or as the
tests require it (`testing/ms5.c` 60, linked to itself). `asked` and `since` bound what is left
of a delay; `woke` and `torn` are history: somebody has been woken, a tick has landed in a block
on the sleep list.

The handler may come between any two assignments to the queues. A block is a list `todo` of
assignments, made one at a time (`Statement`); `Linking`, `Unlinking` and `Dequeuing` are the
blocks in the order of the code, with the locals (`prev`, `next`, `last`) that were loaded
before it, and what an assignment itself reads (`queue.c` 66, `sleep.c` 70, the load of
`curr_thread` behind a block) read when its turn comes. Where a block begins, `home` and `order`
change and the call counts as over; `linking` says which queue's links are half changed. A
turn of a loop is one step although it reads a key and then a link, and in
`thread_enqueue_sleep` subtracts between: a tick inside it changes the head's key only, unless
somebody is due or a block is half done, and only the turn that stands on the head reads that. If
the tick comes behind the turn's reading of the key, the turn is as if the tick had come after
it, else as if before; between the comparison in line 55 and the second load of the key in line
56 the tick takes 1 from the key, so that 1 more is left of the delay than the comparison has
seen: `k` is then what it would have been had the tick come before the turn, which passes
the smaller key all the more.

`TicksWhen` restricts when the timer fires: `any` time; `idle`, between calls; `early`, with nobody
due; `safe`, between calls, or with nobody due and the sleep list's links whole. Under `safe` ticks
land in the loops of `sleep`, `unsleep` and the enqueues, in the block of `thread_dequeue`, in those
of `thread_enqueue` and in `sleep`'s unlinking, and only the blocks of `queue.c` 60-76 and
`sleep.c` 68-74 are spared. What happens there is in section 4.

`thread_table` is `home` as far as the handler is concerned. With the index NTHREADS it reads a
priority behind the table, `BehindTable`, and writes a state there (`timer.c` 46), into a word
that belongs to no variable of the module.

### Traps

`signal` is `__exception_signal`, `place` how far each thread is in `kill_thread` or in
`raise_syscall`, `was` the table before the `kill_thread` under way (history). Every call but
`kill_thread` raises RESCHED with `sstatus.SIE` clear, and `handle_clk` switches threads only
with it set, so such a call is still one step, which resets the signal when its thread is
switched in again (`Raising`, `Lands`). `kill_thread` has restored SIE by then (`kill.c` 20):
it is four steps, `Ends` or `Ended`, `SignalSet`, `Ecall`, `SignalReset`, with `TimerSwitch` in
between. The handler looks the signal up only if it is in its table: -1 is compared as an
unsigned number and is not.

### Shell

`step` is where `shell()` is, `line` what is typed, `code` its `returnCode`, `tid` the result
of `create_thread`, `task[t]` what the command's thread is doing, with its copy of the line.
`shown` is history: what the last command printed. The buffer is an array of characters in
which the first word takes one place, so the places behind it are the code's less 3 or 4. The
edit of `$?` is the code's, place by place (`Put`, `ClosedUp`, `Substituted`): which place is
read before and which after it was written is what matters there. A line is read in one step,
as nobody but the reader looks at the buffer. `CreateFails` ends the behaviour: `resume_thread`
is called with index -1. `LinesAssumption` keeps lines inside the buffer, whose end `shell()`
does not look for, and free of `%`, since both commands pass what was typed to `printf` as
its format.

### Printf and Listings

A character is a string of length one, a conversion is one element of a format. `Takes` are
the three conversions for which `printf` takes an argument; any other letter behind a `%`, a
width too, is skipped without. The listings are operators on the state of `FileSystem`. A name
is one character that none of the labels is (`NamesPlain`), so a line can be found by its label.
The loop of `fs_print_fd` is the function of the bytes it has counted, and where that first
ends it.

### Tty

The calls are split at the accesses that an interrupt can tell apart: the buffer, the load and
the store of `count++`/`count--`, and the loads of `tty_out_head` and `tty_out_count` in
`tty.c` 56, whose order C leaves open (`PutcFirst` takes either, `PutcPlace` the other). The
handler is one step. A character is the
number of its key press, so that losing, repeating and reordering are visible. `inRaced` and
`outRaced` record that an interrupt fell into one of the windows: between the accesses of
`tty_getc` to the head and the count (lines 32-39), between the two loads of line 56 or the
second and the store, and between the load and the store of line 57.

### Heap

`header` is what `alloc_t` at an address says, `freelist` the pointer, `pc`, `prev`, `curr` and
`arg` the place and the locals of the call under way. The memory that the free list is given is
`Pool`: `heap_init` stores a difference of pointers to words as a size in bytes, so that of
`HeapBytes` it is `HeapBytes \div WORD`, a quarter (section 4); the properties about what
malloc gives out are about `Pool`. `Init` is the heap of `heap_init` or the
one that `free_tests` of `testing/ms7.c` lays out; only in the second is there a block in
front of the freed one, which `free` takes for granted. `FreeUndefined` is its write through a
null pointer and ends the behaviour. `held` is history: what callers hold. `spoiled` records
that a search has failed (`MallocFails`, the last block is marked as used) or that a block
could not be split (`MallocTakes`, it stays in the list as a used one): the properties are
stated up to then, and `GoOn` says whether callers go on afterwards.

### FileSystem

`root_dir` and `freemask` are the fields of `*fsd`, `super`, `bitmap` and `inodes` the blocks
of the RAM disk they are written to, `oft` is the open file table. A call is one step, since
no interrupt handler touches any of this. The calls that return -1 change nothing: they are
`CreateRefused` and `OpenRefused`. Names are shorter than `FILENAME_LEN`, which `fs_create` does not
check, and heads stay within the blocks of an inode (`LensAssumption`), behind which `fs_write.c` 42
looks for a block in the next entry of `oft`. The lookups are the code's own, with their flaws: the
check for an open file takes the descriptor's number for the entry's (`SeemsOpen`), the
lookup stops at `numentries` (`Listed`), an unused entry is one with 16777215 (`UNUSED`) in
`inode_block` (`FreeEntries`), which is what the extra byte that `memset` clears makes of
0xFFFFFFFF (`MemsetBelow`). `Reopen` and `Orderly` say what callers do: open a file that is
open, mount without having unmounted. The heap is not part of the model: `malloc` is taken
to succeed and `free` to leave memory alone, which `fs_mkfs`, `fs_mount` and `fs_umount` rely
on; `Heap` shows that what they free is the case that `free` does not handle.

### FileData

`device` is what the blocks of one open file hold, `head` and `size` are its entry's, `buff` and
`bytes` the argument and the local of `fs_write`, `local`, `len` and `got` the locals of
`fs_read`. The blocks hold anything at first, as those that `file_setup` fills all differ, and
between two calls `Seek` puts the head anywhere in the file, as the tests do (`ms10.c` 117;
`fs_seek` is a stub), so that what was written is read back. A turn of a loop is a step. `BsWrite`
and `BsRead` refuse a range that is not within a block of the device; nobody looks at what they
return, and after a refused `bs_read` the local buffer holds anything. `BlockAt` is
`inode.blocks`: its first `Owned` places are blocks, in an order that is not that of the file, as
`file_setup` of `testing/ms10.c` fills it, since `fs_create` and `fs_write` never give a file a
block.

## 3. The runs

Every run passes or fails in about two minutes at most. Deadlock checking is off where a bound, a
fault or a full buffer really ends the behaviour, on elsewhere.

| Run | Instance | What it shows |
|---|---|---|
| `thread_queue` | 4 threads, keys mod 4, delays 1 and 3 | links stay rings in the middle of every call, one queue per thread, walks stay on their ring and end, keys add up to the delays and to zero around the ring, the ready list implements `FifoQueue` |
| `kernel_shell` | 4 slots, the shell's calls, return values 0 and 1, ticks while the shell runs | ready list = ready threads, one running thread, no contract broken, join not interrupted, life cycle, nobody starves, joins return, `RoundRobin` implemented |
| `kernel_any` | 3 slots, every call for every thread | only the current thread is running; nobody stale is switched to |
| `clock` | 3 threads, keys mod 8, delays 1 and 4, 3 ticks between calls or, with nobody due, anywhere but between the assignments to the sleep list | delta keys age correctly although ticks land inside the walks and blocks; after waking, the sleep list is still a ring; the handler returns |
| `shell` | 3 slots, a line buffer of 8, 8 lines, numbers in base 2, codes mod 5, ticks at any point | one thread at a time reads keys; the end of a thread is one step for all others (`Kernel` implemented); every line is answered as `Repl` says; the shell prompts again |
| `tty` | buffer of 2, 4 key presses, 3 characters written | bounds, order, nothing lost, repeated or misplaced outside the named windows, mailbox read once |
| `heap` | headers of 2, 19 bytes on the free list: one block, or a free block of 1 and 4 used ones of 2; requests of 1, 3 and 6 | allocations and free list partition that memory, freed neighbours are coalesced, `malloc` fails only if it has no room, the loops end |
| `files` | 3 names, directory of 4, 3 files at most, 4 blocks of 2 bytes, 2 bits to a byte of the bitmask, 2 descriptors, heads up to 3 | directory, bitmap, inodes and open files agree in memory and on the disk over unmounting and mounting, the listings of `fsutil.c` show them, a name is refused exactly if it is taken, no block is left or the limit on files is reached, `NamedFiles` implemented |
| `file_data` | blocks of 2 bytes, 3 of them with any contents, 2 values of a byte, calls of up to 5 bytes, every head and size | reads return what is in the file, writes replace the right bytes (`ByteFile` implemented), both loops end |
| `join_slow` | violation | `join_thread` that had to wait keeps the slot and returns 0 |
| `clock_boot_hangs` | violation | on the boot-time sleep list the handler does not return |
| `open_twice` | violation | `fs_open` opens an open file again |

No run lists a `TypeOK`: the invariants presuppose it, and of six modules it is proved
(`ThreadQueue`, `Kernel`, `Tty`, `FileSystem`, `FileData`, `Heap`).
`ReadyKeys`, a part of the invariant proved for `ThreadQueue`, is not listed either.

### Bounds

Four threads are enough for every shape of a ring that the code can tell apart: an empty one, one
element, a head, a middle and a tail, with and without thread 0 among them; and for two threads in
each queue. `KeyMod = 4` makes keys wrap with delays of 1 and 3. In `kernel_shell` three children
beside the shell let the table fill up, slots be reused and a ready list have three entries. The
ticks of `kernel_shell` are with the sleep list's root as `initialize()` leaves it, and so only
while the shell runs and is in no queue; those of `shell` are with the root linked, at any point.
`Clock` needs two sleepers and a third thread to be preempted, and ticks before, in and behind one
call; keys mod 8 keep `MaxTicks` ticks from bringing the decremented root back to 0. A ring buffer
of 2 fills up, wraps and holds more than one character; 4 key presses overflow it. In `shell`
three slots let a command run beside one that was not reaped, and run out; base 2 with codes below
5 has codes of one, two and three digits; echo is typed 2 and 3 letters at a time up to 6, so that
its count passes the largest code; the lines have a `$?` in the middle, at the end, twice, and one
inside another, and hello no name, one too short and one. In `heap`, requests of 1 find a block
too small to split, requests of 3 fit what one freed block leaves only together with its
neighbour, and 6 needs two or three of them, so blocks are split, merged in front, behind and on
both sides, and searches fail. In `files` the free blocks run out with two files, before the limit
on files does (section 4 has the instance where the limit comes first), the descriptors when both
are open, and two files can swap descriptors; heads up to 3 with lengths 1 and 2 let a write end
before, at and behind the end of a file. In `file_data` five bytes over blocks of two touch up to
three of them, from an even and an odd head; two values of a byte in any arrangement and a head
that goes back tell a byte from its neighbours and what was written from what was there.

### Fairness

`FairSpec` of `ThreadQueue` has weak fairness of the steps of a call that has begun, and
`FairClock` of those of the handler: the hart keeps executing. `FairSpec` of `Kernel` has weak
fairness of "the current thread makes its next call": a thread's own code gets to its next
system call or its end, as the commands do; no fairness for the timer. `JoinReturns` is
stated under the assumption `ThreadsEnd`, strong fairness of each child's exit: a child that
gets the processor again and again ends at last. `FairShell` has weak fairness of the steps of
the shell and of the commands, as the hart goes on executing the current thread, and strong
fairness of the commands' steps: one that gets the processor again and again gets a step done
in one of its turns, which last a hundred thousand ticks of the clock (`timer.c` 14). Nothing
assumes that a key is pressed.
`FairSpec` of `Heap` and of `FileData` have weak fairness of the turns of a call that has begun.

## 4. Known departures of the code

Besides the violation runs, these properties are stated in the modules and broken by the
code; the constants reproduce them (the remaining constants as in the run of that module).

| Property | Module | Constants | Code |
|---|---|---|---|
| `JoinRestores` | `KernelSpec` | `RootCalls` create, resume, join; `ChildCalls` exit; `NTHREADS = 3` | `join.c` 15: the restore is commented out |
| `UserInterruptible` | `KernelSpec` | `RootCalls` create; `NTHREADS = 3` | `create.c` 32, 35 return without a restore |
| `ContractKept` | `KernelSpec` | `RootCalls` create, resume; `ChildCalls` sleep | `sleep.c` 26: the root of the ready list is unlinked |
| `ContractKept` | `KernelSpec` | `RootCalls` suspend; `ChildCalls` exit; `Ticks = {}` | `resched.c` 22: with nobody ready, a suspended thread is resumed by an `ecall` inside the handler |
| `ContractKept` | `KernelSpec` | `RootCalls` create, resume, yield; `ChildCalls` create, resume, yield, exit; `NTHREADS = 4` | `kill.c` 17: a freed child is still linked |
| `OthersStayQueued` | `KernelSpec` | `RootCalls` create, resume, suspend; `ChildCalls` yield; `Ticks = {}`, `NTHREADS = 4` | `suspend.c` 19: the head of the ready list is dropped, whoever it is |
| `UnsleptRuns` | `KernelSpec` | `FairSpec`; `RootCalls` create, resume, sleep, unsleep, yield; `ChildCalls` yield; `Ticks = {}`, `NTHREADS = 3` | `sleep.c` 75: the state stays `TH_SLEEP` |
| `ReadyNotLost` | `ClockProps` | `Delays = {2}`, `TicksWhen = "idle"`, `MaxTicks = 3` | `timer.c` 45: the ready list's root is enqueued |
| `WokenInTime` | `ClockProps` | `Delays = {1, 3}`, `TicksWhen = "idle"`, `MaxTicks = 3` | `timer.c` 48: the loop walks into the ready list |
| `SleepLeadsBack` | `ClockProps` | `Delays = {1, 4}`, `Users = {1, 2}`, `TicksWhen = "early"`, `MaxTicks = 1` | `queue.c` 62: a tick before line 63, with nobody due, follows the inserted thread's qnext 0 to thread 0 and dequeues the head, behind which lines 63-67 then link the thread |
| `TickReturns` | `ClockProps` | `TicksWhen = "early"`, `MaxTicks = 1` | `sleep.c` 71: a tick in `unsleep` follows the 0 just written to `qnext` to thread 0; nobody is due and the handler never ends |
| `WalkStaysOnRing` | `ClockProps` | `Delays = {1, 2}`, `TicksWhen = "any"` | `sleep.c` 23 under a tick |
| `CodeKept` | `ShellProps` | as `shell` | `join.c` 30: the value of a command that was waited for is lost, and `$?` with it (`testing/ms2.c` 37) |
| `CodeShown` | `ShellProps` | as `shell` | `shell.c` 87: with three digits each character is moved from a place already overwritten |
| `AlwaysServed` | `ShellProps` | as `shell` | `shell.c` 93: slots that no `join_thread` freed run out, and -1 is taken for a thread |
| `SignalIntact` | `Traps` | `TrapSpec`; `RootCalls` create, resume, join, yield, kill; `ChildCalls` yield, exit; `Ticks` root, child; `SleepRootLinked = TRUE`, `NTHREADS = 3` | `kill.c` 21: the RESCHED of a thread that kills another is lost if the timer lands between `traps.c` 25 and 26 |
| `RowsListed` | `Listings` | as `files` | `fsutil.c` 42, 56: widths take no argument, so the text is given a number |
| `PutcReturns` | `TtySpec` | `SPECIFICATION FairSpec`, `MaxPuts = 4` | `tty.c` 53: nothing enables the transmit interrupt |
| `KeysInOrder` | `TtySpec` | as `tty`, `TTY_BUFFLEN = 3` | `tty.c` 39, `uart.c` 91: an update of the count is lost, a key with it, or an old one is repeated |
| `EntireHeap` | `HeapSpec` | as `heap` | `malloc.c` 18: the size in bytes is a number of words, so the free block is not the "entire heap" of lines 11-13 |
| `NoOverlap` | `HeapSpec` | `GoOn = TRUE` | `malloc.c` 55: a block that was not split stays in the list and is merged with a freed neighbour |
| `FreeDefined` | `HeapSpec` | as `heap` | `malloc.c` 98: prev is null for a block in front of the free list, at boot already |
| `DirectoryFills` | `FileSystemSpec` | `NUM_BLOCKS = 6`, `BITS = 3`, `DIR_SIZE = 3`, `INODE_BLOCKS = 2` | `fs_create.c` 15: files are counted against the 12 blocks of an inode, not the 16 entries of the directory (`fs.h` 12, 36), so the 13th is refused |
| `OpenServes` | `FileSystemSpec` | as `files` | `fs_open.c` 18: an unrelated open file seems to be the one asked for |
| `SizesKept` | `FileSystemSpec` | `Reopen = TRUE` | `fs_close.c` 15 writes the older of two copies of an inode |
| `MaskExact` | `FileSystemSpec` | `Orderly = FALSE` | `fs_create.c` 99: the bitmap is saved, the directory is not |
| `WritesBytes` | `FileDataSpec` | `Owned = 1` | `fs_write.c` 42: no block is allocated, the error of `bs_write` is ignored |
| `HeadInFile` | `FileDataSpec` | as `file_data` | `fs_read.c` 26 does not look at the size |

## 5. The proofs

The theorems hold for every value of the constants that satisfies the named assumptions of
the module (`NTHREADSAssumption` and so on). TLC checked each invariant first, the auxiliary
ones too.

### `ThreadQueueProofs`: `TypeOK`, `Rings`, `OneQueueEach`, `WalkInQueue`, `FifoSpec`, `DeltasAddUp`

The inductive invariant is `TypeOK /\ Rings /\ OneQueueEach /\ WalkInQueue /\ ReadyKeys`. None
of the parts is inductive alone. Unlinking an element keeps the links a ring only if it is on
that ring (`OneQueueEach`) once (`Rings` says the sequence has no repetition); an insertion in
front of `curr` needs `curr` on the ring that is inserted into (`WalkInQueue`); and that an
enqueued thread goes to the tail, not in front of thread 0, needs all keys of the ready list
to be equal (`ReadyKeys`), which is also what makes the list first-in first-out. The lemmas
are about the links: `InsertKeepsRing` and `UnlinkKeepsRing` show what the assignments of
`queue.c` and `sleep.c` do to a ring, whichever of the indices coincide, `RingFrame` that
they leave the other ring alone; `InsertKeepsQueues` and `UnlinkKeepsQueues` put the two
rings together. `ReadyListIsFifo` maps each step to a step of `FifoQueue` or a stutter.

`DeltasAddUp` speaks of sums, which are folds. `SumIs` gets them from a function that goes up by
one key at each place: if the fold differed from it, then at a first place, and there it does
not. What is inductive is the local form, `DeltaInv`:

* `Deltas`: a key is the delay of its thread less the delay of the thread in front;
* `RootCompletes`: the root's key and the delay of the last thread make 0 or `KeyMod`, never more,
  so the wrapping additions and subtractions wrap at most once (`Wraps`);
* `DelaySplit`: what `thread_enqueue_sleep` has passed and what is left of `k` are the delay;
* `NullAwake`: thread 0 does not come into the sleep list, where `if (curr_thread)` (`queue.c` 60)
  would leave it its key; `sleep` sees to that (`sleep.c` 34), by losing it.

`InsertDeltas` and `RemoveDeltas` show that giving a key away and back keeps `Deltas`.

### `KernelProofs`

For every workload, `AnyInv` (`TypeOK`, `OnlyCurrentRuns`, `JoinsMasked`) is inductive:
`resched` is the only place where a state becomes running, and `ReschedRunsOne` shows that
it leaves no other. `StaleNotScheduled` is an action property that follows from its steps.

What the rest of the system promises only holds for callers that keep to some order, and the
theorems say which: `ShellWorkload` is the calls that the shell and its commands make. Under
it `ShellInv` adds `ReadyListExact`, `OneRunning`, `ContractKept` and `Family`. The last is
the strengthening: every thread is a child of the shell, which does not end, so that no
`kill_thread` frees a thread that is linked, and only the shell is ever in `join_thread` or
in the boot sequence, so that `resched` always finds somebody to run. `Lifecycle` and
`SchedulerSpec` (the refinement of `RoundRobin`) follow step by step from it.

### `ShellProofs`: `KillAtomic`, `SignalIntact`, `OneReader`, `ReplSpec`

Under `ShellWorkload`, for every number of threads and any lines. `KillAtomic` is a refinement:
`Traps` implements `Kernel` if the table is replaced by `was`, the one before the `kill_thread`
under way, for as long as the dying thread has the processor (`SeenState`). `KernelProofs` is
instantiated for that table (`Abs`), so everything proved in it holds of what the other threads
see, with the timer inside `kill_thread` too. The invariant is `TrapInv`:

* `Abs!AnyInv` and `Abs!ShellInv`: the invariants of `KernelProofs`, of the table that is seen;
* `TrapPlaces`: a thread that was switched out inside `kill_thread` is defunct or free. It is why
  nobody comes back to `traps.c` 26 or 27 with the signal of somebody else;
* `EndUnderWay`: the table differs from the one that is seen in the dying thread only, and in its
  `retval`, so whenever `resched` is called the step is `Exit` of `Kernel`;
* `SignalIntact` itself.

The steps before the switch map to a stutter, the switch, be it the `ecall` or the timer's, to
`Exit`. `EndFacts` says that there is a switch: the shell is ready while a command ends. A thread
that kills another is outside `ShellWorkload`; for it `SignalIntact` fails (section 4).

`ShellCallsTraps` maps every step of `Shell` to one of `Traps`, which needs the type of what
commands return (`TaskTypes`), so both refinements hold of the program. `OneReader` needs
`OneCommand`: a thread with a task is the last one created, has not ended, and the shell is
between `create_thread` and the end of `join_thread`; in `join_thread` it waits for that thread.

`ShellAnswers` is the refinement of `Repl`, for every set of lines that `LinesAssumption`
admits, every base from 2 to 16 and every width of a code up to three digits. It has two parts.

* **The data**: what the edit in place makes of a line is what `Repl` says of the text. The
  recursive functions of the model are `CHOOSE` expressions, of which something can only be said
  once a function that obeys the equations is there. `Recursive` says that it is, for every
  function in which each place is determined by places of lesser rank: there are approximations up
  to every rank (`Approximated`), and they agree (`Agreeing`). It is stated of sets and functions,
  not of operators, so that it can be cited. `Substituted` is then the last of a row of buffers
  (`Turns`), and the lemma `ThroughAll` follows the loop over `j` a turn at a time with the
  invariant `Through`: what stands in front of `j` is the text so far with each `$?` replaced,
  behind `j` stands the rest of the text as it was typed, and the string ends where the rest does.
  It is why no `$?` that came out of a replacement is replaced again. `Kept` is its precondition:
  less than three digits, or no `$?` in the text; with three digits the place that `shell.c` 79-84
  reads was written a turn before (section 4).
* **The steps**, by the invariant `AnswerInv`: the line that is served was typed and is a command
  (`LineKept`); the command's thread works on the copy of that line with the code as it was then
  (`TaskServes`), which does not change until the shell reads on; the thread that the shell joins has
  not been given away (`Joinable`), and what `join_thread` has returned is its code, or 0 if it had to
  wait (`ResultKept`). Every step then is one of `Repl` or a stutter (`AnswerStep`).

### `ClockProofs`: `SleepLeadsBack`, `ReadyLeadsBack`, `WalkStaysOnRing`, `DelaysAge`

For every number of threads, ticks and width of a key, with `SleepRootLinked` and `TicksWhen`
`idle` or `safe`: the conditions of the run `clock`, outside which section 4 has
counterexamples. `ThreadQueueProofs` is instantiated (`Base`) with `SeenHome`
and `SeenOrder` for `home` and `order`: a thread that a tick has lost, or that the handler has
taken off one list and not yet linked into the other, counts as one in no queue. For the links,
the keys and `curr` it has what they will be when the block under way is done (`SeenNext`,
`SeenPrev`, `SeenKey`, `SeenCurr`, by running what is left in `todo`). Then the first step of a
block is a step of `Base`, its assignments are stutters, and what is left are the handler's
steps. `ClockInv` is `Base!IInv` and

* `LoopHarmless`: a loop of the handler that interrupts a call, or that runs before a tick has
  ever found somebody due, finds nobody due, so that it stays on the sleep list and changes no link;
* `BlockInv`, what a block still has to do: at most six assignments. One of the ready list writes
  neither a link nor a key of an element of the sleep list (`Quiet`), so that running the rest of it
  after a harmless tick gives the same links as before it and the ticked key; over one of the sleep
  list the handler does not come, nor does a call begin one while the handler is in its walk;
* `WalkOnReady`: the handler's own `thread_enqueue` is on the ready list, which ends it at the root
  since all keys there are 0, be it with the thread it took or with the root's own index.

`Path` is a recursive function; `PathIs` shows that there is one, from a least number of steps for
which there is not, and `PathMeets` that on a ring it meets the places of the queue.

`DelaysAge` holds for ticks at any time, since it is about the time up to the first one that finds
somebody due or that lands in a block on the sleep list, where it may be lost: `CalmInv` is
`ClockInv` and `AgeInv` up to then. Its bounds `since` and `asked` are not what the keys add up
to, so `AgeInv` says that there is a number in between for each sleeper, what is due, of which the
keys are the differences (`Aged`), and at least 1. For a thread that is being inserted the same
holds of `k` and what it has passed, and at the head `k` is not 0, which the handler would take
for somebody due. A tick takes one from every number by taking one from the head's key
(`AgeTick`): that nobody is due keeps the head's key above 0 and the other keys from being 0.
Insertion and removal are `SleepLinkDeltas` and `UnsleepDeltas` of `ThreadQueueProofs`.

### `TtyProofs`: `TypeOK`, `NeverMore`, `KeysKept`, `OutputKept`, `KeysReadOnce`

`TypeOK` says the counts stay within the buffer, which needs `Counts`: between the load and the
store of a decrement or an increment, interrupts move the count only to the side that the store is
safe for. `KeysKept` needs `CountHeld` (no interrupt in the window, so the loaded count is the
count), `OutputKept` needs `PutHeld` (which character is in the hands of `tty_putc`, and that what
it has loaded of the head and the count is still so). `KeysReadOnce` needs `Mailbox`: what is in
`readchar` is newer than all that was read.

### `HeapProofs`: `TypeOK`, `Tiled`, `Coalesced`, `MallocServes`

For any size of the header, any requests and both layouts of the heap, however many blocks the
tests' one has. `HeapInv` says, up to the first search that fails or block that is not split:
there is a set `F` of addresses such that

* `Whole(F)`: the list that begins at `freelist` is `F` in the order of addresses (`ListOf`), and
  the blocks in `F` together with the allocations lie side by side from one end of `Pool` to
  the other (`Tiles`), each as long as its header says. `Tiled` alone is not inductive: it
  does not say that the list is sorted, which is why `free` finds the neighbours of a block.
* `Apart(F)`: neighbours are on the list only while `free` coalesces, and then not in front of
  where its loop is.
* `Searches(F)`: `curr` is on the list, `prev` the block in front of it, and all blocks that
  `malloc` has passed are too small. `free` has not passed the block it links.

There is one lemma per action, and under it one per change of the list and of the row of
blocks: `SplitTiles` and `SplitList`, `MergeTiles` and `RemoveList`, `InsertList`. `F` is a set, not
the recursive `Listed` of `HeapSpec`; `ListedIsF` proves that the two are the same, as the
addresses along the list increase and so it ends within as many steps as there are addresses.
`MallocServes` follows: if a gap had room, the block in it would be as long as the gap, since
`Apart` leaves no two blocks in one, and the search has looked at it. `TypeCorrect` is for
`~GoOn`: callers that go on with a spoiled list have blocks given out twice (section 4).

### `FileSystemProofs`: `TypeOK`, `DirectoryExact`, `MaskExact`, `InodesAgree`, `CreateServes`, `FilesSpec`, `ListingsTrue`

For any names and any numbers of blocks, entries and descriptors, under `OrderlyCallers`: no
file is opened twice and nothing is mounted that was not unmounted. Section 4 shows what
callers break who do otherwise. `SizesAssumption` bounds the blocks by 16777215, so that an
unused entry is not taken for a block's number.

The inductive invariant is `FilesInv`: the three agreements of the runs with `TypeOK` and

* `UnusedMarked`: an entry has no name if and only if `fs_create` takes it for unused. That
  `memset` clears a byte too many is what makes it true at the start; without it a new file
  could take the entry of another one.
* `SavedBetween`: while unmounted, the directory on the disk is the one that was in memory.
  `fs_create` saves the bitmask but not the directory, so this is not so while mounted, and
  is why mounting without unmounting has to be excluded.
* `OpenOnce`: no file has two descriptors, since `fs_close` and `fs_write` write the copy of
  the inode in theirs. It is preserved because such callers do not open an open file; the
  run `open_twice` shows that `fs_open` does not see to it.

There is one lemma per call. `CreateServes` says exactly when a name is refused, and needs a
count: with fewer than `INODE_BLOCKS` files, `numentries` is the number of an entry that is not
used, and `UnusedMarked` says that `fs_create` sees it. That it stops at `INODE_BLOCKS` files is
`DirectoryFills` in section 4. For `FilesSpec`, the refinement maps the used entries to files,
with the size that is in the inode on the disk, and the open descriptors to handles;
`SavedBetween` is why `Mount`, which reads the directory from the disk, leaves the files as they
are.

`ListingsTrue` follows from `FilesInv`; the work is about the texts, with `NamesPlain` and a
block of any size (`BlockSizeAssumption`). `Printed`, the division into digits and `Only` are
recursive functions or folds, so what they compute is proved by induction over sets
(`Inductive`, `Recursive`, `Flattened`): the digits of a number are numerals (`NumberPrinted`),
and `Only` of two texts put together is `Only` of each (`OnlyConcat`). For the mask,
`Shows(s, a, b)` says that `s` is the bits from `a` to `b`; it is put together bit by bit and
byte by byte, and the two bits that `fs_print_mask` prints as characters, `%` and a letter
that `printf` does not know, leave nothing behind (`MaskShown`). For the files, `LineFound`
says that the line behind a label is found if the label is nowhere in front of it, and
`FdListed` and `CountListed` that this is so. `BlocksWhole` is the loop of `fs_print_fd`: its
`bsize` is what is left of the size less the number of the block, not less the bytes counted.
While that is more than a block, a block is counted; when it is not, it takes the sum to the
size or past it, and the blocks so far with one more hold the size. So up to `INODE_BLOCKS` full
blocks it prints as many as the size takes.

### `FileDataProofs`: `TypeOK`, `ReadsContent`, `WritesBytes`

For every size, number and contents of blocks, every place of the head and calls of every length.
`DataInv` adds to `TypeOK` and `ReadsContent` where the loops are: `WriteLocals`, what is left to
be written stays within the places of `inode.blocks`, and `ReadLocals`, as long as something is
left to be read, `blockIndex` and `offset` are those of the position. Without it, `fs_read.c` 41,
which puts `offset` to 0 after every block, could fall behind or skip. The lemmas about `div` and
`%` (`Division`, `Quotient`, `InFront`) say that a position and its block and offset determine
each other. `ReadReturnsContent` also covers files that do not have all their blocks, for the
bytes in the blocks that they have. `WriteRefines` is for `AllOwned`, since `fs_write` loses what
goes to a block that the file has not got (section 4): a turn of its loop maps to `ByteFile`'s
step that replaces the next bytes, `WriteCall` to its call, `ReadReturn` to its move of the head,
`Seek` to its own, everything else to a stutter.

### Only model-checked

Liveness (`CallsReturn`, `ReadyRuns`, `JoinReturns`, `TickReturns`, `PromptReturns`), since it needs
ENABLED. Every invariant, action property and refinement of the passing runs has a theorem.

## 6. Not modelled

* **semaphores**: `sem_wait` and `sem_post` are empty, nothing calls them.
* **layout**: the words and columns of what is printed, beyond the conversions.
* **the bytes of a typed line one by one**: `Tty` has the mailbox character by character,
  `Shell` the lines; what a key does while nobody reads is `KeysReadOnce` of `Tty`.
* **a line longer than the buffer, or with a `%` in it**: undefined behaviour from there on,
  excluded by `LinesAssumption`.
* **the comparator, registers, hardware set-up**: below the level of the models. The
  comparator's high word is never written, which is listed as a hazard.
* **concurrent file system calls**: `fs_create` has no `disable_interrupts`; the kernel has no
  command that calls it, so `FileSystem` has one caller at a time.

## 7. Plan

Written, in this order: `QueueLinks` and `ThreadQueue`, because everything else stands on
them; `Kernel`; `Clock`, which composes the timer with the queues; `Tty`; `Heap`;
`FileSystem` and `FileData`; `Traps`; `Printf` and `Shell`; `Listings`; with `FifoQueue`,
`RoundRobin`, `NamedFiles`, `ByteFile` and `Repl` as their abstract specifications; the proofs
about `ThreadQueue`, `Kernel`, `Tty`, `Heap`, `FileSystem`, `FileData`, `Traps`, `Shell` and
`Clock`. To come: `fs_create` by two threads.
