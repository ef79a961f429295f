# Formal models of the kernel

TLA+ models of a small multithreaded kernel for i386 and of what its programs see
through the system calls, checked with TLC and, for the results listed under *Proofs*,
proved with TLAPS. Paths are relative to the repository's root; every definition that
models code is tied to its source lines in `PROJECT.json` ("map").

## The system

One processor. A system call or an interrupt enters the kernel with interrupts disabled,
runs to its end, and the kernel returns to whatever thread is active then
(`arch/i386/arch/interrupts.c`, `kernel/syscall.c`). There is no preemption inside the
kernel, so *one kernel entry is one step* of every model; what interleaves are the
entries: system calls of different threads, and the interrupts of the timer, the keyboard
and the serial port. The hardware does go on while the kernel works: the counter counts,
bytes and scan codes arrive.

| Component | Source | State | Operations | Talks to |
|---|---|---|---|---|
| Resource ids | `kernel/memory.c` | `idmask` and, behind it, `last_id` | new, free | used by threads, message queues |
| Threads, scheduling | `kernel/thread.c` | descriptors, ready queues and `rdy_mask`, join queues, `active_thread`, process list | create, exit, cancel, wait, self, start program, set priority | everything that blocks or wakes calls `kthread_enqueue`, `kthreadq_release(_all)`, `kthreads_schedule` |
| Semaphores | `kernel/semaphore.c` | value, queue | init, destroy, post, wait | threads |
| Monitors | `kernel/monitor.c` | lock, owner, entrance queue, condition queues, `qdata` | init, destroy, lock, unlock, wait, signal, broadcast | threads |
| Messages, signals | `kernel/messages.c` | messages and receivers per queue, least types | create, delete, post, receive, set | threads, ids |
| Error numbers | `kernel/errno.h` | `errno` of each descriptor | `SET_ERRNO`, `EXIT` | every call |
| Alarms | `kernel/time.c`, `programs/api/time.c` | list sorted by expiry, queue per alarm | new, set, remove, wait, delay, timer interrupt | threads, timer driver, RR, EDF |
| Timer driver | `arch/i386/arch/time.c`, `devices/i8253.c` | `clock`, `last_load`, `delay`, the counter | set, get, interrupt | alarms |
| Time arithmetic | `lib/types.h` | - | add, subtract, compare | all users of time |
| Secondary schedulers | `kernel/sched.c`, `sched_rr.c`, `sched_edf.c` | slice remainders; EDF ready and wait queues, periods and deadlines | activate, deactivate, set parameters, timers | threads, alarms |
| Allocators | `lib/mm/ff_simple.c`, `lib/mm/gma.c` | free lists, bitmaps, boundary tags | init, alloc, free | `kmalloc`, stacks, user heaps |
| Lists | `lib/list.c` | links | append, prepend, sorted add, remove, find and remove | all queues |
| Interrupts | `arch/i386/arch/interrupts.c`, `devices/i8259.c` | handlers per interrupt, lines enabled and in service, modes | register, enable, enter, leave | everything |
| Devices | `kernel/devices.c` | open, locked, a queue per device, standard devices | open, close, lock, unlock, set default, send, receive | threads, drivers |
| Keyboard | `arch/i386/arch/devices/i8042.c` | buffer of keystrokes, keys held, decoder | interrupt, send (push back), receive | devices |
| Serial port | `arch/i386/arch/devices/uart.c` | input and output buffer | interrupt, send, receive, configure | devices |
| Programs and API | `programs/` | retry loops of `wait_for_thread`, `receive_message` | - | system calls |

### What is hard here

* **Order of entries.** A thread that is released from a queue runs later, after any
  number of calls of other threads: what it was released for may be gone (join, receive),
  or must have been handed over in the kernel (semaphore units, monitor ownership).
* **Lifetime by counting.** A thread descriptor lives by `ref_cnt` (its own reference and
  one for each waiter), a process by `thr_count`, and both are addressed by pointers that
  outlive them. Only an id tells a descriptor from a later one at the same address.
* **Cached state.** `rdy_mask` repeats which ready queues are non-empty; `queue` and
  `state` repeat where a descriptor is linked; `qdata` and `owner` are addresses.
* **A call that ends in another thread's context.** After `kthreads_schedule` the active
  thread is not the caller any more, while the call is not over (`EXIT`).
* **Re-entrance through alarms.** An alarm's action may schedule, scheduling may set or
  remove an alarm, and setting an alarm runs those that have expired.
* **Time that passes inside a call.** The counter may expire in the kernel, its interrupt
  comes when the call is over; long delays are measured in several intervals.
* **Memory that describes itself.** Allocators keep sizes and marks in the memory they
  manage, at both ends of chunks; an error shows many calls later.
* **Decoders and buffers between interrupts.** A key's scan codes arrive one by one, and
  buffers are filled and emptied by interrupts and by calls.
* **Wrap-around** of ids, circular buffers, and carries in times; ids that have no bit in the
  mask.

The full list, at its lines, is in `PROJECT.json` ("hazards").

## Modules

| Module | Models | Extends |
|---|---|---|
| `UniqueId` | id allocator, operators on a record | |
| `IdPool` | resources taking and giving back ids | `UniqueId` |
| `KThread` | `kernel/thread.c`, operators on a record `k` | `UniqueId` |
| `Threads` | programs and the thread system calls | `KThread` |
| `CountingSemaphore` | what a semaphore promises (abstract) | |
| `Semaphores` | `kernel/semaphore.c`; refines `CountingSemaphore` | `Threads` |
| `Monitors` | `kernel/monitor.c` | `Threads` |
| `Messages` | `kernel/messages.c` | `Threads` |
| `TimeArith` | `time_t` (`lib/types.h`) | |
| `ArchTimer` | timer driver and its counter, operators on a record `tm` | `TimeArith` |
| `KAlarms` | alarms (`kernel/time.c`), operators on a record `s`: what depends neither on the actions nor on the scheduling | `KThread`, `ArchTimer` |
| `KTime` | Round Robin, EDF and their dispatch, and the alarms with them | `KAlarms` |
| `Alarms` | programs of `SCHED_FIFO` threads that use alarms and delays | `KAlarms` |
| `Schedulers` | programs with Round Robin or EDF threads | `KTime` |
| `MemPool` | words of memory | |
| `FirstFit`, `Gma` | the two allocators, operators on a record `m` | `MemPool` |
| `Heap` | what an allocator promises (abstract) | |
| `Allocators` | callers of one allocator; refines `Heap` | `FirstFit`, `Gma` |
| `Keyboard`, `Uart`, `Interrupts` | drivers and controller, operators on records | |
| `RingBuffer` | what a circular buffer promises (abstract) | |
| `KeyQueue` | the same where a reader may pass items over, by its flags (abstract) | `RingBuffer` |
| `Devices` | the device layer with its drivers and threads; refines two `RingBuffer`s and a `KeyQueue` | `Threads`, `Keyboard`, `Uart`, `Interrupts` |
| `MC*` | small sets and symmetry for TLC | the module named |
| `KThreadProofs` | lemmas about the search for an id, queues, the ready mask, scheduling, and creating, ending and collecting threads | `KThread` |
| `IdPoolProofs` | theorems about ids | `IdPool`, `KThreadProofs` |
| `ThreadsProofs` | theorems about threads: invariants, order of queues, lifetimes | `Threads`, `KThreadProofs` |
| `SemaphoresProofs` | theorems about semaphores, the refinement step by step | `Semaphores`, `ThreadsProofs` |
| `MonitorsProofs` | theorems about monitors | `Monitors`, `ThreadsProofs` |
| `MessagesProofs` | theorems about messages | `Messages`, `ThreadsProofs` |
| `AlarmsProofs` | theorems about alarms, the timer and delays; lemmas about times and counts | `Alarms`, `KThreadProofs` |
| `DevicesProofs` | theorems about the devices' locks, the drivers' types and ranges, the keys held, and the refinement of `RingBuffer` and `KeyQueue` by the three buffers; lemmas about circular buffers and the drivers' loops | `Devices`, `ThreadsProofs` |

### How state corresponds to the code

`UniqueId` keeps `last_id` and the set of the ids whose bit in the array `idmask` is set. The
array has `MAX_RESOURCES / WBITS` words, rounded down, 31 for the 1000 ids of the build: ids
992 to 999 have no bit in it, and the code uses the word behind it for them. In a kernel built as
`Makefile.kernel` and `arch/i386/kernel.ld` say that is `last_id`, the variable defined next, and every
access reads it from memory. `IdBit`, `SetIdBit` and `ClearIdBit` say so: below `MASK_BITS` a bit
of the array, above it a bit of `last_id` itself. Ids are handed out through this word and may be handed out
twice, so `IdPool` lets an id have several resources, up to the size of `Copy`.

`KThread` keeps the whole thread subsystem in one record `k`. Fields of descriptors
(`state`, `prio`, `queue`, `id`, `ref_cnt`, `exit_status`, `proc`) are functions over
`Desc`, the set of *addresses* a descriptor may have; `all_threads` says at which
addresses one is allocated. A freed descriptor keeps its fields, as it does in memory, and
its address may be allocated again: this is what makes stale handles, stale owners and
reference errors visible. All thread queues are sequences in one function `k.q`, indexed
by names (`ready_q(p)`, `join_queue(t)`, `wait_q(w)` for queues other modules own). A word
of `rdy_mask` is the set of its one bits; the number of levels per word is
`sizeof (word_t)`, as in the code. An ASSERT that fails sets `k.assert`, and no call is
made afterwards.

The operators have the names of the C functions and are composed in the order of the
calls: `kthread_cancel` is `kthreads_schedule(FreeOrRelease(Discount(Detach(..))))`. Loops
are closed forms (`kthreadq_release_all`, the search of `k_new_unique_id`) or functions
over the number of turns (the loop of `k_monitor_release` in `Monitors`), so that no
operator is recursive and the proofs can use them.

`Threads` adds programs: `handles`, the `thread_t` values programs have got (any thread
may use any of them; threads of a process share memory), and `joining`, for which handle a
thread is inside the retry loop of `wait_for_thread`. Each disjunct of `Next` is one call of the
active thread. `sys__wait_for_thread` has four branches and four actions.
`sys__cancel_thread` applies `kthread_cancel` twice, because the macro `EXIT` evaluates its
argument twice; in `Schedulers` too, with the hooks of the secondary schedulers: `thr_count` goes
down by two and the process may end with the caller in it.

`kernel/time.c`, `sched_rr.c` and `sched_edf.c` call each other at every turn: an alarm's
action schedules, scheduling activates a thread of a secondary scheduler, that sets an alarm,
and setting an alarm runs the actions of those that have expired. `KAlarms` holds
the parts of `time.c` that depend neither on what an alarm's action does nor on how threads
are scheduled. `KTime` closes the circle with recursion (`Settle`), as the code does. In `Alarms` every
thread has the policy `SCHED_FIFO`; no secondary scheduler is called, the circle is not there,
and no operator is recursive: the loop of `k_schedule_alarms` is a function over the number
of its turns. That is why `Alarms` can be proved about and `Schedulers` not.

The record `s` holds the threads `k`, the timer `tm`, the alarms (by address; a freed one
has no `magic`), the list `kalarms`, and in `KTime` the schedulers' data by descriptor. There
`kthreads_reschedule`, `kthread_create_sched` and `kthread_cancel_sched` are `thread.c`'s
functions with the hooks of `sched.c`, which `KThread` leaves out because they are empty
for `SCHED_FIFO`. The
counter is a number of ticks; times are pairs, with `NSEC` for the nanoseconds of a second,
and every conversion truncates where the code's does. In `Alarms` a call starts on the
state before or after a tick (`AtEntry`): the counter may expire inside it. `s.stop` says
why a behaviour ended: an ASSERT, or a thread queued twice (`two_queues`), after which the
links of the list are not a sequence any more, or a bound of the model.

`FirstFit` and `Gma` work on a record `m` of memory words, sizes and marks in the words the
code keeps them in, at addresses that are multiples of the word; the bits of a size word
and the two levels of lists are computed as the macros do. `Allocators` has one allocator,
chosen at the beginning, and callers that fill the blocks they are given: a chunk written
over is an error one can see.

`Devices` has all parts in every behaviour and drives one of them (`exercised`), because
drivers share no state with each other or with the locks. Interrupts pass through `Entered`
and `Left` of `Interrupts`, system calls too. `Decoded`, `Keystrokes`, `InBytes` and
`OutBytes` read the drivers' state for the properties. The history variables `kcall` and `ucall` keep what the
step, if it is a call, asked of the keyboard or the port: flags, items put in, whether
the port was to be set up. `BuffersInOrder` needs them to say that only that step
may do what was asked for.

Assumptions limit what programs do, each stated at its definition: a thread whose
process image has been freed makes no more calls (`UserCall`), and an initialised
semaphore, monitor or queue variable is not initialised again before it is destroyed; a
thread removes alarms that run a function before it ends, an alarm somebody waits for is not
disarmed, only its owner sets an alarm with IPC_WAIT again (`OwnersOnly`); an EDF thread
ends or is cancelled only after `edf_exit`, and a Round Robin thread does not change its own
priority. The last five are what the observations below are about.

## Runs

Common instance of the modules about threads: descriptors `idle`, `main` and two more (symmetric), at most `MaxIds`
threads created in a behaviour. In the runs of `Threads` and `Semaphores` there are 6
priority levels in 2 mask words and user priorities 1 and 9 (the second is clamped to 5),
and five creations for four addresses: an address is reused, two priorities give both
FIFO order and preemption, and the mask search crosses a word boundary.
`CHECK_DEADLOCK FALSE` is used where the system may really stop: after a failed ASSERT or
a halt, and when a thread of a freed process is active.

| Run | Result | What it shows |
|---|---|---|
| `IdPool` | holds | ids of the mask unique, mask exact, no immediate reuse, and what may stop the kernel, through wraps and with ids past the mask |
| `ThreadsCancel` | holds | all calls: queues, mask, states, counts, FIFO order, priorities, ASSERTs |
| `ThreadsLive` | holds | no cancelling: processes and descriptors live exactly as long as they should, and who waits for a thread that ends returns |
| `Semaphores` | holds | refinement of `CountingSemaphore`, no lost wake-up |
| `Monitors` | holds | mutual exclusion, nobody at an open monitor: two monitors, one condition queue, destruction, exits inside |
| `Messages` | holds | no stranded receiver, nobody at a deleted queue, ids of threads and queues exact |
| `Alarms` | holds | the list of alarms is sorted and exact, the timer is set for it, sleepers have an alarm and sleep long enough; calls in which the counter expires |
| `AlarmsInterval` | violated | what is left of a long delay is too short for the counter: its ASSERT halts the kernel (`arch/i386/arch/devices/i8253.c:65`) |
| `Schedulers` | holds | Round Robin and EDF threads: queues and states, slices, earliest deadline first |
| `SchedulersQueues` | violated | `edf_wait` queues a thread that an expired alarm has just put into its ready queue (`kernel/thread.c:302`) |
| `Allocators` | holds | both allocators: chunks and lists sound, a fit is found, blocks of callers untouched (refinement of `Heap`) |
| `Devices` | holds | locks, held keys, and the three buffers (refinement of `RingBuffer` and `KeyQueue`) |

The switches `CancelUsed`, `SignalUsed` and the bound `MaxJoiners` select what programs
do. `ThreadsLive` has no `cancel_thread`, because of the second and third disagreements below.

**Bounds.** `MaxIds` (threads and queues created), `MaxJoiners` (threads waiting for one
thread: 0 switches joining off), `MaxValue` (semaphore value at which a program no longer
posts) and `MaxMessages` (messages in all boxes) are the only ones of the modules on
`Threads`, and they are guards of the actions that would exceed them. `MaxIds` is below `MASK_BITS` so that in these modules ids do not
wrap and none is past the mask; `IdPool` is about both. There `MAX_RESOURCES` = 15 and
`WBITS` = 4 make 12 ids of the mask and three past it, as 1000 and 32 make 992 and eight. Of the
three only 13 is ever handed out, as of the eight only 993 and 998: the bits of the others
are set in `last_id` when it holds their number. Id 13 may have two resources
(`Copy`), and the deletion of the second meets a bit that is clear. `Monitors` has three threads that may
contend for two monitors, all of one priority (9, clamped to the highest of two levels),
and neither joins nor cancels; four creations are enough for an owner, a waiter at the
entrance and a waiter of the condition. `Messages` has one global queue and the threads'
own ones, two messages, three levels in three mask words (a signal to a signal's thread is
clamped), cancelling but no joins. All its messages fit the receivers' buffers and no
least type is above them: both only add ways to refuse a message, and the instance with
two sizes of messages (720 000 states, six times as many) holds too.

In `Alarms` a second has `NSEC` = 10 "nanoseconds", a tick takes 2, the counter measures 4
or 6: delays of 3 and 10 ns are one shorter than the shortest interval and one that takes
two intervals, and carries occur. `MaxTime` (10 ns) stops the clock; two threads and three
alarms, one of them Round Robin's, are enough for alarms that overtake each other, expire
together, and repeat while others are waited for. `MaxHandlerId` bounds the threads alarms
start (a behaviour that exceeds it stops, `stop = "bound"`), and `MaxTurns` = 8 the alarms that
expire in one call, which no call in these runs reaches. In `AlarmsInterval` a delay of 9 ns leaves less than the shortest interval after one
of the longest.

`Schedulers` has a main thread and two workers (symmetric), slices of 3 ticks, jobs with deadlines 2 and
3 and periods 3 and 4, and the clock stops at `MaxTime` = 5; `MaxThreads` = 4. That is time
for a slice to be interrupted and resumed, for a period to end and its deadline to pass.

`Allocators` has 84 bytes for first-fit and 160 for gma and its tables, and requests of 4,
18 and 40 bytes: of the smallest chunk, of one that must be rounded up, of one that fits only
after joining. Several blocks exist at a time and the pools do run out.

In `Devices` both buffers of a driver have two entries, so that they wrap and overflow; the
chip has a FIFO of one byte; keys with one code, with a prefix, and with a prefixed code
that is also another key's; a key is pressed or released only when the earlier codes are read,
and `MaxPressed` special keys may be down at a time. A text contains the terminator; what is
pushed back contains a number that is no keystroke, which `i8042_insert_keystroke` leaves out.
Reads have no flag, `ONLY_ASCII`, `ONLY_LAST`, or both `ONLY_ASCII` and `CLEAR_BUFFER`; reads of
the port ask for one byte or, with size 0, only let the driver empty the chip, so that bytes gather in
the buffer. The theorem `BuffersAlwaysInOrder` is for all flags and sizes.

### Disagreements with the comments

Two runs are expected to be violated (`AlarmsInterval`, `SchedulersQueues`). Six more
properties state what comments of the repository say and the code does not do; they are
defined in the modules, and TLC refutes each in a few seconds or minutes with the constants
given. No passing run includes the calls or the property that would show it.

* *Id 0 is assigned* ("don't assign 0", `kernel/memory.c:142`): `continue` in the
  `do`-`while` jumps to the loop's condition, so after `last_id` wraps id 0 is handed out, and
  giving it back fails the ASSERT of line 155. `ZeroNotAssigned` with `IdPool.cfg`. The ids are
  not "unique system wide" either (line 125), nor does the search end in "Don't have free
  unique id!" (line 139) when they have run out; both follow from the next section's first point.
* *A process is removed under a live thread* (`kernel/thread.c:715`, against "last
  (non-kernel) thread - remove process", line 530): `EXIT` evaluates its argument twice
  (`kernel/errno.h:20`), so `sys__cancel_thread` cancels twice and `thr_count` drops by two.
  `ProcessOutlivesThreads` with `ThreadsCancel.cfg`.
* *Waiters of a cancelled thread never return* (`kernel/thread.c:484`, against "for thread
  termination", line 631): the state of a READY or WAIT thread is left as it is, its released
  waiters do not find it PASSIVE and block again. `WaiterReturns` with `ThreadsLive.cfg` and
  `CancelUsed = TRUE`, `UserPrio = {1}`, three more descriptors, one user process.
* *Deleting a queue does not schedule* (`kernel/messages.c:104`, against
  `kernel/thread.c:301-302`): a released receiver of a higher priority does not run.
  `HighestPriorityRuns` with `Messages.cfg` and `SignalUsed = FALSE`, `PRIO_LEVELS = 6`,
  `WORD = 4`, `UserPrio = {1, 9}`, `CancelUsed = FALSE`, `MaxJoiners = 1`.
* *A deleted queue stays in the "list of all global message queues"*
  (`kernel/messages.c:16` and `108`). `AllGlobalQueues` with the same constants, `UserPrio = {1}`.
* *Receiving by type removes the first message, not the one found*
  (`kernel/messages.c:273` and `289`); the ASSERT of line 290 halts the kernel.
  `FoundMessageRemoved` with the same and `MsgType = {1, 2}`, `RecvType = {0, 2}`.

### Observations without a run

Ids:

* The words of `idmask` end at id 991 (`kernel/memory.c:127`), and the bits of the ids behind
  are those of `last_id` (see *How state corresponds to the code*). When the search goes
  from 991 to 992 it finds bit 0 of `last_id` clear, sets it, and returns 993; the next one
  returns 998, and then 0 comes, once, as it cannot be given back. 993 and 998 are handed
  out again at each wrap, also while a thread or queue has them. Giving one back clears a bit of `last_id`,
  which moves the search back, or finds the bit clear and fails the ASSERT of line 155. Since the search ends there at the
  latest, the halt of line 140 is never reached. `OnlyStrayIdsStop`, `IdsUnique` and
  `NoImmediateReuse` are what remains true.

Threads, semaphores, monitors:

* With several waiters for one thread, one that comes after it has finished takes a
  reference (`kernel/thread.c:680`) that an earlier one, released but not yet run, relies
  on: the descriptor is freed and the earlier one gets 0 instead of the exit status.
* A waiter that is cancelled keeps its reference (`kernel/thread.c:504`): the descriptor
  it waited on is never freed.
* `EXIT` after `kthreads_schedule` (`kernel/semaphore.c:55` and others) writes the errno
  of the thread that has become active, not the caller's.
* A monitor's owner is an address: a new thread at the descriptor address of an owner that
  ended inside passes the test for `E_NOT_OWNER` (`kernel/monitor.c:142`).
* `start_program` passes `sched` before `prio` (`programs/api/thread.c:55`) and
  `sys__start_program` reads `prio` first: the priority asked for is never used. `Threads`
  lets the priority be any, which covers both readings.

Alarms and schedulers:

* `k_alarm_add` enqueues the alarm's *owner* (`kernel/time.c:155`), not the caller: a thread
  that sets somebody else's alarm with IPC_WAIT puts a READY thread into a second queue.
* An alarm disarmed by `alarm_set` with time 0 keeps its waiters, and nobody releases them.
* An alarm whose owner has ended starts its thread in a freed descriptor's process
  (`kernel/time.c:91`).
* When the counter expires inside a call, the call reads the new count with the old `clock`:
  the time it sees is too small by up to an interval, once.
* `kthread_set_prio` of the active Round Robin thread makes it READY and queues it; the
  scheduler's deactivation queues it again (`kernel/thread.c:910`).
* A thread that changes its own policy to Round Robin has no `slice_end` yet; it is an
  uninitialised value the next deactivation computes with.
* A Round Robin thread may run without an alarm for its slice: the alarm is left as it is
  where it is already set for an earlier slice. `SliceAlarmIsCurrent` is therefore about the
  alarms there are.
* An EDF thread of `EDF_TERMINATE` that ends or is cancelled without `edf_exit`, as in
  `programs/EDF/edf.c`, leaves its deadline alarm; when it expires, `k_alarm_remove` of NULL
  fails its ASSERT.
* An `edf_wait` or `edf_exit` after the deadline returns −1 with `edf.active` cleared: until
  the next scheduling of an EDF thread no job is selected.
* `edf_period_timer` and `edf_deadline_timer` may drop a thread from `edf.wait` that is not
  queued again; `edf_exit` does not clear the alarms' addresses it has removed; `EDF_SKIP`
  may queue a thread that is READY.

Allocators:

* The size asked for plus the header wraps at 2^32 (`lib/mm/ff_simple.c:67`,
  `lib/mm/gma.c:99`); the sizes of the models are far below. The ASSERT of `split_chunk_at`
  has its operands swapped (`lib/mm/gma.h:451`).
* `lib/mm/gma.c:3` says "Bug is present somewhere". None was found in the pools of the run.
* A program's `malloc` is not locked: threads of one process that allocate may interrupt
  each other. `Allocators` is about one caller at a time, as the kernel is.

Devices and drivers:

* `uart_interrupt_handler` tests bit 0 of IIR the wrong way (`devices/uart.c:167`): it
  returns without serving when an interrupt is pending, and reads on for ever, with
  interrupts disabled, when none is — as when a call has read the byte whose interrupt was
  latched (`spins`). Output that does not fit the chip stays in the software buffer until
  the next send, and LCR is never written.
* `ONLY_LAST` with `buf_last` = 0 reads `keyb_buffer[KEYB_BUFF_SIZE]` (`devices/i8042.c:98`)
  and moves `buf_first` and `buf_last` apart until a later read clears the buffer (`astray`). Releasing
  the right Ctrl key yields an event without `K_SPEC_KEY` (line 289), which reads as a
  character. Keystrokes pushed back go behind those that wait. `i8042_init` stops reading at
  the first code that is no keystroke.
* The mode a fault is judged by stays `KERNEL_MODE` until the first call or interrupt has
  returned: a fault of the first program before that halts the kernel.
* A device lock is never given up by a thread that ends or is cancelled, and any thread may
  unlock; send and receive do not test it.

**Fairness.** `FairSpec` assumes that as long as some thread can make a call, state-changing
calls go on being made, and that the retry loop of `wait_for_thread` repeats its call. The
first is that programs do not compute or poll for ever: the kernel has no preemption between threads
of equal priority under `SCHED_FIFO`, so a program that does would starve others by design.
The second is the loop in `programs/api/thread.c`.

**Abstraction.** Stacks, contexts, argument copying, private storage and memory exhaustion
are left out of `Threads`. All its threads have the policy `SCHED_FIFO`, for which the hooks
called by `kthreads_schedule` are empty, and so do those of `Alarms`; `KTime` has the others. Messages are a type and a size.

## Properties

* `QueuesConsistent`, `HighestPriorityRuns`, `QueuesAreFifo`: the ready list and the queues
  against the descriptors and the mask.
* `WaitersHoldReferences`, `FinishedHasCollector`, `ProcessOutlivesThreads`,
  `ThreadsCounted`: lifetimes. `WaiterReturns`: nobody waits for ever.
* `NoAssertFails`: no ASSERT of `kernel/thread.c` and of the id allocator is reachable.
* `IdsUnique`, `NoImmediateReuse`, `OnlyStrayIdsStop`, `IdsInUse`: ids identify, as far as the mask
  reaches.
* `NoLostWakeup`, `ImplementsSemaphore`; `MutualExclusion`, `NobodyAtOpenMonitor`;
  `NoStrandedReceiver`, `NobodyAtDeletedQueue`. The first of the last two uses the history
  variable `skipped`, which records the only ways a receiver may waste its wake-up.

* `AlarmListExact`, `NoOverdueAlarm`, `SleepersHaveAlarm`, `SleepsLongEnough`: the list, the
  timer set from it, and the threads that depend on it. "Long enough" and "not overdue" are
  up to what the timer can resolve, its threshold and its shortest interval.
* `SchedulingConsistent`, `SliceAlarmIsCurrent`, `EarliestDeadlineSelected`: what the
  schedulers do through `kthreads_schedule` and in alarms leaves queues, states, alarms and
  selection in agreement.
* `PoolSound`, `FitIsFound`, `ImplementsHeap`: the memory's own bookkeeping, when a request
  may fail, and what a caller sees.
* `LockHeldByOne`, `HeldKeysTracked`, `BuffersInOrder`: locks handed over, keys held, nothing
  lost, repeated or reordered in a buffer. Lost may be only the oldest of a full input buffer, by what comes in;
  what an output buffer has no room for; what setting up the port empties; and keystrokes that a
  read asks to pass over: with `ONLY_LAST` those before the last, with `ONLY_ASCII` those before the first
  character, with `CLEAR_BUFFER` those behind.

Every property of a passing run is shown to depend on the code by a mutant: a definition
changed the way a plausible mistake would (comments *Mutation:* in the modules).

What the runs do not reach, although the property or its comment covers it: `NobodyAtOpenMonitor` and
`MutualExclusion` are checked without cancelling, `NoStrandedReceiver` with messages of one type and
size (the theorems of `MonitorsProofs` and `MessagesProofs` are about all of it);
`ProcessOutlivesThreads`, `ThreadsCounted` and `FinishedHasCollector` are checked and
proved without cancelling. In `Gma`, with two lists in a level, a request is never below
`EXACT_LIMIT_SIZE` without rounding nor too large for the tables, and `FitIsFound` admits NULL
when a chunk would fit but is smaller than the size the search is for, as `gma_alloc` returns it. `Alarms` has no
handlers that set alarms; `Schedulers` has, and a thread there does not give itself a priority. The keyboard sends
the codes of keys: its answers (FA) to `i8042_set_leds`, and Pause, whose codes begin with E1, are left out.

## Proofs

Proved for every value of the constants, under the assumptions the modules name:
`MaxResourcesAssumption`, `WbitsAssumption` (a word has two bits at least and the mask one word), `KThreadAssumption` (descriptors are finitely many, the idle
thread is one, NULL is none), `ThreadsAssumption`, and `SemaphoresAssumption`,
`MonitorsAssumption`, `MessagesAssumption`, `DevicesAssumption` or `KAlarmsAssumption` (each
module's queues are among `WaitQueue` and distinct); for alarms also `NSECAssumption`,
`ArchTimerAssumption` (the counter's shortest interval is not longer than its longest, and that is less than a
second) and `AlarmsAssumption`; for devices also `KeyboardAssumption`, `UartAssumption`,
`KeysAssumption` and `BootAssumption`. `KeysAssumption` says which codes a keyboard's keys may
send: one, or E0 and one more, and of the special keys those that `i8042_prepare_char` has in
its tables, as the sets of codes the driver is written for do; which other keys there are, and what
they send, is left open. `BootAssumption` says that the keys held when the kernel starts are
those the codes sent before tell of. Ids wrap in `IdPool`; in the other modules they do not,
and stay in the mask (`MaxIds < MASK_BITS`, a bound of the model).

| Module | Theorems | States |
|---|---|---|
| `IdPoolProofs` | `TypeCorrect`, `UniqueIds`, `IdNotReusedAtOnce` | the invariants of `IdPool` and `NoImmediateReuse` |
| | `OnlyStrayIdsFail` | `OnlyStrayIdsStop`, for the ASSERT; that the halt is not reached is model-checked |
| `ThreadsProofs` | `TypeCorrect`, `QueuesStayConsistent`, `HighestPriorityAlwaysRuns`, `NoAssertEverFails`, `WaitersAlwaysHoldReferences` | the state invariants of the run `ThreadsCancel` |
| | `QueuesAreAlwaysFifo` | its action property `QueuesAreFifo` |
| | `ProcessesOutliveThreads`, `ThreadsAlwaysCounted`, `FinishedAlwaysHaveCollector` | the state invariants of `ThreadsLive`, when `CancelUsed = FALSE` |
| `SemaphoresProofs` | `SemTypeCorrect`, `NoWakeupEverLost` | the invariants of `Semaphores` |
| | `SemaphoresImplemented` | `ImplementsSemaphore`, the refinement of `CountingSemaphore` |
| `MonitorsProofs` | `MonTypeCorrect`, `MutualExclusionHolds`, `NobodyEverAtOpenMonitor` | the invariants of `Monitors` |
| `MessagesProofs` | `MsgTypeCorrect`, `NoReceiverEverStranded`, `NobodyEverAtDeletedQueue`, `IdsAlwaysInUse` | the invariants of `Messages` |
| `AlarmsProofs` | `AlarmsTyped`, `ListIsExact`, `NoneOverdue`, `SleepersAreReleased` | the invariants of `Alarms`, when `OwnersOnly` |
| | `NobodyWakesEarly` | its action property `SleepsLongEnough`, likewise |
| `DevicesProofs` | `LockAlwaysHeldByOne`, `DevicesTyped`, `HeldKeysAlwaysTracked` | the invariants of `Devices` |
| | `BuffersAlwaysInOrder` | `BuffersInOrder`, the refinement of two `RingBuffer`s and a `KeyQueue` |

The three theorems about lifetimes assume `CancelUsed = FALSE`, as the run that checks
them does: `cancel_thread` cancels twice, and a thread cancelled while it waits for another
never collects, so with it they do not hold (see *Disagreements with the comments* and *Observations without a run*).
The theorems about alarms assume `OwnersOnly`, as their run does: with IPC_WAIT `k_alarm_set` blocks the alarm's
owner, not the caller, and if that is another thread the owner may be in a queue already, or have ended.

### The argument

**Ids.** The inductive invariant of `IdPoolProofs` is `TypeOK` with `IdsUnique`, whose second half,
that the mask is exactly the set of held ids, is why a free bit means that nobody holds the
id. `NewIdFresh` (`KThreadProofs`) says what the search returns: an id of the mask that was free
and is not `last_id`, or an id past the mask, made by setting a bit of `last_id`, with the mask left
alone. It rests on `LeastExists`, the least element of a set of naturals. `FreeIdSteps` says the same of
giving back. That a bit of `last_id` is set or cleared matters to the mask only by where the
search goes on, so nothing is needed of it but that it is a number. Why the search cannot come back to where it
started, which depends on the numbers (with a multiple of `WBITS` ids all would have a bit, and they could run out), stays with the run.

**Operators of `KThread`** (`KThreadProofs`), in three layers.

1. Lists and the mask: what appending, taking the head, removing, concatenating and choosing
   do to a queue's set of threads and to its freedom from repetition. `HighestLevel` shows
   that the two-step search of the mask finds the highest non-empty level, `MaskGrows` and
   `MaskShrinks` that setting and clearing one bit is enough.
2. `Consistent(k)`, the part of the invariant that holds at every point *inside* a system
   call too: queues and descriptors agree (`QueuesOK`), the mask and the queues agree
   (`MaskOK`), nobody but `active_thread` is active (`ActiveOK`; the active thread itself may
   have blocked or ended), and the idle thread is active or ready (`IdleOK`). Each of
   `kthreads_schedule`, `kthread_enqueue`, `kthreadq_release_all` and `Detach` keeps it;
   after `kthreads_schedule` the active thread is active and has the highest priority
   (`Top`), whatever the caller did before. `IdleOK` is why there always is a thread to
   schedule, so that its ASSERT cannot fail.
3. `Good` adds `RefsOK` (which is `WaitersHoldReferences`), `IdsOK` (the ids of allocated
   descriptors are in use, all different, none 0) and `ProcsOK` (a process that is gone has no
   thread left to count). `CancelOK` holds for every thread that is not PASSIVE, allocated
   or not, so it applies to both calls that `EXIT` makes of `kthread_cancel`: after the
   first call the count of a freed descriptor is 0, the second makes it negative, and a
   negative count frees nothing.

**Threads** (`ThreadsProofs`). `GInv` adds to `Good` that no handle names the idle thread or has
id 0, so that a valid handle always names an allocated descriptor, and `IInv` adds that no
ASSERT has failed and that the highest priority runs; there is one step for each action of
`Next`. Beside the invariant, `SoundCall` says what any thread call may do to the
threads blocked in another module's queues: nothing, except take the one thread it ends out
of the queue it is in (`Frame`). That is all that the modules that block threads need to know of `thread.c`.

* *Order.* `InOrder` is `QueuesAreFifo` for one queue; appending, taking the head, removing
  and concatenating keep it. It does not compose in general, because a thread that leaves a
  queue and comes back in a later part of the call may lawfully change places: a call takes threads
  out and then puts others in, and `InOrderTwice` asks that nobody who left comes back.
  What the proof has to argue is `CancelAgain`: the second `kthread_cancel` of
  `cancel_thread` finds its thread PASSIVE or out of every queue, so it puts nobody back.
* *Lifetimes.* `LifeSteps` reduces the calls to five predicates: a thread is born, exits, joins,
  collects, or nothing happens to lifetimes. `CountInv` is `ThreadsCounted` with
  `ProcessOutlivesThreads`. For `FinishedHasCollector` the inductive
  invariant `CollectInv` counts references: one of the thread itself while it lives and one
  of each thread inside `wait_for_thread` for it (`RefsClaimed`, an upper bound); who waits
  for a thread that lives is in its join queue (`CollectorsWait`); and no handle has an id
  still to be given out (`HandlesOld`), without which a new thread could be born with
  a collector that never joined it.

**Semaphores.** `NoLostWakeup` is not inductive alone, because a call also has to find the
running thread in no queue and must move nobody but the threads it names; `SemInv` is its
conjunction with `IInv`. The refinement maps each call to one step of `CountingSemaphore` on its
semaphore and to none on the others; a thread call maps to `Withdraw` of the thread it ends
or to a stutter, from `Frame`; the order of the waiters is part of it.

**Monitors.** `MonInv`: threads at an entrance are at a live, locked monitor; a monitor is
locked exactly when it has an owner; whoever waits in a condition queue waits for a live
monitor (`qdata`); and a live thread that entered a monitor is accounted for: it is the owner, or
at the entrance, or in a condition queue for it. The four are stated of a
thread subsystem and a table of monitors, not of the variables, because
`k_monitor_release` must keep them in every turn of its loop, where the calling thread is between
states: `TurnKeeps` is one turn, `TurnsExist` and `ReleaseTurns` carry it to the end of the
loop by the least turn that would break it.

**Messages.** `MsgInv` rests on `GInv` alone: `delete_msg_queue` leaves ready threads of a
higher priority waiting, so `Top` does not hold after every call. It adds that a thread
blocked on a box is inside `receive_message` for it and the box exists, that the ids in use
that are no thread's are the queues', and `NoStrandedReceiver`: the proof counts the released
receivers of a box, which a post to a box with waiters increases by one and only the receivers decrease.
`skipped` is the set of boxes at which one of those released wasted its wake-up: it asked for another
type, found its message too big, or was cancelled. The theorem says these are the only ways.

**Alarms.** Times are pairs and a sum of exactly one second stays unnormalised, so that two
pairs may stand for one time; still `AddTimes`, `SubTimes` and `CmpValues` show that sums, differences
and comparisons are those of the integers the pairs stand for, and `TimeToCount` and
`CountToTime` how far the truncating conversions depart. The invariant `AInv` has two parts.
`Core`: the list is exactly the active alarms in order, an active alarm was set by a thread,
threads are blocked at active alarms only, and a thread inside `delay_until` has an alarm of
its own for the time it waits for, and is ready or blocked there; with `Good` of the threads. And,
unless the kernel has stopped, `TimerOK` and `TimerIsFor`: what the counter has measured
is never more than it was loaded with, and clock and delay together reach the first
alarm's time, up to what the timer cannot resolve. `Core` must hold at every point inside a
call, also between two turns of the loop of `k_schedule_alarms`, where the alarm that has
just expired is back in the list or inactive with its waiters still queued: `TurnKeeps` is one turn,
and `ExpireTurns` carries it to the last. `Slept` says of each turn that it takes a thread
out of its delay only if the delay is over at the time the loop compares with, from which `SleepsLongEnough`
follows; a call that ends one's delay early would have to know its alarm, and `UserAlarm`
is why no program does. TLC has checked `AInv` on the run `Alarms` too.

**Devices.** `LockInv`: whoever waits in a device's queue has called lock and not yet unlock,
at most one of those that have is not waiting, and the device is then locked. `k_device_unlock`
hands the lock to the first waiter without opening it; a thread that ends, also by a memory
fault, which is `sys__thread_exit` for the threads, leaves the queue but not the lock it holds.

The drivers' loops over codes, keystrokes and bytes are folds. What a fold computes for every
sequence the prover cannot say, since that is an induction over data; but a fold over a given
sequence is the last of a sequence of states, one for each turn, each made from the one before
by the loop's body (`LoopStates`), and that these states exist follows from the fold's
definition as a function on the subsets of its domain. A property of the loop is then carried from turn to
turn by the least turn that would break it. With this `DevInv` is inductive: `DevTypeOK`, with
`HeldKeysTracked` and `LockInv`. For the types, each turn of the five loops keeps the sizes
and indices in range. For `HeldKeysTracked`: decoding the codes the handler has read and then the rest is
decoding them all (`DecodedRest`), wherever the interrupt falls; what the decoder does depends on its
keys and its `multi_code` only, not on its last keystroke (`SameKeys`); the codes of one key leave
`multi_code` clear and change the set of keys held as that key does (`KeysAssumption`), and
`i8042_init` leaves the codes it has not read to the first interrupt.

For `BuffersInOrder` the invariant is `IsRing`, for each of the three arrays: `last` is `first` plus `size`,
modulo the capacity, and the queue is the `size` items from `first` on. One put and one take are
proved once, for any array (`RingPut`, `RingTake`), with the few facts about `%` they need (`ModOnce`);
`Newest` says what a queue that drops its oldest item keeps after any number of puts, which carries a
put through the loops of `uart_read`, `i8042_interrupt_handler` and `i8042_send`, as
`FirstJoined` does for the output that is refused. The line of the keyboard is the
keystrokes the codes will become, so the proof has to cut it where the interrupt does:
the keystrokes of the codes read, followed by those of the rest from the state the decoder is then in, are
those of all (`ArrivingRest`). A read takes the first keystroke
that suits its flags, from the oldest or from the last one on, as `Pick` of `KeyQueue` says. The
keyboard's `IsRing` is claimed while `astray` is false (`KeysOK`); a read that clears the
buffer makes it true again from any state (`ClearRing`), which is where `astray` ends.

### Left to TLC

* That ids never run out (the other half of `OnlyStrayIdsStop`): a matter of the bits `last_id` has for
  the given numbers of ids and bits.
* Liveness (`WaiterReturns`): fairness and ENABLED are beyond the prover.
* `Schedulers`, all properties, and `Alarms` with secondary schedulers. `KTime` has recursive
  operators, as the code is recursive through the alarms' actions (`Settle`), and the prover
  cannot handle them; nothing in the code bounds the depth, so a function over the number of
  turns would not be the same model.
* `Allocators`: chunks and free lists are read from the memory by recursion, and `gma` needs
  powers of two of the levels' sizes. The refinement of `Heap` rests on
  `PoolSound`.

## Not modelled

Boot and memory layout (address arithmetic at startup), contexts and entry points
(assembly), display, descriptor tables, the string and print library, stacks and private
storage of threads, exhaustion of the kernel's memory, the links of `lib/list.c` (queues are
sequences), user-level threads, and the example programs: any program is covered by the
models' arbitrary calls. Operations that no path of the system calls are left out of the
modules they belong to: `k_device_remove`, `arch_unregister_interrupt_handler`,
`i8259_irq_disable`, `uart_destroy`, `i8042_destroy`.

## What could come next

Every property of a passing run is a theorem, but for those under *Left to TLC*. Of these the
chunks of `FirstFit` are the nearest: with the chain of chunks as a function of the
address where it starts, instead of by recursion, `PoolSound` could be stated of one step of the chain
and proved for the first-fit allocator; `Gma` would need facts about powers of two and bits
beside it. `WaiterReturns` and `Schedulers` stay with TLC.
