# A formal model of AikaRTOS

AikaRTOS is a small real-time operating system for Cortex-M (STM32F411 and
STM32H753). This directory holds TLA+ modules that model its kernel, its nine
schedulers, its allocators, its synchronisation primitives, the UART, the module
loader and the containers beneath them; TLC configurations that check them on small
instances; and theorems that the TLA+ proof system checks for every value of the
constants.

Paths below are relative to the repository's `aikartos/` directory: `inc/` is
`aikartos/inc/aikartos/`, `src/` is `aikartos/src/aikartos/`, `tests/` is
`aikartos/src/tests/`. `PROJECT.json` maps every definition that models code to the
lines it models.

## 1. The system

### Components

| component | state | operations | modelled in |
|---|---|---|---|
| kernel core (`src/kernel/kernel.cpp`, `inc/kernel/`, `inc/utils/object_pool.hpp`) | tick count, quantum counter, PENDSVSET, interrupt mask, current task, task pool, task control blocks | SysTick (with and without a hook) and PendSV handlers, event handler, `launch`, `add_task`, `sleep`, `yield`, `terminate_current`, end of a task, `panic` | `KernelCore`, `SchedulerLoop`; partly: no registers, no FPU frames |
| system calls, panic (`src/syscalls/`, `src/kernel/panic.cpp`) | none | SVC dispatch of sleep, yield, add_task | `KernelCore`; partly: no error code, no output |
| round robin (`inc/sch/scheduler_round_robin.hpp`, `waiting_tasks_queue.hpp`) | ready queue, heap of sleepers | `add_task`, `get_next_task` | `RoundRobin` |
| cooperative preemptive | the same, and a pool of scheduler data with each task's quantum | `configure_task`, `clear_task`, `add_task`, `get_next_task` | `CoopPreemptive` |
| fixed priority, priority aging | three queues; priority, base, threshold and score of each task | the same | `PrioritySchedulers` |
| EDF, CFS-like, events | a queue ordered by deadline or virtual run time | the same; the events and their handler | `DeadlineSchedulers` |
| MLFQ | three heaps; level, use, slices and boost of each task | the same; the SysTick hook, the boost | `Mlfq` |
| lottery, weighted lottery | slots, total of the tickets, count; tickets and rounds of each task | the same; the draw | `LotterySchedulers` |
| UART (`src/platform/*/device/uart.cpp`, `inc/device/uart.hpp`) | receive queue, data registers | receive interrupt, `try_read`, `blocking_read`; `try_write`, `blocking_write` | `UartReceive`; `LockedTasks` |
| synchronisation (`inc/sync/`) | spin lock flag, semaphore count, list of waiters, locked queue | lock, unlock, acquire, release, wait, notify, push, pop | `LockedTasks`, `ConditionVariable`, `MessageQueue` |
| memory core (`src/memory/memory.cpp`) | the allocator chosen by `init` | `malloc`, `realloc`, `free` | `Allocators` |
| TLSF allocators (`inc/memory/allocator/tlsf/`) | headers, index table | init, allocate, reallocate, free | `Tlsf` |
| free-list and dlist allocators (`inc/memory/`) | chain of headers | init, alloc, free | `ListHeap` |
| bump and buddy allocators | | | not modelled |
| containers (`inc/utils/`) | ring, vector, bitset, sparse and flagged storage, object pool | all that change state | `CircularDeque`, `RingClient`, `StaticVector`, `LightBitset`, `Storages` |
| random sources (`inc/rnd/`) | one or four words | `next`, `reset_state` | `RandomSources` |
| module loader (`inc/modules/`) | images in flash, copies in RAM | `get_module`, `load`, `get_entry_point`, `check_crc32` | `ModuleLoader`, `ImageCheck` |
| module build scripts; platform start-up, linker scripts, C stubs | | | not modelled |

### How they interact

`main()` calls `core::init`, `core::add_task` for the first tasks and
`core::launch`. `launch` starts SysTick at 1 kHz with priority 8, gives PendSV the
lowest priority 15 and jumps into the first task. From then on three things share
the processor:

* threads, which call `sleep`, `yield`, `add_task` and end, directly or
  through SVC (priority 0);
* SysTick, which counts ticks and asks for PendSV at the end of a quantum, or when
  the scheduler's hook says so;
* PendSV, which masks interrupts, saves the context of `g_current_tcb_ptr`,
  asks the scheduler for the next task and restores that one.

A scheduler calls back into the kernel while it searches: `on_task_done` gives a
finished task's object back to the pool, `on_quanta_change` sets the quantum that
SysTick counts against. It may return a task with an event, which the application's
handler answers, perhaps by terminating the task and asking for a retry. The kernel
and the schedulers share the task control block: a thread writes `state` and
`next_run` of its own block without a lock, and the scheduler reads them inside
PendSV.

Tasks share memory through `malloc` and `free` (each one critical section with
interrupts masked), through queues and primitives built on a spin lock, and through
the UART. The spin lock spins until the holder has been scheduled again. A loaded
module is linked to the address that `malloc` gave it and calls back through a table
of function pointers.

### What is hard here

* Preemption between any two stores of `sleep_task_for`, between the test of a status
  bit and the store to the register, between the test and the decrement of a count.
* The interrupt mask, which is not nested: `irq_critical_section` and
  `get_current_tcb` enable interrupts when they are done, whatever they were.
* A finished task is freed while its stack was the last one used, and its slot is
  constructed anew by the next `add_task`.
* Every push to a queue may fail and nobody looks at the result.
* Priorities, levels, deadlines, run times and tickets that change while the task is
  in a queue ordered by them.
* The quantum counter, which outlives the task it was counted for.
* An interrupt that pushes to a ring while a thread pops from it, without a lock.
* Wait nodes that live on the stacks of tasks which return as soon as they are told.
* Block headers, lists and index tables that have to agree after any sequence of calls.
* Objects constructed and destroyed by hand, code patched in place.

The list of hazards, each with its line, is in `PROJECT.json`. What would make the
components correct:

* *kernel and schedulers*: no task is lost or queued twice; a sleeper does not run
  early and does run in the end; a freed object is never executed; a task that can
  run is not starved (by a scheduler that promises so); the choice follows the
  scheduler's own measure; idle runs only when nothing else can.
* *rings and UART*: bytes come out in order, once each, and none is invented; the
  interrupt never writes where the reader reads; messages are whole on the line.
* *synchronisation*: mutual exclusion, no lost wake-up, no access to a node whose
  owner has left.
* *allocators*: clients' memory does not overlap; blocks tile the heap, no two free
  neighbours, every free block can be found and no block in use can.
* *containers*: they are the sequence, the set of bits or the table they stand for.
* *modules*: a copy is linked to where it lies; a damaged image is noticed.

## 2. The modules

| module | role |
|---|---|
| `KernelService` | abstract specification: what a kernel owes its tasks, without queues, interrupts or program counters |
| `KernelCore` | everything the schedulers share: handlers, pool, control blocks, the kernel calls of a thread cut at the points where an interrupt can fall |
| `RoundRobin`, `MCRoundRobin` | `KernelCore` with the round-robin scheduler as the body of PendSV; safety, liveness, refinement of `KernelService` |
| `CoopPreemptive`, `MCCoopPreemptive` | `RoundRobin` with a quantum for each task |
| `SchedulerLoop` | `KernelCore` with what `get_next_task` of every other scheduler does with a task it meets |
| `PrioritySchedulers`, `DeadlineSchedulers`, `Mlfq`, `LotterySchedulers` | the queues of the seven other schedulers |
| `Schedulers`, `MCSchedulers` | the kernel with one of the seven; the properties they share; refinement of `KernelService` |
| `ByteFifo` | abstract specification: what a reader of the UART is owed |
| `CircularDeque` | the ring: slots, head and tail, and its operations |
| `UartReceive`, `MCUartReceive` | the receive interrupt and one reading task; refinement of `ByteFifo` |
| `LockedTasks` | writers that share the transmitter under a spin lock; users of a semaphore |
| `ConditionVariable` | the lock-free list of waiters |
| `MessageQueue` | producers, the locked queue and a consumer |
| `Synchronization`, `MCSynchronization` | the three, side by side, for TLC |
| `Heap` | abstract specification: what an allocator owes its clients |
| `MemoryClient` | what the clients hold, and the arithmetic the allocators share |
| `ListHeap`, `Tlsf` | the free-list and dlist allocators; TLSF |
| `Allocators` | `malloc`, `realloc` and `free` over one of them; refinement of `Heap` |
| `BoundedSequence` | abstract specification of the containers of fixed capacity |
| `StaticVector`, `RingClient` | `static_vector` and all operations of `circular_deque`; both refine `BoundedSequence` |
| `LightBitset`, `Storages` | the bitset and its users: task configuration, statistics, object pool |
| `Words`, `RandomSources` | 32-bit words as sets of bit positions; the generators |
| `ModuleLoader`, `ImageCheck` | relocation; the checksum of an image |
| `Utilities`, `MCUtilities` | containers, storages, generators and loader side by side, for TLC |
| `RoundRobinProofs` (with `CoopPreemptive`), `SchedulersProofs`, `CircularDequeProofs`, `UartReceiveProofs`, `SynchronizationProofs`, `ListHeapProofs`, `AllocatorsProofs`, `UtilitiesProofs` | theorems |

A definition whose comment begins with *Seeded fault* is no part of any
specification. It is a wrong version of the definition below it (a dropped guard,
an off-by-one, a missing reset) and is used to see that a property fails when the
code is wrong in that way: `PROJECT.json` "mutants" says which replaces which.

### KernelCore and RoundRobin

| variable | code |
|---|---|
| `tick`, `counter` | `core::tick_count_`, the static `counter` of the SysTick handler |
| `pend`, `primask` | PENDSVSET, PRIMASK |
| `Quanta`, `Infinite` | the argument of `launch`, `constants::quanta_infinite` |
| `mode` | what the processor executes: boot code, the thread of `current`, a stage of PendSV, `panic()` |
| `current` | `g_current_tcb_ptr` (`Idle` is `impl::idle_`, `NoTask` is `nullptr`) |
| `allocated` | the pool's bitset; a task is named by its slot |
| `state`, `next_run` | `tcb.task.state`, `tcb.task.timing.next_run` |
| `pc`, `deadline` | where a thread is inside a kernel call, and the sum it holds in a register there |
| `ready`, `waiting` | `ready_tasks_`; `waiting_tasks_` as a set, because the order the heap gives to equal deadlines is left open |
| `hand` | the task `get_next_task` has popped and handed to `on_task_done` |

`CountTick(elapsed, quantum)` is the body of the SysTick handler; each scheduler's
module says which count and which quantum the handler sees, and `Mlfq` what its hook
makes of them.

Steps of PendSV: `PendSVEnter` (CPSID, save), `WakeDue` once for each sleeper that
is due, earliest first, `WakeEnd`, `SelectRunnable` / `SelectWaiting` /
`SelectDone` / `SelectIdle` for each turn of the loop of `get_next_task`, `Reap`
(`on_task_done`), `PendSVReturn` (restore, CPSIE). The handler is one atomic block
while `primask` holds; `Reap` clears it as the destructor of
`irq_critical_section` does, and SysTick may cut in from there on. That is why the
stages are separate actions.

A thread's kernel calls are cut wherever an interrupt can fall: `sleep_task_for`
is `SleepCall`, `SleepSetNextRun`, `SleepSetWait`, `SleepYield`, `SleepReturn`. The
same call through SVC is the single step `SvcSleep`: SVC has priority 0 and nothing
preempts it. A pending PendSV is taken before the thread's next step, SysTick
before any step that is not masked.

Assumptions of the kernel models:

* the first tick comes after `launch` is through (SysTick is enabled first, one
  period of 1 ms earlier);
* `terminate_current` is called with its default argument;
* a task sleeps and ends by itself; no task changes another's control block;
* ticks are counted up to `MaxTick` and stay there; `NoWrapAssumption` says that
  the model covers the time before the 32-bit counter wraps (49 days);
* registers and stacks are not modelled: a context is what `pc` and `deadline` say.

### CoopPreemptive

| variable | code |
|---|---|
| `quanta`, `default_quanta` | `impl_base::quanta_`, `impl_base::default_quanta_`, both 0 until `launch` |
| `seen` | the static `quanta` of the SysTick handler |
| `data_used`, `data`, `data_quanta` | the bitset of `data_allocator_`, `tcb.scheduler_data` of each task, `scheduler_data_type::quanta` of each slot |

`get_next_task` is textually that of round robin with two calls more, so the actions
conjoin what they do to those of `RoundRobin`: `CoopSelectRunnable` makes the chosen
task's quantum the kernel's, `CoopReap` gives the scheduler data back before
`on_task_done` frees the task, `CoopBootAdd` and `CoopThreadAdd` configure the task
in the critical section that allocates it. `SelectIdle` leaves the quantum alone, as
the code does. `ConfigureTask` takes the lowest free slot and has no case for an empty
pool, whose `alloc` would return a null pointer that the code dereferences:
`DataOwned` rules that out, as each slot in use then belongs to an allocated task.
`CoopSysTick` compares the quantum with the one it saw last and starts a new count
when they differ; while the quantum is infinite the count goes on in the code and
nobody reads it before it is cleared, so the model keeps it at its last value.

### SchedulerLoop and the seven schedulers

The seven remaining schedulers differ in the queues and in what they do to their own
data when they meet a task; what they do to the kernel is the same loop.
`SchedulerLoop` has its turns: `Wake`, `AllAwake`, `Choose`, `PutAside`, `Retire`,
`Reap`, `Return(Idle)`. Each scheduler conjoins to them what happens in its queues.
Threads sleep by `SYSCALL_SLEEP` here, which is one step; the cut version is
`RoundRobin`'s subject. `kind` is the scheduler the kernel was instantiated with.

| module | variables | code |
|---|---|---|
| `PrioritySchedulers` | `queues`, `priority`, `base`, `threshold`, `score` | `ready_tasks_` by priority; `current_priority`, `base_priority`, `aging_threshold`, `aging_score` |
| `DeadlineSchedulers` | `line`, `key`, `start`, `launched` | the queue in popping order; deadline or vruntime; when the task was chosen; whether the handler of PendSV and no longer `init_first_task` switches |
| `Mlfq` | `queued`, `level`, `used`, `slice`, `boost_after`, `last_boost`, `charged`, `scan` | `levels_`; `level`, `quantum_used`, `levels[]`, `boost_quanta`, `last_boost`; `current_`; the level the search has come to |
| `LotterySchedulers` | `slots`, `total`, `count`, `setting`, `tickets`, `win`, `lose`, `drawn`, `passed`, `checked`, `spot` | `ready_`, `total_tickets_`, `ready_count_`; the configuration, tickets and rounds of a task; the draw and the locals of the walk |

Aging: a switch pops, chooses and then walks all queues, moving every task whose score
has reached its threshold one queue forward; the walk is part of the action that
chooses. `edf` returns a task whose deadline has passed whatever its state, with an
event; `EdfExpired`, `EdfKill`, `EdfReplace` and `EdfPanic` are the answers of a handler
like that of `tests/edf.cpp`: let it run, terminate it, terminate it and add another,
with a retry, or find no slot for the other one, as the terminated task still has its
own. `terminate_current` enables interrupts on the way, so the retry may see SysTick, and
`waiting_tasks_queue::process` goes on comparing with the tick it read first (`ticks`).
`cfs_like` charges whatever is on top of the queue, and pushes it back with its new
key, before it looks at the waiting tasks' state. In `Mlfq` the hook `process_cuurent`
ends a quantum of one tick or none; the boost is the beginning of `get_next_task`. A
heap whose keys change inside is not ordered any more: which of its tasks it pops is
left open. In the lotteries the drawn number is any number below the total (how the
generators come by it is `RandomSources`' subject).

### UartReceive

`items`, `head`, `tail` are the ring of `rx_queue`; `register` is DR with RXNE (a
byte or nothing); `irq_used` is chosen once, as `init_rx` and `init_rxtx` do; `rpc`
and `value` are the reader's program counter and the byte it has loaded.
`LineByte` is the hardware: a byte that comes while RXNE is set is lost.
`ReceiveIrq` is the whole interrupt handler, atomic for the thread it cuts. The
reader's steps are the memory accesses of `blocking_read`: the test of `empty()`,
then the load of the slot and the store to `head_`. Neither of these is atomic
or volatile, they touch different objects, and the compiler may emit them in either
order; both orders are actions. One task reads, as in the repository's tests.

### LockedTasks, ConditionVariable, MessageQueue

Here a task can be preempted between any two accesses to shared memory, so every
access is an action, and what a program counter is called (`step`, `place`, `at`,
`doing`, `consumer`) names the access that comes next. A spin lock is its flag: the
action that sets it is enabled when it is clear, which stands for the loop with a
yield.

* `LockedTasks`: `blocking_write` tests TXE and then stores to DR; the transmitter
  (`Shift`) empties DR at any moment. The writers hold one spin lock, as the tasks of
  `tests/uart_blocking_write.cpp` do. `semaphore::acquire` tests the count and
  decrements it later.
* `ConditionVariable`: the waiter's node is on its stack and is named by its task.
  `wait` links it with compare-and-swap, unlocks, spins on `notified` and locks again;
  `notify_one` and `notify_all` load, exchange, mark and follow. `next` and `succ` are
  values read before an exchange and used after it. No task of the repository uses the
  class, so the callers are external: `discipline` chooses between notifiers that all
  hold the lock and a single one that does not. With two notifiers outside the lock
  `w->next` is read of a node whose owner may have left; nothing in the
  code promises otherwise, and the model leaves that use out.
* `MessageQueue`: the producers of `tests/producer_consumer.cpp` format into their only
  buffer, claim its flag and push its address; the consumer pops, writes and clears.
  `lock_` is the spin lock inside `circular_queue`.

### Heap, ListHeap, Tlsf, Allocators

`live` maps the pointers clients hold to the sizes they asked for; addresses count
from the aligned start of the region.

* `ListHeap`: `blk` maps the address of each header in the chain to size and mark; the
  chain is in address order and needs no variable. The search of `alloc` and the merge
  loops of `free` are steps of their own (`stage`, `cursor`, `want`), because
  `free_list` merges while it searches.
* `Tlsf`: `heap` is a record of headers (`hdr`) and index table (`bucket`); the
  functions of `tlsf/base.hpp` (`InsertToList`, `RemoveFromList`, `SplitBlock`,
  `Merge`, ...) are operators from heaps to heaps and each call is one action, as each
  runs in one critical section. The loops of the merges turn as often as there are
  blocks (`Turns`); a turn that finds no free neighbour changes nothing. `impl` chooses the state type: `region` keeps the table
  in the region, `fixed` in the object. `damage` records what `realloc` has done to a
  block it expanded in place (section 3, `tlsf_realloc`); with `FollowDamage = FALSE`
  a damaged heap is left alone, so the other properties are about heaps that are sound
  up to there.
* `Allocators`: `instance` is the allocator that `memory::init` was given.

### The utilities

* `StaticVector`: `cells` and `length`; a cell holds an object, is dead, or is `Torn`
  (constructed over, destroyed twice, read when dead).
* `RingClient`: every operation of `circular_deque` at once. The interleaved accesses
  are in `UartReceive`.
* `LightBitset`, `Storages`: words as sets of positions, with the padding of the last
  word; `asked` is the reference (what the callers set, and who owns which slot).
* `RandomSources`, `Words`: all 32 bits. `SourcesReversible` says of each draw that it
  can be undone.
* `ModuleLoader`: memory is halfwords; `Relocated` patches calls, moves and words as
  the code does, and `BranchTarget` and `Immediate` decode them as the processor does.
  `LoaderAssumption` says what an image is: a copy is at an even address and lies in the
  room, no two relocations are about the same halfword, none is about `bss` (which has
  no contents to relocate), and a call is within 4 MB of its target, because
  `apply_thm_call_reloc` always sets J1 and J2.
* `ImageCheck`: the CRC over the bytes with the field zero, and damage to a byte or to
  one or two bits of the stored checksum. The constant `StoredCrc` is what zlib returns
  for the image of the run.

## 3. The runs

| run | bounds | question |
|---|---|---|
| `round_robin` | 2 tasks, quantum 2, 3 ticks, sleep(0) and sleep(2) | type and placement invariants, no short sleep, no freed task executes, refinement of `KernelService`; no starvation, sleeps end, finished tasks are reclaimed |
| `coop` | 2 tasks, default quantum 1, given quanta 2 and infinite, 2 ticks, sleep(1) | types, scheduler data, the quantum in force, refinement of `KernelService`, sleeps that end |
| `coop_idle` | 2 tasks, all with an infinite quantum | a fault: does the idle loop give way to a sleeper that is due? |
| `schedulers` | 7 schedulers; 2 tasks, quantum 1, 2 ticks, sleep(1); priorities 0 and 2, thresholds 0 and 2; deadlines 0 and 2; slices 1, 1, 2, boost every 2 ticks; at most 4 tickets, two configurations | types, placement, sleeps, aging, tickets, the choice, refinement of `KernelService` |
| `mlfq_boost` | the same with `Mlfq` alone | a fault: does a boost bring a task forward? |
| `edf_ready` | `edf` alone, 2 tasks, relative deadlines 0 and 2 | a divergence from its header: does `edf` select a ready task? |
| `uart_receive` | queue of 2 + 1 in a ring of 4 slots, 3 byte values, 7 bytes | types, no overwritten slot, readers are served, refinement of `ByteFifo` |
| `sync` | 3 waiters and 2 notifiers; 2 writers, 2 messages of 2 bytes; 3 users of 1 permit; 3 producers with 3 messages, a queue of size 1 | types and the count, waiters, the line, the buffers |
| `memory` | regions of 128 bytes (TLSF) and 72 bytes (lists), requests of 0, 8 and 32 bytes | types, tiling, marks, lists, coalescing, recovery, refusals, refinement of `Heap` |
| `tlsf_realloc` | the same, damage followed | a fault: does a block in use stay a block? |
| `tlsf_fixed` | 216 bytes given to an allocator of 128 | a fault: do the buckets lead to free blocks? |
| `utilities` | vector of 3, ring of 4 slots, 3 bits in words of 2, all seeds of one bit with 4 draws each, 7 images at 2 addresses | containers, storages, generators, loader and checksum |

What the properties say:

* `TaskPlacement`: every allocated task is in exactly one of the ready queue, the
  waiting queue and the scheduler's hand, once; no queue holds a freed slot. This
  needs more than `get_next_task`: it depends on the pool being no larger than the
  queues, on sleepers being filed only when they are met in the ready queue, and on
  `add_task` reusing no slot that is still queued. `Placement` says it of the seven
  other schedulers, whose priorities, deadlines, levels and tickets change while a
  task is queued, and adds that a queue is where the task's own data say.
* `SleepNotShort`: a thread that is past its sleep has reached its deadline, even
  if it lost the processor between the stores of `sleep_task_for`. `edf` is excepted
  for tasks whose deadline has passed, which it runs even in their sleep, against its
  header (`edf_ready`).
* `RunningTaskExists`: the context PendSV will save belongs to an object that is
  still allocated; a task past its end executes no further.
* `ImplementsService`: only runnable tasks are dispatched, idle only when there
  is none, no sleeper becomes runnable early, only finished tasks off the processor
  are freed. It is said of all schedulers but two: `edf` returns expired sleepers, and
  `lottery` may find no winner and idle although tasks are ready. Both contradict the
  headers; see below.
* `NoStarvation`, `SleepEnds`, `FinishedReclaimed`: liveness, see below.
* `DataOwned`: the pool of scheduler data and the pool of tasks, allocated and freed in
  different steps, stay in step: no slot is shared, lost, or missing.
* `QuantumInForce`: no task runs on another one's quantum, at `launch`, after a task
  created by another, after a switch that reaped one or more tasks.
* `SleepEndsOrCooperative`: if finite quanta come into force again and again, every
  sleep ends. The premise is there because of the fault that `coop_idle` shows.
* `DispatchesFirst`: no task that could run has a better priority, an earlier deadline
  or a smaller vruntime than the one switched to, whatever was woken, added or changed
  since the last switch; and that one can run itself, unless `edf` returns it because
  its deadline has passed.
* `SelectsReady` asks of `edf` without that exception what its header says, and the run
  `edf_ready` shows that the code does not keep it.
* `NotOvertaken`: under aging a task that can run is passed over no more often than it
  takes to climb to the first queue and to wait for those that were there before. A
  task waits `Patience` switches in each queue, its threshold; one of 0, which the code
  accepts, works like one of 1.
* `TicketsAddUp`: the total that the weighted lottery keeps by hand is the sum of the
  tickets of the tasks in the draw (`validate_tickets` of the code).
* `SlotIsStable`: while the reader has seen an element and not yet loaded it, its
  slot is not written, in either order of the reader's accesses; the one slot the
  ring keeps free is what makes this true.
* `ImplementsFifo`: in order, once, nothing invented; a byte is lost only by an
  overrun of the line or, as the newest one, at a full queue.
* `ReaderIsServed`: a task that waits for a byte gets one when there is one.
* `WireIntact`: messages are whole and in order on the line, and out when the lock is
  given back.
* `SyncTypeOK` says besides the types that the semaphore's count is what is left of
  its permits, which is below zero when tasks met between test and decrement.
* `WaitersSound`: a waiter that has not been notified is in the list or in a
  notifier's hands, and every node that is linked, read or written is on the stack of
  a task that is still in `wait`.
* `BufferOnItsWayOnce`: a buffer is queued once, its flag is set as long, and of what
  is formatted meanwhile there is one message at most. (That one message may replace
  text that is being written: `producer_consumer.cpp:62` formats before it claims.)
* `BlocksTile`, `BlocksInUse`, `FreeListsSound`, `Coalesced`: headers, marks, links
  and buckets agree after any sequence of calls. `FullRecovery`: when everything has
  been given back there is one block and its bucket leads to it, although `split_block`
  takes a block out of its list twice and drops the blocks behind it on the way.
  `RefusesOnlyIfFull`: the list allocators refuse only what no stretch of free blocks
  can hold. `ImplementsHeap`: clients' memory lies in the heap and does not overlap.
* `ContainersAreSequences`: `static_vector` and `circular_deque` implement
  `BoundedSequence`, no object is constructed or destroyed twice. `StorageRemembers`:
  configuration chains, statistics and the pool remember exactly what they were given.
  `SourcesReversible`: no generator comes to zero, where it would stay. It is linear, so
  seeds of one bit are a basis. `ModulesAreSound`: every patched reference decodes to
  its symbol, nothing else changes, damage never passes the checksum.

Bounds. In `round_robin` two tasks are the fewest with which a slot is reused while
another task is queued or asleep, the pool is exhausted, and both sleep at once; that a
third task changes nothing is what the theorems show of the safety properties and the
refinement, for any number. A quantum of two ticks makes both a tick that ends it and one
that does not; three ticks let a sleeper be due and not yet due, and a quantum end in the
middle of a switch. After `MaxTick` the clock stops but quanta go on, so nothing is cut
off by the bound. sleep(0) makes a task due in the switch that puts it aside. Seven
bytes fill the ring, drop one and drive both indices around it. In `coop` the three
quanta are all the cases of the handler; every ordered pair of them meets at a switch.
In `schedulers` two tasks of any priorities, deadlines and configurations meet in every
order; priority 2 with threshold 2 climbs through all queues, a relative deadline of 0
is over at once and 2 never within the bound, slices of one and two ticks take a task
through all levels and a boost, and four tickets are reached and refused by the
configuration that wins often. More tasks are the business of the theorems. In `sync`
three waiters are a list with a middle; three producers and a queue of one slot make
both a full queue and a wait at the lock. In `memory` the regions hold three to five
blocks, so a block has neighbours on both sides, and requests of 0, 8 and 32 bytes
fall into different classes, leave rests that are and are not worth a block, and need
merging to be met; a region of another length changes the number of classes only. No
symmetry is used, because slots and addresses are ordered.

Deadlock is checked in all runs but `utilities`, where a loader that has panicked and
a pool that is exhausted have nothing more to do.

Fairness. `FairSpec` of `RoundRobin` assumes that `main()` gets to `launch`; that
PendSV, once requested, is taken and runs on (weak: it cannot be disabled from
within except by SysTick, which returns); that SysTick is taken again and again
(strong: it is latched while interrupts are masked and has the higher priority); and
that a thread in a kernel call takes its next instruction if it is given the
processor again and again (strong: it may lose it each time). Nothing is assumed of
the tasks' own code: a task may spin for ever without a yield, and `NoStarvation`
holds all the same. `CoopFairSpec` assumes the same of the same parts. `FairSpec` of
`UartReceive` assumes that a requested interrupt is taken and that the kernel keeps
running the reading task, which is what `NoStarvation` shows.

Faults and divergences found, each shown by a run:

* `coop_idle`: `get_next_task` calls `on_quanta_change` for a task, not for idle. When
  a task with an infinite quantum goes to sleep and nobody else is ready, the idle
  loop inherits the infinite quantum, SysTick never asks for PendSV
  (`src/kernel/kernel.cpp:42`), and as sleepers are woken only inside PendSV the
  system stands still. A cooperative task should run "until [it] yield[s] or block[s]
  voluntarily" (`inc/sch/scheduler_coop_preemptive.hpp:7`); `tests/coop_preemptive.cpp:57`
  sleeps in one, next to four tasks that never block and so hide the fault.
* `tlsf_realloc`: `reallocate` merges the block with its free neighbours, marks it free
  (`tlsf/base.hpp:198`) and relies on `split_block` to mark it used; when the rest is
  too small for a block, `split_block` returns before it does. The block a client holds
  stays marked free, and the next `free` of a neighbour swallows it.
* `tlsf_fixed`: `init` computes the sub-class of the first block from the length of the
  region, and `commit_region` cuts the region afterwards (`tlsf/base.hpp:152-165`).
  Given more memory than its capacity, the fixed allocator files the block in a bucket
  that `remove_from_list` does not clear, and which goes on leading to it when it is in
  use.
* `mlfq_boost`: the boost gives a task its first level back and leaves it in the queue
  of the level it had (`inc/sch/scheduler_mlfq.hpp:171`), behind all tasks of the first
  one: the starvation it is there to prevent.
* `edf_ready`: "The scheduler always selects the READY task with the nearest (earliest)
  deadline" (`inc/sch/scheduler_edf.hpp:6`), but a task whose deadline has passed is
  returned before its state is looked at (`:83-87`), one in WAIT too and also when
  others are READY. Its sleep ends early.

Found by reading, and not shown by a run of their own:

* `lottery`: "On each scheduling decision, a random draw selects one task proportionally
  to its ticket count" (`inc/sch/scheduler_lottery.hpp:6`), but the number is drawn over
  the tickets of sleepers too (`:68`), which the walk does not count, and each sleeper it
  meets brings the end of the walk nearer (`:71`, `:89`). The walk may end without a
  winner, and idle runs until the next switch although a task is ready (`LotteryIdle`).
* `mlfq` has the same standstill as `coop_idle`, whenever all tasks sleep: while no task
  is charged the hook never ends a quantum (`scheduler_mlfq.hpp:217`; `HookIdle`).
* A switch that meets a finished task runs on with interrupts enabled
  (`inc/kernel/impl.hpp:42`), although the pseudo-code above `PendSV_Handler`
  (`src/kernel/kernel.cpp:108-140`) puts all of it between `disable_irq` and
  `enable_irq`. All properties are checked and proved with SysTick cutting in from there.
* The counter of ticks is not cleared by a switch, so a round-robin task dispatched
  after another one's yield gets the rest of that one's quantum and no "equal slice".
* `configure_task` reads the default quantum when a task is added and `launch` sets it
  afterwards, so tasks added before `launch` without a quantum of their own have
  quantum 0 and are preempted at every tick.
* `apply_thm_call_reloc` or-s J1 and J2 into bits that its constant has set
  (`inc/modules/module.hpp:204`): calls are encoded right only within 4 MB, not within
  the 25 bits the comment names. Modules are far smaller.
* `static_vector::assign` with a range that fills the vector leaves its length zero
  (`inc/utils/static_vector.hpp:242`).
* The region-based TLSF table can be one row short for some lengths
  (`tlsf/impl/region.hpp:105`).
* `load` clears bss behind what `get_image_size` counts; `tests/modules_001.cpp`
  allocates that much.

## 4. The proofs

All theorems hold for every value of the constants that satisfies the named
assumptions of the modules.

`RoundRobinProofs` (assumptions: at least one task slot, a quantum that is a natural
number, 0 included, or infinite, `SleepTimes` a set of naturals, `MaxTick < TickModulus`):

* `InductiveInvariant`: `TaskPlacement` is not inductive. That a push never fails
  needs a bound on the length of the queue, which needs injectivity and the fact
  that a queued task is an allocated one; that `hand` is placed nowhere else needs
  to know in which modes it is in use; that a freed task is not executed needs that
  a task in state DONE has its program counter at its end and that `current` is not
  chosen from it; that a sleep is not short needs that a task in WAIT has stored its
  own deadline and that one past its sleep was woken by the clock. These facts are
  the conjuncts of the strengthening, and each action preserves each.
* `TypeCorrect`, `NoTaskLost`, `SleepIsNotShort`, `RunningTaskIsAllocated` follow
  from it. `TypeCorrect` adds that the count of ticks is below the quantum, so that
  the handler's test with `>=` never meets a count that has run away.
* `RefinesService`: every step of `RoundRobin` is a step of `KernelService` or a
  stutter under the mapping at the end of `RoundRobin`. The hard case is
  `SelectIdle`: with the ready queue empty every allocated task is asleep, so the
  service may dispatch the idle task.

The second part of `RoundRobinProofs` is about `CoopPreemptive` (assumptions: those, and
`GivenQuanta` a set of naturals and `Infinite`):

* `CoopInductiveInvariant`: the invariant of round robin, the correspondence of tasks
  and scheduler data, and that the quantum in force is the running task's. Every step
  of `CoopPreemptive` is a step of `RoundRobin` or a tick with another quantum; the
  lemmas of the first part are stated for the clock with any quantum and carry its
  invariant over. What is new is that a task that is reaped gives its slot of data
  back while `data` still names it for a task that is no longer allocated, so
  ownership can be stated of allocated tasks only and must hold across `Reap`, between
  whose two effects the task is in nobody's queue.
* `CoopTypeCorrect`, `SchedulerDataOwned` (`DataOwned`), `OwnQuantum`
  (`QuantumInForce`), `CoopRefinesService` (`ImplementsService`): the change of
  scheduler does not change what the kernel promises.

`SchedulersProofs` (assumptions: those of `SchedulerLoop` and of the schedulers'
parameters, all of them sets of numbers; `Kinds` a set of schedulers):

* `NoSchedulerWakesEarly` (`SleepNotShort`): for all seven schedulers. The first part of
  the module shows that a step of any of them does to the kernel's variables what one
  of a few steps of the loop does, or what `edf` and its handler do with an expired task
  (`CommonStep`, `EdfStep`); the invariant `SleepInv` speaks of the kernel's variables
  only.
* `NoTaskIsLost` (`Placement`), `FirstComesFirst` (`DispatchesFirst`) and
  `SchedulersTypeCorrect` (`SchedulersTypeOK`), for all seven, and `SchedulersServe`
  (`ImplementsService`), for all but `edf`, which runs sleepers (`edf_ready`), and
  `lottery`, which may idle without need (section 3). `QueueStep` says what the queues owe the loop (a woken or
  added task is held, what is chosen was held, what is put aside or retired is no
  longer, idle only when nothing is held), `ExpiredStep` what `edf` does instead, and
  `TasksInv` and the refinement follow from that alone. Then each family is shown to
  pay it: from `PrioState` (a task is in the queue of its priority, once, and the queue
  has room, also after aging has filed it anew), `LineState` (the queue is in order,
  also after the task on top has been charged), `MlfqState` and `LotteryState` (one
  slot for each task, `count` is their number, and the walk passes no task without
  looking). The proof for `mlfq` showed that a queued task's level may differ from its
  queue's in either direction: the boost lowers it, and the hook, which charges the
  task of the last switch while the next one is under way, raises it. Only "in one
  queue" is true.
* `AgingBoundsWaiting` (`NotOvertaken`). The bound is on a history of many switches, so
  the invariant has to say where in it a task is. `AgingInv`: outside the first queue a
  task was passed over at most as often as it has climbed, steps of the current queue
  included (`Climbed`); in the first queue, that number and its place in the queue
  together are within `Limit`, so that every switch that takes another task shortens
  the wait. It needs that aging keeps the order of a queue and appends those that
  arrive, which `AmongQueue` and `JoinQueues` establish of the walk of `tasks_aging`;
  that the task which ran falls back to the end of a queue; and that a score is below
  its threshold between switches.
* `TicketsAreCounted` (`TicketsAddUp`): the assertion of `validate_tickets`.
  `LosersFollow` and `WinnerFollows` go through `adjust_losers`, `decay_winner` and
  `reset_tickets` for one task: what is added to the total on the way is what its
  tickets change by, whichever of threshold and limit is met. They need that a task
  that has won since it was last set back has its base tickets, because `adjust_losers`
  applies the limit to the tickets as they were before. `SumTakeOut` and `SumOfChanges`
  carry this to the sum over all tasks; they are proved, like the other facts about
  sums, from the least set for which they fail (`SubsetInduction`).

`UartReceiveProofs` (assumptions: `NoByte` is no byte, the ring has two slots more
than the nominal queue size):

* `InductiveInvariant`: types, the ring is not empty between the reader's test and
  its removal, not full between its store to `head_` and its load, and the register
  holds a byte between `rx_ready()` and the read of a polled UART.
* `TypeCorrect`, `NoOverwrite` (`SlotIsStable`), `RefinesFifo` (`ImplementsFifo`).
  The lemmas, in `CircularDequeProofs`, are about arithmetic modulo the number of slots:
  what `Size` and `Elements` become when `head` or `tail` moves by one.

`SynchronizationProofs` (assumptions: finite sets of writers and producers, messages of
at least one byte, control values of the condition variable that are no tasks): all of
them about `Spec` of `Synchronization`, in which every part may move at every step.

* `NoWaiterIsLost` (`WaitersSound`). The strengthening has three parts. `CallerState`:
  the flag is set exactly while a task is between `lock` and `unlock`, one at most, and
  notifiers exclude each other, by the lock or because there is only one. `ListState`:
  the waiters nobody has told to go on are those on the list and those in the hand of a
  notifier, each in one of the two, and no link leads back to its node; a node that is
  being linked is fresh. `NotifierState`: the node a notifier has read is still on the list,
  and its successor is still the one read, even if waiters have pushed themselves in
  between. Pushes go to the front, and with one remover at a time a head that
  compares equal is the same visit of that node: this is what saves the list from
  the ABA problem.
* `Exclusion` (`MutualExclusion`): a user of the spin lock or a permit of the
  semaphore; the invariant counts who is inside.
* `MessagesAreWhole` (`WireIntact`): the bytes stored so far, modulo the length of a
  message, are the index of the one writer inside the lock; DR counts as a byte stored
  while TXE is clear.
* `BuffersTravelOnce` (`BufferOnItsWayOnce`): the flag of a buffer is set exactly while
  its producer is between claim and push or the buffer is on its way, and never both.
* `SyncTypeCorrect` (`SyncTypeOK`): types of the whole.

`ListHeapProofs` (assumptions: `ListEnd` a natural number within the heap, requests
natural numbers):

* `ListInvariant`: tiling and marks, that the block `free` works on is free
  (`merge_backward` does not look), and that two free neighbours of `dlist` are on
  their way to be merged.
* `ListBlocksTile`, `ListNothingLeaks`, `DlistNoFreeNeighbours`, `ListImplementsHeap`
  (`ImplementsHeap`).
* `ListRefusesOnlyIfFull` (`RefusesOnlyIfFull`): a request is turned away only when no
  block and no two free neighbours would do. `Passed` says that no block the search has
  left behind suits, alone or with its neighbour; the merges of the search itself keep
  that, and no other call begins while one is under way.

`AllocatorsProofs` (assumptions: those of `ListHeapProofs`, and for all theorems but the
last `UsableRegion`): all of them about `Spec` of `Allocators`, with whichever allocator.

* `UsableRegion` says what the code needs and does not check: a region of more than two
  headers and less than 2^32 bytes, for which `region::init` finds a table row for
  every class (section 5); no longer than the fixed allocator's capacity, which the run
  `tlsf_fixed` shows to be necessary; requests that do not wrap around when the header
  is added. The models' sizes have no width, so the last also limits what the theorems
  of `ListHeapProofs` say of the code.
* `AllocatorsInvariant`. None of the properties of TLSF is inductive alone, and
  most functions of `tlsf/base.hpp` are called on heaps for which they do not hold.
  `Sound` is what every function keeps: `Typed` (addresses and links lead to headers),
  `Linked` (a link and the link back agree, both ends are free and of one class, a
  bucket leads to a block of its class without predecessor) and `Tiles`. `Calm` (no two
  free neighbours) holds between calls only; inside them `CalmBut` excepts one block.
  - A block that is in use, or being merged, is `Loose`: in no list, with both links
    null. `RemoveFromList` takes a block without predecessor for the first of its list,
    so a second removal of a block empties the bucket of its class
    (`split_block` after `allocate` does this). The proof shows what saves the
    structure: the bucket loses blocks, but links and buckets still agree. That blocks
    drop out of their lists is why `Linked` speaks of the blocks that are linked and
    never says that a free block can be found.
  - `ForwardOnce` and `BackwardOnce`: in a calm heap the loops of `merge_forward` and
    `merge_backward` turn at most once. The block they stop at is used or there is none
    (`EndOfRun`, `StartOfRun`), so `MergedSize` can equate the size after a merge with
    `get_in_place_available_size`, which is what `realloc` relies on.
  - `merge_backward` changes the block behind, which `merge_forward` may
    swallow afterwards; `MergeBack` describes the heap in between.
  - `GivenBack`, `Taken` and `Grown` say what a call does to the blocks in use; the
    clients' side (`ClientTakes`, `ClientGives`, `ClientGrows`) and the refinement
    (`TakenFits`, `GrownFits`) follow from them and from `Tiles` alone.
  - `FirstFiled` is there for `FullRecovery`: with nothing in use the heap is
    one block (`OneBlock`), and the last `free` has put that one into its bucket.
* `MemoryTypes` (`MemoryTypeOK`), `AllocatorsTile` (`BlocksTile`), `AllocatorsHandOut`
  (`BlocksInUse`), `TlsfListsSound` (`FreeListsSound`), `AllocatorsCoalesce`
  (`Coalesced`), `TlsfRecovers` (`FullRecovery`): the invariants of the run `memory`.
  `TlsfBucketsFree` (`BucketsLeadToFree`) is the property the run `tlsf_fixed` violates,
  proved for regions within the capacity.
* `AllocatorsImplementHeap` (`ImplementsHeap`), with `FollowDamage = FALSE`: each call is
  a step of `Heap`. A `realloc` that moves takes the new block before it gives up the
  old one, which `Heap` need not know (`RoomWithout`).
* `AllocatorsRefuseOnlyIfFull` (`RefusesOnlyIfFull`): carried over from `ListHeapProofs`.

`UtilitiesProofs` (assumptions: those of the components, all of them that a size is a
natural number, mostly not zero, and that `Dead`, `Torn` and `NoSetting` are no values;
for the vector also `AssignMost < MaximumElements`, because an `assign` that fills the
vector leaves its length zero, section 3):

* `DrawUndone`, `SourcesCanBeUndone` (`SourcesReversible`): a draw of each generator can be
  undone from every state, not only from those the seeds of the run lead to. A shift by n
  followed by an exclusive or is undone n bits at a time (`ShlUndone`, `ShrUndone`), for
  words as sets of positions. A map that can be undone and takes zero to zero takes
  nothing else there.
* `ContainersImplementSequences` (`ContainersAreSequences`), from
  `VectorImplementsSequence` and `RingImplementsSequence`: every operation is a step of
  `BoundedSequence`. The loops of the vector are recursive functions over the cells.
  `Opened`, `Closed` and `Moved` are the cells in the middle of one; a turn takes each
  to the next (`OpenedStep`, `ClosedStep`, `MovedStep`), and on the way every
  construction is over a dead cell and every move out of a live one, otherwise the
  result would be `Torn`. `GoOnAlike` makes the induction, from the least index at which
  the loop and its description differ.
* `StoragesAlwaysRemember` (`StorageRemembers`). A position is a bucket and a place in
  it (`PlaceIs`, `PlaceBack`), which needs division with remainder only. `SetBitIs` and
  `ClearBitIs` say that no other bit changes, `FirstPositionIs` that the first bucket
  with a one has the least position, `PopcountIs` that the words' ones add up to the
  bits'. All of it rests on `Padded`: no operation sets a bit behind the last position,
  without which the searches and the count would be wrong in the last word.
* `ModulesStaySound` (`ModulesAreSound`), for images that `LoaderAssumption` describes
  and whose stored checksum is the one the kernel calculates (`CrcIsStored`, a hypothesis
  and not an assumption on the constants: in the run zlib's sum stands there, and
  `ModulesAreSound` shows that they agree, or the undamaged image would be bad).
  - The loader: `CallPatched` decodes a patched call with `BranchTarget` and finds the
    target, over all words: subtraction is undone by addition (`MinusAddsBack`, carry by
    carry), the sign bit is extended over the bits the call has no room for. `MovePatched`
    and `WordStored` are its like for moves and words. `DoneOn` is one turn of
    `apply_reallocs`: the relocations so far are done, and what none of them is about is
    as it was copied. That no later one undoes an earlier one needs both that they are
    disjoint and that what is linked shows in two halfwords only (`LinkedByTouched`).
  - The checksum: `ShiftedTells` says that a turn takes different words to different
    words, because the polynomial has bit 31 and no shifted word has it. So two
    registers that differ go on differing for equal bytes, and equal registers differ
    after different bytes (`OneByteTells`), for images of any length.

Only model-checked: the liveness properties, because TLAPS does not reason about
ENABLED. Every safety invariant and every refinement that a passing run checks is proved,
under the hypotheses named above.
The library's induction theorems take an operator as a parameter, which the installed
provers cannot instantiate; where a loop or a recursive function needs induction it is
done by looking at the least counterexample (`LeastNumber`, `Iterates`).

## 5. Not modelled

* *Bump and buddy allocators*: neither overrides the pure virtual `realloc` of
  `allocator_base`, so they cannot be instantiated at this commit. (The same is true
  of the list allocators, whose algorithms are nevertheless worth having.) The bump
  allocator is one addition.
* *Registers and FPU frames*: `enable_fpu_for_task` (`inc/kernel/api.hpp:50-53`) sets
  the task's flag and then FPCA in two steps. A saved frame's layout is what that is
  about, and the models have none.
* *Vendor and host side*: start-up code, register settings of the devices, linker
  scripts, C runtime stubs, build scripts of modules, wording and layout of output.
* *Payloads*: the model of `realloc` does not have the bytes that `memmove` carries; that
  the header it writes to may lie in the moved payload is recorded in `damage` and not
  followed. `calloc` is `malloc` and a `memset`; the product of its arguments is not
  checked for overflow.
* *Regions of odd length* and the one TLSF table length that the search gets wrong.
* *The window of `launch`* before the first tick, the wrap of the tick counter,
  `terminate_current(false)`, two tasks that read one UART, `circular_queue::try_get`
  (which would lock its own lock twice, and which nobody calls), `static_vector::insert`
  with an argument inside the vector, `task_wrapper` with a null function
  (`inc/kernel/impl.hpp:112`, straight to DONE), modules longer than 4 MB: cases that nothing in
  the repository reaches, each with a line under "hazards" in `PROJECT.json` or above.
* `check_crc32` writes to the image for the time of the calculation; the model has the
  two writes in one step, as nobody else reads an image meanwhile.

What could come next: the memory in which `region` keeps its table, so that a short
table shows; and liveness of the lotteries under a fair draw.
