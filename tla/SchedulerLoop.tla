--------------------------- MODULE SchedulerLoop ---------------------------
(***************************************************************************)
(* What get_next_task of every scheduler does with a task it meets:        *)
(* sleepers that are due are woken, a task that can run is chosen, one     *)
(* that waits is put aside and one that is done is freed, with interrupts  *)
(* enabled from then on.  In which order the tasks are met is what the     *)
(* schedulers differ in; each extends this module with its queues.         *)
(*                                                                         *)
(* Threads sleep by SYSCALL_SLEEP here; how the stores of kernel::sleep    *)
(* are cut by interrupts is RoundRobin's subject.                          *)
(***************************************************************************)
EXTENDS KernelCore, SequencesExt

CONSTANT Quanta   \* the quantum given to core::launch, in ticks

ASSUME QuantaAssumption == Quanta \in Nat \cup {Infinite}

\* The model covers the 49 days before the 32-bit tick counter wraps.
ASSUME NoWrapAssumption == MaxTick < TickModulus

VARIABLES
  kind,      \* SchedulerT, the scheduler the kernel is instantiated with
  waiting,   \* waiting_tasks_
  hand,      \* the task on_task_done is called for
  ticks      \* the ticks get_next_task read before its present loop

loopVars == <<kind, waiting, hand, ticks>>

LoopTypeOK ==
  /\ CoreTypeOK
  /\ waiting \subseteq Tasks
  /\ hand \in Tasks \cup {NoTask}
  /\ ticks \in Nat

LoopInit ==
  /\ CoreInit
  /\ waiting = {}
  /\ hand = NoTask
  /\ ticks = 0

\* try_push to a circular_queue, whose result nobody looks at.
Enqueue(q, t) == IF Len(q) <= MaximumTasks THEN Append(q, t) ELSE q

-----------------------------------------------------------------------------
(* The clock, the boot code and the threads                                *)

LoopSysTick == CountTick(counter, Quanta) /\ UNCHANGED loopVars

LoopBootAdd(t) == BootAddTask(t) /\ UNCHANGED loopVars
LoopThreadAdd(t, u) == TaskAddTask(t, u) /\ UNCHANGED loopVars

LoopThread(t) ==
  /\ \/ TaskStart(t) \/ Yield(t)
     \/ SvcSleep(t) \/ SleepReturn(t)
     \/ TaskDone(t) \/ TaskExitYield(t)
  /\ UNCHANGED loopVars

\* main() or a task adds one task too many.
LoopPanic == Panic /\ UNCHANGED loopVars

\* core::init_first_task runs get_next_task before the first tick comes.
LoopLaunch ==
  /\ mode = "boot"
  /\ mode' = "wake"
  /\ primask' = TRUE
  /\ UNCHANGED <<tick, counter, pend, current, tcbVars, threadVars, loopVars>>

LoopEnter  == PendSVEnter /\ UNCHANGED loopVars
LoopReturn == PendSVReturn /\ UNCHANGED loopVars

-----------------------------------------------------------------------------
(* get_next_task                                                           *)

\* Seeded fault: the comparison is off by one.
DueEarly(t) ==
  t \in waiting /\ next_run[t] <= (IF primask THEN tick ELSE ticks) + 1

\* waiting_tasks_queue::process compares with the ticks it read first, which
\* are behind only when edf's retry lets SysTick in.
Due(t) ==
  t \in waiting /\ next_run[t] <= IF primask THEN tick ELSE ticks

\* waiting_tasks_queue::process, one turn: the scheduler adds t to its queues.
Wake(t) ==
  /\ mode = "wake"
  /\ Due(t)
  /\ \A u \in waiting : next_run[t] <= next_run[u]
  /\ waiting' = waiting \ {t}
  /\ state' = [state EXCEPT ![t] = "READY"]
  /\ UNCHANGED <<tick, counter, pend, primask, mode, current, allocated,
                 next_run, threadVars, kind, hand, ticks>>

AllAwake ==
  /\ mode = "wake"
  /\ \A t \in waiting : ~Due(t)
  /\ mode' = "select"
  /\ ticks' = tick
  /\ UNCHANGED <<tick, counter, pend, primask, current, tcbVars, threadVars,
                 kind, waiting, hand>>

\* get_next_task returns t.
Return(t) ==
  /\ mode = "select"
  /\ current' = t
  /\ mode' = "restore"
  /\ UNCHANGED <<tick, counter, pend, primask, tcbVars, threadVars, loopVars>>

\* Seeded fault: only DONE is tested for.
ChooseSleeper(t) == state[t] # "DONE" /\ Return(t)

Choose(t) == state[t] \in Runnable /\ Return(t)

PutAside(t) ==
  /\ mode = "select"
  /\ state[t] = "WAIT"
  /\ waiting' = waiting \cup {t}
  /\ UNCHANGED <<coreVars, kind, hand, ticks>>

Retire(t) ==
  /\ mode = "select"
  /\ state[t] = "DONE"
  /\ hand' = t
  /\ mode' = "reap"
  /\ UNCHANGED <<tick, counter, pend, primask, current, tcbVars, threadVars,
                 kind, waiting, ticks>>

\* on_task_done, after which the loop goes on.
Reap ==
  /\ mode = "reap"
  /\ FreeTask(hand)
  /\ hand' = NoTask
  /\ mode' = "select"
  /\ UNCHANGED <<tick, counter, pend, current, kind, waiting, ticks>>

LoopThreads == LoopPanic \/ \E t \in Tasks : LoopThread(t)

=============================================================================
