---------------------------- MODULE RoundRobin -----------------------------
(***************************************************************************)
(* The kernel with the round-robin scheduler: the ready and the waiting    *)
(* queue, and the body of the PendSV handler, which wakes the sleepers     *)
(* that are due and then takes tasks from the ready queue until it finds   *)
(* one to run, putting sleepers aside and freeing finished tasks.          *)
(***************************************************************************)
EXTENDS KernelCore, SequencesExt

CONSTANT Quanta   \* the quantum given to core::launch, in ticks

ASSUME QuantaAssumption == Quanta \in Nat \cup {Infinite}

\* The model covers the 49 days before the 32-bit tick counter wraps.
ASSUME NoWrapAssumption == MaxTick < TickModulus

VARIABLES
  ready,       \* ready_tasks_, a circular_queue
  waiting,     \* waiting_tasks_, a heap on next_run: a set here
  hand         \* the task get_next_task has popped and not yet placed

schedVars == <<ready, waiting, hand>>
vars == <<coreVars, schedVars>>

ReadyCapacity   == MaximumTasks + 1   \* circular_queue<T, N> holds N + 1
WaitingCapacity == MaximumTasks

SchedTypeOK ==
  /\ ready \in Seq(Tasks)
  /\ waiting \subseteq Tasks
  /\ hand \in Tasks \cup {NoTask}

Typed == CoreTypeOK /\ SchedTypeOK

\* Every variable has its type; the counter stays within the quantum.
TypeOK == Typed /\ (counter = 0 \/ counter < Quanta)

Init ==
  /\ CoreInit
  /\ ready = << >>
  /\ waiting = {}
  /\ hand = NoTask

\* try_push; nobody looks at its result, so a full queue loses the task.
PushReady(q, t) == IF Len(q) < ReadyCapacity THEN Append(q, t) ELSE q

PushWaiting(t) ==
  IF Cardinality(waiting) < WaitingCapacity THEN waiting \cup {t} ELSE waiting

-----------------------------------------------------------------------------
(* The clock, the boot code and the threads                                *)

\* Seeded fault: the quantum comparison is off by one.
SysTickLate == CountTick(counter, Quanta + 1)

\* SysTick_Handler: a quantum is over after Quanta ticks, counted from the
\* previous quantum end and not from the last switch.
SysTick == CountTick(counter, Quanta)

\* scheduler::add_task is a push to the ready queue.
BootAdd(t) ==
  /\ BootAddTask(t)
  /\ ready' = PushReady(ready, t)
  /\ UNCHANGED <<waiting, hand>>

ThreadAdd(t, u) ==
  /\ TaskAddTask(t, u)
  /\ ready' = PushReady(ready, u)
  /\ UNCHANGED <<waiting, hand>>

Thread(t) == ThreadStep(t) /\ UNCHANGED schedVars

\* core::launch: init_first_task takes the head of the ready queue, which at
\* boot holds only READY tasks, and kernel_launch_impl starts it.  The first
\* SysTick is one period after systick_init and comes after this.
Launch ==
  /\ mode = "boot"
  /\ mode' = "thread"
  /\ IF ready = << >>
     THEN current' = Idle /\ UNCHANGED ready
     ELSE /\ current' = Head(ready)
          /\ ready' = PushReady(Tail(ready), Head(ready))
  /\ UNCHANGED <<tick, counter, pend, primask, tcbVars, threadVars,
                 waiting, hand>>

-----------------------------------------------------------------------------
(* scheduler::get_next_task in the PendSV handler                          *)

\* Seeded fault: the comparison is off by one.
DueEarly(t) == t \in waiting /\ next_run[t] <= tick + 1

Due(t) == t \in waiting /\ next_run[t] <= tick

\* Seeded fault: the task is moved but its state stays WAIT.
WakeStillWaiting(t) ==
  /\ mode = "wake"
  /\ Due(t)
  /\ waiting' = waiting \ {t}
  /\ ready' = PushReady(ready, t)
  /\ UNCHANGED <<coreVars, hand>>

\* waiting_tasks_queue::process, one turn of its loop: the top of the heap.
\* Interrupts are still disabled, so tick is the tick read before the loop.
WakeDue(t) ==
  /\ mode = "wake"
  /\ Due(t)
  /\ \A u \in waiting : next_run[t] <= next_run[u]
  /\ waiting' = waiting \ {t}
  /\ state' = [state EXCEPT ![t] = "READY"]
  /\ ready' = PushReady(ready, t)
  /\ UNCHANGED <<tick, counter, pend, primask, mode, current, allocated,
                 next_run, threadVars, hand>>

WakeEnd ==
  /\ mode = "wake"
  /\ \A t \in waiting : ~Due(t)
  /\ mode' = "select"
  /\ UNCHANGED <<tick, counter, pend, primask, current, tcbVars, threadVars,
                 schedVars>>

Popped(t) == mode = "select" /\ ready # << >> /\ t = Head(ready)

\* Seeded fault: only WAIT is tested for.
SelectNotWaiting(t) ==
  /\ Popped(t)
  /\ state[t] # "WAIT"
  /\ ready' = PushReady(Tail(ready), t)
  /\ current' = t
  /\ mode' = "restore"
  /\ UNCHANGED <<tick, counter, pend, primask, tcbVars, threadVars,
                 waiting, hand>>

\* Seeded fault: the chosen task stays at the head of the queue.
SelectKeepsHead(t) ==
  /\ Popped(t)
  /\ state[t] \in Runnable
  /\ current' = t
  /\ mode' = "restore"
  /\ UNCHANGED <<tick, counter, pend, primask, tcbVars, threadVars,
                 schedVars>>

\* A task that can run goes back to the tail of the queue and is chosen.
SelectRunnable(t) ==
  /\ Popped(t)
  /\ state[t] \in Runnable
  /\ ready' = PushReady(Tail(ready), t)
  /\ current' = t
  /\ mode' = "restore"
  /\ UNCHANGED <<tick, counter, pend, primask, tcbVars, threadVars,
                 waiting, hand>>

\* Seeded fault: the sleeper is also pushed back to the ready queue.
SelectWaitingTwice(t) ==
  /\ Popped(t)
  /\ state[t] = "WAIT"
  /\ ready' = PushReady(Tail(ready), t)
  /\ waiting' = PushWaiting(t)
  /\ UNCHANGED <<coreVars, hand>>

\* Seeded fault: the loop is left at the first sleeper.
SelectWaitingGivesUp(t) ==
  /\ Popped(t)
  /\ state[t] = "WAIT"
  /\ ready' = Tail(ready)
  /\ waiting' = PushWaiting(t)
  /\ current' = Idle
  /\ mode' = "restore"
  /\ UNCHANGED <<tick, counter, pend, primask, tcbVars, threadVars, hand>>

\* A sleeper found in the ready queue is put aside.
SelectWaiting(t) ==
  /\ Popped(t)
  /\ state[t] = "WAIT"
  /\ ready' = Tail(ready)
  /\ waiting' = PushWaiting(t)
  /\ UNCHANGED <<coreVars, hand>>

\* Seeded fault: on_task_done is not called.
SelectDoneLeaks(t) ==
  /\ Popped(t)
  /\ state[t] = "DONE"
  /\ ready' = Tail(ready)
  /\ UNCHANGED <<coreVars, waiting, hand>>

\* A finished task leaves the queue for the hand of on_task_done.
SelectDone(t) ==
  /\ Popped(t)
  /\ state[t] = "DONE"
  /\ ready' = Tail(ready)
  /\ hand' = t
  /\ mode' = "reap"
  /\ UNCHANGED <<tick, counter, pend, primask, current, tcbVars, threadVars,
                 waiting>>

\* on_task_done, in the middle of the loop.
Reap ==
  /\ mode = "reap"
  /\ FreeTask(hand)
  /\ hand' = NoTask
  /\ mode' = "select"
  /\ UNCHANGED <<tick, counter, pend, current, ready, waiting>>

\* The queue is empty: impl::get_next_task falls back to the idle task.
SelectIdle ==
  /\ mode = "select"
  /\ ready = << >>
  /\ current' = Idle
  /\ mode' = "restore"
  /\ UNCHANGED <<tick, counter, pend, primask, tcbVars, threadVars,
                 schedVars>>

Enter     == PendSVEnter /\ UNCHANGED schedVars
Return    == PendSVReturn /\ UNCHANGED schedVars
SysTickIn == SysTick /\ UNCHANGED schedVars
Panicked  == Panic /\ UNCHANGED schedVars

PendSV ==
  \/ Enter
  \/ \E t \in Tasks : WakeDue(t)
  \/ WakeEnd
  \/ \E t \in Tasks :
       SelectRunnable(t) \/ SelectWaiting(t) \/ SelectDone(t)
  \/ Reap
  \/ SelectIdle
  \/ Return

Next ==
  \/ SysTickIn
  \/ PendSV
  \/ Launch
  \/ Panicked
  \/ \E t \in Tasks : BootAdd(t) \/ Thread(t)
  \/ \E t, u \in Tasks : ThreadAdd(t, u)

Spec == Init /\ [][Next]_vars

(***************************************************************************)
(* Fairness.  main() launches the kernel.  A pending exception is taken    *)
(* and its handler runs on: WF of PendSV.  The SysTick exception is        *)
(* latched while interrupts are disabled and is then taken before anything *)
(* of lower priority, however often they are disabled: SF.  A thread in a  *)
(* kernel call proceeds whenever it is given the processor, although it    *)
(* may lose it each time: SF.  A task's own code owes nothing.             *)
(***************************************************************************)
Fairness ==
  /\ WF_vars(Launch)
  /\ SF_vars(SysTickIn)
  /\ WF_vars(PendSV)
  /\ \A t \in Tasks : SF_vars(KernelCallStep(t) /\ UNCHANGED schedVars)

FairSpec == Spec /\ Fairness

-----------------------------------------------------------------------------
(* Properties                                                              *)

InReady(t) == Contains(ready, t)

\* No task is lost or held twice (scheduler_round_robin.hpp, get_next_task
\* and waiting_tasks_queue.hpp, process): every allocated task is in exactly
\* one of the ready queue, the waiting queue and the hand of get_next_task,
\* once, and no queue holds a slot that has been given back.
TaskPlacement ==
  /\ IsInjective(ready)
  /\ \A t \in Tasks :
       /\ t \in allocated => InReady(t) \/ t \in waiting \/ t = hand
       /\ InReady(t) => t \in allocated /\ t \notin waiting /\ t # hand
       /\ t \in waiting => t \in allocated /\ t # hand
  /\ hand # NoTask => hand \in allocated

\* sleep(ms) does not return early (api.hpp, sleep_task_for): when a task goes
\* on after its sleep, the tick it asked for has come, however the stores of
\* sleep_task_for were cut by quantum ends.
SleepNotShort ==
  \A t \in Tasks : Executes(t) /\ pc[t] = "asleep" => deadline[t] <= tick

\* The context PendSV is about to save belongs to a task object that still
\* exists (impl.hpp, on_task_done): the thread that runs is Idle or is
\* allocated, and it is not a finished one that goes on past its exit.
RunningTaskExists ==
  mode = "thread" =>
    /\ current \in allocated \cup {Idle}
    /\ current # Idle /\ pc[current] = "gone" => pend

\* Every task that can run is run (scheduler_round_robin.hpp, "cycles through
\* all READY tasks equally"), even when the others never yield.
NoStarvation ==
  \A t \in Tasks :
    (mode # "boot" /\ t \in allocated /\ state[t] \in Runnable)
      ~> (mode = "thread" /\ current = t) \/ mode = "panic"

\* Every sleeper gets back to its own code.
SleepEnds ==
  \A t \in Tasks : (pc[t] = "asleep") ~> (pc[t] = "body") \/ mode = "panic"

\* The slot of every finished task is given back to the pool.
FinishedReclaimed ==
  \A t \in Tasks :
    (t \in allocated /\ state[t] = "DONE")
      ~> (t \notin allocated) \/ mode = "panic"

-----------------------------------------------------------------------------
(* Refinement: the service this kernel provides                            *)

LifeOf(t) ==
  IF t \notin allocated THEN "free"
  ELSE IF state[t] \in Runnable THEN "runnable"
  ELSE IF state[t] = "WAIT" THEN "sleeping"
  ELSE "finished"

LifeBar  == [t \in Tasks |-> LifeOf(t)]
UntilBar == [t \in Tasks |-> IF LifeOf(t) = "sleeping" THEN next_run[t] ELSE 0]
CpuBar   == IF mode = "thread" THEN current ELSE NoTask

Service == INSTANCE KernelService WITH
  Kernel <- NoTask, now <- tick, life <- LifeBar, until <- UntilBar,
  cpu <- CpuBar

\* The kernel provides the service: it dispatches runnable tasks only and the
\* idle task only when no task is runnable, wakes no sleeper before its tick,
\* and frees only finished tasks that are off the processor.
ImplementsService == Service!ServiceSpec

=============================================================================
