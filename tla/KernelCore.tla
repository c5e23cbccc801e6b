---------------------------- MODULE KernelCore -----------------------------
(***************************************************************************)
(* The part of the kernel that every scheduler shares: the SysTick handler *)
(* with its tick and quantum counters, the PendSV request and the global   *)
(* interrupt mask, the pool of task objects, the kernel calls a task makes *)
(* (sleep, yield, exit, add_task) and its task control block.              *)
(*                                                                         *)
(* A scheduler module extends this one, adds its queues, conjoins them to  *)
(* the actions here and supplies the body of the PendSV handler.           *)
(*                                                                         *)
(* There is one processor.  mode says what it executes: the boot code, the *)
(* thread of the task current, a stage of the PendSV handler, or panic().  *)
(* SysTick (priority 8) runs to completion and may cut in before any step  *)
(* of a thread or of PendSV (priority 15) unless primask is set; a pending *)
(* PendSV is taken before the thread's next step.                          *)
(***************************************************************************)
EXTENDS Integers, FiniteSets

CONSTANTS
  MaximumTasks,   \* kernel::config maximum_tasks, the size of the pool
  TickModulus,    \* 2^32 in the code: the range of the tick counter
  MaxTick,        \* bound: ticks are counted up to here
  SleepTimes      \* bound: the arguments of sleep() that tasks use

ASSUME MaximumTasksAssumption == MaximumTasks \in Nat \ {0}
ASSUME TickAssumption == TickModulus \in Nat \ {0} /\ MaxTick \in Nat
ASSUME SleepTimesAssumption == SleepTimes \subseteq Nat

Tasks  == 1..MaximumTasks   \* a task is named by its slot in the pool
Idle   == 0                 \* impl::idle_, which no queue ever holds
NoTask == -1                \* nullptr
Infinite == -1              \* quanta_infinite, which is never reached

VARIABLES
  tick,        \* core::tick_count_
  counter,     \* SysTick's static counter: ticks since the last quantum end
  pend,        \* PENDSVSET in SCB->ICSR
  primask,     \* TRUE while interrupts are disabled
  mode,        \* what the processor executes
  current,     \* g_current_tcb_ptr
  allocated,   \* the slots whose bit is set in the pool
  state,       \* tcb.task.state
  next_run,    \* tcb.task.timing.next_run
  pc,          \* where each task's thread is
  deadline     \* the sum sleep_task_for computed, in the thread's register

tcbVars    == <<allocated, state, next_run>>
threadVars == <<pc, deadline>>
coreVars   == <<tick, counter, pend, primask, mode, current,
                tcbVars, threadVars>>

States   == {"NONE", "READY", "RUNNING", "DONE", "WAIT"}
Runnable == {"READY", "RUNNING"}

\* The points of a thread between which it can be interrupted: before the
\* stores of task_wrapper, in the task's own code, between the stores of
\* sleep_task_for, after its yield, and after the store of DONE.
Points == {"wrapper", "body", "set_next_run", "set_wait", "sleep_yield",
           "asleep", "exit_yield", "gone"}

HandlerStages == {"wake", "select", "reap", "restore"}
Modes == {"boot", "thread", "panic"} \cup HandlerStages

CoreTypeOK ==
  /\ tick \in Nat
  /\ counter \in Nat
  /\ pend \in BOOLEAN
  /\ primask \in BOOLEAN
  /\ mode \in Modes
  /\ current \in Tasks \cup {Idle, NoTask}
  /\ allocated \subseteq Tasks
  /\ state \in [Tasks -> States]
  /\ next_run \in [Tasks -> Nat]
  /\ pc \in [Tasks -> Points]
  /\ deadline \in [Tasks -> Nat]

CoreInit ==
  /\ tick = 0
  /\ counter = 0
  /\ pend = FALSE
  /\ primask = FALSE
  /\ mode = "boot"
  /\ current = NoTask
  /\ allocated = {}
  /\ state = [t \in Tasks |-> "NONE"]
  /\ next_run = [t \in Tasks |-> 0]
  /\ pc = [t \in Tasks |-> "wrapper"]
  /\ deadline = [t \in Tasks |-> 0]

-----------------------------------------------------------------------------
(* Interrupts                                                              *)

\* The body of SysTick_Handler without a hook: the tick, and one more of the
\* quantum that has lasted for so many ticks.  An infinite quantum never ends,
\* so its ticks are not counted.
CountTick(elapsed, quantum) ==
  /\ ~primask
  /\ mode \in {"thread"} \cup HandlerStages
  /\ tick' = IF tick < MaxTick THEN (tick + 1) % TickModulus ELSE tick
  /\ \/ quantum = Infinite /\ counter' = elapsed /\ UNCHANGED pend
     \/ /\ quantum # Infinite /\ elapsed + 1 < quantum
        /\ counter' = elapsed + 1
        /\ UNCHANGED pend
     \/ /\ quantum # Infinite /\ elapsed + 1 >= quantum
        /\ counter' = 0
        /\ pend' = TRUE
  /\ UNCHANGED <<primask, mode, current, tcbVars, threadVars>>

\* PendSV_Handler up to its call of pendsv_handler_impl.
PendSVEnter ==
  /\ mode = "thread"
  /\ pend
  /\ pend' = FALSE
  /\ primask' = TRUE
  /\ mode' = "wake"
  /\ UNCHANGED <<tick, counter, current, tcbVars, threadVars>>

\* The end of PendSV_Handler: the context of current is in the registers.
PendSVReturn ==
  /\ mode = "restore"
  /\ primask' = FALSE
  /\ mode' = "thread"
  /\ UNCHANGED <<tick, counter, pend, current, tcbVars, threadVars>>

-----------------------------------------------------------------------------
(* The task pool                                                           *)

FreeSlots == Tasks \ allocated

\* light_bitset::find_zero_bit: the lowest free slot is taken.
IsFirstFree(t) == t \in FreeSlots /\ \A u \in FreeSlots : t <= u

\* impl::add_task under its critical section: the object is constructed anew.
AllocTask(t) ==
  /\ IsFirstFree(t)
  /\ allocated' = allocated \cup {t}
  /\ state' = [state EXCEPT ![t] = "READY"]
  /\ next_run' = [next_run EXCEPT ![t] = 0]
  /\ pc' = [pc EXCEPT ![t] = "wrapper"]
  /\ UNCHANGED deadline

\* scheduler_callbacks::on_task_done, called by a scheduler inside PendSV.
\* The destructor of irq_critical_section enables interrupts whatever they
\* were before.
FreeTask(t) ==
  /\ allocated' = allocated \ {t}
  /\ primask' = FALSE
  /\ UNCHANGED <<state, next_run, threadVars>>

\* core::add_task called by main(): the first task also becomes current.
BootAddTask(t) ==
  /\ mode = "boot"
  /\ AllocTask(t)
  /\ current' = IF current = NoTask THEN t ELSE current
  /\ UNCHANGED <<tick, counter, pend, primask, mode>>

-----------------------------------------------------------------------------
(* Threads: the kernel calls of the task that executes                     *)

Executes(t) == mode = "thread" /\ current = t /\ ~pend

Goto(t, from, to) == pc[t] = from /\ pc' = [pc EXCEPT ![t] = to]

\* task_wrapper up to the call of the task's function; its branch for a null
\* function is left out, as no caller adds one.
TaskStart(t) ==
  /\ Executes(t)
  /\ Goto(t, "wrapper", "body")
  /\ state' = [state EXCEPT ![t] = "RUNNING"]
  /\ UNCHANGED <<tick, counter, pend, primask, mode, current, allocated,
                 next_run, deadline>>

\* sleep_task_for: the tick is read ...
SleepCall(t) ==
  /\ Executes(t)
  /\ Goto(t, "body", "set_next_run")
  /\ \E ms \in SleepTimes :
       /\ tick + ms <= MaxTick
       /\ deadline' = [deadline EXCEPT ![t] = (tick + ms) % TickModulus]
  /\ UNCHANGED <<tick, counter, pend, primask, mode, current, tcbVars>>

\* ... the sum is stored in next_run ...
SleepSetNextRun(t) ==
  /\ Executes(t)
  /\ Goto(t, "set_next_run", "set_wait")
  /\ next_run' = [next_run EXCEPT ![t] = deadline[t]]
  /\ UNCHANGED <<tick, counter, pend, primask, mode, current, allocated,
                 state, deadline>>

\* ... then WAIT in state ...
SleepSetWait(t) ==
  /\ Executes(t)
  /\ Goto(t, "set_wait", "sleep_yield")
  /\ state' = [state EXCEPT ![t] = "WAIT"]
  /\ UNCHANGED <<tick, counter, pend, primask, mode, current, allocated,
                 next_run, deadline>>

\* ... and the switch is requested.
SleepYield(t) ==
  /\ Executes(t)
  /\ Goto(t, "sleep_yield", "asleep")
  /\ pend' = TRUE
  /\ UNCHANGED <<tick, counter, primask, mode, current, tcbVars, deadline>>

\* sleep() returns to the task; the register with the deadline is dead.
SleepReturn(t) ==
  /\ Executes(t)
  /\ Goto(t, "asleep", "body")
  /\ deadline' = [deadline EXCEPT ![t] = 0]
  /\ UNCHANGED <<tick, counter, pend, primask, mode, current, tcbVars>>

\* SYSCALL_SLEEP: the same stores inside the SVC handler (priority 0), where
\* nothing can cut in.
SvcSleep(t) ==
  /\ Executes(t)
  /\ Goto(t, "body", "asleep")
  /\ \E ms \in SleepTimes :
       LET due == (tick + ms) % TickModulus IN
       /\ tick + ms <= MaxTick
       /\ deadline' = [deadline EXCEPT ![t] = due]
       /\ next_run' = [next_run EXCEPT ![t] = due]
  /\ state' = [state EXCEPT ![t] = "WAIT"]
  /\ pend' = TRUE
  /\ UNCHANGED <<tick, counter, primask, mode, current, allocated>>

\* kernel::yield and SYSCALL_YIELD.
Yield(t) ==
  /\ Executes(t)
  /\ pc[t] = "body"
  /\ pend' = TRUE
  /\ UNCHANGED <<tick, counter, primask, mode, current, tcbVars, threadVars>>

\* terminate_current, or task_wrapper after the task's function returned.
TaskDone(t) ==
  /\ Executes(t)
  /\ Goto(t, "body", "exit_yield")
  /\ state' = [state EXCEPT ![t] = "DONE"]
  /\ UNCHANGED <<tick, counter, pend, primask, mode, current, allocated,
                 next_run, deadline>>

TaskExitYield(t) ==
  /\ Executes(t)
  /\ Goto(t, "exit_yield", "gone")
  /\ pend' = TRUE
  /\ UNCHANGED <<tick, counter, primask, mode, current, tcbVars, deadline>>

\* core::add_task called by a task; irq_critical_section makes it one step.
TaskAddTask(t, u) ==
  /\ Executes(t)
  /\ pc[t] = "body"
  /\ AllocTask(u)
  /\ UNCHANGED <<tick, counter, pend, primask, mode, current>>

\* object_pool::alloc finds no slot: panic() disables interrupts and spins.
AddTaskPanic ==
  /\ mode = "boot" \/ \E t \in Tasks : Executes(t) /\ pc[t] = "body"
  /\ FreeSlots = {}
  /\ mode' = "panic"
  /\ primask' = TRUE
  /\ UNCHANGED <<tick, counter, pend, current, tcbVars, threadVars>>

PanicLoop == mode = "panic" /\ UNCHANGED coreVars

Panic == AddTaskPanic \/ PanicLoop

\* The kernel calls that touch nothing but the core's variables.
ThreadStep(t) ==
  \/ TaskStart(t)
  \/ SleepCall(t) \/ SleepSetNextRun(t) \/ SleepSetWait(t)
  \/ SleepYield(t) \/ SleepReturn(t) \/ SvcSleep(t)
  \/ Yield(t)
  \/ TaskDone(t) \/ TaskExitYield(t)

\* A thread that has entered a kernel call goes on with it when it executes;
\* what the task's own code does next is its own affair.
KernelCallStep(t) ==
  \/ TaskStart(t)
  \/ SleepSetNextRun(t) \/ SleepSetWait(t) \/ SleepYield(t) \/ SleepReturn(t)
  \/ TaskExitYield(t)

=============================================================================
