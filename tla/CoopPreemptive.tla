--------------------------- MODULE CoopPreemptive ---------------------------
(***************************************************************************)
(* The cooperative preemptive scheduler: round robin in which every task   *)
(* has a quantum of its own, kept in a pool of scheduler data.  The task   *)
(* that is chosen makes its quantum the kernel's, and SysTick starts a new *)
(* count when it sees the kernel's quantum change.                         *)
(*                                                                         *)
(* The queues and the loop of get_next_task are those of RoundRobin; the   *)
(* actions here conjoin what the scheduler does besides.  Quanta is the    *)
(* argument of launch(), which is the quantum of tasks configured without. *)
(***************************************************************************)
EXTENDS RoundRobin

CONSTANT GivenQuanta   \* bound: the quanta that tasks are configured with

ASSUME GivenQuantaAssumption == GivenQuanta \subseteq Nat \cup {Infinite}

VARIABLES
  quanta,           \* impl_base::quanta_
  default_quanta,   \* impl_base::default_quanta_
  seen,             \* the static quanta of the SysTick handler
  data_used,        \* the slots in use of data_allocator_
  data,             \* tcb.scheduler_data of each task, as a slot
  data_quanta       \* scheduler_data_type::quanta of each slot

dataVars == <<data_used, data, data_quanta>>
coopVars == <<quanta, default_quanta, seen, dataVars>>
allVars  == <<vars, coopVars>>

QuantumValues == Nat \cup {Infinite}

CoopTypeOK ==
  /\ Typed
  /\ quanta \in QuantumValues
  /\ default_quanta \in QuantumValues
  /\ seen \in QuantumValues
  /\ data_used \subseteq Tasks
  /\ data \in [Tasks -> Tasks \cup {NoTask}]
  /\ data_quanta \in [Tasks -> QuantumValues]
  /\ counter = 0 \/ counter < seen

CoopInit ==
  /\ Init
  /\ quanta = 0
  /\ default_quanta = 0
  /\ seen = 0
  /\ data_used = {}
  /\ data = [t \in Tasks |-> NoTask]
  /\ data_quanta = [s \in Tasks |-> 0]

\* get_quanta: a task's quantum is in its scheduler data.
QuantumOf(t) == data_quanta[data[t]]

\* Seeded fault: a new quantum is compared with the old count.
CoopSysTickKeepsCount ==
  /\ seen' = quanta
  /\ CountTick(counter, quanta)
  /\ UNCHANGED <<schedVars, quanta, default_quanta, dataVars>>

\* Seeded fault: the new quantum is used but not remembered.
CoopSysTickForgets ==
  /\ CountTick(IF quanta # seen THEN 0 ELSE counter, quanta)
  /\ UNCHANGED <<schedVars, coopVars>>

\* SysTick_Handler: the count starts anew when the quantum's value changed.
CoopSysTick ==
  /\ seen' = quanta
  /\ CountTick(IF quanta # seen THEN 0 ELSE counter, quanta)
  /\ UNCHANGED <<schedVars, quanta, default_quanta, dataVars>>

FreeData == Tasks \ data_used

\* configure_task for the task t: the default quantum unless one is given.
\* add_task calls it in the critical section in which the task is allocated.
ConfigureTask(t) ==
  \E s \in FreeData, q \in GivenQuanta \cup {default_quanta} :
    /\ \A u \in FreeData : s <= u
    /\ data_used' = data_used \cup {s}
    /\ data' = [data EXCEPT ![t] = s]
    /\ data_quanta' = [data_quanta EXCEPT ![s] = q]
    /\ UNCHANGED <<quanta, default_quanta, seen>>

CoopBootAdd(t) == BootAdd(t) /\ ConfigureTask(t)

CoopThreadAdd(t, u) == ThreadAdd(t, u) /\ ConfigureTask(u)

CoopThread(t) == Thread(t) /\ UNCHANGED coopVars

\* launch() sets both quanta, then the first task sets its own.
CoopLaunch ==
  /\ Launch
  /\ default_quanta' = Quanta
  /\ quanta' = IF ready = << >> THEN Quanta ELSE QuantumOf(Head(ready))
  /\ UNCHANGED <<seen, dataVars>>

\* Seeded fault: the chosen task does not set the quantum.
CoopSelectKeepsQuantum(t) ==
  /\ SelectRunnable(t)
  /\ UNCHANGED coopVars

\* The chosen task's quantum becomes the kernel's: on_quanta_change.
CoopSelectRunnable(t) ==
  /\ SelectRunnable(t)
  /\ quanta' = QuantumOf(t)
  /\ UNCHANGED <<default_quanta, seen, dataVars>>

\* Seeded fault: the scheduler data of the task are not given back.
CoopReapLeaks == Reap /\ UNCHANGED coopVars

\* on_task_done: clear_task gives the scheduler data back, then the task
\* object goes.
CoopReap ==
  /\ Reap
  /\ data_used' = data_used \ {data[hand]}
  /\ UNCHANGED <<quanta, default_quanta, seen, data, data_quanta>>

CoopPendSV ==
  \/ CoopReap
  \/ \E t \in Tasks : CoopSelectRunnable(t)
  \/ /\ \/ Enter \/ WakeEnd \/ SelectIdle \/ Return
        \/ \E t \in Tasks : WakeDue(t) \/ SelectWaiting(t) \/ SelectDone(t)
     /\ UNCHANGED coopVars

CoopNext ==
  \/ CoopSysTick
  \/ CoopPendSV
  \/ CoopLaunch
  \/ Panicked /\ UNCHANGED coopVars
  \/ \E t \in Tasks : CoopBootAdd(t) \/ CoopThread(t)
  \/ \E t, u \in Tasks : CoopThreadAdd(t, u)

CoopSpec == CoopInit /\ [][CoopNext]_allVars

\* As for RoundRobin: the launch, the interrupts, the kernel calls.
CoopFairness ==
  /\ WF_allVars(CoopLaunch)
  /\ SF_allVars(CoopSysTick)
  /\ WF_allVars(CoopPendSV)
  /\ \A t \in Tasks :
       SF_allVars(KernelCallStep(t) /\ UNCHANGED <<schedVars, coopVars>>)

CoopFairSpec == CoopSpec /\ CoopFairness

-----------------------------------------------------------------------------
(* Properties                                                              *)

\* The pools of tasks and of scheduler data go together (impl.hpp, add_task
\* and on_task_done; configure_task, clear_task): every allocated task has
\* its own slot of scheduler data, no slot is lost, and the second pool is
\* never found empty after the first was not.
DataOwned ==
  /\ \A t, u \in allocated : data[t] = data[u] => t = u
  /\ data_used = {data[t] : t \in allocated}

\* The kernel's quantum is that of the task that runs (scheduler_coop_
\* preemptive.hpp: "Each task has its own configurable time quantum"); a
\* stale one would end another task's time.
QuantumInForce ==
  mode = "thread" /\ current \in Tasks => quanta = QuantumOf(current)

\* Every sleep ends, unless an infinite quantum stays in force and with it
\* the task, or the idle loop, that it was last set for.
SleepEndsOrCooperative ==
  \A t \in Tasks :
    []<>(quanta # Infinite) => []<>(pc[t] # "asleep" \/ mode = "panic")

\* scheduler_coop_preemptive.hpp: cooperative tasks "run until they yield or
\* block voluntarily", and tests/coop_preemptive.cpp sleeps in such a task.
\* While nobody else uses the processor, a sleeper that is due gets it.
IdleWakesSleepers ==
  \A t \in Tasks :
    (mode = "thread" /\ current = Idle /\ Due(t)) ~> (current # Idle)

=============================================================================
