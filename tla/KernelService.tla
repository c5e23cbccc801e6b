--------------------------- MODULE KernelService ---------------------------
(***************************************************************************)
(* What the AikaRTOS kernel promises a task, whatever its scheduler does   *)
(* inside: who may run, for how long a sleeper is kept off the processor,  *)
(* when a task slot may be given to another task, and that the processor   *)
(* is not left idle while a task could use it.  There are no queues, no    *)
(* interrupts and no program counters here; RoundRobin implements this     *)
(* module under the refinement mapping at its end.                         *)
(***************************************************************************)
EXTENDS Integers

CONSTANTS
  Tasks,     \* the task slots of the object pool
  Idle,      \* the idle task, which is not one of them
  Kernel,    \* the value of cpu while no task executes
  MaxTick    \* bound: the last tick that is counted

VARIABLES
  now,       \* milliseconds since the launch
  life,      \* what each slot holds
  until,     \* for a sleeping task, the tick it waits for; otherwise 0
  cpu        \* the task that executes, Idle, or Kernel

service == <<now, life, until, cpu>>

Lives == {"free", "runnable", "sleeping", "finished"}

ServiceTypeOK ==
  /\ now \in 0..MaxTick
  /\ life \in [Tasks -> Lives]
  /\ until \in [Tasks -> 0..MaxTick]
  /\ cpu \in Tasks \cup {Idle, Kernel}

ServiceInit ==
  /\ now = 0
  /\ life = [t \in Tasks |-> "free"]
  /\ until = [t \in Tasks |-> 0]
  /\ cpu = Kernel

Tick ==
  /\ now' = IF now < MaxTick THEN now + 1 ELSE now
  /\ UNCHANGED <<life, until, cpu>>

Create(t) ==
  /\ life[t] = "free"
  /\ life' = [life EXCEPT ![t] = "runnable"]
  /\ UNCHANGED <<now, until, cpu>>

\* Only the running task puts itself to sleep.
FallAsleep(t) ==
  /\ cpu = t
  /\ life[t] = "runnable"
  /\ life' = [life EXCEPT ![t] = "sleeping"]
  /\ \E d \in 0..MaxTick : until' = [until EXCEPT ![t] = d]
  /\ UNCHANGED <<now, cpu>>

\* A sleeper becomes runnable when its tick has come, never before.
Wake(t) ==
  /\ life[t] = "sleeping"
  /\ until[t] <= now
  /\ life' = [life EXCEPT ![t] = "runnable"]
  /\ until' = [until EXCEPT ![t] = 0]
  /\ UNCHANGED <<now, cpu>>

Finish(t) ==
  /\ cpu = t
  /\ life[t] = "runnable"
  /\ life' = [life EXCEPT ![t] = "finished"]
  /\ UNCHANGED <<now, until, cpu>>

\* A slot is given back only when its task is over and off the processor.
Reclaim(t) ==
  /\ life[t] = "finished"
  /\ cpu # t
  /\ life' = [life EXCEPT ![t] = "free"]
  /\ UNCHANGED <<now, until, cpu>>

Suspend ==
  /\ cpu # Kernel
  /\ cpu' = Kernel
  /\ UNCHANGED <<now, life, until>>

\* The processor goes to a runnable task; to Idle only when there is none.
Dispatch ==
  /\ cpu = Kernel
  /\ \/ \E t \in Tasks : life[t] = "runnable" /\ cpu' = t
     \/ (\A t \in Tasks : life[t] # "runnable") /\ cpu' = Idle
  /\ UNCHANGED <<now, life, until>>

ServiceNext ==
  \/ Tick \/ Suspend \/ Dispatch
  \/ \E t \in Tasks :
       Create(t) \/ FallAsleep(t) \/ Wake(t) \/ Finish(t) \/ Reclaim(t)

ServiceSpec == ServiceInit /\ [][ServiceNext]_service

=============================================================================
