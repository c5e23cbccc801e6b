----------------------------- MODULE Schedulers -----------------------------
(***************************************************************************)
(* The kernel with each of seven schedulers, of which kind names one: what *)
(* they all owe the tasks, and what each promises on its own.              *)
(***************************************************************************)
EXTENDS PrioritySchedulers, DeadlineSchedulers, Mlfq, LotterySchedulers

CONSTANT Kinds   \* bound: the schedulers to check

Priority == {"fixed_priority", "priority_aging"}
Deadline == {"edf", "cfs_like"}
Lottery  == {"lottery", "weighted_lottery"}

ASSUME KindsAssumption == Kinds \subseteq Priority \cup Deadline \cup Lottery \cup {"mlfq"}

VARIABLE overtaken   \* switches since each runnable task ran, a history

vars == <<coreVars, loopVars, prioVars, lineVars, mlfqVars, lotteryVars,
          overtaken>>

Init ==
  /\ kind \in Kinds
  /\ LoopInit /\ PrioInit /\ LineInit /\ MlfqInit /\ LotteryInit
  /\ overtaken = [t \in Tasks |-> 0]

\* Only aging bounds how often a task is passed over.
CountOvertaken ==
  overtaken' =
    [t \in Tasks |->
       IF kind # "priority_aging" \/ state'[t] \notin Runnable THEN 0
       ELSE IF mode = "select" /\ mode' = "restore"
       THEN IF current' = t THEN 0 ELSE overtaken[t] + 1
       ELSE IF t \notin allocated THEN 0
       ELSE overtaken[t]]

Next ==
  /\ \/ /\ kind \in Priority
        /\ PrioNext
        /\ UNCHANGED <<lineVars, mlfqVars, lotteryVars>>
     \/ /\ kind \in Deadline
        /\ LineNext
        /\ UNCHANGED <<prioVars, mlfqVars, lotteryVars>>
     \/ /\ kind = "mlfq"
        /\ MlfqNext
        /\ UNCHANGED <<prioVars, lineVars, lotteryVars>>
     \/ /\ kind \in Lottery
        /\ LotteryNext
        /\ UNCHANGED <<prioVars, lineVars, mlfqVars>>
  /\ CountOvertaken

Spec == Init /\ [][Next]_vars

-----------------------------------------------------------------------------
(* Properties                                                              *)

\* Every variable has its type; the tickets stay within a uint8_t.
SchedulersTypeOK ==
  /\ LoopTypeOK /\ PrioTypeOK /\ LineTypeOK /\ MlfqTypeOK /\ LotteryTypeOK
  /\ overtaken \in [Tasks -> Nat]

\* Of a lottery scheduler, on_task_done takes the task out of its slot.
Held ==
  IF kind \in Priority THEN PrioHeld
  ELSE IF kind \in Deadline THEN LineHeld
  ELSE IF kind = "mlfq" THEN MlfqHeld
  ELSE LotteryHeld \ {hand}

\* No scheduler loses a task or holds it twice, whatever it does with
\* priorities, levels, deadlines and tickets while the task is queued (their
\* get_next_task and waiting_tasks_queue.hpp, process): every allocated task
\* is in exactly one place, where its data say, and no freed one is anywhere.
Placement ==
  /\ PrioPlacement /\ LinePlacement /\ MlfqPlacement /\ LotteryPlacement
  /\ Held \cup waiting \cup ({hand} \ {NoTask}) = allocated
  /\ Held \cap waiting = {} /\ hand \notin Held \cup waiting

Dispatch == mode = "select" /\ mode' = "restore" /\ current' \in Tasks

CouldRun(t) == t \in Held /\ state[t] \in Runnable

Before(t, u) ==
  CASE kind \in Priority -> priority[t] <= priority[u]
    [] kind \in Deadline -> key[t] <= key[u]
    [] OTHER -> TRUE

\* edf returns a task whose deadline has passed before it looks at its state.
Overdue(t) == kind = "edf" /\ Expired(t)

\* The task that is chosen can run and comes first by the scheduler's own
\* measure among all tasks that can: scheduler_fixed_priority.hpp "always
\* selects the highest-priority READY task", scheduler_cfs_like.hpp "the task
\* with the smallest vruntime", scheduler_edf.hpp "always selects the READY
\* task with the nearest (earliest) deadline".  Only that it is READY is not
\* asked of a task that is overdue; SelectsReady asks it.
DispatchesFirst ==
  [][Dispatch =>
       /\ \A u \in Tasks : CouldRun(u) => Before(current', u)
       /\ state[current'] \in Runnable \/ Overdue(current')]_vars

\* "The scheduler always selects the READY task with the nearest (earliest)
\* deadline" (scheduler_edf.hpp): when some task is ready, edf does not hand
\* the processor to one that is asleep.
SelectsReady ==
  kind = "edf" /\ mode = "restore" /\ current \in Tasks
    /\ (\E u \in Tasks : CouldRun(u))
      => state[current] \in Runnable

\* sleep does not return early (api.hpp, sleep_task_for), whichever scheduler
\* wakes the sleeper; except that edf runs a task whose deadline has passed.
SleepNotShort ==
  \A t \in Tasks :
    Executes(t) /\ pc[t] = "asleep" =>
      deadline[t] <= tick \/ (kind = "edf" /\ key[t] <= tick)

\* How many switches a task waits in a queue for its next step forward: a
\* threshold of 0 works like one of 1.
Patience(t) == IF threshold[t] = 0 THEN 1 ELSE threshold[t]

\* scheduler_priority_aging.hpp: aging keeps tasks of low priority from
\* starving.  A task that can run is passed over only while it climbs from
\* its queue to the first one, and then by those queued there before it.
NotOvertaken ==
  \A t \in Tasks : overtaken[t] <= base[t] * Patience(t) + MaximumTasks - 1

LifeOf(t) ==
  IF t \notin allocated THEN "free"
  ELSE IF state[t] \in Runnable THEN "runnable"
  ELSE IF state[t] = "WAIT" THEN "sleeping"
  ELSE "finished"

\* edf may run a sleeper, and lottery idles when a draw has no winner.
Serves == kind \notin {"edf", "lottery"}

NowBar   == IF Serves THEN tick ELSE 0
LifeBar  == [t \in Tasks |-> IF Serves THEN LifeOf(t) ELSE "free"]
UntilBar == [t \in Tasks |-> IF LifeBar[t] = "sleeping" THEN next_run[t] ELSE 0]
CpuBar   == IF Serves /\ mode = "thread" THEN current ELSE NoTask

Service == INSTANCE KernelService WITH
  Kernel <- NoTask, now <- NowBar, life <- LifeBar, until <- UntilBar,
  cpu <- CpuBar

\* The kernel with the priority, mlfq, cfs_like or weighted lottery scheduler
\* provides the service: runnable tasks only, the idle task only when there is
\* none, no sleeper before its tick, no slot freed under a running task.
ImplementsService == Service!ServiceSpec

=============================================================================
