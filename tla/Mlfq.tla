-------------------------------- MODULE Mlfq --------------------------------
(***************************************************************************)
(* The multilevel feedback queue.  It registers a SysTick hook, which      *)
(* takes the place of the kernel's quantum: every tick is charged to the   *)
(* task that runs, and the task that has used up the quantum of its level  *)
(* gets the next level and is switched away from.  A boost gives tasks     *)
(* their first level back.                                                 *)
(*                                                                         *)
(* The hook and the boost change the level and the heap key of tasks that  *)
(* stay where they are queued; a task is filed anew when it is popped.     *)
(* What a heap with changed keys pops is not modelled: any of its tasks.   *)
(***************************************************************************)
EXTENDS SchedulerLoop

CONSTANTS
  Slices,        \* bound: the quanta of the levels tasks are configured with
  BoostQuanta,   \* bound: their boost_quanta
  GlobalBoost    \* global_boost_value

MaximumLevels == 3
QuantumLevels == 1..MaximumLevels

ASSUME SlicesAssumption == Slices \subseteq [QuantumLevels -> Nat \ {0}]
ASSUME BoostAssumption == BoostQuanta \subseteq Nat /\ GlobalBoost \in Nat

VARIABLES
  queued,        \* levels_, counted from 1
  level,         \* level of each task
  used,          \* quantum_used
  slice,         \* levels[] of each task
  boost_after,   \* boost_quanta of each task
  last_boost,    \* last_boost of each task; of Idle, that of the scheduler
  charged,       \* current_, the task the hook charges
  scan           \* the level get_next_task has come to

mlfqVars == <<queued, level, used, slice, boost_after, last_boost, charged,
              scan>>

MlfqTypeOK ==
  /\ queued \in [QuantumLevels -> SUBSET Tasks]
  /\ level \in [Tasks -> QuantumLevels]
  /\ used \in [Tasks -> Nat]
  /\ slice \in [Tasks -> [QuantumLevels -> Nat]]
  /\ boost_after \in [Tasks -> Nat]
  /\ last_boost \in [Tasks \cup {Idle} -> Nat]
  /\ charged \in Tasks \cup {NoTask}
  /\ scan \in 1..MaximumLevels + 1

MlfqInit ==
  /\ queued = [l \in QuantumLevels |-> {}]
  /\ level = [t \in Tasks |-> 1]
  /\ used = [t \in Tasks |-> 0]
  /\ slice = [t \in Tasks |-> [l \in QuantumLevels |-> 0]]
  /\ boost_after = [t \in Tasks |-> 0]
  /\ last_boost = [t \in Tasks \cup {Idle} |-> 0]
  /\ charged = NoTask
  /\ scan = 1

\* configure_task and add_task.
MlfqAdd(t) ==
  /\ \E s \in Slices : slice' = [slice EXCEPT ![t] = s]
  /\ \E b \in BoostQuanta : boost_after' = [boost_after EXCEPT ![t] = b]
  /\ level' = [level EXCEPT ![t] = 1]
  /\ used' = [used EXCEPT ![t] = 0]
  /\ last_boost' = [last_boost EXCEPT ![t] = 0]
  /\ queued' = [queued EXCEPT ![1] = @ \cup {t}]
  /\ UNCHANGED <<charged, scan>>

\* systick_handler with the hook process_cuurent: a quantum of one tick for
\* the task that has used up its slice, and no end of the quantum otherwise.
UsedUp(t) == used[t] + 1 >= slice[t][level[t]]

HookEndsQuantum(t) ==
  /\ charged = t
  /\ UsedUp(t)
  /\ CountTick(0, 1)
  /\ used' = [used EXCEPT ![t] = 0]
  /\ level' = [level EXCEPT ![t] = IF @ < MaximumLevels THEN @ + 1 ELSE @]
  /\ UNCHANGED <<loopVars, queued, slice, boost_after, last_boost, charged,
                 scan>>

HookCharges(t) ==
  /\ charged = t
  /\ ~UsedUp(t)
  /\ CountTick(counter, Infinite)
  /\ used' = [used EXCEPT ![t] = @ + 1]
  /\ UNCHANGED <<loopVars, queued, level, slice, boost_after, last_boost,
                 charged, scan>>

HookIdle ==
  /\ charged = NoTask
  /\ CountTick(counter, Infinite)
  /\ UNCHANGED <<loopVars, mlfqVars>>

\* The first lines of get_next_task: every GlobalBoost ticks, boost_levels.
Boosted ==
  IF tick - last_boost[Idle] >= GlobalBoost
  THEN {t \in Tasks : /\ \E l \in 2..MaximumLevels : t \in queued[l]
                      /\ tick - last_boost[t] >= boost_after[t]}
  ELSE {}

MlfqEnter ==
  /\ LoopEnter
  /\ level' = [t \in Tasks |-> IF t \in Boosted THEN 1 ELSE level[t]]
  /\ used' = [t \in Tasks |-> IF t \in Boosted THEN 0 ELSE used[t]]
  /\ last_boost' =
       [t \in Tasks \cup {Idle} |->
          IF \/ t \in Boosted
             \/ t = Idle /\ tick - last_boost[Idle] >= GlobalBoost
          THEN tick ELSE last_boost[t]]
  /\ UNCHANGED <<queued, slice, boost_after, charged, scan>>

MlfqWake(t) ==
  /\ Wake(t)
  /\ queued' = [queued EXCEPT ![level[t]] = @ \cup {t}]
  /\ UNCHANGED <<level, used, slice, boost_after, last_boost, charged, scan>>

MlfqBegin ==
  /\ AllAwake
  /\ scan' = 1
  /\ UNCHANGED <<queued, level, used, slice, boost_after, last_boost, charged>>

MlfqChoose(t) ==
  /\ scan \in QuantumLevels /\ t \in queued[scan]
  /\ Choose(t)
  /\ queued' = [[queued EXCEPT ![scan] = @ \ {t}]
                  EXCEPT ![level[t]] = @ \cup {t}]
  /\ charged' = t
  /\ UNCHANGED <<level, used, slice, boost_after, last_boost, scan>>

MlfqPutAside(t) ==
  /\ scan \in QuantumLevels /\ t \in queued[scan]
  /\ PutAside(t)
  /\ queued' = [queued EXCEPT ![scan] = @ \ {t}]
  /\ used' = [used EXCEPT ![t] = 0]
  /\ UNCHANGED <<level, slice, boost_after, last_boost, charged, scan>>

MlfqRetire(t) ==
  /\ scan \in QuantumLevels /\ t \in queued[scan]
  /\ Retire(t)
  /\ queued' = [queued EXCEPT ![scan] = @ \ {t}]
  /\ UNCHANGED <<level, used, slice, boost_after, last_boost, charged, scan>>

\* get_next_task_impl found the level empty: current_ is null for a while.
MlfqNextLevel ==
  /\ mode = "select"
  /\ scan \in QuantumLevels /\ queued[scan] = {}
  /\ scan' = scan + 1
  /\ charged' = NoTask
  /\ UNCHANGED <<coreVars, loopVars, queued, level, used, slice, boost_after,
                 last_boost>>

MlfqIdle ==
  /\ scan = MaximumLevels + 1
  /\ Return(Idle)
  /\ UNCHANGED mlfqVars

MlfqNext ==
  \/ \E t \in Tasks : LoopBootAdd(t) /\ MlfqAdd(t)
  \/ \E t, u \in Tasks : LoopThreadAdd(t, u) /\ MlfqAdd(u)
  \/ \E t \in Tasks :
       HookEndsQuantum(t) \/ HookCharges(t) \/ MlfqWake(t) \/ MlfqChoose(t)
         \/ MlfqPutAside(t) \/ MlfqRetire(t)
  \/ HookIdle \/ MlfqEnter \/ MlfqBegin \/ MlfqNextLevel \/ MlfqIdle
  \/ (LoopLaunch \/ LoopThreads \/ Reap \/ LoopReturn) /\ UNCHANGED mlfqVars

-----------------------------------------------------------------------------

MlfqHeld == UNION {queued[l] : l \in QuantumLevels}

\* A task is in one queue only, whatever level the hook or the boost gives it
\* while it is queued: the two may differ either way (scheduler_mlfq.hpp,
\* get_next_task_impl).  Its use is within the quantum of the level it has.
MlfqPlacement ==
  /\ \A l, m \in QuantumLevels : l # m => queued[l] \cap queued[m] = {}
  /\ \A t \in MlfqHeld : used[t] < slice[t][level[t]]

\* scheduler_mlfq.hpp: "A global boost mechanism periodically resets task
\* levels to prevent starvation."  A ready task that is of the first level is
\* in the queue that is served first.
BoostedIsServedFirst ==
  mode = "thread" =>
    \A t \in MlfqHeld :
      state[t] \in Runnable /\ level[t] = 1 => t \in queued[1]

=============================================================================
