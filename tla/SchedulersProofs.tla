-------------------------- MODULE SchedulersProofs --------------------------
(***************************************************************************)
(* What holds of the kernel for any number of tasks, whichever of the      *)
(* schedulers it has.                                                      *)
(*                                                                         *)
(* The first part looks at the loop only: a step of any scheduler does to  *)
(* the kernel's variables what one of a few actions of the loop does, and  *)
(* that is enough to see that no sleep is cut short.  The second part adds *)
(* what a scheduler's queues owe the loop, and derives the service.  Then  *)
(* there is a part for the queues of each family of schedulers, with what  *)
(* it promises on its own: how often priority_aging passes a task over,    *)
(* and that the tickets of the lotteries add up.  The last part puts the   *)
(* kernel together.                                                        *)
(***************************************************************************)
EXTENDS Schedulers, SequenceTheorems, FiniteSetTheorems,
        WellFoundedInduction, TLAPS

-----------------------------------------------------------------------------
(* The steps of the loop                                                   *)

Counts ==
  /\ \E e \in Nat, q \in Nat \cup {Infinite} : CountTick(e, q)
  /\ UNCHANGED loopVars

\* What the schedulers have in common.
CommonStep ==
  \/ Counts
  \/ LoopPanic \/ LoopLaunch \/ LoopEnter \/ LoopReturn \/ AllAwake \/ Reap
  \/ \E t \in Tasks :
       \/ LoopBootAdd(t) \/ LoopThread(t) \/ Wake(t)
       \/ Choose(t) \/ PutAside(t) \/ Retire(t)
  \/ \E t, u \in Tasks : LoopThreadAdd(t, u)
  \/ Return(Idle)
  \/ UNCHANGED <<coreVars, loopVars>>

\* What edf does besides, with a task whose deadline has passed.
EdfStep ==
  /\ kind = "edf"
  /\ \/ \E t \in Tasks : EdfExpired(t) \/ EdfKill(t) \/ EdfPanic(t)
     \/ \E t, u \in Tasks : EdfReplace(t, u)

\* panic() is called by main() or by a thread, and goes on for good.
LEMMA PanicFrame ==
  ASSUME LoopPanic
  PROVE  /\ mode \in {"boot", "thread", "panic"} /\ mode' = "panic"
         /\ primask' \in {TRUE, primask}
         /\ UNCHANGED <<tick, counter, pend, current, tcbVars, threadVars, loopVars>>
BY DEF LoopPanic, Panic, AddTaskPanic, PanicLoop, Executes, coreVars

LEMMA PrioIsCommon == CoreTypeOK /\ PrioNext => CommonStep
BY QuantaAssumption
DEF PrioNext, PrioWake, FixedChoose, AgingChoose, PrioLeave, PrioIdle,
    LoopSysTick, LoopThreads, CommonStep, Counts, CoreTypeOK

LEMMA MlfqIsCommon == CoreTypeOK /\ MlfqNext => CommonStep
<1> SUFFICES ASSUME CoreTypeOK, MlfqNext PROVE CommonStep
  OBVIOUS
<1>1. ASSUME NEW t \in Tasks, HookEndsQuantum(t) \/ HookCharges(t)
      PROVE  Counts
  BY <1>1 DEF HookEndsQuantum, HookCharges, Counts, CoreTypeOK
<1>2. CASE HookIdle
  BY <1>2 DEF HookIdle, Counts, CommonStep, CoreTypeOK
<1>3. QED
  BY <1>1, <1>2
  DEF MlfqNext, MlfqWake, MlfqChoose, MlfqPutAside, MlfqRetire, MlfqEnter,
      MlfqBegin, MlfqNextLevel, MlfqIdle, LoopThreads, CommonStep

LEMMA LotteryIsCommon == CoreTypeOK /\ LotteryNext => CommonStep
BY QuantaAssumption
DEF LotteryNext, LotteryWake, Loses, LotteryPutAside, LotteryRetire,
    LotteryWins, WeightedWins, Wins, LotteryBegin, SkipEmpty, LotteryReap,
    LotteryIdle, Redraw, WeightedIdle, LoopSysTick, LoopThreads, CommonStep,
    Counts, CoreTypeOK

LEMMA LineIsCommon == CoreTypeOK /\ LineNext => CommonStep \/ EdfStep
BY QuantaAssumption
DEF LineNext, LineWake, EdfNext, EdfBegin, EdfChoose, EdfLeave, CfsNext,
    CfsBegin, CfsChoose, CfsLeave, LineIdle, LineReturn, LoopSysTick,
    LoopThreads, CommonStep, Counts, EdfStep, CoreTypeOK

LEMMA EveryStep == CoreTypeOK /\ [Next]_vars => CommonStep \/ EdfStep
BY PrioIsCommon, MlfqIsCommon, LotteryIsCommon, LineIsCommon
DEF Next, vars, CommonStep

-----------------------------------------------------------------------------
(* What keeps sleepers off the processor                                   *)

\* Ticks stay below the bound, hence below the wrap of the counter.
Clock == tick <= MaxTick /\ ticks <= tick

\* Deadlines and run times are numbers, and no task was chosen in the future.
Keys ==
  /\ key \in [Tasks -> Nat]
  /\ start \in [Tasks -> Nat]
  /\ \A t \in Tasks : start[t] <= tick

Blocked == {"WAIT", "DONE"}

\* A sleeper waits for its own deadline, until that has come or it is killed.
Slumber ==
  \A t \in Tasks :
    pc[t] = "asleep" =>
      /\ next_run[t] = deadline[t]
      /\ state[t] \in Blocked \/ deadline[t] <= tick

\* The task that is given the processor can run; edf has an excuse.
Entitled ==
  mode = "restore" \/ (mode = "thread" /\ ~pend) =>
    \A t \in Tasks :
      current = t /\ pc[t] = "asleep" =>
        state[t] \notin Blocked \/ (kind = "edf" /\ key[t] <= tick)

SleepInv == LoopTypeOK /\ Clock /\ Keys /\ Slumber /\ Entitled

LEMMA SleepInitially == Init => SleepInv
<1> SUFFICES ASSUME Init PROVE SleepInv
  OBVIOUS
<1> USE DEF Init, LoopInit, CoreInit, LineInit
<1>1. LoopTypeOK
  BY DEF LoopTypeOK, CoreTypeOK, Modes, States, Points
<1>2. Clock
  BY TickAssumption DEF Clock
<1>3. Keys
  BY DEF Keys
<1>4. Slumber /\ Entitled
  BY DEF Slumber, Entitled
<1>5. QED
  BY <1>1, <1>2, <1>3, <1>4 DEF SleepInv

\* A sum of ticks that stays within the bound does not wrap.
LEMMA NoWrap ==
  ASSUME NEW n \in Nat, n <= MaxTick
  PROVE  n % TickModulus = n
BY NoWrapAssumption, TickAssumption

LEMMA TickAdvances ==
  ASSUME CoreTypeOK, Clock, NEW e \in Nat, NEW q \in Nat \cup {Infinite},
         CountTick(e, q)
  PROVE  /\ tick \in Nat /\ tick' \in Nat
         /\ tick' = IF tick < MaxTick THEN tick + 1 ELSE tick
         /\ tick <= tick' /\ tick' <= MaxTick
         /\ counter' \in Nat /\ pend' \in BOOLEAN /\ (pend => pend')
         /\ UNCHANGED <<primask, mode, current, tcbVars, threadVars>>
<1>1. tick \in Nat /\ tick <= MaxTick /\ MaxTick \in Nat
  BY TickAssumption DEF CoreTypeOK, Clock
<1>2. tick < MaxTick => (tick + 1) % TickModulus = tick + 1
  BY <1>1, NoWrap
<1>3. tick' = IF tick < MaxTick THEN tick + 1 ELSE tick
  BY <1>2 DEF CountTick
<1>4. counter' \in Nat /\ pend' \in BOOLEAN /\ (pend => pend')
  <2>1. counter' \in Nat
    BY DEF CountTick
  <2>2. UNCHANGED pend \/ pend' = TRUE
    BY DEF CountTick
  <2>3. QED
    BY <2>1, <2>2 DEF CoreTypeOK
<1>5. tick' \in Nat /\ tick <= tick' /\ tick' <= MaxTick
  BY <1>1, <1>3
<1>6. UNCHANGED <<primask, mode, current, tcbVars, threadVars>>
  BY DEF CountTick
<1>7. QED
  BY <1>1, <1>3, <1>4, <1>5, <1>6

-----------------------------------------------------------------------------
(* The types of the kernel's variables                                     *)

LEMMA TypesInduction ==
  LoopTypeOK /\ Clock /\ (CommonStep \/ EdfStep) =>
    LoopTypeOK' /\ Clock'
<1> DEFINE Goal == LoopTypeOK' /\ Clock'
<1> SUFFICES ASSUME LoopTypeOK, Clock, CommonStep \/ EdfStep
             PROVE  Goal
  OBVIOUS
<1> USE DEF LoopTypeOK, CoreTypeOK, Clock, tcbVars, threadVars, loopVars
<1>0. tick \in Nat /\ ticks \in Nat /\ tick <= MaxTick /\ ticks <= tick
      /\ MaxTick \in Nat
  BY TickAssumption
<1>1. CASE Counts
  <2>1. PICK e \in Nat, q \in Nat \cup {Infinite} : CountTick(e, q)
    BY <1>1 DEF Counts
  <2>2. /\ tick' \in Nat /\ tick <= tick' /\ tick' <= MaxTick
        /\ counter' \in Nat /\ pend' \in BOOLEAN
        /\ UNCHANGED <<primask, mode, current, tcbVars, threadVars>>
    BY <2>1, TickAdvances
  <2>3. QED
    BY <1>0, <1>1, <2>2 DEF Counts
<1>2. CASE LoopLaunch \/ LoopEnter \/ LoopReturn \/ AllAwake \/ Reap
  <2>1. CASE LoopLaunch
    BY <1>0, <2>1 DEF LoopLaunch, Modes, HandlerStages
  <2>2. CASE LoopEnter
    BY <1>0, <2>2 DEF LoopEnter, PendSVEnter, Modes, HandlerStages
  <2>3. CASE LoopReturn
    BY <1>0, <2>3 DEF LoopReturn, PendSVReturn, Modes, HandlerStages
  <2>4. CASE AllAwake
    BY <1>0, <2>4 DEF AllAwake, Modes, HandlerStages
  <2>5. CASE Reap
    BY <1>0, <2>5 DEF Reap, FreeTask, Modes, HandlerStages
  <2>6. QED
    BY <1>2, <2>1, <2>2, <2>3, <2>4, <2>5
<1>3. ASSUME NEW t \in Tasks,
             Wake(t) \/ Choose(t) \/ PutAside(t) \/ Retire(t) \/ Return(Idle)
      PROVE  Goal
  BY <1>0, <1>3
  DEF Wake, Choose, Return, PutAside, Retire, Modes, HandlerStages, States,
      coreVars
<1>4. ASSUME NEW t \in Tasks, LoopThread(t)
      PROVE  Goal
  <2>1. ASSUME NEW ms \in SleepTimes
        PROVE  (tick + ms) % TickModulus \in Nat
    BY <1>0, SleepTimesAssumption, TickAssumption
  <2>2. UNCHANGED loopVars
    BY <1>4 DEF LoopThread
  <2>3. CASE SvcSleep(t)
    <3>1. PICK ms \in SleepTimes :
            /\ deadline' = [deadline EXCEPT ![t] = (tick + ms) % TickModulus]
            /\ next_run' = [next_run EXCEPT ![t] = (tick + ms) % TickModulus]
      BY <2>3 DEF SvcSleep
    <3>2. deadline' \in [Tasks -> Nat] /\ next_run' \in [Tasks -> Nat]
      BY <2>1, <3>1
    <3>3. QED
      BY <1>0, <2>2, <2>3, <3>2 DEF SvcSleep, Goto, States, Points
  <2>4. CASE TaskStart(t) \/ Yield(t)
    BY <1>0, <2>2, <2>4 DEF TaskStart, Yield, Goto, States, Points
  <2>5. CASE SleepReturn(t)
    BY <1>0, <2>2, <2>5 DEF SleepReturn, Goto, Points
  <2>6. CASE TaskDone(t) \/ TaskExitYield(t)
    BY <1>0, <2>2, <2>6 DEF TaskDone, TaskExitYield, Goto, States, Points
  <2>7. QED
    BY <1>4, <2>3, <2>4, <2>5, <2>6 DEF LoopThread
<1>5. ASSUME NEW t \in Tasks, AllocTask(t),
             current' \in Tasks \cup {Idle, NoTask},
             UNCHANGED <<tick, counter, pend, primask, mode, loopVars>>
      PROVE  Goal
  BY <1>0, <1>5 DEF AllocTask, States, Points
<1>6. ASSUME NEW t \in Tasks, LoopBootAdd(t)
      PROVE  Goal
  BY <1>5, <1>6 DEF LoopBootAdd, BootAddTask
<1>7. ASSUME NEW t \in Tasks, NEW u \in Tasks, LoopThreadAdd(t, u)
      PROVE  Goal
  BY <1>5, <1>7 DEF LoopThreadAdd, TaskAddTask
<1>8. CASE UNCHANGED <<coreVars, loopVars>>
  BY <1>0, <1>8 DEF coreVars
<1>9. CASE Return(Idle)
  BY <1>0, <1>9 DEF Return, Modes, HandlerStages
<1>10. CASE EdfStep
  <2>1. ASSUME NEW t \in Tasks, EdfExpired(t) \/ EdfKill(t) \/ EdfPanic(t)
        PROVE  Goal
    <3>1. CASE EdfExpired(t)
      BY <1>0, <3>1 DEF EdfExpired, Return, Modes, HandlerStages
    <3>2. CASE EdfKill(t)
      <4>1. /\ mode' = "wake" /\ primask' = FALSE /\ current' = t
            /\ state' = [state EXCEPT ![t] = "DONE"]
            /\ tick' = tick /\ ticks' = tick
            /\ UNCHANGED <<counter, pend, allocated, next_run>>
            /\ UNCHANGED <<pc, deadline, waiting, hand>>
        BY <3>2 DEF EdfKill
      <4>2. tick' \in Nat /\ ticks' \in Nat /\ tick' <= MaxTick /\ ticks' <= tick'
        BY <1>0, <4>1
      <4>3. QED
        BY <4>1, <4>2 DEF Modes, HandlerStages, States
    <3>3. CASE EdfPanic(t)
      BY <1>0, <3>3 DEF EdfPanic, Modes, States
    <3>4. QED
      BY <2>1, <3>1, <3>2, <3>3
  <2>2. ASSUME NEW t \in Tasks, NEW u \in Tasks, EdfReplace(t, u)
        PROVE  Goal
    <3>1. /\ mode' = "wake" /\ primask' = FALSE /\ current' = t
          /\ allocated' = allocated \cup {u}
          /\ state' = [state EXCEPT ![t] = "DONE", ![u] = "READY"]
          /\ next_run' = [next_run EXCEPT ![u] = 0]
          /\ pc' = [pc EXCEPT ![u] = "wrapper"]
          /\ tick' = tick /\ ticks' = tick
          /\ UNCHANGED <<counter, pend, deadline, waiting, hand>>
      BY <2>2 DEF EdfReplace
    <3>2. tick' \in Nat /\ ticks' \in Nat /\ tick' <= MaxTick /\ ticks' <= tick'
      BY <1>0, <3>1
    <3>3. QED
      BY <3>1, <3>2 DEF Modes, HandlerStages, States, Points
  <2>3. QED
    BY <1>10, <2>1, <2>2 DEF EdfStep
<1>11. CASE LoopPanic
  <2>1. /\ mode' = "panic" /\ primask' \in {TRUE, primask}
        /\ UNCHANGED <<tick, counter, pend, current, allocated, state, next_run>>
        /\ UNCHANGED <<pc, deadline, kind, waiting, hand, ticks>>
    BY <1>11, PanicFrame
  <2>2. mode' \in Modes /\ primask' \in BOOLEAN
    BY <2>1 DEF Modes
  <2>3. QED
    BY <1>0, <2>1, <2>2
<1>12. QED
  BY <1>1, <1>2, <1>3, <1>4, <1>6, <1>7, <1>8, <1>9, <1>10, <1>11
  DEF CommonStep

\* Time does not go back, and the scheduler is the same for good.
LEMMA TimeMoves ==
  ASSUME CoreTypeOK, Clock, CommonStep \/ EdfStep
  PROVE  tick \in Nat /\ tick <= tick' /\ kind' = kind
<1>1. CASE Counts
  <2>1. PICK e \in Nat, q \in Nat \cup {Infinite} : CountTick(e, q)
    BY <1>1 DEF Counts
  <2>2. QED
    BY <1>1, <2>1, TickAdvances DEF Counts, loopVars
<1>2. CASE ~Counts
  <2>1. UNCHANGED <<tick, kind>>
    BY <1>2, PanicFrame
    DEF CommonStep, EdfStep, LoopLaunch, LoopEnter, LoopReturn, AllAwake, Reap,
        PendSVEnter, PendSVReturn, FreeTask, Wake, Choose, PutAside, Retire,
        Return, LoopThread, TaskStart, Yield, SvcSleep, SleepReturn, TaskDone,
        TaskExitYield, LoopBootAdd, BootAddTask, LoopThreadAdd, TaskAddTask,
        EdfExpired, EdfKill, EdfPanic, EdfReplace, loopVars, coreVars
  <2>2. QED
    BY <2>1 DEF CoreTypeOK
<1>3. QED
  BY <1>1, <1>2

-----------------------------------------------------------------------------
(* No sleep is cut short                                                   *)

\* A deadline changes when its task is new, and in cfs_like, which has none.
LEMMA KeysInduction ==
  SleepInv /\ [Next]_vars =>
    /\ Keys'
    /\ kind = "edf" =>
         \A t \in Tasks : key'[t] = key[t] \/ pc'[t] = "wrapper"
<1> SUFFICES ASSUME SleepInv, [Next]_vars
             PROVE  /\ Keys'
                    /\ kind = "edf" =>
                         \A t \in Tasks : key'[t] = key[t] \/ pc'[t] = "wrapper"
  OBVIOUS
<1> USE DEF SleepInv, Keys
<1>1. /\ tick \in Nat /\ ticks \in Nat /\ ticks <= tick
      /\ tick' \in Nat /\ tick <= tick'
  <2>1. CommonStep \/ EdfStep
    BY EveryStep DEF LoopTypeOK
  <2>2. LoopTypeOK' /\ Clock' /\ tick <= tick'
    BY <2>1, TypesInduction, TimeMoves DEF LoopTypeOK
  <2>3. QED
    BY <2>2 DEF LoopTypeOK, CoreTypeOK, Clock
<1>2. CASE UNCHANGED <<key, start>>
  BY <1>1, <1>2
<1>3. ASSUME NEW t \in Tasks, LineAdd(t), AllocTask(t)
      PROVE  /\ Keys'
             /\ \A u \in Tasks : key'[u] = key[u] \/ pc'[u] = "wrapper"
  <2>1. PICK n \in Nat : key' = [key EXCEPT ![t] = n]
    <3>1. CASE kind = "edf"
      <4>1. PICK d \in Deadlines : key' = [key EXCEPT ![t] = tick + d]
        BY <1>3, <3>1 DEF LineAdd
      <4>2. tick + d \in Nat
        BY <1>1, DeadlinesAssumption
      <4>3. QED
        BY <4>1, <4>2
    <3>2. CASE kind # "edf"
      BY <1>3, <3>2 DEF LineAdd
    <3>3. QED
      BY <3>1, <3>2
  <2>2. start' = [start EXCEPT ![t] = 0] /\ pc' = [pc EXCEPT ![t] = "wrapper"]
    BY <1>3 DEF LineAdd, AllocTask
  <2>3. QED
    BY <1>1, <2>1, <2>2 DEF LoopTypeOK, CoreTypeOK
<1>4. ASSUME NEW t \in Tasks, NEW u \in Tasks, EdfReplace(t, u)
      PROVE  /\ Keys'
             /\ \A v \in Tasks : key'[v] = key[v] \/ pc'[v] = "wrapper"
  <2>1. PICK n \in Nat : key' = [key EXCEPT ![u] = n]
    <3>1. PICK d \in Deadlines : key' = [key EXCEPT ![u] = tick + d]
      BY <1>4 DEF EdfReplace
    <3>2. tick + d \in Nat
      BY <1>1, DeadlinesAssumption
    <3>3. QED
      BY <3>1, <3>2
  <2>2. start' = [start EXCEPT ![u] = 0] /\ pc' = [pc EXCEPT ![u] = "wrapper"]
    BY <1>4 DEF EdfReplace
  <2>3. QED
    BY <1>1, <2>1, <2>2 DEF LoopTypeOK, CoreTypeOK
<1>5. ASSUME CfsBegin PROVE Keys'
  <2>1. UNCHANGED start /\ (key' = key \/ key' = Charged(Head(line)))
    BY <1>5 DEF CfsBegin
  <2>2. CASE key' = key
    BY <1>1, <2>1, <2>2
  <2>3. CASE key' = Charged(Head(line))
    <3>1. PICK h : h = Head(line)
      OBVIOUS
    <3>2. CASE h \in Tasks
      <4>1. key[h] + (tick - start[h]) \in Nat
        BY <1>1, <3>2
      <4>2. key' \in [Tasks -> Nat]
        BY <2>3, <3>1, <3>2, <4>1 DEF Charged
      <4>3. QED
        BY <1>1, <2>1, <4>2
    <3>3. CASE h \notin Tasks
      <4>1. key' \in [Tasks -> Nat]
        BY <2>3, <3>1, <3>3 DEF Charged
      <4>2. QED
        BY <1>1, <2>1, <4>1
    <3>4. QED
      BY <3>2, <3>3
  <2>4. QED
    BY <2>1, <2>2, <2>3
<1>6. ASSUME NEW t \in Tasks, CfsChoose(t) \/ CfsLeave(t) PROVE Keys'
  <2>1. UNCHANGED key /\ \E n \in {0, ticks} : start' = [start EXCEPT ![t] = n]
    BY <1>6 DEF CfsChoose, CfsLeave
  <2>2. QED
    BY <1>1, <2>1
<1>7. CASE LineNext
  <2>1. \/ UNCHANGED <<key, start>>
        \/ \E t \in Tasks : LineAdd(t) /\ AllocTask(t)
        \/ \E t, u \in Tasks : EdfReplace(t, u)
        \/ /\ kind = "cfs_like"
           /\ CfsBegin \/ \E t \in Tasks : CfsChoose(t) \/ CfsLeave(t)
    BY <1>7
    DEF LineNext, LoopBootAdd, BootAddTask, LoopThreadAdd, TaskAddTask,
        LineWake, EdfNext, EdfBegin, EdfExpired, EdfKill, EdfPanic, EdfChoose,
        EdfLeave, CfsNext, LineIdle, LineReturn, lineVars
  <2>2. QED
    BY <1>2, <1>3, <1>4, <1>5, <1>6, <2>1
<1>8. CASE ~LineNext
  BY <1>2, <1>8 DEF Next, vars, lineVars
<1>9. QED
  BY <1>7, <1>8

\* A thread's kernel call touches its own control block and nothing else.
LEMMA ThreadFrame ==
  ASSUME CoreTypeOK, NEW t \in Tasks, LoopThread(t)
  PROVE  /\ mode = "thread" /\ current = t /\ ~pend
         /\ UNCHANGED <<tick, primask, mode, current, allocated, loopVars>>
         /\ \A u \in Tasks \ {t} :
              UNCHANGED <<state[u], next_run[u], pc[u], deadline[u]>>
<1> USE DEF CoreTypeOK, tcbVars, threadVars, Executes, Goto
<1>1. UNCHANGED loopVars
  BY DEF LoopThread
<1>2. CASE TaskStart(t)
  BY <1>1, <1>2 DEF TaskStart
<1>3. CASE Yield(t)
  BY <1>1, <1>3 DEF Yield
<1>4. CASE SvcSleep(t)
  BY <1>1, <1>4 DEF SvcSleep
<1>5. CASE SleepReturn(t)
  BY <1>1, <1>5 DEF SleepReturn
<1>6. CASE TaskDone(t)
  BY <1>1, <1>6 DEF TaskDone
<1>7. CASE TaskExitYield(t)
  BY <1>1, <1>7 DEF TaskExitYield
<1>8. QED
  BY <1>2, <1>3, <1>4, <1>5, <1>6, <1>7 DEF LoopThread

\* A thread that goes to sleep has asked for a switch.
LEMMA ThreadSleeps ==
  ASSUME LoopTypeOK, NEW t \in Tasks, LoopThread(t)
  PROVE  pc'[t] = "asleep" =>
           /\ pend' = TRUE
           /\ next_run'[t] = deadline'[t]
           /\ state'[t] = "WAIT"
<1> USE DEF LoopTypeOK, CoreTypeOK, tcbVars, threadVars, Goto
<1>1. CASE SvcSleep(t)
  BY <1>1 DEF SvcSleep
<1>2. CASE TaskStart(t) \/ SleepReturn(t) \/ TaskDone(t) \/ TaskExitYield(t)
  BY <1>2 DEF TaskStart, SleepReturn, TaskDone, TaskExitYield
<1>3. CASE Yield(t)
  BY <1>3 DEF Yield
<1>4. QED
  BY <1>1, <1>2, <1>3 DEF LoopThread

\* A new task is at its beginning, and nothing else changes.
LEMMA NewTaskFrame ==
  ASSUME CoreTypeOK, NEW t \in Tasks, AllocTask(t)
  PROVE  /\ t \notin allocated /\ allocated' = allocated \cup {t}
         /\ state'[t] = "READY" /\ pc'[t] = "wrapper" /\ next_run'[t] = 0
         /\ \A u \in Tasks \ {t} :
              UNCHANGED <<state[u], next_run[u], pc[u], deadline[u]>>
BY DEF CoreTypeOK, AllocTask, IsFirstFree, FreeSlots

\* The steps that leave the clock, the control blocks and the threads alone.
Handles ==
  \/ LoopPanic \/ LoopLaunch \/ LoopEnter \/ LoopReturn \/ AllAwake \/ Reap
  \/ Return(Idle)
  \/ \E t \in Tasks : Choose(t) \/ PutAside(t) \/ Retire(t)
  \/ kind = "edf" /\ \E t \in Tasks : EdfExpired(t)
  \/ UNCHANGED <<coreVars, loopVars>>

LEMMA HandlesFrame == Handles => UNCHANGED <<tick, state, next_run, threadVars>>
BY PanicFrame
   DEF Handles, LoopLaunch, LoopEnter, LoopReturn, AllAwake, Reap, PendSVEnter,
       PendSVReturn, FreeTask, Choose, PutAside, Retire, EdfExpired, Return,
       coreVars, tcbVars, threadVars

LEMMA SlumberInduction ==
  ASSUME SleepInv, LoopTypeOK', tick <= tick', CommonStep \/ EdfStep
  PROVE  Slumber'
<1> USE DEF SleepInv, LoopTypeOK, CoreTypeOK, Slumber
<1>1. ASSUME UNCHANGED <<state, next_run, threadVars>> PROVE Slumber'
  BY <1>1 DEF threadVars
<1>2. CASE Counts
  <2>1. PICK e \in Nat, q \in Nat \cup {Infinite} : CountTick(e, q)
    BY <1>2 DEF Counts
  <2>2. QED
    BY <1>1, <2>1, TickAdvances DEF tcbVars
<1>3. CASE Handles
  BY <1>1, <1>3, HandlesFrame
<1>4. ASSUME NEW t \in Tasks, Wake(t) PROVE Slumber'
  <2>1. /\ next_run[t] <= tick /\ state' = [state EXCEPT ![t] = "READY"]
        /\ UNCHANGED <<tick, next_run, pc, deadline>>
    BY <1>4 DEF Wake, Due, Clock, threadVars
  <2>2. QED
    BY <2>1
<1>5. ASSUME NEW t \in Tasks, LoopThread(t) PROVE Slumber'
  <2> SUFFICES ASSUME NEW u \in Tasks, pc'[u] = "asleep"
               PROVE  /\ next_run'[u] = deadline'[u]
                      /\ state'[u] \in Blocked \/ deadline'[u] <= tick'
    OBVIOUS
  <2>1. CASE u = t
    BY <1>5, <2>1, ThreadSleeps DEF Blocked
  <2>2. CASE u # t
    BY <1>5, <2>2, ThreadFrame
  <2>3. QED
    BY <2>1, <2>2
<1>6. ASSUME NEW t \in Tasks, AllocTask(t), UNCHANGED tick PROVE Slumber'
  BY <1>6, NewTaskFrame
<1>7. ASSUME NEW t \in Tasks, EdfKill(t) \/ EdfPanic(t) PROVE Slumber'
  BY <1>7 DEF EdfKill, EdfPanic, threadVars, Blocked
<1>8. ASSUME NEW t \in Tasks, NEW u \in Tasks, EdfReplace(t, u) PROVE Slumber'
  BY <1>8 DEF EdfReplace, Blocked
<1>9. QED
  BY <1>2, <1>3, <1>4, <1>5, <1>6, <1>7, <1>8
  DEF CommonStep, EdfStep, Handles, LoopBootAdd, BootAddTask, LoopThreadAdd,
      TaskAddTask

LEMMA EntitledInduction ==
  ASSUME SleepInv, LoopTypeOK', Clock', tick <= tick', kind' = kind, Keys',
         CommonStep \/ EdfStep,
         kind = "edf" =>
           \A t \in Tasks : key'[t] = key[t] \/ pc'[t] = "wrapper"
  PROVE  Entitled'
<1> USE DEF SleepInv, LoopTypeOK, CoreTypeOK, Keys, Entitled
<1>1. CASE Counts
  <2>1. PICK e \in Nat, q \in Nat \cup {Infinite} : CountTick(e, q)
    BY <1>1 DEF Counts
  <2>2. /\ UNCHANGED <<mode, current, state, pc>> /\ (pend => pend')
        /\ pend \in BOOLEAN /\ pend' \in BOOLEAN
    BY <2>1, TickAdvances DEF tcbVars, threadVars
  <2>3. \A t \in Tasks : pc[t] = "asleep" /\ kind = "edf" => key'[t] = key[t]
    BY <2>2
  <2>4. QED
    BY <2>2, <2>3
<1>2. ASSUME mode' \notin {"restore", "thread"} PROVE Entitled'
  BY <1>2
<1>3. CASE LoopReturn
  BY <1>3 DEF LoopReturn, PendSVReturn, tcbVars, threadVars
<1>4. ASSUME NEW t \in Tasks, Choose(t) PROVE Entitled'
  BY <1>4 DEF Choose, Return, Blocked, Runnable, tcbVars, threadVars
<1>5. ASSUME NEW t \in Tasks, EdfExpired(t), kind = "edf" PROVE Entitled'
  BY <1>5 DEF EdfExpired, Expired, Return, Clock, tcbVars, threadVars
<1>6. CASE Return(Idle)
  BY <1>6 DEF Return, Idle, Tasks
<1>7. ASSUME NEW t \in Tasks, LoopThread(t) PROVE Entitled'
  BY <1>7, ThreadFrame, ThreadSleeps
<1>8. ASSUME NEW t \in Tasks, NEW u \in Tasks, LoopThreadAdd(t, u)
      PROVE  Entitled'
  <2>1. /\ AllocTask(u)
        /\ mode = "thread" /\ current = t /\ ~pend
        /\ UNCHANGED <<tick, pend, mode, current>>
    BY <1>8 DEF LoopThreadAdd, TaskAddTask, Executes
  <2>2. QED
    BY <2>1, NewTaskFrame
<1>9. CASE UNCHANGED <<coreVars, loopVars>>
  BY <1>9 DEF coreVars, tcbVars, threadVars
<1>10. CASE \/ LoopPanic \/ LoopLaunch \/ LoopEnter \/ AllAwake \/ Reap
            \/ \E t \in Tasks : \/ Wake(t) \/ PutAside(t) \/ Retire(t)
                               \/ LoopBootAdd(t) \/ EdfKill(t) \/ EdfPanic(t)
            \/ \E t, u \in Tasks : EdfReplace(t, u)
  <2>1. mode' \notin {"restore", "thread"}
    BY <1>10, PanicFrame
    DEF LoopLaunch, LoopEnter, AllAwake, Reap, PendSVEnter, Wake, PutAside,
        Retire, LoopBootAdd, BootAddTask, EdfKill, EdfPanic, EdfReplace, coreVars
  <2>2. QED
    BY <1>2, <2>1
<1>11. QED
  BY <1>1, <1>3, <1>4, <1>5, <1>6, <1>7, <1>8, <1>9, <1>10
  DEF CommonStep, EdfStep

LEMMA SleepInduction == SleepInv /\ [Next]_vars => SleepInv'
<1> SUFFICES ASSUME SleepInv, [Next]_vars PROVE SleepInv'
  OBVIOUS
<1>1. LoopTypeOK /\ CoreTypeOK /\ Clock
  BY DEF SleepInv, LoopTypeOK
<1>2. CommonStep \/ EdfStep
  BY <1>1, EveryStep
<1>3. LoopTypeOK' /\ Clock' /\ tick <= tick' /\ kind' = kind
  BY <1>1, <1>2, TypesInduction, TimeMoves
<1>4. /\ Keys'
      /\ kind = "edf" =>
           \A t \in Tasks : key'[t] = key[t] \/ pc'[t] = "wrapper"
  BY KeysInduction
<1>5. QED
  BY <1>2, <1>3, <1>4, SlumberInduction, EntitledInduction DEF SleepInv

\* No scheduler wakes a task before the tick it asked for, with any number of
\* tasks, any priorities, deadlines, quanta and tickets (api.hpp,
\* sleep_task_for, and get_next_task of each scheduler); an edf task whose
\* deadline has passed is the one exception.
THEOREM NoSchedulerWakesEarly == Spec => []SleepNotShort
<1>1. SleepInv => SleepNotShort
  BY DEF SleepInv, Entitled, Slumber, SleepNotShort, Executes
<1>2. QED
  BY <1>1, SleepInitially, SleepInduction, PTL DEF Spec

-----------------------------------------------------------------------------
(* What the queues owe the loop                                            *)

\* Every allocated task is in one place: the queues, waiting_tasks_, or the
\* hand of on_task_done.  It is the common part of Placement.
Custody ==
  /\ Held \cup waiting \cup ({hand} \ {NoTask}) = allocated
  /\ Held \cap waiting = {} /\ hand \notin Held \cup waiting

\* What each step does to the tasks in the scheduler's queues: a task enters
\* when it is new or woken, leaves when it waits or is done, and is met only
\* while it is there; a scheduler that serves returns the idle task only when
\* none is there.
QueueStep ==
  \/ \E t \in Tasks : (LoopBootAdd(t) \/ Wake(t)) /\ Held' = Held \cup {t}
  \/ \E t, u \in Tasks : LoopThreadAdd(t, u) /\ Held' = Held \cup {u}
  \/ \E t \in Held : Choose(t) /\ Held' = Held
  \/ \E t \in Held : (PutAside(t) \/ Retire(t)) /\ Held' = Held \ {t}
  \/ Return(Idle) /\ (Serves => Held = {}) /\ Held' = Held
  \/ /\ \/ Counts
        \/ LoopPanic \/ LoopLaunch \/ LoopEnter \/ LoopReturn \/ AllAwake \/ Reap
        \/ \E t \in Tasks : LoopThread(t)
        \/ UNCHANGED <<coreVars, loopVars>>
     /\ Held' = Held

\* What edf does with a task whose deadline has passed: the task stays.
ExpiredStep ==
  /\ kind = "edf"
  /\ \/ \E t \in Held :
          (EdfExpired(t) \/ EdfKill(t) \/ EdfPanic(t)) /\ Held' = Held
     \/ \E t \in Held, u \in Tasks : EdfReplace(t, u) /\ Held' = Held \cup {u}

\* The hand holds a task while on_task_done frees it.
HandState == hand # NoTask <=> mode = "reap"

\* What the point a thread has reached says about its state.
ThreadOK(t) ==
  /\ state[t] # "NONE"
  /\ state[t] = "WAIT" => pc[t] = "asleep"
  /\ pc[t] \in {"exit_yield", "gone"} <=> state[t] = "DONE"

ThreadState ==
  /\ \A t \in allocated : ThreadOK(t)
  /\ \A t \in Tasks \ allocated : state[t] \notin Runnable

\* waiting_tasks_ has sleepers only.
WaitingState == \A t \in waiting : state[t] = "WAIT"

\* What each mode of the processor says about current and the hand.
ModeState ==
  /\ hand # NoTask => state[hand] = "DONE"
  /\ mode = "thread" => current \in allocated \cup {Idle}
  /\ mode = "restore" =>
       \/ current \in allocated /\ state[current] \in Runnable
       \/ current = Idle /\ \A t \in allocated : state[t] \notin Runnable

\* What holds of the tasks if the scheduler serves them.
ServedState == ThreadState /\ WaitingState /\ ModeState

TasksInv == Custody /\ HandState /\ (Serves => ServedState)

LEMMA CustodyInduction ==
  ASSUME LoopTypeOK, Custody, HandState, QueueStep \/ ExpiredStep
  PROVE  Custody'
<1> USE DEF Custody, LoopTypeOK, CoreTypeOK
<1>0. NoTask \notin Tasks
  BY DEF Tasks, NoTask
<1>1. ASSUME NEW t \in Tasks, AllocTask(t), Held' = Held \cup {t},
             UNCHANGED <<waiting, hand>>
      PROVE  Custody'
  <2>1. t \notin allocated /\ allocated' = allocated \cup {t}
    BY <1>1, NewTaskFrame
  <2>2. QED
    BY <1>0, <1>1, <2>1
<1>2. ASSUME NEW t \in Tasks, LoopBootAdd(t), Held' = Held \cup {t}
      PROVE  Custody'
  BY <1>1, <1>2 DEF LoopBootAdd, BootAddTask, loopVars
<1>3. ASSUME NEW t \in Tasks, NEW u \in Tasks, LoopThreadAdd(t, u),
             Held' = Held \cup {u}
      PROVE  Custody'
  BY <1>1, <1>3 DEF LoopThreadAdd, TaskAddTask, loopVars
<1>4. ASSUME NEW t \in Tasks, Wake(t), Held' = Held \cup {t} PROVE Custody'
  <2>1. /\ t \in waiting /\ waiting' = waiting \ {t}
        /\ UNCHANGED <<allocated, hand>>
    BY <1>4 DEF Wake, Due
  <2>2. QED
    BY <1>4, <2>1
<1>5. ASSUME NEW t \in Held, PutAside(t) \/ Retire(t), Held' = Held \ {t}
      PROVE  Custody'
  <2>1. CASE PutAside(t)
    BY <1>5, <2>1 DEF PutAside, coreVars, tcbVars
  <2>2. CASE Retire(t)
    <3>1. hand = NoTask /\ hand' = t /\ UNCHANGED <<waiting, allocated>>
      BY <2>2 DEF Retire, HandState, tcbVars
    <3>2. t \in Tasks
      OBVIOUS
    <3>3. QED
      BY <1>0, <1>5, <3>1, <3>2
  <2>3. QED
    BY <1>5, <2>1, <2>2
<1>6. ASSUME Reap, Held' = Held PROVE Custody'
  <2>1. /\ hand # NoTask /\ hand' = NoTask
        /\ allocated' = allocated \ {hand} /\ UNCHANGED waiting
    BY <1>6 DEF Reap, FreeTask, HandState
  <2>2. NoTask \notin Held \cup waiting
    BY <1>0
  <2>3. QED
    BY <1>6, <2>1, <2>2
<1>7. ASSUME UNCHANGED <<allocated, waiting, hand>>, Held' = Held
      PROVE  Custody'
  BY <1>7
<1>8. ASSUME NEW t \in Tasks, LoopThread(t), Held' = Held PROVE Custody'
  BY <1>7, <1>8, ThreadFrame DEF loopVars
<1>9. ASSUME \/ Counts \/ LoopPanic \/ LoopLaunch \/ LoopEnter \/ LoopReturn
             \/ AllAwake \/ Return(Idle) \/ \E t \in Held : Choose(t)
             \/ UNCHANGED <<coreVars, loopVars>>
      PROVE  UNCHANGED <<allocated, waiting, hand>>
  BY <1>9, PanicFrame
  DEF Counts, CountTick, LoopLaunch, LoopEnter, LoopReturn, AllAwake, Choose,
      Return, PendSVEnter, PendSVReturn, coreVars, tcbVars, loopVars
<1>10. ASSUME NEW t \in Held, EdfExpired(t) \/ EdfKill(t) \/ EdfPanic(t),
              Held' = Held
       PROVE  Custody'
  <2>1. UNCHANGED <<allocated, waiting, hand>>
    BY <1>10 DEF EdfExpired, EdfKill, EdfPanic, Return, tcbVars, loopVars
  <2>2. QED
    BY <1>7, <1>10, <2>1
<1>11. ASSUME NEW t \in Held, NEW u \in Tasks, EdfReplace(t, u),
              Held' = Held \cup {u}
       PROVE  Custody'
  <2>1. /\ u \notin allocated /\ allocated' = allocated \cup {u}
        /\ UNCHANGED <<waiting, hand>>
    BY <1>11 DEF EdfReplace, IsFirstFree, FreeSlots, loopVars
  <2>2. QED
    BY <1>0, <1>11, <2>1
<1>12. QED
  BY <1>2, <1>3, <1>4, <1>5, <1>6, <1>7, <1>8, <1>9, <1>10, <1>11
  DEF QueueStep, ExpiredStep

LEMMA HandInduction ==
  ASSUME LoopTypeOK, Custody, HandState, QueueStep \/ ExpiredStep
  PROVE  HandState'
<1> USE DEF HandState
<1>1. ASSUME NEW t \in Tasks, LoopThread(t) PROVE UNCHANGED <<hand, mode>>
  BY <1>1, ThreadFrame DEF LoopTypeOK, loopVars
<1>2. ASSUME NEW t \in Held, Retire(t) PROVE HandState'
  <2>1. t \in Tasks
    BY DEF Custody, LoopTypeOK, CoreTypeOK
  <2>2. NoTask \notin Tasks
    BY DEF Tasks, NoTask
  <2>3. hand' # NoTask /\ mode' = "reap"
    BY <1>2, <2>1, <2>2 DEF Retire
  <2>4. QED
    BY <2>3
<1>3. CASE Reap
  BY <1>3 DEF Reap
<1>4. ASSUME UNCHANGED hand, mode # "reap", mode' # "reap" PROVE HandState'
  BY <1>4
<1>5. ASSUME UNCHANGED <<hand, mode>> PROVE HandState'
  BY <1>5
<1>6. ASSUME \/ Counts \/ \E t \in Tasks : LoopBootAdd(t) \/ Wake(t)
             \/ \E t, u \in Tasks : LoopThreadAdd(t, u)
             \/ \E t \in Held : PutAside(t)
             \/ UNCHANGED <<coreVars, loopVars>>
      PROVE  UNCHANGED <<hand, mode>>
  BY <1>6
  DEF Counts, CountTick, LoopBootAdd, BootAddTask, Wake, LoopThreadAdd,
      TaskAddTask, PutAside, coreVars, loopVars
<1>7. ASSUME \/ LoopPanic \/ LoopLaunch \/ LoopEnter \/ LoopReturn \/ AllAwake
             \/ Return(Idle)
             \/ \E t \in Held :
                  Choose(t) \/ EdfExpired(t) \/ EdfKill(t) \/ EdfPanic(t)
             \/ \E t \in Held, u \in Tasks : EdfReplace(t, u)
      PROVE  UNCHANGED hand /\ mode # "reap" /\ mode' # "reap"
  BY <1>7, PanicFrame
  DEF LoopLaunch, LoopEnter, LoopReturn, AllAwake, PendSVEnter, PendSVReturn,
      Choose, Return, EdfExpired, EdfKill, EdfPanic, EdfReplace, loopVars
<1>8. QED
  BY <1>1, <1>2, <1>3, <1>4, <1>5, <1>6, <1>7 DEF QueueStep, ExpiredStep

LEMMA ThreadStateInduction ==
  ASSUME SleepInv, kind # "edf", Custody, HandState, ServedState, QueueStep
  PROVE  ThreadState' /\ WaitingState'
<1> USE DEF SleepInv, LoopTypeOK, CoreTypeOK, ServedState, ThreadState,
            WaitingState
<1> DEFINE Goal == ThreadState' /\ WaitingState'
<1>0. waiting \subseteq allocated /\ NoTask \notin Tasks
  BY DEF Custody, Tasks, NoTask
<1>1. ASSUME NEW t \in Tasks, AllocTask(t), UNCHANGED waiting
      PROVE  Goal
  <2>1. ThreadState'
    BY <1>1, NewTaskFrame DEF ThreadOK
  <2>2. t \notin waiting
    BY <1>0, <1>1, NewTaskFrame
  <2>3. QED
    BY <1>1, <2>1, <2>2, NewTaskFrame
<1>2. ASSUME NEW t \in Tasks, Wake(t) PROVE Goal
  <2>1. /\ t \in waiting /\ waiting' = waiting \ {t}
        /\ state' = [state EXCEPT ![t] = "READY"]
        /\ UNCHANGED <<allocated, pc>>
    BY <1>2 DEF Wake, Due, threadVars
  <2>2. state[t] = "WAIT" /\ pc[t] = "asleep"
    BY <1>0, <2>1 DEF ThreadOK
  <2>3. ASSUME NEW u \in allocated' PROVE ThreadOK(u)'
    BY <2>1, <2>2 DEF ThreadOK
  <2>4. ASSUME NEW u \in Tasks \ allocated' PROVE state'[u] \notin Runnable
    BY <1>0, <2>1
  <2>5. ASSUME NEW u \in waiting' PROVE state'[u] = "WAIT"
    BY <2>1
  <2>6. QED
    BY <2>3, <2>4, <2>5
<1>3. ASSUME NEW t \in Held, PutAside(t) PROVE Goal
  <2>1. /\ state[t] = "WAIT" /\ waiting' = waiting \cup {t}
        /\ UNCHANGED <<state, pc, allocated>>
    BY <1>3 DEF PutAside, coreVars, tcbVars, threadVars
  <2>2. ThreadState'
    BY <2>1 DEF ThreadOK
  <2>3. ASSUME NEW u \in waiting' PROVE state'[u] = "WAIT"
    BY <2>1
  <2>4. QED
    BY <2>2, <2>3
<1>4. ASSUME UNCHANGED <<state, pc, waiting>>, allocated' = allocated
      PROVE  Goal
  BY <1>4 DEF ThreadOK
<1>5. ASSUME \/ Counts \/ LoopPanic \/ LoopLaunch \/ LoopEnter \/ LoopReturn
             \/ AllAwake \/ Return(Idle)
             \/ \E t \in Held : Choose(t) \/ Retire(t)
             \/ UNCHANGED <<coreVars, loopVars>>
      PROVE  UNCHANGED <<state, pc, waiting>> /\ allocated' = allocated
  BY <1>5, PanicFrame
  DEF Counts, CountTick, LoopLaunch, LoopEnter, LoopReturn, AllAwake, Choose,
      Return, Retire, PendSVEnter, PendSVReturn, coreVars, tcbVars, threadVars,
      loopVars
<1>6. ASSUME NEW t \in Tasks, LoopThread(t) PROVE Goal
  <2>1. /\ mode = "thread" /\ current = t /\ ~pend
        /\ UNCHANGED <<allocated, waiting>>
        /\ \A u \in Tasks \ {t} : UNCHANGED <<state[u], pc[u]>>
    BY <1>6, ThreadFrame DEF loopVars
  <2>2. t \in allocated
    BY <2>1 DEF ModeState, Tasks, Idle
  <2>3. pc[t] = "asleep" => state[t] \notin Blocked
    BY <2>1 DEF Entitled
  <2>4. t \notin waiting
    BY <2>2, <2>3 DEF ThreadOK, Blocked
  <2>5. ThreadOK(t)'
    BY <1>6, <2>2, <2>3
    DEF ThreadOK, Blocked, LoopThread, TaskStart, Yield, SvcSleep, SleepReturn,
        TaskDone, TaskExitYield, Goto, tcbVars, threadVars
  <2>6. ASSUME NEW u \in allocated' PROVE ThreadOK(u)'
    BY <2>1, <2>5 DEF ThreadOK
  <2>7. ASSUME NEW u \in Tasks \ allocated' PROVE state'[u] \notin Runnable
    BY <2>1, <2>2
  <2>8. ASSUME NEW u \in waiting' PROVE state'[u] = "WAIT"
    BY <2>1, <2>4
  <2>9. QED
    BY <2>6, <2>7, <2>8
<1>7. CASE Reap
  <2>1. hand # NoTask
    BY <1>7 DEF Reap, HandState
  <2>2. state[hand] = "DONE"
    BY <2>1 DEF ModeState
  <2>3. allocated' = allocated \ {hand} /\ UNCHANGED <<state, pc, waiting>>
    BY <1>7 DEF Reap, FreeTask, threadVars
  <2>4. ASSUME NEW u \in allocated' PROVE ThreadOK(u)'
    BY <2>3 DEF ThreadOK
  <2>5. ASSUME NEW u \in Tasks \ allocated' PROVE state'[u] \notin Runnable
    BY <2>2, <2>3 DEF Runnable
  <2>6. ASSUME NEW u \in waiting' PROVE state'[u] = "WAIT"
    BY <2>3
  <2>7. QED
    BY <2>4, <2>5, <2>6
<1>8. QED
  BY <1>1, <1>2, <1>3, <1>4, <1>5, <1>6, <1>7
  DEF QueueStep, LoopBootAdd, BootAddTask, LoopThreadAdd, TaskAddTask, loopVars

LEMMA ModeInduction ==
  ASSUME SleepInv, Serves, Custody, HandState, ServedState, QueueStep
  PROVE  ModeState'
<1> USE DEF SleepInv, LoopTypeOK, CoreTypeOK, ServedState, HandState, ModeState
<1>0. Held \cup waiting \subseteq allocated /\ NoTask \notin Tasks
      /\ allocated \subseteq Tasks
  BY DEF Custody, Tasks, NoTask
<1>1. CASE Counts
  BY <1>1 DEF Counts, CountTick, tcbVars, loopVars
<1>2. CASE LoopPanic \/ LoopLaunch \/ LoopEnter \/ LoopReturn \/ AllAwake
  BY <1>2, PanicFrame
  DEF LoopLaunch, LoopEnter, LoopReturn, AllAwake, PendSVEnter, PendSVReturn,
      tcbVars, loopVars
<1>3. CASE Reap
  BY <1>3 DEF Reap, FreeTask
<1>4. ASSUME NEW t \in Tasks, LoopBootAdd(t) PROVE ModeState'
  BY <1>4 DEF LoopBootAdd, BootAddTask, loopVars
<1>5. ASSUME NEW t \in Tasks, NEW u \in Tasks, LoopThreadAdd(t, u)
      PROVE  ModeState'
  <2>1. /\ AllocTask(u) /\ mode = "thread"
        /\ UNCHANGED <<mode, current, hand>>
    BY <1>5 DEF LoopThreadAdd, TaskAddTask, Executes, loopVars
  <2>2. QED
    BY <2>1, NewTaskFrame
<1>6. ASSUME NEW t \in Tasks, LoopThread(t) PROVE ModeState'
  BY <1>6, ThreadFrame DEF loopVars
<1>7. ASSUME NEW t \in Tasks, Wake(t) PROVE ModeState'
  BY <1>7 DEF Wake
<1>8. ASSUME NEW t \in Held, Choose(t) PROVE ModeState'
  BY <1>0, <1>8 DEF Choose, Return, tcbVars, loopVars
<1>9. ASSUME NEW t \in Held, PutAside(t) \/ Retire(t) PROVE ModeState'
  BY <1>0, <1>9 DEF PutAside, Retire, coreVars, tcbVars
<1>10. ASSUME Return(Idle), Held = {} PROVE ModeState'
  <2>1. hand = NoTask
    BY <1>10 DEF Return
  <2>2. \A t \in allocated : state[t] = "WAIT"
    BY <1>0, <1>10, <2>1 DEF Custody, WaitingState
  <2>3. QED
    BY <1>10, <2>1, <2>2 DEF Return, tcbVars, loopVars, Runnable
<1>11. CASE UNCHANGED <<coreVars, loopVars>>
  BY <1>11 DEF coreVars, tcbVars, loopVars
<1>12. QED
  BY <1>1, <1>2, <1>3, <1>4, <1>5, <1>6, <1>7, <1>8, <1>9, <1>10, <1>11
  DEF QueueStep

\* The tasks are in order as long as the queues do what they owe.
LEMMA TasksInduction ==
  ASSUME SleepInv, kind' = kind, TasksInv, QueueStep \/ ExpiredStep
  PROVE  TasksInv'
<1> USE DEF TasksInv
<1>1. Custody' /\ HandState'
  BY CustodyInduction, HandInduction DEF SleepInv
<1>2. ASSUME Serves PROVE ServedState'
  <2>1. kind # "edf" /\ QueueStep
    BY <1>2 DEF Serves, ExpiredStep
  <2>2. QED
    BY <1>2, <2>1, ThreadStateInduction, ModeInduction DEF ServedState
<1>3. Serves' => Serves
  BY DEF Serves
<1>4. QED
  BY <1>1, <1>2, <1>3

-----------------------------------------------------------------------------
(* The service                                                             *)

\* The mapping of Service, with the kind of the scheduler out of the way.
LifeNow  == [t \in Tasks |-> LifeOf(t)]
UntilNow == [t \in Tasks |-> IF LifeOf(t) = "sleeping" THEN next_run[t] ELSE 0]
CpuNow   == IF mode = "thread" THEN current ELSE NoTask

LEMMA MappingNow ==
  ASSUME Serves, kind' = kind
  PROVE  /\ NowBar = tick /\ NowBar' = tick'
         /\ LifeBar = LifeNow /\ LifeBar' = LifeNow'
         /\ UntilBar = UntilNow /\ UntilBar' = UntilNow'
         /\ CpuBar = CpuNow /\ CpuBar' = CpuNow'
<1>1. Serves'
  BY DEF Serves
<1>2. LifeBar = LifeNow /\ LifeBar' = LifeNow'
  BY <1>1 DEF LifeBar, LifeNow
<1>3. UntilBar = UntilNow /\ UntilBar' = UntilNow'
  BY <1>2 DEF UntilBar, UntilNow, LifeNow
<1>4. QED
  BY <1>1, <1>2, <1>3 DEF NowBar, CpuBar, CpuNow

\* A step that changes only what slot t holds.
LEMMA LifeStep ==
  ASSUME NEW t \in Tasks,
         \A u \in Tasks \ {t} :
           /\ UNCHANGED <<state[u], next_run[u]>>
           /\ u \in allocated' <=> u \in allocated
  PROVE  /\ LifeNow' = [LifeNow EXCEPT ![t] = LifeOf(t)']
         /\ UntilNow' = [UntilNow EXCEPT ![t] =
              IF LifeOf(t)' = "sleeping" THEN next_run'[t] ELSE 0]
         /\ LifeNow[t] = LifeOf(t)
         /\ UntilNow[t] = IF LifeOf(t) = "sleeping" THEN next_run[t] ELSE 0
<1>1. \A u \in Tasks \ {t} : UNCHANGED LifeOf(u)
  BY DEF LifeOf
<1>2. QED
  BY <1>1 DEF LifeNow, UntilNow

\* A change of slot t that neither starts nor ends a sleep.
LEMMA AwakeStep ==
  ASSUME NEW t \in Tasks,
         \A u \in Tasks \ {t} :
           /\ UNCHANGED <<state[u], next_run[u]>>
           /\ u \in allocated' <=> u \in allocated,
         LifeOf(t) # "sleeping", LifeOf(t)' # "sleeping"
  PROVE  LifeNow' = [LifeNow EXCEPT ![t] = LifeOf(t)'] /\ UntilNow' = UntilNow
<1>1. /\ LifeNow' = [LifeNow EXCEPT ![t] = LifeOf(t)']
      /\ UntilNow' = [UntilNow EXCEPT ![t] = 0]
      /\ UntilNow[t] = 0
  BY LifeStep
<1>2. UntilNow' = UntilNow
  BY <1>1 DEF UntilNow
<1>3. QED
  BY <1>1, <1>2

LEMMA SameLives ==
  ASSUME UNCHANGED <<allocated, state, next_run>>
  PROVE  UNCHANGED <<LifeNow, UntilNow>>
BY DEF LifeNow, UntilNow, LifeOf

LEMMA AllocService ==
  ASSUME SleepInv, Serves, kind' = kind, NEW t \in Tasks, AllocTask(t),
         UNCHANGED <<tick, CpuNow>>
  PROVE  Service!Create(t)
<1>1. /\ t \notin allocated /\ allocated' = allocated \cup {t}
      /\ state'[t] = "READY"
      /\ \A u \in Tasks \ {t} : UNCHANGED <<state[u], next_run[u]>>
  BY NewTaskFrame DEF SleepInv, LoopTypeOK
<1>2. LifeOf(t) = "free" /\ LifeOf(t)' = "runnable"
  BY <1>1 DEF LifeOf, Runnable
<1>3. /\ LifeNow' = [LifeNow EXCEPT ![t] = "runnable"]
      /\ LifeNow[t] = "free" /\ UntilNow' = UntilNow
  BY <1>1, <1>2, AwakeStep DEF LifeNow
<1>4. QED
  BY <1>3, MappingNow DEF Service!Create

LEMMA WakeService ==
  ASSUME SleepInv, TasksInv, Serves, kind' = kind, NEW t \in Tasks, Wake(t)
  PROVE  Service!Wake(t)
<1>1. /\ t \in waiting /\ next_run[t] <= tick
      /\ state' = [state EXCEPT ![t] = "READY"]
      /\ UNCHANGED <<tick, allocated, next_run, mode, current>>
      /\ state \in [Tasks -> States]
  BY DEF Wake, Due, SleepInv, Clock, LoopTypeOK, CoreTypeOK
<1>2. t \in allocated /\ state[t] = "WAIT"
  BY <1>1 DEF TasksInv, Custody, ServedState, WaitingState
<1>3. LifeOf(t) = "sleeping" /\ LifeOf(t)' = "runnable"
  BY <1>1, <1>2 DEF LifeOf, Runnable
<1>4. /\ LifeNow' = [LifeNow EXCEPT ![t] = "runnable"]
      /\ UntilNow' = [UntilNow EXCEPT ![t] = 0]
      /\ LifeNow[t] = "sleeping" /\ UntilNow[t] = next_run[t]
  BY <1>1, <1>3, LifeStep
<1>5. UNCHANGED CpuNow
  BY <1>1 DEF CpuNow
<1>6. QED
  BY <1>1, <1>4, <1>5, MappingNow DEF Service!Wake

LEMMA ReapService ==
  ASSUME SleepInv, TasksInv, Serves, kind' = kind, Reap
  PROVE  \E t \in Tasks : Service!Reclaim(t)
<1>1. /\ hand \in Tasks /\ hand \in allocated /\ state[hand] = "DONE"
      /\ allocated' = allocated \ {hand}
      /\ UNCHANGED <<tick, state, next_run>>
      /\ CpuNow = NoTask /\ CpuNow' = NoTask
  BY DEF Reap, FreeTask, SleepInv, LoopTypeOK, TasksInv, Custody, HandState,
         ServedState, ModeState, CpuNow
<1>2. PICK t \in Tasks : t = hand
  BY <1>1
<1>3. LifeOf(t) = "finished" /\ LifeOf(t)' = "free"
  BY <1>1, <1>2 DEF LifeOf, Runnable
<1>4. \A u \in Tasks \ {t} :
        /\ UNCHANGED <<state[u], next_run[u]>>
        /\ u \in allocated' <=> u \in allocated
  BY <1>1, <1>2
<1>5. /\ LifeNow' = [LifeNow EXCEPT ![t] = "free"]
      /\ LifeNow[t] = "finished" /\ UntilNow' = UntilNow
  BY <1>3, <1>4, AwakeStep DEF LifeNow
<1>6. CpuNow # t
  BY <1>1 DEF Tasks, NoTask
<1>7. QED
  BY <1>1, <1>5, <1>6, MappingNow DEF Service!Reclaim

\* Each kernel call is a Finish, a FallAsleep, or invisible.
LEMMA ThreadService ==
  ASSUME SleepInv, SleepInv', TasksInv, Serves, kind' = kind,
         NEW t \in Tasks, LoopThread(t)
  PROVE  \/ Service!Finish(t) \/ Service!FallAsleep(t)
         \/ UNCHANGED Service!service
<1> USE DEF SleepInv, LoopTypeOK, CoreTypeOK, TasksInv, ServedState
<1>1. /\ mode = "thread" /\ current = t /\ ~pend
      /\ UNCHANGED <<tick, mode, current, allocated>>
      /\ \A u \in Tasks \ {t} : UNCHANGED <<state[u], next_run[u]>>
  BY ThreadFrame
<1>2. t \in allocated /\ CpuNow = t /\ CpuNow' = t
  BY <1>1 DEF ModeState, Tasks, Idle, CpuNow
<1>3. ThreadOK(t) /\ state[t] \in States
  BY <1>2 DEF ThreadState
<1>4. CASE TaskDone(t)
  <2>1. LifeOf(t) = "runnable" /\ LifeOf(t)' = "finished"
    BY <1>1, <1>2, <1>3, <1>4
    DEF TaskDone, Goto, ThreadOK, LifeOf, Runnable, States
  <2>2. /\ LifeNow' = [LifeNow EXCEPT ![t] = "finished"]
        /\ LifeNow[t] = "runnable" /\ UntilNow' = UntilNow
    BY <1>1, <2>1, AwakeStep DEF LifeNow
  <2>3. QED
    BY <1>1, <1>2, <2>2, MappingNow DEF Service!Finish
<1>5. CASE SvcSleep(t)
  <2>1. LifeOf(t) = "runnable" /\ LifeOf(t)' = "sleeping"
    BY <1>1, <1>2, <1>3, <1>5
    DEF SvcSleep, Goto, ThreadOK, LifeOf, Runnable, States
  <2>2. /\ LifeNow' = [LifeNow EXCEPT ![t] = "sleeping"]
        /\ UntilNow' = [UntilNow EXCEPT ![t] = next_run'[t]]
        /\ LifeNow[t] = "runnable"
    BY <1>1, <2>1, LifeStep
  <2>3. next_run'[t] \in 0..MaxTick
    <3>1. PICK ms \in SleepTimes :
            /\ tick + ms <= MaxTick
            /\ next_run' = [next_run EXCEPT ![t] = (tick + ms) % TickModulus]
      BY <1>5 DEF SvcSleep
    <3>2. tick + ms \in Nat
      BY SleepTimesAssumption
    <3>3. QED
      BY <3>1, <3>2, NoWrap, TickAssumption
  <2>4. QED
    BY <1>1, <1>2, <2>2, <2>3, MappingNow DEF Service!FallAsleep
<1>6. CASE TaskStart(t)
  <2>1. LifeOf(t) = "runnable" /\ LifeOf(t)' = "runnable"
    BY <1>1, <1>2, <1>3, <1>6
    DEF TaskStart, Goto, ThreadOK, LifeOf, Runnable, States
  <2>2. /\ LifeNow' = [LifeNow EXCEPT ![t] = "runnable"]
        /\ LifeNow[t] = "runnable" /\ UntilNow' = UntilNow
    BY <1>1, <2>1, AwakeStep DEF LifeNow
  <2>3. LifeNow' = LifeNow
    BY <2>2 DEF LifeNow
  <2>4. QED
    BY <1>1, <1>2, <2>2, <2>3, MappingNow DEF Service!service
<1>7. CASE Yield(t) \/ SleepReturn(t) \/ TaskExitYield(t)
  <2>1. UNCHANGED <<allocated, state, next_run>>
    BY <1>7 DEF Yield, SleepReturn, TaskExitYield, tcbVars
  <2>2. QED
    BY <1>1, <1>2, <2>1, SameLives, MappingNow DEF Service!service
<1>8. QED
  BY <1>4, <1>5, <1>6, <1>7 DEF LoopThread

\* Every step of a scheduler whose queues do what they owe is a step of the
\* service or invisible to it.
LEMMA ServiceStep ==
  ASSUME SleepInv, SleepInv', TasksInv, Serves, kind' = kind, QueueStep
  PROVE  Service!ServiceNext \/ UNCHANGED Service!service
<1> USE DEF SleepInv, LoopTypeOK, CoreTypeOK, TasksInv, ServedState, tcbVars,
            threadVars, loopVars
<1>1. CASE Counts
  <2>1. PICK e \in Nat, q \in Nat \cup {Infinite} : CountTick(e, q)
    BY <1>1 DEF Counts
  <2>2. /\ tick' = IF tick < MaxTick THEN tick + 1 ELSE tick
        /\ UNCHANGED <<mode, current, tcbVars>>
    BY <2>1, TickAdvances
  <2>3. UNCHANGED <<LifeNow, UntilNow, CpuNow>>
    BY <2>2, SameLives DEF CpuNow
  <2>4. Service!Tick
    BY <2>2, <2>3, MappingNow DEF Service!Tick
  <2>5. QED
    BY <2>4 DEF Service!ServiceNext
<1>2. CASE LoopEnter
  <2>1. /\ UNCHANGED <<tick, LifeNow, UntilNow>>
        /\ CpuNow = current /\ current # NoTask /\ CpuNow' = NoTask
    BY <1>2, SameLives
    DEF LoopEnter, PendSVEnter, CpuNow, ModeState, Tasks, Idle, NoTask
  <2>2. Service!Suspend
    BY <2>1, MappingNow DEF Service!Suspend
  <2>3. QED
    BY <2>2 DEF Service!ServiceNext
<1>3. CASE LoopReturn
  <2>1. /\ UNCHANGED <<tick, LifeNow, UntilNow>>
        /\ CpuNow = NoTask /\ CpuNow' = current
    BY <1>3, SameLives DEF LoopReturn, PendSVReturn, CpuNow
  <2>2. \/ current \in Tasks /\ LifeNow[current] = "runnable"
        \/ current = Idle /\ \A t \in Tasks : LifeNow[t] # "runnable"
    BY <1>3 DEF LoopReturn, PendSVReturn, ModeState, LifeNow, LifeOf
  <2>3. Service!Dispatch
    BY <2>1, <2>2, MappingNow DEF Service!Dispatch
  <2>4. QED
    BY <2>3 DEF Service!ServiceNext
<1>4. CASE Reap
  BY <1>4, ReapService DEF Service!ServiceNext
<1>5. ASSUME NEW t \in Tasks, LoopBootAdd(t) PROVE Service!Create(t)
  <2>1. AllocTask(t) /\ UNCHANGED <<tick, CpuNow>>
    BY <1>5 DEF LoopBootAdd, BootAddTask, CpuNow
  <2>2. QED
    BY <2>1, AllocService
<1>6. ASSUME NEW t \in Tasks, NEW u \in Tasks, LoopThreadAdd(t, u)
      PROVE  Service!Create(u)
  <2>1. AllocTask(u) /\ UNCHANGED <<tick, CpuNow>>
    BY <1>6 DEF LoopThreadAdd, TaskAddTask, CpuNow
  <2>2. QED
    BY <2>1, AllocService
<1>7. ASSUME \/ LoopLaunch \/ AllAwake \/ Return(Idle)
             \/ \E t \in Held : Choose(t) \/ PutAside(t) \/ Retire(t)
             \/ UNCHANGED <<coreVars, loopVars>>
      PROVE  UNCHANGED Service!service
  <2>1. UNCHANGED <<tick, allocated, state, next_run, CpuNow>>
    BY <1>7
    DEF LoopLaunch, AllAwake, Return, Choose, PutAside, Retire, coreVars, CpuNow
  <2>2. QED
    BY <2>1, SameLives, MappingNow DEF Service!service
<1>8. CASE LoopPanic
  <2>1. /\ UNCHANGED <<tick, LifeNow, UntilNow>> /\ CpuNow' = NoTask
        /\ mode # "thread" => CpuNow = NoTask
        /\ mode = "thread" => CpuNow = current /\ current # NoTask
    BY <1>8, PanicFrame, SameLives DEF CpuNow, ModeState, Tasks, Idle, NoTask
  <2>2. CASE mode = "thread"
    <3>1. Service!Suspend
      BY <2>1, <2>2, MappingNow DEF Service!Suspend
    <3>2. QED
      BY <3>1 DEF Service!ServiceNext
  <2>3. CASE mode # "thread"
    BY <2>1, <2>3, MappingNow DEF Service!service
  <2>4. QED
    BY <2>2, <2>3
<1>9. QED
  BY <1>1, <1>2, <1>3, <1>4, <1>5, <1>6, <1>7, <1>8, WakeService, ThreadService
  DEF QueueStep, Service!ServiceNext

-----------------------------------------------------------------------------
(* mlfq: a task is in one level, although its level changes meanwhile      *)

LevelsApart == \A l, m \in QuantumLevels : l # m => queued[l] \cap queued[m] = {}

\* A task's quanta are positive and it is within the quantum of its level.
WithinSlice(t) ==
  slice[t] \in [QuantumLevels -> Nat \ {0}] /\ used[t] < slice[t][level[t]]

\* The task that the hook charges may have been freed.
Configured == \A t \in allocated \cup ({charged} \ {NoTask}) : WithinSlice(t)

\* The levels that get_next_task has passed are empty until it returns.
ScanState ==
  mode \in {"select", "reap"} =>
    \A l \in QuantumLevels : l < scan => queued[l] = {}

MlfqState == MlfqTypeOK /\ LevelsApart /\ Configured /\ ScanState

LEMMA MlfqInitially == MlfqInit /\ CoreInit => MlfqState
<1> SUFFICES ASSUME MlfqInit, CoreInit PROVE MlfqState
  OBVIOUS
<1> USE DEF MlfqInit, CoreInit
<1>1. MlfqTypeOK
  BY DEF MlfqTypeOK, QuantumLevels, MaximumLevels
<1>2. LevelsApart /\ ScanState
  BY DEF LevelsApart, ScanState
<1>3. Configured
  BY DEF Configured
<1>4. QED
  BY <1>1, <1>2, <1>3 DEF MlfqState

LEMMA HeldByMlfq ==
  ASSUME kind = "mlfq", kind' = kind
  PROVE  Held = MlfqHeld /\ Held' = MlfqHeld'
BY DEF Held, Priority, Deadline, Lottery

LEMMA MlfqImpliesPlacement ==
  ASSUME Custody, kind = "mlfq", MlfqState
  PROVE  MlfqPlacement
<1>1. MlfqHeld \subseteq allocated
  BY DEF Custody, Held, Priority, Deadline, Lottery
<1>2. QED
  BY <1>1 DEF MlfqState, MlfqPlacement, LevelsApart, Configured, WithinSlice

\* Steps that move no task between levels and do not search them.
LEMMA MlfqFrame ==
  ASSUME MlfqState, MlfqTypeOK', Configured', UNCHANGED queued,
         mode' \in {"select", "reap"} =>
           mode \in {"select", "reap"} /\ scan' = scan
  PROVE  MlfqState' /\ MlfqHeld' = MlfqHeld
<1>1. LevelsApart' /\ MlfqHeld' = MlfqHeld
  BY DEF MlfqState, LevelsApart, MlfqHeld
<1>2. ScanState'
  BY DEF MlfqState, ScanState
<1>3. QED
  BY <1>1, <1>2 DEF MlfqState

LEMMA MlfqAddition ==
  ASSUME LoopTypeOK, MlfqState, Custody, kind = "mlfq",
         NEW t \in Tasks, AllocTask(t), MlfqAdd(t),
         UNCHANGED mode, mode \in {"boot", "thread"}
  PROVE  MlfqState' /\ MlfqHeld' = MlfqHeld \cup {t}
<1> USE DEF QuantumLevels, MaximumLevels
<1>1. /\ t \notin allocated /\ allocated' = allocated \cup {t}
      /\ \A l \in QuantumLevels : t \notin queued[l]
  BY NewTaskFrame
  DEF LoopTypeOK, CoreTypeOK, Custody, Held, Priority, Deadline, Lottery, MlfqHeld
<1>2. PICK s \in Slices : slice' = [slice EXCEPT ![t] = s]
  BY DEF MlfqAdd
<1>3. PICK b \in BoostQuanta : boost_after' = [boost_after EXCEPT ![t] = b]
  BY DEF MlfqAdd
<1>4. s \in [QuantumLevels -> Nat \ {0}] /\ b \in Nat
  BY SlicesAssumption, BoostAssumption
<1>5. /\ level' = [level EXCEPT ![t] = 1]
      /\ used' = [used EXCEPT ![t] = 0]
      /\ last_boost' = [last_boost EXCEPT ![t] = 0]
      /\ queued' = [queued EXCEPT ![1] = @ \cup {t}]
      /\ UNCHANGED <<charged, scan>>
  BY DEF MlfqAdd
<1>6. MlfqTypeOK'
  BY <1>2, <1>3, <1>4, <1>5 DEF MlfqState, MlfqTypeOK
<1>7. \A l \in QuantumLevels :
        queued'[l] = IF l = 1 THEN queued[l] \cup {t} ELSE queued[l]
  BY <1>5 DEF MlfqState, MlfqTypeOK
<1>8. LevelsApart'
  BY <1>1, <1>7 DEF MlfqState, LevelsApart
<1>9. MlfqHeld' = MlfqHeld \cup {t}
  BY <1>7 DEF MlfqHeld
<1>10. Configured'
  <2>1. WithinSlice(t)'
    BY <1>2, <1>4, <1>5 DEF WithinSlice, MlfqState, MlfqTypeOK
  <2>2. \A u \in Tasks \ {t} : WithinSlice(u) => WithinSlice(u)'
    BY <1>2, <1>5 DEF WithinSlice, MlfqState, MlfqTypeOK
  <2>3. allocated \cup ({charged} \ {NoTask}) \subseteq Tasks
    BY DEF LoopTypeOK, CoreTypeOK, MlfqState, MlfqTypeOK
  <2>4. QED
    BY <1>1, <1>5, <2>1, <2>2, <2>3 DEF Configured, MlfqState
<1>11. ScanState'
  BY DEF ScanState
<1>12. QED
  BY <1>6, <1>8, <1>9, <1>10, <1>11 DEF MlfqState

LEMMA MlfqTicks ==
  ASSUME LoopTypeOK, MlfqState,
         HookIdle \/ \E t \in Tasks : HookEndsQuantum(t) \/ HookCharges(t)
  PROVE  MlfqState' /\ MlfqHeld' = MlfqHeld /\ Counts
<1> USE DEF MlfqState, QuantumLevels, MaximumLevels
<1>1. UNCHANGED <<mode, allocated>>
  BY DEF HookIdle, HookEndsQuantum, HookCharges, CountTick, tcbVars
<1>2. CASE HookIdle
  <2>1. UNCHANGED mlfqVars
    BY <1>2 DEF HookIdle
  <2>2. MlfqTypeOK' /\ Configured'
    BY <1>1, <2>1 DEF mlfqVars, MlfqTypeOK, Configured, WithinSlice
  <2>3. Counts
    BY <1>2 DEF HookIdle, Counts, LoopTypeOK, CoreTypeOK
  <2>4. QED
    BY <1>1, <2>1, <2>2, <2>3, MlfqFrame DEF mlfqVars
<1>3. ASSUME NEW t \in Tasks, HookEndsQuantum(t)
      PROVE  MlfqState' /\ MlfqHeld' = MlfqHeld /\ Counts
  <2>1. /\ charged = t
        /\ used' = [used EXCEPT ![t] = 0]
        /\ level' = [level EXCEPT ![t] = IF @ < MaximumLevels THEN @ + 1 ELSE @]
        /\ UNCHANGED <<queued, slice, boost_after, last_boost, charged, scan>>
    BY <1>3 DEF HookEndsQuantum
  <2>2. MlfqTypeOK'
    BY <2>1 DEF MlfqTypeOK
  <2>3. Configured'
    <3>1. NoTask \notin Tasks
      BY DEF Tasks, NoTask
    <3>2. WithinSlice(t)
      BY <2>1, <3>1 DEF Configured
    <3>3. WithinSlice(t)'
      <4>1. level'[t] \in QuantumLevels /\ used'[t] = 0 /\ slice'[t] = slice[t]
        BY <2>1 DEF MlfqTypeOK
      <4>2. QED
        BY <3>2, <4>1 DEF WithinSlice
    <3>4. \A u \in Tasks \ {t} : WithinSlice(u) => WithinSlice(u)'
      BY <2>1 DEF WithinSlice, MlfqTypeOK
    <3>5. allocated \cup ({charged} \ {NoTask}) \subseteq Tasks
      BY DEF LoopTypeOK, CoreTypeOK, MlfqTypeOK
    <3>6. QED
      BY <1>1, <2>1, <3>3, <3>4, <3>5 DEF Configured
  <2>4. Counts
    BY <1>3 DEF HookEndsQuantum, Counts
  <2>5. QED
    BY <1>1, <2>1, <2>2, <2>3, <2>4, MlfqFrame
<1>4. ASSUME NEW t \in Tasks, HookCharges(t)
      PROVE  MlfqState' /\ MlfqHeld' = MlfqHeld /\ Counts
  <2>1. /\ charged = t /\ used[t] + 1 < slice[t][level[t]]
        /\ used' = [used EXCEPT ![t] = @ + 1]
        /\ UNCHANGED <<queued, level, slice, boost_after, last_boost, charged, scan>>
    <3>1. used[t] \in Nat /\ slice[t][level[t]] \in Nat
      BY DEF MlfqTypeOK
    <3>2. QED
      BY <1>4, <3>1 DEF HookCharges, UsedUp
  <2>2. MlfqTypeOK'
    BY <2>1 DEF MlfqTypeOK
  <2>3. Configured'
    <3>1. NoTask \notin Tasks
      BY DEF Tasks, NoTask
    <3>2. WithinSlice(t)'
      BY <2>1, <3>1 DEF Configured, WithinSlice, MlfqTypeOK
    <3>3. \A u \in Tasks \ {t} : WithinSlice(u) => WithinSlice(u)'
      BY <2>1 DEF WithinSlice, MlfqTypeOK
    <3>4. allocated \cup ({charged} \ {NoTask}) \subseteq Tasks
      BY DEF LoopTypeOK, CoreTypeOK, MlfqTypeOK
    <3>5. QED
      BY <1>1, <2>1, <3>2, <3>3, <3>4 DEF Configured
  <2>4. Counts
    BY <1>4 DEF HookCharges, Counts, LoopTypeOK, CoreTypeOK
  <2>5. QED
    BY <1>1, <2>1, <2>2, <2>3, <2>4, MlfqFrame
<1>5. QED
  BY <1>2, <1>3, <1>4

LEMMA MlfqEnters ==
  ASSUME LoopTypeOK, MlfqState, MlfqEnter
  PROVE  MlfqState' /\ MlfqHeld' = MlfqHeld
<1> USE DEF MlfqState
<1>1. /\ mode' = "wake" /\ UNCHANGED allocated
      /\ UNCHANGED <<queued, slice, boost_after, charged, scan>>
  BY DEF MlfqEnter, LoopEnter, PendSVEnter, tcbVars
<1>2. /\ level' = [t \in Tasks |-> IF t \in Boosted THEN 1 ELSE level[t]]
      /\ used' = [t \in Tasks |-> IF t \in Boosted THEN 0 ELSE used[t]]
      /\ last_boost' =
           [t \in Tasks \cup {Idle} |->
              IF \/ t \in Boosted
                 \/ t = Idle /\ tick - last_boost[Idle] >= GlobalBoost
              THEN tick ELSE last_boost[t]]
  BY DEF MlfqEnter
<1>3. MlfqTypeOK'
  <2>1. tick \in Nat /\ last_boost \in [Tasks \cup {Idle} -> Nat]
    BY DEF LoopTypeOK, CoreTypeOK, MlfqTypeOK
  <2>2. last_boost' \in [Tasks \cup {Idle} -> Nat]
    BY <1>2, <2>1
  <2>3. level' \in [Tasks -> QuantumLevels] /\ used' \in [Tasks -> Nat]
    BY <1>2 DEF MlfqTypeOK, QuantumLevels, MaximumLevels
  <2>4. QED
    BY <1>1, <2>2, <2>3 DEF MlfqTypeOK
<1>4. Configured'
  <2>1. ASSUME NEW t \in Tasks, WithinSlice(t) PROVE WithinSlice(t)'
    <3>1. CASE t \in Boosted
      <4>1. level'[t] = 1 /\ used'[t] = 0 /\ slice'[t] = slice[t]
        BY <1>1, <1>2, <3>1
      <4>2. QED
        BY <2>1, <4>1 DEF WithinSlice, QuantumLevels, MaximumLevels
    <3>2. CASE t \notin Boosted
      BY <1>1, <1>2, <2>1, <3>2 DEF WithinSlice
    <3>3. QED
      BY <3>1, <3>2
  <2>2. allocated \cup ({charged} \ {NoTask}) \subseteq Tasks
    BY DEF LoopTypeOK, CoreTypeOK, MlfqTypeOK
  <2>3. QED
    BY <1>1, <2>1, <2>2 DEF Configured
<1>5. QED
  BY <1>1, <1>3, <1>4, MlfqFrame

LEMMA MlfqWakes ==
  ASSUME MlfqState, Custody, kind = "mlfq", NEW t \in Tasks, MlfqWake(t)
  PROVE  MlfqState' /\ MlfqHeld' = MlfqHeld \cup {t}
<1> USE DEF MlfqState
<1>1. /\ t \in waiting /\ mode' = "wake" /\ UNCHANGED allocated
      /\ queued' = [queued EXCEPT ![level[t]] = @ \cup {t}]
      /\ UNCHANGED <<level, used, slice, boost_after, last_boost, charged, scan>>
  BY DEF MlfqWake, Wake, Due
<1>2. \A l \in QuantumLevels : t \notin queued[l]
  BY <1>1 DEF Custody, Held, Priority, Deadline, Lottery, MlfqHeld
<1>3. level[t] \in QuantumLevels
  BY DEF MlfqTypeOK
<1>4. \A l \in QuantumLevels :
        queued'[l] = IF l = level[t] THEN queued[l] \cup {t} ELSE queued[l]
  BY <1>1 DEF MlfqTypeOK
<1>5. MlfqTypeOK'
  <2>1. queued' \in [QuantumLevels -> SUBSET Tasks]
    BY <1>1, <1>3 DEF MlfqTypeOK
  <2>2. /\ level' \in [Tasks -> QuantumLevels] /\ used' \in [Tasks -> Nat]
        /\ slice' \in [Tasks -> [QuantumLevels -> Nat]]
        /\ boost_after' \in [Tasks -> Nat]
        /\ last_boost' \in [Tasks \cup {Idle} -> Nat]
        /\ charged' \in Tasks \cup {NoTask} /\ scan' \in 1..MaximumLevels + 1
    BY <1>1 DEF MlfqTypeOK
  <2>3. QED
    BY <2>1, <2>2 DEF MlfqTypeOK
<1>6. LevelsApart' /\ MlfqHeld' = MlfqHeld \cup {t}
  <2>1. PICK k \in QuantumLevels :
          \A l \in QuantumLevels :
            queued'[l] = IF l = k THEN queued[l] \cup {t} ELSE queued[l]
    BY <1>3, <1>4
  <2>2. LevelsApart'
    BY <1>2, <2>1 DEF LevelsApart
  <2>3. MlfqHeld' = MlfqHeld \cup {t}
    BY <2>1 DEF MlfqHeld
  <2>4. QED
    BY <2>2, <2>3
<1>7. Configured' /\ ScanState'
  BY <1>1 DEF Configured, WithinSlice, ScanState
<1>8. QED
  BY <1>5, <1>6, <1>7

LEMMA MlfqChooses ==
  ASSUME MlfqState, Custody, kind = "mlfq", NEW t \in Tasks, MlfqChoose(t)
  PROVE  MlfqState' /\ MlfqHeld' = MlfqHeld /\ t \in MlfqHeld
<1> USE DEF MlfqState
<1>1. /\ scan \in QuantumLevels /\ t \in queued[scan]
      /\ mode' = "restore" /\ UNCHANGED allocated
      /\ queued' = [[queued EXCEPT ![scan] = @ \ {t}]
                      EXCEPT ![level[t]] = @ \cup {t}]
      /\ charged' = t
      /\ UNCHANGED <<level, used, slice, boost_after, last_boost, scan>>
  BY DEF MlfqChoose, Choose, Return, tcbVars
<1>2. t \in MlfqHeld /\ t \in allocated
  BY <1>1 DEF MlfqHeld, Custody, Held, Priority, Deadline, Lottery
<1>3. level[t] \in QuantumLevels
  BY DEF MlfqTypeOK
<1>4. \A l \in QuantumLevels :
        /\ l = level[t] => queued'[l] = queued[l] \cup {t}
        /\ l # level[t] => queued'[l] = queued[l] \ {t}
  <2>1. \A l \in QuantumLevels : l # scan => t \notin queued[l]
    BY <1>1 DEF LevelsApart
  <2>2. QED
    BY <1>1, <2>1 DEF MlfqTypeOK
<1>5. MlfqTypeOK'
  BY <1>1 DEF MlfqTypeOK
<1>6. LevelsApart' /\ MlfqHeld' = MlfqHeld
  BY <1>2, <1>3, <1>4 DEF LevelsApart, MlfqHeld
<1>7. Configured'
  <2>1. allocated' \cup ({charged'} \ {NoTask}) \subseteq allocated
    BY <1>1, <1>2
  <2>2. QED
    BY <1>1, <2>1 DEF Configured, WithinSlice
<1>8. ScanState'
  BY <1>1 DEF ScanState
<1>9. QED
  BY <1>2, <1>5, <1>6, <1>7, <1>8

LEMMA MlfqLets ==
  ASSUME LoopTypeOK, MlfqState, Custody, kind = "mlfq", NEW t \in Tasks,
         MlfqPutAside(t) \/ MlfqRetire(t)
  PROVE  MlfqState' /\ MlfqHeld' = MlfqHeld \ {t} /\ t \in MlfqHeld
<1> USE DEF MlfqState
<1>1. /\ scan \in QuantumLevels /\ t \in queued[scan]
      /\ mode = "select" /\ UNCHANGED allocated
      /\ queued' = [queued EXCEPT ![scan] = @ \ {t}]
      /\ used' = used \/ used' = [used EXCEPT ![t] = 0]
      /\ UNCHANGED <<level, slice, boost_after, last_boost, charged, scan>>
  BY DEF MlfqPutAside, MlfqRetire, PutAside, Retire, coreVars, tcbVars
<1>2. t \in MlfqHeld
  BY <1>1 DEF MlfqHeld
<1>3. \A l \in QuantumLevels : queued'[l] = queued[l] \ {t}
  BY <1>1 DEF LevelsApart, MlfqTypeOK
<1>4. MlfqTypeOK'
  BY <1>1 DEF MlfqTypeOK
<1>5. LevelsApart' /\ MlfqHeld' = MlfqHeld \ {t} /\ ScanState'
  BY <1>1, <1>3 DEF LevelsApart, MlfqHeld, ScanState
<1>6. Configured'
  <2>1. ASSUME NEW u \in Tasks, WithinSlice(u) PROVE WithinSlice(u)'
    <3>1. slice'[u] = slice[u] /\ level'[u] = level[u]
      BY <1>1
    <3>2. used'[u] = used[u] \/ used'[u] = 0
      BY <1>1 DEF MlfqTypeOK
    <3>3. level[u] \in QuantumLevels
      BY DEF MlfqTypeOK
    <3>4. QED
      BY <2>1, <3>1, <3>2, <3>3 DEF WithinSlice
  <2>2. allocated \cup ({charged} \ {NoTask}) \subseteq Tasks
    BY DEF LoopTypeOK, CoreTypeOK, MlfqTypeOK
  <2>3. QED
    BY <1>1, <2>1, <2>2 DEF Configured
<1>7. QED
  BY <1>2, <1>4, <1>5, <1>6

\* The scan: it starts at the first level and comes to the idle task when it
\* has seen them all.
LEMMA MlfqScans ==
  ASSUME MlfqState, MlfqBegin \/ MlfqNextLevel \/ MlfqIdle
  PROVE  /\ MlfqState' /\ MlfqHeld' = MlfqHeld
         /\ MlfqIdle => MlfqHeld = {}
<1> USE DEF MlfqState, QuantumLevels, MaximumLevels
<1>1. CASE MlfqBegin
  <2>1. /\ scan' = 1 /\ UNCHANGED allocated
        /\ UNCHANGED <<queued, level, used, slice, boost_after, last_boost, charged>>
    BY <1>1 DEF MlfqBegin, AllAwake, tcbVars
  <2>2. MlfqTypeOK' /\ LevelsApart' /\ MlfqHeld' = MlfqHeld
    BY <2>1 DEF MlfqTypeOK, LevelsApart, MlfqHeld
  <2>3. Configured' /\ ScanState'
    BY <2>1 DEF Configured, WithinSlice, ScanState
  <2>4. mode = "wake" /\ (MlfqIdle => mode = "select")
    BY <1>1 DEF MlfqBegin, AllAwake, MlfqIdle, Return
  <2>5. QED
    BY <2>2, <2>3, <2>4
<1>2. CASE MlfqNextLevel
  <2>1. /\ mode = "select" /\ scan \in QuantumLevels /\ queued[scan] = {}
        /\ scan' = scan + 1 /\ charged' = NoTask
        /\ UNCHANGED <<mode, allocated>>
        /\ UNCHANGED <<queued, level, used, slice, boost_after, last_boost>>
    BY <1>2 DEF MlfqNextLevel, coreVars, tcbVars
  <2>2. MlfqTypeOK' /\ LevelsApart' /\ MlfqHeld' = MlfqHeld
    BY <2>1 DEF MlfqTypeOK, LevelsApart, MlfqHeld
  <2>3. Configured'
    BY <2>1 DEF Configured, WithinSlice
  <2>4. ScanState'
    BY <2>1 DEF ScanState
  <2>5. ~MlfqIdle
    BY <2>1 DEF MlfqIdle
  <2>6. QED
    BY <2>2, <2>3, <2>4, <2>5
<1>3. CASE MlfqIdle
  <2>1. /\ mode = "select" /\ mode' = "restore" /\ scan = MaximumLevels + 1
        /\ UNCHANGED mlfqVars /\ UNCHANGED allocated
    BY <1>3 DEF MlfqIdle, Return, tcbVars
  <2>2. MlfqHeld = {}
    BY <2>1 DEF ScanState, MlfqHeld
  <2>3. MlfqTypeOK' /\ Configured'
    BY <2>1 DEF mlfqVars, MlfqTypeOK, Configured, WithinSlice
  <2>4. QED
    BY <2>1, <2>2, <2>3, MlfqFrame DEF mlfqVars
<1>4. QED
  BY <1>1, <1>2, <1>3

LEMMA MlfqInduction ==
  ASSUME SleepInv, TasksInv, MlfqState, kind = "mlfq", kind' = kind, MlfqNext
  PROVE  QueueStep /\ MlfqState'
<1> DEFINE Moves == QueueStep /\ MlfqState'
<1>1. LoopTypeOK /\ Custody /\ Held = MlfqHeld /\ Held' = MlfqHeld'
  BY HeldByMlfq DEF SleepInv, TasksInv
<1>2. ASSUME NEW t \in Tasks, LoopBootAdd(t), MlfqAdd(t) PROVE Moves
  <2>1. AllocTask(t) /\ mode = "boot" /\ UNCHANGED mode
    BY <1>2 DEF LoopBootAdd, BootAddTask
  <2>2. MlfqState' /\ MlfqHeld' = MlfqHeld \cup {t}
    BY <1>1, <1>2, <2>1, MlfqAddition
  <2>3. QED
    BY <1>1, <1>2, <2>2 DEF QueueStep
<1>3. ASSUME NEW t \in Tasks, NEW u \in Tasks, LoopThreadAdd(t, u), MlfqAdd(u)
      PROVE  Moves
  <2>1. AllocTask(u) /\ mode = "thread" /\ UNCHANGED mode
    BY <1>3 DEF LoopThreadAdd, TaskAddTask, Executes
  <2>2. MlfqState' /\ MlfqHeld' = MlfqHeld \cup {u}
    BY <1>1, <1>3, <2>1, MlfqAddition
  <2>3. QED
    BY <1>1, <1>3, <2>2 DEF QueueStep
<1>4. ASSUME HookIdle \/ \E t \in Tasks : HookEndsQuantum(t) \/ HookCharges(t)
      PROVE  Moves
  BY <1>1, <1>4, MlfqTicks DEF QueueStep
<1>5. ASSUME NEW t \in Tasks, MlfqWake(t) PROVE Moves
  <2>1. Wake(t)
    BY <1>5 DEF MlfqWake
  <2>2. MlfqState' /\ MlfqHeld' = MlfqHeld \cup {t}
    BY <1>1, <1>5, MlfqWakes
  <2>3. QED
    BY <1>1, <2>1, <2>2 DEF QueueStep
<1>6. ASSUME NEW t \in Tasks, MlfqChoose(t) PROVE Moves
  <2>1. Choose(t)
    BY <1>6 DEF MlfqChoose
  <2>2. MlfqState' /\ MlfqHeld' = MlfqHeld /\ t \in MlfqHeld
    BY <1>1, <1>6, MlfqChooses
  <2>3. QED
    BY <1>1, <2>1, <2>2 DEF QueueStep
<1>7. ASSUME NEW t \in Tasks, MlfqPutAside(t) \/ MlfqRetire(t) PROVE Moves
  <2>1. PutAside(t) \/ Retire(t)
    BY <1>7 DEF MlfqPutAside, MlfqRetire
  <2>2. MlfqState' /\ MlfqHeld' = MlfqHeld \ {t} /\ t \in MlfqHeld
    BY <1>1, <1>7, MlfqLets
  <2>3. QED
    BY <1>1, <2>1, <2>2 DEF QueueStep
<1>8. CASE MlfqEnter
  <2>1. MlfqState' /\ MlfqHeld' = MlfqHeld /\ LoopEnter
    BY <1>1, <1>8, MlfqEnters DEF MlfqEnter
  <2>2. QED
    BY <1>1, <2>1 DEF QueueStep
<1>9. CASE MlfqBegin \/ MlfqNextLevel \/ MlfqIdle
  <2>1. /\ MlfqState' /\ MlfqHeld' = MlfqHeld
        /\ MlfqIdle => MlfqHeld = {}
    BY <1>9, MlfqScans
  <2>2. AllAwake \/ UNCHANGED <<coreVars, loopVars>> \/ (MlfqIdle /\ Return(Idle))
    BY <1>9 DEF MlfqBegin, MlfqNextLevel, MlfqIdle
  <2>3. QED
    BY <1>1, <2>1, <2>2 DEF QueueStep
<1>10. ASSUME LoopLaunch \/ LoopThreads \/ Reap \/ LoopReturn, UNCHANGED mlfqVars
       PROVE  Moves
  <2>1. /\ mode' \in {"select", "reap"} => mode \in {"select", "reap"}
        /\ allocated' \subseteq allocated
    <3>1. ASSUME NEW t \in Tasks, LoopThread(t)
          PROVE  UNCHANGED <<mode, allocated>> /\ mode = "thread"
      BY <1>1, <3>1, ThreadFrame DEF LoopTypeOK
    <3>2. QED
      BY <1>10, <3>1, PanicFrame
      DEF LoopLaunch, LoopThreads, Reap, FreeTask, LoopReturn, PendSVReturn,
          tcbVars
  <2>2. MlfqTypeOK' /\ Configured'
    BY <1>10, <2>1
    DEF MlfqState, mlfqVars, MlfqTypeOK, Configured, WithinSlice
  <2>3. MlfqState' /\ MlfqHeld' = MlfqHeld
    BY <1>10, <2>1, <2>2, MlfqFrame DEF mlfqVars
  <2>4. QED
    BY <1>1, <1>10, <2>3 DEF QueueStep, LoopThreads
<1>11. QED
  BY <1>2, <1>3, <1>4, <1>5, <1>6, <1>7, <1>8, <1>9, <1>10 DEF MlfqNext

-----------------------------------------------------------------------------
(* Queues that hold a task once                                            *)

\* A push at the tail.
LEMMA PushAtTail ==
  ASSUME NEW q \in Seq(Tasks), NEW t \in Tasks
  PROVE  /\ Append(q, t) \in Seq(Tasks)
         /\ Range(Append(q, t)) = Range(q) \cup {t}
         /\ IsInjective(q) /\ t \notin Range(q) => IsInjective(Append(q, t))
<1>1. /\ Append(q, t) \in Seq(Tasks)
      /\ Len(Append(q, t)) = Len(q) + 1
      /\ \A i \in 1..Len(q) : Append(q, t)[i] = q[i]
      /\ Append(q, t)[Len(q) + 1] = t
  BY AppendProperties
<1>2. Len(q) \in Nat /\ DOMAIN q = 1..Len(q)
      /\ DOMAIN Append(q, t) = 1..(Len(q) + 1)
  BY <1>1, LenProperties
<1>3. Range(Append(q, t)) = Range(q) \cup {t}
  <2>1. ASSUME NEW x
        PROVE  x \in Range(Append(q, t)) <=> x \in Range(q) \/ x = t
    BY <1>1, <1>2 DEF Range
  <2>2. QED
    BY <2>1
<1>4. IsInjective(q) /\ t \notin Range(q) => IsInjective(Append(q, t))
  BY <1>1, <1>2 DEF IsInjective, Range
<1>5. QED
  BY <1>1, <1>3, <1>4

\* A pop at the head.
LEMMA PopAtHead ==
  ASSUME NEW q \in Seq(Tasks), q # << >>, IsInjective(q)
  PROVE  /\ Head(q) \in Tasks /\ Head(q) = q[1] /\ Head(q) \in Range(q)
         /\ Tail(q) \in Seq(Tasks) /\ IsInjective(Tail(q))
         /\ Len(q) \in Nat /\ Len(Tail(q)) = Len(q) - 1
         /\ \A i \in 1..Len(Tail(q)) : i + 1 \in 1..Len(q) /\ Tail(q)[i] = q[i + 1]
         /\ Range(Tail(q)) = Range(q) \ {Head(q)}
<1>1. /\ Head(q) \in Tasks
      /\ Tail(q) \in Seq(Tasks)
      /\ Len(Tail(q)) = Len(q) - 1
      /\ \A i \in 1..Len(Tail(q)) : Tail(q)[i] = q[i + 1]
  BY HeadTailProperties
<1>2. /\ Len(q) \in Nat /\ Len(q) > 0
      /\ DOMAIN q = 1..Len(q)
      /\ DOMAIN Tail(q) = 1..(Len(q) - 1)
  BY <1>1, LenProperties, EmptySeq
<1>3. Head(q) = q[1]
  BY <1>2
<1>4. Head(q) \in Range(q)
  BY <1>2, <1>3 DEF Range
<1>5. ASSUME NEW x \in Range(Tail(q))
      PROVE  x \in Range(q) /\ x # Head(q)
  <2>1. PICK i \in 1..(Len(q) - 1) : Tail(q)[i] = x
    BY <1>2 DEF Range
  <2>2. i + 1 \in 1..Len(q) /\ q[i + 1] = x /\ i + 1 # 1
    BY <2>1, <1>1, <1>2
  <2>3. QED
    BY <2>2, <1>2, <1>3 DEF Range, IsInjective
<1>6. ASSUME NEW x \in Range(q), x # Head(q)
      PROVE  x \in Range(Tail(q))
  <2>1. PICK i \in 1..Len(q) : q[i] = x
    BY <1>2 DEF Range
  <2>2. i # 1
    BY <2>1, <1>6, <1>3
  <2>3. i - 1 \in 1..Len(Tail(q)) /\ Tail(q)[i - 1] = x
    BY <2>1, <2>2, <1>1, <1>2
  <2>4. QED
    BY <2>3, <1>1, <1>2 DEF Range
<1>7. IsInjective(Tail(q))
  BY <1>1, <1>2 DEF IsInjective
<1>8. \A i \in 1..Len(Tail(q)) : i + 1 \in 1..Len(q) /\ Tail(q)[i] = q[i + 1]
  BY <1>1, <1>2
<1>9. QED
  BY <1>1, <1>2, <1>3, <1>4, <1>5, <1>6, <1>7, <1>8

\* r is q with t in between.
IsInserted(q, i, t, r) ==
  /\ r \in Seq(Tasks) /\ Len(q) \in Nat /\ Len(r) = Len(q) + 1
  /\ \A j \in 1..Len(q) + 1 :
       r[j] = IF j < i THEN q[j] ELSE IF j = i THEN t ELSE q[j - 1]

\* A push in between.
LEMMA PushInside ==
  ASSUME NEW q \in Seq(Tasks), NEW t \in Tasks, NEW i \in 1..Len(q) + 1
  PROVE  IsInserted(q, i, t, InsertAt(q, i, t))
<1>1. Len(q) \in Nat /\ \A j \in 1..Len(q) : q[j] \in Tasks
  BY LenProperties, ElementOfSeq
<1>2. PICK a : a = SubSeq(q, 1, i - 1)
  OBVIOUS
<1>3. a \in Seq(Tasks) /\ Len(a) = i - 1 /\ \A j \in 1..i - 1 : a[j] = q[j]
  <2>1. 1 \in Int /\ i - 1 \in Int /\ \A j \in 1..i - 1 : q[j] \in Tasks
    BY <1>1
  <2>2. /\ a \in Seq(Tasks)
        /\ Len(a) = IF 1 <= i - 1 THEN i - 1 - 1 + 1 ELSE 0
        /\ \A j \in 1..i - 1 - 1 + 1 : a[j] = q[1 + j - 1]
    BY <1>2, <2>1, SubSeqProperties, SMT
  <2>3. \A j \in 1..i - 1 : j \in 1..i - 1 - 1 + 1 /\ 1 + j - 1 = j
    OBVIOUS
  <2>4. Len(a) = i - 1
    BY <2>2
  <2>5. ASSUME NEW j \in 1..i - 1 PROVE a[j] = q[j]
    BY <2>2, <2>3
  <2>6. QED
    BY <2>2, <2>4, <2>5
<1>4. PICK b : b = SubSeq(q, i, Len(q))
  OBVIOUS
<1>5. /\ b \in Seq(Tasks) /\ Len(b) = Len(q) - i + 1
      /\ \A j \in 1..Len(q) - i + 1 : b[j] = q[i + j - 1]
  <2>1. i \in Int /\ Len(q) \in Int /\ \A j \in i..Len(q) : q[j] \in Tasks
    BY <1>1
  <2>2. /\ b \in Seq(Tasks)
        /\ Len(b) = IF i <= Len(q) THEN Len(q) - i + 1 ELSE 0
        /\ \A j \in 1..Len(q) - i + 1 : b[j] = q[i + j - 1]
    BY <1>4, <2>1, SubSeqProperties, SMT
  <2>3. Len(b) = Len(q) - i + 1
    BY <1>1, <2>2
  <2>4. QED
    BY <2>2, <2>3
<1>6. PICK c : c = a \o <<t>>
  OBVIOUS
<1>7. c = Append(a, t)
  BY <1>3, <1>6, AppendIsConcat
<1>8. /\ c \in Seq(Tasks) /\ Len(c) = i /\ c[i] = t
      /\ \A j \in 1..i - 1 : c[j] = q[j]
  <2>1. /\ c \in Seq(Tasks) /\ Len(c) = Len(a) + 1 /\ c[Len(a) + 1] = t
        /\ \A j \in 1..Len(a) : c[j] = a[j]
    BY <1>3, <1>7, AppendProperties
  <2>2. QED
    BY <1>3, <2>1
<1>9. PICK r : r = c \o b
  OBVIOUS
<1>10. /\ r \in Seq(Tasks)
       /\ Len(r) = Len(c) + Len(b)
       /\ \A j \in 1..Len(c) + Len(b) :
            r[j] = IF j <= Len(c) THEN c[j] ELSE b[j - Len(c)]
  BY <1>5, <1>8, <1>9, ConcatProperties
<1>11. ASSUME NEW j \in 1..Len(q) + 1
       PROVE  r[j] = IF j < i THEN q[j] ELSE IF j = i THEN t ELSE q[j - 1]
  <2>1. j \in 1..Len(c) + Len(b)
    BY <1>1, <1>5, <1>8
  <2>2. CASE j <= i
    BY <1>1, <1>8, <1>10, <2>1, <2>2
  <2>3. CASE j > i
    <3>1. PICK n \in 1..Len(q) - i + 1 : n = j - i
      BY <1>1, <2>3
    <3>2. r[j] = b[n]
      BY <1>8, <1>10, <2>1, <2>3, <3>1
    <3>3. b[n] = q[i + n - 1] /\ i + n - 1 = j - 1
      BY <1>1, <1>5, <3>1
    <3>4. ~(j < i) /\ j # i
      BY <2>3
    <3>5. QED
      BY <3>2, <3>3, <3>4
  <2>4. QED
    BY <1>1, <2>2, <2>3
<1>12. InsertAt(q, i, t) = r
  BY <1>2, <1>4, <1>6, <1>9, Zenon DEF InsertAt
<1>13. Len(r) = Len(q) + 1
  BY <1>1, <1>5, <1>8, <1>10
<1>14. QED
  <2>1. IsInserted(q, i, t, r)
    BY <1>1, <1>10, <1>11, <1>13 DEF IsInserted
  <2>2. QED
    BY <1>12, <2>1

\* A queue that holds a task once is no longer than the pool: no push is lost.
LEMMA QueueFits ==
  ASSUME NEW q \in Seq(Tasks), IsInjective(q)
  PROVE  Len(q) \in Nat /\ Len(q) <= MaximumTasks
<1>1. Len(q) \in Nat /\ q \in [1..Len(q) -> Tasks]
  BY LenProperties, ElementOfSeq
<1>2. q \in Injection(1..Len(q), Tasks)
  BY <1>1 DEF Injection
<1>3. /\ IsFiniteSet(Tasks)
      /\ Cardinality(Tasks) = MaximumTasks
  BY FS_Interval, MaximumTasksAssumption DEF Tasks
<1>4. Cardinality(1..Len(q)) = Len(q)
  BY <1>1, FS_Interval
<1>5. QED
  BY <1>1, <1>2, <1>3, <1>4, FS_Injection

LEMMA RangeMembers ==
  ASSUME NEW q \in Seq(Tasks)
  PROVE  /\ DOMAIN q = 1..Len(q) /\ Len(q) \in Nat
         /\ \A j \in 1..Len(q) : q[j] \in Range(q) /\ q[j] \in Tasks
         /\ \A x \in Range(q) : \E j \in 1..Len(q) : q[j] = x
         /\ Range(q) \subseteq Tasks
<1>1. Len(q) \in Nat /\ DOMAIN q = 1..Len(q) /\ \A j \in 1..Len(q) : q[j] \in Tasks
  BY LenProperties, ElementOfSeq
<1>2. QED
  BY <1>1 DEF Range

-----------------------------------------------------------------------------
(* edf and cfs_like: the queue stays in order                              *)

InOrder(q, k) ==
  IsInjective(q) /\ \A i, j \in 1..Len(q) : i < j => k[q[i]] <= k[q[j]]

LineState ==
  line \in Seq(Tasks) /\ launched \in BOOLEAN /\ InOrder(line, key)

LEMMA PushKeepsOrder ==
  ASSUME NEW q \in Seq(Tasks), NEW k \in [Tasks -> Nat], NEW t \in Tasks,
         InOrder(q, k), t \notin Range(q), NEW r \in Pushed(q, k, t)
  PROVE  r \in Seq(Tasks) /\ InOrder(r, k) /\ Range(r) = Range(q) \cup {t}
<1>1. PICK i \in Places(q, k, t) : r = InsertAt(q, i, t)
  BY DEF Pushed
<1>2. /\ i \in 1..Len(q) + 1
      /\ \A j \in 1..i - 1 : k[q[j]] <= k[t]
      /\ \A j \in i..Len(q) : k[t] <= k[q[j]]
  <2>1. \A x, y \in Nat : x < y => x <= y
    OBVIOUS
  <2>2. \A j \in 1..Len(q) : k[t] \in Nat /\ k[q[j]] \in Nat
    BY RangeMembers
  <2>3. i \in 1..Len(q) + 1 /\ \A j \in 1..i - 1 : k[q[j]] <= k[t]
    BY DEF Places
  <2>4. \A j \in i..Len(q) : k[t] < k[q[j]] \/ k[t] <= k[q[j]]
    BY DEF Places
  <2>5. \A j \in i..Len(q) : j \in 1..Len(q)
    BY <2>3, RangeMembers
  <2>6. QED
    BY <2>1, <2>2, <2>3, <2>4, <2>5
<1>3. /\ r \in Seq(Tasks) /\ Len(q) \in Nat /\ Len(r) = Len(q) + 1
      /\ \A j \in 1..Len(q) + 1 :
           r[j] = IF j < i THEN q[j] ELSE IF j = i THEN t ELSE q[j - 1]
  <2>1. i \in 1..Len(q) + 1
    BY <1>2
  <2>2. IsInserted(q, i, t, r)
    BY <1>1, <2>1, PushInside
  <2>3. QED
    BY <2>2 DEF IsInserted
<1>4. /\ \A j \in 1..Len(q) : q[j] \in Range(q) /\ k[q[j]] \in Nat
      /\ \A x \in Range(q) : \E j \in 1..Len(q) : q[j] = x
      /\ k[t] \in Nat
  BY RangeMembers
<1>5. DOMAIN r = 1..Len(q) + 1 /\ DOMAIN q = 1..Len(q)
  BY <1>3, RangeMembers
<1>6. Range(r) = Range(q) \cup {t}
  <2>1. ASSUME NEW x \in Range(r) PROVE x \in Range(q) \cup {t}
    <3>1. PICK j \in 1..Len(q) + 1 : r[j] = x
      BY <1>5, <2>1 DEF Range
    <3>2. j < i => j \in 1..Len(q)
      BY <1>2, <1>3, <3>1
    <3>3. j > i => j - 1 \in 1..Len(q)
      BY <1>2, <1>3, <3>1
    <3>4. x = t \/ (j < i /\ x = q[j]) \/ (j > i /\ x = q[j - 1])
      BY <1>2, <1>3, <3>1
    <3>5. QED
      BY <1>4, <3>2, <3>3, <3>4
  <2>2. t \in Range(r)
    <3>1. i \in 1..Len(q) + 1 /\ r[i] = t
      BY <1>2, <1>3
    <3>2. QED
      BY <1>5, <3>1 DEF Range
  <2>3. ASSUME NEW x \in Range(q) PROVE x \in Range(r)
    <3>1. PICK j \in 1..Len(q) : q[j] = x
      BY <1>4
    <3>2. PICK n \in 1..Len(q) + 1 : r[n] = x
      <4>1. CASE j < i
        <5>1. j \in 1..Len(q) + 1
          BY <1>3
        <5>2. QED
          BY <1>3, <3>1, <4>1, <5>1
      <4>2. CASE j >= i
        <5>1. PICK n \in 1..Len(q) + 1 : n = j + 1
          BY <1>3
        <5>2. ~(n < i) /\ n # i /\ n - 1 = j
          BY <1>2, <1>3, <4>2, <5>1
        <5>3. r[n] = x
          BY <1>3, <3>1, <5>2
        <5>4. QED
          BY <5>3
      <4>3. QED
        BY <1>2, <4>1, <4>2
    <3>3. QED
      BY <1>5, <3>2 DEF Range
  <2>4. QED
    BY <2>1, <2>2, <2>3
<1>7. /\ \A a, b \in 1..Len(q) : q[a] = q[b] => a = b
      /\ \A a, b \in 1..Len(q) : a < b => k[q[a]] <= k[q[b]]
      /\ \A a \in 1..Len(q) : q[a] # t
  <2>1. \A a \in 1..Len(q) : q[a] # t
    BY <1>4
  <2>2. \A a, b \in 1..Len(q) : q[a] = q[b] => a = b
    BY <1>5 DEF InOrder, IsInjective
  <2>3. QED
    BY <2>1, <2>2 DEF InOrder
\* Where an element of the longer queue comes from.
<1>8. ASSUME NEW a \in 1..Len(q) + 1
      PROVE  \/ a < i /\ a \in 1..Len(q) /\ r[a] = q[a]
             \/ a = i /\ r[a] = t
             \/ \E n \in i..Len(q) : n \in 1..Len(q) /\ a = n + 1 /\ r[a] = q[n]
  <2>1. a < i => a \in 1..Len(q) /\ r[a] = q[a]
    BY <1>2, <1>3
  <2>2. a = i => r[a] = t
    BY <1>2, <1>3
  <2>3. ASSUME a > i
        PROVE  \E n \in i..Len(q) : n \in 1..Len(q) /\ a = n + 1 /\ r[a] = q[n]
    <3>1. PICK n \in i..Len(q) : n \in 1..Len(q) /\ a = n + 1 /\ a - 1 = n
      BY <1>2, <1>3, <2>3
    <3>2. r[a] = q[a - 1]
      BY <1>2, <1>3, <2>3
    <3>3. QED
      BY <3>1, <3>2
  <2>4. QED
    BY <1>2, <2>1, <2>2, <2>3
<1>9. IsInjective(r)
  <2>0. r[i] = t
    <3>1. i \in 1..Len(q) + 1 /\ ~(i < i)
      BY <1>2
    <3>2. QED
      BY <1>3, <3>1
  <2>1. ASSUME NEW a \in 1..Len(q) + 1, NEW b \in 1..Len(q) + 1, r[a] = r[b]
        PROVE  a = b
    <3>1. i \in Nat /\ a \in Nat /\ b \in Nat
      BY <1>2
    <3>2. CASE a = i
      <4>1. r[a] = t
        BY <2>0, <3>2
      <4>2. CASE b < i
        <5>1. b \in 1..Len(q) /\ r[b] = q[b]
          BY <1>8, <3>1, <4>2
        <5>2. QED
          BY <1>7, <2>1, <4>1, <5>1
      <4>3. CASE ~(b < i) /\ b # i
        <5>1. PICK m \in i..Len(q) : m \in 1..Len(q) /\ b = m + 1 /\ r[b] = q[m]
          BY <1>8, <4>3
        <5>2. QED
          BY <1>7, <2>1, <4>1, <5>1
      <4>4. QED
        BY <3>2, <4>2, <4>3
    <3>3. CASE a < i
      <4>1. a \in 1..Len(q) /\ r[a] = q[a]
        BY <1>8, <3>1, <3>3
      <4>2. CASE b < i
        <5>1. b \in 1..Len(q) /\ r[b] = q[b]
          BY <1>8, <3>1, <4>2
        <5>2. QED
          BY <1>7, <2>1, <4>1, <5>1
      <4>3. CASE ~(b < i)
        <5>1. CASE b = i
          <6>1. r[b] = t
            BY <1>2, <1>3, <5>1
          <6>2. QED
            BY <1>7, <2>1, <4>1, <6>1
        <5>2. CASE b # i
          <6>1. PICK m \in i..Len(q) : m \in 1..Len(q) /\ b = m + 1 /\ r[b] = q[m]
            BY <1>8, <4>3, <5>2
          <6>2. a = m
            BY <1>7, <2>1, <4>1, <6>1
          <6>3. QED
            BY <3>1, <3>3, <6>1, <6>2
        <5>3. QED
          BY <5>1, <5>2
      <4>4. QED
        BY <4>2, <4>3
    <3>4. CASE ~(a < i) /\ a # i
      <4>1. PICK n \in i..Len(q) : n \in 1..Len(q) /\ a = n + 1 /\ r[a] = q[n]
        BY <1>8, <3>4
      <4>2. CASE b < i
        <5>1. b \in 1..Len(q) /\ r[b] = q[b]
          BY <1>8, <3>1, <4>2
        <5>2. b = n
          BY <1>7, <2>1, <4>1, <5>1
        <5>3. QED
          BY <3>1, <4>1, <4>2, <5>2
      <4>3. CASE b = i
        <5>1. r[b] = t
          BY <2>0, <4>3
        <5>2. QED
          BY <1>7, <2>1, <4>1, <5>1
      <4>4. CASE ~(b < i) /\ b # i
        <5>1. PICK m \in i..Len(q) : m \in 1..Len(q) /\ b = m + 1 /\ r[b] = q[m]
          BY <1>8, <4>4
        <5>2. n = m
          BY <1>7, <2>1, <4>1, <5>1
        <5>3. QED
          BY <4>1, <5>1, <5>2
      <4>5. QED
        BY <4>2, <4>3, <4>4
    <3>5. QED
      BY <3>2, <3>3, <3>4
  <2>2. QED
    BY <1>5, <2>1 DEF IsInjective
<1>10. ASSUME NEW a \in 1..Len(q) + 1, NEW b \in 1..Len(q) + 1, a < b
       PROVE  k[r[a]] <= k[r[b]]
  <2>0. i \in Nat /\ a \in Nat /\ b \in Nat
    BY <1>2
  <2>1. CASE b < i
    <3>1. a < i
      BY <1>10, <2>0, <2>1
    <3>2. a \in 1..Len(q) /\ r[a] = q[a]
      BY <1>8, <2>0, <3>1
    <3>3. b \in 1..Len(q) /\ r[b] = q[b]
      BY <1>8, <2>0, <2>1
    <3>4. QED
      BY <1>7, <1>10, <3>2, <3>3
  <2>2. CASE b = i
    <3>1. a \in 1..i - 1 /\ a < i
      BY <1>10, <2>0, <2>2
    <3>2. r[a] = q[a]
      BY <1>8, <2>0, <3>1
    <3>3. r[b] = t
      BY <1>3, <2>2
    <3>4. QED
      BY <1>2, <3>1, <3>2, <3>3
  <2>3. CASE ~(b < i) /\ b # i
    <3>1. PICK m \in i..Len(q) : m \in 1..Len(q) /\ b = m + 1 /\ r[b] = q[m]
      BY <1>8, <2>3
    <3>2. CASE a < i
      <4>1. a < m /\ a \in 1..Len(q) /\ r[a] = q[a]
        BY <1>8, <2>0, <3>1, <3>2
      <4>2. QED
        BY <1>7, <3>1, <4>1
    <3>3. CASE a = i
      <4>1. r[a] = t
        BY <1>2, <1>3, <3>3
      <4>2. QED
        BY <1>2, <3>1, <4>1
    <3>4. CASE ~(a < i) /\ a # i
      <4>1. PICK n \in i..Len(q) : n \in 1..Len(q) /\ a = n + 1 /\ r[a] = q[n]
        BY <1>8, <3>4
      <4>2. n < m
        BY <1>10, <3>1, <4>1
      <4>3. QED
        BY <1>7, <3>1, <4>1, <4>2
    <3>5. QED
      BY <3>2, <3>3, <3>4
  <2>4. QED
    BY <2>1, <2>2, <2>3
<1>11. QED
  BY <1>3, <1>6, <1>9, <1>10 DEF InOrder

LEMMA PopKeepsOrder ==
  ASSUME NEW q \in Seq(Tasks), q # << >>, NEW k, InOrder(q, k)
  PROVE  /\ Head(q) \in Tasks /\ Head(q) \in Range(q)
         /\ Tail(q) \in Seq(Tasks) /\ InOrder(Tail(q), k)
         /\ Range(Tail(q)) = Range(q) \ {Head(q)}
<1>1. /\ Head(q) \in Tasks /\ Head(q) \in Range(q)
      /\ Tail(q) \in Seq(Tasks) /\ IsInjective(Tail(q))
      /\ Len(q) \in Nat /\ Len(Tail(q)) = Len(q) - 1
      /\ \A i \in 1..Len(Tail(q)) : i + 1 \in 1..Len(q) /\ Tail(q)[i] = q[i + 1]
      /\ Range(Tail(q)) = Range(q) \ {Head(q)}
  BY PopAtHead DEF InOrder
<1>2. ASSUME NEW a \in 1..Len(Tail(q)), NEW b \in 1..Len(Tail(q)), a < b
      PROVE  k[Tail(q)[a]] <= k[Tail(q)[b]]
  <2>1. a + 1 < b + 1
    BY <1>2
  <2>2. QED
    BY <1>1, <2>1 DEF InOrder
<1>3. QED
  BY <1>1, <1>2 DEF InOrder

\* The order does not look at the keys of tasks that are not queued.
LEMMA OtherKeys ==
  ASSUME NEW q \in Seq(Tasks), NEW k, NEW m, InOrder(q, k),
         \A u \in Range(q) : m[u] = k[u]
  PROVE  InOrder(q, m)
BY RangeMembers DEF InOrder

LEMMA LineAddition ==
  ASSUME SleepInv, LineState, Custody, kind \in Deadline, NEW t \in Tasks,
         t \notin allocated, LineAdd(t), UNCHANGED launched
  PROVE  LineState' /\ LineHeld' = LineHeld \cup {t}
<1>1. /\ t \notin Range(line) /\ key \in [Tasks -> Nat]
      /\ line \in Seq(Tasks) /\ InOrder(line, key)
  BY DEF SleepInv, Keys, LineState, Custody, Held, Priority, Deadline, LineHeld
<1>2. PICK n \in Nat : key' = [key EXCEPT ![t] = n]
  <2>1. CASE kind = "edf"
    <3>1. PICK d \in Deadlines : key' = [key EXCEPT ![t] = tick + d]
      BY <2>1 DEF LineAdd
    <3>2. tick + d \in Nat
      BY DeadlinesAssumption DEF SleepInv, LoopTypeOK, CoreTypeOK
    <3>3. QED
      BY <3>1, <3>2
  <2>2. CASE kind # "edf"
    BY <2>2 DEF LineAdd
  <2>3. QED
    BY <2>1, <2>2
<1>3. PICK k \in [Tasks -> Nat] : k = [key EXCEPT ![t] = n] /\ k = key'
  BY <1>1, <1>2
<1>4. PICK r \in Pushed(line, k, t) : r = line'
  BY <1>3 DEF LineAdd
<1>5. \A u \in Range(line) : k[u] = key[u]
  BY <1>1, <1>3, RangeMembers
<1>6. InOrder(line, k)
  BY <1>1, <1>5, OtherKeys
<1>7. r \in Seq(Tasks) /\ InOrder(r, k) /\ Range(r) = Range(line) \cup {t}
  BY <1>1, <1>6, PushKeepsOrder
<1>8. QED
  BY <1>3, <1>4, <1>7 DEF LineState, LineHeld

LEMMA LineWakes ==
  ASSUME SleepInv, LineState, Custody, kind \in Deadline, NEW t \in Tasks,
         LineWake(t)
  PROVE  LineState' /\ LineHeld' = LineHeld \cup {t}
<1>1. /\ t \notin Range(line) /\ key \in [Tasks -> Nat]
      /\ line \in Seq(Tasks) /\ InOrder(line, key)
  BY DEF SleepInv, Keys, LineState, Custody, Held, Priority, Deadline, LineHeld,
         LineWake, Wake, Due
<1>2. PICK r \in Pushed(line, key, t) : r = line'
  BY DEF LineWake
<1>3. r \in Seq(Tasks) /\ InOrder(r, key) /\ Range(r) = Range(line) \cup {t}
  BY <1>1, PushKeepsOrder
<1>4. QED
  BY <1>2, <1>3 DEF LineState, LineHeld, LineWake

\* edf puts the task that it chooses back behind its equals.
LEMMA EdfRotates ==
  ASSUME LineState, key \in [Tasks -> Nat], NEW t \in Tasks, FirstInLine(t),
         NEW r \in Pushed(Tail(line), key, t)
  PROVE  /\ t \in LineHeld
         /\ r \in Seq(Tasks) /\ InOrder(r, key) /\ Range(r) = LineHeld
<1>1. /\ t \in Range(line) /\ Tail(line) \in Seq(Tasks)
      /\ InOrder(Tail(line), key) /\ Range(Tail(line)) = Range(line) \ {t}
  BY PopKeepsOrder DEF LineState, FirstInLine
<1>2. r \in Seq(Tasks) /\ InOrder(r, key) /\ Range(r) = Range(Tail(line)) \cup {t}
  BY <1>1, PushKeepsOrder
<1>3. QED
  BY <1>1, <1>2 DEF LineHeld

LEMMA EdfReplaces ==
  ASSUME SleepInv, LineState, Custody, kind \in Deadline,
         NEW t \in Tasks, NEW u \in Tasks, EdfReplace(t, u)
  PROVE  LineState' /\ LineHeld' = LineHeld \cup {u} /\ t \in LineHeld
<1>1. /\ u \notin LineHeld /\ key \in [Tasks -> Nat] /\ tick \in Nat
      /\ FirstInLine(t) /\ UNCHANGED launched
  BY DEF SleepInv, LoopTypeOK, CoreTypeOK, Keys, Custody, Held, Priority,
         Deadline, EdfReplace, IsFirstFree, FreeSlots
<1>2. PICK d \in Deadlines : key' = [key EXCEPT ![u] = tick + d]
  BY DEF EdfReplace
<1>3. PICK n \in Nat : n = tick + d
  BY <1>1, DeadlinesAssumption
<1>4. PICK k \in [Tasks -> Nat] : k = [key EXCEPT ![u] = n] /\ k = key'
  BY <1>1, <1>2, <1>3
<1>5. PICK q \in Pushed(Tail(line), key, t) : line' \in Pushed(q, k, u)
  BY <1>4 DEF EdfReplace
<1>6. /\ q \in Seq(Tasks) /\ InOrder(q, key) /\ Range(q) = LineHeld
      /\ t \in LineHeld
  BY <1>1, EdfRotates
<1>7. \A v \in Range(q) : k[v] = key[v]
  BY <1>1, <1>4, <1>6, RangeMembers
<1>8. InOrder(q, k)
  BY <1>6, <1>7, OtherKeys
<1>9. PICK r \in Pushed(q, k, u) : r = line'
  BY <1>5
<1>10. r \in Seq(Tasks) /\ InOrder(r, k) /\ Range(r) = LineHeld \cup {u}
  BY <1>1, <1>6, <1>8, PushKeepsOrder
<1>11. QED
  BY <1>1, <1>4, <1>6, <1>9, <1>10 DEF LineState, LineHeld

LEMMA CfsCharges ==
  ASSUME SleepInv, LineState, CfsBegin
  PROVE  LineState' /\ LineHeld' = LineHeld
<1>1. /\ key \in [Tasks -> Nat] /\ line \in Seq(Tasks) /\ InOrder(line, key)
      /\ start \in [Tasks -> Nat] /\ tick \in Nat
      /\ \A t \in Tasks : start[t] <= tick
  BY DEF SleepInv, Keys, LineState, LoopTypeOK, CoreTypeOK
<1>2. CASE line = << >>
  BY <1>1, <1>2 DEF CfsBegin, LineState, LineHeld
<1>3. CASE line # << >>
  <2>1. PICK t \in Tasks, q \in Seq(Tasks) :
          /\ t = Head(line) /\ q = Tail(line) /\ t \in Range(line)
          /\ InOrder(q, key) /\ Range(q) = Range(line) \ {t}
    BY <1>1, <1>3, PopKeepsOrder
  <2>2. tick - start[t] \in Nat
    BY <1>1
  <2>3. PICK k \in [Tasks -> Nat] :
          k = key' /\ \A u \in Tasks \ {t} : k[u] = key[u]
    <3>1. key' = Charged(t)
      BY <1>3, <2>1 DEF CfsBegin
    <3>2. PICK d \in Nat : d = tick - start[t]
      BY <2>2
    <3>3. key[t] \in Nat /\ key[t] + d \in Nat
      BY <1>1
    <3>4. key' = key \/ key' = [key EXCEPT ![t] = key[t] + d]
      BY <1>1, <3>1, <3>2 DEF Charged
    <3>5. key' \in [Tasks -> Nat] /\ \A u \in Tasks \ {t} : key'[u] = key[u]
      BY <1>1, <3>3, <3>4
    <3>6. QED
      BY <3>5
  <2>4. PICK r \in Pushed(q, k, t) : r = line'
    BY <1>3, <2>1, <2>3 DEF CfsBegin
  <2>5. \A u \in Range(q) : k[u] = key[u]
    BY <2>1, <2>3, RangeMembers
  <2>6. InOrder(q, k) /\ t \notin Range(q)
    BY <2>1, <2>5, OtherKeys
  <2>7. r \in Seq(Tasks) /\ InOrder(r, k) /\ Range(r) = Range(q) \cup {t}
    BY <2>6, PushKeepsOrder
  <2>8. UNCHANGED launched
    BY DEF CfsBegin
  <2>9. QED
    BY <2>1, <2>3, <2>4, <2>7, <2>8 DEF LineState, LineHeld
<1>4. QED
  BY <1>2, <1>3

LEMMA LineLets ==
  ASSUME LineState, NEW t \in Tasks, CfsLeave(t) \/ EdfLeave(t)
  PROVE  LineState' /\ LineHeld' = LineHeld \ {t} /\ t \in LineHeld
<1>1. /\ line \in Seq(Tasks) /\ InOrder(line, key) /\ line # << >>
      /\ t = Head(line) /\ line' = Tail(line)
      /\ UNCHANGED <<key, launched>>
  BY DEF LineState, CfsLeave, EdfLeave, FirstInLine
<1>2. /\ t \in Range(line) /\ Tail(line) \in Seq(Tasks)
      /\ InOrder(Tail(line), key) /\ Range(Tail(line)) = Range(line) \ {t}
  BY <1>1, PopKeepsOrder
<1>3. QED
  BY <1>1, <1>2 DEF LineState, LineHeld

LEMMA LineInduction ==
  ASSUME SleepInv, TasksInv, LineState, kind \in Deadline, kind' = kind, LineNext
  PROVE  (QueueStep \/ ExpiredStep) /\ LineState'
<1> DEFINE Moves == QueueStep /\ LineState'
<1> DEFINE Expires == ExpiredStep /\ LineState'
<1>1. LoopTypeOK /\ Custody /\ Held = LineHeld /\ Held' = LineHeld'
  BY DEF SleepInv, TasksInv, Held, Priority, Deadline
<1>2. ASSUME NEW t \in Tasks, LoopBootAdd(t), LineAdd(t), UNCHANGED launched
      PROVE  Moves
  <2>1. t \notin allocated
    BY <1>1, <1>2, NewTaskFrame DEF LoopTypeOK, LoopBootAdd, BootAddTask
  <2>2. LineState' /\ LineHeld' = LineHeld \cup {t}
    BY <1>1, <1>2, <2>1, LineAddition
  <2>3. QED
    BY <1>1, <1>2, <2>2 DEF QueueStep
<1>3. ASSUME NEW t \in Tasks, NEW u \in Tasks, LoopThreadAdd(t, u), LineAdd(u),
             UNCHANGED launched
      PROVE  Moves
  <2>1. u \notin allocated
    BY <1>1, <1>3, NewTaskFrame DEF LoopTypeOK, LoopThreadAdd, TaskAddTask
  <2>2. LineState' /\ LineHeld' = LineHeld \cup {u}
    BY <1>1, <1>3, <2>1, LineAddition
  <2>3. QED
    BY <1>1, <1>3, <2>2 DEF QueueStep
<1>4. ASSUME NEW t \in Tasks, LineWake(t) PROVE Moves
  <2>1. Wake(t)
    BY <1>4 DEF LineWake
  <2>2. LineState' /\ LineHeld' = LineHeld \cup {t}
    BY <1>1, <1>4, LineWakes
  <2>3. QED
    BY <1>1, <2>1, <2>2 DEF QueueStep
<1>5. CASE CfsBegin
  <2>1. AllAwake /\ LineState' /\ LineHeld' = LineHeld
    BY <1>5, CfsCharges DEF CfsBegin
  <2>2. QED
    BY <1>1, <2>1 DEF QueueStep
<1>6. ASSUME NEW t \in Tasks, CfsChoose(t) PROVE Moves
  <2>1. /\ Choose(t) /\ line # << >> /\ t = Head(line)
        /\ UNCHANGED <<line, key, launched>>
    BY <1>6 DEF CfsChoose, FirstInLine
  <2>2. t \in LineHeld
    BY <2>1, PopKeepsOrder DEF LineState, LineHeld
  <2>3. LineState' /\ LineHeld' = LineHeld
    BY <2>1 DEF LineState, LineHeld
  <2>4. QED
    BY <1>1, <2>1, <2>2, <2>3 DEF QueueStep
<1>7. ASSUME NEW t \in Tasks, CfsLeave(t) \/ EdfLeave(t) PROVE Moves
  <2>1. PutAside(t) \/ Retire(t)
    BY <1>7 DEF CfsLeave, EdfLeave
  <2>2. LineState' /\ LineHeld' = LineHeld \ {t} /\ t \in LineHeld
    BY <1>7, LineLets
  <2>3. QED
    BY <1>1, <2>1, <2>2 DEF QueueStep
<1>8. CASE LineIdle
  <2>1. Return(Idle) /\ line = << >> /\ UNCHANGED <<line, key, launched>>
    BY <1>8 DEF LineIdle, lineVars
  <2>2. LineHeld = {} /\ LineHeld' = LineHeld /\ LineState'
    BY <2>1 DEF LineHeld, Range, LineState
  <2>3. QED
    BY <1>1, <2>1, <2>2 DEF QueueStep
<1>9. ASSUME LoopReturn \/ LoopSysTick \/ LoopLaunch \/ LoopThreads
               \/ LoopEnter \/ Reap,
             UNCHANGED <<line, key>>, launched' \in BOOLEAN
      PROVE  Moves
  <2>1. LineHeld' = LineHeld /\ LineState'
    BY <1>9 DEF LineHeld, LineState
  <2>2. LoopSysTick => Counts
    BY <1>1, QuantaAssumption DEF LoopSysTick, Counts, LoopTypeOK, CoreTypeOK
  <2>3. QED
    BY <1>1, <1>9, <2>1, <2>2 DEF QueueStep, LoopThreads
<1>10. CASE EdfBegin
  <2>1. AllAwake /\ UNCHANGED <<line, key, launched>>
    BY <1>10 DEF EdfBegin, lineVars
  <2>2. LineHeld' = LineHeld /\ LineState'
    BY <2>1 DEF LineHeld, LineState
  <2>3. QED
    BY <1>1, <2>1, <2>2 DEF QueueStep
<1>11. ASSUME NEW t \in Tasks,
              EdfChoose(t) \/ EdfExpired(t) \/ EdfKill(t) \/ EdfPanic(t)
       PROVE  LineState' /\ LineHeld' = LineHeld /\ t \in LineHeld
  <2>1. FirstInLine(t) /\ UNCHANGED <<key, launched>> /\ key \in [Tasks -> Nat]
    BY <1>11 DEF EdfChoose, EdfExpired, EdfKill, EdfPanic, SleepInv, Keys
  <2>2. PICK r \in Pushed(Tail(line), key, t) : r = line'
    BY <1>11 DEF EdfChoose, EdfExpired, EdfKill, EdfPanic
  <2>3. r \in Seq(Tasks) /\ InOrder(r, key) /\ Range(r) = LineHeld /\ t \in LineHeld
    BY <2>1, EdfRotates
  <2>4. QED
    BY <2>1, <2>2, <2>3 DEF LineState, LineHeld
<1>12. ASSUME NEW t \in Tasks, EdfChoose(t) PROVE Moves
  <2>1. Choose(t)
    BY <1>12 DEF EdfChoose
  <2>2. QED
    BY <1>1, <1>11, <1>12, <2>1 DEF QueueStep
<1>13. ASSUME NEW t \in Tasks, EdfExpired(t) \/ EdfKill(t) \/ EdfPanic(t),
              kind = "edf"
       PROVE  Expires
  BY <1>1, <1>11, <1>13 DEF ExpiredStep
<1>14. ASSUME NEW t \in Tasks, NEW u \in Tasks, EdfReplace(t, u), kind = "edf"
       PROVE  Expires
  BY <1>1, <1>14, EdfReplaces DEF ExpiredStep
<1>15. CASE kind = "edf" /\ EdfNext
  BY <1>7, <1>10, <1>12, <1>13, <1>14, <1>15 DEF EdfNext
<1>16. CASE LineReturn
  BY <1>9, <1>16 DEF LineReturn
<1>17. CASE /\ LoopSysTick \/ LoopLaunch \/ LoopThreads \/ LoopEnter \/ Reap
            /\ UNCHANGED lineVars
  <2>1. UNCHANGED <<line, key>> /\ launched' \in BOOLEAN
    BY <1>17 DEF lineVars, LineState
  <2>2. QED
    BY <1>9, <1>17, <2>1
<1>18. QED
  BY <1>2, <1>3, <1>4, <1>5, <1>6, <1>7, <1>8, <1>15, <1>16, <1>17
  DEF LineNext, CfsNext

-----------------------------------------------------------------------------
(* The priority schedulers: a task is in the queue of its priority         *)

PrioState ==
  /\ queues \in [Levels -> Seq(Tasks)]
  /\ priority \in [Tasks -> Levels]
  /\ \A l \in Levels : IsInjective(queues[l])
  /\ \A l \in Levels : \A t \in Range(queues[l]) : priority[t] = l

LEMMA ContainsRange ==
  ASSUME NEW q \in Seq(Tasks), NEW t
  PROVE  Contains(q, t) <=> t \in Range(q)
BY RangeMembers DEF Contains

LEMMA HeldByPrio ==
  ASSUME queues \in [Levels -> Seq(Tasks)]
  PROVE  \A t : t \in PrioHeld <=> \E l \in Levels : t \in Range(queues[l])
<1>1. ASSUME NEW l \in Levels, NEW t
      PROVE  /\ Contains(queues[l], t) <=> t \in Range(queues[l])
             /\ t \in Range(queues[l]) => t \in Tasks
  BY ContainsRange, RangeMembers
<1>2. QED
  BY <1>1 DEF PrioHeld, InQueue

\* What no queue but that of level l needs to show.
LEMMA OneQueue ==
  ASSUME PrioState, NEW l \in Levels, NEW q \in Seq(Tasks), IsInjective(q),
         queues' = [queues EXCEPT ![l] = q],
         priority' \in [Tasks -> Levels],
         \A u \in PrioHeld : priority'[u] = priority[u],
         \A u \in Range(q) : priority'[u] = l
  PROVE  /\ PrioState'
         /\ \A u : u \in PrioHeld' <=>
                     u \in Range(q) \/ (u \in PrioHeld /\ u \notin Range(queues[l]))
<1>1. queues' \in [Levels -> Seq(Tasks)] /\ queues'[l] = q
      /\ \A m \in Levels \ {l} : queues'[m] = queues[m]
  BY DEF PrioState
<1>2. /\ \A u : u \in PrioHeld <=> \E m \in Levels : u \in Range(queues[m])
      /\ \A u : u \in PrioHeld' <=> \E m \in Levels : u \in Range(queues'[m])
  <2>1. ASSUME NEW m \in Levels, NEW u
        PROVE  /\ Contains(queues'[m], u) <=> u \in Range(queues'[m])
               /\ u \in Range(queues'[m]) => u \in Tasks
    <3>1. PICK p \in Seq(Tasks) : p = queues'[m]
      BY <1>1
    <3>2. /\ Contains(p, u) <=> u \in Range(p)
          /\ u \in Range(p) => u \in Tasks
      BY ContainsRange, RangeMembers
    <3>3. QED
      BY <3>1, <3>2
  <2>2. \A u : u \in PrioHeld' <=> \E m \in Levels : u \in Range(queues'[m])
    BY <2>1 DEF PrioHeld, InQueue
  <2>3. QED
    BY <2>2, HeldByPrio DEF PrioState
<1>3. \A m \in Levels : \A u \in Range(queues'[m]) : priority'[u] = m
  BY <1>1, <1>2 DEF PrioState
<1>4. PrioState'
  BY <1>1, <1>3 DEF PrioState
<1>5. \A m \in Levels \ {l} : Range(queues[m]) \cap Range(queues[l]) = {}
  BY DEF PrioState
<1>6. QED
  BY <1>1, <1>2, <1>4, <1>5

\* A task that is new to the queues goes to the end of one of them.
LEMMA PrioEnters ==
  ASSUME PrioState, NEW t \in Tasks, t \notin PrioHeld, NEW l \in Levels,
         queues' = Push(queues, l, t), priority' \in [Tasks -> Levels],
         \A u \in Tasks \ {t} : priority'[u] = priority[u],
         priority'[t] = l
  PROVE  PrioState' /\ PrioHeld' = PrioHeld \cup {t}
<1>1. PICK q \in Seq(Tasks) : q = queues[l]
  BY DEF PrioState
<1>2. /\ IsInjective(q)
      /\ \A u \in Range(q) : u \in Tasks /\ u \in PrioHeld /\ priority[u] = l
  BY <1>1, HeldByPrio, RangeMembers DEF PrioState
<1>3. Enqueue(q, t) = Append(q, t)
  BY <1>2, QueueFits DEF Enqueue
<1>4. PICK r \in Seq(Tasks) :
        /\ r = Append(q, t) /\ Range(r) = Range(q) \cup {t} /\ IsInjective(r)
  BY <1>2, PushAtTail
<1>5. queues' = [queues EXCEPT ![l] = r]
  BY <1>1, <1>3, <1>4 DEF Push
<1>6. \A u \in PrioHeld : priority'[u] = priority[u]
  BY DEF PrioHeld
<1>7. \A u \in Range(r) : priority'[u] = l
  BY <1>2, <1>4
<1>8. /\ PrioState'
      /\ \A u : u \in PrioHeld' <=>
                  u \in Range(r) \/ (u \in PrioHeld /\ u \notin Range(queues[l]))
  BY <1>4, <1>5, <1>6, <1>7, OneQueue
<1>9. \A u : u \in PrioHeld' <=> u \in PrioHeld \/ u = t
  BY <1>1, <1>2, <1>4, <1>8
<1>10. QED
  BY <1>8, <1>9

\* A task is popped ...
LEMMA PrioPops ==
  ASSUME PrioState, NEW t \in Tasks, NEW l \in Levels, PoppedFrom(l, t)
  PROVE  \E r \in Seq(Tasks) :
           /\ Popped(l) = [queues EXCEPT ![l] = r]
           /\ IsInjective(r) /\ t \notin Range(r)
           /\ Range(queues[l]) = Range(r) \cup {t}
           /\ t \in PrioHeld
           /\ \A u \in Range(r) \cup {t} : u \in PrioHeld /\ priority[u] = l
<1>1. PICK q \in Seq(Tasks) : q = queues[l]
  BY DEF PrioState
<1>2. IsInjective(q) /\ \A u \in Range(q) : u \in PrioHeld /\ priority[u] = l
  BY <1>1, HeldByPrio DEF PrioState
<1>3. q # << >> /\ t = Head(q)
  BY <1>1 DEF PoppedFrom
<1>4. PICK r \in Seq(Tasks) :
        /\ r = Tail(q) /\ IsInjective(r) /\ t \in Range(q)
        /\ Range(r) = Range(q) \ {t}
  BY <1>2, <1>3, PopAtHead
<1>5. Popped(l) = [queues EXCEPT ![l] = r]
  BY <1>1, <1>4 DEF Popped
<1>6. t \notin Range(r) /\ Range(queues[l]) = Range(r) \cup {t}
  BY <1>1, <1>4
<1>7. \A u \in Range(r) \cup {t} : u \in PrioHeld /\ priority[u] = l
  BY <1>2, <1>4
<1>8. t \in PrioHeld
  BY <1>7
<1>9. r \in Seq(Tasks) /\ IsInjective(r)
  BY <1>4
<1>10. QED
  BY <1>5, <1>6, <1>7, <1>8, <1>9, Zenon

\* ... and leaves, ...
LEMMA PrioLeaves ==
  ASSUME PrioState, NEW t \in Tasks, NEW l \in Levels, PoppedFrom(l, t),
         UNCHANGED priority, queues' = Popped(l)
  PROVE  PrioState' /\ t \in PrioHeld /\ PrioHeld' = PrioHeld \ {t}
<1>1. PICK r \in Seq(Tasks) :
        /\ Popped(l) = [queues EXCEPT ![l] = r]
        /\ IsInjective(r) /\ t \notin Range(r)
        /\ Range(queues[l]) = Range(r) \cup {t}
        /\ t \in PrioHeld
        /\ \A u \in Range(r) \cup {t} : u \in PrioHeld /\ priority[u] = l
  BY PrioPops
<1>2. /\ PrioState'
      /\ \A u : u \in PrioHeld' <=>
                  u \in Range(r) \/ (u \in PrioHeld /\ u \notin Range(queues[l]))
  <2>1. queues' = [queues EXCEPT ![l] = r] /\ priority' \in [Tasks -> Levels]
    BY <1>1 DEF PrioState
  <2>2. /\ \A u \in PrioHeld : priority'[u] = priority[u]
        /\ \A u \in Range(r) : priority'[u] = l
    BY <1>1
  <2>3. QED
    BY <1>1, <2>1, <2>2, OneQueue
<1>3. \A u : u \in PrioHeld' <=> u \in PrioHeld /\ u # t
  BY <1>1, <1>2
<1>4. QED
  BY <1>1, <1>2, <1>3

\* ... or comes back to the same queue.
LEMMA PrioRotates ==
  ASSUME PrioState, NEW t \in Tasks, NEW l \in Levels, PoppedFrom(l, t),
         UNCHANGED priority, queues' = Push(Popped(l), l, t)
  PROVE  PrioState' /\ t \in PrioHeld /\ PrioHeld' = PrioHeld
<1>1. PICK r \in Seq(Tasks) :
        /\ Popped(l) = [queues EXCEPT ![l] = r]
        /\ IsInjective(r) /\ t \notin Range(r)
        /\ Range(queues[l]) = Range(r) \cup {t}
        /\ t \in PrioHeld
        /\ \A u \in Range(r) \cup {t} : u \in PrioHeld /\ priority[u] = l
  BY PrioPops
<1>2. Enqueue(r, t) = Append(r, t)
  BY <1>1, QueueFits DEF Enqueue
<1>3. PICK s \in Seq(Tasks) :
        /\ s = Append(r, t) /\ Range(s) = Range(r) \cup {t} /\ IsInjective(s)
  BY <1>1, PushAtTail
<1>4. queues' = [queues EXCEPT ![l] = s]
  BY <1>1, <1>2, <1>3 DEF Push, PrioState
<1>5. /\ PrioState'
      /\ \A u : u \in PrioHeld' <=>
                  u \in Range(s) \/ (u \in PrioHeld /\ u \notin Range(queues[l]))
  <2>1. priority' \in [Tasks -> Levels]
    BY DEF PrioState
  <2>2. /\ \A u \in PrioHeld : priority'[u] = priority[u]
        /\ \A u \in Range(s) : priority'[u] = l
    BY <1>1, <1>3
  <2>3. QED
    BY <1>3, <1>4, <2>1, <2>2, OneQueue
<1>6. \A u : u \in PrioHeld' <=> u \in PrioHeld
  BY <1>1, <1>3, <1>5
<1>7. QED
  BY <1>1, <1>5, <1>6

LEMMA PrioAddition ==
  ASSUME LoopTypeOK, PrioState, Custody, kind \in Priority,
         NEW t \in Tasks, t \notin allocated, PrioAdd(t)
  PROVE  PrioState' /\ PrioHeld' = PrioHeld \cup {t}
<1>1. t \notin PrioHeld
  BY DEF Custody, Held, Priority
<1>2. PICK p \in Priorities :
        priority' = [priority EXCEPT ![t] = p] /\ queues' = Push(queues, p, t)
  BY DEF PrioAdd
<1>3. p \in Levels
  BY PrioritiesAssumption
<1>4. /\ priority' \in [Tasks -> Levels] /\ priority'[t] = p
      /\ \A u \in Tasks \ {t} : priority'[u] = priority[u]
  BY <1>2, <1>3 DEF PrioState
<1>5. QED
  BY <1>1, <1>2, <1>3, <1>4, PrioEnters

-----------------------------------------------------------------------------
(* priority_aging: a task that moves forward stays in one queue            *)

\* Among keeps the tasks of S, each once.
LEMMA AmongQueue ==
  ASSUME NEW q \in Seq(Tasks), IsInjective(q), NEW S
  PROVE  /\ Among(q, S) \in Seq(Tasks) /\ IsInjective(Among(q, S))
         /\ Range(Among(q, S)) = Range(q) \cap S
<1> DEFINE places  == {i \in DOMAIN q : q[i] \in S}
           n       == Cardinality(places)
           Rank(i) == Cardinality({j \in places : j <= i})
           Spot(m) == CHOOSE i \in places : Rank(i) = m
<1>1. DOMAIN q = 1..Len(q) /\ Len(q) \in Nat
  BY RangeMembers
<1>2. IsFiniteSet(places) /\ n \in Nat /\ places \subseteq 1..Len(q)
  <2>1. IsFiniteSet(1..Len(q))
    BY <1>1, FS_Interval
  <2>2. places \subseteq 1..Len(q)
    BY <1>1
  <2>3. IsFiniteSet(places)
    BY <2>1, <2>2, FS_Subset
  <2>4. QED
    BY <2>2, <2>3, FS_CardinalityType
<1>3. \A i : {j \in places : j <= i} \subseteq places
  OBVIOUS
<1>4. \A i \in places : Rank(i) \in 1..n
  <2> SUFFICES ASSUME NEW i \in places PROVE Rank(i) \in 1..n
    OBVIOUS
  <2>1. IsFiniteSet({j \in places : j <= i}) /\ Rank(i) <= n
    BY <1>2, FS_Subset
  <2>2. i \in {j \in places : j <= i}
    BY <1>2
  <2>3. Rank(i) \in Nat /\ Rank(i) # 0
    BY <2>1, <2>2, FS_CardinalityType, FS_EmptySet
  <2>4. QED
    BY <1>2, <2>1, <2>3
<1>5. ASSUME NEW i \in places, NEW k \in places, i < k
      PROVE  Rank(i) # Rank(k)
  <2>1. IsFiniteSet({j \in places : j <= k})
    BY <1>2, FS_Subset
  <2>2. {j \in places : j <= i} \subseteq {j \in places : j <= k}
    BY <1>2, <1>5
  <2>3. k \in {j \in places : j <= k} /\ k \notin {j \in places : j <= i}
    BY <1>2, <1>5
  <2>4. {j \in places : j <= i} # {j \in places : j <= k}
    BY <2>3
  <2>5. Rank(i) # Rank(k)
    BY <2>1, <2>2, <2>4, FS_Subset
  <2>6. QED
    BY <2>5
<1>6. \A i, k \in places : Rank(i) = Rank(k) => i = k
  <2>1. \A i, k \in places : i = k \/ i < k \/ k < i
    BY <1>2
  <2>2. QED
    BY <1>5, <2>1
<1> HIDE DEF Rank
<1>7. \A m \in 1..n : \E i \in places : Rank(i) = m
  <2>1. PICK rank \in [places -> 1..n] : \A i \in places : rank[i] = Rank(i)
    <3>1. [i \in places |-> Rank(i)] \in [places -> 1..n]
      BY <1>4
    <3>2. QED
      BY <3>1
  <2>2. rank \in Injection(places, 1..n)
    BY <1>6, <2>1 DEF Injection, IsInjective
  <2>3. IsFiniteSet(1..n) /\ Cardinality(1..n) = n
    BY <1>2, FS_Interval
  <2>4. rank \in Surjection(places, 1..n)
    BY <1>2, <2>2, <2>3, FS_Injection
  <2>5. QED
    BY <2>1, <2>4 DEF Surjection
<1>8. \A m \in 1..n : Spot(m) \in places /\ Rank(Spot(m)) = m
  BY <1>7
<1>9. PICK r : r = [m \in 1..n |-> q[Spot(m)]]
  OBVIOUS
<1> HIDE DEF Spot
<1>10. Among(q, S) = r
  BY <1>9, Zenon DEF Among, Rank, Spot
<1>11. r \in Seq(Tasks)
  <2>1. \A m \in 1..n : q[Spot(m)] \in Tasks
    BY <1>2, <1>8, RangeMembers
  <2>2. QED
    BY <1>2, <1>9, <2>1, IsASeq
<1>12. IsInjective(r)
  <2>1. \A i, k \in places : q[i] = q[k] => i = k
    BY DEF IsInjective
  <2>2. \A m, k \in 1..n : q[Spot(m)] = q[Spot(k)] => m = k
    BY <1>8, <2>1
  <2>3. QED
    BY <1>9, <2>2 DEF IsInjective
<1>13. Range(r) = Range(q) \cap S
  <2>1. ASSUME NEW x \in Range(r) PROVE x \in Range(q) \cap S
    <3>1. PICK m \in 1..n : x = q[Spot(m)]
      BY <1>9, <2>1 DEF Range
    <3>2. Spot(m) \in places
      BY <1>8
    <3>3. QED
      BY <3>1, <3>2 DEF Range
  <2>2. ASSUME NEW x \in Range(q) \cap S PROVE x \in Range(r)
    <3>1. PICK i \in places : q[i] = x
      BY <2>2 DEF Range
    <3>2. PICK m \in 1..n : m = Rank(i)
      BY <1>4
    <3>3. Spot(m) = i
      BY <1>6, <1>8, <3>2
    <3>4. r[m] = x /\ DOMAIN r = 1..n
      BY <1>9, <3>1, <3>3
    <3>5. QED
      BY <3>4 DEF Range
  <2>3. QED
    BY <2>1, <2>2
<1>14. QED
  BY <1>10, <1>11, <1>12, <1>13

\* A queue behind another one.
LEMMA JoinQueues ==
  ASSUME NEW q \in Seq(Tasks), NEW r \in Seq(Tasks), IsInjective(q),
         IsInjective(r), Range(q) \cap Range(r) = {}
  PROVE  /\ q \o r \in Seq(Tasks) /\ IsInjective(q \o r)
         /\ Range(q \o r) = Range(q) \cup Range(r)
         /\ Len(q) <= Len(q \o r)
         /\ \A i \in 1..Len(q) : (q \o r)[i] = q[i]
<1>1. PICK s : s = q \o r
  OBVIOUS
<1>2. /\ s \in Seq(Tasks) /\ Len(s) = Len(q) + Len(r)
      /\ \A i \in 1..Len(q) + Len(r) :
           s[i] = IF i <= Len(q) THEN q[i] ELSE r[i - Len(q)]
  BY <1>1, ConcatProperties
<1>3. /\ Len(q) \in Nat /\ DOMAIN q = 1..Len(q)
      /\ Len(r) \in Nat /\ DOMAIN r = 1..Len(r)
      /\ DOMAIN s = 1..Len(q) + Len(r)
  BY <1>2, RangeMembers
<1>4. \A i \in 1..Len(q) : i \in 1..Len(q) + Len(r) /\ s[i] = q[i]
  BY <1>2, <1>3
<1>5. \A i \in 1..Len(r) : i + Len(q) \in 1..Len(q) + Len(r) /\ s[i + Len(q)] = r[i]
  BY <1>2, <1>3
<1>6. ASSUME NEW i \in 1..Len(q) + Len(r), i > Len(q)
      PROVE  i - Len(q) \in 1..Len(r) /\ s[i] = r[i - Len(q)]
  BY <1>2, <1>3, <1>6
<1>7. Range(s) = Range(q) \cup Range(r)
  <2>1. ASSUME NEW x \in Range(s) PROVE x \in Range(q) \cup Range(r)
    <3>1. PICK i \in 1..Len(q) + Len(r) : s[i] = x
      BY <1>3, <2>1 DEF Range
    <3>2. CASE i <= Len(q)
      <4>1. i \in 1..Len(q)
        BY <1>3, <3>2
      <4>2. QED
        BY <1>3, <1>4, <3>1, <4>1 DEF Range
    <3>3. CASE i > Len(q)
      BY <1>3, <1>6, <3>1, <3>3 DEF Range
    <3>4. QED
      BY <1>3, <3>2, <3>3
  <2>2. ASSUME NEW x \in Range(q) PROVE x \in Range(s)
    BY <1>3, <1>4, <2>2 DEF Range
  <2>3. ASSUME NEW x \in Range(r) PROVE x \in Range(s)
    <3>1. PICK i \in 1..Len(r) : r[i] = x
      BY <1>3, <2>3 DEF Range
    <3>2. PICK j \in DOMAIN s : s[j] = x
      BY <1>3, <1>5, <3>1
    <3>3. QED
      BY <3>2 DEF Range
  <2>4. QED
    BY <2>1, <2>2, <2>3
<1>8. IsInjective(s)
  <2>1. /\ \A i, j \in 1..Len(q) : q[i] = q[j] => i = j
        /\ \A i, j \in 1..Len(r) : r[i] = r[j] => i = j
    BY <1>3 DEF IsInjective
  <2>2. \A i \in 1..Len(q), j \in 1..Len(r) : q[i] # r[j]
    BY RangeMembers
  <2>3. ASSUME NEW i \in 1..Len(q) + Len(r), NEW j \in 1..Len(q) + Len(r),
               i < j, s[i] = s[j]
        PROVE  FALSE
    <3>1. CASE j <= Len(q)
      <4>1. i \in 1..Len(q) /\ j \in 1..Len(q)
        BY <1>3, <2>3, <3>1
      <4>2. QED
        BY <1>4, <2>1, <2>3, <4>1
    <3>2. CASE i <= Len(q) /\ j > Len(q)
      <4>1. i \in 1..Len(q)
        BY <1>3, <3>2
      <4>2. QED
        BY <1>4, <1>6, <2>2, <2>3, <3>2, <4>1
    <3>3. CASE i > Len(q)
      <4>1. j > Len(q) /\ i - Len(q) # j - Len(q)
        BY <1>3, <2>3, <3>3
      <4>2. QED
        BY <1>6, <2>1, <2>3, <3>3, <4>1
    <3>4. QED
      BY <1>3, <3>1, <3>2, <3>3
  <2>4. \A i, j \in 1..Len(q) + Len(r) : i = j \/ i < j \/ j < i
    BY <1>3
  <2>5. QED
    BY <1>3, <2>3, <2>4 DEF IsInjective
<1>9. QED
  BY <1>1, <1>2, <1>3, <1>4, <1>7, <1>8

\* q files every task under its priority p, once.
Sorted(q, p) ==
  /\ q \in [Levels -> Seq(Tasks)] /\ p \in [Tasks -> Levels]
  /\ \A l \in Levels : IsInjective(q[l])
  /\ \A l \in Levels : \A t \in Range(q[l]) : p[t] = l

Filed(q) == {t \in Tasks : \E l \in Levels : t \in Range(q[l])}

\* q begins with p.
BeginsWith(q, p) == Len(p) <= Len(q) /\ \A i \in 1..Len(p) : q[i] = p[i]

\* What one pass of tasks_aging does to t: s before it and a after it.
AgesTask(s, a, l, t) ==
  IF t \notin Range(s.queues[l])
  THEN a.priority[t] = s.priority[t] /\ a.score[t] = s.score[t]
  ELSE IF MovesUp(s, t) THEN a.priority[t] = l - 1 /\ a.score[t] = 0
  ELSE a.priority[t] = l /\ a.score[t] = s.score[t] + 1

LEMMA AgingPass ==
  ASSUME NEW s, Sorted(s.queues, s.priority), s.score \in [Tasks -> Nat],
         NEW l \in Levels \ {0}, NEW a, a = Aged(s, l)
  PROVE  /\ Sorted(a.queues, a.priority) /\ a.score \in [Tasks -> Nat]
         /\ Filed(a.queues) = Filed(s.queues)
         /\ \A m \in Levels \ {l, l - 1} : a.queues[m] = s.queues[m]
         /\ BeginsWith(a.queues[l - 1], s.queues[l - 1])
         /\ \A t \in Tasks : AgesTask(s, a, l, t)
<1>1. PICK q \in Seq(Tasks) : q = s.queues[l]
  BY DEF Sorted
<1>2. PICK up : up = {t \in Range(q) : MovesUp(s, t)}
  OBVIOUS
<1>3. l \in Levels /\ l - 1 \in Levels /\ l - 1 # l
  BY DEF Levels, MaximumPriority
<1>4. PICK p \in Seq(Tasks) : p = s.queues[l - 1]
  BY <1>3 DEF Sorted
<1>5. /\ IsInjective(q) /\ IsInjective(p)
      /\ \A t \in Range(q) : t \in Tasks /\ s.priority[t] = l
      /\ \A t \in Range(p) : t \in Tasks /\ s.priority[t] = l - 1
  BY <1>1, <1>3, <1>4, RangeMembers DEF Sorted
<1>6. PICK stay \in Seq(Tasks) :
        /\ stay = Among(q, Range(q) \ up) /\ IsInjective(stay)
        /\ Range(stay) = Range(q) \ up
  <2>1. PICK S : S = Range(q) \ up
    OBVIOUS
  <2>2. /\ Among(q, S) \in Seq(Tasks) /\ IsInjective(Among(q, S))
        /\ Range(Among(q, S)) = Range(q) \cap S
    BY <1>5, AmongQueue
  <2>3. QED
    BY <2>1, <2>2
<1>7. PICK go \in Seq(Tasks) :
        go = Among(q, up) /\ IsInjective(go) /\ Range(go) = up
  <2>1. /\ Among(q, up) \in Seq(Tasks) /\ IsInjective(Among(q, up))
        /\ Range(Among(q, up)) = Range(q) \cap up
    BY <1>5, AmongQueue
  <2>2. QED
    BY <1>2, <2>1
<1>8. PICK r \in Seq(Tasks) :
        /\ r = p \o go /\ IsInjective(r) /\ Range(r) = Range(p) \cup up
        /\ BeginsWith(r, p)
  <2>1. Range(p) \cap Range(go) = {}
    <3>1. ASSUME NEW x, x \in Range(p), x \in Range(go) PROVE FALSE
      <4>1. x \in Range(q)
        BY <1>2, <1>7, <3>1
      <4>2. s.priority[x] = l /\ s.priority[x] = l - 1
        BY <1>5, <3>1, <4>1
      <4>3. QED
        BY <1>3, <4>2
    <3>2. QED
      BY <3>1
  <2>2. /\ p \o go \in Seq(Tasks) /\ IsInjective(p \o go)
        /\ Range(p \o go) = Range(p) \cup Range(go)
        /\ Len(p) <= Len(p \o go)
        /\ \A i \in 1..Len(p) : (p \o go)[i] = p[i]
    BY <1>5, <1>7, <2>1, JoinQueues
  <2>3. QED
    BY <1>7, <2>2 DEF BeginsWith
<1>9. /\ a.queues = [s.queues EXCEPT ![l] = stay, ![l - 1] = r]
      /\ a.priority = [t \in Tasks |-> IF t \in up THEN l - 1 ELSE s.priority[t]]
      /\ a.score = [t \in Tasks |-> IF t \notin Range(q) THEN s.score[t]
                                   ELSE IF t \in up THEN 0 ELSE s.score[t] + 1]
  <2>1. a = [queues   |-> [s.queues EXCEPT ![l] = Among(q, Range(q) \ up),
                                          ![l - 1] = @ \o Among(q, up)],
             priority |-> [t \in Tasks |-> IF t \in up THEN l - 1 ELSE s.priority[t]],
             score    |-> [t \in Tasks |-> IF t \notin Range(q) THEN s.score[t]
                                          ELSE IF t \in up THEN 0
                                          ELSE s.score[t] + 1]]
    BY <1>1, <1>2 DEF Aged
  <2>2. a.queues = [s.queues EXCEPT ![l] = stay, ![l - 1] = @ \o go]
    BY <1>6, <1>7, <2>1
  <2>3. [s.queues EXCEPT ![l] = stay, ![l - 1] = @ \o go] =
          [s.queues EXCEPT ![l] = stay, ![l - 1] = r]
    BY <1>3, <1>4, <1>8 DEF Sorted
  <2>4. QED
    BY <2>1, <2>2, <2>3
<1>10. /\ a.queues \in [Levels -> Seq(Tasks)]
       /\ a.queues[l] = stay /\ a.queues[l - 1] = r
       /\ \A m \in Levels \ {l, l - 1} : a.queues[m] = s.queues[m]
  <2>1. PICK f \in [Levels -> Seq(Tasks)] : f = s.queues
    BY DEF Sorted
  <2>2. PICK k \in Levels : k = l - 1 /\ k # l
    BY <1>3
  <2>3. PICK g : g = [f EXCEPT ![l] = stay, ![k] = r]
    OBVIOUS
  <2>4. /\ g \in [Levels -> Seq(Tasks)] /\ g[l] = stay /\ g[k] = r
        /\ \A m \in Levels \ {l, k} : g[m] = f[m]
    BY <1>3, <2>2, <2>3
  <2>5. a.queues = g
    BY <1>9, <2>1, <2>2, <2>3
  <2>6. QED
    BY <2>1, <2>2, <2>4, <2>5
<1>11. a.priority \in [Tasks -> Levels] /\ a.score \in [Tasks -> Nat]
  BY <1>3, <1>9 DEF Sorted
<1>12. \A t \in Tasks : AgesTask(s, a, l, t)
  <2>1. \A t \in Tasks : t \in up <=> t \in Range(q) /\ MovesUp(s, t)
    BY <1>2
  <2>2. QED
    BY <1>1, <1>5, <1>9, <2>1 DEF AgesTask
<1>13. Sorted(a.queues, a.priority)
  <2>1. ASSUME NEW m \in Levels, NEW t \in Range(a.queues[m])
        PROVE  a.priority[t] = m
    <3>1. \A u \in Tasks :
            a.priority[u] = IF u \in up THEN l - 1 ELSE s.priority[u]
      BY <1>9
    <3>2. CASE m = l
      BY <1>5, <1>6, <1>10, <2>1, <3>1, <3>2
    <3>3. CASE m = l - 1
      BY <1>2, <1>5, <1>8, <1>10, <2>1, <3>1, <3>3
    <3>4. CASE m # l /\ m # l - 1
      <4>1. t \in Range(s.queues[m]) /\ s.priority[t] = m /\ t \in Tasks
        BY <1>10, <2>1, <3>4, RangeMembers DEF Sorted
      <4>2. t \notin up
        BY <1>2, <1>5, <3>4, <4>1
      <4>3. QED
        BY <3>1, <4>1, <4>2
    <3>5. QED
      BY <3>2, <3>3, <3>4
  <2>2. \A m \in Levels : IsInjective(a.queues[m])
    BY <1>6, <1>8, <1>10 DEF Sorted
  <2>3. QED
    BY <1>10, <1>11, <2>1, <2>2 DEF Sorted
<1>14. Filed(a.queues) = Filed(s.queues)
  <2>1. \A t : t \in up => t \in Range(q)
    BY <1>2
  <2>2. ASSUME NEW t \in Tasks, NEW m \in Levels, t \in Range(a.queues[m])
        PROVE  \E k \in Levels : t \in Range(s.queues[k])
    BY <1>1, <1>3, <1>4, <1>6, <1>8, <1>10, <2>1, <2>2
  <2>3. ASSUME NEW t \in Tasks, NEW m \in Levels, t \in Range(s.queues[m])
        PROVE  \E k \in Levels : t \in Range(a.queues[k])
    BY <1>1, <1>3, <1>4, <1>6, <1>8, <1>10, <2>1, <2>3
  <2>4. QED
    BY <2>2, <2>3 DEF Filed
<1>15. BeginsWith(a.queues[l - 1], s.queues[l - 1])
  BY <1>4, <1>8, <1>10
<1>16. QED
  BY <1>10, <1>11, <1>12, <1>13, <1>14, <1>15

LEMMA PrioIsSorted ==
  /\ PrioState <=> Sorted(queues, priority)
  /\ PrioState' <=> Sorted(queues', priority')
  /\ PrioState => PrioHeld = Filed(queues)
  /\ PrioState' => PrioHeld' = Filed(queues')
<1>1. (PrioState <=> Sorted(queues, priority))
      /\ (PrioState' <=> Sorted(queues', priority'))
  BY DEF PrioState, Sorted
<1>2. ASSUME NEW q \in [Levels -> Seq(Tasks)], NEW l \in Levels, NEW t
      PROVE  Contains(q[l], t) <=> t \in Range(q[l])
  BY ContainsRange
<1>3. PrioState => PrioHeld = Filed(queues)
  BY <1>2 DEF PrioState, PrioHeld, InQueue, Filed
<1>4. PrioState' => PrioHeld' = Filed(queues')
  BY <1>2 DEF PrioState, PrioHeld, InQueue, Filed
<1>5. QED
  BY <1>1, <1>3, <1>4

\* The queue that t is filed in after reset_priority.
Reset(t, u) == IF u = t THEN base[t] ELSE priority[u]

\* Whoever is in q, and is not t, has come one place forward in r.
Advances(q, r, t) ==
  \A u \in Range(q) \ {t} :
    \E i \in 1..Len(r) :
      r[i] = u /\ i + 1 \in 1..Len(q) /\ q[i + 1] = u

\* The task that was chosen goes back to its base priority, at the end.
LEMMA ResetPriority ==
  ASSUME PrioState, base \in [Tasks -> Levels], NEW l \in Levels,
         NEW t \in Tasks, PoppedFrom(l, t), NEW q, q = Push(Popped(l), base[t], t),
         NEW p, p = [priority EXCEPT ![t] = base[t]]
  PROVE  /\ Sorted(q, p) /\ Filed(q) = PrioHeld /\ t \in PrioHeld
         /\ \A u \in Tasks : p[u] = Reset(t, u)
         /\ Advances(queues[0], q[0], t)
<1>1. PICK w \in Seq(Tasks) :
        /\ Popped(l) = [queues EXCEPT ![l] = w]
        /\ IsInjective(w) /\ t \notin Range(w)
        /\ Range(queues[l]) = Range(w) \cup {t}
        /\ t \in PrioHeld
        /\ \A u \in Range(w) \cup {t} : u \in PrioHeld /\ priority[u] = l
  BY PrioPops
<1>2. PICK f : f = Popped(l)
  OBVIOUS
<1>3. /\ f \in [Levels -> Seq(Tasks)] /\ f[l] = w
      /\ \A m \in Levels \ {l} : f[m] = queues[m]
  BY <1>1, <1>2 DEF PrioState
<1>4. \A m \in Levels : IsInjective(f[m]) /\ t \notin Range(f[m])
  <2>1. ASSUME NEW m \in Levels \ {l} PROVE t \notin Range(queues[m])
    BY <1>1 DEF PrioState
  <2>2. QED
    BY <1>1, <1>3, <2>1 DEF PrioState
<1>5. PICK b \in Levels : b = base[t]
  OBVIOUS
<1>6. PICK o \in Seq(Tasks) : o = f[b]
  BY <1>3
<1>7. IsInjective(o) /\ t \notin Range(o)
  BY <1>4, <1>6
<1>8. PICK r \in Seq(Tasks) :
        /\ r = Append(o, t) /\ Range(r) = Range(o) \cup {t} /\ IsInjective(r)
  BY <1>7, PushAtTail
<1>9. Enqueue(o, t) = r
  BY <1>7, <1>8, QueueFits DEF Enqueue
<1>10. q = [f EXCEPT ![b] = r]
  BY <1>2, <1>5, <1>6, <1>9 DEF Push
<1>11. /\ q \in [Levels -> Seq(Tasks)] /\ q[b] = r
       /\ \A m \in Levels \ {b} : q[m] = f[m]
  BY <1>3, <1>10
<1>12. p \in [Tasks -> Levels] /\ \A u \in Tasks : p[u] = Reset(t, u)
  BY DEF PrioState, Reset
<1>13. \A m \in Levels : \A u :
         /\ u \in Range(q[m]) <=> u \in Range(f[m]) \/ (m = b /\ u = t)
         /\ u \in Range(queues[m]) <=> u \in Range(f[m]) \/ (m = l /\ u = t)
  <2> SUFFICES ASSUME NEW m \in Levels, NEW u
               PROVE /\ u \in Range(q[m]) <=> u \in Range(f[m]) \/ (m = b /\ u = t)
                     /\ u \in Range(queues[m]) <=> u \in Range(f[m]) \/ (m = l /\ u = t)
    OBVIOUS
  <2>1. u \in Range(q[m]) <=> u \in Range(f[m]) \/ (m = b /\ u = t)
    <3>1. CASE m = b
      BY <1>6, <1>8, <1>11, <3>1
    <3>2. CASE m # b
      BY <1>11, <3>2
    <3>3. QED
      BY <3>1, <3>2
  <2>2. u \in Range(queues[m]) <=> u \in Range(f[m]) \/ (m = l /\ u = t)
    <3>1. CASE m = l
      BY <1>1, <1>3, <3>1
    <3>2. CASE m # l
      BY <1>3, <3>2
    <3>3. QED
      BY <3>1, <3>2
  <2>3. QED
    BY <2>1, <2>2
<1>14. Sorted(q, p)
  <2>1. \A m \in Levels : IsInjective(q[m])
    BY <1>4, <1>8, <1>11
  <2>2. ASSUME NEW m \in Levels, NEW u \in Range(q[m]) PROVE p[u] = m
    <3>1. u \in Tasks
      BY <1>11, RangeMembers
    <3>2. CASE u = t
      <4>1. m = b
        BY <1>4, <1>13, <2>2, <3>2
      <4>2. QED
        BY <1>5, <1>12, <3>1, <3>2, <4>1 DEF Reset
    <3>3. CASE u # t
      <4>1. u \in Range(queues[m])
        BY <1>13, <3>3
      <4>2. priority[u] = m
        BY <4>1 DEF PrioState
      <4>3. QED
        BY <1>12, <3>1, <3>3, <4>2 DEF Reset
    <3>4. QED
      BY <3>2, <3>3
  <2>3. QED
    BY <1>11, <1>12, <2>1, <2>2 DEF Sorted
<1>15. Filed(q) = PrioHeld
  <2>1. PrioHeld = Filed(queues)
    BY PrioIsSorted
  <2>2. QED
    BY <1>13, <2>1 DEF Filed
<1>16. ASSUME NEW u \in Range(queues[0]) \ {t}
       PROVE  \E i \in 1..Len(q[0]) :
                /\ q[0][i] = u
                /\ i + 1 \in 1..Len(queues[0]) /\ queues[0][i + 1] = u
  <2>1. PICK z \in Levels : z = 0
    BY DEF Levels, MaximumPriority
  <2>2. PICK h \in Seq(Tasks) : h = queues[0]
    BY <2>1 DEF PrioState
  <2>3. l = 0
    <3>1. queues[0] # << >>
      BY <1>16 DEF Range
    <3>2. ~(0 < l)
      BY <2>1, <3>1 DEF PoppedFrom
    <3>3. QED
      BY <3>2 DEF Levels, MaximumPriority
  <2>4. h # << >> /\ IsInjective(h) /\ t = Head(h) /\ w = Tail(h)
    <3>1. h # << >> /\ IsInjective(h) /\ t = Head(h)
      BY <2>1, <2>2, <2>3 DEF PoppedFrom, PrioState
    <3>2. f = [queues EXCEPT ![0] = Tail(@)]
      BY <1>2, <2>3 DEF Popped
    <3>3. f[0] = Tail(h)
      BY <2>1, <2>2, <3>2 DEF PrioState
    <3>4. QED
      BY <1>3, <2>3, <3>1, <3>3
  <2>5. /\ Head(h) = h[1] /\ Len(h) \in Nat /\ Len(w) = Len(h) - 1
        /\ \A i \in 1..Len(w) : i + 1 \in 1..Len(h) /\ w[i] = h[i + 1]
    BY <2>4, PopAtHead
  <2>6. PICK j \in 1..Len(h) : h[j] = u
    BY <2>2, RangeMembers
  <2>7. j # 1
    BY <1>16, <2>4, <2>5, <2>6
  <2>8. PICK i \in 1..Len(w) : j = i + 1
    <3>1. j - 1 \in 1..Len(w) /\ j = (j - 1) + 1
      BY <2>5, <2>7
    <3>2. QED
      BY <3>1
  <2>9. w[i] = u
    BY <2>5, <2>6, <2>8
  <2>10. i \in 1..Len(q[0]) /\ q[0][i] = u
    <3>1. CASE b = 0
      <4>1. o = w
        BY <1>3, <1>6, <2>3, <3>1
      <4>2. Len(r) = Len(w) + 1 /\ \A k \in 1..Len(w) : r[k] = w[k]
        BY <1>8, <4>1, AppendProperties
      <4>3. Len(w) \in Nat
        BY LenProperties
      <4>4. QED
        BY <1>11, <2>9, <3>1, <4>2, <4>3
    <3>2. CASE b # 0
      <4>1. q[0] = w
        BY <1>3, <1>11, <2>1, <2>3, <3>2
      <4>2. QED
        BY <2>9, <4>1
    <3>3. QED
      BY <3>1, <3>2
  <2>11. QED
    BY <2>2, <2>6, <2>8, <2>10
<1>17. QED
  BY <1>1, <1>12, <1>14, <1>15, <1>16 DEF Advances

\* What a switch to t does to u: every queued task ages once.
AgedBySwitch(t, u) ==
  IF u \notin PrioHeld \/ Reset(t, u) = 0
  THEN priority'[u] = Reset(t, u) /\ score'[u] = score[u]
  ELSE IF score[u] + 1 >= threshold[u]
       THEN priority'[u] = Reset(t, u) - 1 /\ score'[u] = 0
  ELSE priority'[u] = Reset(t, u) /\ score'[u] = score[u] + 1

LEMMA AgingSwitch ==
  ASSUME PrioState, base \in [Tasks -> Levels], score \in [Tasks -> Nat],
         NEW l \in Levels, NEW t \in Tasks, AgingChoose(l, t)
  PROVE  /\ PrioState' /\ score' \in [Tasks -> Nat]
         /\ PrioHeld' = PrioHeld /\ t \in PrioHeld
         /\ \A u \in Tasks : AgedBySwitch(t, u)
         /\ Advances(queues[0], queues'[0], t)
<1>1. PICK q, p : q = Push(Popped(l), base[t], t) /\ p = [priority EXCEPT ![t] = base[t]]
  OBVIOUS
<1>2. PICK r : r = [queues |-> q, priority |-> p, score |-> score]
  OBVIOUS
<1>3. PICK a, b : a = Aged(r, 1) /\ b = Aged(a, 2)
  OBVIOUS
<1>4. /\ PoppedFrom(l, t)
      /\ queues' = b.queues /\ priority' = b.priority /\ score' = b.score
  BY <1>1, <1>2, <1>3 DEF AgingChoose
<1>5. r.queues = q /\ r.priority = p /\ r.score = score
  BY <1>2
<1>6. /\ Sorted(q, p) /\ Filed(q) = PrioHeld /\ t \in PrioHeld
      /\ \A u \in Tasks : p[u] = Reset(t, u)
      /\ Advances(queues[0], q[0], t)
  BY <1>1, <1>4, ResetPriority
<1>7. 1 \in Levels \ {0} /\ 2 \in Levels \ {0} /\ Levels = {0, 1, 2}
  BY DEF Levels, MaximumPriority
<1>8. /\ Sorted(a.queues, a.priority) /\ a.score \in [Tasks -> Nat]
      /\ Filed(a.queues) = Filed(q)
      /\ \A m \in Levels \ {1, 1 - 1} : a.queues[m] = q[m]
      /\ BeginsWith(a.queues[1 - 1], q[1 - 1])
      /\ \A u \in Tasks : AgesTask(r, a, 1, u)
  <2>1. Sorted(r.queues, r.priority) /\ r.score \in [Tasks -> Nat]
    BY <1>5, <1>6
  <2>2. QED
    BY <1>3, <1>5, <1>7, <2>1, AgingPass
<1>9. /\ Sorted(b.queues, b.priority) /\ b.score \in [Tasks -> Nat]
      /\ Filed(b.queues) = Filed(a.queues)
      /\ \A m \in Levels \ {2, 2 - 1} : b.queues[m] = a.queues[m]
      /\ \A u \in Tasks : AgesTask(a, b, 2, u)
  BY <1>3, <1>7, <1>8, AgingPass
<1>10. PrioState' /\ score' \in [Tasks -> Nat]
  BY <1>4, <1>9, PrioIsSorted
<1>11. PrioHeld' = PrioHeld
  BY <1>4, <1>6, <1>8, <1>9, <1>10, PrioIsSorted
<1>12. BeginsWith(queues'[0], q[0])
  <2>1. a.queues[1 - 1] = a.queues[0] /\ q[1 - 1] = q[0] /\ 1 - 1 = 0
    OBVIOUS
  <2>2. 0 \in Levels \ {2, 2 - 1}
    BY <1>7
  <2>3. b.queues[0] = a.queues[0]
    BY <1>9, <2>2
  <2>4. QED
    BY <1>4, <1>8, <2>1, <2>3
<1>13. ASSUME NEW u \in Range(queues[0]) \ {t}
       PROVE  \E i \in 1..Len(queues'[0]) :
                /\ queues'[0][i] = u
                /\ i + 1 \in 1..Len(queues[0]) /\ queues[0][i + 1] = u
  <2>1. PICK i \in 1..Len(q[0]) :
          /\ q[0][i] = u
          /\ i + 1 \in 1..Len(queues[0]) /\ queues[0][i + 1] = u
    BY <1>6 DEF Advances
  <2>2. q[0] \in Seq(Tasks) /\ queues'[0] \in Seq(Tasks)
    BY <1>6, <1>7, <1>10 DEF Sorted, PrioState
  <2>3. Len(q[0]) \in Nat /\ Len(queues'[0]) \in Nat
    BY <2>2, LenProperties
  <2>4. i \in 1..Len(queues'[0]) /\ queues'[0][i] = u
    BY <1>12, <2>1, <2>3 DEF BeginsWith
  <2>5. QED
    BY <2>1, <2>4
<1>14. ASSUME NEW u \in Tasks PROVE AgedBySwitch(t, u)
  <2>1. p[u] = Reset(t, u) /\ p[u] \in Levels /\ score[u] \in Nat
    BY <1>6 DEF Sorted
  <2>2. AgesTask(r, a, 1, u) /\ AgesTask(a, b, 2, u)
    BY <1>8, <1>9
  <2>3. /\ \A m \in Levels : u \in Range(q[m]) => p[u] = m
        /\ u \in PrioHeld <=> \E m \in Levels : u \in Range(q[m])
    BY <1>6 DEF Sorted, Filed
  <2>4. /\ \A m \in Levels : u \in Range(a.queues[m]) => a.priority[u] = m
        /\ u \in PrioHeld <=> \E m \in Levels : u \in Range(a.queues[m])
    BY <1>6, <1>8 DEF Sorted, Filed
  <2>5. MovesUp(r, u) <=> score[u] + 1 >= threshold[u]
    BY <1>5 DEF MovesUp
  <2>6. CASE u \notin PrioHeld \/ p[u] = 0
    <3>1. u \notin Range(q[1])
      BY <1>7, <2>3, <2>6
    <3>2. a.priority[u] = p[u] /\ a.score[u] = score[u]
      BY <1>5, <2>2, <3>1 DEF AgesTask
    <3>3. u \notin Range(a.queues[2])
      BY <1>7, <2>4, <2>6, <3>2
    <3>4. b.priority[u] = p[u] /\ b.score[u] = score[u]
      BY <2>2, <3>2, <3>3 DEF AgesTask
    <3>5. QED
      BY <1>4, <2>1, <2>6, <3>4 DEF AgedBySwitch
  <2>7. CASE u \in PrioHeld /\ p[u] = 1
    <3>1. u \in Range(q[1])
      BY <1>7, <2>3, <2>7
    <3>2. IF MovesUp(r, u) THEN a.priority[u] = 0 /\ a.score[u] = 0
          ELSE a.priority[u] = 1 /\ a.score[u] = score[u] + 1
      BY <1>5, <2>2, <3>1 DEF AgesTask
    <3>3. u \notin Range(a.queues[2])
      BY <1>7, <2>4, <3>2
    <3>4. b.priority[u] = a.priority[u] /\ b.score[u] = a.score[u]
      BY <2>2, <3>3 DEF AgesTask
    <3>5. QED
      BY <1>4, <2>1, <2>5, <2>7, <3>2, <3>4 DEF AgedBySwitch
  <2>8. CASE u \in PrioHeld /\ p[u] = 2
    <3>1. u \notin Range(q[1])
      BY <1>7, <2>3, <2>8
    <3>2. a.priority[u] = 2 /\ a.score[u] = score[u]
      BY <1>5, <2>2, <2>8, <3>1 DEF AgesTask
    <3>3. u \in Range(a.queues[2])
      BY <1>7, <2>4, <2>8, <3>2
    <3>4. MovesUp(a, u) <=> MovesUp(r, u)
      BY <1>5, <3>2 DEF MovesUp
    <3>5. IF MovesUp(r, u) THEN b.priority[u] = 1 /\ b.score[u] = 0
          ELSE b.priority[u] = 2 /\ b.score[u] = score[u] + 1
      BY <2>2, <3>2, <3>3, <3>4 DEF AgesTask
    <3>6. QED
      BY <1>4, <2>1, <2>5, <2>8, <3>5 DEF AgedBySwitch
  <2>9. QED
    BY <1>7, <2>1, <2>6, <2>7, <2>8
<1>15. Advances(queues[0], queues'[0], t)
  BY <1>13 DEF Advances
<1>16. QED
  BY <1>6, <1>10, <1>11, <1>14, <1>15

-----------------------------------------------------------------------------
(* The steps of the two priority schedulers                                *)

PrioTypes ==
  /\ base \in [Tasks -> Levels]
  /\ threshold \in [Tasks -> Nat]
  /\ score \in [Tasks -> Nat]

LEMMA PrioInduction ==
  ASSUME SleepInv, TasksInv, PrioState, PrioTypes, kind \in Priority,
         kind' = kind, PrioNext
  PROVE  QueueStep /\ PrioState' /\ PrioTypes'
<1> DEFINE Moves == QueueStep /\ PrioState'
<1>1. LoopTypeOK /\ Custody /\ Held = PrioHeld /\ Held' = PrioHeld'
  BY DEF SleepInv, TasksInv, Held, Priority
<1>2. ASSUME NEW t \in Tasks, LoopBootAdd(t), PrioAdd(t) PROVE Moves
  <2>1. t \notin allocated
    BY <1>1, <1>2, NewTaskFrame DEF LoopTypeOK, LoopBootAdd, BootAddTask
  <2>2. PrioState' /\ PrioHeld' = PrioHeld \cup {t}
    BY <1>1, <1>2, <2>1, PrioAddition
  <2>3. QED
    BY <1>1, <1>2, <2>2 DEF QueueStep
<1>3. ASSUME NEW t \in Tasks, NEW u \in Tasks, LoopThreadAdd(t, u), PrioAdd(u)
      PROVE  Moves
  <2>1. u \notin allocated
    BY <1>1, <1>3, NewTaskFrame DEF LoopTypeOK, LoopThreadAdd, TaskAddTask
  <2>2. PrioState' /\ PrioHeld' = PrioHeld \cup {u}
    BY <1>1, <1>3, <2>1, PrioAddition
  <2>3. QED
    BY <1>1, <1>3, <2>2 DEF QueueStep
<1>4. ASSUME NEW t \in Tasks, PrioWake(t) PROVE Moves
  <2>1. /\ Wake(t) /\ queues' = Push(queues, priority[t], t)
        /\ UNCHANGED priority
    BY <1>4 DEF PrioWake
  <2>2. t \notin PrioHeld
    BY <1>1, <2>1 DEF Custody, Wake, Due
  <2>3. PICK l \in Levels : l = priority[t]
    BY DEF PrioState
  <2>4. PrioState' /\ PrioHeld' = PrioHeld \cup {t}
    BY <2>1, <2>2, <2>3, PrioEnters DEF PrioState
  <2>5. QED
    BY <1>1, <2>1, <2>4 DEF QueueStep
<1>5. ASSUME NEW l \in Levels, NEW t \in Tasks, FixedChoose(l, t) PROVE Moves
  <2>1. /\ Choose(t) /\ PoppedFrom(l, t)
        /\ queues' = Push(Popped(l), l, t) /\ UNCHANGED priority
    BY <1>5 DEF FixedChoose
  <2>2. PrioState' /\ t \in PrioHeld /\ PrioHeld' = PrioHeld
    BY <2>1, PrioRotates
  <2>3. QED
    BY <1>1, <2>1, <2>2 DEF QueueStep
<1>6. ASSUME NEW l \in Levels, NEW t \in Tasks, AgingChoose(l, t) PROVE Moves
  <2>1. Choose(t)
    BY <1>6 DEF AgingChoose
  <2>2. PrioState' /\ t \in PrioHeld /\ PrioHeld' = PrioHeld
    BY <1>6, AgingSwitch DEF PrioTypes
  <2>3. QED
    BY <1>1, <2>1, <2>2 DEF QueueStep
<1>7. ASSUME NEW l \in Levels, NEW t \in Tasks, PrioLeave(l, t) PROVE Moves
  <2>1. /\ PutAside(t) \/ Retire(t)
        /\ PoppedFrom(l, t) /\ queues' = Popped(l) /\ UNCHANGED priority
    BY <1>7 DEF PrioLeave
  <2>2. PrioState' /\ t \in PrioHeld /\ PrioHeld' = PrioHeld \ {t}
    BY <2>1, PrioLeaves
  <2>3. QED
    BY <1>1, <2>1, <2>2 DEF QueueStep
<1>8. ASSUME PrioIdle PROVE Moves
  <2>1. /\ Return(Idle) /\ \A l \in Levels : queues[l] = << >>
        /\ UNCHANGED <<queues, priority>>
    BY <1>8 DEF PrioIdle, prioVars
  <2>2. PrioHeld = {}
    BY <2>1 DEF PrioHeld, InQueue, Contains
  <2>3. PrioHeld' = PrioHeld /\ PrioState'
    BY <2>1 DEF PrioHeld, InQueue, Contains, PrioState
  <2>4. Return(Idle) /\ Held = {} /\ Held' = Held
    BY <1>1, <2>1, <2>2, <2>3
  <2>5. QED
    BY <2>3, <2>4 DEF QueueStep
<1>9. ASSUME LoopSysTick \/ LoopLaunch \/ LoopThreads \/ LoopEnter \/ AllAwake
               \/ Reap \/ LoopReturn,
             UNCHANGED <<queues, priority>>
      PROVE  Moves
  <2>1. PrioHeld' = PrioHeld /\ PrioState'
    BY <1>9 DEF PrioHeld, InQueue, Contains, PrioState
  <2>2. LoopSysTick => Counts
    BY <1>1, QuantaAssumption DEF LoopSysTick, Counts, LoopTypeOK, CoreTypeOK
  <2>3. QED
    BY <1>1, <1>9, <2>1, <2>2 DEF QueueStep, LoopThreads
<1>10. QueueStep /\ PrioState'
  BY <1>2, <1>3, <1>4, <1>5, <1>6, <1>7, <1>8, <1>9 DEF PrioNext, prioVars
<1>11. ASSUME NEW t \in Tasks, PrioAdd(t) PROVE PrioTypes'
  <2>1. PICK p \in Priorities, h \in Thresholds :
          /\ base' = [base EXCEPT ![t] = p]
          /\ threshold' = [threshold EXCEPT ![t] = h]
          /\ score' = [score EXCEPT ![t] = 0]
    BY <1>11 DEF PrioAdd
  <2>2. p \in Levels /\ h \in Nat
    BY PrioritiesAssumption, ThresholdsAssumption
  <2>3. QED
    BY <2>1, <2>2 DEF PrioTypes
<1>12. ASSUME UNCHANGED <<base, threshold, score>> PROVE PrioTypes'
  BY <1>12 DEF PrioTypes
<1>13. ASSUME NEW l \in Levels, NEW t \in Tasks, AgingChoose(l, t)
       PROVE  PrioTypes'
  <2>1. score' \in [Tasks -> Nat]
    BY <1>13, AgingSwitch DEF PrioTypes
  <2>2. QED
    BY <1>13, <2>1 DEF PrioTypes, AgingChoose, taskData
<1>14. PrioTypes'
  BY <1>11, <1>12, <1>13
  DEF PrioNext, prioVars, taskData, PrioWake, FixedChoose, PrioLeave, PrioIdle
<1>15. QED
  BY <1>10, <1>14

-----------------------------------------------------------------------------
(* priority_aging: how often a task can be passed over                     *)

\* The switches task t may have waited for when it leaves its queue.
Climbed(t) == (base[t] - priority[t]) * Patience(t) + score[t]

\* ... and all those until it runs, if it is at place 0 of the first queue.
Limit(t) == base[t] * Patience(t) + MaximumTasks

\* A task has been passed over only since it last ran, while it climbed or
\* while those before it in the first queue had their turn.
AgingInv ==
  /\ \A t \in Tasks : priority[t] <= base[t] /\ score[t] < Patience(t)
  /\ \A t \in Tasks \ PrioHeld : overtaken[t] = 0
  /\ \A t \in Tasks : priority[t] # 0 => overtaken[t] <= Climbed(t)
  /\ \A i \in 1..Len(queues[0]) :
       overtaken[queues[0][i]] + i <= Limit(queues[0][i])

OvertakenState ==
  /\ overtaken \in [Tasks -> Nat]
  /\ kind = "priority_aging" => AgingInv
  /\ kind # "priority_aging" => \A t \in Tasks : overtaken[t] = 0

\* Aging multiplies by a difference of priorities, of which there are three.
LEMMA Steps ==
  ASSUME NEW b \in Levels, NEW p \in Levels, p <= b, NEW n \in Nat
  PROVE  /\ b * n \in Nat /\ (b - p) * n \in Nat
         /\ p # 0 => (b - (p - 1)) * n = (b - p) * n + n
         /\ p = 1 => (b - p) * n + n = b * n
         /\ p # 0 => (b - p) * n + n <= b * n
<1>1. b \in {0, 1, 2} /\ p \in {0, 1, 2}
  BY DEF Levels, MaximumPriority
<1>2. 0 * n = 0 /\ 1 * n = n /\ 2 * n = n + n
  OBVIOUS
<1>3. CASE b = 0
  BY <1>1, <1>2, <1>3
<1>4. CASE b = 1
  BY <1>1, <1>2, <1>4
<1>5. CASE b = 2
  BY <1>1, <1>2, <1>5
<1>6. QED
  BY <1>1, <1>3, <1>4, <1>5

LEMMA FirstQueue == 0 \in Levels
BY DEF Levels, MaximumPriority

\* Who is in no queue cannot run.
LEMMA OnlyHeldRun ==
  ASSUME TasksInv', kind' = "priority_aging",
         NEW t \in Tasks, t \notin PrioHeld'
  PROVE  state'[t] \notin Runnable
<1>1. Held' = PrioHeld' /\ Custody' /\ ThreadState' /\ WaitingState' /\ ModeState'
  BY DEF TasksInv, ServedState, Serves, Held, Priority
<1>2. CASE t \notin allocated'
  BY <1>1, <1>2 DEF ThreadState
<1>3. CASE t \in waiting'
  BY <1>1, <1>3 DEF WaitingState, Runnable
<1>4. CASE t = hand' /\ t # NoTask
  BY <1>1, <1>4 DEF ModeState, Runnable
<1>5. QED
  BY <1>1, <1>2, <1>3, <1>4 DEF Custody

Switch == mode = "select" /\ mode' = "restore"

LEMMA NotSwitched ==
  ASSUME overtaken \in [Tasks -> Nat], CountOvertaken, ~Switch
  PROVE  /\ overtaken' \in [Tasks -> Nat]
         /\ \A t \in Tasks : overtaken'[t] \in {0, overtaken[t]}
BY DEF CountOvertaken, Switch

LEMMA NotHeld ==
  ASSUME TasksInv', kind = "priority_aging", kind' = kind, CountOvertaken
  PROVE  \A t \in Tasks : t \notin PrioHeld' => overtaken'[t] = 0
<1>1. ASSUME NEW t \in Tasks, t \notin PrioHeld' PROVE overtaken'[t] = 0
  <2>1. state'[t] \notin Runnable
    BY <1>1, OnlyHeldRun
  <2>2. QED
    BY <2>1 DEF CountOvertaken
<1>2. QED
  BY <1>1

\* No task that was queued is further back in the first queue than it was.
NoneFallsBack ==
  \A i \in 1..Len(queues'[0]) :
    queues'[0][i] \in PrioHeld =>
      \E j \in 1..Len(queues[0]) : i <= j /\ queues[0][j] = queues'[0][i]

\* Steps that are no switch, and leave the data of queued tasks alone.
LEMMA AgingFrame ==
  ASSUME PrioState, PrioState', PrioTypes, PrioTypes', AgingInv,
         overtaken \in [Tasks -> Nat], overtaken' \in [Tasks -> Nat],
         \A u \in Tasks : overtaken'[u] \in {0, overtaken[u]},
         \A u \in Tasks : u \notin PrioHeld' => overtaken'[u] = 0,
         \A u \in PrioHeld :
           UNCHANGED <<base[u], threshold[u], priority[u], score[u]>>,
         \A u \in Tasks : priority'[u] <= base'[u] /\ score'[u] < Patience(u)',
         NoneFallsBack
  PROVE  AgingInv'
<1> USE DEF PrioTypes
<1>0. /\ queues[0] \in Seq(Tasks)
      /\ queues'[0] \in Seq(Tasks) /\ IsInjective(queues'[0])
      /\ priority \in [Tasks -> Levels] /\ priority' \in [Tasks -> Levels]
  BY FirstQueue DEF PrioState
<1>1. \A u \in PrioHeld : Patience(u)' = Patience(u)
  BY DEF Patience
<1>2. \A u \in Tasks : Patience(u) \in Nat /\ Patience(u)' \in Nat
  BY DEF Patience
<1>3. \A u \in Tasks : overtaken'[u] # 0 => u \in PrioHeld /\ overtaken'[u] = overtaken[u]
  BY DEF AgingInv
<1>4. ASSUME NEW u \in Tasks
      PROVE  /\ base'[u] * Patience(u)' \in Nat
             /\ (base'[u] - priority'[u]) * Patience(u)' \in Nat
  BY <1>0, <1>2, Steps
<1>5. ASSUME NEW u \in Tasks, priority'[u] # 0
      PROVE  overtaken'[u] <= Climbed(u)'
  <2>1. Climbed(u)' \in Nat
    BY <1>4 DEF Climbed
  <2>2. CASE overtaken'[u] = 0
    BY <2>1, <2>2
  <2>3. CASE overtaken'[u] # 0
    <3>1. u \in PrioHeld /\ overtaken'[u] = overtaken[u]
      BY <1>3, <2>3
    <3>2. Climbed(u)' = Climbed(u) /\ priority'[u] = priority[u]
      BY <1>1, <3>1 DEF Climbed
    <3>3. QED
      BY <1>5, <3>1, <3>2 DEF AgingInv
  <2>4. QED
    BY <2>2, <2>3
<1>6. ASSUME NEW i \in 1..Len(queues'[0])
      PROVE  (overtaken[queues[0][i]] + i <= Limit(queues[0][i]))'
  <2>1. PICK u \in Tasks : u = queues'[0][i]
    BY <1>0, RangeMembers
  <2>2. /\ Limit(u)' \in Nat /\ MaximumTasks <= Limit(u)'
        /\ i \in Nat /\ i <= MaximumTasks /\ MaximumTasks \in Nat
    <3>1. Len(queues'[0]) <= MaximumTasks /\ Len(queues'[0]) \in Nat
      BY <1>0, QueueFits
    <3>2. PICK c \in Nat : c = base'[u] * Patience(u)'
      BY <1>4
    <3>3. Limit(u)' = c + MaximumTasks
      BY <3>2 DEF Limit
    <3>4. QED
      BY <3>1, <3>3, MaximumTasksAssumption
  <2>3. CASE overtaken'[u] = 0
    <3>1. overtaken'[u] + i <= Limit(u)'
      BY <2>2, <2>3
    <3>2. QED
      BY <2>1, <3>1
  <2>4. CASE overtaken'[u] # 0
    <3>1. u \in PrioHeld /\ overtaken'[u] = overtaken[u]
      BY <1>3, <2>4
    <3>2. PICK j \in 1..Len(queues[0]) : i <= j /\ queues[0][j] = u
      BY <2>1, <3>1 DEF NoneFallsBack
    <3>3. overtaken[u] + j <= Limit(u)
      BY <3>2 DEF AgingInv
    <3>4. Limit(u)' = Limit(u)
      BY <1>1, <3>1 DEF Limit
    <3>5. overtaken[u] \in Nat /\ j \in Nat
      BY <1>0, LenProperties
    <3>6. overtaken'[u] + i <= Limit(u)'
      BY <2>2, <3>1, <3>2, <3>3, <3>4, <3>5
    <3>7. QED
      BY <2>1, <3>6
  <2>5. QED
    BY <2>3, <2>4
<1>7. QED
  BY <1>5, <1>6 DEF AgingInv

\* What a switch to t does to the bounds of another task.
LEMMA AgingClimbs ==
  ASSUME PrioState, PrioState', PrioTypes, PrioTypes', AgingInv,
         UNCHANGED <<base, threshold>>,
         NEW t \in Tasks, NEW u \in Tasks \ {t}, AgedBySwitch(t, u),
         u \in PrioHeld, priority[u] # 0, overtaken \in [Tasks -> Nat]
  PROVE  /\ priority'[u] # 0 => overtaken[u] + 1 <= Climbed(u)'
         /\ priority'[u] = 0 => overtaken[u] + 1 <= base[u] * Patience(u)
<1>1. PICK n \in Nat : n = Patience(u)
  BY DEF Patience, PrioTypes
<1>2. PICK b \in Levels, p \in Levels : b = base[u] /\ p = priority[u]
  BY DEF PrioTypes, PrioState
<1>3. PICK s \in Nat : s = score[u]
  BY DEF PrioTypes
<1>4. /\ Patience(u)' = n /\ base'[u] = b
      /\ p <= b /\ s + 1 <= n /\ overtaken[u] <= (b - p) * n + s
  BY <1>1, <1>2, <1>3 DEF AgingInv, Climbed, Patience
<1>5. PICK c \in Nat : c = (b - p) * n
  BY <1>1, <1>2, <1>4, Steps
<1>6. \/ priority'[u] = p - 1 /\ score'[u] = 0
      \/ priority'[u] = p /\ score'[u] = s + 1
  BY <1>2, <1>3 DEF AgedBySwitch, Reset
<1>7. CASE priority'[u] = p /\ score'[u] = s + 1
  <2>1. Climbed(u)' = c + (s + 1)
    BY <1>4, <1>5, <1>7 DEF Climbed
  <2>2. QED
    BY <1>2, <1>4, <1>5, <1>7, <2>1
<1>8. CASE priority'[u] = p - 1 /\ score'[u] = 0
  <2>1. overtaken[u] + 1 <= c + n
    BY <1>4, <1>5
  <2>2. p - 1 # 0 => Climbed(u)' = c + n
    <3>1. (b - (p - 1)) * n = c + n
      BY <1>2, <1>4, <1>5, Steps
    <3>2. Climbed(u)' = (b - (p - 1)) * n + 0
      BY <1>4, <1>8 DEF Climbed
    <3>3. QED
      BY <3>1, <3>2
  <2>3. p = 1 => base[u] * Patience(u) = c + n
    BY <1>1, <1>2, <1>4, <1>5, Steps
  <2>4. p - 1 = 0 => p = 1
    BY DEF Levels, MaximumPriority
  <2>5. QED
    BY <1>8, <2>1, <2>2, <2>3, <2>4
<1>9. QED
  BY <1>6, <1>7, <1>8

LEMMA AgingSwitches ==
  ASSUME TasksInv', PrioState, PrioTypes, PrioTypes', AgingInv,
         overtaken \in [Tasks -> Nat], kind = "priority_aging", kind' = kind,
         NEW l \in Levels, NEW t \in Tasks, AgingChoose(l, t), CountOvertaken
  PROVE  AgingInv' /\ overtaken' \in [Tasks -> Nat]
<1>1. /\ PrioState' /\ PrioHeld' = PrioHeld /\ t \in PrioHeld
      /\ \A u \in Tasks : AgedBySwitch(t, u)
      /\ Advances(queues[0], queues'[0], t)
  BY AgingSwitch DEF PrioTypes
<1>2. UNCHANGED <<base, threshold>> /\ Switch /\ current' = t
  BY DEF AgingChoose, taskData, Choose, Return, Switch
<1>3. /\ overtaken' \in [Tasks -> Nat] /\ overtaken'[t] = 0
      /\ \A u \in Tasks : overtaken'[u] = 0 \/ overtaken'[u] = overtaken[u] + 1
  BY <1>2 DEF CountOvertaken, Switch
<1>4. \A u \in Tasks : u \notin PrioHeld' => overtaken'[u] = 0
  BY NotHeld
<1>5. /\ queues[0] \in Seq(Tasks) /\ queues'[0] \in Seq(Tasks)
      /\ IsInjective(queues'[0])
      /\ priority \in [Tasks -> Levels] /\ priority' \in [Tasks -> Levels]
      /\ base \in [Tasks -> Levels] /\ score \in [Tasks -> Nat]
      /\ threshold \in [Tasks -> Nat] /\ score' \in [Tasks -> Nat]
  BY <1>1, FirstQueue DEF PrioState, PrioTypes
<1>6. \A u \in Tasks : Patience(u) \in Nat /\ 0 < Patience(u) /\ Patience(u)' = Patience(u)
  BY <1>2, <1>5 DEF Patience
<1>7. ASSUME NEW u \in Tasks
      PROVE  priority'[u] <= base'[u] /\ score'[u] < Patience(u)'
  <2>1. /\ priority[u] <= base[u] /\ score[u] < Patience(u)
        /\ priority[u] \in 0..2 /\ base[u] \in 0..2 /\ score[u] \in Nat
    BY <1>5 DEF AgingInv, Levels, MaximumPriority
  <2>2. Reset(t, u) <= base[u] /\ Reset(t, u) \in 0..2
    BY <2>1 DEF Reset
  <2>3. priority'[u] <= base[u]
    BY <1>1, <2>1, <2>2 DEF AgedBySwitch
  <2>4. score'[u] < Patience(u)
    <3>1. score'[u] \in {score[u], 0} \/ (score'[u] = score[u] + 1 /\ ~(score[u] + 1 >= threshold[u]))
      BY <1>1 DEF AgedBySwitch
    <3>2. QED
      BY <1>5, <1>6, <2>1, <3>1 DEF Patience
  <2>5. QED
    BY <1>2, <1>6, <2>3, <2>4
<1>8. ASSUME NEW u \in Tasks
      PROVE  /\ base[u] * Patience(u) \in Nat
             /\ (base'[u] - priority'[u]) * Patience(u)' \in Nat
  BY <1>2, <1>5, <1>6, <1>7, Steps
<1>9. ASSUME NEW u \in Tasks, priority'[u] # 0
      PROVE  overtaken'[u] <= Climbed(u)'
  <2>1. Climbed(u)' \in Nat
    <3>1. PICK c \in Nat : c = (base'[u] - priority'[u]) * Patience(u)'
      BY <1>8
    <3>2. QED
      BY <1>5, <3>1 DEF Climbed
  <2>2. CASE overtaken'[u] = 0
    BY <2>1, <2>2
  <2>3. CASE overtaken'[u] # 0
    <3>1. u # t /\ overtaken'[u] = overtaken[u] + 1 /\ u \in PrioHeld
      BY <1>1, <1>3, <1>4, <2>3
    <3>2. priority[u] # 0
      BY <1>1, <1>9, <3>1 DEF AgedBySwitch, Reset
    <3>3. QED
      BY <1>1, <1>2, <1>9, <3>1, <3>2, AgingClimbs
  <2>4. QED
    BY <2>2, <2>3
<1>10. ASSUME NEW i \in 1..Len(queues'[0])
       PROVE  (overtaken[queues[0][i]] + i <= Limit(queues[0][i]))'
  <2>1. PICK u \in Tasks : u = queues'[0][i] /\ u \in Range(queues'[0])
    BY <1>5, RangeMembers
  <2>2. /\ Limit(u)' \in Nat /\ MaximumTasks <= Limit(u)'
        /\ i \in Nat /\ i <= MaximumTasks /\ MaximumTasks \in Nat
    <3>1. Len(queues'[0]) <= MaximumTasks /\ Len(queues'[0]) \in Nat
      BY <1>5, QueueFits
    <3>2. PICK c \in Nat : c = base[u] * Patience(u)
      BY <1>8
    <3>3. Limit(u)' = c + MaximumTasks
      BY <1>2, <1>6, <3>2 DEF Limit
    <3>4. QED
      BY <3>1, <3>3, MaximumTasksAssumption
  <2>3. Limit(u)' = base[u] * Patience(u) + MaximumTasks
    BY <1>2, <1>6 DEF Limit
  <2>4. CASE overtaken'[u] = 0
    <3>1. overtaken'[u] + i <= Limit(u)'
      BY <2>2, <2>4
    <3>2. QED
      BY <2>1, <3>1
  <2>5. CASE overtaken'[u] # 0
    <3>1. /\ u # t /\ overtaken'[u] = overtaken[u] + 1 /\ u \in PrioHeld
          /\ overtaken[u] \in Nat
      BY <1>1, <1>3, <1>4, <2>5
    <3>2. priority'[u] = 0
      BY <1>1, <2>1, FirstQueue DEF PrioState
    <3>3. CASE priority[u] = 0
      <4>1. u \in Range(queues[0])
        BY <3>1, <3>3, HeldByPrio DEF PrioState
      <4>2. PICK k \in 1..Len(queues'[0]) :
              /\ queues'[0][k] = u
              /\ k + 1 \in 1..Len(queues[0]) /\ queues[0][k + 1] = u
        BY <1>1, <3>1, <4>1 DEF Advances
      <4>3. k = i
        BY <1>5, <2>1, <4>2, RangeMembers DEF IsInjective
      <4>4. overtaken[u] + (i + 1) <= Limit(u)
        BY <4>2, <4>3 DEF AgingInv
      <4>5. Limit(u) = Limit(u)'
        BY <2>3 DEF Limit
      <4>6. overtaken'[u] + i <= Limit(u)'
        BY <2>2, <3>1, <4>4, <4>5
      <4>7. QED
        BY <2>1, <4>6
    <3>4. CASE priority[u] # 0
      <4>1. overtaken[u] + 1 <= base[u] * Patience(u)
        BY <1>1, <1>2, <3>1, <3>2, <3>4, AgingClimbs
      <4>2. PICK c \in Nat : c = base[u] * Patience(u)
        BY <1>8
      <4>3. Limit(u)' = c + MaximumTasks /\ overtaken[u] + 1 <= c
        BY <2>3, <4>1, <4>2
      <4>4. overtaken'[u] + i <= Limit(u)'
        BY <2>2, <3>1, <4>3
      <4>5. QED
        BY <2>1, <4>4
    <3>5. QED
      BY <3>3, <3>4
  <2>6. QED
    BY <2>4, <2>5
<1>11. QED
  BY <1>3, <1>4, <1>7, <1>9, <1>10 DEF AgingInv

LEMMA AgingInduction ==
  ASSUME SleepInv, TasksInv, TasksInv', PrioState, PrioState', PrioTypes,
         PrioTypes', AgingInv, overtaken \in [Tasks -> Nat],
         kind = "priority_aging", kind' = kind, PrioNext, CountOvertaken
  PROVE  AgingInv' /\ overtaken' \in [Tasks -> Nat]
<1> DEFINE Kept == AgingInv' /\ overtaken' \in [Tasks -> Nat]
<1>1. LoopTypeOK /\ Custody /\ Held = PrioHeld
  BY DEF SleepInv, TasksInv, Held, Priority
<1>2. queues[0] \in Seq(Tasks) /\ IsInjective(queues[0]) /\ Len(queues[0]) \in Nat
  BY FirstQueue, LenProperties DEF PrioState
<1>3. ASSUME ~Switch,
             \A u \in PrioHeld :
               UNCHANGED <<base[u], threshold[u], priority[u], score[u]>>,
             \A u \in Tasks :
               priority'[u] <= base'[u] /\ score'[u] < Patience(u)',
             NoneFallsBack
      PROVE  Kept
  <2>1. /\ overtaken' \in [Tasks -> Nat]
        /\ \A u \in Tasks : overtaken'[u] \in {0, overtaken[u]}
    BY <1>3, NotSwitched
  <2>2. \A u \in Tasks : u \notin PrioHeld' => overtaken'[u] = 0
    BY NotHeld
  <2>3. QED
    BY <1>3, <2>1, <2>2, AgingFrame
<1>4. ASSUME ~Switch, UNCHANGED <<priority, score, taskData>>, NoneFallsBack
      PROVE  Kept
  <2>1. UNCHANGED <<priority, score, base, threshold>>
    BY <1>4 DEF taskData
  <2>2. \A u \in Tasks : priority'[u] <= base'[u] /\ score'[u] < Patience(u)'
    BY <2>1 DEF AgingInv, Patience
  <2>3. QED
    BY <1>3, <1>4, <2>1, <2>2
\* A task is added at the end of a queue.
<1>5. ASSUME NEW t \in Tasks, t \notin PrioHeld, NEW m \in Levels,
             queues' = Push(queues, m, t)
      PROVE  NoneFallsBack
  <2>1. CASE m # 0
    <3>1. queues'[0] = queues[0]
      BY <1>5, <2>1, FirstQueue DEF Push, PrioState
    <3>2. QED
      BY <1>2, <3>1 DEF NoneFallsBack
  <2>2. CASE m = 0
    <3>1. PICK q \in Seq(Tasks) : q = queues[0]
      BY <1>2
    <3>2. PICK r : r = Enqueue(q, t)
      OBVIOUS
    <3>3. queues'[0] = r
      BY <1>5, <2>2, <3>1, <3>2 DEF Push, PrioState
    <3>4. CASE r = q
      BY <1>2, <3>1, <3>3, <3>4 DEF NoneFallsBack
    <3>5. CASE r = Append(q, t)
      <4>1. /\ Len(r) = Len(q) + 1 /\ r[Len(q) + 1] = t
            /\ \A i \in 1..Len(q) : r[i] = q[i]
        BY <3>5, AppendProperties
      <4>2. \A i \in 1..Len(r) : r[i] \in PrioHeld => i \in 1..Len(q)
        BY <1>2, <1>5, <3>1, <4>1
      <4>3. QED
        BY <1>2, <3>1, <3>3, <4>1, <4>2 DEF NoneFallsBack
    <3>6. QED
      BY <3>2, <3>4, <3>5 DEF Enqueue
  <2>3. QED
    BY <2>1, <2>2
<1>6. ASSUME NEW t \in Tasks, t \notin PrioHeld, PrioAdd(t), ~Switch PROVE Kept
  <2>1. PICK p \in Priorities, h \in Thresholds :
          /\ priority' = [priority EXCEPT ![t] = p]
          /\ base' = [base EXCEPT ![t] = p]
          /\ threshold' = [threshold EXCEPT ![t] = h]
          /\ score' = [score EXCEPT ![t] = 0]
          /\ queues' = Push(queues, p, t)
    BY <1>6 DEF PrioAdd
  <2>2. p \in Levels /\ h \in Nat
    BY PrioritiesAssumption, ThresholdsAssumption
  <2>3. /\ \A u \in Tasks \ {t} :
             UNCHANGED <<base[u], threshold[u], priority[u], score[u]>>
        /\ base'[t] = p /\ priority'[t] = p /\ threshold'[t] = h /\ score'[t] = 0
    BY <2>1 DEF PrioState, PrioTypes
  <2>4. ASSUME NEW u \in Tasks
        PROVE  priority'[u] <= base'[u] /\ score'[u] < Patience(u)'
    <3>1. CASE u = t
      BY <2>2, <2>3, <3>1 DEF Levels, MaximumPriority, Patience
    <3>2. CASE u # t
      BY <2>3, <3>2 DEF AgingInv, Patience
    <3>3. QED
      BY <3>1, <3>2
  <2>5. NoneFallsBack
    BY <1>5, <1>6, <2>1, <2>2
  <2>6. PrioHeld \subseteq Tasks \ {t}
    BY <1>6 DEF PrioHeld
  <2>7. QED
    BY <1>3, <1>6, <2>3, <2>4, <2>5, <2>6
<1>7. ASSUME NEW t \in Tasks, LoopBootAdd(t), PrioAdd(t) PROVE Kept
  <2>1. t \notin PrioHeld
    BY <1>1, <1>7, NewTaskFrame DEF LoopTypeOK, LoopBootAdd, BootAddTask, Custody
  <2>2. ~Switch
    BY <1>7 DEF LoopBootAdd, BootAddTask, Switch
  <2>3. QED
    BY <1>6, <1>7, <2>1, <2>2
<1>8. ASSUME NEW t \in Tasks, NEW u \in Tasks, LoopThreadAdd(t, u), PrioAdd(u)
      PROVE  Kept
  <2>1. u \notin PrioHeld
    BY <1>1, <1>8, NewTaskFrame DEF LoopTypeOK, LoopThreadAdd, TaskAddTask, Custody
  <2>2. ~Switch
    BY <1>8 DEF LoopThreadAdd, TaskAddTask, Executes, Switch
  <2>3. QED
    BY <1>6, <1>8, <2>1, <2>2
<1>9. ASSUME NEW t \in Tasks, PrioWake(t) PROVE Kept
  <2>1. /\ Wake(t) /\ queues' = Push(queues, priority[t], t)
        /\ UNCHANGED <<priority, score, taskData>>
    BY <1>9 DEF PrioWake
  <2>2. t \notin PrioHeld /\ ~Switch
    BY <1>1, <2>1 DEF Custody, Wake, Due, Switch
  <2>3. PICK m \in Levels : m = priority[t]
    BY DEF PrioState
  <2>4. NoneFallsBack
    BY <1>5, <2>1, <2>2, <2>3
  <2>5. QED
    BY <1>4, <2>1, <2>2, <2>4
<1>10. ASSUME NEW l \in Levels, NEW t \in Tasks, PrioLeave(l, t) PROVE Kept
  <2>1. /\ PoppedFrom(l, t) /\ queues' = Popped(l)
        /\ UNCHANGED <<priority, score, taskData>>
    BY <1>10 DEF PrioLeave
  <2>2. ~Switch
    BY <1>10 DEF PrioLeave, PutAside, Retire, coreVars, Switch
  <2>3. NoneFallsBack
    <3>1. CASE l # 0
      BY <1>2, <2>1, <3>1, FirstQueue DEF NoneFallsBack, Popped, PrioState
    <3>2. CASE l = 0
      <4>1. PICK q \in Seq(Tasks) : q = queues[0] /\ q # << >> /\ IsInjective(q)
        BY <1>2, <2>1, <3>2 DEF PoppedFrom
      <4>2. queues'[0] = Tail(q)
        BY <2>1, <3>2, <4>1 DEF Popped, PrioState
      <4>3. /\ Len(q) \in Nat /\ Len(Tail(q)) = Len(q) - 1
            /\ \A i \in 1..Len(Tail(q)) : i + 1 \in 1..Len(q) /\ Tail(q)[i] = q[i + 1]
        BY <4>1, PopAtHead
      <4>4. \A i \in 1..Len(Tail(q)) : i <= i + 1
        BY <4>3
      <4>5. QED
        BY <4>1, <4>2, <4>3, <4>4 DEF NoneFallsBack
    <3>3. QED
      BY <3>1, <3>2
  <2>4. QED
    BY <1>4, <2>1, <2>2, <2>3
<1>11. ASSUME UNCHANGED queues PROVE NoneFallsBack
  BY <1>2, <1>11 DEF NoneFallsBack
\* The idle task is chosen when no task is queued.
<1>12. ASSUME PrioIdle PROVE Kept
  <2>1. UNCHANGED prioVars /\ PrioHeld = {} /\ queues[0] = << >>
    BY <1>12, FirstQueue DEF PrioIdle, PrioHeld, InQueue, Contains
  <2>2. UNCHANGED <<queues, priority, base, threshold, score>> /\ PrioHeld' = {}
    BY <2>1 DEF prioVars, taskData, PrioHeld, InQueue
  <2>3. \A u \in Tasks : overtaken'[u] = 0
    BY <2>2, NotHeld
  <2>4. overtaken' \in [Tasks -> Nat] /\ \A u \in Tasks : overtaken[u] = 0
    BY <2>1, <2>3 DEF AgingInv, CountOvertaken
  <2>5. overtaken' = overtaken
    BY <2>3, <2>4
  <2>6. AgingInv'
    BY <2>1, <2>2, <2>5 DEF AgingInv, Climbed, Limit, Patience, PrioHeld, InQueue
  <2>7. QED
    BY <2>4, <2>6
<1>13. ASSUME LoopSysTick \/ LoopLaunch \/ LoopThreads \/ LoopEnter \/ AllAwake
                \/ Reap \/ LoopReturn,
              UNCHANGED prioVars
       PROVE  Kept
  <2>1. ~Switch
    <3>1. ASSUME NEW t \in Tasks, LoopThread(t) PROVE UNCHANGED mode
      BY <1>1, <3>1, ThreadFrame DEF LoopTypeOK
    <3>2. QED
      BY <1>13, <3>1, PanicFrame
      DEF Switch, LoopSysTick, CountTick, LoopLaunch, LoopThreads, LoopEnter,
          PendSVEnter, AllAwake, Reap, LoopReturn, PendSVReturn
  <2>2. QED
    BY <1>4, <1>11, <1>13, <2>1 DEF prioVars
<1>14. QED
  BY <1>7, <1>8, <1>9, <1>10, <1>12, <1>13, AgingSwitches DEF PrioNext

LEMMA OvertakenInduction ==
  ASSUME SleepInv, TasksInv, TasksInv', kind' = kind, [Next]_vars,
         kind = "priority_aging" =>
           PrioState /\ PrioState' /\ PrioTypes /\ PrioTypes',
         OvertakenState
  PROVE  OvertakenState'
<1>1. CASE UNCHANGED vars
  BY <1>1
  DEF vars, prioVars, taskData, OvertakenState, AgingInv, Climbed, Limit,
      Patience, PrioHeld, InQueue
<1>2. CASE Next /\ kind # "priority_aging"
  BY <1>2 DEF Next, CountOvertaken, OvertakenState
<1>3. CASE Next /\ kind = "priority_aging"
  <2>1. PrioNext /\ CountOvertaken
    BY <1>3 DEF Next, Priority, Deadline, Lottery
  <2>2. AgingInv' /\ overtaken' \in [Tasks -> Nat]
    BY <1>3, <2>1, AgingInduction DEF OvertakenState
  <2>3. QED
    BY <1>3, <2>2 DEF OvertakenState
<1>4. QED
  BY <1>1, <1>2, <1>3

LEMMA OvertakenBound ==
  ASSUME OvertakenState, PrioTypes, kind = "priority_aging" => PrioState
  PROVE  NotOvertaken
<1> SUFFICES ASSUME NEW t \in Tasks
             PROVE  overtaken[t] <= base[t] * Patience(t) + MaximumTasks - 1
  BY DEF NotOvertaken
<1>1. /\ overtaken[t] \in Nat /\ score[t] \in Nat /\ base[t] \in Levels
      /\ Patience(t) \in Nat
  BY DEF OvertakenState, PrioTypes, Patience
<1>2. PICK c \in Nat : c = base[t] * Patience(t)
  BY <1>1, Steps DEF Levels, MaximumPriority
<1>3. MaximumTasks \in Nat /\ MaximumTasks >= 1
  BY MaximumTasksAssumption
<1>4. overtaken[t] <= c + MaximumTasks - 1
  <2>1. CASE overtaken[t] = 0
    BY <1>1, <1>3, <2>1
  <2>2. CASE overtaken[t] # 0
    <3>1. /\ AgingInv /\ PrioState /\ t \in PrioHeld /\ priority[t] \in Levels
          /\ priority[t] <= base[t] /\ score[t] < Patience(t)
      BY <2>2 DEF OvertakenState, AgingInv, PrioState
    <3>2. CASE priority[t] # 0
      <4>1. PICK d \in Nat : d = (base[t] - priority[t]) * Patience(t)
        BY <1>1, <3>1, Steps
      <4>2. d + Patience(t) <= c
        BY <1>1, <1>2, <3>1, <3>2, <4>1, Steps
      <4>3. overtaken[t] <= d + score[t]
        BY <3>1, <3>2, <4>1 DEF AgingInv, Climbed
      <4>4. QED
        BY <1>1, <1>3, <3>1, <4>2, <4>3
    <3>3. CASE priority[t] = 0
      <4>1. t \in Range(queues[0]) /\ queues[0] \in Seq(Tasks)
        BY <3>1, <3>3, HeldByPrio, FirstQueue DEF PrioState
      <4>2. PICK i \in 1..Len(queues[0]) : queues[0][i] = t
        BY <4>1, RangeMembers
      <4>3. overtaken[t] + i <= Limit(t)
        BY <3>1, <4>2 DEF AgingInv
      <4>4. Limit(t) = c + MaximumTasks
        BY <1>2 DEF Limit
      <4>5. i \in Nat /\ 1 <= i
        BY <4>1, LenProperties
      <4>6. QED
        BY <1>1, <1>3, <4>3, <4>4, <4>5
    <3>4. QED
      BY <3>2, <3>3
  <2>3. QED
    BY <2>1, <2>2
<1>5. QED
  BY <1>2, <1>4

-----------------------------------------------------------------------------
(* Sums over finite sets                                                   *)

\* Every set of numbers has a least one, so a statement about the subsets of
\* a finite set follows if the smaller subsets let each of them have it.
LEMMA LeastNumber ==
  ASSUME NEW T, T \subseteq Nat, T # {}
  PROVE  \E x \in T : \A y \in T : x <= y
<1> DEFINE R == OpToRel(<, Nat)
<1>1. IsWellFoundedOn(R, Nat)
  BY NatLessThanWellFounded
<1> HIDE DEF R
<1>2. PICK x \in T : \A y \in T : ~(<<y, x>> \in R)
  BY <1>1, WFMin
<1>3. ASSUME NEW y \in T PROVE x <= y
  <2>1. ~(<<y, x>> \in R)
    BY <1>2
  <2>2. ~(y < x)
    BY <2>1 DEF R, OpToRel
  <2>3. QED
    BY <2>2
<1>4. QED
  BY <1>3

LEMMA SubsetInduction ==
  ASSUME NEW D, IsFiniteSet(D), NEW P,
         \A s \in SUBSET D :
           (\A r \in SUBSET s : r # s => r \in P) => s \in P
  PROVE  \A s \in SUBSET D : s \in P
<1> DEFINE Out == {s \in SUBSET D : s \notin P}
           T == {Cardinality(s) : s \in Out}
<1> SUFFICES ASSUME Out # {} PROVE FALSE
  OBVIOUS
<1>1. \A s \in SUBSET D : IsFiniteSet(s) /\ Cardinality(s) \in Nat
  BY FS_Subset, FS_CardinalityType
<1>2. T \subseteq Nat /\ T # {}
  BY <1>1
<1>3. PICK n \in T : \A m \in T : n <= m
  BY <1>2, LeastNumber
<1>4. PICK s \in Out : Cardinality(s) = n
  OBVIOUS
<1>5. ASSUME NEW r \in SUBSET s, r # s PROVE r \in P
  <2>1. Cardinality(r) <= Cardinality(s) /\ Cardinality(r) # Cardinality(s)
    BY <1>1, <1>5, FS_Subset
  <2>2. Cardinality(r) \in Nat /\ n \in Nat
    BY <1>1, <1>2
  <2>3. ~(n <= Cardinality(r))
    BY <1>4, <2>1, <2>2
  <2>4. r \notin Out
    BY <1>3, <2>3
  <2>5. QED
    BY <2>4
<1>6. QED
  BY <1>5

\* g gives the sums of v over the subsets of S.
First(s) == CHOOSE x \in s : TRUE

IsSum(v, S, g) ==
  g = [s \in SUBSET S |->
         IF s = {} THEN 0 ELSE v[First(s)] + g[s \ {First(s)}]]

Total(v, S) == SumFunctionOnSet(v, S)

LEMMA SumStep ==
  ASSUME NEW v, NEW S, NEW g, IsSum(v, S, g), NEW s \in SUBSET S
  PROVE  /\ s = {} => g[s] = 0
         /\ s # {} => First(s) \in s /\ g[s] = v[First(s)] + g[s \ {First(s)}]
<1>1. s # {} => First(s) \in s
  BY DEF First
<1>2. g[s] = IF s = {} THEN 0 ELSE v[First(s)] + g[s \ {First(s)}]
  BY DEF IsSum
<1>3. QED
  BY <1>1, <1>2

\* Sums depend on the summands only.
LEMMA SumsAgree ==
  ASSUME NEW D, IsFiniteSet(D), NEW S, NEW R, D \subseteq S, D \subseteq R,
         NEW v, NEW w, \A x \in D : v[x] = w[x],
         NEW g, NEW h, IsSum(v, S, g), IsSum(w, R, h)
  PROVE  g[D] = h[D]
<1> DEFINE P == {s \in SUBSET D : g[s] = h[s]}
<1>1. ASSUME NEW s \in SUBSET D
      PROVE  /\ s = {} => g[s] = 0
             /\ s # {} => First(s) \in s /\ g[s] = v[First(s)] + g[s \ {First(s)}]
  <2>1. s \in SUBSET S
    OBVIOUS
  <2>2. QED
    BY ONLY <2>1, IsSum(v, S, g), SumStep
<1>2. ASSUME NEW s \in SUBSET D
      PROVE  /\ s = {} => h[s] = 0
             /\ s # {} => First(s) \in s /\ h[s] = w[First(s)] + h[s \ {First(s)}]
  <2>1. s \in SUBSET R
    OBVIOUS
  <2>2. QED
    BY ONLY <2>1, IsSum(w, R, h), SumStep
<1>3. ASSUME NEW s \in SUBSET D, \A r \in SUBSET s : r # s => r \in P
      PROVE  s \in P
  <2>1. CASE s = {}
    BY <2>1, <1>1, <1>2
  <2>2. CASE s # {}
    <3>1. /\ First(s) \in s
          /\ g[s] = v[First(s)] + g[s \ {First(s)}]
          /\ h[s] = w[First(s)] + h[s \ {First(s)}]
      BY <2>2, <1>1, <1>2
    <3>2. s \ {First(s)} \in P
      BY <1>3, <3>1
    <3>3. QED
      BY <3>1, <3>2
  <2>3. QED
    BY <2>1, <2>2
<1> HIDE DEF P
<1>4. \A s \in SUBSET D : s \in P
  BY <1>3, SubsetInduction
<1>5. QED
  BY <1>4 DEF P

LEMMA SumsExist ==
  ASSUME NEW D, IsFiniteSet(D), NEW v
  PROVE  \E g : IsSum(v, D, g)
<1> DEFINE P == {s \in SUBSET D : \E g : IsSum(v, s, g)}
<1>1. ASSUME NEW S \in SUBSET D, \A r \in SUBSET S : r # S => r \in P
      PROVE  S \in P
  <2> DEFINE H(s) == CHOOSE g : IsSum(v, s, g)
             p == First(S)
             k == [s \in SUBSET S |->
                     IF s = {} THEN 0
                     ELSE IF s = S THEN v[p] + H(S \ {p})[S \ {p}]
                     ELSE H(s)[s]]
  <2>1. \A s \in SUBSET S : s # S => IsSum(v, s, H(s))
    BY <1>1
  <2>2. IsFiniteSet(S)
    BY FS_Subset
  <2> HIDE DEF H
  <2>3. \A s \in SUBSET S : s # S => k[s] = H(s)[s]
    <3>1. IsSum(v, {}, H({})) /\ S # {} => H({})[{}] = 0
      BY SumStep
    <3>2. QED
      BY <2>1, <3>1
  <2>4. ASSUME NEW s \in SUBSET S, s # {}
        PROVE  k[s] = v[First(s)] + k[s \ {First(s)}]
    <3>1. First(s) \in s /\ IsFiniteSet(s)
      BY <2>2, <2>4, FS_Subset DEF First
    <3>2. PICK r : r = s \ {First(s)}
      OBVIOUS
    <3>3. r \in SUBSET S /\ r # S /\ r # s /\ r \subseteq s /\ IsFiniteSet(r)
      BY <3>1, <3>2, FS_Subset
    <3>4. k[r] = H(r)[r] /\ IsSum(v, r, H(r))
      BY <2>1, <2>3, <3>3
    <3>5. CASE s = S
      BY <2>4, <3>2, <3>4, <3>5
    <3>6. CASE s # S
      <4>1. k[s] = H(s)[s] /\ IsSum(v, s, H(s))
        BY <2>1, <2>3, <3>6
      <4>2. H(s)[s] = v[First(s)] + H(s)[r]
        BY <2>4, <3>2, <4>1, SumStep
      <4>3. H(s)[r] = H(r)[r]
        BY <3>3, <3>4, <4>1, SumsAgree
      <4>4. QED
        BY <3>2, <3>4, <4>1, <4>2, <4>3
    <3>7. QED
      BY <3>5, <3>6
  <2>5. k[{}] = 0
    OBVIOUS
  <2>6. PICK g : g = k
    OBVIOUS
  <2>7. g = [s \in SUBSET S |-> g[s]]
    BY <2>6
  <2>8. \A s \in SUBSET S : g[s] = IF s = {} THEN 0 ELSE v[First(s)] + g[s \ {First(s)}]
    BY <2>4, <2>5, <2>6
  <2>9. IsSum(v, S, g)
    BY <2>7, <2>8 DEF IsSum
  <2>10. QED
    BY <2>9
<1> HIDE DEF P
<1>2. D \in P
  BY <1>1, SubsetInduction
<1>3. QED
  BY <1>2 DEF P

LEMMA SumIsSum ==
  ASSUME NEW v, NEW S, IsFiniteSet(S)
  PROVE  \E g : IsSum(v, S, g) /\ Total(v, S) = g[S]
<1>1. \E g : IsSum(v, S, g)
  BY SumsExist
<1>2. QED
  BY <1>1
  DEF Total, SumFunctionOnSet, FoldFunctionOnSet, MapThenFoldSet, IsSum, First

LEMMA SumOfNone == \A v : Total(v, {}) = 0
<1> SUFFICES ASSUME NEW v PROVE Total(v, {}) = 0
  OBVIOUS
<1>1. PICK g : IsSum(v, {}, g) /\ Total(v, {}) = g[{}]
  BY SumIsSum, FS_EmptySet
<1>2. {} \in SUBSET {} /\ IsSum(v, {}, g)
  BY <1>1
<1>3. g[{}] = 0
  BY <1>2, SumStep
<1>4. QED
  BY <1>1, <1>3

LEMMA SumCongruence ==
  ASSUME NEW S, IsFiniteSet(S), NEW v, NEW w, \A x \in S : v[x] = w[x]
  PROVE  Total(v, S) = Total(w, S)
<1>1. PICK g, h : /\ IsSum(v, S, g) /\ Total(v, S) = g[S]
                  /\ IsSum(w, S, h) /\ Total(w, S) = h[S]
  BY SumIsSum
<1>2. g[S] = h[S]
  BY <1>1, SumsAgree
<1>3. QED
  BY <1>1, <1>2

\* Sums of numbers: one that the choice of First has no say in.
LEMMA SumFirst ==
  ASSUME NEW S, IsFiniteSet(S), S # {}, NEW v
  PROVE  First(S) \in S /\ Total(v, S) = v[First(S)] + Total(v, S \ {First(S)})
<1>1. PICK g : IsSum(v, S, g) /\ Total(v, S) = g[S]
  BY SumIsSum
<1>2. PICK r : r = S \ {First(S)}
  OBVIOUS
<1>3. IsFiniteSet(r) /\ r \subseteq S
  BY <1>2, FS_Subset
<1>4. PICK h : IsSum(v, r, h) /\ Total(v, r) = h[r]
  BY <1>3, SumIsSum
<1>5. g[r] = h[r]
  BY <1>1, <1>3, <1>4, SumsAgree
<1>6. PICK s \in SUBSET S : s = S
  OBVIOUS
<1>7. s # {} /\ IsSum(v, S, g)
  BY <1>1, <1>6
<1>8. First(s) \in s /\ g[s] = v[First(s)] + g[s \ {First(s)}]
  BY <1>7, SumStep
<1>9. QED
  BY <1>1, <1>2, <1>4, <1>5, <1>6, <1>8

LEMMA SumTakeOut ==
  ASSUME NEW D, IsFiniteSet(D), NEW v, \A x \in D : v[x] \in Int
  PROVE  /\ Total(v, D) \in Int
         /\ \A t \in D : Total(v, D) = v[t] + Total(v, D \ {t})
<1> DEFINE P == {s \in SUBSET D :
                   /\ Total(v, s) \in Int
                   /\ \A t \in s : Total(v, s) = v[t] + Total(v, s \ {t})}
<1>1. ASSUME NEW s \in SUBSET D, \A r \in SUBSET s : r # s => r \in P
      PROVE  s \in P
  <2>1. CASE s = {}
    BY <2>1, SumOfNone
  <2>2. CASE s # {}
    <3>1. PICK p \in s : Total(v, s) = v[p] + Total(v, s \ {p})
      BY <2>2, SumFirst, FS_Subset
    <3>2. Total(v, s \ {p}) \in Int /\ v[p] \in Int
      BY <1>1, <3>1
    <3>3. ASSUME NEW t \in s PROVE Total(v, s) = v[t] + Total(v, s \ {t})
      <4>1. CASE t = p
        BY <3>1, <4>1
      <4>2. CASE t # p
        <5>1. s \ {p} \in P /\ s \ {t} \in P
          BY <1>1
        <5>2. PICK q : q = (s \ {p}) \ {t} /\ q = (s \ {t}) \ {p}
          OBVIOUS
        <5>3. Total(v, s \ {p}) = v[t] + Total(v, q)
          BY <4>2, <5>1, <5>2
        <5>4. Total(v, s \ {t}) = v[p] + Total(v, q)
          BY <4>2, <5>1, <5>2
        <5>5. q # s
          BY <5>2
        <5>6. q \in P
          BY <1>1, <5>2, <5>5
        <5>7. Total(v, q) \in Int /\ v[t] \in Int
          BY <5>6
        <5>8. QED
          BY <3>1, <3>2, <5>3, <5>4, <5>7
      <4>3. QED
        BY <4>1, <4>2
    <3>4. QED
      BY <3>1, <3>2, <3>3
  <2>3. QED
    BY <2>1, <2>2
<1> HIDE DEF P
<1>2. D \in P
  BY <1>1, SubsetInduction
<1>3. QED
  BY <1>2 DEF P

\* What is added in E changes the sum over the part that it is added in.
LEMMA SumOfChanges ==
  ASSUME NEW E, IsFiniteSet(E), NEW D \in SUBSET E, NEW v, NEW d,
         \A x \in E : v[x] \in Int /\ d[x] \in Int,
         \A x \in E \ D : d[x] = 0,
         NEW w, \A x \in D : w[x] = v[x] + d[x]
  PROVE  Total(w, D) = Total(v, D) + Total(d, E)
<1> DEFINE P == {s \in SUBSET E :
                   Total(w, s \cap D) = Total(v, s \cap D) + Total(d, s)}
<1>1. ASSUME NEW s \in SUBSET E, \A r \in SUBSET s : r # s => r \in P
      PROVE  s \in P
  <2>1. CASE s = {}
    <3>1. s \cap D = {}
      BY <2>1
    <3>2. QED
      BY <2>1, <3>1, SumOfNone
  <2>2. CASE s # {}
    <3>1. PICK t \in s : TRUE
      BY <2>2
    <3>2. PICK r : r = s \ {t}
      OBVIOUS
    <3>3. /\ IsFiniteSet(s) /\ IsFiniteSet(r)
          /\ IsFiniteSet(s \cap D) /\ IsFiniteSet(r \cap D)
      BY <3>2, FS_Subset
    <3>4. r \in P
      BY <1>1, <3>1, <3>2
    <3>5. /\ \A x \in s : v[x] \in Int /\ d[x] \in Int
          /\ \A x \in s \cap D : w[x] \in Int /\ w[x] = v[x] + d[x]
      OBVIOUS
    <3>6. Total(d, s) = d[t] + Total(d, r) /\ Total(d, r) \in Int
      BY <3>1, <3>2, <3>3, <3>5, SumTakeOut
    <3>7. Total(v, r \cap D) \in Int /\ Total(w, r \cap D) \in Int
      BY <3>2, <3>3, <3>5, SumTakeOut
    <3>8. Total(w, r \cap D) = Total(v, r \cap D) + Total(d, r)
      BY <3>4
    <3>9. CASE t \notin D
      <4>1. s \cap D = r \cap D /\ d[t] = 0
        BY <3>2, <3>9
      <4>2. Total(d, s) = Total(d, r)
        BY <3>6, <4>1
      <4>3. QED
        BY <3>8, <4>1, <4>2, Zenon
    <3>10. CASE t \in D
      <4>1. (s \cap D) \ {t} = r \cap D /\ t \in s \cap D
        BY <3>1, <3>2, <3>10
      <4>2. Total(v, s \cap D) = v[t] + Total(v, r \cap D)
        BY <3>3, <3>5, <4>1, SumTakeOut
      <4>3. Total(w, s \cap D) = w[t] + Total(w, r \cap D)
        BY <3>3, <3>5, <4>1, SumTakeOut
      <4>4. w[t] = v[t] + d[t] /\ v[t] \in Int /\ d[t] \in Int
        BY <3>5, <4>1
      <4>5. Total(w, s \cap D) = Total(v, s \cap D) + Total(d, s)
        BY <3>6, <3>7, <3>8, <4>2, <4>3, <4>4
      <4>6. QED
        BY <4>5
    <3>11. QED
      BY <3>9, <3>10
  <2>3. QED
    BY <2>1, <2>2
<1> HIDE DEF P
<1>2. E \in P
  BY <1>1, SubsetInduction
<1>3. E \cap D = D
  OBVIOUS
<1>4. QED
  BY <1>2, <1>3 DEF P

-----------------------------------------------------------------------------
(* The lotteries: a task is in one slot, and the count of tasks is right   *)

LotteryState ==
  /\ slots \in [Slots -> Tasks \cup {NoTask}]
  /\ spot \in 1..MaximumTasks + 1
  /\ LotteryPlacement
  /\ count = Cardinality(LotteryHeld)
  /\ hand # NoTask => hand \in LotteryHeld

LEMMA LotteryFinite ==
  ASSUME LotteryState
  PROVE  /\ LotteryHeld \subseteq Tasks /\ IsFiniteSet(LotteryHeld)
         /\ count \in Nat /\ NoTask \notin LotteryHeld
         /\ \A t : t \in LotteryHeld <=> t # NoTask /\ \E i \in Slots : slots[i] = t
<1>1. \A t : t \in LotteryHeld <=> t # NoTask /\ \E i \in Slots : slots[i] = t
  BY DEF LotteryState, LotteryHeld, Range
<1>2. LotteryHeld \subseteq Tasks
  BY <1>1 DEF LotteryState
<1>3. IsFiniteSet(LotteryHeld)
  <2>1. IsFiniteSet(Tasks)
    BY FS_Interval, MaximumTasksAssumption DEF Tasks
  <2>2. QED
    BY <1>2, <2>1, FS_Subset
<1>4. count \in Nat
  BY <1>3, FS_CardinalityType DEF LotteryState
<1>5. QED
  BY <1>1, <1>2, <1>3, <1>4

LEMMA LotteryEnters ==
  ASSUME LotteryState, NEW t \in Tasks, t \notin LotteryHeld, NEW n,
         EnterSlot(t, n), UNCHANGED <<hand, spot>>
  PROVE  LotteryState' /\ LotteryHeld' = LotteryHeld \cup {t}
<1>1. PICK i \in Slots : slots[i] = NoTask /\ slots' = [slots EXCEPT ![i] = t]
  BY DEF EnterSlot, FirstEmpty
<1>2. t # NoTask
  BY DEF Tasks, NoTask
<1>3. /\ slots' \in [Slots -> Tasks \cup {NoTask}] /\ slots'[i] = t
      /\ \A j \in Slots \ {i} : slots'[j] = slots[j]
  BY <1>1 DEF LotteryState
<1>4. \A u : u \in LotteryHeld <=> u # NoTask /\ \E j \in Slots : slots[j] = u
  BY LotteryFinite
<1>5. LotteryPlacement'
  BY <1>2, <1>3, <1>4 DEF LotteryState, LotteryPlacement
<1>6. \A u : u \in LotteryHeld' <=> u # NoTask /\ \E j \in Slots : slots'[j] = u
  BY <1>3 DEF LotteryHeld, Range
<1>7. LotteryHeld' = LotteryHeld \cup {t}
  BY <1>1, <1>2, <1>3, <1>4, <1>6
<1>8. Cardinality(LotteryHeld \cup {t}) = Cardinality(LotteryHeld) + 1
  BY LotteryFinite, FS_AddElement
<1>9. count' = Cardinality(LotteryHeld')
  BY <1>7, <1>8 DEF EnterSlot, LotteryState
<1>10. QED
  BY <1>3, <1>5, <1>7, <1>9 DEF LotteryState

LEMMA LotteryLeaves ==
  ASSUME LotteryState, NEW t \in LotteryHeld, LeaveSlot(t), 
         hand' = NoTask, spot' \in 1..MaximumTasks + 1
  PROVE  LotteryState' /\ LotteryHeld' = LotteryHeld \ {t}
<1>1. slots' = [i \in Slots |-> IF slots[i] = t THEN NoTask ELSE slots[i]]
  BY DEF LeaveSlot
<1>2. /\ slots' \in [Slots -> Tasks \cup {NoTask}]
      /\ \A j \in Slots : slots'[j] = IF slots[j] = t THEN NoTask ELSE slots[j]
  BY <1>1 DEF LotteryState
<1>3. \A u : u \in LotteryHeld <=> u # NoTask /\ \E j \in Slots : slots[j] = u
  BY LotteryFinite
<1>4. LotteryPlacement'
  BY <1>2 DEF LotteryState, LotteryPlacement
<1>5. \A u : u \in LotteryHeld' <=> u # NoTask /\ \E j \in Slots : slots'[j] = u
  BY <1>2 DEF LotteryHeld, Range
<1>6. LotteryHeld' = LotteryHeld \ {t}
  BY <1>2, <1>3, <1>5
<1>7. Cardinality(LotteryHeld \ {t}) = Cardinality(LotteryHeld) - 1
  BY LotteryFinite, FS_RemoveElement
<1>8. count' = Cardinality(LotteryHeld')
  BY <1>6, <1>7 DEF LeaveSlot, LotteryState
<1>9. QED
  BY <1>2, <1>4, <1>6, <1>8 DEF LotteryState

LEMMA LotteryFrame ==
  ASSUME LotteryState, UNCHANGED <<slots, count>>,
         spot' \in 1..MaximumTasks + 1, hand' \in LotteryHeld \cup {NoTask}
  PROVE  LotteryState' /\ LotteryHeld' = LotteryHeld
BY DEF LotteryState, LotteryHeld, Range, LotteryPlacement

\* A task the walk meets is in its slot, and nobody is being freed.
LEMMA LotteryMeets ==
  ASSUME LotteryState, HandState, NEW t \in Tasks, At(t)
  PROVE  /\ t \in LotteryHeld /\ hand = NoTask
         /\ spot \in Slots /\ spot + 1 \in 1..MaximumTasks + 1
<1>1. mode = "select" /\ spot <= MaximumTasks /\ slots[spot] = t
  BY DEF At, Walking
<1>2. spot \in Slots /\ spot + 1 \in 1..MaximumTasks + 1
  BY <1>1, MaximumTasksAssumption DEF LotteryState, Slots
<1>3. t # NoTask
  BY DEF Tasks, NoTask
<1>4. QED
  BY <1>1, <1>2, <1>3, LotteryFinite DEF HandState

LEMMA LotteryInduction ==
  ASSUME SleepInv, TasksInv, LotteryState, kind \in Lottery,
         kind' = kind, LotteryNext
  PROVE  QueueStep /\ LotteryState'
<1> DEFINE Moves == QueueStep /\ LotteryState'
<1>1. /\ LoopTypeOK /\ Custody /\ HandState
      /\ Held = LotteryHeld \ {hand} /\ Held' = LotteryHeld' \ {hand'}
  BY DEF SleepInv, TasksInv, Held, Priority, Deadline, Lottery
<1>2. /\ LotteryHeld \subseteq allocated \cup {hand}
      /\ NoTask \notin LotteryHeld /\ NoTask \notin Tasks
      /\ LotteryHeld \subseteq Tasks
      /\ hand = NoTask \/ hand \in LotteryHeld
  BY <1>1, LotteryFinite DEF Custody, Tasks, NoTask, LotteryState
<1>3. LotteryHeld \subseteq allocated
  BY <1>1, <1>2 DEF Custody
<1>4. ASSUME NEW t \in Tasks, AllocTask(t), LotteryAdd(t), UNCHANGED hand,
             hand = NoTask
      PROVE  LotteryState' /\ Held' = Held \cup {t}
  <2>1. t \notin LotteryHeld
    BY <1>1, <1>3, <1>4, NewTaskFrame DEF LoopTypeOK
  <2>2. PICK n : EnterSlot(t, n)
    BY <1>4 DEF LotteryAdd
  <2>3. UNCHANGED spot
    BY <1>4 DEF LotteryAdd, walk
  <2>4. LotteryState' /\ LotteryHeld' = LotteryHeld \cup {t}
    BY <1>4, <2>1, <2>2, <2>3, LotteryEnters
  <2>5. QED
    BY <1>1, <1>2, <1>4, <2>4
<1>5. ASSUME NEW t \in Tasks, LoopBootAdd(t), LotteryAdd(t) PROVE Moves
  <2>1. AllocTask(t) /\ UNCHANGED hand /\ hand = NoTask
    BY <1>1, <1>5 DEF LoopBootAdd, BootAddTask, loopVars, HandState
  <2>2. QED
    BY <1>4, <1>5, <2>1 DEF QueueStep
<1>6. ASSUME NEW t \in Tasks, NEW u \in Tasks, LoopThreadAdd(t, u), LotteryAdd(u)
      PROVE  Moves
  <2>1. AllocTask(u) /\ UNCHANGED hand /\ hand = NoTask
    BY <1>1, <1>6
    DEF LoopThreadAdd, TaskAddTask, Executes, loopVars, HandState
  <2>2. QED
    BY <1>4, <1>6, <2>1 DEF QueueStep
<1>7. ASSUME NEW t \in Tasks, LotteryWake(t) PROVE Moves
  <2>1. /\ Wake(t) /\ EnterSlot(t, tickets[t]) /\ UNCHANGED <<hand, spot>>
        /\ hand = NoTask /\ t \in waiting
    BY <1>1, <1>7 DEF LotteryWake, Wake, Due, walk, HandState
  <2>2. t \notin LotteryHeld
    BY <1>1, <1>2, <2>1 DEF Custody
  <2>3. PICK n : n = tickets[t]
    OBVIOUS
  <2>4. LotteryState' /\ LotteryHeld' = LotteryHeld \cup {t}
    BY <2>1, <2>2, <2>3, LotteryEnters
  <2>5. Held' = Held \cup {t}
    BY <1>1, <1>2, <2>1, <2>4
  <2>6. QED
    BY <2>1, <2>4, <2>5 DEF QueueStep
<1>8. ASSUME NEW t \in Tasks, LotteryPutAside(t) PROVE Moves
  <2>1. /\ At(t) /\ PutAside(t) /\ LeaveSlot(t) /\ spot' = spot + 1
        /\ UNCHANGED hand
    BY <1>8 DEF LotteryPutAside, PutAside, OnWalk
  <2>2. t \in LotteryHeld /\ hand = NoTask /\ spot' \in 1..MaximumTasks + 1
    BY <1>1, <2>1, LotteryMeets
  <2>3. LotteryState' /\ LotteryHeld' = LotteryHeld \ {t}
    BY <2>1, <2>2, LotteryLeaves
  <2>4. t \in Held /\ Held' = Held \ {t}
    BY <1>1, <1>2, <2>1, <2>2, <2>3
  <2>5. QED
    BY <2>1, <2>3, <2>4 DEF QueueStep
<1>9. ASSUME NEW t \in Tasks, LotteryRetire(t) PROVE Moves
  <2>1. /\ At(t) /\ Retire(t) /\ spot' = spot + 1 /\ hand' = t
        /\ UNCHANGED <<slots, count>>
    BY <1>9 DEF LotteryRetire, Retire, OnWalk, ledger
  <2>2. t \in LotteryHeld /\ hand = NoTask /\ spot' \in 1..MaximumTasks + 1
    BY <1>1, <2>1, LotteryMeets
  <2>3. LotteryState' /\ LotteryHeld' = LotteryHeld
    BY <2>1, <2>2, LotteryFrame
  <2>4. t \in Held /\ Held' = Held \ {t}
    BY <1>1, <1>2, <2>1, <2>2, <2>3
  <2>5. QED
    BY <2>1, <2>3, <2>4 DEF QueueStep
<1>10. ASSUME NEW t \in Tasks, LotteryWins(t) \/ WeightedWins(t) PROVE Moves
  <2>1. /\ At(t) /\ Choose(t) /\ UNCHANGED <<slots, count, spot, hand>>
    BY <1>10
    DEF LotteryWins, WeightedWins, Wins, ledger, walk, Choose, Return, loopVars
  <2>2. t \in LotteryHeld /\ hand = NoTask
    BY <1>1, <2>1, LotteryMeets
  <2>3. LotteryState' /\ LotteryHeld' = LotteryHeld
    BY <2>1, <2>2, LotteryFrame DEF LotteryState
  <2>4. t \in Held /\ Held' = Held
    BY <1>1, <1>2, <2>1, <2>2, <2>3
  <2>5. QED
    BY <2>1, <2>3, <2>4 DEF QueueStep
<1>11. ASSUME LotteryReap PROVE Moves
  <2>1. /\ Reap /\ LeaveSlot(hand) /\ hand' = NoTask /\ hand # NoTask
        /\ UNCHANGED spot
    BY <1>1, <1>11 DEF LotteryReap, Reap, walk, HandState
  <2>2. PICK h \in LotteryHeld : h = hand
    BY <1>2, <2>1
  <2>3. LotteryState' /\ LotteryHeld' = LotteryHeld \ {h}
    BY <2>1, <2>2, LotteryLeaves DEF LotteryState
  <2>4. Held' = Held
    BY <1>1, <1>2, <2>1, <2>2, <2>3
  <2>5. QED
    BY <2>1, <2>3, <2>4 DEF QueueStep
<1>12. ASSUME UNCHANGED <<slots, count, hand>>, spot' \in 1..MaximumTasks + 1
       PROVE  LotteryState' /\ Held' = Held
  <2>1. LotteryState' /\ LotteryHeld' = LotteryHeld
    BY <1>2, <1>12, LotteryFrame
  <2>2. QED
    BY <1>1, <1>12, <2>1
<1>13. ASSUME LotteryBegin \/ Redraw \/ SkipEmpty \/ \E t \in Tasks : Loses(t)
       PROVE  Moves
  <2>1. 1 \in 1..MaximumTasks + 1
    BY MaximumTasksAssumption
  <2>2. ASSUME Walking PROVE spot + 1 \in 1..MaximumTasks + 1
    BY <2>2, MaximumTasksAssumption DEF Walking, LotteryState
  <2>3. spot' \in 1..MaximumTasks + 1
    BY <1>13, <2>1, <2>2
    DEF LotteryBegin, Redraw, Draw, SkipEmpty, Loses, At, OnWalk
  <2>4. UNCHANGED <<slots, count, hand>>
    BY <1>13
    DEF LotteryBegin, AllAwake, Redraw, SkipEmpty, Loses, ledger, loopVars
  <2>5. AllAwake \/ UNCHANGED <<coreVars, loopVars>>
    BY <1>13 DEF LotteryBegin, Redraw, SkipEmpty, Loses
  <2>6. QED
    BY <1>12, <2>3, <2>4, <2>5 DEF QueueStep
<1>14. ASSUME WeightedIdle PROVE Moves
  <2>1. /\ Return(Idle) /\ count = 0
        /\ UNCHANGED <<slots, count, hand, spot>>
    BY <1>14 DEF WeightedIdle, Return, loopVars, lotteryVars, ledger, walk
  <2>2. LotteryHeld = {}
    BY <2>1, LotteryFinite, FS_EmptySet DEF LotteryState
  <2>3. LotteryState' /\ Held' = Held
    BY <1>12, <2>1 DEF LotteryState
  <2>4. QED
    BY <1>1, <2>1, <2>2, <2>3 DEF QueueStep
<1>15. ASSUME kind = "lottery", LotteryIdle PROVE Moves
  <2>1. /\ Return(Idle) /\ ~Serves
        /\ UNCHANGED <<slots, count, hand, spot>>
    BY <1>15 DEF LotteryIdle, Return, loopVars, lotteryVars, ledger, walk, Serves
  <2>2. LotteryState' /\ Held' = Held
    BY <1>12, <2>1 DEF LotteryState
  <2>3. QED
    BY <2>1, <2>2 DEF QueueStep
<1>16. ASSUME LoopSysTick \/ LoopLaunch \/ LoopThreads \/ LoopEnter \/ LoopReturn,
              UNCHANGED lotteryVars
       PROVE  Moves
  <2>1. ASSUME NEW t \in Tasks, LoopThread(t) PROVE UNCHANGED hand
    BY <1>1, <2>1, ThreadFrame DEF LoopTypeOK, loopVars
  <2>2. UNCHANGED <<slots, count, hand, spot>>
    BY <1>16, <2>1, PanicFrame
    DEF LoopSysTick, LoopLaunch, LoopThreads, LoopEnter, LoopReturn, loopVars,
        lotteryVars, ledger, walk
  <2>3. LotteryState' /\ Held' = Held
    BY <1>12, <2>2 DEF LotteryState
  <2>4. LoopSysTick => Counts
    BY <1>1, QuantaAssumption DEF LoopSysTick, Counts, LoopTypeOK, CoreTypeOK
  <2>5. QED
    BY <1>16, <2>3, <2>4 DEF QueueStep, LoopThreads
<1>17. QED
  BY <1>5, <1>6, <1>7, <1>8, <1>9, <1>10, <1>11, <1>13, <1>14, <1>15,
     <1>16
  DEF LotteryNext

-----------------------------------------------------------------------------
(* The lotteries: the tickets add up                                       *)

\* A task that has won since it was last set back has its base tickets; that
\* is why adjust_losers may apply the limit before it sets a winner back.
TicketState ==
  /\ setting \in [Tasks -> Setting]
  /\ tickets \in [Tasks -> 1..MaximumTickets]
  /\ win \in [Tasks -> Nat] /\ lose \in [Tasks -> Nat]
  /\ \A t \in Tasks : win[t] > 0 => tickets[t] = setting[t].tickets
  /\ total = Total(tickets, LotteryHeld)
  /\ drawn \in Nat \cup {NoDraw} /\ passed \in Nat /\ checked \in Nat

\* The tickets, wins and losses d of a task with the configuration s.
IsStake(d, s) ==
  /\ s \in Setting
  /\ d.tickets \in 1..MaximumTickets /\ d.win \in Nat /\ d.lose \in Nat
  /\ d.win > 0 => d.tickets = s.tickets

\* e is such a stake too, and the total was told of every change since d.
Follows(d, e, s) ==
  /\ IsStake(e, s)
  /\ e.added \in Int
  /\ e.tickets = d.tickets + e.added

IsRecord(d) ==
  d = [tickets |-> d.tickets, win |-> d.win, lose |-> d.lose, added |-> d.added]

LEMMA LosersFollow ==
  ASSUME NEW d, NEW s, IsStake(d, s), IsRecord(d), d.added = 0
  PROVE  Follows(d, Adjusted(d, s), s)
<1> DEFINE a == IF d.win > 0 THEN [ToBase(d, s) EXCEPT !.win = 0] ELSE d
           rounds == OneMore(d.lose, s.lose_threshold)
           up == d.tickets + s.lose_delta
           kept == IF s.lose_agressive THEN rounds ELSE 0
<1>1. /\ s.tickets \in 1..MaximumTickets /\ s.lose_delta \in Nat
      /\ s.lose_threshold \in Nat /\ MaximumTickets \in Nat
  BY MaximumTicketsAssumption DEF IsStake, Setting
<1>2. d = [tickets |-> d.tickets, win |-> d.win, lose |-> d.lose, added |-> 0]
  BY DEF IsRecord
<1>3. a = [tickets |-> d.tickets, win |-> 0, lose |-> d.lose, added |-> 0]
  <2>1. CASE d.win > 0
    <3>1. d.tickets = s.tickets
      BY <2>1 DEF IsStake
    <3>2. a = [tickets |-> s.tickets, win |-> 0, lose |-> d.lose,
               added |-> 0 + (s.tickets - d.tickets)]
      BY <1>2, <2>1 DEF ToBase
    <3>3. 0 + (s.tickets - d.tickets) = 0
      BY <1>1, <3>1
    <3>4. QED
      BY <3>1, <3>2, <3>3
  <2>2. CASE ~(d.win > 0)
    <3>1. d.win = 0
      BY <2>2 DEF IsStake
    <3>2. QED
      BY <1>2, <2>2, <3>1
  <2>3. QED
    BY <2>1, <2>2
<1>4. rounds \in Nat /\ kept \in Nat
  BY <1>1 DEF IsStake, OneMore
<1> HIDE DEF a, rounds, kept
<1>5. PICK n, m : n = rounds /\ m = kept
  OBVIOUS
<1>6. CASE rounds < s.lose_threshold
  <2>1. Adjusted(d, s) = [a EXCEPT !.lose = m]
    BY <1>5, <1>6 DEF Adjusted, a, rounds, kept
  <2>2. Adjusted(d, s) = [tickets |-> d.tickets, win |-> 0, lose |-> m, added |-> 0]
    BY <1>3, <2>1
  <2>3. QED
    BY <1>4, <1>5, <2>2 DEF IsStake, Follows
<1>7. CASE ~(rounds < s.lose_threshold) /\ up <= MaximumTickets
  <2>1. Adjusted(d, s) =
          [[a EXCEPT !.tickets = @ + s.lose_delta, !.added = @ + s.lose_delta]
             EXCEPT !.lose = m]
    BY <1>5, <1>7 DEF Adjusted, a, rounds, kept
  <2>2. Adjusted(d, s) = [tickets |-> d.tickets + s.lose_delta, win |-> 0,
                          lose |-> m, added |-> 0 + s.lose_delta]
    BY <1>3, <2>1
  <2>3. QED
    BY <1>1, <1>4, <1>5, <1>7, <2>2 DEF IsStake, Follows
<1>8. CASE ~(rounds < s.lose_threshold) /\ ~(up <= MaximumTickets)
  <2>1. Adjusted(d, s) =
          [[a EXCEPT !.tickets = MaximumTickets,
                     !.added = @ + (MaximumTickets - d.tickets)]
             EXCEPT !.lose = m]
    BY <1>5, <1>8 DEF Adjusted, a, rounds, kept
  <2>2. Adjusted(d, s) = [tickets |-> MaximumTickets, win |-> 0, lose |-> m,
                          added |-> 0 + (MaximumTickets - d.tickets)]
    BY <1>3, <2>1
  <2>3. QED
    BY <1>1, <1>4, <1>5, <2>2, MaximumTicketsAssumption DEF IsStake, Follows
<1>9. QED
  BY <1>6, <1>7, <1>8

LEMMA WinnerFollows ==
  ASSUME NEW d, NEW s, IsStake(d, s), IsRecord(d), d.added = 0
  PROVE  Follows(d, ToBase(Decayed(d, s), s), s)
<1> DEFINE rounds == OneMore(d.win, s.win_threshold)
           a == IF d.lose > 0 THEN [ToBase(d, s) EXCEPT !.lose = 0] ELSE d
           cut == IF a.tickets > s.win_delta THEN s.win_delta ELSE a.tickets - 1
           kept == IF s.win_agressive THEN rounds ELSE 0
<1>1. /\ s.tickets \in 1..MaximumTickets /\ s.win_delta \in Nat
      /\ s.win_threshold \in Nat /\ MaximumTickets \in Nat
  BY MaximumTicketsAssumption DEF IsStake, Setting
<1>2. d = [tickets |-> d.tickets, win |-> d.win, lose |-> d.lose, added |-> 0]
  BY DEF IsRecord
<1>3. PICK tk \in Nat, l \in Nat :
        a = [tickets |-> tk, win |-> d.win, lose |-> l, added |-> tk - d.tickets]
  <2>1. CASE d.lose > 0
    <3>1. a = [tickets |-> s.tickets, win |-> d.win, lose |-> 0,
               added |-> 0 + (s.tickets - d.tickets)]
      BY <1>2, <2>1 DEF ToBase
    <3>2. a = [tickets |-> s.tickets, win |-> d.win, lose |-> 0,
               added |-> s.tickets - d.tickets]
      BY <1>1, <3>1 DEF IsStake
    <3>3. s.tickets \in Nat /\ 0 \in Nat
      BY <1>1
    <3>4. QED
      BY <3>2, <3>3
  <2>2. CASE ~(d.lose > 0)
    <3>1. a = [tickets |-> d.tickets, win |-> d.win, lose |-> d.lose,
               added |-> d.tickets - d.tickets]
      BY <1>2, <2>2 DEF IsStake
    <3>2. d.tickets \in Nat /\ d.lose \in Nat
      BY DEF IsStake
    <3>3. QED
      BY <3>1, <3>2
  <2>3. QED
    BY <2>1, <2>2
<1>4. rounds \in Nat /\ kept \in Nat /\ cut \in Int
  <2>1. a.tickets = tk
    BY <1>3
  <2>2. cut \in Int
    BY <1>1, <2>1
  <2>3. QED
    BY <1>1, <2>2 DEF IsStake, OneMore
<1>5. PICK n \in Nat, m \in Nat, c \in Int : n = rounds /\ m = kept /\ c = cut
  BY <1>4
<1> HIDE DEF a, rounds, kept, cut
<1>6. PICK k \in Int, w \in Nat :
        Decayed(d, s) = [tickets |-> k, win |-> w, lose |-> l,
                         added |-> k - d.tickets]
  <2>1. CASE rounds < s.win_threshold
    <3>1. Decayed(d, s) = [a EXCEPT !.win = n]
      BY <1>5, <2>1 DEF Decayed, a, rounds
    <3>2. Decayed(d, s) = [tickets |-> tk, win |-> n, lose |-> l,
                           added |-> tk - d.tickets]
      BY <1>3, <3>1
    <3>3. QED
      BY <3>2
  <2>2. CASE ~(rounds < s.win_threshold)
    <3>1. Decayed(d, s) = [a EXCEPT !.win = m, !.tickets = @ - c, !.added = @ - c]
      BY <1>5, <2>2 DEF Decayed, a, rounds, kept, cut
    <3>2. Decayed(d, s) = [tickets |-> tk - c, win |-> m, lose |-> l,
                           added |-> (tk - d.tickets) - c]
      BY <1>3, <3>1
    <3>3. (tk - d.tickets) - c = (tk - c) - d.tickets /\ tk - c \in Int
      BY <1>3 DEF IsStake
    <3>4. QED
      BY <3>2, <3>3
  <2>3. QED
    BY <2>1, <2>2
<1>7. PICK z : z = k - d.tickets
  OBVIOUS
<1>8. PICK e : e = Decayed(d, s)
  OBVIOUS
<1>9. e = [tickets |-> k, win |-> w, lose |-> l, added |-> z]
  BY <1>6, <1>7, <1>8
<1>10. ToBase(e, s) = [tickets |-> s.tickets, win |-> w, lose |-> l,
                       added |-> z + (s.tickets - k)]
  <2>1. e.tickets = k /\ e.added = z
    BY <1>9
  <2>2. PICK y : y = z + (s.tickets - k)
    OBVIOUS
  <2>3. ToBase(e, s) = [e EXCEPT !.tickets = s.tickets, !.added = y]
    BY <2>1, <2>2 DEF ToBase
  <2>4. QED
    BY <1>9, <2>2, <2>3
<1>11. z + (s.tickets - k) \in Int /\ s.tickets = d.tickets + (z + (s.tickets - k))
  BY <1>1, <1>7 DEF IsStake
<1>12. QED
  BY <1>1, <1>8, <1>10, <1>11 DEF IsStake, Follows

LEMMA SumOfNumbers ==
  ASSUME NEW D, IsFiniteSet(D), NEW v, \A x \in D : v[x] \in Nat
  PROVE  Total(v, D) \in Nat
<1> DEFINE P == {s \in SUBSET D : Total(v, s) \in Nat}
<1>1. ASSUME NEW s \in SUBSET D, \A r \in SUBSET s : r # s => r \in P
      PROVE  s \in P
  <2>1. CASE s = {}
    BY <2>1, SumOfNone
  <2>2. CASE s # {}
    <3>1. PICK p \in s : Total(v, s) = v[p] + Total(v, s \ {p})
      BY <2>2, SumFirst, FS_Subset
    <3>2. Total(v, s \ {p}) \in Nat /\ v[p] \in Nat
      BY <1>1, <3>1
    <3>3. QED
      BY <3>1, <3>2
  <2>3. QED
    BY <2>1, <2>2
<1> HIDE DEF P
<1>2. D \in P
  BY <1>1, SubsetInduction
<1>3. QED
  BY <1>2 DEF P

LEMMA TicketNumbers ==
  ASSUME LotteryState, TicketState
  PROVE  /\ total \in Nat
         /\ \A t \in Tasks : tickets[t] \in 1..MaximumTickets /\ tickets[t] \in Nat
<1>1. \A t \in Tasks : tickets[t] \in 1..MaximumTickets /\ tickets[t] \in Nat
  BY MaximumTicketsAssumption DEF TicketState
<1>2. \A t \in LotteryHeld : tickets[t] \in Nat
  BY <1>1, LotteryFinite
<1>3. total \in Nat
  BY <1>2, LotteryFinite, SumOfNumbers DEF TicketState
<1>4. QED
  BY <1>1, <1>3

LEMMA TicketsEnter ==
  ASSUME LotteryState, TicketState, NEW t \in Tasks, t \notin LotteryHeld,
         NEW n \in 1..MaximumTickets, EnterSlot(t, n),
         LotteryHeld' = LotteryHeld \cup {t},
         tickets' = [tickets EXCEPT ![t] = n]
  PROVE  total' = Total(tickets', LotteryHeld')
<1>1. PICK T, v : T = LotteryHeld' /\ v = tickets'
  OBVIOUS
<1>2. IsFiniteSet(T) /\ t \in T /\ T \ {t} = LotteryHeld
  BY <1>1, LotteryFinite, FS_AddElement
<1>3. v[t] = n /\ \A u \in LotteryHeld : v[u] = tickets[u]
  BY <1>1, LotteryFinite DEF TicketState
<1>4. n \in Nat /\ \A u \in LotteryHeld : tickets[u] \in Nat
  BY TicketNumbers, LotteryFinite, MaximumTicketsAssumption
<1>5. \A u \in T : v[u] \in Int
  BY <1>2, <1>3, <1>4
<1>6. Total(v, T) = v[t] + Total(v, LotteryHeld)
  BY <1>2, <1>5, SumTakeOut
<1>7. Total(v, LotteryHeld) = Total(tickets, LotteryHeld)
  BY <1>3, LotteryFinite, SumCongruence
<1>8. total \in Nat /\ total = Total(tickets, LotteryHeld)
  BY TicketNumbers DEF TicketState
<1>9. total' = total + n
  BY DEF EnterSlot
<1>10. QED
  BY <1>1, <1>3, <1>4, <1>6, <1>7, <1>8, <1>9

LEMMA TicketsLeave ==
  ASSUME LotteryState, TicketState, NEW t \in LotteryHeld, LeaveSlot(t),
         LotteryHeld' = LotteryHeld \ {t}, UNCHANGED tickets
  PROVE  total' = Total(tickets', LotteryHeld')
<1>1. \A u \in LotteryHeld : tickets[u] \in Int
  BY TicketNumbers, LotteryFinite
<1>2. PICK a, b : a = Total(tickets, LotteryHeld)
                  /\ b = Total(tickets, LotteryHeld \ {t})
  OBVIOUS
<1>3. a = tickets[t] + b
  BY <1>1, <1>2, LotteryFinite, SumTakeOut
<1>4. b \in Int
  BY <1>1, <1>2, LotteryFinite, SumTakeOut, FS_Subset
<1>5. total = a /\ total' = total - tickets[t] /\ tickets[t] \in Int
  BY <1>1, <1>2 DEF LeaveSlot, TicketState
<1>6. QED
  BY <1>2, <1>3, <1>4, <1>5

LEMMA TicketsChange ==
  ASSUME LotteryState, TicketState, NEW t \in LotteryHeld, WeightedWins(t),
         LotteryHeld' = LotteryHeld
  PROVE  TicketState'
<1> DEFINE After(u) ==
             IF u = t THEN ToBase(Decayed(Stake(u), setting[u]), setting[u])
             ELSE IF u \in LotteryHeld THEN Adjusted(Stake(u), setting[u])
             ELSE Stake(u)
           added == [u \in Tasks |-> After(u).added]
<1>1. ASSUME NEW u \in Tasks
      PROVE  /\ Follows(Stake(u), After(u), setting[u])
             /\ u \notin LotteryHeld => After(u).added = 0
  <2>1. PICK d, s : d = Stake(u) /\ s = setting[u]
    OBVIOUS
  <2>2. /\ d = [tickets |-> tickets[u], win |-> win[u], lose |-> lose[u],
                added |-> 0]
        /\ s \in Setting /\ tickets[u] \in 1..MaximumTickets
        /\ win[u] \in Nat /\ lose[u] \in Nat
        /\ win[u] > 0 => tickets[u] = s.tickets
    BY <2>1 DEF TicketState, Stake
  <2>3. IsStake(d, s) /\ IsRecord(d) /\ d.added = 0
    BY <2>2 DEF IsStake, IsRecord
  <2>4. CASE u = t
    <3>1. After(u) = ToBase(Decayed(d, s), s)
      BY <2>1, <2>4
    <3>2. QED
      BY <2>1, <2>3, <2>4, <3>1, WinnerFollows
  <2>5. CASE u # t /\ u \in LotteryHeld
    <3>1. After(u) = Adjusted(d, s)
      BY <2>1, <2>5
    <3>2. QED
      BY <2>1, <2>3, <2>5, <3>1, LosersFollow
  <2>6. CASE u # t /\ u \notin LotteryHeld
    <3>1. After(u) = d
      BY <2>1, <2>6
    <3>2. d.tickets = d.tickets + d.added
      BY <2>2
    <3>3. Follows(d, d, s)
      BY <2>3, <3>2 DEF Follows
    <3>4. QED
      BY <2>1, <2>3, <3>1, <3>3
  <2>7. QED
    BY <2>4, <2>5, <2>6
<1>2. /\ tickets' = [u \in Tasks |-> After(u).tickets]
      /\ win' = [u \in Tasks |-> After(u).win]
      /\ lose' = [u \in Tasks |-> After(u).lose]
      /\ total' = total + SumFunction(added)
      /\ UNCHANGED <<setting, drawn, passed, checked>>
  BY DEF WeightedWins, Wins, walk
<1>3. \A u \in Tasks : added[u] = After(u).added
  OBVIOUS
<1>4. \A u \in Tasks : Stake(u).tickets = tickets[u]
  BY DEF Stake
<1> HIDE DEF After
<1>5. \A u \in Tasks :
        /\ tickets'[u] = tickets[u] + added[u] /\ added[u] \in Int
        /\ tickets'[u] \in 1..MaximumTickets
        /\ win'[u] \in Nat /\ lose'[u] \in Nat
        /\ win'[u] > 0 => tickets'[u] = setting'[u].tickets
        /\ u \notin LotteryHeld => added[u] = 0
  BY <1>1, <1>2, <1>3, <1>4 DEF Follows, IsStake
<1>6. IsFiniteSet(Tasks) /\ LotteryHeld \in SUBSET Tasks
  BY FS_Interval, MaximumTasksAssumption, LotteryFinite DEF Tasks
<1>7. PICK w : w = tickets'
  OBVIOUS
<1>8. /\ \A u \in Tasks : tickets[u] \in Int /\ added[u] \in Int
      /\ \A u \in Tasks \ LotteryHeld : added[u] = 0
      /\ \A u \in LotteryHeld : w[u] = tickets[u] + added[u]
  BY <1>5, <1>6, <1>7, TicketNumbers
<1>9. SumFunction(added) = Total(added, Tasks)
  BY DEF SumFunction, FoldFunction, Total, SumFunctionOnSet
<1> HIDE DEF added
<1>10. Total(w, LotteryHeld) = Total(tickets, LotteryHeld) + Total(added, Tasks)
  BY <1>6, <1>8, SumOfChanges
<1>11. total' = Total(tickets', LotteryHeld')
  BY <1>2, <1>7, <1>9, <1>10 DEF TicketState
<1>12. /\ tickets' \in [Tasks -> 1..MaximumTickets]
       /\ win' \in [Tasks -> Nat] /\ lose' \in [Tasks -> Nat]
  BY <1>2, <1>5
<1>13. QED
  BY <1>2, <1>5, <1>11, <1>12 DEF TicketState

\* What the steps that leave the tickets alone do to the rest.
LEMMA TicketFrame ==
  ASSUME LotteryState, TicketState, LotteryHeld' = LotteryHeld,
         UNCHANGED <<setting, tickets, win, lose, total>>,
         drawn' \in Nat \cup {NoDraw}, passed' \in Nat, checked' \in Nat
  PROVE  TicketState'
BY DEF TicketState

LEMMA TicketInduction ==
  ASSUME SleepInv, TasksInv, LotteryState, LotteryState', TicketState,
         kind \in Lottery, LotteryNext
  PROVE  TicketState'
<1>1. /\ LoopTypeOK /\ Custody /\ HandState /\ MaximumTickets \in Nat \ {0}
      /\ Held = LotteryHeld \ {hand}
      /\ hand = NoTask \/ hand \in LotteryHeld
  BY MaximumTicketsAssumption
  DEF SleepInv, TasksInv, Held, Priority, Deadline, Lottery, LotteryState
<1>2. /\ LotteryHeld \subseteq allocated \cup {hand} /\ NoTask \notin LotteryHeld
  BY <1>1, LotteryFinite DEF Custody
<1>3. LotteryHeld \subseteq allocated
  BY <1>1, <1>2 DEF Custody
<1>4. /\ drawn \in Nat \cup {NoDraw} /\ passed \in Nat /\ checked \in Nat
      /\ setting \in [Tasks -> Setting] /\ win \in [Tasks -> Nat]
      /\ lose \in [Tasks -> Nat] /\ tickets \in [Tasks -> 1..MaximumTickets]
      /\ \A t \in Tasks : win[t] > 0 => tickets[t] = setting[t].tickets
      /\ \A t \in Tasks : tickets[t] \in Nat
  BY TicketNumbers DEF TicketState
<1>5. ASSUME NEW t \in Tasks, t \notin LotteryHeld, LotteryAdd(t), UNCHANGED hand
      PROVE  TicketState'
  <2>1. PICK s \in Settings :
           /\ setting' = [setting EXCEPT ![t] = s]
           /\ tickets' = [tickets EXCEPT ![t] = s.tickets]
           /\ EnterSlot(t, s.tickets)
    BY <1>5 DEF LotteryAdd
  <2>2. s \in Setting /\ s.tickets \in 1..MaximumTickets
    BY SettingsAssumption DEF Setting
  <2>3. PICK n \in 1..MaximumTickets : n = s.tickets
    BY <2>2
  <2>4. /\ win' = [win EXCEPT ![t] = 0] /\ lose' = [lose EXCEPT ![t] = 0]
        /\ UNCHANGED <<drawn, passed, checked, spot>>
    BY <1>5 DEF LotteryAdd, walk
  <2>5. LotteryHeld' = LotteryHeld \cup {t}
    BY <1>5, <2>1, <2>4, LotteryEnters
  <2>6. total' = Total(tickets', LotteryHeld')
    BY <1>5, <2>1, <2>3, <2>5, TicketsEnter
  <2>7. /\ setting' \in [Tasks -> Setting]
        /\ tickets' \in [Tasks -> 1..MaximumTickets]
        /\ win' \in [Tasks -> Nat] /\ lose' \in [Tasks -> Nat]
    BY <1>4, <2>1, <2>2, <2>4
  <2>8. \A u \in Tasks : win'[u] > 0 => tickets'[u] = setting'[u].tickets
    BY <1>4, <2>1, <2>4
  <2>9. QED
    BY <1>4, <2>4, <2>6, <2>7, <2>8 DEF TicketState
<1>6. ASSUME NEW t \in Tasks, LoopBootAdd(t), LotteryAdd(t) PROVE TicketState'
  <2>1. t \notin LotteryHeld
    BY <1>1, <1>3, <1>6, NewTaskFrame DEF LoopTypeOK, LoopBootAdd, BootAddTask
  <2>2. QED
    BY <1>5, <1>6, <2>1 DEF LoopBootAdd, loopVars
<1>7. ASSUME NEW t \in Tasks, NEW u \in Tasks, LoopThreadAdd(t, u), LotteryAdd(u)
      PROVE  TicketState'
  <2>1. u \notin LotteryHeld
    BY <1>1, <1>3, <1>7, NewTaskFrame DEF LoopTypeOK, LoopThreadAdd, TaskAddTask
  <2>2. QED
    BY <1>5, <1>7, <2>1 DEF LoopThreadAdd, loopVars
<1>8. ASSUME NEW t \in Tasks, LotteryWake(t) PROVE TicketState'
  <2>1. /\ EnterSlot(t, tickets[t]) /\ UNCHANGED <<hand, spot>> /\ t \in waiting
        /\ mode = "wake"
        /\ UNCHANGED <<setting, tickets, win, lose, drawn, passed, checked>>
    BY <1>8 DEF LotteryWake, Wake, Due, walk
  <2>2. t \notin LotteryHeld
    BY <1>1, <2>1 DEF Custody, HandState
  <2>3. PICK n \in 1..MaximumTickets : n = tickets[t]
    BY <1>4
  <2>4. LotteryHeld' = LotteryHeld \cup {t}
    BY <2>1, <2>2, LotteryEnters
  <2>5. tickets' = [tickets EXCEPT ![t] = n]
    BY <1>4, <2>1, <2>3
  <2>6. total' = Total(tickets', LotteryHeld')
    BY <2>1, <2>2, <2>3, <2>4, <2>5, TicketsEnter
  <2>7. QED
    BY <1>4, <2>1, <2>6 DEF TicketState
<1>9. ASSUME NEW t \in LotteryHeld, LeaveSlot(t), hand' = NoTask,
             UNCHANGED <<setting, tickets, win, lose, drawn>>,
             passed' \in Nat, checked' \in Nat
      PROVE  TicketState'
  <2>1. spot' \in 1..MaximumTasks + 1
    BY DEF LotteryState
  <2>2. LotteryHeld' = LotteryHeld \ {t}
    BY <1>9, <2>1, LotteryLeaves
  <2>3. total' = Total(tickets', LotteryHeld')
    BY <1>9, <2>2, TicketsLeave
  <2>4. QED
    BY <1>4, <1>9, <2>3 DEF TicketState
<1>10. ASSUME OnWalk PROVE checked' \in Nat /\ UNCHANGED drawn
  BY <1>4, <1>10 DEF OnWalk
<1>11. ASSUME NEW t \in Tasks, LotteryPutAside(t) PROVE TicketState'
  <2>1. /\ At(t) /\ LeaveSlot(t) /\ OnWalk /\ UNCHANGED hand
        /\ UNCHANGED <<setting, tickets, win, lose, passed>>
    BY <1>11 DEF LotteryPutAside, PutAside
  <2>2. t \in LotteryHeld /\ hand = NoTask
    BY <1>1, <2>1, LotteryMeets
  <2>3. QED
    BY <1>4, <1>9, <1>10, <2>1, <2>2
<1>12. ASSUME LotteryReap PROVE TicketState'
  <2>1. /\ LeaveSlot(hand) /\ hand' = NoTask /\ hand # NoTask
        /\ UNCHANGED <<setting, tickets, win, lose, drawn, passed, checked>>
    BY <1>1, <1>12 DEF LotteryReap, Reap, walk, HandState
  <2>2. QED
    BY <1>1, <1>4, <1>9, <2>1
<1>13. ASSUME UNCHANGED slots PROVE LotteryHeld' = LotteryHeld
  BY <1>13 DEF LotteryHeld, Range
<1>14. ASSUME NEW t \in Tasks, WeightedWins(t) PROVE TicketState'
  <2>1. At(t) /\ UNCHANGED slots
    BY <1>14 DEF WeightedWins, Wins
  <2>2. t \in LotteryHeld /\ LotteryHeld' = LotteryHeld
    BY <1>1, <1>13, <2>1, LotteryMeets
  <2>3. QED
    BY <1>14, <2>2, TicketsChange
<1>15. ASSUME UNCHANGED ledger, drawn' \in Nat \cup {NoDraw}, passed' \in Nat,
              checked' \in Nat
       PROVE  TicketState'
  BY <1>13, <1>15, TicketFrame DEF ledger
<1>16. ASSUME NEW t \in Tasks, Loses(t) \/ LotteryRetire(t) \/ LotteryWins(t)
       PROVE  TicketState'
  <2>1. CASE Loses(t)
    <3>1. passed + tickets[t] \in Nat
      BY <1>4
    <3>2. QED
      BY <1>4, <1>10, <1>15, <2>1, <3>1 DEF Loses
  <2>2. CASE LotteryRetire(t)
    BY <1>4, <1>10, <1>15, <2>2 DEF LotteryRetire
  <2>3. CASE LotteryWins(t)
    BY <1>4, <1>15, <2>3 DEF LotteryWins, Wins, walk
  <2>4. QED
    BY <1>16, <2>1, <2>2, <2>3
<1>17. ASSUME LotteryBegin \/ Redraw \/ SkipEmpty PROVE TicketState'
  <2>1. ASSUME Draw
        PROVE  drawn' \in Nat \cup {NoDraw} /\ passed' \in Nat /\ checked' \in Nat
    <3>1. total \in Nat
      BY TicketNumbers
    <3>2. QED
      BY <2>1, <3>1 DEF Draw
  <2>2. CASE LotteryBegin \/ Redraw
    BY <1>15, <2>1, <2>2 DEF LotteryBegin, Redraw
  <2>3. CASE SkipEmpty
    BY <1>4, <1>10, <1>15, <2>3 DEF SkipEmpty
  <2>4. QED
    BY <1>17, <2>2, <2>3
<1>18. ASSUME UNCHANGED lotteryVars PROVE TicketState'
  BY <1>4, <1>15, <1>18 DEF lotteryVars, walk
<1>19. QED
  BY <1>6, <1>7, <1>8, <1>11, <1>12, <1>14, <1>16, <1>17, <1>18
  DEF LotteryNext, LotteryIdle, WeightedIdle

-----------------------------------------------------------------------------
(* The kernel with any of the seven schedulers                             *)

\* The scheduler that the kernel has is in order ...
OwnState ==
  /\ kind \in Priority => PrioState /\ PrioTypes
  /\ kind \in Deadline => LineState
  /\ kind = "mlfq" => MlfqState
  /\ kind \in Lottery => LotteryState /\ TicketState

\* ... and the variables of the others are as they were.
OthersRest ==
  /\ kind \notin Priority => PrioInit
  /\ kind \notin Deadline => LineInit
  /\ kind # "mlfq" => MlfqInit
  /\ kind \notin Lottery => LotteryInit

KnownKind == kind \in Priority \cup Deadline \cup Lottery \cup {"mlfq"}

KernelInv ==
  SleepInv /\ TasksInv /\ KnownKind /\ OwnState /\ OthersRest /\ OvertakenState

\* What the variables of each family are at first is in order.
LEMMA PrioInitially == PrioInit => PrioState /\ PrioTypes /\ PrioHeld = {}
<1> SUFFICES ASSUME PrioInit PROVE PrioState /\ PrioTypes /\ PrioHeld = {}
  OBVIOUS
<1>1. /\ \A l \in Levels : queues[l] = << >> /\ 0 \in Levels
      /\ queues \in [Levels -> Seq(Tasks)]
  BY DEF PrioInit, Levels, MaximumPriority
<1>2. IsInjective(<< >>) /\ Range(<< >>) = {}
  BY DEF IsInjective, Range
<1>3. PrioState
  BY <1>1, <1>2, FirstQueue DEF PrioInit, PrioState
<1>4. PrioTypes
  BY FirstQueue DEF PrioInit, PrioTypes
<1>5. PrioHeld = {}
  BY <1>1 DEF PrioHeld, InQueue, Contains
<1>6. QED
  BY <1>3, <1>4, <1>5

LEMMA LineInitially == LineInit => LineState /\ LineHeld = {}
<1> SUFFICES ASSUME LineInit PROVE LineState /\ LineHeld = {}
  OBVIOUS
<1>1. line = << >> /\ launched \in BOOLEAN
  BY DEF LineInit
<1>2. line \in Seq(Tasks) /\ Len(line) = 0
  BY <1>1
<1>3. InOrder(line, key)
  BY <1>2 DEF InOrder, IsInjective
<1>4. LineHeld = {}
  BY <1>1 DEF LineHeld, Range
<1>5. QED
  BY <1>1, <1>2, <1>3, <1>4 DEF LineState

LEMMA MlfqEmptyAtFirst == MlfqInit => MlfqHeld = {}
BY DEF MlfqInit, MlfqHeld

LEMMA LotteryInitially ==
  ASSUME LotteryInit, hand = NoTask
  PROVE  LotteryState /\ TicketState /\ LotteryHeld = {}
<1>1. LotteryHeld = {}
  BY DEF LotteryInit, LotteryHeld, Range
<1>2. Cardinality(LotteryHeld) = 0 /\ 1 \in 1..MaximumTasks + 1
  BY <1>1, FS_EmptySet, MaximumTasksAssumption
<1>3. LotteryState
  BY <1>2 DEF LotteryInit, LotteryState, LotteryPlacement
<1>4. Total(tickets, LotteryHeld) = 0
  BY <1>1, SumOfNone
<1>5. 1 \in 1..MaximumTickets /\ Unset \in Setting
  BY MaximumTicketsAssumption DEF Unset, Setting
<1>6. TicketState
  BY <1>4, <1>5 DEF LotteryInit, TicketState
<1>7. QED
  BY <1>1, <1>3, <1>6

LEMMA KernelInitially == Init => KernelInv
<1> SUFFICES ASSUME Init PROVE KernelInv
  OBVIOUS
<1>1. SleepInv /\ KnownKind
  BY SleepInitially, KindsAssumption DEF Init, KnownKind
<1>2. /\ PrioInit /\ LineInit /\ MlfqInit /\ LotteryInit /\ CoreInit
      /\ hand = NoTask /\ waiting = {} /\ allocated = {} /\ mode = "boot"
      /\ state = [t \in Tasks |-> "NONE"] /\ overtaken = [t \in Tasks |-> 0]
  BY DEF Init, LoopInit, CoreInit
<1>3. /\ PrioState /\ PrioTypes /\ LineState /\ MlfqState
      /\ LotteryState /\ TicketState
      /\ PrioHeld = {} /\ LineHeld = {} /\ MlfqHeld = {} /\ LotteryHeld = {}
  BY <1>2, PrioInitially, LineInitially, MlfqInitially, MlfqEmptyAtFirst,
     LotteryInitially
<1>4. Held = {}
  BY <1>3 DEF Held
<1>5. TasksInv
  BY <1>2, <1>4
  DEF TasksInv, Custody, HandState, ServedState, ThreadState, WaitingState,
      ModeState, Runnable
<1>6. OwnState /\ OthersRest
  BY <1>2, <1>3 DEF OwnState, OthersRest
<1>7. OvertakenState
  <2>1. AgingInv
    <3>1. \A t \in Tasks : Patience(t) = 1
      BY <1>2 DEF Patience, PrioInit
    <3>2. queues[0] = << >>
      BY <1>2, FirstQueue DEF PrioInit
    <3>3. QED
      BY <1>2, <3>1, <3>2 DEF AgingInv, PrioInit
  <2>2. QED
    BY <1>2, <2>1 DEF OvertakenState
<1>8. QED
  BY <1>1, <1>5, <1>6, <1>7 DEF KernelInv

\* The frame of a step that is not the scheduler's own.
LEMMA StutterKeeps ==
  ASSUME KernelInv, UNCHANGED vars
  PROVE  QueueStep /\ OwnState' /\ OthersRest'
<1>1. /\ UNCHANGED <<coreVars, loopVars>> /\ UNCHANGED <<kind, hand, mode, allocated>>
      /\ UNCHANGED prioVars /\ UNCHANGED lineVars /\ UNCHANGED mlfqVars
      /\ UNCHANGED lotteryVars
  BY DEF vars, coreVars, tcbVars, loopVars
<1>2. UNCHANGED <<PrioHeld, LineHeld, MlfqHeld, LotteryHeld>>
  BY <1>1
  DEF prioVars, lineVars, mlfqVars, lotteryVars, ledger, PrioHeld, InQueue,
      Contains, LineHeld, MlfqHeld, LotteryHeld, Range
<1>3. Held' = Held
  BY <1>1, <1>2 DEF Held
<1>4. /\ (PrioState /\ PrioTypes) => (PrioState /\ PrioTypes)'
      /\ LineState => LineState'
  BY <1>1 DEF prioVars, taskData, lineVars, PrioState, PrioTypes, LineState
<1>5. MlfqState => MlfqState'
  BY <1>1
  DEF mlfqVars, MlfqState, MlfqTypeOK, LevelsApart, Configured, WithinSlice,
      ScanState
<1>6. (LotteryState /\ TicketState) => (LotteryState /\ TicketState)'
  BY <1>1, <1>2
  DEF lotteryVars, ledger, walk, LotteryState, LotteryPlacement, TicketState
<1>7. OwnState'
  BY <1>1, <1>4, <1>5, <1>6 DEF KernelInv, OwnState
<1>8. OthersRest'
  BY <1>1
  DEF KernelInv, OthersRest, PrioInit, LineInit, MlfqInit, LotteryInit, prioVars,
      taskData, lineVars, mlfqVars, lotteryVars, ledger, walk
<1>9. QED
  BY <1>1, <1>3, <1>7, <1>8 DEF QueueStep

\* The variables of a family that rests.
LEMMA FamilyRests ==
  /\ PrioInit /\ UNCHANGED prioVars => PrioInit'
  /\ LineInit /\ UNCHANGED lineVars => LineInit'
  /\ MlfqInit /\ UNCHANGED mlfqVars => MlfqInit'
  /\ LotteryInit /\ UNCHANGED lotteryVars => LotteryInit'
BY DEF PrioInit, prioVars, taskData, LineInit, lineVars, MlfqInit, mlfqVars,
       LotteryInit, lotteryVars, ledger, walk

LEMMA SchedulerKeeps ==
  ASSUME KernelInv, Next, kind' = kind
  PROVE  (QueueStep \/ ExpiredStep) /\ OwnState' /\ OthersRest'
<1> USE DEF KernelInv
<1>1. CASE kind \in Priority
  <2>1. /\ PrioNext /\ UNCHANGED lineVars /\ UNCHANGED mlfqVars
        /\ UNCHANGED lotteryVars
    BY <1>1 DEF Next, Priority, Deadline, Lottery
  <2>2. QueueStep /\ PrioState' /\ PrioTypes'
    BY <1>1, <2>1, PrioInduction DEF OwnState
  <2>3. QED
    BY <1>1, <2>1, <2>2, FamilyRests
    DEF OwnState, OthersRest, Priority, Deadline, Lottery
<1>2. CASE kind \in Deadline
  <2>1. /\ LineNext /\ UNCHANGED prioVars /\ UNCHANGED mlfqVars
        /\ UNCHANGED lotteryVars
    BY <1>2 DEF Next, Priority, Deadline, Lottery
  <2>2. (QueueStep \/ ExpiredStep) /\ LineState'
    BY <1>2, <2>1, LineInduction DEF OwnState
  <2>3. QED
    BY <1>2, <2>1, <2>2, FamilyRests
    DEF OwnState, OthersRest, Priority, Deadline, Lottery
<1>3. CASE kind = "mlfq"
  <2>1. /\ MlfqNext /\ UNCHANGED prioVars /\ UNCHANGED lineVars
        /\ UNCHANGED lotteryVars
    BY <1>3 DEF Next, Priority, Deadline, Lottery
  <2>2. QueueStep /\ MlfqState'
    BY <1>3, <2>1, MlfqInduction DEF OwnState
  <2>3. QED
    BY <1>3, <2>1, <2>2, FamilyRests
    DEF OwnState, OthersRest, Priority, Deadline, Lottery
<1>4. CASE kind \in Lottery
  <2>1. /\ LotteryNext /\ UNCHANGED prioVars /\ UNCHANGED lineVars
        /\ UNCHANGED mlfqVars
    BY <1>4 DEF Next, Priority, Deadline, Lottery
  <2>2. QueueStep /\ LotteryState'
    BY <1>4, <2>1, LotteryInduction DEF OwnState
  <2>3. TicketState'
    BY <1>4, <2>1, <2>2, TicketInduction DEF OwnState
  <2>4. QED
    BY <1>4, <2>1, <2>2, <2>3, FamilyRests
    DEF OwnState, OthersRest, Priority, Deadline, Lottery
<1>5. QED
  BY <1>1, <1>2, <1>3, <1>4 DEF KnownKind

LEMMA KernelStep ==
  ASSUME KernelInv, [Next]_vars
  PROVE  KernelInv' /\ (QueueStep \/ ExpiredStep) /\ kind' = kind
<1> USE DEF KernelInv
<1>1. kind' = kind
  BY EveryStep, TimeMoves DEF SleepInv, LoopTypeOK
<1>2. (QueueStep \/ ExpiredStep) /\ OwnState' /\ OthersRest'
  BY <1>1, StutterKeeps, SchedulerKeeps
<1>3. SleepInv'
  BY SleepInduction
<1>4. TasksInv'
  BY <1>1, <1>2, TasksInduction
<1>5. OvertakenState'
  BY <1>1, <1>2, <1>4, OvertakenInduction DEF OwnState, Priority
<1>6. QED
  BY <1>1, <1>2, <1>3, <1>4, <1>5 DEF KnownKind

LEMMA KernelInvariant == Spec => []KernelInv
<1>1. Init => KernelInv
  BY KernelInitially
<1>2. KernelInv /\ [Next]_vars => KernelInv'
  BY KernelStep
<1>3. QED
  BY <1>1, <1>2, PTL DEF Spec

LEMMA KernelTypes == KernelInv => SchedulersTypeOK
<1> SUFFICES ASSUME KernelInv PROVE SchedulersTypeOK
  OBVIOUS
<1> USE DEF KernelInv, OwnState, OthersRest
<1>1. LoopTypeOK /\ overtaken \in [Tasks -> Nat]
  BY DEF SleepInv, OvertakenState
<1>2. PrioTypeOK
  BY PrioInitially DEF PrioTypeOK, PrioState, PrioTypes
<1>3. LineTypeOK
  BY LineInitially DEF SleepInv, Keys, LineTypeOK, LineState
<1>4. MlfqTypeOK
  <2>1. MlfqInit => MlfqTypeOK
    BY DEF MlfqInit, MlfqTypeOK, QuantumLevels, MaximumLevels
  <2>2. QED
    BY <2>1 DEF MlfqState
<1>5. LotteryTypeOK
  <2>1. CASE kind \in Lottery
    <3>1. LotteryState /\ TicketState
      BY <2>1
    <3>2. count \in 0..MaximumTasks
      <4>1. IsFiniteSet(Tasks) /\ Cardinality(Tasks) = MaximumTasks
        BY FS_Interval, MaximumTasksAssumption DEF Tasks
      <4>2. Cardinality(LotteryHeld) <= MaximumTasks
        BY <3>1, <4>1, LotteryFinite, FS_Subset
      <4>3. QED
        BY <3>1, <4>2, LotteryFinite, MaximumTasksAssumption DEF LotteryState
    <3>3. total \in Nat
      BY <3>1, TicketNumbers
    <3>4. QED
      BY <3>1, <3>2, <3>3 DEF LotteryTypeOK, LotteryState, TicketState
  <2>2. CASE kind \notin Lottery
    BY <2>2, MaximumTasksAssumption, MaximumTicketsAssumption
    DEF LotteryInit, LotteryTypeOK
  <2>3. QED
    BY <2>1, <2>2
<1>6. QED
  BY <1>1, <1>2, <1>3, <1>4, <1>5 DEF SchedulersTypeOK

LEMMA KernelCountsTickets == KernelInv => TicketsAddUp
<1> SUFFICES ASSUME KernelInv PROVE TicketsAddUp
  OBVIOUS
<1>1. CASE kind \in Lottery
  BY <1>1 DEF KernelInv, OwnState, LotteryState, TicketState, TicketsAddUp, Total
<1>2. CASE kind \notin Lottery
  <2>1. LotteryInit
    BY <1>2 DEF KernelInv, OthersRest
  <2>2. LotteryHeld = {}
    BY <2>1 DEF LotteryInit, LotteryHeld, Range
  <2>3. QED
    BY <2>1, <2>2, SumOfNone, FS_EmptySet DEF LotteryInit, TicketsAddUp, Total
<1>3. QED
  BY <1>1, <1>2

LEMMA KernelBoundsWaiting == KernelInv => NotOvertaken
<1> SUFFICES ASSUME KernelInv PROVE NotOvertaken
  OBVIOUS
<1>1. PrioTypes
  BY PrioInitially DEF KernelInv, OwnState, OthersRest
<1>2. QED
  BY <1>1, OvertakenBound DEF KernelInv, OwnState, Priority

LEMMA KernelPlaces == KernelInv => Placement
<1> SUFFICES ASSUME KernelInv PROVE Placement
  OBVIOUS
<1> USE DEF KernelInv, OwnState, OthersRest
<1>1. PrioPlacement
  <2>1. PrioState
    BY PrioInitially
  <2>2. \A l \in Levels, t \in Tasks : InQueue(l, t) => t \in Range(queues[l])
    BY <2>1, ContainsRange DEF PrioState, InQueue
  <2>3. QED
    BY <2>1, <2>2 DEF PrioState, PrioPlacement
<1>2. LinePlacement
  BY LineInitially DEF LineState, InOrder, LinePlacement, IsInjective
<1>3. MlfqPlacement
  <2>1. CASE kind = "mlfq"
    BY <2>1, MlfqImpliesPlacement DEF TasksInv
  <2>2. CASE kind # "mlfq"
    BY <2>2 DEF MlfqInit, MlfqPlacement, MlfqHeld
  <2>3. QED
    BY <2>1, <2>2
<1>4. LotteryPlacement
  BY DEF LotteryInit, LotteryState, LotteryPlacement
<1>5. QED
  BY <1>1, <1>2, <1>3, <1>4 DEF TasksInv, Custody, Placement

\* Every variable of the kernel and of its scheduler keeps its type; the
\* tickets of a lottery's tasks stay within a uint8_t and above zero, the
\* total does not become negative.
THEOREM SchedulersTypeCorrect == Spec => []SchedulersTypeOK
BY KernelInvariant, KernelTypes, PTL

\* Whatever priorities, levels, deadlines, run times and tickets do while a
\* task is queued, every task is in one place, and freed tasks are in none.
THEOREM NoTaskIsLost == Spec => []Placement
BY KernelInvariant, KernelPlaces, PTL

\* validate_tickets of the weighted lottery never fails, in whichever order
\* wins and losses set tickets back, raise, lower and limit them.
THEOREM TicketsAreCounted == Spec => []TicketsAddUp
BY KernelInvariant, KernelCountsTickets, PTL

\* With priority_aging a task that can run is passed over at most as often as
\* it has to climb, and then by the tasks queued before it.
THEOREM AgingBoundsWaiting == Spec => []NotOvertaken
BY KernelInvariant, KernelBoundsWaiting, PTL

\* The kernel with any of the schedulers but edf and lottery provides the
\* service of a kernel: the idle task only when no task can run, and never a
\* sleeper.
THEOREM SchedulersServe == Spec => ImplementsService
<1>1. Init => Service!ServiceInit
  <2>1. SUFFICES ASSUME Init PROVE Service!ServiceInit
    OBVIOUS
  <2>2. tick = 0 /\ allocated = {} /\ mode = "boot"
    BY <2>1 DEF Init, LoopInit, CoreInit
  <2>3. LifeBar = [t \in Tasks |-> "free"]
    BY <2>2 DEF LifeBar, LifeOf
  <2>4. UntilBar = [t \in Tasks |-> 0]
    BY <2>3 DEF UntilBar
  <2>5. QED
    BY <2>2, <2>3, <2>4 DEF NowBar, CpuBar, Service!ServiceInit
<1>2. KernelInv /\ [Next]_vars =>
        Service!ServiceNext \/ UNCHANGED Service!service
  <2>1. SUFFICES ASSUME KernelInv, [Next]_vars
                 PROVE  Service!ServiceNext \/ UNCHANGED Service!service
    OBVIOUS
  <2>2. KernelInv' /\ (QueueStep \/ ExpiredStep) /\ kind' = kind
    BY <2>1, KernelStep
  <2>3. CASE Serves
    <3>1. SleepInv /\ SleepInv' /\ TasksInv
      BY <2>1, <2>2 DEF KernelInv
    <3>2. QueueStep
      BY <2>2, <2>3 DEF ExpiredStep, Serves
    <3>3. QED
      BY <2>2, <2>3, <3>1, <3>2, ServiceStep
  <2>4. CASE ~Serves
    <3>1. ~Serves'
      BY <2>2, <2>4 DEF Serves
    <3>2. UNCHANGED <<NowBar, LifeBar, CpuBar>>
      BY <2>4, <3>1 DEF NowBar, LifeBar, CpuBar
    <3>3. \A t \in Tasks : LifeBar[t] # "sleeping" /\ LifeBar'[t] # "sleeping"
      BY <2>4, <3>1 DEF LifeBar
    <3>4. UNCHANGED UntilBar
      BY <3>3 DEF UntilBar
    <3>5. QED
      BY <3>2, <3>4 DEF Service!service
  <2>5. QED
    BY <2>3, <2>4
<1>3. QED
  BY <1>1, <1>2, KernelInvariant, PTL
  DEF Spec, ImplementsService, Service!ServiceSpec

\* Who is switched to was popped from the first queue that is not empty ...
LEMMA PrioPicks ==
  ASSUME SleepInv, PrioNext, Dispatch
  PROVE  \E l \in Levels : PoppedFrom(l, current')
<1>1. mode = "select" /\ mode' = "restore" /\ current' \in Tasks
  BY DEF Dispatch
<1>2. ASSUME NEW t \in Tasks PROVE ~LoopBootAdd(t) /\ ~PrioWake(t)
  BY <1>1 DEF LoopBootAdd, BootAddTask, PrioWake, Wake
<1>3. ASSUME NEW t \in Tasks, NEW u \in Tasks PROVE ~LoopThreadAdd(t, u)
  BY <1>1 DEF LoopThreadAdd, TaskAddTask, Executes
<1>4. ASSUME NEW t \in Tasks, LoopThread(t) PROVE FALSE
  BY <1>1, <1>4, ThreadFrame DEF SleepInv, LoopTypeOK
<1>5. ~PrioIdle
  BY <1>1 DEF PrioIdle, Return, Tasks, Idle
<1>6. ~(LoopSysTick \/ LoopLaunch \/ LoopEnter \/ AllAwake \/ Reap \/ LoopReturn)
  BY <1>1
  DEF LoopSysTick, CountTick, LoopLaunch, LoopEnter, PendSVEnter, AllAwake,
      Reap, LoopReturn, PendSVReturn
<1>7. ASSUME NEW l \in Levels, NEW t \in Tasks PROVE ~PrioLeave(l, t)
  BY <1>1 DEF PrioLeave, PutAside, Retire, coreVars
<1>8. PICK l \in Levels, t \in Tasks : FixedChoose(l, t) \/ AgingChoose(l, t)
  BY <1>1, <1>2, <1>3, <1>4, <1>5, <1>6, <1>7, PanicFrame DEF PrioNext, LoopThreads
<1>9. PoppedFrom(l, t) /\ current' = t
  BY <1>8 DEF FixedChoose, AgingChoose, Choose, Return
<1>10. QED
  BY <1>9

\* ... or is first in line, even if edf runs it for its missed deadline.
LEMMA LinePicks ==
  ASSUME SleepInv, LineNext, Dispatch
  PROVE  FirstInLine(current')
<1>1. mode = "select" /\ mode' = "restore" /\ current' \in Tasks
  BY DEF Dispatch
<1>2. ASSUME NEW t \in Tasks PROVE ~LoopBootAdd(t) /\ ~LineWake(t)
  BY <1>1 DEF LoopBootAdd, BootAddTask, LineWake, Wake
<1>3. ASSUME NEW t \in Tasks, NEW u \in Tasks PROVE ~LoopThreadAdd(t, u)
  BY <1>1 DEF LoopThreadAdd, TaskAddTask, Executes
<1>4. ASSUME NEW t \in Tasks, LoopThread(t) PROVE FALSE
  BY <1>1, <1>4, ThreadFrame DEF SleepInv, LoopTypeOK
<1>5. ~LineIdle
  BY <1>1 DEF LineIdle, Return, Tasks, Idle
<1>6. ~(LoopSysTick \/ LoopLaunch \/ LoopEnter \/ CfsBegin \/ EdfBegin \/ Reap
          \/ LineReturn)
  BY <1>1
  DEF LoopSysTick, CountTick, LoopLaunch, LoopEnter, PendSVEnter, CfsBegin,
      EdfBegin, AllAwake, Reap, LineReturn, LoopReturn, PendSVReturn
<1>7. ASSUME NEW t \in Tasks PROVE ~CfsLeave(t) /\ ~EdfLeave(t)
  BY <1>1 DEF CfsLeave, EdfLeave, PutAside, Retire, coreVars
<1>8. ASSUME NEW t \in Tasks
      PROVE  ~EdfKill(t) /\ ~EdfPanic(t) /\ \A u \in Tasks : ~EdfReplace(t, u)
  BY <1>1 DEF EdfKill, EdfPanic, EdfReplace
<1>9. PICK t \in Tasks : CfsChoose(t) \/ EdfChoose(t) \/ EdfExpired(t)
  BY PanicFrame, <1>1, <1>2, <1>3, <1>4, <1>5, <1>6, <1>7, <1>8
  DEF LineNext, CfsNext, EdfNext, LoopThreads
<1>10. FirstInLine(t) /\ current' = t
  BY <1>9 DEF CfsChoose, EdfChoose, EdfExpired, Choose, Return
<1>11. QED
  BY <1>10

LEMMA FirstOfQueues ==
  ASSUME PrioState, NEW l \in Levels, NEW t \in Tasks, PoppedFrom(l, t),
         NEW u \in PrioHeld
  PROVE  priority[t] <= priority[u]
<1>1. PICK m \in Levels : u \in Range(queues[m])
  BY HeldByPrio DEF PrioState
<1>2. queues[m] # << >> /\ queues[l] # << >> /\ t = Head(queues[l])
  BY <1>1 DEF PoppedFrom, Range
<1>3. t \in Range(queues[l])
  BY <1>2, PopAtHead DEF PrioState
<1>4. priority[t] = l /\ priority[u] = m
  BY <1>1, <1>3 DEF PrioState
<1>5. ~(m < l)
  BY <1>2 DEF PoppedFrom
<1>6. QED
  BY <1>4, <1>5 DEF Levels, MaximumPriority

LEMMA FirstOfLine ==
  ASSUME LineState, key \in [Tasks -> Nat], NEW t \in Tasks, FirstInLine(t),
         NEW u \in LineHeld
  PROVE  key[t] <= key[u]
<1>1. PICK j \in 1..Len(line) : line[j] = u
  BY RangeMembers DEF LineState, LineHeld
<1>2. t = line[1] /\ Len(line) \in Nat
  BY PopAtHead DEF LineState, InOrder, FirstInLine
<1>3. j = 1 => key[t] <= key[u]
  BY <1>1, <1>2
<1>4. j # 1 => key[t] <= key[u]
  BY <1>1, <1>2 DEF LineState, InOrder
<1>5. QED
  BY <1>3, <1>4

\* Every scheduler tests the state of the task that it chooses, except edf if
\* the task is overdue.
LEMMA PicksRunnable ==
  ASSUME CoreTypeOK, Next, Dispatch
  PROVE  state[current'] \in Runnable \/ Overdue(current')
<1>1. mode = "select" /\ mode' = "restore" /\ current' \in Tasks
  BY DEF Dispatch
<1>2. CommonStep \/ EdfStep
  BY EveryStep
<1>3. ASSUME NEW t \in Tasks, LoopThread(t) PROVE FALSE
  BY <1>1, <1>3, ThreadFrame
<1>4. ~LoopPanic /\ ~Return(Idle)
  BY <1>1, PanicFrame DEF Return, Tasks, Idle
<1>5. ~(Counts \/ LoopLaunch \/ LoopEnter \/ LoopReturn \/ AllAwake \/ Reap)
  BY <1>1
  DEF Counts, CountTick, LoopLaunch, LoopEnter, PendSVEnter, AllAwake, Reap,
      LoopReturn, PendSVReturn
<1>6. ASSUME NEW t \in Tasks
      PROVE  /\ ~LoopBootAdd(t) /\ ~Wake(t) /\ ~PutAside(t) /\ ~Retire(t)
             /\ \A u \in Tasks : ~LoopThreadAdd(t, u)
  BY <1>1
  DEF LoopBootAdd, BootAddTask, Wake, PutAside, Retire, LoopThreadAdd,
      TaskAddTask, Executes, coreVars
<1>7. ASSUME NEW t \in Tasks
      PROVE  ~EdfKill(t) /\ ~EdfPanic(t) /\ \A u \in Tasks : ~EdfReplace(t, u)
  BY <1>1 DEF EdfKill, EdfPanic, EdfReplace
<1>8. ~UNCHANGED <<coreVars, loopVars>>
  BY <1>1 DEF coreVars
<1>9. PICK t \in Tasks : Choose(t) \/ (kind = "edf" /\ EdfExpired(t))
  BY <1>2, <1>3, <1>4, <1>5, <1>6, <1>7, <1>8 DEF CommonStep, EdfStep
<1>10. QED
  BY <1>9 DEF Choose, EdfExpired, Return, Overdue

\* The task that is switched to can run and has the highest priority, the
\* earliest deadline or the smallest vruntime of all tasks that could run;
\* an overdue task of edf has the earliest deadline but may be asleep.
THEOREM FirstComesFirst == Spec => DispatchesFirst
<1>1. ASSUME KernelInv, Next, Dispatch, NEW u \in Tasks, CouldRun(u)
      PROVE  Before(current', u)
  <2>1. SleepInv /\ OwnState /\ KnownKind /\ u \in Held /\ current' \in Tasks
    BY <1>1 DEF KernelInv, CouldRun, Dispatch
  <2>2. PICK t \in Tasks : t = current'
    BY <2>1
  <2>3. CASE kind \in Priority
    <3>1. PrioNext /\ PrioState /\ u \in PrioHeld
      BY <1>1, <2>1, <2>3 DEF Next, Priority, Deadline, Lottery, OwnState, Held
    <3>2. PICK l \in Levels : PoppedFrom(l, t)
      BY <1>1, <2>1, <2>2, <3>1, PrioPicks
    <3>3. priority[t] <= priority[u]
      BY <3>1, <3>2, FirstOfQueues
    <3>4. QED
      BY <2>2, <2>3, <3>3 DEF Before, Priority, Deadline
  <2>4. CASE kind \in Deadline
    <3>1. LineNext /\ LineState /\ u \in LineHeld /\ key \in [Tasks -> Nat]
      BY <1>1, <2>1, <2>4
      DEF Next, Priority, Deadline, Lottery, OwnState, Held, SleepInv, Keys
    <3>2. FirstInLine(t)
      BY <1>1, <2>1, <2>2, <3>1, LinePicks
    <3>3. key[t] <= key[u]
      BY <3>1, <3>2, FirstOfLine
    <3>4. QED
      BY <2>2, <2>4, <3>3 DEF Before, Priority, Deadline
  <2>5. CASE kind \notin Priority \cup Deadline
    BY <2>5 DEF Before
  <2>6. QED
    BY <2>3, <2>4, <2>5
<1>2. ASSUME KernelInv, Next, Dispatch
      PROVE  state[current'] \in Runnable \/ Overdue(current')
  BY <1>2, PicksRunnable DEF KernelInv, SleepInv, LoopTypeOK
<1>3. KernelInv /\ [Next]_vars =>
        [Dispatch =>
           /\ \A u \in Tasks : CouldRun(u) => Before(current', u)
           /\ state[current'] \in Runnable \/ Overdue(current')]_vars
  BY <1>1, <1>2
<1>4. QED
  BY <1>3, KernelInvariant, PTL DEF Spec, DispatchesFirst

=============================================================================
