-------------------------- MODULE RoundRobinProofs --------------------------
(***************************************************************************)
(* The safety of the round-robin kernel for every pool size, quantum and   *)
(* time bound: no task is lost, no sleep is cut short, no freed context    *)
(* runs, and every step is one the abstract service allows; and the same   *)
(* of the cooperative preemptive kernel, which is built on it.             *)
(***************************************************************************)
EXTENDS CoopPreemptive, SequenceTheorems, FiniteSetTheorems, TLAPS

-----------------------------------------------------------------------------
(* The inductive invariant                                                 *)

\* What the point a thread has reached says about its control block.
ThreadOK(t) ==
  /\ state[t] # "NONE"
  /\ state[t] = "WAIT" =>
       pc[t] \in {"sleep_yield", "asleep"} /\ next_run[t] = deadline[t]
  /\ pc[t] \in {"sleep_yield", "asleep"} /\ state[t] # "WAIT" =>
       state[t] \in Runnable /\ deadline[t] <= tick
  /\ pc[t] = "set_wait" => next_run[t] = deadline[t]
  /\ pc[t] \in {"exit_yield", "gone"} <=> state[t] = "DONE"

ThreadState == \A t \in allocated : ThreadOK(t)

\* Ticks stay below the bound, hence below the wrap of the counter.
TickBounds ==
  /\ tick <= MaxTick
  /\ \A t \in Tasks : next_run[t] <= MaxTick /\ deadline[t] <= MaxTick

\* What each mode of the processor says about the queues and current.
ModeState ==
  /\ mode = "boot" =>
       /\ \A t \in allocated : state[t] = "READY" /\ pc[t] = "wrapper"
       /\ current \in allocated \cup {NoTask}
  /\ (hand # NoTask) <=> (mode = "reap")
  /\ mode = "reap" => state[hand] = "DONE"
  /\ mode \in {"thread"} =>
       /\ current \in allocated \cup {Idle}
       /\ current # Idle /\ pc[current] = "gone" => pend
       /\ current # Idle /\ pc[current] = "asleep"
            /\ state[current] = "WAIT" => pend
  /\ mode = "restore" =>
       \/ current \in allocated /\ state[current] \in Runnable
       \/ current = Idle /\ \A t \in allocated : state[t] \notin Runnable

\* The waiting queue holds sleepers only.
WaitingState == \A t \in waiting : state[t] = "WAIT"

IInv ==
  /\ Typed
  /\ TaskPlacement
  /\ ThreadState
  /\ TickBounds
  /\ ModeState
  /\ WaitingState

-----------------------------------------------------------------------------
(* Sequences without duplicates                                            *)

\* What a push at the tail does to the members of a queue.
LEMMA AppendContains ==
  ASSUME NEW S, NEW q \in Seq(S), NEW t \in S
  PROVE  /\ Append(q, t) \in Seq(S)
         /\ \A u : Contains(Append(q, t), u) <=> Contains(q, u) \/ u = t
         /\ IsInjective(q) /\ ~Contains(q, t) => IsInjective(Append(q, t))
<1>1. /\ Append(q, t) \in Seq(S)
      /\ Len(Append(q, t)) = Len(q) + 1
      /\ \A i \in 1..Len(q) : Append(q, t)[i] = q[i]
      /\ Append(q, t)[Len(q) + 1] = t
  BY AppendProperties
<1>2. Len(q) \in Nat /\ DOMAIN q = 1..Len(q)
      /\ DOMAIN Append(q, t) = 1..(Len(q) + 1)
  BY <1>1, LenProperties
<1>3. \A u : Contains(Append(q, t), u) <=> Contains(q, u) \/ u = t
  BY <1>1, <1>2 DEF Contains
<1>4. IsInjective(q) /\ ~Contains(q, t) => IsInjective(Append(q, t))
  BY <1>1, <1>2 DEF IsInjective, Contains
<1>5. QED
  BY <1>1, <1>3, <1>4

\* What a pop at the head does to the members of a queue.
LEMMA TailContains ==
  ASSUME NEW S, NEW q \in Seq(S), q # << >>, IsInjective(q)
  PROVE  /\ Head(q) \in S
         /\ Tail(q) \in Seq(S)
         /\ Contains(q, Head(q))
         /\ \A u : Contains(Tail(q), u) <=> Contains(q, u) /\ u # Head(q)
         /\ IsInjective(Tail(q))
<1>1. /\ Head(q) \in S
      /\ Tail(q) \in Seq(S)
      /\ Len(Tail(q)) = Len(q) - 1
      /\ \A i \in 1..Len(Tail(q)) : Tail(q)[i] = q[i + 1]
  BY HeadTailProperties
<1>2. /\ Len(q) \in Nat /\ Len(q) > 0
      /\ DOMAIN q = 1..Len(q)
      /\ DOMAIN Tail(q) = 1..(Len(q) - 1)
  BY <1>1, LenProperties, EmptySeq
<1>3. Head(q) = q[1]
  BY <1>2
<1>4. Contains(q, Head(q))
  BY <1>2, <1>3 DEF Contains
<1>5. ASSUME NEW u
      PROVE  Contains(Tail(q), u) <=> Contains(q, u) /\ u # Head(q)
  <2>1. Contains(Tail(q), u) => Contains(q, u) /\ u # Head(q)
    BY <1>1, <1>2, <1>3 DEF Contains, IsInjective
  <2>2. ASSUME Contains(q, u), u # Head(q)
        PROVE  Contains(Tail(q), u)
    <3>1. PICK i \in 1..Len(q) : q[i] = u
      BY <2>2 DEF Contains
    <3>2. i # 1
      BY <3>1, <2>2, <1>3
    <3>3. i - 1 \in 1..Len(Tail(q)) /\ Tail(q)[i - 1] = u
      BY <3>1, <3>2, <1>1, <1>2
    <3>4. QED
      BY <3>3 DEF Contains
  <2>3. QED
    BY <2>1, <2>2
<1>6. IsInjective(Tail(q))
  BY <1>1, <1>2 DEF IsInjective
<1>7. QED
  BY <1>1, <1>4, <1>5, <1>6

\* A queue of tasks without duplicates is no longer than the pool.
LEMMA QueueFits ==
  ASSUME NEW q \in Seq(Tasks), IsInjective(q)
  PROVE  Len(q) \in Nat /\ Len(q) <= MaximumTasks
<1>1. Len(q) \in Nat /\ q \in [1..Len(q) -> Tasks]
  BY LenProperties, ElementOfSeq
<1>2. q \in Injection(1..Len(q), Tasks)
  BY <1>1 DEF Injection
<1>3. /\ IsFiniteSet(Tasks)
      /\ Cardinality(Tasks) = MaximumTasks
  BY FS_Interval, MaximumTasksAssumption DEF Tasks
<1>4. Cardinality(1..Len(q)) = Len(q)
  BY <1>1, FS_Interval
<1>5. QED
  BY <1>1, <1>2, <1>3, <1>4, FS_Injection

\* A push of a task that is not in the ready queue finds room there.
LEMMA PushFits ==
  ASSUME NEW q \in Seq(Tasks), IsInjective(q),
         NEW t \in Tasks, ~Contains(q, t)
  PROVE  /\ PushReady(q, t) \in Seq(Tasks)
         /\ \A u : Contains(PushReady(q, t), u) <=> Contains(q, u) \/ u = t
         /\ IsInjective(PushReady(q, t))
<1>1. Len(q) < ReadyCapacity
  BY QueueFits, MaximumTasksAssumption DEF ReadyCapacity
<1>2. PushReady(q, t) = Append(q, t)
  BY <1>1 DEF PushReady
<1>3. QED
  BY <1>2, AppendContains

\* A sleeper that is not in the waiting queue finds room there.
LEMMA SleeperFits ==
  ASSUME waiting \subseteq Tasks, NEW t \in Tasks, t \notin waiting
  PROVE  PushWaiting(t) = waiting \cup {t}
<1>1. /\ IsFiniteSet(Tasks)
      /\ Cardinality(Tasks) = MaximumTasks
  BY FS_Interval, MaximumTasksAssumption DEF Tasks
<1>2. IsFiniteSet(waiting) /\ IsFiniteSet(waiting \cup {t})
  BY <1>1, FS_Subset
<1>3. /\ Cardinality(waiting) \in Nat
      /\ Cardinality(waiting \cup {t}) = Cardinality(waiting) + 1
  BY <1>2, FS_AddElement, FS_CardinalityType
<1>4. Cardinality(waiting \cup {t}) <= MaximumTasks
  BY <1>1, FS_Subset
<1>5. Cardinality(waiting) < MaximumTasks
  BY <1>3, <1>4, MaximumTasksAssumption
<1>6. QED
  BY <1>5 DEF PushWaiting, WaitingCapacity

-----------------------------------------------------------------------------
(* The invariant is inductive: the interrupts, the boot code, the threads  *)

LEMMA InitIInv == Init => IInv
<1> SUFFICES ASSUME Init PROVE IInv
  OBVIOUS
<1> USE DEF Init, CoreInit
<1>1. Typed
  <2>1. ready \in Seq(Tasks)
    OBVIOUS
  <2>2. QED
    BY <2>1 DEF Typed, CoreTypeOK, SchedTypeOK, Modes, States, Points
<1>2. TaskPlacement
  <2>1. ready \in Seq(Tasks) /\ Len(ready) = 0 /\ DOMAIN ready = {}
    OBVIOUS
  <2>2. IsInjective(ready) /\ \A t : ~InReady(t)
    BY <2>1 DEF IsInjective, InReady, Contains
  <2>3. QED
    BY <2>2 DEF TaskPlacement, Tasks, NoTask
<1>3. ThreadState /\ TickBounds /\ ModeState /\ WaitingState
  BY TickAssumption
  DEF ThreadState, TickBounds, ModeState, WaitingState, HandlerStages
<1>4. QED
  BY <1>1, <1>2, <1>3 DEF IInv

\* The placement of tasks depends on the pool and the queues alone.
LEMMA SamePlacement ==
  ASSUME TaskPlacement, UNCHANGED <<allocated, schedVars>>
  PROVE  TaskPlacement'
BY DEF TaskPlacement, schedVars, InReady

\* A tick, whatever the quantum is and however much of it has passed.
LEMMA ClockKeepsIInv ==
  ASSUME IInv, NEW elapsed \in Nat, NEW quantum \in Nat \cup {Infinite},
         CountTick(elapsed, quantum), UNCHANGED schedVars
  PROVE  IInv'
<1> USE DEF CountTick, schedVars, tcbVars, threadVars
<1>1. tick \in Nat /\ tick' \in Nat /\ tick <= tick' /\ tick' <= MaxTick
  BY TickAssumption, NoWrapAssumption
  DEF IInv, Typed, CoreTypeOK, TickBounds
<1>2. Typed'
  <2>1. counter' \in Nat
    OBVIOUS
  <2>2. pend' \in BOOLEAN
    BY DEF IInv, Typed, CoreTypeOK
  <2>3. QED
    BY <1>1, <2>1, <2>2 DEF IInv, Typed, CoreTypeOK, SchedTypeOK
<1>3. TaskPlacement'
  BY SamePlacement DEF IInv
<1>4. ThreadState'
  BY <1>1 DEF IInv, ThreadState, ThreadOK, Typed, CoreTypeOK
<1>5. TickBounds'
  BY <1>1 DEF IInv, TickBounds
<1>6. ModeState' /\ WaitingState'
  <2>1. pend => pend'
    OBVIOUS
  <2>2. QED
    BY <2>1 DEF IInv, ModeState, WaitingState
<1>7. QED
  BY <1>2, <1>3, <1>4, <1>5, <1>6 DEF IInv

LEMMA SysTickKeepsIInv == IInv /\ SysTickIn => IInv'
BY ClockKeepsIInv, QuantaAssumption
DEF SysTickIn, SysTick, IInv, Typed, CoreTypeOK

\* A new task: a free slot that enters the ready queue.
LEMMA AllocKeepsPlacement ==
  ASSUME IInv, NEW u \in Tasks, AllocTask(u),
         ready' = PushReady(ready, u), UNCHANGED <<waiting, hand, tick>>
  PROVE  /\ TaskPlacement' /\ WaitingState' /\ ThreadState'
         /\ ready' \in Seq(Tasks)
<1>1. u \notin allocated /\ ~InReady(u) /\ u \notin waiting /\ u # hand
  BY DEF AllocTask, IsFirstFree, FreeSlots, IInv, TaskPlacement, Tasks, NoTask
<1>3. /\ ready' \in Seq(Tasks)
      /\ \A t : InReady(t)' <=> InReady(t) \/ t = u
      /\ IsInjective(ready')
  BY <1>1, PushFits
  DEF IInv, TaskPlacement, InReady, Typed, SchedTypeOK
<1>4. TaskPlacement'
  BY <1>1, <1>3 DEF AllocTask, IInv, TaskPlacement
<1>5. WaitingState'
  BY <1>1 DEF IInv, WaitingState, AllocTask, Typed, CoreTypeOK, SchedTypeOK
<1>6. ThreadState'
  <2> SUFFICES ASSUME NEW t \in allocated'
               PROVE  ThreadOK(t)'
    BY DEF ThreadState
  <2>1. CASE t = u
    BY <1>1, <2>1 DEF ThreadOK, AllocTask, IInv, Typed, CoreTypeOK, Runnable
  <2>2. CASE t # u
    <3>1. /\ t \in allocated
          /\ UNCHANGED <<state[t], next_run[t], pc[t], deadline[t], tick>>
      BY <2>2 DEF AllocTask, IInv, Typed, CoreTypeOK
    <3>2. QED
      BY <3>1 DEF IInv, ThreadState, ThreadOK
  <2>3. QED
    BY <2>1, <2>2
<1>7. QED
  BY <1>3, <1>4, <1>5, <1>6

LEMMA BootAddKeepsIInv == ASSUME NEW t \in Tasks PROVE IInv /\ BootAdd(t) => IInv'
<1> SUFFICES ASSUME IInv, BootAdd(t) PROVE IInv'
  OBVIOUS
<1>1. /\ AllocTask(t)
      /\ mode = "boot"
      /\ current' = IF current = NoTask THEN t ELSE current
      /\ UNCHANGED <<tick, counter, pend, primask, mode, waiting, hand>>
      /\ ready' = PushReady(ready, t)
  BY DEF BootAdd, BootAddTask
<1>2. TaskPlacement' /\ WaitingState' /\ ThreadState' /\ ready' \in Seq(Tasks)
  BY <1>1, AllocKeepsPlacement
<1>3. Typed'
  BY <1>1, <1>2
  DEF IInv, Typed, CoreTypeOK, SchedTypeOK, AllocTask, States, Points
<1>4. TickBounds'
  BY <1>1, TickAssumption DEF IInv, TickBounds, AllocTask, Typed, CoreTypeOK
<1>5. ModeState'
  BY <1>1 DEF IInv, ModeState, AllocTask, Typed, CoreTypeOK
<1>6. QED
  BY <1>2, <1>3, <1>4, <1>5 DEF IInv

LEMMA ThreadAddKeepsIInv ==
  ASSUME NEW t \in Tasks, NEW u \in Tasks
  PROVE  IInv /\ ThreadAdd(t, u) => IInv'
<1> SUFFICES ASSUME IInv, ThreadAdd(t, u) PROVE IInv'
  OBVIOUS
<1>1. /\ AllocTask(u)
      /\ mode = "thread" /\ current = t
      /\ UNCHANGED <<tick, counter, pend, primask, mode, current>>
      /\ UNCHANGED <<waiting, hand>>
      /\ ready' = PushReady(ready, u)
  BY DEF ThreadAdd, TaskAddTask, Executes
<1>2. TaskPlacement' /\ WaitingState' /\ ThreadState' /\ ready' \in Seq(Tasks)
  BY <1>1, AllocKeepsPlacement
<1>3. Typed'
  BY <1>1, <1>2
  DEF IInv, Typed, CoreTypeOK, SchedTypeOK, AllocTask, States, Points
<1>4. TickBounds'
  BY <1>1, TickAssumption DEF IInv, TickBounds, AllocTask, Typed, CoreTypeOK
<1>5. ModeState'
  <2>1. t \in allocated /\ u \notin allocated
    BY <1>1 DEF IInv, ModeState, AllocTask, IsFirstFree, FreeSlots, Tasks, Idle
  <2>2. QED
    BY <1>1, <2>1 DEF IInv, ModeState, AllocTask, Typed, CoreTypeOK
<1>6. QED
  BY <1>2, <1>3, <1>4, <1>5 DEF IInv

\* A thread's kernel call touches its own control block and nothing else.
LEMMA ThreadFrame ==
  ASSUME IInv, NEW t \in Tasks, Thread(t)
  PROVE  /\ mode = "thread" /\ current = t /\ ~pend /\ t \in allocated
         /\ UNCHANGED <<tick, counter, primask, mode, current, allocated>>
         /\ UNCHANGED <<ready, waiting, hand>>
         /\ \A u \in Tasks \ {t} :
              UNCHANGED <<state[u], next_run[u], pc[u], deadline[u]>>
<1> USE DEF IInv, Typed, CoreTypeOK, Thread, schedVars, tcbVars, threadVars,
            Executes, Goto
<1>1. mode = "thread" /\ current = t /\ ~pend
  BY DEF ThreadStep, TaskStart, SleepCall, SleepSetNextRun, SleepSetWait,
         SleepYield, SleepReturn, SvcSleep, Yield, TaskDone, TaskExitYield
<1>2. t \in allocated
  BY <1>1 DEF ModeState, Tasks, Idle
<1>3. UNCHANGED <<tick, counter, primask, mode, current, allocated>>
  BY DEF ThreadStep, TaskStart, SleepCall, SleepSetNextRun, SleepSetWait,
         SleepYield, SleepReturn, SvcSleep, Yield, TaskDone, TaskExitYield
<1>4. ASSUME NEW u \in Tasks \ {t}
      PROVE  UNCHANGED <<state[u], next_run[u], pc[u], deadline[u]>>
  BY DEF ThreadStep, TaskStart, SleepCall, SleepSetNextRun, SleepSetWait,
         SleepYield, SleepReturn, SvcSleep, Yield, TaskDone, TaskExitYield
<1>5. QED
  BY <1>1, <1>2, <1>3, <1>4

\* What a kernel call leaves in the control block of its thread.
LEMMA ThreadEffect ==
  ASSUME IInv, NEW t \in Tasks, Thread(t)
  PROVE  /\ CoreTypeOK'
         /\ ThreadOK(t)'
         /\ next_run'[t] <= MaxTick /\ deadline'[t] <= MaxTick
         /\ state'[t] = state[t] \/ state[t] \in Runnable
         /\ pc'[t] \in {"gone", "asleep"} => pend'
<1> USE DEF IInv, Typed, CoreTypeOK, Thread, tcbVars, threadVars,
            ThreadState, ThreadOK, Runnable, Executes, Goto, States, Points
<1> DEFINE Goal ==
       /\ CoreTypeOK'
       /\ ThreadOK(t)'
       /\ next_run'[t] <= MaxTick /\ deadline'[t] <= MaxTick
       /\ state'[t] = state[t] \/ state[t] \in Runnable
       /\ pc'[t] \in {"gone", "asleep"} => pend'
<1>1. t \in allocated /\ current = t /\ mode = "thread" /\ ~pend
      /\ UNCHANGED <<tick, counter, primask, mode, current, allocated>>
  BY ThreadFrame
<1>2. /\ tick \in Nat /\ tick <= MaxTick
      /\ next_run[t] \in Nat /\ next_run[t] <= MaxTick
      /\ deadline[t] \in Nat /\ deadline[t] <= MaxTick
  BY DEF TickBounds
<1>3. ASSUME NEW ms \in SleepTimes, tick + ms <= MaxTick
      PROVE  (tick + ms) % TickModulus \in Nat
             /\ (tick + ms) % TickModulus <= MaxTick
  <2>1. tick + ms \in Nat /\ tick + ms < TickModulus
    BY <1>2, <1>3, TickAssumption, NoWrapAssumption, SleepTimesAssumption
  <2>2. (tick + ms) % TickModulus = tick + ms
    BY <2>1, TickAssumption
  <2>3. QED
    BY <2>1, <2>2, <1>3
<1>4. CASE TaskStart(t)
  BY <1>1, <1>2, <1>4 DEF TaskStart
<1>5. CASE SleepCall(t)
  BY <1>1, <1>2, <1>3, <1>5 DEF SleepCall
<1>6. CASE SleepSetNextRun(t)
  BY <1>1, <1>2, <1>6 DEF SleepSetNextRun
<1>7. CASE SleepSetWait(t)
  BY <1>1, <1>2, <1>7 DEF SleepSetWait
<1>8. CASE SleepYield(t)
  BY <1>1, <1>2, <1>8 DEF SleepYield
<1>9. CASE SleepReturn(t)
  BY <1>1, <1>2, <1>9, TickAssumption DEF SleepReturn, ModeState, Tasks, Idle
<1>10. CASE SvcSleep(t)
  BY <1>1, <1>2, <1>3, <1>10 DEF SvcSleep
<1>11. CASE Yield(t)
  BY <1>1, <1>2, <1>11 DEF Yield
<1>12. CASE TaskDone(t)
  BY <1>1, <1>2, <1>12 DEF TaskDone
<1>13. CASE TaskExitYield(t)
  BY <1>1, <1>2, <1>13 DEF TaskExitYield
<1>14. QED
  BY <1>4, <1>5, <1>6, <1>7, <1>8, <1>9, <1>10, <1>11, <1>12, <1>13
  DEF ThreadStep

LEMMA ThreadKeepsIInv == ASSUME NEW t \in Tasks PROVE IInv /\ Thread(t) => IInv'
<1> SUFFICES ASSUME IInv, Thread(t) PROVE IInv'
  OBVIOUS
<1>1. /\ mode = "thread" /\ current = t /\ ~pend /\ t \in allocated
      /\ UNCHANGED <<tick, counter, primask, mode, current, allocated>>
      /\ UNCHANGED <<ready, waiting, hand>>
      /\ \A u \in Tasks \ {t} :
           UNCHANGED <<state[u], next_run[u], pc[u], deadline[u]>>
  BY ThreadFrame
<1>2. /\ CoreTypeOK'
      /\ ThreadOK(t)'
      /\ next_run'[t] <= MaxTick /\ deadline'[t] <= MaxTick
      /\ state'[t] = state[t] \/ state[t] \in Runnable
      /\ pc'[t] \in {"gone", "asleep"} => pend'
  BY ThreadEffect
<1>3. Typed'
  BY <1>1, <1>2 DEF IInv, Typed, SchedTypeOK
<1>4. TaskPlacement'
  BY <1>1, SamePlacement DEF IInv, schedVars
<1>5. ThreadState'
  <2> SUFFICES ASSUME NEW u \in allocated, u # t PROVE ThreadOK(u)'
    BY <1>1, <1>2 DEF ThreadState
  <2>1. u \in Tasks \ {t}
    BY DEF IInv, Typed, CoreTypeOK
  <2>2. QED
    BY <1>1, <2>1 DEF IInv, ThreadState, ThreadOK
<1>6. TickBounds'
  BY <1>1, <1>2 DEF IInv, TickBounds
<1>7. ModeState'
  BY <1>1, <1>2 DEF IInv, ModeState, HandlerStages
<1>8. WaitingState'
  <2>1. state[t] \in Runnable => t \notin waiting
    BY DEF IInv, WaitingState, Runnable
  <2>2. QED
    BY <1>1, <1>2, <2>1 DEF IInv, WaitingState, Typed, SchedTypeOK
<1>9. QED
  BY <1>3, <1>4, <1>5, <1>6, <1>7, <1>8 DEF IInv

LEMMA PanicKeepsIInv == IInv /\ Panicked => IInv'
<1> SUFFICES ASSUME IInv, Panicked PROVE IInv'
  OBVIOUS
<1>1. /\ mode \in {"boot", "thread", "panic"} /\ mode' = "panic"
      /\ primask' \in BOOLEAN
      /\ UNCHANGED <<tick, counter, pend, current, tcbVars, threadVars>>
      /\ UNCHANGED schedVars
  BY DEF Panicked, Panic, AddTaskPanic, PanicLoop, Executes, coreVars,
         IInv, Typed, CoreTypeOK
<1> USE DEF tcbVars, threadVars, schedVars
<1>2. Typed'
  BY <1>1 DEF IInv, Typed, CoreTypeOK, SchedTypeOK, Modes
<1>3. TaskPlacement'
  BY <1>1, SamePlacement DEF IInv
<1>4. ThreadState' /\ TickBounds' /\ WaitingState'
  BY <1>1 DEF IInv, ThreadState, ThreadOK, TickBounds, WaitingState
<1>5. ModeState'
  BY <1>1 DEF IInv, ModeState
<1>6. QED
  BY <1>2, <1>3, <1>4, <1>5 DEF IInv

\* A task popped from the ready queue and pushed back to its tail.
LEMMA RotateKeepsPlacement ==
  ASSUME IInv, ready # << >>,
         ready' = PushReady(Tail(ready), Head(ready)),
         UNCHANGED <<allocated, waiting, hand>>
  PROVE  /\ TaskPlacement'
         /\ ready' \in Seq(Tasks)
         /\ Head(ready) \in Tasks /\ Head(ready) \in allocated
<1>1. ready \in Seq(Tasks) /\ IsInjective(ready)
  BY DEF IInv, Typed, SchedTypeOK, TaskPlacement
<1>2. /\ Head(ready) \in Tasks
      /\ Tail(ready) \in Seq(Tasks)
      /\ InReady(Head(ready))
      /\ \A u : Contains(Tail(ready), u) <=> InReady(u) /\ u # Head(ready)
      /\ IsInjective(Tail(ready))
  BY <1>1, TailContains DEF InReady
<1>3. /\ ready' \in Seq(Tasks)
      /\ \A u : Contains(ready', u) <=>
                Contains(Tail(ready), u) \/ u = Head(ready)
      /\ IsInjective(ready')
  <2>1. ~Contains(Tail(ready), Head(ready))
    BY <1>2
  <2>2. QED
    BY <1>2, <2>1, PushFits
<1>4. \A u : InReady(u)' <=> InReady(u)
  BY <1>2, <1>3 DEF InReady
<1>5. TaskPlacement'
  BY <1>3, <1>4 DEF IInv, TaskPlacement
<1>6. QED
  BY <1>2, <1>3, <1>5 DEF IInv, TaskPlacement

LEMMA LaunchKeepsIInv == IInv /\ Launch => IInv'
<1> SUFFICES ASSUME IInv, Launch PROVE IInv'
  OBVIOUS
<1>1. /\ mode = "boot" /\ mode' = "thread"
      /\ UNCHANGED <<tick, counter, pend, primask, tcbVars, threadVars>>
      /\ UNCHANGED <<waiting, hand>>
      /\ ready = << >> => current' = Idle /\ UNCHANGED ready
      /\ ready # << >> => /\ current' = Head(ready)
                          /\ ready' = PushReady(Tail(ready), Head(ready))
  BY DEF Launch
<1> USE DEF tcbVars, threadVars
<1>2. /\ TaskPlacement' /\ ready' \in Seq(Tasks)
      /\ current' \in allocated \cup {Idle}
  <2>1. CASE ready = << >>
    BY <1>1, <2>1, SamePlacement
    DEF IInv, Typed, SchedTypeOK, schedVars
  <2>2. CASE ready # << >>
    BY <1>1, <2>2, RotateKeepsPlacement
  <2>3. QED
    BY <2>1, <2>2
<1>3. Typed'
  BY <1>1, <1>2 DEF IInv, Typed, CoreTypeOK, SchedTypeOK, Modes
<1>4. ThreadState' /\ TickBounds' /\ WaitingState'
  BY <1>1 DEF IInv, ThreadState, ThreadOK, TickBounds, WaitingState
<1>5. ModeState'
  BY <1>1, <1>2 DEF IInv, ModeState
<1>6. QED
  BY <1>2, <1>3, <1>4, <1>5 DEF IInv

-----------------------------------------------------------------------------
(* The invariant is inductive: the PendSV handler                          *)

LEMMA EnterKeepsIInv == IInv /\ (Enter \/ WakeEnd \/ Return) => IInv'
<1> SUFFICES ASSUME IInv, Enter \/ WakeEnd \/ Return PROVE IInv'
  OBVIOUS
<1> USE DEF Enter, WakeEnd, Return, PendSVEnter, PendSVReturn, tcbVars,
            threadVars, schedVars
<1>1. Typed'
  <2>1. /\ mode' \in Modes /\ pend' \in BOOLEAN /\ primask' \in BOOLEAN
        /\ UNCHANGED <<tick, counter, current, tcbVars, threadVars, schedVars>>
    BY DEF Modes, HandlerStages, IInv, Typed, CoreTypeOK
  <2>2. QED
    BY <2>1 DEF IInv, Typed, CoreTypeOK, SchedTypeOK
<1>2. TaskPlacement'
  BY SamePlacement DEF IInv
<1>3. ThreadState' /\ TickBounds' /\ WaitingState'
  BY DEF IInv, ThreadState, ThreadOK, TickBounds, WaitingState
<1>4. ModeState'
  <2>1. CASE Enter \/ WakeEnd
    BY <2>1 DEF IInv, ModeState
  <2>2. CASE Return
    BY <2>2 DEF IInv, ModeState, ThreadState, ThreadOK, Runnable
  <2>3. QED
    BY <2>1, <2>2
<1>5. QED
  BY <1>1, <1>2, <1>3, <1>4 DEF IInv

LEMMA WakeDueKeepsIInv ==
  ASSUME NEW t \in Tasks PROVE IInv /\ WakeDue(t) => IInv'
<1> SUFFICES ASSUME IInv, WakeDue(t) PROVE IInv'
  OBVIOUS
<1> USE DEF WakeDue, Due, threadVars
<1>1. /\ t \in waiting /\ t \in allocated /\ ~InReady(t) /\ t # hand
      /\ state[t] = "WAIT"
  BY DEF IInv, TaskPlacement, WaitingState
<1>3. /\ ready' \in Seq(Tasks)
      /\ \A u : InReady(u)' <=> InReady(u) \/ u = t
      /\ IsInjective(ready')
  BY <1>1, PushFits
  DEF IInv, TaskPlacement, InReady, Typed, SchedTypeOK
<1>4. TaskPlacement'
  BY <1>1, <1>3 DEF IInv, TaskPlacement
<1>5. Typed'
  BY <1>3 DEF IInv, Typed, CoreTypeOK, SchedTypeOK, States
<1>6. ThreadState'
  <2> SUFFICES ASSUME NEW u \in allocated PROVE ThreadOK(u)'
    BY DEF ThreadState
  <2>1. CASE u = t
    BY <1>1, <2>1
    DEF IInv, ThreadState, ThreadOK, Runnable, Typed, CoreTypeOK
  <2>2. CASE u # t
    <3>1. UNCHANGED <<state[u], next_run[u], pc[u], deadline[u], tick>>
      BY <2>2 DEF IInv, Typed, CoreTypeOK
    <3>2. QED
      BY <3>1 DEF IInv, ThreadState, ThreadOK
  <2>3. QED
    BY <2>1, <2>2
<1>7. TickBounds' /\ ModeState'
  BY DEF IInv, TickBounds, ModeState, Typed, CoreTypeOK
<1>8. WaitingState'
  BY DEF IInv, WaitingState, Typed, CoreTypeOK, SchedTypeOK
<1>9. QED
  BY <1>4, <1>5, <1>6, <1>7, <1>8 DEF IInv

\* A task popped from the ready queue, before it is placed again.
LEMMA PoppedTask ==
  ASSUME IInv, NEW t \in Tasks, Popped(t)
  PROVE  /\ t = Head(ready) /\ ready # << >> /\ mode = "select"
         /\ InReady(t) /\ t \in allocated /\ t \notin waiting /\ t # hand
         /\ hand = NoTask
         /\ Tail(ready) \in Seq(Tasks)
         /\ \A u : Contains(Tail(ready), u) <=> InReady(u) /\ u # t
         /\ IsInjective(Tail(ready))
<1>1. /\ t = Head(ready) /\ ready # << >> /\ mode = "select"
      /\ ready \in Seq(Tasks) /\ IsInjective(ready)
  BY DEF Popped, IInv, Typed, SchedTypeOK, TaskPlacement
<1>2. /\ InReady(t)
      /\ Tail(ready) \in Seq(Tasks)
      /\ \A u : Contains(Tail(ready), u) <=> InReady(u) /\ u # t
      /\ IsInjective(Tail(ready))
  BY <1>1, TailContains DEF InReady
<1>3. hand = NoTask
  BY <1>1 DEF IInv, ModeState
<1>4. QED
  BY <1>1, <1>2, <1>3 DEF IInv, TaskPlacement

LEMMA SelectRunnableKeepsIInv ==
  ASSUME NEW t \in Tasks PROVE IInv /\ SelectRunnable(t) => IInv'
<1> SUFFICES ASSUME IInv, SelectRunnable(t) PROVE IInv'
  OBVIOUS
<1> USE DEF SelectRunnable, tcbVars, threadVars
<1>1. t = Head(ready) /\ ready # << >> /\ t \in allocated /\ hand = NoTask
  BY PoppedTask
<1>2. TaskPlacement' /\ ready' \in Seq(Tasks)
  BY <1>1, RotateKeepsPlacement
<1>3. Typed'
  BY <1>2 DEF IInv, Typed, CoreTypeOK, SchedTypeOK, Modes, HandlerStages
<1>4. ThreadState' /\ TickBounds' /\ WaitingState'
  BY DEF IInv, ThreadState, ThreadOK, TickBounds, WaitingState
<1>5. ModeState'
  BY <1>1 DEF ModeState
<1>6. QED
  BY <1>2, <1>3, <1>4, <1>5 DEF IInv

LEMMA SelectWaitingKeepsIInv ==
  ASSUME NEW t \in Tasks PROVE IInv /\ SelectWaiting(t) => IInv'
<1> SUFFICES ASSUME IInv, SelectWaiting(t) PROVE IInv'
  OBVIOUS
<1> USE DEF SelectWaiting, coreVars, tcbVars, threadVars
<1>1. /\ InReady(t) /\ t \in allocated /\ t \notin waiting /\ t # hand
      /\ Tail(ready) \in Seq(Tasks)
      /\ \A u : Contains(Tail(ready), u) <=> InReady(u) /\ u # t
      /\ IsInjective(Tail(ready))
  BY PoppedTask
<1>2. waiting' = waiting \cup {t}
  BY <1>1, SleeperFits DEF IInv, Typed, SchedTypeOK
<1>3. \A u : InReady(u)' <=> InReady(u) /\ u # t
  BY <1>1 DEF InReady
<1>4. TaskPlacement'
  BY <1>1, <1>2, <1>3 DEF IInv, TaskPlacement
<1>5. Typed'
  BY <1>1, <1>2 DEF IInv, Typed, CoreTypeOK, SchedTypeOK
<1>6. ThreadState' /\ TickBounds' /\ ModeState'
  BY DEF IInv, ThreadState, ThreadOK, TickBounds, ModeState
<1>7. WaitingState'
  BY <1>2 DEF IInv, WaitingState
<1>8. QED
  BY <1>4, <1>5, <1>6, <1>7 DEF IInv

LEMMA SelectDoneKeepsIInv ==
  ASSUME NEW t \in Tasks PROVE IInv /\ SelectDone(t) => IInv'
<1> SUFFICES ASSUME IInv, SelectDone(t) PROVE IInv'
  OBVIOUS
<1> USE DEF SelectDone, tcbVars, threadVars
<1>1. /\ InReady(t) /\ t \in allocated /\ t \notin waiting
      /\ hand = NoTask /\ t # NoTask
      /\ Tail(ready) \in Seq(Tasks)
      /\ \A u : Contains(Tail(ready), u) <=> InReady(u) /\ u # t
      /\ IsInjective(Tail(ready))
  BY PoppedTask DEF Tasks, NoTask
<1>2. \A u : InReady(u)' <=> InReady(u) /\ u # t
  BY <1>1 DEF InReady
<1>3. TaskPlacement'
  BY <1>1, <1>2 DEF IInv, TaskPlacement, Tasks, NoTask
<1>4. Typed'
  BY <1>1 DEF IInv, Typed, CoreTypeOK, SchedTypeOK, Modes, HandlerStages
<1>5. ThreadState' /\ TickBounds' /\ WaitingState'
  BY DEF IInv, ThreadState, ThreadOK, TickBounds, WaitingState
<1>6. ModeState'
  BY <1>1 DEF IInv, ModeState
<1>7. QED
  BY <1>3, <1>4, <1>5, <1>6 DEF IInv

LEMMA ReapKeepsIInv == IInv /\ Reap => IInv'
<1> SUFFICES ASSUME IInv, Reap PROVE IInv'
  OBVIOUS
<1> USE DEF Reap, FreeTask, threadVars
<1>1. /\ hand # NoTask /\ hand \in allocated /\ ~InReady(hand)
      /\ hand \notin waiting /\ allocated \subseteq Tasks
  BY DEF IInv, ModeState, TaskPlacement, Typed, CoreTypeOK
<1>2. \A u : InReady(u)' <=> InReady(u)
  BY DEF InReady
<1>3. TaskPlacement'
  BY <1>1, <1>2 DEF IInv, TaskPlacement, Tasks, NoTask
<1>4. Typed'
  BY DEF IInv, Typed, CoreTypeOK, SchedTypeOK, Modes, HandlerStages
<1>5. ThreadState' /\ TickBounds' /\ WaitingState'
  BY DEF IInv, ThreadState, ThreadOK, TickBounds, WaitingState
<1>6. ModeState'
  BY DEF ModeState
<1>7. QED
  BY <1>3, <1>4, <1>5, <1>6 DEF IInv

LEMMA SelectIdleKeepsIInv == IInv /\ SelectIdle => IInv'
<1> SUFFICES ASSUME IInv, SelectIdle PROVE IInv'
  OBVIOUS
<1> USE DEF SelectIdle, tcbVars, threadVars, schedVars
<1>1. Typed'
  BY DEF IInv, Typed, CoreTypeOK, SchedTypeOK, Modes, HandlerStages
<1>2. TaskPlacement'
  BY SamePlacement DEF IInv
<1>3. ThreadState' /\ TickBounds' /\ WaitingState'
  BY DEF IInv, ThreadState, ThreadOK, TickBounds, WaitingState
<1>4. hand = NoTask
  BY DEF IInv, ModeState
<1>5. \A t \in allocated : state[t] \notin Runnable
  <2> SUFFICES ASSUME NEW t \in allocated PROVE state[t] \notin Runnable
    OBVIOUS
  <2>1. t \in Tasks /\ t # hand
    BY <1>4 DEF IInv, Typed, CoreTypeOK, Tasks, NoTask
  <2>2. ~InReady(t)
    <3>1. Len(ready) = 0
      OBVIOUS
    <3>2. QED
      BY <3>1 DEF InReady, Contains
  <2>3. t \in waiting
    BY <2>1, <2>2 DEF IInv, TaskPlacement
  <2>4. QED
    BY <2>3 DEF IInv, WaitingState, Runnable
<1>6. ModeState'
  BY <1>4, <1>5 DEF ModeState
<1>7. QED
  BY <1>1, <1>2, <1>3, <1>6 DEF IInv

-----------------------------------------------------------------------------
(* The invariants                                                          *)

LEMMA NextKeepsIInv == IInv /\ [Next]_vars => IInv'
<1> SUFFICES ASSUME IInv, [Next]_vars PROVE IInv'
  OBVIOUS
<1>1. CASE SysTickIn
  BY <1>1, SysTickKeepsIInv
<1>2. CASE PendSV
  BY <1>2, EnterKeepsIInv, WakeDueKeepsIInv, SelectRunnableKeepsIInv,
     SelectWaitingKeepsIInv, SelectDoneKeepsIInv, ReapKeepsIInv,
     SelectIdleKeepsIInv
  DEF PendSV
<1>3. CASE Launch
  BY <1>3, LaunchKeepsIInv
<1>4. CASE Panicked
  BY <1>4, PanicKeepsIInv
<1>5. CASE \E t \in Tasks : BootAdd(t) \/ Thread(t)
  BY <1>5, BootAddKeepsIInv, ThreadKeepsIInv
<1>6. CASE \E t, u \in Tasks : ThreadAdd(t, u)
  BY <1>6, ThreadAddKeepsIInv
<1>7. CASE UNCHANGED vars
  <2> USE <1>7 DEF vars, coreVars, schedVars, tcbVars, threadVars
  <2>1. Typed'
    BY DEF IInv, Typed, CoreTypeOK, SchedTypeOK
  <2>2. TaskPlacement'
    BY SamePlacement DEF IInv
  <2>3. ThreadState' /\ TickBounds' /\ ModeState' /\ WaitingState'
    BY DEF IInv, ThreadState, ThreadOK, TickBounds, ModeState, WaitingState
  <2>4. QED
    BY <2>1, <2>2, <2>3 DEF IInv
<1>8. QED
  BY <1>1, <1>2, <1>3, <1>4, <1>5, <1>6, <1>7 DEF Next

\* The inductive invariant holds in every reachable state of the kernel.
THEOREM InductiveInvariant == Spec => []IInv
<1>1. Init => IInv
  BY InitIInv
<1>2. IInv /\ [Next]_vars => IInv'
  BY NextKeepsIInv
<1>3. QED
  BY <1>1, <1>2, PTL DEF Spec

\* Every variable of the kernel keeps its type, and the count of ticks never
\* reaches the quantum.
THEOREM TypeCorrect == Spec => []TypeOK
<1> DEFINE Within == counter = 0 \/ counter < Quanta
<1>1. Init => Within
  BY DEF Init, CoreInit
<1>2. IInv /\ Within /\ [Next]_vars => Within'
  <2> SUFFICES ASSUME IInv, Within, [Next]_vars PROVE Within'
    OBVIOUS
  <2>1. CASE SysTickIn
    BY <2>1, QuantaAssumption
    DEF SysTickIn, SysTick, CountTick, IInv, Typed, CoreTypeOK
  <2>2. CASE ~SysTickIn
    <3>1. UNCHANGED counter
      BY <2>2
      DEF Next, PendSV, Enter, PendSVEnter, WakeDue, WakeEnd, SelectRunnable,
          SelectWaiting, SelectDone, Reap, SelectIdle, Return, PendSVReturn,
          Launch, Panicked, Panic, AddTaskPanic, PanicLoop, BootAdd,
          BootAddTask, Thread, ThreadStep, TaskStart, SleepCall,
          SleepSetNextRun, SleepSetWait, SleepYield, SleepReturn, SvcSleep,
          Yield, TaskDone, TaskExitYield, ThreadAdd, TaskAddTask, vars,
          coreVars
    <3>2. QED
      BY <3>1
  <2>3. QED
    BY <2>1, <2>2
<1>3. IInv /\ Within => TypeOK
  BY DEF IInv, TypeOK
<1>4. QED
  BY <1>1, <1>2, <1>3, InductiveInvariant, PTL DEF Spec

\* The schedulers' unchecked pushes never lose a task, whatever the size of
\* the pool: an allocated task is in exactly one queue, once.
THEOREM NoTaskLost == Spec => []TaskPlacement
<1>1. IInv => TaskPlacement
  BY DEF IInv
<1>2. QED
  BY <1>1, InductiveInvariant, PTL

\* sleep() never returns before the tick it computed, however its stores are
\* interleaved with SysTick and with context switches.
THEOREM SleepIsNotShort == Spec => []SleepNotShort
<1>1. IInv => SleepNotShort
  <2> SUFFICES ASSUME IInv, NEW t \in Tasks, Executes(t), pc[t] = "asleep"
               PROVE  deadline[t] <= tick
    BY DEF SleepNotShort
  <2>1. t \in allocated /\ ~pend /\ mode = "thread" /\ current = t /\ t # Idle
    BY DEF Executes, IInv, ModeState, Tasks, Idle
  <2>2. state[t] # "WAIT"
    BY <2>1 DEF IInv, ModeState
  <2>3. QED
    BY <2>1, <2>2 DEF IInv, ThreadState, ThreadOK
<1>2. QED
  BY <1>1, InductiveInvariant, PTL

\* PendSV always saves into the control block of an allocated task or Idle.
THEOREM RunningTaskIsAllocated == Spec => []RunningTaskExists
<1>1. IInv => RunningTaskExists
  BY DEF IInv, ModeState, RunningTaskExists
<1>2. QED
  BY <1>1, InductiveInvariant, PTL

-----------------------------------------------------------------------------
(* The refinement                                                          *)

LEMMA InitService == Init => Service!ServiceInit
BY DEF Init, CoreInit, Service!ServiceInit, LifeBar, LifeOf, UntilBar, CpuBar

\* Steps that leave pool, states, deadlines of sleepers and cpu alone.
LEMMA HiddenStep ==
  ASSUME UNCHANGED <<tick, allocated, state, CpuBar>>,
         \A t \in Tasks : LifeOf(t) = "sleeping" => UNCHANGED next_run[t]
  PROVE  UNCHANGED Service!service
<1>1. \A t \in Tasks : UNCHANGED LifeOf(t)
  BY DEF LifeOf
<1>2. UNCHANGED <<LifeBar, UntilBar>>
  BY <1>1 DEF LifeBar, UntilBar
<1>3. QED
  BY <1>2 DEF Service!service

\* A step that changes only what slot t holds.
LEMMA LifeStep ==
  ASSUME IInv, NEW t \in Tasks, UNCHANGED <<tick, CpuBar>>,
         \A u \in Tasks \ {t} :
           /\ UNCHANGED <<state[u], next_run[u]>>
           /\ u \in allocated' <=> u \in allocated
  PROVE  /\ LifeBar' = [LifeBar EXCEPT ![t] = LifeOf(t)']
         /\ UntilBar' = [UntilBar EXCEPT ![t] =
              IF LifeOf(t)' = "sleeping" THEN next_run'[t] ELSE 0]
         /\ LifeBar[t] = LifeOf(t)
         /\ UntilBar[t] = IF LifeOf(t) = "sleeping" THEN next_run[t] ELSE 0
<1>1. \A u \in Tasks \ {t} : UNCHANGED LifeOf(u)
  BY DEF LifeOf
<1>2. QED
  BY <1>1 DEF LifeBar, UntilBar

\* A new task is the Create of its slot.
LEMMA AllocService ==
  ASSUME IInv, NEW t \in Tasks, AllocTask(t), UNCHANGED <<tick, CpuBar>>
  PROVE  Service!Create(t)
<1> USE DEF AllocTask, IsFirstFree, FreeSlots
<1>1. \A u \in Tasks \ {t} :
        /\ UNCHANGED <<state[u], next_run[u]>>
        /\ u \in allocated' <=> u \in allocated
  BY DEF IInv, Typed, CoreTypeOK
<1>2. LifeOf(t) = "free" /\ LifeOf(t)' = "runnable"
  BY DEF LifeOf, Runnable, IInv, Typed, CoreTypeOK
<1>3. /\ LifeBar' = [LifeBar EXCEPT ![t] = "runnable"]
      /\ UntilBar' = [UntilBar EXCEPT ![t] = 0]
      /\ LifeBar[t] = "free" /\ UntilBar[t] = 0
  BY <1>1, <1>2, LifeStep
<1>4. UntilBar' = UntilBar
  BY <1>3 DEF UntilBar
<1>5. QED
  BY <1>3, <1>4 DEF Service!Create

\* Each kernel call is a Finish, a FallAsleep, or invisible.
LEMMA ThreadService ==
  ASSUME IInv, IInv', NEW t \in Tasks, Thread(t)
  PROVE  \/ Service!Finish(t) \/ Service!FallAsleep(t)
         \/ UNCHANGED Service!service
<1>1. /\ mode = "thread" /\ current = t /\ t \in allocated
      /\ UNCHANGED <<tick, mode, current, allocated>>
      /\ \A u \in Tasks \ {t} : UNCHANGED <<state[u], next_run[u]>>
  BY ThreadFrame
<1>2. UNCHANGED CpuBar /\ CpuBar = t
  BY <1>1 DEF CpuBar
<1>3. /\ LifeBar' = [LifeBar EXCEPT ![t] = LifeOf(t)']
      /\ UntilBar' = [UntilBar EXCEPT ![t] =
           IF LifeOf(t)' = "sleeping" THEN next_run'[t] ELSE 0]
      /\ LifeBar[t] = LifeOf(t)
      /\ UntilBar[t] = IF LifeOf(t) = "sleeping" THEN next_run[t] ELSE 0
  BY <1>1, <1>2, LifeStep
<1>4. UntilBar \in [Tasks -> 0..MaxTick] /\ next_run'[t] \in 0..MaxTick
  BY TickAssumption
  DEF IInv, Typed, CoreTypeOK, TickBounds, UntilBar
<1> USE DEF IInv, Typed, CoreTypeOK, ThreadState, ThreadOK, Executes, Goto,
            tcbVars, threadVars
<1>5. CASE TaskDone(t)
  <2>1. LifeOf(t) = "runnable" /\ LifeOf(t)' = "finished"
    BY <1>1, <1>5 DEF TaskDone, LifeOf, Runnable, States
  <2>2. UntilBar' = UntilBar
    BY <1>3, <2>1 DEF UntilBar
  <2>3. QED
    BY <1>1, <1>2, <1>3, <2>1, <2>2 DEF Service!Finish
<1>6. CASE SleepSetWait(t) \/ SvcSleep(t)
  <2>1. LifeOf(t) = "runnable" /\ LifeOf(t)' = "sleeping"
    BY <1>1, <1>6 DEF SleepSetWait, SvcSleep, LifeOf, Runnable, States
  <2>2. QED
    BY <1>1, <1>2, <1>3, <1>4, <2>1 DEF Service!FallAsleep
<1>7. CASE TaskStart(t) \/ SleepSetNextRun(t)
  <2>1. LifeOf(t) = "runnable" /\ LifeOf(t)' = "runnable"
    BY <1>1, <1>7 DEF TaskStart, SleepSetNextRun, LifeOf, Runnable, States
  <2>2. /\ LifeBar' = [LifeBar EXCEPT ![t] = "runnable"]
        /\ UntilBar' = [UntilBar EXCEPT ![t] = 0]
        /\ LifeBar[t] = "runnable" /\ UntilBar[t] = 0
    BY <1>3, <2>1
  <2>3. LifeBar' = LifeBar
    BY <2>2 DEF LifeBar
  <2>4. UntilBar' = UntilBar
    BY <2>2 DEF UntilBar
  <2>5. QED
    BY <1>1, <1>2, <2>3, <2>4 DEF Service!service
<1>8. CASE \/ SleepCall(t) \/ SleepYield(t) \/ SleepReturn(t)
           \/ Yield(t) \/ TaskExitYield(t)
  <2>1. UNCHANGED <<state, next_run>>
    BY <1>8 DEF SleepCall, SleepYield, SleepReturn, Yield, TaskExitYield
  <2>2. QED
    BY <1>1, <1>2, <2>1, HiddenStep
<1>9. QED
  BY <1>5, <1>6, <1>7, <1>8 DEF Thread, ThreadStep

\* A tick of the clock is a tick of the service.
LEMMA ClockService ==
  ASSUME IInv, NEW elapsed, NEW quantum, CountTick(elapsed, quantum),
         UNCHANGED schedVars
  PROVE  Service!Tick
<1> USE DEF CountTick, schedVars, tcbVars, threadVars
<1>1. UNCHANGED <<LifeBar, UntilBar, CpuBar>>
  BY DEF LifeBar, LifeOf, UntilBar, CpuBar
<1>2. tick' = IF tick < MaxTick THEN tick + 1 ELSE tick
  BY TickAssumption, NoWrapAssumption DEF IInv, Typed, CoreTypeOK
<1>3. QED
  BY <1>1, <1>2 DEF Service!Tick

\* Every step of the kernel is a step of the service or invisible to it.
LEMMA StepService ==
  IInv /\ IInv' /\ [Next]_vars => [Service!ServiceNext]_(Service!service)
<1> SUFFICES ASSUME IInv, IInv', [Next]_vars
             PROVE  Service!ServiceNext \/ UNCHANGED Service!service
  OBVIOUS
<1> USE DEF tcbVars, threadVars, schedVars, Service!ServiceNext
<1>1. CASE SysTickIn
  BY <1>1, ClockService DEF SysTickIn, SysTick
<1>2. CASE Enter
  <2>1. /\ UNCHANGED <<tick, LifeBar, UntilBar>>
        /\ CpuBar = current /\ current # NoTask /\ CpuBar' = NoTask
    BY <1>2
    DEF Enter, PendSVEnter, LifeBar, LifeOf, UntilBar, CpuBar, IInv,
        ModeState, Typed, CoreTypeOK, Tasks, Idle, NoTask
  <2>2. QED
    BY <2>1 DEF Service!Suspend
<1>3. ASSUME NEW t \in Tasks, WakeDue(t)
      PROVE  Service!ServiceNext
  <2>1. /\ t \in allocated /\ state[t] = "WAIT" /\ next_run[t] <= tick
        /\ state' = [state EXCEPT ![t] = "READY"]
        /\ UNCHANGED <<tick, allocated, next_run, mode, current>>
        /\ state \in [Tasks -> States]
    BY <1>3
    DEF WakeDue, Due, IInv, TaskPlacement, WaitingState, Typed, CoreTypeOK
  <2>2. UNCHANGED CpuBar
    BY <2>1 DEF CpuBar
  <2>3. LifeOf(t) = "sleeping" /\ LifeOf(t)' = "runnable"
    BY <2>1 DEF LifeOf, Runnable
  <2>4. /\ LifeBar' = [LifeBar EXCEPT ![t] = "runnable"]
        /\ UntilBar' = [UntilBar EXCEPT ![t] = 0]
        /\ LifeBar[t] = "sleeping" /\ UntilBar[t] = next_run[t]
    BY <2>1, <2>2, <2>3, LifeStep
  <2>5. QED
    BY <2>1, <2>2, <2>4 DEF Service!Wake
<1>4. CASE WakeEnd
  BY <1>4, HiddenStep DEF WakeEnd, CpuBar
<1>5. ASSUME NEW t \in Tasks,
             SelectRunnable(t) \/ SelectWaiting(t) \/ SelectDone(t)
      PROVE  UNCHANGED Service!service
  BY <1>5, HiddenStep
  DEF SelectRunnable, SelectWaiting, SelectDone, Popped, CpuBar, coreVars
<1>6. CASE Reap
  <2>1. /\ hand \in Tasks /\ hand \in allocated /\ state[hand] = "DONE"
        /\ allocated' = allocated \ {hand}
        /\ UNCHANGED <<tick, state, next_run>>
        /\ CpuBar = NoTask /\ CpuBar' = NoTask
    BY <1>6
    DEF Reap, FreeTask, IInv, ModeState, Typed, SchedTypeOK, CpuBar,
        TaskPlacement
  <2>2. PICK t \in Tasks : t = hand
    BY <2>1
  <2>3. LifeOf(t) = "finished" /\ LifeOf(t)' = "free"
    BY <2>1, <2>2 DEF LifeOf, Runnable
  <2>4. \A u \in Tasks \ {t} :
          /\ UNCHANGED <<state[u], next_run[u]>>
          /\ u \in allocated' <=> u \in allocated
    BY <2>1, <2>2
  <2>5. /\ LifeBar' = [LifeBar EXCEPT ![t] = "free"]
        /\ UntilBar' = [UntilBar EXCEPT ![t] = 0]
        /\ LifeBar[t] = "finished" /\ UntilBar[t] = 0
    BY <2>1, <2>3, <2>4, LifeStep
  <2>6. UntilBar' = UntilBar
    BY <2>5 DEF UntilBar
  <2>7. CpuBar # t
    BY <2>1 DEF Tasks, NoTask
  <2>8. QED
    BY <2>1, <2>5, <2>6, <2>7 DEF Service!Reclaim
<1>7. CASE SelectIdle
  BY <1>7, HiddenStep DEF SelectIdle, CpuBar
<1>8. CASE Return
  <2>1. /\ UNCHANGED <<tick, LifeBar, UntilBar>>
        /\ CpuBar = NoTask /\ CpuBar' = current
    BY <1>8 DEF Return, PendSVReturn, LifeBar, LifeOf, UntilBar, CpuBar
  <2>2. \/ current \in Tasks /\ LifeBar[current] = "runnable"
        \/ current = Idle /\ \A t \in Tasks : LifeBar[t] # "runnable"
    BY <1>8
    DEF Return, PendSVReturn, IInv, ModeState, LifeBar, LifeOf, Typed,
        CoreTypeOK
  <2>3. QED
    BY <2>1, <2>2 DEF Service!Dispatch
<1>9. CASE Launch
  <2>1. /\ UNCHANGED <<tick, LifeBar, UntilBar>>
        /\ CpuBar = NoTask /\ CpuBar' = current'
    BY <1>9 DEF Launch, LifeBar, LifeOf, UntilBar, CpuBar
  <2>2. \A t \in allocated : state[t] = "READY" /\ t \in Tasks
    BY <1>9 DEF Launch, IInv, ModeState, Typed, CoreTypeOK
  <2>3. CASE ready = << >>
    <3>1. ASSUME NEW t \in allocated PROVE FALSE
      <4>1. ~InReady(t) /\ t # hand
        <5>1. Len(ready) = 0
          BY <2>3
        <5>2. hand = NoTask
          BY <1>9 DEF Launch, IInv, ModeState
        <5>3. QED
          BY <5>1, <5>2, <2>2 DEF InReady, Contains, Tasks, NoTask
      <4>2. t \notin waiting
        BY <2>2 DEF IInv, WaitingState
      <4>3. QED
        BY <4>1, <4>2, <2>2 DEF IInv, TaskPlacement
    <3>2. \A t \in Tasks : LifeBar[t] # "runnable"
      BY <3>1 DEF LifeBar, LifeOf
    <3>3. QED
      BY <1>9, <2>1, <2>3, <3>2 DEF Launch, Service!Dispatch
  <2>4. CASE ready # << >>
    <3>1. current' \in allocated
      BY <1>9, <2>4, RotateKeepsPlacement DEF Launch
    <3>2. LifeBar[current'] = "runnable"
      BY <2>2, <3>1 DEF LifeBar, LifeOf, Runnable
    <3>3. QED
      BY <2>1, <2>2, <3>1, <3>2 DEF Service!Dispatch
  <2>5. QED
    BY <2>3, <2>4
<1>10. CASE Panicked
  <2>1. /\ UNCHANGED <<tick, LifeBar, UntilBar>>
        /\ CpuBar' = NoTask
    BY <1>10
    DEF Panicked, Panic, AddTaskPanic, PanicLoop, coreVars, LifeBar, LifeOf,
        UntilBar, CpuBar
  <2>2. QED
    BY <2>1 DEF Service!Suspend, Service!service
<1>11. ASSUME NEW t \in Tasks, BootAdd(t) \/ Thread(t)
       PROVE  Service!ServiceNext \/ UNCHANGED Service!service
  <2>1. CASE BootAdd(t)
    <3>1. AllocTask(t) /\ UNCHANGED <<tick, CpuBar>>
      BY <2>1 DEF BootAdd, BootAddTask, CpuBar
    <3>2. QED
      BY <3>1, AllocService
  <2>2. CASE Thread(t)
    BY <2>2, ThreadService
  <2>3. QED
    BY <1>11, <2>1, <2>2
<1>12. ASSUME NEW t \in Tasks, NEW u \in Tasks, ThreadAdd(t, u)
       PROVE  Service!ServiceNext
  <2>1. AllocTask(u) /\ UNCHANGED <<tick, CpuBar>>
    BY <1>12 DEF ThreadAdd, TaskAddTask, CpuBar
  <2>2. QED
    BY <2>1, AllocService
<1>13. CASE UNCHANGED vars
  BY <1>13, HiddenStep DEF vars, coreVars, CpuBar
<1>14. QED
  BY <1>1, <1>2, <1>3, <1>4, <1>5, <1>6, <1>7, <1>8, <1>9, <1>10, <1>11,
     <1>12, <1>13
  DEF Next, PendSV

\* The round-robin kernel implements the service for every pool size: it
\* dispatches runnable tasks only, idles only when there is none, wakes no
\* sleeper early and frees only finished tasks that are off the processor.
THEOREM RefinesService == Spec => ImplementsService
<1>1. Init => Service!ServiceInit
  BY InitService
<1>2. IInv /\ IInv' /\ [Next]_vars => [Service!ServiceNext]_(Service!service)
  BY StepService
<1>3. QED
  BY <1>1, <1>2, InductiveInvariant, PTL
  DEF Spec, ImplementsService, Service!ServiceSpec

-----------------------------------------------------------------------------
(* The cooperative preemptive kernel, for every choice of quanta, infinite *)
(* ones included: what is proved of round robin's steps carries over,      *)
(* because each step here is one of them or a tick.                        *)

\* The quantum is in force from the choice of a task on.
QuantumChosen ==
  mode \in {"thread", "restore"} /\ current \in Tasks
    => quanta = QuantumOf(current)

CoopInv ==
  /\ IInv
  /\ CoopTypeOK
  /\ DataOwned
  /\ QuantumChosen

\* Every step is a step of the round-robin kernel, or a tick.
LEMMA CoopStep == CoopNext => Next \/ CoopSysTick
BY DEF CoopNext, CoopPendSV, CoopReap, CoopSelectRunnable, CoopLaunch,
       CoopBootAdd, CoopThreadAdd, CoopThread, Next, PendSV

LEMMA CoopClockKeepsIInv == CoopInv /\ CoopSysTick => IInv'
<1> SUFFICES ASSUME CoopInv, CoopSysTick PROVE IInv'
  OBVIOUS
<1> DEFINE elapsed == IF quanta # seen THEN 0 ELSE counter
<1>1. elapsed \in Nat
  BY DEF CoopInv, CoopTypeOK, Typed, CoreTypeOK
<1>2. quanta \in Nat \cup {Infinite}
  BY DEF CoopInv, CoopTypeOK, QuantumValues
<1>3. CountTick(elapsed, quanta) /\ UNCHANGED schedVars
  BY DEF CoopSysTick, schedVars
<1>4. IInv
  BY DEF CoopInv
<1> HIDE DEF elapsed
<1>5. QED
  BY <1>1, <1>2, <1>3, <1>4, ClockKeepsIInv

\* The scheduler data of a new task: a slot nobody has.
LEMMA ConfigureKeepsData ==
  ASSUME CoopInv, NEW t \in Tasks, t \notin allocated,
         allocated' = allocated \cup {t}, ConfigureTask(t)
  PROVE  /\ DataOwned'
         /\ \A u \in allocated : QuantumOf(u)' = QuantumOf(u)
         /\ data_used' \subseteq Tasks
         /\ data' \in [Tasks -> Tasks \cup {NoTask}]
         /\ data_quanta' \in [Tasks -> QuantumValues]
         /\ UNCHANGED <<quanta, default_quanta, seen>>
<1>1. PICK s \in Tasks, q \in GivenQuanta \cup {default_quanta} :
        /\ s \notin data_used
        /\ data_used' = data_used \cup {s}
        /\ data' = [data EXCEPT ![t] = s]
        /\ data_quanta' = [data_quanta EXCEPT ![s] = q]
        /\ UNCHANGED <<quanta, default_quanta, seen>>
  BY DEF ConfigureTask, FreeData
<1>2. /\ data_used \subseteq Tasks
      /\ data \in [Tasks -> Tasks \cup {NoTask}]
      /\ data_quanta \in [Tasks -> QuantumValues]
      /\ q \in QuantumValues
      /\ allocated \subseteq Tasks
  BY GivenQuantaAssumption
  DEF CoopInv, CoopTypeOK, QuantumValues, Typed, CoreTypeOK
<1>3. /\ \A u \in allocated : data'[u] = data[u] /\ data[u] # s
      /\ data'[t] = s
  BY <1>1, <1>2 DEF CoopInv, DataOwned
<1>4. DataOwned'
  BY <1>1, <1>2, <1>3 DEF CoopInv, DataOwned
<1>5. \A u \in allocated : QuantumOf(u)' = QuantumOf(u)
  BY <1>1, <1>2, <1>3 DEF QuantumOf
<1>6. QED
  BY <1>1, <1>2, <1>4, <1>5

\* What the steps that do not touch scheduler data owe the invariant.
LEMMA SameDataKeepsCoopInv ==
  ASSUME CoopInv, IInv', UNCHANGED <<coopVars, counter, allocated>>,
         \/ UNCHANGED <<mode, current>>
         \/ mode' \notin {"thread", "restore"}
         \/ current' \notin Tasks
         \/ mode \in {"thread", "restore"} /\ UNCHANGED current
  PROVE  CoopInv'
<1> USE DEF CoopInv, coopVars, dataVars
<1>1. CoopTypeOK'
  BY DEF CoopTypeOK, IInv
<1>2. DataOwned'
  BY DEF DataOwned
<1>3. QuantumChosen'
  BY DEF QuantumChosen, QuantumOf
<1>4. QED
  BY <1>1, <1>2, <1>3

\* An allocated task has scheduler data, and with it a quantum.
LEMMA HasQuantum ==
  ASSUME CoopInv, NEW t \in allocated
  PROVE  data[t] \in Tasks /\ QuantumOf(t) \in QuantumValues
<1>1. data[t] \in Tasks
  BY DEF CoopInv, DataOwned, CoopTypeOK
<1>2. QED
  BY <1>1 DEF CoopInv, CoopTypeOK, QuantumOf

LEMMA QueuedIsAllocated ==
  ASSUME IInv, ready # << >>
  PROVE  Head(ready) \in allocated
<1>1. ready \in Seq(Tasks) /\ IsInjective(ready)
  BY DEF IInv, Typed, SchedTypeOK, TaskPlacement
<1>2. Head(ready) \in Tasks /\ Contains(ready, Head(ready))
  BY <1>1, TailContains
<1>3. QED
  BY <1>2 DEF IInv, TaskPlacement, InReady

-----------------------------------------------------------------------------
(* The invariant is inductive                                              *)

LEMMA CoopInitInv == CoopInit => CoopInv
<1> SUFFICES ASSUME CoopInit PROVE CoopInv
  OBVIOUS
<1>1. IInv
  BY InitIInv DEF CoopInit
<1>2. CoopTypeOK
  BY <1>1
  DEF CoopInit, Init, CoreInit, CoopTypeOK, IInv, QuantumValues
<1>3. DataOwned /\ QuantumChosen
  BY DEF CoopInit, Init, CoreInit, DataOwned, QuantumChosen
<1>4. QED
  BY <1>1, <1>2, <1>3 DEF CoopInv

LEMMA CoopSysTickKeepsInv == CoopInv /\ CoopSysTick => CoopInv'
<1> SUFFICES ASSUME CoopInv, CoopSysTick PROVE CoopInv'
  OBVIOUS
<1> USE DEF CoopInv, CoopSysTick, CountTick, tcbVars, dataVars
<1>1. IInv'
  BY CoopClockKeepsIInv
<1>2. counter' = 0 \/ counter' < seen'
  <2>1. CASE quanta # seen
    BY <2>1 DEF CoopTypeOK, QuantumValues, Infinite
  <2>2. CASE quanta = seen
    BY <2>2 DEF CoopTypeOK, QuantumValues, Infinite, Typed, CoreTypeOK
  <2>3. QED
    BY <2>1, <2>2
<1>3. CoopTypeOK'
  BY <1>1, <1>2 DEF CoopTypeOK, IInv
<1>4. DataOwned' /\ QuantumChosen'
  BY DEF DataOwned, QuantumChosen, QuantumOf
<1>5. QED
  BY <1>1, <1>3, <1>4

LEMMA CoopReapKeepsInv == CoopInv /\ CoopReap => CoopInv'
<1> SUFFICES ASSUME CoopInv, CoopReap PROVE CoopInv'
  OBVIOUS
<1> USE DEF CoopInv, CoopReap, Reap, FreeTask, threadVars
<1>1. IInv'
  BY ReapKeepsIInv
<1>2. hand \in allocated /\ mode = "reap"
  BY DEF IInv, ModeState, TaskPlacement
<1>3. DataOwned'
  BY <1>2 DEF DataOwned
<1>4. CoopTypeOK'
  BY <1>1 DEF CoopTypeOK, IInv
<1>5. QuantumChosen'
  BY DEF QuantumChosen
<1>6. QED
  BY <1>1, <1>3, <1>4, <1>5

LEMMA CoopSelectKeepsInv ==
  ASSUME CoopInv, NEW t \in Tasks, CoopSelectRunnable(t)
  PROVE  CoopInv'
<1> USE DEF CoopInv, CoopSelectRunnable, SelectRunnable, tcbVars, dataVars
<1>1. IInv'
  BY SelectRunnableKeepsIInv
<1>2. t \in allocated
  BY QueuedIsAllocated DEF Popped
<1>3. quanta' \in QuantumValues
  BY <1>2, HasQuantum
<1>4. CoopTypeOK'
  BY <1>1, <1>3 DEF CoopTypeOK, IInv
<1>5. DataOwned' /\ QuantumChosen'
  BY DEF DataOwned, QuantumChosen, QuantumOf
<1>6. QED
  BY <1>1, <1>4, <1>5

LEMMA CoopLaunchKeepsInv == CoopInv /\ CoopLaunch => CoopInv'
<1> SUFFICES ASSUME CoopInv, CoopLaunch PROVE CoopInv'
  OBVIOUS
<1> USE DEF CoopInv, CoopLaunch, Launch, tcbVars, dataVars
<1>1. IInv'
  BY LaunchKeepsIInv
<1>2. default_quanta' \in QuantumValues /\ quanta' \in QuantumValues
  BY QuantaAssumption, QueuedIsAllocated, HasQuantum DEF QuantumValues
<1>3. CoopTypeOK'
  BY <1>1, <1>2 DEF CoopTypeOK, IInv
<1>4. DataOwned' /\ QuantumChosen'
  BY DEF DataOwned, QuantumChosen, QuantumOf, Tasks, Idle
<1>5. QED
  BY <1>1, <1>3, <1>4

LEMMA CoopAddKeepsInv ==
  ASSUME CoopInv, NEW u \in Tasks, AllocTask(u), ConfigureTask(u), IInv',
         UNCHANGED counter,
         \/ mode' = "boot"
         \/ UNCHANGED <<mode, current>> /\ mode = "thread"
  PROVE  CoopInv'
<1> USE DEF CoopInv
<1>1. u \notin allocated /\ allocated' = allocated \cup {u}
  BY DEF AllocTask, IsFirstFree, FreeSlots
<1>2. /\ DataOwned'
      /\ \A t \in allocated : QuantumOf(t)' = QuantumOf(t)
      /\ data_used' \subseteq Tasks
      /\ data' \in [Tasks -> Tasks \cup {NoTask}]
      /\ data_quanta' \in [Tasks -> QuantumValues]
      /\ UNCHANGED <<quanta, default_quanta, seen>>
  BY <1>1, ConfigureKeepsData
<1>3. CoopTypeOK'
  BY <1>2 DEF CoopTypeOK, IInv
<1>4. QuantumChosen'
  <2>1. CASE mode' = "boot"
    BY <2>1 DEF QuantumChosen
  <2>2. CASE UNCHANGED <<mode, current>> /\ mode = "thread"
    <3>1. current \in Tasks => current \in allocated
      BY <2>2 DEF IInv, ModeState, Tasks, Idle
    <3>2. QED
      BY <2>2, <3>1, <1>2 DEF QuantumChosen
  <2>3. QED
    BY <2>1, <2>2
<1>5. QED
  BY <1>2, <1>3, <1>4

\* The steps of round robin that leave the scheduler data alone.
LEMMA OtherKeepsInv ==
  ASSUME CoopInv, UNCHANGED coopVars,
         \/ Enter \/ WakeEnd \/ SelectIdle \/ Return \/ Panicked
         \/ \E t \in Tasks :
              WakeDue(t) \/ SelectWaiting(t) \/ SelectDone(t) \/ Thread(t)
  PROVE  CoopInv'
<1>1. IInv'
  BY EnterKeepsIInv, SelectIdleKeepsIInv, PanicKeepsIInv, WakeDueKeepsIInv,
     SelectWaitingKeepsIInv, SelectDoneKeepsIInv, ThreadKeepsIInv
  DEF CoopInv
<1>2. CASE Enter \/ WakeEnd \/ SelectIdle \/ Return \/ Panicked
  <2>1. UNCHANGED <<counter, allocated>>
    BY <1>2 DEF Enter, PendSVEnter, WakeEnd, SelectIdle, Return, PendSVReturn,
                Panicked, Panic, AddTaskPanic, PanicLoop, coreVars, tcbVars
  <2>2. \/ UNCHANGED <<mode, current>>
        \/ mode' \notin {"thread", "restore"}
        \/ current' \notin Tasks
        \/ mode \in {"thread", "restore"} /\ UNCHANGED current
    BY <1>2 DEF Enter, PendSVEnter, WakeEnd, SelectIdle, Return, PendSVReturn,
                Panicked, Panic, AddTaskPanic, PanicLoop, coreVars, Tasks,
                Idle
  <2>3. QED
    BY <1>1, <2>1, <2>2, SameDataKeepsCoopInv
<1>3. ASSUME NEW t \in Tasks,
             WakeDue(t) \/ SelectWaiting(t) \/ SelectDone(t) \/ Thread(t)
      PROVE  CoopInv'
  <2>1. UNCHANGED <<counter, allocated>>
    BY <1>3 DEF WakeDue, SelectWaiting, SelectDone, Thread, ThreadStep,
                TaskStart, SleepCall, SleepSetNextRun, SleepSetWait,
                SleepYield, SleepReturn, SvcSleep, Yield, TaskDone,
                TaskExitYield, coreVars, tcbVars
  <2>2. UNCHANGED <<mode, current>> \/ mode' \notin {"thread", "restore"}
    BY <1>3 DEF WakeDue, SelectWaiting, SelectDone, Thread, ThreadStep,
                TaskStart, SleepCall, SleepSetNextRun, SleepSetWait,
                SleepYield, SleepReturn, SvcSleep, Yield, TaskDone,
                TaskExitYield, coreVars
  <2>3. QED
    BY <1>1, <2>1, <2>2, SameDataKeepsCoopInv
<1>4. QED
  BY <1>2, <1>3

LEMMA CoopNextKeepsInv == CoopInv /\ [CoopNext]_allVars => CoopInv'
<1> SUFFICES ASSUME CoopInv, [CoopNext]_allVars PROVE CoopInv'
  OBVIOUS
<1>1. CASE CoopSysTick
  BY <1>1, CoopSysTickKeepsInv
<1>2. CASE CoopPendSV
  BY <1>2, CoopReapKeepsInv, CoopSelectKeepsInv, OtherKeepsInv
  DEF CoopPendSV
<1>3. CASE CoopLaunch
  BY <1>3, CoopLaunchKeepsInv
<1>4. CASE Panicked /\ UNCHANGED coopVars
  BY <1>4, OtherKeepsInv
<1>5. ASSUME NEW t \in Tasks, CoopBootAdd(t)
      PROVE  CoopInv'
  BY <1>5, BootAddKeepsIInv, CoopAddKeepsInv
  DEF CoopInv, CoopBootAdd, BootAdd, BootAddTask
<1>6. ASSUME NEW t \in Tasks, CoopThread(t)
      PROVE  CoopInv'
  BY <1>6, OtherKeepsInv DEF CoopThread
<1>7. ASSUME NEW t \in Tasks, NEW u \in Tasks, CoopThreadAdd(t, u)
      PROVE  CoopInv'
  BY <1>7, ThreadAddKeepsIInv, CoopAddKeepsInv
  DEF CoopInv, CoopThreadAdd, ThreadAdd, TaskAddTask, Executes
<1>8. CASE UNCHANGED allVars
  <2>1. UNCHANGED vars /\ UNCHANGED coopVars
    BY <1>8 DEF allVars
  <2>2. IInv'
    BY <2>1, NextKeepsIInv DEF CoopInv
  <2>3. QED
    BY <2>1, <2>2, SameDataKeepsCoopInv DEF vars, coreVars, tcbVars
<1>9. QED
  BY <1>1, <1>2, <1>3, <1>4, <1>5, <1>6, <1>7, <1>8 DEF CoopNext

\* The queues and threads of the kernel stay as with round robin, and the
\* scheduler data and quanta belong to the tasks they should.
THEOREM CoopInductiveInvariant == CoopSpec => []CoopInv
<1>1. CoopInit => CoopInv
  BY CoopInitInv
<1>2. CoopInv /\ [CoopNext]_allVars => CoopInv'
  BY CoopNextKeepsInv
<1>3. QED
  BY <1>1, <1>2, PTL DEF CoopSpec

\* Every variable keeps its type and no count reaches its quantum.
THEOREM CoopTypeCorrect == CoopSpec => []CoopTypeOK
<1>1. CoopInv => CoopTypeOK
  BY DEF CoopInv
<1>2. QED
  BY <1>1, CoopInductiveInvariant, PTL

\* The pools of task objects and of scheduler data stay in step.
THEOREM SchedulerDataOwned == CoopSpec => []DataOwned
<1>1. CoopInv => DataOwned
  BY DEF CoopInv
<1>2. QED
  BY <1>1, CoopInductiveInvariant, PTL

\* No task runs under another task's quantum.
THEOREM OwnQuantum == CoopSpec => []QuantumInForce
<1>1. CoopInv => QuantumInForce
  BY DEF CoopInv, QuantumChosen, QuantumInForce
<1>2. QED
  BY <1>1, CoopInductiveInvariant, PTL

-----------------------------------------------------------------------------
(* The refinement                                                          *)

LEMMA CoopStepService ==
  CoopInv /\ CoopInv' /\ [CoopNext]_allVars
    => [Service!ServiceNext]_(Service!service)
<1> SUFFICES ASSUME CoopInv, CoopInv', [CoopNext]_allVars
             PROVE  [Service!ServiceNext]_(Service!service)
  OBVIOUS
<1>1. IInv /\ IInv'
  BY DEF CoopInv
<1>2. CASE CoopSysTick
  <2>1. Service!Tick
    BY <1>1, <1>2, ClockService DEF CoopSysTick, schedVars
  <2>2. QED
    BY <2>1 DEF Service!ServiceNext
<1>3. CASE Next \/ UNCHANGED vars
  BY <1>1, <1>3, StepService
<1>4. QED
  BY <1>2, <1>3, CoopStep DEF allVars

\* The cooperative preemptive kernel, too, provides the abstract service.
THEOREM CoopRefinesService == CoopSpec => ImplementsService
<1>1. CoopInit => Service!ServiceInit
  BY InitService DEF CoopInit
<1>2. CoopInv /\ CoopInv' /\ [CoopNext]_allVars
        => [Service!ServiceNext]_(Service!service)
  BY CoopStepService
<1>3. QED
  BY <1>1, <1>2, CoopInductiveInvariant, PTL
  DEF CoopSpec, ImplementsService, Service!ServiceSpec

=============================================================================
