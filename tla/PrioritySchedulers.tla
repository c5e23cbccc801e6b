------------------------- MODULE PrioritySchedulers -------------------------
(***************************************************************************)
(* The fixed-priority scheduler and the one with aging.  Both have a queue *)
(* for each of three priorities, 0 first; with aging every switch moves    *)
(* tasks that have been passed over a queue forward, and the task that     *)
(* runs falls back to its base priority.                                   *)
(***************************************************************************)
EXTENDS SchedulerLoop

CONSTANTS
  Priorities,   \* bound: the priorities tasks are configured with
  Thresholds    \* bound: the aging thresholds they are configured with

MaximumPriority == 3
Levels == 0..MaximumPriority - 1

ASSUME PrioritiesAssumption == Priorities \subseteq Levels
ASSUME ThresholdsAssumption == Thresholds \subseteq Nat

VARIABLES
  queues,      \* ready_tasks_
  priority,    \* current_priority of each task
  base,        \* base_priority
  threshold,   \* aging_threshold
  score        \* aging_score

taskData == <<base, threshold>>
prioVars == <<queues, priority, score, taskData>>

PrioTypeOK ==
  /\ queues \in [Levels -> Seq(Tasks)]
  /\ priority \in [Tasks -> Levels]
  /\ base \in [Tasks -> Levels]
  /\ threshold \in [Tasks -> Nat]
  /\ score \in [Tasks -> Nat]

PrioInit ==
  /\ queues = [l \in Levels |-> << >>]
  /\ priority = [t \in Tasks |-> 0]
  /\ base = [t \in Tasks |-> 0]
  /\ threshold = [t \in Tasks |-> 0]
  /\ score = [t \in Tasks |-> 0]

Push(q, l, t) == [q EXCEPT ![l] = Enqueue(@, t)]

\* configure_task and add_task.
PrioAdd(t) ==
  \E p \in Priorities, h \in Thresholds :
    /\ priority' = [priority EXCEPT ![t] = p]
    /\ base' = [base EXCEPT ![t] = p]
    /\ threshold' = [threshold EXCEPT ![t] = h]
    /\ score' = [score EXCEPT ![t] = 0]
    /\ queues' = Push(queues, p, t)

\* Seeded fault: a woken task is filed under its base priority.
PrioWakeAtBase(t) ==
  /\ Wake(t)
  /\ queues' = Push(queues, base[t], t)
  /\ UNCHANGED <<priority, score, taskData>>

PrioWake(t) ==
  /\ Wake(t)
  /\ queues' = Push(queues, priority[t], t)
  /\ UNCHANGED <<priority, score, taskData>>

\* The loop pops from the first queue that is not empty.
PoppedFrom(l, t) ==
  /\ queues[l] # << >>
  /\ t = Head(queues[l])
  /\ \A m \in Levels : m < l => queues[m] = << >>

Popped(l) == [queues EXCEPT ![l] = Tail(@)]

FixedChoose(l, t) ==
  /\ PoppedFrom(l, t)
  /\ Choose(t)
  /\ queues' = Push(Popped(l), l, t)
  /\ UNCHANGED <<priority, score, taskData>>

\* Seeded fault: the comparison is off by one.
MovesUpLate(s, t) == s.score[t] + 1 > threshold[t]

MovesUp(s, t) == s.score[t] + 1 >= threshold[t]

\* The elements of q that are in S, in their order.
Among(q, S) ==
  LET places  == {i \in DOMAIN q : q[i] \in S}
      Rank(i) == Cardinality({j \in places : j <= i})
  IN  [n \in 1..Cardinality(places) |-> q[CHOOSE i \in places : Rank(i) = n]]

\* One queue of tasks_aging: every task in it scores, and those that reach
\* their threshold are moved forward.
Aged(s, l) ==
  LET q  == s.queues[l]
      up == {t \in Range(q) : MovesUp(s, t)}
  IN  [queues   |-> [s.queues EXCEPT ![l] = Among(q, Range(q) \ up),
                                     ![l - 1] = @ \o Among(q, up)],
       priority |-> [t \in Tasks |-> IF t \in up THEN l - 1 ELSE s.priority[t]],
       score    |-> [t \in Tasks |-> IF t \notin Range(q) THEN s.score[t]
                                     ELSE IF t \in up THEN 0
                                     ELSE s.score[t] + 1]]

\* reset_priority, then tasks_aging for queue 1 and for queue 2; the task
\* that was chosen is in one of them again and ages with the others.
AgingChoose(l, t) ==
  LET r == [queues |-> Push(Popped(l), base[t], t),
            priority |-> [priority EXCEPT ![t] = base[t]], score |-> score]
      a == Aged(Aged(r, 1), 2)
  IN
  /\ PoppedFrom(l, t)
  /\ Choose(t)
  /\ queues' = a.queues /\ priority' = a.priority /\ score' = a.score
  /\ UNCHANGED taskData

PrioLeave(l, t) ==
  /\ PoppedFrom(l, t)
  /\ PutAside(t) \/ Retire(t)
  /\ queues' = Popped(l)
  /\ UNCHANGED <<priority, score, taskData>>

PrioIdle ==
  /\ \A l \in Levels : queues[l] = << >>
  /\ Return(Idle)
  /\ UNCHANGED prioVars

PrioNext ==
  \/ \E t \in Tasks : LoopBootAdd(t) /\ PrioAdd(t)
  \/ \E t, u \in Tasks : LoopThreadAdd(t, u) /\ PrioAdd(u)
  \/ \E t \in Tasks : PrioWake(t)
  \/ \E l \in Levels, t \in Tasks :
       \/ kind = "fixed_priority" /\ FixedChoose(l, t)
       \/ kind = "priority_aging" /\ AgingChoose(l, t)
       \/ PrioLeave(l, t)
  \/ PrioIdle
  \/ (LoopSysTick \/ LoopLaunch \/ LoopThreads \/ LoopEnter \/ AllAwake
        \/ Reap \/ LoopReturn) /\ UNCHANGED prioVars

-----------------------------------------------------------------------------
(* Properties of these schedulers                                          *)

InQueue(l, t) == Contains(queues[l], t)

\* Where a task is queued is what its data say (scheduler_priority_aging.hpp,
\* tasks_aging and reset_priority), and it is queued once.
PrioPlacement ==
  /\ \A l \in Levels : IsInjective(queues[l])
  /\ \A l \in Levels, t \in Tasks : InQueue(l, t) => priority[t] = l

PrioHeld == {t \in Tasks : \E l \in Levels : InQueue(l, t)}

=============================================================================
