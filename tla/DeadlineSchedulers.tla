------------------------ MODULE DeadlineSchedulers ------------------------
(***************************************************************************)
(* The two schedulers with one queue ordered by a number of each task: the *)
(* deadline (edf) and the virtual run time (cfs_like).                     *)
(*                                                                         *)
(* An edf task whose deadline has passed is returned with an event, which  *)
(* the application's handler answers in pendsv_handler: it lets the task   *)
(* run, or it terminates it, may add another task, and asks for a retry.   *)
(***************************************************************************)
EXTENDS SchedulerLoop

CONSTANT Deadlines   \* bound: the relative deadlines tasks are given

ASSUME DeadlinesAssumption == Deadlines \subseteq Nat

VARIABLES
  line,       \* deadline_queue_ or ready_tasks_, in the order of popping
  key,        \* the deadline or the vruntime of each task
  start,      \* cfs_like: when the task was chosen; 0 says it was not
  launched    \* TRUE once pendsv_handler and not init_first_task switches

lineVars == <<line, key, start, launched>>

LineTypeOK ==
  /\ line \in Seq(Tasks)
  /\ key \in [Tasks -> Nat]
  /\ start \in [Tasks -> Nat]
  /\ launched \in BOOLEAN

LineInit ==
  /\ line = << >>
  /\ key = [t \in Tasks |-> 0]
  /\ start = [t \in Tasks |-> 0]
  /\ launched = FALSE

\* Where try_push may put t: the stable queue behind its equals, the other
\* one wherever its heap happens to have it among them.
Places(q, k, t) ==
  {i \in 1..Len(q) + 1 :
     /\ \A j \in 1..i - 1 : k[q[j]] <= k[t]
     /\ \A j \in i..Len(q) :
          IF kind = "cfs_like" THEN k[t] < k[q[j]] ELSE k[t] <= k[q[j]]}

Pushed(q, k, t) == {InsertAt(q, i, t) : i \in Places(q, k, t)}

\* configure_task and add_task; an edf deadline counts from now.
LineAdd(t) ==
  /\ IF kind = "edf"
     THEN \E d \in Deadlines : key' = [key EXCEPT ![t] = tick + d]
     ELSE key' = [key EXCEPT ![t] = 0]
  /\ start' = [start EXCEPT ![t] = 0]
  /\ line' \in Pushed(line, key', t)

LineWake(t) ==
  /\ Wake(t)
  /\ line' \in Pushed(line, key, t)
  /\ UNCHANGED <<key, start, launched>>

FirstInLine(t) == line # << >> /\ t = Head(line)

-----------------------------------------------------------------------------
(* edf                                                                     *)

EdfBegin == AllAwake /\ UNCHANGED lineVars

Expired(t) == state[t] # "DONE" /\ key[t] <= ticks

\* Whatever its state, the task is returned; here the event has no handler,
\* or one that does not ask for a retry.
EdfExpired(t) ==
  /\ FirstInLine(t)
  /\ Expired(t)
  /\ Return(t)
  /\ line' \in Pushed(Tail(line), key, t)
  /\ UNCHANGED <<key, start, launched>>

\* The handler of tests/edf.cpp: terminate_current, which is the task that
\* was returned and whose get_current_tcb enables interrupts, and a retry,
\* which reads the ticks for waiting_tasks_queue::process anew.
EdfKill(t) ==
  /\ FirstInLine(t)
  /\ Expired(t)
  /\ launched
  /\ mode = "select"
  /\ mode' = "wake"
  /\ primask' = FALSE
  /\ ticks' = tick
  /\ current' = t
  /\ state' = [state EXCEPT ![t] = "DONE"]
  /\ line' \in Pushed(Tail(line), key, t)
  /\ UNCHANGED <<tick, counter, pend, allocated, next_run, threadVars,
                 kind, waiting, hand, key, start, launched>>

\* ... after an add_task, whose critical section enables interrupts too.
EdfReplace(t, u) ==
  /\ FirstInLine(t)
  /\ Expired(t)
  /\ launched
  /\ mode = "select"
  /\ mode' = "wake"
  /\ primask' = FALSE
  /\ ticks' = tick
  /\ current' = t
  /\ IsFirstFree(u)
  /\ allocated' = allocated \cup {u}
  /\ state' = [state EXCEPT ![t] = "DONE", ![u] = "READY"]
  /\ next_run' = [next_run EXCEPT ![u] = 0]
  /\ pc' = [pc EXCEPT ![u] = "wrapper"]
  /\ \E d \in Deadlines : key' = [key EXCEPT ![u] = tick + d]
  /\ start' = [start EXCEPT ![u] = 0]
  /\ \E q \in Pushed(Tail(line), key, t) : line' \in Pushed(q, key', u)
  /\ UNCHANGED <<tick, counter, pend, deadline, kind, waiting, hand, launched>>

\* ... or the add_task finds no slot, since the task that was terminated still
\* has its own.
EdfPanic(t) ==
  /\ FirstInLine(t)
  /\ Expired(t)
  /\ launched
  /\ FreeSlots = {}
  /\ mode = "select"
  /\ mode' = "panic"
  /\ primask' = TRUE
  /\ current' = t
  /\ state' = [state EXCEPT ![t] = "DONE"]
  /\ line' \in Pushed(Tail(line), key, t)
  /\ UNCHANGED <<tick, counter, pend, allocated, next_run, threadVars,
                 loopVars, key, start, launched>>

EdfChoose(t) ==
  /\ FirstInLine(t)
  /\ ~Expired(t)
  /\ Choose(t)
  /\ line' \in Pushed(Tail(line), key, t)
  /\ UNCHANGED <<key, start, launched>>

EdfLeave(t) ==
  /\ FirstInLine(t)
  /\ ~Expired(t)
  /\ PutAside(t) \/ Retire(t)
  /\ line' = Tail(line)
  /\ UNCHANGED <<key, start, launched>>

EdfNext ==
  \/ EdfBegin
  \/ \E t \in Tasks :
       \/ EdfExpired(t) \/ EdfKill(t) \/ EdfPanic(t)
       \/ EdfChoose(t) \/ EdfLeave(t)
  \/ \E t, u \in Tasks : EdfReplace(t, u)

-----------------------------------------------------------------------------
(* cfs_like                                                                *)

\* The task on top is charged, whether or not it is the one that ran.
Charged(t) ==
  IF start[t] # 0 THEN [key EXCEPT ![t] = @ + (tick - start[t])] ELSE key

\* Seeded fault: the task is charged where it stands in the queue.
CfsBeginInPlace ==
  /\ AllAwake
  /\ key' = IF line = << >> THEN key ELSE Charged(Head(line))
  /\ UNCHANGED <<line, start, launched>>

CfsBegin ==
  /\ AllAwake
  /\ IF line = << >> THEN UNCHANGED <<line, key>>
     ELSE /\ key' = Charged(Head(line))
          /\ line' \in Pushed(Tail(line), key', Head(line))
  /\ UNCHANGED <<start, launched>>

CfsChoose(t) ==
  /\ FirstInLine(t)
  /\ Choose(t)
  /\ start' = [start EXCEPT ![t] = ticks]
  /\ UNCHANGED <<line, key, launched>>

CfsLeave(t) ==
  /\ FirstInLine(t)
  /\ PutAside(t) \/ Retire(t)
  /\ line' = Tail(line)
  /\ start' = [start EXCEPT ![t] = 0]
  /\ UNCHANGED <<key, launched>>

CfsNext == CfsBegin \/ \E t \in Tasks : CfsChoose(t) \/ CfsLeave(t)

-----------------------------------------------------------------------------

LineIdle ==
  /\ line = << >>
  /\ Return(Idle)
  /\ UNCHANGED lineVars

LineReturn ==
  /\ LoopReturn
  /\ launched' = TRUE
  /\ UNCHANGED <<line, key, start>>

LineNext ==
  \/ \E t \in Tasks : LoopBootAdd(t) /\ LineAdd(t) /\ UNCHANGED launched
  \/ \E t, u \in Tasks :
       LoopThreadAdd(t, u) /\ LineAdd(u) /\ UNCHANGED launched
  \/ \E t \in Tasks : LineWake(t)
  \/ kind = "edf" /\ EdfNext
  \/ kind = "cfs_like" /\ CfsNext
  \/ LineIdle
  \/ LineReturn
  \/ (LoopSysTick \/ LoopLaunch \/ LoopThreads \/ LoopEnter \/ Reap)
       /\ UNCHANGED lineVars

LineHeld == Range(line)

\* The queue is in order although deadlines and run times change
\* (scheduler_cfs_like.hpp, get_next_task: pop, charge, push), and a task is
\* queued once.
LinePlacement ==
  /\ IsInjective(line)
  /\ \A i, j \in 1..Len(line) : i < j => key[line[i]] <= key[line[j]]

=============================================================================
