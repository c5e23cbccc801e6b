------------------------- MODULE LotterySchedulers -------------------------
(***************************************************************************)
(* The two schedulers that draw a ticket: the tasks stand in the slots of  *)
(* an array, which is walked until the tickets passed exceed the draw.     *)
(* With weights the walk is repeated until there is a winner, and then the *)
(* winner's and the losers' tickets change.                                *)
(***************************************************************************)
EXTENDS SchedulerLoop

CONSTANTS
  Settings,         \* bound: the configurations of tasks
  MaximumTickets    \* maximum_tikets_value, 255 in the code

Setting ==
  [tickets : 1..MaximumTickets,
   win_delta : Nat, win_threshold : Nat \ {0}, win_agressive : BOOLEAN,
   lose_delta : Nat, lose_threshold : Nat \ {0}, lose_agressive : BOOLEAN]

ASSUME MaximumTicketsAssumption == MaximumTickets \in Nat \ {0}
ASSUME SettingsAssumption == \A s \in Settings : s \in Setting

VARIABLES
  slots,       \* ready_
  total,       \* total_tickets_
  count,       \* ready_count_
  setting,     \* the configuration of each task
  tickets,     \* tickets
  win, lose,   \* win.rounds and lose.rounds, counted up to the threshold
  drawn,       \* next_win; NoDraw when the walk is skipped
  passed,      \* current_tickets
  checked,     \* task_checked
  spot         \* i

ledger == <<slots, total, count, setting, tickets, win, lose>>
walk == <<drawn, passed, checked, spot>>
lotteryVars == <<ledger, walk>>

Slots  == 1..MaximumTasks
NoDraw == -1
Unset  == [tickets |-> 1, win_delta |-> 1, win_threshold |-> 1,
           win_agressive |-> FALSE, lose_delta |-> 1, lose_threshold |-> 1,
           lose_agressive |-> FALSE]

LotteryTypeOK ==
  /\ slots \in [Slots -> Tasks \cup {NoTask}]
  /\ total \in Nat /\ count \in 0..MaximumTasks
  /\ tickets \in [Tasks -> 1..MaximumTickets]
  /\ win \in [Tasks -> Nat] /\ lose \in [Tasks -> Nat]
  /\ drawn \in Nat \cup {NoDraw} /\ passed \in Nat
  /\ checked \in Nat /\ spot \in 1..MaximumTasks + 1

LotteryInit ==
  /\ slots = [i \in Slots |-> NoTask]
  /\ total = 0 /\ count = 0
  /\ setting = [t \in Tasks |-> Unset]
  /\ tickets = [t \in Tasks |-> 1]
  /\ win = [t \in Tasks |-> 0] /\ lose = [t \in Tasks |-> 0]
  /\ drawn = NoDraw /\ passed = 0 /\ checked = 0 /\ spot = 1

LotteryHeld == Range(slots) \ {NoTask}

-----------------------------------------------------------------------------
(* add_task and remove_task                                                *)

FirstEmpty(i) ==
  slots[i] = NoTask /\ \A j \in Slots : slots[j] = NoTask => i <= j

EnterSlot(t, n) ==
  /\ \E i \in Slots : FirstEmpty(i) /\ slots' = [slots EXCEPT ![i] = t]
  /\ count' = count + 1
  /\ total' = total + n

LeaveSlot(t) ==
  /\ slots' = [i \in Slots |-> IF slots[i] = t THEN NoTask ELSE slots[i]]
  /\ count' = count - 1
  /\ total' = total - tickets[t]

LotteryAdd(t) ==
  /\ \E s \in Settings :
       /\ setting' = [setting EXCEPT ![t] = s]
       /\ tickets' = [tickets EXCEPT ![t] = s.tickets]
       /\ EnterSlot(t, s.tickets)
  /\ win' = [win EXCEPT ![t] = 0]
  /\ lose' = [lose EXCEPT ![t] = 0]
  /\ UNCHANGED walk

LotteryWake(t) ==
  /\ Wake(t)
  /\ EnterSlot(t, tickets[t])
  /\ UNCHANGED <<setting, tickets, win, lose, walk>>

-----------------------------------------------------------------------------
(* The walk                                                                *)

\* rng_.next() % total_tickets_, and the loop's counters.
Draw ==
  /\ \/ total > 0 /\ drawn' \in 0..total - 1
     \/ total = 0 /\ drawn' = NoDraw
  /\ passed' = 0 /\ checked' = 0 /\ spot' = 1

LotteryBegin == AllAwake /\ Draw /\ UNCHANGED ledger

\* The loop's condition; with weights task_checked stays 0.
Walking ==
  /\ mode = "select"
  /\ drawn # NoDraw
  /\ spot <= MaximumTasks
  /\ checked < count

At(t) == Walking /\ slots[spot] = t

OnWalk ==
  /\ spot' = spot + 1
  /\ checked' = IF kind = "lottery" /\ slots[spot] # NoTask
                THEN checked + 1 ELSE checked
  /\ UNCHANGED drawn

SkipEmpty ==
  /\ At(NoTask)
  /\ OnWalk
  /\ UNCHANGED <<coreVars, loopVars, ledger, passed>>

Loses(t) ==
  /\ At(t)
  /\ state[t] \in Runnable
  /\ drawn >= passed + tickets[t]
  /\ passed' = passed + tickets[t]
  /\ OnWalk
  /\ UNCHANGED <<coreVars, loopVars, ledger>>

Wins(t) ==
  /\ At(t)
  /\ drawn < passed + tickets[t]
  /\ Choose(t)
  /\ UNCHANGED walk

LotteryPutAside(t) ==
  /\ At(t)
  /\ PutAside(t)
  /\ LeaveSlot(t)
  /\ OnWalk
  /\ UNCHANGED <<setting, tickets, win, lose, passed>>

LotteryRetire(t) ==
  /\ At(t)
  /\ Retire(t)
  /\ OnWalk
  /\ UNCHANGED <<ledger, passed>>

\* on_task_done calls clear_task, which takes the task out of its slot.
LotteryReap ==
  /\ Reap
  /\ LeaveSlot(hand)
  /\ UNCHANGED <<setting, tickets, win, lose, walk>>

-----------------------------------------------------------------------------
(* lottery                                                                 *)

LotteryWins(t) == Wins(t) /\ UNCHANGED ledger

\* The walk ended without a winner: the idle task runs.
LotteryIdle == ~Walking /\ Return(Idle) /\ UNCHANGED lotteryVars

-----------------------------------------------------------------------------
(* weighted lottery                                                        *)

\* What the functions below read and write of one task, and what they add to
\* the total on the way.
Stake(t) == [tickets |-> tickets[t], win |-> win[t], lose |-> lose[t],
             added |-> 0]

OneMore(rounds, threshold) ==
  IF rounds < threshold THEN rounds + 1 ELSE threshold

ToBase(d, s) ==
  [d EXCEPT !.tickets = s.tickets, !.added = @ + (s.tickets - d.tickets)]

\* decay_winner, whose effect on the tickets reset_tickets undoes.
Decayed(d, s) ==
  LET rounds == OneMore(d.win, s.win_threshold)
      a == IF d.lose > 0 THEN [ToBase(d, s) EXCEPT !.lose = 0] ELSE d
      cut == IF a.tickets > s.win_delta THEN s.win_delta ELSE a.tickets - 1
  IN  IF rounds < s.win_threshold THEN [a EXCEPT !.win = rounds]
      ELSE [a EXCEPT !.win = IF s.win_agressive THEN rounds ELSE 0,
                     !.tickets = @ - cut, !.added = @ - cut]

\* Seeded fault: a loser at the limit adds its whole delta to the total.
AdjustedPastLimit(d, s) ==
  LET a == IF d.win > 0 THEN [ToBase(d, s) EXCEPT !.win = 0] ELSE d
      rounds == OneMore(d.lose, s.lose_threshold)
      up == d.tickets + s.lose_delta
  IN  [IF rounds < s.lose_threshold THEN a
       ELSE [a EXCEPT !.tickets = IF up > MaximumTickets THEN MaximumTickets
                                  ELSE @ + s.lose_delta,
                      !.added = @ + s.lose_delta]
         EXCEPT !.lose = IF s.lose_agressive THEN rounds ELSE 0]

\* Seeded fault: the limit is not looked at.
AdjustedUnlimited(d, s) ==
  LET rounds == OneMore(d.lose, s.lose_threshold)
  IN  [IF rounds < s.lose_threshold THEN d
       ELSE [d EXCEPT !.tickets = @ + s.lose_delta, !.added = @ + s.lose_delta]
         EXCEPT !.lose = rounds]

\* adjust_losers, for one of them; the limit is applied to the tickets it had
\* before they were set back to their base.
Adjusted(d, s) ==
  LET a == IF d.win > 0 THEN [ToBase(d, s) EXCEPT !.win = 0] ELSE d
      rounds == OneMore(d.lose, s.lose_threshold)
      up == d.tickets + s.lose_delta
  IN  [IF rounds < s.lose_threshold THEN a
       ELSE IF up <= MaximumTickets
       THEN [a EXCEPT !.tickets = @ + s.lose_delta, !.added = @ + s.lose_delta]
       ELSE [a EXCEPT !.tickets = MaximumTickets,
                      !.added = @ + (MaximumTickets - d.tickets)]
         EXCEPT !.lose = IF s.lose_agressive THEN rounds ELSE 0]

WeightedWins(t) ==
  LET After(u) ==
        IF u = t THEN ToBase(Decayed(Stake(u), setting[u]), setting[u])
        ELSE IF u \in LotteryHeld THEN Adjusted(Stake(u), setting[u])
        ELSE Stake(u)
  IN
  /\ Wins(t)
  /\ tickets' = [u \in Tasks |-> After(u).tickets]
  /\ win' = [u \in Tasks |-> After(u).win]
  /\ lose' = [u \in Tasks |-> After(u).lose]
  /\ total' = total + SumFunction([u \in Tasks |-> After(u).added])
  /\ UNCHANGED <<slots, count, setting>>

\* No winner although tasks are left: the walk starts again.
Redraw ==
  /\ mode = "select"
  /\ ~Walking
  /\ count # 0
  /\ Draw
  /\ UNCHANGED <<coreVars, loopVars, ledger>>

WeightedIdle ==
  /\ ~Walking
  /\ count = 0
  /\ Return(Idle)
  /\ UNCHANGED lotteryVars

-----------------------------------------------------------------------------

LotteryNext ==
  \/ \E t \in Tasks : LoopBootAdd(t) /\ LotteryAdd(t)
  \/ \E t, u \in Tasks : LoopThreadAdd(t, u) /\ LotteryAdd(u)
  \/ \E t \in Tasks :
       \/ LotteryWake(t) \/ Loses(t) \/ LotteryPutAside(t) \/ LotteryRetire(t)
       \/ kind = "lottery" /\ LotteryWins(t)
       \/ kind = "weighted_lottery" /\ WeightedWins(t)
  \/ LotteryBegin \/ SkipEmpty \/ LotteryReap
  \/ kind = "lottery" /\ LotteryIdle
  \/ kind = "weighted_lottery" /\ (Redraw \/ WeightedIdle)
  \/ (LoopSysTick \/ LoopLaunch \/ LoopThreads \/ LoopEnter \/ LoopReturn)
       /\ UNCHANGED lotteryVars

\* No task stands in two slots.
LotteryPlacement ==
  \A i, j \in Slots : slots[i] # NoTask /\ slots[i] = slots[j] => i = j

\* scheduler_weighted_lottery.hpp, validate_tickets: ASSERT(total_tickets_ ==
\* tickets), however wins, losses and limits changed the tickets in between;
\* and the count of tasks is right.
TicketsAddUp ==
  /\ total = SumFunctionOnSet(tickets, LotteryHeld)
  /\ count = Cardinality(LotteryHeld)

=============================================================================
