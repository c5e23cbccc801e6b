---------------------------- MODULE MCSchedulers ----------------------------
(* Two tasks and two ticks for each of the schedulers.                      *)
EXTENDS Schedulers

MCKinds == {"fixed_priority", "priority_aging", "edf", "cfs_like", "mlfq",
            "lottery", "weighted_lottery"}

\* Quanta of the three levels.
MCSlices == {<<1, 1, 2>>}

\* A task that climbs fast to the limit of its tickets, and one whose wins
\* and losses count up.
MCSettings ==
  {[tickets |-> 1,
    win_delta |-> 1, win_threshold |-> 1, win_agressive |-> FALSE,
    lose_delta |-> 2, lose_threshold |-> 1, lose_agressive |-> TRUE],
   [tickets |-> 2,
    win_delta |-> 1, win_threshold |-> 2, win_agressive |-> TRUE,
    lose_delta |-> 1, lose_threshold |-> 2, lose_agressive |-> TRUE]}

=============================================================================
