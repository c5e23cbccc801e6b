------------------------- MODULE MCCoopPreemptive --------------------------
(* CoopPreemptive on small instances for TLC: two tasks, some of them with *)
(* a quantum of their own.                                                 *)
EXTENDS CoopPreemptive

MCInfinite == Infinite
MCGiven == {2, Infinite}
MCCooperative == {Infinite}

=============================================================================
