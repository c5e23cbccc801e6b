--------------------------- MODULE MCRoundRobin ----------------------------
(* RoundRobin on a small instance for TLC: two tasks, a quantum of two     *)
(* ticks, a few ticks.  The .cfg file gives the constants their values.    *)
EXTENDS RoundRobin

=============================================================================
