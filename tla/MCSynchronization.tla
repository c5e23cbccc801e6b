------------------------- MODULE MCSynchronization -------------------------
(* Three waiters and two notifiers, two writers, three users, three buffers. *)
EXTENDS Synchronization

CONSTANTS w1, w2, w3, n1, n2

MCWaiters   == {w1, w2, w3}
MCNotifiers == {n1, n2}

=============================================================================
