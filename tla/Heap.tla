-------------------------------- MODULE Heap --------------------------------
(***************************************************************************)
(* What an allocator owes its clients: the pieces of memory they hold lie  *)
(* inside the heap and do not overlap, whatever is given back and resized  *)
(* in between.  An allocator may refuse any request.                       *)
(***************************************************************************)
EXTENDS Integers

CONSTANTS First, Last   \* the heap is the addresses First .. Last - 1

VARIABLE live   \* the pointers clients hold, each with the size they asked for

Without(f, p) == [q \in DOMAIN f \ {p} |-> f[q]]
With(f, p, n) == [q \in DOMAIN f \cup {p} |-> IF q = p THEN n ELSE f[q]]

Fits(f, p, n) ==
  /\ p \notin DOMAIN f
  /\ First <= p /\ p + n <= Last
  /\ \A q \in DOMAIN f : p + n <= q \/ q + f[q] <= p

HeapInit == live = [p \in {} |-> 0]

HeapAlloc(p, n) == Fits(live, p, n) /\ live' = With(live, p, n)

HeapFree(p) == p \in DOMAIN live /\ live' = Without(live, p)

HeapResize(p, q, n) ==
  /\ p \in DOMAIN live
  /\ Fits(Without(live, p), q, n)
  /\ live' = With(Without(live, p), q, n)

HeapNext ==
  \/ \E p \in DOMAIN live' : HeapAlloc(p, live'[p])
  \/ \E p \in DOMAIN live : HeapFree(p)
  \/ \E p \in DOMAIN live, q \in DOMAIN live' : HeapResize(p, q, live'[q])

HeapSpec == HeapInit /\ [][HeapNext]_live

=============================================================================
