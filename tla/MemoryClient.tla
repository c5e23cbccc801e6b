---------------------------- MODULE MemoryClient ----------------------------
(***************************************************************************)
(* What the callers of malloc, realloc and free hold, and the arithmetic   *)
(* the allocators share.  Addresses count from the aligned start of the    *)
(* region given to init; each call runs in an irq_critical_section and is  *)
(* one step (memory.cpp, memory_core_friend).                              *)
(***************************************************************************)
EXTENDS Integers

CONSTANTS
  HeapEnd,    \* the end of the region given to init, an even address
  Requests    \* bound: the sizes clients ask for

ASSUME HeapEndAssumption == HeapEnd \in Nat /\ HeapEnd % 2 = 0
ASSUME RequestsAssumption == Requests \subseteq Nat

VARIABLE live   \* the pointers clients hold, each with the size asked for

Align == 8   \* alignof(std::max_align_t), and the default of tlsf::base
Nil == -1    \* nullptr

AlignUp(n) == ((n + Align - 1) \div Align) * Align

Held == DOMAIN live

Abstract == INSTANCE Heap WITH First <- 0, Last <- HeapEnd

Obtain(p, n) == live' = Abstract!With(live, p, n)
GiveUp(p)    == live' = Abstract!Without(live, p)
Exchange(p, q, n) == live' = Abstract!With(Abstract!Without(live, p), q, n)

=============================================================================
