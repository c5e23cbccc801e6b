--------------------------- MODULE CircularDeque ---------------------------
(***************************************************************************)
(* utils::circular_deque: a ring of SlotCount slots of which one is always *)
(* free, so that head = tail means empty.  sync::circular_queue<T, N> has  *)
(* one of N + 2 slots and therefore holds N + 1 elements.                  *)
(***************************************************************************)
EXTENDS Integers

CONSTANTS
  Values,      \* what a slot can hold
  SlotCount    \* queue_size of circular_deque

ASSUME SlotCountAssumption == SlotCount \in Nat \ {0, 1}

VARIABLES
  items,       \* items_
  head,        \* head_: the slot of the first element
  tail         \* tail_: the slot after the last element

dequeVars == <<items, head, tail>>

Slots == 0..(SlotCount - 1)

DequeTypeOK ==
  /\ items \in [Slots -> Values]
  /\ head \in Slots
  /\ tail \in Slots

\* The buffer of a static deque is zeroed.
DequeInit(zero) ==
  /\ items = [s \in Slots |-> zero]
  /\ head = 0
  /\ tail = 0

\* Seeded fault: the index is not wrapped.
AfterUnwrapped(s) == s + 1

After(s)  == (s + 1) % SlotCount
Before(s) == (s + SlotCount - 1) % SlotCount

Size == (tail + SlotCount - head) % SlotCount

\* Seeded fault: the ring is full one element too early.
FullTooEarly == After(tail) = head \/ After(After(tail)) = head

Full == After(tail) = head

\* Seeded fault: a single element is not seen.
EmptyOffByOne == head = tail \/ After(head) = tail

Empty == head = tail

\* Seeded fault: the element is stored without a look at full().
EmplaceBackUnchecked(v) ==
  /\ items' = [items EXCEPT ![tail] = v]
  /\ tail' = After(tail)
  /\ UNCHANGED head

\* emplace_back: FALSE is returned and nothing stored when the ring is full.
EmplaceBack(v) ==
  /\ IF Full
     THEN UNCHANGED <<items, tail>>
     ELSE /\ items' = [items EXCEPT ![tail] = v]
          /\ tail' = After(tail)
  /\ UNCHANGED head

\* The elements, the first one first.
Elements == [i \in 1..Size |-> items[(head + i - 1) % SlotCount]]

=============================================================================
