----------------------------- MODULE RingClient -----------------------------
(***************************************************************************)
(* utils::circular_deque with all its operations, each at once: what one   *)
(* task does with a deque of its own.  UartReceive has the interleavings   *)
(* of the two operations that an interrupt handler and a task share.       *)
(***************************************************************************)
EXTENDS CircularDeque

CONSTANT NoValue   \* std::nullopt

VARIABLE dcall     \* the last call and its answer

ringVars == <<dequeVars, dcall>>

RingInit ==
  /\ \E v \in Values : DequeInit(v)
  /\ dcall = [name |-> "none", arguments |-> << >>, answer |-> TRUE]

RingAnswer(name, arguments, answer) ==
  dcall' = [name |-> name, arguments |-> arguments, answer |-> answer]

RingPushBack(v) ==
  /\ RingAnswer("push_back", <<v>>, ~Full)
  /\ EmplaceBack(v)

EmplaceFront(v) ==
  /\ RingAnswer("push_front", <<v>>, ~Full)
  /\ IF Full
     THEN UNCHANGED <<items, head>>
     ELSE /\ head' = Before(head)
          /\ items' = [items EXCEPT ![Before(head)] = v]
  /\ UNCHANGED tail

PopFront ==
  /\ RingAnswer("pop_front", << >>, IF Empty THEN NoValue ELSE items[head])
  /\ head' = IF Empty THEN head ELSE After(head)
  /\ UNCHANGED <<items, tail>>

\* Seeded fault: the slot is read before tail_ has moved.
PopBackUnmoved ==
  /\ RingAnswer("take_back", << >>, IF Empty THEN NoValue ELSE items[tail])
  /\ tail' = IF Empty THEN tail ELSE Before(tail)
  /\ UNCHANGED <<items, head>>

PopLast ==
  /\ RingAnswer("take_back", << >>, IF Empty THEN NoValue ELSE items[Before(tail)])
  /\ tail' = IF Empty THEN tail ELSE Before(tail)
  /\ UNCHANGED <<items, head>>

\* The deque is popped until it is empty.
ClearRing ==
  /\ RingAnswer("clear", << >>, TRUE)
  /\ head' = tail
  /\ UNCHANGED <<items, tail>>

RingNext ==
  \/ \E v \in Values : RingPushBack(v) \/ EmplaceFront(v)
  \/ PopFront \/ PopLast \/ ClearRing

=============================================================================
