--------------------------- MODULE BoundedSequence --------------------------
(***************************************************************************)
(* What the containers of fixed capacity promise: a sequence of values, an *)
(* answer to every call, and a call that does not fit changes nothing.     *)
(* static_vector and circular_deque are shown to implement it.             *)
(***************************************************************************)
EXTENDS Integers, Sequences

CONSTANTS
  Values,
  NoValue,    \* the answer of a pop that finds nothing
  Capacity    \* the elements the container can hold

VARIABLES
  items,      \* the elements, the first one first
  call        \* the last call: its name, its arguments, its answer

Answers(name, arguments, answer) ==
  /\ call'.name = name
  /\ call'.arguments = arguments
  /\ call'.answer = answer

\* The elements, those of positions a .. b-1 replaced by new.
Spliced(a, b, new) == SubSeq(items, 1, a) \o new \o SubSeq(items, b + 1, Len(items))

HasRoom == Len(items) < Capacity

PushBack(v) ==
  /\ Answers("push_back", <<v>>, HasRoom)
  /\ items' = IF HasRoom THEN Append(items, v) ELSE items

PushFront(v) ==
  /\ Answers("push_front", <<v>>, HasRoom)
  /\ items' = IF HasRoom THEN <<v>> \o items ELSE items

InsertTo(at, v) ==
  LET fits == HasRoom /\ at \in 0..Len(items)
  IN  /\ Answers("insert", <<at, v>>, fits)
      /\ items' = IF fits THEN Spliced(at, at, <<v>>) ELSE items

EraseAt(at) ==
  LET there == at \in 0..(Len(items) - 1)
  IN  /\ Answers("erase", <<at>>, there)
      /\ items' = IF there THEN Spliced(at, at + 1, << >>) ELSE items

EraseRange(first, last) ==
  LET there == 0 <= first /\ first < last /\ last <= Len(items)
  IN  /\ Answers("erase_range", <<first, last>>, IF there THEN last - first ELSE 0)
      /\ items' = IF there THEN Spliced(first, last, << >>) ELSE items

TakeFront ==
  /\ Answers("pop_front", << >>, IF items = << >> THEN NoValue ELSE Head(items))
  /\ items' = IF items = << >> THEN items ELSE Tail(items)

TakeBack ==
  /\ Answers("take_back", << >>, IF items = << >> THEN NoValue ELSE items[Len(items)])
  /\ items' = IF items = << >> THEN items ELSE SubSeq(items, 1, Len(items) - 1)

DropBack ==
  /\ Answers("pop_back", << >>, items # << >>)
  /\ items' = IF items = << >> THEN items ELSE SubSeq(items, 1, Len(items) - 1)

DropLast(n) ==
  /\ Answers("reduce", <<n>>, TRUE)
  /\ items' = IF n > Len(items) THEN << >> ELSE SubSeq(items, 1, Len(items) - n)

Replace(new) ==
  /\ Answers("assign", new, TRUE)
  /\ items' = new

Empty ==
  /\ Answers("clear", << >>, TRUE)
  /\ items' = << >>

SequenceNext ==
  \/ \E v \in Values : PushBack(v) \/ PushFront(v)
  \/ \E at \in 0..(Capacity + 1), v \in Values : InsertTo(at, v)
  \/ \E at \in 0..(Capacity + 1) : EraseAt(at)
  \/ \E first, last \in 0..(Capacity + 1) : EraseRange(first, last)
  \/ TakeFront \/ TakeBack \/ DropBack
  \/ \E n \in 0..(Capacity + 1) : DropLast(n)
  \/ \E n \in 0..Capacity : \E new \in [1..n -> Values] : Replace(new)
  \/ Empty

SequenceSpec == items = << >> /\ [][SequenceNext]_<<items, call>>

=============================================================================
