---------------------------- MODULE StaticVector ----------------------------
(***************************************************************************)
(* utils::static_vector: MaximumElements cells of raw memory of which the  *)
(* first `length` hold objects.  The objects are constructed and destroyed *)
(* by hand, so a cell knows whether it holds one: to construct over a live *)
(* object, to destroy a cell that holds none or to read one leaves a Torn  *)
(* cell, which no sequence of values contains.                             *)
(***************************************************************************)
EXTENDS Integers, Sequences

CONSTANTS
  Objects,           \* what a cell can hold
  MaximumElements,
  AssignMost,        \* the longest range given to assign
  Dead, Torn         \* a cell without an object; a misused cell

ASSUME VectorAssumption ==
  /\ MaximumElements \in Nat \ {0}
  /\ AssignMost \in 0..MaximumElements
  /\ Dead \notin Objects /\ Torn \notin Objects

VARIABLES
  cells,    \* data_
  length,   \* size_
  vcall     \* the last call and its answer

vectorVars == <<cells, length, vcall>>

Cells == 0..(MaximumElements - 1)

VectorInit ==
  /\ cells = [i \in Cells |-> Dead]
  /\ length = 0
  /\ vcall = [name |-> "none", arguments |-> << >>, answer |-> TRUE]

Answer(name, arguments, answer) ==
  vcall' = [name |-> name, arguments |-> arguments, answer |-> answer]

\* new (&at(i)) value_type(v)
Construct(c, i, v) ==
  [c EXCEPT ![i] = IF @ = Dead /\ v # Dead THEN v ELSE Torn]

Destroy(c, i) == [c EXCEPT ![i] = IF @ = Dead THEN Torn ELSE Dead]

DestroyAll(c, from, to) ==
  [i \in Cells |-> IF i \in from..(to - 1) THEN Destroy(c, i)[i] ELSE c[i]]

PushBack(v) ==
  /\ Answer("push_back", <<v>>, length < MaximumElements)
  /\ IF length < MaximumElements
     THEN /\ cells' = Construct(cells, length, v)
          /\ length' = length + 1
     ELSE UNCHANGED <<cells, length>>

\* A pointer that is not into the array counts as the index of its end.
IndexByIterator(it) == IF it \in Cells THEN it ELSE MaximumElements

CanExpandAt(idx) == length < MaximumElements /\ idx <= length

\* Seeded fault: the loop stops one element early.
ExpandedTooLittle(idx) ==
  LET up[i \in idx..length] ==
        IF i = length THEN cells
        ELSE Destroy(Construct(up[i + 1], i + 1, up[i + 1][i]), i)
  IN  up[IF idx < length THEN idx + 1 ELSE idx]

\* The elements from idx on move up, the last one first.
ExpandedAt(idx) ==
  LET up[i \in idx..length] ==
        IF i = length THEN cells
        ELSE Destroy(Construct(up[i + 1], i + 1, up[i + 1][i]), i)
  IN  up[idx]

InsertTo(it, v) ==
  LET idx == IndexByIterator(it)
  IN  /\ Answer("insert", <<it, v>>, CanExpandAt(idx))
      /\ IF CanExpandAt(idx)
         THEN /\ cells' = Construct(ExpandedAt(idx), idx, v)
              /\ length' = length + 1
         ELSE UNCHANGED <<cells, length>>

\* The elements behind idx move down into the gap, the first one first.
ClosedAt(idx) ==
  LET down[i \in idx..(length - 1)] ==
        IF i = idx THEN Destroy(cells, idx)
        ELSE Destroy(Construct(down[i - 1], i - 1, down[i - 1][i]), i)
  IN  down[length - 1]

EraseAt(it) ==
  LET idx == IndexByIterator(it)
  IN  /\ Answer("erase", <<it>>, idx < length)
      /\ IF idx < length
         THEN /\ cells' = ClosedAt(idx)
              /\ length' = length - 1
         ELSE UNCHANGED <<cells, length>>

\* The elements from start + count on replace those from start on.
MovedDown(start, count) ==
  LET over[i \in start..(length - count)] ==
        IF i = start THEN cells
        ELSE Construct(Destroy(over[i - 1], i - 1), i - 1, over[i - 1][i - 1 + count])
  IN  over[length - count]

EraseRange(first, last) ==
  LET start == IndexByIterator(first)
      end   == IndexByIterator(last)
      count == end - start
      there == start < length /\ end <= length /\ start < end
  IN  /\ Answer("erase_range", <<first, last>>, IF there THEN count ELSE 0)
      /\ IF there
         THEN /\ cells' = DestroyAll(MovedDown(start, count), length - count, length)
              /\ length' = length - count
         ELSE UNCHANGED <<cells, length>>

Clear ==
  /\ Answer("clear", << >>, TRUE)
  /\ cells' = DestroyAll(cells, 0, length)
  /\ length' = 0

PopBack ==
  /\ Answer("pop_back", << >>, length > 0)
  /\ IF length > 0
     THEN /\ cells' = Destroy(cells, length - 1)
          /\ length' = length - 1
     ELSE UNCHANGED <<cells, length>>

\* The length is stored unless the range has filled the vector: then it stays
\* zero, and the objects belong to nobody.
Assign(new) ==
  LET count == IF Len(new) > MaximumElements THEN MaximumElements ELSE Len(new)
      empty == DestroyAll(cells, 0, length)
  IN  /\ Answer("assign", new, TRUE)
      /\ cells' = [i \in Cells |-> IF i < count THEN Construct(empty, i, new[i + 1])[i]
                                   ELSE empty[i]]
      /\ length' = IF count # MaximumElements THEN count ELSE 0

Reduce(n) ==
  LET count == IF n > length THEN length ELSE n
  IN  /\ Answer("reduce", <<n>>, TRUE)
      /\ cells' = DestroyAll(cells, length - count, length)
      /\ length' = length - count

\* Indices may lie behind the array, iterators reach its end.
Indices == 0..(MaximumElements + 1)
Iterators == 0..MaximumElements

VectorNext ==
  \/ \E v \in Objects : PushBack(v)
  \/ \E it \in Indices, v \in Objects : InsertTo(it, v)
  \/ \E it \in Indices : EraseAt(it)
  \/ \E first, last \in Iterators : EraseRange(first, last)
  \/ Clear
  \/ PopBack
  \/ \E n \in 0..AssignMost : \E new \in [1..n -> Objects] : Assign(new)
  \/ \E n \in 0..(MaximumElements + 1) : Reduce(n)

VectorItems == [i \in 1..length |-> cells[i - 1]]

=============================================================================
