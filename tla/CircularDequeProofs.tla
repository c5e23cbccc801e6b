------------------------ MODULE CircularDequeProofs -------------------------
(***************************************************************************)
(* What the operations on the ring do to the sequence of its elements, for *)
(* every number of slots.                                                  *)
(***************************************************************************)
EXTENDS CircularDeque, SequenceTheorems, TLAPS

-----------------------------------------------------------------------------
(* Arithmetic of the ring                                                  *)

\* The slots after and before a slot, without %.
LEMMA Neighbours ==
  ASSUME NEW s \in Slots
  PROVE  /\ After(s) = IF s = SlotCount - 1 THEN 0 ELSE s + 1
         /\ Before(s) = IF s = 0 THEN SlotCount - 1 ELSE s - 1
         /\ After(s) \in Slots /\ Before(s) \in Slots
         /\ Before(After(s)) = s /\ After(Before(s)) = s
<1> USE SlotCountAssumption DEF Slots
<1>1. \A r \in Slots : After(r) = IF r = SlotCount - 1 THEN 0 ELSE r + 1
  <2> SUFFICES ASSUME NEW r \in Slots
               PROVE  (r + 1) % SlotCount =
                        IF r = SlotCount - 1 THEN 0 ELSE r + 1
    BY DEF After
  <2>1. QED
    OBVIOUS
<1>2. \A r \in Slots : Before(r) = IF r = 0 THEN SlotCount - 1 ELSE r - 1
  <2> SUFFICES ASSUME NEW r \in Slots
               PROVE  (r + SlotCount - 1) % SlotCount =
                        IF r = 0 THEN SlotCount - 1 ELSE r - 1
    BY DEF Before
  <2>1. CASE r = 0
    BY <2>1
  <2>2. CASE r # 0
    BY <2>2
  <2>3. QED
    BY <2>1, <2>2
<1>3. After(s) \in Slots /\ Before(s) \in Slots
  BY <1>1, <1>2
<1>4. Before(After(s)) = s /\ After(Before(s)) = s
  BY <1>1, <1>2, <1>3
<1>5. QED
  BY <1>1, <1>2, <1>3, <1>4

\* The number of elements and the slot of each, without %.
RingShape ==
  /\ Size = IF head <= tail THEN tail - head ELSE tail + SlotCount - head
  /\ Size \in 0..(SlotCount - 1)

LEMMA ShapeOfRing == DequeTypeOK => RingShape
<1> SUFFICES ASSUME DequeTypeOK PROVE RingShape
  OBVIOUS
<1> USE SlotCountAssumption DEF DequeTypeOK, Slots
<1>1. head <= tail => Size = tail - head
  BY DEF Size
<1>2. tail < head => Size = tail + SlotCount - head
  BY DEF Size
<1>3. QED
  BY <1>1, <1>2 DEF RingShape

\* The queue is empty, or full, when the code says so.
LEMMA EmptyAndFull ==
  ASSUME DequeTypeOK
  PROVE  /\ Empty <=> Size = 0
         /\ Full <=> Size = SlotCount - 1
<1>1. tail \in Slots /\ head \in Slots
  BY DEF DequeTypeOK
<1>2. QED
  BY <1>1, ShapeOfRing, Neighbours, SlotCountAssumption
  DEF Empty, Full, Slots, RingShape

\* The elements are a sequence of values.
ElementsSeq ==
  /\ Elements \in Seq(Values)
  /\ Len(Elements) = Size
  /\ \A i \in 1..Size :
       Elements[i] =
         items[IF head + i - 1 < SlotCount THEN head + i - 1
               ELSE head + i - 1 - SlotCount]

LEMMA SeqOfElements == DequeTypeOK => ElementsSeq
<1> SUFFICES ASSUME DequeTypeOK PROVE ElementsSeq
  OBVIOUS
<1>1. Size \in Nat /\ Size < SlotCount
  BY ShapeOfRing, SlotCountAssumption DEF RingShape
<1>2. ASSUME NEW i \in 1..SlotCount
      PROVE  (head + i - 1) % SlotCount =
               IF head + i - 1 < SlotCount THEN head + i - 1
                                           ELSE head + i - 1 - SlotCount
  <2> USE SlotCountAssumption DEF DequeTypeOK, Slots
  <2>1. CASE head + i - 1 < SlotCount
    BY <2>1
  <2>2. CASE head + i - 1 >= SlotCount
    BY <2>2
  <2>3. QED
    BY <2>1, <2>2
<1>3. \A i \in 1..Size :
        /\ i \in 1..SlotCount
        /\ (head + i - 1) % SlotCount \in Slots
  BY <1>1, <1>2, SlotCountAssumption DEF DequeTypeOK, Slots
<1>4. Elements \in [1..Size -> Values]
  BY <1>3 DEF Elements, DequeTypeOK
<1>5. Elements \in Seq(Values) /\ Len(Elements) = Size
  BY <1>1, <1>4
<1>6. QED
  BY <1>2, <1>3, <1>5 DEF Elements, ElementsSeq

-----------------------------------------------------------------------------
(* What the two operations on the ring do to its elements                  *)

LEMMA PushElements ==
  ASSUME DequeTypeOK, NEW v \in Values, EmplaceBack(v)
  PROVE  /\ DequeTypeOK'
         /\ Full => UNCHANGED Elements
         /\ ~Full => Elements' = Append(Elements, v) /\ Size' = Size + 1
<1> USE SlotCountAssumption
<1>0. RingShape /\ ElementsSeq
  BY ShapeOfRing, SeqOfElements
<1>1. CASE Full
  BY <1>1 DEF EmplaceBack, DequeTypeOK, Elements, Size
<1>2. CASE ~Full
  <2>1. /\ tail' = After(tail) /\ items' = [items EXCEPT ![tail] = v]
        /\ head' = head /\ tail \in Slots /\ head \in Slots
    BY <1>2 DEF EmplaceBack, DequeTypeOK
  <2>2. DequeTypeOK'
    BY <2>1, Neighbours DEF DequeTypeOK
  <2>a. RingShape' /\ ElementsSeq'
    BY <2>2, ShapeOfRing, SeqOfElements, PTL
  <2>3. Size' = Size + 1
    BY <1>0, <1>2, <2>1, <2>a, Neighbours DEF RingShape, Full, Slots
  <2>4. /\ Elements' \in Seq(Values) /\ Len(Elements') = Size + 1
        /\ \A i \in 1..(Size + 1) :
             Elements'[i] =
               items'[IF head + i - 1 < SlotCount THEN head + i - 1
                      ELSE head + i - 1 - SlotCount]
    BY <2>1, <2>3, <2>a DEF ElementsSeq
  <2>5. ASSUME NEW i \in 1..(Size + 1)
        PROVE  Elements'[i] = Append(Elements, v)[i]
    <3>1. CASE i = Size + 1
      <4>1. (IF head + i - 1 < SlotCount THEN head + i - 1
             ELSE head + i - 1 - SlotCount) = tail
        BY <1>0, <1>2, <2>1, <3>1, Neighbours
        DEF RingShape, Full, Slots
      <4>2. Elements'[i] = v
        BY <2>1, <2>4, <4>1 DEF DequeTypeOK
      <4>3. QED
        BY <1>0, <3>1, <4>2 DEF ElementsSeq
    <3>2. CASE i \in 1..Size
      <4>1. (IF head + i - 1 < SlotCount THEN head + i - 1
             ELSE head + i - 1 - SlotCount) \in Slots \ {tail}
        BY <1>0, <2>1, <3>2 DEF RingShape, Slots
      <4>2. Elements'[i] = Elements[i]
        BY <1>0, <2>1, <2>4, <3>2, <4>1 DEF DequeTypeOK, ElementsSeq
      <4>3. QED
        BY <1>0, <3>2, <4>2 DEF ElementsSeq
    <3>3. i = Size + 1 \/ i \in 1..Size
      BY <1>0 DEF RingShape
    <3>4. QED
      BY <3>1, <3>2, <3>3
  <2>6. Append(Elements, v) \in Seq(Values)
          /\ Len(Append(Elements, v)) = Size + 1
    BY <1>0 DEF ElementsSeq
  <2>7. Elements' = Append(Elements, v)
    BY <2>4, <2>5, <2>6, SeqEqual
  <2>8. QED
    BY <1>2, <2>2, <2>3, <2>7
<1>3. QED
  BY <1>1, <1>2

LEMMA PopElements ==
  ASSUME DequeTypeOK, head # tail, head' = After(head),
         UNCHANGED <<items, tail>>
  PROVE  /\ DequeTypeOK'
         /\ Elements # << >>
         /\ Head(Elements) = items[head]
         /\ Elements' = Tail(Elements)
         /\ Size' = Size - 1
<1>1. head \in Slots /\ tail \in Slots
  BY DEF DequeTypeOK
<1>2. DequeTypeOK'
  BY <1>1, Neighbours DEF DequeTypeOK
<1>a. RingShape /\ ElementsSeq
  BY ShapeOfRing, SeqOfElements
<1>b. RingShape' /\ ElementsSeq'
  BY <1>2, ShapeOfRing, SeqOfElements, PTL
<1>3. Size \in 1..(SlotCount - 1) /\ Size' = Size - 1
  <2>1. Size \in 1..(SlotCount - 1)
    BY <1>1, <1>a, SlotCountAssumption DEF RingShape, Slots
  <2>2. head' = IF head = SlotCount - 1 THEN 0 ELSE head + 1
    BY <1>1, Neighbours
  <2>3. tail' = tail
    OBVIOUS
  <2>4. Size' = IF head' <= tail THEN tail - head'
                ELSE tail + SlotCount - head'
    BY <1>b, <2>3 DEF RingShape
  <2>5. Size' = Size - 1
    BY <1>1, <1>a, <2>2, <2>4, SlotCountAssumption DEF RingShape, Slots
  <2>6. QED
    BY <2>1, <2>5
<1>4. Elements # << >> /\ Elements[1] = items[head]
  BY <1>1, <1>3, <1>a, SlotCountAssumption DEF Slots, ElementsSeq
<1>5. /\ Elements' \in Seq(Values) /\ Len(Elements') = Size - 1
      /\ \A i \in 1..(Size - 1) :
           Elements'[i] =
             items[IF After(head) + i - 1 < SlotCount THEN After(head) + i - 1
                   ELSE After(head) + i - 1 - SlotCount]
  BY <1>3, <1>b DEF ElementsSeq
<1>6. ASSUME NEW i \in 1..(Size - 1)
      PROVE  Elements'[i] = Elements[i + 1]
  <2>1. i + 1 \in 1..Size
    BY <1>3
  <2>2. (IF After(head) + i - 1 < SlotCount THEN After(head) + i - 1
         ELSE After(head) + i - 1 - SlotCount)
          = (IF head + (i + 1) - 1 < SlotCount THEN head + (i + 1) - 1
             ELSE head + (i + 1) - 1 - SlotCount)
    BY <1>1, <1>3, Neighbours, SlotCountAssumption DEF Slots
  <2>3. QED
    BY <1>5, <1>a, <2>1, <2>2 DEF ElementsSeq
<1>7. /\ Tail(Elements) \in Seq(Values) /\ Len(Tail(Elements)) = Size - 1
      /\ \A i \in 1..(Size - 1) : Tail(Elements)[i] = Elements[i + 1]
  BY <1>4, <1>a, HeadTailProperties DEF ElementsSeq
<1>8. Elements' = Tail(Elements)
  BY <1>5, <1>6, <1>7, SeqEqual
<1>9. QED
  BY <1>2, <1>3, <1>4, <1>8

LEMMA SameRing ==
  UNCHANGED dequeVars => UNCHANGED <<Elements, Size, DequeTypeOK>>
BY DEF dequeVars, Elements, Size, DequeTypeOK

=============================================================================
