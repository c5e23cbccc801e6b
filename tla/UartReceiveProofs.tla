------------------------- MODULE UartReceiveProofs -------------------------
(***************************************************************************)
(* Proofs about UartReceive for every size of the queue: the types, the    *)
(* stability of the slot being read, and the refinement of ByteFifo.       *)
(***************************************************************************)
EXTENDS UartReceive, CircularDequeProofs

\* Where the reader stands in relation to the ring.
ReaderState ==
  /\ rpc \in {"pop", "loaded"} => head # tail
  /\ rpc = "loaded" => value = items[head]
  /\ rpc = "moved" => items[Before(head)] \in Bytes
  /\ rpc = "ready" => register # NoByte /\ ~irq_used
  /\ rpc = "got" => value \in Bytes

\* What lies in the ring was received; a polled UART never uses the ring.
RingState ==
  /\ \A i \in 1..Size : Elements[i] \in Bytes
  /\ ~irq_used => head = tail

IInv == TypeOK /\ ReaderState /\ RingState

-----------------------------------------------------------------------------
(* The invariant                                                           *)

LEMMA InitIInv == Init => IInv
<1> SUFFICES ASSUME Init PROVE IInv
  OBVIOUS
<1> USE SlotCountAssumption, BytesAssumption, MaxBytesAssumption
        DEF Init, DequeInit
<1>1. DequeTypeOK
  BY DEF DequeTypeOK, Slots
<1>2. TypeOK
  BY <1>1 DEF TypeOK, ReaderPoints
<1>3. Size = 0
  BY <1>1, ShapeOfRing DEF RingShape
<1>4. QED
  BY <1>2, <1>3 DEF IInv, ReaderState, RingState

LEMMA ReceiveIrqKeepsIInv ==
  ASSUME IInv, ReceiveIrq
  PROVE  IInv'
<1> USE BytesAssumption
<1>1. /\ DequeTypeOK /\ register \in Bytes /\ EmplaceBack(register)
      /\ head \in Slots /\ tail \in Slots
      /\ items \in [Slots -> Values]
      /\ head' = head /\ register' = NoByte /\ irq_used
      /\ UNCHANGED <<irq_used, sent, rpc, value>>
  BY DEF ReceiveIrq, EmplaceBack, IInv, TypeOK, DequeTypeOK, readerVars
<1>2. /\ DequeTypeOK'
      /\ Full => UNCHANGED Elements
      /\ ~Full => Elements' = Append(Elements, register) /\ Size' = Size + 1
  BY <1>1, PushElements
<1>3. TypeOK'
  BY <1>1, <1>2 DEF IInv, TypeOK
<1>4. ReaderState'
  <2>1. CASE Full
    BY <1>1, <2>1 DEF EmplaceBack, IInv, ReaderState, Before
  <2>2. CASE ~Full
    <3>1. /\ items' = [items EXCEPT ![tail] = register]
          /\ tail' = After(tail) /\ tail' # head
      BY <1>1, <2>2 DEF EmplaceBack, Full
    <3>2. Before(head) \in Slots /\ Before(head) # tail
      BY <1>1, <2>2, Neighbours DEF Full
    <3>3. Before(head)' = Before(head)
      BY <1>1 DEF Before
    <3>4. items'[Before(head)] = items[Before(head)]
      BY <1>1, <3>1, <3>2
    <3>5. rpc = "loaded" => items'[head] = items[head]
      BY <1>1, <3>1 DEF IInv, ReaderState
    <3>6. QED
      BY <1>1, <3>1, <3>3, <3>4, <3>5 DEF IInv, ReaderState
  <2>3. QED
    BY <2>1, <2>2
<1>5. RingState'
  <2>1. CASE Full
    <3>1. UNCHANGED <<Elements, Size>>
      BY <1>1, <2>1, SameRing DEF EmplaceBack, dequeVars
    <3>2. QED
      BY <1>1, <3>1 DEF IInv, RingState
  <2>2. CASE ~Full
    <3>1. Elements \in Seq(Values) /\ Len(Elements) = Size
      BY <1>1, SeqOfElements DEF ElementsSeq
    <3>2. ASSUME NEW i \in 1..(Size + 1)
          PROVE  Append(Elements, register)[i] \in Bytes
      <4>1. CASE i = Size + 1
        BY <1>1, <3>1, <4>1
      <4>2. CASE i \in 1..Size
        BY <3>1, <4>2 DEF IInv, RingState
      <4>3. i = Size + 1 \/ i \in 1..Size
        BY <3>1
      <4>4. QED
        BY <4>1, <4>2, <4>3
    <3>3. QED
      BY <1>1, <1>2, <2>2, <3>2 DEF RingState
  <2>3. QED
    BY <2>1, <2>2
<1>6. QED
  BY <1>3, <1>4, <1>5 DEF IInv

\* The two steps that take an element out of the ring.
LEMMA MoveHeadKeepsIInv ==
  ASSUME IInv, ThenMoveHead \/ MoveHead
  PROVE  IInv'
<1> USE BytesAssumption
<1>1. /\ DequeTypeOK /\ head \in Slots /\ head # tail
      /\ head' = After(head)
      /\ UNCHANGED <<items, tail, irq_used, register, sent, value>>
  BY DEF ThenMoveHead, MoveHead, IInv, TypeOK, ReaderState, DequeTypeOK
<1>2. /\ DequeTypeOK'
      /\ Elements # << >> /\ Head(Elements) = items[head]
      /\ Elements' = Tail(Elements) /\ Size' = Size - 1
  BY <1>1, PopElements
<1>3. TypeOK'
  BY <1>1, <1>2
  DEF IInv, TypeOK, ThenMoveHead, MoveHead, ReaderPoints
<1>4. /\ Elements \in Seq(Values) /\ Len(Elements) = Size
      /\ Size \in 1..(SlotCount - 1)
  BY <1>1, <1>2, SeqOfElements, ShapeOfRing, SlotCountAssumption
  DEF ElementsSeq, RingShape
<1>5. items[head] \in Bytes
  BY <1>2, <1>4 DEF IInv, RingState
<1>6. Before(head)' = head
  BY <1>1, Neighbours DEF Before
<1>7. ReaderState'
  BY <1>1, <1>5, <1>6 DEF IInv, ReaderState, ThenMoveHead, MoveHead
<1>8. RingState'
  <2>1. \A i \in 1..(Size - 1) : Tail(Elements)[i] = Elements[i + 1]
    BY <1>2, <1>4, HeadTailProperties
  <2>2. \A i \in 1..(Size - 1) : Tail(Elements)[i] \in Bytes
    BY <1>4, <2>1 DEF IInv, RingState
  <2>3. irq_used
    BY <1>1 DEF IInv, RingState
  <2>4. QED
    BY <1>1, <1>2, <2>2, <2>3 DEF RingState
<1>9. QED
  BY <1>3, <1>7, <1>8 DEF IInv

\* The steps that leave the ring alone.
LEMMA QuietStepKeepsIInv ==
  ASSUME IInv, UNCHANGED <<dequeVars, irq_used>>,
         \/ \E b \in Bytes : LineByte(b)
         \/ CallRead \/ CheckQueue \/ LoadValue \/ ThenLoadValue
         \/ CheckRegister \/ ReadRegister \/ ReturnByte
         \/ UNCHANGED vars
  PROVE  IInv'
<1> USE BytesAssumption, MaxBytesAssumption
<1>1. UNCHANGED <<items, head, tail, Elements, Size, DequeTypeOK, irq_used>>
  BY SameRing DEF dequeVars
<1>2. RingState'
  BY <1>1 DEF IInv, RingState
<1>3. Before(head) \in Slots /\ UNCHANGED Before(head)
  BY <1>1, Neighbours DEF Before, IInv, TypeOK, DequeTypeOK
<1>4. /\ head \in Slots /\ items \in [Slots -> Values]
      /\ items[head] \in Values
  BY DEF IInv, TypeOK, DequeTypeOK
<1>5. rpc = "pop" => items[head] \in Bytes
  <2> SUFFICES ASSUME rpc = "pop" PROVE items[head] \in Bytes
    OBVIOUS
  <2>1. Size \in 1..(SlotCount - 1)
    BY ShapeOfRing, SlotCountAssumption
    DEF IInv, TypeOK, ReaderState, RingShape, DequeTypeOK, Slots
  <2>2. Elements[1] = items[head]
    BY <2>1, <1>4, SeqOfElements, SlotCountAssumption
    DEF IInv, TypeOK, ElementsSeq, Slots
  <2>3. QED
    BY <2>1, <2>2, SlotCountAssumption DEF IInv, RingState
<1> USE <1>1, <1>2, <1>3, <1>4, <1>5
        DEF IInv, TypeOK, ReaderState, ReaderPoints, readerVars
<1>6. CASE \E b \in Bytes : LineByte(b)
  BY <1>6 DEF LineByte
<1>7. CASE CallRead \/ CheckRegister \/ ReadRegister \/ ReturnByte
  BY <1>7 DEF CallRead, CheckRegister, ReadRegister, ReturnByte
<1>8. CASE CheckQueue
  BY <1>8 DEF CheckQueue, Empty
<1>9. CASE LoadValue \/ ThenLoadValue
  BY <1>9 DEF LoadValue, ThenLoadValue, DequeTypeOK
<1>10. CASE UNCHANGED vars
  BY <1>10 DEF vars
<1>11. QED
  BY <1>6, <1>7, <1>8, <1>9, <1>10

LEMMA NextKeepsIInv == IInv /\ [Next]_vars => IInv'
<1> SUFFICES ASSUME IInv, [Next]_vars PROVE IInv'
  OBVIOUS
<1>1. CASE ReceiveIrq
  BY <1>1, ReceiveIrqKeepsIInv
<1>2. CASE ThenMoveHead \/ MoveHead
  BY <1>2, MoveHeadKeepsIInv
<1>3. CASE \/ \E b \in Bytes : LineByte(b)
           \/ CallRead \/ CheckQueue \/ LoadValue \/ ThenLoadValue
           \/ CheckRegister \/ ReadRegister \/ ReturnByte
           \/ UNCHANGED vars
  <2>1. UNCHANGED <<dequeVars, irq_used>>
    BY <1>3
    DEF LineByte, CallRead, CheckQueue, LoadValue, ThenLoadValue,
        CheckRegister, ReadRegister, ReturnByte, vars
  <2>2. QED
    BY <1>3, <2>1, QuietStepKeepsIInv
<1>4. QED
  BY <1>1, <1>2, <1>3 DEF Next, ReadStep

\* The inductive invariant holds in every reachable state.
THEOREM InductiveInvariant == Spec => []IInv
<1>1. QED
  BY InitIInv, NextKeepsIInv, PTL DEF Spec

\* Every variable of the receiver keeps its type: no index leaves the ring.
THEOREM TypeCorrect == Spec => []TypeOK
<1>1. IInv => TypeOK
  BY DEF IInv
<1>2. QED
  BY <1>1, InductiveInvariant, PTL

\* The lock-free ring is safe with one reader and one interrupt: whatever the
\* size of the queue and the order of the reader's accesses, the interrupt
\* never overwrites the byte that is being read.
THEOREM NoOverwrite == Spec => SlotIsStable
<1>1. ASSUME IInv, [Next]_vars, rpc \in {"pop", "moved"}
      PROVE  items'[UnreadSlot] = items[UnreadSlot]
  <2>1. /\ head \in Slots /\ tail \in Slots
        /\ items \in [Slots -> Values] /\ UnreadSlot \in Slots
    BY <1>1, Neighbours DEF IInv, TypeOK, DequeTypeOK, UnreadSlot
  <2>2. CASE ReceiveIrq /\ ~Full
    <3>1. UnreadSlot # tail
      BY <1>1, <2>1, <2>2, Neighbours
      DEF IInv, ReaderState, UnreadSlot, Full
    <3>2. QED
      BY <2>1, <2>2, <3>1 DEF ReceiveIrq, EmplaceBack
  <2>3. CASE UNCHANGED items
    BY <2>3
  <2>4. QED
    BY <1>1, <2>2, <2>3
    DEF Next, ReadStep, ReceiveIrq, EmplaceBack, LineByte, CallRead,
        CheckQueue, LoadValue, ThenLoadValue, ThenMoveHead, MoveHead,
        CheckRegister, ReadRegister, ReturnByte, vars, dequeVars
<1>2. QED
  BY <1>1, InductiveInvariant, PTL DEF Spec, SlotIsStable

-----------------------------------------------------------------------------
(* The refinement                                                          *)

LEMMA InitFifo == Init => Fifo!FifoInit
<1> SUFFICES ASSUME Init PROVE Fifo!FifoInit
  OBVIOUS
<1>1. DequeTypeOK /\ head = tail
  BY InitIInv DEF IInv, TypeOK, Init, DequeInit
<1>2. Elements = << >>
  <2>1. Size = 0
    BY <1>1, ShapeOfRing, SlotCountAssumption
    DEF RingShape, DequeTypeOK, Slots
  <2>2. QED
    BY <1>1, <2>1, SeqOfElements DEF ElementsSeq
<1>3. QED
  BY <1>2 DEF Init, Fifo!FifoInit, OutBar

LEMMA StepFifo ==
  IInv /\ IInv' /\ [Next]_vars => [Fifo!FifoNext]_(Fifo!fifo)
<1> SUFFICES ASSUME IInv, IInv', [Next]_vars
             PROVE  Fifo!FifoNext \/ UNCHANGED Fifo!fifo
  BY DEF Fifo!fifo
<1> USE BytesAssumption DEF Fifo!FifoNext
<1>1. /\ DequeTypeOK /\ Elements \in Seq(Values) /\ Len(Elements) = Size
      /\ head \in Slots
  BY SeqOfElements DEF ElementsSeq, IInv, TypeOK, DequeTypeOK
<1>2. ASSUME NEW b \in Bytes, LineByte(b)
      PROVE  Fifo!ByteArrives(b)
  BY <1>2, SameRing
  DEF LineByte, Fifo!ByteArrives, OutBar, Before, dequeVars, readerVars
<1>3. CASE ReceiveIrq
  <2>1. /\ register \in Bytes /\ register' = NoByte /\ EmplaceBack(register)
        /\ UNCHANGED <<rpc, value, head>>
    BY <1>3 DEF ReceiveIrq, EmplaceBack, readerVars, IInv, TypeOK
  <2>2. UNCHANGED OutBar
    <3>1. CASE rpc = "moved"
      <4>1. Before(head) \in Slots /\ UNCHANGED Before(head)
        BY <1>1, <2>1, Neighbours DEF Before
      <4>2. items'[Before(head)] = items[Before(head)]
        BY <1>1, <2>1, <4>1, Neighbours DEF EmplaceBack, Full, DequeTypeOK
      <4>3. QED
        BY <2>1, <3>1, <4>1, <4>2 DEF OutBar
    <3>2. CASE rpc # "moved"
      BY <2>1, <3>2 DEF OutBar
    <3>3. QED
      BY <3>1, <3>2
  <2>3. CASE Full
    <3>1. UNCHANGED Elements
      BY <1>1, <2>1, <2>3, PushElements
    <3>2. Len(Elements) = QueueSize + 1
      BY <1>1, <2>3, EmptyAndFull, QueueSizeAssumption
    <3>3. QED
      BY <2>1, <2>2, <3>1, <3>2 DEF Fifo!DropNewest
  <2>4. CASE ~Full
    <3>1. Elements' = Append(Elements, register)
      BY <1>1, <2>1, <2>4, PushElements
    <3>2. Len(Elements) < QueueSize + 1
      BY <1>1, <2>4, EmptyAndFull, ShapeOfRing, QueueSizeAssumption
      DEF RingShape
    <3>3. QED
      BY <2>1, <2>2, <3>1, <3>2 DEF Fifo!Accept
  <2>5. QED
    BY <2>3, <2>4
<1>4. CASE ThenMoveHead \/ MoveHead
  <2>1. /\ head # tail /\ head' = After(head)
        /\ UNCHANGED <<items, tail, register>>
    BY <1>4 DEF ThenMoveHead, MoveHead, IInv, ReaderState
  <2>2. /\ Elements # << >> /\ Head(Elements) = items[head]
        /\ Elements' = Tail(Elements)
    BY <1>1, <2>1, PopElements
  <2>3. Before(head)' = head
    BY <1>1, <2>1, Neighbours DEF Before
  <2>4. OutBar = NoByte /\ OutBar' = items[head]
    BY <1>4, <2>1, <2>3
    DEF ThenMoveHead, MoveHead, OutBar, IInv, ReaderState
  <2>5. QED
    BY <2>1, <2>2, <2>4 DEF Fifo!Take
<1>5. CASE ReadRegister
  <2>1. ~irq_used /\ register # NoByte /\ Size = 0
    BY <1>5, ShapeOfRing, SlotCountAssumption
    DEF ReadRegister, IInv, TypeOK, ReaderState, RingState, RingShape,
        DequeTypeOK, Slots
  <2>2. Elements = << >> /\ UNCHANGED Elements
    BY <1>1, <1>5, <2>1, SameRing DEF ReadRegister
  <2>3. OutBar = NoByte /\ OutBar' = register /\ register' = NoByte
    BY <1>5 DEF ReadRegister, OutBar
  <2>4. QED
    BY <2>1, <2>2, <2>3 DEF Fifo!TakeFromLine
<1>6. CASE ReturnByte
  <2>1. OutBar # NoByte /\ OutBar' = NoByte
    BY <1>6 DEF ReturnByte, OutBar, IInv, ReaderState
  <2>2. UNCHANGED <<register, Elements>>
    BY <1>6, SameRing DEF ReturnByte
  <2>3. QED
    BY <2>1, <2>2 DEF Fifo!Consume
<1>7. CASE \/ CallRead \/ CheckQueue \/ LoadValue \/ ThenLoadValue
           \/ CheckRegister \/ UNCHANGED vars
  <2>1. UNCHANGED <<register, Elements, items, head>>
    BY <1>7, SameRing
    DEF CallRead, CheckQueue, LoadValue, ThenLoadValue, CheckRegister, vars,
        dequeVars
  <2>2. UNCHANGED OutBar
    BY <1>7, <2>1
    DEF CallRead, CheckQueue, LoadValue, ThenLoadValue, CheckRegister, vars,
        readerVars, OutBar, Before, IInv, ReaderState
  <2>3. QED
    BY <2>1, <2>2 DEF Fifo!fifo
<1>8. QED
  BY <1>2, <1>3, <1>4, <1>5, <1>6, <1>7 DEF Next, ReadStep

\* For every size of the queue the reader gets the received bytes in their
\* order, none twice, and a byte is dropped only when the queue holds
\* QueueSize + 1 of them.
THEOREM RefinesFifo == Spec => ImplementsFifo
<1>1. QED
  BY InitFifo, StepFifo, InductiveInvariant, PTL
  DEF Spec, ImplementsFifo, Fifo!FifoSpec

=============================================================================
