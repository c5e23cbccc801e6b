---------------------------- MODULE UartReceive ----------------------------
(***************************************************************************)
(* The receiving side of device::uart: the data register, the receive      *)
(* interrupt that moves its byte into rx_queue, and one task that reads    *)
(* with blocking_read.  The queue has the no_mutex policy: the interrupt   *)
(* may fall between any two memory accesses of the reader's pop_front.     *)
(***************************************************************************)
EXTENDS CircularDeque

CONSTANTS
  Bytes,       \* the bytes of the line
  NoByte,      \* "no byte": the zeroed slots, an empty optional
  QueueSize,   \* 64 in uart.hpp
  MaxBytes     \* bound: the bytes that come down the line

ASSUME BytesAssumption ==
  NoByte \notin Bytes /\ Values = Bytes \cup {NoByte}
ASSUME QueueSizeAssumption == QueueSize \in Nat /\ SlotCount = QueueSize + 2
ASSUME MaxBytesAssumption == MaxBytes \in Nat

VARIABLES
  irq_used,    \* uart::irq_used, set by init_rx or init_rxtx
  register,    \* DR (RDR): the byte received and not yet read, if RXNE
  sent,        \* how many bytes came down the line
  rpc,         \* where the reader is in blocking_read
  value        \* the byte the reader has loaded

readerVars == <<rpc, value>>
vars == <<dequeVars, irq_used, register, sent, readerVars>>

\* The points of the reader: in its own code, before the test of empty() (or
\* of rx_ready()), after it, after the first of the two accesses of
\* pop_front, and with the optional in its hands.
ReaderPoints == {"away", "check", "pop", "loaded", "moved", "ready", "got"}

TypeOK ==
  /\ DequeTypeOK
  /\ irq_used \in BOOLEAN
  /\ register \in Bytes \cup {NoByte}
  /\ sent \in 0..MaxBytes
  /\ rpc \in ReaderPoints
  /\ value \in Values

Init ==
  /\ DequeInit(NoByte)
  /\ irq_used \in BOOLEAN
  /\ register = NoByte
  /\ sent = 0
  /\ rpc = "away"
  /\ value = NoByte

\* The hardware: a byte that comes while RXNE is set is lost (overrun).
LineByte(b) ==
  /\ sent < MaxBytes
  /\ sent' = sent + 1
  /\ register' = IF register = NoByte THEN b ELSE register
  /\ UNCHANGED <<dequeVars, irq_used, readerVars>>

\* uart_irq_handler: nobody looks at the result of try_push.
ReceiveIrq ==
  /\ irq_used
  /\ register # NoByte
  /\ EmplaceBack(register)
  /\ register' = NoByte
  /\ UNCHANGED <<irq_used, sent, readerVars>>

\* The task enters blocking_read.
CallRead ==
  /\ rpc = "away"
  /\ rpc' = "check"
  /\ UNCHANGED <<dequeVars, irq_used, register, sent, value>>

\* try_read with interrupts: pop_front's test of empty(); an empty queue
\* yields nullopt, and blocking_read yields and tries again.
CheckQueue ==
  /\ irq_used
  /\ rpc = "check"
  /\ rpc' = IF Empty THEN "check" ELSE "pop"
  /\ UNCHANGED <<dequeVars, irq_used, register, sent, value>>

\* The load of *at(head_) and the store to head_ touch different objects and
\* neither is atomic or volatile: the compiler may emit them in either order.
LoadValue ==
  /\ rpc = "pop"
  /\ value' = items[head]
  /\ rpc' = "loaded"
  /\ UNCHANGED <<dequeVars, irq_used, register, sent>>

ThenMoveHead ==
  /\ rpc = "loaded"
  /\ head' = After(head)
  /\ rpc' = "got"
  /\ UNCHANGED <<items, tail, irq_used, register, sent, value>>

MoveHead ==
  /\ rpc = "pop"
  /\ head' = After(head)
  /\ rpc' = "moved"
  /\ UNCHANGED <<items, tail, irq_used, register, sent, value>>

ThenLoadValue ==
  /\ rpc = "moved"
  /\ value' = items[Before(head)]
  /\ rpc' = "got"
  /\ UNCHANGED <<dequeVars, irq_used, register, sent>>

\* try_read without interrupts: rx_ready(), then the read of the register.
CheckRegister ==
  /\ ~irq_used
  /\ rpc = "check"
  /\ rpc' = IF register = NoByte THEN "check" ELSE "ready"
  /\ UNCHANGED <<dequeVars, irq_used, register, sent, value>>

ReadRegister ==
  /\ rpc = "ready"
  /\ value' = register
  /\ register' = NoByte
  /\ rpc' = "got"
  /\ UNCHANGED <<dequeVars, irq_used, sent>>

\* blocking_read returns the byte.
ReturnByte ==
  /\ rpc = "got"
  /\ rpc' = "away"
  /\ value' = NoByte
  /\ UNCHANGED <<dequeVars, irq_used, register, sent>>

\* The steps of blocking_read.
ReadStep ==
  \/ CheckQueue
  \/ LoadValue \/ ThenMoveHead
  \/ MoveHead \/ ThenLoadValue
  \/ CheckRegister \/ ReadRegister
  \/ ReturnByte

Next ==
  \/ \E b \in Bytes : LineByte(b)
  \/ ReceiveIrq
  \/ CallRead
  \/ ReadStep

Spec == Init /\ [][Next]_vars

\* The interrupt is taken once it is not masked any more, and the kernel runs
\* the reading task again and again (NoStarvation of the scheduler).
FairSpec == Spec /\ WF_vars(ReceiveIrq) /\ WF_vars(ReadStep)

-----------------------------------------------------------------------------
(* Properties                                                              *)

\* The slot the reader has not yet loaded.
UnreadSlot == IF rpc = "moved" THEN Before(head) ELSE head

\* circular_deque.hpp without a lock: between the reader's test of empty()
\* and its load of the byte, in either order of its accesses, the interrupt
\* never writes to the slot the byte is in, however full the queue is.
SlotIsStable ==
  [][ (rpc \in {"pop", "moved"}) =>
        items'[UnreadSlot] = items[UnreadSlot] ]_vars

\* uart.hpp, blocking_read: a task that waits for a byte gets one when there
\* is one in the queue or in the register.
ReaderIsServed ==
  (rpc = "check" /\ (~Empty \/ register # NoByte)) ~> (rpc = "got")

\* The byte the reader has been given: from the store to head_ on it is out
\* of the queue, loaded or not.
OutBar ==
  CASE rpc = "got"   -> value
    [] rpc = "moved" -> items[Before(head)]
    [] OTHER         -> NoByte

Fifo == INSTANCE ByteFifo WITH
  Capacity <- QueueSize + 1, line <- register, queue <- Elements,
  out <- OutBar

\* The reader gets the bytes in their order, none twice and none invented;
\* only an overrun or a queue of QueueSize + 1 unread bytes loses one.
ImplementsFifo == Fifo!FifoSpec

=============================================================================
