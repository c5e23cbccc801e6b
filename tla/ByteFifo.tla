------------------------------ MODULE ByteFifo -----------------------------
(***************************************************************************)
(* What a task that reads the UART is promised: the bytes of the line in   *)
(* their order, each at most once.  A byte is lost only on the line (it    *)
(* comes while the data register still holds its predecessor) or at the    *)
(* door of a full queue, where it is the newest byte that is dropped.      *)
(***************************************************************************)
EXTENDS Naturals, Sequences

CONSTANTS
  Bytes,
  NoByte,
  Capacity   \* the bytes the queue can hold

VARIABLES
  line,      \* the byte in the data register, or NoByte
  queue,     \* the received bytes nobody has read yet
  out        \* the byte the reader has been given, or NoByte

fifo == <<line, queue, out>>

FifoInit ==
  /\ line = NoByte
  /\ queue = << >>
  /\ out = NoByte

ByteArrives(b) ==
  /\ line' = IF line = NoByte THEN b ELSE line
  /\ UNCHANGED <<queue, out>>

Accept ==
  /\ line # NoByte
  /\ Len(queue) < Capacity
  /\ queue' = Append(queue, line)
  /\ line' = NoByte
  /\ UNCHANGED out

DropNewest ==
  /\ line # NoByte
  /\ Len(queue) = Capacity
  /\ line' = NoByte
  /\ UNCHANGED <<queue, out>>

Take ==
  /\ out = NoByte
  /\ queue # << >>
  /\ out' = Head(queue)
  /\ queue' = Tail(queue)
  /\ UNCHANGED line

\* A polled UART has no queue: the reader takes the byte from the register.
TakeFromLine ==
  /\ out = NoByte
  /\ queue = << >>
  /\ line # NoByte
  /\ out' = line
  /\ line' = NoByte
  /\ UNCHANGED queue

Consume ==
  /\ out # NoByte
  /\ out' = NoByte
  /\ UNCHANGED <<line, queue>>

FifoNext ==
  \/ \E b \in Bytes : ByteArrives(b)
  \/ Accept \/ DropNewest
  \/ Take \/ TakeFromLine \/ Consume

FifoSpec == FifoInit /\ [][FifoNext]_fifo

=============================================================================
