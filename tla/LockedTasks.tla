---------------------------- MODULE LockedTasks ----------------------------
(***************************************************************************)
(* Tasks that share the UART transmitter under a spin lock, as in          *)
(* tests/uart_blocking_write.cpp, and tasks that share a sync::semaphore.  *)
(* A task can be preempted between any two accesses to shared memory.      *)
(***************************************************************************)
EXTENDS Integers, FiniteSets, Sequences

CONSTANTS
  Writers,    \* the tasks that write
  Length,     \* bytes of a message
  Messages,   \* bound: messages a task writes
  Users,      \* the tasks that use the semaphore
  Permits     \* its initial count

ASSUME WritersAssumption ==
  /\ IsFiniteSet(Writers) /\ Writers # {} /\ Length \in Nat \ {0} /\ Messages \in Nat
ASSUME SemaphoreAssumption == IsFiniteSet(Users) /\ Permits \in Nat

VARIABLES
  uart_lock,   \* spin_lock::flag_ of uart_lock
  txe,         \* TXE in the status register: DR can take a byte
  dr,          \* DR, a byte as <<writer, its index in the message>>
  wire,        \* the bytes that have been sent
  step,        \* where each writer is
  index,       \* blocking_write: i
  written,     \* messages each task has written
  count,       \* semaphore::count_
  place        \* where each user of the semaphore is

writerVars == <<uart_lock, txe, dr, wire, step, index, written>>
semaphoreVars == <<count, place>>

Bytes == Writers \X (1..Length)

WritersTypeOK ==
  /\ uart_lock \in BOOLEAN /\ txe \in BOOLEAN
  /\ dr \in Bytes
  /\ wire \in Seq(Bytes)
  /\ step \in [Writers -> {"out", "check", "store", "drain", "unlock"}]
  /\ index \in [Writers -> 1..Length]
  /\ written \in [Writers -> 0..Messages]

WritersInit ==
  /\ uart_lock = FALSE
  /\ txe = TRUE
  /\ dr = <<CHOOSE w \in Writers : TRUE, Length>>
  /\ wire = << >>
  /\ step = [w \in Writers |-> "out"]
  /\ index = [w \in Writers |-> 1]
  /\ written = [w \in Writers |-> 0]

StepTo(w, from, to) == step[w] = from /\ step' = [step EXCEPT ![w] = to]

\* spin_lock::lock: test_and_set, with a yield while the flag was set.
Lock(w) ==
  /\ written[w] < Messages
  /\ StepTo(w, "out", "check")
  /\ uart_lock = FALSE
  /\ uart_lock' = TRUE
  /\ index' = [index EXCEPT ![w] = 1]
  /\ UNCHANGED <<txe, dr, wire, written>>

\* Seeded fault: TXE is not tested.
CheckNothing(w) ==
  /\ StepTo(w, "check", "store")
  /\ UNCHANGED <<uart_lock, txe, dr, wire, index, written>>

\* try_write finds that the register is ready ...
CheckReady(w) ==
  /\ StepTo(w, "check", "store")
  /\ txe
  /\ UNCHANGED <<uart_lock, txe, dr, wire, index, written>>

\* ... and stores the byte, which clears TXE.
Store(w) ==
  /\ step[w] = "store"
  /\ dr' = <<w, index[w]>>
  /\ txe' = FALSE
  /\ IF index[w] < Length
     THEN /\ index' = [index EXCEPT ![w] = @ + 1]
          /\ step' = [step EXCEPT ![w] = "check"]
     ELSE /\ step' = [step EXCEPT ![w] = "drain"]
          /\ UNCHANGED index
  /\ UNCHANGED <<uart_lock, wire, written>>

\* The last loop of blocking_write.
Drain(w) ==
  /\ StepTo(w, "drain", "unlock")
  /\ txe
  /\ UNCHANGED <<uart_lock, txe, dr, wire, index, written>>

Unlock(w) ==
  /\ StepTo(w, "unlock", "out")
  /\ uart_lock' = FALSE
  /\ written' = [written EXCEPT ![w] = @ + 1]
  /\ UNCHANGED <<txe, dr, wire, index>>

\* The transmitter moves the byte from DR to the line.
Shift ==
  /\ ~txe
  /\ wire' = Append(wire, dr)
  /\ txe' = TRUE
  /\ UNCHANGED <<uart_lock, dr, step, index, written>>

\* All messages of the bound are written.
Written ==
  /\ \A w \in Writers : written[w] = Messages
  /\ UNCHANGED writerVars

WritersNext ==
  \/ \E w \in Writers :
       Lock(w) \/ CheckReady(w) \/ Store(w) \/ Drain(w) \/ Unlock(w)
  \/ Shift \/ Written

\* The line carries whole messages (uart.cpp, try_write: TXE is tested and DR
\* written in two steps): no byte is lost, repeated or put between the bytes
\* of another task's message, and a message is out when its task unlocks.
WireIntact ==
  /\ \A k \in 1..Len(wire) :
       LET i == ((k - 1) % Length) + 1 IN
       /\ wire[k][2] = i
       /\ i > 1 => wire[k - 1][1] = wire[k][1]
  /\ (\A w \in Writers : step[w] = "out") => Len(wire) % Length = 0

-----------------------------------------------------------------------------
(* The semaphore                                                           *)

\* A task may pass the test on a unit that another one takes first; the count
\* then falls below zero, but only by the tasks that hold no unit of it.
SemaphoreTypeOK ==
  /\ count = Permits - Cardinality({u \in Users : place[u] = "in"})
  /\ place \in [Users -> {"out", "passed", "in"}]

SemaphoreInit ==
  /\ count = Permits
  /\ place = [u \in Users |-> "out"]

Move(u, from, to) == place[u] = from /\ place' = [place EXCEPT ![u] = to]

\* acquire: the loop ends when the count was positive ...
AcquirePass(u) == Move(u, "out", "passed") /\ count > 0 /\ UNCHANGED count

\* Seeded fault: the count is kept from falling below zero.
AcquireTakeClamped(u) ==
  Move(u, "passed", "in") /\ count' = IF count > 0 THEN count - 1 ELSE count

\* ... and the unit is taken later.
AcquireTake(u) == Move(u, "passed", "in") /\ count' = count - 1

GiveBack(u) == Move(u, "in", "out") /\ count' = count + 1

SemaphoreNext ==
  \E u \in Users : AcquirePass(u) \/ AcquireTake(u) \/ GiveBack(u)

=============================================================================
