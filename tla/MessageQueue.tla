---------------------------- MODULE MessageQueue ----------------------------
(***************************************************************************)
(* sync::circular_queue with its spin lock, between the producers and the  *)
(* consumer of tests/producer_consumer.cpp.  A producer formats a message  *)
(* into its only buffer, claims the buffer's flag and pushes the buffer's  *)
(* address; the consumer writes it out and clears the flag.  A task can be *)
(* preempted between any two accesses to shared memory.                    *)
(***************************************************************************)
EXTENDS Naturals, SequencesExt

CONSTANTS
  Producers,   \* the producing tasks, each with one buffer
  QueueSize,   \* the queue's template argument
  Rounds       \* bound: messages a producer formats

ASSUME QueueAssumption ==
  IsFiniteSet(Producers) /\ QueueSize \in Nat /\ Rounds \in Nat

Capacity == QueueSize + 1   \* contailer_type has one slot more, never used

VARIABLES
  lock_,      \* circular_queue::lock_, a spin lock
  queue,      \* queue_, oldest first
  busy,       \* queue_data::lock of each buffer
  text,       \* which message is in the buffer
  sent,       \* which message the producer has pushed last
  doing,      \* where each producer is
  consumer,   \* where the consumer is
  item        \* the buffers it has popped and not released, one at most

mqVars == <<lock_, queue, busy, text, sent, doing, consumer, item>>

MqTypeOK ==
  /\ lock_ \in BOOLEAN
  /\ queue \in Seq(Producers)
  /\ busy \in [Producers -> BOOLEAN]
  /\ text \in [Producers -> 0..Rounds] /\ sent \in [Producers -> 0..Rounds]
  /\ doing \in [Producers -> {"format", "claim", "push", "full", "pushed"}]
  /\ consumer \in {"pop", "none", "popped", "write", "clear"}
  /\ item \subseteq Producers

MqInit ==
  /\ lock_ = FALSE
  /\ queue = << >>
  /\ busy = [p \in Producers |-> FALSE]
  /\ text = [p \in Producers |-> 0] /\ sent = [p \in Producers |-> 0]
  /\ doing = [p \in Producers |-> "format"]
  /\ consumer = "pop"
  /\ item = {}

Take == lock_ = FALSE /\ lock_' = TRUE
Give == lock_' = FALSE
Do(p, from, to) == doing[p] = from /\ doing' = [doing EXCEPT ![p] = to]
Then(from, to) == consumer = from /\ consumer' = to

\* snprintf, before the flag is looked at.
Format(p) ==
  /\ Do(p, "format", "claim")
  /\ text[p] < Rounds
  /\ text' = [text EXCEPT ![p] = @ + 1]
  /\ UNCHANGED <<lock_, queue, busy, sent, consumer, item>>

\* Seeded fault: the buffer is pushed although it is still in use.
ClaimAnyway(p) ==
  /\ Do(p, "claim", "push")
  /\ busy' = [busy EXCEPT ![p] = TRUE]
  /\ UNCHANGED <<lock_, queue, text, sent, consumer, item>>

\* while(data.lock.test_and_set()) yield
Claim(p) ==
  /\ ~busy[p]
  /\ Do(p, "claim", "push")
  /\ busy' = [busy EXCEPT ![p] = TRUE]
  /\ UNCHANGED <<lock_, queue, text, sent, consumer, item>>

\* try_push under the lock_guard; its return value says whether it was full.
TryPush(p) ==
  /\ doing[p] = "push"
  /\ Take
  /\ IF Len(queue) < Capacity
     THEN /\ queue' = Append(queue, p)
          /\ sent' = [sent EXCEPT ![p] = text[p]]
          /\ doing' = [doing EXCEPT ![p] = "pushed"]
     ELSE /\ doing' = [doing EXCEPT ![p] = "full"]
          /\ UNCHANGED <<queue, sent>>
  /\ UNCHANGED <<busy, text, consumer, item>>

\* The destructor of the lock_guard; then sleep, or yield and try again.
PushUnlock(p) ==
  /\ Do(p, "pushed", "format") \/ Do(p, "full", "push")
  /\ Give
  /\ UNCHANGED <<queue, busy, text, sent, consumer, item>>

\* try_pop under the lock_guard.
TryPop ==
  /\ Take
  /\ IF queue = << >>
     THEN Then("pop", "none") /\ UNCHANGED <<queue, item>>
     ELSE /\ Then("pop", "popped")
          /\ item' = {Head(queue)}
          /\ queue' = Tail(queue)
  /\ UNCHANGED <<busy, text, sent, doing>>

PopUnlock ==
  /\ Then("popped", "write") \/ Then("none", "pop")
  /\ Give
  /\ UNCHANGED <<queue, busy, text, sent, doing, item>>

\* blocking_write of the message.
Write ==
  /\ Then("write", "clear")
  /\ UNCHANGED <<lock_, queue, busy, text, sent, doing, item>>

Clear ==
  /\ Then("clear", "pop")
  /\ \E p \in item : busy' = [busy EXCEPT ![p] = FALSE]
  /\ item' = {}
  /\ UNCHANGED <<lock_, queue, text, sent, doing>>

MqNext ==
  \/ \E p \in Producers :
       Format(p) \/ Claim(p) \/ TryPush(p) \/ PushUnlock(p)
  \/ TryPop \/ PopUnlock \/ Write \/ Clear

-----------------------------------------------------------------------------

\* A buffer is on its way once (producer_consumer.cpp:64, circular_queue.hpp,
\* try_push and try_pop): it is never queued twice, its flag is set as long as
\* it is queued or written out, and what a producer formats meanwhile is at
\* most the one message it formats before it looks at the flag.
BufferOnItsWayOnce ==
  /\ IsInjective(queue)
  /\ \A p \in Range(queue) \cup item :
       /\ busy[p]
       /\ text[p] <= sent[p] + 1
       /\ text[p] > sent[p] => doing[p] = "claim"
  /\ item \cap Range(queue) = {}

=============================================================================
