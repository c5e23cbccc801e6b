------------------------- MODULE ConditionVariable -------------------------
(***************************************************************************)
(* sync::spin_conditional_variable with a sync::spin_lock, and the tasks   *)
(* that use them.  The waiters are nodes on the stacks of the tasks in     *)
(* wait(), linked by compare-and-swap; a node is named by its task.  Every *)
(* access to memory is a step, for a task can be preempted between any two.*)
(*                                                                         *)
(* No task of the repository uses the class yet, so the callers are the    *)
(* two disciplines it is sound for: notifiers that hold the lock, and a    *)
(* single one that calls notify_one without it.                            *)
(***************************************************************************)
EXTENDS Naturals, FiniteSets

CONSTANTS Waiters, Notifiers, Null

ASSUME NodesAssumption ==
  /\ IsFiniteSet(Waiters) /\ Notifiers # {}
  /\ Waiters \cap Notifiers = {} /\ Null \notin Waiters
  /\ "locked" \notin Notifiers

VARIABLES
  discipline,  \* "locked", or the notifier that works without the lock
  flag,        \* spin_lock::flag_
  head,        \* waiters_
  next,        \* waiter::next
  notified,    \* waiter::notified
  node,        \* notify_one, notify_all: w
  succ,        \* notify_one: w->next as it was read
  at           \* where each task is

cvVars == <<discipline, flag, head, next, notified, node, succ, at>>

WaiterPoints == {"out", "in", "linking", "linked", "spinning", "relocking"}
NotifierPoints ==
  {"out", "calling", "taking", "swapping", "marking", "taking_all",
   "marking_all", "following", "returned"}

Links == Waiters \cup {Null}

CvTypeOK ==
  /\ discipline \in {"locked"} \cup Notifiers
  /\ flag \in BOOLEAN
  /\ head \in Links
  /\ next \in [Waiters -> Links]
  /\ notified \in [Waiters -> BOOLEAN]
  /\ node \in [Notifiers -> Links]
  /\ succ \in [Notifiers -> Links]
  /\ at \in [Waiters \cup Notifiers -> WaiterPoints \cup NotifierPoints]

CvInit ==
  /\ discipline \in {"locked"} \cup Notifiers
  /\ flag = FALSE
  /\ head = Null
  /\ next = [w \in Waiters |-> Null]
  /\ notified = [w \in Waiters |-> FALSE]
  /\ node = [n \in Notifiers |-> Null]
  /\ succ = [n \in Notifiers |-> Null]
  /\ at = [t \in Waiters \cup Notifiers |-> "out"]

Go(t, from, to) == at[t] = from /\ at' = [at EXCEPT ![t] = to]

\* spin_lock::lock: test_and_set, until the flag was clear; and unlock.
TakeFlag == flag = FALSE /\ flag' = TRUE
ClearFlag == flag' = FALSE

-----------------------------------------------------------------------------
(* wait                                                                    *)

Enter(w) ==
  /\ Go(w, "out", "in")
  /\ TakeFlag
  /\ UNCHANGED <<discipline, head, next, notified, node, succ>>

Leave(w) ==
  /\ Go(w, "in", "out")
  /\ ClearFlag
  /\ UNCHANGED <<discipline, head, next, notified, node, succ>>

\* The node is constructed and takes the head as its next.
WaitLoad(w) ==
  /\ Go(w, "in", "linking")
  /\ notified' = [notified EXCEPT ![w] = FALSE]
  /\ next' = [next EXCEPT ![w] = head]
  /\ UNCHANGED <<discipline, flag, head, node, succ>>

\* Seeded fault: the node is stored without looking at the head again.
WaitLinkBlindly(w) ==
  /\ Go(w, "linking", "linked")
  /\ head' = w
  /\ UNCHANGED <<discipline, flag, next, notified, node, succ>>

\* compare_exchange_weak: the head is still the next of the node ...
WaitLink(w) ==
  /\ head = next[w]
  /\ Go(w, "linking", "linked")
  /\ head' = w
  /\ UNCHANGED <<discipline, flag, next, notified, node, succ>>

\* ... or it is read once more.
WaitRetry(w) ==
  /\ at[w] = "linking"
  /\ next' = [next EXCEPT ![w] = head]
  /\ UNCHANGED <<discipline, flag, head, notified, node, succ, at>>

WaitUnlock(w) ==
  /\ Go(w, "linked", "spinning")
  /\ ClearFlag
  /\ UNCHANGED <<discipline, head, next, notified, node, succ>>

WaitNotified(w) ==
  /\ notified[w]
  /\ Go(w, "spinning", "relocking")
  /\ UNCHANGED <<discipline, flag, head, next, notified, node, succ>>

WaitRelock(w) ==
  /\ Go(w, "relocking", "in")
  /\ TakeFlag
  /\ UNCHANGED <<discipline, head, next, notified, node, succ>>

-----------------------------------------------------------------------------
(* notify_one and notify_all                                               *)

\* The caller: with the lock, unless it is the one that works without it.
Call(n) ==
  /\ Go(n, "out", "calling")
  /\ discipline \in {"locked", n}
  /\ IF discipline = n THEN UNCHANGED flag ELSE TakeFlag
  /\ UNCHANGED <<discipline, head, next, notified, node, succ>>

Finish(n) ==
  /\ Go(n, "returned", "out")
  /\ IF discipline = n THEN UNCHANGED flag ELSE ClearFlag
  /\ UNCHANGED <<discipline, head, next, notified, node, succ>>

LoadHead(n, to) ==
  /\ node' = [node EXCEPT ![n] = head]
  /\ Go(n, "calling", IF head = Null THEN "returned" ELSE to)
  /\ UNCHANGED <<discipline, flag, head, next, notified, succ>>

NotifyOneLoad(n) == LoadHead(n, "taking")

\* The argument w->next is read before the exchange.
NotifyOneRead(n) ==
  /\ Go(n, "taking", "swapping")
  /\ succ' = [succ EXCEPT ![n] = next[node[n]]]
  /\ UNCHANGED <<discipline, flag, head, next, notified, node>>

NotifyOneSwap(n) ==
  /\ head = node[n]
  /\ Go(n, "swapping", "marking")
  /\ head' = succ[n]
  /\ UNCHANGED <<discipline, flag, next, notified, node, succ>>

NotifyOneRetry(n) ==
  /\ Go(n, "swapping", "calling")
  /\ UNCHANGED <<discipline, flag, head, next, notified, node, succ>>

NotifyOneMark(n) ==
  /\ Go(n, "marking", "returned")
  /\ notified' = [notified EXCEPT ![node[n]] = TRUE]
  /\ UNCHANGED <<discipline, flag, head, next, node, succ>>

\* notify_all, which only the callers with the lock use.
NotifyAllLoad(n) == discipline = "locked" /\ LoadHead(n, "taking_all")

NotifyAllSwap(n) ==
  /\ head = node[n]
  /\ Go(n, "taking_all", "marking_all")
  /\ head' = Null
  /\ UNCHANGED <<discipline, flag, next, notified, node, succ>>

NotifyAllRetry(n) ==
  /\ Go(n, "taking_all", "calling")
  /\ UNCHANGED <<discipline, flag, head, next, notified, node, succ>>

NotifyAllMark(n) ==
  /\ Go(n, "marking_all", "following")
  /\ notified' = [notified EXCEPT ![node[n]] = TRUE]
  /\ UNCHANGED <<discipline, flag, head, next, node, succ>>

\* w->next is read after its owner has been told that it may go on.
NotifyAllFollow(n) ==
  /\ Go(n, "following", IF next[node[n]] = Null THEN "returned"
                        ELSE "marking_all")
  /\ node' = [node EXCEPT ![n] = next[node[n]]]
  /\ UNCHANGED <<discipline, flag, head, next, notified, succ>>

CvNext ==
  \/ \E w \in Waiters :
       Enter(w) \/ Leave(w) \/ WaitLoad(w) \/ WaitLink(w) \/ WaitRetry(w)
         \/ WaitUnlock(w) \/ WaitNotified(w) \/ WaitRelock(w)
  \/ \E n \in Notifiers :
       Call(n) \/ Finish(n) \/ NotifyOneLoad(n) \/ NotifyOneRead(n)
         \/ NotifyOneSwap(n) \/ NotifyOneRetry(n) \/ NotifyOneMark(n)
         \/ NotifyAllLoad(n) \/ NotifyAllSwap(n) \/ NotifyAllRetry(n)
         \/ NotifyAllMark(n) \/ NotifyAllFollow(n)

-----------------------------------------------------------------------------
(* Properties                                                              *)

\* The nodes that following the links from h leads to: the least set of nodes
\* that has h and, with a node, the next one.
Follows(S, links, h) ==
  h \in S \cup {Null} /\ \A v \in S : links[v] \in S \cup {Null}
Reach(links, h) ==
  {w \in Waiters : \A S \in SUBSET Waiters : Follows(S, links, h) => w \in S}
ChainFrom(h) == Reach(next, h)

\* Nodes a notifier has taken from the list and has still to mark.
Taken(n) ==
  CASE at[n] = "marking"     -> {node[n]}
    [] at[n] = "marking_all" -> ChainFrom(node[n])
    [] at[n] = "following"   -> ChainFrom(next[node[n]])
    [] OTHER                 -> {}

\* Nobody waits for ever because of a lost link (spin_conditional_variable.hpp,
\* the three exchange loops): a task in wait() that has not been notified is in
\* the list or in the hands of a notifier; and every node in the list, or that
\* a notifier is about to read or write, is on the stack of a task that has
\* not returned from wait().
WaitersSound ==
  LET OnStack == {w \in Waiters : at[w] \notin {"out", "in"}}
      Linked  == ChainFrom(head) \cup UNION {Taken(n) : n \in Notifiers}
  IN  /\ \A w \in Waiters :
           at[w] \in {"linked", "spinning"} /\ ~notified[w] => w \in Linked
      /\ Linked \subseteq OnStack
      /\ \A n \in Notifiers :
           at[n] \in {"taking", "marking", "marking_all", "following"}
             => node[n] \in OnStack

=============================================================================
