------------------------ MODULE SynchronizationProofs ------------------------
(***************************************************************************)
(* Proofs about the programs of Synchronization, for any number of tasks,  *)
(* any length of a message, any count of permits and any size of a queue.  *)
(* A program's part of the invariant is kept by its own steps and by those *)
(* of the others, which leave its variables alone.                         *)
(***************************************************************************)
EXTENDS Synchronization, SequenceTheorems, FiniteSetTheorems, TLAPS

(* The condition variable                                                  *)

Tasks == Waiters \cup Notifiers

Holds(t) ==
  \/ t \in Waiters /\ at[t] \in {"in", "linking", "linked"}
  \/ t \in Notifiers /\ at[t] # "out" /\ discipline = "locked"

\* The flag is the lock of the callers, and a notifier that works without it
\* is the only one.
CallerState ==
  /\ \A s, t \in Tasks : Holds(s) /\ Holds(t) => s = t
  /\ flag <=> \E t \in Tasks : Holds(t)
  /\ \A n \in Notifiers : at[n] # "out" => discipline \in {"locked", n}
  /\ \A w \in Waiters : at[w] \in WaiterPoints
  /\ \A n \in Notifiers : at[n] \in NotifierPoints

\* The waiters that nobody has told to go on.
Pending == {w \in Waiters : at[w] \in {"linked", "spinning"} /\ ~notified[w]}

InHand == UNION {Taken(n) : n \in Notifiers}

\* The pending waiters are the list and what is in a notifier's hands, each
\* once, and following the links from one of them never comes back to it.  A
\* node that is being linked is fresh.
ListState ==
  /\ ChainFrom(head) \cup InHand = Pending
  /\ ChainFrom(head) \cap InHand = {}
  /\ \A w \in Pending :
       next[w] \in Pending \cup {Null} /\ w \notin ChainFrom(next[w])
  /\ \A w \in Waiters : at[w] = "linking" => ~notified[w]

\* What a notifier has read still holds when it uses it.
NotifierState ==
  \A n \in Notifiers :
    /\ at[n] \in {"taking", "swapping"} => node[n] \in ChainFrom(head)
    /\ at[n] = "swapping" => succ[n] = next[node[n]]
    /\ at[n] \in {"marking", "taking_all", "marking_all", "following"}
         => node[n] \in Waiters
    /\ at[n] \in {"taking_all", "marking_all", "following"}
         => discipline = "locked"
    /\ at[n] = "following" => at[node[n]] \in {"spinning", "relocking"}

CvInv == CvTypeOK /\ CallerState /\ ListState /\ NotifierState

-----------------------------------------------------------------------------
(* Following links                                                         *)

\* The nodes reached are waiters, the first is one of them, and so is the next
\* of each.
LEMMA ReachFollows ==
  ASSUME NEW nx \in [Waiters -> Links], NEW h \in Links
  PROVE  /\ Reach(nx, h) \subseteq Waiters
         /\ Follows(Reach(nx, h), nx, h)
<1>1. Reach(nx, h) \subseteq Waiters
  BY DEF Reach
<1>2. h \in Reach(nx, h) \cup {Null}
  <2>1. \A S \in SUBSET Waiters : Follows(S, nx, h) => h \in S \cup {Null}
    BY DEF Follows
  <2>2. QED
    BY <2>1 DEF Reach, Links
<1>3. ASSUME NEW v \in Reach(nx, h)
      PROVE  nx[v] \in Reach(nx, h) \cup {Null}
  <2>1. SUFFICES ASSUME nx[v] # Null,
                        NEW S \in SUBSET Waiters, Follows(S, nx, h)
                 PROVE  nx[v] \in S
    BY <1>1 DEF Reach, Links
  <2>2. v \in S
    BY <2>1 DEF Reach
  <2>3. QED
    BY <2>1, <2>2 DEF Follows
<1>4. QED
  BY <1>1, <1>2, <1>3 DEF Follows

LEMMA ReachLeast ==
  ASSUME NEW nx, NEW h, NEW S \in SUBSET Waiters, Follows(S, nx, h)
  PROVE  Reach(nx, h) \subseteq S
BY DEF Reach

LEMMA ReachNull ==
  ASSUME NEW nx
  PROVE  Reach(nx, Null) = {}
<1>1. Follows({}, nx, Null)
  BY DEF Follows
<1>2. QED
  BY <1>1, ReachLeast

LEMMA ReachStep ==
  ASSUME NEW nx \in [Waiters -> Links], NEW h \in Waiters
  PROVE  Reach(nx, h) = {h} \cup Reach(nx, nx[h])
<1>1. h \in Links /\ nx[h] \in Links /\ h # Null
  BY NodesAssumption DEF Links
<1>2. Reach(nx, h) \subseteq {h} \cup Reach(nx, nx[h])
  <2>1. Follows({h} \cup Reach(nx, nx[h]), nx, h)
    BY <1>1, ReachFollows DEF Follows
  <2>2. {h} \cup Reach(nx, nx[h]) \in SUBSET Waiters
    BY <1>1, ReachFollows
  <2>3. QED
    BY <2>1, <2>2, ReachLeast
<1>3. Follows(Reach(nx, h), nx, h) /\ Reach(nx, h) \subseteq Waiters
  BY <1>1, ReachFollows
<1>4. h \in Reach(nx, h)
  BY <1>1, <1>3 DEF Follows
<1>5. Follows(Reach(nx, h), nx, nx[h])
  BY <1>3, <1>4 DEF Follows
<1>6. QED
  BY <1>2, <1>3, <1>4, <1>5, ReachLeast

\* Only the links of the nodes reached matter.
LEMMA ReachSame ==
  ASSUME NEW nx \in [Waiters -> Links], NEW mx \in [Waiters -> Links],
         NEW h \in Links, \A v \in Reach(nx, h) : mx[v] = nx[v]
  PROVE  Reach(mx, h) = Reach(nx, h)
<1>1. Follows(Reach(nx, h), nx, h) /\ Reach(nx, h) \subseteq Waiters
  BY ReachFollows
<1>2. Reach(mx, h) \subseteq Reach(nx, h)
  <2>1. Follows(Reach(nx, h), mx, h)
    BY <1>1 DEF Follows
  <2>2. QED
    BY <1>1, <2>1, ReachLeast
<1>3. Follows(Reach(mx, h), mx, h) /\ Reach(mx, h) \subseteq Waiters
  BY ReachFollows
<1>4. Follows(Reach(mx, h), nx, h)
  BY <1>2, <1>3 DEF Follows
<1>5. QED
  BY <1>2, <1>3, <1>4, ReachLeast

-----------------------------------------------------------------------------
(* The steps of the condition variable                                     *)

\* What the invariant says of a state, in the forms the steps use.
LEMMA CvFacts ==
  ASSUME CvInv
  PROVE  /\ head \in Links /\ next \in [Waiters -> Links]
         /\ \A w \in Waiters : next[w] \in Links /\ w \in Links /\ w # Null
         /\ Pending \subseteq Waiters
         /\ ChainFrom(head) \subseteq Pending
         /\ \A n \in Notifiers : Taken(n) \subseteq Pending
         /\ \A n \in Notifiers : n \notin Waiters /\ n # "locked"
         /\ \A m, n \in Notifiers : at[m] # "out" /\ at[n] # "out" => m = n
<1>1. \A m, n \in Notifiers : at[m] # "out" /\ at[n] # "out" => m = n
  <2>1. SUFFICES ASSUME NEW m \in Notifiers, NEW n \in Notifiers,
                        at[m] # "out", at[n] # "out", m # n
                 PROVE  FALSE
    OBVIOUS
  <2>2. discipline = "locked"
    BY <2>1, NodesAssumption DEF CvInv, CallerState
  <2>3. Holds(m) /\ Holds(n) /\ m \in Tasks /\ n \in Tasks
    BY <2>1, <2>2 DEF Holds, Tasks
  <2>4. QED
    BY <2>1, <2>3 DEF CvInv, CallerState
<1>2. QED
  BY <1>1, NodesAssumption
     DEF CvInv, CvTypeOK, ListState, Pending, InHand, Links

\* What a notifier has in hand does not change while it does nothing and the
\* links of the pending waiters stay.
LEMMA TakenSame ==
  ASSUME CvInv, next' \in [Waiters -> Links], NEW n \in Notifiers,
         at'[n] = at[n], node'[n] = node[n],
         \A v \in Pending : next'[v] = next[v],
         at[n] = "following" => next'[node[n]] = next[node[n]]
  PROVE  Taken(n)' = Taken(n)
<1>1. Taken(n) \subseteq Pending /\ next \in [Waiters -> Links]
      /\ \A w \in Waiters : w \in Links /\ next[w] \in Links
  BY CvFacts
<1>2. CASE at[n] = "marking_all"
  <2>1. node[n] \in Waiters /\ Taken(n) = Reach(next, node[n])
    BY <1>2 DEF CvInv, NotifierState, Taken, ChainFrom
  <2>2. Reach(next', node[n]) = Reach(next, node[n])
    BY <1>1, <2>1, ReachSame
  <2>3. QED
    BY <1>2, <2>1, <2>2 DEF Taken, ChainFrom
<1>3. CASE at[n] = "following"
  <2>1. node[n] \in Waiters /\ Taken(n) = Reach(next, next[node[n]])
    BY <1>3 DEF CvInv, NotifierState, Taken, ChainFrom
  <2>2. Reach(next', next[node[n]]) = Reach(next, next[node[n]])
    BY <1>1, <2>1, ReachSame
  <2>3. QED
    BY <1>3, <2>1, <2>2 DEF Taken, ChainFrom
<1>4. CASE at[n] \notin {"marking_all", "following"}
  BY <1>4 DEF Taken
<1>5. QED
  BY <1>2, <1>3, <1>4

\* The same of the list and of what follows a pending waiter.
LEMMA ChainSame ==
  ASSUME CvInv, next' \in [Waiters -> Links],
         \A v \in Pending : next'[v] = next[v]
  PROVE  /\ Reach(next', head) = ChainFrom(head)
         /\ \A w \in Pending :
              /\ ChainFrom(next[w]) \subseteq Pending
              /\ Reach(next', next'[w]) = ChainFrom(next[w])
<1>1. /\ head \in Links /\ next \in [Waiters -> Links]
      /\ ChainFrom(head) \subseteq Pending /\ Pending \subseteq Waiters
      /\ \A w \in Waiters : next[w] \in Links
  BY CvFacts
<1>2. Reach(next', head) = ChainFrom(head)
  BY <1>1, ReachSame DEF ChainFrom
<1>3. ASSUME NEW w \in Pending
      PROVE  /\ ChainFrom(next[w]) \subseteq Pending
             /\ Reach(next', next'[w]) = ChainFrom(next[w])
  <2>1. Follows(Pending, next, next[w])
    BY DEF CvInv, ListState, Follows
  <2>2. Reach(next, next[w]) \subseteq Pending
    BY <1>1, <2>1, ReachLeast
  <2>3. w \in Waiters /\ next[w] \in Links /\ next'[w] = next[w]
    BY <1>1
  <2>4. Reach(next', next[w]) = Reach(next, next[w])
    BY <1>1, <2>2, <2>3, ReachSame
  <2>5. QED
    BY <2>2, <2>3, <2>4 DEF ChainFrom
<1>4. QED
  BY <1>2, <1>3


\* The list is kept by a step that changes neither what is pending nor what is
\* linked to it.
LEMMA ListKept ==
  ASSUME CvInv, head' = head,
         \A w \in Waiters : at'[w] = "linking" => ~notified'[w], next' \in [Waiters -> Links],
         \A v \in Pending : next'[v] = next[v],
         Pending' = Pending,
         \A n \in Notifiers : Taken(n)' = Taken(n)
  PROVE  ListState' /\ ChainFrom(head)' = ChainFrom(head)
<1>1. ChainFrom(head)' = ChainFrom(head) /\ InHand' = InHand
  BY ChainSame DEF ChainFrom, InHand
<1>2. ASSUME NEW w \in Pending
      PROVE  /\ next'[w] \in Pending \cup {Null}
             /\ w \notin Reach(next', next'[w])
  BY ChainSame DEF CvInv, ListState
<1>3. QED
  BY <1>1, <1>2 DEF CvInv, ListState, ChainFrom

\* One task takes the lock, gives it back, or leaves the flag as it is.
LEMMA LockMoves ==
  ASSUME CvInv, NEW r \in Tasks,
         \A t \in Tasks \ {r} : (Holds(t)' <=> Holds(t)),
         \/ ~flag /\ flag' /\ Holds(r)'
         \/ Holds(r) /\ ~flag' /\ ~Holds(r)'
         \/ flag' = flag /\ (Holds(r)' <=> Holds(r))
  PROVE  /\ \A s, t \in Tasks : Holds(s)' /\ Holds(t)' => s = t
         /\ flag' <=> \E t \in Tasks : Holds(t)'
<1>1. /\ \A s, t \in Tasks : Holds(s) /\ Holds(t) => s = t
      /\ flag <=> \E t \in Tasks : Holds(t)
  BY DEF CvInv, CallerState
<1>2. CASE ~flag /\ flag' /\ Holds(r)'
  <2>1. \A t \in Tasks \ {r} : ~Holds(t)'
    BY <1>1, <1>2
  <2>2. QED
    BY <1>2, <2>1
<1>3. CASE Holds(r) /\ ~flag' /\ ~Holds(r)'
  <2>1. \A t \in Tasks : ~Holds(t)'
    BY <1>1, <1>3
  <2>2. QED
    BY <1>3, <2>1
<1>4. CASE flag' = flag /\ (Holds(r)' <=> Holds(r))
  <2>1. \A t \in Tasks : Holds(t)' <=> Holds(t)
    BY <1>4
  <2>2. QED
    BY <1>1, <1>4, <2>1
<1>5. QED
  BY <1>2, <1>3, <1>4

\* A task enters or leaves the lock, or prepares its node; it is not pending,
\* or stays so.
LEMMA WaiterStep ==
  ASSUME CvInv, NEW w \in Waiters,
         \/ Enter(w) \/ Leave(w) \/ WaitLoad(w) \/ WaitRetry(w)
         \/ WaitUnlock(w) \/ WaitNotified(w) \/ WaitRelock(w)
  PROVE  CvInv'
<1>0. notified' = notified \/ (at[w] = "in" /\ at'[w] = "linking")
  <2>1. WaitLoad(w) => at[w] = "in" /\ at'[w] = "linking"
    BY DEF CvInv, CvTypeOK, WaitLoad, Go
  <2>2. ASSUME \/ Enter(w) \/ Leave(w) \/ WaitRetry(w) \/ WaitUnlock(w)
               \/ WaitNotified(w) \/ WaitRelock(w)
        PROVE  UNCHANGED notified
    BY <2>2
       DEF Enter, Leave, WaitRetry, WaitUnlock, WaitNotified, WaitRelock, Go
  <2>3. QED
    BY <2>1, <2>2
<1> USE DEF Enter, Leave, WaitLoad, WaitRetry, WaitUnlock, WaitNotified,
            WaitRelock, Go, TakeFlag, ClearFlag
<1>1. /\ head \in Links /\ head' = head /\ UNCHANGED <<discipline, node, succ>>
      /\ w \notin Notifiers
      /\ \A t \in Tasks \ {w} : at'[t] = at[t]
      /\ \A n \in Notifiers : at'[n] = at[n] /\ n # w
      /\ at'[w] \in WaiterPoints
      /\ \A v \in Waiters \ {w} : next'[v] = next[v] /\ notified'[v] = notified[v]
      /\ at[w] \notin {"in", "linking"} => next'[w] = next[w]
      /\ notified' = notified \/ (at[w] = "in" /\ at'[w] = "linking")
  <2>1. head \in Links /\ head' = head /\ UNCHANGED <<discipline, node, succ>>
    BY DEF CvInv, CvTypeOK
  <2>2. w \notin Notifiers /\ \A n \in Notifiers : n # w
    BY NodesAssumption
  <2>3. /\ \A t \in Tasks \ {w} : at'[t] = at[t]
        /\ at'[w] \in WaiterPoints
    BY DEF CvInv, CvTypeOK, Tasks, WaiterPoints
  <2>4. /\ \A v \in Waiters \ {w} : next'[v] = next[v] /\ notified'[v] = notified[v]
        /\ at[w] \notin {"in", "linking"} => next'[w] = next[w]
    BY DEF CvInv, CvTypeOK
  <2>5. QED
    BY <1>0, <2>1, <2>2, <2>3, <2>4 DEF Tasks
<1>2. CvTypeOK'
  <2>1. at' \in [Waiters \cup Notifiers -> WaiterPoints \cup NotifierPoints]
    BY DEF CvInv, CvTypeOK, WaiterPoints
  <2>2. next' \in [Waiters -> Links] /\ notified' \in [Waiters -> BOOLEAN]
    BY <1>1 DEF CvInv, CvTypeOK
  <2>3. flag' \in BOOLEAN
    BY DEF CvInv, CvTypeOK
  <2>4. QED
    BY <1>1, <2>1, <2>2, <2>3 DEF CvInv, CvTypeOK
<1>3. CallerState'
  <2>1. \A t \in Tasks \ {w} : (Holds(t)' <=> Holds(t))
    BY <1>1 DEF Holds
  <2>2. Holds(w) <=> at[w] \in {"in", "linking", "linked"}
    BY <1>1 DEF Holds
  <2>3. Holds(w)' <=> at'[w] \in {"in", "linking", "linked"}
    BY <1>1 DEF Holds
  <2>4. w \in Tasks
    BY DEF Tasks
  <2>5. \/ ~flag /\ flag' /\ Holds(w)'
        \/ Holds(w) /\ ~flag' /\ ~Holds(w)'
        \/ flag' = flag /\ (Holds(w)' <=> Holds(w))
    <3>1. CASE Enter(w) \/ WaitRelock(w)
      BY <3>1, <2>3 DEF CvInv, CvTypeOK
    <3>2. CASE Leave(w) \/ WaitUnlock(w)
      BY <3>2, <2>2, <2>3 DEF CvInv, CvTypeOK
    <3>3. CASE WaitLoad(w) \/ WaitRetry(w) \/ WaitNotified(w)
      BY <3>3, <2>2, <2>3 DEF CvInv, CvTypeOK
    <3>4. QED
      BY <3>1, <3>2, <3>3
  <2>6. /\ \A s, t \in Tasks : Holds(s)' /\ Holds(t)' => s = t
        /\ flag' <=> \E t \in Tasks : Holds(t)'
    BY <2>1, <2>4, <2>5, LockMoves
  <2>7. QED
    BY <1>1, <2>6 DEF CvInv, CallerState, Tasks
<1>4. \A n \in Notifiers :
        at[n] = "following" => at[node[n]] \in {"spinning", "relocking"}
                               /\ node[n] \in Waiters
  BY DEF CvInv, NotifierState
<1>5. Pending' = Pending /\ \A v \in Pending : next'[v] = next[v]
  <2>1. w \in Pending => at'[w] \in {"linked", "spinning"} /\ ~notified'[w]
    BY <1>1 DEF Pending, CvInv, CvTypeOK
  <2>2. w \notin Pending => ~(at'[w] \in {"linked", "spinning"} /\ ~notified'[w])
    BY <1>1 DEF Pending, CvInv, CvTypeOK
  <2>3. \A v \in Waiters \ {w} : v \in Pending' <=> v \in Pending
    BY <1>1 DEF Pending, Tasks
  <2>4. QED
    BY <1>1, <2>1, <2>2, <2>3 DEF Pending
<1>6. \A n \in Notifiers : Taken(n)' = Taken(n)
  BY <1>1, <1>2, <1>4, <1>5, TakenSame DEF CvTypeOK
<1>7. ListState' /\ ChainFrom(head)' = ChainFrom(head)
  <2>1. \A v \in Waiters : at'[v] = "linking" => ~notified'[v]
    <3>1. at'[w] = "linking" => ~notified'[w]
      BY <1>1 DEF CvInv, CvTypeOK, ListState
    <3>2. QED
      BY <1>1, <3>1 DEF CvInv, ListState, Tasks
  <2>2. QED
    BY <1>1, <1>2, <1>5, <1>6, <2>1, ListKept DEF CvTypeOK
<1>8. NotifierState'
  <2>1. SUFFICES ASSUME NEW n \in Notifiers
        PROVE /\ at[n] \in {"taking", "swapping"} => node[n] \in ChainFrom(head)'
              /\ at[n] = "swapping" => succ[n] = next'[node[n]]
              /\ at[n] \in {"marking", "taking_all", "marking_all", "following"}
                   => node[n] \in Waiters
              /\ at[n] \in {"taking_all", "marking_all", "following"}
                   => discipline = "locked"
              /\ at[n] = "following" => at'[node[n]] \in {"spinning", "relocking"}
    BY <1>1 DEF NotifierState
  <2>2. at[n] \in {"taking", "swapping"} => node[n] \in Pending
    BY CvFacts DEF CvInv, NotifierState
  <2>3. at[n] = "following" => at'[node[n]] \in {"spinning", "relocking"}
    <3>1. SUFFICES ASSUME at[n] = "following", node[n] = w
                   PROVE  at'[w] \in {"spinning", "relocking"}
      BY <1>1, <1>4 DEF Tasks
    <3>2. n \in Tasks /\ Holds(n)
      BY <3>1 DEF CvInv, NotifierState, Holds, Tasks
    <3>3. flag
      BY <3>2 DEF CvInv, CallerState
    <3>4. ~WaitRelock(w)
      BY <3>3
    <3>5. QED
      BY <1>4, <3>1, <3>4 DEF CvInv, CvTypeOK
  <2>4. QED
    BY <1>5, <1>7, <2>2, <2>3 DEF CvInv, NotifierState
<1>9. QED
  BY <1>2, <1>3, <1>7, <1>8 DEF CvInv

\* The node goes to the front of the list.
LEMMA LinkStep ==
  ASSUME CvInv, NEW w \in Waiters, WaitLink(w)
  PROVE  CvInv'
<1> USE DEF WaitLink, Go
<1>1. /\ head \in Links /\ head = next[w] /\ head' = w
      /\ UNCHANGED <<discipline, flag, next, notified, node, succ>>
      /\ w \notin Notifiers /\ w \in Tasks
      /\ at[w] = "linking" /\ at'[w] = "linked"
      /\ \A t \in Tasks \ {w} : at'[t] = at[t]
      /\ \A n \in Notifiers : at'[n] = at[n] /\ n # w
  BY NodesAssumption DEF CvInv, CvTypeOK, Links, Tasks
<1>2. CvTypeOK'
  BY <1>1 DEF CvInv, CvTypeOK, WaiterPoints, Links
<1>3. CallerState'
  <2>1. \A t \in Tasks : (Holds(t)' <=> Holds(t))
    BY <1>1 DEF Holds
  <2>2. QED
    BY <1>1, <2>1 DEF CvInv, CallerState, WaiterPoints, Tasks
<1>4. Holds(w)
  BY <1>1 DEF Holds
<1>5. \A n \in Notifiers : at[n] # "out" => discipline # "locked"
  BY <1>1, <1>4 DEF CvInv, CallerState, Holds, Tasks
<1>6. ~notified[w]
  BY <1>1 DEF CvInv, ListState
<1>7. Pending' = Pending \cup {w} /\ w \notin Pending
  BY <1>1, <1>6 DEF Pending, Tasks
<1>8. next \in [Waiters -> Links] /\ next' = next
  BY <1>1, CvFacts
<1>9. \A n \in Notifiers : Taken(n)' = Taken(n)
  BY <1>1, <1>8, TakenSame
<1>10. ChainFrom(head)' = {w} \cup ChainFrom(head)
  BY <1>1, <1>8, ReachStep DEF ChainFrom
<1>11. ListState'
  <2>1. InHand' = InHand
    BY <1>9 DEF InHand
  <2>2. w \notin ChainFrom(head) /\ w \notin InHand
    BY <1>7 DEF CvInv, ListState
  <2>3. next[w] \in Pending \cup {Null} /\ w \notin Reach(next, next[w])
    <3>1. head \in ChainFrom(head) \cup {Null}
      BY <1>1, <1>8, ReachFollows DEF ChainFrom, Follows
    <3>2. QED
      BY <1>1, <2>2, <3>1 DEF CvInv, ListState, ChainFrom
  <2>4. \A v \in Pending : next[v] \in Pending \cup {Null}
                           /\ v \notin Reach(next, next[v])
    BY DEF CvInv, ListState, ChainFrom
  <2>5. QED
    BY <1>7, <1>8, <1>10, <2>1, <2>2, <2>3, <2>4 DEF CvInv, ListState, ChainFrom
<1>12. NotifierState'
  BY <1>1, <1>5, <1>10 DEF CvInv, NotifierState, Tasks
<1>13. QED
  BY <1>2, <1>3, <1>11, <1>12 DEF CvInv

\* A notifier starts, looks for the head, gives up or returns: nothing is in
\* hand before or after.
LEMMA NotifierMoves ==
  ASSUME CvInv, NEW n \in Notifiers,
         \/ Call(n) \/ Finish(n) \/ NotifyOneLoad(n) \/ NotifyOneRead(n)
         \/ NotifyOneRetry(n) \/ NotifyAllLoad(n) \/ NotifyAllRetry(n)
  PROVE  CvInv'
<1> USE DEF Call, Finish, NotifyOneLoad, NotifyOneRead, NotifyOneRetry,
            NotifyAllLoad, NotifyAllRetry, LoadHead, Go, TakeFlag, ClearFlag
<1>1. /\ head' = head /\ UNCHANGED <<discipline, next, notified>>
      /\ \A t \in Tasks \ {n} : at'[t] = at[t]
      /\ \A w \in Waiters : at'[w] = at[w] /\ w # n
      /\ \A m \in Notifiers \ {n} :
           at'[m] = at[m] /\ node'[m] = node[m] /\ succ'[m] = succ[m]
  <2>1. head' = head /\ UNCHANGED <<discipline, next, notified>>
    OBVIOUS
  <2>2. \A t \in Tasks \ {n} : at'[t] = at[t]
    BY DEF CvInv, CvTypeOK, Tasks
  <2>3. \A m \in Notifiers \ {n} : node'[m] = node[m] /\ succ'[m] = succ[m]
    BY DEF CvInv, CvTypeOK
  <2>4. QED
    BY <2>1, <2>2, <2>3, NodesAssumption DEF Tasks
<1>2. /\ at[n] \in {"out", "calling", "taking", "swapping", "taking_all", "returned"}
      /\ at'[n] \in {"out", "calling", "taking", "swapping", "taking_all", "returned"}
  BY DEF CvInv, CvTypeOK
<1>3. /\ node' \in [Notifiers -> Links] /\ succ' \in [Notifiers -> Links]
      /\ head \in Links
  <2>1. at[n] = "taking" => next[node[n]] \in Links
    BY CvFacts DEF CvInv, NotifierState
  <2>2. succ' \in [Notifiers -> Links]
    BY <2>1 DEF CvInv, CvTypeOK
  <2>3. QED
    BY <2>2 DEF CvInv, CvTypeOK
<1>4. CvTypeOK'
  <2>1. at' \in [Waiters \cup Notifiers -> WaiterPoints \cup NotifierPoints]
    BY DEF CvInv, CvTypeOK, NotifierPoints
  <2>2. flag' \in BOOLEAN
    BY DEF CvInv, CvTypeOK
  <2>3. QED
    BY <1>1, <1>3, <2>1, <2>2 DEF CvInv, CvTypeOK
<1>5. \A m \in Notifiers : at[m] # "out" /\ at[n] # "out" => m = n
  BY CvFacts
<1>6. CallerState'
  <2>1. \A t \in Tasks \ {n} : (Holds(t)' <=> Holds(t))
    BY <1>1 DEF Holds
  <2>2. Holds(n) <=> at[n] # "out" /\ discipline = "locked"
    BY NodesAssumption DEF Holds
  <2>3. Holds(n)' <=> at'[n] # "out" /\ discipline = "locked"
    BY <1>1, NodesAssumption DEF Holds
  <2>4. n \in Tasks /\ n # "locked"
    BY NodesAssumption DEF Tasks
  <2>5. \/ ~flag /\ flag' /\ Holds(n)'
        \/ Holds(n) /\ ~flag' /\ ~Holds(n)'
        \/ flag' = flag /\ (Holds(n)' <=> Holds(n))
    <3>1. CASE Call(n)
      BY <3>1, <2>2, <2>3, <2>4 DEF CvInv, CvTypeOK
    <3>2. CASE Finish(n)
      BY <3>2, <2>2, <2>3, <2>4 DEF CvInv, CvTypeOK, CallerState
    <3>3. CASE \/ NotifyOneLoad(n) \/ NotifyOneRead(n) \/ NotifyOneRetry(n)
               \/ NotifyAllLoad(n) \/ NotifyAllRetry(n)
      <4>1. at[n] # "out" /\ at'[n] # "out" /\ flag' = flag
        BY <3>3 DEF CvInv, CvTypeOK
      <4>2. QED
        BY <2>2, <2>3, <4>1
    <3>4. QED
      BY <3>1, <3>2, <3>3
  <2>6. /\ \A s, t \in Tasks : Holds(s)' /\ Holds(t)' => s = t
        /\ flag' <=> \E t \in Tasks : Holds(t)'
    BY <2>1, <2>4, <2>5, LockMoves
  <2>7. at[n] # "out" \/ discipline \in {"locked", n}
    OBVIOUS
  <2>8. QED
    BY <1>1, <1>2, <2>6, <2>7 DEF CvInv, CallerState, Tasks, NotifierPoints
<1>7. Pending' = Pending /\ \A v \in Pending : next'[v] = next[v]
  BY <1>1 DEF Pending
<1>8. \A m \in Notifiers : Taken(m)' = Taken(m)
  <2>1. Taken(n) = {} /\ Taken(n)' = {}
    BY <1>2 DEF Taken
  <2>2. ASSUME NEW m \in Notifiers \ {n} PROVE Taken(m)' = Taken(m)
    BY <1>1, <1>4, TakenSame DEF CvTypeOK
  <2>3. QED
    BY <2>1, <2>2
<1>9. ListState' /\ ChainFrom(head)' = ChainFrom(head)
  BY <1>1, <1>4, <1>7, <1>8, ListKept DEF CvInv, CvTypeOK, ListState
<1>10. NotifierState'
  <2>1. ASSUME NEW m \in Notifiers, m # n
        PROVE /\ at'[m] \in {"taking", "swapping"} => node'[m] \in ChainFrom(head)'
              /\ at'[m] = "swapping" => succ'[m] = next'[node'[m]]
              /\ at'[m] \in {"marking", "taking_all", "marking_all", "following"}
                   => node'[m] \in Waiters
              /\ at'[m] \in {"taking_all", "marking_all", "following"}
                   => discipline = "locked"
              /\ at'[m] = "following" => at'[node'[m]] \in {"spinning", "relocking"}
    BY <1>1, <1>9, <2>1 DEF CvInv, NotifierState
  <2>2. /\ at'[n] \in {"taking", "taking_all"} => node'[n] = head /\ head # Null
        /\ at'[n] = "taking_all" => discipline = "locked"
        /\ at'[n] = "swapping" => /\ at[n] = "taking" /\ node'[n] = node[n]
                                  /\ succ'[n] = next[node[n]]
    BY DEF CvInv, CvTypeOK
  <2>3. head # Null => head \in ChainFrom(head) /\ head \in Waiters
    BY <1>3, CvFacts, ReachFollows DEF ChainFrom, Follows, Links
  <2>4. at'[n] = "swapping" => node[n] \in ChainFrom(head)
    BY <2>2 DEF CvInv, NotifierState
  <2>5. QED
    BY <1>1, <1>2, <1>9, <2>1, <2>2, <2>3, <2>4 DEF NotifierState
<1>11. QED
  BY <1>4, <1>6, <1>9, <1>10 DEF CvInv

\* The steps that change what is in hand are those of the only notifier.
LEMMA SoleNotifier ==
  ASSUME CvInv, NEW n \in Notifiers, NEW to \in NotifierPoints \ {"out"},
         at[n] # "out", at' = [at EXCEPT ![n] = to],
         UNCHANGED <<discipline, flag, succ>>
  PROVE  /\ at' \in [Waiters \cup Notifiers -> WaiterPoints \cup NotifierPoints]
         /\ CallerState'
         /\ InHand = Taken(n) /\ InHand' = Taken(n)'
         /\ at'[n] = to
         /\ \A w \in Waiters : at'[w] = at[w]
         /\ \A m \in Notifiers \ {n} : at'[m] = "out"
<1>1. /\ at'[n] = to /\ \A w \in Waiters : at'[w] = at[w] /\ w # n
      /\ \A m \in Notifiers \ {n} : at[m] = "out" /\ at'[m] = "out"
  BY CvFacts DEF CvInv, CvTypeOK
<1>2. at' \in [Waiters \cup Notifiers -> WaiterPoints \cup NotifierPoints]
  BY DEF CvInv, CvTypeOK
<1>3. CallerState'
  <2>1. \A t \in Tasks : (Holds(t)' <=> Holds(t))
    BY <1>1 DEF Holds, Tasks
  <2>2. QED
    BY <1>1, <2>1 DEF CvInv, CallerState
<1>4. \A m \in Notifiers \ {n} : Taken(m) = {} /\ Taken(m)' = {}
  BY <1>1 DEF Taken
<1>5. InHand = Taken(n) /\ InHand' = Taken(n)'
  BY <1>4 DEF InHand
<1>6. QED
  BY <1>1, <1>2, <1>3, <1>5

\* The head of the list is taken; its successor was read while the node was in
\* the list, where links do not change, and nobody else removes nodes.
LEMMA OneSwapStep ==
  ASSUME CvInv, NEW n \in Notifiers, NotifyOneSwap(n)
  PROVE  CvInv'
<1> USE DEF NotifyOneSwap, Go
<1>1. /\ at[n] = "swapping" /\ at' = [at EXCEPT ![n] = "marking"]
      /\ head = node[n] /\ head' = succ[n]
      /\ UNCHANGED <<discipline, flag, next, notified, node, succ>>
      /\ "marking" \in NotifierPoints \ {"out"}
  BY DEF NotifierPoints
<1>2. /\ at' \in [Waiters \cup Notifiers -> WaiterPoints \cup NotifierPoints]
      /\ CallerState'
      /\ InHand = Taken(n) /\ InHand' = Taken(n)'
      /\ at'[n] = "marking"
      /\ \A w \in Waiters : at'[w] = at[w]
      /\ \A m \in Notifiers \ {n} : at'[m] = "out"
  BY <1>1, SoleNotifier
<1>3. /\ node[n] \in ChainFrom(head) /\ succ[n] = next[node[n]]
      /\ node[n] \in Waiters /\ node[n] \in Pending
  BY <1>1, CvFacts DEF CvInv, NotifierState
<1>4. CvTypeOK'
  BY <1>1, <1>2 DEF CvInv, CvTypeOK
<1>5. Pending' = Pending
  BY <1>1, <1>2 DEF Pending
<1>6. Taken(n) = {} /\ Taken(n)' = {node[n]}
  BY <1>1, <1>2 DEF Taken
<1>7. ChainFrom(head) = {node[n]} \cup ChainFrom(head)'
  BY <1>1, <1>3, CvFacts, ReachStep DEF ChainFrom
<1>8. node[n] \notin ChainFrom(head)'
  BY <1>1, <1>3 DEF CvInv, ListState, ChainFrom
<1>9. ListState'
  <2>1. ChainFrom(head)' \cup InHand' = Pending'
    BY <1>2, <1>5, <1>6, <1>7 DEF CvInv, ListState
  <2>2. ChainFrom(head)' \cap InHand' = {}
    BY <1>2, <1>6, <1>8
  <2>3. QED
    BY <1>1, <1>2, <1>5, <2>1, <2>2 DEF CvInv, ListState, ChainFrom
<1>10. NotifierState'
  BY <1>1, <1>2, <1>3 DEF NotifierState
<1>11. QED
  BY <1>2, <1>4, <1>9, <1>10 DEF CvInv

LEMMA AllSwapStep ==
  ASSUME CvInv, NEW n \in Notifiers, NotifyAllSwap(n)
  PROVE  CvInv'
<1> USE DEF NotifyAllSwap, Go
<1>1. /\ at[n] = "taking_all" /\ at' = [at EXCEPT ![n] = "marking_all"]
      /\ head = node[n] /\ head' = Null
      /\ UNCHANGED <<discipline, flag, next, notified, node, succ>>
      /\ "marking_all" \in NotifierPoints \ {"out"}
  BY DEF NotifierPoints
<1>2. /\ at' \in [Waiters \cup Notifiers -> WaiterPoints \cup NotifierPoints]
      /\ CallerState'
      /\ InHand = Taken(n) /\ InHand' = Taken(n)'
      /\ at'[n] = "marking_all"
      /\ \A w \in Waiters : at'[w] = at[w]
      /\ \A m \in Notifiers \ {n} : at'[m] = "out"
  BY <1>1, SoleNotifier
<1>3. node[n] \in Waiters /\ discipline = "locked"
  BY <1>1 DEF CvInv, NotifierState
<1>4. CvTypeOK'
  BY <1>1, <1>2 DEF CvInv, CvTypeOK, Links
<1>5. Pending' = Pending
  BY <1>1, <1>2 DEF Pending
<1>6. Taken(n) = {} /\ Taken(n)' = ChainFrom(head) /\ ChainFrom(head)' = {}
  <2>1. Taken(n) = {}
    BY <1>1 DEF Taken
  <2>2. Taken(n)' = ChainFrom(head)
    BY <1>1, <1>2 DEF Taken, ChainFrom
  <2>3. ChainFrom(head)' = {}
    BY <1>1, ReachNull DEF ChainFrom
  <2>4. QED
    BY <2>1, <2>2, <2>3
<1>7. ListState'
  <2>1. ChainFrom(head)' \cup InHand' = Pending'
    BY <1>2, <1>5, <1>6 DEF CvInv, ListState
  <2>2. ChainFrom(head)' \cap InHand' = {}
    BY <1>6
  <2>3. QED
    BY <1>1, <1>2, <1>5, <2>1, <2>2 DEF CvInv, ListState, ChainFrom
<1>8. NotifierState'
  BY <1>1, <1>2, <1>3 DEF NotifierState
<1>9. QED
  BY <1>2, <1>4, <1>7, <1>8 DEF CvInv

\* The node in hand is told; it is pending no more, and what was linked behind
\* it still is.
LEMMA MarkStep ==
  ASSUME CvInv, NEW n \in Notifiers, NotifyOneMark(n) \/ NotifyAllMark(n)
  PROVE  CvInv'
<1> USE DEF NotifyOneMark, NotifyAllMark, Go
<1> DEFINE to == IF at[n] = "marking" THEN "returned" ELSE "following"
           rest == IF at[n] = "marking" THEN {} ELSE ChainFrom(next[node[n]])
<1>1. /\ at[n] \in {"marking", "marking_all"} /\ at' = [at EXCEPT ![n] = to]
      /\ notified' = [notified EXCEPT ![node[n]] = TRUE]
      /\ UNCHANGED <<discipline, flag, next, head, node, succ>>
      /\ to \in NotifierPoints \ {"out"}
  BY DEF NotifierPoints
<1>2. /\ at' \in [Waiters \cup Notifiers -> WaiterPoints \cup NotifierPoints]
      /\ CallerState'
      /\ InHand = Taken(n) /\ InHand' = Taken(n)'
      /\ at'[n] = to
      /\ \A w \in Waiters : at'[w] = at[w]
      /\ \A m \in Notifiers \ {n} : at'[m] = "out"
  BY <1>1, SoleNotifier
<1>3. node[n] \in Waiters
  BY <1>1 DEF CvInv, NotifierState
<1>4. CvTypeOK'
  BY <1>1, <1>2 DEF CvInv, CvTypeOK
<1>5. Pending' = Pending \ {node[n]} /\ notified'[node[n]]
      /\ \A w \in Waiters \ {node[n]} : notified'[w] = notified[w]
  BY <1>1, <1>2, <1>3 DEF CvInv, CvTypeOK, Pending
<1>6. Taken(n) = {node[n]} \cup rest /\ Taken(n)' = rest /\ ChainFrom(head)' = ChainFrom(head)
  <2>1. at[n] = "marking_all" => Taken(n) = {node[n]} \cup rest
    BY <1>3, CvFacts, ReachStep DEF Taken, ChainFrom
  <2>2. at[n] = "marking" => Taken(n) = {node[n]} \cup rest
    BY DEF Taken
  <2>3. Taken(n)' = rest
    BY <1>1, <1>2 DEF Taken, ChainFrom
  <2>4. QED
    BY <1>1, <2>1, <2>2, <2>3 DEF ChainFrom
<1>7. node[n] \in Pending /\ node[n] \notin ChainFrom(head) /\ node[n] \notin rest
  BY <1>2, <1>6 DEF CvInv, ListState
<1>8. ListState'
  <2>1. ChainFrom(head)' \cup InHand' = Pending'
    BY <1>2, <1>5, <1>6, <1>7 DEF CvInv, ListState
  <2>2. ChainFrom(head)' \cap InHand' = {}
    BY <1>2, <1>6 DEF CvInv, ListState
  <2>3. ASSUME NEW w \in Pending' PROVE next[w] \in Pending' \cup {Null}
    <3>1. w \in ChainFrom(head) \/ w \in rest
      BY <1>2, <1>6, <2>1, <2>3
    <3>2. Follows(ChainFrom(head), next, head)
      BY CvFacts, ReachFollows DEF ChainFrom
    <3>3. rest # {} => Follows(rest, next, next[node[n]])
      BY <1>3, CvFacts, ReachFollows DEF ChainFrom
    <3>4. next[w] \in ChainFrom(head) \cup rest \cup {Null}
      BY <3>1, <3>2, <3>3 DEF Follows
    <3>5. QED
      BY <1>2, <1>6, <2>1, <3>4
  <2>4. \A w \in Pending' : w \notin ChainFrom(next[w])
    BY <1>5 DEF CvInv, ListState
  <2>5. \A w \in Waiters : at'[w] = "linking" => ~notified'[w]
    BY <1>2, <1>5, <1>7 DEF CvInv, ListState, Pending
  <2>6. QED
    BY <1>1, <2>1, <2>2, <2>3, <2>4, <2>5 DEF ListState, ChainFrom
<1>9. NotifierState'
  <2>1. at[n] = "marking_all" => discipline = "locked"
    BY DEF CvInv, NotifierState
  <2>2. at[node[n]] \in {"linked", "spinning"}
    BY <1>7 DEF Pending
  <2>3. at[n] = "marking_all" => at[node[n]] = "spinning"
    <3>1. SUFFICES ASSUME at[n] = "marking_all", at[node[n]] = "linked" PROVE FALSE
      BY <2>2
    <3>2. Holds(n) /\ Holds(node[n]) /\ n \in Tasks /\ node[n] \in Tasks
      BY <1>3, <2>1, <3>1 DEF Holds, Tasks
    <3>3. n # node[n]
      BY <1>3, CvFacts
    <3>4. QED
      BY <3>2, <3>3 DEF CvInv, CallerState
  <2>4. QED
    BY <1>1, <1>2, <1>3, <2>1, <2>3 DEF NotifierState
<1>10. QED
  BY <1>2, <1>4, <1>8, <1>9 DEF CvInv

\* The link of a node that has been told is still what it was: its task cannot
\* leave wait() before the notifier gives the lock back.
LEMMA FollowStep ==
  ASSUME CvInv, NEW n \in Notifiers, NotifyAllFollow(n)
  PROVE  CvInv'
<1> USE DEF NotifyAllFollow, Go
<1> DEFINE to == IF next[node[n]] = Null THEN "returned" ELSE "marking_all"
<1>1. /\ at[n] = "following" /\ at' = [at EXCEPT ![n] = to]
      /\ node' = [node EXCEPT ![n] = next[node[n]]]
      /\ UNCHANGED <<discipline, flag, next, head, notified, succ>>
      /\ to \in NotifierPoints \ {"out"}
  BY DEF NotifierPoints
<1>2. /\ at' \in [Waiters \cup Notifiers -> WaiterPoints \cup NotifierPoints]
      /\ CallerState'
      /\ InHand = Taken(n) /\ InHand' = Taken(n)'
      /\ at'[n] = to
      /\ \A w \in Waiters : at'[w] = at[w]
      /\ \A m \in Notifiers \ {n} : at'[m] = "out"
  BY <1>1, SoleNotifier
<1>3. node[n] \in Waiters /\ next[node[n]] \in Links /\ discipline = "locked"
  BY <1>1, CvFacts DEF CvInv, NotifierState
<1>4. CvTypeOK' /\ node'[n] = next[node[n]]
  BY <1>1, <1>2, <1>3 DEF CvInv, CvTypeOK
<1>5. Pending' = Pending
  BY <1>1, <1>2 DEF Pending
<1>6. Taken(n)' = Taken(n) /\ ChainFrom(head)' = ChainFrom(head)
  <2>1. Taken(n) = ChainFrom(next[node[n]])
    BY <1>1 DEF Taken
  <2>2. CASE next[node[n]] = Null
    BY <1>2, <2>1, <2>2, ReachNull DEF Taken, ChainFrom
  <2>3. CASE next[node[n]] # Null
    BY <1>1, <1>2, <1>4, <2>1, <2>3 DEF Taken, ChainFrom
  <2>4. QED
    BY <1>1, <2>2, <2>3 DEF ChainFrom
<1>7. ListState'
  BY <1>1, <1>2, <1>5, <1>6 DEF CvInv, ListState, ChainFrom
<1>8. NotifierState'
  BY <1>1, <1>2, <1>3, <1>4 DEF NotifierState, Links
<1>9. QED
  BY <1>2, <1>4, <1>7, <1>8 DEF CvInv

LEMMA CvInitial == CvInit => CvInv
<1> SUFFICES ASSUME CvInit PROVE CvInv
  OBVIOUS
<1> USE NodesAssumption DEF CvInit
<1>1. CvTypeOK
  BY DEF CvTypeOK, Links, WaiterPoints
<1>2. \A t \in Tasks : at[t] = "out" /\ ~Holds(t)
  BY DEF Tasks, Holds
<1>3. CallerState
  BY <1>2 DEF CallerState, Tasks, WaiterPoints, NotifierPoints
<1>4. Pending = {} /\ InHand = {} /\ ChainFrom(head) = {}
  <2>1. Pending = {}
    BY <1>2 DEF Pending, Tasks
  <2>2. InHand = {}
    BY <1>2 DEF InHand, Taken, Tasks
  <2>3. ChainFrom(head) = {}
    BY ReachNull DEF ChainFrom
  <2>4. QED
    BY <2>1, <2>2, <2>3
<1>5. ListState
  BY <1>2, <1>4 DEF ListState, Tasks
<1>6. NotifierState
  BY <1>2 DEF NotifierState, Tasks
<1>7. QED
  BY <1>1, <1>3, <1>5, <1>6 DEF CvInv

LEMMA CvUnchanged ==
  ASSUME CvInv, UNCHANGED cvVars
  PROVE  CvInv'
BY DEF cvVars, CvInv, CvTypeOK, CallerState, ListState, NotifierState, Holds,
       Pending, InHand, Taken, ChainFrom

LEMMA CvStep == CvInv /\ [CvNext]_cvVars => CvInv'
<1> SUFFICES ASSUME CvInv, [CvNext]_cvVars PROVE CvInv'
  OBVIOUS
<1>1. CASE UNCHANGED cvVars
  BY <1>1, CvUnchanged
<1>2. CASE CvNext
  BY <1>2, WaiterStep, LinkStep, NotifierMoves, OneSwapStep, AllSwapStep,
     MarkStep, FollowStep DEF CvNext
<1>3. QED
  BY <1>1, <1>2

LEMMA CvConsequence == CvInv => WaitersSound
<1> SUFFICES ASSUME CvInv PROVE WaitersSound
  OBVIOUS
<1> DEFINE OnStack == {w \in Waiters : at[w] \notin {"out", "in"}}
<1>1. Pending \subseteq OnStack
  BY DEF Pending
<1>2. ASSUME NEW n \in Notifiers,
             at[n] \in {"taking", "marking", "marking_all", "following"}
      PROVE  node[n] \in OnStack
  <2>1. at[n] = "taking" => node[n] \in Pending
    BY CvFacts DEF CvInv, NotifierState
  <2>2. at[n] = "marking" => node[n] \in Pending
    BY CvFacts DEF Taken
  <2>3. at[n] = "marking_all" => node[n] \in Pending
    <3>1. SUFFICES ASSUME at[n] = "marking_all" PROVE node[n] \in Pending
      OBVIOUS
    <3>2. node[n] \in Waiters /\ Taken(n) = Reach(next, node[n])
      BY <3>1 DEF CvInv, NotifierState, Taken, ChainFrom
    <3>3. QED
      BY <3>2, CvFacts, ReachStep
  <2>4. at[n] = "following" => node[n] \in OnStack
    BY DEF CvInv, NotifierState
  <2>5. QED
    BY <1>1, <1>2, <2>1, <2>2, <2>3, <2>4
<1>3. QED
  BY <1>1, <1>2 DEF CvInv, ListState, InHand, Pending, WaitersSound

-----------------------------------------------------------------------------
(* The writers under a spin lock                                           *)

\* The bytes that have been stored to DR so far, whether sent or not.
Stored == Len(wire) + (IF txe THEN 0 ELSE 1)

\* How many bytes of the message under way have been stored.
Progress == Stored % Length

\* At most one task is inside the lock, and the flag says whether one is.
MutualExclusion ==
  /\ \A v, w \in Writers : step[v] # "out" /\ step[w] # "out" => v = w
  /\ uart_lock <=> \E w \in Writers : step[w] # "out"

\* Which bytes went out, and what DR holds in relation to them.
LineState ==
  /\ \A k \in 1..Len(wire) :
       /\ wire[k][2] = ((k - 1) % Length) + 1
       /\ wire[k][2] > 1 => wire[k - 1][1] = wire[k][1]
  /\ txe /\ Len(wire) > 0 => wire[Len(wire)] = dr
  /\ ~txe => /\ dr[2] = (Len(wire) % Length) + 1
             /\ dr[2] > 1 => wire[Len(wire)][1] = dr[1]

\* Where a writer is in its message.
WriterState ==
  \A w \in Writers :
    /\ step[w] \in {"check", "store"} =>
         /\ index[w] = Progress + 1
         /\ index[w] > 1 => dr = <<w, index[w] - 1>>
    /\ step[w] \in {"drain", "unlock"} => Progress = 0
    /\ step[w] \in {"store", "unlock"} => txe
    /\ step[w] # "out" => written[w] < Messages

\* Nothing is under way while the lock is free.
Quiet == (\A w \in Writers : step[w] = "out") => txe /\ Progress = 0

WritersInv == WritersTypeOK /\ MutualExclusion /\ LineState /\ WriterState /\ Quiet

-----------------------------------------------------------------------------
(* Arithmetic                                                              *)

LEMMA Division ==
  ASSUME NEW n \in Nat \ {0}, NEW t \in Nat
  PROVE  t = ((t \div n) * n) + (t % n) /\ (t \div n) \in Nat
OBVIOUS

LEMMA RemainderBound ==
  ASSUME NEW n \in Nat \ {0}, NEW t \in Nat
  PROVE  (t % n) \in 0..(n - 1)
OBVIOUS

LEMMA RemainderOfMultiple ==
  ASSUME NEW n \in Nat \ {0}, NEW q \in Nat, NEW r \in 0..(n - 1)
  PROVE  ((q * n) + r) % n = r
OBVIOUS

LEMMA RemainderOfNext ==
  ASSUME NEW n \in Nat \ {0}, NEW t \in Nat
  PROVE  (t + 1) % n = IF (t % n) + 1 = n THEN 0 ELSE (t % n) + 1
<1> DEFINE q == t \div n
           r == t % n
<1>1. t = q * n + r /\ q \in Nat /\ r \in 0..(n - 1)
  BY Division, RemainderBound
<1> HIDE DEF q, r
<1>2. CASE r + 1 = n
  <2>1. t + 1 = (q + 1) * n + 0
    BY <1>1, <1>2
  <2>2. ((q + 1) * n + 0) % n = 0
    BY <1>1, RemainderOfMultiple
  <2>3. QED
    BY <1>1, <1>2, <2>1, <2>2 DEF r
<1>3. CASE r + 1 # n
  <2>1. t + 1 = q * n + (r + 1)
    BY <1>1
  <2>2. (q * n + (r + 1)) % n = r + 1
    BY <1>1, <1>3, RemainderOfMultiple
  <2>3. QED
    BY <1>1, <1>3, <2>1, <2>2 DEF r
<1>4. QED
  BY <1>2, <1>3

\* The numbers the proofs below speak of, under the type invariant.
LEMMA Numbers ==
  ASSUME WritersTypeOK
  PROVE  /\ Length \in Nat \ {0} /\ Len(wire) \in Nat /\ Stored \in Nat
         /\ Progress \in 0..(Length - 1)
         /\ (Stored + 1) % Length =
              IF Progress + 1 = Length THEN 0 ELSE Progress + 1
         /\ txe => Stored = Len(wire) /\ Progress = Len(wire) % Length
         /\ ~txe => Stored = Len(wire) + 1
<1>1. Length \in Nat \ {0} /\ Len(wire) \in Nat
  BY WritersAssumption, LenProperties DEF WritersTypeOK
<1>2. Stored \in Nat
  BY <1>1 DEF Stored
<1>3. Progress \in 0..(Length - 1)
  BY <1>1, <1>2, RemainderBound DEF Progress
<1>4. (Stored + 1) % Length = IF Progress + 1 = Length THEN 0 ELSE Progress + 1
  BY <1>1, <1>2, RemainderOfNext DEF Progress
<1>5. txe => Stored = Len(wire)
  BY <1>1 DEF Stored
<1>6. ~txe => Stored = Len(wire) + 1
  BY <1>1 DEF Stored
<1>7. QED
  BY <1>1, <1>2, <1>3, <1>4, <1>5, <1>6 DEF Progress

-----------------------------------------------------------------------------
(* The inductive invariant                                                 *)

LEMMA WritersInitial == WritersInit => WritersInv
<1> SUFFICES ASSUME WritersInit PROVE WritersInv
  OBVIOUS
<1> USE WritersAssumption DEF WritersInit
<1>1. (CHOOSE w \in Writers : TRUE) \in Writers
  BY Zenon
<1>2. WritersTypeOK
  <2>1. dr \in Bytes
    BY <1>1 DEF Bytes
  <2>2. wire \in Seq(Bytes)
    OBVIOUS
  <2>3. step \in [Writers -> {"out", "check", "store", "drain", "unlock"}]
    OBVIOUS
  <2>4. index \in [Writers -> 1..Length] /\ written \in [Writers -> 0..Messages]
    OBVIOUS
  <2>5. QED
    BY <2>1, <2>2, <2>3, <2>4 DEF WritersTypeOK
<1>3. Len(wire) = 0 /\ Stored = 0 /\ Progress = 0
  <2>1. Len(wire) = 0 /\ Stored = 0
    BY DEF Stored
  <2>2. QED
    BY <2>1 DEF Progress
<1>4. MutualExclusion
  BY DEF MutualExclusion
<1>5. LineState /\ WriterState /\ Quiet
  BY <1>3 DEF LineState, WriterState, Quiet
<1>6. QED
  BY <1>2, <1>4, <1>5 DEF WritersInv

\* What depends only on the line and on DR is kept when neither changes.
LEMMA LineUnchanged ==
  ASSUME UNCHANGED <<txe, dr, wire>>
  PROVE  Stored' = Stored /\ Progress' = Progress /\ (LineState => LineState')
BY DEF Stored, Progress, LineState

LEMMA LockStep ==
  ASSUME WritersInv, NEW w \in Writers, Lock(w)
  PROVE  WritersInv'
<1> USE DEF Lock, StepTo
<1>1. Length \in Nat \ {0}
  BY WritersAssumption
<1>2. \A v \in Writers : step[v] = "out"
  BY DEF WritersInv, MutualExclusion
<1>3. txe /\ Progress = 0
  BY <1>2 DEF WritersInv, Quiet
<1>4. WritersTypeOK'
  BY <1>1 DEF WritersInv, WritersTypeOK
<1>5. step' = [step EXCEPT ![w] = "check"] /\ index' = [index EXCEPT ![w] = 1]
  OBVIOUS
<1>6. step'[w] = "check" /\ \A v \in Writers \ {w} : step'[v] = "out"
  BY <1>2, <1>5 DEF WritersInv, WritersTypeOK
<1>7. MutualExclusion'
  BY <1>6 DEF MutualExclusion
<1>8. Progress' = 0 /\ LineState'
  BY <1>3, LineUnchanged DEF WritersInv
<1>9. WriterState'
  BY <1>5, <1>6, <1>8 DEF WritersInv, WriterState, WritersTypeOK
<1>10. Quiet'
  BY <1>6 DEF Quiet
<1>11. QED
  BY <1>4, <1>7, <1>8, <1>9, <1>10 DEF WritersInv

\* CheckReady and Drain only move the task on, when TXE is set.
LEMMA ReadyStep ==
  ASSUME WritersInv, NEW w \in Writers, CheckReady(w) \/ Drain(w)
  PROVE  WritersInv'
<1> USE DEF CheckReady, Drain, StepTo
<1>1. WritersTypeOK'
  BY DEF WritersInv, WritersTypeOK
<1>2. /\ step[w] # "out" /\ step'[w] # "out" /\ txe
      /\ \A v \in Writers \ {w} : step'[v] = step[v]
      /\ UNCHANGED <<uart_lock, txe, dr, wire, index>>
  BY DEF WritersInv, WritersTypeOK
<1>3. MutualExclusion'
  BY <1>2 DEF WritersInv, MutualExclusion
<1>4. Progress' = Progress /\ LineState'
  BY <1>2, LineUnchanged DEF WritersInv
<1>5. /\ step[w] = "check" => step'[w] = "store"
      /\ step[w] # "check" => step[w] = "drain" /\ step'[w] = "unlock"
  BY DEF WritersInv, WritersTypeOK
<1>6. WriterState'
  BY <1>2, <1>4, <1>5 DEF WritersInv, WriterState
<1>7. Quiet'
  BY <1>2 DEF Quiet
<1>8. QED
  BY <1>1, <1>3, <1>4, <1>6, <1>7 DEF WritersInv

LEMMA StoreStep ==
  ASSUME WritersInv, NEW w \in Writers, Store(w)
  PROVE  WritersInv'
<1> USE DEF Store
<1>1. index[w] = Progress + 1 /\ (index[w] > 1 => dr = <<w, index[w] - 1>>) /\ txe
  BY DEF WritersInv, WriterState
<1>2. /\ Length \in Nat \ {0} /\ Len(wire) \in Nat
      /\ Progress \in 0..(Length - 1) /\ Progress = Len(wire) % Length
      /\ Stored = Len(wire)
      /\ (Stored + 1) % Length = IF index[w] = Length THEN 0 ELSE index[w]
  BY <1>1, Numbers DEF WritersInv
<1>3. index[w] \in 1..Length
  BY DEF WritersInv, WritersTypeOK
<1>4. WritersTypeOK'
  <2>1. dr' \in Bytes
    BY <1>3 DEF Bytes
  <2>2. index' \in [Writers -> 1..Length]
    <3>1. CASE index[w] < Length
      <4>1. index' = [index EXCEPT ![w] = index[w] + 1] /\ index[w] + 1 \in 1..Length
        BY <1>2, <1>3, <3>1
      <4>2. QED
        BY <4>1 DEF WritersInv, WritersTypeOK
    <3>2. CASE ~(index[w] < Length)
      BY <3>2 DEF WritersInv, WritersTypeOK
    <3>3. QED
      BY <3>1, <3>2
  <2>3. step' \in [Writers -> {"out", "check", "store", "drain", "unlock"}]
    BY DEF WritersInv, WritersTypeOK
  <2>4. QED
    BY <2>1, <2>2, <2>3 DEF WritersInv, WritersTypeOK
<1>5. /\ step[w] # "out" /\ step'[w] # "out" /\ txe' = FALSE
      /\ \A v \in Writers \ {w} : step'[v] = step[v] /\ index'[v] = index[v]
      /\ UNCHANGED <<uart_lock, wire>>
  BY DEF WritersInv, WritersTypeOK
<1>6. \A v \in Writers \ {w} : step'[v] = "out"
  BY <1>5 DEF WritersInv, MutualExclusion
<1>7. MutualExclusion'
  BY <1>5 DEF WritersInv, MutualExclusion
<1>8. Stored' = Stored + 1 /\ Progress' = IF index[w] = Length THEN 0 ELSE index[w]
  <2>1. Stored' = Stored + 1
    BY <1>2, <1>5 DEF Stored
  <2>2. QED
    BY <1>2, <2>1 DEF Progress
<1>9. LineState'
  <2>1. dr'[1] = w /\ dr'[2] = index[w] /\ wire' = wire /\ ~txe'
    OBVIOUS
  <2>2. index[w] > 1 => wire[Len(wire)][1] = w
    <3>1. SUFFICES ASSUME index[w] > 1 PROVE wire[Len(wire)][1] = w
      OBVIOUS
    <3>2. Len(wire) > 0
      <4>1. CASE Len(wire) = 0
        BY <1>1, <1>2, <3>1, <4>1
      <4>2. QED
        BY <1>2, <4>1
    <3>3. wire[Len(wire)] = dr
      BY <1>1, <3>2 DEF WritersInv, LineState
    <3>4. QED
      BY <1>1, <3>1, <3>3
  <2>3. dr'[2] = (Len(wire') % Length) + 1
    BY <1>1, <1>2, <2>1
  <2>4. QED
    BY <2>1, <2>2, <2>3 DEF WritersInv, LineState
<1>10. WriterState'
  <2>1. written'[w] < Messages
    BY DEF WritersInv, WriterState
  <2>2. CASE index[w] < Length
    <3>1. step'[w] = "check" /\ index'[w] = index[w] + 1 /\ dr' = <<w, index[w]>>
      BY <2>2 DEF WritersInv, WritersTypeOK
    <3>2. index'[w] = Progress' + 1
      BY <1>3, <1>8, <2>2, <3>1
    <3>3. index'[w] - 1 = index[w]
      BY <1>3, <3>1
    <3>4. QED
      BY <1>6, <2>1, <3>1, <3>2, <3>3 DEF WriterState
  <2>3. CASE index[w] = Length
    <3>1. step'[w] = "drain"
      BY <1>2, <2>3 DEF WritersInv, WritersTypeOK
    <3>2. QED
      BY <1>6, <1>8, <2>1, <2>3, <3>1 DEF WriterState
  <2>4. QED
    BY <1>2, <1>3, <2>2, <2>3
<1>11. Quiet'
  BY <1>5 DEF Quiet
<1>12. QED
  BY <1>4, <1>7, <1>9, <1>10, <1>11 DEF WritersInv

LEMMA UnlockStep ==
  ASSUME WritersInv, NEW w \in Writers, Unlock(w)
  PROVE  WritersInv'
<1> USE DEF Unlock, StepTo
<1>1. WritersTypeOK'
  <2>1. written[w] \in 0..Messages /\ written[w] < Messages
    BY DEF WritersInv, WriterState, WritersTypeOK
  <2>2. written[w] + 1 \in 0..Messages
    BY <2>1, WritersAssumption
  <2>3. written' \in [Writers -> 0..Messages]
    BY <2>2 DEF WritersInv, WritersTypeOK
  <2>4. QED
    BY <2>3 DEF WritersInv, WritersTypeOK
<1>2. \A v \in Writers : step'[v] = "out"
  BY DEF WritersInv, WritersTypeOK, MutualExclusion
<1>3. MutualExclusion'
  BY <1>2 DEF MutualExclusion
<1>4. Progress' = Progress /\ LineState'
  BY LineUnchanged DEF WritersInv
<1>5. txe' /\ Progress = 0
  BY DEF WritersInv, WriterState
<1>6. QED
  BY <1>1, <1>2, <1>3, <1>4, <1>5 DEF WritersInv, WriterState, Quiet

LEMMA ShiftStep ==
  ASSUME WritersInv, Shift
  PROVE  WritersInv'
<1> USE DEF Shift
<1>1. wire \in Seq(Bytes) /\ dr \in Bytes /\ Len(wire) \in Nat
  BY LenProperties DEF WritersInv, WritersTypeOK
<1>2. /\ wire' \in Seq(Bytes)
      /\ Len(wire') = Len(wire) + 1
      /\ \A k \in 1..Len(wire) : wire'[k] = wire[k]
      /\ wire'[Len(wire')] = dr
  BY <1>1, AppendProperties
<1>3. WritersTypeOK'
  BY <1>2 DEF WritersInv, WritersTypeOK
<1>4. Stored' = Stored /\ Progress' = Progress
  <2>1. Stored' = Stored
    BY <1>1, <1>2 DEF Stored
  <2>2. QED
    BY <2>1 DEF Progress
<1>5. LineState'
  <2>1. SUFFICES ASSUME NEW k \in 1..Len(wire')
                 PROVE  /\ wire'[k][2] = ((k - 1) % Length) + 1
                        /\ wire'[k][2] > 1 => wire'[k - 1][1] = wire'[k][1]
    BY <1>2 DEF LineState
  <2>2. CASE k \in 1..Len(wire)
    <3>1. wire[k][2] = ((k - 1) % Length) + 1
          /\ (wire[k][2] > 1 => wire[k - 1][1] = wire[k][1])
      BY <2>2 DEF WritersInv, LineState
    <3>2. k = 1 => wire[k][2] = 1
      BY <3>1, WritersAssumption
    <3>3. wire[k][2] > 1 => k - 1 \in 1..Len(wire)
      BY <1>1, <2>2, <3>2
    <3>4. QED
      BY <1>2, <2>2, <3>1, <3>3
  <2>3. CASE k = Len(wire) + 1
    <3>1. dr[2] = (Len(wire) % Length) + 1
          /\ (dr[2] > 1 => wire[Len(wire)][1] = dr[1])
      BY DEF WritersInv, LineState
    <3>2. Len(wire) = 0 => dr[2] = 1
      BY <3>1, WritersAssumption
    <3>3. dr[2] > 1 => Len(wire) \in 1..Len(wire)
      BY <1>1, <3>2
    <3>4. k - 1 = Len(wire) /\ wire'[k] = dr
      BY <1>1, <1>2, <2>3
    <3>5. QED
      BY <1>2, <3>1, <3>3, <3>4
  <2>4. k \in 1..Len(wire) \/ k = Len(wire) + 1
    <3>1. k \in 1..(Len(wire) + 1)
      BY <1>2
    <3>2. QED
      BY <1>1, <3>1
  <2>5. QED
    BY <2>2, <2>3, <2>4
<1>6. MutualExclusion' /\ WriterState' /\ Quiet'
  <2>1. UNCHANGED <<uart_lock, step, index, written, dr>>
    OBVIOUS
  <2>2. MutualExclusion'
    BY <2>1 DEF WritersInv, MutualExclusion
  <2>3. WriterState'
    BY <1>4, <2>1 DEF WritersInv, WriterState
  <2>4. Quiet'
    BY <1>4, <2>1 DEF WritersInv, Quiet
  <2>5. QED
    BY <2>2, <2>3, <2>4
<1>7. QED
  BY <1>3, <1>5, <1>6 DEF WritersInv

LEMMA WritersUnchanged ==
  ASSUME WritersInv, UNCHANGED writerVars
  PROVE  WritersInv'
BY DEF WritersInv, WritersTypeOK, Bytes, MutualExclusion, LineState, WriterState,
       Quiet, Progress, Stored, writerVars

LEMMA WritersStep == WritersInv /\ [WritersNext]_writerVars => WritersInv'
<1>1. SUFFICES ASSUME WritersInv, [WritersNext]_writerVars PROVE WritersInv'
  OBVIOUS
<1>2. ASSUME NEW w \in Writers,
             Lock(w) \/ CheckReady(w) \/ Store(w) \/ Drain(w) \/ Unlock(w)
      PROVE  WritersInv'
  BY <1>1, <1>2, LockStep, ReadyStep, StoreStep, UnlockStep
<1>3. CASE Shift
  BY <1>1, <1>3, ShiftStep
<1>4. CASE Written \/ UNCHANGED writerVars
  BY <1>1, <1>4, WritersUnchanged DEF Written
<1>5. QED
  BY <1>1, <1>2, <1>3, <1>4 DEF WritersNext

\* On the line, every byte is the one that must follow the one before it, and
\* a message is out when the lock is free.
LEMMA WritersConsequence == WritersInv => WireIntact
<1>1. SUFFICES ASSUME WritersInv PROVE WireIntact
  OBVIOUS
<1>2. \A k \in 1..Len(wire) :
        LET i == ((k - 1) % Length) + 1 IN
        wire[k][2] = i /\ (i > 1 => wire[k - 1][1] = wire[k][1])
  BY <1>1 DEF WritersInv, LineState
<1>3. (\A w \in Writers : step[w] = "out") => Len(wire) % Length = 0
  BY <1>1, Numbers DEF WritersInv, Quiet
<1>4. QED
  BY <1>2, <1>3 DEF WireIntact

-----------------------------------------------------------------------------
(* The semaphore                                                           *)

SemaphoreInv == SemaphoreTypeOK

Inside == {u \in Users : place[u] = "in"}

LEMMA SemaphoreInitial == SemaphoreInit => SemaphoreInv
<1> SUFFICES ASSUME SemaphoreInit PROVE SemaphoreInv
  OBVIOUS
<1>1. {u \in Users : place[u] = "in"} = {}
  BY DEF SemaphoreInit
<1>2. Cardinality({}) = 0
  BY FS_EmptySet
<1>3. QED
  BY <1>1, <1>2, SemaphoreAssumption
     DEF SemaphoreInit, SemaphoreInv, SemaphoreTypeOK

\* A unit is counted where it is taken and where it is given back, and nowhere
\* else.
LEMMA SemaphoreStep == SemaphoreInv /\ [SemaphoreNext]_semaphoreVars => SemaphoreInv'
<1> SUFFICES ASSUME SemaphoreInv, [SemaphoreNext]_semaphoreVars
             PROVE  SemaphoreInv'
  OBVIOUS
<1>1. /\ count = Permits - Cardinality(Inside)
      /\ place \in [Users -> {"out", "passed", "in"}]
  BY DEF SemaphoreInv, SemaphoreTypeOK, Inside
<1>2. IsFiniteSet(Inside) /\ Cardinality(Inside) \in Nat
  BY SemaphoreAssumption, FS_Subset, FS_CardinalityType DEF Inside
<1>3. ASSUME NEW u \in Users, AcquirePass(u) PROVE SemaphoreInv'
  <2>1. Inside' = Inside /\ count' = count
    BY <1>1, <1>3 DEF AcquirePass, Move, Inside
  <2>2. place' \in [Users -> {"out", "passed", "in"}]
    BY <1>1, <1>3 DEF AcquirePass, Move
  <2>3. QED
    BY <1>1, <2>1, <2>2 DEF SemaphoreInv, SemaphoreTypeOK, Inside
<1>4. ASSUME NEW u \in Users, AcquireTake(u) PROVE SemaphoreInv'
  <2>1. Inside' = Inside \cup {u} /\ u \notin Inside
    BY <1>1, <1>4 DEF AcquireTake, Move, Inside
  <2>2. Cardinality(Inside') = Cardinality(Inside) + 1
    BY <1>2, <2>1, FS_AddElement
  <2>3. count' = Permits - Cardinality(Inside')
    BY <1>1, <1>2, <1>4, <2>2, SemaphoreAssumption DEF AcquireTake
  <2>4. place' \in [Users -> {"out", "passed", "in"}]
    BY <1>1, <1>4 DEF AcquireTake, Move
  <2>5. QED
    BY <2>3, <2>4 DEF SemaphoreInv, SemaphoreTypeOK, Inside
<1>5. ASSUME NEW u \in Users, GiveBack(u) PROVE SemaphoreInv'
  <2>1. Inside' = Inside \ {u} /\ u \in Inside
    BY <1>1, <1>5 DEF GiveBack, Move, Inside
  <2>2. Cardinality(Inside') = Cardinality(Inside) - 1
    BY <1>2, <2>1, FS_RemoveElement
  <2>3. count' = Permits - Cardinality(Inside')
    BY <1>1, <1>2, <1>5, <2>2, SemaphoreAssumption DEF GiveBack
  <2>4. place' \in [Users -> {"out", "passed", "in"}]
    BY <1>1, <1>5 DEF GiveBack, Move
  <2>5. QED
    BY <2>3, <2>4 DEF SemaphoreInv, SemaphoreTypeOK, Inside
<1>6. CASE UNCHANGED semaphoreVars
  BY <1>6 DEF semaphoreVars, SemaphoreInv, SemaphoreTypeOK
<1>7. QED
  BY <1>3, <1>4, <1>5, <1>6 DEF SemaphoreNext

-----------------------------------------------------------------------------
(* The message queue                                                       *)

(* The inductive invariant                                                 *)

Queued == Range(queue)
OnItsWay == Queued \cup item

\* Between claiming the flag and pushing the buffer only its producer has it.
Holding == {"push", "full"}

\* Between formatting a message and pushing it the text is one ahead.
Ahead == {"claim", "push", "full"}

\* The consumer has one buffer from the pop to the release of its flag.
ConsumerState ==
  /\ consumer \in {"popped", "write", "clear"} => \E p \in Producers : item = {p}
  /\ consumer \in {"pop", "none"} => item = {}

\* The flag says that the buffer is with its producer or on its way, and it is
\* never both.
FlagState ==
  \A p \in Producers :
    /\ busy[p] <=> p \in OnItsWay \/ doing[p] \in Holding
    /\ doing[p] \in Holding => p \notin OnItsWay

\* What a producer has formatted and not pushed is one message.
TextState ==
  \A p \in Producers : text[p] = IF doing[p] \in Ahead THEN sent[p] + 1 ELSE sent[p]

QueueState == IsInjective(queue) /\ item \cap Queued = {}

MqInv ==
  /\ MqTypeOK
  /\ ConsumerState
  /\ FlagState
  /\ TextState
  /\ QueueState

-----------------------------------------------------------------------------
(* Sequences without duplicates                                            *)

\* What a push at the tail does to the members of the queue.
LEMMA AppendRange ==
  ASSUME NEW q \in Seq(Producers), NEW p \in Producers
  PROVE  /\ Append(q, p) \in Seq(Producers)
         /\ Range(Append(q, p)) = Range(q) \cup {p}
         /\ IsInjective(q) /\ p \notin Range(q) => IsInjective(Append(q, p))
<1>1. /\ Append(q, p) \in Seq(Producers)
      /\ Len(Append(q, p)) = Len(q) + 1
      /\ \A i \in 1..Len(q) : Append(q, p)[i] = q[i]
      /\ Append(q, p)[Len(q) + 1] = p
  BY AppendProperties
<1>2. Len(q) \in Nat /\ DOMAIN q = 1..Len(q)
      /\ DOMAIN Append(q, p) = 1..(Len(q) + 1)
  BY <1>1, LenProperties
<1>3. Range(Append(q, p)) = Range(q) \cup {p}
  <2>1. ASSUME NEW x
        PROVE  x \in Range(Append(q, p)) <=> x \in Range(q) \/ x = p
    BY <1>1, <1>2 DEF Range
  <2>2. QED
    BY <2>1
<1>4. IsInjective(q) /\ p \notin Range(q) => IsInjective(Append(q, p))
  BY <1>1, <1>2 DEF IsInjective, Range
<1>5. QED
  BY <1>1, <1>3, <1>4

\* What a pop at the head does to the members of the queue.
LEMMA TailRange ==
  ASSUME NEW q \in Seq(Producers), q # << >>, IsInjective(q)
  PROVE  /\ Head(q) \in Producers
         /\ Tail(q) \in Seq(Producers)
         /\ Head(q) \in Range(q)
         /\ Range(Tail(q)) = Range(q) \ {Head(q)}
         /\ IsInjective(Tail(q))
<1>1. /\ Head(q) \in Producers
      /\ Tail(q) \in Seq(Producers)
      /\ Len(Tail(q)) = Len(q) - 1
      /\ \A i \in 1..Len(Tail(q)) : Tail(q)[i] = q[i + 1]
  BY HeadTailProperties
<1>2. /\ Len(q) \in Nat /\ Len(q) > 0
      /\ DOMAIN q = 1..Len(q)
      /\ DOMAIN Tail(q) = 1..(Len(q) - 1)
  BY <1>1, LenProperties, EmptySeq
<1>3. Head(q) = q[1]
  BY <1>2
<1>4. Head(q) \in Range(q)
  BY <1>2, <1>3 DEF Range
<1>5. ASSUME NEW x \in Range(Tail(q))
      PROVE  x \in Range(q) /\ x # Head(q)
  <2>1. PICK i \in 1..(Len(q) - 1) : Tail(q)[i] = x
    BY <1>2 DEF Range
  <2>2. i + 1 \in 1..Len(q) /\ q[i + 1] = x /\ i + 1 # 1
    BY <2>1, <1>1, <1>2
  <2>3. QED
    BY <2>2, <1>2, <1>3 DEF Range, IsInjective
<1>6. ASSUME NEW x \in Range(q), x # Head(q)
      PROVE  x \in Range(Tail(q))
  <2>1. PICK i \in 1..Len(q) : q[i] = x
    BY <1>2 DEF Range
  <2>2. i # 1
    BY <2>1, <1>6, <1>3
  <2>3. i - 1 \in 1..Len(Tail(q)) /\ Tail(q)[i - 1] = x
    BY <2>1, <2>2, <1>1, <1>2
  <2>4. QED
    BY <2>3, <1>1, <1>2 DEF Range
<1>7. Range(Tail(q)) = Range(q) \ {Head(q)}
  BY <1>5, <1>6
<1>8. IsInjective(Tail(q))
  BY <1>1, <1>2 DEF IsInjective
<1>9. QED
  BY <1>1, <1>4, <1>7, <1>8

\* The queue's members are producers.
LEMMA QueueMembers ==
  ASSUME NEW q \in Seq(Producers)
  PROVE  Range(q) \subseteq Producers
<1>1. \A i \in 1..Len(q) : q[i] \in Producers
  BY ElementOfSeq
<1>2. QED
  BY <1>1, LenProperties DEF Range

-----------------------------------------------------------------------------
(* The initial state and the steps                                         *)

LEMMA MqInitial == MqInit => MqInv
<1>1. SUFFICES ASSUME MqInit PROVE MqInv
  OBVIOUS
<1>2. /\ << >> \in Seq(Producers) /\ DOMAIN << >> = {}
      /\ Range(<< >>) = {} /\ IsInjective(<< >>)
  <2>1. << >> \in Seq(Producers) /\ Len(<< >>) = 0
    BY EmptySeq
  <2>2. DOMAIN << >> = {}
    BY <2>1, LenProperties
  <2>3. QED
    BY <2>1, <2>2 DEF Range, IsInjective
<1>3. MqTypeOK
  <2>1. queue \in Seq(Producers) /\ 0 \in 0..Rounds
    BY <1>1, <1>2, QueueAssumption DEF MqInit
  <2>2. QED
    BY <1>1, <2>1 DEF MqInit, MqTypeOK
<1>4. Queued = {} /\ OnItsWay = {} /\ QueueState
  BY <1>1, <1>2 DEF MqInit, QueueState, OnItsWay, Queued
<1>5. ConsumerState /\ TextState
  BY <1>1 DEF MqInit, ConsumerState, TextState, Ahead
<1>6. FlagState
  BY <1>1, <1>4 DEF MqInit, FlagState, Holding
<1>7. QED
  BY <1>3, <1>4, <1>5, <1>6 DEF MqInv

\* What a producer does to its own buffer before it pushes it.
LEMMA ProducerStep ==
  ASSUME MqInv, NEW p \in Producers, Format(p) \/ Claim(p) \/ PushUnlock(p)
  PROVE  MqInv'
<1>1. MqTypeOK'
  <2>1. CASE Format(p)
    <3>1. text[p] + 1 \in 0..Rounds
      BY <2>1, QueueAssumption DEF MqInv, MqTypeOK, Format
    <3>2. QED
      BY <2>1, <3>1 DEF MqInv, MqTypeOK, Format, Do
  <2>2. CASE Claim(p)
    BY <2>2 DEF MqInv, MqTypeOK, Claim, Do
  <2>3. CASE PushUnlock(p)
    BY <2>3 DEF MqInv, MqTypeOK, PushUnlock, Do, Give
  <2>4. QED
    BY <2>1, <2>2, <2>3
<1>2. Queued' = Queued /\ OnItsWay' = OnItsWay
  BY DEF Format, Claim, PushUnlock, OnItsWay, Queued
<1>3. ConsumerState' /\ QueueState'
  BY <1>2 DEF MqInv, Format, Claim, PushUnlock, ConsumerState, QueueState, OnItsWay
<1>4. FlagState'
  BY <1>2 DEF MqInv, MqTypeOK, Format, Claim, PushUnlock, Do, Give, FlagState, Holding
<1>5. TextState'
  BY DEF MqInv, MqTypeOK, Format, Claim, PushUnlock, Do, Give, TextState, Ahead
<1>6. QED
  BY <1>1, <1>3, <1>4, <1>5 DEF MqInv

\* The buffer goes into the queue, or is kept because the queue is full.
LEMMA PushStep ==
  ASSUME MqInv, NEW p \in Producers, TryPush(p)
  PROVE  MqInv'
<1>1. CASE Len(queue) < Capacity
  <2>1. /\ doing[p] = "push" /\ lock_' = TRUE
        /\ queue' = Append(queue, p)
        /\ sent' = [sent EXCEPT ![p] = text[p]]
        /\ doing' = [doing EXCEPT ![p] = "pushed"]
        /\ UNCHANGED <<busy, text, consumer, item>>
    BY <1>1 DEF TryPush, Take
  <2>2. p \notin Queued /\ p \notin item /\ busy[p]
    BY <2>1 DEF MqInv, FlagState, OnItsWay, Holding
  <2>3. queue' \in Seq(Producers) /\ Queued' = Queued \cup {p} /\ IsInjective(queue')
    BY <2>1, <2>2, AppendRange DEF MqInv, MqTypeOK, Queued, QueueState
  <2>4. MqTypeOK'
    BY <2>1, <2>3 DEF MqInv, MqTypeOK
  <2>5. ConsumerState'
    BY <2>1 DEF MqInv, ConsumerState
  <2>6. QueueState'
    BY <2>1, <2>2, <2>3 DEF MqInv, QueueState
  <2>7. FlagState'
    BY <2>1, <2>2, <2>3 DEF MqInv, MqTypeOK, FlagState, OnItsWay, Holding
  <2>8. TextState'
    BY <2>1 DEF MqInv, MqTypeOK, TextState, Ahead
  <2>9. QED
    BY <2>4, <2>5, <2>6, <2>7, <2>8 DEF MqInv
<1>2. CASE ~(Len(queue) < Capacity)
  <2>1. /\ doing[p] = "push" /\ lock_' = TRUE
        /\ doing' = [doing EXCEPT ![p] = "full"]
        /\ UNCHANGED <<queue, sent, busy, text, consumer, item>>
    BY <1>2 DEF TryPush, Take
  <2>2. Queued' = Queued /\ OnItsWay' = OnItsWay
    BY <2>1 DEF OnItsWay, Queued
  <2>3. MqTypeOK' /\ ConsumerState'
    BY <2>1 DEF MqInv, MqTypeOK, ConsumerState
  <2>4. QueueState' /\ FlagState' /\ TextState'
    BY <2>1, <2>2 DEF MqInv, MqTypeOK, QueueState, FlagState, TextState, Holding, Ahead
  <2>5. QED
    BY <2>3, <2>4 DEF MqInv
<1>3. QED
  BY <1>1, <1>2

\* The consumer takes the oldest buffer, if there is one.
LEMMA PopStep ==
  ASSUME MqInv, TryPop
  PROVE  MqInv'
<1>1. CASE queue = << >>
  <2>1. lock_' = TRUE /\ consumer = "pop" /\ consumer' = "none"
        /\ UNCHANGED <<queue, item, busy, text, sent, doing>>
    BY <1>1 DEF TryPop, Take, Then
  <2>2. Queued' = Queued /\ OnItsWay' = OnItsWay
    BY <2>1 DEF OnItsWay, Queued
  <2>3. QED
    BY <2>1, <2>2
       DEF MqInv, MqTypeOK, ConsumerState, FlagState, TextState, QueueState
<1>2. CASE queue # << >>
  <2>1. /\ lock_' = TRUE /\ consumer = "pop" /\ consumer' = "popped"
        /\ item' = {Head(queue)} /\ queue' = Tail(queue)
        /\ UNCHANGED <<busy, text, sent, doing>>
    BY <1>2 DEF TryPop, Take, Then
  <2>2. /\ Head(queue) \in Producers /\ Head(queue) \in Queued
        /\ queue' \in Seq(Producers)
        /\ Queued' = Queued \ {Head(queue)}
        /\ IsInjective(queue')
    BY <1>2, <2>1, TailRange DEF MqInv, MqTypeOK, QueueState, Queued
  <2>3. item = {}
    BY <2>1 DEF MqInv, ConsumerState
  <2>4. OnItsWay' = OnItsWay
    BY <2>1, <2>2, <2>3 DEF OnItsWay
  <2>5. MqTypeOK' /\ ConsumerState'
    BY <2>1, <2>2 DEF MqInv, MqTypeOK, ConsumerState
  <2>6. FlagState' /\ TextState'
    BY <2>1, <2>4 DEF MqInv, FlagState, TextState
  <2>7. QueueState'
    BY <2>1, <2>2 DEF QueueState
  <2>8. QED
    BY <2>5, <2>6, <2>7 DEF MqInv
<1>3. QED
  BY <1>1, <1>2

\* The consumer gives the lock back, writes the message out and frees the buffer.
LEMMA ConsumeStep ==
  ASSUME MqInv, PopUnlock \/ Write \/ Clear
  PROVE  MqInv'
<1>1. CASE PopUnlock \/ Write
  <2>1. /\ UNCHANGED <<queue, item, busy, text, sent, doing>>
        /\ lock_' \in BOOLEAN
        /\ \/ consumer = "popped" /\ consumer' = "write"
           \/ consumer = "none" /\ consumer' = "pop"
           \/ consumer = "write" /\ consumer' = "clear"
    BY <1>1 DEF MqInv, MqTypeOK, PopUnlock, Write, Then, Give
  <2>2. Queued' = Queued /\ OnItsWay' = OnItsWay
    BY <2>1 DEF OnItsWay, Queued
  <2>3. QED
    BY <2>1, <2>2
       DEF MqInv, MqTypeOK, ConsumerState, FlagState, TextState, QueueState
<1>2. CASE Clear
  <2>1. consumer = "clear" /\ consumer' = "pop" /\ item' = {}
        /\ UNCHANGED <<lock_, queue, text, sent, doing>>
    BY <1>2 DEF Clear, Then
  <2>2. PICK p \in Producers : item = {p}
    BY <2>1 DEF MqInv, ConsumerState
  <2>3. busy' = [busy EXCEPT ![p] = FALSE]
    BY <1>2, <2>2 DEF Clear
  <2>4. Queued' = Queued /\ p \notin Queued
    BY <2>1, <2>2 DEF MqInv, QueueState, Queued
  <2>5. MqTypeOK' /\ ConsumerState' /\ TextState'
    BY <2>1, <2>3 DEF MqInv, MqTypeOK, ConsumerState, TextState
  <2>6. QueueState'
    BY <2>1, <2>4 DEF MqInv, QueueState
  <2>7. FlagState'
    BY <2>1, <2>2, <2>3, <2>4 DEF MqInv, MqTypeOK, FlagState, OnItsWay
  <2>8. QED
    BY <2>5, <2>6, <2>7 DEF MqInv
<1>3. QED
  BY <1>1, <1>2

LEMMA MqStep == MqInv /\ [MqNext]_mqVars => MqInv'
<1>1. SUFFICES ASSUME MqInv, [MqNext]_mqVars PROVE MqInv'
  OBVIOUS
<1>2. CASE UNCHANGED mqVars
  BY <1>1, <1>2
     DEF mqVars, MqInv, MqTypeOK, ConsumerState, FlagState, TextState, QueueState,
         OnItsWay, Queued
<1>3. CASE MqNext
  BY <1>1, <1>3, ProducerStep, PushStep, PopStep, ConsumeStep DEF MqNext
<1>4. QED
  BY <1>1, <1>2, <1>3

LEMMA MqConsequence == MqInv => BufferOnItsWayOnce
<1>1. SUFFICES ASSUME MqInv PROVE BufferOnItsWayOnce
  OBVIOUS
<1>2. Range(queue) \subseteq Producers /\ item \subseteq Producers
  BY <1>1, QueueMembers DEF MqInv, MqTypeOK
<1>3. ASSUME NEW p \in Range(queue) \cup item
      PROVE  /\ busy[p]
             /\ text[p] <= sent[p] + 1
             /\ text[p] > sent[p] => doing[p] = "claim"
  <2>1. p \in Producers /\ p \in OnItsWay
    BY <1>2, <1>3 DEF OnItsWay, Queued
  <2>2. text[p] \in Nat /\ sent[p] \in Nat
    BY <1>1, <2>1, QueueAssumption DEF MqInv, MqTypeOK
  <2>3. text[p] = IF doing[p] \in Ahead THEN sent[p] + 1 ELSE sent[p]
    BY <1>1, <2>1 DEF MqInv, TextState
  <2>4. busy[p] /\ doing[p] \notin Holding
    BY <1>1, <2>1 DEF MqInv, FlagState
  <2>5. QED
    BY <2>2, <2>3, <2>4 DEF Ahead, Holding
<1>4. QED
  BY <1>1, <1>3 DEF MqInv, QueueState, Queued, BufferOnItsWayOnce

-----------------------------------------------------------------------------
(* The programs side by side                                               *)

IInv == CvInv /\ WritersInv /\ SemaphoreInv /\ MqInv

LEMMA InitialState == Init => IInv
BY CvInitial, WritersInitial, SemaphoreInitial, MqInitial DEF Init, IInv

LEMMA Induction == IInv /\ [Next]_vars => IInv'
<1> SUFFICES ASSUME IInv, [Next]_vars PROVE IInv'
  OBVIOUS
<1>1. /\ [CvNext]_cvVars /\ [WritersNext]_writerVars
      /\ [SemaphoreNext]_semaphoreVars /\ [MqNext]_mqVars
  BY DEF Next, vars
<1>2. QED
  BY <1>1, CvStep, WritersStep, SemaphoreStep, MqStep DEF IInv

-----------------------------------------------------------------------------
(* The theorems                                                            *)

\* Every variable keeps its type, for any tasks, and the semaphore's count is
\* what is left of the permits (semaphore.hpp, acquire and release).
THEOREM SyncTypeCorrect == Spec => []SyncTypeOK
<1>1. IInv => SyncTypeOK
  BY DEF IInv, CvInv, WritersInv, SemaphoreInv, MqInv, SyncTypeOK
<1>2. QED
  BY <1>1, InitialState, Induction, PTL DEF Spec

\* The exchange loops of spin_conditional_variable lose no waiter and leave no
\* link to a node that is gone, for any number of waiters and notifiers that
\* hold the lock, or one notifier that calls notify_one without it.
THEOREM NoWaiterIsLost == Spec => []WaitersSound
<1>1. IInv => WaitersSound
  BY CvConsequence DEF IInv
<1>2. QED
  BY <1>1, InitialState, Induction, PTL DEF Spec

\* spin_lock::lock and unlock (sync/spin_lock.hpp): at most one task is between
\* them, whatever the preemptions.
THEOREM Exclusion == Spec => []MutualExclusion
<1>1. IInv => MutualExclusion
  BY DEF IInv, WritersInv
<1>2. QED
  BY <1>1, InitialState, Induction, PTL DEF Spec

\* blocking_write under the lock (tests/uart_blocking_write.cpp): however the
\* tasks are preempted between the test of TXE and the store to DR, no byte is
\* lost or repeated and no message is torn.
THEOREM MessagesAreWhole == Spec => []WireIntact
<1>1. IInv => WireIntact
  BY WritersConsequence DEF IInv
<1>2. QED
  BY <1>1, InitialState, Induction, PTL DEF Spec

\* No buffer is queued twice, freed or overwritten more than once while it is on
\* its way (producer_consumer.cpp:62-70, circular_queue.hpp, try_push, try_pop).
THEOREM BuffersTravelOnce == Spec => []BufferOnItsWayOnce
<1>1. IInv => BufferOnItsWayOnce
  BY MqConsequence DEF IInv
<1>2. QED
  BY <1>1, InitialState, Induction, PTL DEF Spec

=============================================================================
