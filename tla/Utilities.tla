------------------------------ MODULE Utilities -----------------------------
(***************************************************************************)
(* The data structures and algorithms beneath the kernel, side by side.  A *)
(* behaviour is about one of them: they share no state.                    *)
(***************************************************************************)
EXTENDS StaticVector, RingClient, Storages, RandomSources, ModuleLoader, ImageCheck

VARIABLE unit   \* which of them

vars == <<unit, vectorVars, ringVars, storageVars, randomVars, loaderVars, checkVars>>

Init ==
  /\ unit \in {"vector", "ring", "config", "statistic", "pool", "random", "loader", "check"}
  /\ VectorInit /\ RingInit /\ StorageInit /\ LoaderInit /\ CheckInit
  /\ IF unit = "random" THEN RandomInit
     ELSE /\ source = "lfsr"
          /\ state = Seeded(source, ZeroWord)
          /\ before = state
          /\ draws = 0

Next ==
  /\ UNCHANGED unit
  /\ \/ /\ unit = "vector"
        /\ VectorNext
        /\ UNCHANGED <<ringVars, storageVars, randomVars, loaderVars, checkVars>>
     \/ /\ unit = "ring"
        /\ RingNext
        /\ UNCHANGED <<vectorVars, storageVars, randomVars, loaderVars, checkVars>>
     \/ /\ \/ unit = "config" /\ ConfigNext
           \/ unit = "statistic" /\ StatisticNext
           \/ unit = "pool" /\ PoolNext
        /\ UNCHANGED <<vectorVars, ringVars, randomVars, loaderVars, checkVars>>
     \/ /\ unit = "random"
        /\ RandomNext
        /\ UNCHANGED <<vectorVars, ringVars, storageVars, loaderVars, checkVars>>
     \/ /\ unit = "loader"
        /\ LoaderNext
        /\ UNCHANGED <<vectorVars, ringVars, storageVars, randomVars, checkVars>>
     \/ /\ unit = "check"
        /\ CheckNext
        /\ UNCHANGED <<vectorVars, ringVars, storageVars, randomVars, loaderVars>>

Spec == Init /\ [][Next]_vars

VectorIsSequence == INSTANCE BoundedSequence
  WITH Values <- Objects, Capacity <- MaximumElements,
       items <- VectorItems, call <- vcall

RingIsSequence == INSTANCE BoundedSequence
  WITH Capacity <- SlotCount - 1, items <- Elements, call <- dcall

\* Through any sequence of calls the vector and the deque are the sequence of
\* values that the calls describe, answer as it does, refuse exactly what does
\* not fit, and never construct, destroy or read an object twice.
ContainersAreSequences ==
  VectorIsSequence!SequenceSpec /\ RingIsSequence!SequenceSpec

\* What the loader and its checks promise together.
ModulesAreSound == LoadedIsLinked /\ DamageIsNoticed

=============================================================================
