-------------------------- MODULE Synchronization --------------------------
(***************************************************************************)
(* The programs that use the synchronisation primitives, side by side.  A  *)
(* behaviour is one of them: they share no state.                          *)
(***************************************************************************)
EXTENDS ConditionVariable, LockedTasks, MessageQueue

VARIABLE program   \* which of them

vars == <<program, cvVars, writerVars, semaphoreVars, mqVars>>

Init ==
  /\ program \in {"condition", "writers", "semaphore", "queue"}
  /\ CvInit /\ WritersInit /\ SemaphoreInit /\ MqInit

Next ==
  /\ UNCHANGED program
  /\ \/ /\ program = "condition"
        /\ CvNext
        /\ UNCHANGED <<writerVars, semaphoreVars, mqVars>>
     \/ /\ program = "writers"
        /\ WritersNext
        /\ UNCHANGED <<cvVars, semaphoreVars, mqVars>>
     \/ /\ program = "semaphore"
        /\ SemaphoreNext
        /\ UNCHANGED <<cvVars, writerVars, mqVars>>
     \/ /\ program = "queue"
        /\ MqNext
        /\ UNCHANGED <<cvVars, writerVars, semaphoreVars>>

Spec == Init /\ [][Next]_vars

\* Every variable has its type, and the semaphore's count is what is left of
\* the permits.
SyncTypeOK == CvTypeOK /\ WritersTypeOK /\ SemaphoreTypeOK /\ MqTypeOK

=============================================================================
