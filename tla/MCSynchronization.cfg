\* The programs that use the synchronisation primitives.
SPECIFICATION Spec
CONSTANTS
  w1 = w1
  w2 = w2
  w3 = w3
  n1 = n1
  n2 = n2
  Null = null
  Waiters <- MCWaiters
  Notifiers <- MCNotifiers
  Writers = {1, 2}
  Length = 2
  Messages = 2
  Users = {1, 2, 3}
  Permits = 1
  Producers = {1, 2, 3}
  QueueSize = 1
  Rounds = 3
INVARIANTS
  SyncTypeOK
  WaitersSound
  WireIntact
  BufferOnItsWayOnce
