SPECIFICATION Spec
CONSTANTS
  HeapEnd = 128
  ListEnd = 72
  MaximumMemory = 128
  FollowDamage = FALSE
  Requests = {0, 8, 32}
INVARIANTS
  MemoryTypeOK
  BlocksTile
  BlocksInUse
  FreeListsSound
  Coalesced
  FullRecovery
PROPERTIES
  ImplementsHeap
  RefusesOnlyIfFull
