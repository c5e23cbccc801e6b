SPECIFICATION Spec
CONSTANTS
  HeapEnd = 128
  ListEnd = 72
  MaximumMemory = 128
  FollowDamage = TRUE
  Requests = {0, 8, 32}
INVARIANT BlocksInUseStay
