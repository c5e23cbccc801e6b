SPECIFICATION Spec
CONSTANTS
  HeapEnd = 216
  ListEnd = 72
  MaximumMemory = 128
  FollowDamage = FALSE
  Requests = {0, 8, 32}
INVARIANT BucketsLeadToFree
