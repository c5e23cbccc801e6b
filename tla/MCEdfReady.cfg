\* Earliest deadline first alone: is a sleeper chosen over a ready task?
SPECIFICATION Spec
CONSTANTS
  Kinds = {"edf"}
  MaximumTasks = 2
  Quanta = 1
  TickModulus = 8
  MaxTick = 2
  SleepTimes = {1}
  Priorities = {0}
  Thresholds = {1}
  Deadlines = {0, 2}
  Slices <- MCSlices
  BoostQuanta = {1}
  GlobalBoost = 2
  MaximumTickets = 4
  Settings <- MCSettings
INVARIANT SelectsReady
