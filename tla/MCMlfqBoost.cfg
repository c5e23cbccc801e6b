\* The multilevel feedback queue alone: does a boost bring a task forward?
SPECIFICATION Spec
CONSTANTS
  Kinds = {"mlfq"}
  MaximumTasks = 2
  Quanta = 1
  TickModulus = 8
  MaxTick = 2
  SleepTimes = {1}
  Priorities = {0}
  Thresholds = {1}
  Deadlines = {0}
  Slices <- MCSlices
  BoostQuanta = {1}
  GlobalBoost = 2
  MaximumTickets = 4
  Settings <- MCSettings
INVARIANT BoostedIsServedFirst
