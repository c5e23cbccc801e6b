\* Every scheduler: two tasks, a quantum of one tick, ticks up to 2.
SPECIFICATION Spec
CONSTANTS
  Kinds <- MCKinds
  MaximumTasks = 2
  Quanta = 1
  TickModulus = 8
  MaxTick = 2
  SleepTimes = {1}
  Priorities = {0, 2}
  Thresholds = {0, 2}
  Deadlines = {0, 2}
  Slices <- MCSlices
  BoostQuanta = {1}
  GlobalBoost = 2
  MaximumTickets = 4
  Settings <- MCSettings
INVARIANTS
  SchedulersTypeOK
  Placement
  SleepNotShort
  NotOvertaken
  TicketsAddUp
PROPERTIES
  DispatchesFirst
  ImplementsService
