SPECIFICATION FairSpec
CONSTANTS
  MaximumTasks = 2
  Quanta = 2
  TickModulus = 8
  MaxTick = 3
  SleepTimes = {0, 2}
INVARIANTS
  TypeOK
  TaskPlacement
  SleepNotShort
  RunningTaskExists
PROPERTIES
  ImplementsService
  NoStarvation
  SleepEnds
  FinishedReclaimed
