SPECIFICATION CoopFairSpec
CONSTANTS
  MaximumTasks = 2
  Quanta = 2
  TickModulus = 8
  MaxTick = 2
  SleepTimes = {1}
  GivenQuanta <- MCCooperative
PROPERTY IdleWakesSleepers
