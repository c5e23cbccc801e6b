SPECIFICATION CoopFairSpec
CONSTANTS
  MaximumTasks = 2
  Quanta = 1
  TickModulus = 8
  MaxTick = 2
  SleepTimes = {1}
  GivenQuanta <- MCGiven
INVARIANTS
  CoopTypeOK
  DataOwned
  QuantumInForce
PROPERTIES
  ImplementsService
  SleepEndsOrCooperative
