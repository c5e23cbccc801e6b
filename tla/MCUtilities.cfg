SPECIFICATION Spec
CONSTANTS
  a = a
  b = b
  zero = zero
  NoValue = NoValue
  Dead = Dead
  Torn = Torn
  NoSetting = NoSetting
  Zero = zero
  Objects <- MCObjects
  Values <- MCObjects
  Settings <- MCSettings
  MaximumElements = 3
  AssignMost = 2
  SlotCount = 4
  BitsCount = 3
  DataBits = 2
  StatisticElements = 2
  ObjectSize = 8
  DrawsMax = 4
  Bundle <- MCBundle
  LoadAddress <- MCLoadAddress
  RoomSize = 12
  Body <- MCBody
  SignatureByte <- MCSignatureByte
  StoredCrc <- MCStoredCrc
INVARIANTS
  StorageRemembers
  SourcesReversible
  ModulesAreSound
PROPERTIES
  ContainersAreSequences
CHECK_DEADLOCK FALSE
