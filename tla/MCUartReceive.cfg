SPECIFICATION FairSpec
CONSTANTS
  QueueSize = 2
  SlotCount = 4
  MaxBytes = 7
  NoByte = NoByte
  Bytes = {b1, b2, b3}
  Values = {b1, b2, b3, NoByte}
INVARIANT TypeOK
PROPERTIES
  SlotIsStable
  ReaderIsServed
  ImplementsFifo
