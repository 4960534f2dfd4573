SPECIFICATION EngineSpec
CONSTANTS
  DataCount = 1
  ParityCount = 1
  WriterMax = 0
  IoMax = 3
  BlockStart = 0
  BlockMax = 4
  Enabled = {0, 2, 3}
  SignalOutside = FALSE
  MonoReaderMax = 2
INVARIANTS
  ReadDelivered
PROPERTIES
  MonoImplementsStream
  EngineStops
