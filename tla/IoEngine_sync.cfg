SPECIFICATION EngineSpec
CONSTANTS
  DataCount = 1
  ParityCount = 0
  WriterMax = 2
  IoMax = 3
  BlockStart = 0
  BlockMax = 4
  Enabled = {0, 2, 3}
  SignalOutside = TRUE
  MonoReaderMax = 2
INVARIANTS
  TypeOK
  CodeAsserts
  NoBufferRace
  ParityMatchesPosition
  BarrierSound
  MonoTypeOK
PROPERTIES
  ImplementsStream
  MonoImplementsStream
  EngineStops
