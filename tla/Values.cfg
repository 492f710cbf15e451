SPECIFICATION Spec
CONSTANTS
  ByteBits = 2
  IndexStep = 7
  ScaleBits = 8
  Largest = 1073741824
  Format <- MCFormat
  Programs <- MCPrograms
  Samples <- MCSamples
  Areas <- MCAreas
CHECK_DEADLOCK FALSE
INVARIANTS
  OperandsAgree
  IntegersExact
  ConversionsExact
  FloatsExact
  LanesExact
  MemoryExact
