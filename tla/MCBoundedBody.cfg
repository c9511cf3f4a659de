CONSTANTS
  Bodies <- AllBodies
  MaxPlain = 6
  MaxCompressed = 4
  MaxWire = 5
  MaxDecoded = 5
  MaxDepth = 2
SPECIFICATION BodySpec
INVARIANTS VerdictIgnoresCuts MemoryBounded
CHECK_DEADLOCK FALSE
