SPECIFICATION Spec
CHECK_DEADLOCK FALSE
CONSTANTS
  a = a
  b = b
  Ends = {a, b}
  Setups <- SetupsHere
  Overhead = 2
  Modulus = 12
  Lifetime = 3
INVARIANTS
  AckedIsReceived
  WindowsKept
PROPERTIES
  ImplementsStream
  EverythingArrives
