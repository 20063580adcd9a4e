SPECIFICATION Spec
CONSTANTS
  U32Max = 2
  U64Max = 5
INVARIANTS AssertionsHold
