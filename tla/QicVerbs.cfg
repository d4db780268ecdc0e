SPECIFICATION Spec
CONSTANTS
  ByteBits = 1
  MaxBits = 2
  Nibble = 2
  MaxArg = 5
  MaxValue = 8
  Tries = 4
  MaxEdges = 1
  MaxFaults = 1
INVARIANTS
  AnswersAreTrue
  CommandsArrive
  LateOnceIsFound
CHECK_DEADLOCK FALSE
