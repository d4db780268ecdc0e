\* A late answer, or Ctrl-C.
CONSTANTS
  Tries = 4
  MaxStalls = 1
SPECIFICATION Spec
INVARIANTS
  NeverLeftRunning
CHECK_DEADLOCK FALSE
