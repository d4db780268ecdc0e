SPECIFICATION Spec
CONSTANTS
  Numbers = 6
  NBUF = 2
  RxNr = 4
  CounterMod = 8
  EP0_MPS = 2
  DataSize = 3
  MaxLength = 4
INVARIANT TransferIsExact
PROPERTY ImplementsPipe NeverWedged
CHECK_DEADLOCK FALSE
