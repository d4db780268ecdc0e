SPECIFICATION MCSpec
CONSTANTS
  Streams <- MCStreams
  MinPulse = 2
  MaxPulse = 8
  DmaSize = 4
  U_BUF_SZ = 8
  Mps = 3
  Low = 4
  MaxBytes = 7
  Units = {0, 1, 2}
  Kinds <- MCKinds
  MaxCyl = 1
  MaxAsked = 2
  Beyond = 2
  W = 5
  K = 3
  Slack = 1
  Fine = 4
  Coarse = 2
  Early = 1
  IndexPeriod = 5
  Mask = 2
  Ops = {"write", "seek"}
  Asks <- MCAsks
  MaxLate = 1
  MaxSince = 3
INVARIANT StreamIsWritten NothingLeftToRun DrivesAreKnown TimeIsTold
PROPERTY StreamEnds
