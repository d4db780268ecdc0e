\* Three serpentine tracks of three segments, two missed, two troubles; a packet
\* of filler takes four units of time, a silent read five.
CONSTANTS
  Tracks <- MCThree
  Segments = 3
  Cues = 4
  MaxMissed = 2
  MaxTrouble = 2
  LongGap = 2
  Packet = 2
  Silence = 5
SPECIFICATION FairSpec
INVARIANTS
  NothingIntoCapture
  NoWeakPassAccepted
  OrderlyEndIsStill
PROPERTIES
  ReadsFromTrackStart
  DumpEnds
CHECK_DEADLOCK FALSE
