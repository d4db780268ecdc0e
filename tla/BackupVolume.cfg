SPECIFICATION MCSpec
CONSTANTS
  Seg = 6
  MaxRatio = 2
  LinkMax = 2
  Cases <- MCCases
  TableSize = 2
  VolumeSize = 5
  ChunkSizes = {0, 1, 3}
  MaxChunks = 3
  HoleLists <- MCHoleLists
  RawBits = 1
  ShortBits = 2
  LongBits = 3
  GroupBits = 2
  RawFrame = 64
  TailFill = 4
  Cells = 40
  Bytes = {0, 1}
  Lengths = {2, 5, 8, 11}
  MaxOut = 13
  MaxFrames = 2
  MaxTokens = 3
  NoFrame = NoFrame
  Stride = 2
  HeaderLen = 2
  Block = 3
  Images <- MCImages
  Bodies <- MCBodies
  Frames = 2
  Catalogue <- MCCatalogue
  Formats <- MCFormats
  Profiles <- MCProfiles
  Subjects <- MCSubjects
INVARIANT ReportsAreTrue HolesAreTrue CutsAreRefused
CHECK_DEADLOCK FALSE
