SPECIFICATION Spec
CONSTANTS
  Good <- MCGood
  Images <- MCImages
  Size <- MCSize
  FlashSize = 8
  PageSize = 4
  BL_SIZE = 6
  U_BUF_SZ = 4
  MaxPacket = 3
INVARIANT AckMeansImage RunsWhole
PROPERTY UpdateEnds
