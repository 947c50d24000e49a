SPECIFICATION FairPeerSpec
CONSTANTS
  PieceCount = 2
  BlockCount <- MCBlockCount
  Sessions = {s1}
  Copies = {0, 1}
  NoPiece = NoPiece
  PeerData = {"good"}
  DiskMayFail = FALSE
  MaxFailures = 2
  MaxTakes = 1
  MaxInflightBlocks = 1
PROPERTIES
  StoppedThreadEnds
  ServedPieceIsSaved
