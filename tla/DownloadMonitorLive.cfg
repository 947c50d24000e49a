SPECIFICATION FairMonitorSpec
CONSTANTS
  PieceCount = 2
  BlockCount <- OneBlockEach
  Sessions = {s1, s2}
  Copies = {0, 1}
  NoPiece = NoPiece
  PeerData = {"good"}
  DiskMayFail = FALSE
  EndgameThreshold = 1
PROPERTIES
  OneServingPeerSuffices
  ShutdownEnds
