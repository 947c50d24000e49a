SPECIFICATION MonitorSpec
CONSTANTS
  PieceCount = 2
  BlockCount <- OneBlockEach
  Sessions = {s1, s2}
  Copies = {0, 1, 2}
  NoPiece = NoPiece
  PeerData = {"good", "bad"}
  DiskMayFail = TRUE
  EndgameThreshold = 1
SYMMETRY SessionSymmetry
INVARIANTS
  MonitorTypeOK
  NoDuplicateWork
  EndgameIsSmall
  TaskIsCoherent
  FinishedIsAsReported
