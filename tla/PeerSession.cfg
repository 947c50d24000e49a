SPECIFICATION PeerSpec
CONSTANTS
  PieceCount = 1
  BlockCount <- MCBlockCount
  Sessions = {s1, s2}
  Copies = {0, 1, 2}
  NoPiece = NoPiece
  PeerData = {"good", "bad"}
  DiskMayFail = FALSE
  MaxFailures = 2
  MaxTakes = 1
  MaxInflightBlocks = 1
SYMMETRY SessionSymmetry
INVARIANTS
  PeerTypeOK
  InflightIsPending
  WaitsForABlock
  HeldPieceIsAvailable
  DisconnectedHoldsNothing
