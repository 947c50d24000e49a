SPECIFICATION Spec
CONSTANTS
  PieceCount = 2
  BlockCount <- MCBlockCount
  Sessions = {s1, s2}
  Copies = {0, 1, 2}
  NoPiece = NoPiece
  PeerData = {"good", "bad"}
  DiskMayFail = TRUE
SYMMETRY SessionSymmetry
PROPERTY
  ImplementsFileAssembly
INVARIANTS
  ExclusiveOwnership
  QueuedPieceIsReset
  FileIntegrity
  NoPieceLost
