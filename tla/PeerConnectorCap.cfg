SPECIFICATION Spec
CONSTANTS
  Peers = {p1, p2, p3}
  SessionIds = {i1, i2, i3, i4}
  MaxConnections = 2
  NoPeer = NoPeer
SYMMETRY ConnectorSymmetry
INVARIANT
  AtMostMaxConnections
