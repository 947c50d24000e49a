SPECIFICATION FairSpec
CONSTANTS
  Fds = {3, 4}
  HandshakeSize = 1
  Chunks = {3}
  MaxMessageSize = 100
  PeerMessages <- MCPeerMessages
  Requests <- MCRequests
  ForeignBytes = {0}
  MaxAttempts = 2
  MaxMessages = 2
INVARIANTS
  TypeOK
  DescriptorIsOurs
PROPERTIES
  ImplementsMessageChannel
  StopEnds
