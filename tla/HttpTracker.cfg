SPECIFICATION FairSpec
CONSTANTS
  BlockSize = 12
  BytesInHashContextBlock = 4
  HashSize = 2
  MaxDepth = 4
  DigestOf <- MCDigestOf
  Torrents <- MCTorrents
  Urls <- MCUrls
  Answers <- MCAnswers
  PeerId <- MCPeerId
  Chunks = {14}
  Surplus <- MCSurplus
  MaxSurplus = 2
  MaxAnnounces = 2
INVARIANTS
  LoadedAsWritten
  TrackerIsAskedAsWritten
  PeersAreTheAnswers
PROPERTY
  GetReturns
CHECK_DEADLOCK FALSE
