SPECIFICATION FairSpec
CONSTANTS
  a = a
  b = b
  c = c
  NoUrl = NoUrl
  Announce = a
  ConfigLines <- MCConfigLines
  TrackerUrls <- MCTrackerUrls
  MaxKnownPeers = 3
  MaxAnnounced = 2
INVARIANTS
  KnownPeersBounded
  FinalSnapshotIsFinal
  NoDanglingConnector
PROPERTY
  ProgramEnds
