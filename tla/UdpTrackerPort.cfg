SPECIFICATION Spec
CONSTANTS
  t1 = t1
  t2 = t2
  a1 = a1
  a2 = a2
  a3 = a3
  Trackers <- MCTrackers
  Addresses <- MCAddresses
  Owner <- MCOwner
  ListenPort = 77777
  MaxAnnounces = 3
INVARIANT
  TrackersSeeThePort
CHECK_DEADLOCK FALSE
