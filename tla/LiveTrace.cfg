SPECIFICATION FairSpec
CONSTANTS
  Watchers = {w1, w2}
  Streams = {s1, s2}
  MaxEvents = 3
  Unencodable <- LastUnencodable
INVARIANTS
  TypeOK
  StreamingWhileConnected
  AtMostOnce
PROPERTIES
  NoOrphanedBuffering
  PoolSpec
  CancelledEnds
  AcceptedIsSent
CHECK_DEADLOCK FALSE
