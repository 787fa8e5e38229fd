SPECIFICATION Spec
CONSTANTS
  Watchers = {w1}
  Streams = {s1, s2}
  MaxEvents = 2
  Unencodable = {}
INVARIANT
  NoPastEvents
CHECK_DEADLOCK FALSE
