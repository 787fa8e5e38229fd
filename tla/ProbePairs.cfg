SPECIFICATION Spec
CONSTANTS
  Threads <- MCThreads
  Task <- MCTaskTable
  Self = "bpfd"
  NoNumber = NoNumber
  Kinds = {"open", "dockeropenbreakout", "tcpdrop", "bashreadline"}
  Hosts <- MCHosts
  Callers <- MCCallers
  Paths <- MCPaths
  GraphDirs <- MCGraphDirs
  MaxCalls = 2
  RingSize = 2
INVARIANTS
  TypeOK
  OwnCall
  TmpDrained
  OriginIsOwn
  SignalsCaller
  FieldsDecoded
PROPERTIES
  RunsDown
  ComesToRest
  NoneDropped
  Delivered
CHECK_DEADLOCK FALSE
