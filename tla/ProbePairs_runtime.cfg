SPECIFICATION Spec
CONSTANTS
  Threads <- MCThreads
  Task <- MCTaskTable
  Self = "bpfd"
  NoNumber = NoNumber
  Kinds = {"open"}
  Hosts <- MCHosts
  Callers <- MCCallers
  Paths <- MCPaths
  GraphDirs <- MCGraphDirs
  MaxCalls = 1
  RingSize = 2
INVARIANT
  RuntimeOfProcess
CHECK_DEADLOCK FALSE
