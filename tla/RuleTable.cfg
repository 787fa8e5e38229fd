SPECIFICATION FairSpec
CONSTANTS
  Tracers = {"open", "exec"}
  Actions = {"stdout", "kill"}
  ValidRuntimes = {"docker"}
  Names <- MCNames
  Callers = {c1, c2}
  Requests <- MCRequests
  InitialRules <- MCInitialRules
  MaxCalls = 4
  NoOne = NoOne
INVARIANTS
  TypeOK
  WritesAreLocked
PROPERTIES
  AtomicSpec
  RequestsReturn
CHECK_DEADLOCK FALSE
