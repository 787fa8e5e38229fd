SPECIFICATION ListSpec
CONSTANTS
  Tracers = {"open", "exec"}
  Actions = {"stdout", "kill"}
  ValidRuntimes = {"docker"}
  Names = {"shadow", "setuid"}
  Callers = {c1}
  Requests <- MCRequests
  InitialRules <- MCInitialRules
  MaxCalls = 3
  NoOne = NoOne
  Listers = {l1}
  MaxLists = 2
INVARIANTS
  RepliesCount
CHECK_DEADLOCK FALSE
