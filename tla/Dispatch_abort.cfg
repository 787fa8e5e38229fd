SPECIFICATION DispatchSpec
CONSTANTS
  Tracers = {"open", "exec"}
  Actions = {"stdout", "kill"}
  ValidRuntimes = {"docker"}
  Names = {"shadow", "setuid"}
  Callers = {c1}
  Requests <- MCRequests
  InitialRules <- MCInitialRules
  MaxCalls = 2
  NoOne = NoOne
  Events <- MCEvents
  MaxEvents = 1
INVARIANT
  DaemonStaysUp
CHECK_DEADLOCK FALSE
