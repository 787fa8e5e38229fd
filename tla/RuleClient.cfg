SPECIFICATION Spec
CONSTANTS
  Daemons = {d1, d2}
  NoDaemon = NoDaemon
  Tracers = {"open", "exec"}
  Actions = {"stdout", "kill"}
  Runtimes = {"docker"}
  Directories <- MCDirectories
  Clients = {c1}
  Commands <- MCCommands
INVARIANTS
  TypeOK
  ListenFailsForCause
  ReachableUnlessReplaced
  InForceIsValid
  PrintedInForce
  SuccessMeansAll
PROPERTIES
  CommandsRunDown
  SignalEnds
  CommandsEnd
CHECK_DEADLOCK FALSE
