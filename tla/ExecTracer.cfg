SPECIFICATION Spec
CONSTANTS
  t1 = t1
  t2 = t2
  t3 = t3
  Threads = {t1, t2, t3}
  PID <- MCPID
  Cpus = {cpu1, cpu2}
  ArgLists <- MCArgLists
  Blank = " "
  Ellipsis = "..."
  MAXARG = 2
  RingSize = 3
  MaxCalls = 3
  MaxLives = 1
INVARIANTS
  TypeOK
  ArgvExact
  ArgvDrained
  OwnArgsInOrder
CONSTRAINT Bounds
SYMMETRY Symmetry
CHECK_DEADLOCK FALSE
