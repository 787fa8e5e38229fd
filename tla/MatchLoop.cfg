SPECIFICATION Spec
CONSTANTS
  MatchRules <- MCRules
  Datas <- MCDatas
  PidRuntimes <- MCPidRuntimes
INVARIANTS
  ReturnsMatch
CHECK_DEADLOCK FALSE
