SPECIFICATION Spec
CONSTANTS
  Null = Null
  Graphs <- MCGraphs
  Limits <- MCLimits
INVARIANTS WithinLimits ProperPaths FollowsProgram CoversReachable
PROPERTY Terminates
CHECK_DEADLOCK FALSE
