SPECIFICATION Spec
CONSTANTS
  Names <- MCNames
  Worlds <- MCWorlds
  Scripts <- MCScripts
  MaxRuns = 2
INVARIANTS OnlyDestination Complete Repeatable
CHECK_DEADLOCK FALSE
