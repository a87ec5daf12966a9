SPECIFICATION FairSpec
CONSTANTS
  Programs <- MCPrograms
  MaxLine = 12
INVARIANTS SameBehaviour CountsExact LeftOutExactly
PROPERTY Follows
CHECK_DEADLOCK FALSE
