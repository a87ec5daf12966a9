SPECIFICATION FairSpec
CONSTANTS
  Modes <- AllModes
  f = f  g = g
  Files = {f, g}
  Lines = {7}
  MaxClicks = 5
  MaxRuns = 1
  None = None
INVARIANTS OneAtATime ViewsAgree LastClickShown
PROPERTY Usable
CHECK_DEADLOCK FALSE
