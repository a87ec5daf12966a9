SPECIFICATION FairSpec
CONSTANTS
  s1 = s1  s2 = s2  s3 = s3  g1 = g1
  Stores = {s1, s2}
  Loads = {g1}
  Dirs = {"report", "sub", "a/b"}
  Root = "report"
  Uncreatable = {"a/b"}
  Shapes = {1, 2}
  Sourceless = {}
  Highlight = TRUE
  Serial = FALSE
  Blocks = 2
  MaxFaults = 1
  MaxExits = 1
  None = None
INVARIANTS NoTraceOfRefused ShapesAgree MutexDiscipline
PROPERTY Answered
CHECK_DEADLOCK FALSE
