SPECIFICATION Spec
CONSTANTS
  s1 = s1  s2 = s2  s3 = s3  g1 = g1
  Stores = {s1, s2}
  Loads = {}
  Dirs = {"report"}
  Root = "report"
  Uncreatable = {}
  Shapes = {1}
  Sourceless = {}
  Highlight = FALSE
  Serial = FALSE
  Blocks = 2
  MaxFaults = 0
  MaxExits = 0
  None = None
SYMMETRY MCSymmetry
INVARIANT MergedWithPrevious
CHECK_DEADLOCK FALSE
