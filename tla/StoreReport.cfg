SPECIFICATION Spec
CONSTANTS
  s1 = s1  s2 = s2  s3 = s3  g1 = g1
  Stores = {s1, s2, s3}
  Loads = {}
  Dirs = {"report", "report/a"}
  Root = "report"
  Uncreatable = {}
  Shapes = {1}
  Sourceless = {s1}
  Highlight = TRUE
  Serial = FALSE
  Blocks = 2
  MaxFaults = 1
  MaxExits = 1
  None = None
SYMMETRY MCSymmetry
INVARIANTS Durable ReportUsable
PROPERTY KeepsPromise
CHECK_DEADLOCK FALSE
