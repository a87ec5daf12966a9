SPECIFICATION FairSpec
CONSTANTS
  r1 = r1  r2 = r2  s1 = s1  a = a  b = b
  Requests = {r1, r2}
  Stores = {s1}
  Urls = {a, b}
  UrlOf <- MCUrlOf
  Answers <- MCAnswers
  MaxVersions = 2
  MaxFaults = 1
  None = None
INVARIANTS ServedIsCached
PROPERTIES EntriesStay Finishes
CHECK_DEADLOCK FALSE
