SPECIFICATION Spec
CONSTANTS
  Messages <- MCMessages
  Capacity = 3
  SizeMax = 255
INVARIANTS EntireBody AcceptsWhole RelaysPrefix
PROPERTIES Ends
CHECK_DEADLOCK FALSE
