SPECIFICATION FairSpec
CONSTANTS
  stop1 = stop1  stop2 = stop2  c1 = c1  quiet = quiet
  Clients = {stop1}
  Stopping = {stop1}
  Silent = {}
  Reachable = FALSE
  Backlog = 2
  MaxFaults = 0
  Main = Main  Wake = Wake  None = None
PROPERTY Stops
CHECK_DEADLOCK FALSE
