SPECIFICATION FairSpec
CONSTANTS
  stop1 = stop1  stop2 = stop2  c1 = c1  quiet = quiet
  Clients = {stop1, stop2, c1, quiet}
  Stopping = {stop1, stop2}
  Silent = {quiet}
  Reachable = TRUE
  Backlog = 2
  MaxFaults = 1
  Main = Main  Wake = Wake  None = None
INVARIANTS ShutdownMutex WakeNeverServed RequesterAnswered
PROPERTIES Stops Served
CHECK_DEADLOCK FALSE
