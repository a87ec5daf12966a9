SPECIFICATION FairSpec
CONSTANTS
  Incoming <- MCIncoming
  Payloads <- MCPayloads
  Capacity = 3
  MaxWritten = 10
  MaxFaults = 1
  End = End  Error = Error  Done = Done  None = None
INVARIANT NothingDropped
PROPERTIES KeepsStream WriteEnds
