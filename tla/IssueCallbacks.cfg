\* The opening of an issue and, at the same time, of another for the same order,
\* two callbacks processed at once and failing writes.
SPECIFICATION FairSpec
CONSTANTS
  Opener = o
  Twin = {o2}
  Later = {}
  Message = {m1}
  p1 = p1
  Push <- MCPush
  Handler = {h1, h2}
  Reply <- MCReply
  Status <- MCStatus
  Level <- MCLevel
  Content <- MCSaysFirst
  Opened = None
  SerialClient = FALSE
  DbMayFail = TRUE
  MaxCrashes = 0
  None = None
INVARIANTS
  TheirLogIsTrue
PROPERTIES
  EveryCallSettles
\* Calls and callbacks may all be over.
CHECK_DEADLOCK FALSE
