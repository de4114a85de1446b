\* One call and an /on_cancel nobody asked for, two callbacks processed at
\* once, failing writes.
SPECIFICATION FairSpec
CONSTANTS
  Call = {c1}
  Message = {m1}
  Push = {p1}
  Handler = {h1, h2}
  SerialClient = TRUE
  DbMayFail = TRUE
  MaxCrashes = 0
  None = None
INVARIANTS
  ToldIsOnRecord
PROPERTIES
  EveryCallSettles
\* Calls and callbacks may all be over.
CHECK_DEADLOCK FALSE
