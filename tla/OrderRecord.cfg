\* Two calls, which may be one request, an /on_cancel nobody asked for,
\* failing writes and a restart.
SPECIFICATION Spec
CONSTANTS
  Call = {c1, c2}
  Message = {m1}
  Push = {p1}
  Handler = {h1}
  SerialClient = TRUE
  DbMayFail = TRUE
  MaxCrashes = 1
  None = None
SYMMETRY MCSymmetry
VIEW MCView
INVARIANTS
  TypeOK
  OrderAndRowsAgree
  OneRowPerRequest
PROPERTIES
  ImplementsOrderLedger
\* Calls and callbacks may all be over.
CHECK_DEADLOCK FALSE
