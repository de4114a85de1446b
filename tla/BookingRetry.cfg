\* A client that retries /confirm one call at a time, an LSP that may answer under
\* a message_id of its own, failing status writes and a restart.
SPECIFICATION Spec
CONSTANTS
  Txn = {t1}
  InitReq = {i1}
  ConfirmReq = {c1, c2}
  LspMsg = {x}
  OrderId = {o1, o2}
  Bpp = {b1}
  Version = {1}
  Handler = {h1}
  SerialClient = TRUE
  DbMayFail = TRUE
  MaxCrashes = 1
  None = None
SYMMETRY MCSymmetry
INVARIANTS
  OneOrderPerTransaction
  RowsAndOrdersAgree
PROPERTIES
  ImplementsOrderBook
\* Calls, callbacks and retries may all be over.
CHECK_DEADLOCK FALSE
