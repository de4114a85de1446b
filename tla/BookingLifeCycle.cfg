\* The life cycle of transactions.md, against one /init and its /on_init.
SPECIFICATION Spec
CONSTANTS
  Txn = {t1}
  InitReq = {i1}
  ConfirmReq = {}
  LspMsg = {}
  OrderId = {o1}
  Bpp = {b1}
  Version = {1}
  Handler = {h1}
  SerialClient = TRUE
  DbMayFail = FALSE
  MaxCrashes = 0
  None = None
PROPERTIES
  CompletedIsFinal
\* Calls, callbacks and retries may all be over.
CHECK_DEADLOCK FALSE
