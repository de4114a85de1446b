\* A re-init and a /confirm, two LSPs, two possible quotes, callbacks processed
\* one at a time, and a restart.
SPECIFICATION Spec
CONSTANTS
  Txn = {t1}
  InitReq = {i1, i2}
  ConfirmReq = {c1}
  LspMsg = {}
  OrderId = {o1}
  Bpp = {b1, b2}
  Version = {1, 2}
  Handler = {h1}
  SerialClient = TRUE
  DbMayFail = FALSE
  MaxCrashes = 1
  None = None
SYMMETRY MCSymmetry
INVARIANTS
  TypeOK
  OrderRestsOnQuote
  OrderCarriesStandingQuote
  InitShownOnce
PROPERTIES
  FirstAnswerStands
\* Calls, callbacks and retries may all be over.
CHECK_DEADLOCK FALSE
