\* Two callbacks processed at once, two possible quotes; no restart and no
\* failing write, so that every submission has to come to an end.
SPECIFICATION FairSpec
CONSTANTS
  Txn = {t1}
  InitReq = {i1}
  ConfirmReq = {c1}
  LspMsg = {}
  OrderId = {o1}
  Bpp = {b1}
  Version = {1, 2}
  Handler = {h1, h2}
  SerialClient = TRUE
  DbMayFail = FALSE
  MaxCrashes = 0
  None = None
INVARIANTS
  ShownIsDurable
PROPERTIES
  EverySubmissionSettles
\* Calls, callbacks and retries may all be over.
CHECK_DEADLOCK FALSE
