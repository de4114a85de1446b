\* A /confirm with one retry, two callbacks and a key that is replaced or
\* withdrawn.
SPECIFICATION ExchangeSpec
CONSTANTS
  confirm = confirm
  Request = {confirm}
  Confirm = {confirm}
  Retries = 1
  AckTimeout = 1
  Backoff = 1
  KeyId = {k1}
  Callback = {c1, c2}
  Ttl = 2
  LookupTimeout = 1
  MaxValue = 2
  MaxClock = 4
  Answers <- MCAnswers
  None = None
SYMMETRY Symmetry
INVARIANTS
  ExchangeTypeOK
  SendIsBounded
  WithdrawnKeyDies
  NewKeyIsHonoured
PROPERTIES
  StampsGrow
\* Everything may be over when the clock stops.
CHECK_DEADLOCK FALSE
