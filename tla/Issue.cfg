\* An issue that is open, two calls at once, one callback at a time that may echo
\* what was sent, and a restart.
SPECIFICATION Spec
CONSTANTS
  Opener = o
  Twin = {}
  Later = {u1, u2}
  Message = {m1, m2, m3}
  p1 = p1
  Push = {}
  Handler = {h1}
  Reply <- MCResolved
  Status <- MCStatus
  Level <- MCLevel
  Content <- MCSaysLater
  Opened = m1
  SerialClient = FALSE
  DbMayFail = FALSE
  MaxCrashes = 1
  None = None
SYMMETRY Symmetry
VIEW View
INVARIANTS
  TypeOK
  OurLogIsTrue
  ActedOnce
PROPERTIES
  ImplementsIssueLog
\* Calls and callbacks may all be over.
CHECK_DEADLOCK FALSE
