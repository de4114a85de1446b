\* One booking, then two updates and one callback.
SPECIFICATION PayloadSpec
CONSTANTS
  Id = {i1, i2, i3}
  i1 = i1
  i2 = i2
  i3 = i3
  Chosen = i1
  IdList <- MCIdList
  Silence <- MCSilence
  Giving <- MCGiving
  Edit = {e1, e2}
  LinkedField = {f1}
  MaxReports = 1
  None = None
SYMMETRY Symmetry
CONSTRAINT Plain
INVARIANTS
  BookedAsQuoted
  EditsStand
  ReadyIsRepeated
\* A booking may be refused, and the updates over.
CHECK_DEADLOCK FALSE
