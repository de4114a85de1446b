\* One search, two LSPs, two deliveries processed at once, failing writes and a
\* restart.
SPECIFICATION FairSpec
CONSTANTS
  Search = {s1}
  Answer = {a1, a2}
  Handler = {h1, h2}
  DbMayFail = TRUE
  MaxCrashes = 1
  None = None
INVARIANTS
  TypeOK
  
  OneCatalogPerCallback
PROPERTIES
  AckedIsIngested
  ImplementsCatalogShelf
\* Searches and callbacks may all be over.
CHECK_DEADLOCK FALSE
