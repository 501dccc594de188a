\* Every orphan is found and freed, whatever left it behind.
SPECIFICATION FairSpec
CONSTANTS
  Paths = {p1, p2}
  Keys = {k1, f1}
  Foreign = {f1}
  Procs = {r1}
  Batches = {b1, b2}
  NoKey = NoKey
  NoPath = NoPath
  Grace = 1
  Retention = 1
  MaxLag = 0
  MaxRead = 0
  MaxIdle = 0
  MaxCrashes = 1
  RestoreDuringKeys = FALSE
  LostAcks = FALSE
  CleanImport = TRUE
PROPERTY OrphansAreFreed
