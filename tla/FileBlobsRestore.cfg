\* A restore may commit between the two key reads of a sweep.
SPECIFICATION Spec
CONSTANTS
  Paths = {p1, p2}
  Keys = {k1, k2, k3}
  Foreign = {}
  Procs = {r1}
  Batches = {b1, b2}
  NoKey = NoKey
  NoPath = NoPath
  Grace = 2
  Retention = 1
  MaxLag = 0
  MaxRead = 0
  MaxIdle = 0
  MaxCrashes = 0
  RestoreDuringKeys = TRUE
  LostAcks = FALSE
  CleanImport = TRUE
INVARIANT LiveRowsHaveBlobs
