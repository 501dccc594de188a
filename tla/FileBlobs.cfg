\* The grace period covers everything it has to (MaxIdle + MaxLag + MaxRead < Grace).
\* Known limits: with one property below instead of the ones of this run, and the values beside
\* it, TLC finds the violation the README describes; all with Procs = {r1}, Batches = {b1, b2}, Grace = 2,
\* MaxLag = 0 and MaxRead = 0, without SYMMETRY.
\* LiveRowsHaveBlobs   LostAcks = TRUE: a commit lands although its acknowledgement is lost
\* LiveRowsHaveBlobs   MaxIdle = 2: an upload ends longer after its last append than the grace period
\* LiveRowsHaveBlobs   CleanImport = FALSE, Keys = {k1, k2, f1}, Foreign = {f1}: an import run again
SPECIFICATION Spec
CONSTANTS
  Paths = {p1, p2}
  Keys = {k1, k2, k3}
  Foreign = {}
  Procs = {r1, r2}
  Batches = {b1}
  NoKey = NoKey
  NoPath = NoPath
  Grace = 3
  Retention = 1
  MaxLag = 1
  MaxRead = 1
  MaxIdle = 0
  MaxCrashes = 0
  RestoreDuringKeys = FALSE
  LostAcks = FALSE
  CleanImport = TRUE
SYMMETRY Symmetry
INVARIANTS LiveRowsHaveBlobs TrashCanBeRestored OneRowPerBlob UnaccountedIsUnclaimed
