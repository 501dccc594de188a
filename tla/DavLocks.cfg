\* Two requests at once, with and without the token of a lock.
\* Known limits: with one property below instead of the ones of this run, and the values beside
\* it, TLC finds the violation the README describes, without SYMMETRY.
\* MembersAreProtected      a collection is deleted or moved with a locked member (a PROPERTY)
\* ReserveReplacesNothing   a PUT between the look and the lock of a LOCK (a PROPERTY)
\* ForeignLocksRefuse       BriefExpires = TRUE: a request that lasts longer than a minute
SPECIFICATION Spec
CONSTANTS
  None = None
  Paths <- ThreePaths
  Tokens = {t1}
  Procs = {r1, r2}
  BriefExpires = FALSE
SYMMETRY Symmetry
INVARIANTS ForeignLocksRefuse OneWriterPerPath NothingStaysHeld
CHECK_DEADLOCK FALSE
