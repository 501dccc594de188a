\* One request, and any statement between two of its steps.
\* Known limits: with one property below instead of the ones of this run, and the values beside
\* it, TLC finds the violation the README describes.
\* ConditionHoldsAtCommit    MaxDepth = 1, Keys = {k1, k2, k3}, Procs = {r1, r2}: a conditional PUT, and another door
\* ShareReplacesNothing      the same values: a share, and a write under the name it found free
\* ClearingSparesTheSource   MaxCopies = 1, Keys = {k1}: a MOVE onto the directory it comes out of
SPECIFICATION Spec
CONSTANTS
  Base = {a}
  MaxCopies = 2
  MaxDepth = 2
  Keys = {k1, k2}
  Batches = {b1}
  Procs = {r1}
SYMMETRY Symmetry
INVARIANTS TreeClosed DeletionIsATree
PROPERTY OnlyReplacingLoses
