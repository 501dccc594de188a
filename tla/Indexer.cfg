\* Two files through a channel of one and batches of two.
\* Known limits: with one property below instead of the ones of this run, and the values beside
\* it, TLC finds the violation the README describes.
\* EveryFileIsDescribed  NFiles = 1, Buffer = 1, BatchSize = 1, SameBytes = TRUE, MaxWrites = 2: a file sent again
\*                       with the bytes it had (a PROPERTY)
\* VerdictIsFromTheBytes  the same values: the verdict on the bytes it had before
SPECIFICATION FairSpec
CONSTANTS
  None = None
  Deleted = Deleted
  NFiles = 2
  Buffer = 1
  BatchSize = 2
  SameBytes = FALSE
  MaxWrites = 3
  MaxFaults = 1
INVARIANTS VerdictIsFromTheBytes
PROPERTY EveryFileIsDescribed
