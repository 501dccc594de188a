\* SQLite, and nothing between the two pairs of reads that must agree.
\* Known limits: with one property below instead of the ones of this run, and the values beside
\* it, TLC finds the violation the README describes; all under
\* SPECIFICATION Spec with MaxWrites = 4.
\* ConditionHoldsAtWrite   Serial = FALSE (PostgreSQL, MySQL): two conditional writes of one object
\* PrunedOnlyRises         Serial = FALSE: two deletions whose times are not in the order of their tokens (a PROPERTY)
\* NoChangeIsMissed        Serial = FALSE, MaxId = 1: the same two deletions, and a client that pages between them
\* NoChangeIsMissed        Overtaken = TRUE: a prune between the two reads of a sync
SPECIFICATION FairSpec
CONSTANTS
  None = None
  Names = {a, b}
  Writers = {w1, w2}
  Clients = {c1}
  Serial = TRUE
  Overtaken = FALSE
  Retention = 0
  MaxWrites = 3
  MaxClock = 2
  MaxId = 2
INVARIANTS NoChangeIsMissed
PROPERTIES ConditionHoldsAtWrite ClientsCatchUp
