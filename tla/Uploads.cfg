\* One request at a time, broken off or lost at any byte, repeated at any offset told.
\* Known limits: with one property below instead of the ones of this run, and the values beside
\* it, TLC finds the violation the README describes; all under
\* SPECIFICATION Spec with Size = 2 and MaxPatches = 2.
\* FinishedIsPublished    MaxCrashes = 1: the request or the machine goes away after the last byte was saved
\* HashMatchesOffset      MaxCrashes = 1, Guesses = TRUE: a client that sends at the offset it believes in
\* PublishedIsWhole       MaxCrashes = 0, Procs = {r1, r2}: two PATCH requests at once
\* OffsetSurvives         MaxCrashes = 1: a chunk that breaks off
\* CollectedIsAbandoned   MaxCrashes = 0: an append between the list of expired uploads and their end (a PROPERTY)
SPECIFICATION FairSpec
CONSTANTS
  None = None
  NoHash = NoHash
  Size = 3
  Procs = {r1}
  Guesses = FALSE
  MaxPatches = 4
  MaxCrashes = 2
INVARIANTS PublishedIsWhole ResumesFromItsFile
CHECK_DEADLOCK FALSE
PROPERTY UploadsEnd
