\* Known limits: with one property below instead of the ones of this run, and the values beside
\* it, TLC finds the violation the README describes.
\* KeptIsWhole       MidwayDeaths = TRUE: ffmpeg dies in the middle of a segment and says nothing
\* EveryPhotoIsTried LostPhotos = {2}: a photograph whose bytes are gone (a PROPERTY)
SPECIFICATION Spec
CONSTANTS
  Parts = {"streaming", "thumbs"}
  Requests = {r1, r2}
  Pieces = {p1}
  TranscodeSlots = 1
  EncodeSlots = 1
  MidwayDeaths = FALSE
  Photos = {1, 2}
  Sizes = {"small"}
  PassSizes = {"small"}
  Askers = {a1}
  Decoders = 1
  DecodeQueue = 1
  Batch = 1
  MaxWrites = 1
  MaxWeeks = 1
  LostPhotos = {}
INVARIANTS
  NothingLeaks
  KeptIsWhole
  RefusalsAreHonest
PROPERTIES
  EveryRequestEnds
  EveryPhotoIsTried
CHECK_DEADLOCK FALSE
