\* Known limits: with one property below instead of the ones of this run, and the values beside
\* it, TLC finds the violation the README describes.
\* WordsAreOfTheirBytes          Recordings <- MCReplaced: lyrics found by the tags of bytes since replaced
\* TimelineAnswers               the two statements of PutMedia
\* FailureLeavesTheLastVersion   a migration that fails halfway on MySQL
\* ImportsAreWhole               SlowWriters = TRUE: a writer that pauses for a whole interval
\* IdentityIsKept                an album identified, and looked up again (a PROPERTY)
\* LiveUploadsSurvive            the bucket's rule ends an upload that is still alive (a PROPERTY)
\* StoresImplementThePort        Requests = {r1, r2}: two requests at once (a PROPERTY)
\* StoresImplementThePort        DiskKeys <- MCNestedKeys: a prune takes an object for a folder (a PROPERTY)
\* NeverOnTheFuture              a run on MySQL that lost its lock and goes on (a PROPERTY)
\* DatabaseIsKept                RestoresBetween = TRUE, MaxTouched = 3: a restore between two reads (a PROPERTY)
SPECIFICATION Spec
VIEW view
CONSTANTS
  Requests = {r1}
  Sizes = {0, 4}
  PartSize = 3
  MinPart = 2
  Uploads3 = {1}
  MaxDays = 1
  Failures = 2
  DiskKeys <- MCDiskKeys
  Writers = {w1, w2}
  Contents <- MCContents
  UploadIds = {1}
  MaxSize = 2
  TreePaths <- MCTreePaths
  RowIds = {1, 2}
  MaxPuts = 2
  MaxTold = 2
  Versions = {1, 2}
  UploadNames = {1}
  Owners = {1, 2}
  Recordings <- MCRecordings
  Spellings <- MCSpellings
  FileIds = {1, 2}
  MayHold <- MCMayHold
  AlbumBatch = 2
  LyricsBatch = 1
  MaxClock = 2
  Cache <- MCCache
  Storages <- MCStorages
  Workers = {k1, k2}
  BatchSize = 2
  UserPaths <- MCUserPaths
  Commands <- MCCommands
  MaxFaults = 1
  MaxMeddles = 1
  Arrivals <- MCArrivals
  Ignored = {3}
  Unstorable = {4}
  SlowWriters = FALSE
  Servers = {1, 2, 3}
  Builds <- MCBuilds
  Scripts <- MCScripts
  MaxStops = 2
  BackupsKept = 2
  MaxNow = 4
  MaxTouched = 2
  MaxBroken = 1
  RestoresBetween = FALSE
  MaxRuns = 2
INVARIANTS
  StoresTellTheTruth
  QueuesAgree
  LookupsKeepTheirPlace
  ImportsAreWhole
PROPERTIES
  StoresImplementThePort
  DriversImplementTheSuite
  DatabaseIsKept
CHECK_DEADLOCK FALSE
