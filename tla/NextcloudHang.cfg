\* Two workers, a batch of three files, and two requests that fail or objects that are gone.
SPECIFICATION FairSpec
CONSTANTS
  Cache <- MCCache
  Storages <- MCStorages
  UserPaths <- MCUserPaths
  Commands <- MCCommands
  Workers = {w1, w2}
  BatchSize = 4
  MaxFaults = 2
  MaxMeddles = 1
  MaxRuns = 2
PROPERTY EveryImportEnds
CHECK_DEADLOCK FALSE
