------------------------------ MODULE Database ------------------------------
(***************************************************************************)
(* The database: its schema, which instances of several builds bring up to *)
(* date (Migrations), its backups, which are files of the user like others *)
(* (Backups), and the tables of files, media and uploads behind the three  *)
(* drivers (Rows).  MCServices runs the three beside the rest;             *)
(* DatabaseProofs is about the first two, SyncProofs about the tables.     *)
(***************************************************************************)
EXTENDS Integers, Sequences, FiniteSets

CONSTANTS
  Servers, Builds, Scripts, MaxStops,                                \* Migrations
  BackupsKept, MaxNow, MaxTouched, MaxBroken, RestoresBetween,       \* Backups
  TreePaths, RowIds, MaxPuts, MaxTold, Versions, UploadNames, Owners \* Rows

VARIABLES
  base, schema, versions, migrator, server, stops, cut,              \* Migrations
  now, store, kept, bin, last, loop, failing, destroyed, touched, broken, \* Backups
  vendor, filesTable, mediaTable, uploadsTable, putting, call, result, puts, told, lastId  \* Rows

Migrations == INSTANCE Migrations
Backups   == INSTANCE Backups WITH tree <- kept
Rows      == INSTANCE Rows

gvars == <<base, schema, versions, migrator, server, stops, cut>>
bvars == <<now, store, kept, bin, last, loop, failing, destroyed, touched, broken>>
rvars == <<vendor, filesTable, mediaTable, uploadsTable, putting, call, result, puts, told, lastId>>

\* A path is the names in it, and a version of the extractor a number.
ASSUME RowsAssumption ==
  /\ \A p \in TreePaths : p \in Seq(Nat) /\ p # <<>>
  /\ Versions \subseteq Nat
-----------------------------------------------------------------------------
\* Instances that start together over one database all come up, on the version
\* they know, and a version is the schema it stands for (Migrations).  Every
\* backup in the store has one row, and the rotation takes the oldest (Backups).
DatabaseIsKept ==
  /\ [](Migrations!VersionMeansSchema /\ Migrations!NobodyFailsForAnother)
  /\ Migrations!NobodyStartsOnTheFuture
  /\ [](Backups!NoBackupIsForgotten /\ Backups!OneRowPerBackup)
  /\ Backups!RotationKeepsTheNewest

\* A migration that fails leaves no part of itself (Migrations).
FailureLeavesTheLastVersion == Migrations!FailureLeavesTheLastVersion

\* A build comes up on its own version, whatever became of the lock
\* (Migrations).
NeverOnTheFuture == Migrations!NeverOnTheFuture

\* The three drivers are the repository that the suite describes (Rows, as a
\* step of Repository).
DriversImplementTheSuite == [][Rows!SuiteStep]_rvars

\* What the queues hand out is what the page counts as left (Rows).
QueuesAgree == Rows!QueuesAgree

\* A page of the timeline never fails for one row (Rows).
TimelineAnswers == Rows!TimelineAnswers
=============================================================================
