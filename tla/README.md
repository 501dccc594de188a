# Stratus backend: verification project

Stratus is one Go process in front of a database (SQLite, PostgreSQL or MySQL)
and a blob store (a directory or S3). It serves files over WebDAV, a web
interface and resumable uploads, calendars over CalDAV, contacts over CardDAV,
music over Subsonic and a web player, and it runs loops of its own beside the
requests. The difficulty is that almost everything it keeps is in two places
that cannot be written together, and that everybody writes at once.

This directory holds TLA+ modules for the parts where that bites, TLC
configurations for small instances of them, and proofs, checked by TLAPS, that
the core of it is right for every size.

Parse with `tlasany M.tla`, check a run with `tlc -workers 2 -config X.cfg M`,
check the proofs of a module with `tlapm MProofs.tla`.

## 1. Inventory

| Component | State it keeps | Operations that change it | Talks to |
|---|---|---|---|
| files service (`internal/files`) | rows of `files`, blobs under random keys | Write, Copy, Move, Remove, Mkdir, MkdirAll, Adopt | database, store, indexer (notice) |
| trash (`files/trash.go`) | rows of `trash`, grouped in deletions (batches) | Remove files rows into it; Restore, DestroyTrashed, EmptyTrash | files service, collector loop |
| blob collector (`files/collect.go`, `app/background.go`) | nothing that lasts | EmptyTrash, then Collect: read live keys, read trashed keys, list the store, file the old orphans in the trash of nobody | database, store |
| resumable uploads (`files/upload.go`, `internal/tus`) | rows of `uploads`, a staging object | POST, PATCH, DELETE, HEAD; CollectUploads | store, files service |
| disk store (`storage/disk`) | a directory tree | Put, Delete, List, StartUpload, AppendUpload, CompleteUpload, AbortUpload | |
| S3 store (`storage/s3`) | multipart uploads and remainder parts | the same | the S3 service |
| WebDAV (`internal/dav`) | none | PUT, MKCOL, DELETE, MOVE, COPY, SEARCH | files service, locks |
| WebDAV locks (`dav/locks.go`, `memlocks.go`) | locks in memory | LOCK, UNLOCK, the gate in front of every writing method | WebDAV |
| calendars, contacts | a counter per collection, objects stamped with it, tombstones, the pruned mark | Put, Delete, Prune, create and delete a collection, the edit forms; the sync report only reads | database |
| media indexer (`media/indexer.go`) | rows of `media`, a channel of notices, a "lost track" flag | Noticed, IndexBatch, record, defer | files service, store |
| thumbnails (`media/thumb`) | derived objects, notes of refusals beside them and on the media rows, a queue | cached, Prepare, PrepareBatch | store, decoders |
| streaming (`media/stream`) | slots, grants, segments kept | the handlers of a stream and of a segment | ffmpeg, loopback listener |
| lookups (`internal/lookup`) | rows per album and per recording, retry times, a brake | the pass; covers and lyrics are read by requests | remote services, store |
| music (`internal/music`, `internal/subsonic`) | playlists, stars, ratings, plays | edits of playlists, star, setRating, scrobble; the library is queries | database |
| import folder (`internal/incoming`) | files on disk, sizes seen on the last pass | a pass | files service |
| Nextcloud import (`internal/nextcloud`, `app/import`) | another server's database and bucket | survey, import | files service (Adopt) |
| backups (`files/backup.go`, `app/backup.go`) | copies in the store, their rows | take, rotate, adopt | store, files service |
| database drivers, migrations (`internal/db`) | the tables, a version | every statement; Migrate | |
| authentication, settings, media probes | a throttle; a snapshot with a channel; nothing | not modelled, see section 8 | |

The interactions that matter most are three. A *write* puts the blob first and
commits the row afterwards, so between the two the blob looks like an orphan. A
*deletion* goes the other way: row first, blob later, so that a crash leaves an
orphan and never a row without bytes. The *collector* runs beside both and has
nothing but age to tell an orphan from a write in flight.

What is hard here: two requests with a transaction each and a store call
between; the collector's reads, which are two statements and a listing; a crash
anywhere between the database and the store; a commit or a delete that fails; a
client that repeats a chunk, or disappears; a check (a precondition, a free
name, an offset, a lock) that is stale when it is used; a notice that is
dropped; tokens handed out while others write; a worker that stops while
somebody waits for it. The list, each at its line and with the property that
answers for it, is `hazards` in `PROJECT.json`.

## 2. Modules and the code they model

`map` in `PROJECT.json` gives the lines of every definition. Definitions that
say "Mutant" in their comment are changed forms of the definition that follows
them (a dropped guard, a missing reset). No specification uses them; they exist
to show that a property notices.

| Module | Models | Source |
|---|---|---|
| `FileBlobs` | the life of every blob, from landing in the store until it is gone, and the collector loop | `files/files.go`, `copy.go`, `trash.go`, `collect.go`, `adopt.go`, `upload.go` (the end of it), `app/background.go` |
| `FileTree` | rows as a tree, and every door that changes it, step by step | `files/files.go`, `copy.go`, `trash.go`, `adopt.go`, `dav/dav.go`, `dav/mkcol.go`, `web/share_target.go`, `incoming/incoming.go` |
| `Uploads` | one resumable upload, byte by byte, on the disk store | `tus/tus.go`, `files/upload.go`, `storage/disk/disk.go` |
| `Indexer` | notices, the query behind them, deferral and retries | `media/indexer.go`, `app/background.go`, the pending query of `db/sqlite/sqlite.go` |
| `DavLocks` | LOCK, UNLOCK and the gate; the lock system of `x/net/webdav` from how it is called (external) | `dav/lock.go`, `locks.go`, `memlocks.go`, `dav.go` |
| `Sync` | a calendar's tables, its sync reports and its clients; the address books are the same | `calendar/calendar.go`, `dav/caldavsync.go`, `db/sqlite`, `db/postgres` |
| `Streaming` | slots, grants, ffmpeg processes and clients that go away | `media/stream` |
| `Thumbs` | a request for a picture, the pass ahead of the viewer, the queue of the decoders, refusals | `media/thumb`, `app/background.go` |
| `Playback` | what is played and how: decisions, bitrates, segments | `media/stream`, `subsonic`, `web` |
| `Listing` | a folder, a gallery or the trash read a page at a time while it changes; names of the tree by date | `internal/db`, `web`, `timeline` |
| `Engines` | the transactions of the files service a statement at a time on the three engines | `internal/db` (drivers), `files` |
| `Paths` | what is done to the characters of a path, of an URL and of a derived key | `db/file.go`, `web`, `files`, drivers |
| `Opinions`, `Annotations` | stars, ratings and plays: what is promised, and the rows and statements that keep them | `db/dbtest`; drivers, `subsonic/annotate.go` |
| `Playlists` | playlists, their edits and the WebDAV collection of them | `internal/music`, drivers, `subsonic` |
| `Library` | the queries over tags, their pages, and the names made of tags | drivers, `internal/music`, `subsonic` |
| `Forms` | the contact and event forms over documents that phones write | `web/contactedit.go`, `web/eventedit.go`, `contacts/contacts.go`, `dav` |
| `Store` | what the blob port promises: an object is there or gone by a call of somebody's | `storage/storagetest` |
| `DiskStore` | the port on a directory, a system call at a time, with a prune that removes whatever has the folder's name | `storage/disk`, `range.go` |
| `S3Store` | the port on a bucket, a request at a time, with failures | `storage/s3` |
| `Repository` | what the drivers promise of files, media and uploads | `db/dbtest` |
| `Rows` | those tables, and the statements of the three drivers | `db/sqlite`, `mysql`, `postgres` |
| `Finder` | search, its pages, WebDAV SEARCH and search3 | `db/find.go`, drivers, `web/search.go`, `dav/search.go`, `subsonic/discover.go` |
| `Lookups` | the lookup pass, its queues, retry times and brake, beside everything that changes what it asks about | `lookup`, `db/lookup.go`, drivers, `media/thumb/art.go`, `subsonic/lyrics.go` |
| `Nextcloud` | the survey and the import with both pools of workers | `nextcloud`, `app/import.go` |
| `Incoming` | the import folder's pass beside other programs | `incoming/incoming.go` |
| `Migrations` | instances of several builds over one database | `db/migrate.go`, the drivers' `LockMigrations` |
| `Backups` | the backup loop, its rotation and the adoption after a restore | `files/backup.go`, `app/backup.go` |
| `MCFileBlobs`, `MCDavLocks`, `MCNextcloud` | symmetry sets and constants TLC needs | |
| `Database` | `Migrations`, `Backups` and `Rows` together, for their run and their proofs | |
| `Stores` | `S3Store` and `DiskStore` together, for the same | |
| `Outside` | `Lookups`, `Nextcloud` and `Incoming` together, for the same | |
| `TreeEngines` | `Engines` with what its run and its proofs say of it | |
| `MCComponents`, `MCServices`, `MCPasses` | components that share no state, side by side | |
| `FileBlobsProofs`, `FileTreeProofs`, `DavLocksProofs`, `UploadsProofs`, `IndexerProofs`, `SyncProofs`, `PassesProofs`, `DatabaseProofs` | theorems (section 5) | |

`MCComponents`, `MCServices` and `MCPasses` INSTANCE several modules. Each
behaviour is of the component that `which` names and the others stay as they
began, so the state space is the sum of theirs and one run checks all of them.
`MCServices` extends `Database`, `Stores` and `Outside`, `MCComponents` extends
`TreeEngines`, and their theorems are
about the behaviours of each component's own `Spec`; a behaviour of the run is
one of them or leaves their variables alone.

### FileBlobs

`files` is the table as path to blob key, `trash` the table of deleted rows
(`owned` is false for what the sweep filed as nobody's), `stored` and `age` the
objects of the store with their modification times. A request walks through
`pc`: it stores (`WriteBlob`, `CopyBlob`, `CompleteUpload`), commits
(`CommitWrite`, `CommitCopy`), or fails to (`CommitFails`, then `Undo` deletes
what it stored), and drops what it superseded (`Drop`, `DropFails`). `Move`,
`Remove`, `Restore` and `Adopt` are single transactions. The collector is the
`loop`: `ListExpired`, `EmptyBatch`, `EmptyDrop`, then `ReadBlobKeys`,
`ReadTrashKeys`, `ListStore`, `TrashOrphans`, each of which may fail. `Crash`
drops everything in memory.

Time is counted in ticks and each age saturates at the value the code compares
it with. `MaxLag`, `MaxRead` and `MaxIdle` bound how long a request or the
sweep dwells between steps; without a bound no grace period would be enough,
and the theorem says how they must relate to it.

### FileTree

A row is `Dir` or the key of a file, which also serves as its ETag. A
transaction is one step. Everything a handler reads outside of one is a step of
its own: the Stat before a PUT, each Stat of `MkdirAll`, each candidate of
`FreeName`, the listing of every directory of a copy, the look at a MOVE's
destination and the removal of it. `"sunset (2).jpg"` is the pair of a base
name and a number.

### Uploads

The client's file is the bytes `1..Size`; a chunk sent at an offset holds the
bytes that belong there. A running hash is the sequence of bytes fed to it, so
comparing digests is comparing sequences. The staging file and the published
blob are one inode, because a writer that has it open keeps writing after the
rename. `synced` is what survives the machine.

### Indexer

A write commits (`Write`) and is announced later (`Announce`), or never
(`Unannounced`: the process or the path does not announce). `notices` never
blocks: what does not fit sets `lost`. The loop queries, extracts, records, and
waits. The query picks files with no verdict, a verdict about other bytes, or
one that is due again.

### DavLocks

Each call of the lock system is a step under its mutex. A request without an If
header takes a brief lock on each path it writes; one with an If header claims
the lock whose token it names, and takes a brief one on the end the token does
not cover. A lock nobody holds may expire at any moment, which covers every
timeout and makes a refresh a stutter.

### Sync

One calendar that may be deleted and made again. With `Serial`, a transaction
has the write lock from its beginning (SQLite); without it, what a transaction
reads comes before the statement that takes the lock (PostgreSQL, MySQL). A
report is the reads it is made of: calendar, changes, then every member. The
address books have the same tables, counters and reads, so the module stands
for both. `Overtaken` lets a prune commit between the two reads of a sync.

### Streaming, Thumbs

A request of `Streaming` is a job with a place (`at`) in its handler, beside
the ffmpeg process it started, what that process has written and whether its
client has gone; `slots`, `encodeSlots` and `grants` are the counters and
tokens, `kept` the segments in the store. A `Thumbs` request (`asker`) and the
`pass` walk the same code: look, read the note, queue, decode, record, store.
`note` is a refusal beside the picture, keyed by the bytes; `row` the one on
the media row. A week is one step, in which notes get old.

### Two specifications of one thing

Three modules state what a component promises and are implemented by others,
step by step, through `INSTANCE … WITH` a mapping of their variables:
`Opinions` by `Annotations` (rows to opinions), `Store` by `DiskStore` and by
`S3Store` (files, parts and tails to objects and offsets), `Repository` by
`Rows` (tables to what a path holds). TLC checks that every step of the
detailed module is a step of the abstract one or a stutter
(`SaysWhatWasSaid`, `StoresImplementThePort`, `DriversImplementTheSuite`). The last
two are also proved (section 5), for any keys, pieces, paths and rows.

`Store` has the calls that are under way (`calls`): a put, a delete, a completion
or an abort takes effect at most once, and only between its request and its
answer. An object that goes with no delete of its key under way is therefore no
step of the port. On the directory a call is under way until its rename or its
first `Remove`; what a delete prunes afterwards it was not asked for. On the
bucket `asked` is what a request has asked of the service and not yet had.


## 3. Runs

| Run | Checks | Bounds | What it shows |
|---|---|---|---|
| `blobs` | `LiveRowsHaveBlobs`, `TrashCanBeRestored`, `OneRowPerBlob`, `UnaccountedIsUnclaimed` | 2 paths, 3 keys, 2 requests, 1 deletion, grace 3 > lag 1 + read 1 | No interleaving of two requests with each other and the collector takes bytes a row or a deletion needs. |
| `blobs_live` | `OrphansAreFreed` | 1 own and 1 foreign key, 1 request, 1 crash | Whatever a crash or a refused delete leaves behind is freed, with imports going on. |
| `restore_between_reads` | `LiveRowsHaveBlobs` | 1 request, 2 deletions, restores allowed between the two key reads | violated: finding 1 |
| `tree` | `TreeClosed`, `DeletionIsATree`, `OnlyReplacingLoses` | depth 2, 2 names per directory, 2 keys, 1 request in steps, every statement of others in between | The tree stays a tree, deletions stay restorable, only an overwrite, a copy or a destruction loses content. |
| `uploads` | `PublishedIsWhole`, `ResumesFromItsFile`, `UploadsEnd` | 3 bytes, 4 chunks, 2 crashes, one PATCH at a time | Broken off, lost or repeated at any byte, what is published is the client's file and its digest; every upload ends. |
| `indexer` | `VerdictIsFromTheBytes`, `EveryFileIsDescribed` | 2 files, 3 writes, channel of 1, batch of 2, 1 outage or restart | No outage or stale read becomes the last word; every file that stays is described. |
| `dav_locks` | `ForeignLocksRefuse`, `OneWriterPerPath`, `NothingStaysHeld` | 3 paths (two nested), 1 token, 2 requests | While a request writes, its paths are its own, and every way out gives back what was taken. |
| `sync` | `NoChangeIsMissed`, `ConditionHoldsAtWrite`, `ClientsCatchUp` | 2 names, 2 writers, 1 client, 3 writes, 2 ticks, calendar made twice | A change below a client's token is one it was told of; a client that keeps asking has the calendar in the end. |
| `import_hangs` | `EveryImportEnds` | 2 workers, a batch of 4, 2 faults | violated: finding 2 |
| `components` | `PlansKeepTheirPromises`, `SegmentsAreServed` (`Playback`); `ListingsAreComplete` (`Listing`); `TransactionsHold` (`Engines`); `PathsMeanWhatTheySay` (`Paths`); `SaysWhatWasSaid` (`Annotations` as `Opinions`); `EditsAreApplied` (`Playlists`, `Forms`); `LibraryAgrees` (`Library`); `SearchesAreWhole` (`Finder`) | 24 tracks, 68 films, 97 clients; 3 entries, pages of 2; 2 transactions at once; 5 folder names, 3 characters of an URL; 1 song, 2 callers; 1 playlist, 2 editors; 3 tracks of 5 tags; 1 form, 2 saves; 5 items searched by pages of 1 | Each component's promise while others change what it reads. |
| `services` | `StoresImplementThePort`, `StoresTellTheTruth` (`DiskStore`, `S3Store`); `DriversImplementTheSuite` (`Rows`); `QueuesAgree` (`Rows`); `LookupsKeepTheirPlace` (`Lookups`); `ImportsAreWhole` (`Nextcloud`, `Incoming`); `DatabaseIsKept` (`Migrations`, `Backups`) | an upload of 4 bytes in parts of 3, 2 failures; 2 writers, 2 keys, one a folder further down in the other's; 2 rows, 2 puts; 2 recordings; 2 import workers, batches of 2; 5 arrivals; 3 instances of 2 builds, 2 stops; 4 backups, 2 kept | What the components stand on: stores, rows, queues, imports, migrations, backups. |
| `passes` | `NothingLeaks`, `KeptIsWhole`, `RefusalsAreHonest`, `EveryRequestEnds`, `EveryPhotoIsTried` | 2 stream requests, 1 slot of each kind; 2 photos, 1 asker beside the pass, 1 decoder, queue of 1, 1 overwrite, 1 week | Slots, tokens, processes and places are given back on every way out; a refusal is about the bytes there are; everything that is asked ends. |

Why these bounds are enough to mean something. Three keys are one that is
displaced, the one that displaces it, and a third in flight; with fewer, a
request always waits for a key. Two requests are what every race here takes. A
depth of two has a file, its directory and a name beside it; a third level
repeats the second. Three bytes have a chunk before, at and after a break. A
channel of one overflows with two files, and a slot, a decoder or a place of
one is contended by two. Two ticks and a retention of zero prune the older of
two tombstones and not the younger. Four bytes in parts of three are a part and
a tail, and a tail that becomes part of one. A page of one or two has a border
between any two entries. Three instances of two builds have one that is newer
waiting for one that is older, and one that waits for its own kind. Four
backups of which two are kept rotate twice. What the bounds leave open for the
components with theorems, the theorems close.

`Services.cfg` gives a `VIEW`: `Rows` keeps what the last step was (`call`,
`result`) for the refinement to read, and two states that differ in nothing
else go on alike. `CHECK_DEADLOCK FALSE` is said where everything may be over
or a bound of the model ends it: `Uploads`, `DavLocks` (each token is given out
once), `Components`, `Services`, `Passes`, and the run whose finding is a
hang, which is stated as a liveness property.

### Fairness

- `FileBlobs!Fairness`: a request in flight takes its next step or fails (WF),
  because handlers do not wait for each other and every call has a context that
  ends. The collector loop takes its next step (WF): it is a goroutine on a
  ticker. Its reads, the listing, the filing and each delete are SF: each may
  be refused by the database or the store, but not for ever. Clock ticks are SF
  since the bounds on lag hold the clock while a request is at its limit.
- `Uploads!FairSpec`: time passes (WF), and the collector's calls succeed in
  the end (SF). Nothing is asked of the client.
- `Indexer!FairSpec`: the ticker fires and the query and the record succeed in
  the end (SF); a retry becomes due, extraction ends and an outage ends (WF).
- `Sync!FairSpec`: clients keep asking and not every answer is lost (SF on the
  steps of a report).
- `Streaming!Fairness`: a handler takes its next step and an ffmpeg process
  writes on or ends (WF); nothing is asked of the client but that it reads or
  goes away.
- `Thumbs!Fairness`: a request and the pass take their next step (WF); since
  both draw from one pool of decoders, drawing and storing by the pass are SF;
  the sweep takes old notes (WF).
- `Nextcloud!FairSpec`: whoever can proceed does (WF).

## 4. Findings

1. `files/collect.go:228`. Collect reads the live keys and then the trashed
   keys. A Restore that commits in between is in neither, so a live blob is
   filed as nobody's and destroyed a month later. (`restore_between_reads`)
2. `nextcloud/import.go:270`. A worker that meets an error returns and nobody
   takes its place; when all have, the loop that hands out the next file sends
   on an unbuffered channel for ever. (`import_hangs`; with fewer faults than
   workers the import ends.)

### Known limits

Properties that hold only within limits the code does not enforce, or not at
all. The values to give, and the property to check instead of the run's, are in
the header comment of the configuration named; TLC finds the violation in
seconds to minutes.

| Configuration | Property | What happens |
|---|---|---|
| `FileBlobs.cfg` | `LiveRowsHaveBlobs`, `LostAcks` | a commit that landed and answered an error has its blob deleted (files.go:212) |
| | …, `MaxIdle = 2` | a finished upload keeps its last append's time: finished after the grace period, it is born old (disk.go:419) |
| | …, `CleanImport = FALSE` | an import run again after a file was moved gives its blob two rows (adopt.go:48) |
| `FileTree.cfg` | `ConditionHoldsAtCommit` | the condition is checked before the body is read (dav.go:230) |
| | `ShareReplacesNothing` | the free name is taken before the share writes it (share_target.go:120) |
| | `ClearingSparesTheSource` | MOVE onto a directory its source is in deletes both, then is refused; the deletion is in the trash (dav.go:325) |
| `DavLocks.cfg` | `MembersAreProtected` | deleting a collection does not look for locks on its members |
| | `ReserveReplacesNothing` | LOCK looks for an empty path before it holds the lock |
| | `ForeignLocksRefuse`, `BriefExpires` | a comment says a request's own lock is renewed while it runs; nothing renews it (locks.go:527) |
| `Uploads.cfg` | `FinishedIsPublished` | a request may end between the last offset and the publication; the next PATCH publishes (tus.go:215) |
| | `HashMatchesOffset`, `Guesses` | a client that sends at an offset it was never told |
| | `PublishedIsWhole`, two PATCHes | both pass the comparison with the file's size and both append (disk.go:354) |
| | `OffsetSurvives` | a chunk that breaks off is not synced, and its length is saved (disk.go:379) |
| | `CollectedIsAbandoned` | an upload renewed after the list was read is collected (files/upload.go:230) |
| `Sync.cfg` | `ConditionHoldsAtWrite`, `PrunedOnlyRises`, `NoChangeIsMissed` with `Serial = FALSE` | on PostgreSQL and MySQL the precondition's read locks nothing, and times and tokens of two deletions may be in different orders, so a prune forgets a deletion above the mark |
| | `NoChangeIsMissed`, `Overtaken` | a prune commits between the read of the mark and the read of the changes |
| `Indexer.cfg` | `EveryFileIsDescribed`, `VerdictIsFromTheBytes` with `SameBytes` | the same bytes written again while the old blob is being read leave a verdict of the old blob under an ETag that is still right |
| `Components.cfg` | `MovesTheBranch` | LIKE and SUBSTR count characters where the code counts bytes, and match other case (sqlite.go:1035, mysql.go:990, postgres.go:881) |
| | `DecisionsAreRedeemed` | a FLAC decision is refused when it is taken |
| | `DrawnFormsAreSound` | a card with a display name, an empty N and no organization cannot be saved as it is |
| | `PostgresRestoresWhole` | under read committed a restore and a destruction of one deletion each get a part |
| | `CollectionAnswers` | the collection of playlists fails if one is deleted while it is listed |
| | `ListedAlbumsHaveAPlace`, `GoneAlbumsAreGone`, `ArtistNamesAreStable` | names of generated folders change with what else is in the library (names.go:28) |
| | `EditsAreApplied`, `Stamped = FALSE` | a document written back to what it was passes for unchanged (contactedit.go:20) |
| | `SongsStay` | an entry whose file goes away is forgotten by the next edit |
| | `TagsAreFound`, `ScopeIsExact` | MySQL's index passes over short words; SQLite's LIKE ignores ASCII case |
| `Services.cfg` | `WordsAreOfTheirBytes` | lyrics found by the tags of bytes since replaced (lookup.go:313) |
| | `TimelineAnswers` | the two statements of PutMedia (sqlite.go:354) |
| | `FailureLeavesTheLastVersion` | a migration that fails halfway on MySQL stays half applied (migrate.go:48) |
| | `ImportsAreWhole`, `SlowWriters` | a writer that pauses for a whole interval is taken for done |
| | `IdentityIsKept` | an album that was identified may lose its identity when it is looked up again (db/lookup.go:42) |
| | `LiveUploadsSurvive` | the bucket's rule ends an upload that is alive |
| | `StoresImplementThePort`, two requests | two requests at once for one S3 upload |
| | `StoresImplementThePort`, `MCNestedKeys` | the prune after a delete removes an object that was put under the name of the folder it prunes (disk.go:237); none of the program's keys is another's folder: a blob's ends in a random name under kind, year, month and day, a derived one is `derived/`, a blob's key and a file name, an adopted one stands in no folder |
| | `NeverOnTheFuture` | on MySQL the row of a migration that ends with DDL is there before its run has ended; a run that lost its lock comes up after another has gone on (mysql/migrate.go) |
| | `DatabaseIsKept`, `RestoresBetween` | a restore between AdoptBackups' two reads gives a backup two rows |
| `Passes.cfg` | `KeptIsWhole`, `MidwayDeaths` | an ffmpeg that dies midway ends its output like one that is done (encode.go:361) |
| | `EveryPhotoIsTried`, `LostPhotos` | photographs whose bytes are gone stay at the head of the queue and nothing behind them is tried |

## 5. Proofs

TLC checks the instances above; the theorems hold for every value of the
constants. A theorem about a property of a run names that property.

| Theorem | Property | Beyond the constants' types, it assumes |
|---|---|---|
| `FileBlobsProofs!TypeCorrect` | `TypeOK` | |
| `FileBlobsProofs!FilesAreSafe` | `LiveRowsHaveBlobs` | `Prudent` |
| `FileBlobsProofs!TrashIsSafe` | `TrashCanBeRestored` | `Prudent` |
| `FileBlobsProofs!BlobsAreNotShared` | `OneRowPerBlob` | `Prudent` |
| `FileBlobsProofs!SweepTakesOnlyOrphans` | `UnaccountedIsUnclaimed` | `Prudent` |
| `FileTreeProofs!TreeTypeCorrect`, `TreeInvariant` | `TypeOK`, `FInv` | |
| `FileTreeProofs!TreeStaysClosed` | `TreeClosed` | |
| `FileTreeProofs!DeletionsAreTrees` | `DeletionIsATree` | |
| `FileTreeProofs!ContentIsKept` | `OnlyReplacingLoses` (action) | |
| `DavLocksProofs!LocksTypeCorrect` | `TypeOK` | |
| `DavLocksProofs!NothingIsLeftLocked` | `NothingStaysHeld` | |
| `DavLocksProofs!GateKeepsOthersOut` | `ForeignLocksRefuse` | no brief lock expires under its request |
| `DavLocksProofs!WritersAreApart` | `OneWriterPerPath` | the same |
| `UploadsProofs!UploadsAreTyped` | `TInv` | |
| `UploadsProofs!WhatIsPublishedIsWhole` | `PublishedIsWhole` | `OneByOne`: a client that waits for its answer and sends at offsets it was told |
| `UploadsProofs!UploadsResumeFromTheirFile` | `ResumesFromItsFile` | `OneByOne` |
| `IndexerProofs!IndexerTypeCorrect` | `TypeOK` | |
| `IndexerProofs!VerdictsAreFromTheBytes` | `VerdictIsFromTheBytes` | every write brings bytes of its own |
| `SyncProofs!TablesInvariant` | `TablesHold` | transactions are serial (SQLite) |
| `SyncProofs!NoClientMissesAChange` | `NoChangeIsMissed` | the same, and no prune between the two reads of a sync |
| `SyncProofs!ConditionsHoldWhenWritten` | `ConditionHoldsAtWrite` (action) | transactions are serial |
| `SyncProofs!TheMarkOnlyRises` | `PrunedOnlyRises` (action) | transactions are serial |
| `PassesProofs!StreamsTypeCorrect` | `Streaming!TypeOK` | |
| `PassesProofs!NothingStaysTaken` | `NothingLeaks` | |
| `PassesProofs!SegmentsAreKeptWhole` | `KeptIsWhole` | ffmpeg does not die midway unnoticed |
| `PassesProofs!RefusalsStayHonest` | `RefusalsAreHonest` | |
| `PassesProofs!DecodersAreBounded` | no more decodes than allowed, the queue within its limit | |
| `DatabaseProofs!BackupsInvariant` | `BInv` | at least one backup is kept, and no restore comes between the reads of `AdoptBackups` |
| `DatabaseProofs!MigrationsInvariant` | `MInv` | |
| `DatabaseProofs!DatabaseStaysKept` | `DatabaseIsKept` (with its action properties) | for the backups, as above |
| `UploadsProofs!DiskInvariant` | `DInv` | |
| `UploadsProofs!BucketInvariant` | `SInv` | one request at a time for each upload, as the upload handler makes them |
| `UploadsProofs!TheStoresAreThePort` | `StoresImplementThePort` (action) | on the bucket, the same; in the directory, no key is another's folder (`KeysApart`) |
| `UploadsProofs!TheStoresTellTheTruth` | `StoresTellTheTruth` | on the bucket, the same |
| `DatabaseProofs!FolderInvariant` | `FolderInv` | no program pauses for a whole interval in the middle of a file (`~SlowWriters`) |
| `DatabaseProofs!ImportsStayWhole` | `ImportsAreWhole` | the same |
| `DatabaseProofs!CloudInvariant` | `CloudInv` | |
| `DatabaseProofs!MusicInvariant` | `MusicInv` | |
| `DatabaseProofs!LookupsStayInPlace` | `LookupsKeepTheirPlace` | |
| `SyncProofs!RowsInvariant` | `RInv` | |
| `SyncProofs!TheDriversImplementTheSuite` | `DriversImplementTheSuite` (action) | |
| `SyncProofs!TheQueuesAreTheSuites` | `QueuesAgree` | |
| `FileTreeProofs!TransactionsInvariant` | `TransactionsInv` | |
| `FileTreeProofs!TransactionsAreKept` | `TransactionsHold` | |
Each assumption is one the code relies on and does not enforce, and each is
needed: the known limits above have the values with which it fails.

**FileBlobs.** `Prudent`: the grace period is longer than an upload's idle end
plus a commit's lag plus the sweep's reads; no restore commits between the
sweep's two key reads; a commit that answers an error has not landed; an import
adopts only blobs nobody claims. Call a key *claimed* if a row, a deletion or a
write in flight names it, and *condemned* if somebody is going to delete it: a
request that superseded it, the emptying of the trash, the sweep's list, or the
trash of nobody. `LiveRowsHaveBlobs` is not inductive, because a delete step
only knows that its key is condemned. The inductive invariant `IndInv` adds
`Present` (what is claimed is stored), `Apart` (nothing is claimed and
condemned), `InFlightOnce` (one write holds a key, and no row does yet), and,
for the step at which the sweep condemns, time: `HeldYoung` (a held blob is no
older than its request's lag plus the idle time it may bring along) and
`SweepCovers` (between the sweep's first read and its listing, every live key
is in `referenced` or younger than the grace period). `AtRest` says that who is
idle holds nothing. The proof goes action by action, with lemmas for what
several actions share.

**FileTree.** `TreeClosed` and `DeletionIsATree` need each other: a restore
puts a deletion back under its root's parent, and a deletion takes a branch of
a closed tree. `FInv` adds `Once` (a deletion holds a path once) and `Planned`
(the plan of a copy is a tree under its destination, and a directory that is
still to be listed has nothing under it yet), without which the transaction of
a copy could write a row whose directory it does not write. `TreeSteps` reduces
every action to six shapes of change (a row put under a directory, a row and
its branch taken out, a branch moved, a branch landed in an empty place, the
rows of a copy, nothing), and closedness is proved once for each. What a path
is, its depth, its parent and what moving a branch makes of it are lemmas about
sequences, from which everything about ancestors follows.

**DavLocks.** `ForeignLocksRefuse` says that the locks over the paths a request
is writing are its own. To be inductive it needs `Exclusive` (no two locks cover
one path), `Phase` (what a request holds and claims at each place, of which
lock, on which end of a MOVE), `ClaimsApart` (a held token is claimed by one
request), `ReservesApart` (a token being given out is nobody else's). Two
writers of one path would each have a lock over it, so they would have one
lock, and a lock is claimed once.

**Uploads.** `UInv` says where every byte and every running hash comes from:
the staging file begins the client's file; the row's hash is of a beginning no
shorter than any offset told; a request that has read the row has what is there
now, and its hash follows the row's if it began at the row's offset; a request
whose copy failed may have hashed bytes it did not keep, and then the counts
that `upload.go:121` compares do not add up; a request that completes has every
byte on the disk; what is published is not written again.

**Indexer.** `VerdictIsFromTheBytes` is about the media row; the invariant says
the same of everything that is on its way to it: what waits in the channel, the
batch or an attempt says the bytes of its key (`RowsApart`, `NotedByKey`), what
was dropped was replaced (`Replaced`), who found no blob looked for one that
was dropped (`TriedInVain`), so a last word that says nothing is on bytes nobody
has (`LastWords`).

**Sync.** `TablesHold` is about the tables: tokens are given out once and in
order, nothing left is below the mark, a name has an object or a tombstone, a
tombstone's time is in the order of its token, and an open transaction has
checked what it will write. For each client, `Syncing` says what its token
stands for: `CaughtUp` (the next report from it says what the client does not
know of a name, or is refused), and at each place of a report (`Asking`,
`Listing`, `Reading`, `Unread`) what has still to be read and that a change
made since is above the token that will be handed out.

**Streaming, Thumbs.** A counter is the number of those who hold one of what it
counts, and it is proved to be that for every place of a handler, process and
client (`Counted`, `CountedThumbs`, by `Follows`: a number goes with a set that
one element joins or leaves). `Placed` says what may be at each place of a
request; `PhotoFine`, `AskFine` and `PassFine` that a refusal, kept or on its
way, is of bytes that cannot be drawn and that between its two writes the note
is not old.

**Backups.** A rotation may drop a row while the user moves, destroys and puts
databases back, and the row may come back with one of them. What lasts is
`Held`: the backups in the store and those the user destroyed, but for one whose
row has not landed yet. `Spared` says of a backup that it is held or has
`BackupsKept` newer ones that are; taking one that has enough newer ones leaves
every other spared (`SparedWithout`), since the newest is never one of those.
`Sound` is said of the live database and of the copy in every backup: no two
rows name one backup and every one they name was spared, so that whichever is
put back, what the next rotation drops has enough newer ones
(`PastKeptHaveNewer`) and the moment of a new backup is named by no row
(`FreshIsUnnamed`). `Placed` says what the pass knows at each place:
`AdoptBackups` has seen every key that had a row, and a row is dropped before its
blob.

**Migrations.** `VersionMeansSchema` needs to know what every run under way has
written. `AtWork` says it: before a DDL of MySQL, what the run has written is in
its transaction; past one, each statement is in effect and the transaction is
empty; and a run that is past its last statement by itself has recorded its
version. `TxApart` (no two transactions hold one write) and `FirstToCommit` keep
a version from being committed twice on the other engines. As long as nothing
has cut a lock, `OneRuns` and `InOrder` say that one instance is at work and on
the version after the last. `NothingHalf` is for `NobodyFailsForAnother`: as long
as nothing went wrong, a statement in effect beyond the recorded versions belongs
to the run that is under way, so nobody finds a table that is already there.
Writing this proof showed that a run which lost its lock may come up on a newer
schema on MySQL; `cut` was added to the model for the property to say so, and the
scripts of the run now have a version whose row lands before its run ends.

**Directory.** `DInv` says that every key has its folders and that no folder
has the name of a key that is there, whoever makes and prunes folders meanwhile:
a folder with something in it is not removed, and nothing is renamed to where a
folder is. From it each system call is a step of the port or none. The rename and
the first `Remove` are the steps, each of a call that is under way until then. A
prune is a step of nobody's call, so it must leave the objects alone. The call it
makes would take a file as well; `KeysApart` is why it finds none, since what it
prunes is a folder above a key.

**Bucket.** An upload is its parts on the service and the tail beside them.
`SInv` says of one that nobody is at (`Whole`) that the joined parts are the
beginning of the client's file, the tail is what follows and is shorter than a
part may be, and all parts but the last are long enough for the service to join
them. `Appending` and `Completing` say what a request has in hand at each place,
so that a crash between the upload of a part and the write of the tail leaves
an offset that is kept. What the parts join to is a fold over a sequence; it is
reached through a function over the indices (`Joins`) and the least index at
which the two would differ.
`AskTypes` ties a request that waits for the service to what it asked for, so
that an object which is put or goes is one of a call under way.

**Import folder.** `FolderInv`. `FilesStand` is about the folder: a file that
nobody has open is complete. `WalkStands` is about the pass: a file that is still
open has grown since it was measured (`GrownSince`, the reason for
`~SlowWriters`), so one whose size is what it was in the pass before is complete,
and it stays so until it is taken. `LibraryStands` counts: the library has a copy
more than it should for each time a file could not be taken out of the folder
after it was stored, and for no other reason.

**Nextcloud.** `CloudInv` goes through the run. In the survey (`WalkGoes`), the
entries answered and those being asked about are as many as the place in the list
says, and unless one was bad, what is present and what is being asked about is
what the list names before that place; at the end nothing is in hand and all is
present (`SurveyStands`). In the import (`ImportStands`), the batch is the rows
just before the place, and every row before it is in the tree or was removed by
the user. `TreeStands` says that the tree is closed, that what is the user's
stays, and that a validator that was copied is of the whole file. What a
batch adopts is followed row by row, by the least row at which it would fail, and
the rows of a query are numbered in their order (`RankedAre`).

**Lookups.** `MusicInv`. `PassGoes`: a pass asks once about each album, and
within its time. `RowsStand`: an album whose cover is still wanted has a row and
is due by the longest wait, and what was heard of it is in its row.
`WordsStand` says the same of lyrics, and `CoversStand` of the picture that was
kept for an album (`NamedStand`): it is there as long as the file it is kept
beside has the same bytes, and bytes that were replaced do not come back.

**Tables.** `RInv`. `Filed` says that a path has one row, that the folder of
every row has one, and that a file's blob is its own and is its ETag; `Hashed`
that MySQL's column follows the path through a move; `Learnt` that a media row
is of a file that is there and waits to be tried again only with an error.
With one row for a path the three unique indexes answer alike (`RowsOfPath`) and
the tree of the suite can be read off the table (`TreeOf`). A move keeps all of
this because it is one-to-one on the branch (`MovingIs`), takes each parent
along, and nothing is at or below a path that has no row (`FoldersAbove`, from
the row of least depth), which the condition of `moveTree` does not say. The
counts add up because what is read, what failed and what waits are three sets
that share no file (`ThreeParts`); that a row to be retried has an error is what
keeps the first two from missing one.

**Transactions.** `TransactionsInv`. `Courses` says for each kind of transaction
and each statement what it has read, what it has written and what it has still to
do; the rows it read at its beginning are those there are on SQLite, and only
those it holds elsewhere. `Exclusive` (no two hold one row) keeps a commit
from changing what another transaction counts on. `Serial` is SQLite's: one
transaction is open, what it sees is what there is, and when it commits, the tree
is closed, the row of a file names a blob of its own and the blob is there
(`Accounts` follows the keys in use). For two transactions to wait for each other
a removal must hold a child and ask for its folder while a restore holds a folder
it made and asks for that child; if it made the folder, the child's row stood with
no folder above it.
### What is only model-checked

- The liveness properties (`OrphansAreFreed`, `UploadsEnd`,
  `EveryFileIsDescribed`, `ClientsCatchUp`, `EveryRequestEnds`,
  `EveryPhotoIsTried`): they need fairness and `ENABLED`, which the prover does
  not have.
- Properties that say what a definition by recursion or by a fold computes for
  every input: the order of a listing, the pages of a search, segments that
  tile a film, the opinions that rows fold into, and that a `Thumbs` version
  stays below its bound. They need an induction over data whose theorems take
  an operator as a parameter, which no installed prover instantiates.
- `PlansKeepTheirPromises`, `SegmentsAreServed`, `ListingsAreComplete`,
  `PathsMeanWhatTheySay`, `SaysWhatWasSaid`, `EditsAreApplied`, `LibraryAgrees`
  and `SearchesAreWhole`. Most are of that kind. Where the code makes a list of
  a set (`SetToSeq`, a sorted plan), a theorem needs the order as a function
  over indices, as `Nextcloud` and `S3Store` have it.

## 6. Abstractions

- A transaction is one step in every module but `Engines`, which has the
  statements of a transaction, and `Sync` with `Serial = FALSE`.
- Random keys and batch identifiers are any value used nowhere.
- `FileBlobs` has no directories and one user; `FileTree` has no store.
- An If header is one list with one token. Its grammar and ETag conditions are
  not modelled. The check that the token covers the request's paths is one
  step.
- `DavLocks` has the WebDAV doors only: the web interface and the import do not
  ask the lock system.
- `Sync` and `Forms`: a Put is one step after its reads; a change of only the
  end of an event rewrites its start to the minute, as the form shows it.
- What extraction, decoding or a remote service finds is one value or outcome,
  and every failure of a call is one outcome.
- The bucket is strongly consistent; a disk keeps what was synced.
- `Backups`: the rotation drops by path what it listed (backup.go:138); a path
  here is that of one backup, as its name is its time to the second.
- `Thumbs`: a kind of file that has no picture (ahead.go:76) is not in the
  library; looking whether a size or a note is there does not fail
  (ahead.go:189, thumb.go:499); the note and the record of a refusal are
  written (thumb.go:519 and thumb.go:560 log a failure and go on).
- `Playback`: a segment is named by its time to the millisecond (hls.go:73),
  and the films of the run have their keyframes on whole milliseconds.
- `Engines`: SQLite's wait for its lock ends before its timeout.
- Texts are short sequences of characters chosen where engines differ (case,
  `_`, two bytes), or numbers for words.

## 7. What else the modelling showed

Smaller facts, none of them a property of a run: a page of the grid answers 404
when one of its captures leaves its month; a thumbnail row is recorded as made
before the picture is stored; a scrobble that is repeated counts twice; an edit
of a playlist whose index is stale removes another track; children of a moved
folder may be longer than `MaxPathLen`; a rename into a directory that a delete
is pruning fails on the disk store; on PostgreSQL and MySQL, once a row has lost
its folder, a removal that goes up from it and a restore that comes down to it
may wait for each other until the engine ends one (it takes four transactions,
beyond the run's bounds); deletes from the web and over CardDAV ask
for no ETag; a file where a Nextcloud library has a folder makes every run of
its import fail.

## 8. Not modelled

- **Media probes** (`internal/media` parsers of mp4, mkv, flac, …): pure
  functions of bytes.
- **Authentication**: sessions and share links are signed values without state;
  the throttle is one bounded channel.
- **Settings**: a snapshot behind a pointer and a channel that tells the loops;
  the modelled loops take a change of interval as a tick.
- **Calendar and address book properties** (PROPPATCH), **recurrence
  expansion**, **vCard and iCalendar encoding**, **XML, JSON and HTML**,
  **compression**, **reports**, **M3U8 text**, **ffmpeg arguments**: formatting
  or arithmetic on one value.
- **Start and shutdown**: the order of the loops' end and the pause after a
  panic.

`components` in `PROJECT.json` says for every part whether it is modelled.

## 9. Plan

1. `EditsAreApplied` of `Forms` as a theorem, then `SaysWhatWasSaid`.
2. The refusals of `Thumbs` when a note or a record cannot be written.
