-------------------------------- MODULE Rows --------------------------------
(***************************************************************************)
(* The tables files, media and uploads, and the statements each of the     *)
(* three drivers sends (internal/db/sqlite, mysql, postgres).  Every call  *)
(* is its statements, and a call of one statement is one step; PutMedia is *)
(* two that nothing holds together, and the process may stop, or its       *)
(* context end, between them.                                              *)
(*                                                                         *)
(* A write is a number: the blob it has, the ETag and the mtime.           *)
(***************************************************************************)
EXTENDS Integers, Sequences, FiniteSets

CONSTANTS
  TreePaths,    \* sequences of names
  RowIds,       \* 1..n: the ids an engine gives, each once
  MaxPuts,      \* writes in a behaviour
  MaxTold,      \* verdicts on media and pictures that say something new
  Versions,     \* versions of the extractor; 1 is the one that has run
  UploadNames, Owners

VARIABLES
  vendor,       \* the driver
  filesTable,   \* id -> [path, parent, blob, etag, mtime, is_dir]
  mediaTable,   \* id -> [version, etag, error, retry, taken, sort, thumb]
  uploadsTable, \* id -> [owner, path, received]
  putting,      \* the file whose PutMedia has sent its first statement, or 0
  call,         \* the last call
  result,       \* its answer
  puts, told, lastId

rowVars == <<vendor, filesTable, mediaTable, uploadsTable, putting, call, result, puts, told, lastId>>

\* What the next step depends on.
rowView == <<vendor, filesTable, mediaTable, uploadsTable, putting, puts, told, lastId>>

NULL == 0
Vendors == {"sqlite", "mysql", "postgres"}

Init ==
  /\ vendor \in Vendors
  /\ filesTable = [i \in {} |-> 0]
  /\ mediaTable = [i \in {} |-> 0]
  /\ uploadsTable = [u \in {} |-> 0]
  /\ putting = 0
  /\ call = [op |-> "none"] /\ result = "ok"
  /\ puts = 0 /\ told = 0 /\ lastId = 0

ParentOf(p) == SubSeq(p, 1, Len(p) - 1)
Under(p, d) == Len(p) > Len(d) /\ SubSeq(p, 1, Len(d)) = d

With(f, x, v) == [y \in DOMAIN f \cup {x} |-> IF y = x THEN v ELSE f[y]]
Only(f, xs) == [y \in DOMAIN f \cap xs |-> f[y]]

\* What the driver that runs says.
Driver(sqlite, mysql, postgres) ==
  CASE vendor = "sqlite" -> sqlite [] vendor = "mysql" -> mysql [] vendor = "postgres" -> postgres

\* The unique index: over the owner and the path, or over the hash of the path,
\* a column of its own that has to follow (no two paths have one hash).
sqliteKey(row) == row.path
mysqlKey(row) == row.path_hash
postgresKey(row) == row.path

RowAt(p) == {i \in DOMAIN filesTable :
               Driver(sqliteKey(filesTable[i]), mysqlKey(filesTable[i]), postgresKey(filesTable[i])) = p}
NewId == lastId + 1

Answers(op, what) == call' = op /\ result' = what
-----------------------------------------------------------------------------
(* files                                                                   *)

FileRow(p, n) == [path |-> p, path_hash |-> p, parent |-> ParentOf(p), blob |-> n, etag |-> n, mtime |-> n, is_dir |-> FALSE]

\* What an upsert leaves at an occupied path, and whether the call says so.
sqliteUpsert(old, new) ==
  IF old.is_dir THEN [row |-> old, answer |-> "conflict"]
  ELSE [row |-> [new EXCEPT !.is_dir = old.is_dir], answer |-> "ok"]

postgresUpsert(old, new) ==
  IF old.is_dir THEN [row |-> old, answer |-> "conflict"]
  ELSE [row |-> [new EXCEPT !.is_dir = old.is_dir], answer |-> "ok"]

\* No WHERE: each column keeps its value when the row is a folder, and a second
\* statement reads whether it was.
mysqlUpsert(old, new) ==
  LET If(column) == IF old.is_dir THEN old[column] ELSE new[column]
      row == [old EXCEPT !.blob = If("blob"), !.etag = If("etag"), !.mtime = If("mtime")]
  IN [row |-> row, answer |-> IF row.is_dir THEN "conflict" ELSE "ok"]

Upsert(old, new) == Driver(sqliteUpsert(old, new), mysqlUpsert(old, new), postgresUpsert(old, new))

PutFile(p) ==
  /\ puts < MaxPuts
  /\ puts' = puts + 1
  /\ \/ \E i \in RowAt(p) :
          LET got == Upsert(filesTable[i], FileRow(p, puts + 1))
          IN /\ filesTable' = [filesTable EXCEPT ![i] = got.row]
             /\ Answers([op |-> "PutFile", path |-> p, bytes |-> puts'], got.answer)
             /\ UNCHANGED lastId
     \/ /\ RowAt(p) = {} /\ NewId \in RowIds /\ lastId' = NewId
        /\ filesTable' = With(filesTable, NewId, FileRow(p, puts + 1))
        /\ Answers([op |-> "PutFile", path |-> p, bytes |-> puts'], "ok")
  /\ UNCHANGED <<vendor, mediaTable, uploadsTable, putting, told>>

DirRow(p) == [FileRow(p, 0) EXCEPT !.is_dir = TRUE]
sqliteDir(p) == DirRow(p)
mysqlDir(p) == DirRow(p)
postgresDir(p) == DirRow(p)

\* A plain insert: the unique index is what refuses.
CreateDir(p) ==
  /\ \/ /\ RowAt(p) # {}
        /\ Answers([op |-> "CreateDir", path |-> p], "conflict")
        /\ UNCHANGED <<filesTable, lastId>>
     \/ /\ RowAt(p) = {} /\ NewId \in RowIds /\ lastId' = NewId
        /\ filesTable' = With(filesTable, NewId, Driver(sqliteDir(p), mysqlDir(p), postgresDir(p)))
        /\ Answers([op |-> "CreateDir", path |-> p], "ok")
  /\ UNCHANGED <<vendor, mediaTable, uploadsTable, putting, puts, told>>

\* RowsAffected: the rows a statement matched, changed or not.  MySQL would
\* count the changed ones, but for clientFoundRows.
sqliteAffected(matched, changed) == Cardinality(matched)

\* Mutant: MySQL counts the rows a statement changed.
mysqlAffectedChanged(matched, changed) == Cardinality(changed)

mysqlAffected(matched, changed) == Cardinality(matched)
postgresAffected(matched, changed) == Cardinality(matched)

Affected(matched, changed) ==
  Driver(sqliteAffected(matched, changed), mysqlAffected(matched, changed), postgresAffected(matched, changed))

\* Nothing changed: not there, or a folder that is not empty.
CheckAffected(n, p) ==
  IF n > 0 THEN "ok" ELSE IF \E i \in RowAt(p) : filesTable[i].is_dir THEN "conflict" ELSE "missing"

\* NOT EXISTS a child.
Childless(p) == {i \in RowAt(p) : ~\E j \in DOMAIN filesTable : filesTable[j].parent = p}
sqliteDeleted(p) == Childless(p)
mysqlDeleted(p) == Childless(p)
postgresDeleted(p) == Childless(p)

\* With what hangs on the row: ON DELETE CASCADE.
DeleteFile(p) ==
  LET gone == Driver(sqliteDeleted(p), mysqlDeleted(p), postgresDeleted(p))
  IN /\ filesTable' = Only(filesTable, DOMAIN filesTable \ gone)
     /\ mediaTable' = Only(mediaTable, DOMAIN filesTable \ gone)
     /\ Answers([op |-> "DeleteFile", path |-> p], CheckAffected(Affected(gone, gone), p))
     /\ UNCHANGED <<vendor, uploadsTable, putting, puts, told, lastId>>

\* moveTree, of a row under the folder: parent_path is made from parent_path,
\* and MySQL's hash from the path just assigned.
Rebased(p, from, to) == to \o SubSeq(p, Len(from) + 1, Len(p))
sqliteMoved(row, from, to) == [row EXCEPT !.path = Rebased(row.path, from, to), !.parent = Rebased(row.parent, from, to)]
postgresMoved(row, from, to) == [row EXCEPT !.path = Rebased(row.path, from, to), !.parent = Rebased(row.parent, from, to)]

mysqlMoved(row, from, to) ==
  [row EXCEPT !.path = Rebased(row.path, from, to), !.path_hash = Rebased(row.path, from, to),
              !.parent = Rebased(row.parent, from, to)]

\* moveOne and moveTree, in the transaction of the files service.
MoveFile(from, to) ==
  LET Moved(row) ==
        CASE row.path = from -> [row EXCEPT !.path = to, !.path_hash = to, !.parent = ParentOf(to)]
          [] Under(row.path, from) -> Driver(sqliteMoved(row, from, to), mysqlMoved(row, from, to), postgresMoved(row, from, to))
          [] OTHER -> row
      answer == CASE to = from \/ Under(to, from) -> "conflict"
                  [] RowAt(from) # {} /\ RowAt(to) # {} -> "conflict"
                  [] OTHER -> CheckAffected(Affected(RowAt(from), RowAt(from)), from)
  IN /\ filesTable' = IF answer = "ok" THEN [i \in DOMAIN filesTable |-> Moved(filesTable[i])] ELSE filesTable
     /\ Answers([op |-> "MoveFile", path |-> from, to |-> to], answer)
     /\ UNCHANGED <<vendor, mediaTable, uploadsTable, putting, puts, told, lastId>>
-----------------------------------------------------------------------------
(* media                                                                   *)

Untried == [state |-> "untried", blob |-> 0, generation |-> 0, old |-> FALSE]

\* An upsert writes what extraction found, and leaves sort_at and the four
\* columns of the picture; a foreign key with no parent is a file that is gone.
MediaUpsert(id, new) ==
  IF id \in DOMAIN mediaTable
  THEN [new EXCEPT !.sort = mediaTable[id].sort, !.thumb = mediaTable[id].thumb] ELSE new

sqlitePutMedia(id, new) == MediaUpsert(id, new)
mysqlPutMedia(id, new) == MediaUpsert(id, new)
postgresPutMedia(id, new) == MediaUpsert(id, new)

StoredMedia(id, new) == Driver(sqlitePutMedia(id, new), mysqlPutMedia(id, new), postgresPutMedia(id, new))

\* What an indexer may hand in: of a row it read some time ago.
PutMedia(id, etag, version, error, retry, taken) ==
  /\ putting = 0
  /\ told < MaxTold /\ told' = told + 1
  /\ LET new == [version |-> version, etag |-> etag, error |-> error, retry |-> retry,
                 taken |-> taken, sort |-> NULL, thumb |-> Untried]
         named == [op |-> "PutMedia", id |-> id, etag |-> etag, version |-> version, error |-> error, retry |-> retry]
     IN \/ /\ id \in DOMAIN filesTable
           /\ mediaTable' = With(mediaTable, id, StoredMedia(id, new))
           /\ putting' = id
           /\ Answers(named, "ok")
        \/ /\ id \notin DOMAIN filesTable
           /\ Answers(named, "missing")
           /\ UNCHANGED <<mediaTable, putting>>
  /\ UNCHANGED <<vendor, filesTable, uploadsTable, puts, lastId>>

\* sortAt: the time the camera says, or the file's own.
SortMedia ==
  /\ putting # 0
  /\ mediaTable' = IF putting \in DOMAIN mediaTable
                   THEN [mediaTable EXCEPT ![putting].sort =
                           IF mediaTable[putting].taken # NULL THEN mediaTable[putting].taken ELSE filesTable[putting].mtime]
                   ELSE mediaTable
  /\ putting' = 0
  /\ UNCHANGED <<vendor, filesTable, uploadsTable, call, result, puts, told, lastId>>

\* The second statement is never sent, or fails.
Cut ==
  /\ putting # 0
  /\ putting' = 0
  /\ UNCHANGED <<vendor, filesTable, mediaTable, uploadsTable, call, result, puts, told, lastId>>

PutThumbVerdict(id, blob, state) ==
  LET thumb == [state |-> state, blob |-> blob, generation |-> 1, old |-> FALSE]
      matched == {id} \cap DOMAIN mediaTable
      changed == {i \in matched : mediaTable[i].thumb # thumb}
  IN /\ told + Cardinality(changed) <= MaxTold /\ told' = told + Cardinality(changed)
     /\ mediaTable' = [i \in DOMAIN mediaTable |-> IF i \in matched THEN [mediaTable[i] EXCEPT !.thumb = thumb] ELSE mediaTable[i]]
     /\ Answers([op |-> "PutThumbVerdict", id |-> id, blob |-> blob, state |-> state],
             IF Affected(matched, changed) = 0 THEN "missing" ELSE "ok")
     /\ UNCHANGED <<vendor, filesTable, uploadsTable, putting, puts, lastId>>
-----------------------------------------------------------------------------
(* uploads                                                                 *)

\* On a conflict only what an append changes.
UploadUpsert(old, new) == [old EXCEPT !.received = new.received]
sqliteUpload(old, new) == UploadUpsert(old, new)
mysqlUpload(old, new) == UploadUpsert(old, new)
postgresUpload(old, new) == UploadUpsert(old, new)

PutUpload(u, owner, path, received) ==
  /\ LET new == [owner |-> owner, path |-> path, received |-> received]
     IN /\ uploadsTable' = With(uploadsTable, u,
                             IF u \notin DOMAIN uploadsTable THEN new
                             ELSE LET old == uploadsTable[u]
                                  IN Driver(sqliteUpload(old, new), mysqlUpload(old, new), postgresUpload(old, new)))
        /\ Answers([op |-> "PutUpload", id |-> u, upload |-> new], "ok")
  /\ UNCHANGED <<vendor, filesTable, mediaTable, putting, puts, told, lastId>>

UploadByID(u, owner) == u \in DOMAIN uploadsTable /\ uploadsTable[u].owner = owner

DeleteUpload(u, owner) ==
  /\ uploadsTable' = IF UploadByID(u, owner) THEN Only(uploadsTable, DOMAIN uploadsTable \ {u}) ELSE uploadsTable
  /\ Answers([op |-> "DeleteUpload", id |-> u, owner |-> owner], "ok")
  /\ UNCHANGED <<vendor, filesTable, mediaTable, putting, puts, told, lastId>>

\* A file that was read and has a time in it, one that cannot be read, and one
\* whose bytes did not come.
Verdicts == {[error |-> "", retry |-> NULL, taken |-> 9], [error |-> "bad", retry |-> NULL, taken |-> NULL],
             [error |-> "away", retry |-> 1, taken |-> NULL]}

\* The queues hand out files; one may be gone by the time it is written about.
Handed == {id \in 1..lastId : id \in DOMAIN filesTable => ~filesTable[id].is_dir}

\* requireParent: the files service looks for the folder first.
ParentThere(p) == Len(p) = 1 \/ \E i \in RowAt(ParentOf(p)) : filesTable[i].is_dir

Next ==
  \/ /\ uploadsTable = [u \in {} |-> 0]
     /\ \/ \E p \in TreePaths : (ParentThere(p) /\ (PutFile(p) \/ CreateDir(p))) \/ DeleteFile(p)
        \/ \E p, q \in TreePaths : ParentThere(q) /\ MoveFile(p, q)
        \/ \E id \in Handed, etag \in 1..puts, said \in Verdicts :
             PutMedia(id, etag, 1, said.error, said.retry, said.taken)
        \/ SortMedia \/ Cut
        \/ \E id \in Handed, blob \in 1..puts, state \in {"made", "refused"} : PutThumbVerdict(id, blob, state)
  \/ /\ filesTable = [i \in {} |-> 0]
     /\ \E u \in UploadNames, owner \in Owners :
          \/ \E p \in TreePaths, received \in 0..1 : PutUpload(u, owner, p, received)
          \/ DeleteUpload(u, owner)

Spec == Init /\ [][Next]_rowVars
-----------------------------------------------------------------------------
(* The queries.                                                            *)

Null(i) == i \notin DOMAIN mediaTable      \* of the LEFT JOIN
Live == {i \in DOMAIN filesTable : ~filesTable[i].is_dir}

\* Mutant: an overwrite does not put a file back in the queue.
DueWithoutETag(i, version, now) ==
  Null(i) \/ mediaTable[i].version < version \/ (mediaTable[i].retry # NULL /\ mediaTable[i].retry <= now)

Due(i, version, now) ==
  Null(i) \/ mediaTable[i].version < version \/ mediaTable[i].etag # filesTable[i].etag
          \/ (mediaTable[i].retry # NULL /\ mediaTable[i].retry <= now)
sqliteDue(i, version, now) == Due(i, version, now)
mysqlDue(i, version, now) == Due(i, version, now)
postgresDue(i, version, now) == Due(i, version, now)

PendingMedia(version, now) ==
  {i \in Live : Driver(sqliteDue(i, version, now), mysqlDue(i, version, now), postgresDue(i, version, now))}

\* Of the rows the extractor has written.
Undrawn(i, generation, stale) ==
  LET thumb == mediaTable[i].thumb
  IN \/ thumb.state = "untried" \/ thumb.generation # generation \/ thumb.blob # filesTable[i].blob
     \/ thumb.state = "refused" /\ stale
sqliteUndrawn(i, generation, stale) == Undrawn(i, generation, stale)
mysqlUndrawn(i, generation, stale) == Undrawn(i, generation, stale)
postgresUndrawn(i, generation, stale) == Undrawn(i, generation, stale)

PendingThumbs(generation, stale) ==
  {i \in DOMAIN mediaTable : Driver(sqliteUndrawn(i, generation, stale), mysqlUndrawn(i, generation, stale),
                                    postgresUndrawn(i, generation, stale))}

\* MediaCounts, one walk over the files: no comparison with a row that is not
\* there is true.
Current(i, version) == ~Null(i) /\ mediaTable[i].version >= version /\ mediaTable[i].etag = filesTable[i].etag
Count(P(_)) == Cardinality({i \in Live : P(i)})
Drawn(i, state, generation) == ~Null(i) /\ mediaTable[i].thumb.state = state /\ mediaTable[i].thumb.generation = generation

Counts(version, generation) ==
  [files |-> Cardinality(Live),
   indexed |-> Count(LAMBDA i : Current(i, version) /\ mediaTable[i].error = ""),
   failed |-> Count(LAMBDA i : Current(i, version) /\ mediaTable[i].error # "" /\ mediaTable[i].retry = NULL),
   pictures |-> Count(LAMBDA i : ~Null(i)),
   made |-> Count(LAMBDA i : Drawn(i, "made", generation)),
   refused |-> Count(LAMBDA i : Drawn(i, "refused", generation))]
sqliteCounts(version, generation) == Counts(version, generation)
mysqlCounts(version, generation) == Counts(version, generation)
postgresCounts(version, generation) == Counts(version, generation)

MediaCounts(version) == Driver(sqliteCounts(version, 1), mysqlCounts(version, 1), postgresCounts(version, 1))
Pending(counts) == counts.files - counts.indexed - counts.failed

\* MediaStates: a row that waits to be tried again has not failed.
State(i) == [version |-> mediaTable[i].version, etag |-> mediaTable[i].etag,
             failed |-> mediaTable[i].error # "" /\ mediaTable[i].retry = NULL]
sqliteStates(ids) == [i \in ids \cap DOMAIN mediaTable |-> State(i)]
mysqlStates(ids) == [i \in ids \cap DOMAIN mediaTable |-> State(i)]
postgresStates(ids) == [i \in ids \cap DOMAIN mediaTable |-> State(i)]

MediaStates(ids) == Driver(sqliteStates(ids), mysqlStates(ids), postgresStates(ids))

BlobKeys == [i \in Live |-> filesTable[i].blob]

ListFiles(d) == {filesTable[i].path : i \in {i \in DOMAIN filesTable : filesTable[i].parent = d}}

\* Where ORDER BY sort_at DESC puts the rows with no value.
sqliteNullsFirst == FALSE
mysqlNullsFirst == FALSE
postgresNullsFirst == TRUE

\* The first page of the timeline fails whole on a NULL: ScanCapture has no
\* place for one.
TimelineFails(limit) ==
  LET nulls == {i \in DOMAIN mediaTable : mediaTable[i].sort = NULL}
      first == Driver(sqliteNullsFirst, mysqlNullsFirst, postgresNullsFirst)
  IN nulls # {} /\ (first \/ Cardinality(DOMAIN mediaTable) <= limit)
-----------------------------------------------------------------------------
Outcome(row) == IF row.error = "" THEN "ok" ELSE IF row.retry # NULL THEN "unreached" ELSE "failed"
Entry(i) == [id |-> i, dir |-> filesTable[i].is_dir, bytes |-> filesTable[i].blob]

theTree == [p \in {filesTable[i].path : i \in DOMAIN filesTable} |-> Entry(CHOOSE i \in RowAt(p) : TRUE)]
theKnown == [i \in DOMAIN mediaTable |->
               [bytes |-> mediaTable[i].etag, version |-> mediaTable[i].version, outcome |-> Outcome(mediaTable[i])]]
theDrawn == [i \in {j \in DOMAIN mediaTable : mediaTable[j].thumb.state # "untried"} |->
               [bytes |-> mediaTable[i].thumb.blob, generation |-> mediaTable[i].thumb.generation, outcome |-> mediaTable[i].thumb.state]]

Suite == INSTANCE Repository WITH
  tree <- theTree, known <- theKnown, drawn <- theDrawn, pending <- uploadsTable, reply <- result

\* Each call of each driver does to the rows, and answers, what the suite says:
\* a write keeps the identity, a move the rest, a deletion takes along what was
\* known, and a verdict said twice is not a file that is gone.  What the engine
\* does between two calls is nobody's business but the timeline's.
SuiteStep ==
  \/ UNCHANGED <<call, theTree, theKnown, theDrawn, uploadsTable, result>>
  \/ CASE call'.op = "PutFile" -> Suite!PutFile(call'.path, call'.bytes)
       [] call'.op = "CreateDir" -> Suite!CreateDir(call'.path)
       [] call'.op = "DeleteFile" -> Suite!DeleteFile(call'.path)
       [] call'.op = "MoveFile" -> Suite!MoveFile(call'.path, call'.to)
       [] call'.op = "PutMedia" -> Suite!PutMedia(call'.id,
            [bytes |-> call'.etag, version |-> call'.version, outcome |-> Outcome(call')])
       [] call'.op = "PutThumbVerdict" -> Suite!PutThumbVerdict(call'.id,
            [bytes |-> call'.blob, generation |-> 1, outcome |-> call'.state])
       [] call'.op = "PutUpload" -> Suite!PutUpload(call'.id, call'.upload)
       [] call'.op = "DeleteUpload" -> Suite!DeleteUpload(call'.id, call'.owner)

ImplementsTheSuite == [][SuiteStep]_rowVars

\* The queues hand out what is to be done and nothing else, the counts add up
\* to the queue, a listing finds every child, and every file's blob is named
\* once and no folder's.
QueuesAgree ==
  /\ \A version \in Versions, now \in 0..1 :
       PendingMedia(version, now) = Suite!ToRead(version, now = 1)
  /\ \A stale \in BOOLEAN : PendingThumbs(1, stale) = Suite!ToDraw(1, stale)
  /\ \A version \in Versions : Pending(MediaCounts(version)) = Cardinality(PendingMedia(version, 1))
  /\ \A version \in Versions :
       LET counts == MediaCounts(version)
       IN counts.indexed = Cardinality(Suite!Read(version, "ok")) /\ counts.failed = Cardinality(Suite!Read(version, "failed"))
  /\ {i \in DOMAIN MediaStates(Live) : MediaStates(Live)[i].failed} = {i \in Live \cap DOMAIN theKnown : theKnown[i].outcome = "failed"}
  /\ MediaCounts(1).made = Cardinality(Suite!Pictured(1, "made")) /\ MediaCounts(1).refused = Cardinality(Suite!Pictured(1, "refused"))
  /\ \A p \in TreePaths \cup {<<>>} : ListFiles(p) = Suite!Children(p)
  /\ {BlobKeys[i] : i \in Live} = Suite!Blobs /\ Cardinality(Suite!Blobs) = Cardinality(Live)
  /\ \A i, j \in DOMAIN filesTable : filesTable[i].path = filesTable[j].path => i = j

\* A photograph has its place in the timeline whatever became of the pass that
\* indexed it, and the first page answers.
TimelineAnswers == putting = 0 => ~TimelineFails(2)
=============================================================================
