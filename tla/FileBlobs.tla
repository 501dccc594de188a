----------------------------- MODULE FileBlobs -----------------------------
(***************************************************************************)
(* Package internal/files: a file is a row of the database plus a blob of  *)
(* the store, and the two cannot be written atomically.  This module       *)
(* follows every blob from the moment it is in the store until it is gone: *)
(* writes, copies and finished uploads that put it there and then commit   *)
(* the row, deletions into the trash and restores out of it, the           *)
(* destruction of a deletion, and the collector loop of internal/app       *)
(* (EmptyTrash, then Collect), which moves the blobs no row points at into *)
(* the trash of nobody and destroys them when their month is up.           *)
(*                                                                         *)
(* The tree is abstracted to a set of file paths: directories hold no blob *)
(* (FileTree models them).  Objects derived from a blob are left out: they *)
(* have no row, and no original is ever judged by them.                    *)
(*                                                                         *)
(* A transaction is one step: the SQLite driver opens every one of them    *)
(* with _txlock=immediate, so they are serial.  Reads outside a            *)
(* transaction and calls to the store are steps of their own.              *)
(*                                                                         *)
(* Time is relative: ages saturate at the one value the code compares them *)
(* with, and MaxLag and MaxRead bound how long a request or the sweep may  *)
(* dwell between the steps that the grace period has to cover.             *)
(***************************************************************************)
EXTENDS Naturals, FiniteSets

CONSTANTS
  Paths,      \* the file paths of the one user
  Keys,       \* blob keys; a random key is one that is used nowhere
  Foreign,    \* the keys another server left in the store (nextcloud)
  Procs,      \* concurrent requests
  Batches,    \* deletion identifiers
  NoKey,      \* "no row here"
  NoPath,     \* the path of a blob nobody can account for
  Grace,      \* Values.GCGrace, in ticks
  Retention,  \* Values.TrashRetention, in ticks; 0 is "never"
  MaxLag,     \* longest time from a blob landing to its row committing
  MaxRead,    \* longest time from Collect's first read to its listing
  MaxIdle,    \* longest time from the last append of an upload to its end
  MaxCrashes, \* how often the process may die
  RestoreDuringKeys, \* a restore may commit between Collect's two key reads
  LostAcks,   \* a commit may land although Commit answered an error
  CleanImport \* an import adopts only blobs no row or deletion names

ASSUME TimeAssumption ==
  /\ Grace \in Nat \ {0}
  /\ Retention \in Nat /\ MaxLag \in Nat /\ MaxRead \in Nat
  /\ MaxIdle \in Nat /\ MaxCrashes \in Nat
ASSUME NullAssumption == NoKey \notin Keys /\ NoPath \notin Paths
ASSUME ForeignAssumption == Foreign \subseteq Keys
ASSUME EnvironmentAssumption ==
  {RestoreDuringKeys, LostAcks, CleanImport} \subseteq BOOLEAN

VARIABLES
  files,     \* table files: path -> blob key, or NoKey
  trash,     \* table trash: a set of rows
  stored,    \* the originals in the blob store
  age,       \* how long ago a stored blob was last modified
  pc,        \* where each request is
  want,      \* the paths a request has still to store a blob for
  held,      \* the rows a request has stored the blobs of and not committed
  doomed,    \* the blobs a request is about to delete
  lag,       \* how long ago a request stored its first uncommitted blob
  loop,      \* where the collector loop is
  expired,   \* the deletions EmptyTrash listed and has still to destroy
  emptying,  \* the blobs of the deletion it is destroying
  refs,      \* Collect's "referenced"
  orphans,   \* Collect's "orphans"
  reading,   \* how long ago Collect read BlobKeys
  crashes

reqVars  == <<pc, want, held, doomed, lag>>
loopVars == <<loop, expired, emptying, refs, orphans, reading>>
vars == <<files, trash, stored, age, reqVars, loopVars, crashes>>

Min(a, b) == IF a < b THEN a ELSE b
-----------------------------------------------------------------------------
(* Who names a blob. *)

TrashRow == [batch: Batches, owned: BOOLEAN, path: Paths \cup {NoPath},
             key: Keys, age: 0..Retention]

Live         == {files[p] : p \in Paths} \ {NoKey}
Deleted      == {t.key : t \in {u \in trash : u.owned}}
Unaccounted  == {t.key : t \in {u \in trash : ~u.owned}}
HeldBy(r)    == {h[2] : h \in held[r]}
InFlight     == UNION {HeldBy(r) : r \in Procs}
Doomed       == UNION {doomed[r] : r \in Procs}

\* newBlobKey: random, so used nowhere, and not remembered by anybody either.
Fresh == Keys \ (stored \cup Live \cup Deleted \cup Unaccounted \cup InFlight
                 \cup Doomed \cup emptying \cup refs \cup orphans)

\* A deletion identifier is random too.
FreshBatch == Batches \ ({t.batch : t \in trash} \cup expired)

TrashedIn(b) == {t \in trash : t.batch = b}

TypeOK ==
  /\ files \in [Paths -> Keys \cup {NoKey}]
  /\ trash \subseteq TrashRow
  /\ stored \subseteq Keys
  /\ age \in [Keys -> 0..Grace]
  /\ pc \in [Procs -> {"idle", "write", "copy", "undo", "drop"}]
  /\ want \in [Procs -> SUBSET Paths]
  /\ held \in [Procs -> SUBSET (Paths \X Keys)]
  /\ doomed \in [Procs -> SUBSET Keys]
  /\ lag \in [Procs -> 0..MaxLag]
  /\ loop \in {"idle", "empty", "trashkeys", "list", "trash"}
  /\ expired \subseteq Batches
  /\ emptying \subseteq Keys
  /\ refs \subseteq Keys
  /\ orphans \subseteq Keys
  /\ reading \in 0..MaxRead
  /\ crashes \in 0..MaxCrashes

\* An empty index; the store may already hold another server's objects.
Init ==
  /\ files = [p \in Paths |-> NoKey]
  /\ trash = {}
  /\ stored = Foreign
  /\ age = [k \in Keys |-> IF k \in Foreign THEN Grace ELSE 0]
  /\ pc = [r \in Procs |-> "idle"]
  /\ want = [r \in Procs |-> {}]
  /\ held = [r \in Procs |-> {}]
  /\ doomed = [r \in Procs |-> {}]
  /\ lag = [r \in Procs |-> 0]
  /\ loop = "idle" /\ expired = {} /\ emptying = {}
  /\ refs = {} /\ orphans = {} /\ reading = 0
  /\ crashes = 0
-----------------------------------------------------------------------------
(* Writes.  storeBlob first, the row second.                               *)

\* blobs.Delete, which is idempotent.
Delete(k) ==
  /\ stored' = stored \ {k}
  /\ age' = [age EXCEPT ![k] = 0]

\* Put publishes the blob under a key of its own, whole and just modified.
Put(r, path, k) ==
  /\ k \in Fresh
  /\ stored' = stored \cup {k}
  /\ age' = [age EXCEPT ![k] = 0]
  /\ held' = [held EXCEPT ![r] = @ \cup {<<path, k>>}]

\* write: the blob of a PUT (and the empty one of Reserve) is stored.
WriteBlob(r, path) ==
  /\ pc[r] = "idle"
  /\ \E k \in Keys : Put(r, path, k)
  /\ pc' = [pc EXCEPT ![r] = "write"]
  /\ UNCHANGED <<files, trash, want, doomed, lag, loopVars, crashes>>

\* CompleteUpload: the store renames the upload into place, and on disk the
\* object keeps the modification time of the last append.
CompleteUpload(r, path, idle) ==
  /\ pc[r] = "idle"
  /\ \E k \in Fresh :
       /\ stored' = stored \cup {k}
       /\ age' = [age EXCEPT ![k] = Min(idle, Grace)]
       /\ held' = [held EXCEPT ![r] = {<<path, k>>}]
  /\ pc' = [pc EXCEPT ![r] = "write"]
  /\ UNCHANGED <<files, trash, want, doomed, lag, loopVars, crashes>>

\* Copy: the plan is read; the blobs come one by one.
PlanCopy(r, ps) ==
  /\ pc[r] = "idle"
  /\ pc' = [pc EXCEPT ![r] = "copy"]
  /\ want' = [want EXCEPT ![r] = ps]
  /\ UNCHANGED <<files, trash, stored, age, held, doomed, lag, loopVars, crashes>>

\* copyOne: the next file of the plan is read and written.
CopyBlob(r, path) ==
  /\ pc[r] = "copy"
  /\ path \in want[r]
  /\ \E k \in Keys : Put(r, path, k)
  /\ want' = [want EXCEPT ![r] = @ \ {path}]
  /\ UNCHANGED <<files, trash, pc, doomed, lag, loopVars, crashes>>

\* The rows after the transaction: what was under gone leaves, what is held
\* arrives.
Replaced(rows, gone) ==
  [p \in Paths |->
     IF \E h \in rows : h[1] = p THEN (CHOOSE h \in rows : h[1] = p)[2]
     ELSE IF p \in gone THEN NoKey ELSE files[p]]

\* The blobs that transaction took the rows of.
Superseded(rows, gone) ==
  {files[p] : p \in gone \cup {h[1] : h \in rows}} \ {NoKey}

\* The end of a request's work on blobs: nothing left to delete is idle.
Finish(r, ks, how) ==
  /\ pc' = [pc EXCEPT ![r] = IF ks = {} THEN "idle" ELSE how]
  /\ doomed' = [doomed EXCEPT ![r] = ks]
  /\ held' = [held EXCEPT ![r] = {}]
  /\ want' = [want EXCEPT ![r] = {}]
  /\ lag' = [lag EXCEPT ![r] = 0]

\* replace + commit: the lookup of what is displaced is in the transaction.
CommitWrite(r) ==
  /\ pc[r] = "write"
  /\ files' = Replaced(held[r], {})
  /\ Finish(r, Superseded(held[r], {}), "drop")
  /\ UNCHANGED <<trash, stored, age, loopVars, crashes>>

\* commitCopies: whatever was under the destination goes, not to the trash.
CommitCopy(r, gone) ==
  /\ pc[r] = "copy"
  /\ want[r] = {}
  /\ files' = Replaced(held[r], gone)
  /\ Finish(r, Superseded(held[r], gone), "drop")
  /\ UNCHANGED <<trash, stored, age, loopVars, crashes>>

\* The transaction answered an error (no parent, a directory in the way, the
\* database), or a blob of the copy could not be read or written.  A lost
\* acknowledgement is an error too, and the rows are there.
CommitFails(r) ==
  /\ pc[r] \in {"write", "copy"}
  /\ \/ files' = files
     \/ /\ LostAcks
        /\ want[r] = {}
        /\ \E gone \in IF pc[r] = "copy" THEN SUBSET Paths ELSE {{}} :
             files' = Replaced(held[r], gone)
  /\ Finish(r, HeldBy(r), "undo")
  /\ UNCHANGED <<trash, stored, age, loopVars, crashes>>

\* The blobs of a failed write are deleted, best effort.
Undo(r, k) ==
  /\ pc[r] = "undo"
  /\ k \in doomed[r]
  /\ Delete(k) \/ UNCHANGED <<stored, age>>
  /\ Finish(r, doomed[r] \ {k}, "undo")
  /\ UNCHANGED <<files, trash, loopVars, crashes>>

\* dropBlob of what a write displaced or a destroyed deletion held.
Drop(r, k) ==
  /\ pc[r] = "drop"
  /\ k \in doomed[r]
  /\ Delete(k)
  /\ Finish(r, doomed[r] \ {k}, "drop")
  /\ UNCHANGED <<files, trash, loopVars, crashes>>

\* The store refused: the request gives up and what is left are orphans.
DropFails(r) ==
  /\ pc[r] = "drop"
  /\ Finish(r, {}, "drop")
  /\ UNCHANGED <<files, trash, stored, age, loopVars, crashes>>
-----------------------------------------------------------------------------
(* Rows that move without a blob being touched.                            *)

\* Move of a file onto a free path.
Move(from, to) ==
  /\ files[from] # NoKey
  /\ files[to] = NoKey
  /\ files' = [files EXCEPT ![from] = NoKey, ![to] = files[from]]
  /\ UNCHANGED <<trash, stored, age, reqVars, loopVars, crashes>>

\* Remove of a file, or of a directory with the files under it: one batch.
Remove(ps) ==
  /\ \A p \in ps : files[p] # NoKey
  /\ files' = [p \in Paths |-> IF p \in ps THEN NoKey ELSE files[p]]
  /\ \E b \in FreshBatch :
       trash' = trash \cup
         {[batch |-> b, owned |-> TRUE, path |-> p, key |-> files[p], age |-> 0] : p \in ps}
  /\ UNCHANGED <<stored, age, reqVars, loopVars, crashes>>

\* Where a deletion may land: on free paths, a different one for each row
\* (freeName picks the root; every path under a free root is free).
Landings(rows) ==
  {to \in [rows -> {p \in Paths : files[p] = NoKey}] :
     \A t, u \in rows : to[t] = to[u] => t = u}

\* Mutant: the deletion is not forgotten.
RestoreKeepsTrash(b) ==
  /\ RestoreDuringKeys \/ loop # "trashkeys"
  /\ LET rows == {t \in TrashedIn(b) : t.owned}
     IN /\ rows # {}
        /\ \E to \in Landings(rows) :
             files' = [p \in Paths |->
                IF \E t \in rows : to[t] = p THEN (CHOOSE t \in rows : to[t] = p).key
                ELSE files[p]]
  /\ UNCHANGED <<trash, stored, age, reqVars, loopVars, crashes>>

\* Restore: the rows come back and the deletion is forgotten, in one step.
Restore(b) ==
  /\ RestoreDuringKeys \/ loop # "trashkeys"
  /\ LET rows == {t \in TrashedIn(b) : t.owned}
     IN /\ rows # {}
        /\ \E to \in Landings(rows) :
             files' = [p \in Paths |->
                IF \E t \in rows : to[t] = p THEN (CHOOSE t \in rows : to[t] = p).key
                ELSE files[p]]
        /\ trash' = trash \ rows
  /\ UNCHANGED <<stored, age, reqVars, loopVars, crashes>>

\* DestroyTrashed from the page: the rows first and the bytes after.
DestroyTrashed(r, b) ==
  /\ pc[r] = "idle"
  /\ TrashedIn(b) # {}
  /\ trash' = trash \ TrashedIn(b)
  /\ Finish(r, {t.key : t \in TrashedIn(b)}, "drop")
  /\ UNCHANGED <<files, stored, age, loopVars, crashes>>

\* Adopt: rows for blobs another server wrote, with this one stopped.  A
\* taken path is skipped; what else names the key is not asked.
Adopt(p, k) ==
  /\ \A r \in Procs : pc[r] = "idle"
  /\ loop = "idle"
  /\ k \in Foreign \cap stored
  /\ files[p] = NoKey
  /\ CleanImport => k \notin Live \cup Deleted \cup Unaccounted
  /\ files' = [files EXCEPT ![p] = k]
  /\ UNCHANGED <<trash, stored, age, reqVars, loopVars, crashes>>
-----------------------------------------------------------------------------
(* The collector loop: EmptyTrash, then Collect.                           *)

\* Mutant: what belongs to nobody is never listed.
ListExpiredOwned ==
  /\ loop = "idle"
  /\ loop' = "empty"
  /\ expired' = IF Retention = 0 THEN {}
                ELSE {t.batch : t \in {u \in trash : u.owned /\ u.age >= Retention}}
  /\ UNCHANGED <<files, trash, stored, age, reqVars, emptying, refs, orphans,
                 reading, crashes>>

\* EmptyTrash lists the deletions whose time is up, unless they are held.
ListExpired ==
  /\ loop = "idle"
  /\ loop' = "empty"
  /\ expired' = IF Retention = 0 THEN {}
                ELSE {t.batch : t \in {u \in trash : u.age >= Retention}}
  /\ UNCHANGED <<files, trash, stored, age, reqVars, emptying, refs, orphans,
                 reading, crashes>>

\* DestroyTrashed of one of them; one that is gone by now has no rows.
EmptyBatch(b) ==
  /\ loop = "empty"
  /\ b \in expired
  /\ emptying = {}
  /\ trash' = trash \ TrashedIn(b)
  /\ emptying' = {t.key : t \in TrashedIn(b)}
  /\ expired' = expired \ {b}
  /\ UNCHANGED <<files, stored, age, reqVars, loop, refs, orphans, reading, crashes>>

EmptyDrop(k) ==
  /\ loop = "empty"
  /\ k \in emptying
  /\ Delete(k)
  /\ emptying' = emptying \ {k}
  /\ UNCHANGED <<files, trash, reqVars, loop, expired, refs, orphans, reading, crashes>>

\* The store refused: EmptyTrash returns, and the pass goes on to Collect.
EmptyFails ==
  /\ loop = "empty"
  /\ emptying # {}
  /\ emptying' = {}
  /\ expired' = {}
  /\ UNCHANGED <<files, trash, stored, age, reqVars, loop, refs, orphans, reading, crashes>>

ReadBlobKeys ==
  /\ loop = "empty"
  /\ expired = {}
  /\ emptying = {}
  /\ loop' = "trashkeys"
  /\ refs' = Live
  /\ reading' = 0
  /\ UNCHANGED <<files, trash, stored, age, reqVars, expired, emptying, orphans, crashes>>

\* Mutant: the blobs in the trash are not counted as referenced.
SkipTrashKeys ==
  /\ loop = "trashkeys"
  /\ loop' = "list"
  /\ UNCHANGED <<files, trash, stored, age, reqVars, expired, emptying, refs, orphans,
                 reading, crashes>>

ReadTrashKeys ==
  /\ loop = "trashkeys"
  /\ loop' = "list"
  /\ refs' = refs \cup Deleted \cup Unaccounted
  /\ UNCHANGED <<files, trash, stored, age, reqVars, expired, emptying, orphans,
                 reading, crashes>>

\* Mutant: no grace period.
AnyAge(k) == k \in Keys

\* A blob younger than the grace period is never an orphan.
OldEnough(k) == age[k] >= Grace

\* The listing; an empty index next to a store with objects stops the pass.
ListStore ==
  /\ loop = "list"
  /\ refs # {} \/ stored = {}
  /\ loop' = "trash"
  /\ orphans' = {k \in stored \ refs : OldEnough(k)}
  /\ refs' = {}
  /\ reading' = 0
  /\ UNCHANGED <<files, trash, stored, age, reqVars, expired, emptying, crashes>>

\* ErrEmptyIndex, or a read that failed halfway: nothing is touched.
CollectFails ==
  /\ loop \in {"trashkeys", "list"}
  /\ loop' = "idle"
  /\ refs' = {}
  /\ reading' = 0
  /\ UNCHANGED <<files, trash, stored, age, reqVars, expired, emptying, orphans, crashes>>

\* The orphans go to the trash of nobody.  The inserts are not in a
\* transaction, so an error leaves some of them done.
TrashSome(ks) ==
  /\ loop = "trash"
  /\ loop' = "idle"
  /\ \/ ks = {} /\ trash' = trash
     \/ \E b \in FreshBatch :
          trash' = trash \cup
            {[batch |-> b, owned |-> FALSE, path |-> NoPath, key |-> k, age |-> 0] : k \in ks}
  /\ orphans' = {}
  /\ UNCHANGED <<files, stored, age, reqVars, expired, emptying, refs, reading, crashes>>

TrashOrphans == TrashSome(orphans)
TrashFails   == \E ks \in SUBSET orphans : TrashSome(ks)
-----------------------------------------------------------------------------
(* The environment.                                                        *)

\* Time passes for everything, but no request or sweep overstays its bound.
Tick ==
  /\ \A r \in Procs : held[r] # {} => lag[r] < MaxLag
  /\ loop \in {"trashkeys", "list"} => reading < MaxRead
  /\ age' = [k \in Keys |-> IF k \in stored THEN Min(age[k] + 1, Grace) ELSE age[k]]
  /\ trash' = {[t EXCEPT !.age = Min(t.age + 1, Retention)] : t \in trash}
  /\ lag' = [r \in Procs |-> IF held[r] # {} THEN lag[r] + 1 ELSE lag[r]]
  /\ reading' = IF loop \in {"trashkeys", "list"} THEN reading + 1 ELSE reading
  /\ UNCHANGED <<files, stored, pc, want, held, doomed, loop, expired, emptying,
                 refs, orphans, crashes>>

\* The process dies and starts again: rows and blobs are what is left.
Crash ==
  /\ crashes < MaxCrashes
  /\ crashes' = crashes + 1
  /\ pc' = [r \in Procs |-> "idle"]
  /\ want' = [r \in Procs |-> {}]
  /\ held' = [r \in Procs |-> {}]
  /\ doomed' = [r \in Procs |-> {}]
  /\ lag' = [r \in Procs |-> 0]
  /\ loop' = "idle" /\ expired' = {} /\ emptying' = {}
  /\ refs' = {} /\ orphans' = {} /\ reading' = 0
  /\ UNCHANGED <<files, trash, stored, age>>

Request(r) ==
  \/ \E p \in Paths : WriteBlob(r, p)
  \/ \E p \in Paths, idle \in 0..MaxIdle : CompleteUpload(r, p, idle)
  \/ \E ps \in SUBSET Paths : PlanCopy(r, ps)
  \/ \E p \in Paths : CopyBlob(r, p)
  \/ CommitWrite(r)
  \/ \E gone \in SUBSET Paths : CommitCopy(r, gone)
  \/ CommitFails(r)
  \/ \E k \in Keys : Undo(r, k)
  \/ \E k \in Keys : Drop(r, k)
  \/ DropFails(r)
  \/ \E b \in Batches : DestroyTrashed(r, b)

Rows ==
  \/ \E p, q \in Paths : Move(p, q)
  \/ \E ps \in (SUBSET Paths) \ {{}} : Remove(ps)
  \/ \E b \in Batches : Restore(b)
  \/ \E p \in Paths, k \in Keys : Adopt(p, k)

Collector ==
  \/ ListExpired
  \/ \E b \in Batches : EmptyBatch(b)
  \/ \E k \in Keys : EmptyDrop(k)
  \/ EmptyFails
  \/ ReadBlobKeys
  \/ ReadTrashKeys
  \/ ListStore
  \/ CollectFails
  \/ TrashOrphans
  \/ TrashFails

Next == (\E r \in Procs : Request(r)) \/ Rows \/ Collector \/ Tick \/ Crash

Spec == Init /\ [][Next]_vars

\* A request comes to its end, the loop keeps running, and neither the
\* database nor the store refuses the same call for ever.
RequestStep(r) ==
  \/ \E p \in Paths : CopyBlob(r, p)
  \/ CommitWrite(r) \/ (\E gone \in SUBSET Paths : CommitCopy(r, gone)) \/ CommitFails(r)
  \/ (\E k \in Keys : Undo(r, k) \/ Drop(r, k)) \/ DropFails(r)

Fairness ==
  /\ SF_vars(Tick)
  /\ \A r \in Procs : WF_vars(RequestStep(r))
  /\ WF_vars(Collector)
  /\ SF_vars(ReadTrashKeys) /\ SF_vars(ListStore) /\ SF_vars(TrashOrphans)
  /\ \A k \in Keys : SF_vars(EmptyDrop(k)) /\ SF_vars(\E r \in Procs : Drop(r, k))

FairSpec == Spec /\ Fairness
-----------------------------------------------------------------------------
(* What the package promises.                                              *)

\* Every row of the tree has its bytes: "a row pointing at a blob that is
\* gone would be a 500 on every read" (files.go:13).
LiveRowsHaveBlobs == Live \subseteq stored

\* Every deletion that can be restored has its bytes: otherwise the trash
\* shows "something whose bytes are already gone" (trash.go:54).
TrashCanBeRestored == Deleted \subseteq stored

\* No blob is shared: dropping what one row displaced would take "bytes the
\* other still points at" (copy.go:27).
OneRowPerBlob ==
  /\ \A p, q \in Paths : files[p] = files[q] /\ files[p] # NoKey => p = q
  /\ \A t, u \in trash : t.owned /\ u.owned /\ t.key = u.key => t = u
  /\ Live \cap Deleted = {}

\* What the sweep put away as nobody's is nobody's: no row, no deletion and
\* no write in flight names it, so destroying it a month later loses nothing.
UnaccountedIsUnclaimed == Unaccounted \cap (Live \cup Deleted \cup InFlight) = {}

\* A blob nobody names and nobody is about to delete.
Orphan(k) ==
  k \in stored \ (Live \cup Deleted \cup Unaccounted \cup InFlight \cup Doomed \cup emptying)

\* The net holds: a blob that a crash, a lost race or a refused delete left
\* behind leaves the store in the end, unless the index stays empty (the
\* sweep refuses that one) or an import gives the blob a row.
OrphansAreFreed ==
  <>[](Live # {}) => \A k \in Keys : Orphan(k) ~> (k \notin stored \/ k \in Live)

\* The assumptions under which all that holds: the grace period covers the
\* age an upload may bring along, the lag of a commit and the sweep's reads;
\* no restore commits between the two key reads; a commit that answers an
\* error did not land; an import adopts unclaimed blobs only.
Prudent ==
  /\ MaxIdle + MaxLag + MaxRead < Grace
  /\ ~RestoreDuringKeys
  /\ ~LostAcks
  /\ CleanImport
=============================================================================
