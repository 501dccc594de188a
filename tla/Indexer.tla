------------------------------ MODULE Indexer ------------------------------
(***************************************************************************)
(* The media indexer (internal/media/indexer.go) and the loop that drives  *)
(* it (internal/app/background.go): files are announced by the writes that *)
(* made them through a bounded channel that never blocks, and a query is   *)
(* the net behind it.                                                      *)
(*                                                                         *)
(* Files are identified by their id, 1..NFiles, and every write has a blob *)
(* key of its own, its number.  What extraction finds in the bytes is one  *)
(* outcome, "ok"; what matters is which bytes it read, and what is written *)
(* down when it could not read any.                                        *)
(***************************************************************************)
EXTENDS Naturals, Sequences, FiniteSets

CONSTANTS
  None,        \* no row yet
  Deleted,     \* the row is gone, and its id with it
  NFiles,      \* bound: file ids
  Buffer,      \* noticeBuffer
  BatchSize,   \* media.BatchSize
  SameBytes,   \* a write may bring the bytes that are there already
  MaxWrites,   \* bound: writes
  MaxFaults    \* bound: restarts of the process and outages of the store

ASSUME IndexerAssumption ==
  /\ {NFiles, Buffer, BatchSize} \subseteq Nat \ {0}
  /\ {MaxWrites, MaxFaults} \subseteq Nat
  /\ SameBytes \in BOOLEAN

Files == 1..NFiles
Keys  == 1..MaxWrites

VARIABLES
  row,      \* table files: id -> None, Deleted or [etag, key]
  media,    \* table media: id -> None or [etag, ok, retry]
  dropped,  \* keys whose blob is gone
  unsaid,   \* writes committed and not announced yet
  notices,  \* chan db.File
  lost,     \* chan struct{} of one
  loop,     \* the indexing goroutine
  down,     \* the store does not answer
  writes, faults

vars == <<row, media, dropped, unsaid, notices, lost, loop, down, writes, faults>>
world == <<row, dropped, unsaid, writes, faults, down>>

Live(f) == row[f] \notin {None, Deleted}

\* What a goroutine holds of a file is the row as it was read.
Held(f) == [file |-> f, etag |-> row[f].etag, key |-> row[f].key]

TypeOK ==
  /\ \A f \in Files : Live(f) => row[f] \in [etag : Keys, key : Keys]
  /\ \A f \in Files : media[f] = None \/ media[f] \in
       [etag : Keys, ok : BOOLEAN, retry : {"never", "later", "due"}]
  /\ dropped \subseteq Keys
  /\ \A w \in unsaid : w.held.file \in Files /\ w.old \in Keys \cup {0}
  /\ Len(notices) <= Buffer
  /\ lost \in BOOLEAN /\ down \in BOOLEAN
  /\ loop.pc \in {"query", "extract", "record", "select"}
  /\ Len(loop.todo) + Len(loop.attempts) <= BatchSize

Waiting == [pc |-> "select", todo |-> <<>>, attempts |-> <<>>, at |-> 0, indexed |-> 0, lone |-> FALSE]
Query   == [Waiting EXCEPT !.pc = "query"]

Init ==
  /\ row = [f \in Files |-> None]
  /\ media = [f \in Files |-> None]
  /\ dropped = {} /\ unsaid = {} /\ notices = <<>> /\ lost = FALSE
  /\ loop = Query
  /\ down = FALSE
  /\ writes = 0 /\ faults = 0
-----------------------------------------------------------------------------
(* The writers.                                                            *)

\* replace: the row keeps its id, and its metadata.
Write(f, etag) ==
  LET key == writes + 1
  IN /\ writes < MaxWrites
     /\ row[f] # Deleted
     /\ etag = key \/ (SameBytes /\ Live(f) /\ etag = row[f].etag)
     /\ row' = [row EXCEPT ![f] = [etag |-> etag, key |-> key]]
     /\ unsaid' = unsaid \cup {[held |-> [file |-> f, etag |-> etag, key |-> key],
                                old  |-> IF Live(f) THEN row[f].key ELSE 0]}
     /\ writes' = key
     /\ UNCHANGED <<media, dropped, notices, lost, loop, down, faults>>

\* Notice never blocks: what the channel cannot hold raises lost.
Notice(held) ==
  IF Len(notices) < Buffer THEN notices' = Append(notices, held) /\ lost' = lost
  ELSE notices' = notices /\ lost' = TRUE

\* drop and written, after the commit.
Announce(w) ==
  /\ w \in unsaid
  /\ unsaid' = unsaid \ {w}
  /\ dropped' = dropped \cup ({w.old} \ {0})
  /\ Notice(w.held)
  /\ UNCHANGED <<row, media, loop, down, writes, faults>>

\* Reserve, the empty file of a LOCK: the same write, and nobody is told.
Unannounced(w) ==
  /\ w \in unsaid
  /\ unsaid' = unsaid \ {w}
  /\ dropped' = dropped \cup ({w.old} \ {0})
  /\ UNCHANGED <<row, media, notices, lost, loop, down, writes, faults>>

\* The row goes and its metadata with it; the blob stays in the trash.
Delete(f) ==
  /\ Live(f)
  /\ row' = [row EXCEPT ![f] = Deleted]
  /\ media' = [media EXCEPT ![f] = None]
  /\ UNCHANGED <<dropped, unsaid, notices, lost, loop, down, writes, faults>>
-----------------------------------------------------------------------------
(* The loop.                                                               *)

\* Mutant: an overwrite is not noticed.
PendingOnce == {f \in Files : Live(f) /\ (media[f] = None \/ media[f].retry = "due")}

\* PendingMedia: no metadata, metadata of other bytes, or a retry that is due.
Pending ==
  {f \in Files : /\ Live(f)
                 /\ \/ media[f] = None
                    \/ media[f].etag # row[f].etag
                    \/ media[f].retry = "due"}

\* In the order of the ids, up to BatchSize.
FirstPending(batch) ==
  /\ \A i, j \in DOMAIN batch : i < j => batch[i].file < batch[j].file
  /\ \A f \in Pending :
       \/ \E i \in DOMAIN batch : batch[i].file = f
       \/ Len(batch) = BatchSize /\ \A i \in DOMAIN batch : batch[i].file < f

IndexBatch ==
  /\ loop.pc = "query"
  /\ \E n \in 0..BatchSize : \E batch \in [1..n -> {Held(f) : f \in Pending}] :
       FirstPending(batch) /\ loop' = [Waiting EXCEPT !.pc = "extract", !.todo = batch]
  /\ UNCHANGED <<world, media, notices, lost>>

\* A file somebody has just written.
Noticed ==
  /\ loop.pc = "select"
  /\ notices # <<>>
  /\ notices' = Tail(notices)
  /\ loop' = [Waiting EXCEPT !.pc = "extract", !.todo = <<Head(notices)>>, !.lone = TRUE]
  /\ UNCHANGED <<world, media, lost>>

LostTrack ==
  /\ loop.pc = "select"
  /\ lost
  /\ lost' = FALSE
  /\ loop' = Query
  /\ UNCHANGED <<world, media, notices>>

\* The ticker, the thumbnails' timer, or another interval.
Tick ==
  /\ loop.pc = "select"
  /\ loop' = Query
  /\ UNCHANGED <<world, media, notices, lost>>

Outcome(held) == IF down THEN "unreachable" ELSE IF held.key \in dropped THEN "missing" ELSE "ok"

\* extract reads the blob the row in hand names.
Extract ==
  /\ loop.pc = "extract"
  /\ loop.todo # <<>>
  /\ loop' = [loop EXCEPT
       !.todo = Tail(@),
       !.attempts = Append(@, [held |-> Head(loop.todo), err |-> Outcome(Head(loop.todo))])]
  /\ UNCHANGED <<world, media, notices, lost>>

Extracted ==
  /\ loop.pc = "extract"
  /\ loop.todo = <<>>
  /\ loop' = [loop EXCEPT !.pc = "record", !.at = 1]
  /\ UNCHANGED <<world, media, notices, lost>>

\* Mutant: whatever went wrong is the file's fault.
DeferredNever(a, batch) == FALSE

\* deferred: the store's failure is no verdict, and neither is a batch of
\* which every blob is missing, unless it is a batch of one.
Deferred(a, batch) ==
  \/ a.err = "unreachable"
  \/ /\ Len(batch) > 1
     /\ \A i \in DOMAIN batch : batch[i].err = "missing"

\* record: PutMedia, and nothing for a row that is gone.
Record ==
  /\ loop.pc = "record"
  /\ loop.at <= Len(loop.attempts)
  /\ LET a        == loop.attempts[loop.at]
         deferred == Deferred(a, loop.attempts)
     IN /\ media' = IF Live(a.held.file)
                    THEN [media EXCEPT ![a.held.file] =
                            [etag |-> a.held.etag, ok |-> a.err = "ok",
                             retry |-> IF deferred THEN "later" ELSE "never"]]
                    ELSE media
        /\ loop' = [loop EXCEPT !.at = @ + 1,
                      !.indexed = IF deferred /\ Live(a.held.file) THEN @ ELSE @ + 1]
  /\ UNCHANGED <<world, notices, lost>>

\* indexUntilDry comes straight back after a full batch.
Recorded ==
  /\ loop.pc = "record"
  /\ loop.at > Len(loop.attempts)
  /\ loop' = IF ~loop.lone /\ loop.indexed = BatchSize THEN Query ELSE Waiting
  /\ UNCHANGED <<world, media, notices, lost>>

\* The database refuses, and the rest of the batch is left.
IndexFails ==
  /\ loop.pc \in {"query", "record"}
  /\ loop' = Waiting
  /\ UNCHANGED <<world, media, notices, lost>>
-----------------------------------------------------------------------------
(* The rest of the world.                                                  *)

\* An hour passes for a deferred file.
RetryDue(f) ==
  /\ media[f] # None
  /\ media[f].retry = "later"
  /\ media' = [media EXCEPT ![f].retry = "due"]
  /\ UNCHANGED <<world, notices, lost, loop>>

StoreStops ==
  /\ ~down
  /\ faults < MaxFaults
  /\ down' = TRUE
  /\ faults' = faults + 1
  /\ UNCHANGED <<row, media, dropped, unsaid, notices, lost, loop, writes>>

StoreAnswers ==
  /\ down
  /\ down' = FALSE
  /\ UNCHANGED <<row, media, dropped, unsaid, notices, lost, loop, writes, faults>>

\* A restart: what was in the channels, and what was not announced, is gone.
Restart ==
  /\ faults < MaxFaults
  /\ faults' = faults + 1
  /\ unsaid' = {} /\ notices' = <<>> /\ lost' = FALSE
  /\ loop' = Query
  /\ UNCHANGED <<row, media, dropped, down, writes>>
-----------------------------------------------------------------------------
Pass == IndexBatch \/ Extract \/ Extracted \/ Record \/ Recorded

Next ==
  \/ \E f \in Files : (\E etag \in Keys : Write(f, etag)) \/ Delete(f) \/ RetryDue(f)
  \/ \E w \in unsaid : Announce(w) \/ Unannounced(w)
  \/ Noticed \/ LostTrack \/ Tick
  \/ Pass \/ IndexFails
  \/ StoreStops \/ StoreAnswers \/ Restart

Spec == Init /\ [][Next]_vars

\* The ticker ticks, time passes, and neither the store nor the database
\* fails for ever.
FairSpec ==
  /\ Spec
  /\ SF_vars(Tick) /\ SF_vars(IndexBatch) /\ SF_vars(Record)
  /\ WF_vars(Extract) /\ WF_vars(Extracted) /\ SF_vars(Recorded)
  /\ WF_vars(StoreAnswers)
  /\ \A f \in Files : WF_vars(RetryDue(f))
-----------------------------------------------------------------------------
(* What the indexer promises.                                              *)

Described(f) == media[f] # None /\ media[f].ok /\ media[f].etag = row[f].etag

\* A verdict on the bytes a file has is a verdict from those bytes: what the
\* store would not give is never the last word (indexer.go:199).
VerdictIsFromTheBytes ==
  \A f \in Files :
    Live(f) /\ media[f] # None /\ media[f].etag = row[f].etag /\ media[f].retry = "never"
      => media[f].ok

\* Every file is described in the end, whatever notice was dropped and
\* whenever the process stopped: "then the query finds what was dropped"
\* (indexer.go:27).
EveryFileIsDescribed == \A f \in Files : <>[](Live(f) => Described(f))
=============================================================================
