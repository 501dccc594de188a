------------------------------ MODULE Uploads ------------------------------
(***************************************************************************)
(* One resumable upload: the tus handler (internal/tus), the service       *)
(* (internal/files/upload.go) and the disk store's half of it.             *)
(*                                                                         *)
(* The client has the bytes 1..Size and sends each chunk as the bytes that *)
(* belong at the offset it names.  A running hash is the sequence of bytes *)
(* fed to it.  The staging file and the published blob are one inode: a    *)
(* rename moves it, and a writer that has it open keeps writing to it.     *)
(***************************************************************************)
EXTENDS Naturals, Sequences

CONSTANTS
  None,        \* no row
  NoHash,      \* an empty digest
  Size,        \* Upload-Length, in bytes
  Procs,       \* PATCH requests that may run at once
  Guesses,     \* the client also sends at offsets it was never told
  MaxPatches,  \* bound: chunks the client sends in all
  MaxCrashes   \* bound: how often the machine goes away

ASSUME UploadAssumption ==
  /\ Size \in Nat /\ Guesses \in BOOLEAN /\ MaxPatches \in Nat /\ MaxCrashes \in Nat
  /\ NoHash \notin Seq(Nat)  \* a digest is not empty

VARIABLES
  row,      \* table uploads
  where,    \* the inode: "none", "staging", "blob" or "gone"
  data,     \* its bytes
  synced,   \* how many of them survive the machine
  published,\* table files: the row of the finished upload
  req,      \* the PATCH each process is serving
  sweep,    \* where CollectUploads is
  told,     \* the offsets the client was told, by HEAD or in answer to a PATCH
  patches, crashes,
  begin     \* how far BeginUpload is

vars == <<row, where, data, synced, published, req, sweep, told, patches, crashes, begin>>

Payload == [i \in 1..Size |-> i]

Idle == [pc |-> "idle", u |-> None, offset |-> 0, length |-> 0, at |-> 0, n |-> 0, hash |-> <<>>]
Serve(r, fields) == req' = [req EXCEPT ![r] = fields]
Done(r)          == Serve(r, Idle)

Bytes == 0..(Size * (MaxPatches + 1))

TypeOK ==
  /\ row = None \/ (row.received \in Bytes /\ row.expired \in BOOLEAN)
  /\ where \in {"none", "staging", "blob", "gone"}
  /\ \A i \in DOMAIN data : data[i] \in 1..Size
  /\ Len(data) \in Bytes
  /\ synced \in 0..Len(data)
  /\ \A r \in Procs :
       /\ req[r].pc \in {"idle", "stat", "body", "save", "saveError", "complete",
                        "publish", "commit", "abort", "forget"}
       /\ req[r].n \in 0..req[r].length
  /\ sweep \in {"idle", "abort", "forget"}
  /\ told \subseteq Bytes
  /\ patches \in 0..MaxPatches
  /\ crashes \in 0..MaxCrashes
  /\ begin \in {"new", "started", "over"}

Init ==
  /\ row = None /\ where = "none" /\ data = <<>> /\ synced = 0 /\ published = None
  /\ req = [r \in Procs |-> Idle]
  /\ sweep = "idle"
  /\ told = {0}
  /\ patches = 0 /\ crashes = 0 /\ begin = "new"
-----------------------------------------------------------------------------
(* BeginUpload: the store first, the row second.                           *)

StartUpload ==
  /\ begin = "new"
  /\ begin' = "started"
  /\ where' = "staging"
  /\ UNCHANGED <<row, data, synced, published, req, sweep, told, patches, crashes>>

RecordUpload ==
  /\ begin = "started"
  /\ begin' = "over"
  /\ row' = [received |-> 0, hash |-> <<>>, expired |-> FALSE]
  /\ UNCHANGED <<where, data, synced, published, req, sweep, told, patches, crashes>>

\* The row could not be written: what the store started is aborted.
RecordFails ==
  /\ begin = "started"
  /\ begin' = "over"
  /\ where' = "gone"
  /\ UNCHANGED <<row, data, synced, published, req, sweep, told, patches, crashes>>
-----------------------------------------------------------------------------
(* PATCH.                                                                  *)

\* AppendUpload reads the row.
Patch(r, offset, length) ==
  /\ req[r].pc = "idle"
  /\ patches < MaxPatches
  /\ row # None
  /\ Guesses \/ offset \in told
  /\ offset + length <= Size
  /\ patches' = patches + 1
  /\ Serve(r, [Idle EXCEPT !.pc = "stat", !.u = row, !.offset = offset, !.length = length,
                           !.hash = row.hash])
  /\ UNCHANGED <<row, where, data, synced, published, sweep, told, crashes, begin>>

\* Mutant: the client's offset is trusted.
StatTrusting(r) ==
  /\ req[r].pc = "stat"
  /\ Serve(r, [req[r] EXCEPT !.at = Len(data), !.pc = "body"])
  /\ UNCHANGED <<row, where, data, synced, published, sweep, told, patches, crashes, begin>>

\* The store compares the offset with the size of the file; without a file
\* there is an error and the offset it answers is 0.
StatUpload(r) ==
  /\ req[r].pc = "stat"
  /\ LET at == IF where = "staging" THEN Len(data) ELSE 0
     IN Serve(r, [req[r] EXCEPT
          !.at = at,
          !.pc = IF where = "staging" /\ at = req[r].offset THEN "body" ELSE "saveError"])
  /\ UNCHANGED <<row, where, data, synced, published, sweep, told, patches, crashes, begin>>

Hashed(r) == IF req[r].hash = NoHash THEN NoHash
             ELSE Append(req[r].hash, req[r].offset + req[r].n + 1)

\* io.Copy: a byte is read, hashed and appended to the file that is open.
CopyByte(r) ==
  /\ req[r].pc = "body"
  /\ req[r].n < req[r].length
  /\ data' = Append(data, req[r].offset + req[r].n + 1)
  /\ Serve(r, [req[r] EXCEPT !.n = @ + 1, !.hash = Hashed(r)])
  /\ UNCHANGED <<row, where, synced, published, sweep, told, patches, crashes, begin>>

\* A byte is read and hashed but not kept, or the body breaks off: the offset
\* is read back, and nothing is synced.
CopyFails(r, lost) ==
  /\ req[r].pc = "body"
  /\ lost = 1 => req[r].n < req[r].length
  /\ Serve(r, [req[r] EXCEPT
       !.pc = "saveError",
       !.at = IF where = "staging" THEN Len(data) ELSE @,
       !.n = @ + lost,
       !.hash = IF lost = 1 THEN Hashed(r) ELSE @])
  /\ UNCHANGED <<row, where, data, synced, published, sweep, told, patches, crashes, begin>>

\* The body is over and the file is synced.
CopyEnds(r) ==
  /\ req[r].pc = "body"
  /\ req[r].n = req[r].length
  /\ synced' = Len(data)
  /\ Serve(r, [req[r] EXCEPT !.pc = "save", !.at = @ + req[r].n])
  /\ UNCHANGED <<row, where, data, published, sweep, told, patches, crashes, begin>>

\* Mutant: the hash is kept whatever the store accepted.
KeepHash(q) == q.hash

\* The hash is dropped when it is not the hash of what was accepted.
SavedHash(q) ==
  IF q.u.hash = NoHash \/ q.at # q.u.received + q.n THEN NoHash ELSE q.hash

\* PutUpload, an upsert: the row is back even if it was deleted meanwhile.
Save(r) ==
  /\ req[r].pc \in {"save", "saveError"}
  /\ row' = [received |-> req[r].at, hash |-> SavedHash(req[r]), expired |-> FALSE]
  /\ IF req[r].pc = "save" /\ req[r].at = Size
     THEN Serve(r, [Idle EXCEPT !.pc = "complete"])
     ELSE Done(r)
  /\ UNCHANGED <<where, data, synced, published, sweep, told, patches, crashes, begin>>

\* The client went away and the context is cancelled, or the database or the
\* store answered an error: the request ends where it was.
Hangup(r) ==
  /\ req[r].pc \notin {"idle", "commit"}
  /\ Done(r)
  /\ UNCHANGED <<row, where, data, synced, published, sweep, told, patches, crashes, begin>>
-----------------------------------------------------------------------------
(* CompleteUpload, by the PATCH that brought the last byte.                *)

CompleteRead(r) ==
  /\ req[r].pc = "complete"
  /\ IF row # None /\ row.received = Size
     THEN Serve(r, [Idle EXCEPT !.pc = "publish", !.u = row])
     ELSE Done(r)
  /\ UNCHANGED <<row, where, data, synced, published, sweep, told, patches, crashes, begin>>

\* The rename.
Publish(r) ==
  /\ req[r].pc = "publish"
  /\ IF where = "staging" THEN where' = "blob" /\ Serve(r, [req[r] EXCEPT !.pc = "commit"])
     ELSE where' = where /\ Done(r)
  /\ UNCHANGED <<row, data, synced, published, sweep, told, patches, crashes, begin>>

\* uploadETag: the running hash, or the object read back.
ETag(r) == IF req[r].u.hash # NoHash THEN req[r].u.hash ELSE data

\* replace and DeleteUpload in one transaction.
Commit(r) ==
  /\ req[r].pc = "commit"
  /\ published' = [etag |-> ETag(r)]
  /\ row' = None
  /\ Done(r)
  /\ UNCHANGED <<where, data, synced, sweep, told, patches, crashes, begin>>

\* The transaction failed, or the object could not be read back: the row of
\* the upload stays, and the blob is deleted or left to the sweep.
CommitFails(r) ==
  /\ req[r].pc = "commit"
  /\ where' \in {"gone", where}
  /\ Done(r)
  /\ UNCHANGED <<row, data, synced, published, sweep, told, patches, crashes, begin>>
-----------------------------------------------------------------------------
(* DELETE, HEAD and CollectUploads.                                        *)

Gone == IF where = "staging" THEN "gone" ELSE where

Terminate(r) ==
  /\ req[r].pc = "idle"
  /\ row # None
  /\ Serve(r, [Idle EXCEPT !.pc = "abort"])
  /\ UNCHANGED <<row, where, data, synced, published, sweep, told, patches, crashes, begin>>

AbortUpload(r) ==
  /\ req[r].pc = "abort"
  /\ where' = Gone
  /\ Serve(r, [Idle EXCEPT !.pc = "forget"])
  /\ UNCHANGED <<row, data, synced, published, sweep, told, patches, crashes, begin>>

DeleteUpload(r) ==
  /\ req[r].pc = "forget"
  /\ row' = None
  /\ Done(r)
  /\ UNCHANGED <<where, data, synced, published, sweep, told, patches, crashes, begin>>

Status ==
  /\ row # None
  /\ told' = told \cup {row.received}
  /\ UNCHANGED <<row, where, data, synced, published, req, sweep, patches, crashes, begin>>

\* Twelve hours without an append.
Expire ==
  /\ row # None
  /\ row' = [row EXCEPT !.expired = TRUE]
  /\ UNCHANGED <<where, data, synced, published, req, sweep, told, patches, crashes, begin>>

\* Mutant: nothing is ever listed as expired.
ListNothing ==
  /\ sweep = "idle"
  /\ row # None /\ row.expired
  /\ UNCHANGED vars

ListExpired ==
  /\ sweep = "idle"
  /\ row # None /\ row.expired
  /\ sweep' = "abort"
  /\ UNCHANGED <<row, where, data, synced, published, req, told, patches, crashes, begin>>

SweepAbort ==
  /\ sweep = "abort"
  /\ where' = Gone
  /\ sweep' = "forget"
  /\ UNCHANGED <<row, data, synced, published, req, told, patches, crashes, begin>>

SweepForget ==
  /\ sweep = "forget"
  /\ row' = None
  /\ sweep' = "idle"
  /\ UNCHANGED <<where, data, synced, published, req, told, patches, crashes, begin>>

\* The store or the database refused, and the next pass starts again.
SweepFails ==
  /\ sweep # "idle"
  /\ sweep' = "idle"
  /\ UNCHANGED <<row, where, data, synced, published, req, told, patches, crashes, begin>>

\* The machine goes away: what was not synced may be lost.
Crash ==
  /\ crashes < MaxCrashes
  /\ crashes' = crashes + 1
  /\ \E n \in synced..Len(data) : data' = SubSeq(data, 1, n) /\ synced' = n
  /\ req' = [r \in Procs |-> Idle]
  /\ sweep' = "idle"
  /\ begin' = IF begin = "started" THEN "over" ELSE begin
  /\ UNCHANGED <<row, where, published, told, patches>>
-----------------------------------------------------------------------------
Step(r) ==
  \/ StatUpload(r) \/ CopyByte(r) \/ CopyEnds(r) \/ Save(r)
  \/ CompleteRead(r) \/ Publish(r) \/ Commit(r)
  \/ AbortUpload(r) \/ DeleteUpload(r)

Sweep == ListExpired \/ SweepAbort \/ SweepForget

Next ==
  \/ StartUpload \/ RecordUpload \/ RecordFails
  \/ \E r \in Procs, offset \in 0..Size, length \in 0..Size : Patch(r, offset, length)
  \/ \E r \in Procs :
       \/ Step(r) \/ Hangup(r) \/ CommitFails(r) \/ Terminate(r)
       \/ \E lost \in {0, 1} : CopyFails(r, lost)
  \/ Status \/ Expire \/ Sweep \/ SweepFails \/ Crash

Spec == Init /\ [][Next]_vars

\* Time passes, the collector keeps running, and neither the store nor the
\* database refuses it for ever.  Nothing is asked of the client.
FairSpec ==
  /\ Spec
  /\ WF_vars(row # None /\ ~row.expired /\ Expire)
  /\ SF_vars(ListExpired) /\ SF_vars(SweepAbort) /\ SF_vars(SweepForget)
-----------------------------------------------------------------------------
(* What an upload promises.                                                *)

\* What is published is what the client sent, once and in order, and the
\* ETag is the digest of it: "a retried chunk must be a refusal rather than
\* bytes written twice" (upload.go:86).
PublishedIsWhole ==
  published # None => where = "blob" /\ data = Payload /\ published.etag = Payload

\* Nothing the store holds back for the client is anything but the beginning
\* of its file, whatever was retried, cut off or lost.
StagedIsPrefix ==
  where = "staging" => Len(data) <= Size /\ data = SubSeq(Payload, 1, Len(data))

\* A saved running hash is the hash of the bytes saved with it: the hash and
\* the store "agree even when a client disappears mid-chunk" (upload.go:110).
HashMatchesOffset ==
  row # None /\ row.hash # NoHash /\ row.received <= Len(data)
    => row.hash = SubSeq(data, 1, row.received)

\* What a client resumes from is its own file: in the store and in the row.
ResumesFromItsFile == StagedIsPrefix /\ HashMatchesOffset

\* Every upload ends: published, given up, or collected once its client has
\* stopped sending (the bound on PATCHes); without the collector "nothing
\* else will" (upload.go:216).
UploadsEnd == <>[](row = None)

\* An upload as long as it said it would be, with nobody at work on it, is a
\* file: it "is over when it is as long as it said it would be, and the file
\* appears then" (tus.go:212).
FinishedIsPublished ==
  row # None /\ row.received = Size /\ (\A r \in Procs : req[r].pc = "idle") => published # None

\* The offset a client is told survives the machine: "an unsynced tail would
\* make that a lie" (disk.go:369).
OffsetSurvives ==
  row # None /\ where = "staging" => row.received <= synced

\* Only "uploads nobody came back to" (upload.go:214) are collected.
CollectedIsAbandoned ==
  [][SweepAbort /\ row # None => row.expired]_vars
=============================================================================
