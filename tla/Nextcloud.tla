----------------------------- MODULE Nextcloud -----------------------------
(***************************************************************************)
(* Adopting a Nextcloud library (internal/nextcloud, internal/app/import): *)
(* the survey, whose workers ask the bucket about every object, and the    *)
(* import, which hands the rows to files.Adopt a batch at a time, hashing  *)
(* each batch with workers of its own when validators are asked for.  The  *)
(* server may be running on the same database meanwhile, the bucket may    *)
(* lose objects, and the command may be interrupted, killed and repeated.  *)
(*                                                                         *)
(* Both channels of workers are unbuffered: a hand-over is one step of the *)
(* sender and an idle receiver.  A path is the sequence of its names.      *)
(***************************************************************************)
EXTENDS Naturals, Sequences, FiniteSets

CONSTANTS
  Cache,       \* table filecache, in path order: [id, storage, area, rest, dir, size, valid]; size 0 is unscanned
  Storages,    \* table storages: [home, user]; the n-th has numeric_id n
  Workers,     \* Options.workers()
  BatchSize,
  UserPaths,   \* where the server's user may put a file meanwhile
  Commands,    \* what may be asked: [user, into, etag, encrypted, buckets], and the object whose size is wrong
  MaxFaults,   \* bound: objects lost and requests that fail
  MaxMeddles,  \* bound: what the user does meanwhile
  MaxRuns      \* bound: how often the command is run

VARIABLES
  command,   \* the options of this import
  phase,     \* where the command is
  holds,     \* what each worker holds: nothing, an entry, an answer, or it has returned
  rows,      \* what the open query answers: the entries of a survey, the rows of an import
  claimed,   \* the keys of the entries
  at,        \* the next entry to hand over or row to read
  report,    \* Report: how many answers of each kind, and what nothing claims
  batch,     \* the rows read and not yet adopted
  hashed,    \* the places of the batch whose ETag is filled in
  counts,    \* ImportReport: rows adopted and skipped
  bucket,    \* the size of each object there is
  tree,      \* table files: what is at each path
  interrupted, faults, meddles, runs,
  present,   \* the objects this run's survey found, for the properties
  removed,   \* what the user took away, for the properties
  mine       \* what the user put, for the properties

cloudVars ==
  <<command, phase, holds, rows, claimed, at, report, batch, hashed, counts, bucket, tree,
    interrupted, faults, meddles, runs, present, removed, mine>>

Nothing  == [is |-> "nothing"]
Nobody   == [w \in Workers |-> Nothing]
Objects  == {Cache[n].id : n \in {m \in DOMAIN Cache : ~Cache[m].dir}}

\* homeOwner and pickStorage: the storage to read, 0 when there is none to
\* pick or more than one.
homes(user) == {n \in DOMAIN Storages : Storages[n].home /\ Storages[n].user # "" /\ (user = "" \/ Storages[n].user = user)}
pickStorage(user) ==
  LET found == homes(user)
  IN IF found = {} \/ (user = "" /\ Cardinality(found) > 1) THEN 0
     ELSE CHOOSE n \in found : \A m \in found : n <= m

\* The numbers of s, the smallest first.
Ascending(s) == [k \in 1..Cardinality(s) |-> CHOOSE x \in s : Cardinality({y \in s : y < x}) = k - 1]

\* The places in the cache of the user's own tree.
OfStorage(user) == {n \in DOMAIN Cache : Cache[n].storage = pickStorage(user) /\ Cache[n].area = "files"}

\* walk and feed: the files among the rows, in the order of their ids.
Entries ==
  LET files == {Cache[n] : n \in {m \in OfStorage(command.user) : ~Cache[m].dir}}
      ids   == Ascending({f.id : f \in files})
  IN [k \in DOMAIN ids |-> CHOOSE f \in files : f.id = ids[k]]

\* adopt: the rows in the order of their paths, below --into; a path this
\* server refuses is counted and passed over.
Adopted ==
  LET places == Ascending({n \in OfStorage(command.user) : Cache[n].rest # <<>> /\ Cache[n].valid})
  IN [k \in DOMAIN places |-> Cache[places[k]]]
under(rest) == command.into \o rest

NoReport == [present |-> 0, mismatch |-> 0, missing |-> 0, failed |-> 0, unclaimed |-> {}]
Blocked  == command.encrypted
Adoptable ==
  /\ ~Blocked /\ ~command.buckets
  /\ report.missing = 0 /\ report.mismatch = 0 /\ report.failed = 0

Init ==
  /\ command \in Commands
  /\ phase = "idle" /\ holds = Nobody /\ rows = <<>> /\ claimed = {} /\ at = 1
  /\ report = NoReport /\ batch = <<>> /\ hashed = {} /\ counts = [adopted |-> 0, skipped |-> 0]
  /\ bucket = [k \in Objects |-> IF k = command.cut THEN 2 ELSE 1]
  /\ tree = [p \in {} |-> 0]
  /\ interrupted = FALSE /\ faults = 0 /\ meddles = 0 /\ runs = 0
  /\ present = {} /\ removed = {} /\ mine = {}

source == <<command, claimed, bucket, tree, meddles, runs, removed, mine>>
-----------------------------------------------------------------------------
(* The survey.                                                             *)

Ends    == {"idle", "done", "failed", "refused"}
Running == {"walk", "list", "open", "read", "hash", "adopt"}

\* ImportNextcloud up to the walk.  An encrypted instance is not walked.
Start ==
  /\ phase \in Ends /\ runs < MaxRuns
  /\ runs' = runs + 1
  /\ \/ /\ phase' = IF pickStorage(command.user) = 0 THEN "failed" ELSE IF Blocked THEN "refused" ELSE "walk"
        /\ UNCHANGED faults
     \/ faults < MaxFaults /\ faults' = faults + 1 /\ phase' = "failed"
  /\ rows' = Entries /\ claimed' = {Entries[n].id : n \in DOMAIN Entries}
  /\ holds' = Nobody /\ at' = 1 /\ report' = NoReport
  /\ batch' = <<>> /\ hashed' = {} /\ counts' = [adopted |-> 0, skipped |-> 0]
  /\ interrupted' = FALSE /\ present' = {}
  /\ UNCHANGED <<command, bucket, tree, meddles, removed, mine>>

feed(w) ==
  /\ phase = "walk" /\ at \in DOMAIN rows /\ holds[w] = Nothing
  /\ holds' = [holds EXCEPT ![w] = [is |-> "entry", entry |-> rows[at]]]
  /\ at' = at + 1
  /\ UNCHANGED <<source, rows, phase, report, batch, hashed, counts, interrupted, faults, present>>

\* The feeder sees that the context is done: no entry follows this one.
feedStops ==
  /\ phase = "walk" /\ interrupted /\ at \in DOMAIN rows
  /\ at' = Len(rows) + 2
  /\ UNCHANGED <<source, rows, phase, holds, report, batch, hashed, counts, interrupted, faults, present>>

\* A request the network or an interruption makes fail.
Fails ==
  \/ interrupted /\ UNCHANGED faults
  \/ faults < MaxFaults /\ faults' = faults + 1

check(w) ==
  /\ phase = "walk" /\ holds[w].is = "entry"
  /\ LET e == holds[w].entry
         Answer(verdict) == holds' = [holds EXCEPT ![w] = [is |-> "answer", verdict |-> verdict]]
     IN \/ /\ e.id \notin DOMAIN bucket
           /\ Answer("missing") /\ UNCHANGED <<faults, present>>
        \/ /\ e.id \in DOMAIN bucket
           /\ LET ok == e.size \in {0, bucket[e.id]}
              IN /\ Answer(IF ok THEN "present" ELSE "mismatch")
                 /\ present' = IF ok THEN present \cup {e.id} ELSE present
           /\ UNCHANGED faults
        \/ Fails /\ Answer("failed") /\ UNCHANGED present
  /\ UNCHANGED <<source, rows, phase, at, report, batch, hashed, counts, interrupted>>

record(w) ==
  /\ phase = "walk" /\ holds[w].is = "answer"
  /\ report' = [report EXCEPT ![holds[w].verdict] = @ + 1]
  /\ holds' = [holds EXCEPT ![w] = Nothing]
  /\ UNCHANGED <<source, rows, phase, at, batch, hashed, counts, interrupted, faults, present>>

\* walk: the entries are closed, and the answers collected to the last.
collected ==
  /\ phase = "walk" /\ at \notin DOMAIN rows /\ \A w \in Workers : holds[w] = Nothing
  /\ phase' = IF at = Len(rows) + 2 THEN "failed" ELSE "list"
  /\ UNCHANGED <<source, rows, holds, at, report, batch, hashed, counts, interrupted, faults, present>>

\* countUnclaimed: a listing that fails makes a worse report, no failed survey.
countUnclaimed ==
  /\ phase = "list"
  /\ \/ /\ report' = [report EXCEPT !.unclaimed = DOMAIN bucket \ claimed]
        /\ UNCHANGED faults
     \/ Fails /\ UNCHANGED report
  /\ phase' = "open"
  /\ UNCHANGED <<source, rows, holds, at, batch, hashed, counts, interrupted, present>>

\* The answer to the survey, and the database opened and migrated.
openDatabase ==
  /\ phase = "open"
  /\ \/ ~Adoptable /\ phase' = "refused" /\ UNCHANGED <<faults, rows, at>>
     \/ Adoptable /\ phase' = "read" /\ rows' = Adopted /\ at' = 1 /\ UNCHANGED faults
     \/ Adoptable /\ Fails /\ phase' = "failed" /\ UNCHANGED <<rows, at>>
  /\ UNCHANGED <<source, holds, report, batch, hashed, counts, interrupted, present>>
-----------------------------------------------------------------------------
(* The import.                                                             *)

\* adopt's loop up to the next flush, which the last batch may find empty.
readBatch ==
  /\ phase = "read"
  /\ LET last == IF at + BatchSize - 1 < Len(rows) THEN at + BatchSize - 1 ELSE Len(rows)
     IN \/ /\ batch' = SubSeq(rows, at, last)
           /\ at' = last + 1
           /\ phase' = IF batch' = <<>> THEN "done" ELSE IF command.etag THEN "hash" ELSE "adopt"
           /\ UNCHANGED faults
        \/ Fails /\ phase' = "failed" /\ UNCHANGED <<batch, at>>
  /\ hashed' = {} /\ holds' = Nobody
  /\ UNCHANGED <<source, rows, report, counts, interrupted, present>>

Files == {i \in DOMAIN batch : ~batch[i].dir}

\* A worker that meets an error returns; nobody takes its place.  The place
\* it was given counts as handed over.
handed == hashed \cup {holds[w].place : w \in {v \in Workers : holds[v].is \in {"place", "returned"}}}
Waiting == Files \ handed

hash(w) ==
  /\ phase = "hash" /\ Waiting # {} /\ holds[w] = Nothing
  /\ holds' = [holds EXCEPT ![w] = [is |-> "place", place |-> CHOOSE i \in Waiting : \A j \in Waiting : i <= j]]
  /\ UNCHANGED <<source, rows, phase, at, report, batch, hashed, counts, interrupted, faults, present>>

digest(w) ==
  /\ phase = "hash" /\ holds[w].is = "place"
  /\ LET i == holds[w].place
         Gives(worker) == holds' = [holds EXCEPT ![w] = worker]
         Leaves == Gives([is |-> "returned", place |-> i]) /\ UNCHANGED hashed
     IN \/ batch[i].id \in DOMAIN bucket /\ hashed' = hashed \cup {i} /\ Gives(Nothing) /\ UNCHANGED faults
        \/ batch[i].id \notin DOMAIN bucket /\ Leaves /\ UNCHANGED faults
        \/ batch[i].id \in DOMAIN bucket /\ Fails /\ Leaves
  /\ UNCHANGED <<source, rows, phase, at, report, batch, counts, interrupted, present>>

Quiet  == \A w \in Workers : holds[w].is # "place"
Errors == {w \in Workers : holds[w].is = "returned"}

\* Mutant: the error a worker left behind is not looked at.
hashEndsAnyhow ==
  /\ phase = "hash" /\ Quiet
  /\ \/ Waiting = {} /\ phase' = "adopt"
     \/ Waiting # {} /\ interrupted /\ phase' = "failed"
  /\ holds' = Nobody
  /\ UNCHANGED <<source, rows, at, report, batch, hashed, counts, interrupted, faults, present>>

\* Everything was handed over, or the context is done while something waits;
\* the workers are waited for.
hashEnds ==
  /\ phase = "hash" /\ Quiet
  /\ \/ Waiting = {} /\ phase' = IF Errors = {} THEN "adopt" ELSE "failed"
     \/ Waiting # {} /\ interrupted /\ phase' = "failed"
  /\ holds' = Nobody
  /\ UNCHANGED <<source, rows, at, report, batch, hashed, counts, interrupted, faults, present>>

Above(p) == {SubSeq(p, 1, n) : n \in 1..Len(p) - 1}

\* restoreParents: the folders that are missing are made; a parent that is a
\* file is a conflict.
Conflicts(t, p) == \E q \in Above(p) \cap DOMAIN t : ~t[q].dir
Folder == [dir |-> TRUE, key |-> 0, tagged |-> FALSE, by |-> "import"]

\* One row of files.Adopt, i its place in the batch: a path that is taken is
\* passed over.
AdoptRow(t, i) ==
  LET p == under(batch[i].rest)
  IN IF p \in DOMAIN t THEN t
     ELSE [q \in DOMAIN t \cup Above(p) \cup {p} |->
             IF q \in DOMAIN t THEN t[q]
             ELSE IF q # p \/ batch[i].dir THEN Folder
             ELSE [dir |-> FALSE, key |-> batch[i].id, tagged |-> i \in hashed, by |-> "import"]]

\* The trees a batch goes through, one row after the other.
Through ==
  LET t[i \in 0..Len(batch)] == IF i = 0 THEN tree ELSE AdoptRow(t[i - 1], i)
  IN t

\* files.Adopt: one transaction for the batch.
Adopt ==
  LET trees    == Through
      taken    == {i \in DOMAIN batch : under(batch[i].rest) \in DOMAIN trees[i - 1]}
      conflict == \E i \in DOMAIN batch \ taken : Conflicts(trees[i - 1], under(batch[i].rest))
  IN /\ phase = "adopt"
     /\ \/ /\ ~interrupted /\ ~conflict
           /\ tree' = trees[Len(batch)]
           /\ counts' = [adopted |-> counts.adopted + Len(batch) - Cardinality(taken),
                         skipped |-> counts.skipped + Cardinality(taken)]
           /\ phase' = "read" /\ batch' = <<>> /\ UNCHANGED faults
        \/ conflict /\ phase' = "failed" /\ UNCHANGED <<tree, counts, batch, faults>>
        \/ Fails /\ phase' = "failed" /\ UNCHANGED <<tree, counts, batch>>
     /\ UNCHANGED <<command, rows, claimed, bucket, meddles, runs, removed, mine, holds, at, report, hashed, interrupted, present>>
-----------------------------------------------------------------------------
(* Around the command.                                                     *)

\* The command's context is done (an interrupt), or the process is killed.
Interrupt ==
  /\ phase \in Running /\ ~interrupted
  /\ interrupted' = TRUE
  /\ UNCHANGED <<source, rows, phase, holds, at, report, batch, hashed, counts, faults, present>>

Kill ==
  /\ phase \in Running
  /\ phase' = "idle" /\ holds' = Nobody /\ batch' = <<>>
  /\ UNCHANGED <<source, rows, at, report, hashed, counts, interrupted, faults, present>>

\* The bucket loses an object: Nextcloud is probably still running.
Lose(k) ==
  /\ k \in DOMAIN bucket /\ faults < MaxFaults
  /\ bucket' = [o \in DOMAIN bucket \ {k} |-> bucket[o]]
  /\ faults' = faults + 1
  /\ UNCHANGED <<command, rows, claimed, phase, holds, at, report, batch, hashed, counts, tree, interrupted, meddles, runs, present, removed, mine>>

\* The server's user, over WebDAV: a file put where there is none, in a
\* folder that is there; a file or a folder deleted.
UserPuts(p) ==
  /\ meddles < MaxMeddles /\ p \notin DOMAIN tree
  /\ Len(p) > 1 => SubSeq(p, 1, Len(p) - 1) \in {q \in DOMAIN tree : tree[q].dir}
  /\ tree' = [q \in DOMAIN tree \cup {p} |->
                IF q = p THEN [dir |-> FALSE, key |-> 0, tagged |-> TRUE, by |-> "user"] ELSE tree[q]]
  /\ meddles' = meddles + 1 /\ removed' = removed \ {p} /\ mine' = mine \cup {p}
  /\ UNCHANGED <<command, rows, claimed, phase, holds, at, report, batch, hashed, counts, bucket, interrupted, faults, runs, present>>

UserDeletes(p) ==
  /\ meddles < MaxMeddles /\ p \in DOMAIN tree
  /\ LET going == {q \in DOMAIN tree : q = p \/ p \in Above(q)}
     IN /\ tree' = [q \in DOMAIN tree \ going |-> tree[q]]
        /\ removed' = removed \cup going /\ mine' = mine \ going
  /\ meddles' = meddles + 1
  /\ UNCHANGED <<command, rows, claimed, phase, holds, at, report, batch, hashed, counts, bucket, interrupted, faults, runs, present>>

Proceed ==
  \/ \E w \in Workers : feed(w) \/ check(w) \/ record(w) \/ hash(w) \/ digest(w)
  \/ feedStops \/ collected \/ countUnclaimed \/ openDatabase \/ readBatch \/ hashEnds \/ Adopt

Next ==
  \/ Proceed \/ Start \/ Interrupt \/ Kill
  \/ \E k \in Objects : Lose(k)
  \/ \E p \in UserPaths : UserPuts(p) \/ UserDeletes(p)

Spec == Init /\ [][Next]_cloudVars

\* Every goroutine of the command that can go on does.
Fairness == WF_cloudVars(Proceed)
FairSpec == Spec /\ Fairness
-----------------------------------------------------------------------------
(* What an adoption promises.                                              *)

\* The survey asked about every file once, whichever worker answered when,
\* and an import starts only when every object was there.
SurveyIsComplete ==
  phase \in Running \ {"walk"} =>
    /\ report.present + report.mismatch + report.missing + report.failed = Cardinality(claimed)
    /\ phase \in {"read", "hash", "adopt"} => present = claimed

\* Import and Adopt: a finished import, the first or a repeated one, has every
\* row where it belongs unless the user took it away; its numbers add up;
\* every row has its folder; and what the user put is what is there.
ImportIsWhole ==
  /\ phase = "done" =>
       /\ \A n \in DOMAIN rows : under(rows[n].rest) \in DOMAIN tree \cup removed
       /\ counts.adopted + counts.skipped = Len(rows)
  /\ \A p \in DOMAIN tree : Len(p) > 1 => SubSeq(p, 1, Len(p) - 1) \in DOMAIN tree
  /\ \A p \in mine : p \in DOMAIN tree /\ tree[p].by = "user"

\* hash: an import that was asked for validators writes no row without one,
\* whichever worker met an error and whatever the others still did.
ValidatorsAreWhole ==
  command.etag => \A p \in DOMAIN tree : tree[p].dir \/ tree[p].tagged

\* Every import ends: with its rows, refused, or with an error.
EveryImportEnds == phase \in Running ~> phase \in Ends
=============================================================================
