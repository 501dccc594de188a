--------------------------- MODULE UploadsProofs ---------------------------
(***************************************************************************)
(* Proofs about Uploads for a file of any size, any number of chunks and   *)
(* any number of crashes, one request at a time; and about the two stores  *)
(* the bytes go to: the directory, for any keys and any writers at once,   *)
(* and the bucket, for any sizes of files and parts and any uploads at     *)
(* once, each with one request at a time.                                  *)
(***************************************************************************)
EXTENDS Uploads, Stores, SequenceTheorems, FiniteSetTheorems, WellFoundedInduction, TLAPS

\* A client that waits for its answer and sends at the offsets it was told.
OneByOne == Guesses = FALSE /\ \A r, s \in Procs : r = s

Hashes == Seq(Nat) \cup {NoHash}
Rows   == [received : Nat, hash : Hashes, expired : BOOLEAN]
Reqs   == [pc : {"idle", "stat", "body", "save", "saveError", "complete", "publish", "commit", "abort", "forget"},
           u : Rows \cup {None}, offset : Nat, length : Nat, at : Nat, n : Nat, hash : Hashes]

TInv ==
  /\ row \in Rows \cup {None}
  /\ where \in {"none", "staging", "blob", "gone"}
  /\ data \in Seq(Nat) /\ synced \in 0..Len(data)
  /\ req \in [Procs -> Reqs]
  /\ sweep \in {"idle", "abort", "forget"}
  /\ told \subseteq Nat
  /\ begin \in {"new", "started", "over"}

\* The bytes 1..n in order.
Beginning(s, n) == s \in Seq(Nat) /\ Len(s) = n /\ \A i \in 1..n : s[i] = i

\* A hash that is kept is that of the first bytes, and no offset above them was
\* told.
HashIsOf(h, n) == h # NoHash => Beginning(h, n) /\ \A t \in told : t <= n

\* The inode holds the beginning of the file, and the upload starts once.
Staged ==
  /\ Len(data) <= Size /\ Beginning(data, Len(data))
  /\ begin = "new" => where = "none"
  /\ begin # "over" => row = None /\ data = <<>> /\ told = {0}

\* The row's hash.
Accounted == row # None => HashIsOf(row.hash, row.received)

\* A request with a chunk: the row it read is the row that is there, unless it
\* was deleted, and what it hashed follows what the row had, if it began there.
Appends(q) ==
  q.pc \in {"stat", "body", "save", "saveError"} =>
    /\ q.u # None /\ q.n <= q.length /\ q.offset + q.length <= Size
    /\ row # None => row.hash = q.u.hash /\ row.received = q.u.received
    /\ HashIsOf(q.u.hash, q.u.received)
    /\ q.u.hash # NoHash => q.offset <= q.u.received
    /\ q.u.hash # NoHash /\ q.offset = q.u.received => Beginning(q.hash, q.offset + q.n)

\* Where it is: what failed may have been hashed and not kept, or not have
\* begun, but then it does not add up.
At(q) ==
  /\ q.pc = "stat" => q.n = 0 /\ q.hash = q.u.hash
  /\ q.pc = "body" => q.at = q.offset /\ q.offset + q.n = Len(data)
  /\ q.pc = "save" => q.at = q.offset + q.n /\ q.at = Len(data) /\ synced = Len(data)
  /\ q.pc = "saveError" /\ q.u.hash # NoHash /\ q.at = q.u.received + q.n
       => \/ q.offset = q.u.received
          \/ q.n = 0 /\ q.hash = q.u.hash

\* A request that completes has all of the bytes, and they survive the machine.
Completes(q) ==
  /\ q.pc \in {"complete", "publish", "commit"} => synced = Size /\ Len(data) = Size
  /\ q.pc \in {"publish", "commit"} => q.u # None /\ (q.u.hash # NoHash => Beginning(q.u.hash, Size))
  /\ q.pc = "commit" => where = "blob"

Serving(q) == (q.pc # "idle" => begin = "over") /\ Appends(q) /\ At(q) /\ Completes(q)

\* What is published is never touched again.
Over ==
  published # None =>
    /\ where = "blob" /\ row = None /\ begin = "over"
    /\ synced = Size /\ Len(data) = Size /\ Beginning(published.etag, Size)
    /\ \A r \in Procs : req[r].pc = "idle"

Promises == Staged /\ Accounted /\ (\A r \in Procs : Serving(req[r])) /\ Over

UInv == TInv /\ Promises
-----------------------------------------------------------------------------
(* Types, for any number of requests at once.                              *)

LEMMA IdleTypes == Idle \in Reqs /\ Idle.pc = "idle" /\ Idle.n = 0 /\ Idle.u = None
BY DEF Idle, Reqs, Hashes

LEMMA InitTypes == ASSUME Init PROVE TInv
<1>1. data \in Seq(Nat) /\ Len(data) = 0 /\ synced \in 0..Len(data)
  BY DEF Init
<1> QED BY <1>1, IdleTypes DEF Init, TInv

\* Replacing one request by another.
LEMMA ServeTypes ==
  ASSUME TInv, NEW r \in Procs, NEW q \in Reqs, Serve(r, q)
  PROVE  req' \in [Procs -> Reqs]
BY DEF TInv, Serve

LEMMA PatchTypes ==
  ASSUME TInv, NEW r \in Procs, NEW offset \in 0..Size, NEW length \in 0..Size, Patch(r, offset, length)
  PROVE  TInv'
<1> DEFINE q == [Idle EXCEPT !.pc = "stat", !.u = row, !.offset = offset, !.length = length, !.hash = row.hash]
<1>1. row \in Rows /\ offset \in Nat /\ length \in Nat
  BY UploadAssumption DEF TInv, Patch
<1>2. q \in Reqs
  BY <1>1, IdleTypes DEF Reqs, Rows
<1> HIDE DEF q
<1>3. Serve(r, q)
  BY DEF Patch, q
<1> QED BY <1>2, <1>3, ServeTypes DEF TInv, Patch

LEMMA StatTypes == ASSUME TInv, NEW r \in Procs, StatUpload(r) PROVE TInv'
<1>1. PICK at \in Nat, pc \in {"body", "saveError"} : Serve(r, [req[r] EXCEPT !.at = at, !.pc = pc])
  <2>1. (IF where = "staging" THEN Len(data) ELSE 0) \in Nat
    BY DEF TInv
  <2> QED BY <2>1 DEF StatUpload
<1>2. [req[r] EXCEPT !.at = at, !.pc = pc] \in Reqs
  BY DEF TInv, Reqs
<1> QED BY <1>1, <1>2, ServeTypes DEF TInv, StatUpload

LEMMA HashedTypes == ASSUME TInv, NEW r \in Procs PROVE Hashed(r) \in Hashes
<1>1. req[r].hash \in Hashes /\ req[r].offset + req[r].n + 1 \in Nat
  BY DEF TInv, Reqs
<1> QED BY <1>1 DEF Hashed, Hashes

LEMMA CopyByteTypes == ASSUME TInv, NEW r \in Procs, CopyByte(r) PROVE TInv'
<1> DEFINE b == req[r].offset + req[r].n + 1
           q == [req[r] EXCEPT !.n = @ + 1, !.hash = Hashed(r)]
<1>1. b \in Nat /\ req[r] \in Reqs /\ req[r].n + 1 \in Nat
  BY DEF TInv, Reqs
<1>2. q \in Reqs
  BY <1>1, HashedTypes DEF Reqs
<1>3. Append(data, b) \in Seq(Nat) /\ Len(Append(data, b)) = Len(data) + 1 /\ Len(data) \in Nat
  BY <1>1 DEF TInv
<1>4. synced \in 0..(Len(data) + 1)
  BY <1>3 DEF TInv
<1> HIDE DEF q, b
<1>5. Serve(r, q) /\ data' = Append(data, b)
  BY DEF CopyByte, q, b
<1> QED BY <1>2, <1>3, <1>4, <1>5, ServeTypes DEF TInv, CopyByte

LEMMA CopyFailsTypes == ASSUME TInv, NEW r \in Procs, NEW cut \in {0, 1}, CopyFails(r, cut) PROVE TInv'
<1> DEFINE at   == IF where = "staging" THEN Len(data) ELSE req[r].at
           hash == IF cut = 1 THEN Hashed(r) ELSE req[r].hash
           q    == [req[r] EXCEPT !.pc = "saveError", !.at = at, !.n = @ + cut, !.hash = hash]
<1>1. req[r] \in Reqs /\ at \in Nat /\ req[r].n + cut \in Nat
  BY DEF TInv, Reqs
<1>2. hash \in Hashes
  BY <1>1, HashedTypes DEF Reqs
<1>3. Serve(r, q)
  BY DEF CopyFails
<1> HIDE DEF at, hash
<1>4. q \in Reqs
  BY <1>1, <1>2 DEF Reqs
<1> QED BY <1>3, <1>4, ServeTypes DEF TInv, CopyFails

LEMMA CopyEndsTypes == ASSUME TInv, NEW r \in Procs, CopyEnds(r) PROVE TInv'
<1> DEFINE q == [req[r] EXCEPT !.pc = "save", !.at = @ + req[r].n]
<1>1. q \in Reqs
  <2>1. req[r] \in Reqs /\ req[r].at + req[r].n \in Nat
    BY DEF TInv, Reqs
  <2> QED BY <2>1 DEF Reqs
<1>2. Serve(r, q) /\ synced' = Len(data) /\ data' = data
  BY DEF CopyEnds
<1>3. synced' \in 0..Len(data)
  BY <1>2 DEF TInv
<1> QED BY <1>1, <1>2, <1>3, ServeTypes DEF TInv, CopyEnds

LEMMA SaveTypes == ASSUME TInv, NEW r \in Procs, Save(r) PROVE TInv'
<1>1. req[r] \in Reqs
  BY DEF TInv
<1>2. SavedHash(req[r]) \in Hashes /\ req[r].at \in Nat
  BY <1>1 DEF SavedHash, Reqs, Hashes
<1>3. row' \in Rows
  BY <1>2 DEF Save, Rows
<1>4. [Idle EXCEPT !.pc = "complete"] \in Reqs
  BY IdleTypes DEF Reqs
<1>5. req' \in [Procs -> Reqs]
  BY <1>4, IdleTypes, ServeTypes DEF Save, Done
<1> QED BY <1>3, <1>5 DEF TInv, Save

LEMMA CompletingTypes ==
  ASSUME TInv, NEW r \in Procs,
         CompleteRead(r) \/ Publish(r) \/ Commit(r) \/ CommitFails(r) \/ Hangup(r)
  PROVE  TInv'
<1>1. CASE CompleteRead(r)
  <2>1. row # None => [Idle EXCEPT !.pc = "publish", !.u = row] \in Reqs
    BY IdleTypes DEF Reqs, TInv
  <2> QED BY <1>1, <2>1, IdleTypes, ServeTypes DEF TInv, CompleteRead, Done
<1>2. CASE Publish(r)
  <2>1. [req[r] EXCEPT !.pc = "commit"] \in Reqs
    BY DEF TInv, Reqs
  <2> QED BY <1>2, <2>1, IdleTypes, ServeTypes DEF TInv, Publish, Done
<1>3. CASE Commit(r) \/ CommitFails(r) \/ Hangup(r)
  <2>1. req' \in [Procs -> Reqs]
    BY <1>3, IdleTypes, ServeTypes DEF Commit, CommitFails, Hangup, Done
  <2> QED BY <1>3, <2>1 DEF TInv, Commit, CommitFails, Hangup
<1> QED BY <1>1, <1>2, <1>3

LEMMA EndingTypes ==
  ASSUME TInv, NEW r \in Procs, Terminate(r) \/ AbortUpload(r) \/ DeleteUpload(r)
  PROVE  TInv'
<1>1. [Idle EXCEPT !.pc = "abort"] \in Reqs /\ [Idle EXCEPT !.pc = "forget"] \in Reqs
  BY IdleTypes DEF Reqs
<1>2. req' \in [Procs -> Reqs]
  BY <1>1, IdleTypes, ServeTypes DEF Terminate, AbortUpload, DeleteUpload, Done
<1> QED BY <1>2 DEF TInv, Terminate, AbortUpload, DeleteUpload, Gone

LEMMA OthersTypes ==
  ASSUME TInv,
         \/ StartUpload \/ RecordUpload \/ RecordFails \/ Status \/ Expire \/ Sweep \/ SweepFails
         \/ Crash \/ UNCHANGED vars
  PROVE  TInv'
<1>1. CASE StartUpload \/ RecordFails \/ Sweep \/ SweepFails
  BY <1>1 DEF TInv, StartUpload, RecordFails, Sweep, ListExpired, SweepAbort, SweepForget, SweepFails, Gone
<1>2. CASE RecordUpload
  <2>1. row' \in Rows
    BY <1>2 DEF RecordUpload, Rows, Hashes
  <2> QED BY <1>2, <2>1 DEF TInv, RecordUpload
<1>3. CASE Status
  BY <1>3 DEF TInv, Status, Rows
<1>4. CASE Expire
  <2>1. row' \in Rows
    BY <1>4 DEF TInv, Expire, Rows
  <2> QED BY <1>4, <2>1 DEF TInv, Expire
<1>5. CASE Crash
  <2>1. PICK n \in synced..Len(data) : data' = SubSeq(data, 1, n) /\ synced' = n
    BY <1>5 DEF Crash
  <2>2. n \in Nat /\ n <= Len(data)
    BY <2>1 DEF TInv
  <2>3. data' \in Seq(Nat) /\ Len(data') = n
    BY <2>1, <2>2, SubSeqProperties DEF TInv
  <2>4. synced' \in 0..Len(data')
    BY <2>1, <2>2, <2>3
  <2>5. req' \in [Procs -> Reqs]
    BY <1>5, IdleTypes DEF Crash
  <2> QED BY <1>5, <2>3, <2>4, <2>5 DEF TInv, Crash
<1>6. CASE UNCHANGED vars
  BY <1>6 DEF TInv, vars
<1> QED BY <1>1, <1>2, <1>3, <1>4, <1>5, <1>6

LEMMA NextTypes == ASSUME TInv, [Next]_vars PROVE TInv'
<1>1. CASE \E r \in Procs, offset \in 0..Size, length \in 0..Size : Patch(r, offset, length)
  BY <1>1, PatchTypes
<1>2. CASE \E r \in Procs : Step(r) \/ Hangup(r) \/ CommitFails(r) \/ Terminate(r)
  BY <1>2, StatTypes, CopyByteTypes, CopyEndsTypes, SaveTypes, CompletingTypes, EndingTypes DEF Step
<1>3. CASE \E r \in Procs : \E cut \in {0, 1} : CopyFails(r, cut)
  BY <1>3, CopyFailsTypes
<1>4. CASE \/ StartUpload \/ RecordUpload \/ RecordFails \/ Status \/ Expire \/ Sweep \/ SweepFails
           \/ Crash \/ UNCHANGED vars
  BY <1>4, OthersTypes
<1> QED BY <1>1, <1>2, <1>3, <1>4 DEF Next

\* What survives the machine is never more than there is, and a request is at
\* one of the places tus and the service have, however many run at once.
THEOREM UploadsAreTyped == Spec => []TInv
<1>1. Init => TInv
  BY InitTypes
<1>2. TInv /\ [Next]_vars => TInv'
  BY NextTypes
<1> QED BY <1>1, <1>2, PTL DEF Spec
-----------------------------------------------------------------------------
(* Beginnings.                                                             *)

LEMMA NoBytes == Beginning(<<>>, 0)
BY DEF Beginning

LEMMA SizeIsNat == Size \in Nat
BY UploadAssumption

LEMMA OneMore ==
  ASSUME NEW n \in Nat, NEW s, Beginning(s, n) PROVE Beginning(Append(s, n + 1), n + 1)
BY DEF Beginning

LEMMA Fewer ==
  ASSUME NEW n \in Nat, NEW s, Beginning(s, n), NEW m \in 0..n PROVE Beginning(SubSeq(s, 1, m), m)
<1>1. m \in Nat /\ m <= n /\ s \in Seq(Nat) /\ Len(s) = n
  BY DEF Beginning
<1>2. SubSeq(s, 1, m) \in Seq(Nat) /\ Len(SubSeq(s, 1, m)) = m
  BY <1>1, SubSeqProperties
<1>3. ASSUME NEW i \in 1..m PROVE SubSeq(s, 1, m)[i] = i
  <2>1. i \in 1..n
    BY <1>1
  <2>2. SubSeq(s, 1, m)[i] = s[i]
    BY <1>1, <2>1
  <2> QED BY <2>1, <2>2 DEF Beginning
<1> QED BY <1>2, <1>3 DEF Beginning

LEMMA AllOfIt == ASSUME NEW s, Beginning(s, Size) PROVE s = Payload
<1>1. s \in Seq(Nat) /\ Len(s) = Size /\ \A i \in 1..Size : s[i] = i
  BY DEF Beginning
<1>2. s = [i \in 1..Size |-> s[i]]
  BY <1>1
<1> QED BY <1>1, <1>2 DEF Payload

LEMMA PartOfIt == ASSUME NEW n \in 0..Size, NEW s, Beginning(s, n) PROVE s = SubSeq(Payload, 1, n)
<1>1. n \in Nat /\ n <= Size /\ Size \in Nat
  BY UploadAssumption
<1>2. Payload \in Seq(Nat) /\ Len(Payload) = Size /\ \A i \in 1..Size : Payload[i] = i
  BY <1>1 DEF Payload
<1>3. Beginning(Payload, Size)
  BY <1>2 DEF Beginning
<1>4. Beginning(SubSeq(Payload, 1, n), n)
  BY <1>1, <1>3, Fewer
<1> DEFINE p == SubSeq(Payload, 1, n)
<1> HIDE DEF p
<1>5. p \in Seq(Nat) /\ Len(p) = n /\ \A i \in 1..n : p[i] = i
  BY <1>4 DEF Beginning, p
<1>6. s \in Seq(Nat) /\ Len(s) = n /\ \A i \in 1..n : s[i] = i
  BY DEF Beginning
<1>7. s = [i \in 1..n |-> i] /\ p = [i \in 1..n |-> i]
  BY <1>1, <1>5, <1>6
<1> QED BY <1>7 DEF p
-----------------------------------------------------------------------------
(* One request.                                                            *)

LEMMA Alone ==
  ASSUME OneByOne, TInv, NEW r \in Procs, NEW q, Serve(r, q)
  PROVE  \A s \in Procs : s = r /\ req'[s] = q
BY DEF OneByOne, TInv, Serve

\* While one is at work nothing has been published, and the upload has begun.
LEMMA Working ==
  ASSUME UInv, NEW r \in Procs, req[r].pc # "idle" PROVE published = None /\ begin = "over"
BY DEF UInv, Promises, Over, Serving

\* A request without a chunk promises nothing.
LEMMA Resting ==
  ASSUME NEW q, q.pc \in {"idle", "abort", "forget"}, q.pc # "idle" => begin' = "over"
  PROVE  Serving(q)'
BY DEF Serving, Appends, At, Completes

LEMMA Served ==
  ASSUME OneByOne, TInv, NEW r \in Procs, NEW q, Serve(r, q), Serving(q)'
  PROVE  \A s \in Procs : Serving(req[s])'
BY Alone DEF Serving

LEMMA InitHolds == ASSUME Init PROVE UInv
<1>1. Staged
  BY NoBytes, UploadAssumption DEF Init, Staged
<1>2. \A r \in Procs : Serving(req[r])
  BY IdleTypes DEF Init, Serving, Appends, At, Completes
<1> QED BY <1>1, <1>2, InitTypes DEF Init, UInv, Promises, Accounted, Over
-----------------------------------------------------------------------------
(* A chunk.                                                                *)

LEMMA PatchHolds ==
  ASSUME UInv, OneByOne, NEW r \in Procs, NEW offset \in 0..Size, NEW length \in 0..Size, Patch(r, offset, length)
  PROVE  Promises'
<1>0. PICK q : q = [Idle EXCEPT !.pc = "stat", !.u = row, !.offset = offset, !.length = length, !.hash = row.hash]
  OBVIOUS
<1>1. row # None /\ row \in Rows /\ offset \in told /\ offset + length <= Size /\ begin = "over" /\ published = None
  BY DEF UInv, TInv, Promises, Staged, Over, Patch, OneByOne
<1>2. /\ q.pc = "stat" /\ q.u = row /\ q.offset = offset /\ q.length = length /\ q.hash = row.hash
      /\ q.n = 0
  BY <1>0 DEF Idle
<1>3. Serve(r, q) /\ UNCHANGED <<row, where, data, synced, published, told, begin>>
  BY <1>0 DEF Patch
<1>4. HashIsOf(row.hash, row.received) /\ (row.hash # NoHash => offset <= row.received)
  BY <1>1 DEF UInv, Promises, Accounted, HashIsOf
<1>5. 0 <= length /\ offset + 0 = offset
  BY UploadAssumption
<1>6. Appends(q)'
  BY <1>1, <1>2, <1>3, <1>4, <1>5 DEF Appends, HashIsOf
<1>7. Serving(q)'
  BY <1>1, <1>2, <1>3, <1>6 DEF Serving, At, Completes
<1>8. Staged' /\ Accounted' /\ Over'
  BY <1>1, <1>3 DEF UInv, Promises, Staged, Accounted, HashIsOf, Over
<1> QED BY <1>3, <1>7, <1>8, Served DEF UInv, Promises

LEMMA StatHolds == ASSUME UInv, OneByOne, NEW r \in Procs, StatUpload(r) PROVE Promises'
<1> DEFINE at == IF where = "staging" THEN Len(data) ELSE 0
           pc == IF where = "staging" /\ at = req[r].offset THEN "body" ELSE "saveError"
<1>0. PICK q : q = [req[r] EXCEPT !.at = at, !.pc = pc]
  OBVIOUS
<1>1. req[r] \in Reqs /\ req[r].pc = "stat" /\ Serving(req[r]) /\ begin = "over" /\ published = None
  BY Working DEF StatUpload, UInv, TInv, Promises
<1>2. Serve(r, q) /\ UNCHANGED <<row, where, data, synced, published, told, begin>>
  BY <1>0 DEF StatUpload
<1>3. /\ q.pc \in {"body", "saveError"} /\ q.u = req[r].u /\ q.offset = req[r].offset
      /\ q.length = req[r].length /\ q.hash = req[r].hash /\ q.n = req[r].n /\ q.at = at
      /\ q.pc = "body" => at = Len(data) /\ at = req[r].offset
  BY <1>0, <1>1 DEF Reqs
<1>4. req[r].n = 0 /\ req[r].hash = req[r].u.hash /\ req[r].offset \in Nat /\ req[r].offset + 0 = req[r].offset
  BY <1>1 DEF Serving, At, Reqs
<1> HIDE DEF at, pc
<1>5. Appends(q)'
  BY <1>1, <1>2, <1>3 DEF Serving, Appends, HashIsOf
<1>6. At(q)'
  BY <1>2, <1>3, <1>4 DEF At
<1>7. Serving(q)'
  BY <1>1, <1>2, <1>3, <1>5, <1>6 DEF Serving, Completes
<1>8. Staged' /\ Accounted' /\ Over'
  BY <1>1, <1>2 DEF UInv, Promises, Staged, Accounted, HashIsOf, Over
<1> QED BY <1>2, <1>7, <1>8, Served DEF UInv, Promises

\* What is hashed next follows what was.
LEMMA HashedNext ==
  ASSUME NEW r \in Procs, req[r] \in Reqs, Beginning(req[r].hash, req[r].offset + req[r].n)
  PROVE  Beginning(Hashed(r), req[r].offset + req[r].n + 1)
<1>1. req[r].offset + req[r].n \in Nat
  BY DEF Reqs
<1>2. req[r].hash # NoHash
  BY UploadAssumption DEF Beginning
<1> QED BY <1>1, <1>2, OneMore DEF Hashed

LEMMA FitsIn ==
  ASSUME NEW o \in Nat, NEW n \in Nat, NEW l \in Nat, NEW s \in Nat, n < l, o + l <= s
  PROVE  n + 1 <= l /\ (o + n) + 1 <= s /\ o + (n + 1) = (o + n) + 1
OBVIOUS

LEMMA CopyByteHolds == ASSUME UInv, OneByOne, NEW r \in Procs, CopyByte(r) PROVE Promises'
<1> DEFINE m == req[r].offset + req[r].n
<1>0. PICK q : q = [req[r] EXCEPT !.n = @ + 1, !.hash = Hashed(r)]
  OBVIOUS
<1>1. /\ req[r] \in Reqs /\ req[r].pc = "body" /\ Serving(req[r])
      /\ begin = "over" /\ published = None /\ req[r].n < req[r].length
  BY Working DEF CopyByte, UInv, TInv, Promises
<1>2. /\ Serve(r, q) /\ data' = Append(data, m + 1)
      /\ UNCHANGED <<row, where, synced, published, told, begin>>
  BY <1>0 DEF CopyByte
<1>3. /\ q.pc = "body" /\ q.u = req[r].u /\ q.offset = req[r].offset /\ q.length = req[r].length
      /\ q.hash = Hashed(r) /\ q.n = req[r].n + 1 /\ q.at = req[r].at
  BY <1>0, <1>1 DEF Reqs
<1>4. /\ req[r].offset \in Nat /\ req[r].n \in Nat /\ req[r].length \in Nat /\ m \in Nat
      /\ m = Len(data) /\ req[r].at = req[r].offset
      /\ req[r].offset + req[r].length <= Size
  BY <1>1 DEF Serving, At, Appends, Reqs
<1>5. /\ req[r].n + 1 <= req[r].length /\ m + 1 <= Size
      /\ req[r].offset + (req[r].n + 1) = m + 1
  BY <1>1, <1>4, SizeIsNat, FitsIn
<1>6. Beginning(data', m + 1) /\ Len(data') = m + 1
  BY <1>2, <1>4, OneMore DEF UInv, Promises, Staged, Beginning
<1>7. req[r].u.hash # NoHash /\ req[r].offset = req[r].u.received => Beginning(Hashed(r), m + 1)
  <2> SUFFICES ASSUME req[r].u.hash # NoHash, req[r].offset = req[r].u.received
               PROVE  Beginning(Hashed(r), m + 1)
    OBVIOUS
  <2>1. Beginning(req[r].hash, m)
    BY <1>1 DEF Serving, Appends
  <2> QED BY <1>1, <2>1, HashedNext
<1> HIDE DEF m
<1>8. Appends(q)'
  BY <1>1, <1>2, <1>3, <1>4, <1>5, <1>7 DEF Serving, Appends, HashIsOf
<1>9. Serving(q)'
  BY <1>1, <1>2, <1>3, <1>4, <1>5, <1>6, <1>8 DEF Serving, At, Completes
<1>10. Staged' /\ Accounted' /\ Over'
  BY <1>1, <1>2, <1>5, <1>6 DEF UInv, Promises, Staged, Accounted, HashIsOf, Over
<1> QED BY <1>2, <1>9, <1>10, Served DEF UInv, Promises

LEMMA AddsUp ==
  ASSUME NEW o \in Nat, NEW n \in Nat, NEW t \in Nat, NEW cut \in {0, 1}, o <= t,
         t + (n + cut) = o + n \/ t + (n + cut) = o
  PROVE  o = t
OBVIOUS

LEMMA CopyFailsHolds ==
  ASSUME UInv, OneByOne, NEW r \in Procs, NEW cut \in {0, 1}, CopyFails(r, cut) PROVE Promises'
<1> DEFINE at   == IF where = "staging" THEN Len(data) ELSE req[r].at
           hash == IF cut = 1 THEN Hashed(r) ELSE req[r].hash
           m    == req[r].offset + req[r].n
<1>0. PICK q : q = [req[r] EXCEPT !.pc = "saveError", !.at = at, !.n = @ + cut, !.hash = hash]
  OBVIOUS
<1>1. /\ req[r] \in Reqs /\ req[r].pc = "body" /\ Serving(req[r]) /\ begin = "over" /\ published = None
      /\ (cut = 1 => req[r].n < req[r].length)
  BY Working DEF CopyFails, UInv, TInv, Promises
<1>2. Serve(r, q) /\ UNCHANGED <<row, where, data, synced, published, told, begin>>
  BY <1>0 DEF CopyFails
<1>3. /\ q.pc = "saveError" /\ q.u = req[r].u /\ q.offset = req[r].offset
      /\ q.length = req[r].length /\ q.hash = hash /\ q.n = req[r].n + cut /\ q.at = at
  BY <1>0, <1>1 DEF Reqs
<1>4. /\ req[r].offset \in Nat /\ req[r].n \in Nat /\ req[r].length \in Nat
      /\ m = Len(data) /\ req[r].at = req[r].offset
      /\ req[r].n <= req[r].length /\ req[r].offset + req[r].length <= Size
  BY <1>1 DEF Serving, At, Appends, Reqs
<1>5. req[r].n + cut <= req[r].length
  BY <1>1, <1>4
<1>6. req[r].u.hash # NoHash /\ req[r].offset = req[r].u.received
        => Beginning(hash, req[r].offset + (req[r].n + cut))
  <2> SUFFICES ASSUME req[r].u.hash # NoHash, req[r].offset = req[r].u.received
               PROVE  Beginning(hash, req[r].offset + (req[r].n + cut))
    OBVIOUS
  <2>1. Beginning(req[r].hash, m)
    BY <1>1 DEF Serving, Appends
  <2>2. CASE cut = 0
    <3>1. req[r].offset + (req[r].n + cut) = m /\ hash = req[r].hash
      BY <1>4, <2>2
    <3> QED BY <2>1, <3>1
  <2>3. CASE cut = 1
    <3>1. req[r].offset + (req[r].n + cut) = m + 1 /\ hash = Hashed(r)
      BY <1>4, <2>3
    <3> QED BY <1>1, <2>1, <3>1, HashedNext
  <2> QED BY <2>2, <2>3
\* More was hashed than kept: it adds up only from where the row was.
<1>7. req[r].u # None /\ req[r].u.hash # NoHash /\ at = req[r].u.received + (req[r].n + cut)
        => req[r].offset = req[r].u.received
  <2> SUFFICES ASSUME req[r].u # None, req[r].u.hash # NoHash, at = req[r].u.received + (req[r].n + cut)
               PROVE  req[r].offset = req[r].u.received
    OBVIOUS
  <2>1. /\ req[r].u.received \in Nat /\ req[r].offset <= req[r].u.received
        /\ at = req[r].u.received + (req[r].n + cut)
    BY <1>1 DEF Serving, Appends, Reqs, Rows
  <2>2. at = m \/ at = req[r].offset
    BY <1>4
  <2> HIDE DEF at
  <2>3. CASE at = req[r].offset + req[r].n
    BY <1>4, <2>1, <2>3, AddsUp
  <2>4. CASE at = req[r].offset
    BY <1>4, <2>1, <2>4, AddsUp
  <2> QED BY <2>2, <2>3, <2>4
<1>8. req[r].u # None
  BY <1>1 DEF Serving, Appends
<1> HIDE DEF at, hash, m
<1>9. Appends(q)'
  BY <1>1, <1>2, <1>3, <1>4, <1>5, <1>6, <1>8 DEF Serving, Appends, HashIsOf
<1>10. At(q)'
  BY <1>3, <1>7, <1>8 DEF At
<1>11. Serving(q)'
  BY <1>1, <1>2, <1>3, <1>9, <1>10 DEF Serving, Completes
<1>12. Staged' /\ Accounted' /\ Over'
  BY <1>1, <1>2 DEF UInv, Promises, Staged, Accounted, HashIsOf, Over
<1> QED BY <1>2, <1>11, <1>12, Served DEF UInv, Promises

LEMMA CopyEndsHolds == ASSUME UInv, OneByOne, NEW r \in Procs, CopyEnds(r) PROVE Promises'
<1>0. PICK q : q = [req[r] EXCEPT !.pc = "save", !.at = @ + req[r].n]
  OBVIOUS
<1>1. req[r] \in Reqs /\ req[r].pc = "body" /\ Serving(req[r]) /\ begin = "over" /\ published = None
  BY Working DEF CopyEnds, UInv, TInv, Promises
<1>2. Serve(r, q) /\ synced' = Len(data) /\ UNCHANGED <<row, where, data, published, told, begin>>
  BY <1>0 DEF CopyEnds
<1>3. /\ q.pc = "save" /\ q.u = req[r].u /\ q.offset = req[r].offset
      /\ q.length = req[r].length /\ q.hash = req[r].hash /\ q.n = req[r].n /\ q.at = req[r].at + req[r].n
  BY <1>0, <1>1 DEF Reqs
<1>4. req[r].at = req[r].offset /\ req[r].offset + req[r].n = Len(data)
  BY <1>1 DEF Serving, At
<1>5. Appends(q)'
  BY <1>1, <1>2, <1>3 DEF Serving, Appends, HashIsOf
<1>6. At(q)'
  BY <1>2, <1>3, <1>4 DEF At
<1>7. Serving(q)'
  BY <1>1, <1>2, <1>3, <1>5, <1>6 DEF Serving, Completes
<1>8. Staged' /\ Accounted' /\ Over'
  BY <1>1, <1>2 DEF UInv, Promises, Staged, Accounted, HashIsOf, Over
<1> QED BY <1>2, <1>7, <1>8, Served DEF UInv, Promises

\* The hash that is kept is that of the bytes the offset says.
LEMMA SavedHashes ==
  ASSUME UInv, NEW r \in Procs, req[r].pc \in {"save", "saveError"}
  PROVE  HashIsOf(SavedHash(req[r]), req[r].at)
<1> DEFINE q == req[r]
<1>1. q \in Reqs /\ Serving(q) /\ q.u # None /\ q.offset \in Nat /\ q.n \in Nat /\ q.u.received \in Nat
  BY DEF UInv, TInv, Promises, Serving, Appends, Reqs, Rows
<1> SUFFICES ASSUME SavedHash(q) # NoHash PROVE Beginning(SavedHash(q), q.at) /\ \A t \in told : t <= q.at
  BY DEF HashIsOf
<1>2. q.u.hash # NoHash /\ q.at = q.u.received + q.n /\ SavedHash(q) = q.hash
  BY DEF SavedHash
<1>3. /\ Beginning(q.u.hash, q.u.received) /\ \A t \in told : t <= q.u.received
      /\ q.offset <= q.u.received
      /\ q.offset = q.u.received => Beginning(q.hash, q.offset + q.n)
  BY <1>1, <1>2 DEF Serving, Appends, HashIsOf
<1>4. q.offset = q.u.received \/ (q.n = 0 /\ q.hash = q.u.hash)
  <2>1. CASE q.pc = "save"
    <3>1. q.offset + q.n = q.u.received + q.n
      BY <1>1, <1>2, <2>1 DEF Serving, At
    <3> QED BY <1>1, <3>1
  <2>2. CASE q.pc = "saveError"
    BY <1>1, <1>2, <2>2 DEF Serving, At
  <2> QED BY <2>1, <2>2
<1>5. Beginning(q.hash, q.at)
  <2>1. CASE q.offset = q.u.received
    BY <1>2, <1>3, <2>1
  <2>2. CASE q.n = 0 /\ q.hash = q.u.hash
    <3>1. q.at = q.u.received
      BY <1>1, <1>2, <2>2
    <3> QED BY <1>3, <2>2, <3>1
  <2> QED BY <1>4, <2>1, <2>2
<1>6. ASSUME NEW t \in told PROVE t <= q.at
  <2>1. t \in Nat /\ t <= q.u.received
    BY <1>3 DEF UInv, TInv
  <2>2. t <= q.u.received + q.n
    BY <1>1, <2>1
  <2> QED BY <1>2, <2>2
<1> QED BY <1>2, <1>5, <1>6

LEMMA SaveHolds == ASSUME UInv, OneByOne, NEW r \in Procs, Save(r) PROVE Promises'
<1>1. /\ req[r] \in Reqs /\ req[r].pc \in {"save", "saveError"} /\ Serving(req[r])
      /\ begin = "over" /\ published = None
  BY Working DEF Save, UInv, TInv, Promises
<1>2. /\ row' = [received |-> req[r].at, hash |-> SavedHash(req[r]), expired |-> FALSE]
      /\ UNCHANGED <<where, data, synced, published, told, begin>>
  BY DEF Save
<1>3. Accounted'
  BY <1>1, <1>2, SavedHashes DEF Accounted, HashIsOf
<1>4. CASE req[r].pc = "save" /\ req[r].at = Size
  <2>0. PICK q : q = [Idle EXCEPT !.pc = "complete"]
    OBVIOUS
  <2>1. Serve(r, q) /\ q.pc = "complete"
    BY <1>4, <2>0 DEF Save, Idle
  <2>2. synced = Size /\ Len(data) = Size
    BY <1>1, <1>4 DEF Serving, At
  <2>3. Serving(q)'
    BY <1>1, <1>2, <2>1, <2>2 DEF Serving, Appends, At, Completes
  <2> QED BY <1>1, <1>2, <1>3, <2>1, <2>3, Served DEF UInv, Promises, Staged, Over
<1>5. CASE ~(req[r].pc = "save" /\ req[r].at = Size)
  <2>1. Serve(r, Idle)
    BY <1>5 DEF Save, Done
  <2> QED BY <1>1, <1>2, <1>3, <2>1, IdleTypes, Resting, Served DEF UInv, Promises, Staged, Over
<1> QED BY <1>4, <1>5

LEMMA HangupHolds == ASSUME UInv, OneByOne, NEW r \in Procs, Hangup(r) PROVE Promises'
<1>1. published = None /\ begin = "over"
  BY Working DEF Hangup
<1>2. Serve(r, Idle) /\ UNCHANGED <<row, where, data, synced, published, told, begin>>
  BY DEF Hangup, Done
<1> QED BY <1>1, <1>2, IdleTypes, Resting, Served DEF UInv, Promises, Staged, Accounted, HashIsOf, Over
-----------------------------------------------------------------------------
(* The last byte.                                                          *)

LEMMA CompleteReadHolds == ASSUME UInv, OneByOne, NEW r \in Procs, CompleteRead(r) PROVE Promises'
<1>1. req[r].pc = "complete" /\ Serving(req[r]) /\ begin = "over" /\ published = None
  BY Working DEF CompleteRead, UInv, Promises
<1>2. UNCHANGED <<row, where, data, synced, published, told, begin>>
  BY DEF CompleteRead
<1>3. Staged' /\ Accounted' /\ Over'
  BY <1>1, <1>2 DEF UInv, Promises, Staged, Accounted, HashIsOf, Over
<1>4. CASE row # None /\ row.received = Size
  <2>0. PICK q : q = [Idle EXCEPT !.pc = "publish", !.u = row]
    OBVIOUS
  <2>1. Serve(r, q) /\ q.pc = "publish" /\ q.u = row
    BY <1>4, <2>0 DEF CompleteRead, Idle
  <2>2. row.hash # NoHash => Beginning(row.hash, Size)
    BY <1>4 DEF UInv, Promises, Accounted, HashIsOf
  <2>3. synced = Size /\ Len(data) = Size
    BY <1>1 DEF Serving, Completes
  <2>4. Serving(q)'
    BY <1>1, <1>2, <1>4, <2>1, <2>2, <2>3 DEF Serving, Appends, At, Completes
  <2> QED BY <1>3, <2>1, <2>4, Served DEF UInv, Promises
<1>5. CASE ~(row # None /\ row.received = Size)
  <2>1. Serve(r, Idle)
    BY <1>5 DEF CompleteRead, Done
  <2> QED BY <1>3, <2>1, IdleTypes, Resting, Served DEF UInv, Promises
<1> QED BY <1>4, <1>5

LEMMA PublishHolds == ASSUME UInv, OneByOne, NEW r \in Procs, Publish(r) PROVE Promises'
<1>1. req[r] \in Reqs /\ req[r].pc = "publish" /\ Serving(req[r]) /\ begin = "over" /\ published = None
  BY Working DEF Publish, UInv, TInv, Promises
<1>2. UNCHANGED <<row, data, synced, published, told, begin>>
  BY DEF Publish
<1>3. Staged' /\ Accounted' /\ Over'
  BY <1>1, <1>2 DEF UInv, Promises, Staged, Accounted, HashIsOf, Over
<1>4. CASE where = "staging"
  <2>0. PICK q : q = [req[r] EXCEPT !.pc = "commit"]
    OBVIOUS
  <2>1. Serve(r, q) /\ where' = "blob" /\ q.pc = "commit" /\ q.u = req[r].u
    BY <1>1, <1>4, <2>0 DEF Publish, Reqs
  <2>2. Serving(q)'
    BY <1>1, <1>2, <2>1 DEF Serving, Appends, At, Completes
  <2> QED BY <1>3, <2>1, <2>2, Served DEF UInv, Promises
<1>5. CASE where # "staging"
  <2>1. Serve(r, Idle)
    BY <1>5 DEF Publish, Done
  <2> QED BY <1>3, <2>1, IdleTypes, Resting, Served DEF UInv, Promises
<1> QED BY <1>4, <1>5

\* The digest is of what was sent: the running hash, or the object read back.
LEMMA CommitHolds == ASSUME UInv, OneByOne, NEW r \in Procs, Commit(r) PROVE Promises'
<1>1. req[r] \in Reqs /\ req[r].pc = "commit" /\ Serving(req[r]) /\ begin = "over" /\ published = None
  BY Working DEF Commit, UInv, TInv, Promises
<1>2. /\ Serve(r, Idle) /\ published' = [etag |-> ETag(r)] /\ row' = None
      /\ UNCHANGED <<where, data, synced, told, begin>>
  BY DEF Commit, Done
<1>3. synced = Size /\ Len(data) = Size /\ where = "blob"
  BY <1>1 DEF Serving, Completes
<1>4. Beginning(ETag(r), Size)
  BY <1>1, <1>3 DEF UInv, Promises, Staged, Serving, Completes, ETag
<1>5. \A s \in Procs : req'[s] = Idle
  BY <1>2, Alone DEF UInv
<1>6. Over'
  BY <1>1, <1>2, <1>3, <1>4, <1>5, IdleTypes DEF Over
<1>7. Staged' /\ Accounted'
  BY <1>1, <1>2 DEF UInv, Promises, Staged, Accounted
<1> QED BY <1>1, <1>2, <1>6, <1>7, IdleTypes, Resting, Served DEF UInv, Promises

LEMMA CommitFailsHolds == ASSUME UInv, OneByOne, NEW r \in Procs, CommitFails(r) PROVE Promises'
<1>1. published = None /\ begin = "over"
  BY Working DEF CommitFails
<1>2. Serve(r, Idle) /\ UNCHANGED <<row, data, synced, published, told, begin>>
  BY DEF CommitFails, Done
<1> QED BY <1>1, <1>2, IdleTypes, Resting, Served DEF UInv, Promises, Staged, Accounted, HashIsOf, Over
-----------------------------------------------------------------------------
(* The end of an upload, and the rest of the world.                        *)

LEMMA EndingHolds ==
  ASSUME UInv, OneByOne, NEW r \in Procs, Terminate(r) \/ AbortUpload(r) \/ DeleteUpload(r) PROVE Promises'
<1>1. published = None /\ begin = "over"
  <2>1. CASE Terminate(r)
    BY <2>1 DEF Terminate, UInv, Promises, Staged, Over
  <2>2. CASE AbortUpload(r) \/ DeleteUpload(r)
    BY <2>2, Working DEF AbortUpload, DeleteUpload
  <2> QED BY <2>1, <2>2
<1>2. PICK q : Serve(r, q) /\ q.pc \in {"idle", "abort", "forget"}
  BY IdleTypes DEF Terminate, AbortUpload, DeleteUpload, Done, Idle
<1>3. UNCHANGED <<data, synced, published, told, begin>> /\ row' \in {row, None}
  BY DEF Terminate, AbortUpload, DeleteUpload
<1> QED BY <1>1, <1>2, <1>3, Resting, Served DEF UInv, Promises, Staged, Accounted, HashIsOf, Over

LEMMA BeginHolds == ASSUME UInv, StartUpload \/ RecordUpload \/ RecordFails PROVE Promises'
<1>1. begin # "over" /\ row = None /\ data = <<>> /\ told = {0} /\ published = None
  BY DEF UInv, Promises, Staged, Over, StartUpload, RecordUpload, RecordFails
<1>2. \A r \in Procs : req[r].pc = "idle"
  BY <1>1 DEF UInv, Promises, Serving
<1>3. UNCHANGED <<data, synced, published, req, told>>
  BY DEF StartUpload, RecordUpload, RecordFails
<1>4. \A r \in Procs : Serving(req[r])'
  BY <1>2, <1>3 DEF Serving, Appends, At, Completes
<1>5. Over'
  BY <1>1, <1>3 DEF Over
<1>6. Accounted'
  <2>1. HashIsOf(<<>>, 0)'
    BY <1>1, <1>3, NoBytes DEF HashIsOf
  <2> QED BY <1>1, <2>1 DEF Accounted, HashIsOf, StartUpload, RecordUpload, RecordFails
<1>7. Staged'
  BY <1>1, <1>3 DEF UInv, Promises, Staged, StartUpload, RecordUpload, RecordFails
<1> QED BY <1>4, <1>5, <1>6, <1>7 DEF Promises

LEMMA StatusHolds == ASSUME UInv, Status PROVE Promises'
<1>1. /\ row # None /\ told' = told \cup {row.received}
      /\ UNCHANGED <<row, where, data, synced, published, req, begin>>
  BY DEF Status
<1>2. row.received \in Nat /\ row.received <= row.received
  BY <1>1 DEF UInv, TInv, Rows
<1>3. \A r \in Procs : Appends(req[r])'
  BY <1>1, <1>2 DEF UInv, Promises, Serving, Appends, HashIsOf
<1>4. \A r \in Procs : Serving(req[r])'
  BY <1>1, <1>3 DEF UInv, Promises, Serving, At, Completes
<1>5. Accounted'
  BY <1>1, <1>2 DEF UInv, Promises, Accounted, HashIsOf
<1> QED BY <1>1, <1>4, <1>5 DEF UInv, Promises, Staged, Over

\* The row changes only in what no request reads, or goes; the inode goes only
\* when it is no blob.
LEMMA CollectHolds == ASSUME UInv, Expire \/ Sweep \/ SweepFails PROVE Promises'
<1>1. /\ UNCHANGED <<data, synced, published, req, told, begin>>
      /\ where' = where \/ where = "staging"
  BY DEF Expire, Sweep, ListExpired, SweepAbort, SweepForget, SweepFails, Gone
<1>2. row' # None => row # None /\ row'.received = row.received /\ row'.hash = row.hash
  <2>1. CASE Expire
    BY <2>1 DEF Expire, UInv, TInv, Rows
  <2>2. CASE Sweep \/ SweepFails
    BY <2>2 DEF Sweep, ListExpired, SweepAbort, SweepForget, SweepFails
  <2> QED BY <2>1, <2>2
<1>3. published # None => row' = None
  <2>1. published # None => row = None
    BY DEF UInv, Promises, Over
  <2> QED BY <1>2, <2>1
<1>4. \A r \in Procs : Serving(req[r])'
  BY <1>1, <1>2 DEF UInv, Promises, Serving, Appends, At, Completes, HashIsOf
<1>5. Staged'
  <2>1. begin = "new" => where' = "none"
    BY <1>1 DEF UInv, Promises, Staged
  <2>2. begin # "over" => row' = None
    BY <1>2 DEF UInv, Promises, Staged
  <2> QED BY <1>1, <2>1, <2>2 DEF UInv, Promises, Staged
<1>6. Accounted'
  BY <1>1, <1>2 DEF UInv, Promises, Accounted, HashIsOf
<1>7. Over'
  <2>1. published # None => where' = "blob"
    BY <1>1 DEF UInv, Promises, Over
  <2> QED BY <1>1, <1>3, <2>1 DEF UInv, Promises, Over
<1> QED BY <1>4, <1>5, <1>6, <1>7 DEF Promises

\* What was published was synced before the row said so.
LEMMA CrashHolds == ASSUME UInv, Crash PROVE Promises'
<1>1. PICK n \in synced..Len(data) : data' = SubSeq(data, 1, n) /\ synced' = n
  BY DEF Crash
<1>2. n \in 0..Len(data) /\ Len(data) \in Nat /\ Len(data) <= Size /\ Beginning(data, Len(data)) /\ synced <= n
  BY <1>1 DEF UInv, TInv, Promises, Staged
<1>3. Beginning(data', n) /\ Len(data') = n /\ n <= Size
  BY <1>1, <1>2, Fewer, SizeIsNat DEF Beginning
<1>4. /\ UNCHANGED <<row, where, published, told>>
      /\ begin' = IF begin = "started" THEN "over" ELSE begin
      /\ \A r \in Procs : req'[r] = Idle
  BY DEF Crash
<1>5. data = <<>> => data' = <<>>
  <2>1. data = <<>> => n = 0
    BY <1>2
  <2> QED BY <1>3, <2>1 DEF Beginning
<1>6. Staged'
  BY <1>3, <1>4, <1>5 DEF UInv, Promises, Staged
<1>7. \A r \in Procs : Serving(req[r])'
  BY <1>4, IdleTypes DEF Serving, Appends, At, Completes
<1>8. Over'
  <2>1. published # None => n = Size
    BY <1>2, SizeIsNat DEF UInv, Promises, Over
  <2> QED BY <1>1, <1>3, <1>4, <2>1, IdleTypes DEF UInv, Promises, Over
<1>9. Accounted'
  BY <1>4 DEF UInv, Promises, Accounted, HashIsOf
<1> QED BY <1>6, <1>7, <1>8, <1>9 DEF Promises

LEMMA NextKeepsPromises == ASSUME UInv, OneByOne, [Next]_vars PROVE Promises'
<1>1. CASE \E r \in Procs, offset \in 0..Size, length \in 0..Size : Patch(r, offset, length)
  BY <1>1, PatchHolds
<1>2. CASE \E r \in Procs : Step(r) \/ Hangup(r) \/ CommitFails(r) \/ Terminate(r)
  BY <1>2, StatHolds, CopyByteHolds, CopyEndsHolds, SaveHolds, HangupHolds, CompleteReadHolds, PublishHolds,
     CommitHolds, CommitFailsHolds, EndingHolds DEF Step
<1>3. CASE \E r \in Procs : \E cut \in {0, 1} : CopyFails(r, cut)
  BY <1>3, CopyFailsHolds
<1>4. CASE StartUpload \/ RecordUpload \/ RecordFails
  BY <1>4, BeginHolds
<1>5. CASE Status \/ Expire \/ Sweep \/ SweepFails \/ Crash
  BY <1>5, StatusHolds, CollectHolds, CrashHolds
<1>6. CASE UNCHANGED vars
  BY <1>6 DEF vars, UInv, Promises, Staged, Accounted, HashIsOf, Over, Serving, Appends, At, Completes
<1> QED BY <1>1, <1>2, <1>3, <1>4, <1>5, <1>6 DEF Next

LEMMA NextHolds == ASSUME UInv, OneByOne, [Next]_vars PROVE UInv'
BY NextTypes, NextKeepsPromises DEF UInv
-----------------------------------------------------------------------------
THEOREM UploadsInvariant == ASSUME OneByOne PROVE Spec => []UInv
<1>1. Init => UInv
  BY InitHolds
<1>2. UInv /\ [Next]_vars => UInv'
  BY NextHolds
<1> QED BY <1>1, <1>2, PTL DEF Spec

\* Whatever was retried, cut off, lost, collected or refused, what is published
\* is what the client sent, once and in order, under the digest of it
\* (upload.go:86); two requests at once may make it otherwise, as
\* Uploads.cfg shows.
THEOREM WhatIsPublishedIsWhole == ASSUME OneByOne PROVE Spec => []PublishedIsWhole
<1>1. UInv => PublishedIsWhole
  BY AllOfIt DEF UInv, Promises, Staged, Over, PublishedIsWhole
<1> QED BY <1>1, UploadsInvariant, PTL

\* What the store holds back is the beginning of the file, and a running hash
\* that is kept is that of the bytes the offset says (upload.go:110).
THEOREM UploadsResumeFromTheirFile == ASSUME OneByOne PROVE Spec => []ResumesFromItsFile
<1>1. ASSUME UInv PROVE StagedIsPrefix
  <2>1. Len(data) \in 0..Size
    BY <1>1, SizeIsNat DEF UInv, TInv, Promises, Staged
  <2> QED BY <1>1, <2>1, PartOfIt DEF UInv, Promises, Staged, StagedIsPrefix
<1>2. ASSUME UInv PROVE HashMatchesOffset
  <2> SUFFICES ASSUME row # None, row.hash # NoHash, row.received <= Len(data)
               PROVE  row.hash = SubSeq(data, 1, row.received)
    BY DEF HashMatchesOffset
  <2> DEFINE n == row.received
  <2>1. Beginning(row.hash, n) /\ Beginning(data, Len(data)) /\ Len(data) \in Nat /\ n \in 0..Len(data) /\ Len(data) <= Size
    BY <1>2 DEF UInv, TInv, Rows, Promises, Staged, Accounted, HashIsOf
  <2>2. n \in 0..Size
    BY <2>1, SizeIsNat
  <2>3. Beginning(SubSeq(data, 1, n), n)
    BY <2>1, Fewer
  <2> QED BY <2>1, <2>2, <2>3, PartOfIt
<1> QED BY <1>1, <1>2, UploadsInvariant, PTL DEF ResumesFromItsFile
-----------------------------------------------------------------------------
(* The directory.                                                          *)

\* Keys as ValidateKey lets them through: characters, with no slash in front.
DiskConstants ==
  /\ DiskKeys \subseteq {k \in Seq(Int) : Len(k) > 0 /\ k[1] # DiskStore!Slash}
  /\ Contents \subseteq Seq(Int)
  /\ MaxSize \in Nat

\* A path in the directory.
DiskPaths == {k \in Seq(Int) : Len(k) > 0 /\ k[1] # DiskStore!Slash}

\* The folders above the keys.
Folders == UNION {DiskStore!Parents(k) : k \in DiskKeys}

\* Where a request is.
DiskPlaces ==
  {DiskStore!Idle}
    \cup [phase : {"publish"}, key : DiskKeys, body : Contents, above : SUBSET Folders]
    \cup [phase : {"publish"}, key : DiskKeys, upload : UploadIds, above : SUBSET Folders]
    \cup [phase : {"delete"}, key : DiskKeys]
    \cup [phase : {"abort"}, upload : UploadIds]
    \cup [phase : {"prune"}, dir : Folders \cup {<<>>}]

DInv ==
  /\ DOMAIN files \subseteq DiskKeys /\ \A k \in DOMAIN files : files[k] \in Seq(Int)
  /\ files = [k \in DOMAIN files |-> files[k]]
  /\ DOMAIN growing \subseteq UploadIds /\ \A u \in DOMAIN growing : growing[u] \in Seq(Int)
  /\ growing = [u \in DOMAIN growing |-> growing[u]]
  /\ dirs \subseteq Folders
  /\ writer \in [Writers -> DiskPlaces]
  /\ DiskStore!FoldersHoldTheKeys

LEMMA LeastOf == ASSUME NEW T \in SUBSET Nat, T # {} PROVE \E t \in T : \A u \in T : t <= u
<1> DEFINE R == OpToRel(<, Nat)
<1>1. \A t, u \in Nat : <<t, u>> \in R <=> t < u
  BY DEF OpToRel
<1>2. IsWellFoundedOn(R, Nat)
  BY NatLessThanWellFounded
<1> HIDE DEF R
<1>3. PICK t \in T : \A u \in T : ~(<<u, t>> \in R)
  BY <1>2, WFMin
<1>4. \A u \in T : ~(u < t)
  BY <1>1, <1>3
<1> QED BY <1>4

\* The shortest of some sequences.
LEMMA Shortest ==
  ASSUME NEW S \in SUBSET Seq(Int), S # {}
  PROVE  \E s \in S : \A t \in S : Len(s) <= Len(t)
<1> DEFINE N == {Len(s) : s \in S}
<1>1. \A s \in S : Len(s) \in Nat
  BY LenProperties
<1>0. N \subseteq Nat /\ N # {}
  BY <1>1
<1>2. PICK n \in N : \A m \in N : n <= m
  BY <1>0, LeastOf
<1> QED BY <1>2

\* The folder above a slash of the path, and its characters.
LEMMA Above ==
  ASSUME NEW k \in Seq(Int), NEW d \in DiskStore!Parents(k)
  PROVE  /\ d \in Seq(Int) /\ Len(d) < Len(k) /\ Len(d) \in Nat
         /\ k[Len(d) + 1] = DiskStore!Slash
         /\ \A i \in 1..Len(d) : d[i] = k[i]
<1>1. PICK n \in 1..Len(k) : k[n] = DiskStore!Slash /\ d = SubSeq(k, 1, n - 1)
  BY DEF DiskStore!Parents
<1>2. \A i \in 1..(n - 1) : k[i] \in Int
  BY ElementOfSeq
<1>3. d \in Seq(Int) /\ Len(d) = n - 1 /\ \A i \in 1..(n - 1) : d[i] = k[i]
  BY <1>1, <1>2, SubSeqProperties
<1> QED BY <1>1, <1>3

LEMMA IsAbove ==
  ASSUME NEW k \in Seq(Int), NEW d \in Seq(Int), Len(d) < Len(k), k[Len(d) + 1] = DiskStore!Slash,
         \A i \in 1..Len(d) : d[i] = k[i]
  PROVE  d \in DiskStore!Parents(k)
<1> DEFINE n == Len(d) + 1
<1>1. n \in 1..Len(k)
  OBVIOUS
<1>2. \A i \in 1..(n - 1) : k[i] \in Int
  BY ElementOfSeq
<1>3. SubSeq(k, 1, n - 1) \in Seq(Int) /\ Len(SubSeq(k, 1, n - 1)) = n - 1
      /\ \A i \in 1..(n - 1) : SubSeq(k, 1, n - 1)[i] = k[i]
  BY <1>1, <1>2, SubSeqProperties
<1>4. d = SubSeq(k, 1, n - 1)
  BY <1>3, SeqEqual
<1> QED BY <1>1, <1>4 DEF DiskStore!Parents

\* The folders above a folder above a path are above the path.
LEMMA ParentsNest ==
  ASSUME NEW k \in Seq(Int), NEW d \in DiskStore!Parents(k)
  PROVE  DiskStore!Parents(d) \subseteq DiskStore!Parents(k)
<1> SUFFICES ASSUME NEW e \in DiskStore!Parents(d) PROVE e \in DiskStore!Parents(k)
  OBVIOUS
<1>1. d \in Seq(Int) /\ Len(d) < Len(k) /\ Len(d) \in Nat /\ \A i \in 1..Len(d) : d[i] = k[i]
  BY Above
<1>2. /\ e \in Seq(Int) /\ Len(e) < Len(d) /\ Len(e) \in Nat
      /\ d[Len(e) + 1] = DiskStore!Slash /\ \A i \in 1..Len(e) : e[i] = d[i]
  BY <1>1, Above
<1>3. Len(k) \in Nat
  BY LenProperties
<1>4. Len(e) + 1 \in 1..Len(d) /\ Len(e) < Len(k) /\ 1..Len(e) \subseteq 1..Len(d)
  BY <1>1, <1>2, <1>3
<1>5. k[Len(e) + 1] = DiskStore!Slash
  BY <1>1, <1>2, <1>4, Zenon
<1>6. \A i \in 1..Len(e) : e[i] = k[i]
  BY <1>1, <1>2, <1>4, Zenon
<1> QED BY <1>2, <1>4, <1>5, <1>6, IsAbove

\* Of two folders above a path, the shorter is above the other.
LEMMA ParentsLine ==
  ASSUME NEW k \in Seq(Int), NEW d \in DiskStore!Parents(k), NEW e \in DiskStore!Parents(k), Len(d) <= Len(e)
  PROVE  d = e \/ d \in DiskStore!Parents(e)
<1>1. d \in Seq(Int) /\ Len(d) \in Nat /\ k[Len(d) + 1] = DiskStore!Slash /\ \A i \in 1..Len(d) : d[i] = k[i]
  BY Above
<1>2. e \in Seq(Int) /\ Len(e) \in Nat /\ \A i \in 1..Len(e) : e[i] = k[i]
  BY Above
<1>3. CASE Len(d) = Len(e)
  BY <1>1, <1>2, <1>3, SeqEqual
<1>4. CASE Len(d) < Len(e)
  <2>1. Len(d) + 1 \in 1..Len(e) /\ 1..Len(d) \subseteq 1..Len(e)
    BY <1>1, <1>2, <1>4
  <2>2. e[Len(d) + 1] = DiskStore!Slash
    BY <1>1, <1>2, <2>1, Zenon
  <2>3. \A i \in 1..Len(d) : d[i] = e[i]
    BY <1>1, <1>2, <2>1, Zenon
  <2> QED BY <1>1, <1>2, <1>4, <2>2, <2>3, IsAbove
<1> QED BY <1>1, <1>2, <1>3, <1>4

\* path.Dir is the last of them.
LEMMA DirIsLast ==
  ASSUME NEW k \in Seq(Int), DiskStore!Parents(k) # {}
  PROVE  DiskStore!Dir(k) \in DiskStore!Parents(k) /\ \A e \in DiskStore!Parents(k) : Len(e) <= Len(DiskStore!Dir(k))
<1> DEFINE N == {Len(k) - Len(d) : d \in DiskStore!Parents(k)}
<1>1. \A d \in DiskStore!Parents(k) : Len(d) \in Nat /\ Len(k) \in Nat /\ Len(k) - Len(d) \in Nat
  BY Above, LenProperties
<1>2. N \subseteq Nat /\ N # {}
  BY <1>1
<1>3. PICK n \in N : \A m \in N : n <= m
  BY <1>2, LeastOf
<1>4. PICK d \in DiskStore!Parents(k) : n = Len(k) - Len(d)
  BY <1>3
<1>5. \A e \in DiskStore!Parents(k) : Len(e) <= Len(d)
  <2> SUFFICES ASSUME NEW e \in DiskStore!Parents(k) PROVE Len(e) <= Len(d)
    OBVIOUS
  <2>1. n <= Len(k) - Len(e)
    BY <1>3
  <2> QED BY <1>1, <1>4, <2>1
<1> QED BY <1>5 DEF DiskStore!Dir

LEMMA ParentsOfDir ==
  ASSUME NEW k \in Seq(Int), NEW d \in DiskStore!Parents(k)
  PROVE  d = DiskStore!Dir(k) \/ d \in DiskStore!Parents(DiskStore!Dir(k))
BY DirIsLast, ParentsLine

\* A folder above a path is the one that holds it, or holds one that is above
\* it too.
LEMMA NextDown ==
  ASSUME NEW k \in Seq(Int), NEW d \in DiskStore!Parents(k)
  PROVE  DiskStore!Dir(k) = d \/ \E e \in DiskStore!Parents(k) : DiskStore!Dir(e) = d
<1> DEFINE S == {e \in DiskStore!Parents(k) : Len(e) > Len(d)}
<1>1. d \in Seq(Int) /\ \A e \in DiskStore!Parents(k) : e \in Seq(Int) /\ Len(e) \in Nat
  BY Above
<1>2. CASE S = {}
  <2>1. Len(DiskStore!Dir(k)) <= Len(d) /\ DiskStore!Dir(k) \in DiskStore!Parents(k) /\ Len(d) <= Len(DiskStore!Dir(k))
    BY <1>1, <1>2, DirIsLast
  <2>2. DiskStore!Dir(k) = d \/ DiskStore!Dir(k) \in DiskStore!Parents(d)
    BY <2>1, ParentsLine
  <2> QED BY <1>1, <2>1, <2>2, Above
<1>3. CASE S # {}
  <2>1. PICK e \in S : \A t \in S : Len(e) <= Len(t)
    BY <1>1, <1>3, Shortest
  <2> DEFINE c == DiskStore!Dir(e)
  <2>2. e \in Seq(Int) /\ e \in DiskStore!Parents(k) /\ Len(d) < Len(e)
    BY <1>1, <2>1
  <2>3. d \in DiskStore!Parents(e) /\ Len(d) \in Nat /\ Len(e) \in Nat
    BY <1>1, <2>2, ParentsLine, Above
  <2>4. c \in DiskStore!Parents(e) /\ Len(d) <= Len(c)
    BY <2>2, <2>3, DirIsLast
  <2>5. c \in DiskStore!Parents(k) /\ Len(c) < Len(e) /\ c \in Seq(Int)
    BY <2>2, <2>4, ParentsNest, Above
  <2>6. Len(c) <= Len(d)
    BY <2>1, <2>3, <2>5, LenProperties
  <2>7. d = c \/ c \in DiskStore!Parents(d)
    BY <2>5, <2>6, ParentsLine
  <2>8. d = c
    BY <1>1, <2>4, <2>5, <2>7, Above
  <2> QED BY <2>2, <2>8
<1> QED BY <1>2, <1>3

\* A folder above a key is a path, and so is what is above it.
LEMMA FoldersArePaths ==
  ASSUME DiskConstants, NEW d \in Folders
  PROVE  d \in DiskPaths /\ DiskStore!Parents(d) \subseteq Folders
<1>1. PICK k \in DiskKeys : d \in DiskStore!Parents(k)
  BY DEF Folders
<1>2. k \in Seq(Int) /\ Len(k) > 0 /\ k[1] # DiskStore!Slash
  BY DEF DiskConstants
<1>3. d \in Seq(Int) /\ Len(d) \in Nat /\ k[Len(d) + 1] = DiskStore!Slash /\ \A i \in 1..Len(d) : d[i] = k[i]
  BY <1>1, <1>2, Above
<1>4. Len(d) # 0
  BY <1>2, <1>3
<1>5. d[1] = k[1]
  BY <1>3, <1>4
<1>6. DiskStore!Parents(d) \subseteq DiskStore!Parents(k)
  BY <1>1, <1>2, ParentsNest
<1>7. DiskStore!Parents(k) \subseteq Folders
  BY DEF Folders
<1> QED BY <1>2, <1>3, <1>4, <1>5, <1>6, <1>7 DEF DiskPaths

\* What holds a path, if anything does.
LEMMA DirIsAFolder ==
  ASSUME DiskConstants, NEW x \in DiskKeys \cup Folders
  PROVE  DiskStore!Dir(x) \in Folders \cup {<<>>}
<1>1. x \in Seq(Int) /\ DiskStore!Parents(x) \subseteq Folders
  BY FoldersArePaths DEF DiskConstants, DiskPaths, Folders
<1>2. CASE DiskStore!Parents(x) = {}
  BY <1>2 DEF DiskStore!Dir
<1>3. CASE DiskStore!Parents(x) # {}
  BY <1>1, <1>3, DirIsLast
<1> QED BY <1>2, <1>3

\* A folder that holds nothing is above nothing.
LEMMA Unneeded ==
  ASSUME DiskConstants, DInv, NEW d, ~DiskStore!HoldsSomething(d), NEW x \in DOMAIN files \cup dirs
  PROVE  d \notin DiskStore!Parents(x)
<1>1. x \in Seq(Int) /\ DiskStore!Parents(x) \subseteq dirs
  BY FoldersArePaths DEF DiskConstants, DInv, DiskPaths, DiskStore!FoldersHoldTheKeys
<1>2. \A e \in DOMAIN files \cup dirs : DiskStore!Dir(e) # d
  BY DEF DiskStore!HoldsSomething
<1> QED BY <1>1, <1>2, NextDown

\* What is in a folder that is there is under all that are above it.
LEMMA HeldByAll ==
  ASSUME DiskConstants, DInv, NEW x \in DiskPaths, DiskStore!Dir(x) = <<>> \/ DiskStore!Dir(x) \in dirs
  PROVE  DiskStore!Parents(x) \subseteq dirs
<1> SUFFICES ASSUME NEW d \in DiskStore!Parents(x) PROVE d \in dirs
  OBVIOUS
<1>1. x \in Seq(Int) /\ Len(x) > 0 /\ x[1] # DiskStore!Slash
  BY DEF DiskPaths
<1>2. DiskStore!Dir(x) \in DiskStore!Parents(x)
  BY <1>1, DirIsLast
<1>3. DiskStore!Dir(x) # <<>>
  <2> SUFFICES ASSUME DiskStore!Dir(x) = <<>> PROVE FALSE
    OBVIOUS
  <2>1. x[Len(DiskStore!Dir(x)) + 1] = DiskStore!Slash
    BY <1>1, <1>2, Above
  <2>2. Len(DiskStore!Dir(x)) = 0
    OBVIOUS
  <2> QED BY <1>1, <2>1, <2>2
<1>4. DiskStore!Parents(DiskStore!Dir(x)) \subseteq dirs
  BY <1>3 DEF DInv, DiskStore!FoldersHoldTheKeys
<1> QED BY <1>1, <1>3, <1>4, ParentsOfDir

LEMMA DiskInitHolds == ASSUME DiskStore!Init PROVE DInv
<1>1. DOMAIN files = {} /\ DOMAIN growing = {} /\ dirs = {}
  BY DEF DiskStore!Init
<1>2. growing = [u \in DOMAIN growing |-> growing[u]] /\ files = [k \in DOMAIN files |-> files[k]]
  BY <1>1 DEF DiskStore!Init
<1>3. writer \in [Writers -> DiskPlaces]
  BY DEF DiskStore!Init, DiskPlaces
<1> QED BY <1>1, <1>2, <1>3 DEF DInv, DiskStore!FoldersHoldTheKeys

\* A request goes on to a place that is one.
LEMMA GoesOn ==
  ASSUME DInv, NEW w \in Writers, NEW q \in DiskPlaces, DiskStore!Goto(w, q)
  PROVE  writer' \in [Writers -> DiskPlaces]
BY DEF DInv, DiskStore!Goto

\* The files and their folders are as they were.
LEMMA DiskRests ==
  ASSUME DInv, UNCHANGED <<files, dirs, growing>>, writer' \in [Writers -> DiskPlaces]
  PROVE  DInv'
<1>1. UNCHANGED files /\ UNCHANGED dirs /\ UNCHANGED growing
  OBVIOUS
<1>2. DiskStore!FoldersHoldTheKeys'
  BY <1>1 DEF DInv, DiskStore!FoldersHoldTheKeys
<1> QED BY <1>1, <1>2 DEF DInv

LEMMA WriteTempHolds ==
  ASSUME DInv, NEW w \in Writers, NEW k \in DiskKeys, NEW body \in Contents, NEW declared,
         DiskStore!WriteTemp(w, k, body, declared)
  PROVE  DInv'
<1>1. [phase |-> "publish", key |-> k, body |-> body, above |-> DiskStore!Parents(k)] \in DiskPlaces
  BY DEF DiskPlaces, Folders
<1> QED BY <1>1, GoesOn, DiskRests DEF DiskStore!WriteTemp

LEMMA DiskBeginHolds ==
  ASSUME DInv, NEW w \in Writers, NEW k \in DiskKeys, NEW u \in UploadIds, DiskStore!Begin(w, k, u)
  PROVE  DInv'
<1>1. [phase |-> "publish", key |-> k, upload |-> u, above |-> DiskStore!Parents(k)] \in DiskPlaces
  BY DEF DiskPlaces, Folders
<1> QED BY <1>1, GoesOn, DiskRests DEF DiskStore!Begin

LEMMA AsksHolds ==
  ASSUME DInv, NEW w \in Writers,
         \/ \E k \in DiskKeys : DiskStore!Delete(w, k)
         \/ \E u \in UploadIds : DiskStore!AbortUpload(w, u)
  PROVE  DInv'
<1>1. CASE \E k \in DiskKeys : DiskStore!Delete(w, k)
  <2>1. PICK k \in DiskKeys : DiskStore!Delete(w, k)
    BY <1>1
  <2>2. [phase |-> "delete", key |-> k] \in DiskPlaces
    BY DEF DiskPlaces
  <2> QED BY <2>1, <2>2, GoesOn, DiskRests DEF DiskStore!Delete
<1>2. CASE \E u \in UploadIds : DiskStore!AbortUpload(w, u)
  <2>1. PICK u \in UploadIds : DiskStore!AbortUpload(w, u)
    BY <1>2
  <2>2. [phase |-> "abort", upload |-> u] \in DiskPlaces
    BY DEF DiskPlaces
  <2> QED BY <2>1, <2>2, GoesOn, DiskRests DEF DiskStore!AbortUpload
<1> QED BY <1>1, <1>2

\* What a request has in hand at its place.
LEMMA Midway ==
  ASSUME DInv, NEW w \in Writers, NEW q, q = writer[w]
  PROVE  /\ q.phase = "publish" =>
              \/ q \in [phase : {"publish"}, key : DiskKeys, body : Contents, above : SUBSET Folders]
              \/ q \in [phase : {"publish"}, key : DiskKeys, upload : UploadIds, above : SUBSET Folders]
         /\ q.phase = "delete" => q \in [phase : {"delete"}, key : DiskKeys]
         /\ q.phase = "abort" => q \in [phase : {"abort"}, upload : UploadIds]
         /\ q.phase = "prune" => q \in [phase : {"prune"}, dir : Folders \cup {<<>>}]
<1>1. q \in DiskPlaces
  BY DEF DInv
<1> QED BY <1>1 DEF DiskPlaces, DiskStore!Idle

LEMMA MakeParentsHolds ==
  ASSUME DiskConstants, DInv, NEW w \in Writers, DiskStore!MakeParents(w)
  PROVE  DInv'
<1> DEFINE q == writer[w]
<1>1. PICK d \in q.above :
        \/ /\ d \in dirs \/ DiskStore!MayMkdir(d)
           /\ dirs' = dirs \cup {d}
           /\ DiskStore!Goto(w, [q EXCEPT !.above = @ \ {d}])
        \/ UNCHANGED dirs /\ DiskStore!Goto(w, DiskStore!Idle)
  BY DEF DiskStore!MakeParents
<1>2. \/ q \in [phase : {"publish"}, key : DiskKeys, body : Contents, above : SUBSET Folders]
      \/ q \in [phase : {"publish"}, key : DiskKeys, upload : UploadIds, above : SUBSET Folders]
  BY Midway DEF DiskStore!MakeParents
<1>3. d \in Folders /\ d \in DiskPaths
  BY <1>2, FoldersArePaths
<1>4. [q EXCEPT !.above = @ \ {d}] \in DiskPlaces /\ DiskStore!Idle \in DiskPlaces
  BY <1>2 DEF DiskPlaces
<1>5. writer' \in [Writers -> DiskPlaces]
  BY <1>1, <1>4, GoesOn
<1>6. UNCHANGED <<files, growing>>
  BY DEF DiskStore!MakeParents
<1>7. CASE UNCHANGED dirs
  BY <1>5, <1>6, <1>7, DiskRests
<1>8. CASE d \notin dirs /\ DiskStore!MayMkdir(d) /\ dirs' = dirs \cup {d}
  <2>1. DiskStore!Parents(d) \subseteq dirs
    BY <1>3, <1>8, HeldByAll DEF DiskStore!MayMkdir
  <2>2. d \notin DOMAIN files
    BY <1>8 DEF DiskStore!MayMkdir
  <2>3. DiskStore!FoldersHoldTheKeys'
    BY <1>6, <1>8, <2>1, <2>2 DEF DInv, DiskStore!FoldersHoldTheKeys
  <2> QED BY <1>3, <1>5, <1>6, <1>8, <2>3 DEF DInv
<1> QED BY <1>1, <1>7, <1>8

\* A file takes its place in a folder that is there, with all above it.
LEMMA Lands ==
  ASSUME DiskConstants, DInv, NEW k \in DiskKeys, DiskStore!MayRename(k), NEW body \in Seq(Int),
         files' = DiskStore!With(files, k, body), UNCHANGED dirs
  PROVE  /\ DOMAIN files' \subseteq DiskKeys /\ \A x \in DOMAIN files' : files'[x] \in Seq(Int)
         /\ files' = [x \in DOMAIN files' |-> files'[x]]
         /\ DiskStore!FoldersHoldTheKeys'
<1>1. k \in DiskPaths
  BY DEF DiskConstants, DiskPaths
<1>2. DOMAIN files' = DOMAIN files \cup {k} /\ \A x \in DOMAIN files' : files'[x] = IF x = k THEN body ELSE files[x]
  BY DEF DiskStore!With
<1>3. DiskStore!Parents(k) \subseteq dirs /\ k \notin dirs
  BY <1>1, HeldByAll DEF DiskStore!MayRename
<1>4. DiskStore!FoldersHoldTheKeys'
  BY <1>2, <1>3 DEF DInv, DiskStore!FoldersHoldTheKeys
<1>5. \A x \in DOMAIN files' : files'[x] \in Seq(Int)
  BY <1>2 DEF DInv
<1>6. files' = [x \in DOMAIN files' |-> files'[x]]
  BY DEF DiskStore!With
<1> QED BY <1>2, <1>4, <1>5, <1>6 DEF DInv

LEMMA Unstaged ==
  ASSUME DInv, NEW u, growing' = DiskStore!Without(growing, u)
  PROVE  /\ DOMAIN growing' \subseteq UploadIds /\ \A x \in DOMAIN growing' : growing'[x] \in Seq(Int)
         /\ growing' = [x \in DOMAIN growing' |-> growing'[x]]
<1>1. DOMAIN growing' = DOMAIN growing \ {u} /\ \A x \in DOMAIN growing' : growing'[x] = growing[x]
  BY DEF DiskStore!Without
<1>2. growing' = [x \in DOMAIN growing' |-> growing'[x]]
  BY DEF DiskStore!Without
<1> QED BY <1>1, <1>2 DEF DInv

LEMMA RenameHolds ==
  ASSUME DiskConstants, DInv, NEW w \in Writers, DiskStore!Rename(w)
  PROVE  DInv'
<1> DEFINE q == writer[w]
<1>1. /\ q.key \in DiskKeys
      /\ \/ q \in [phase : {"publish"}, key : DiskKeys, body : Contents, above : SUBSET Folders]
         \/ q \in [phase : {"publish"}, key : DiskKeys, upload : UploadIds, above : SUBSET Folders]
  BY Midway DEF DiskStore!Rename
<1>2. writer' \in [Writers -> DiskPlaces] /\ UNCHANGED dirs
  BY GoesOn DEF DiskStore!Rename, DiskPlaces
<1>3. CASE UNCHANGED <<files, growing>>
  BY <1>2, <1>3, DiskRests
<1>4. CASE /\ DiskStore!MayRename(q.key) /\ q.upload \in DOMAIN growing
           /\ files' = DiskStore!With(files, q.key, growing[q.upload])
           /\ growing' = DiskStore!Without(growing, q.upload)
  <2>1. growing[q.upload] \in Seq(Int)
    BY <1>4 DEF DInv
  <2>2. /\ DOMAIN files' \subseteq DiskKeys /\ \A x \in DOMAIN files' : files'[x] \in Seq(Int)
        /\ files' = [x \in DOMAIN files' |-> files'[x]]
        /\ DiskStore!FoldersHoldTheKeys'
    BY <1>1, <1>2, <1>4, <2>1, Lands
  <2> QED BY <1>2, <1>4, <2>2, Unstaged DEF DInv
<1>5. CASE "upload" \notin DOMAIN q /\ DiskStore!MayRename(q.key) /\ files' = DiskStore!With(files, q.key, q.body) /\ UNCHANGED growing
  <2>1. q.body \in Seq(Int)
    BY <1>1, <1>5 DEF DiskConstants
  <2>2. /\ DOMAIN files' \subseteq DiskKeys /\ \A x \in DOMAIN files' : files'[x] \in Seq(Int)
        /\ files' = [x \in DOMAIN files' |-> files'[x]]
        /\ DiskStore!FoldersHoldTheKeys'
    BY <1>1, <1>2, <1>5, <2>1, Lands
  <2> QED BY <1>2, <1>5, <2>2 DEF DInv
<1> QED BY <1>3, <1>4, <1>5 DEF DiskStore!Rename

\* A file goes, or a folder with nothing in it.
LEMMA RemovesHolds ==
  ASSUME DiskConstants, DInv, NEW w \in Writers, NEW x, DiskStore!MayRemove(x), DiskStore!Removes(w, x),
         UNCHANGED growing
  PROVE  DInv'
<1>1. DOMAIN files' = DOMAIN files \ {x} /\ \A y \in DOMAIN files' : files'[y] = files[y]
  BY DEF DiskStore!Removes, DiskStore!Without
<1>2. files' = [y \in DOMAIN files' |-> files'[y]]
  BY DEF DiskStore!Removes, DiskStore!Without
<1>3. dirs' = dirs \ {x}
  BY DEF DiskStore!Removes
<1>4. x \in DiskKeys \cup Folders
  BY DEF DiskStore!MayRemove, DInv
<1>5. [phase |-> "prune", dir |-> DiskStore!Dir(x)] \in DiskPlaces
  BY <1>4, DirIsAFolder DEF DiskPlaces
<1>6. writer' \in [Writers -> DiskPlaces]
  BY <1>5, GoesOn DEF DiskStore!Removes
<1>7. \A y \in DOMAIN files' \cup dirs' : DiskStore!Parents(y) \subseteq dirs'
  <2>1. CASE x \in DOMAIN files
    BY <1>1, <1>3, <2>1 DEF DInv, DiskStore!FoldersHoldTheKeys
  <2>2. CASE ~DiskStore!HoldsSomething(x)
    BY <1>1, <1>3, <2>2, Unneeded DEF DInv, DiskStore!FoldersHoldTheKeys
  <2> QED BY <2>1, <2>2 DEF DiskStore!MayRemove
<1>8. DiskStore!FoldersHoldTheKeys'
  BY <1>1, <1>3, <1>7 DEF DInv, DiskStore!FoldersHoldTheKeys
<1> QED BY <1>1, <1>2, <1>3, <1>6, <1>8 DEF DInv

LEMMA RemoveHolds ==
  ASSUME DiskConstants, DInv, NEW w \in Writers, DiskStore!Remove(w) \/ DiskStore!PruneParents(w)
  PROVE  DInv'
<1>1. PICK x : \/ DiskStore!MayRemove(x) /\ DiskStore!Removes(w, x)
               \/ UNCHANGED <<files, dirs>> /\ DiskStore!Goto(w, DiskStore!Idle)
  BY DEF DiskStore!Remove, DiskStore!PruneParents
<1>2. UNCHANGED growing
  BY DEF DiskStore!Remove, DiskStore!PruneParents
<1>3. DiskStore!Idle \in DiskPlaces
  BY DEF DiskPlaces
<1> QED BY <1>1, <1>2, <1>3, RemovesHolds, GoesOn, DiskRests

\* Some of the file's bytes in order.
LEMMA Following ==
  ASSUME NEW at \in Int, NEW n \in Nat
  PROVE  [i \in 1..n |-> at + i] \in Seq(Int) /\ Len([i \in 1..n |-> at + i]) = n
<1>1. \A i \in 1..n : at + i \in Int
  OBVIOUS
<1>2. [i \in 1..n |-> at + i] \in Seq(Int)
  BY <1>1, IsASeq
<1> QED BY <1>2

LEMMA GrowingHolds ==
  ASSUME DInv, UNCHANGED <<files, dirs, writer>>,
         \/ \E u \in UploadIds : DiskStore!StartUpload(u)
         \/ \E u \in UploadIds, offset \in 0..MaxSize, ends \in 0..MaxSize : DiskStore!AppendUpload(u, offset, ends)
  PROVE  DInv'
<1>1. DiskStore!FoldersHoldTheKeys'
  BY DEF DInv, DiskStore!FoldersHoldTheKeys
<1>2. /\ DOMAIN growing' \subseteq UploadIds /\ \A x \in DOMAIN growing' : growing'[x] \in Seq(Int)
      /\ growing' = [x \in DOMAIN growing' |-> growing'[x]]
  <2>1. CASE \E u \in UploadIds : DiskStore!StartUpload(u)
    <3>1. PICK u \in UploadIds : growing' = DiskStore!With(growing, u, <<>>)
      BY <2>1 DEF DiskStore!StartUpload
    <3>2. DOMAIN growing' = DOMAIN growing \cup {u} /\ \A x \in DOMAIN growing' : growing'[x] = IF x = u THEN <<>> ELSE growing[x]
      BY <3>1 DEF DiskStore!With
    <3>3. growing' = [x \in DOMAIN growing' |-> growing'[x]]
      BY <3>1 DEF DiskStore!With
    <3>4. \A x \in DOMAIN growing' : growing'[x] \in Seq(Int)
      BY <3>2, EmptySeq DEF DInv
    <3>5. DOMAIN growing' \subseteq UploadIds
      BY <3>2 DEF DInv
    <3> QED BY <3>3, <3>4, <3>5
  <2>3. CASE \E u \in UploadIds, offset \in 0..MaxSize, ends \in 0..MaxSize : DiskStore!AppendUpload(u, offset, ends)
    <3>1. PICK u \in UploadIds, offset \in 0..MaxSize, ends \in 0..MaxSize : DiskStore!AppendUpload(u, offset, ends)
      BY <2>3
    <3> DEFINE more == [n \in 1..(ends - offset) |-> offset + n]
    <3>2. ends - offset \in Nat /\ \A n \in 1..(ends - offset) : offset + n \in Int
      BY <3>1 DEF DiskStore!AppendUpload
    <3>3. more \in Seq(Int)
      BY <3>2, IsASeq
    <3>4. u \in DOMAIN growing /\ growing' = [growing EXCEPT ![u] = @ \o more]
      BY <3>1 DEF DiskStore!AppendUpload
    <3> HIDE DEF more
    <3>5. growing[u] \o more \in Seq(Int)
      BY <3>3, <3>4, ConcatProperties DEF DInv
    <3>6. DOMAIN growing' = DOMAIN growing /\ growing' = [x \in DOMAIN growing' |-> growing'[x]]
      BY <3>4
    <3> QED BY <3>4, <3>5, <3>6 DEF DInv
  <2> QED BY <2>1, <2>3
<1> QED BY <1>1, <1>2 DEF DInv

LEMMA RemoveUploadHolds ==
  ASSUME DInv, NEW w \in Writers, DiskStore!RemoveUpload(w)
  PROVE  DInv'
<1>1. growing' = DiskStore!Without(growing, writer[w].upload) /\ UNCHANGED files /\ UNCHANGED dirs
  BY DEF DiskStore!RemoveUpload
<1>2. writer' \in [Writers -> DiskPlaces]
  BY GoesOn DEF DiskStore!RemoveUpload, DiskPlaces
<1>3. DiskStore!FoldersHoldTheKeys'
  BY <1>1 DEF DInv, DiskStore!FoldersHoldTheKeys
<1> QED BY <1>1, <1>2, <1>3, Unstaged DEF DInv

LEMMA DiskNextHolds == ASSUME DiskConstants, DInv, [DiskStore!Next]_(DiskStore!diskVars) PROVE DInv'
<1>1. CASE UNCHANGED DiskStore!diskVars
  BY <1>1, DiskRests DEF DiskStore!diskVars, DInv
<1>2. CASE \E w \in Writers, k \in DiskKeys, body \in Contents, declared \in {-1, 1} : DiskStore!WriteTemp(w, k, body, declared)
  BY <1>2, WriteTempHolds
<1>3. CASE \E w \in Writers, k \in DiskKeys, u \in UploadIds : DiskStore!Begin(w, k, u)
  BY <1>3, DiskBeginHolds
<1>4. CASE \E w \in Writers : \/ \E k \in DiskKeys : DiskStore!Delete(w, k)
                            \/ \E u \in UploadIds : DiskStore!AbortUpload(w, u)
  BY <1>4, AsksHolds
<1>5. CASE \E w \in Writers : \/ DiskStore!MakeParents(w) \/ DiskStore!Rename(w) \/ DiskStore!Remove(w)
                            \/ DiskStore!PruneParents(w) \/ DiskStore!RemoveUpload(w)
  BY <1>5, MakeParentsHolds, RenameHolds, RemoveHolds, RemoveUploadHolds
<1>6. CASE \/ \E u \in UploadIds : DiskStore!StartUpload(u)
           \/ \E u \in UploadIds, offset \in 0..MaxSize, ends \in 0..MaxSize : DiskStore!AppendUpload(u, offset, ends)
  <2>1. UNCHANGED <<files, dirs, writer>>
    BY <1>6 DEF DiskStore!StartUpload, DiskStore!AppendUpload
  <2> QED BY <1>6, <2>1, GrowingHolds
<1>7. CASE DiskStore!Restart
  <2>1. writer' \in [Writers -> DiskPlaces]
    BY <1>7 DEF DiskStore!Restart, DiskPlaces
  <2> QED BY <1>7, <2>1, DiskRests DEF DiskStore!Restart
<1> QED BY <1>1, <1>2, <1>3, <1>4, <1>5, <1>6, <1>7 DEF DiskStore!Next

\* The directory, whoever makes and unmakes its folders, keeps every key in
\* one that is there (disk.go:91, disk.go:235).
THEOREM DiskInvariant == ASSUME DiskConstants PROVE DiskStore!Spec => []DInv
<1>1. DiskStore!Init => DInv
  BY DiskInitHolds
<1>2. DInv /\ [DiskStore!Next]_(DiskStore!diskVars) => DInv'
  BY DiskNextHolds
<1> QED BY <1>1, <1>2, PTL DEF DiskStore!Spec
-----------------------------------------------------------------------------
(* The directory is the port.                                              *)

\* No key is a folder of another, as none is that the program makes: a blob's
\* ends in an identifier of its own below folders of its day, and what is
\* derived from a blob has folders of its own.
KeysApart == \A k, l \in DiskKeys : k \notin DiskStore!Parents(l)

\* The call a request was for is over.
LEMMA DiskAnswers ==
  ASSUME NEW w \in Writers, writer[w].phase \in {"publish", "delete", "abort"},
         writer'[w].phase \notin {"publish", "delete", "abort"}
  PROVE  DiskStore!Port!TakesEffect(DiskStore!CallOf(writer[w]))
<1> DEFINE c == <<w, DiskStore!CallOf(writer[w])>>
<1>1. c \in DiskStore!Calls
  BY DEF DiskStore!Calls
<1>2. c \notin DiskStore!Calls'
  BY DEF DiskStore!Calls
<1> QED BY <1>1, <1>2 DEF DiskStore!Port!TakesEffect

LEMMA DiskStepIsThePort ==
  ASSUME DiskConstants, KeysApart, DInv, [DiskStore!Next]_(DiskStore!diskVars)
  PROVE  DiskStore!PortStep
<1>1. CASE UNCHANGED <<files, growing>>
  BY <1>1 DEF DiskStore!PortStep
<1>2. CASE \E w \in Writers : DiskStore!Rename(w)
  <2>1. PICK w \in Writers : DiskStore!Rename(w)
    BY <1>2
  <2>2. PICK q : q = writer[w]
    OBVIOUS
  <2>3. /\ q.phase = "publish" /\ q.key \in DiskKeys
        /\ \/ q \in [phase : {"publish"}, key : DiskKeys, body : Contents, above : SUBSET Folders]
           \/ q \in [phase : {"publish"}, key : DiskKeys, upload : UploadIds, above : SUBSET Folders]
    BY <2>1, <2>2, Midway DEF DiskStore!Rename
  <2>4. writer'[w].phase = "idle"
    BY <2>1 DEF DiskStore!Rename, DiskStore!Goto, DiskStore!Idle, DInv
  <2>5. DiskStore!Port!TakesEffect(DiskStore!CallOf(q))
    BY <2>2, <2>3, <2>4, DiskAnswers
  <2>6. CASE /\ "upload" \in DOMAIN q /\ q.upload \in DOMAIN growing
             /\ files' = DiskStore!With(files, q.key, growing[q.upload])
             /\ growing' = DiskStore!Without(growing, q.upload)
    <3>1. DiskStore!CallOf(q) = DiskStore!Port!CompleteOf(q.upload, q.key)
      BY <2>3, <2>6 DEF DiskStore!CallOf, DiskStore!Port!CompleteOf
    <3>2. DiskStore!Port!CompleteUpload(q.upload, q.key)
      BY <2>5, <2>6, <3>1 DEF DiskStore!Port!CompleteUpload, DiskStore!With, DiskStore!Without
    <3> QED BY <2>3, <2>6, <3>2 DEF DiskStore!PortStep, DiskStore!Port!Next
  <2>7. CASE "upload" \notin DOMAIN q /\ files' = DiskStore!With(files, q.key, q.body) /\ UNCHANGED growing
    <3>1. q.body \in Contents /\ DiskStore!CallOf(q) = DiskStore!Port!PutOf(q.key, q.body)
      BY <2>3, <2>7 DEF DiskStore!CallOf, DiskStore!Port!PutOf
    <3>2. DiskStore!Port!Put(q.key, q.body)
      BY <2>5, <2>7, <3>1 DEF DiskStore!Port!Put, DiskStore!With
    <3> QED BY <2>3, <3>1, <3>2 DEF DiskStore!PortStep, DiskStore!Port!Next
  <2> QED BY <1>1, <2>1, <2>2, <2>6, <2>7 DEF DiskStore!Rename
<1>3. CASE \E w \in Writers : DiskStore!Remove(w)
  <2>1. PICK w \in Writers : DiskStore!Remove(w)
    BY <1>3
  <2>2. PICK q : q = writer[w]
    OBVIOUS
  <2>3. q.phase = "delete" /\ q.key \in DiskKeys /\ UNCHANGED growing
    BY <2>1, <2>2, Midway DEF DiskStore!Remove
  <2>4. CASE UNCHANGED files
    BY <1>1, <2>3, <2>4
  <2>5. CASE files' = DiskStore!Without(files, q.key) /\ DiskStore!Removes(w, q.key)
    <3>1. writer'[w].phase = "prune"
      BY <2>5 DEF DiskStore!Removes, DiskStore!Goto, DInv
    <3>2. DiskStore!Port!TakesEffect(DiskStore!CallOf(q))
      BY <2>2, <2>3, <3>1, DiskAnswers
    <3>3. DiskStore!CallOf(q) = DiskStore!Port!DeleteOf(q.key)
      BY <2>3 DEF DiskStore!CallOf, DiskStore!Port!DeleteOf
    <3>4. DiskStore!Port!Delete(q.key)
      BY <2>3, <2>5, <3>2, <3>3 DEF DiskStore!Port!Delete, DiskStore!Without
    <3> QED BY <2>3, <3>4 DEF DiskStore!PortStep, DiskStore!Port!Next
  <2> QED BY <2>1, <2>2, <2>4, <2>5 DEF DiskStore!Remove, DiskStore!Removes
<1>7. CASE \E w \in Writers : DiskStore!PruneParents(w)
  <2>1. PICK w \in Writers : DiskStore!PruneParents(w)
    BY <1>7
  <2> DEFINE d == writer[w].dir
  <2>2. d \in Folders \cup {<<>>} /\ UNCHANGED growing
    BY <2>1, Midway DEF DiskStore!PruneParents
  <2>3. d \notin DiskKeys
    <3>1. \A k \in DiskKeys : k \notin Folders
      BY DEF Folders, KeysApart
    <3>2. <<>> \notin DiskKeys
      BY DEF DiskConstants
    <3> QED BY <2>2, <3>1, <3>2
  <2>4. DOMAIN files \ {d} = DOMAIN files
    BY <2>3 DEF DInv
  <2>5. DiskStore!Without(files, d) = files
    BY <2>4 DEF DiskStore!Without, DInv
  <2>6. UNCHANGED files
    BY <2>1, <2>5 DEF DiskStore!PruneParents, DiskStore!Removes
  <2> QED BY <1>1, <2>2, <2>6
<1>4. CASE \E u \in UploadIds : DiskStore!StartUpload(u)
  <2>1. PICK u \in UploadIds : DiskStore!StartUpload(u)
    BY <1>4
  <2>2. DiskStore!Port!StartUpload(u) /\ u \notin DOMAIN growing /\ u \in DOMAIN growing'
    BY <2>1 DEF DiskStore!StartUpload, DiskStore!Port!StartUpload, DiskStore!With
  <2> QED BY <2>2 DEF DiskStore!PortStep, DiskStore!Port!Next
<1>5. CASE \E w \in Writers : DiskStore!RemoveUpload(w)
  <2>1. PICK w \in Writers : DiskStore!RemoveUpload(w)
    BY <1>5
  <2>2. PICK q : q = writer[w]
    OBVIOUS
  <2>3. q.phase = "abort" /\ q \in [phase : {"abort"}, upload : UploadIds]
    BY <2>1, <2>2, Midway DEF DiskStore!RemoveUpload
  <2>4. writer'[w].phase = "idle"
    BY <2>1 DEF DiskStore!RemoveUpload, DiskStore!Goto, DiskStore!Idle, DInv
  <2>5. growing' = DiskStore!Without(growing, q.upload) /\ UNCHANGED files
    BY <2>1, <2>2 DEF DiskStore!RemoveUpload
  <2>6. CASE q.upload \notin DOMAIN growing
    <3>1. DOMAIN growing \ {q.upload} = DOMAIN growing
      BY <2>6
    <3>2. UNCHANGED growing
      BY <2>5, <3>1 DEF DiskStore!Without, DInv
    <3> QED BY <1>1, <2>5, <3>2
  <2>7. CASE q.upload \in DOMAIN growing
    <3>1. DiskStore!Port!TakesEffect(DiskStore!CallOf(q))
      BY <2>2, <2>3, <2>4, DiskAnswers
    <3>2. DiskStore!CallOf(q) = DiskStore!Port!AbortOf(q.upload)
      BY <2>3 DEF DiskStore!CallOf, DiskStore!Port!AbortOf
    <3>3. DiskStore!Port!AbortUpload(q.upload)
      BY <2>5, <3>1, <3>2 DEF DiskStore!Port!AbortUpload, DiskStore!Port!Dropped, DiskStore!Without
    <3> QED BY <2>7, <3>3 DEF DiskStore!PortStep, DiskStore!Port!Next
  <2> QED BY <2>6, <2>7
<1>6. CASE \E u \in UploadIds, offset \in 0..MaxSize, ends \in 0..MaxSize : DiskStore!AppendUpload(u, offset, ends)
  <2>1. PICK u \in UploadIds, offset \in 0..MaxSize, ends \in 0..MaxSize : DiskStore!AppendUpload(u, offset, ends)
    BY <1>6
  <2> DEFINE had == Len(growing[u])
             more == [n \in 1..(ends - offset) |-> offset + n]
  <2>2. /\ u \in DOMAIN growing /\ growing[u] \in Seq(Int) /\ had \in Nat /\ offset = had
        /\ ends - offset \in Nat /\ 0 < ends - offset /\ \A n \in 1..(ends - offset) : offset + n \in Int
        /\ growing' = [growing EXCEPT ![u] = @ \o more]
        /\ UNCHANGED files
    BY <2>1, LenProperties DEF DiskStore!AppendUpload, DInv
  <2>0. offset \in Int /\ ends - offset \in Nat
    BY <2>2
  <2>3. more \in Seq(Int)
    BY <2>0, Following
  <2>8. Len(more) = ends - offset
    BY <2>0, Following
  <2>4. growing'[u] = growing[u] \o more /\ DOMAIN growing' = DOMAIN growing
    BY <2>2
  <2>5. Len(growing'[u]) = had + (ends - offset)
    BY <2>2, <2>3, <2>4, <2>8, ConcatProperties
  <2>6. more = [n \in 1..(Len(growing'[u]) - had) |-> had + n]
    BY <2>2, <2>5
  <2>9. Len(growing'[u]) > had
    BY <2>2, <2>5
  <2> HIDE DEF more
  <2>10. growing' = [growing EXCEPT ![u] = growing[u] \o [n \in 1..(Len(growing'[u]) - had) |-> had + n]]
    BY <2>2, <2>6, Zenon
  <2>7. DiskStore!Port!AppendUpload(u)
    BY <2>2, <2>4, <2>9, <2>10, Zenon DEF DiskStore!Port!AppendUpload
  <2> QED BY <2>2, <2>7 DEF DiskStore!PortStep, DiskStore!Port!Next
<1> QED BY <1>1, <1>2, <1>3, <1>4, <1>5, <1>6, <1>7
        DEF DiskStore!Next, DiskStore!diskVars, DiskStore!WriteTemp, DiskStore!Begin, DiskStore!MakeParents,
            DiskStore!Delete, DiskStore!AbortUpload, DiskStore!Restart

-----------------------------------------------------------------------------
(* Ranges.                                                                 *)

LEMMA SameCount == \A S : DiskStore!Port!Cardinality(S) = Cardinality(S)
BY Zenon DEF DiskStore!Port!Cardinality, Cardinality

\* The part of some bytes from place a up to place b.
LEMMA PartIsSubSeq ==
  ASSUME NEW bytes \in Seq(Int), NEW r, NEW a \in 0..Len(bytes), NEW b \in a..Len(bytes),
         \A i \in 1..Len(bytes) :
           (IF r.suffix THEN i > Len(bytes) - r.n ELSE i > r.off /\ (r.hasLen => i <= r.off + r.n))
             <=> (i > a /\ i <= b)
  PROVE  DiskStore!Port!Part(bytes, r) = SubSeq(bytes, a + 1, b)
<1> DEFINE places == {i \in 1..Len(bytes) : IF r.suffix THEN i > Len(bytes) - r.n
                                            ELSE i > r.off /\ (r.hasLen => i <= r.off + r.n)}
           before == {i \in 1..Len(bytes) : \A p \in places : i < p}
<1>1. Len(bytes) \in Nat
  BY LenProperties
<1>2. DiskStore!Port!Part(bytes, r) =
        [i \in 1..DiskStore!Port!Cardinality(places) |-> bytes[i + DiskStore!Port!Cardinality(before)]]
  BY DEF DiskStore!Port!Part
<1>3. places = {i \in 1..Len(bytes) : i > a /\ i <= b}
  OBVIOUS
<1>4. places = (a + 1)..b
  BY <1>1, <1>3
<1>5. a < b => before = 1..a
  <2> SUFFICES ASSUME a < b PROVE before = 1..a
    OBVIOUS
  <2>1. a + 1 \in places
    BY <1>1, <1>4
  <2> HIDE DEF places
  <2>4. \A i \in 1..Len(bytes) : i \in before <=> \A p \in places : i < p
    OBVIOUS
  <2> HIDE DEF before
  <2>2. \A i \in 1..Len(bytes) : i \in before <=> i <= a
    <3> SUFFICES ASSUME NEW i \in 1..Len(bytes) PROVE i \in before <=> i <= a
      OBVIOUS
    <3>1. i \in before => i <= a
      BY <1>1, <2>1, <2>4
    <3>2. i <= a => \A p \in places : i < p
      BY <1>1, <1>4
    <3> QED BY <2>4, <3>1, <3>2
  <2>3. before \subseteq 1..Len(bytes)
    BY DEF before
  <2>6. \A i : i \in 1..a <=> i \in 1..Len(bytes) /\ i <= a
    BY <1>1
  <2>5. \A i : i \in before <=> i \in 1..a
    BY <2>2, <2>3, <2>6
  <2> QED BY <2>5
<1>6. DiskStore!Port!Cardinality(places) = b - a
  <2>1. Cardinality((a + 1)..b) = IF a + 1 > b THEN 0 ELSE b - (a + 1) + 1
    BY FS_Interval
  <2> HIDE DEF places
  <2>2. DiskStore!Port!Cardinality(places) = Cardinality((a + 1)..b)
    BY <1>4, SameCount
  <2> QED BY <1>1, <2>1, <2>2
<1>7. a < b => DiskStore!Port!Cardinality(before) = a
  <2> SUFFICES ASSUME a < b PROVE DiskStore!Port!Cardinality(before) = a
    OBVIOUS
  <2>1. Cardinality(1..a) = IF 1 > a THEN 0 ELSE a - 1 + 1
    BY FS_Interval
  <2> HIDE DEF before
  <2>2. DiskStore!Port!Cardinality(before) = Cardinality(1..a)
    BY <1>5, SameCount
  <2> QED BY <1>1, <2>1, <2>2
<1> DEFINE s == SubSeq(bytes, a + 1, b)
<1>8. \A i \in (a + 1)..b : bytes[i] \in Int
  BY <1>1, ElementOfSeq
<1>9. s \in Seq(Int) /\ Len(s) = b - a /\ \A i \in 1..(b - a) : s[i] = bytes[i + a]
  <2>1. s \in Seq(Int) /\ Len(s) = (IF a + 1 <= b THEN b - (a + 1) + 1 ELSE 0)
        /\ \A i \in 1..(b - (a + 1) + 1) : s[i] = bytes[a + 1 + i - 1]
    BY <1>1, <1>8, SubSeqProperties
  <2> HIDE DEF s
  <2>2. \A i \in 1..(b - a) : a + 1 + i - 1 = i + a
    BY <1>1
  <2> QED BY <1>1, <2>1, <2>2
<1> HIDE DEF places, before, s
<1>10. DiskStore!Port!Part(bytes, r) = [i \in 1..(b - a) |-> bytes[i + a]]
  <2>1. CASE a < b
    BY <1>2, <1>6, <1>7, <2>1
  <2>2. CASE a = b
    BY <1>1, <1>2, <1>6, <2>2
  <2> QED BY <1>1, <2>1, <2>2
<1>11. s = [i \in 1..(b - a) |-> s[i]]
  BY <1>9, LenProperties
<1>12. s = [i \in 1..(b - a) |-> bytes[i + a]]
  BY <1>9, <1>11
<1> QED BY <1>10, <1>12 DEF s


\* What a range is after all: from place a up to place b.
LEMMA Resolved ==
  ASSUME NEW bytes \in Seq(Int), NEW r \in DiskStore!SomeRanges
  PROVE  LET span == DiskStore!Resolve(r, Len(bytes))
         IN /\ span.ok <=> ~DiskStore!Port!Refused(bytes, r)
            /\ span.ok => /\ span.off \in 0..Len(bytes) /\ span.n \in 0..(Len(bytes) - span.off)
                          /\ \A i \in 1..Len(bytes) :
                               (IF r.suffix THEN i > Len(bytes) - r.n ELSE i > r.off /\ (r.hasLen => i <= r.off + r.n))
                                 <=> (i > span.off /\ i <= span.off + span.n)
<1>1. Len(bytes) \in Nat
  BY LenProperties
<1>2. r \in [off : Int, n : Int, hasLen : BOOLEAN, suffix : BOOLEAN]
  <2>1. CASE r = DiskStore!All
    BY <2>1 DEF DiskStore!All
  <2>2. CASE \E i \in -1..4 : r = DiskStore!From(i)
    <3>1. DiskStore!All \in [off : Int, n : Int, hasLen : BOOLEAN, suffix : BOOLEAN]
      BY DEF DiskStore!All
    <3>2. PICK i \in -1..4 : r = [DiskStore!All EXCEPT !.off = i]
      BY <2>2 DEF DiskStore!From
    <3> QED BY <3>1, <3>2
  <2>3. CASE \E i \in -1..4 : r = DiskStore!Suffix(i)
    BY <2>3 DEF DiskStore!Suffix
  <2>4. CASE \E i \in -1..4, n \in -1..4 : r = DiskStore!Slice(i, n)
    BY <2>4 DEF DiskStore!Slice
  <2> QED BY <2>1, <2>2, <2>3, <2>4 DEF DiskStore!SomeRanges
<1> DEFINE L == Len(bytes)
           span == DiskStore!Resolve(r, L)
<1>3. CASE r.suffix /\ r.n <= 0
  BY <1>1, <1>2, <1>3 DEF DiskStore!Resolve, DiskStore!Nothing, DiskStore!Port!Refused
<1>4. CASE r.suffix /\ r.n > 0 /\ r.n >= L
  <2>1. span = [off |-> 0, n |-> L, ok |-> TRUE]
    BY <1>1, <1>2, <1>4 DEF DiskStore!Resolve, DiskStore!Span
  <2> QED BY <1>1, <1>2, <1>4, <2>1 DEF DiskStore!Port!Refused
<1>5. CASE r.suffix /\ r.n > 0 /\ r.n < L
  <2>1. span = [off |-> L - r.n, n |-> r.n, ok |-> TRUE]
    BY <1>1, <1>2, <1>5 DEF DiskStore!Resolve, DiskStore!Span
  <2> QED BY <1>1, <1>2, <1>5, <2>1 DEF DiskStore!Port!Refused
<1>6. CASE ~r.suffix /\ (r.off < 0 \/ r.off > L)
  BY <1>1, <1>2, <1>6 DEF DiskStore!Resolve, DiskStore!Nothing, DiskStore!Port!Refused
<1>7. CASE ~r.suffix /\ r.off \in 0..L /\ ~r.hasLen
  <2>1. span = [off |-> r.off, n |-> L - r.off, ok |-> TRUE]
    BY <1>1, <1>2, <1>7 DEF DiskStore!Resolve, DiskStore!Span
  <2> QED BY <1>1, <1>2, <1>7, <2>1 DEF DiskStore!Port!Refused
<1>8. CASE ~r.suffix /\ r.off \in 0..L /\ r.hasLen /\ r.n < 0
  BY <1>1, <1>2, <1>8 DEF DiskStore!Resolve, DiskStore!Nothing, DiskStore!Port!Refused
<1>9. CASE ~r.suffix /\ r.off \in 0..L /\ r.hasLen /\ r.n >= 0
  <2>1. span = [off |-> r.off, n |-> IF r.n < L - r.off THEN r.n ELSE L - r.off, ok |-> TRUE]
    BY <1>1, <1>2, <1>9 DEF DiskStore!Resolve, DiskStore!Span, DiskStore!Min2
  <2> QED BY <1>1, <1>2, <1>9, <2>1 DEF DiskStore!Port!Refused
<1> QED BY <1>1, <1>2, <1>3, <1>4, <1>5, <1>6, <1>7, <1>8, <1>9

LEMMA RangesAgree ==
  ASSUME NEW bytes \in Seq(Int), NEW r \in DiskStore!SomeRanges
  PROVE  /\ DiskStore!Resolve(r, Len(bytes)).ok <=> ~DiskStore!Port!Refused(bytes, r)
         /\ DiskStore!Resolve(r, Len(bytes)).ok =>
              /\ DiskStore!diskGet(bytes, r) = DiskStore!Port!Part(bytes, r)
              /\ DiskStore!s3Get(bytes, r) = DiskStore!Port!Part(bytes, r)
<1> DEFINE span == DiskStore!Resolve(r, Len(bytes))
<1>1. Len(bytes) \in Nat
  BY LenProperties
<1>2. span.ok <=> ~DiskStore!Port!Refused(bytes, r)
  BY Resolved
<1>3. ASSUME span.ok
      PROVE  /\ DiskStore!diskGet(bytes, r) = DiskStore!Port!Part(bytes, r)
             /\ DiskStore!s3Get(bytes, r) = DiskStore!Port!Part(bytes, r)
  <2> DEFINE a == span.off
             b == span.off + span.n
  <2>1. /\ a \in 0..Len(bytes) /\ span.n \in 0..(Len(bytes) - a)
        /\ \A i \in 1..Len(bytes) :
             (IF r.suffix THEN i > Len(bytes) - r.n ELSE i > r.off /\ (r.hasLen => i <= r.off + r.n))
               <=> (i > a /\ i <= b)
    BY <1>3, Resolved
  <2>2. b \in a..Len(bytes)
    BY <1>1, <2>1
  <2>3. DiskStore!Port!Part(bytes, r) = SubSeq(bytes, a + 1, b)
    BY <2>1, <2>2, PartIsSubSeq
  <2>4. DiskStore!Min2(b, Len(bytes)) = b /\ DiskStore!Min2(b - 1 + 1, Len(bytes)) = b /\ a + 1 \in Int /\ b \in Int
    BY <1>1, <2>1, <2>2 DEF DiskStore!Min2
  <2>5. DiskStore!diskGet(bytes, r) = SubSeq(bytes, a + 1, b)
    BY <2>4 DEF DiskStore!diskGet
  <2>6. DiskStore!s3Get(bytes, r) = IF span.n = 0 THEN <<>> ELSE SubSeq(bytes, a + 1, b)
    <3> HIDE DEF span
    <3>1. DiskStore!s3Get(bytes, r) =
            IF span.n = 0 THEN <<>> ELSE SubSeq(bytes, span.off + 1, DiskStore!Min2(span.off + span.n - 1 + 1, Len(bytes)))
      BY Zenon DEF DiskStore!s3Get, span
    <3>2. span.off + span.n - 1 + 1 = b /\ span.off + 1 = a + 1
      BY <1>1, <2>1
    <3>3. DiskStore!Min2(b, Len(bytes)) = b
      BY <2>4
    <3> HIDE DEF b
    <3>4. SubSeq(bytes, span.off + 1, DiskStore!Min2(span.off + span.n - 1 + 1, Len(bytes))) = SubSeq(bytes, a + 1, b)
      BY <3>2, <3>3
    <3> QED BY <3>1, <3>4
  <2>7. span.n = 0 => SubSeq(bytes, a + 1, b) = <<>>
    <3> SUFFICES ASSUME span.n = 0 PROVE SubSeq(bytes, a + 1, b) = <<>>
      OBVIOUS
    <3>1. b < a + 1
      BY <1>1, <2>1, <2>2
    <3> QED BY <2>4, <3>1, SubSeqEmpty
  <2> QED BY <2>3, <2>5, <2>6, <2>7
<1> QED BY <1>2, <1>3

\* A walk goes down into every folder on the way to a key of the prefix.
LEMMA WalkIsWhole ==
  ASSUME DiskConstants, DInv, NEW prefix \in Seq(Int)
  PROVE  DiskStore!List(prefix) = DiskStore!Port!Listed(DOMAIN files, prefix)
<1>1. ASSUME NEW k \in DOMAIN files, DiskStore!HasPrefix(k, prefix), NEW d \in DiskStore!Parents(k)
      PROVE  DiskStore!Entered(d, prefix)
  <2> DEFINE p == Append(d, DiskStore!Slash)
             P == Len(prefix)
  <2>1. k \in Seq(Int) /\ Len(k) \in Nat /\ P \in Nat /\ P <= Len(k)
    BY <1>1, LenProperties DEF DiskConstants, DInv, DiskStore!HasPrefix
  <2>2. /\ d \in Seq(Int) /\ Len(d) < Len(k) /\ Len(d) \in Nat
        /\ k[Len(d) + 1] = DiskStore!Slash /\ \A i \in 1..Len(d) : d[i] = k[i]
    BY <1>1, <2>1, Above
  <2>3. DiskStore!Slash \in Int
    BY DEF DiskStore!Slash
  <2>4. /\ p \in Seq(Int) /\ Len(p) = Len(d) + 1
        /\ \A i \in 1..Len(d) : p[i] = d[i]
        /\ p[Len(d) + 1] = DiskStore!Slash
    BY <2>2, <2>3, AppendProperties
  <2> HIDE DEF p
  <2>5. \A i \in 1..Len(p) : p[i] = k[i]
    <3> SUFFICES ASSUME NEW i \in 1..Len(p) PROVE p[i] = k[i]
      OBVIOUS
    <3>1. CASE i \in 1..Len(d)
      BY <2>2, <2>4, <3>1
    <3>2. CASE i = Len(d) + 1
      BY <2>2, <2>4, <3>2
    <3> QED BY <2>2, <2>4, <3>1, <3>2
  <2>6. \A i \in 1..P : k[i] \in Int
    BY <2>1, ElementOfSeq
  <2>7. SubSeq(k, 1, P) = prefix
    BY <1>1 DEF DiskStore!HasPrefix
  <2>8. \A i \in 1..P : prefix[i] = k[i]
    <3>1. \A i \in 1..(P - 1 + 1) : SubSeq(k, 1, P)[i] = k[1 + i - 1]
      BY <2>1, <2>6, SubSeqProperties
    <3> QED BY <2>1, <2>7, <3>1
  <2>9. CASE Len(p) >= P
    <3>0. \A i \in 1..P : i \in 1..Len(p)
      BY <2>1, <2>2, <2>4, <2>9
    <3>1. \A i \in 1..P : p[i] \in Int /\ p[i] = prefix[i]
      <4> SUFFICES ASSUME NEW i \in 1..P PROVE p[i] \in Int /\ p[i] = prefix[i]
        OBVIOUS
      <4>1. p[i] = k[i] /\ prefix[i] = k[i] /\ k[i] \in Int
        BY <2>5, <2>6, <2>8, <3>0, Zenon
      <4> QED BY <4>1
    <3>2. SubSeq(p, 1, P) \in Seq(Int) /\ Len(SubSeq(p, 1, P)) = P /\ \A i \in 1..P : SubSeq(p, 1, P)[i] = p[i]
      BY <2>1, <3>1, SubSeqProperties
    <3>3. SubSeq(p, 1, P) = prefix
      BY <3>1, <3>2, SeqEqual
    <3> QED BY <2>9, <3>3 DEF DiskStore!Entered, DiskStore!HasPrefix, p
  <2>10. CASE P >= Len(p)
    <3> DEFINE n == Len(p)
    <3>0. \A i \in 1..n : i \in 1..P
      BY <2>1, <2>2, <2>4, <2>10
    <3>1. \A i \in 1..n : prefix[i] \in Int /\ prefix[i] = p[i]
      <4> SUFFICES ASSUME NEW i \in 1..n PROVE prefix[i] \in Int /\ prefix[i] = p[i]
        OBVIOUS
      <4>1. p[i] = k[i] /\ prefix[i] = k[i] /\ k[i] \in Int
        BY <2>5, <2>6, <2>8, <3>0, Zenon
      <4> QED BY <4>1
    <3>2. n \in Nat
      BY <2>2, <2>4
    <3> HIDE DEF n
    <3>3. SubSeq(prefix, 1, n) \in Seq(Int) /\ Len(SubSeq(prefix, 1, n)) = n
          /\ \A i \in 1..n : SubSeq(prefix, 1, n)[i] = prefix[i]
      BY <3>1, <3>2, SubSeqProperties
    <3>4. SubSeq(prefix, 1, n) = p
      BY <2>4, <3>1, <3>3, SeqEqual DEF n
    <3> QED BY <2>10, <3>4 DEF DiskStore!Entered, DiskStore!HasPrefix, p, n
  <2> QED BY <2>1, <2>2, <2>4, <2>9, <2>10
<1>2. \A k : k \in DiskStore!Port!Listed(DOMAIN files, prefix) <=> k \in DOMAIN files /\ DiskStore!HasPrefix(k, prefix)
  BY DEF DiskStore!Port!Listed, DiskStore!HasPrefix
<1>3. \A k : k \in DiskStore!List(prefix) <=> k \in DOMAIN files /\ DiskStore!HasPrefix(k, prefix)
  BY <1>1 DEF DiskStore!List
<1> QED BY <1>2, <1>3

LEMMA DiskReadsAgree == ASSUME DiskConstants, DInv PROVE DiskStore!ReadsAgree
<1>1. ASSUME NEW bytes \in {<<>>} \cup {files[k] : k \in DOMAIN files}, NEW r \in DiskStore!SomeRanges
      PROVE  /\ DiskStore!Resolve(r, Len(bytes)).ok <=> ~DiskStore!Port!Refused(bytes, r)
             /\ DiskStore!Resolve(r, Len(bytes)).ok =>
                  /\ DiskStore!diskGet(bytes, r) = DiskStore!Port!Part(bytes, r)
                  /\ DiskStore!s3Get(bytes, r) = DiskStore!Port!Part(bytes, r)
  <2>1. bytes \in Seq(Int)
    BY <1>1, EmptySeq DEF DInv
  <2> QED BY <1>1, <2>1, RangesAgree
<1>2. ASSUME NEW k \in DiskKeys, NEW n \in 0..3, n <= Len(k)
      PROVE  DiskStore!List(SubSeq(k, 1, n)) = DiskStore!Port!Listed(DOMAIN files, SubSeq(k, 1, n))
  <2>1. k \in Seq(Int) /\ Len(k) \in Nat
    BY LenProperties DEF DiskConstants
  <2>2. \A i \in 1..n : k[i] \in Int
    BY <1>2, <2>1, ElementOfSeq
  <2>3. SubSeq(k, 1, n) \in Seq(Int)
    BY <2>2, SubSeqProperties
  <2> QED BY <2>3, WalkIsWhole
<1> QED BY <1>1, <1>2 DEF DiskStore!ReadsAgree

-----------------------------------------------------------------------------
(* The bucket.                                                             *)

\* What a part may be, and the files.
BucketConstants ==
  /\ Sizes \subseteq Nat
  /\ PartSize \in Nat /\ MinPart \in Nat /\ 0 < MinPart /\ MinPart <= PartSize

\* One request at a time for an upload.
OneForEach ==
  \A r, s \in Requests :
    request[r] # S3Store!Quiet /\ request[s] # S3Store!Quiet /\ request[r].id = request[s].id => r = s

\* The file's n bytes after place a.
Run(a, n) == [i \in 1..n |-> a + i]

Reach(P) == Len(S3Store!Joined(P))

\* An upload of a file of so many bytes, of which the parts P and the tail T are
\* the first; its caller knows of offset.
Whole(P, T, size, offset) ==
  /\ S3Store!Joined(P) = Run(0, Reach(P))
  /\ T = Run(Reach(P), Len(T)) /\ Len(T) < MinPart
  /\ Reach(P) + Len(T) <= size /\ offset <= Reach(P) + Len(T)
  /\ \A i \in 1..(Len(P) - 1) : Len(P[i]) >= MinPart
  /\ P # <<>> => Len(P[Len(P)]) >= MinPart \/ Reach(P) = size

PartsOf(u) == multiparts[u].parts
LastTail(u) == S3Store!TailOf(u, Len(PartsOf(u)) + 1)

UploadStands(u) ==
  /\ Whole(PartsOf(u), LastTail(u), session[u].size, session[u].offset)
  /\ \A t \in DOMAIN tails : t[1] = u => t[2] <= Len(PartsOf(u)) + 1 /\ tails[t].day >= multiparts[u].day

\* What an append of the upload with parts P and tail T has in hand at its place.
Appending(q, P, T, s) ==
  /\ q.phase \in {"tail", "fill", "part", "flush"} =>
       q.next = Len(P) + 1 /\ q.uploaded = Reach(P) /\ q.offset <= q.ends /\ q.ends <= s.size
  /\ q.phase \in {"fill", "part", "flush"} =>
       /\ q.held = Run(q.uploaded, Len(q.held)) /\ q.uploaded + Len(q.held) <= q.ends
       /\ q.kept = Len(T) /\ q.kept <= Len(q.held)
  /\ q.phase = "fill" => Len(q.held) = q.kept
  /\ q.phase = "part" => Len(q.held) = PartSize
  /\ q.phase \in {"drop", "dropped"} =>
       /\ q.next = Len(P) /\ T = <<>>
       /\ Reach(P) = q.uploaded + Len(q.held) /\ Reach(P) <= q.ends /\ q.offset <= q.ends /\ q.ends <= s.size

Completing(q, P, T, s) ==
  /\ q.phase \in {"empty", "promote", "complete"} => s.offset = s.size
  /\ q.phase = "promote" => q.next = Len(P) + 1 /\ T # <<>>
  /\ q.phase = "complete" => T = <<>>

AppendPhases == {"tail", "fill", "part", "flush", "drop", "dropped"}
CompletePhases == {"empty", "put", "promote", "complete"}

AppendRequests == [phase : AppendPhases, id : Uploads3, next : Nat, uploaded : Nat, held : Seq(Int), kept : Nat,
            offset : Nat, ends : Nat]
CompleteRequests == [phase : CompletePhases, id : Uploads3, next : Nat]

AtPlace(q) ==
  q.phase \notin {"none", "put"} =>
    /\ q.id \in DOMAIN multiparts
    /\ q.phase \in AppendPhases => Appending(q, PartsOf(q.id), LastTail(q.id), session[q.id])
    /\ q.phase \in CompletePhases => Completing(q, PartsOf(q.id), LastTail(q.id), session[q.id])

BucketTypes ==
  /\ today \in Nat
  /\ session \in [Uploads3 -> [size : Sizes \cup {-1}, offset : Nat, day : Nat]]
  /\ DOMAIN multiparts \subseteq Uploads3
  /\ multiparts \in [DOMAIN multiparts -> [parts : Seq(Seq(Int)), day : Nat]]
  /\ DOMAIN tails \subseteq Uploads3 \X Nat
  /\ \A t \in DOMAIN tails : tails[t] \in [bytes : Seq(Int), day : Nat]
  /\ request \in [Requests -> {S3Store!Quiet} \cup AppendRequests \cup CompleteRequests]

\* What the bucket is asked beside that.
AskTypes ==
  asked \in {S3Store!None} \cup [op : {"put"}, key : {S3Store!Key}, body : S3Store!Bodies3]
           \cup [op : {"delete"}, key : {S3Store!Key}] \cup [op : {"abort"}, upload : Uploads3]

\* No upload is begun twice, and a file that is published is whole.
Begun ==
  /\ \A u \in DOMAIN multiparts : session[u].size \in Sizes /\ multiparts[u].day <= today
  /\ \A t \in DOMAIN tails : session[t[1]].size \in Sizes

SInv ==
  /\ BucketTypes /\ Begun
  /\ \A u \in DOMAIN multiparts : UploadStands(u)
  /\ \A r \in Requests : AtPlace(request[r])
  /\ S3Store!PublishedIsTheFile

-----------------------------------------------------------------------------
(* Parts, joined.                                                          *)

\* f joins the first of the parts P, one after the other.
Joins(f, P) == f = [i \in 1..Len(P) |-> IF i = 1 THEN P[i] ELSE f[i - 1] \o P[i]]

LEMMA JoinsExist ==
  ASSUME NEW P \in Seq(Seq(Int))
  PROVE  \E f : Joins(f, P)
<1> DEFINE Upto(n, f) == f = [i \in 1..n |-> IF i = 1 THEN P[i] ELSE f[i - 1] \o P[i]]
           None1 == {n \in Nat : ~\E f : Upto(n, f)}
<1>1. Upto(0, <<>>)
  OBVIOUS
<1>2. ASSUME NEW n \in Nat, NEW f, Upto(n, f) PROVE \E g : Upto(n + 1, g)
  <2> DEFINE g == [i \in 1..(n + 1) |-> IF i = 1 THEN P[i] ELSE f[i - 1] \o P[i]]
  <2>1. \A i \in 1..n : f[i] = IF i = 1 THEN P[i] ELSE f[i - 1] \o P[i]
    BY <1>2
  <2>2. \A i \in 1..n : g[i] = f[i]
    BY <2>1
  <2>3. \A i \in 1..(n + 1) : i # 1 => i - 1 \in 1..n
    OBVIOUS
  <2>4. \A i \in 1..(n + 1) : (IF i = 1 THEN P[i] ELSE f[i - 1] \o P[i]) = (IF i = 1 THEN P[i] ELSE g[i - 1] \o P[i])
    BY <2>2, <2>3
  <2>5. g = [i \in 1..(n + 1) |-> IF i = 1 THEN P[i] ELSE g[i - 1] \o P[i]]
    BY <2>4
  <2> QED BY <2>5
<1> HIDE DEF Upto
<1>3. None1 = {}
  <2> SUFFICES ASSUME None1 # {} PROVE FALSE
    OBVIOUS
  <2>1. PICK n \in None1 : \A m \in None1 : n <= m
    BY LeastOf
  <2>2. n # 0
    BY <1>1, <2>1
  <2>3. n - 1 \in Nat /\ n - 1 \notin None1
    BY <2>1, <2>2
  <2>4. \E f : Upto(n - 1, f)
    BY <2>3
  <2>5. \E g : Upto(n - 1 + 1, g)
    BY <1>2, <2>3, <2>4
  <2> QED BY <2>1, <2>5
<1>4. Len(P) \in Nat
  BY LenProperties
<1> QED BY <1>3, <1>4 DEF Upto, Joins

LEMMA JoinedIs ==
  ASSUME NEW P \in Seq(Seq(Int)), P # <<>>
  PROVE  \E f : Joins(f, P) /\ S3Store!Joined(P) = f[Len(P)]
<1> DEFINE f == CHOOSE f : Joins(f, P)
<1>1. Joins(f, P)
  BY JoinsExist
<1>2. Len(P) # 0
  BY EmptySeq
<1>3. S3Store!Joined(P) = f[Len(P)]
  BY <1>2 DEF S3Store!Joined, S3Store!FlattenSeq, Joins
<1> QED BY <1>1, <1>3

LEMMA JoinedType ==
  ASSUME NEW P \in Seq(Seq(Int))
  PROVE  S3Store!Joined(P) \in Seq(Int)
<1>1. CASE P = <<>>
  <2>1. S3Store!Joined(P) = <<>>
    BY <1>1 DEF S3Store!Joined, S3Store!FlattenSeq
  <2> QED BY <2>1, EmptySeq
<1>2. CASE P # <<>>
  <2>1. PICK f : Joins(f, P) /\ S3Store!Joined(P) = f[Len(P)]
    BY <1>2, JoinedIs
  <2> DEFINE Bad == {i \in 1..Len(P) : f[i] \notin Seq(Int)}
  <2>2. Len(P) \in Nat /\ Len(P) # 0
    BY <1>2, LenProperties, EmptySeq
  <2>3. \A i \in 1..Len(P) : f[i] = IF i = 1 THEN P[i] ELSE f[i - 1] \o P[i]
    BY <2>1 DEF Joins
  <2>4. \A i \in 1..Len(P) : P[i] \in Seq(Int)
    BY ElementOfSeq
  <2>5. Bad = {}
    <3> SUFFICES ASSUME Bad # {} PROVE FALSE
      OBVIOUS
    <3>1. Bad \subseteq Nat
      BY <2>2
    <3>2. PICK n \in Bad : \A m \in Bad : n <= m
      BY <3>1, LeastOf
    <3>3. n \in 1..Len(P) /\ f[n] \notin Seq(Int)
      BY <3>2
    <3>4. n # 1
      BY <2>3, <2>4, <3>3
    <3>5. n - 1 \in 1..Len(P) /\ n - 1 \notin Bad
      BY <2>2, <3>2, <3>3, <3>4
    <3>6. f[n - 1] \in Seq(Int) /\ P[n] \in Seq(Int) /\ f[n] = f[n - 1] \o P[n]
      BY <2>3, <2>4, <3>3, <3>4, <3>5
    <3>7. f[n - 1] \o P[n] \in Seq(Int)
      BY <3>6, ConcatProperties
    <3> QED BY <3>3, <3>6, <3>7
  <2>6. Len(P) \in 1..Len(P)
    BY <2>2
  <2> QED BY <2>1, <2>5, <2>6
<1> QED BY <1>1, <1>2

LEMMA OnePartMore ==
  ASSUME NEW P \in Seq(Seq(Int)), NEW x \in Seq(Int)
  PROVE  /\ Append(P, x) \in Seq(Seq(Int)) /\ Append(P, x) # <<>> /\ Len(Append(P, x)) = Len(P) + 1
         /\ Len(P) \in Nat /\ Append(P, x)[Len(P) + 1] = x
         /\ \A i \in 1..Len(P) : Append(P, x)[i] = P[i]
BY AppendProperties, LenProperties

\* A part more is its bytes more.
LEMMA JoinedAppend ==
  ASSUME NEW P \in Seq(Seq(Int)), NEW x \in Seq(Int)
  PROVE  S3Store!Joined(Append(P, x)) = S3Store!Joined(P) \o x
<1> DEFINE Q == Append(P, x)
<1>1. /\ Q \in Seq(Seq(Int)) /\ Q # <<>> /\ Len(Q) = Len(P) + 1 /\ Len(P) \in Nat
      /\ \A i \in 1..Len(P) : Q[i] = P[i]
      /\ Q[Len(P) + 1] = x
  BY AppendProperties, LenProperties
<1> HIDE DEF Q
<1>2. PICK g : Joins(g, Q) /\ S3Store!Joined(Q) = g[Len(Q)]
  BY <1>1, JoinedIs
<1>3. \A i \in 1..Len(Q) : g[i] = IF i = 1 THEN Q[i] ELSE g[i - 1] \o Q[i]
  BY <1>2 DEF Joins
<1>4. CASE P = <<>>
  <2>1. S3Store!Joined(P) = <<>>
    BY <1>4 DEF S3Store!Joined, S3Store!FlattenSeq
  <2>2. Len(P) = 0
    BY <1>4
  <2>3. S3Store!Joined(Q) = x
    BY <1>1, <1>2, <1>3, <2>2
  <2>4. <<>> \o x = x
    BY ConcatEmptySeq
  <2> QED BY <2>1, <2>3, <2>4 DEF Q
<1>5. CASE P # <<>>
  <2>1. PICK f : Joins(f, P) /\ S3Store!Joined(P) = f[Len(P)]
    BY <1>5, JoinedIs
  <2>2. Len(P) # 0 /\ Len(P) <= Len(Q)
    BY <1>1, <1>5, EmptySeq
  <2>3. \A i \in 1..Len(P) : P[i] = Q[i]
    BY <1>1
  <2>4. \A i \in 1..Len(P) : f[i] = g[i]
    <3> DEFINE Bad == {i \in 1..Len(P) : f[i] # g[i]}
    <3>1. Bad \subseteq Nat
      BY <1>1
    <3>2. \A i \in 1..Len(P) : f[i] = IF i = 1 THEN P[i] ELSE f[i - 1] \o P[i]
      BY <2>1 DEF Joins
    <3>3. SUFFICES ASSUME Bad # {} PROVE FALSE
      OBVIOUS
    <3>4. PICK n \in Bad : \A m \in Bad : n <= m
      BY <3>1, <3>3, LeastOf
    <3>5. n \in 1..Len(P) /\ n \in 1..Len(Q) /\ P[n] = Q[n] /\ f[n] # g[n]
      BY <1>1, <2>2, <2>3, <3>4
    <3>6. CASE n = 1
      BY <1>3, <3>2, <3>5, <3>6
    <3>7. CASE n # 1
      <4>1. n - 1 \in 1..Len(P) /\ n - 1 \notin Bad
        BY <1>1, <3>1, <3>4, <3>5, <3>7
      <4>2. f[n - 1] = g[n - 1]
        BY <4>1
      <4>3. f[n] = f[n - 1] \o P[n] /\ g[n] = g[n - 1] \o Q[n]
        BY <1>3, <3>2, <3>5, <3>7
      <4> QED BY <3>5, <4>2, <4>3
    <3> QED BY <3>6, <3>7
  <2>5. f[Len(P)] = g[Len(P)]
    BY <1>1, <2>2, <2>4
  <2> DEFINE n == Len(Q)
  <2>6. n \in 1..Len(Q) /\ n # 1 /\ n - 1 = Len(P) /\ Q[n] = x
    BY <1>1, <2>2
  <2> HIDE DEF n
  <2>7. g[n] = g[n - 1] \o Q[n]
    BY <1>3, <2>6
  <2>8. g[n] = f[Len(P)] \o x
    BY <2>5, <2>6, <2>7
  <2> QED BY <1>2, <2>1, <2>8 DEF Q, n
<1> QED BY <1>4, <1>5

LEMMA RunProperties ==
  ASSUME NEW a \in Int, NEW n \in Nat
  PROVE  Run(a, n) \in Seq(Int) /\ Len(Run(a, n)) = n /\ \A i \in 1..n : Run(a, n)[i] = a + i
<1>1. \A i \in 1..n : a + i \in Int
  OBVIOUS
<1>2. Run(a, n) \in Seq(Int)
  BY <1>1, IsASeq DEF Run
<1> QED BY <1>2 DEF Run

LEMMA RunsJoin ==
  ASSUME NEW a \in Int, NEW m \in Nat, NEW n \in Nat, NEW b, b = a + m
  PROVE  Run(a, m) \o Run(b, n) = Run(a, m + n)
<1> DEFINE s == Run(a, m)
           t == Run(b, n)
           u == Run(a, m + n)
<1>0. b \in Int /\ b = a + m /\ m + n \in Nat
  OBVIOUS
<1>1. s \in Seq(Int) /\ Len(s) = m /\ \A i \in 1..m : s[i] = a + i
  BY RunProperties
<1>2. t \in Seq(Int) /\ Len(t) = n /\ \A i \in 1..n : t[i] = b + i
  BY <1>0, RunProperties
<1>3. u \in Seq(Int) /\ Len(u) = m + n /\ \A i \in 1..(m + n) : u[i] = a + i
  BY <1>0, RunProperties
<1> HIDE DEF s, t, u
<1>4. /\ s \o t \in Seq(Int) /\ Len(s \o t) = m + n
      /\ \A i \in 1..(m + n) : (s \o t)[i] = IF i <= m THEN s[i] ELSE t[i - m]
  BY <1>1, <1>2, ConcatProperties
<1>5. \A i \in 1..(m + n) : (s \o t)[i] = u[i]
  <2> SUFFICES ASSUME NEW i \in 1..(m + n) PROVE (s \o t)[i] = u[i]
    OBVIOUS
  <2>1. CASE i <= m
    BY <1>1, <1>3, <1>4, <2>1
  <2>2. CASE i > m
    <3>1. i - m \in 1..n
      BY <2>2
    <3>2. t[i - m] = b + (i - m)
      BY <1>2, <3>1
    <3>3. (s \o t)[i] = t[i - m]
      BY <1>4, <2>2
    <3>4. u[i] = a + i /\ b + (i - m) = a + i
      BY <1>0, <1>3
    <3> QED BY <3>2, <3>3, <3>4
  <2>3. i <= m \/ i > m
    OBVIOUS
  <2> QED BY <2>1, <2>2, <2>3, Zenon
<1>6. s \o t = u
  BY <1>3, <1>4, <1>5, SeqEqual
<1> QED BY <1>6 DEF s, t, u

LEMMA RunEmpty == ASSUME NEW a \in Int PROVE Run(a, 0) = <<>>
BY RunProperties, EmptySeq

-----------------------------------------------------------------------------
(* Uploads that are whole.                                                 *)

LEMMA ReachIs == ASSUME NEW P \in Seq(Seq(Int)) PROVE Reach(P) \in Nat
BY JoinedType, LenProperties DEF Reach

LEMMA ReachOfNone == S3Store!Joined(<<>>) = <<>> /\ Reach(<<>>) = 0
BY EmptySeq DEF S3Store!Joined, S3Store!FlattenSeq, Reach

LEMMA NothingIsWhole ==
  ASSUME BucketConstants, NEW size \in Nat
  PROVE  Whole(<<>>, <<>>, size, 0)
<1>1. Run(0, 0) = <<>>
  BY RunEmpty
<1> QED BY <1>1, ReachOfNone DEF Whole, BucketConstants

\* What is accepted is the first bytes of the file.
LEMMA WholeIsPrefix ==
  ASSUME NEW P \in Seq(Seq(Int)), NEW T \in Seq(Int), NEW size, NEW offset, Whole(P, T, size, offset)
  PROVE  /\ S3Store!Joined(P) \o T = Run(0, Reach(P) + Len(T))
         /\ Len(S3Store!Joined(P) \o T) = Reach(P) + Len(T)
<1>1. Reach(P) \in Nat /\ Len(T) \in Nat
  BY ReachIs, LenProperties
<1>3. 0 \in Int /\ Reach(P) = 0 + Reach(P) /\ Reach(P) + Len(T) \in Nat
  BY <1>1
<1>2. Run(0, Reach(P)) \o Run(Reach(P), Len(T)) = Run(0, Reach(P) + Len(T))
  BY <1>1, <1>3, RunsJoin, Zenon
<1>4. S3Store!Joined(P) \o T = Run(0, Reach(P) + Len(T))
  BY <1>2, <1>3 DEF Whole
<1> QED BY <1>3, <1>4, RunProperties

\* A part more, of the bytes that follow.
LEMMA PartMore ==
  ASSUME BucketConstants, NEW P \in Seq(Seq(Int)), NEW T \in Seq(Int), NEW x \in Seq(Int),
         NEW size \in Nat, NEW offset \in Nat, Whole(P, T, size, offset),
         x = Run(Reach(P), Len(x)), Len(x) > 0, Len(x) >= Len(T), Reach(P) + Len(x) <= size,
         Len(x) >= MinPart \/ Reach(P) + Len(x) = size
  PROVE  /\ Whole(Append(P, x), <<>>, size, offset)
         /\ Reach(Append(P, x)) = Reach(P) + Len(x)
<1> DEFINE Q == Append(P, x)
           a == Reach(P)
           n == Len(P)
<1>1. a \in Nat /\ n \in Nat /\ Len(x) \in Nat /\ Len(T) \in Nat
  BY ReachIs, LenProperties
<1>2. Q \in Seq(Seq(Int)) /\ Len(Q) = n + 1 /\ Q[n + 1] = x /\ Q # <<>> /\ \A i \in 1..n : Q[i] = P[i]
  BY OnePartMore
<1>3. S3Store!Joined(Q) = S3Store!Joined(P) \o x
  BY JoinedAppend
<1>4. S3Store!Joined(P) = Run(0, a)
  BY DEF Whole
<1>5. 0 \in Int /\ a = 0 + a /\ a + Len(x) \in Nat
  BY <1>1
<1>6. Run(0, a) \o Run(a, Len(x)) = Run(0, a + Len(x))
  <2>1. a \in Nat /\ Len(x) \in Nat
    BY <1>1
  <2> HIDE DEF a, n, Q
  <2> QED BY <1>5, <2>1, RunsJoin, Zenon
<1>7. S3Store!Joined(Q) = Run(0, a + Len(x))
  BY <1>3, <1>4, <1>6
<1>8. Reach(Q) = a + Len(x)
  BY <1>5, <1>7, RunProperties DEF Reach
<1>9. \A i \in 1..n : Len(P[i]) >= MinPart
  <2>1. n # 0 => Len(P[n]) >= MinPart
    <3>1. n # 0 => P # <<>>
      BY EmptySeq
    <3>2. n # 0 => Len(P[n]) >= MinPart \/ a = size
      BY <3>1 DEF Whole
    <3>3. a # size
      BY <1>1
    <3> QED BY <3>2, <3>3
  <2>2. \A i \in 1..(n - 1) : Len(P[i]) >= MinPart
    BY DEF Whole
  <2>3. \A i \in 1..n : i \in 1..(n - 1) \/ (i = n /\ n # 0)
    BY <1>1
  <2> QED BY <2>1, <2>2, <2>3
<1>10. offset <= a + Len(T)
  BY DEF Whole
<1> HIDE DEF Q, a, n
<1>11. \A i \in 1..(Len(Q) - 1) : Len(Q[i]) >= MinPart
  <2>1. Len(Q) - 1 = n
    BY <1>1, <1>2
  <2> QED BY <1>2, <1>9, <2>1
<1>12. Len(Q[Len(Q)]) >= MinPart \/ Reach(Q) = size
  BY <1>2, <1>8 DEF a
<1>13. <<>> = Run(Reach(Q), Len(<<>>)) /\ Len(<<>>) = 0
  BY <1>5, <1>8, RunEmpty
<1>14. S3Store!Joined(Q) = Run(0, Reach(Q))
  BY <1>7, <1>8
<1>15. Reach(Q) + 0 <= size /\ offset <= Reach(Q) + 0 /\ 0 < MinPart
  BY <1>1, <1>5, <1>8, <1>10 DEF BucketConstants, a
<1>16. Whole(Q, <<>>, size, offset)
  BY <1>11, <1>12, <1>13, <1>14, <1>15, Zenon DEF Whole
<1> QED BY <1>8, <1>16 DEF Q, a

\* A longer tail, of the bytes that follow.
LEMMA TailMore ==
  ASSUME NEW P \in Seq(Seq(Int)), NEW T \in Seq(Int), NEW x \in Seq(Int),
         NEW size \in Nat, NEW offset \in Nat, Whole(P, T, size, offset),
         x = Run(Reach(P), Len(x)), Len(x) < MinPart, Len(x) >= Len(T), Reach(P) + Len(x) <= size,
         MinPart \in Nat
  PROVE  Whole(P, x, size, offset)
<1>1. Reach(P) \in Nat /\ Len(x) \in Nat /\ Len(T) \in Nat
  BY ReachIs, LenProperties
<1>2. offset <= Reach(P) + Len(x)
  BY <1>1 DEF Whole
<1> QED BY <1>2 DEF Whole

\* The caller learns of more, and never of more than there is.
LEMMA ToldMore ==
  ASSUME NEW P, NEW T, NEW size, NEW offset, NEW known, Whole(P, T, size, offset), known <= Reach(P) + Len(T)
  PROVE  Whole(P, T, size, known)
BY DEF Whole

\* A part is put after the last.
LEMMA PutAfterTheLast ==
  ASSUME NEW P \in Seq(Seq(Int)), NEW x \in Seq(Int)
  PROVE  S3Store!PartsWith(P, Len(P) + 1, x) = Append(P, x)
<1> DEFINE n == Len(P) + 1
           W == S3Store!PartsWith(P, n, x)
<1>1. n \in Nat /\ n > Len(P) /\ Len(P) \in Nat
  BY LenProperties
<1>2. W = [i \in 1..n |-> IF i = n THEN x ELSE P[i]]
  BY <1>1 DEF S3Store!PartsWith
<1>3. \A i \in 1..n : i # n => i \in 1..Len(P)
  BY <1>1
<1>4. \A i \in 1..Len(P) : P[i] \in Seq(Int)
  BY ElementOfSeq
<1> HIDE DEF W
<1>5. W \in Seq(Seq(Int)) /\ Len(W) = n /\ \A i \in 1..n : W[i] = IF i = n THEN x ELSE P[i]
  <2>1. \A i \in 1..n : (IF i = n THEN x ELSE P[i]) \in Seq(Int)
    BY <1>3, <1>4
  <2>2. W \in Seq(Seq(Int))
    BY <1>1, <1>2, <2>1, IsASeq
  <2> QED BY <1>1, <1>2, <2>2
<1>6. /\ Append(P, x) \in Seq(Seq(Int)) /\ Len(Append(P, x)) = n /\ Append(P, x)[n] = x
      /\ \A i \in 1..Len(P) : Append(P, x)[i] = P[i]
  BY AppendProperties
<1>7. \A i \in 1..n : W[i] = Append(P, x)[i]
  BY <1>3, <1>5, <1>6
<1>8. W = Append(P, x)
  BY <1>5, <1>6, <1>7, SeqEqual
<1> QED BY <1>8 DEF W

-----------------------------------------------------------------------------
(* Steps.                                                                  *)

\* What there is to know of an upload, its parts P and its tail T.
Known(u, P, T) ==
  /\ u \in Uploads3 /\ u \in DOMAIN multiparts /\ multiparts[u].day \in Nat
  /\ P = PartsOf(u) /\ P \in Seq(Seq(Int)) /\ Len(P) \in Nat /\ Reach(P) \in Nat
  /\ T = LastTail(u) /\ T \in Seq(Int) /\ Len(T) \in Nat
  /\ session[u].size \in Nat /\ session[u].offset \in Nat
  /\ Whole(P, T, session[u].size, session[u].offset)
  /\ \A t \in DOMAIN tails : t[1] = u => t[2] <= Len(P) + 1 /\ tails[t].day >= multiparts[u].day

LEMMA UploadKnown ==
  ASSUME BucketConstants, SInv, NEW u \in DOMAIN multiparts
  PROVE  Known(u, PartsOf(u), LastTail(u))
<1>1. u \in Uploads3 /\ multiparts[u] \in [parts : Seq(Seq(Int)), day : Nat] /\ session[u].size \in Sizes
      /\ session[u] \in [size : Sizes \cup {-1}, offset : Nat, day : Nat]
  BY DEF SInv, BucketTypes, Begun
<1>2. PartsOf(u) \in Seq(Seq(Int)) /\ Len(PartsOf(u)) \in Nat /\ Reach(PartsOf(u)) \in Nat
  BY <1>1, ReachIs, LenProperties DEF PartsOf
<1>3. LastTail(u) \in Seq(Int)
  BY EmptySeq DEF LastTail, S3Store!TailOf, SInv, BucketTypes
<1>4. Len(LastTail(u)) \in Nat
  BY <1>3, LenProperties
<1> QED BY <1>1, <1>2, <1>3, <1>4 DEF Known, SInv, UploadStands, BucketConstants

LEMMA AcceptedIs ==
  ASSUME NEW u, NEW P, NEW T, Known(u, P, T)
  PROVE  S3Store!Accepted(u) = Run(0, Reach(P) + Len(T)) /\ Len(S3Store!Accepted(u)) = Reach(P) + Len(T)
<1>1. S3Store!Accepted(u) = S3Store!Joined(P) \o T
  BY DEF Known, S3Store!Accepted, PartsOf, LastTail
<1> QED BY <1>1, WholeIsPrefix DEF Known

\* A request q is an append at its place, or completes an upload.
LEMMA RequestKnown ==
  ASSUME BucketConstants, SInv, NEW r \in Requests, NEW q, q = request[r]
  PROVE  /\ q.phase = "none" <=> q = S3Store!Quiet
         /\ q.phase \in AppendPhases =>
              q \in AppendRequests /\ q.id \in DOMAIN multiparts
              /\ Appending(q, PartsOf(q.id), LastTail(q.id), session[q.id])
         /\ q.phase \in CompletePhases => q \in CompleteRequests
         /\ q.phase \in CompletePhases /\ q.phase # "put" =>
              q.id \in DOMAIN multiparts /\ Completing(q, PartsOf(q.id), LastTail(q.id), session[q.id])
<1>1. q \in {S3Store!Quiet} \cup AppendRequests \cup CompleteRequests
  BY DEF SInv, BucketTypes
<1>2. S3Store!Quiet.phase = "none"
  BY DEF S3Store!Quiet
<1>3. q \in AppendRequests => q.phase \in AppendPhases
  BY DEF AppendRequests
<1>4. q \in CompleteRequests => q.phase \in CompletePhases
  BY DEF CompleteRequests
<1>5. "none" \notin AppendPhases /\ "none" \notin CompletePhases /\ "put" \notin AppendPhases
      /\ AppendPhases \cap CompletePhases = {}
  BY DEF AppendPhases, CompletePhases
<1>6. AtPlace(q)
  BY DEF SInv
<1> QED BY <1>1, <1>2, <1>3, <1>4, <1>5, <1>6 DEF AtPlace

\* A step that leaves an upload alone.
SameFor(v) ==
  /\ v \in DOMAIN multiparts' <=> v \in DOMAIN multiparts
  /\ v \in DOMAIN multiparts => multiparts'[v] = multiparts[v]
  /\ session'[v].size = session[v].size /\ session'[v].offset = session[v].offset
  /\ \A n \in Nat : S3Store!TailOf(v, n)' = S3Store!TailOf(v, n)
  /\ \A t \in DOMAIN tails' : t[1] = v => t \in DOMAIN tails /\ tails'[t].day = tails[t].day

LEMMA LeftAlone ==
  ASSUME BucketConstants, SInv, NEW v \in DOMAIN multiparts, SameFor(v)
  PROVE  /\ PartsOf(v)' = PartsOf(v) /\ LastTail(v)' = LastTail(v)
         /\ S3Store!Accepted(v)' = S3Store!Accepted(v)
         /\ UploadStands(v)'
<1>1. Known(v, PartsOf(v), LastTail(v))
  BY UploadKnown
<1>2. PartsOf(v)' = PartsOf(v)
  BY DEF SameFor, PartsOf
<1>3. Len(PartsOf(v)) + 1 \in Nat
  BY <1>1 DEF Known
<1>4. S3Store!TailOf(v, Len(PartsOf(v)) + 1)' = S3Store!TailOf(v, Len(PartsOf(v)) + 1)
  BY <1>2, <1>3 DEF SameFor, S3Store!TailOf
<1>5. LastTail(v)' = LastTail(v)
  BY <1>4 DEF LastTail
<1>6. S3Store!Accepted(v)' = S3Store!Accepted(v)
  BY <1>2, <1>5 DEF S3Store!Accepted, PartsOf, LastTail
<1>7. Whole(PartsOf(v), LastTail(v), session[v].size, session[v].offset)'
  BY <1>1, <1>2, <1>5 DEF SameFor, Known
<1>8. \A t \in DOMAIN tails' : t[1] = v => t[2] <= Len(PartsOf(v)') + 1 /\ tails'[t].day >= multiparts'[v].day
  BY <1>1, <1>2 DEF SameFor, Known
<1> QED BY <1>2, <1>5, <1>6, <1>7, <1>8 DEF UploadStands

LEMMA StillServed ==
  ASSUME BucketConstants, SInv, NEW r \in Requests, request'[r] = request[r],
         request[r].phase \in {"none", "put"} \/ SameFor(request[r].id)
  PROVE  AtPlace(request[r])'
<1>1. CASE request[r].phase \in {"none", "put"}
  BY <1>1 DEF AtPlace
<1>2. CASE request[r].phase \notin {"none", "put"}
  <2>1. PICK q : q = request[r]
    OBVIOUS
  <2>2. PICK v : v = q.id
    OBVIOUS
  <2>3. AtPlace(q) /\ v \in DOMAIN multiparts /\ SameFor(v)
    BY <1>2, <2>1, <2>2 DEF SInv, AtPlace
  <2>4. PartsOf(v)' = PartsOf(v) /\ LastTail(v)' = LastTail(v)
    BY <2>3, LeftAlone
  <2>5. /\ v \in DOMAIN multiparts' /\ session'[v].size = session[v].size /\ session'[v].offset = session[v].offset
    BY <2>3 DEF SameFor
  <2>6. q.phase \in AppendPhases => Appending(q, PartsOf(v)', LastTail(v)', session'[v])
    BY <2>1, <1>2, <2>2, <2>3, <2>4, <2>5 DEF AtPlace, Appending
  <2>7. q.phase \in CompletePhases => Completing(q, PartsOf(v)', LastTail(v)', session'[v])
    BY <2>1, <1>2, <2>2, <2>3, <2>4, <2>5 DEF AtPlace, Completing
  <2>8. request'[r] = q /\ request'[r].id = v
    BY <2>1, <2>2
  <2> QED BY <2>5, <2>6, <2>7, <2>8 DEF AtPlace
<1> QED BY <1>1, <1>2

\* One request moves, and only its upload with it.
LEMMA OneMoves ==
  ASSUME BucketConstants, SInv, OneForEach, NEW r \in Requests, NEW q, q = request[r], q # S3Store!Quiet,
         \A s \in Requests : s # r => request'[s] = request[s],
         \A v \in Uploads3 : v # q.id => SameFor(v),
         BucketTypes', Begun', S3Store!PublishedIsTheFile', AtPlace(request[r])',
         NEW u, u = q.id, u \in DOMAIN multiparts' => UploadStands(u)'
  PROVE  SInv'
<1>1. ASSUME NEW s \in Requests PROVE AtPlace(request[s])'
  <2>1. CASE s = r
    BY <2>1
  <2>2. CASE s # r
    <3>1. request'[s] = request[s]
      BY <2>2
    <3>2. CASE request[s].phase \in {"none", "put"}
      BY <3>1, <3>2, StillServed
    <3>3. CASE request[s].phase \notin {"none", "put"}
      <4>1. request[s] # S3Store!Quiet
        BY <3>3 DEF S3Store!Quiet
      <4>2. request[s].id # q.id
        BY <2>2, <4>1 DEF OneForEach
      <4>3. request[s].id \in Uploads3
        BY <3>3 DEF SInv, AtPlace, BucketTypes
      <4> QED BY <3>1, <4>2, <4>3, StillServed
    <3> QED BY <3>2, <3>3
  <2> QED BY <2>1, <2>2
<1>2. ASSUME NEW v \in DOMAIN multiparts' PROVE UploadStands(v)'
  <2>1. CASE v = u
    BY <2>1
  <2>2. CASE v # u
    <3>1. v \in Uploads3
      BY DEF BucketTypes
    <3>2. SameFor(v) /\ v \in DOMAIN multiparts
      BY <2>2, <3>1 DEF SameFor
    <3> QED BY <3>2, LeftAlone
  <2> QED BY <2>1, <2>2
<1> QED BY <1>1, <1>2 DEF SInv

StagedUploads == [u \in DOMAIN multiparts |-> S3Store!Accepted(u)]

\* What the port is told of: bytes more of one upload, or none.
LEMMA BytesMore ==
  ASSUME BucketConstants, SInv, NEW u \in DOMAIN multiparts, \A v \in Uploads3 : v # u => SameFor(v),
         DOMAIN multiparts' = DOMAIN multiparts, UNCHANGED bucket,
         NEW a \in Nat, S3Store!Accepted(u) = Run(0, a), NEW b \in Nat, a <= b, S3Store!Accepted(u)' = Run(0, b)
  PROVE  S3Store!PortStep
<1>1. ASSUME NEW v \in DOMAIN multiparts, v # u PROVE S3Store!Accepted(v)' = S3Store!Accepted(v)
  BY <1>1, LeftAlone DEF SInv, BucketTypes
<1>2. CASE a = b
  <2>1. StagedUploads' = StagedUploads
    BY <1>1, <1>2 DEF StagedUploads
  <2> QED BY <2>1 DEF S3Store!PortStep, StagedUploads
<1>3. CASE a < b
  <2> DEFINE had == Len(StagedUploads[u])
             more == [n \in 1..(Len(StagedUploads'[u]) - had) |-> had + n]
  <2>1. StagedUploads[u] = Run(0, a) /\ StagedUploads'[u] = Run(0, b) /\ DOMAIN StagedUploads' = DOMAIN StagedUploads /\ DOMAIN StagedUploads = DOMAIN multiparts
    BY DEF StagedUploads
  <2>2. had = a /\ Len(StagedUploads'[u]) = b /\ b - a \in Nat /\ 0 \in Int /\ a = 0 + a
    BY <1>3, <2>1, RunProperties
  <2>3. more = Run(a, b - a)
    BY <2>2 DEF Run
  <2>12. 0 \in Int /\ a \in Nat /\ b - a \in Nat /\ a = 0 + a
    BY <1>3
  <2>4. Run(0, a) \o Run(a, b - a) = Run(0, a + (b - a))
    BY <2>12, RunsJoin, Zenon
  <2>5. a + (b - a) = b
    OBVIOUS
  <2> HIDE DEF more, had
  <2>6. StagedUploads'[u] = StagedUploads[u] \o more
    BY <2>1, <2>3, <2>4, <2>5
  <2>7. \A v \in DOMAIN StagedUploads : v # u => StagedUploads'[v] = StagedUploads[v]
    BY <1>1 DEF StagedUploads
  <2>8. StagedUploads' = [StagedUploads EXCEPT ![u] = @ \o more]
    <3>1. DOMAIN [StagedUploads EXCEPT ![u] = @ \o more] = DOMAIN StagedUploads
      BY DEF StagedUploads
    <3>2. \A v \in DOMAIN StagedUploads : [StagedUploads EXCEPT ![u] = @ \o more][v] = StagedUploads'[v]
      BY <2>1, <2>6, <2>7
    <3>3. StagedUploads' = [v \in DOMAIN StagedUploads |-> StagedUploads'[v]]
      BY <2>1 DEF StagedUploads
    <3> QED BY <3>1, <3>2, <3>3 DEF StagedUploads
  <2>9. Len(StagedUploads'[u]) > had
    BY <1>3, <2>2
  <2>10. S3Store!Port!AppendUpload(u)
    BY <2>1, <2>8, <2>9, Zenon DEF S3Store!Port!AppendUpload, StagedUploads, had, more
  <2>11. u \in DOMAIN StagedUploads
    BY <2>1
  <2> QED BY <2>10, <2>11 DEF S3Store!PortStep, S3Store!Port!Next, StagedUploads
<1> QED BY <1>2, <1>3

\* The port was asked to let uploads go, or found them old.
MayGo(us) == us \subseteq S3Store!Swept \/ \E u : us \subseteq {u} /\ S3Store!Port!TakesEffect(S3Store!Port!AbortOf(u))

\* Some uploads are gone, and nothing else.
LEMMA SomeGone ==
  ASSUME BucketConstants, SInv, NEW us \in SUBSET DOMAIN multiparts, DOMAIN multiparts' = DOMAIN multiparts \ us,
         \A v \in DOMAIN multiparts' : SameFor(v), UNCHANGED bucket, MayGo(us)
  PROVE  S3Store!PortStep
<1>1. ASSUME NEW v \in DOMAIN multiparts' PROVE S3Store!Accepted(v)' = S3Store!Accepted(v)
  BY LeftAlone
<1>2. StagedUploads' = [v \in DOMAIN StagedUploads \ us |-> StagedUploads[v]]
  BY <1>1 DEF StagedUploads
<1>3. S3Store!Port!Dropped(us)
  BY <1>2, Zenon DEF S3Store!Port!Dropped, StagedUploads
<1>4. us \in SUBSET DOMAIN StagedUploads
  BY DEF StagedUploads
<1>5. CASE us \subseteq S3Store!Swept
  <2>1. S3Store!Port!Open(us)
    BY <1>3, <1>5 DEF S3Store!Port!Open
  <2> QED BY <1>4, <2>1 DEF S3Store!PortStep, S3Store!Port!Next, StagedUploads
<1>6. CASE us = {}
  BY <1>6, <1>4, <1>5
<1>7. CASE us # {} /\ \E u : us \subseteq {u} /\ S3Store!Port!TakesEffect(S3Store!Port!AbortOf(u))
  <2>1. PICK u : us = {u} /\ S3Store!Port!TakesEffect(S3Store!Port!AbortOf(u))
    BY <1>7
  <2>2. S3Store!Port!AbortUpload(u) /\ u \in DOMAIN StagedUploads
    BY <1>3, <1>4, <2>1 DEF S3Store!Port!AbortUpload
  <2> QED BY <2>2 DEF S3Store!PortStep, S3Store!Port!Next, StagedUploads
<1> QED BY <1>5, <1>6, <1>7 DEF MayGo

\* A request of the bucket's has done what it was for.
LEMMA BucketAnswers ==
  ASSUME NEW r \in Requests, request[r].phase \in CompletePhases,
         request'[r].phase = "none" \/ (request'[r].phase = "put" /\ request[r].phase = "empty")
  PROVE  S3Store!Port!TakesEffect(S3Store!CallOf(request[r]))
<1> DEFINE c == <<{r}, S3Store!CallOf(request[r])>>
<1>1. c \in S3Store!Calls
  BY DEF S3Store!Calls, CompletePhases
<1>2. ASSUME NEW s \in Requests, request'[s].phase \in CompletePhases, c = <<{s}, S3Store!CallOf(request'[s])>> PROVE FALSE
  <2>1. s = r
    BY <1>2
  <2>2. request'[r].phase = "put" /\ request[r].phase = "empty"
    BY <1>2, <2>1 DEF CompletePhases
  <2>3. S3Store!CallOf(request'[r]).op = "put" /\ S3Store!CallOf(request[r]).op = "abort"
    BY <2>2 DEF S3Store!CallOf
  <2>4. S3Store!CallOf(request'[r]) = S3Store!CallOf(request[r])
    BY <1>2, <2>1
  <2> QED BY <2>3, <2>4
<1>3. c # <<{}, asked'>>
  OBVIOUS
<1>4. c \notin S3Store!Calls'
  BY <1>2, <1>3 DEF S3Store!Calls, CompletePhases
<1> QED BY <1>1, <1>4 DEF S3Store!Port!TakesEffect

\* So has what was asked beside it.
LEMMA AskAnswers ==
  ASSUME asked.op # "none", asked' = S3Store!None
  PROVE  S3Store!Port!TakesEffect(asked)
<1> DEFINE c == <<{}, asked>>
<1>1. c \in S3Store!Calls
  BY DEF S3Store!Calls
<1>2. asked # S3Store!None
  BY DEF S3Store!None
<1>3. c \notin S3Store!Calls'
  BY <1>2 DEF S3Store!Calls
<1> QED BY <1>1, <1>3 DEF S3Store!Port!TakesEffect

-----------------------------------------------------------------------------
(* The steps of an append.                                                 *)

LEMMA ReturnTypes ==
  ASSUME SInv, NEW r \in Requests, NEW n \in Nat, request[r].id \in Uploads3, S3Store!Return(r, n)
  PROVE  /\ session' \in [Uploads3 -> [size : Sizes \cup {-1}, offset : Nat, day : Nat]]
         /\ request' = [request EXCEPT ![r] = S3Store!Quiet]
         /\ request' \in [Requests -> {S3Store!Quiet} \cup AppendRequests \cup CompleteRequests]
         /\ request'[r] = S3Store!Quiet
         /\ \A s \in Requests : s # r => request'[s] = request[s]
         /\ \A v \in Uploads3 : session'[v].size = session[v].size
         /\ \A v \in Uploads3 : v # request[r].id => session'[v] = session[v]
         /\ session'[request[r].id].offset = n
         /\ AtPlace(request[r])'
<1>1. /\ session \in [Uploads3 -> [size : Sizes \cup {-1}, offset : Nat, day : Nat]]
      /\ request \in [Requests -> {S3Store!Quiet} \cup AppendRequests \cup CompleteRequests]
      /\ session' = [session EXCEPT ![request[r].id].offset = n]
      /\ request' = [request EXCEPT ![r] = S3Store!Quiet]
  BY DEF SInv, BucketTypes, S3Store!Return, S3Store!Goto
<1>2. request'[r] = S3Store!Quiet
  BY <1>1
<1>3. AtPlace(request[r])'
  BY <1>2 DEF AtPlace, S3Store!Quiet
<1> QED BY <1>1, <1>2, <1>3

LEMMA GotoTypes ==
  ASSUME SInv, NEW r \in Requests, NEW to, to \in {S3Store!Quiet} \cup AppendRequests \cup CompleteRequests, S3Store!Goto(r, to)
  PROVE  /\ request' \in [Requests -> {S3Store!Quiet} \cup AppendRequests \cup CompleteRequests]
         /\ request'[r] = to
         /\ \A s \in Requests : s # r => request'[s] = request[s]
BY DEF SInv, BucketTypes, S3Store!Goto

\* What is stored of other uploads than u stays; u is still there.
StoredStep(u) ==
  /\ UNCHANGED <<bucket, today>>
  /\ multiparts' \in [DOMAIN multiparts -> [parts : Seq(Seq(Int)), day : Nat]]
  /\ multiparts'[u].day = multiparts[u].day
  /\ DOMAIN tails' \subseteq Uploads3 \X Nat
  /\ \A t \in DOMAIN tails' : tails'[t] \in [bytes : Seq(Int), day : Nat] /\ (t \in DOMAIN tails \/ t[1] = u)
  /\ \A v \in Uploads3 : v # u =>
       /\ v \in DOMAIN multiparts => multiparts'[v] = multiparts[v]
       /\ \A n \in Nat : S3Store!TailOf(v, n)' = S3Store!TailOf(v, n)
       /\ \A t \in DOMAIN tails' : t[1] = v => tails'[t].day = tails[t].day

\* What of its parts and tail stands for upload u after a step.
StandsAs(u, P, T) ==
  /\ PartsOf(u)' = P /\ LastTail(u)' = T
  /\ \A t \in DOMAIN tails' : t[1] = u => t[2] <= Len(P) + 1 /\ tails'[t].day >= multiparts'[u].day

LEMMA StoredRest ==
  ASSUME BucketConstants, SInv, NEW u \in DOMAIN multiparts, StoredStep(u),
         session' \in [Uploads3 -> [size : Sizes \cup {-1}, offset : Nat, day : Nat]],
         request' \in [Requests -> {S3Store!Quiet} \cup AppendRequests \cup CompleteRequests],
         \A v \in Uploads3 : session'[v].size = session[v].size
  PROVE  BucketTypes' /\ Begun' /\ S3Store!PublishedIsTheFile'
<1>1. BucketTypes
  BY DEF SInv
<1>2. DOMAIN multiparts' = DOMAIN multiparts
  BY DEF StoredStep
<1>3. BucketTypes'
  BY <1>1, <1>2 DEF StoredStep, BucketTypes
<1>4. ASSUME NEW t \in DOMAIN tails' PROVE session'[t[1]].size \in Sizes
  <2>1. t[1] \in Uploads3
    BY DEF StoredStep
  <2>2. session[t[1]].size \in Sizes
    BY DEF StoredStep, SInv, Begun
  <2> QED BY <2>1, <2>2
<1>5. ASSUME NEW v \in DOMAIN multiparts' PROVE session'[v].size \in Sizes /\ multiparts'[v].day <= today'
  <2>1. v \in Uploads3 /\ v \in DOMAIN multiparts
    BY <1>1 DEF StoredStep, BucketTypes
  <2>2. multiparts'[v].day = multiparts[v].day /\ today' = today
    BY <2>1 DEF StoredStep
  <2> QED BY <2>1, <2>2 DEF SInv, Begun
<1>6. S3Store!PublishedIsTheFile'
  BY DEF SInv, StoredStep, S3Store!PublishedIsTheFile
<1> QED BY <1>3, <1>4, <1>5, <1>6 DEF Begun

LEMMA OthersSame ==
  ASSUME BucketConstants, SInv, NEW u \in DOMAIN multiparts, StoredStep(u), NEW v \in Uploads3, v # u,
         session'[v].size = session[v].size, session'[v].offset = session[v].offset
  PROVE  SameFor(v)
<1>1. \A t \in DOMAIN tails' : t[1] = v => t \in DOMAIN tails
  BY DEF StoredStep
<1> QED BY <1>1 DEF StoredStep, SameFor

\* A handler that returns has told its caller of what stands.
LEMMA Returns ==
  ASSUME BucketConstants, SInv, OneForEach, NEW r \in Requests, NEW q, q = request[r], q # S3Store!Quiet,
         NEW u, u = q.id, u \in DOMAIN multiparts, NEW n \in Nat, S3Store!Return(r, n), StoredStep(u),
         NEW P, NEW T, StandsAs(u, P, T), Whole(P, T, session[u].size, n)
  PROVE  SInv'
<1>0. u \in Uploads3
  BY DEF SInv, BucketTypes
<1>1. /\ session' \in [Uploads3 -> [size : Sizes \cup {-1}, offset : Nat, day : Nat]]
      /\ request' \in [Requests -> {S3Store!Quiet} \cup AppendRequests \cup CompleteRequests]
      /\ \A s \in Requests : s # r => request'[s] = request[s]
      /\ \A v \in Uploads3 : session'[v].size = session[v].size
      /\ \A v \in Uploads3 : v # request[r].id => session'[v] = session[v]
      /\ session'[request[r].id].offset = n
      /\ AtPlace(request[r])'
  BY <1>0, ReturnTypes
<1>2. BucketTypes' /\ Begun' /\ S3Store!PublishedIsTheFile'
  BY <1>1, StoredRest
<1>3. \A v \in Uploads3 : v # u => SameFor(v)
  BY <1>1, OthersSame
<1>4. session'[u].size = session[u].size /\ session'[u].offset = n
  BY <1>0, <1>1
<1>5. UploadStands(u)'
  BY <1>4 DEF StandsAs, UploadStands
<1> QED BY <1>1, <1>2, <1>3, <1>5, OneMoves

\* A handler that goes on goes on as what stands lets it.
LEMMA Goes ==
  ASSUME BucketConstants, SInv, OneForEach, NEW r \in Requests, NEW q, q = request[r], q # S3Store!Quiet,
         NEW u, u = q.id, u \in DOMAIN multiparts, UNCHANGED session, StoredStep(u),
         NEW to, to \in {S3Store!Quiet} \cup AppendRequests \cup CompleteRequests, S3Store!Goto(r, to),
         NEW P, NEW T, StandsAs(u, P, T), Whole(P, T, session[u].size, session[u].offset),
         \/ to = S3Store!Quiet
         \/ /\ to.id = u
            /\ to.phase \in AppendPhases => Appending(to, P, T, session[u])
            /\ to.phase \in CompletePhases => Completing(to, P, T, session[u])
  PROVE  SInv'
<1>1. /\ request' \in [Requests -> {S3Store!Quiet} \cup AppendRequests \cup CompleteRequests] /\ request'[r] = to
      /\ \A s \in Requests : s # r => request'[s] = request[s]
  BY GotoTypes
<1>2. session' \in [Uploads3 -> [size : Sizes \cup {-1}, offset : Nat, day : Nat]]
  BY DEF SInv, BucketTypes
<1>3. BucketTypes' /\ Begun' /\ S3Store!PublishedIsTheFile'
  BY <1>1, <1>2, StoredRest
<1>4. \A v \in Uploads3 : v # u => SameFor(v)
  BY OthersSame
<1>5. UploadStands(u)'
  BY DEF StandsAs, UploadStands
<1>6. u \in DOMAIN multiparts'
  BY DEF StoredStep
<1>7. AtPlace(request[r])'
  <2>1. CASE to = S3Store!Quiet
    BY <1>1, <2>1 DEF AtPlace, S3Store!Quiet
  <2>2. CASE to # S3Store!Quiet
    BY <1>1, <1>6, <2>2 DEF AtPlace, StandsAs
  <2> QED BY <2>1, <2>2
<1> QED BY <1>1, <1>3, <1>4, <1>5, <1>7, OneMoves

LEMMA NothingStored ==
  ASSUME BucketConstants, SInv, NEW u, NEW P, NEW T, Known(u, P, T), UNCHANGED <<bucket, multiparts, tails, today>>
  PROVE  StoredStep(u) /\ StandsAs(u, P, T) /\ S3Store!PortStep
<1>1. PartsOf(u)' = P /\ LastTail(u)' = T
  BY DEF Known, PartsOf, LastTail, S3Store!TailOf
<1>2. StandsAs(u, P, T)
  BY <1>1 DEF StandsAs, Known
<1>3. \A v, n : S3Store!TailOf(v, n)' = S3Store!TailOf(v, n)
  BY DEF S3Store!TailOf
<1>4. StoredStep(u)
  BY <1>3 DEF StoredStep, SInv, BucketTypes, Known
<1>5. S3Store!PortStep
  BY DEF S3Store!PortStep, S3Store!Accepted, S3Store!TailOf
<1> QED BY <1>2, <1>4, <1>5

\* The upload's part lands, or what it holds as its tail.
LEMMA PartStored ==
  ASSUME BucketConstants, SInv, NEW u, NEW P, NEW T, Known(u, P, T), UNCHANGED <<bucket, tails, today>>,
         \A v \in Uploads3 : v # u => session'[v].size = session[v].size /\ session'[v].offset = session[v].offset,
         NEW n, n = Len(P) + 1, NEW x \in Seq(Int), S3Store!PutObjectPart(u, n, x),
         x = Run(Reach(P), Len(x)), Len(x) > 0, Len(x) >= Len(T), Reach(P) + Len(x) <= session[u].size,
         Len(x) >= MinPart \/ Reach(P) + Len(x) = session[u].size
  PROVE  /\ StoredStep(u) /\ StandsAs(u, Append(P, x), <<>>)
         /\ Whole(Append(P, x), <<>>, session[u].size, session[u].offset)
         /\ Reach(Append(P, x)) = Reach(P) + Len(x) /\ Len(Append(P, x)) = n
         /\ S3Store!PortStep
<1> DEFINE Q == Append(P, x)
<1>1. Q \in Seq(Seq(Int)) /\ Len(Q) = n /\ n \in Nat
  BY OnePartMore DEF Known
<1>2. Whole(Q, <<>>, session[u].size, session[u].offset) /\ Reach(Q) = Reach(P) + Len(x)
  BY PartMore DEF Known
<1>3. multiparts \in [DOMAIN multiparts -> [parts : Seq(Seq(Int)), day : Nat]]
      /\ multiparts' = [multiparts EXCEPT ![u].parts = Q]
  <2>1. S3Store!PartsWith(multiparts[u].parts, n, x) = Q
    BY PutAfterTheLast DEF Known, PartsOf
  <2>2. multiparts' = [multiparts EXCEPT ![u].parts = S3Store!PartsWith(multiparts[u].parts, n, x)]
    BY DEF S3Store!PutObjectPart
  <2> QED BY <2>1, <2>2 DEF SInv, BucketTypes
<1> HIDE DEF Q
<1>4. /\ DOMAIN multiparts' = DOMAIN multiparts /\ multiparts'[u].parts = Q /\ multiparts'[u].day = multiparts[u].day
      /\ multiparts' \in [DOMAIN multiparts -> [parts : Seq(Seq(Int)), day : Nat]]
      /\ \A v \in DOMAIN multiparts : v # u => multiparts'[v] = multiparts[v]
  BY <1>1, <1>3 DEF Known
<1>5. \A v, m : S3Store!TailOf(v, m)' = S3Store!TailOf(v, m)
  BY DEF S3Store!TailOf
<1>6. StoredStep(u)
  BY <1>4, <1>5 DEF StoredStep, SInv, BucketTypes
<1>7. \A t \in DOMAIN tails : t[1] = u => t[2] <= n /\ tails[t].day >= multiparts[u].day
  BY DEF Known
<1>8. LastTail(u)' = <<>>
  <2> DEFINE at == <<u, n + 1>>
  <2>3. at[1] = u /\ at[2] = n + 1 /\ ~(n + 1 <= n)
    BY <1>1
  <2> HIDE DEF at
  <2>4. at \notin DOMAIN tails
    BY <1>7, <2>3
  <2>1. <<u, n + 1>> \notin DOMAIN tails
    BY <2>4 DEF at
  <2>2. PartsOf(u)' = Q
    BY <1>4 DEF PartsOf
  <2> QED BY <1>1, <2>1, <2>2 DEF LastTail, S3Store!TailOf
<1>9. StandsAs(u, Q, <<>>)
  <2>1. \A t \in DOMAIN tails : t[1] = u => t[2] <= n + 1
    <3>1. \A t \in DOMAIN tails : t[2] \in Nat
      BY DEF SInv, BucketTypes
    <3> QED BY <1>1, <1>7, <3>1
  <2> QED BY <1>1, <1>4, <1>7, <1>8, <2>1 DEF StandsAs, PartsOf
<1>10. S3Store!PortStep
  <2>1. S3Store!Accepted(u) = Run(0, Reach(P) + Len(T))
    BY AcceptedIs
  <2>2. S3Store!Accepted(u)' = S3Store!Joined(Q) \o <<>>
    BY <1>9 DEF S3Store!Accepted, StandsAs, PartsOf, LastTail
  <2>3. Len(<<>>) = 0 /\ <<>> \in Seq(Int)
    BY EmptySeq
  <2>4. S3Store!Joined(Q) \o <<>> = Run(0, Reach(Q) + 0)
    BY <1>1, <1>2, <2>3, WholeIsPrefix
  <2>5. Reach(P) \in Nat /\ Len(T) \in Nat /\ Len(x) \in Nat
    BY LenProperties DEF Known
  <2>6. Reach(Q) + 0 = Reach(P) + Len(x)
    BY <1>2, <2>5
  <2>7. \A v \in Uploads3 : v # u => SameFor(v)
    BY <1>6, OthersSame DEF Known
  <2>8. u \in DOMAIN multiparts /\ UNCHANGED bucket /\ DOMAIN multiparts' = DOMAIN multiparts
    BY <1>4 DEF Known
  <2> DEFINE a == Reach(P) + Len(T)
             b == Reach(P) + Len(x)
  <2>9. a \in Nat /\ b \in Nat /\ a <= b
    BY <2>5
  <2>10. S3Store!Accepted(u) = Run(0, a) /\ S3Store!Accepted(u)' = Run(0, b)
    BY <2>1, <2>2, <2>4, <2>6
  <2> HIDE DEF a, b
  <2> QED BY <2>7, <2>8, <2>9, <2>10, BytesMore
<1> QED BY <1>1, <1>2, <1>6, <1>9, <1>10 DEF Q

LEMMA TailStored ==
  ASSUME BucketConstants, SInv, NEW u, NEW P, NEW T, Known(u, P, T), UNCHANGED <<bucket, multiparts, today>>,
         \A v \in Uploads3 : v # u => session'[v].size = session[v].size /\ session'[v].offset = session[v].offset,
         NEW n, n = Len(P) + 1, NEW x \in Seq(Int), tails' = S3Store!With(tails, <<u, n>>, [bytes |-> x, day |-> today]),
         x = Run(Reach(P), Len(x)), Len(x) < MinPart, Len(x) >= Len(T), Reach(P) + Len(x) <= session[u].size
  PROVE  /\ StoredStep(u) /\ StandsAs(u, P, x)
         /\ Whole(P, x, session[u].size, session[u].offset)
         /\ S3Store!PortStep
<1>1. Whole(P, x, session[u].size, session[u].offset)
  BY TailMore DEF Known, BucketConstants
<1>2. n \in Nat /\ u \in Uploads3 /\ u \in DOMAIN multiparts /\ PartsOf(u)' = P /\ PartsOf(u) = P
  BY DEF Known, PartsOf
<1> DEFINE at == <<u, n>>
<1>3. /\ DOMAIN tails' = DOMAIN tails \cup {at} /\ tails'[at] = [bytes |-> x, day |-> today]
      /\ \A t \in DOMAIN tails : t # at => tails'[t] = tails[t]
  BY DEF S3Store!With
<1>4. at \in Uploads3 \X Nat /\ at[1] = u /\ at[2] = n
  BY <1>2
<1>5. \A v, m : v # u => <<v, m>> # at
  OBVIOUS
<1> HIDE DEF at
<1>6. \A v, m : v # u => S3Store!TailOf(v, m)' = S3Store!TailOf(v, m)
  BY <1>3, <1>5 DEF S3Store!TailOf
<1>7. LastTail(u)' = x
  BY <1>2, <1>3 DEF LastTail, S3Store!TailOf, at
<1>8. today \in Nat /\ today >= multiparts[u].day
  BY <1>2 DEF SInv, BucketTypes, Begun
<1>9. StandsAs(u, P, x)
  <2>1. ASSUME NEW t \in DOMAIN tails', t[1] = u PROVE t[2] <= Len(P) + 1 /\ tails'[t].day >= multiparts[u].day
    <3>1. CASE t = at
      BY <1>2, <1>3, <1>4, <1>8, <3>1
    <3>2. CASE t # at
      BY <1>3, <2>1, <3>2 DEF Known
    <3> QED BY <3>1, <3>2
  <2> QED BY <1>2, <1>7, <2>1 DEF StandsAs
<1>10. StoredStep(u)
  <2>1. ASSUME NEW t \in DOMAIN tails'
        PROVE  /\ tails'[t] \in [bytes : Seq(Int), day : Nat] /\ (t \in DOMAIN tails \/ t[1] = u)
               /\ t[1] # u => tails'[t].day = tails[t].day
    <3>1. CASE t = at
      BY <1>3, <1>4, <1>8, <3>1
    <3>2. CASE t # at
      BY <1>3, <3>2 DEF SInv, BucketTypes
    <3> QED BY <3>1, <3>2
  <2>2. DOMAIN tails' \subseteq Uploads3 \X Nat
    BY <1>3, <1>4 DEF SInv, BucketTypes
  <2>3. multiparts \in [DOMAIN multiparts -> [parts : Seq(Seq(Int)), day : Nat]]
    BY DEF SInv, BucketTypes
  <2> QED BY <1>6, <2>1, <2>2, <2>3 DEF StoredStep
<1>11. S3Store!PortStep
  <2>1. S3Store!Accepted(u) = Run(0, Reach(P) + Len(T))
    BY AcceptedIs
  <2>2. S3Store!Accepted(u)' = S3Store!Joined(P) \o x
    BY <1>9 DEF S3Store!Accepted, StandsAs, PartsOf, LastTail
  <2>3. S3Store!Joined(P) \o x = Run(0, Reach(P) + Len(x))
    BY <1>1, WholeIsPrefix DEF Known
  <2>5. Reach(P) \in Nat /\ Len(T) \in Nat /\ Len(x) \in Nat
    BY LenProperties DEF Known
  <2>7. \A v \in Uploads3 : v # u => SameFor(v)
    BY <1>2, <1>10, OthersSame
  <2> DEFINE a == Reach(P) + Len(T)
             b == Reach(P) + Len(x)
  <2>9. a \in Nat /\ b \in Nat /\ a <= b
    BY <2>5
  <2>10. S3Store!Accepted(u) = Run(0, a) /\ S3Store!Accepted(u)' = Run(0, b)
    BY <2>1, <2>2, <2>3
  <2> HIDE DEF a, b
  <2> QED BY <1>2, <2>7, <2>9, <2>10, BytesMore
<1> QED BY <1>1, <1>9, <1>10, <1>11

\* The tail of a part that landed goes, or stays where nothing reads it.
LEMMA TailDropped ==
  ASSUME BucketConstants, SInv, NEW u, NEW P, NEW T, Known(u, P, T), UNCHANGED <<bucket, multiparts, today>>,
         NEW n, n = Len(P), S3Store!DropTail(u, n)
  PROVE  StoredStep(u) /\ StandsAs(u, P, T) /\ S3Store!PortStep
<1>1. CASE UNCHANGED tails
  BY <1>1, NothingStored
<1>2. CASE tails' = S3Store!Without(tails, {<<u, n>>})
  <2> DEFINE at == <<u, n>>
  <2>1. n \in Nat /\ u \in Uploads3 /\ u \in DOMAIN multiparts /\ PartsOf(u)' = P /\ PartsOf(u) = P
    BY DEF Known, PartsOf
  <2>2. DOMAIN tails' = DOMAIN tails \ {at} /\ \A t \in DOMAIN tails' : tails'[t] = tails[t]
    BY <1>2 DEF S3Store!Without
  <2>3. \A v, m : v # u \/ m # n => <<v, m>> # at
    OBVIOUS
  <2> HIDE DEF at
  <2>4. \A v, m : v # u \/ m # n => S3Store!TailOf(v, m)' = S3Store!TailOf(v, m)
    BY <2>2, <2>3 DEF S3Store!TailOf
  <2>5. n + 1 # n
    BY <2>1
  <2>6. LastTail(u)' = LastTail(u)
    BY <2>1, <2>4, <2>5 DEF LastTail
  <2>7. StandsAs(u, P, T)
    BY <2>1, <2>2, <2>6 DEF StandsAs, Known
  <2>8. StoredStep(u)
    BY <2>2, <2>4 DEF StoredStep, SInv, BucketTypes
  <2>9. S3Store!Accepted(u)' = S3Store!Accepted(u)
    BY <2>1, <2>6 DEF S3Store!Accepted, LastTail, PartsOf
  <2>10. ASSUME NEW v \in DOMAIN multiparts, v # u PROVE S3Store!Accepted(v)' = S3Store!Accepted(v)
    <3>1. S3Store!TailOf(v, Len(multiparts[v].parts) + 1)' = S3Store!TailOf(v, Len(multiparts[v].parts) + 1)
      BY <2>4, <2>10 DEF S3Store!TailOf
    <3> QED BY <3>1 DEF S3Store!Accepted
  <2>11. S3Store!PortStep
    BY <2>9, <2>10 DEF S3Store!PortStep
  <2> QED BY <2>7, <2>8, <2>11
<1> QED BY <1>1, <1>2 DEF S3Store!DropTail

\* An append is at its place.
LEMMA AppendKnown ==
  ASSUME BucketConstants, SInv, NEW r \in Requests, request[r].phase \in AppendPhases
  PROVE  \E q, u, P, T :
           /\ q = request[r] /\ q \in AppendRequests /\ q # S3Store!Quiet /\ u = q.id /\ u \in DOMAIN multiparts
           /\ Known(u, P, T) /\ Appending(q, P, T, session[u])
<1>1. PICK q : q = request[r]
  OBVIOUS
<1>2. PICK u, P, T : u = q.id /\ P = PartsOf(u) /\ T = LastTail(u)
  OBVIOUS
<1>3. q \in AppendRequests /\ u \in DOMAIN multiparts /\ Appending(q, P, T, session[u]) /\ q # S3Store!Quiet
  BY <1>1, <1>2, RequestKnown DEF AppendPhases
<1>4. Known(u, P, T)
  BY <1>2, <1>3, UploadKnown
<1> QED BY <1>1, <1>2, <1>3, <1>4

\* The tail is read.
LEMMA ReadTailStep ==
  ASSUME BucketConstants, SInv, OneForEach, NEW r \in Requests, S3Store!ReadTail(r)
  PROVE  SInv' /\ S3Store!PortStep
<1>1. request[r].phase = "tail" /\ UNCHANGED <<bucket, multiparts, tails, today, lost>>
  BY DEF S3Store!ReadTail
<1>2. PICK q, u, P, T :
           /\ q = request[r] /\ q \in AppendRequests /\ q # S3Store!Quiet /\ u = q.id /\ u \in DOMAIN multiparts
           /\ Known(u, P, T) /\ Appending(q, P, T, session[u])
  BY <1>1, AppendKnown DEF AppendPhases
<1>3. q.next = Len(P) + 1 /\ q.uploaded = Reach(P) /\ q.offset <= q.ends /\ q.ends <= session[u].size
  BY <1>1, <1>2 DEF Appending
<1>4. S3Store!TailOf(q.id, q.next) = T
  BY <1>2, <1>3 DEF LastTail, Known
<1>5. T = Run(Reach(P), Len(T)) /\ Reach(P) \in Nat /\ Len(T) \in Nat /\ T \in Seq(Int)
      /\ Reach(P) + Len(T) \in Nat /\ Whole(P, T, session[u].size, session[u].offset)
  BY <1>2 DEF Known, Whole
<1>6. StoredStep(u) /\ StandsAs(u, P, T) /\ S3Store!PortStep
  BY <1>1, <1>2, NothingStored
<1>7. CASE q.uploaded + Len(T) = q.offset
  <2> DEFINE to == [q EXCEPT !.phase = "fill", !.held = T, !.kept = Len(T)]
  <2>1. S3Store!Goto(r, to) /\ UNCHANGED session
    BY <1>2, <1>4, <1>7 DEF S3Store!ReadTail
  <2>2. to \in AppendRequests /\ to.phase = "fill" /\ to.held = T /\ to.kept = Len(T) /\ to.id = u /\ to.next = q.next
        /\ to.uploaded = q.uploaded /\ to.offset = q.offset /\ to.ends = q.ends
    BY <1>2, <1>5 DEF AppendRequests, AppendPhases
  <2> HIDE DEF to
  <2>3. Appending(to, P, T, session[u])
    BY <1>3, <1>5, <1>7, <2>2 DEF Appending
  <2>4. to.phase \notin CompletePhases
    BY <2>2 DEF CompletePhases
  <2> QED BY <1>2, <1>5, <1>6, <2>1, <2>2, <2>3, <2>4, Goes
<1>8. CASE q.uploaded + Len(T) # q.offset
  <2>1. S3Store!Return(r, Reach(P) + Len(T))
    BY <1>2, <1>3, <1>4, <1>8 DEF S3Store!ReadTail
  <2>2. Whole(P, T, session[u].size, Reach(P) + Len(T))
    BY <1>5, ToldMore
  <2> QED BY <1>2, <1>5, <1>6, <2>1, <2>2, Returns
<1> QED BY <1>7, <1>8

\* The buffer takes what of the body fits.
LEMMA FillStep ==
  ASSUME BucketConstants, SInv, OneForEach, NEW r \in Requests, S3Store!Fill(r)
  PROVE  SInv' /\ S3Store!PortStep
<1>1. request[r].phase = "fill" /\ UNCHANGED <<bucket, multiparts, tails, session, today, lost>>
  BY DEF S3Store!Fill
<1>2. PICK q, u, P, T :
           /\ q = request[r] /\ q \in AppendRequests /\ q # S3Store!Quiet /\ u = q.id /\ u \in DOMAIN multiparts
           /\ Known(u, P, T) /\ Appending(q, P, T, session[u])
  BY <1>1, AppendKnown DEF AppendPhases
<1>3. /\ q.next = Len(P) + 1 /\ q.uploaded = Reach(P) /\ q.offset <= q.ends /\ q.ends <= session[u].size
      /\ q.held = Run(q.uploaded, Len(q.held)) /\ q.uploaded + Len(q.held) <= q.ends
      /\ q.kept = Len(T) /\ Len(q.held) = q.kept
  BY <1>1, <1>2 DEF Appending
<1>5. /\ Reach(P) \in Nat /\ Len(T) \in Nat /\ q.held \in Seq(Int) /\ Len(q.held) \in Nat /\ q.ends \in Nat
      /\ q.uploaded \in Nat /\ Whole(P, T, session[u].size, session[u].offset) /\ PartSize \in Nat
      /\ Len(T) < MinPart /\ MinPart <= PartSize /\ MinPart \in Nat
  BY <1>2, LenProperties DEF Known, AppendRequests, BucketConstants, Whole
<1>6. StoredStep(u) /\ StandsAs(u, P, T) /\ S3Store!PortStep
  BY <1>1, <1>2, NothingStored
<1>4. PICK up, l, e : up = q.uploaded /\ l = Len(q.held) /\ e = q.ends
  OBVIOUS
<1> DEFINE at == up + l
           n == IF e - at < PartSize - l THEN e - at ELSE PartSize - l
           more == [i \in 1..n |-> at + i]
           x == q.held \o more
           to == [q EXCEPT !.held = x, !.phase = IF l + n = PartSize THEN "part" ELSE "flush"]
<1>7. S3Store!Goto(r, to)
  BY <1>2, <1>4 DEF S3Store!Fill
<1>17. up \in Nat /\ l \in Nat /\ e \in Nat /\ up + l <= e /\ l <= PartSize
  BY <1>3, <1>4, <1>5
<1>8. at \in Nat /\ n \in Nat /\ at + n <= e /\ l + n <= PartSize /\ at = up + l /\ up \in Int /\ l \in Nat
  BY <1>5, <1>17
<1> HIDE DEF at, n
<1>9. more = Run(at, n)
  BY DEF Run
<1>10. Run(up, l) \o Run(at, n) = Run(up, l + n)
  <2> HIDE DEF more, x, to
  <2> QED BY <1>8, RunsJoin, Zenon
<1>11. x = Run(up, l + n)
  BY <1>3, <1>4, <1>9, <1>10
<1>12. l + n \in Nat /\ up \in Int
  BY <1>8
<1> HIDE DEF x, more
<1>13. x \in Seq(Int) /\ Len(x) = l + n
  BY <1>11, <1>12, RunProperties
<1>14. to \in AppendRequests /\ to.phase \in {"part", "flush"} /\ to.held = x /\ to.kept = q.kept /\ to.id = u /\ to.next = q.next
        /\ to.uploaded = q.uploaded /\ to.offset = q.offset /\ to.ends = q.ends
        /\ (to.phase = "part" => l + n = PartSize)
  BY <1>2, <1>13 DEF AppendRequests, AppendPhases
<1> HIDE DEF to
<1>15. Appending(to, P, T, session[u])
  <2>1. x = Run(up, Len(x))
    BY <1>11, <1>13
  <2>2. up + (l + n) <= e /\ l <= l + n
    BY <1>8, <1>17
  <2>3. up + Len(x) <= e /\ l <= Len(x)
    BY <1>13, <2>2
  <2> QED BY <1>3, <1>4, <1>13, <1>14, <2>1, <2>3 DEF Appending
<1>16. to.phase \notin CompletePhases
  BY <1>14 DEF CompletePhases
<1> QED BY <1>1, <1>2, <1>5, <1>6, <1>7, <1>14, <1>15, <1>16, Goes

LEMMA ReturnLeaves ==
  ASSUME SInv, NEW r \in Requests, NEW q, q = request[r], NEW n, S3Store!Return(r, n), NEW v \in Uploads3, v # q.id
  PROVE  session'[v].size = session[v].size /\ session'[v].offset = session[v].offset
BY DEF S3Store!Return, SInv, BucketTypes

\* A part is put.
LEMMA PutPartStep ==
  ASSUME BucketConstants, SInv, OneForEach, NEW r \in Requests, S3Store!PutPart(r)
  PROVE  SInv' /\ S3Store!PortStep
<1>1. /\ request[r].phase \in {"part", "flush"} /\ UNCHANGED <<bucket, tails, today>>
      /\ request[r].phase = "flush" => Len(request[r].held) >= MinPart
  BY DEF S3Store!PutPart
<1>2. PICK q, u, P, T :
           /\ q = request[r] /\ q \in AppendRequests /\ q # S3Store!Quiet /\ u = q.id /\ u \in DOMAIN multiparts
           /\ Known(u, P, T) /\ Appending(q, P, T, session[u])
  BY <1>1, AppendKnown DEF AppendPhases
<1>3. /\ q.next = Len(P) + 1 /\ q.uploaded = Reach(P) /\ q.offset <= q.ends /\ q.ends <= session[u].size
      /\ q.held = Run(q.uploaded, Len(q.held)) /\ q.uploaded + Len(q.held) <= q.ends
      /\ q.kept = Len(T) /\ q.kept <= Len(q.held) /\ (q.phase = "part" => Len(q.held) = PartSize)
  BY <1>1, <1>2 DEF Appending
<1>4. PICK up, l, e, x : up = q.uploaded /\ l = Len(q.held) /\ e = q.ends /\ x = q.held
  OBVIOUS
<1>5. /\ Reach(P) \in Nat /\ Len(T) \in Nat /\ x \in Seq(Int) /\ l \in Nat /\ e \in Nat /\ session[u].size \in Nat
      /\ Whole(P, T, session[u].size, session[u].offset) /\ PartSize \in Nat /\ MinPart \in Nat /\ 0 < MinPart
      /\ MinPart <= PartSize
  BY <1>2, <1>4, LenProperties DEF Known, AppendRequests, BucketConstants, Whole
<1>6. /\ x = Run(Reach(P), Len(x)) /\ Len(x) >= MinPart /\ Len(x) > 0 /\ Len(x) >= Len(T) /\ Reach(P) + Len(x) <= e
      /\ e <= session[u].size /\ Reach(P) + Len(x) <= session[u].size
  <2>1. x = Run(Reach(P), Len(x)) /\ Len(x) = l /\ Reach(P) + l <= e /\ e <= session[u].size /\ Len(T) <= l
    BY <1>3, <1>4
  <2>2. l >= MinPart
    BY <1>1, <1>2, <1>3, <1>4, <1>5
  <2> QED BY <1>5, <2>1, <2>2
<1> DEFINE Q == Append(P, x)
           to == [q EXCEPT !.phase = IF q.phase = "part" THEN "drop" ELSE "dropped"]
           n == Reach(P) + Len(T)
<1>7. ASSUME S3Store!PutObjectPart(u, q.next, x),
             \A v \in Uploads3 : v # u => session'[v].size = session[v].size /\ session'[v].offset = session[v].offset
      PROVE  /\ StoredStep(u) /\ StandsAs(u, Q, <<>>)
             /\ Whole(Q, <<>>, session[u].size, session[u].offset)
             /\ Reach(Q) = Reach(P) + Len(x) /\ Len(Q) = q.next
             /\ S3Store!PortStep
  BY <1>1, <1>2, <1>3, <1>5, <1>6, <1>7, PartStored
<1>8. n \in Nat /\ n <= Reach(P) + Len(x) /\ Len(<<>>) = 0
  BY <1>5, <1>6
<1>9. \/ S3Store!PutObjectPart(u, q.next, x) /\ S3Store!Goto(r, to) /\ UNCHANGED session
      \/ (S3Store!PutObjectPart(u, q.next, x) \/ UNCHANGED multiparts) /\ S3Store!Return(r, n)
  BY <1>2, <1>3, <1>4 DEF S3Store!PutPart
<1>10. \A v \in Uploads3 : v # u => session'[v].size = session[v].size /\ session'[v].offset = session[v].offset
  BY <1>2, <1>9, ReturnLeaves
<1> HIDE DEF Q, to, n
<1>11. CASE S3Store!PutObjectPart(u, q.next, x) /\ S3Store!Goto(r, to) /\ UNCHANGED session
  <2>1. /\ StoredStep(u) /\ StandsAs(u, Q, <<>>) /\ Whole(Q, <<>>, session[u].size, session[u].offset)
        /\ Reach(Q) = Reach(P) + Len(x) /\ Len(Q) = q.next /\ S3Store!PortStep
    BY <1>7, <1>10, <1>11
  <2>2. /\ to \in AppendRequests /\ to.phase \in {"drop", "dropped"} /\ to.held = x /\ to.id = u /\ to.next = q.next
        /\ to.uploaded = q.uploaded /\ to.ends = q.ends /\ to.offset = q.offset
    BY <1>2, <1>4 DEF to, AppendRequests, AppendPhases
  <2>3. Appending(to, Q, <<>>, session[u])
    BY <1>3, <1>4, <1>6, <2>1, <2>2 DEF Appending
  <2>4. to.phase \notin CompletePhases
    BY <2>2 DEF CompletePhases
  <2> QED BY <1>2, <1>11, <2>1, <2>2, <2>3, <2>4, Goes
<1>12. CASE S3Store!PutObjectPart(u, q.next, x) /\ S3Store!Return(r, n)
  <2>1. /\ StoredStep(u) /\ StandsAs(u, Q, <<>>) /\ Whole(Q, <<>>, session[u].size, session[u].offset)
        /\ Reach(Q) = Reach(P) + Len(x) /\ S3Store!PortStep
    BY <1>7, <1>10, <1>12
  <2>2. n <= Reach(Q) + Len(<<>>)
    BY <1>5, <1>8, <2>1, LenProperties
  <2>3. Whole(Q, <<>>, session[u].size, n)
    BY <2>1, <2>2, ToldMore
  <2> QED BY <1>2, <1>8, <1>12, <2>1, <2>3, Returns
<1>13. CASE UNCHANGED multiparts /\ S3Store!Return(r, n)
  <2>1. StoredStep(u) /\ StandsAs(u, P, T) /\ S3Store!PortStep
    BY <1>1, <1>2, <1>13, NothingStored
  <2>2. Whole(P, T, session[u].size, n)
    BY <1>5, ToldMore DEF n
  <2> QED BY <1>2, <1>8, <1>13, <2>1, <2>2, Returns
<1> QED BY <1>9, <1>11, <1>12, <1>13

\* The part's tail is dropped, and the append goes on or is over.
LEMMA DropTheTailStep ==
  ASSUME BucketConstants, SInv, OneForEach, NEW r \in Requests, S3Store!DropTheTail(r)
  PROVE  SInv' /\ S3Store!PortStep
<1>1. request[r].phase \in {"drop", "dropped"} /\ UNCHANGED <<bucket, multiparts, today>>
  BY DEF S3Store!DropTheTail
<1>2. PICK q, u, P, T :
           /\ q = request[r] /\ q \in AppendRequests /\ q # S3Store!Quiet /\ u = q.id /\ u \in DOMAIN multiparts
           /\ Known(u, P, T) /\ Appending(q, P, T, session[u])
  BY <1>1, AppendKnown DEF AppendPhases
<1>3. /\ q.next = Len(P) /\ T = <<>> /\ Reach(P) = q.uploaded + Len(q.held)
      /\ Reach(P) <= q.ends /\ q.offset <= q.ends /\ q.ends <= session[u].size
  BY <1>1, <1>2 DEF Appending
<1>4. Reach(P) \in Nat /\ Len(P) \in Nat /\ Whole(P, T, session[u].size, session[u].offset) /\ Len(T) = 0
  BY <1>2, <1>3 DEF Known
<1>5. StoredStep(u) /\ StandsAs(u, P, T) /\ S3Store!PortStep
  <2>1. S3Store!DropTail(u, q.next)
    BY <1>2 DEF S3Store!DropTheTail
  <2> QED BY <1>1, <1>2, <1>3, <2>1, TailDropped
<1>6. CASE q.phase = "drop"
  <2> DEFINE to == [q EXCEPT !.phase = "fill", !.uploaded = Reach(P), !.held = <<>>, !.kept = 0, !.next = @ + 1]
  <2>1. S3Store!Goto(r, to) /\ UNCHANGED session
    BY <1>2, <1>3, <1>6 DEF S3Store!DropTheTail
  <2>6. <<>> \in Seq(Int) /\ Len(P) + 1 \in Nat /\ q.next + 1 = Len(P) + 1 /\ 0 \in Nat
    BY <1>3, <1>4, EmptySeq
  <2>7. to = [q EXCEPT !.phase = "fill", !.uploaded = Reach(P), !.held = <<>>, !.kept = 0, !.next = Len(P) + 1]
    BY <2>6
  <2>8. q \in AppendRequests /\ q.id = u /\ Reach(P) \in Nat
    BY <1>2, <1>4
  <2> HIDE DEF to
  <2>2. /\ to \in AppendRequests /\ to.phase = "fill" /\ to.held = <<>> /\ to.kept = 0 /\ to.id = u /\ to.next = Len(P) + 1
        /\ to.uploaded = Reach(P) /\ to.ends = q.ends /\ to.offset = q.offset
    BY <2>6, <2>7, <2>8 DEF AppendRequests, AppendPhases
  <2>3. <<>> = Run(Reach(P), 0) /\ Len(<<>>) = 0
    BY <1>4, RunEmpty
  <2>4. Appending(to, P, T, session[u])
    BY <1>3, <1>4, <2>2, <2>3 DEF Appending
  <2>5. to.phase \notin CompletePhases
    BY <2>2 DEF CompletePhases
  <2> QED BY <1>2, <1>4, <1>5, <2>1, <2>2, <2>4, <2>5, Goes
<1>7. CASE q.phase = "dropped"
  <2>1. S3Store!Return(r, Reach(P))
    BY <1>2, <1>3, <1>7 DEF S3Store!DropTheTail
  <2>2. Reach(P) <= Reach(P) + Len(T)
    BY <1>4
  <2>3. Whole(P, T, session[u].size, Reach(P))
    BY <1>4, <2>2, ToldMore
  <2> QED BY <1>2, <1>4, <1>5, <2>1, <2>3, Returns
<1> QED BY <1>1, <1>2, <1>6, <1>7

\* What is too short for a part is kept as the tail.
LEMMA PutTailStep ==
  ASSUME BucketConstants, SInv, OneForEach, NEW r \in Requests, S3Store!PutTail(r)
  PROVE  SInv' /\ S3Store!PortStep
<1>1. request[r].phase = "flush" /\ UNCHANGED <<bucket, multiparts, today>>
  BY DEF S3Store!PutTail
<1>2. PICK q, u, P, T :
           /\ q = request[r] /\ q \in AppendRequests /\ q # S3Store!Quiet /\ u = q.id /\ u \in DOMAIN multiparts
           /\ Known(u, P, T) /\ Appending(q, P, T, session[u])
  BY <1>1, AppendKnown DEF AppendPhases
<1>3. /\ q.next = Len(P) + 1 /\ q.uploaded = Reach(P) /\ q.ends <= session[u].size
      /\ q.held = Run(q.uploaded, Len(q.held)) /\ q.uploaded + Len(q.held) <= q.ends
      /\ q.kept = Len(T) /\ q.kept <= Len(q.held)
  BY <1>1, <1>2 DEF Appending
<1>4. PICK l, e, x : l = Len(q.held) /\ e = q.ends /\ x = q.held
  OBVIOUS
<1>5. /\ Reach(P) \in Nat /\ Len(T) \in Nat /\ x \in Seq(Int) /\ l \in Nat /\ e \in Nat /\ session[u].size \in Nat
      /\ Whole(P, T, session[u].size, session[u].offset)
  BY <1>2, <1>4, LenProperties DEF Known, AppendRequests
<1>6. x = Run(Reach(P), Len(x)) /\ Len(x) = l /\ Reach(P) + Len(x) <= session[u].size /\ Len(x) >= Len(T)
  <2>1. x = Run(Reach(P), Len(x)) /\ Len(x) = l /\ Reach(P) + l <= e /\ e <= session[u].size /\ Len(T) <= l
    BY <1>3, <1>4
  <2> QED BY <1>5, <2>1
<1> DEFINE n == Reach(P) + Len(T)
           m == Reach(P) + Len(x)
           landed == tails' = S3Store!With(tails, <<u, q.next>>, [bytes |-> x, day |-> today])
<1>7. \/ UNCHANGED tails /\ S3Store!Return(r, n)
      \/ l < MinPart /\ landed /\ S3Store!Return(r, m)
      \/ l < MinPart /\ landed /\ S3Store!Return(r, n)
  BY <1>2, <1>3, <1>4 DEF S3Store!PutTail
<1>8. \A v \in Uploads3 : v # u => session'[v].size = session[v].size /\ session'[v].offset = session[v].offset
  BY <1>2, <1>7, ReturnLeaves
<1>9. n \in Nat /\ m \in Nat /\ n <= m
  BY <1>5, <1>6
<1>10. ASSUME l < MinPart, landed
       PROVE  StoredStep(u) /\ StandsAs(u, P, x) /\ Whole(P, x, session[u].size, session[u].offset) /\ S3Store!PortStep
  <2>1. Len(x) < MinPart
    BY <1>6, <1>10
  <2> HIDE DEF n, m
  <2> QED BY <1>1, <1>2, <1>3, <1>5, <1>6, <1>8, <1>10, <2>1, TailStored
<1>11. CASE UNCHANGED tails /\ S3Store!Return(r, n)
  <2>1. StoredStep(u) /\ StandsAs(u, P, T) /\ S3Store!PortStep
    BY <1>1, <1>2, <1>11, NothingStored
  <2>2. Whole(P, T, session[u].size, n)
    BY <1>5, <1>9, ToldMore
  <2> HIDE DEF n
  <2> QED BY <1>2, <1>9, <1>11, <2>1, <2>2, Returns
<1>12. CASE l < MinPart /\ landed /\ S3Store!Return(r, m)
  <2>1. Whole(P, x, session[u].size, m)
    BY <1>9, <1>10, <1>12, ToldMore
  <2>2. StoredStep(u) /\ StandsAs(u, P, x) /\ S3Store!PortStep
    BY <1>10, <1>12
  <2> HIDE DEF m
  <2> QED BY <1>2, <1>9, <1>12, <2>1, <2>2, Returns
<1>13. CASE l < MinPart /\ landed /\ S3Store!Return(r, n)
  <2>1. Whole(P, x, session[u].size, n)
    BY <1>9, <1>10, <1>13, ToldMore
  <2>2. StoredStep(u) /\ StandsAs(u, P, x) /\ S3Store!PortStep
    BY <1>10, <1>13
  <2> HIDE DEF n
  <2> QED BY <1>2, <1>9, <1>13, <2>1, <2>2, Returns
<1> QED BY <1>7, <1>11, <1>12, <1>13

-----------------------------------------------------------------------------
(* Requests that start, and the steps of a completion.                     *)

\* A request of upload u is at a place that what stands lets it be at.
LEMMA Starts ==
  ASSUME BucketConstants, SInv, NEW r \in Requests, NEW u, NEW P, NEW T, Known(u, P, T),
         UNCHANGED <<bucket, multiparts, tails, today>>,
         session' \in [Uploads3 -> [size : Sizes \cup {-1}, offset : Nat, day : Nat]],
         \A v \in Uploads3 : session'[v].size = session[v].size /\ session'[v].offset = session[v].offset,
         NEW to, to \in AppendRequests \cup CompleteRequests, S3Store!Goto(r, to), to.id = u,
         to.phase \in AppendPhases => Appending(to, P, T, session[u]),
         to.phase \in CompletePhases => Completing(to, P, T, session[u])
  PROVE  SInv' /\ S3Store!PortStep
<1>1. /\ request' \in [Requests -> {S3Store!Quiet} \cup AppendRequests \cup CompleteRequests] /\ request'[r] = to
      /\ \A s \in Requests : s # r => request'[s] = request[s]
  BY GotoTypes
<1>2. StoredStep(u) /\ StandsAs(u, P, T) /\ S3Store!PortStep /\ u \in DOMAIN multiparts /\ u \in Uploads3
  BY NothingStored DEF Known
<1>3. BucketTypes' /\ Begun' /\ S3Store!PublishedIsTheFile'
  BY <1>1, <1>2, StoredRest
<1>4. ASSUME NEW v \in Uploads3 PROVE SameFor(v)
  BY DEF SameFor, S3Store!TailOf
<1>5. ASSUME NEW v \in DOMAIN multiparts' PROVE UploadStands(v)'
  BY <1>4, LeftAlone DEF SInv, BucketTypes
<1>6. ASSUME NEW s \in Requests, s # r PROVE AtPlace(request[s])'
  <2>1. request'[s] = request[s]
    BY <1>1, <1>6
  <2>2. request[s].phase \in {"none", "put"} \/ request[s].id \in Uploads3
    BY DEF SInv, AtPlace, BucketTypes
  <2> QED BY <1>4, <2>1, <2>2, StillServed
<1>7. AtPlace(request[r])'
  <2>1. u \in DOMAIN multiparts' /\ PartsOf(u)' = P /\ LastTail(u)' = T
    BY <1>2 DEF StandsAs
  <2>2. to.phase \in AppendPhases => Appending(to, P, T, session'[u])
    BY <1>2 DEF Appending
  <2>3. to.phase \in CompletePhases => Completing(to, P, T, session'[u])
    BY <1>2 DEF Completing
  <2> QED BY <1>1, <2>1, <2>2, <2>3 DEF AtPlace
<1>8. \A s \in Requests : AtPlace(request[s])'
  BY <1>6, <1>7
<1> QED BY <1>2, <1>3, <1>5, <1>8 DEF SInv

LEMMA AppendUploadStep ==
  ASSUME BucketConstants, SInv, NEW r \in Requests, NEW u \in Uploads3,
         NEW offset \in 0..session[u].size, NEW ends \in 0..session[u].size, offset <= ends,
         S3Store!AppendUpload(r, u, offset, ends)
  PROVE  SInv' /\ S3Store!PortStep
<1>1. PICK P, T : P = PartsOf(u) /\ T = LastTail(u)
  OBVIOUS
<1>2. u \in DOMAIN multiparts /\ UNCHANGED <<bucket, multiparts, tails, today>>
  BY DEF S3Store!AppendUpload
<1>3. Known(u, P, T)
  BY <1>1, <1>2, UploadKnown
<1> DEFINE to == [phase |-> "tail", id |-> u, next |-> Len(P) + 1, uploaded |-> Reach(P),
                  held |-> <<>>, kept |-> 0, offset |-> offset, ends |-> ends]
<1>4. S3Store!Goto(r, to)
  BY <1>1 DEF S3Store!AppendUpload, PartsOf, Reach
<1>5. session' = [session EXCEPT ![u].day = today]
  BY DEF S3Store!AppendUpload
<1>6. /\ session' \in [Uploads3 -> [size : Sizes \cup {-1}, offset : Nat, day : Nat]]
      /\ \A v \in Uploads3 : session'[v].size = session[v].size /\ session'[v].offset = session[v].offset
  BY <1>5 DEF SInv, BucketTypes
<1>7. session[u].size \in Nat /\ Len(P) \in Nat /\ Reach(P) \in Nat
  BY <1>3 DEF Known
<1>8. offset \in Nat /\ ends \in Nat /\ ends <= session[u].size /\ Len(P) + 1 \in Nat /\ <<>> \in Seq(Int)
  BY <1>7, EmptySeq
<1>9. to \in AppendRequests
  BY <1>7, <1>8 DEF AppendRequests, AppendPhases
<1>10. Appending(to, P, T, session[u])
  BY <1>7, <1>8 DEF Appending
<1>11. to.id = u /\ to.phase \notin CompletePhases
  BY DEF CompletePhases
<1> HIDE DEF to
<1> QED BY <1>2, <1>3, <1>4, <1>6, <1>9, <1>10, <1>11, Starts

LEMMA CompleteUploadStep ==
  ASSUME BucketConstants, SInv, NEW r \in Requests, NEW u \in Uploads3, S3Store!CompleteUpload(r, u)
  PROVE  SInv' /\ S3Store!PortStep
<1>1. PICK P, T : P = PartsOf(u) /\ T = LastTail(u)
  OBVIOUS
<1>2. u \in DOMAIN multiparts /\ UNCHANGED <<bucket, multiparts, tails, session, today>> /\ session[u].offset = session[u].size
  BY DEF S3Store!CompleteUpload
<1>3. Known(u, P, T)
  BY <1>1, <1>2, UploadKnown
<1> DEFINE phase == CASE P = <<>> /\ T = <<>> -> "empty"
                      [] T # <<>> -> "promote"
                      [] OTHER -> "complete"
           to == [phase |-> phase, id |-> u, next |-> Len(P) + 1]
<1>4. S3Store!Goto(r, to)
  BY <1>1 DEF S3Store!CompleteUpload, PartsOf, LastTail
<1>5. phase \in {"empty", "promote", "complete"} /\ (phase = "promote" => T # <<>>) /\ (phase = "complete" => T = <<>>)
  OBVIOUS
<1>6. Len(P) + 1 \in Nat
  BY <1>3 DEF Known
<1> HIDE DEF phase
<1>7. to \in CompleteRequests /\ to.id = u /\ to.phase \notin AppendPhases
  BY <1>5, <1>6 DEF CompleteRequests, CompletePhases, AppendPhases
<1>8. Completing(to, P, T, session[u])
  BY <1>2, <1>5 DEF Completing
<1>9. /\ session' \in [Uploads3 -> [size : Sizes \cup {-1}, offset : Nat, day : Nat]]
      /\ \A v \in Uploads3 : session'[v].size = session[v].size /\ session'[v].offset = session[v].offset
  BY <1>2 DEF SInv, BucketTypes
<1> HIDE DEF to
<1> QED BY <1>2, <1>3, <1>4, <1>7, <1>8, <1>9, Starts

\* The upload's tail becomes its last part.
LEMMA PromoteStep ==
  ASSUME BucketConstants, SInv, OneForEach, NEW r \in Requests, S3Store!Promote(r)
  PROVE  SInv' /\ S3Store!PortStep
<1>1. request[r].phase = "promote" /\ UNCHANGED <<bucket, tails, session, today>>
  BY DEF S3Store!Promote
<1>2. PICK q : q = request[r]
  OBVIOUS
<1>3. PICK u, P, T : u = q.id /\ P = PartsOf(u) /\ T = LastTail(u)
  OBVIOUS
<1>4. q \in CompleteRequests /\ u \in DOMAIN multiparts /\ Completing(q, P, T, session[u]) /\ q # S3Store!Quiet
  BY <1>1, <1>2, <1>3, RequestKnown DEF CompletePhases
<1>5. Known(u, P, T)
  BY <1>3, <1>4, UploadKnown
<1>6. q.next = Len(P) + 1 /\ T # <<>> /\ session[u].offset = session[u].size
  BY <1>1, <1>2, <1>4 DEF Completing
<1>7. S3Store!TailOf(q.id, q.next) = T
  BY <1>3, <1>6 DEF LastTail
<1>8. /\ T = Run(Reach(P), Len(T)) /\ Reach(P) + Len(T) <= session[u].size /\ session[u].offset <= Reach(P) + Len(T)
      /\ Reach(P) \in Nat /\ Len(T) \in Nat /\ T \in Seq(Int) /\ session[u].size \in Nat
      /\ Whole(P, T, session[u].size, session[u].offset)
  BY <1>5 DEF Known, Whole
<1>9. Len(T) > 0
  BY <1>6, <1>8, EmptySeq
<1>10. Reach(P) + Len(T) = session[u].size
  BY <1>6, <1>8
<1> DEFINE to == [q EXCEPT !.phase = "complete"]
           Q == Append(P, T)
<1>11. ASSUME S3Store!PutObjectPart(u, q.next, T)
       PROVE  /\ StoredStep(u) /\ StandsAs(u, Q, <<>>)
              /\ Whole(Q, <<>>, session[u].size, session[u].offset)
              /\ S3Store!PortStep
  BY <1>1, <1>5, <1>6, <1>8, <1>9, <1>10, <1>11, PartStored
<1>12. UNCHANGED multiparts => StoredStep(u) /\ StandsAs(u, P, T) /\ S3Store!PortStep
  BY <1>1, <1>5, NothingStored
<1>13. \/ S3Store!PutObjectPart(u, q.next, T) /\ S3Store!Goto(r, to)
       \/ (S3Store!PutObjectPart(u, q.next, T) \/ UNCHANGED multiparts) /\ S3Store!Goto(r, S3Store!Quiet)
  BY <1>2, <1>3, <1>7 DEF S3Store!Promote
<1>14. to \in CompleteRequests /\ to.id = u /\ to.phase = "complete"
  BY <1>3, <1>4 DEF CompleteRequests, CompletePhases
<1>15. Completing(to, Q, <<>>, session[u]) /\ to.phase \notin AppendPhases
  BY <1>6, <1>14 DEF Completing, AppendPhases
<1> HIDE DEF to, Q
<1>16. CASE S3Store!PutObjectPart(u, q.next, T) /\ S3Store!Goto(r, to)
  BY <1>1, <1>2, <1>3, <1>4, <1>11, <1>14, <1>15, <1>16, Goes
<1>17. CASE S3Store!PutObjectPart(u, q.next, T) /\ S3Store!Goto(r, S3Store!Quiet)
  BY <1>1, <1>2, <1>3, <1>4, <1>11, <1>17, Goes
<1>18. CASE UNCHANGED multiparts /\ S3Store!Goto(r, S3Store!Quiet)
  BY <1>1, <1>2, <1>3, <1>4, <1>8, <1>12, <1>18, Goes
<1> QED BY <1>13, <1>16, <1>17, <1>18

\* Some uploads us are gone; tails may be, and none of an upload that stays.
Removed(us) ==
  /\ DOMAIN multiparts' = DOMAIN multiparts \ us /\ multiparts' = [v \in DOMAIN multiparts' |-> multiparts[v]]
  /\ DOMAIN tails' \subseteq DOMAIN tails /\ \A t \in DOMAIN tails' : tails'[t] = tails[t]
  /\ \A t \in DOMAIN tails : t[1] \in DOMAIN multiparts' => t \in DOMAIN tails'
  /\ UNCHANGED <<session, today>>

LEMMA GoneLeaves ==
  ASSUME BucketConstants, SInv, NEW us, Removed(us)
  PROVE  \A v \in DOMAIN multiparts' : SameFor(v) /\ v \in DOMAIN multiparts /\ v \in Uploads3
<1> SUFFICES ASSUME NEW v \in DOMAIN multiparts' PROVE SameFor(v) /\ v \in DOMAIN multiparts /\ v \in Uploads3
  OBVIOUS
<1>1. v \in DOMAIN multiparts /\ v \in Uploads3 /\ multiparts'[v] = multiparts[v]
  BY DEF Removed, SInv, BucketTypes
<1>2. ASSUME NEW n \in Nat PROVE S3Store!TailOf(v, n)' = S3Store!TailOf(v, n)
  <2> DEFINE t == <<v, n>>
  <2>1. t[1] = v
    OBVIOUS
  <2> HIDE DEF t
  <2>2. t \in DOMAIN tails <=> t \in DOMAIN tails'
    BY <2>1 DEF Removed
  <2>3. t \in DOMAIN tails' => tails'[t] = tails[t]
    BY DEF Removed
  <2> QED BY <2>2, <2>3 DEF S3Store!TailOf, t
<1> QED BY <1>1, <1>2 DEF Removed, SameFor

\* When uploads go, the requests that go on are of uploads that stay.
LEMMA Forgets ==
  ASSUME BucketConstants, SInv, NEW us, Removed(us),
         request' \in [Requests -> {S3Store!Quiet} \cup AppendRequests \cup CompleteRequests],
         \A r \in Requests : request'[r].phase \in {"none", "put"} \/ (request'[r] = request[r] /\ request[r].id \notin us),
         S3Store!PublishedIsTheFile'
  PROVE  SInv'
<1>1. BucketTypes'
  BY DEF SInv, BucketTypes, Removed
<1>2. Begun'
  BY DEF SInv, Begun, Removed
<1>3. ASSUME NEW v \in DOMAIN multiparts' PROVE UploadStands(v)'
  BY GoneLeaves, LeftAlone
<1>4. ASSUME NEW r \in Requests PROVE AtPlace(request[r])'
  <2>1. CASE request'[r].phase \in {"none", "put"}
    BY <2>1 DEF AtPlace
  <2>2. CASE request'[r].phase \notin {"none", "put"}
    <3>1. request'[r] = request[r] /\ request[r].id \notin us /\ request[r].phase \notin {"none", "put"}
      BY <2>2
    <3>2. request[r].id \in DOMAIN multiparts
      BY <3>1 DEF SInv, AtPlace
    <3>3. SameFor(request[r].id)
      BY <3>1, <3>2, GoneLeaves DEF Removed
    <3> QED BY <3>1, <3>3, StillServed
  <2> QED BY <2>1, <2>2
<1> QED BY <1>1, <1>2, <1>3, <1>4 DEF SInv

LEMMA GoneTells ==
  ASSUME BucketConstants, SInv, NEW us, Removed(us), UNCHANGED bucket, MayGo(us)
  PROVE  S3Store!PortStep
<1> DEFINE ws == us \cap DOMAIN multiparts
<1>1. ws \in SUBSET DOMAIN multiparts /\ DOMAIN multiparts' = DOMAIN multiparts \ ws
  BY DEF Removed
<1>2. \A v \in DOMAIN multiparts' : SameFor(v)
  BY GoneLeaves
<1>3. MayGo(ws)
  BY DEF MayGo
<1> HIDE DEF ws
<1> QED BY <1>1, <1>2, <1>3, SomeGone

LEMMA NoneMayGo == MayGo({})
BY DEF MayGo

\* One upload is gone, and its tails are or are not.
LEMMA OneGone ==
  ASSUME SInv, NEW u, multiparts' = S3Store!Without(multiparts, {u}), S3Store!DropTails(u) \/ UNCHANGED tails,
         UNCHANGED <<session, today>>
  PROVE  Removed({u})
BY DEF Removed, S3Store!Without, S3Store!DropTails

LEMMA NoneGone ==
  ASSUME SInv, UNCHANGED <<multiparts, tails, session, today>>
  PROVE  Removed({})
BY DEF Removed, SInv, BucketTypes

\* Another request is of another upload.
LEMMA OtherRequests ==
  ASSUME SInv, OneForEach, NEW r \in Requests, request[r] # S3Store!Quiet, NEW u, u = request[r].id,
         NEW s \in Requests, s # r
  PROVE  request[s].phase \in {"none", "put"} \/ request[s].id \notin {u}
<1>1. CASE request[s] = S3Store!Quiet
  BY <1>1 DEF S3Store!Quiet
<1>2. CASE request[s] # S3Store!Quiet
  BY <1>2 DEF OneForEach
<1> QED BY <1>1, <1>2

LEMMA EmptyIsPublished ==
  ASSUME SInv, bucket' = S3Store!With(bucket, S3Store!Key, <<>>)
  PROVE  S3Store!PublishedIsTheFile'
BY DEF SInv, S3Store!PublishedIsTheFile, S3Store!With, S3Store!Bodies3

\* A file of no bytes.
LEMMA CompleteEmptyStep ==
  ASSUME BucketConstants, SInv, OneForEach, NEW r \in Requests, S3Store!CompleteEmpty(r)
  PROVE  SInv' /\ S3Store!PortStep
<1>1. PICK q : q = request[r]
  OBVIOUS
<1>2. PICK u : u = q.id
  OBVIOUS
<1>3. q.phase \in {"empty", "put"} /\ UNCHANGED <<session, today>>
  BY <1>1 DEF S3Store!CompleteEmpty
<1>4. q \in CompleteRequests /\ q # S3Store!Quiet
  BY <1>1, <1>3, RequestKnown DEF CompletePhases
<1>5. \A s \in Requests : s # r => request[s].phase \in {"none", "put"} \/ request[s].id \notin {u}
  BY <1>1, <1>2, <1>4, OtherRequests
<1> DEFINE to == [q EXCEPT !.phase = "put"]
<1>6. to \in CompleteRequests /\ to.phase = "put"
  BY <1>4 DEF CompleteRequests, CompletePhases
<1>7. S3Store!Quiet.phase = "none"
  BY DEF S3Store!Quiet
<1>8. \/ /\ multiparts' = S3Store!Without(multiparts, {u}) /\ (S3Store!DropTails(u) \/ UNCHANGED tails)
         /\ S3Store!Goto(r, to) \/ S3Store!Goto(r, S3Store!Quiet)
         /\ q.phase = "empty" /\ UNCHANGED bucket
      \/ UNCHANGED <<multiparts, tails, bucket>> /\ S3Store!Goto(r, S3Store!Quiet)
      \/ UNCHANGED <<multiparts, tails>> /\ S3Store!Goto(r, S3Store!Quiet)
         /\ q.phase = "put" /\ bucket' = S3Store!With(bucket, S3Store!Key, <<>>)
  BY <1>1, <1>2 DEF S3Store!CompleteEmpty
<1> HIDE DEF to
<1>9. /\ request' \in [Requests -> {S3Store!Quiet} \cup AppendRequests \cup CompleteRequests]
      /\ request'[r].phase \in {"none", "put"}
      /\ \A s \in Requests : s # r => request'[s] = request[s]
  <2>1. CASE S3Store!Goto(r, to)
    BY <1>6, <2>1, GotoTypes
  <2>2. CASE S3Store!Goto(r, S3Store!Quiet)
    BY <1>7, <2>2, GotoTypes
  <2> QED BY <1>8, <2>1, <2>2
<1>10. UNCHANGED bucket => S3Store!PublishedIsTheFile'
  BY DEF SInv, S3Store!PublishedIsTheFile
<1>11. CASE /\ multiparts' = S3Store!Without(multiparts, {u}) /\ (S3Store!DropTails(u) \/ UNCHANGED tails)
            /\ q.phase = "empty" /\ UNCHANGED bucket
  <2>3. S3Store!CallOf(q) = S3Store!Port!AbortOf(u)
    BY <1>2, <1>11 DEF S3Store!CallOf, S3Store!Port!AbortOf
  <2>4. request'[r].phase = "none" \/ request'[r].phase = "put"
    BY <1>9
  <2>5. MayGo({u})
    BY <1>1, <1>3, <1>11, <2>3, <2>4, BucketAnswers DEF MayGo, CompletePhases
  <2>1. Removed({u})
    BY <1>3, <1>11, OneGone
  <2>2. \A s \in Requests : request'[s].phase \in {"none", "put"} \/ (request'[s] = request[s] /\ request[s].id \notin {u})
    BY <1>5, <1>9
  <2> QED BY <1>9, <1>10, <1>11, <2>1, <2>2, <2>5, Forgets, GoneTells
<1>12. CASE UNCHANGED <<multiparts, tails>>
  <2>1. Removed({})
    BY <1>3, <1>12, NoneGone
  <2>2. \A s \in Requests : request'[s].phase \in {"none", "put"} \/ (request'[s] = request[s] /\ request[s].id \notin {})
    BY <1>9
  <2>3. CASE UNCHANGED bucket
    BY <1>9, <1>10, <2>1, <2>2, <2>3, NoneMayGo, Forgets, GoneTells
  <2>4. CASE q.phase = "put" /\ S3Store!Goto(r, S3Store!Quiet) /\ bucket' = S3Store!With(bucket, S3Store!Key, <<>>)
    <3>1. SInv'
      BY <1>9, <2>1, <2>2, <2>4, Forgets, EmptyIsPublished
    <3>3. S3Store!CallOf(q) = S3Store!Port!PutOf(S3Store!Key, <<>>)
      BY <2>4 DEF S3Store!CallOf, S3Store!Port!PutOf
    <3>4. request'[r].phase = "none"
      BY <1>7, <2>4, GotoTypes
    <3>5. S3Store!Port!TakesEffect(S3Store!Port!PutOf(S3Store!Key, <<>>))
      BY <1>1, <2>4, <3>3, <3>4, BucketAnswers DEF CompletePhases
    <3>2. S3Store!Port!Put(S3Store!Key, <<>>)
      BY <1>12, <2>4, <3>5 DEF S3Store!Port!Put, S3Store!With, S3Store!Accepted, S3Store!TailOf
    <3> QED BY <3>1, <3>2 DEF S3Store!PortStep, S3Store!Port!Next, S3Store!Bodies3
  <2> QED BY <1>8, <2>3, <2>4
<1> QED BY <1>8, <1>11, <1>12

\* What completes is the whole file.
LEMMA CompleteStep ==
  ASSUME BucketConstants, SInv, OneForEach, NEW r \in Requests, S3Store!Complete(r)
  PROVE  SInv' /\ S3Store!PortStep
<1>1. PICK q : q = request[r]
  OBVIOUS
<1>2. PICK u, P, T : u = q.id /\ P = PartsOf(u) /\ T = LastTail(u)
  OBVIOUS
<1>3. q.phase = "complete" /\ UNCHANGED <<session, today>> /\ S3Store!Goto(r, S3Store!Quiet)
  BY <1>1 DEF S3Store!Complete
<1>4. q \in CompleteRequests /\ q # S3Store!Quiet /\ u \in DOMAIN multiparts /\ Completing(q, P, T, session[u])
  BY <1>1, <1>2, <1>3, RequestKnown DEF CompletePhases
<1>5. Known(u, P, T)
  BY <1>2, <1>4, UploadKnown
<1>6. T = <<>> /\ session[u].offset = session[u].size
  BY <1>3, <1>4 DEF Completing
<1>7. /\ Reach(P) \in Nat /\ session[u].size \in Nat /\ Len(T) = 0
      /\ S3Store!Joined(P) = Run(0, Reach(P)) /\ Reach(P) + Len(T) <= session[u].size /\ session[u].offset <= Reach(P) + Len(T)
  BY <1>5, <1>6 DEF Known, Whole
<1>8. Reach(P) = session[u].size
  BY <1>6, <1>7
<1>9. S3Store!Joined(P) = [n \in 1..session[u].size |-> n]
  BY <1>7, <1>8 DEF Run
<1>10. session[u].size \in Sizes
  BY <1>4 DEF SInv, Begun
<1>11. S3Store!Quiet.phase = "none"
  BY DEF S3Store!Quiet
<1>12. /\ request' \in [Requests -> {S3Store!Quiet} \cup AppendRequests \cup CompleteRequests]
       /\ request'[r].phase = "none"
       /\ \A s \in Requests : s # r => request'[s] = request[s]
  BY <1>3, <1>11, GotoTypes
<1>13. \/ /\ multiparts' = S3Store!Without(multiparts, {u}) /\ (S3Store!DropTails(u) \/ UNCHANGED tails)
          /\ bucket' = S3Store!With(bucket, S3Store!Key, S3Store!Joined(P))
       \/ UNCHANGED <<bucket, multiparts, tails>>
  BY <1>1, <1>2 DEF S3Store!Complete, PartsOf
<1>14. CASE UNCHANGED <<bucket, multiparts, tails>>
  <2>1. Removed({})
    BY <1>3, <1>14, NoneGone
  <2>2. \A s \in Requests : request'[s].phase \in {"none", "put"} \/ (request'[s] = request[s] /\ request[s].id \notin {})
    BY <1>12
  <2>3. S3Store!PublishedIsTheFile'
    BY <1>14 DEF SInv, S3Store!PublishedIsTheFile
  <2> QED BY <1>12, <1>14, <2>1, <2>2, <2>3, NoneMayGo, Forgets, GoneTells
<1>15. CASE /\ multiparts' = S3Store!Without(multiparts, {u}) /\ (S3Store!DropTails(u) \/ UNCHANGED tails)
            /\ bucket' = S3Store!With(bucket, S3Store!Key, S3Store!Joined(P))
  <2>1. Removed({u})
    BY <1>3, <1>15, OneGone
  <2>2. \A s \in Requests : request'[s].phase \in {"none", "put"} \/ (request'[s] = request[s] /\ request[s].id \notin {u})
    <3>1. \A s \in Requests : s # r => request[s].phase \in {"none", "put"} \/ request[s].id \notin {u}
      BY <1>1, <1>2, <1>4, OtherRequests
    <3> QED BY <1>12, <3>1
  <2>3. S3Store!PublishedIsTheFile'
    BY <1>9, <1>10, <1>15 DEF SInv, S3Store!PublishedIsTheFile, S3Store!With
  <2>4. SInv'
    BY <1>12, <2>1, <2>2, <2>3, Forgets
  <2>5. S3Store!Accepted(u) = S3Store!Joined(P)
    <3>1. S3Store!Joined(P) \in Seq(Int)
      BY <1>5, JoinedType DEF Known
    <3>2. S3Store!Accepted(u) = S3Store!Joined(P) \o T
      BY <1>2 DEF S3Store!Accepted, PartsOf, LastTail
    <3> QED BY <1>6, <3>1, <3>2, ConcatEmptySeq
  <2>6. StagedUploads' = [v \in DOMAIN StagedUploads \ {u} |-> StagedUploads[v]]
    <3>1. \A v \in DOMAIN multiparts' : S3Store!Accepted(v)' = S3Store!Accepted(v)
      BY <2>1, GoneLeaves, LeftAlone
    <3> QED BY <2>1, <3>1 DEF StagedUploads, Removed
  <2>7. StagedUploads[u] = S3Store!Joined(P) /\ u \in DOMAIN StagedUploads
    BY <1>4, <2>5 DEF StagedUploads
  <2>8. bucket' = [x \in DOMAIN bucket \cup {S3Store!Key} |-> IF x = S3Store!Key THEN StagedUploads[u] ELSE bucket[x]]
    BY <1>15, <2>7 DEF S3Store!With
  <2>10. S3Store!CallOf(q) = S3Store!Port!CompleteOf(u, S3Store!Key)
    BY <1>2, <1>3 DEF S3Store!CallOf, S3Store!Port!CompleteOf
  <2>11. S3Store!Port!TakesEffect(S3Store!Port!CompleteOf(u, S3Store!Key))
    BY <1>1, <1>3, <1>12, <2>10, BucketAnswers DEF CompletePhases
  <2>9. S3Store!Port!CompleteUpload(u, S3Store!Key)
    BY <2>6, <2>8, <2>11, Zenon DEF S3Store!Port!CompleteUpload, StagedUploads
  <2> QED BY <2>4, <2>7, <2>9 DEF S3Store!PortStep, S3Store!Port!Next, StagedUploads
<1> QED BY <1>13, <1>14, <1>15

\* Whoever gives an upload up, with none at work.
LEMMA AbortMultipartUploadStep ==
  ASSUME BucketConstants, SInv, S3Store!AbortMultipartUpload, AskTypes
  PROVE  SInv' /\ S3Store!PortStep
<1>0. PICK u : u = asked.upload
  OBVIOUS
<1>1. /\ asked.op = "abort" /\ asked' = S3Store!None
      /\ UNCHANGED <<bucket, request, session, today>> /\ \A r \in Requests : request[r] = S3Store!Quiet
  BY DEF S3Store!AbortMultipartUpload
<1>2. /\ request' \in [Requests -> {S3Store!Quiet} \cup AppendRequests \cup CompleteRequests]
      /\ \A r \in Requests : request'[r].phase = "none"
  BY <1>1 DEF SInv, BucketTypes, S3Store!Quiet
<1>3. S3Store!PublishedIsTheFile'
  BY <1>1 DEF SInv, S3Store!PublishedIsTheFile
<1>4. MayGo({u})
  <2>1. asked = S3Store!Port!AbortOf(u)
    BY <1>0, <1>1 DEF AskTypes, S3Store!None, S3Store!Port!AbortOf
  <2> QED BY <1>1, <2>1, AskAnswers DEF MayGo
<1>5. \E us : Removed(us) /\ MayGo(us)
  <2>1. CASE UNCHANGED <<multiparts, tails>>
    BY <1>1, <2>1, NoneGone, NoneMayGo
  <2>2. CASE multiparts' = S3Store!Without(multiparts, {u}) /\ S3Store!DropTails(u)
    BY <1>1, <1>4, <2>2, OneGone
  <2> QED BY <1>0, <2>1, <2>2 DEF S3Store!AbortMultipartUpload
<1> QED BY <1>1, <1>2, <1>3, <1>5, Forgets, GoneTells

\* The process starts again, and sweeps what it finds old.
LEMMA RestartStep ==
  ASSUME BucketConstants, SInv, S3Store!Restart
  PROVE  SInv' /\ S3Store!PortStep
<1>1. UNCHANGED <<bucket, session, today>> /\ request' = [r \in Requests |-> S3Store!Quiet]
  BY DEF S3Store!Restart
<1>2. /\ request' \in [Requests -> {S3Store!Quiet} \cup AppendRequests \cup CompleteRequests]
      /\ \A r \in Requests : request'[r].phase = "none"
  BY <1>1 DEF S3Store!Quiet
<1>3. S3Store!PublishedIsTheFile'
  BY <1>1 DEF SInv, S3Store!PublishedIsTheFile
<1>4. Removed(S3Store!Swept)
  <2>1. /\ DOMAIN multiparts' = DOMAIN multiparts \ S3Store!Swept
        /\ multiparts' = [v \in DOMAIN multiparts' |-> multiparts[v]]
    BY DEF S3Store!Restart, S3Store!Without
  <2>2. /\ DOMAIN tails' = {t \in DOMAIN tails : ~(tails[t].day < today)} /\ \A t \in DOMAIN tails' : tails'[t] = tails[t]
    BY DEF S3Store!Restart, S3Store!Without
  <2>3. ASSUME NEW t \in DOMAIN tails, t[1] \in DOMAIN multiparts' PROVE t \in DOMAIN tails'
    <3>1. t[1] \in DOMAIN multiparts /\ ~(multiparts[t[1]].day < today)
      BY <2>1, <2>3 DEF S3Store!Swept, S3Store!Stale
    <3>2. tails[t].day >= multiparts[t[1]].day
      BY <3>1 DEF SInv, UploadStands
    <3>3. tails[t].day \in Nat /\ multiparts[t[1]].day \in Nat /\ today \in Nat
      BY <3>1 DEF SInv, BucketTypes
    <3> QED BY <2>2, <3>1, <3>2, <3>3
  <2> QED BY <1>1, <2>1, <2>2, <2>3 DEF Removed
<1>5. MayGo(S3Store!Swept)
  BY DEF MayGo
<1> QED BY <1>1, <1>2, <1>3, <1>4, <1>5, Forgets, GoneTells

-----------------------------------------------------------------------------
(* The other steps, and all of them.                                       *)

\* Nothing of the uploads moves.
LEMMA UploadsSame ==
  ASSUME BucketConstants, SInv, UNCHANGED <<multiparts, tails, session, request>>,
         today' \in Nat, today' >= today, S3Store!PublishedIsTheFile'
  PROVE  SInv'
<1>1. \A v : SameFor(v)
  BY DEF SameFor, S3Store!TailOf
<1>2. BucketTypes'
  BY DEF SInv, BucketTypes
<1>3. Begun'
  <2>1. ASSUME NEW v \in DOMAIN multiparts PROVE multiparts[v].day <= today'
    BY DEF SInv, Begun, BucketTypes
  <2> QED BY <2>1 DEF SInv, Begun
<1>4. ASSUME NEW v \in DOMAIN multiparts' PROVE UploadStands(v)'
  BY <1>1, LeftAlone
<1>5. ASSUME NEW r \in Requests PROVE AtPlace(request[r])'
  BY <1>1, StillServed
<1> QED BY <1>2, <1>3, <1>4, <1>5 DEF SInv

\* A request that is sent, and one that fails.
LEMMA BucketRests ==
  ASSUME BucketConstants, SInv, UNCHANGED <<bucket, multiparts, tails, session, request, today>>
  PROVE  SInv' /\ S3Store!PortStep
<1>1. S3Store!PublishedIsTheFile'
  BY DEF SInv, S3Store!PublishedIsTheFile
<1>2. SInv'
  BY <1>1, UploadsSame DEF SInv, BucketTypes
<1> QED BY <1>2 DEF S3Store!PortStep, S3Store!Accepted, S3Store!TailOf

LEMMA AskStep ==
  ASSUME BucketConstants, SInv,
         \/ \E body \in S3Store!Bodies3, declared \in {-1, 1} : S3Store!Put(body, declared)
         \/ S3Store!Delete
         \/ \E u \in Uploads3 : S3Store!AbortUpload(u)
  PROVE  SInv' /\ S3Store!PortStep /\ AskTypes'
<1> DEFINE Asks == [op : {"put"}, key : {S3Store!Key}, body : S3Store!Bodies3]
                     \cup [op : {"delete"}, key : {S3Store!Key}] \cup [op : {"abort"}, upload : Uploads3]
<1>3. ASSUME NEW body \in S3Store!Bodies3, NEW declared, S3Store!Put(body, declared)
      PROVE  \E call \in Asks : S3Store!Ask(call)
  <2>1. [op |-> "put", key |-> S3Store!Key, body |-> body] \in Asks
    OBVIOUS
  <2> HIDE DEF Asks
  <2> QED BY <1>3, <2>1, Zenon DEF S3Store!Put
<1>4. ASSUME S3Store!Delete PROVE \E call \in Asks : S3Store!Ask(call)
  <2>1. [op |-> "delete", key |-> S3Store!Key] \in Asks
    OBVIOUS
  <2> HIDE DEF Asks
  <2> QED BY <1>4, <2>1, Zenon DEF S3Store!Delete
<1>5. ASSUME NEW u \in Uploads3, S3Store!AbortUpload(u) PROVE \E call \in Asks : S3Store!Ask(call)
  <2>1. [op |-> "abort", upload |-> u] \in Asks
    OBVIOUS
  <2> HIDE DEF Asks
  <2> QED BY <1>5, <2>1, Zenon DEF S3Store!AbortUpload
<1>1. PICK call \in Asks : S3Store!Ask(call)
  BY <1>3, <1>4, <1>5
<1>2. AskTypes'
  BY <1>1 DEF S3Store!Ask, AskTypes
<1> QED BY <1>1, <1>2, BucketRests DEF S3Store!Ask

LEMMA PutObjectStep ==
  ASSUME BucketConstants, SInv, S3Store!PutObject, AskTypes
  PROVE  SInv' /\ S3Store!PortStep
<1>1. asked.op = "put" /\ asked' = S3Store!None /\ UNCHANGED <<multiparts, tails, session, request, today>>
  BY DEF S3Store!PutObject
<1>2. PICK body \in S3Store!Bodies3 : body = asked.body /\ asked = S3Store!Port!PutOf(S3Store!Key, body)
  BY <1>1 DEF AskTypes, S3Store!None, S3Store!Port!PutOf
<1>3. CASE UNCHANGED bucket
  BY <1>1, <1>3, BucketRests
<1>4. CASE bucket' = S3Store!With(bucket, S3Store!Key, body)
  <2>1. S3Store!PublishedIsTheFile'
    BY <1>4 DEF SInv, S3Store!PublishedIsTheFile, S3Store!With
  <2>2. SInv'
    BY <1>1, <2>1, UploadsSame DEF SInv, BucketTypes
  <2>3. S3Store!Port!TakesEffect(S3Store!Port!PutOf(S3Store!Key, body))
    BY <1>1, <1>2, AskAnswers
  <2>4. S3Store!Port!Put(S3Store!Key, body)
    BY <1>1, <1>4, <2>3 DEF S3Store!Port!Put, S3Store!With, S3Store!Accepted, S3Store!TailOf
  <2> QED BY <2>2, <2>4 DEF S3Store!PortStep, S3Store!Port!Next
<1> QED BY <1>2, <1>3, <1>4 DEF S3Store!PutObject

LEMMA RemoveObjectStep ==
  ASSUME BucketConstants, SInv, S3Store!RemoveObject, AskTypes
  PROVE  SInv' /\ S3Store!PortStep
<1>1. asked.op = "delete" /\ asked' = S3Store!None /\ UNCHANGED <<multiparts, tails, session, request, today>>
  BY DEF S3Store!RemoveObject
<1>2. asked = S3Store!Port!DeleteOf(S3Store!Key)
  BY <1>1 DEF AskTypes, S3Store!None, S3Store!Port!DeleteOf
<1>3. CASE UNCHANGED bucket
  BY <1>1, <1>3, BucketRests
<1>4. CASE bucket' = S3Store!Without(bucket, {S3Store!Key})
  <2>1. S3Store!PublishedIsTheFile'
    BY <1>4 DEF SInv, S3Store!PublishedIsTheFile, S3Store!Without
  <2>2. SInv'
    BY <1>1, <2>1, UploadsSame DEF SInv, BucketTypes
  <2>3. S3Store!Port!TakesEffect(S3Store!Port!DeleteOf(S3Store!Key))
    BY <1>1, <1>2, AskAnswers
  <2>4. S3Store!Port!Delete(S3Store!Key)
    BY <1>1, <1>4, <2>3 DEF S3Store!Port!Delete, S3Store!Without, S3Store!Accepted, S3Store!TailOf
  <2> QED BY <2>2, <2>4 DEF S3Store!PortStep, S3Store!Port!Next
<1> QED BY <1>3, <1>4 DEF S3Store!RemoveObject

LEMMA DayStep ==
  ASSUME BucketConstants, SInv, S3Store!Day
  PROVE  SInv' /\ S3Store!PortStep
<1>1. UNCHANGED <<bucket, multiparts, tails, session, request>> /\ today' = today + 1
  BY DEF S3Store!Day
<1>2. S3Store!PublishedIsTheFile'
  BY <1>1 DEF SInv, S3Store!PublishedIsTheFile
<1>3. SInv'
  BY <1>1, <1>2, UploadsSame DEF SInv, BucketTypes
<1> QED BY <1>1, <1>3 DEF S3Store!PortStep, S3Store!Accepted, S3Store!TailOf

\* An upload begins with nothing, and was not there before.
LEMMA StartUploadStep ==
  ASSUME BucketConstants, SInv, NEW u \in Uploads3, NEW size \in Sizes, S3Store!StartUpload(u, size)
  PROVE  SInv' /\ S3Store!PortStep
<1> DEFINE new == [parts |-> <<>>, day |-> today]
<1>1. /\ session[u] = S3Store!Unused /\ UNCHANGED <<bucket, tails, request, today>>
      /\ multiparts' = S3Store!With(multiparts, u, new)
      /\ session' = [session EXCEPT ![u] = [size |-> size, offset |-> 0, day |-> today]]
  BY DEF S3Store!StartUpload
<1>2. session[u].size \notin Sizes
  BY <1>1 DEF S3Store!Unused, BucketConstants
<1>3. u \notin DOMAIN multiparts /\ \A t \in DOMAIN tails : t[1] # u
  BY <1>2 DEF SInv, Begun
<1>4. new \in [parts : Seq(Seq(Int)), day : Nat] /\ new.parts = <<>> /\ new.day = today /\ today \in Nat
  BY EmptySeq DEF SInv, BucketTypes
<1> HIDE DEF new
<1>5. /\ DOMAIN multiparts' = DOMAIN multiparts \cup {u} /\ multiparts'[u] = new
      /\ \A v \in DOMAIN multiparts : multiparts'[v] = multiparts[v]
      /\ multiparts' \in [DOMAIN multiparts' -> [parts : Seq(Seq(Int)), day : Nat]]
  BY <1>1, <1>3, <1>4 DEF S3Store!With, SInv, BucketTypes
<1>6. /\ session' \in [Uploads3 -> [size : Sizes \cup {-1}, offset : Nat, day : Nat]]
      /\ session'[u].size = size /\ session'[u].offset = 0
      /\ \A v \in Uploads3 : v # u => session'[v] = session[v]
  BY <1>1, <1>4 DEF SInv, BucketTypes
<1>7. BucketTypes'
  BY <1>1, <1>5, <1>6 DEF SInv, BucketTypes
<1>8. Begun'
  <2>1. ASSUME NEW v \in DOMAIN multiparts' PROVE session'[v].size \in Sizes /\ multiparts'[v].day <= today
    <3>1. CASE v = u
      BY <1>4, <1>5, <1>6, <3>1
    <3>2. CASE v # u
      <4>1. v \in DOMAIN multiparts /\ v \in Uploads3
        BY <1>5, <3>2 DEF SInv, BucketTypes
      <4> QED BY <1>5, <1>6, <3>2, <4>1 DEF SInv, Begun
    <3> QED BY <3>1, <3>2
  <2>2. ASSUME NEW t \in DOMAIN tails PROVE session'[t[1]].size \in Sizes
    <3>1. t[1] \in Uploads3 /\ t[1] # u
      BY <1>3 DEF SInv, BucketTypes
    <3> QED BY <1>6, <3>1 DEF SInv, Begun
  <2> QED BY <1>1, <2>1, <2>2 DEF Begun
<1>9. ASSUME NEW v \in Uploads3, v # u PROVE SameFor(v)
  <2>1. \A n : S3Store!TailOf(v, n)' = S3Store!TailOf(v, n)
    BY <1>1 DEF S3Store!TailOf
  <2> QED BY <1>1, <1>5, <1>6, <1>9, <2>1 DEF SameFor
<1>10. PartsOf(u)' = <<>> /\ LastTail(u)' = <<>>
  <2>1. PartsOf(u)' = <<>>
    BY <1>4, <1>5 DEF PartsOf
  <2> DEFINE t == <<u, Len(<<>>) + 1>>
  <2>2. t[1] = u
    OBVIOUS
  <2> HIDE DEF t
  <2>3. t \notin DOMAIN tails'
    BY <1>1, <1>3, <2>2
  <2> QED BY <2>1, <2>3 DEF LastTail, S3Store!TailOf, t
<1>11. UploadStands(u)'
  <2>1. size \in Nat
    BY DEF BucketConstants
  <2>2. Whole(<<>>, <<>>, size, 0)
    BY <2>1, NothingIsWhole
  <2> QED BY <1>1, <1>3, <1>6, <1>10, <2>2 DEF UploadStands
<1>12. ASSUME NEW v \in DOMAIN multiparts', v # u PROVE v \in DOMAIN multiparts /\ v \in Uploads3 /\ SameFor(v)
  BY <1>5, <1>9, <1>12 DEF SInv, BucketTypes
<1>13. ASSUME NEW v \in DOMAIN multiparts' PROVE UploadStands(v)'
  <2>1. CASE v = u
    BY <1>11, <2>1
  <2>2. CASE v # u
    BY <1>12, <2>2, LeftAlone
  <2> QED BY <2>1, <2>2
<1>14. ASSUME NEW r \in Requests PROVE AtPlace(request[r])'
  <2>1. CASE request[r].phase \in {"none", "put"}
    BY <1>1, <2>1, StillServed
  <2>2. CASE request[r].phase \notin {"none", "put"}
    <3>1. request[r].id \in DOMAIN multiparts
      BY <2>2 DEF SInv, AtPlace
    <3>2. SameFor(request[r].id)
      BY <1>3, <1>9, <3>1 DEF SInv, BucketTypes
    <3> QED BY <1>1, <3>2, StillServed
  <2> QED BY <2>1, <2>2
<1>15. S3Store!PublishedIsTheFile'
  BY <1>1 DEF SInv, S3Store!PublishedIsTheFile
<1>16. SInv'
  BY <1>7, <1>8, <1>13, <1>14, <1>15 DEF SInv
<1>17. StagedUploads' = [v \in DOMAIN StagedUploads \cup {u} |-> IF v = u THEN <<>> ELSE StagedUploads[v]]
  <2>1. S3Store!Accepted(u)' = <<>>
    <3>1. S3Store!Accepted(u)' = S3Store!Joined(<<>>) \o <<>>
      BY <1>10 DEF S3Store!Accepted, PartsOf, LastTail
    <3>2. <<>> \o <<>> = <<>>
      BY EmptySeq, ConcatEmptySeq
    <3> QED BY <3>1, <3>2, ReachOfNone
  <2>2. \A v \in DOMAIN multiparts : v # u => S3Store!Accepted(v)' = S3Store!Accepted(v)
    BY <1>5, <1>12, LeftAlone
  <2> QED BY <1>3, <1>5, <2>1, <2>2 DEF StagedUploads
<1>18. S3Store!Port!StartUpload(u)
  BY <1>1, <1>17, Zenon DEF S3Store!Port!StartUpload, StagedUploads
<1>19. u \in DOMAIN StagedUploads' /\ u \notin DOMAIN StagedUploads
  BY <1>3, <1>5 DEF StagedUploads
<1> QED BY <1>16, <1>18, <1>19 DEF S3Store!PortStep, S3Store!Port!Next, StagedUploads

LEMMA BucketInit == ASSUME BucketConstants, S3Store!Init PROVE SInv
<1>1. /\ request = [r \in Requests |-> S3Store!Quiet] /\ multiparts = [u \in {} |-> 0] /\ tails = [t \in {} |-> 0]
      /\ session = [u \in Uploads3 |-> S3Store!Unused] /\ today = 0 /\ bucket = [k \in {S3Store!Key} |-> <<80>>]
  BY DEF S3Store!Init
<1>2. S3Store!Unused \in [size : Sizes \cup {-1}, offset : Nat, day : Nat]
  BY DEF S3Store!Unused
<1>3. BucketTypes
  BY <1>1, <1>2 DEF BucketTypes
<1>4. S3Store!PublishedIsTheFile
  BY <1>1 DEF S3Store!PublishedIsTheFile
<1>5. S3Store!Quiet.phase = "none"
  BY DEF S3Store!Quiet
<1>6. \A r \in Requests : AtPlace(request[r])
  BY <1>1, <1>5 DEF AtPlace
<1> QED BY <1>1, <1>3, <1>4, <1>6 DEF SInv, Begun

\* Who asks the bucket for nothing leaves what was asked.
LEMMA AskedStays ==
  ASSUME AskTypes, UNCHANGED asked \/ asked' = S3Store!None
  PROVE  AskTypes'
BY DEF AskTypes

LEMMA AppendsLeaveAsked ==
  ASSUME NEW r, \/ S3Store!ReadTail(r) \/ S3Store!Fill(r) \/ S3Store!PutPart(r) \/ S3Store!DropTheTail(r)
                \/ S3Store!PutTail(r) \/ S3Store!CompleteEmpty(r) \/ S3Store!Promote(r) \/ S3Store!Complete(r)
  PROVE  UNCHANGED asked
<1>1. CASE S3Store!ReadTail(r) \/ S3Store!Fill(r)
  BY <1>1 DEF S3Store!ReadTail, S3Store!Fill
<1>2. CASE S3Store!PutPart(r)
  BY <1>2 DEF S3Store!PutPart
<1>3. CASE S3Store!DropTheTail(r)
  BY <1>3 DEF S3Store!DropTheTail
<1>4. CASE S3Store!PutTail(r)
  BY <1>4 DEF S3Store!PutTail
<1>5. CASE S3Store!CompleteEmpty(r)
  BY <1>5 DEF S3Store!CompleteEmpty
<1>6. CASE S3Store!Promote(r)
  BY <1>6 DEF S3Store!Promote
<1>7. CASE S3Store!Complete(r)
  BY <1>7 DEF S3Store!Complete
<1> QED BY <1>1, <1>2, <1>3, <1>4, <1>5, <1>6, <1>7

LEMMA BucketStep ==
  ASSUME BucketConstants, SInv, AskTypes, OneForEach, [S3Store!Next]_(S3Store!s3Vars)
  PROVE  SInv' /\ AskTypes' /\ S3Store!PortStep
<1>1. CASE UNCHANGED S3Store!s3Vars
  <2>1. UNCHANGED <<bucket, multiparts, tails, session, request, asked, today>>
    BY <1>1 DEF S3Store!s3Vars
  <2> QED BY <2>1, AskedStays, BucketRests
<1>2. CASE \/ \E body \in S3Store!Bodies3, declared \in {-1, 1} : S3Store!Put(body, declared)
           \/ S3Store!Delete
           \/ \E u \in Uploads3 : S3Store!AbortUpload(u)
  BY <1>2, AskStep
<1>3. CASE S3Store!PutObject \/ S3Store!RemoveObject \/ S3Store!AbortMultipartUpload
  <2>1. asked' = S3Store!None
    BY <1>3 DEF S3Store!PutObject, S3Store!RemoveObject, S3Store!AbortMultipartUpload
  <2> QED BY <1>3, <2>1, AskedStays, PutObjectStep, RemoveObjectStep, AbortMultipartUploadStep
<1>4. CASE \E u \in Uploads3, size \in Sizes : S3Store!StartUpload(u, size)
  BY <1>4, StartUploadStep, AskedStays DEF S3Store!StartUpload
<1>5. CASE \E r \in Requests, u \in Uploads3 :
             \/ \E offset, ends \in 0..session[u].size :
                  offset <= ends /\ offset \in {0, session[u].offset} /\ S3Store!AppendUpload(r, u, offset, ends)
             \/ S3Store!CompleteUpload(r, u)
  <2>1. PICK r \in Requests, u \in Uploads3 :
             \/ \E offset, ends \in 0..session[u].size :
                  offset <= ends /\ offset \in {0, session[u].offset} /\ S3Store!AppendUpload(r, u, offset, ends)
             \/ S3Store!CompleteUpload(r, u)
    BY <1>5
  <2>2. CASE S3Store!CompleteUpload(r, u)
    BY <2>2, CompleteUploadStep, AskedStays DEF S3Store!CompleteUpload
  <2>3. CASE \E offset, ends \in 0..session[u].size :
               offset <= ends /\ offset \in {0, session[u].offset} /\ S3Store!AppendUpload(r, u, offset, ends)
    <3>1. PICK offset \in 0..session[u].size, ends \in 0..session[u].size :
               offset <= ends /\ S3Store!AppendUpload(r, u, offset, ends)
      BY <2>3
    <3>2. UNCHANGED asked
      BY <3>1 DEF S3Store!AppendUpload
    <3> QED BY <3>1, <3>2, AppendUploadStep, AskedStays
  <2> QED BY <2>1, <2>2, <2>3
<1>6. CASE \E r \in Requests :
             \/ S3Store!ReadTail(r) \/ S3Store!Fill(r) \/ S3Store!PutPart(r) \/ S3Store!DropTheTail(r)
             \/ S3Store!PutTail(r) \/ S3Store!CompleteEmpty(r) \/ S3Store!Promote(r) \/ S3Store!Complete(r)
  BY <1>6, ReadTailStep, FillStep, PutPartStep, DropTheTailStep, PutTailStep, CompleteEmptyStep, PromoteStep, CompleteStep,
     AppendsLeaveAsked, AskedStays
<1>8. CASE S3Store!Restart
  BY <1>8, RestartStep, AskedStays DEF S3Store!Restart
<1>9. CASE S3Store!Day
  BY <1>9, DayStep, AskedStays DEF S3Store!Day
<1> QED BY <1>1, <1>2, <1>3, <1>4, <1>5, <1>6, <1>8, <1>9 DEF S3Store!Next

-----------------------------------------------------------------------------
(* Both stores.                                                            *)

\* Whatever the bucket's answers and wherever the process stops, each upload is
\* the first bytes of its file in parts S3 takes, and every request is at a
\* place that is so of (s3.go:397, s3.go:513).
THEOREM BucketInvariant == ASSUME BucketConstants PROVE S3Store!Spec /\ []OneForEach => [](SInv /\ AskTypes)
<1>1. S3Store!Init => SInv /\ AskTypes
  BY BucketInit DEF S3Store!Init, AskTypes
<1>2. SInv /\ AskTypes /\ OneForEach /\ [S3Store!Next]_(S3Store!s3Vars) => SInv' /\ AskTypes'
  BY BucketStep
<1> QED BY <1>1, <1>2, PTL DEF S3Store!Spec

LEMMA BucketTells == ASSUME BucketConstants, SInv PROVE S3Store!OffsetsAreKept
<1> SUFFICES ASSUME NEW u \in DOMAIN multiparts
             PROVE  /\ session[u].offset <= Len(S3Store!Accepted(u))
                    /\ \A i \in 1..(Len(multiparts[u].parts) - 1) : Len(multiparts[u].parts[i]) >= MinPart
  BY DEF S3Store!OffsetsAreKept
<1>1. PICK P, T : P = PartsOf(u) /\ T = LastTail(u) /\ Known(u, P, T)
  BY UploadKnown
<1>2. Len(S3Store!Accepted(u)) = Reach(P) + Len(T)
  BY <1>1, AcceptedIs
<1> QED BY <1>1, <1>2 DEF Known, Whole, PartsOf

\* A step of either store is one the port allows, or changes nothing a reader
\* or an uploader is told of: both implement Store, and nothing is there or
\* gone but by a call of somebody's.  This is with any number of writers, whose
\* keys are no folders of each other's, and on the bucket with one request at a
\* time for an upload (disk.go:237, disk.go:346, s3.go:397).
THEOREM TheStoresAreThePort ==
  ASSUME BucketConstants, DiskConstants, KeysApart
  PROVE  S3Store!Spec /\ []OneForEach /\ DiskStore!Spec => StoresImplementThePort
<1>1. SInv /\ AskTypes /\ OneForEach /\ [S3Store!Next]_(S3Store!s3Vars) => S3Store!PortStep
  BY BucketStep
<1>2. DInv /\ [DiskStore!Next]_(DiskStore!diskVars) => DiskStore!PortStep
  BY DiskStepIsThePort
<1>3. /\ SInv /\ AskTypes /\ OneForEach /\ [S3Store!Next]_(S3Store!s3Vars)
      /\ DInv /\ [DiskStore!Next]_(DiskStore!diskVars)
      => [(which = "s3" => S3Store!PortStep) /\ (which = "disk" => DiskStore!PortStep)]_<<svars, dvars>>
  BY <1>1, <1>2
<1> QED BY <1>3, BucketInvariant, DiskInvariant, PTL DEF StoresImplementThePort, S3Store!Spec, DiskStore!Spec

\* Neither store tells of a byte it has not kept, publishes part of a file,
\* loses the folder of a key, or reads a range as the other would not
\* (s3.go:442, disk.go:235,
\* range.go:45).
THEOREM TheStoresTellTheTruth ==
  ASSUME BucketConstants, DiskConstants
  PROVE  S3Store!Spec /\ []OneForEach /\ DiskStore!Spec => []StoresTellTheTruth
<1>1. SInv => S3Store!OffsetsAreKept /\ S3Store!PublishedIsTheFile
  BY BucketTells DEF SInv
<1>2. DInv => DiskStore!FoldersHoldTheKeys /\ DiskStore!ReadsAgree
  BY DiskReadsAgree DEF DInv
<1>3. SInv /\ DInv => StoresTellTheTruth
  BY <1>1, <1>2 DEF StoresTellTheTruth
<1> QED BY <1>3, BucketInvariant, DiskInvariant, PTL
=============================================================================
