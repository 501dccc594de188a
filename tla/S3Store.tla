------------------------------ MODULE S3Store ------------------------------
(***************************************************************************)
(* The blob port on a bucket (internal/storage/s3).  An upload is a        *)
(* multipart upload and, for the bytes that are not a part yet, an object  *)
(* named for the part they will become: the tail.  An append lists the     *)
(* parts, reads the tail, and then writes a part whenever it holds one;    *)
(* what it holds when the body ends is kept as a part or as the tail.  A   *)
(* request to the bucket may fail, and may fail after it was done; the     *)
(* process may stop anywhere, and sweeps old uploads when it starts.       *)
(*                                                                         *)
(* Byte number n of the file that is uploaded is n.                        *)
(***************************************************************************)
EXTENDS Integers, FiniteSets, SequencesExt

CONSTANTS
  Requests,     \* requests at once
  Sizes,        \* bytes a file that is uploaded may have
  PartSize,     \* bytes an append holds in memory
  MinPart,      \* bytes S3 wants in a part that is not the last
  Uploads3,     \* upload ids
  MaxDays,      \* days in a behaviour
  Failures      \* answers of the bucket that are lost in a behaviour

VARIABLES
  bucket,       \* key -> bytes: the published objects
  multiparts,   \* upload -> [parts, day], for the multipart uploads there are
  tails,        \* <<upload, part number>> -> [bytes, day]
  request,      \* request -> where it is in its handler
  asked,        \* a Put, a Delete or an AbortUpload the bucket has yet to do
  session,      \* upload -> [size, offset, day]: what the caller knows of it
  today, lost

s3Vars == <<bucket, multiparts, tails, request, asked, session, today, lost>>

Key == "key"
Bodies3 == {<<>>, <<90>>}
Quiet == [phase |-> "none"]
None == [op |-> "none"]
Unused == [size |-> -1, offset |-> 0, day |-> 0]

Init ==
  /\ bucket = [k \in {Key} |-> <<80>>]
  /\ multiparts = [u \in {} |-> 0]
  /\ tails = [t \in {} |-> 0]
  /\ request = [r \in Requests |-> Quiet]
  /\ asked = None
  /\ session = [u \in Uploads3 |-> Unused]
  /\ today = 0
  /\ lost = 0

Joined(parts) == FlattenSeq(parts)

\* Mutant: the tail is named for its upload alone.
TailOfUpload(u, n) ==
  IF \E t \in DOMAIN tails : t[1] = u THEN tails[CHOOSE t \in DOMAIN tails : t[1] = u].bytes ELSE <<>>

\* readTail and tailSize look under the number the tail's part will have.
TailOf(u, n) == IF <<u, n>> \in DOMAIN tails THEN tails[<<u, n>>].bytes ELSE <<>>

\* UploadOffset counts the parts, and the tail while its part is not there.
Accepted(u) ==
  LET parts == multiparts[u].parts IN Joined(parts) \o TailOf(u, Len(parts) + 1)
-----------------------------------------------------------------------------
(* The bucket: a request is done or not, and its answer comes or is lost.  *)

With(f, x, v) == [y \in DOMAIN f \cup {x} |-> IF y = x THEN v ELSE f[y]]
Without(f, xs) == [y \in DOMAIN f \ xs |-> f[y]]

Answered == UNCHANGED lost
Unanswered == lost < Failures /\ lost' = lost + 1

Goto(r, to) == request' = [request EXCEPT ![r] = to]

\* The handler returns, and its caller knows the upload to be at offset.
Return(r, offset) ==
  /\ session' = [session EXCEPT ![request[r].id].offset = offset]
  /\ Goto(r, Quiet)

PartsWith(parts, n, bytes) == [i \in 1..(IF n > Len(parts) THEN n ELSE Len(parts)) |->
                                 IF i = n THEN bytes ELSE parts[i]]

PutObjectPart(u, n, bytes) ==
  /\ u \in DOMAIN multiparts
  /\ multiparts' = [multiparts EXCEPT ![u].parts = PartsWith(@, n, bytes)]

DropTail(u, n) ==
  \/ tails' = Without(tails, {<<u, n>>}) /\ UNCHANGED lost
  \/ UNCHANGED tails /\ Unanswered

\* Best effort: any of them may stay.
DropTails(u) ==
  \/ tails' = Without(tails, {t \in DOMAIN tails : t[1] = u}) /\ UNCHANGED lost
  \/ UNCHANGED tails /\ Unanswered
-----------------------------------------------------------------------------
\* A Put, a Delete and an AbortUpload: a request of the bucket each, which is
\* done between the call and its end, or fails.
Ask(call) ==
  /\ asked = None
  /\ asked' = call
  /\ UNCHANGED <<bucket, multiparts, tails, request, session, today, lost>>

Put(body, declared) ==
  /\ declared < 0 \/ declared = Len(body)
  /\ Ask([op |-> "put", key |-> Key, body |-> body])

Delete == Ask([op |-> "delete", key |-> Key])

AbortUpload(u) == u \in DOMAIN multiparts /\ Ask([op |-> "abort", upload |-> u])

PutObject ==
  /\ asked.op = "put"
  /\ asked' = None
  /\ \/ bucket' = With(bucket, Key, asked.body) /\ Answered
     \/ UNCHANGED bucket /\ Unanswered
  /\ UNCHANGED <<multiparts, tails, request, session, today>>

RemoveObject ==
  /\ asked.op = "delete"
  /\ asked' = None
  /\ \/ bucket' = Without(bucket, {Key}) /\ Answered
     \/ UNCHANGED bucket /\ Unanswered
  /\ UNCHANGED <<multiparts, tails, request, session, today>>

\* An upload that is gone is no error, and its tails go with it.  Whoever ends
\* an upload holds it alone.
AbortMultipartUpload ==
  /\ asked.op = "abort"
  /\ \A r \in Requests : request[r] = Quiet
  /\ asked' = None
  /\ \/ multiparts' = Without(multiparts, {asked.upload}) /\ DropTails(asked.upload)
     \/ UNCHANGED <<multiparts, tails>> /\ Unanswered
  /\ UNCHANGED <<bucket, request, session, today>>

StartUpload(u, size) ==
  /\ session[u] = Unused
  /\ multiparts' = With(multiparts, u, [parts |-> <<>>, day |-> today])
  /\ session' = [session EXCEPT ![u] = [size |-> size, offset |-> 0, day |-> today]]
  /\ UNCHANGED <<bucket, tails, request, asked, today, lost>>

\* The body holds the file's bytes after offset, as far as ends.
AppendUpload(r, u, offset, ends) ==
  /\ request[r] = Quiet
  /\ u \in DOMAIN multiparts
  /\ LET parts == multiparts[u].parts
     IN Goto(r, [phase |-> "tail", id |-> u, next |-> Len(parts) + 1, uploaded |-> Len(Joined(parts)),
                 held |-> <<>>, kept |-> 0, offset |-> offset, ends |-> ends])
  /\ session' = [session EXCEPT ![u].day = today]
  /\ UNCHANGED <<bucket, multiparts, tails, asked, today, lost>>

\* An append that does not start where the upload is learns where that is.
ReadTail(r) ==
  /\ request[r].phase = "tail"
  /\ LET q == request[r]
         tail == TailOf(q.id, q.next)
     IN IF q.uploaded + Len(tail) = q.offset
        THEN /\ Goto(r, [q EXCEPT !.phase = "fill", !.held = tail, !.kept = Len(tail)])
             /\ UNCHANGED session
        ELSE Return(r, q.uploaded + Len(tail))
  /\ UNCHANGED <<bucket, multiparts, tails, asked, today, lost>>

\* The buffer is full, or the body has ended.
Fill(r) ==
  /\ request[r].phase = "fill"
  /\ LET q == request[r]
         at == q.uploaded + Len(q.held)
         n == IF q.ends - at < PartSize - Len(q.held) THEN q.ends - at ELSE PartSize - Len(q.held)
     IN Goto(r, [q EXCEPT !.held = @ \o [i \in 1..n |-> at + i],
                          !.phase = IF Len(q.held) + n = PartSize THEN "part" ELSE "flush"])
  /\ UNCHANGED <<bucket, multiparts, tails, session, asked, today, lost>>

\* A full buffer, and what flush holds when that is enough, goes as a part.
PutPart(r) ==
  LET q == request[r]
      full == q.phase = "part"
  IN /\ \/ full
        \/ q.phase = "flush" /\ Len(q.held) # q.kept /\ Len(q.held) >= MinPart
     /\ \/ /\ PutObjectPart(q.id, q.next, q.held) /\ Answered
           /\ Goto(r, [q EXCEPT !.phase = IF full THEN "drop" ELSE "dropped"])
           /\ UNCHANGED session
        \/ /\ PutObjectPart(q.id, q.next, q.held) \/ UNCHANGED multiparts
           /\ Unanswered
           /\ Return(r, q.uploaded + q.kept)
     /\ UNCHANGED <<bucket, tails, asked, today>>

\* The part has landed; its tail goes, and the loop begins again or is over.
DropTheTail(r) ==
  /\ request[r].phase \in {"drop", "dropped"}
  /\ LET q == request[r]
         uploaded == q.uploaded + Len(q.held)
     IN /\ DropTail(q.id, q.next)
        /\ IF q.phase = "drop"
           THEN /\ Goto(r, [q EXCEPT !.phase = "fill", !.uploaded = uploaded, !.held = <<>>, !.kept = 0, !.next = @ + 1])
                /\ UNCHANGED session
           ELSE Return(r, uploaded)
  /\ UNCHANGED <<bucket, multiparts, asked, today>>

\* What is too short for a part waits as the tail.
PutTail(r) ==
  /\ request[r].phase = "flush"
  /\ LET q == request[r]
     IN \/ /\ Len(q.held) = q.kept
           /\ Return(r, q.uploaded + q.kept)
           /\ UNCHANGED <<tails, lost>>
        \/ /\ Len(q.held) # q.kept /\ Len(q.held) < MinPart
           /\ LET landed == tails' = With(tails, <<q.id, q.next>>, [bytes |-> q.held, day |-> today])
              IN \/ landed /\ Answered /\ Return(r, q.uploaded + Len(q.held))
                 \/ (landed \/ UNCHANGED tails) /\ Unanswered /\ Return(r, q.uploaded + q.kept)
  /\ UNCHANGED <<bucket, multiparts, asked, today>>
-----------------------------------------------------------------------------
\* The caller completes an upload that it knows to be all there.
CompleteUpload(r, u) ==
  /\ request[r] = Quiet
  /\ u \in DOMAIN multiparts
  /\ session[u].offset = session[u].size
  /\ LET parts == multiparts[u].parts
         tail == TailOf(u, Len(parts) + 1)
         phase == CASE parts = <<>> /\ tail = <<>> -> "empty"
                    [] tail # <<>> -> "promote"
                    [] OTHER -> "complete"
     IN Goto(r, [phase |-> phase, id |-> u, next |-> Len(parts) + 1])
  /\ UNCHANGED <<bucket, multiparts, tails, session, asked, today, lost>>

\* A file of no bytes is an object of no bytes, and its upload is aborted.
CompleteEmpty(r) ==
  LET q == request[r]
  IN \/ /\ q.phase = "empty"
        /\ \/ /\ multiparts' = Without(multiparts, {q.id}) /\ DropTails(q.id)
              /\ Goto(r, [q EXCEPT !.phase = "put"])
           \/ /\ multiparts' = Without(multiparts, {q.id}) \/ UNCHANGED multiparts
              /\ Unanswered /\ Goto(r, Quiet) /\ UNCHANGED tails
        /\ UNCHANGED <<bucket, session, asked, today>>
     \/ /\ q.phase = "put"
        /\ bucket' = With(bucket, Key, <<>>)
        /\ Goto(r, Quiet)
        /\ UNCHANGED <<multiparts, tails, session, asked, today, lost>>

\* The tail is the last part, and may be short.
Promote(r) ==
  /\ request[r].phase = "promote"
  /\ LET q == request[r]
         landed == PutObjectPart(q.id, q.next, TailOf(q.id, q.next))
     IN \/ landed /\ Answered /\ Goto(r, [q EXCEPT !.phase = "complete"])
        \/ (landed \/ UNCHANGED multiparts) /\ Unanswered /\ Goto(r, Quiet)
  /\ UNCHANGED <<bucket, tails, session, asked, today>>

\* S3 takes the list when every part but the last is large enough.
Complete(r) ==
  /\ request[r].phase = "complete"
  /\ LET q == request[r]
         parts == multiparts[q.id].parts
         landed == /\ \A i \in 1..(Len(parts) - 1) : Len(parts[i]) >= MinPart
                   /\ bucket' = With(bucket, Key, Joined(parts))
                   /\ multiparts' = Without(multiparts, {q.id})
     IN \/ landed /\ DropTails(q.id) /\ Goto(r, Quiet)
        \/ /\ landed \/ UNCHANGED <<bucket, multiparts>>
           /\ Unanswered /\ Goto(r, Quiet) /\ UNCHANGED tails
  /\ UNCHANGED <<session, asked, today>>

\* abortUploadsBefore goes by the day an upload began, and by the day a tail
\* was written.
Stale == {u \in DOMAIN multiparts : multiparts[u].day < today}

\* RemoveIncompleteUpload ends all uploads of a key, and these are of one.
Swept == IF Stale = {} THEN {} ELSE DOMAIN multiparts

Restart ==
  /\ request' = [r \in Requests |-> Quiet]
  /\ asked' = None
  /\ multiparts' = Without(multiparts, Swept)
  /\ tails' = Without(tails, {t \in DOMAIN tails : tails[t].day < today})
  /\ UNCHANGED <<bucket, session, today, lost>>

Day ==
  /\ today < MaxDays
  /\ today' = today + 1
  /\ UNCHANGED <<bucket, multiparts, tails, request, asked, session, lost>>

Next ==
  \/ \E body \in Bodies3, declared \in {-1, 1} : Put(body, declared)
  \/ Delete \/ PutObject \/ RemoveObject \/ AbortMultipartUpload
  \/ \E u \in Uploads3, size \in Sizes : StartUpload(u, size)
  \/ \E r \in Requests, u \in Uploads3 :
       \/ \E offset, ends \in 0..session[u].size :
            offset <= ends /\ offset \in {0, session[u].offset} /\ AppendUpload(r, u, offset, ends)
       \/ CompleteUpload(r, u)
  \/ \E r \in Requests :
       ReadTail(r) \/ Fill(r) \/ PutPart(r) \/ DropTheTail(r) \/ PutTail(r) \/ CompleteEmpty(r) \/ Promote(r) \/ Complete(r)
  \/ \E u \in Uploads3 : AbortUpload(u)
  \/ Restart
  \/ Day

Spec == Init /\ [][Next]_s3Vars
-----------------------------------------------------------------------------
\* What a request has yet to do to the port: an empty upload is aborted, and
\* then put.
CallOf(q) ==
  CASE q.phase = "empty" -> [op |-> "abort", upload |-> q.id]
    [] q.phase = "put"   -> [op |-> "put", key |-> Key, body |-> <<>>]
    [] OTHER             -> [op |-> "complete", upload |-> q.id, key |-> Key]

Calls ==
  {<<{r}, CallOf(request[r])>> : r \in {r \in Requests : request[r].phase \in {"empty", "put", "promote", "complete"}}}
    \cup {<<{}, asked>>}

Port == INSTANCE Store WITH
  Keys <- {Key}, Bodies <- Bodies3, objects <- bucket, staged <- [u \in DOMAIN multiparts |-> Accepted(u)],
  calls <- Calls, expired <- Swept

\* Whatever the bucket loses and wherever the process stops, an upload holds
\* the file's first bytes, each once, and is published as it stands: the bucket
\* keeps the promise of the port (s3.AppendUpload, CompleteUpload).
PortStep == Port!Next \/ UNCHANGED <<bucket, [u \in DOMAIN multiparts |-> Accepted(u)]>>

ImplementsThePort == [][PortStep]_<<bucket, multiparts, tails>>

\* A caller is never told of a byte the bucket does not have, and a part that
\* is not the last is one S3 takes, so an upload that is all there can be
\* completed.
OffsetsAreKept ==
  \A u \in DOMAIN multiparts :
    LET parts == multiparts[u].parts
    IN /\ session[u].offset <= Len(Accepted(u))
       /\ \A i \in 1..(Len(parts) - 1) : Len(parts[i]) >= MinPart

\* What is published of an upload is all of its file.
PublishedIsTheFile ==
  \A k \in DOMAIN bucket :
    bucket[k] \in Bodies3 \cup {<<80>>} \cup {[n \in 1..size |-> n] : size \in Sizes}

\* An upload its client appended to today is not swept as abandoned.
LiveUploadsSurvive ==
  [][\A u \in DOMAIN multiparts : u \in Swept /\ u \notin DOMAIN multiparts' => session[u].day < today]_s3Vars
=============================================================================
