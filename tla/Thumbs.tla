------------------------------- MODULE Thumbs -------------------------------
(***************************************************************************)
(* Thumbnails (internal/media/thumb): a request makes the picture it asks  *)
(* for and keeps it (cached), a pass makes the small ones before anybody   *)
(* asks (Prepare, PrepareBatch, driven by app/background.go).  Both share  *)
(* the decoders and the queue in front of them; both write down a file     *)
(* that cannot be drawn, as a note beside the picture, keyed by the bytes, *)
(* and on the media row, keyed by the file.  The file may be overwritten   *)
(* at any moment.                                                          *)
(*                                                                         *)
(* A week is one step: what was young becomes old, and the sweep takes     *)
(* notes that are old.                                                     *)
(***************************************************************************)
EXTENDS Naturals, Sequences, FiniteSets, SequencesExt

CONSTANTS
  Photos,      \* numbers, the newest the largest
  Sizes,       \* the ladder
  PassSizes,   \* the sizes the pass makes
  Askers,      \* requests for a picture
  Decoders,    \* decodeSlots
  DecodeQueue, \* the most between the door and the end of a decode
  Batch,
  MaxWrites,   \* how often photos may be overwritten
  MaxWeeks,    \* how many weeks may go by
  LostPhotos   \* photos whose bytes cannot be reached, for good

VARIABLES
  bytes,    \* the version of each photo's bytes
  hard,     \* the versions the first build cannot draw
  upgraded, \* whether this build draws those too
  pics,     \* the sizes stored for each photo's present bytes
  note,     \* whether a refusal of them is noted: none, young, old
  row,      \* thumb_state, thumb_blob_key and whether thumb_at is a week ago
  inQueue,  \* the counter
  decoding, \* the semaphore
  asker,    \* each request: [at, photo, version, size, got]
  weeks,    \* how many went by
  pass      \* the pass: [at, todo, got], what is to do with its version as read

tvars == <<bytes, hard, upgraded, pics, note, row, inQueue, decoding, asker, weeks, pass>>

Versions == Photos \X (0..MaxWrites)
Present(p) == <<p, bytes[p]>>

TypeOK ==
  /\ bytes \in [Photos -> 0..MaxWrites]
  /\ hard \subseteq Versions
  /\ upgraded \in BOOLEAN
  /\ pics \in [Photos -> SUBSET Sizes]
  /\ note \in [Photos -> {"none", "young", "old"}]
  /\ row \in [Photos -> [state : {"untried", "made", "refused"}, version : 0..MaxWrites, old : BOOLEAN]]
  /\ inQueue \in 0..(Cardinality(Askers) + 1)
  /\ decoding \in 0..Decoders

NoAsk == [at |-> "idle", photo |-> 0, version |-> 0, size |-> "none", got |-> "none"]
NoPass == [at |-> "idle", todo |-> <<>>, got |-> "none"]

Init ==
  /\ bytes = [p \in Photos |-> 0]
  /\ hard \in SUBSET (Photos \X {0})
  /\ upgraded = FALSE
  /\ pics = [p \in Photos |-> {}]
  /\ note = [p \in Photos |-> "none"]
  /\ row = [p \in Photos |-> [state |-> "untried", version |-> 0, old |-> FALSE]]
  /\ inQueue = 0
  /\ decoding = 0
  /\ asker = [a \in Askers |-> NoAsk]
  /\ weeks = 0
  /\ pass = NoPass

stores == <<bytes, hard, upgraded, weeks>>

\* CanThumbnail, and what this build of the decoders makes of the bytes.
Drawable(p, v) == <<p, v>> \notin hard \/ upgraded

\* What a decode of some version comes to.  The bytes of an older version may
\* already be collected, and any read may fail.
Decoded(p, v) ==
  IF p \in LostPhotos THEN {"unreachable"}
  ELSE {"unreachable"} \cup {IF Drawable(p, v) THEN "drawn" ELSE "refused"}

\* record: the row of a file, for the version that was looked at.
Recorded(p, v, state, old) == [row EXCEPT ![p] = [state |-> state, version |-> v, old |-> old]]

\* What is stored under a version's key is about the photo while it has it.
Stored(p, v, sizes) == IF v = bytes[p] THEN [pics EXCEPT ![p] = @ \cup sizes] ELSE pics
Noted(p, v)         == IF v = bytes[p] THEN [note EXCEPT ![p] = "young"] ELSE note
-----------------------------------------------------------------------------
(* The lazy half: File, open and cached.                                   *)

AskerAt(a, place) == asker[a].at = place
AskerGoes(a, place) == asker' = [asker EXCEPT ![a].at = place]
AskerDone(a) == asker' = [asker EXCEPT ![a] = NoAsk]

\* Get of the picture, Stat of the note, and the bottom of the queue.
Ask(a, p, size) ==
  /\ AskerAt(a, "idle")
  /\ size \notin pics[p] /\ note[p] = "none"
  /\ inQueue + 1 <= DecodeQueue
  /\ inQueue' = inQueue + 1
  /\ asker' = [asker EXCEPT ![a] = [at |-> "waiting", photo |-> p, version |-> bytes[p], size |-> size, got |-> "none"]]
  /\ UNCHANGED <<stores, pics, note, row, decoding, pass>>

TakeDecoder(a) ==
  /\ AskerAt(a, "waiting") /\ decoding < Decoders
  /\ decoding' = decoding + 1
  /\ AskerGoes(a, "decoding")
  /\ UNCHANGED <<stores, pics, note, row, inQueue, pass>>

\* maxWait, or the client leaves.
GiveUp(a) ==
  /\ AskerAt(a, "waiting")
  /\ inQueue' = inQueue - 1
  /\ AskerDone(a)
  /\ UNCHANGED <<stores, pics, note, row, decoding, pass>>

\* fromStore, decode.
Decode(a) ==
  /\ AskerAt(a, "decoding")
  /\ \E got \in Decoded(asker[a].photo, asker[a].version) :
       asker' = [asker EXCEPT ![a].at = "decoded", ![a].got = got]
  /\ UNCHANGED <<stores, pics, note, row, inQueue, decoding, pass>>

\* isVerdict.
isVerdict(got) == got = "refused"

\* The first write of the outcome: the note, or the row that says it was made.
Outcome(a) ==
  /\ AskerAt(a, "decoded")
  /\ LET p == asker[a].photo
         v == asker[a].version
     IN IF asker[a].got = "drawn"
        THEN row' = Recorded(p, v, "made", FALSE) /\ UNCHANGED note
        ELSE IF isVerdict(asker[a].got) THEN note' = Noted(p, v) /\ UNCHANGED row
        ELSE UNCHANGED <<note, row>>
  /\ AskerGoes(a, "storing")
  /\ UNCHANGED <<stores, pics, inQueue, decoding, pass>>

\* The second: the picture, which may fail to be stored, or the row that says
\* it was refused; and the way out.
Answer(a) ==
  /\ AskerAt(a, "storing")
  /\ LET p == asker[a].photo
         v == asker[a].version
     IN \/ asker[a].got = "drawn" /\ pics' \in {pics, Stored(p, v, {asker[a].size})} /\ UNCHANGED row
        \/ isVerdict(asker[a].got) /\ row' = Recorded(p, v, "refused", FALSE) /\ UNCHANGED pics
        \/ asker[a].got # "drawn" /\ ~isVerdict(asker[a].got) /\ UNCHANGED <<pics, row>>
  /\ inQueue' = inQueue - 1
  /\ decoding' = decoding - 1
  /\ AskerDone(a)
  /\ UNCHANGED <<stores, note, pass>>
-----------------------------------------------------------------------------
(* The pass.                                                               *)

\* PendingThumbs.
Pending(p) ==
  \/ row[p].state = "untried"
  \/ row[p].version # bytes[p]
  \/ row[p].state = "refused" /\ row[p].old

\* The newest Batch of those, newest first.
PendingThumbs(batch) ==
  /\ \A i \in DOMAIN batch : Pending(batch[i]) /\ \A j \in DOMAIN batch : i < j => batch[j] < batch[i]
  /\ \A p \in Photos : Pending(p) =>
       p \in {batch[i] : i \in DOMAIN batch} \/ (Len(batch) = Batch /\ \A i \in DOMAIN batch : p < batch[i])

\* thumbsAhead, PrepareBatch: a batch is read, with the bytes' keys of that moment.
PassLooks ==
  /\ pass.at = "idle"
  /\ \E n \in 1..Batch : \E batch \in [1..n -> Photos] :
       /\ PendingThumbs(batch)
       /\ pass' = [at |-> "prepare", todo |-> [i \in 1..n |-> [photo |-> batch[i], version |-> bytes[batch[i]]]], got |-> "none"]
  /\ UNCHANGED <<stores, pics, note, row, inQueue, decoding, asker>>

\* The file at hand is done with, made, refused or unreachable; ErrBusy ends the batch.
Onward == [at |-> IF Len(pass.todo) > 1 THEN "prepare" ELSE "idle", todo |-> Tail(pass.todo), got |-> "none"]

\* Mutant: a refusal copied from its note is dated now.
NoteDatedNow(p) == FALSE

\* A refusal copied from its note is as old as the note.
NoteDated(p) == note[p] = "old"

AtHand == Head(pass.todo)

\* Mutant: pictures that exist already are not written down.
PrepareUnrecorded ==
  /\ pass.at = "prepare"
  /\ LET p == AtHand.photo
         v == AtHand.version
     IN IF v = bytes[p] /\ PassSizes \subseteq pics[p]
        THEN pass' = Onward /\ UNCHANGED row
        ELSE IF v = bytes[p] /\ note[p] # "none"
        THEN row' = Recorded(p, v, "refused", NoteDated(p)) /\ pass' = Onward
        ELSE pass' = (IF inQueue = 0 THEN [pass EXCEPT !.at = "taking"] ELSE NoPass) /\ UNCHANGED row
  /\ UNCHANGED <<stores, pics, note, inQueue, decoding, asker>>

\* Prepare, up to the decoder.  What is stored is asked about under the key
\* of the bytes the batch was read with.
Prepare ==
  /\ pass.at = "prepare"
  /\ LET p == AtHand.photo
         v == AtHand.version
     IN IF v = bytes[p] /\ PassSizes \subseteq pics[p]
        THEN row' = Recorded(p, v, "made", FALSE) /\ pass' = Onward
        ELSE IF v = bytes[p] /\ note[p] # "none"
        THEN row' = Recorded(p, v, "refused", NoteDated(p)) /\ pass' = Onward
        ELSE pass' = (IF inQueue = 0 THEN [pass EXCEPT !.at = "taking"] ELSE NoPass) /\ UNCHANGED row
  /\ UNCHANGED <<stores, pics, note, inQueue, decoding, asker>>

\* decodeIfIdle, after the counter was read as zero.
PassTakes ==
  /\ pass.at = "taking"
  /\ IF decoding < Decoders
     THEN /\ inQueue' = inQueue + 1
          /\ decoding' = decoding + 1
          /\ pass' = [pass EXCEPT !.at = "decoding"]
     ELSE /\ pass' = NoPass
          /\ UNCHANGED <<inQueue, decoding>>
  /\ UNCHANGED <<stores, pics, note, row, asker>>

PassDecodes ==
  /\ pass.at = "decoding"
  /\ \E got \in Decoded(AtHand.photo, AtHand.version) : pass' = [pass EXCEPT !.at = "decoded", !.got = got]
  /\ UNCHANGED <<stores, pics, note, row, inQueue, decoding, asker>>

\* remember's note, or keep; a store that fails leaves the row alone.
PassKeeps ==
  /\ pass.at = "decoded"
  /\ LET p == AtHand.photo
         v == AtHand.version
     IN \/ pass.got = "drawn" /\ pics' = Stored(p, v, PassSizes) /\ pass' = [pass EXCEPT !.at = "recording"]
           /\ UNCHANGED <<note, inQueue, decoding>>
        \/ isVerdict(pass.got) /\ note' = Noted(p, v) /\ pass' = [pass EXCEPT !.at = "recording"]
           /\ UNCHANGED <<pics, inQueue, decoding>>
        \/ pass.got # "refused" /\ pass' = Onward /\ inQueue' = inQueue - 1 /\ decoding' = decoding - 1
           /\ UNCHANGED <<pics, note>>
  /\ UNCHANGED <<stores, row, asker>>

PassRecords ==
  /\ pass.at = "recording"
  /\ row' = Recorded(AtHand.photo, AtHand.version, IF pass.got = "drawn" THEN "made" ELSE "refused", FALSE)
  /\ inQueue' = inQueue - 1
  /\ decoding' = decoding - 1
  /\ pass' = Onward
  /\ UNCHANGED <<stores, pics, note, asker>>
-----------------------------------------------------------------------------
(* What happens around them.                                               *)

\* Somebody writes the photo again: fresh bytes, nothing derived from them.
Overwrite(p, drawable) ==
  /\ FoldFunction(+, 0, bytes) < MaxWrites
  /\ bytes' = [bytes EXCEPT ![p] = @ + 1]
  /\ hard' = IF drawable THEN hard ELSE hard \cup {<<p, bytes[p] + 1>>}
  /\ pics' = [pics EXCEPT ![p] = {}]
  /\ note' = [note EXCEPT ![p] = "none"]
  /\ UNCHANGED <<upgraded, weeks, row, inQueue, decoding, asker, pass>>

\* A week goes by: rows come due and notes are ready for the sweep.  No
\* request lasts one, so none is between its two writes.
Week ==
  /\ pass.at # "recording" /\ \A a \in Askers : ~AskerAt(a, "storing")
  /\ row' = [p \in Photos |-> [row[p] EXCEPT !.old = row[p].state = "refused"]]
  /\ note' = [p \in Photos |-> IF note[p] = "none" THEN "none" ELSE "old"]
  /\ weeks < MaxWeeks
  /\ weeks' = weeks + 1
  /\ UNCHANGED <<bytes, hard, upgraded, pics, inQueue, decoding, asker, pass>>

SweepNote(p) ==
  /\ note[p] = "old"
  /\ note' = [note EXCEPT ![p] = "none"]
  /\ UNCHANGED <<stores, pics, row, inQueue, decoding, asker, pass>>

\* The server is restarted on a build that draws more.
Upgrade ==
  /\ ~upgraded
  /\ upgraded' = TRUE
  /\ inQueue' = 0
  /\ decoding' = 0
  /\ asker' = [a \in Askers |-> NoAsk]
  /\ pass' = NoPass
  /\ UNCHANGED <<bytes, hard, weeks, pics, note, row>>
-----------------------------------------------------------------------------
AskerSteps(a) == TakeDecoder(a) \/ GiveUp(a) \/ Decode(a) \/ Outcome(a) \/ Answer(a)
PassSteps == PassLooks \/ Prepare \/ PassTakes \/ PassDecodes \/ PassKeeps \/ PassRecords
PassDraws == PassDecodes /\ pass'.got # "unreachable"
PassStores == PassKeeps /\ pass'.at = "recording"

Next ==
  \/ \E a \in Askers, p \in Photos, size \in Sizes : Ask(a, p, size)
  \/ \E a \in Askers : AskerSteps(a)
  \/ PassSteps
  \/ \E p \in Photos, drawable \in BOOLEAN : Overwrite(p, drawable)
  \/ Week
  \/ \E p \in Photos : SweepNote(p)
  \/ Upgrade

\* The server runs, the sweep comes round, and a store that can be reached
\* answers some of the reads and writes it is asked for.
Fairness ==
  /\ \A a \in Askers : WF_tvars(AskerSteps(a))
  /\ WF_tvars(PassSteps) /\ SF_tvars(PassDraws) /\ SF_tvars(PassStores)
  /\ \A p \in Photos : WF_tvars(SweepNote(p))

Spec == Init /\ [][Next]_tvars /\ Fairness
-----------------------------------------------------------------------------
\* When nobody is asking and the pass is away, the queue is empty and every
\* decoder is free.
NothingHeldAtRest ==
  (\A a \in Askers : AskerAt(a, "idle")) /\ pass.at \notin {"decoding", "decoded", "recording"} =>
    inQueue = 0 /\ decoding = 0

\* A refusal is written down, beside the bytes or on the row, only of bytes
\* that some build could not draw: never because the store did not answer.
RefusalsAreAboutTheBytes ==
  \A p \in Photos :
    /\ note[p] # "none" => Present(p) \in hard
    /\ row[p].state = "refused" => <<p, row[p].version>> \in hard

\* The two halves of a refusal expire together: while an old note stands, the
\* row that repeats it is due as well (ahead.go, "Dated by the note").
RefusalsExpireTogether ==
  \A p \in Photos :
    note[p] = "old" /\ row[p].state = "refused" /\ row[p].version = bytes[p] => row[p].old

\* Once nobody asks, every photo that can be reached gets its picture or a
\* verdict about its present bytes, and again when a week has gone by.
Quiet == \A a \in Askers : AskerAt(a, "idle")
EveryPhotoIsTried == <>[]Quiet => \A p \in Photos \ LostPhotos : []<>~Pending(p)
=============================================================================
