----------------------------- MODULE Streaming -----------------------------
(***************************************************************************)
(* The processes behind playback (internal/media/stream): a transcode or a *)
(* remuxed segment is one ffmpeg that reads its file through the loopback  *)
(* listener and writes into the response; a re-encoded segment is one      *)
(* whose output is buffered whole, kept in the blob store and then sent.   *)
(* Slots bound both kinds, a grant lets one process read one file.         *)
(*                                                                         *)
(* Steps of requests, of their ffmpeg processes and of clients that go     *)
(* away interleave.                                                        *)
(***************************************************************************)
EXTENDS Naturals, FiniteSets

CONSTANTS
  Requests,
  Pieces,        \* the re-encoded segments that may be asked for
  TranscodeSlots, EncodeSlots,
  MidwayDeaths   \* whether an ffmpeg may die of itself after its first byte

VARIABLES
  job,         \* what each request is doing: [at, piece]; piece "" is a transcode or a remux
  ffmpeg,      \* its process: none, alive, killed or exited
  output,      \* what the process wrote: none, some, all
  gone,        \* the requests whose client went away: their context is done
  slots,       \* Transcoder.slots taken
  encodeSlots, \* Encoder.slots taken
  grants,      \* the tokens the loopback knows, a request's own each
  kept         \* the derived blob of each segment: none, half, whole

svars == <<job, ffmpeg, output, gone, slots, encodeSlots, grants, kept>>

Places == {"idle", "looked", "begin", "granted", "started", "copying", "closed", "sending"}

TypeOK ==
  /\ job \in [Requests -> [at : Places, piece : Pieces \cup {""}]]
  /\ ffmpeg \in [Requests -> {"none", "alive", "killed", "exited"}]
  /\ output \in [Requests -> {"none", "some", "all"}]
  /\ gone \subseteq Requests
  /\ slots \in 0..TranscodeSlots
  /\ encodeSlots \in 0..EncodeSlots
  /\ grants \subseteq Requests
  /\ kept \in [Pieces -> {"none", "half", "whole"}]

Init ==
  /\ job = [r \in Requests |-> [at |-> "idle", piece |-> ""]]
  /\ ffmpeg = [r \in Requests |-> "none"]
  /\ output = [r \in Requests |-> "none"]
  /\ gone = {}
  /\ slots = 0
  /\ encodeSlots = 0
  /\ grants = {}
  /\ kept = [p \in Pieces |-> "none"]

At(r, place) == job[r].at = place
Go(r, place) == job' = [job EXCEPT ![r].at = place]
Encodes(r)   == job[r].piece # ""
Idle(r)      == [job EXCEPT ![r] = [at |-> "idle", piece |-> ""]]

\* Grant, and the revoke it answers with.
Granted(r) == grants \cup {r}
Revoked(r) == grants \ {r}

\* The request ends: the client has its answer, or is gone.
Answered(r) ==
  /\ job' = Idle(r)
  /\ gone' = gone \ {r}
  /\ ffmpeg' = [ffmpeg EXCEPT ![r] = "none"]
  /\ output' = [output EXCEPT ![r] = "none"]
-----------------------------------------------------------------------------
\* Transcode, Transcoder.Segment.
Transcode(r) ==
  /\ At(r, "idle")
  /\ Go(r, "begin")
  /\ UNCHANGED <<ffmpeg, output, gone, slots, encodeSlots, grants, kept>>

\* Encoder.Segment: from the store when it was made before.
EncodeSegment(r, p) ==
  /\ At(r, "idle")
  /\ job' = [job EXCEPT ![r] = [at |-> IF kept[p] = "none" THEN "looked" ELSE "sending", piece |-> p]]
  /\ UNCHANGED <<ffmpeg, output, gone, slots, encodeSlots, grants, kept>>

TakeEncodeSlot(r) ==
  /\ At(r, "looked")
  /\ IF encodeSlots < EncodeSlots
     THEN /\ encodeSlots' = encodeSlots + 1
          /\ Go(r, "begin")
          /\ UNCHANGED <<ffmpeg, output, gone>>
     ELSE Answered(r) /\ UNCHANGED encodeSlots   \* ErrBusy
  /\ UNCHANGED <<slots, grants, kept>>

\* The deferred release of Encoder.Segment, on every way out of run.
FreedEncodeSlot(r) == IF Encodes(r) THEN encodeSlots - 1 ELSE encodeSlots

\* run, up to the grant.
TakeSlot(r) ==
  /\ At(r, "begin")
  /\ IF slots < TranscodeSlots
     THEN /\ slots' = slots + 1
          /\ grants' = Granted(r)
          /\ Go(r, "granted")
          /\ UNCHANGED <<ffmpeg, output, gone, encodeSlots>>
     ELSE /\ Answered(r)                         \* ErrBusy
          /\ encodeSlots' = FreedEncodeSlot(r)
          /\ UNCHANGED <<slots, grants>>
  /\ UNCHANGED kept

\* Mutant: only Close gives the slot back.
StartKeepsSlot(r) ==
  /\ At(r, "granted")
  /\ \/ /\ r \notin gone
        /\ ffmpeg' = [ffmpeg EXCEPT ![r] = "alive"]
        /\ Go(r, "started")
        /\ UNCHANGED <<output, gone, slots, encodeSlots, grants>>
     \/ /\ Answered(r)
        /\ grants' = Revoked(r)
        /\ encodeSlots' = FreedEncodeSlot(r)
        /\ UNCHANGED slots
  /\ UNCHANGED kept

\* StdoutPipe and Start; a context already done fails it, and so may the system.
Start(r) ==
  /\ At(r, "granted")
  /\ \/ /\ r \notin gone
        /\ ffmpeg' = [ffmpeg EXCEPT ![r] = "alive"]
        /\ Go(r, "started")
        /\ UNCHANGED <<output, gone, slots, encodeSlots, grants>>
     \/ /\ Answered(r)
        /\ slots' = slots - 1
        /\ grants' = Revoked(r)
        /\ encodeSlots' = FreedEncodeSlot(r)
  /\ UNCHANGED kept

\* Mutant: nobody notices a process that ends without a byte.
PeekWaits(r) ==
  /\ At(r, "started") /\ output[r] # "none"
  /\ Go(r, "copying")
  /\ UNCHANGED <<ffmpeg, output, gone, slots, encodeSlots, grants, kept>>

\* Peek: the first byte, or the end before it.
Peek(r) ==
  /\ At(r, "started")
  /\ \/ output[r] # "none" /\ Go(r, "copying")
     \/ output[r] = "none" /\ ffmpeg[r] \in {"killed", "exited"} /\ Go(r, "closed")
  /\ UNCHANGED <<ffmpeg, output, gone, slots, encodeSlots, grants, kept>>

\* io.Copy into the response, which ends with the output or with the client;
\* into the buffer, with the output alone, however the process ended.
Copied(r) ==
  /\ At(r, "copying")
  /\ ffmpeg[r] \in {"killed", "exited"} \/ (r \in gone /\ ~Encodes(r))
  /\ Go(r, "closed")
  /\ UNCHANGED <<ffmpeg, output, gone, slots, encodeSlots, grants, kept>>

\* transcodeOutput.Close: cancel, revoke, the slot, and then Wait.
Close(r) ==
  /\ At(r, "closed") /\ r \in grants
  /\ slots' = slots - 1
  /\ grants' = Revoked(r)
  /\ IF Encodes(r) /\ output[r] # "none"
     THEN /\ ffmpeg' = [ffmpeg EXCEPT ![r] = IF @ = "alive" THEN "killed" ELSE @]
          /\ UNCHANGED <<job, output, gone, encodeSlots>>
     ELSE Answered(r) /\ encodeSlots' = FreedEncodeSlot(r)
  /\ UNCHANGED kept

\* Mutant: the context of the request is not looked at.
KeepAnyway(r) ==
  /\ At(r, "closed") /\ r \notin grants
  /\ kept' = [kept EXCEPT ![job[r].piece] = IF output[r] = "all" THEN "whole" ELSE "half"]
  /\ encodeSlots' = FreedEncodeSlot(r)
  /\ Answered(r)
  /\ UNCHANGED <<slots, grants>>

\* Put of what was copied, refused when the context is done and free to fail
\* otherwise; the segment is sent either way.
Keep(r) ==
  /\ At(r, "closed") /\ r \notin grants
  /\ kept' \in {kept} \cup
       IF r \in gone THEN {}
       ELSE {[kept EXCEPT ![job[r].piece] = IF output[r] = "all" THEN "whole" ELSE "half"]}
  /\ encodeSlots' = FreedEncodeSlot(r)
  /\ Answered(r)
  /\ UNCHANGED <<slots, grants>>

\* A segment out of the store.
SendKept(r) ==
  /\ At(r, "sending")
  /\ Answered(r)
  /\ UNCHANGED <<slots, encodeSlots, grants, kept>>
-----------------------------------------------------------------------------
\* ffmpeg writes some of its output, having read it through the loopback.
ffmpegWrites(r) ==
  /\ ffmpeg[r] = "alive" /\ r \in grants
  /\ output[r] = "none"
  /\ output' = [output EXCEPT ![r] = "some"]
  /\ UNCHANGED <<job, ffmpeg, gone, slots, encodeSlots, grants, kept>>

\* It ends, with everything written.
ffmpegEnds(r) ==
  /\ ffmpeg[r] = "alive" /\ r \in grants
  /\ output[r] = "some"
  /\ ffmpeg' = [ffmpeg EXCEPT ![r] = "exited"]
  /\ output' = [output EXCEPT ![r] = "all"]
  /\ UNCHANGED <<job, gone, slots, encodeSlots, grants, kept>>

\* It gives up: a file it cannot read, and midway a read that fails or no memory.
ffmpegDies(r) ==
  /\ ffmpeg[r] = "alive"
  /\ output[r] = "none" \/ MidwayDeaths
  /\ ffmpeg' = [ffmpeg EXCEPT ![r] = "exited"]
  /\ UNCHANGED <<job, output, gone, slots, encodeSlots, grants, kept>>

\* The client goes away: the request's context is done, which kills a process.
Leave(r) ==
  /\ ~At(r, "idle") /\ r \notin gone
  /\ gone' = gone \cup {r}
  /\ ffmpeg' = [ffmpeg EXCEPT ![r] = IF @ = "alive" THEN "killed" ELSE @]
  /\ UNCHANGED <<job, output, slots, encodeSlots, grants, kept>>

\* The sweep collects a segment kept a week.
Expire(p) ==
  /\ kept[p] # "none"
  /\ kept' = [kept EXCEPT ![p] = "none"]
  /\ UNCHANGED <<job, ffmpeg, output, gone, slots, encodeSlots, grants>>
-----------------------------------------------------------------------------
Steps(r) == TakeEncodeSlot(r) \/ TakeSlot(r) \/ Start(r) \/ Peek(r) \/ Copied(r) \/ Close(r) \/ Keep(r) \/ SendKept(r)
Process(r) == ffmpegWrites(r) \/ ffmpegEnds(r) \/ ffmpegDies(r)

Next ==
  \/ \E r \in Requests : Transcode(r) \/ (\E p \in Pieces : EncodeSegment(r, p))
  \/ \E r \in Requests : Steps(r)
  \/ \E r \in Requests : Process(r)
  \/ \E r \in Requests : Leave(r)
  \/ \E p \in Pieces : Expire(p)

\* The server runs, ffmpeg gets on and a client reads what it asked for or
\* leaves; nobody has to ask again.
Fairness == \A r \in Requests : WF_svars(Steps(r)) /\ WF_svars(Process(r))

Spec == Init /\ [][Next]_svars /\ Fairness
-----------------------------------------------------------------------------
\* When nobody is being served nothing is held: no slot of either kind, no
\* token, no process (transcoder.go run and Close, encode.go Segment).
NothingLeaks ==
  (\A r \in Requests : At(r, "idle")) =>
    slots = 0 /\ encodeSlots = 0 /\ grants = {} /\ \A r \in Requests : ffmpeg[r] = "none"

\* A process that is wanted can read its file for as long as it lives, and a
\* token names nothing once it is over (loopback.go, "the token lives exactly
\* as long as the transcode").
GrantsFollowProcesses ==
  \A r \in Requests :
    /\ ffmpeg[r] = "alive" => r \in grants
    /\ r \in grants => job[r].at \in {"granted", "started", "copying", "closed"}

\* No segment is kept half-written (encode.go, "Whole before it is sent"),
\* whatever the clients do.  Violated when ffmpeg may die midway: the copy ends
\* without an error and Wait's is dropped.
KeptIsWhole == \A p \in Pieces : kept[p] # "half"

\* Every request is answered.
EveryRequestEnds == \A r \in Requests : ~At(r, "idle") ~> At(r, "idle")
=============================================================================
