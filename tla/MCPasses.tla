------------------------------ MODULE MCPasses ------------------------------
(***************************************************************************)
(* Requests and background passes that must get done, side by side: they   *)
(* share no state, so each behaviour is of the one that "which" names, and *)
(* the state space is the sum of theirs.                                   *)
(***************************************************************************)
EXTENDS Naturals

CONSTANTS
  Parts,   \* the ones a run is about
  Requests, Pieces, TranscodeSlots, EncodeSlots, MidwayDeaths,
  Photos, Sizes, PassSizes, Askers, Decoders, DecodeQueue, Batch, MaxWrites, MaxWeeks, LostPhotos

VARIABLES
  which,
  job, ffmpeg, output, gone, slots, encodeSlots, grants, kept,                            \* Streaming
  bytes, hard, upgraded, pics, note, row, inQueue, decoding, asker, weeks, pass           \* Thumbs

Streaming == INSTANCE Streaming
Thumbs    == INSTANCE Thumbs

svars == <<job, ffmpeg, output, gone, slots, encodeSlots, grants, kept>>
tvars == <<bytes, hard, upgraded, pics, note, row, inQueue, decoding, asker, weeks, pass>>
vars  == <<which, svars, tvars>>

Init ==
  /\ which \in Parts
  /\ Streaming!Init /\ Thumbs!Init
  /\ which # "thumbs" => hard = {}

Next ==
  /\ UNCHANGED which
  /\ \/ which = "streaming" /\ Streaming!Next /\ UNCHANGED tvars
     \/ which = "thumbs"    /\ Thumbs!Next    /\ UNCHANGED svars

\* Streaming's fairness is idle while nobody asks; the pass moves by itself.
Spec ==
  /\ Init /\ [][Next]_vars
  /\ Streaming!Fairness
  /\ which = "thumbs" => Thumbs!Fairness
-----------------------------------------------------------------------------
\* When nobody is served nothing is held: no slot, token, process, place in
\* the queue or decoder; and a token lives as long as its process (Streaming,
\* Thumbs).
NothingLeaks == Streaming!NothingLeaks /\ Streaming!GrantsFollowProcesses /\ Thumbs!NothingHeldAtRest

\* No re-encoded segment is kept half-written (Streaming).
KeptIsWhole == Streaming!KeptIsWhole

\* Every request for a stream ends (Streaming).
EveryRequestEnds == Streaming!EveryRequestEnds

\* A refusal is about the bytes there are, and its note and its row expire
\* together (Thumbs).
RefusalsAreHonest == Thumbs!RefusalsAreAboutTheBytes /\ Thumbs!RefusalsExpireTogether

\* Every photo gets its picture or a verdict (Thumbs).
EveryPhotoIsTried == which = "thumbs" => Thumbs!EveryPhotoIsTried
=============================================================================
