------------------------------ MODULE Playback ------------------------------
(***************************************************************************)
(* What plays (internal/media/stream): whether a track is sent as it is or *)
(* transcoded, and into what; a film cut into HLS segments; and the        *)
(* requests that carry those answers back to the server (subsonic's stream *)
(* and transcoding extension, web's ?format= and ?hls=).                   *)
(*                                                                         *)
(* One client and one file, picked by the first step; every other action   *)
(* is one request.  Bitrates are in kbit/s, rates in units of 50 Hz, times *)
(* in units of 10 ms.                                                      *)
(***************************************************************************)
EXTENDS Integers, Sequences, SequencesExt, FiniteSetsExt

CONSTANTS
  Sources,   \* what the indexer knows of a track: [codec, bitrate, rate, channels, depth]
  Clients,  \* clientInfo, and what the client asks of stream and ?format=:
            \* [max, maxTranscode, direct, targets, limits, asks], an ask [format, max]
  Films     \* a film and its index: [codec, hdr, dovi5, browser, keys, duration, counted]

VARIABLES
  subject,  \* the file, and the client that asks for it
  encodes,  \* whether re-encoded films are offered now, a setting
  given,    \* what the client was given to come back with: a plan, or segments
  answer    \* what the last request was told

vars == <<subject, encodes, given, answer>>

LeastOf(a, b) == IF a < b THEN a ELSE b
MostOf(a, b)  == IF a > b THEN a ELSE b
Or(v, fallback) == IF v = 0 THEN fallback ELSE v
-----------------------------------------------------------------------------
(* Targets and the simple policy.                                          *)

LossyRates == <<960, 882, 640, 480, 441, 320, 240>>

\* targets, with the sample rates down to 12 kHz.
targets == [
  mp3  |-> [lossless |-> FALSE, maxChannels |-> 2, fallback |-> 192, ceiling |-> 320, rates |-> LossyRates],
  opus |-> [lossless |-> FALSE, maxChannels |-> 8, fallback |-> 128, ceiling |-> 256,
            rates |-> <<960, 480, 320, 240>>],
  aac  |-> [lossless |-> FALSE, maxChannels |-> 8, fallback |-> 192, ceiling |-> 320, rates |-> LossyRates],
  flac |-> [lossless |-> TRUE, maxChannels |-> 8, fallback |-> 0, ceiling |-> 0, rates |-> <<>>]]

\* packaging: the containers each format goes out in, the default one first.
packaging == [mp3 |-> <<"mp3">>, opus |-> <<"ogg", "opus", "oga">>,
              aac |-> <<"aac", "adts", "mp4", "m4a">>, flac |-> <<"flac">>]
Packaged(format, container) == container \in Range(packaging[format])
DefaultContainer(format) == packaging[format][1]

lossless(codec) == codec \in {"flac", "alac", "pcm"}

\* min2: zero is unknown and left alone.
Min2(n, most) == IF n = 0 THEN 0 ELSE LeastOf(n, most)

\* rateFor: 0 keeps the source's own.
RateFor(rates, source) ==
  LET even == {r \in Range(rates) : r <= source /\ source % r = 0}
  IN IF rates = <<>> \/ source = 0 \/ source \in Range(rates) THEN 0
     ELSE IF even # {} THEN Max(even) ELSE rates[1]

Direct == [direct |-> TRUE]
Planned(format, container, bitrate, rate, channels, depth) ==
  [direct |-> FALSE, format |-> format, container |-> container, bitrate |-> bitrate,
   rate |-> rate, channels |-> channels, depth |-> depth]

TooLarge(m, max) == max > 0 /\ (m.bitrate = 0 \/ m.bitrate > max)

\* Decide, for a track and what stream or ?format= asked for.
Decide(m, ask) ==
  LET named == ask.format \in DOMAIN targets
      large == TooLarge(m, ask.max)
      format == IF ~named \/ (targets[ask.format].lossless /\ large) THEN "mp3" ELSE ask.format
      t == targets[format]
      limits == {t.fallback, t.ceiling} \cup (IF ask.max > 0 THEN {ask.max} ELSE {})
                  \cup (IF ~lossless(m.codec) /\ m.bitrate > 0 THEN {m.bitrate} ELSE {})
  IN IF \/ ask.format = "raw"
        \/ (~named \/ ask.format = m.codec) /\ ~large
        \/ named /\ targets[ask.format].lossless /\ ~lossless(m.codec)
     THEN Direct
     ELSE Planned(format, DefaultContainer(format),
                  IF t.lossless THEN 0 ELSE Min(limits), RateFor(t.rates, m.rate),
                  IF t.lossless THEN 0 ELSE Min2(m.channels, 2), 0)
-----------------------------------------------------------------------------
(* The policy for a client that described itself.                          *)

\* compare: a value nobody knows is let through.
Compare(v, l) ==
  v = 0 \/ l.values = <<>> \/
    CASE l.op = "LessThanEqual"    -> v <= l.values[1]
      [] l.op = "GreaterThanEqual" -> v >= l.values[1]
      [] l.op = "Equals"           -> v \in Range(l.values)
      [] l.op = "NotEquals"        -> v \notin Range(l.values)

\* lower: the value that meets the limit, or 0 for none that is not a raise.
Lower(v, l, allowed) ==
  LET fits(want) == IF allowed = <<>> THEN {want} ELSE {a \in Range(allowed) : a <= want}
      good == {n \in UNION {fits(w) : w \in Range(l.values)} :
                 /\ n <= v
                 /\ \/ l.op = "LessThanEqual" /\ n <= l.values[1]
                    \/ l.op = "Equals" /\ n \in Range(l.values)}
  IN IF Compare(v, l) THEN v ELSE IF good = {} THEN 0 ELSE Max(good)

Facts(m) == [bitrate |-> m.bitrate, rate |-> m.rate, channels |-> m.channels, depth |-> m.depth]

\* matchCodec: the profiles that speak of a codec.
LimitsOn(c, codec) == SelectSeq(c.limits, LAMBDA l : l.codec = codec)

\* directMisfit.
PlaysAsItIs(m, p, c) ==
  /\ p.codecs = {} \/ m.codec \in p.codecs
  /\ p.channels = 0 \/ m.channels <= p.channels
  /\ \A l \in Range(LimitsOn(c, m.codec)) : l.required => Compare(Facts(m)[l.name], l)

\* One limit of the target codec against what is planned so far; "fits"
\* falls and stays down.
Limited(m, t, w, l) ==
  LET v  == w[l.name]
      to == CASE l.name = "rate"  -> Lower(v, l, t.rates)
              [] l.name = "depth" -> Lower(v, l, <<v, 16>>)
              [] OTHER            -> Lower(v, l, <<>>)
  IN IF l.name = "bitrate" /\ t.lossless
     THEN [w EXCEPT !.fits = @ /\ Compare(m.bitrate, l)]
     ELSE [w EXCEPT ![l.name] = to, !.fits = @ /\ (v = 0 \/ to # 0)]

ContainerOf(p) == IF p.container # "" THEN p.container ELSE DefaultContainer(p.codec)

NoPlan == [direct |-> FALSE, format |-> "none"]

\* Mutant: the source's bitrate is not looked at.
BitrateOfTarget(m, t, c) ==
  IF t.lossless THEN 0 ELSE LeastOf(t.ceiling, t.fallback)

BitrateFor(m, t, c) ==
  LET wanted == IF lossless(m.codec) \/ m.bitrate = 0
                THEN Or(c.maxTranscode, Or(c.max, t.fallback)) ELSE m.bitrate
  IN IF t.lossless THEN 0
     ELSE LeastOf(t.ceiling, IF c.max > 0 THEN LeastOf(wanted, c.max) ELSE wanted)

\* planFor: the transcode a target profile asks for, or none.
PlanFor(m, p, c) ==
  LET t == targets[p.codec]
      channels == Min2(m.channels, IF p.channels > 0 THEN LeastOf(t.maxChannels, p.channels) ELSE t.maxChannels)
      start == [bitrate |-> BitrateFor(m, t, c), rate |-> Or(RateFor(t.rates, m.rate), m.rate),
                channels |-> channels, depth |-> IF t.lossless THEN m.depth ELSE 0, fits |-> TRUE]
      w == FoldLeft(LAMBDA acc, l : Limited(m, t, acc, l), start, LimitsOn(c, p.codec))
  IN IF \/ ~Packaged(p.codec, ContainerOf(p))
        \/ t.lossless /\ (~lossless(m.codec) \/ TooLarge(m, c.max))
        \/ ~w.fits
     THEN NoPlan
     ELSE Planned(p.codec, ContainerOf(p), w.bitrate,
                  IF w.rate # m.rate THEN w.rate ELSE 0,
                  IF w.channels # m.channels THEN w.channels ELSE 0,
                  IF t.lossless /\ w.depth = 16 /\ m.depth > 16 THEN 16 ELSE 0)

\* DecideFor.
DecideFor(m, c) ==
  LET plans == SelectSeq([i \in DOMAIN c.targets |-> PlanFor(m, c.targets[i], c)],
                         LAMBDA p : p # NoPlan)
  IN IF ~TooLarge(m, c.max) /\ \E p \in c.direct : PlaysAsItIs(m, p, c) THEN Direct
     ELSE IF plans = <<>> THEN NoPlan ELSE plans[1]

\* PlanFromParams: what getTranscodeStream takes for a plan of this server.
Redeemable(p) ==
  LET t == targets[p.format]
  IN /\ Packaged(p.format, p.container)
     /\ t.lossless => p.bitrate = 0
     /\ p.bitrate <= t.ceiling
     /\ p.rate # 0 => p.rate \in Range(t.rates)
     /\ p.channels <= t.maxChannels
     /\ p.depth # 0 => t.lossless /\ p.depth = 16
-----------------------------------------------------------------------------
(* Films as HLS.                                                           *)

segmentTarget == 600
maxSegment    == 6000
seekBackoff   == 15
FrameDuration == 4     \* 25 frames a second
encodedTarget == 600

\* What a container says of keyframe i: its place in decode order.
KeySample(ix, i) == IF i > Len(ix.keys) THEN ix.duration \div FrameDuration ELSE ix.keys[i] \div FrameDuration

Rounded(a, b) == (2 * a + b) \div (2 * b)

FramesBetween(ix, i, j) ==
  IF ix.counted THEN KeySample(ix, j) - KeySample(ix, i)
  ELSE Rounded((IF j > Len(ix.keys) THEN ix.duration + FrameDuration ELSE ix.keys[j]) - ix.keys[i], FrameDuration)

Seek(ix, i) ==
  IF i = 1 THEN 0
  ELSE ix.keys[i] + (IF i < Len(ix.keys) THEN LeastOf(seekBackoff, (ix.keys[i + 1] - ix.keys[i]) \div 2)
                     ELSE seekBackoff)

\* Where segments begin: the first keyframe, and every one a target past the
\* last such, and before the end.
Cuts(ix) ==
  FoldLeft(LAMBDA cuts, i :
             LET start == IF Len(cuts) = 1 THEN 0 ELSE ix.keys[Last(cuts)]
             IN IF i > 1 /\ ix.keys[i] - start >= segmentTarget /\ ix.keys[i] < ix.duration
                THEN Append(cuts, i) ELSE cuts,
           <<1>>, [i \in DOMAIN ix.keys |-> i])

\* Segments; [start, length, frames, seek] is also what a segment is called.
Segments(ix) ==
  LET cuts == Cuts(ix)
      start(n) == IF n = 1 THEN 0 ELSE ix.keys[cuts[n]]
      end(n)   == IF n = Len(cuts) THEN ix.duration ELSE ix.keys[cuts[n + 1]]
      all == [n \in DOMAIN cuts |->
               [start |-> start(n), length |-> end(n) - start(n), seek |-> Seek(ix, cuts[n]),
                frames |-> FramesBetween(ix, cuts[n], IF n = Len(cuts) THEN Len(ix.keys) + 1 ELSE cuts[n + 1])]]
  IN SelectSeq(all, LAMBDA s : s.length > 0)

\* Mutant: a segment is never longer than it is meant to be.
ParseShort(s) == s.length > 0 /\ s.length <= segmentTarget /\ s.seek >= s.start

\* ParseSegment: a name that asks for no more than a segment is.
ParseSegment(s) ==
  /\ s.length > 0 /\ s.length <= maxSegment
  /\ s.frames > 0 /\ 100 * s.frames <= s.length * 240 + 100
  /\ s.seek >= s.start /\ s.seek <= s.start + s.length

\* EncodedSegments and ParseEncoded: a fixed grid.
EncodedSegments(duration) ==
  [n \in 1..((duration + encodedTarget - 1) \div encodedTarget) |->
    [start |-> (n - 1) * encodedTarget, length |-> LeastOf(encodedTarget, duration - (n - 1) * encodedTarget)]]
ParseEncoded(s) == s.start >= 0 /\ s.length > 0 /\ s.length <= encodedTarget

RemuxFor(f)    == f.codec \in {"h264", "hevc"}
NeedsEncode(f) == f.codec # "h264" \/ f.hdr
EncodeFor(f)   == f.duration > 0 /\ ~f.dovi5
encoding(f)    == encodes /\ NeedsEncode(f) /\ EncodeFor(f)
-----------------------------------------------------------------------------
(* The requests.                                                           *)

IsTrack == subject.kind = "track"
IsFilm  == subject.kind = "film"

Sent(what) == [sent |-> what]
Transcoded(plan) == [sent |-> "transcode", plan |-> plan]

\* What the transcoder makes of a plan: the output, no free slot, or no output.
Outcomes(plan, busy) == {Transcoded(plan), Sent(busy), Sent("error")}

\* subsonic's stream: the original when every slot is taken.
Stream(ask) ==
  /\ IsTrack
  /\ LET plan == Decide(subject.track, ask)
     IN answer' \in IF plan = Direct THEN {Sent("original")} ELSE Outcomes(plan, "original")
  /\ UNCHANGED <<subject, encodes, given>>

\* The file's own URL with ?format=: 503 when every slot is taken.
transcoded(ask) ==
  /\ IsTrack
  /\ LET plan == Decide(subject.track, ask)
     IN answer' \in IF plan = Direct THEN {Sent("original")} ELSE Outcomes(plan, "busy")
  /\ UNCHANGED <<subject, encodes, given>>

\* getTranscodeDecision.
transcodeDecision ==
  /\ IsTrack
  /\ LET plan == DecideFor(subject.track, subject.client)
     IN /\ answer' = [sent |-> "decision", plan |-> plan]
        /\ given' = IF plan \in {Direct, NoPlan} THEN <<>> ELSE <<plan>>
  /\ UNCHANGED <<subject, encodes>>

\* getTranscodeStream, with the parameters the decision gave.
transcodeStream ==
  /\ IsTrack /\ given # <<>>
  /\ answer' \in IF Redeemable(given[1]) THEN Outcomes(given[1], "busy") ELSE {Sent("badParams")}
  /\ UNCHANGED <<subject, encodes, given>>

\* play: whether the page offers a playlist ahead of the file.
play ==
  /\ IsFilm
  /\ LET f == subject.film
     IN answer' = Sent(IF ~f.browser /\ (RemuxFor(f) \/ encoding(f)) THEN "playlist" ELSE "file")
  /\ UNCHANGED <<subject, encodes, given>>

Named(kind, segments) == [n \in DOMAIN segments |-> [kind |-> kind, segment |-> segments[n]]]
CopyList(f)    == Named("copy", Segments(f))
EncodedList(f) == Named("h264", EncodedSegments(f.duration))

\* hls with a playlist's name.  index.m3u8 is the master over both when there
\* are two ways, and the one there is otherwise.
hlsPlaylist(which) ==
  /\ IsFilm
  /\ LET f == subject.film
     IN IF which = "index" /\ RemuxFor(f) /\ encoding(f)
        THEN answer' = Sent("master") /\ UNCHANGED given
        ELSE IF which \in {"index", "copy"} /\ RemuxFor(f)
        THEN IF CopyList(f) = <<>> THEN answer' = Sent("notFound") /\ UNCHANGED given
             ELSE answer' = Sent("playlist") /\ given' = CopyList(f)
        ELSE IF which \in {"index", "h264"} /\ encoding(f)
        THEN answer' = Sent("playlist") /\ given' = EncodedList(f)
        ELSE answer' = Sent("notFound") /\ UNCHANGED given
  /\ UNCHANGED <<subject, encodes>>

\* hls with a segment's name, one the client was given.
hlsSegment(n) ==
  /\ IsFilm /\ n \in DOMAIN given
  /\ LET f == subject.film
         s == given[n].segment
         ok == {[sent |-> given[n].kind, segment |-> s], Sent("busy"), Sent("error")}
     IN answer' \in
          IF given[n].kind = "h264" /\ encoding(f)
          THEN IF ParseEncoded(s) THEN ok ELSE {Sent("badSegment")}
          ELSE IF RemuxFor(f)
          THEN IF given[n].kind = "copy" /\ ParseSegment(s) THEN ok ELSE {Sent("badSegment")}
          ELSE {Sent("notFound")}
  /\ UNCHANGED <<subject, encodes, given>>

\* The administrator turns re-encoding on or off while the server runs.
SetEncodes ==
  /\ IsFilm
  /\ encodes' = ~encodes
  /\ UNCHANGED <<subject, given, answer>>

Subjects == [kind : {"track"}, track : Sources, client : Clients] \cup [kind : {"film"}, film : Films]

NoSubject == [kind |-> "none"]

Pick(s) ==
  /\ subject = NoSubject
  /\ subject' = s
  /\ UNCHANGED <<encodes, given, answer>>

Init ==
  /\ subject = NoSubject
  /\ encodes = FALSE
  /\ given = <<>>
  /\ answer = Sent("nothing")

Next ==
  \/ \E s \in Subjects : Pick(s)
  \/ IsTrack /\ \E ask \in subject.client.asks : Stream(ask) \/ transcoded(ask)
  \/ transcodeDecision
  \/ transcodeStream
  \/ play
  \/ \E which \in {"index", "copy", "h264"} : hlsPlaylist(which)
  \/ \E n \in DOMAIN given : hlsSegment(n)
  \/ SetEncodes

Spec == Init /\ [][Next]_vars
-----------------------------------------------------------------------------
(* Properties.                                                             *)

PlanAnswered == "plan" \in DOMAIN answer /\ answer.plan \notin {Direct, NoPlan}

\* No plan pretends to be better than its source: not lossless out of lossy,
\* no more bits a second than a lossy source has, no more channels, and no
\* deeper samples (transcode.go, "never pretends to be better").
NeverBetterThanTheSource ==
  PlanAnswered =>
    LET p == answer.plan
        m == subject.track
    IN /\ targets[p.format].lossless => lossless(m.codec)
       /\ ~lossless(m.codec) /\ m.bitrate > 0 => p.bitrate <= m.bitrate
       /\ m.channels > 0 => p.channels <= m.channels
       /\ m.depth > 0 => p.depth <= m.depth

\* A decision for a client that named a bitrate keeps to it, whether the file
\* goes out as it is or in any target's format.
CeilingKept ==
  answer.sent = "decision" /\ subject.client.max > 0 =>
    LET m == subject.track
        c == subject.client
    IN \/ answer.plan = NoPlan
       \/ (answer.plan = Direct \/ targets[answer.plan.format].lossless) /\ m.bitrate # 0 /\ m.bitrate <= c.max
       \/ PlanAnswered /\ answer.plan.bitrate \in 1..c.max

\* What getTranscodeDecision gives, getTranscodeStream takes.  A client whose
\* limits ask for a lower rate of a lossless target is the exception
\* (DecisionsAreRedeemed).
LossyDecisionsAreRedeemed ==
  IsTrack /\ given # <<>> /\ ~targets[given[1].format].lossless => answer.sent # "badParams"

\* The same of every decision.  Violated: a rate lowered for FLAC is refused.
DecisionsAreRedeemed == answer.sent # "badParams"

CopyGiven == IsFilm /\ given # <<>> /\ given[1].kind = "copy"

\* The segments of a playlist tile the film: the first starts at zero, each
\* ends where the next starts and the last at the film's end.
SegmentsTile ==
  IsFilm /\ given # <<>> =>
    /\ given[1].segment.start = 0
    /\ Last(given).segment.start + Last(given).segment.length = subject.film.duration
    /\ \A n \in 2..Len(given) :
         given[n].segment.start = given[n - 1].segment.start + given[n - 1].segment.length

\* Together they hold every frame once.
FramesAddUp ==
  CopyGiven /\ subject.film.counted =>
    FoldLeft(LAMBDA sum, s : sum + s.segment.frames, 0, given)
      = subject.film.duration \div FrameDuration - KeySample(subject.film, 1)

\* ffmpeg moves a seek back by 13 units and starts on the keyframe at or
\* before that.  Keyframes at least twice seekBackoff apart, the one it starts
\* on is the segment's own.
ffmpegStarts(ix, aim) == LET before == {k \in Range(ix.keys) : k <= aim - 13}
                         IN IF before = {} THEN ix.keys[1] ELSE Max(before)
Apart(ix) == \A i \in 2..Len(ix.keys) : ix.keys[i] - ix.keys[i - 1] >= 2 * seekBackoff
SegmentsStartOnTheirKeyframe ==
  CopyGiven /\ Apart(subject.film) =>
    \A n \in 2..Len(given) : ffmpegStarts(subject.film, given[n].segment.seek) = given[n].segment.start

\* A segment a playlist named is served, while re-encoding stays as it was:
\* the film's keyframes less than a minute apart, and the last of them more
\* than the seek's backoff before the end.
Ordinary(ix) ==
  /\ \A i \in 2..Len(ix.keys) : ix.keys[i] - ix.keys[i - 1] <= maxSegment - segmentTarget
  /\ ix.duration - Last(ix.keys) \in seekBackoff..(maxSegment - segmentTarget)
SegmentsAreServed ==
  [][\A n \in DOMAIN given :
       hlsSegment(n) /\ Ordinary(subject.film) /\ (given[n].kind = "h264" => encodes)
         => answer'.sent \in {given[n].kind, "busy", "error"}]_vars
=============================================================================
