---------------------------- MODULE PassesProofs ----------------------------
(***************************************************************************)
(* Proofs about the requests and passes of MCPasses: Streaming for any     *)
(* number of requests, segments and slots, Thumbs for any photos, requests *)
(* and decoders.                                                           *)
(***************************************************************************)
EXTENDS MCPasses, Sequences, FiniteSetTheorems, TLAPS

\* What the constants are: a transcode is no segment's piece.
Sized == "" \notin Pieces /\ TranscodeSlots \in Nat /\ EncodeSlots \in Nat

\* The requests that hold one of Encoder.slots; those that hold one of
\* Transcoder.slots are those that hold a grant.
Encoding == {r \in Requests : Streaming!Encodes(r) /\ job[r].at \in {"begin", "granted", "started", "copying", "closed"}}

Counted ==
  /\ IsFiniteSet(grants) /\ slots = Cardinality(grants)
  /\ IsFiniteSet(Encoding) /\ encodeSlots = Cardinality(Encoding)

\* What goes together at a place of request r: its process f and output o, the
\* grants gr and the clients go that are gone.
Placed(r, j, f, o, gr, go) ==
  /\ j.at \in {"idle", "looked", "begin", "sending"} => r \notin gr
  /\ j.at \in {"granted", "started", "copying"} => r \in gr
  /\ j.at \in {"idle", "looked", "begin", "sending", "granted"} => f = "none" /\ o = "none"
  /\ j.at = "idle" => j.piece = ""
  /\ j.at = "looked" => j.piece # ""
  /\ j.at = "closed" /\ r \notin gr => j.piece # "" /\ o # "none"
  /\ j.at = "closed" /\ j.piece # "" => f \in {"killed", "exited"}
  /\ f = "alive" => r \in gr
  /\ f = "killed" => r \in go
  /\ f = "exited" /\ o # "none" /\ ~MidwayDeaths => o = "all"

PlacedAll == \A r \in Requests : Placed(r, job[r], ffmpeg[r], output[r], grants, gone)

Whole == ~MidwayDeaths => Streaming!KeptIsWhole

SInv == Streaming!TypeOK /\ Counted /\ PlacedAll /\ Whole

Job == [at : Streaming!Places, piece : Pieces \cup {""}]

\* A number that counts one thing more, one less, or the same.
Follows(m, n, before, after) ==
  /\ (after <=> before) => m = n
  /\ after /\ ~before => m = n + 1
  /\ before /\ ~after => m = n - 1

LEMMA InRange == ASSUME NEW k \in Nat, NEW n \in Nat, n <= k PROVE n \in 0..k
  OBVIOUS

LEMMA ZeroIsThere == ASSUME NEW k \in Nat PROVE 0 \in 0..k
  OBVIOUS

LEMMA Within == ASSUME NEW k \in Nat, NEW n \in 0..k, NEW m, m = n PROVE m <= k
  OBVIOUS

LEMMA OneMore == ASSUME NEW k \in Nat, NEW n \in 0..k, n < k, NEW m, m = n + 1 PROVE m <= k
  OBVIOUS

LEMMA Unchanging ==
  ASSUME NEW k \in Nat, NEW n \in 0..k, NEW m, m = n, NEW before, NEW after, before = after
  PROVE  Follows(m, n, before, after) /\ m <= k
<1>1. n \in Nat /\ n <= k
  OBVIOUS
<1> QED BY <1>1 DEF Follows

LEMMA Falling ==
  ASSUME NEW k \in Nat, NEW n \in 0..k, NEW m, NEW before, Follows(m, n, before, FALSE)
  PROVE  m <= k
<1>1. CASE before
  <2>1. m = n - 1
    BY <1>1 DEF Follows
  <2> QED BY <2>1
<1>2. CASE ~before
  <2>1. m = n
    BY <1>2 DEF Follows
  <2> QED BY <2>1
<1> QED BY <1>1, <1>2

\* A set that differs from a finite one at most in x.
LEMMA CountChanges ==
  ASSUME NEW S, IsFiniteSet(S), NEW x, NEW T, T \ {x} = S \ {x},
         NEW n, Follows(n, Cardinality(S), x \in S, x \in T)
  PROVE  IsFiniteSet(T) /\ n = Cardinality(T) /\ n \in Nat
<1>1. Cardinality(S) \in Nat
  BY FS_CardinalityType
<1>2. CASE (x \in S) = (x \in T)
  <2>1. T = S
    BY <1>2
  <2> QED BY <1>1, <1>2, <2>1 DEF Follows
<1>3. CASE x \in T /\ x \notin S
  <2>1. T = S \cup {x}
    BY <1>3
  <2>2. IsFiniteSet(T) /\ Cardinality(T) = Cardinality(S) + 1
    BY <1>3, <2>1, FS_AddElement
  <2> QED BY <1>1, <1>3, <2>2 DEF Follows
<1>4. CASE x \in S /\ x \notin T
  <2>1. T = S \ {x}
    BY <1>4
  <2>2. IsFiniteSet(T) /\ Cardinality(T) = Cardinality(S) - 1 /\ Cardinality(T) \in Nat
    BY <1>4, <2>1, FS_RemoveElement, FS_CardinalityType
  <2> QED BY <1>1, <1>4, <2>2 DEF Follows
<1> QED BY <1>2, <1>3, <1>4

\* A step of one request, and all it has to keep.
LEMMA UpdateStreams ==
  ASSUME SInv, Sized, NEW r \in Requests, NEW j \in Job,
         NEW f \in {"none", "alive", "killed", "exited"}, NEW o \in {"none", "some", "all"},
         job' = [job EXCEPT ![r] = j], ffmpeg' = [ffmpeg EXCEPT ![r] = f], output' = [output EXCEPT ![r] = o],
         grants' \subseteq Requests, gone' \subseteq Requests,
         grants' \ {r} = grants \ {r}, gone' \ {r} = gone \ {r},
         Placed(r, j, f, o, grants', gone'),
         Follows(slots', slots, r \in grants, r \in grants'),
         Follows(encodeSlots', encodeSlots, r \in Encoding,
                      j.piece # "" /\ j.at \in {"begin", "granted", "started", "copying", "closed"}),
         slots' <= TranscodeSlots, encodeSlots' <= EncodeSlots,
         kept' \in [Pieces -> {"none", "half", "whole"}], Whole'
  PROVE  SInv'
<1>1. /\ job' \in [Requests -> Job] /\ job'[r] = j /\ \A s \in Requests \ {r} : job'[s] = job[s]
      /\ ffmpeg'[r] = f /\ \A s \in Requests \ {r} : ffmpeg'[s] = ffmpeg[s]
      /\ output'[r] = o /\ \A s \in Requests \ {r} : output'[s] = output[s]
  BY DEF SInv, Streaming!TypeOK, Job
<1>2. IsFiniteSet(grants') /\ slots' = Cardinality(grants') /\ slots' \in Nat
  <2>1. Follows(slots', Cardinality(grants), r \in grants, r \in grants')
    BY DEF SInv, Counted
  <2>2. IsFiniteSet(grants)
    BY DEF SInv, Counted
  <2> QED BY <2>1, <2>2, CountChanges
<1>3. Encoding' \ {r} = Encoding \ {r}
  BY <1>1 DEF Encoding, Streaming!Encodes
<1>4. r \in Encoding' <=> j.piece # "" /\ j.at \in {"begin", "granted", "started", "copying", "closed"}
  BY <1>1 DEF Encoding, Streaming!Encodes
<1>5. Follows(encodeSlots', Cardinality(Encoding), r \in Encoding, r \in Encoding')
  BY <1>4 DEF SInv, Counted, Follows
<1>6. IsFiniteSet(Encoding') /\ encodeSlots' = Cardinality(Encoding') /\ encodeSlots' \in Nat
  BY <1>3, <1>5, CountChanges DEF SInv, Counted
<1>7. Streaming!TypeOK'
  <2>1. slots' \in 0..TranscodeSlots /\ encodeSlots' \in 0..EncodeSlots
    BY <1>2, <1>6, InRange DEF Sized
  <2>2. ffmpeg' \in [Requests -> {"none", "alive", "killed", "exited"}] /\ output' \in [Requests -> {"none", "some", "all"}]
    BY DEF SInv, Streaming!TypeOK
  <2> QED BY <1>1, <2>1, <2>2 DEF Streaming!TypeOK, Job
<1>8. PlacedAll'
  <2> SUFFICES ASSUME NEW s \in Requests PROVE Placed(s, job'[s], ffmpeg'[s], output'[s], grants', gone')
    BY DEF PlacedAll
  <2>1. CASE s = r
    BY <1>1, <2>1
  <2>2. CASE s # r
    <3>1. (s \in grants' <=> s \in grants) /\ (s \in gone' <=> s \in gone)
      BY <2>2
    <3>2. Placed(s, job[s], ffmpeg[s], output[s], grants, gone)
      BY DEF SInv, PlacedAll
    <3> QED BY <1>1, <2>2, <3>1, <3>2 DEF Placed
  <2> QED BY <2>1, <2>2
<1> QED BY <1>2, <1>6, <1>7, <1>8 DEF SInv, Counted

LEMMA InitStreams == ASSUME Sized, Streaming!Init PROVE SInv
<1>1. Streaming!TypeOK
  <2>1. job \in [Requests -> Job]
    BY DEF Streaming!Init, Job, Streaming!Places
  <2>2. slots \in 0..TranscodeSlots /\ encodeSlots \in 0..EncodeSlots
    BY ZeroIsThere DEF Streaming!Init, Sized
  <2>3. /\ ffmpeg \in [Requests -> {"none", "alive", "killed", "exited"}] /\ output \in [Requests -> {"none", "some", "all"}]
        /\ gone \subseteq Requests /\ grants \subseteq Requests /\ kept \in [Pieces -> {"none", "half", "whole"}]
    BY DEF Streaming!Init
  <2> QED BY <2>1, <2>2, <2>3 DEF Streaming!TypeOK, Job
<1>2. PlacedAll
  BY DEF Streaming!Init, PlacedAll, Placed
<1>3. Whole
  BY DEF Streaming!Init, Whole, Streaming!KeptIsWhole
<1>4. Encoding = {} /\ grants = {} /\ slots = 0 /\ encodeSlots = 0
  BY DEF Streaming!Init, Encoding, Streaming!Encodes
<1>5. Counted
  BY <1>4, FS_EmptySet DEF Counted
<1> QED BY <1>1, <1>2, <1>3, <1>5 DEF SInv

\* On to another place, with nothing else changed.
LEMMA GoOn ==
  ASSUME SInv, Sized, NEW r \in Requests, NEW place \in Streaming!Places, Streaming!Go(r, place),
         UNCHANGED <<ffmpeg, output, gone, slots, encodeSlots, grants, kept>>,
         Placed(r, [job[r] EXCEPT !.at = place], ffmpeg[r], output[r], grants, gone),
         (r \in Encoding) <=> Streaming!Encodes(r) /\ place \in {"begin", "granted", "started", "copying", "closed"}
  PROVE  SInv'
<1> DEFINE j == [job[r] EXCEPT !.at = place]
<1>1. j \in Job /\ j.at = place /\ j.piece = job[r].piece
  BY DEF SInv, Streaming!TypeOK, Job
<1>2. job' = [job EXCEPT ![r] = j] /\ ffmpeg' = [ffmpeg EXCEPT ![r] = ffmpeg[r]] /\ output' = [output EXCEPT ![r] = output[r]]
  BY DEF Streaming!Go, SInv, Streaming!TypeOK
<1>3. /\ ffmpeg[r] \in {"none", "alive", "killed", "exited"} /\ output[r] \in {"none", "some", "all"}
      /\ grants' \subseteq Requests /\ gone' \subseteq Requests /\ kept' \in [Pieces -> {"none", "half", "whole"}]
      /\ slots \in 0..TranscodeSlots /\ encodeSlots \in 0..EncodeSlots /\ Whole'
  BY DEF SInv, Streaming!TypeOK, Whole, Streaming!KeptIsWhole
<1>4. Follows(slots', slots, r \in grants, r \in grants') /\ slots' <= TranscodeSlots
  <2>1. slots' = slots /\ (r \in grants) = (r \in grants')
    OBVIOUS
  <2> QED BY <1>3, <2>1, Unchanging DEF Sized
<1>5. /\ encodeSlots' <= EncodeSlots
      /\ Follows(encodeSlots', encodeSlots, r \in Encoding,
                      j.piece # "" /\ j.at \in {"begin", "granted", "started", "copying", "closed"})
  <2>1. r \in Encoding <=> j.piece # "" /\ j.at \in {"begin", "granted", "started", "copying", "closed"}
    BY <1>1 DEF Streaming!Encodes
  <2>2. encodeSlots' = encodeSlots
    OBVIOUS
  <2>3. encodeSlots' <= EncodeSlots
    BY <1>3, <2>2, Within DEF Sized
  <2> QED BY <2>1, <2>2, <2>3 DEF Follows
<1>6. Placed(r, j, ffmpeg[r], output[r], grants', gone')
  OBVIOUS
<1> HIDE DEF j
<1> QED BY <1>1, <1>2, <1>3, <1>4, <1>5, <1>6, UpdateStreams

\* The request is over, and gives back what it has.
LEMMA AnsweredAll ==
  ASSUME SInv, Sized, NEW r \in Requests, Streaming!Answered(r), grants' = grants \ {r},
         Follows(slots', slots, r \in grants, FALSE), Follows(encodeSlots', encodeSlots, r \in Encoding, FALSE),
         kept' \in [Pieces -> {"none", "half", "whole"}], Whole'
  PROVE  SInv'
<1> DEFINE j == [at |-> "idle", piece |-> ""]
<1>1. j \in Job /\ j.at = "idle" /\ j.piece = ""
  BY DEF Job, Streaming!Places
<1>2. job' = [job EXCEPT ![r] = j] /\ ffmpeg' = [ffmpeg EXCEPT ![r] = "none"] /\ output' = [output EXCEPT ![r] = "none"]
      /\ gone' = gone \ {r}
  BY DEF Streaming!Answered, Streaming!Idle
<1>3. slots \in 0..TranscodeSlots /\ encodeSlots \in 0..EncodeSlots /\ grants' \subseteq Requests /\ gone' \subseteq Requests
      /\ gone' \ {r} = gone \ {r} /\ grants' \ {r} = grants \ {r}
  BY <1>2 DEF SInv, Streaming!TypeOK
<1>4. Placed(r, j, "none", "none", grants', gone')
  BY <1>1 DEF Placed
<1> HIDE DEF j
<1>5. Follows(slots', slots, r \in grants, r \in grants') /\ slots' <= TranscodeSlots
  <2>1. (r \in grants') = FALSE
    OBVIOUS
  <2> QED BY <1>3, <2>1, Falling DEF Sized
<1>6. /\ encodeSlots' <= EncodeSlots
      /\ Follows(encodeSlots', encodeSlots, r \in Encoding,
                      j.piece # "" /\ j.at \in {"begin", "granted", "started", "copying", "closed"})
  <2>1. (j.piece # "" /\ j.at \in {"begin", "granted", "started", "copying", "closed"}) = FALSE
    BY <1>1
  <2> QED BY <1>3, <2>1, Falling DEF Sized
<1> QED BY <1>1, <1>2, <1>3, <1>4, <1>5, <1>6, UpdateStreams
Holding == {"begin", "granted", "started", "copying", "closed"}

\* What the invariant says of one request.
LEMMA Here ==
  ASSUME SInv, NEW r \in Requests
  PROVE  /\ Placed(r, job[r], ffmpeg[r], output[r], grants, gone)
         /\ job[r] \in Job /\ job[r].at \in Streaming!Places /\ job[r].piece \in Pieces \cup {""}
         /\ ffmpeg[r] \in {"none", "alive", "killed", "exited"} /\ output[r] \in {"none", "some", "all"}
         /\ r \in Encoding <=> job[r].piece # "" /\ job[r].at \in Holding
BY DEF SInv, Streaming!TypeOK, PlacedAll, Encoding, Streaming!Encodes, Job, Holding

LEMMA TranscodeStreams == ASSUME SInv, Sized, NEW r \in Requests, Streaming!Transcode(r) PROVE SInv'
<1>1. Placed(r, [job[r] EXCEPT !.at = "begin"], ffmpeg[r], output[r], grants, gone)
  BY Here DEF Streaming!Transcode, Streaming!At, Placed, Job
<1>2. (r \in Encoding) <=> Streaming!Encodes(r) /\ "begin" \in {"begin", "granted", "started", "copying", "closed"}
  BY Here DEF Streaming!Transcode, Streaming!At, Placed, Streaming!Encodes, Holding
<1> QED BY <1>1, <1>2, GoOn DEF Streaming!Transcode, Streaming!Places

LEMMA PeekStreams == ASSUME SInv, Sized, NEW r \in Requests, Streaming!Peek(r) PROVE SInv'
<1>1. CASE output[r] # "none" /\ Streaming!Go(r, "copying")
  <2>1. Placed(r, [job[r] EXCEPT !.at = "copying"], ffmpeg[r], output[r], grants, gone)
    BY <1>1, Here DEF Streaming!Peek, Streaming!At, Placed, Job
  <2>2. (r \in Encoding) <=> Streaming!Encodes(r) /\ "copying" \in {"begin", "granted", "started", "copying", "closed"}
    BY Here DEF Streaming!Peek, Streaming!At, Streaming!Encodes, Holding
  <2> QED BY <1>1, <2>1, <2>2, GoOn DEF Streaming!Peek, Streaming!Places
<1>2. CASE ffmpeg[r] \in {"killed", "exited"} /\ Streaming!Go(r, "closed")
  <2>1. Placed(r, [job[r] EXCEPT !.at = "closed"], ffmpeg[r], output[r], grants, gone)
    BY <1>2, Here DEF Streaming!Peek, Streaming!At, Placed, Job
  <2>2. (r \in Encoding) <=> Streaming!Encodes(r) /\ "closed" \in {"begin", "granted", "started", "copying", "closed"}
    BY Here DEF Streaming!Peek, Streaming!At, Streaming!Encodes, Holding
  <2> QED BY <1>2, <2>1, <2>2, GoOn DEF Streaming!Peek, Streaming!Places
<1> QED BY <1>1, <1>2 DEF Streaming!Peek

LEMMA CopiedStreams == ASSUME SInv, Sized, NEW r \in Requests, Streaming!Copied(r) PROVE SInv'
<1>1. Placed(r, [job[r] EXCEPT !.at = "closed"], ffmpeg[r], output[r], grants, gone)
  BY Here DEF Streaming!Copied, Streaming!At, Placed, Job, Streaming!Encodes
<1>2. (r \in Encoding) <=> Streaming!Encodes(r) /\ "closed" \in {"begin", "granted", "started", "copying", "closed"}
  BY Here DEF Streaming!Copied, Streaming!At, Streaming!Encodes, Holding
<1> QED BY <1>1, <1>2, GoOn DEF Streaming!Copied, Streaming!Places

LEMMA FreedFollows ==
  ASSUME SInv, NEW r \in Requests, job[r].at \in Holding, encodeSlots' = Streaming!FreedEncodeSlot(r)
  PROVE  Follows(encodeSlots', encodeSlots, r \in Encoding, FALSE)
<1>1. r \in Encoding <=> Streaming!Encodes(r)
  BY Here DEF Streaming!Encodes
<1>2. CASE Streaming!Encodes(r)
  <2>1. encodeSlots' = encodeSlots - 1
    BY <1>2 DEF Streaming!FreedEncodeSlot
  <2> QED BY <1>1, <1>2, <2>1 DEF Follows
<1>3. CASE ~Streaming!Encodes(r)
  <2>1. encodeSlots' = encodeSlots
    BY <1>3 DEF Streaming!FreedEncodeSlot
  <2> QED BY <1>1, <1>3, <2>1 DEF Follows
<1> QED BY <1>2, <1>3

\* A request that held no slot, or that gives back the one it has.
LEMMA KeepsWhole ==
  ASSUME SInv, UNCHANGED kept PROVE kept' \in [Pieces -> {"none", "half", "whole"}] /\ Whole'
BY DEF SInv, Streaming!TypeOK, Whole, Streaming!KeptIsWhole

LEMMA SendKeptStreams == ASSUME SInv, Sized, NEW r \in Requests, Streaming!SendKept(r) PROVE SInv'
<1>1. r \notin grants /\ r \notin Encoding
  BY Here DEF Streaming!SendKept, Streaming!At, Placed, Holding
<1>2. Follows(slots', slots, r \in grants, FALSE) /\ Follows(encodeSlots', encodeSlots, r \in Encoding, FALSE)
  BY <1>1 DEF Streaming!SendKept, Follows
<1>3. grants' = grants \ {r}
  BY <1>1 DEF Streaming!SendKept
<1> QED BY <1>2, <1>3, KeepsWhole, AnsweredAll DEF Streaming!SendKept

LEMMA TakeEncodeSlotStreams == ASSUME SInv, Sized, NEW r \in Requests, Streaming!TakeEncodeSlot(r) PROVE SInv'
<1>1. r \notin grants /\ r \notin Encoding /\ job[r].piece # "" /\ job[r].piece \in Pieces \cup {""}
  BY Here DEF Streaming!TakeEncodeSlot, Streaming!At, Placed, Holding
<1>2. CASE encodeSlots < EncodeSlots
  <2> DEFINE j == [job[r] EXCEPT !.at = "begin"]
  <2>1. encodeSlots' = encodeSlots + 1 /\ Streaming!Go(r, "begin") /\ UNCHANGED <<ffmpeg, output, gone, slots, grants, kept>>
    BY <1>2 DEF Streaming!TakeEncodeSlot
  <2>2. j \in Job /\ j.at = "begin" /\ j.piece = job[r].piece
    BY Here DEF Job, Streaming!Places
  <2>3. job' = [job EXCEPT ![r] = j] /\ ffmpeg' = [ffmpeg EXCEPT ![r] = ffmpeg[r]] /\ output' = [output EXCEPT ![r] = output[r]]
    BY <2>1 DEF Streaming!Go, SInv, Streaming!TypeOK
  <2> HIDE DEF j
  <2>4. Placed(r, j, ffmpeg[r], output[r], grants', gone')
    BY <1>1, <2>1, <2>2, Here DEF Streaming!TakeEncodeSlot, Streaming!At, Placed
  <2>5. /\ slots \in 0..TranscodeSlots /\ encodeSlots \in 0..EncodeSlots
        /\ grants' \subseteq Requests /\ gone' \subseteq Requests /\ ffmpeg[r] \in {"none", "alive", "killed", "exited"}
        /\ output[r] \in {"none", "some", "all"} /\ grants' \ {r} = grants \ {r} /\ gone' \ {r} = gone \ {r}
    BY <2>1, Here DEF SInv, Streaming!TypeOK
  <2>6. slots' <= TranscodeSlots /\ encodeSlots' <= EncodeSlots
    <3>1. slots' <= TranscodeSlots
      BY <2>1, <2>5, Within DEF Sized
    <3>2. encodeSlots' <= EncodeSlots
      BY <1>2, <2>1, <2>5, OneMore DEF Sized
    <3> QED BY <3>1, <3>2
  <2>7. Follows(slots', slots, r \in grants, r \in grants')
    BY <2>1 DEF Follows
  <2>8. Follows(encodeSlots', encodeSlots, r \in Encoding, j.piece # "" /\ j.at \in {"begin", "granted", "started", "copying", "closed"})
    BY <1>1, <2>1, <2>2 DEF Follows
  <2> QED BY <2>1, <2>2, <2>3, <2>4, <2>5, <2>6, <2>7, <2>8, KeepsWhole, UpdateStreams
<1>3. CASE ~(encodeSlots < EncodeSlots)
  <2>1. Streaming!Answered(r) /\ UNCHANGED <<encodeSlots, slots, grants, kept>>
    BY <1>3 DEF Streaming!TakeEncodeSlot
  <2>2. Follows(slots', slots, r \in grants, FALSE) /\ Follows(encodeSlots', encodeSlots, r \in Encoding, FALSE)
    BY <1>1, <2>1 DEF Follows
  <2>3. grants' = grants \ {r}
    BY <1>1, <2>1
  <2> QED BY <2>1, <2>2, <2>3, KeepsWhole, AnsweredAll
<1> QED BY <1>2, <1>3

LEMMA EncodeSegmentStreams ==
  ASSUME SInv, Sized, NEW r \in Requests, NEW p \in Pieces, Streaming!EncodeSegment(r, p) PROVE SInv'
<1>1. r \notin grants /\ r \notin Encoding /\ ffmpeg[r] = "none" /\ output[r] = "none" /\ p # ""
  BY Here DEF Streaming!EncodeSegment, Streaming!At, Placed, Holding, Sized
<1>2. PICK at \in {"looked", "sending"} : job' = [job EXCEPT ![r] = [at |-> at, piece |-> p]]
  BY DEF Streaming!EncodeSegment
<1> DEFINE j == [at |-> at, piece |-> p]
<1>3. j \in Job /\ j.at \in {"looked", "sending"} /\ j.piece = p
  BY <1>2 DEF Job, Streaming!Places
<1>4. /\ job' = [job EXCEPT ![r] = j] /\ ffmpeg' = [ffmpeg EXCEPT ![r] = "none"] /\ output' = [output EXCEPT ![r] = "none"]
      /\ UNCHANGED <<gone, slots, encodeSlots, grants, kept>>
  BY <1>1, <1>2 DEF Streaming!EncodeSegment, SInv, Streaming!TypeOK
<1> HIDE DEF j
<1>5. Placed(r, j, "none", "none", grants', gone')
  BY <1>1, <1>3, <1>4 DEF Placed
<1>6. /\ slots \in 0..TranscodeSlots /\ encodeSlots \in 0..EncodeSlots
      /\ grants' \subseteq Requests /\ gone' \subseteq Requests /\ grants' \ {r} = grants \ {r} /\ gone' \ {r} = gone \ {r}
  BY <1>4 DEF SInv, Streaming!TypeOK
<1>7. slots' <= TranscodeSlots /\ encodeSlots' <= EncodeSlots
  BY <1>4, <1>6, Within DEF Sized
<1>8. Follows(slots', slots, r \in grants, r \in grants')
  BY <1>4 DEF Follows
<1>9. Follows(encodeSlots', encodeSlots, r \in Encoding, j.piece # "" /\ j.at \in {"begin", "granted", "started", "copying", "closed"})
  BY <1>1, <1>3, <1>4 DEF Follows
<1> QED BY <1>3, <1>4, <1>5, <1>6, <1>7, <1>8, <1>9, KeepsWhole, UpdateStreams

LEMMA TakeSlotStreams == ASSUME SInv, Sized, NEW r \in Requests, Streaming!TakeSlot(r) PROVE SInv'
<1>1. /\ r \notin grants /\ ffmpeg[r] = "none" /\ output[r] = "none" /\ job[r].at = "begin"
      /\ r \in Encoding <=> job[r].piece # ""
  BY Here DEF Streaming!TakeSlot, Streaming!At, Placed, Holding
<1>2. CASE slots < TranscodeSlots
  <2> DEFINE j == [job[r] EXCEPT !.at = "granted"]
  <2>1. slots' = slots + 1 /\ grants' = grants \cup {r} /\ Streaming!Go(r, "granted") /\ UNCHANGED <<ffmpeg, output, gone, encodeSlots, kept>>
    BY <1>2 DEF Streaming!TakeSlot, Streaming!Granted
  <2>2. j \in Job /\ j.at = "granted" /\ j.piece = job[r].piece
    BY Here DEF Job, Streaming!Places
  <2>3. job' = [job EXCEPT ![r] = j] /\ ffmpeg' = [ffmpeg EXCEPT ![r] = "none"] /\ output' = [output EXCEPT ![r] = "none"]
    BY <1>1, <2>1 DEF Streaming!Go, SInv, Streaming!TypeOK
  <2> HIDE DEF j
  <2>4. Placed(r, j, "none", "none", grants', gone')
    BY <1>1, <2>1, <2>2 DEF Placed
  <2>5. /\ slots \in 0..TranscodeSlots /\ encodeSlots \in 0..EncodeSlots
        /\ grants' \subseteq Requests /\ gone' \subseteq Requests /\ grants' \ {r} = grants \ {r} /\ gone' \ {r} = gone \ {r}
    BY <2>1 DEF SInv, Streaming!TypeOK
  <2>6. slots' <= TranscodeSlots
    BY <1>2, <2>1, <2>5, OneMore DEF Sized
  <2>7. encodeSlots' <= EncodeSlots
    BY <2>1, <2>5, Within DEF Sized
  <2>8. Follows(slots', slots, r \in grants, r \in grants')
    BY <1>1, <2>1 DEF Follows
  <2>9. Follows(encodeSlots', encodeSlots, r \in Encoding, j.piece # "" /\ j.at \in {"begin", "granted", "started", "copying", "closed"})
    BY <1>1, <2>1, <2>2 DEF Follows
  <2> QED BY <2>1, <2>2, <2>3, <2>4, <2>5, <2>6, <2>7, <2>8, <2>9, KeepsWhole, UpdateStreams
<1>3. CASE ~(slots < TranscodeSlots)
  <2>1. Streaming!Answered(r) /\ encodeSlots' = Streaming!FreedEncodeSlot(r) /\ UNCHANGED <<slots, grants, kept>>
    BY <1>3 DEF Streaming!TakeSlot
  <2>2. Follows(slots', slots, r \in grants, FALSE)
    BY <1>1, <2>1 DEF Follows
  <2>3. Follows(encodeSlots', encodeSlots, r \in Encoding, FALSE)
    BY <1>1, <2>1, FreedFollows DEF Holding
  <2>4. grants' = grants \ {r}
    BY <1>1, <2>1
  <2> QED BY <2>1, <2>2, <2>3, <2>4, KeepsWhole, AnsweredAll
<1> QED BY <1>2, <1>3

LEMMA StartStreams == ASSUME SInv, Sized, NEW r \in Requests, Streaming!Start(r) PROVE SInv'
<1>1. /\ r \in grants /\ ffmpeg[r] = "none" /\ output[r] = "none" /\ job[r].at = "granted"
      /\ r \in Encoding <=> job[r].piece # ""
  BY Here DEF Streaming!Start, Streaming!At, Placed, Holding
<1>2. CASE /\ r \notin gone /\ ffmpeg' = [ffmpeg EXCEPT ![r] = "alive"] /\ Streaming!Go(r, "started")
           /\ UNCHANGED <<output, gone, slots, encodeSlots, grants>>
  <2> DEFINE j == [job[r] EXCEPT !.at = "started"]
  <2>1. j \in Job /\ j.at = "started" /\ j.piece = job[r].piece
    BY Here DEF Job, Streaming!Places
  <2>2. job' = [job EXCEPT ![r] = j] /\ ffmpeg' = [ffmpeg EXCEPT ![r] = "alive"] /\ output' = [output EXCEPT ![r] = "none"]
    BY <1>1, <1>2 DEF Streaming!Go, SInv, Streaming!TypeOK
  <2> HIDE DEF j
  <2>3. Placed(r, j, "alive", "none", grants', gone')
    BY <1>1, <1>2, <2>1 DEF Placed
  <2>4. /\ slots \in 0..TranscodeSlots /\ encodeSlots \in 0..EncodeSlots
        /\ grants' \subseteq Requests /\ gone' \subseteq Requests /\ grants' \ {r} = grants \ {r} /\ gone' \ {r} = gone \ {r}
    BY <1>2 DEF SInv, Streaming!TypeOK
  <2>5. slots' <= TranscodeSlots /\ encodeSlots' <= EncodeSlots
    BY <1>2, <2>4, Within DEF Sized
  <2>6. Follows(slots', slots, r \in grants, r \in grants')
    BY <1>2 DEF Follows
  <2>7. Follows(encodeSlots', encodeSlots, r \in Encoding, j.piece # "" /\ j.at \in {"begin", "granted", "started", "copying", "closed"})
    BY <1>1, <1>2, <2>1 DEF Follows
  <2>8. kept' = kept
    BY DEF Streaming!Start
  <2> QED BY <2>1, <2>2, <2>3, <2>4, <2>5, <2>6, <2>7, <2>8, KeepsWhole, UpdateStreams
<1>3. CASE Streaming!Answered(r) /\ slots' = slots - 1 /\ grants' = Streaming!Revoked(r) /\ encodeSlots' = Streaming!FreedEncodeSlot(r)
  <2>1. Follows(slots', slots, r \in grants, FALSE)
    BY <1>1, <1>3 DEF Follows
  <2>2. Follows(encodeSlots', encodeSlots, r \in Encoding, FALSE)
    BY <1>1, <1>3, FreedFollows DEF Holding
  <2>3. grants' = grants \ {r} /\ kept' = kept
    BY <1>3 DEF Streaming!Start, Streaming!Revoked
  <2> QED BY <1>3, <2>1, <2>2, <2>3, KeepsWhole, AnsweredAll
<1> QED BY <1>2, <1>3 DEF Streaming!Start

LEMMA CloseStreams == ASSUME SInv, Sized, NEW r \in Requests, Streaming!Close(r) PROVE SInv'
<1>1. /\ r \in grants /\ job[r].at = "closed" /\ Placed(r, job[r], ffmpeg[r], output[r], grants, gone)
      /\ r \in Encoding <=> job[r].piece # ""
  BY Here DEF Streaming!Close, Streaming!At, Holding
<1>2. Follows(slots', slots, r \in grants, FALSE) /\ grants' = grants \ {r} /\ kept' = kept
  BY <1>1 DEF Streaming!Close, Follows, Streaming!Revoked
<1>3. CASE Streaming!Encodes(r) /\ output[r] # "none"
  <2>1. ffmpeg[r] \in {"killed", "exited"}
    BY <1>1, <1>3 DEF Placed, Streaming!Encodes
  <2>2. /\ job' = [job EXCEPT ![r] = job[r]] /\ ffmpeg' = [ffmpeg EXCEPT ![r] = ffmpeg[r]]
        /\ output' = [output EXCEPT ![r] = output[r]] /\ UNCHANGED <<gone, encodeSlots>>
    BY <1>3, <2>1 DEF Streaming!Close, SInv, Streaming!TypeOK
  <2>3. Placed(r, job[r], ffmpeg[r], output[r], grants', gone')
    BY <1>1, <1>2, <1>3, <2>1, <2>2 DEF Placed, Streaming!Encodes
  <2>4. /\ slots \in 0..TranscodeSlots /\ encodeSlots \in 0..EncodeSlots
        /\ grants' \subseteq Requests /\ gone' \subseteq Requests /\ grants' \ {r} = grants \ {r} /\ gone' \ {r} = gone \ {r}
    BY <1>2, <2>2 DEF SInv, Streaming!TypeOK
  <2>5. slots' <= TranscodeSlots
    BY <1>2, <2>4, Falling, <1>1 DEF Sized
  <2>6. encodeSlots' <= EncodeSlots
    BY <2>2, <2>4, Within DEF Sized
  <2>7. Follows(slots', slots, r \in grants, r \in grants')
    <3>1. (r \in grants') = FALSE
      BY <1>2
    <3> QED BY <1>2, <3>1
  <2>8. Follows(encodeSlots', encodeSlots, r \in Encoding, job[r].piece # "" /\ job[r].at \in {"begin", "granted", "started", "copying", "closed"})
    BY <1>1, <2>2 DEF Follows
  <2> QED BY <1>2, <2>2, <2>3, <2>4, <2>5, <2>6, <2>7, <2>8, Here, KeepsWhole, UpdateStreams
<1>4. CASE ~(Streaming!Encodes(r) /\ output[r] # "none")
  <2>1. Streaming!Answered(r) /\ encodeSlots' = Streaming!FreedEncodeSlot(r)
    BY <1>4 DEF Streaming!Close
  <2>2. Follows(encodeSlots', encodeSlots, r \in Encoding, FALSE)
    BY <1>1, <2>1, FreedFollows DEF Holding
  <2> QED BY <1>2, <2>1, <2>2, KeepsWhole, AnsweredAll
<1> QED BY <1>3, <1>4

\* What is kept is whole: the request that keeps it is still there, so its
\* process was not killed, and one that ended of itself wrote everything.
LEMMA KeepStreams == ASSUME SInv, Sized, NEW r \in Requests, Streaming!Keep(r) PROVE SInv'
<1>1. /\ r \notin grants /\ job[r].at = "closed" /\ Placed(r, job[r], ffmpeg[r], output[r], grants, gone)
      /\ job[r].piece \in Pieces \cup {""}
  BY Here DEF Streaming!Keep, Streaming!At
<1>2. job[r].piece \in Pieces /\ output[r] # "none" /\ ffmpeg[r] \in {"killed", "exited"}
  BY <1>1 DEF Placed
<1>3. Streaming!Answered(r) /\ encodeSlots' = Streaming!FreedEncodeSlot(r) /\ UNCHANGED <<slots, grants>>
  BY DEF Streaming!Keep
<1>4. kept' \in [Pieces -> {"none", "half", "whole"}] /\ Whole'
  <2>1. CASE kept' = kept
    BY <2>1, KeepsWhole
  <2>2. CASE r \notin gone /\ kept' = [kept EXCEPT ![job[r].piece] = IF output[r] = "all" THEN "whole" ELSE "half"]
    <3>1. kept' \in [Pieces -> {"none", "half", "whole"}]
      BY <2>2 DEF SInv, Streaming!TypeOK
    <3>2. ~MidwayDeaths => output[r] = "all"
      BY <1>1, <1>2, <2>2 DEF Placed
    <3>3. Whole'
      BY <1>2, <2>2, <3>2 DEF Whole, Streaming!KeptIsWhole, SInv, Streaming!TypeOK
    <3> QED BY <3>1, <3>3
  <2> QED BY <2>1, <2>2 DEF Streaming!Keep
<1>5. Follows(slots', slots, r \in grants, FALSE) /\ grants' = grants \ {r}
  BY <1>1, <1>3 DEF Follows
<1>6. Follows(encodeSlots', encodeSlots, r \in Encoding, FALSE)
  BY <1>1, <1>3, FreedFollows DEF Holding
<1> QED BY <1>3, <1>4, <1>5, <1>6, AnsweredAll

\* A step of the process of r, or of its client: r stays where it is.
LEMMA StayStreams ==
  ASSUME SInv, Sized, NEW r \in Requests,
         NEW f \in {"none", "alive", "killed", "exited"}, NEW o \in {"none", "some", "all"},
         ffmpeg' = [ffmpeg EXCEPT ![r] = f], output' = [output EXCEPT ![r] = o],
         gone' \subseteq Requests, gone' \ {r} = gone \ {r},
         UNCHANGED <<job, slots, encodeSlots, grants, kept>>, Placed(r, job[r], f, o, grants, gone')
  PROVE  SInv'
<1>1. job' = [job EXCEPT ![r] = job[r]]
  BY DEF SInv, Streaming!TypeOK
<1>2. slots \in 0..TranscodeSlots /\ encodeSlots \in 0..EncodeSlots /\ grants' \subseteq Requests /\ grants' \ {r} = grants \ {r}
  BY DEF SInv, Streaming!TypeOK
<1>3. slots' <= TranscodeSlots /\ encodeSlots' <= EncodeSlots
  BY <1>2, Within DEF Sized
<1>4. Follows(slots', slots, r \in grants, r \in grants')
  BY DEF Follows
<1>5. Follows(encodeSlots', encodeSlots, r \in Encoding, job[r].piece # "" /\ job[r].at \in {"begin", "granted", "started", "copying", "closed"})
  BY Here DEF Follows, Holding
<1>6. Placed(r, job[r], f, o, grants', gone')
  OBVIOUS
<1>7. kept' \in [Pieces -> {"none", "half", "whole"}] /\ Whole' /\ job[r] \in Job
  BY KeepsWhole, Here
<1> QED BY <1>1, <1>2, <1>3, <1>4, <1>5, <1>6, <1>7, UpdateStreams

LEMMA ProcessStreams == ASSUME SInv, Sized, NEW r \in Requests, Streaming!Process(r) PROVE SInv'
<1>1. CASE Streaming!ffmpegWrites(r)
  <2>1. Placed(r, job[r], "alive", "some", grants, gone)
    BY <1>1, Here DEF Streaming!ffmpegWrites, Placed
  <2>2. ffmpeg' = [ffmpeg EXCEPT ![r] = "alive"] /\ output' = [output EXCEPT ![r] = "some"]
    BY <1>1 DEF Streaming!ffmpegWrites, SInv, Streaming!TypeOK
  <2> QED BY <1>1, <2>1, <2>2, StayStreams DEF Streaming!ffmpegWrites, SInv, Streaming!TypeOK
<1>2. CASE Streaming!ffmpegEnds(r)
  <2>1. Placed(r, job[r], "exited", "all", grants, gone)
    BY <1>2, Here DEF Streaming!ffmpegEnds, Placed
  <2> QED BY <1>2, <2>1, StayStreams DEF Streaming!ffmpegEnds, SInv, Streaming!TypeOK
<1>3. CASE Streaming!ffmpegDies(r)
  <2>1. Placed(r, job[r], "exited", output[r], grants, gone)
    BY <1>3, Here DEF Streaming!ffmpegDies, Placed
  <2>2. output' = [output EXCEPT ![r] = output[r]] /\ ffmpeg' = [ffmpeg EXCEPT ![r] = "exited"]
    BY <1>3 DEF Streaming!ffmpegDies, SInv, Streaming!TypeOK
  <2>3. /\ gone' \subseteq Requests /\ gone' = gone /\ UNCHANGED <<job, slots, encodeSlots, grants, kept>>
        /\ output[r] \in {"none", "some", "all"}
    BY <1>3, Here DEF Streaming!ffmpegDies, SInv, Streaming!TypeOK
  <2> QED BY <2>1, <2>2, <2>3, StayStreams
<1> QED BY <1>1, <1>2, <1>3 DEF Streaming!Process

LEMMA LeaveStreams == ASSUME SInv, Sized, NEW r \in Requests, Streaming!Leave(r) PROVE SInv'
<1> DEFINE f == IF ffmpeg[r] = "alive" THEN "killed" ELSE ffmpeg[r]
<1>1. f \in {"none", "alive", "killed", "exited"}
  BY Here
<1>2. Placed(r, job[r], f, output[r], grants, gone')
  BY Here DEF Streaming!Leave, Placed
<1>3. ffmpeg' = [ffmpeg EXCEPT ![r] = f] /\ output' = [output EXCEPT ![r] = output[r]]
  BY DEF Streaming!Leave, SInv, Streaming!TypeOK
<1>4. /\ gone' \subseteq Requests /\ gone' \ {r} = gone \ {r} /\ UNCHANGED <<job, slots, encodeSlots, grants, kept>>
      /\ output[r] \in {"none", "some", "all"}
  BY Here DEF Streaming!Leave, SInv, Streaming!TypeOK
<1> HIDE DEF f
<1> QED BY <1>1, <1>2, <1>3, <1>4, StayStreams

LEMMA ExpireStreams == ASSUME SInv, Sized, NEW p \in Pieces, Streaming!Expire(p) PROVE SInv'
<1>1. Streaming!TypeOK'
  BY DEF Streaming!Expire, SInv, Streaming!TypeOK
<1>2. Counted'
  BY DEF Streaming!Expire, SInv, Counted, Encoding, Streaming!Encodes
<1>3. PlacedAll'
  BY DEF Streaming!Expire, SInv, PlacedAll, Placed
<1>4. Whole'
  BY DEF Streaming!Expire, SInv, Streaming!TypeOK, Whole, Streaming!KeptIsWhole
<1> QED BY <1>1, <1>2, <1>3, <1>4 DEF SInv

LEMMA NextStreams == ASSUME SInv, Sized, [Streaming!Next]_svars PROVE SInv'
<1>1. CASE UNCHANGED svars
  BY <1>1 DEF svars, SInv, Streaming!TypeOK, Counted, Encoding, Streaming!Encodes, PlacedAll, Placed, Whole, Streaming!KeptIsWhole
<1>2. ASSUME NEW r \in Requests, Streaming!Steps(r) PROVE SInv'
  BY <1>2, TakeEncodeSlotStreams, TakeSlotStreams, StartStreams, PeekStreams, CopiedStreams, CloseStreams, KeepStreams,
     SendKeptStreams DEF Streaming!Steps
<1> QED BY <1>1, <1>2, TranscodeStreams, EncodeSegmentStreams, ProcessStreams, LeaveStreams, ExpireStreams DEF Streaming!Next
-----------------------------------------------------------------------------
(* Thumbs.  A request or the pass at work is in the queue, and holds a     *)
(* decoder from the decode on.                                             *)

Counts == Decoders \in Nat /\ DecodeQueue \in Nat /\ Batch \in Nat

Queued == {"waiting", "decoding", "decoded", "storing"}
Working == {"decoding", "decoded", "storing"}
Looking == {"decoding", "decoded", "recording"}
Outcomes == {"none", "drawn", "refused", "unreachable"}

Notes == [Photos -> {"none", "young", "old"}]
Row == [state : {"untried", "made", "refused"}, version : Nat, old : BOOLEAN]
Asking == [at : {"idle"} \cup Queued, photo : Photos \cup {0}, version : Nat, size : Sizes \cup {"none"}, got : Outcomes]
Passing == [at : {"idle", "prepare", "taking"} \cup Looking, todo : Seq([photo : Photos, version : Nat]), got : Outcomes]

ThumbTypes ==
  /\ bytes \in [Photos -> Nat]
  /\ note \in Notes
  /\ row \in [Photos -> Row]
  /\ asker \in [Askers -> Asking]
  /\ pass \in Passing

Queuing == {a \in Askers : asker[a].at \in Queued}
Drawing == {a \in Askers : asker[a].at \in Working}
In(ps)  == IF ps.at \in Looking THEN 1 ELSE 0

\* The two counters are counts, and the bounds are kept: the pass, which looked
\* at the queue before it joined it, may be one too many there.
CountedThumbs ==
  /\ IsFiniteSet(Queuing) /\ inQueue = Cardinality(Queuing) + In(pass) /\ Cardinality(Queuing) <= DecodeQueue
  /\ IsFiniteSet(Drawing) /\ decoding = Cardinality(Drawing) + In(pass) /\ decoding <= Decoders

\* A request knows a version the photo has or had; a verdict it holds is about
\* it; and between its two writes what it noted is not old.
AskFine(k, by, ha, no) ==
  k.at # "idle" =>
    /\ k.photo \in Photos /\ k.version <= by[k.photo]
    /\ k.got = "refused" => <<k.photo, k.version>> \in ha
    /\ k.at = "storing" /\ k.got = "refused" /\ k.version = by[k.photo] => no[k.photo] # "old"

\* So does the pass, of every file in its batch and of the one at hand.
PassFine(ps, by, ha, no) ==
  /\ \A i \in 1..Len(ps.todo) : ps.todo[i].version <= by[ps.todo[i].photo]
  /\ ps.at # "idle" => ps.todo # <<>>
  /\ ps.got = "refused" => ps.at # "idle" /\ <<ps.todo[1].photo, ps.todo[1].version>> \in ha
  /\ ps.at = "recording" => ps.got \in {"drawn", "refused"}
  /\ ps.at = "recording" /\ ps.got = "refused" /\ ps.todo[1].version = by[ps.todo[1].photo] => no[ps.todo[1].photo] # "old"

\* What is written down of photo p, whose bytes are b, by its note n and its row w.
PhotoFine(p, b, n, w, ha) ==
  /\ w.version <= b
  /\ n # "none" => <<p, b>> \in ha
  /\ w.state = "refused" => <<p, w.version>> \in ha
  /\ n = "old" /\ w.state = "refused" /\ w.version = b => w.old = TRUE

PhotosFine == \A p \in Photos : PhotoFine(p, bytes[p], note[p], row[p], hard)

ThumbInv ==
  /\ ThumbTypes /\ CountedThumbs /\ PhotosFine
  /\ \A a \in Askers : AskFine(asker[a], bytes, hard, note)
  /\ PassFine(pass, bytes, hard, note)

\* What was fine stays so while bytes are replaced and no note gets old.
LEMMA AskLater ==
  ASSUME NEW by \in [Photos -> Nat], NEW by2 \in [Photos -> Nat], NEW ha, NEW ha2, ha \subseteq ha2, NEW no, NEW no2,
         \A p \in Photos : by[p] <= by2[p] /\ (by2[p] = by[p] /\ no2[p] = "old" => no[p] = "old"),
         NEW k \in Asking, AskFine(k, by, ha, no)
  PROVE  AskFine(k, by2, ha2, no2)
<1> SUFFICES ASSUME k.at # "idle" PROVE AskFine(k, by2, ha2, no2)
  BY DEF AskFine
<1>1. k.photo \in Photos /\ k.version <= by[k.photo] /\ k.version \in Nat
  BY DEF AskFine, Asking
<1>2. by[k.photo] \in Nat /\ by2[k.photo] \in Nat /\ by[k.photo] <= by2[k.photo]
  BY <1>1
<1>3. k.version <= by2[k.photo] /\ (k.version = by2[k.photo] => k.version = by[k.photo] /\ by2[k.photo] = by[k.photo])
  BY <1>1, <1>2
<1> QED BY <1>1, <1>3 DEF AskFine

LEMMA PassLater ==
  ASSUME NEW by \in [Photos -> Nat], NEW by2 \in [Photos -> Nat], NEW ha, NEW ha2, ha \subseteq ha2, NEW no, NEW no2,
         \A p \in Photos : by[p] <= by2[p] /\ (by2[p] = by[p] /\ no2[p] = "old" => no[p] = "old"),
         NEW ps \in Passing, PassFine(ps, by, ha, no)
  PROVE  PassFine(ps, by2, ha2, no2)
<1>1. ASSUME NEW i \in 1..Len(ps.todo)
      PROVE  /\ ps.todo[i].photo \in Photos /\ ps.todo[i].version <= by2[ps.todo[i].photo]
             /\ ps.todo[i].version = by2[ps.todo[i].photo] =>
                  ps.todo[i].version = by[ps.todo[i].photo] /\ by2[ps.todo[i].photo] = by[ps.todo[i].photo]
  <2> DEFINE Seen == [photo : Photos, version : Nat]
  <2>a. ps.todo \in Seq(Seen)
    BY DEF Passing
  <2>b. ps.todo[i] \in Seen
    <3> HIDE DEF Seen
    <3> QED BY <2>a
  <2>1. ps.todo[i].photo \in Photos /\ ps.todo[i].version \in Nat /\ ps.todo[i].version <= by[ps.todo[i].photo]
    BY <2>b DEF PassFine
  <2>2. by[ps.todo[i].photo] \in Nat /\ by2[ps.todo[i].photo] \in Nat /\ by[ps.todo[i].photo] <= by2[ps.todo[i].photo]
    BY <2>1
  <2> QED BY <2>1, <2>2
<1>2. ps.todo # <<>> => 1 \in 1..Len(ps.todo)
  BY DEF Passing
<1>3. ps.at = "recording" => ps.todo # <<>>
  BY DEF PassFine
<1>4. ps.at = "recording" /\ ps.got = "refused" /\ ps.todo[1].version = by2[ps.todo[1].photo] => no2[ps.todo[1].photo] # "old"
  BY <1>1, <1>2, <1>3 DEF PassFine
<1> QED BY <1>1, <1>4 DEF PassFine

\* A request's step, and all it has to keep.
LEMMA AskerMoves ==
  ASSUME ThumbInv, Counts, NEW a \in Askers, NEW k \in Asking, asker' = [asker EXCEPT ![a] = k],
         UNCHANGED <<bytes, hard, pass>>, note' \in Notes, row' \in [Photos -> Row], PhotosFine',
         \A p \in Photos : note'[p] = "old" => note[p] = "old",
         AskFine(k, bytes, hard, note'),
         Follows(inQueue', inQueue, a \in Queuing, k.at \in Queued),
         k.at \in Queued /\ a \notin Queuing => inQueue < DecodeQueue,
         Follows(decoding', decoding, a \in Drawing, k.at \in Working), decoding' <= Decoders
  PROVE  ThumbInv'
<1>1. asker' \in [Askers -> Asking] /\ asker'[a] = k /\ \A b \in Askers \ {a} : asker'[b] = asker[b]
  BY DEF ThumbInv, ThumbTypes
<1>2. ThumbTypes'
  BY <1>1 DEF ThumbInv, ThumbTypes
<1>3. /\ Queuing' \ {a} = Queuing \ {a} /\ (a \in Queuing' <=> k.at \in Queued)
      /\ Drawing' \ {a} = Drawing \ {a} /\ (a \in Drawing' <=> k.at \in Working)
  BY <1>1 DEF Queuing, Drawing
<1>4. In(pass) \in {0, 1} /\ In(pass') = In(pass)
  BY DEF In
<1>5. /\ IsFiniteSet(Queuing) /\ inQueue = Cardinality(Queuing) + In(pass) /\ Cardinality(Queuing) <= DecodeQueue
      /\ IsFiniteSet(Drawing) /\ decoding = Cardinality(Drawing) + In(pass)
      /\ Cardinality(Queuing) \in Nat /\ Cardinality(Drawing) \in Nat
  BY FS_CardinalityType DEF ThumbInv, CountedThumbs
<1>6. IsFiniteSet(Queuing') /\ inQueue' = Cardinality(Queuing') + In(pass') /\ Cardinality(Queuing') <= DecodeQueue
  <2> DEFINE n == inQueue' - In(pass)
  <2>1. Follows(n, Cardinality(Queuing), a \in Queuing, a \in Queuing')
    BY <1>3, <1>4, <1>5 DEF Follows
  <2>2. inQueue' = n + In(pass)
    BY <1>3, <1>4, <1>5 DEF Follows
  <2>3. n <= DecodeQueue
    BY <1>3, <1>4, <1>5 DEF Follows, Counts
  <2> HIDE DEF n
  <2>4. IsFiniteSet(Queuing') /\ n = Cardinality(Queuing') /\ n \in Nat
    BY <1>3, <1>5, <2>1, CountChanges
  <2> QED BY <1>4, <2>2, <2>3, <2>4
<1>7. IsFiniteSet(Drawing') /\ decoding' = Cardinality(Drawing') + In(pass')
  <2> DEFINE n == decoding' - In(pass)
  <2>1. Follows(n, Cardinality(Drawing), a \in Drawing, a \in Drawing')
    BY <1>3, <1>4, <1>5 DEF Follows
  <2>2. decoding' = n + In(pass)
    BY <1>3, <1>4, <1>5 DEF Follows
  <2> HIDE DEF n
  <2>3. IsFiniteSet(Drawing') /\ n = Cardinality(Drawing') /\ n \in Nat
    BY <1>3, <1>5, <2>1, CountChanges
  <2> QED BY <1>4, <2>2, <2>3
<1>8. CountedThumbs'
  BY <1>6, <1>7 DEF CountedThumbs
<1>9. bytes \in [Photos -> Nat] /\ \A p \in Photos : bytes[p] <= bytes[p] /\ (bytes[p] = bytes[p] /\ note'[p] = "old" => note[p] = "old")
  BY DEF ThumbInv, ThumbTypes
<1>10. ASSUME NEW b \in Askers PROVE AskFine(asker'[b], bytes', hard', note')
  <2>1. CASE b = a
    BY <1>1, <2>1
  <2>2. CASE b # a
    <3>1. asker'[b] = asker[b] /\ asker[b] \in Asking /\ AskFine(asker[b], bytes, hard, note)
      BY <1>1, <2>2 DEF ThumbInv, ThumbTypes
    <3>2. AskFine(asker[b], bytes, hard, note')
      BY <1>9, <3>1, AskLater
    <3> QED BY <3>1, <3>2
  <2> QED BY <2>1, <2>2
<1>11. PassFine(pass', bytes', hard', note')
  <2>1. pass \in Passing /\ PassFine(pass, bytes, hard, note)
    BY DEF ThumbInv, ThumbTypes
  <2>2. PassFine(pass, bytes, hard, note')
    BY <1>9, <2>1, PassLater
  <2> QED BY <2>2
<1> QED BY <1>2, <1>8, <1>10, <1>11 DEF ThumbInv

\* A step of the pass.
LEMMA PassMoves ==
  ASSUME ThumbInv, Counts, pass' \in Passing,
         UNCHANGED <<bytes, hard, asker>>, note' \in Notes, row' \in [Photos -> Row], PhotosFine',
         \A p \in Photos : note'[p] = "old" => note[p] = "old",
         PassFine(pass', bytes, hard, note'),
         Follows(inQueue', inQueue, pass.at \in Looking, pass'.at \in Looking),
         Follows(decoding', decoding, pass.at \in Looking, pass'.at \in Looking), decoding' <= Decoders
  PROVE  ThumbInv'
<1>1. ThumbTypes'
  BY DEF ThumbInv, ThumbTypes
<1>2. Queuing' = Queuing /\ Drawing' = Drawing
  BY DEF Queuing, Drawing
<1>3. /\ IsFiniteSet(Queuing) /\ inQueue = Cardinality(Queuing) + In(pass) /\ Cardinality(Queuing) <= DecodeQueue
      /\ IsFiniteSet(Drawing) /\ decoding = Cardinality(Drawing) + In(pass)
      /\ Cardinality(Queuing) \in Nat /\ Cardinality(Drawing) \in Nat
  BY FS_CardinalityType DEF ThumbInv, CountedThumbs
<1>4. inQueue' = Cardinality(Queuing) + In(pass') /\ decoding' = Cardinality(Drawing) + In(pass')
  BY <1>3 DEF In, Follows
<1>5. CountedThumbs'
  BY <1>2, <1>3, <1>4 DEF CountedThumbs
<1>6. bytes \in [Photos -> Nat] /\ \A p \in Photos : bytes[p] <= bytes[p] /\ (bytes[p] = bytes[p] /\ note'[p] = "old" => note[p] = "old")
  BY DEF ThumbInv, ThumbTypes
<1>7. ASSUME NEW b \in Askers PROVE AskFine(asker'[b], bytes', hard', note')
  <2>1. asker[b] \in Asking /\ AskFine(asker[b], bytes, hard, note)
    BY DEF ThumbInv, ThumbTypes
  <2>2. AskFine(asker[b], bytes, hard, note')
    BY <1>6, <2>1, AskLater
  <2> QED BY <2>2
<1> QED BY <1>1, <1>5, <1>7 DEF ThumbInv

\* A row is written, of a version the photo has or had.
LEMMA RowWritten ==
  ASSUME ThumbInv, NEW p, NEW v, NEW state \in {"made", "refused"}, NEW old \in BOOLEAN,
         row' = Thumbs!Recorded(p, v, state, old), UNCHANGED <<bytes, hard, note>>,
         p \in Photos => v \in Nat /\ v <= bytes[p],
         state = "refused" => <<p, v>> \in hard /\ (v = bytes[p] /\ note[p] = "old" => old = TRUE)
  PROVE  row' \in [Photos -> Row] /\ PhotosFine'
<1> DEFINE w == [state |-> state, version |-> v, old |-> old]
<1>1. row' = [row EXCEPT ![p] = w] /\ row \in [Photos -> Row]
  BY DEF Thumbs!Recorded, ThumbInv, ThumbTypes
<1>2. w.state = state /\ w.version = v /\ w.old = old /\ (p \in Photos => w \in Row)
  BY DEF Row
<1> HIDE DEF w
<1>3. row' \in [Photos -> Row]
  BY <1>1, <1>2
<1>4. ASSUME NEW q \in Photos PROVE PhotoFine(q, bytes[q], note[q], row'[q], hard)
  <2>1. PhotoFine(q, bytes[q], note[q], row[q], hard)
    BY DEF ThumbInv, PhotosFine
  <2>2. CASE q = p
    <3>1. row'[q] = w
      BY <1>1, <2>2
    <3> QED BY <1>2, <2>1, <2>2, <3>1 DEF PhotoFine
  <2>3. CASE q # p
    <3>1. row'[q] = row[q]
      BY <1>1, <2>3
    <3> QED BY <2>1, <3>1
  <2> QED BY <2>2, <2>3
<1> QED BY <1>3, <1>4 DEF PhotosFine

\* A refusal is noted beside the picture.
LEMMA NoteWritten ==
  ASSUME ThumbInv, NEW p, NEW v, <<p, v>> \in hard, note' = Thumbs!Noted(p, v), UNCHANGED <<bytes, hard, row>>
  PROVE  /\ note' \in Notes /\ PhotosFine'
         /\ \A q \in Photos : note'[q] = "old" => note[q] = "old"
         /\ p \in Photos /\ v = bytes[p] => note'[p] # "old"
<1>1. note \in Notes /\ row \in [Photos -> Row]
  BY DEF ThumbInv, ThumbTypes
<1>2. CASE v = bytes[p]
  <2>1. note' = [note EXCEPT ![p] = "young"]
    BY <1>2 DEF Thumbs!Noted
  <2>2. note' \in Notes /\ \A q \in Photos : note'[q] = IF q = p THEN "young" ELSE note[q]
    BY <1>1, <2>1 DEF Notes
  <2>3. ASSUME NEW q \in Photos PROVE PhotoFine(q, bytes[q], note'[q], row[q], hard)
    BY <1>2, <2>2 DEF ThumbInv, PhotosFine, PhotoFine
  <2> QED BY <2>2, <2>3 DEF PhotosFine
<1>3. CASE v # bytes[p]
  BY <1>1, <1>3 DEF Thumbs!Noted, ThumbInv, PhotosFine
<1> QED BY <1>2, <1>3

\* What the invariant says of one request.
LEMMA AskerHere ==
  ASSUME ThumbInv, NEW a \in Askers
  PROVE  /\ asker[a] \in Asking /\ AskFine(asker[a], bytes, hard, note)
         /\ (a \in Queuing <=> asker[a].at \in Queued) /\ (a \in Drawing <=> asker[a].at \in Working)
BY DEF ThumbInv, ThumbTypes, Queuing, Drawing

\* What is written down stays as it is.
LEMMA NothingWritten ==
  ASSUME ThumbInv, UNCHANGED <<bytes, hard, note, row>>
  PROVE  /\ note' \in Notes /\ row' \in [Photos -> Row] /\ PhotosFine' /\ decoding <= Decoders
         /\ \A p \in Photos : note'[p] = "old" => note[p] = "old"
BY DEF ThumbInv, ThumbTypes, PhotosFine, CountedThumbs

LEMMA DecodersAre == ASSUME ThumbInv, Counts PROVE decoding \in Nat /\ inQueue \in Nat
<1>1. Cardinality(Drawing) \in Nat /\ Cardinality(Queuing) \in Nat /\ In(pass) \in {0, 1}
  BY FS_CardinalityType DEF ThumbInv, CountedThumbs, In
<1> QED BY <1>1 DEF ThumbInv, CountedThumbs

LEMMA AskThumbs ==
  ASSUME ThumbInv, Counts, NEW a \in Askers, NEW p \in Photos, NEW size \in Sizes, Thumbs!Ask(a, p, size) PROVE ThumbInv'
<1> DEFINE k == [at |-> "waiting", photo |-> p, version |-> bytes[p], size |-> size, got |-> "none"]
<1>1. bytes[p] \in Nat
  BY DEF ThumbInv, ThumbTypes
<1>2. k \in Asking /\ k.at = "waiting" /\ k.photo = p /\ k.version = bytes[p] /\ k.got = "none"
  BY <1>1 DEF Asking, Queued, Outcomes
<1>3. /\ asker' = [asker EXCEPT ![a] = k] /\ inQueue + 1 <= DecodeQueue /\ inQueue' = inQueue + 1 /\ asker[a].at = "idle"
      /\ UNCHANGED <<bytes, hard, note, row, pass, decoding>>
  BY DEF Thumbs!Ask, Thumbs!AskerAt, Thumbs!stores
<1> HIDE DEF k
<1>4. AskFine(k, bytes, hard, note')
  BY <1>1, <1>2 DEF AskFine
<1>5. a \notin Queuing /\ a \notin Drawing
  BY <1>3, AskerHere DEF Queued, Working
<1>6. inQueue < DecodeQueue
  BY <1>3, DecodersAre DEF Counts
<1>7. Follows(inQueue', inQueue, a \in Queuing, k.at \in Queued) /\ Follows(decoding', decoding, a \in Drawing, k.at \in Working)
  BY <1>2, <1>3, <1>5 DEF Follows, Queued, Working
<1> QED BY <1>2, <1>3, <1>4, <1>6, <1>7, NothingWritten, AskerMoves

LEMMA TakeDecoderThumbs ==
  ASSUME ThumbInv, Counts, NEW a \in Askers, Thumbs!TakeDecoder(a) PROVE ThumbInv'
<1> DEFINE k == [asker[a] EXCEPT !.at = "decoding"]
<1>1. /\ asker[a].at = "waiting" /\ decoding < Decoders /\ decoding' = decoding + 1 /\ asker' = [asker EXCEPT ![a] = k]
      /\ UNCHANGED <<bytes, hard, note, row, pass, inQueue>>
  BY DEF Thumbs!TakeDecoder, Thumbs!AskerAt, Thumbs!AskerGoes, Thumbs!stores
<1>2. k \in Asking /\ k.at = "decoding" /\ k.photo = asker[a].photo /\ k.version = asker[a].version /\ k.got = asker[a].got
  BY AskerHere DEF Asking, Queued
<1> HIDE DEF k
<1>3. AskFine(k, bytes, hard, note')
  BY <1>1, <1>2, AskerHere DEF AskFine
<1>4. a \in Queuing /\ a \notin Drawing
  BY <1>1, AskerHere DEF Queued, Working
<1>5. decoding' <= Decoders
  BY <1>1, DecodersAre DEF Counts
<1>6. Follows(inQueue', inQueue, a \in Queuing, k.at \in Queued) /\ Follows(decoding', decoding, a \in Drawing, k.at \in Working)
  BY <1>1, <1>2, <1>4 DEF Follows, Queued, Working
<1> QED BY <1>1, <1>2, <1>3, <1>4, <1>5, <1>6, NothingWritten, AskerMoves

\* The request is over.
LEMMA NoAskFine ==
  /\ Thumbs!NoAsk \in Asking /\ Thumbs!NoAsk.at = "idle"
  /\ \A by, ha, no : AskFine(Thumbs!NoAsk, by, ha, no)
BY DEF Thumbs!NoAsk, Asking, AskFine, Outcomes

LEMMA GiveUpThumbs ==
  ASSUME ThumbInv, Counts, NEW a \in Askers, Thumbs!GiveUp(a) PROVE ThumbInv'
<1> DEFINE k == Thumbs!NoAsk
<1>1. /\ asker[a].at = "waiting" /\ inQueue' = inQueue - 1 /\ asker' = [asker EXCEPT ![a] = k]
      /\ UNCHANGED <<bytes, hard, note, row, pass, decoding>>
  BY DEF Thumbs!GiveUp, Thumbs!AskerAt, Thumbs!AskerDone, Thumbs!stores
<1>2. k \in Asking /\ k.at = "idle" /\ AskFine(k, bytes, hard, note')
  BY NoAskFine
<1> HIDE DEF k
<1>3. a \in Queuing /\ a \notin Drawing
  BY <1>1, AskerHere DEF Queued, Working
<1>4. Follows(inQueue', inQueue, a \in Queuing, k.at \in Queued) /\ Follows(decoding', decoding, a \in Drawing, k.at \in Working)
  BY <1>1, <1>2, <1>3 DEF Follows, Queued, Working
<1> QED BY <1>1, <1>2, <1>3, <1>4, NothingWritten, AskerMoves

\* A verdict is about bytes this build, or the one before it, cannot draw.
LEMMA Verdict ==
  ASSUME NEW p, NEW v, NEW got \in Thumbs!Decoded(p, v) PROVE got \in Outcomes /\ (got = "refused" => <<p, v>> \in hard)
BY DEF Thumbs!Decoded, Thumbs!Drawable, Outcomes

LEMMA DecodeThumbs ==
  ASSUME ThumbInv, Counts, NEW a \in Askers, Thumbs!Decode(a) PROVE ThumbInv'
<1>1. PICK got \in Thumbs!Decoded(asker[a].photo, asker[a].version) :
        asker' = [asker EXCEPT ![a].at = "decoded", ![a].got = got]
  BY DEF Thumbs!Decode
<1>2. got \in Outcomes /\ (got = "refused" => <<asker[a].photo, asker[a].version>> \in hard)
  BY Verdict
<1> DEFINE k == [asker[a] EXCEPT !.at = "decoded", !.got = got]
<1>3. /\ asker[a].at = "decoding" /\ asker' = [asker EXCEPT ![a] = k]
      /\ UNCHANGED <<bytes, hard, note, row, pass, inQueue, decoding>>
  BY <1>1 DEF Thumbs!Decode, Thumbs!AskerAt, Thumbs!stores, ThumbInv, ThumbTypes
<1>4. k \in Asking /\ k.at = "decoded" /\ k.photo = asker[a].photo /\ k.version = asker[a].version /\ k.got = got
  BY <1>2, AskerHere DEF Asking, Queued
<1> HIDE DEF k
<1>5. AskFine(k, bytes, hard, note')
  BY <1>2, <1>3, <1>4, AskerHere DEF AskFine
<1>6. a \in Queuing /\ a \in Drawing
  BY <1>3, AskerHere DEF Queued, Working
<1>7. Follows(inQueue', inQueue, a \in Queuing, k.at \in Queued) /\ Follows(decoding', decoding, a \in Drawing, k.at \in Working)
  BY <1>3, <1>4, <1>6 DEF Follows, Queued, Working
<1>8. decoding' <= Decoders
  BY <1>3, NothingWritten
<1> QED BY <1>3, <1>4, <1>5, <1>6, <1>7, <1>8, NothingWritten, AskerMoves

LEMMA OutcomeThumbs ==
  ASSUME ThumbInv, Counts, NEW a \in Askers, Thumbs!Outcome(a) PROVE ThumbInv'
<1> DEFINE k == [asker[a] EXCEPT !.at = "storing"]
<1>1. /\ asker[a].at = "decoded" /\ asker' = [asker EXCEPT ![a] = k]
      /\ UNCHANGED <<bytes, hard, pass, inQueue, decoding>>
  BY DEF Thumbs!Outcome, Thumbs!AskerAt, Thumbs!AskerGoes, Thumbs!stores
<1>2. k \in Asking /\ k.at = "storing" /\ k.photo = asker[a].photo /\ k.version = asker[a].version /\ k.got = asker[a].got
  BY AskerHere DEF Asking, Queued
<1> HIDE DEF k
<1>3. /\ asker[a].photo \in Photos /\ asker[a].version <= bytes[asker[a].photo] /\ asker[a].version \in Nat
      /\ asker[a].got = "refused" => <<asker[a].photo, asker[a].version>> \in hard
  BY <1>1, AskerHere DEF AskFine, Asking
<1>4. a \in Queuing /\ a \in Drawing
  BY <1>1, AskerHere DEF Queued, Working
<1>5. Follows(inQueue', inQueue, a \in Queuing, k.at \in Queued) /\ Follows(decoding', decoding, a \in Drawing, k.at \in Working)
  BY <1>1, <1>2, <1>4 DEF Follows, Queued, Working
<1>6. decoding' <= Decoders
  BY <1>1 DEF ThumbInv, CountedThumbs
<1>7. CASE asker[a].got = "drawn"
  <2>1. row' = Thumbs!Recorded(asker[a].photo, asker[a].version, "made", FALSE) /\ note' = note
    BY <1>7 DEF Thumbs!Outcome
  <2>2. row' \in [Photos -> Row] /\ PhotosFine'
    BY <1>1, <1>3, <2>1, RowWritten
  <2>3. note' \in Notes /\ \A p \in Photos : note'[p] = "old" => note[p] = "old"
    BY <2>1 DEF ThumbInv, ThumbTypes
  <2>4. AskFine(k, bytes, hard, note')
    BY <1>2, <1>3, <1>7 DEF AskFine
  <2> QED BY <1>1, <1>2, <1>4, <1>5, <1>6, <2>2, <2>3, <2>4, AskerMoves
<1>8. CASE asker[a].got = "refused"
  <2>1. note' = Thumbs!Noted(asker[a].photo, asker[a].version) /\ row' = row
    BY <1>8 DEF Thumbs!Outcome, Thumbs!isVerdict
  <2>2. /\ note' \in Notes /\ PhotosFine' /\ \A q \in Photos : note'[q] = "old" => note[q] = "old"
        /\ asker[a].photo \in Photos /\ asker[a].version = bytes[asker[a].photo] => note'[asker[a].photo] # "old"
    BY <1>1, <1>3, <1>8, <2>1, NoteWritten
  <2>3. row' \in [Photos -> Row]
    BY <2>1 DEF ThumbInv, ThumbTypes
  <2>4. AskFine(k, bytes, hard, note')
    BY <1>2, <1>3, <2>2 DEF AskFine
  <2> QED BY <1>1, <1>2, <1>4, <1>5, <1>6, <2>2, <2>3, <2>4, AskerMoves
<1>9. CASE asker[a].got \notin {"drawn", "refused"}
  <2>1. UNCHANGED <<note, row>>
    BY <1>9 DEF Thumbs!Outcome, Thumbs!isVerdict
  <2>2. AskFine(k, bytes, hard, note')
    BY <1>2, <1>3, <1>9 DEF AskFine
  <2> QED BY <1>1, <1>2, <1>4, <1>5, <1>6, <2>1, <2>2, NothingWritten, AskerMoves
<1> QED BY <1>7, <1>8, <1>9

LEMMA AnswerThumbs ==
  ASSUME ThumbInv, Counts, NEW a \in Askers, Thumbs!Answer(a) PROVE ThumbInv'
<1> DEFINE k == Thumbs!NoAsk
<1>1. /\ asker[a].at = "storing" /\ inQueue' = inQueue - 1 /\ decoding' = decoding - 1 /\ asker' = [asker EXCEPT ![a] = k]
      /\ UNCHANGED <<bytes, hard, note, pass>>
  BY DEF Thumbs!Answer, Thumbs!AskerAt, Thumbs!AskerDone, Thumbs!stores
<1>2. k \in Asking /\ k.at = "idle" /\ AskFine(k, bytes, hard, note')
  BY NoAskFine
<1> HIDE DEF k
<1>3. /\ asker[a].photo \in Photos /\ asker[a].version <= bytes[asker[a].photo] /\ asker[a].version \in Nat
      /\ asker[a].got = "refused" =>
           /\ <<asker[a].photo, asker[a].version>> \in hard
           /\ asker[a].version = bytes[asker[a].photo] => note[asker[a].photo] # "old"
  BY <1>1, AskerHere DEF AskFine, Asking
<1>4. a \in Queuing /\ a \in Drawing
  BY <1>1, AskerHere DEF Queued, Working
<1>5. Follows(inQueue', inQueue, a \in Queuing, k.at \in Queued) /\ Follows(decoding', decoding, a \in Drawing, k.at \in Working)
  BY <1>1, <1>2, <1>4 DEF Follows, Queued, Working
<1>6. decoding' <= Decoders
  <2>1. decoding \in Nat /\ decoding <= Decoders
    BY DecodersAre DEF ThumbInv, CountedThumbs
  <2> QED BY <1>1, <2>1 DEF Counts
<1>7. note' \in Notes /\ \A p \in Photos : note'[p] = "old" => note[p] = "old"
  BY <1>1 DEF ThumbInv, ThumbTypes
<1>8. row' \in [Photos -> Row] /\ PhotosFine'
  <2>1. CASE row' = row
    BY <1>1, <2>1, NothingWritten
  <2>2. CASE asker[a].got = "refused" /\ row' = Thumbs!Recorded(asker[a].photo, asker[a].version, "refused", FALSE)
    BY <1>1, <1>3, <2>2, RowWritten
  <2> QED BY <2>1, <2>2 DEF Thumbs!Answer, Thumbs!isVerdict
<1> QED BY <1>1, <1>2, <1>4, <1>5, <1>6, <1>7, <1>8, AskerMoves
-----------------------------------------------------------------------------
(* The pass.                                                               *)

Seen == [photo : Photos, version : Nat]

\* What the invariant says of the pass.
LEMMA PassHere ==
  ASSUME ThumbInv, Counts
  PROVE  /\ pass \in Passing /\ pass.todo \in Seq(Seen) /\ PassFine(pass, bytes, hard, note)
         /\ pass.at # "idle" => /\ pass.todo # <<>> /\ pass.todo[1] \in Seen /\ Head(pass.todo) = pass.todo[1]
                                /\ pass.todo[1].version <= bytes[pass.todo[1].photo]
<1>1. pass \in Passing /\ pass.todo \in Seq(Seen) /\ PassFine(pass, bytes, hard, note)
  BY DEF ThumbInv, ThumbTypes, Passing, Seen
<1>2. CASE pass.at # "idle"
  <2>1. pass.todo # <<>>
    BY <1>1, <1>2 DEF PassFine
  <2>2. 1 \in 1..Len(pass.todo) /\ pass.todo[1] \in Seen /\ Head(pass.todo) = pass.todo[1]
    BY <1>1, <2>1
  <2> QED BY <1>1, <2>1, <2>2 DEF PassFine
<1> QED BY <1>1, <1>2

\* NoPass, and the pass that goes on to its next file, have got nothing.
LEMMA OnwardFine ==
  ASSUME ThumbInv, Counts, pass.at # "idle"
  PROVE  /\ Thumbs!Onward \in Passing /\ Thumbs!Onward.at \in {"idle", "prepare"}
         /\ \A no : PassFine(Thumbs!Onward, bytes, hard, no)
<1> DEFINE rest == Tail(pass.todo)
           at == IF Len(pass.todo) > 1 THEN "prepare" ELSE "idle"
<1>1. Thumbs!Onward = [at |-> at, todo |-> rest, got |-> "none"]
  BY DEF Thumbs!Onward
<1>2. pass.todo \in Seq(Seen) /\ pass.todo # <<>>
  BY PassHere
<1>3. rest \in Seq(Seen) /\ Len(rest) = Len(pass.todo) - 1 /\ \A i \in 1..Len(rest) : rest[i] = pass.todo[i + 1] /\ i + 1 \in 1..Len(pass.todo)
  BY <1>2
<1>4. \A i \in 1..Len(rest) : rest[i].version <= bytes[rest[i].photo]
  BY <1>3, PassHere DEF PassFine
<1>5. at # "idle" => rest # <<>>
  <2>1. Len(pass.todo) \in Nat /\ Len(rest) = Len(pass.todo) - 1
    BY <1>2, <1>3
  <2>2. at # "idle" => Len(pass.todo) > 1
    OBVIOUS
  <2> HIDE DEF rest, at
  <2>3. rest = <<>> => Len(rest) = 0
    OBVIOUS
  <2> QED BY <2>1, <2>2, <2>3
<1>6. at \in {"idle", "prepare"}
  OBVIOUS
<1> HIDE DEF rest, at
<1> QED BY <1>1, <1>3, <1>4, <1>5, <1>6 DEF Passing, PassFine, Seen, Outcomes

LEMMA NoPassFine ==
  /\ Thumbs!NoPass \in Passing /\ Thumbs!NoPass.at = "idle"
  /\ \A by, ha, no : PassFine(Thumbs!NoPass, by, ha, no)
BY DEF Thumbs!NoPass, Passing, PassFine, Outcomes

LEMMA PassLooksThumbs == ASSUME ThumbInv, Counts, Thumbs!PassLooks PROVE ThumbInv'
<1>1. PICK n \in 1..Batch : \E batch \in [1..n -> Photos] :
        pass' = [at |-> "prepare", todo |-> [i \in 1..n |-> [photo |-> batch[i], version |-> bytes[batch[i]]]], got |-> "none"]
  BY DEF Thumbs!PassLooks
<1>b. PICK batch \in [1..n -> Photos] :
        pass' = [at |-> "prepare", todo |-> [i \in 1..n |-> [photo |-> batch[i], version |-> bytes[batch[i]]]], got |-> "none"]
  BY <1>1
<1>2. pass.at = "idle" /\ UNCHANGED <<bytes, hard, note, row, inQueue, decoding, asker>>
  BY DEF Thumbs!PassLooks, Thumbs!stores
<1> DEFINE todo == [i \in 1..n |-> [photo |-> batch[i], version |-> bytes[batch[i]]]]
<1>3. n \in Nat /\ n # 0 /\ bytes \in [Photos -> Nat]
  BY DEF Counts, ThumbInv, ThumbTypes
<1>4. /\ \A i \in 1..n : todo[i] = [photo |-> batch[i], version |-> bytes[batch[i]]] /\ todo[i] \in Seen
                         /\ todo[i].version <= bytes[todo[i].photo]
  BY <1>3 DEF Seen
<1>5. todo \in Seq(Seen) /\ Len(todo) = n
  BY <1>3, <1>4
<1>6. pass' = [at |-> "prepare", todo |-> todo, got |-> "none"]
  BY <1>b
<1> HIDE DEF todo
<1>7. todo # <<>>
  BY <1>3, <1>5
<1>8. pass' \in Passing /\ pass'.at = "prepare"
  BY <1>5, <1>6 DEF Passing, Outcomes, Seen
<1>9. PassFine(pass', bytes, hard, note')
  BY <1>4, <1>5, <1>6, <1>7 DEF PassFine
<1>10. /\ Follows(inQueue', inQueue, pass.at \in Looking, pass'.at \in Looking)
       /\ Follows(decoding', decoding, pass.at \in Looking, pass'.at \in Looking)
  BY <1>2, <1>8 DEF Follows, Looking
<1>11. decoding' <= Decoders
  BY <1>2 DEF ThumbInv, CountedThumbs
<1> QED BY <1>2, <1>8, <1>9, <1>10, <1>11, NothingWritten, PassMoves

\* The pass that is not in the queue goes on, or away.
LEMMA PassOutside ==
  ASSUME ThumbInv, Counts, pass.at \in {"prepare", "taking"}, pass' \in {Thumbs!Onward, Thumbs!NoPass},
         UNCHANGED <<bytes, hard, note, asker, inQueue, decoding>>, row' \in [Photos -> Row], PhotosFine'
  PROVE  ThumbInv'
<1>1. pass' \in Passing /\ pass'.at \in {"idle", "prepare"} /\ PassFine(pass', bytes, hard, note')
  BY OnwardFine, NoPassFine
<1>2. /\ Follows(inQueue', inQueue, pass.at \in Looking, pass'.at \in Looking)
      /\ Follows(decoding', decoding, pass.at \in Looking, pass'.at \in Looking)
  BY <1>1 DEF Follows, Looking
<1>3. decoding' <= Decoders /\ note' \in Notes /\ \A p \in Photos : note'[p] = "old" => note[p] = "old"
  BY DEF ThumbInv, ThumbTypes, CountedThumbs
<1> QED BY <1>1, <1>2, <1>3, PassMoves

LEMMA PrepareThumbs == ASSUME ThumbInv, Counts, Thumbs!Prepare PROVE ThumbInv'
<1> DEFINE p == Thumbs!AtHand.photo
           v == Thumbs!AtHand.version
<1>1. pass.at = "prepare" /\ UNCHANGED <<bytes, hard, note, inQueue, decoding, asker>>
  BY DEF Thumbs!Prepare, Thumbs!stores
<1>2. p \in Photos /\ v \in Nat /\ v <= bytes[p] /\ pass.todo # <<>> /\ Thumbs!AtHand = pass.todo[1]
  BY <1>1, PassHere DEF Thumbs!AtHand, Seen
<1>3. \/ v = bytes[p] /\ row' = Thumbs!Recorded(p, v, "made", FALSE) /\ pass' = Thumbs!Onward
      \/ v = bytes[p] /\ note[p] # "none" /\ row' = Thumbs!Recorded(p, v, "refused", Thumbs!NoteDated(p)) /\ pass' = Thumbs!Onward
      \/ row' = row /\ pass' = [pass EXCEPT !.at = "taking"]
      \/ row' = row /\ pass' = Thumbs!NoPass
  BY DEF Thumbs!Prepare
<1> HIDE DEF p, v
<1>4. CASE v = bytes[p] /\ row' = Thumbs!Recorded(p, v, "made", FALSE) /\ pass' = Thumbs!Onward
  <2>1. row' \in [Photos -> Row] /\ PhotosFine'
    BY <1>1, <1>2, <1>4, RowWritten
  <2> QED BY <1>1, <1>4, <2>1, PassOutside
<1>5. CASE v = bytes[p] /\ note[p] # "none" /\ row' = Thumbs!Recorded(p, v, "refused", Thumbs!NoteDated(p)) /\ pass' = Thumbs!Onward
  <2>1. <<p, v>> \in hard
    BY <1>2, <1>5 DEF ThumbInv, PhotosFine, PhotoFine
  <2>2. Thumbs!NoteDated(p) \in BOOLEAN /\ (note[p] = "old" => Thumbs!NoteDated(p) = TRUE)
    BY DEF Thumbs!NoteDated
  <2>3. row' \in [Photos -> Row] /\ PhotosFine'
    BY <1>1, <1>2, <1>5, <2>1, <2>2, RowWritten
  <2> QED BY <1>1, <1>5, <2>3, PassOutside
<1>6. CASE row' = row /\ pass' = [pass EXCEPT !.at = "taking"]
  <2>1. pass' \in Passing /\ pass'.at = "taking" /\ pass'.todo = pass.todo /\ pass'.got = pass.got
    BY <1>6, PassHere DEF Passing
  <2>2. PassFine(pass', bytes, hard, note')
    BY <1>1, <2>1, PassHere DEF PassFine
  <2>3. /\ Follows(inQueue', inQueue, pass.at \in Looking, pass'.at \in Looking)
        /\ Follows(decoding', decoding, pass.at \in Looking, pass'.at \in Looking)
    BY <1>1, <2>1 DEF Follows, Looking
  <2>4. decoding' <= Decoders
    BY <1>1 DEF ThumbInv, CountedThumbs
  <2> QED BY <1>1, <1>6, <2>1, <2>2, <2>3, <2>4, NothingWritten, PassMoves
<1>7. CASE row' = row /\ pass' = Thumbs!NoPass
  BY <1>1, <1>7, NothingWritten, PassOutside
<1> QED BY <1>3, <1>4, <1>5, <1>6, <1>7

LEMMA PassTakesThumbs == ASSUME ThumbInv, Counts, Thumbs!PassTakes PROVE ThumbInv'
<1>1. pass.at = "taking" /\ UNCHANGED <<bytes, hard, note, row, asker>>
  BY DEF Thumbs!PassTakes, Thumbs!stores
<1>2. CASE decoding < Decoders
  <2>1. inQueue' = inQueue + 1 /\ decoding' = decoding + 1 /\ pass' = [pass EXCEPT !.at = "decoding"]
    BY <1>2 DEF Thumbs!PassTakes
  <2>2. pass' \in Passing /\ pass'.at = "decoding" /\ pass'.todo = pass.todo /\ pass'.got = pass.got
    BY <2>1, PassHere DEF Passing, Looking
  <2>3. PassFine(pass', bytes, hard, note')
    BY <1>1, <2>2, PassHere DEF PassFine
  <2>4. /\ Follows(inQueue', inQueue, pass.at \in Looking, pass'.at \in Looking)
        /\ Follows(decoding', decoding, pass.at \in Looking, pass'.at \in Looking)
    BY <1>1, <2>1, <2>2 DEF Follows, Looking
  <2>5. decoding' <= Decoders
    BY <1>2, <2>1, DecodersAre DEF Counts
  <2> QED BY <1>1, <2>2, <2>3, <2>4, <2>5, NothingWritten, PassMoves
<1>3. CASE ~(decoding < Decoders)
  <2>1. pass' = Thumbs!NoPass /\ UNCHANGED <<inQueue, decoding>>
    BY <1>3 DEF Thumbs!PassTakes
  <2> QED BY <1>1, <2>1, NothingWritten, PassOutside
<1> QED BY <1>2, <1>3

LEMMA PassDecodesThumbs == ASSUME ThumbInv, Counts, Thumbs!PassDecodes PROVE ThumbInv'
<1>1. PICK got \in Thumbs!Decoded(Thumbs!AtHand.photo, Thumbs!AtHand.version) : pass' = [pass EXCEPT !.at = "decoded", !.got = got]
  BY DEF Thumbs!PassDecodes
<1>2. pass.at = "decoding" /\ UNCHANGED <<bytes, hard, note, row, inQueue, decoding, asker>>
  BY DEF Thumbs!PassDecodes, Thumbs!stores
<1>3. Thumbs!AtHand = pass.todo[1] /\ pass.todo # <<>>
  BY <1>2, PassHere DEF Thumbs!AtHand
<1>4. got \in Outcomes /\ (got = "refused" => <<pass.todo[1].photo, pass.todo[1].version>> \in hard)
  BY <1>3, Verdict
<1>5. pass' \in Passing /\ pass'.at = "decoded" /\ pass'.todo = pass.todo /\ pass'.got = got
  BY <1>1, <1>4, PassHere DEF Passing, Looking
<1>6. PassFine(pass', bytes, hard, note')
  BY <1>3, <1>4, <1>5, PassHere DEF PassFine
<1>7. /\ Follows(inQueue', inQueue, pass.at \in Looking, pass'.at \in Looking)
      /\ Follows(decoding', decoding, pass.at \in Looking, pass'.at \in Looking)
  BY <1>2, <1>5 DEF Follows, Looking
<1>8. decoding' <= Decoders
  BY <1>2 DEF ThumbInv, CountedThumbs
<1> QED BY <1>2, <1>5, <1>6, <1>7, <1>8, NothingWritten, PassMoves

\* The pass leaves the queue, and goes on.
LEMMA PassOut ==
  ASSUME ThumbInv, Counts, pass.at \in Looking, pass' = Thumbs!Onward, inQueue' = inQueue - 1, decoding' = decoding - 1,
         UNCHANGED <<bytes, hard, note, asker>>, row' \in [Photos -> Row], PhotosFine'
  PROVE  ThumbInv'
<1>1. pass.at # "idle"
  BY DEF Looking
<1>2. pass' \in Passing /\ pass'.at \in {"idle", "prepare"} /\ PassFine(pass', bytes, hard, note')
  BY <1>1, OnwardFine
<1>3. /\ Follows(inQueue', inQueue, pass.at \in Looking, pass'.at \in Looking)
      /\ Follows(decoding', decoding, pass.at \in Looking, pass'.at \in Looking)
  BY <1>2 DEF Follows, Looking
<1>4. note' \in Notes /\ \A p \in Photos : note'[p] = "old" => note[p] = "old"
  BY DEF ThumbInv, ThumbTypes
<1>5. decoding' <= Decoders
  <2>1. decoding \in Nat /\ decoding <= Decoders
    BY DecodersAre DEF ThumbInv, CountedThumbs
  <2> QED BY <2>1 DEF Counts
<1> QED BY <1>2, <1>3, <1>4, <1>5, PassMoves

LEMMA PassKeepsThumbs == ASSUME ThumbInv, Counts, Thumbs!PassKeeps PROVE ThumbInv'
<1>1. pass.at = "decoded" /\ UNCHANGED <<bytes, hard, row, asker>>
  BY DEF Thumbs!PassKeeps, Thumbs!stores
<1>2. /\ Thumbs!AtHand = pass.todo[1] /\ pass.todo # <<>> /\ pass.todo[1].photo \in Photos
      /\ pass.got = "refused" => <<pass.todo[1].photo, pass.todo[1].version>> \in hard
  BY <1>1, PassHere DEF Thumbs!AtHand, PassFine, Seen
<1>3. CASE /\ pass' = [pass EXCEPT !.at = "recording"] /\ UNCHANGED <<inQueue, decoding>>
           /\ \/ pass.got = "drawn" /\ note' = note
              \/ pass.got = "refused" /\ note' = Thumbs!Noted(pass.todo[1].photo, pass.todo[1].version)
  <2>1. pass' \in Passing /\ pass'.at = "recording" /\ pass'.todo = pass.todo /\ pass'.got = pass.got
    BY <1>3, PassHere DEF Passing, Looking
  <2>2. /\ Follows(inQueue', inQueue, pass.at \in Looking, pass'.at \in Looking)
        /\ Follows(decoding', decoding, pass.at \in Looking, pass'.at \in Looking)
    BY <1>1, <1>3, <2>1 DEF Follows, Looking
  <2>3. decoding' <= Decoders /\ row' \in [Photos -> Row]
    BY <1>1, <1>3 DEF ThumbInv, ThumbTypes, CountedThumbs
  <2>4. CASE pass.got = "drawn" /\ note' = note
    <3>1. PassFine(pass', bytes, hard, note')
      BY <1>2, <2>1, <2>4, PassHere DEF PassFine
    <3> QED BY <1>1, <2>1, <2>2, <2>3, <2>4, <3>1, NothingWritten, PassMoves
  <2>5. CASE pass.got = "refused" /\ note' = Thumbs!Noted(pass.todo[1].photo, pass.todo[1].version)
    <3>1. /\ note' \in Notes /\ PhotosFine' /\ \A q \in Photos : note'[q] = "old" => note[q] = "old"
          /\ pass.todo[1].version = bytes[pass.todo[1].photo] => note'[pass.todo[1].photo] # "old"
      BY <1>1, <1>2, <2>5, NoteWritten
    <3>2. PassFine(pass', bytes, hard, note')
      BY <1>2, <2>1, <2>5, <3>1, PassHere DEF PassFine
    <3> QED BY <1>1, <2>1, <2>2, <2>3, <3>1, <3>2, PassMoves
  <2> QED BY <1>3, <2>4, <2>5
<1>4. CASE pass' = Thumbs!Onward /\ inQueue' = inQueue - 1 /\ decoding' = decoding - 1 /\ note' = note
  <2>1. row' \in [Photos -> Row] /\ PhotosFine'
    BY <1>1, <1>4, NothingWritten
  <2> QED BY <1>1, <1>4, <2>1, PassOut DEF Looking
<1> QED BY <1>2, <1>3, <1>4 DEF Thumbs!PassKeeps, Thumbs!isVerdict

LEMMA PassRecordsThumbs == ASSUME ThumbInv, Counts, Thumbs!PassRecords PROVE ThumbInv'
<1> DEFINE p == pass.todo[1].photo
           v == pass.todo[1].version
<1>1. /\ pass.at = "recording" /\ UNCHANGED <<bytes, hard, note, asker>>
      /\ inQueue' = inQueue - 1 /\ decoding' = decoding - 1 /\ pass' = Thumbs!Onward
  BY DEF Thumbs!PassRecords, Thumbs!stores
<1>2. /\ Thumbs!AtHand = pass.todo[1] /\ pass.todo # <<>> /\ p \in Photos /\ v \in Nat /\ v <= bytes[p]
      /\ pass.got \in {"drawn", "refused"}
      /\ pass.got = "refused" => <<p, v>> \in hard /\ (v = bytes[p] => note[p] # "old")
  BY <1>1, PassHere DEF Thumbs!AtHand, PassFine, Seen
<1>3. row' = Thumbs!Recorded(p, v, IF pass.got = "drawn" THEN "made" ELSE "refused", FALSE)
  BY <1>2 DEF Thumbs!PassRecords
<1> HIDE DEF p, v
<1>4. row' \in [Photos -> Row] /\ PhotosFine'
  <2>1. CASE pass.got = "drawn"
    <3>1. row' = Thumbs!Recorded(p, v, "made", FALSE)
      BY <1>3, <2>1
    <3> QED BY <1>1, <1>2, <3>1, RowWritten
  <2>2. CASE pass.got = "refused"
    <3>1. row' = Thumbs!Recorded(p, v, "refused", FALSE)
      BY <1>3, <2>2
    <3> QED BY <1>1, <1>2, <2>2, <3>1, RowWritten
  <2> QED BY <1>2, <2>1, <2>2
<1> QED BY <1>1, <1>4, PassOut DEF Looking
-----------------------------------------------------------------------------
(* What happens around them.                                               *)

\* Bytes are replaced and notes written or swept: those at work know of it.
LEMMA AroundThumbs ==
  ASSUME ThumbInv, Counts, UNCHANGED <<asker, pass, inQueue, decoding>>,
         bytes' \in [Photos -> Nat], note' \in Notes, row' \in [Photos -> Row], PhotosFine', hard \subseteq hard',
         \A p \in Photos : bytes[p] <= bytes'[p] /\ (bytes'[p] = bytes[p] /\ note'[p] = "old" => note[p] = "old")
  PROVE  ThumbInv'
<1>1. ThumbTypes' /\ CountedThumbs'
  BY DEF ThumbInv, ThumbTypes, CountedThumbs, Queuing, Drawing, In
<1>2. bytes \in [Photos -> Nat]
  BY DEF ThumbInv, ThumbTypes
<1>3. ASSUME NEW b \in Askers PROVE AskFine(asker'[b], bytes', hard', note')
  <2>1. asker[b] \in Asking /\ AskFine(asker[b], bytes, hard, note)
    BY DEF ThumbInv, ThumbTypes
  <2>2. AskFine(asker[b], bytes', hard', note')
    BY <1>2, <2>1, AskLater
  <2> QED BY <2>2
<1>4. PassFine(pass', bytes', hard', note')
  <2>1. pass \in Passing /\ PassFine(pass, bytes, hard, note)
    BY DEF ThumbInv, ThumbTypes
  <2>2. PassFine(pass, bytes', hard', note')
    BY <1>2, <2>1, PassLater
  <2> QED BY <2>2
<1> QED BY <1>1, <1>3, <1>4 DEF ThumbInv

LEMMA OverwriteThumbs ==
  ASSUME ThumbInv, Counts, NEW p \in Photos, NEW drawable \in BOOLEAN, Thumbs!Overwrite(p, drawable) PROVE ThumbInv'
<1>1. /\ bytes' = [bytes EXCEPT ![p] = @ + 1] /\ note' = [note EXCEPT ![p] = "none"] /\ hard \subseteq hard'
      /\ UNCHANGED <<row, inQueue, decoding, asker, pass>>
  BY DEF Thumbs!Overwrite
<1>2. bytes \in [Photos -> Nat] /\ note \in Notes /\ row \in [Photos -> Row]
  BY DEF ThumbInv, ThumbTypes
<1>3. /\ bytes' \in [Photos -> Nat] /\ note' \in Notes
      /\ \A q \in Photos : /\ bytes[q] <= bytes'[q] /\ bytes[q] \in Nat
                           /\ q # p => bytes'[q] = bytes[q] /\ note'[q] = note[q]
                           /\ q = p => bytes'[q] # bytes[q] /\ note'[q] = "none"
  BY <1>1, <1>2 DEF Notes
<1>4. ASSUME NEW q \in Photos PROVE PhotoFine(q, bytes'[q], note'[q], row'[q], hard')
  <2>1. PhotoFine(q, bytes[q], note[q], row[q], hard) /\ row[q].version \in Nat
    BY <1>2 DEF ThumbInv, PhotosFine, Row
  <2>2. row[q].version <= bytes'[q]
    BY <1>3, <2>1 DEF PhotoFine
  <2> QED BY <1>1, <1>3, <2>1, <2>2 DEF PhotoFine
<1> QED BY <1>1, <1>2, <1>3, <1>4, AroundThumbs DEF PhotosFine

LEMMA SweepNoteThumbs == ASSUME ThumbInv, Counts, NEW p \in Photos, Thumbs!SweepNote(p) PROVE ThumbInv'
<1>1. note' = [note EXCEPT ![p] = "none"] /\ UNCHANGED <<bytes, hard, row, inQueue, decoding, asker, pass>>
  BY DEF Thumbs!SweepNote, Thumbs!stores
<1>2. bytes \in [Photos -> Nat] /\ note \in Notes /\ row \in [Photos -> Row]
  BY DEF ThumbInv, ThumbTypes
<1>3. note' \in Notes /\ \A q \in Photos : note'[q] \in {"none", note[q]} /\ bytes[q] <= bytes'[q]
  BY <1>1, <1>2 DEF Notes
<1>4. \A q \in Photos : PhotoFine(q, bytes[q], note'[q], row[q], hard)
  BY <1>3 DEF ThumbInv, PhotosFine, PhotoFine
<1> QED BY <1>1, <1>2, <1>3, <1>4, AroundThumbs DEF PhotosFine

\* A week dates the rows and the notes together; no request is between its two
\* writes then, nor the pass.
LEMMA WeekThumbs == ASSUME ThumbInv, Counts, Thumbs!Week PROVE ThumbInv'
<1>1. /\ pass.at # "recording" /\ \A a \in Askers : asker[a].at # "storing"
      /\ row' = [p \in Photos |-> [row[p] EXCEPT !.old = row[p].state = "refused"]]
      /\ note' = [p \in Photos |-> IF note[p] = "none" THEN "none" ELSE "old"]
      /\ UNCHANGED <<bytes, hard, inQueue, decoding, asker, pass>>
  BY DEF Thumbs!Week, Thumbs!AskerAt
<1>2. bytes \in [Photos -> Nat] /\ note \in Notes /\ row \in [Photos -> Row]
  BY DEF ThumbInv, ThumbTypes
<1>3. note' \in Notes /\ \A q \in Photos : note'[q] # "none" => note[q] # "none"
  BY <1>1 DEF Notes
<1>4. ASSUME NEW q \in Photos
      PROVE  /\ row'[q] \in Row /\ row'[q].version = row[q].version /\ row'[q].state = row[q].state
             /\ row[q].state = "refused" => row'[q].old = TRUE
  <2>1. CASE row[q].state = "refused"
    <3>1. row'[q] = [row[q] EXCEPT !.old = TRUE]
      BY <1>1, <2>1
    <3> QED BY <1>2, <3>1 DEF Row
  <2>2. CASE row[q].state # "refused"
    <3>1. row'[q] = [row[q] EXCEPT !.old = FALSE]
      BY <1>1, <2>2
    <3> QED BY <1>2, <2>2, <3>1 DEF Row
  <2> QED BY <2>1, <2>2
<1>5. row' \in [Photos -> Row]
  BY <1>1, <1>4
<1>6. ThumbTypes' /\ CountedThumbs'
  BY <1>1, <1>3, <1>5 DEF ThumbInv, ThumbTypes, CountedThumbs, Queuing, Drawing, In
<1>7. PhotosFine'
  <2>1. ASSUME NEW q \in Photos PROVE PhotoFine(q, bytes[q], note'[q], row'[q], hard)
    <3>1. PhotoFine(q, bytes[q], note[q], row[q], hard)
      BY DEF ThumbInv, PhotosFine
    <3> QED BY <1>3, <1>4, <3>1 DEF PhotoFine
  <2> QED BY <1>1, <2>1 DEF PhotosFine
<1>8. \A a \in Askers : AskFine(asker'[a], bytes', hard', note')
  BY <1>1 DEF ThumbInv, AskFine
<1>9. PassFine(pass', bytes', hard', note')
  BY <1>1 DEF ThumbInv, PassFine
<1> QED BY <1>6, <1>7, <1>8, <1>9 DEF ThumbInv

LEMMA UpgradeThumbs == ASSUME ThumbInv, Counts, Thumbs!Upgrade PROVE ThumbInv'
<1>1. /\ inQueue' = 0 /\ decoding' = 0 /\ asker' = [a \in Askers |-> Thumbs!NoAsk] /\ pass' = Thumbs!NoPass
      /\ UNCHANGED <<bytes, hard, note, row>>
  BY DEF Thumbs!Upgrade
<1>2. asker' \in [Askers -> Asking] /\ \A a \in Askers : asker'[a].at = "idle" /\ AskFine(asker'[a], bytes', hard', note')
  BY <1>1, NoAskFine
<1>3. pass' \in Passing /\ pass'.at = "idle" /\ PassFine(pass', bytes', hard', note')
  BY <1>1, NoPassFine
<1>4. ThumbTypes'
  BY <1>1, <1>2, <1>3 DEF ThumbInv, ThumbTypes
<1>5. Queuing' = {} /\ Drawing' = {} /\ In(pass') = 0
  BY <1>2, <1>3 DEF Queuing, Drawing, In, Queued, Working, Looking
<1>6. CountedThumbs'
  BY <1>1, <1>5, FS_EmptySet DEF CountedThumbs, Counts
<1>7. PhotosFine'
  BY <1>1 DEF ThumbInv, PhotosFine
<1> QED BY <1>2, <1>3, <1>4, <1>6, <1>7 DEF ThumbInv

LEMMA InitThumbs == ASSUME Counts, Thumbs!Init PROVE ThumbInv
<1>1. /\ inQueue = 0 /\ decoding = 0 /\ asker = [a \in Askers |-> Thumbs!NoAsk] /\ pass = Thumbs!NoPass
      /\ bytes = [p \in Photos |-> 0] /\ note = [p \in Photos |-> "none"]
      /\ row = [p \in Photos |-> [state |-> "untried", version |-> 0, old |-> FALSE]]
  BY DEF Thumbs!Init
<1>2. asker \in [Askers -> Asking] /\ \A a \in Askers : asker[a].at = "idle" /\ AskFine(asker[a], bytes, hard, note)
  BY <1>1, NoAskFine
<1>3. pass \in Passing /\ pass.at = "idle" /\ PassFine(pass, bytes, hard, note)
  BY <1>1, NoPassFine
<1>4. ThumbTypes
  BY <1>1, <1>2, <1>3 DEF ThumbTypes, Notes, Row
<1>5. Queuing = {} /\ Drawing = {} /\ In(pass) = 0
  BY <1>2, <1>3 DEF Queuing, Drawing, In, Queued, Working, Looking
<1>6. CountedThumbs
  BY <1>1, <1>5, FS_EmptySet DEF CountedThumbs, Counts
<1>7. PhotosFine
  BY <1>1 DEF PhotosFine, PhotoFine
<1> QED BY <1>2, <1>3, <1>4, <1>6, <1>7 DEF ThumbInv

LEMMA NextThumbs == ASSUME ThumbInv, Counts, [Thumbs!Next]_tvars PROVE ThumbInv'
<1>1. CASE UNCHANGED tvars
  <2>1. CountedThumbs'
    BY <1>1 DEF tvars, ThumbInv, CountedThumbs, Queuing, Drawing, In
  <2> QED BY <1>1, <2>1 DEF tvars, ThumbInv, ThumbTypes, PhotosFine
<1>2. ASSUME NEW a \in Askers, Thumbs!AskerSteps(a) PROVE ThumbInv'
  BY <1>2, TakeDecoderThumbs, GiveUpThumbs, DecodeThumbs, OutcomeThumbs, AnswerThumbs DEF Thumbs!AskerSteps
<1>3. CASE Thumbs!PassSteps
  BY <1>3, PassLooksThumbs, PrepareThumbs, PassTakesThumbs, PassDecodesThumbs, PassKeepsThumbs, PassRecordsThumbs DEF Thumbs!PassSteps
<1> QED BY <1>1, <1>2, <1>3, AskThumbs, OverwriteThumbs, WeekThumbs, SweepNoteThumbs, UpgradeThumbs DEF Thumbs!Next
-----------------------------------------------------------------------------
(* The theorems.                                                           *)

\* Whatever the requests, their processes and their clients do, every slot is
\* counted by a request that holds it (transcoder.go run, encode.go Segment).
THEOREM StreamsStayInvariant == ASSUME Sized PROVE Spec => []SInv
<1>1. Init => SInv
  BY InitStreams DEF Init
<1>2. SInv /\ [Next]_vars => SInv'
  <2> SUFFICES ASSUME SInv, [Next]_vars PROVE SInv'
    OBVIOUS
  <2>1. [Streaming!Next]_svars
    BY DEF Next, vars
  <2> QED BY <2>1, NextStreams
<1> QED BY <1>1, <1>2, PTL DEF Spec

\* The same of thumbnails: the queue and the decoders are counted by the
\* requests and the pass that are in them, a verdict that anybody holds is
\* about bytes that could not be drawn (thumb.go cached, ahead.go Prepare).
THEOREM ThumbsStayInvariant == ASSUME Counts PROVE Spec => []ThumbInv
<1>1. Init => ThumbInv
  BY InitThumbs DEF Init
<1>2. ThumbInv /\ [Next]_vars => ThumbInv'
  <2> SUFFICES ASSUME ThumbInv, [Next]_vars PROVE ThumbInv'
    OBVIOUS
  <2>1. [Thumbs!Next]_tvars
    BY DEF Next, vars
  <2> QED BY <2>1, NextThumbs
<1> QED BY <1>1, <1>2, PTL DEF Spec

\* The variables of Streaming keep their types: no slot is given back twice and
\* none is taken beyond the limit (transcoder.go run and Close).
THEOREM StreamsTypeCorrect == ASSUME Sized PROVE Spec => []Streaming!TypeOK
<1>1. SInv => Streaming!TypeOK
  BY DEF SInv
<1> QED BY <1>1, StreamsStayInvariant, PTL

LEMMA StreamsLeakNothing == ASSUME SInv PROVE Streaming!NothingLeaks
<1> SUFFICES ASSUME \A r \in Requests : Streaming!At(r, "idle")
             PROVE  slots = 0 /\ encodeSlots = 0 /\ grants = {} /\ \A r \in Requests : ffmpeg[r] = "none"
  BY DEF Streaming!NothingLeaks
<1>1. \A r \in Requests : r \notin grants /\ ffmpeg[r] = "none" /\ r \notin Encoding
  BY Here DEF Streaming!At, Placed, Holding
<1>2. grants = {} /\ Encoding = {}
  BY <1>1 DEF SInv, Streaming!TypeOK, Encoding
<1> QED BY <1>1, <1>2, FS_EmptySet DEF SInv, Counted

LEMMA GrantsFollow == ASSUME SInv PROVE Streaming!GrantsFollowProcesses
<1> SUFFICES ASSUME NEW r \in Requests
             PROVE  /\ ffmpeg[r] = "alive" => r \in grants
                    /\ r \in grants => job[r].at \in {"granted", "started", "copying", "closed"}
  BY DEF Streaming!GrantsFollowProcesses
<1> QED BY Here DEF Placed, Streaming!Places

LEMMA ThumbsHoldNothing == ASSUME ThumbInv PROVE Thumbs!NothingHeldAtRest
<1> SUFFICES ASSUME \A a \in Askers : asker[a].at = "idle", pass.at \notin Looking PROVE inQueue = 0 /\ decoding = 0
  BY DEF Thumbs!NothingHeldAtRest, Thumbs!AskerAt, Looking
<1>1. Queuing = {} /\ Drawing = {} /\ In(pass) = 0
  BY DEF Queuing, Drawing, In, Queued, Working
<1> QED BY <1>1, FS_EmptySet DEF ThumbInv, CountedThumbs

\* When nobody is being served nothing is held, however the requests before
\* ended: no slot, grant or process, no place in the queue and no decoder
\* (transcoder.go run and Close, encode.go Segment, thumb.go cached).
THEOREM NothingStaysTaken == ASSUME Sized, Counts PROVE Spec => []NothingLeaks
<1>1. SInv /\ ThumbInv => NothingLeaks
  BY StreamsLeakNothing, GrantsFollow, ThumbsHoldNothing DEF NothingLeaks
<1> QED BY <1>1, StreamsStayInvariant, ThumbsStayInvariant, PTL

\* No segment is kept half-written, as long as an ffmpeg that has begun to
\* write ends only with everything written or killed (encode.go Segment).
THEOREM SegmentsAreKeptWhole == ASSUME Sized, ~MidwayDeaths PROVE Spec => []KeptIsWhole
<1>1. SInv => KeptIsWhole
  BY DEF SInv, Whole, KeptIsWhole
<1> QED BY <1>1, StreamsStayInvariant, PTL

\* A refusal is about the bytes, never about a store that did not answer, and
\* its note and its row expire together, whatever is overwritten, swept or
\* dated between the two writes (thumb.go remember, ahead.go Prepare).
THEOREM RefusalsStayHonest == ASSUME Counts PROVE Spec => []RefusalsAreHonest
<1>1. ThumbInv => RefusalsAreHonest
  <2> SUFFICES ASSUME ThumbInv, NEW p \in Photos
               PROVE  /\ note[p] # "none" => <<p, bytes[p]>> \in hard
                      /\ row[p].state = "refused" => <<p, row[p].version>> \in hard
                      /\ note[p] = "old" /\ row[p].state = "refused" /\ row[p].version = bytes[p] => row[p].old
    BY DEF RefusalsAreHonest, Thumbs!RefusalsAreAboutTheBytes, Thumbs!RefusalsExpireTogether, Thumbs!Present
  <2> QED BY DEF ThumbInv, PhotosFine, PhotoFine
<1> QED BY <1>1, ThumbsStayInvariant, PTL

\* No more decodes run at once than the limit allows, and the queue before them
\* holds at most one more than its own: the pass, which looked before it joined
\* (thumb.go cached, ahead.go decodeIfIdle).
THEOREM DecodersAreBounded == ASSUME Counts PROVE Spec => [](decoding <= Decoders /\ inQueue <= DecodeQueue + 1)
<1>1. ThumbInv => decoding <= Decoders /\ inQueue <= DecodeQueue + 1
  <2> SUFFICES ASSUME ThumbInv PROVE decoding <= Decoders /\ inQueue <= DecodeQueue + 1
    OBVIOUS
  <2>1. Cardinality(Queuing) \in Nat /\ In(pass) \in {0, 1}
    BY FS_CardinalityType DEF ThumbInv, CountedThumbs, In
  <2> QED BY <2>1 DEF ThumbInv, CountedThumbs, Counts
<1> QED BY <1>1, ThumbsStayInvariant, PTL
=============================================================================
