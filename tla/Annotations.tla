---------------------------- MODULE Annotations ----------------------------
(***************************************************************************)
(* Stars, ratings and plays as the three drivers keep them: a row is made  *)
(* by whatever is said first, and a second statement prunes it when it     *)
(* says nothing any more.  The Subsonic handlers that write them take      *)
(* several subjects in one request, a statement or two each, with no       *)
(* transaction around them, beside the deletion of files.                  *)
(***************************************************************************)
EXTENDS Integers, Sequences, FiniteSets, FiniteSetsExt

CONSTANTS
  Songs,        \* file ids
  AlbumTags,    \* album subjects; the tags of one stand for both tables' keys
  Callers,      \* requests at once
  MaxCalls      \* requests in a behaviour

VARIABLES
  dialect,      \* which driver runs
  library,      \* file id -> "audio" or "other", for the files there are
  notes,        \* subject -> row, for the rows there are
  caller,       \* request -> what it still has to do
  calls

annotationVars == <<dialect, library, notes, caller, calls>>

TrackSubject(f) == [kind |-> "track", of |-> f]
AlbumSubject(a) == [kind |-> "album", of |-> a]
Subjects == {TrackSubject(f) : f \in Songs} \cup {AlbumSubject(a) : a \in AlbumTags}
Ratings  == {0, 5}
Clock    == {1, 2}

Null == 0
Blank == [starred |-> Null, rating |-> 0, plays |-> 0, played |-> Null]
-----------------------------------------------------------------------------
(* The statements.                                                         *)

Larger(a, b) == IF a > b THEN a ELSE b
Coalesce(a, b) == IF a = Null THEN b ELSE a

\* SQLite's max and MySQL's GREATEST are NULL when a side is; PostgreSQL's is
\* not.
sqliteLater(old, at)   == Larger(Coalesce(old, at), at)
mysqlLater(old, at)    == IF Coalesce(old, at) = Null THEN Null ELSE Larger(Coalesce(old, at), at)
postgresLater(old, at) == IF old = Null THEN at ELSE Larger(old, at)

Later(old, at) ==
  CASE dialect = "sqlite" -> sqliteLater(old, at)
    [] dialect = "mysql" -> mysqlLater(old, at)
    [] dialect = "postgres" -> postgresLater(old, at)

Row(s) == IF s \in DOMAIN notes THEN notes[s] ELSE Blank
Keep(s, row) == [x \in DOMAIN notes \cup {s} |-> IF x = s THEN row ELSE notes[x]]

\* A track's row refers to its file.
Referable(s) == s.kind = "track" => s.of \in DOMAIN library

starred(row, at)  == [row EXCEPT !.starred = Coalesce(@, at)]
rated(row, r)     == [row EXCEPT !.rating = r]
played(row, at)   == [row EXCEPT !.plays = @ + 1, !.played = Later(@, at)]

\* Mutant: the prune of a tag row, which has no plays, for both tables.
PrunesForgettingPlays(s, row) == row.starred = Null /\ row.rating = 0

sqlitePrunes(s, row)   == row.starred = Null /\ row.rating = 0 /\ (s.kind = "track" => row.plays = 0)
mysqlPrunes(s, row)    == row.starred = Null /\ row.rating = 0 /\ (s.kind = "track" => row.plays = 0)
postgresPrunes(s, row) == row.starred = Null /\ row.rating = 0 /\ (s.kind = "track" => row.plays = 0)

Prunes(s, row) ==
  CASE dialect = "sqlite" -> sqlitePrunes(s, row)
    [] dialect = "mysql" -> mysqlPrunes(s, row)
    [] dialect = "postgres" -> postgresPrunes(s, row)
-----------------------------------------------------------------------------
(* The requests.                                                           *)

Idle == [op |-> "none", todo |-> <<>>, at |-> 1, rating |-> 0, prune |-> FALSE]

Init ==
  /\ dialect \in {"sqlite", "mysql", "postgres"}
  /\ library = [f \in Songs |-> "audio"]
  /\ notes = <<>>
  /\ caller = [c \in Callers |-> Idle]
  /\ calls = 0

\* exists: a track that is audio, or an album that has one.  Every song here
\* is of every album.
exists(s) ==
  IF s.kind = "track" THEN s.of \in DOMAIN library /\ library[s.of] = "audio"
  ELSE \E f \in DOMAIN library : library[f] = "audio"

Lists == {<<s>> : s \in Subjects} \cup {<<TrackSubject(f), AlbumSubject(a)>> : f \in Songs, a \in AlbumTags}

Begin(c, op, todo, at, rating) ==
  /\ caller[c].op = "none" /\ calls < MaxCalls
  /\ calls' = calls + 1
  /\ caller' = [caller EXCEPT ![c] = [op |-> op, todo |-> todo, at |-> at, rating |-> rating, prune |-> FALSE]]
  /\ UNCHANGED <<dialect, library, notes>>

\* A star and a rating are for what the library holds; taking a star away is
\* not.  One id that names nothing refuses all of them before the first write.
star(c) ==
  \E todo \in Lists, at \in Clock :
    /\ \A k \in DOMAIN todo : exists(todo[k])
    /\ Begin(c, "star", todo, at, 0)

unstar(c) ==
  \E todo \in Lists : Begin(c, "unstar", todo, 1, 0)

setRating(c) ==
  \E s \in Subjects, rating \in Ratings : exists(s) /\ Begin(c, "rate", <<s>>, 1, rating)

\* The plays a client reports, each with its time, in any order.
scrobble(c) ==
  \E s \in Subjects, at \in Clock :
    /\ s.kind = "track" /\ exists(s)
    /\ \E again \in 1..2 : Begin(c, "play", [k \in 1..again |-> s], at, 0)

Proceed(c) ==
  caller' = [caller EXCEPT ![c] =
    IF Len(@.todo) = 1 THEN Idle ELSE [@ EXCEPT !.todo = Tail(@), !.prune = FALSE]]

\* One upsert.  A file that is gone fails the request there: what came before
\* stays said, what comes after is not.
Say(c) ==
  LET r == caller[c]
      s == Head(r.todo)
  IN /\ r.op # "none" /\ ~r.prune
     /\ \/ /\ r.op \in {"star", "rate", "play"} /\ ~Referable(s)
           /\ caller' = [caller EXCEPT ![c] = Idle]
           /\ UNCHANGED notes
        \/ /\ r.op = "star" /\ Referable(s)
           /\ notes' = Keep(s, starred(Row(s), r.at))
           /\ Proceed(c)
        \/ /\ r.op = "play" /\ Referable(s)
           /\ notes' = Keep(s, played(Row(s), r.at))
           /\ Proceed(c)
        \/ /\ r.op = "rate" /\ Referable(s)
           /\ notes' = Keep(s, rated(Row(s), r.rating))
           /\ caller' = [caller EXCEPT ![c].prune = TRUE]
        \/ /\ r.op = "unstar"
           /\ notes' = [x \in DOMAIN notes |-> IF x = s THEN [notes[x] EXCEPT !.starred = Null] ELSE notes[x]]
           /\ caller' = [caller EXCEPT ![c].prune = TRUE]
     /\ UNCHANGED <<dialect, library, calls>>

\* The prune looks again at what the row says when it runs.
prune(c) ==
  LET s == Head(caller[c].todo)
  IN /\ caller[c].op # "none" /\ caller[c].prune
     /\ notes' = [x \in {y \in DOMAIN notes : y # s \/ ~Prunes(s, notes[y])} |-> notes[x]]
     /\ Proceed(c)
     /\ UNCHANGED <<dialect, library, calls>>

\* The connection is closed, or the database fails, between two statements.
Cut(c) ==
  /\ caller[c].op # "none"
  /\ caller' = [caller EXCEPT ![c] = Idle]
  /\ UNCHANGED <<dialect, library, notes, calls>>

\* A file goes, and its row with it; or stops being music.
DeleteSong(f) ==
  /\ library' = [g \in DOMAIN library \ {f} |-> library[g]]
  /\ notes' = [s \in DOMAIN notes \ {TrackSubject(f)} |-> notes[s]]
  /\ UNCHANGED <<dialect, caller, calls>>

Reindex(f) ==
  /\ library' = [library EXCEPT ![f] = "other"]
  /\ UNCHANGED <<dialect, notes, caller, calls>>

Next ==
  \/ \E c \in Callers : star(c) \/ unstar(c) \/ setRating(c) \/ scrobble(c) \/ Say(c) \/ prune(c) \/ Cut(c)
  \/ \E f \in DOMAIN library : DeleteSong(f) \/ Reindex(f)
-----------------------------------------------------------------------------
(* What the rows answer: AnnotationsOf, for a subject's own row.           *)

\* An album's plays are added up, and merged into what its own row says.
AlbumPlays ==
  LET rows == {s \in DOMAIN notes : s.kind = "track" /\ exists(s) /\ notes[s].plays > 0}
  IN [plays |-> MapThenSumSet(LAMBDA s : notes[s].plays, rows),
      played |-> Max({Null} \cup {notes[s].played : s \in rows})]

Merged(s) == IF s.kind = "track" THEN Row(s) ELSE [Row(s) EXCEPT !.plays = AlbumPlays.plays, !.played = AlbumPlays.played]

sqliteAnnotationsOf   == [s \in Subjects |-> Merged(s)]
mysqlAnnotationsOf    == [s \in Subjects |-> Merged(s)]
postgresAnnotationsOf == [s \in Subjects |-> Merged(s)]

AnnotationsOf ==
  CASE dialect = "sqlite" -> sqliteAnnotationsOf
    [] dialect = "mysql" -> mysqlAnnotationsOf
    [] dialect = "postgres" -> postgresAnnotationsOf

Opinion == INSTANCE Opinions WITH
  said <- AnnotationsOf, held <- {s \in Subjects : s.kind = "track" /\ exists(s)}, Times <- Clock

\* Whatever is said of one subject by requests that interleave, are cut off and
\* are repeated is what the promise says: nothing but its file's deletion takes
\* a star, a rating or a play away, no prune is ever seen, and an album's plays
\* are those of the tracks it has now.
SaysWhatWasSaid == [][Opinion!Next]_AnnotationsOf
=============================================================================
