------------------------------ MODULE Lookups ------------------------------
(***************************************************************************)
(* What outside sources say of the music: the pass that asks them, the     *)
(* rows it keeps, and the requests that read those rows (internal/lookup,  *)
(* internal/db/lookup.go and the drivers' lookups.go, media/thumb/art.go,  *)
(* subsonic/lyrics.go), while files are written, read by the indexer,      *)
(* deleted and swept.                                                      *)
(*                                                                         *)
(* A recording stands for the bytes of a file: its ETag, the tags in it    *)
(* and, with the id of the file, its blob key.  A file is given the same   *)
(* bytes once.  Times are hours, 0 is no time, as the zero time.Time is.   *)
(***************************************************************************)
EXTENDS Integers, Sequences, FiniteSets

CONSTANTS
  Recordings,     \* sequence of [album, sung, ids, names], by recording
  Spellings,      \* by album, the artists and titles it is searched by
  FileIds,        \* a set of positive numbers
  MayHold,        \* the recordings each of them may be given, a bound
  AlbumBatch,
  LyricsBatch,
  MaxClock        \* hours

VARIABLES
  stored,         \* the recording a file holds, None before it is there, Gone after
  indexed,        \* the recording its media row was read from, or None
  art,            \* blob keys that have a fetched cover beside them
  albumRow,       \* album_lookups, NoRow where there is none
  lyricsRow,      \* lyrics, NoWords where there is none
  clock,
  pass,           \* the pass under way
  viewer,         \* an album whose cover a request did not find, or None
  heard           \* by album: when it was last asked about, and what came of it

lookupVars == <<stored, indexed, art, albumRow, lyricsRow, clock, pass, viewer, heard>>

None == 0
Gone == -1
Never == 0

SearchVersion == 2
retryUnreachable == 1
lyricsJitter == 1
retryNothing == 2    \* more than retryUnreachable is all that matters

Albums == {Recordings[r].album : r \in DOMAIN Recordings} \ {None}
NoBlob == <<None, None>>
NoRow == [there |-> FALSE, retry |-> Never, group |-> FALSE, cover |-> NoBlob, version |-> 0]
NoWords == [there |-> FALSE, etag |-> None, by |-> None, retry |-> Never, found |-> FALSE]
Idle == [at |-> "idle", now |-> 0, albums |-> <<>>, songs |-> <<>>, left |-> 0, group |-> FALSE, blob |-> NoBlob,
         turned |-> {}]
Silent == [at |-> 0, said |-> "nobody"]

Live(id) == stored[id] \notin {None, Gone}
Blob(id) == <<id, stored[id]>>
Tags(id) == Recordings[indexed[id]]
Audio(id) == Live(id) /\ indexed[id] # None
InAlbum(a) == {id \in FileIds : Audio(id) /\ Tags(id).album = a}
FirstOf(s, n) == SubSeq(s, 1, IF n < Len(s) THEN n ELSE Len(s))
Ascending(s) == [k \in 1..Cardinality(s) |-> CHOOSE x \in s : Cardinality({y \in s : y < x}) = k - 1]
-----------------------------------------------------------------------------
(* The repository.                                                         *)

\* PendingAlbumLookups: no row, one whose time has come, or one an older
\* search found nothing for.
AlbumDue(a, now) ==
  /\ InAlbum(a) # {}
  /\ \/ ~albumRow[a].there
     \/ albumRow[a].retry # Never /\ albumRow[a].retry <= now
     \/ ~albumRow[a].group /\ albumRow[a].version < SearchVersion

\* The album, and an id when any of its tracks carries one.
Candidate(a) ==
  [album |-> a, group |-> \E id \in InAlbum(a) : Tags(id).ids = "group",
   release |-> \E id \in InAlbum(a) : Tags(id).ids = "release"]

PendingAlbumLookups(now) == FirstOf(Ascending({a \in Albums : AlbumDue(a, now)}), AlbumBatch)

\* PendingLyrics: no row, one for other bytes, or one whose time has come.
LyricsDue(id, now) ==
  /\ Audio(id) /\ Tags(id).sung
  /\ \/ ~lyricsRow[id].there
     \/ lyricsRow[id].etag # stored[id]
     \/ lyricsRow[id].retry # Never /\ lyricsRow[id].retry <= now

Track(id) == [id |-> id, etag |-> stored[id], tags |-> indexed[id]]

PendingLyrics(now) ==
  LET due == FirstOf(Ascending({id \in FileIds : LyricsDue(id, now)}), LyricsBatch)
  IN [i \in DOMAIN due |-> Track(due[i])]

PruneAlbumLookups == [a \in Albums |-> IF InAlbum(a) = {} THEN NoRow ELSE albumRow[a]]

\* PutLyrics: the row is the file's, and goes with it.
PutLyrics(id, row) == [lyricsRow EXCEPT ![id] = IF Live(id) THEN row ELSE @]

\* LookupCounts, of the library and not of the rows.
LookupCounts ==
  LET albums == {a \in Albums : InAlbum(a) # {}}
      tracks == {id \in FileIds : Audio(id) /\ Tags(id).sung}
  IN [albums |-> Cardinality(albums),
      albumsTried |-> Cardinality({a \in albums : albumRow[a].there}),
      identified |-> Cardinality({a \in albums : albumRow[a].group}),
      covers |-> Cardinality({a \in albums : albumRow[a].cover # NoBlob}),
      tracks |-> Cardinality(tracks),
      tracksTried |-> Cardinality({id \in tracks : lyricsRow[id].there}),
      lyrics |-> Cardinality({id \in tracks : lyricsRow[id].found})]
-----------------------------------------------------------------------------
(* The pass.                                                               *)

\* lookupAlbum of the next album, which has an id or is searched for; or the
\* other half, when there is none.
NextAlbum(albums) ==
  LET rest == [pass EXCEPT !.albums = albums, !.left = 0, !.group = FALSE, !.blob = NoBlob]
  IN IF albums = <<>> THEN [rest EXCEPT !.at = "songs"]
     ELSE IF albums[1].group \/ albums[1].release THEN [rest EXCEPT !.at = "cover", !.group = albums[1].group]
     ELSE [rest EXCEPT !.at = "search", !.left = Spellings[albums[1].album]]

Prune ==
  /\ pass.at = "idle"
  /\ albumRow' = PruneAlbumLookups
  /\ pass' = [Idle EXCEPT !.at = "pruned", !.now = clock]
  /\ heard' = [a \in Albums |-> IF InAlbum(a) = {} THEN Silent ELSE heard[a]]
  /\ UNCHANGED <<stored, indexed, art, lyricsRow, clock, viewer>>

ReadAlbums ==
  /\ pass.at = "pruned"
  /\ LET due == PendingAlbumLookups(pass.now)
     IN pass' = NextAlbum([i \in DOMAIN due |-> Candidate(due[i])])
  /\ UNCHANGED <<stored, indexed, art, albumRow, lyricsRow, clock, viewer, heard>>

ThisAlbum == pass.albums[1].album
RestOfAlbums == NextAlbum(Tail(pass.albums))

\* putAlbum, and what everybody heard of the album.
PutAlbum(retry, group, cover, said) ==
  /\ albumRow' = [albumRow EXCEPT ![ThisAlbum] =
       [there |-> TRUE, retry |-> retry, group |-> group, cover |-> cover, version |-> SearchVersion]]
  /\ heard' = [heard EXCEPT ![ThisAlbum] = [at |-> pass.now, said |-> said]]

\* A row that says nothing was there.
NothingThere(group) ==
  PutAlbum(pass.now + retryNothing, group, NoBlob, "nothing") /\ pass' = RestOfAlbums

\* Mutant: the half goes on after a refusal.
deferAlbumGoesOn(said, service) ==
  /\ PutAlbum(pass.now + retryUnreachable, pass.group, NoBlob, "unanswered")
  /\ pass' = [RestOfAlbums EXCEPT !.turned = IF said = "refused" THEN @ \cup {service} ELSE @]

\* deferAlbum: an hour, and the end of this half when the source refused.
deferAlbum(said, service) ==
  /\ PutAlbum(pass.now + retryUnreachable, pass.group, NoBlob, "unanswered")
  /\ pass' = IF said = "refused" THEN [NextAlbum(<<>>) EXCEPT !.turned = @ \cup {service}] ELSE RestOfAlbums

\* What a source sends: what was asked for, an answer with nothing in it, one
\* that is not JSON or is too long, a status, or nothing at all.
Sent == {"asked", "empty", "junk", "long", "lost", "301", "400", "404", "429", "500", "503"}

\* get: what it says of the album.  An empty answer is the caller's to judge.
get(sent) ==
  CASE sent \in {"404", "400", "long"} -> "nothing"
    [] sent \in {"429", "503"} -> "refused"
    [] sent \in {"500", "301", "lost"} -> "unreachable"
    [] OTHER -> sent

\* searchReleaseGroup: no result that is good enough is nothing.
searchReleaseGroup(sent) ==
  CASE sent = "asked" -> "found" [] sent = "empty" -> "nothing" [] sent = "junk" -> "unreachable" [] OTHER -> get(sent)

\* releaseGroup: spelling by spelling, until one is found or the source fails.
releaseGroup(said) ==
  /\ pass.at = "search"
  /\ \/ said = "found" /\ pass' = [pass EXCEPT !.at = "cover", !.group = TRUE, !.left = 0] /\ UNCHANGED <<albumRow, heard>>
     \/ said = "nothing" /\ pass.left > 1 /\ pass' = [pass EXCEPT !.left = @ - 1] /\ UNCHANGED <<albumRow, heard>>
     \/ said = "nothing" /\ pass.left = 1 /\ NothingThere(FALSE)
     \/ said \in {"unreachable", "refused"} /\ deferAlbum(said, "musicbrainz")
  /\ UNCHANGED <<stored, indexed, art, lyricsRow, clock, viewer>>

\* frontCover: any body is a picture until StoreArt has looked at it.
frontCover(said) ==
  /\ pass.at = "cover"
  /\ \/ said \in {"asked", "empty", "junk"} /\ pass' = [pass EXCEPT !.at = "tracks"] /\ UNCHANGED <<albumRow, heard>>
     \/ said = "nothing" /\ NothingThere(pass.group)
     \/ said \in {"unreachable", "refused"} /\ deferAlbum(said, "coverartarchive")
  /\ UNCHANGED <<stored, indexed, art, lyricsRow, clock, viewer>>

\* Tracks: the picture is filed under the first, and nothing is written about
\* an album that has none left.
ListTracks ==
  /\ pass.at = "tracks"
  /\ pass' = IF InAlbum(ThisAlbum) = {} THEN RestOfAlbums
             ELSE [pass EXCEPT !.at = "store", !.blob = Blob(Ascending(InAlbum(ThisAlbum))[1])]
  /\ UNCHANGED <<stored, indexed, art, albumRow, lyricsRow, clock, viewer, heard>>

\* StoreArt: what is not a picture, or is not kept, is asked for in a month.
StoreArt(taken) ==
  /\ pass.at = "store"
  /\ \/ taken /\ art' = art \cup {pass.blob} /\ pass' = [pass EXCEPT !.at = "put"] /\ UNCHANGED <<albumRow, heard>>
     \/ ~taken /\ NothingThere(pass.group) /\ UNCHANGED art
  /\ UNCHANGED <<stored, indexed, lyricsRow, clock, viewer>>

PutCover ==
  /\ pass.at = "put"
  /\ PutAlbum(Never, pass.group, pass.blob, "found")
  /\ pass' = RestOfAlbums
  /\ UNCHANGED <<stored, indexed, art, lyricsRow, clock, viewer>>

NextSong(songs) ==
  IF songs = <<>> THEN Idle
  ELSE [pass EXCEPT !.at = "words", !.songs = songs, !.left = Recordings[songs[1].tags].names]

ReadSongs ==
  /\ pass.at = "songs"
  /\ pass' = NextSong(PendingLyrics(pass.now))
  /\ UNCHANGED <<stored, indexed, art, albumRow, lyricsRow, clock, viewer, heard>>

\* lyricsBy: a 503 of this source is one track's, and no refusal.
lyricsBy(sent) ==
  CASE sent = "asked" -> "found" [] sent = "empty" -> "nothing" [] sent \in {"junk", "503"} -> "unreachable" [] OTHER -> get(sent)

\* lookupLyrics: asked by what the tags say, name by name, and kept by the
\* file's ETag; a source that failed is asked again an hour later or a bit more.
lookupLyrics(said, late) ==
  /\ pass.at = "words"
  /\ LET song == pass.songs[1]
         Row(retry, found) ==
           [there |-> TRUE, etag |-> song.etag, by |-> song.tags, retry |-> retry, found |-> found]
         Put(retry, found) == lyricsRow' = PutLyrics(song.id, Row(retry, found))
         wait == pass.now + retryUnreachable + late
     IN \/ said = "nothing" /\ pass.left > 1 /\ pass' = [pass EXCEPT !.left = @ - 1] /\ UNCHANGED lyricsRow
        \/ said = "nothing" /\ pass.left = 1 /\ Put(pass.now + retryNothing, FALSE) /\ pass' = NextSong(Tail(pass.songs))
        \/ said = "found" /\ Put(Never, TRUE) /\ pass' = NextSong(Tail(pass.songs))
        \/ said = "unreachable" /\ Put(wait, FALSE) /\ pass' = NextSong(Tail(pass.songs))
        \/ said = "refused" /\ Put(wait, FALSE) /\ pass' = NextSong(<<>>)
  /\ UNCHANGED <<stored, indexed, art, albumRow, clock, viewer, heard>>

\* The context ends, a statement fails or the process stops: what was read is
\* forgotten, and what was written stays.
Stop ==
  /\ pass.at # "idle"
  /\ pass' = Idle
  /\ UNCHANGED <<stored, indexed, art, albumRow, lyricsRow, clock, viewer, heard>>
-----------------------------------------------------------------------------
(* Who reads the rows.                                                     *)

\* coverSource: a song is asked by itself, an album and an artist by the first
\* track there is.
coverSource == {id \in FileIds : Audio(id)}

\* fetchedArt, of the track's album: the picture is not where the row says.
fetchedArt(id) ==
  /\ viewer = None
  /\ LET a == Tags(id).album
     IN a # None /\ albumRow[a].cover # NoBlob /\ albumRow[a].cover \notin art /\ viewer' = a
  /\ UNCHANGED <<stored, indexed, art, albumRow, lyricsRow, clock, pass, heard>>

\* ForgetCover: whatever the row says by now.
ForgetCover ==
  /\ viewer # None
  /\ albumRow' = [albumRow EXCEPT ![viewer] = IF @.there THEN [@ EXCEPT !.cover = NoBlob, !.retry = clock] ELSE @]
  /\ viewer' = None
  /\ heard' = [heard EXCEPT ![viewer] = Silent]
  /\ UNCHANGED <<stored, indexed, art, lyricsRow, clock, pass>>

\* lyricsBySong: the words of the row, whatever bytes they were fetched for.
lyricsBySong(id) == IF Audio(id) /\ lyricsRow[id].found THEN lyricsRow[id].by ELSE None

\* albumInfo2: the id of an album that has a track.
albumInfo2(a) == InAlbum(a) # {} /\ albumRow[a].group
-----------------------------------------------------------------------------
(* The library.                                                            *)

\* A file is written, or written over: the row keeps its id and its tags.
Write(id, r) ==
  /\ stored[id] # Gone /\ stored[id] < r    \* no bytes twice
  /\ stored' = [stored EXCEPT ![id] = r]
  /\ UNCHANGED <<indexed, art, albumRow, lyricsRow, clock, pass, viewer, heard>>

Index(id) ==
  /\ Live(id) /\ indexed[id] # stored[id]
  /\ indexed' = [indexed EXCEPT ![id] = stored[id]]
  /\ UNCHANGED <<stored, art, albumRow, lyricsRow, clock, pass, viewer, heard>>

Delete(id) ==
  /\ Live(id)
  /\ stored' = [stored EXCEPT ![id] = Gone]
  /\ indexed' = [indexed EXCEPT ![id] = None]
  /\ lyricsRow' = [lyricsRow EXCEPT ![id] = NoWords]
  /\ UNCHANGED <<art, albumRow, clock, pass, viewer, heard>>

\* The collector takes what is beside a blob that nobody has; the trash may
\* still have it.
Sweep ==
  /\ \E lost \in SUBSET {b \in art : stored[b[1]] # b[2]} : lost # {} /\ art' = art \ lost
  /\ UNCHANGED <<stored, indexed, albumRow, lyricsRow, clock, pass, viewer, heard>>

Tick ==
  /\ clock < MaxClock
  /\ clock' = clock + 1
  /\ UNCHANGED <<stored, indexed, art, albumRow, lyricsRow, pass, viewer, heard>>

\* A row of a build whose search was not as good.
OldRow == [NoRow EXCEPT !.there = TRUE, !.retry = 1 + retryNothing, !.version = SearchVersion - 1]

\* An empty library, or one whose first recording an older build asked about.
Init ==
  /\ stored \in {[id \in FileIds |-> None], [id \in FileIds |-> IF id = 1 THEN 1 ELSE None]}
  /\ indexed = stored
  /\ albumRow = [a \in Albums |-> IF InAlbum(a) = {} THEN NoRow ELSE OldRow]
  /\ lyricsRow = [id \in FileIds |-> NoWords] /\ art = {}
  /\ clock = 1 /\ pass = Idle /\ viewer = None
  /\ heard = [a \in Albums |-> Silent]

Next ==
  \/ Prune \/ ReadAlbums \/ ListTracks \/ PutCover \/ ReadSongs \/ Stop \/ ForgetCover \/ Sweep \/ Tick
  \/ \E said \in {searchReleaseGroup(sent) : sent \in Sent} : releaseGroup(said)
  \/ \E said \in {get(sent) : sent \in Sent} : frontCover(said)
  \/ \E taken \in BOOLEAN : StoreArt(taken)
  \/ \E said \in {lyricsBy(sent) : sent \in Sent}, late \in 0..lyricsJitter : lookupLyrics(said, late)
  \/ \E id \in coverSource : fetchedArt(id)
  \/ \E id \in FileIds : Index(id) \/ Delete(id)
  \/ \E id \in FileIds : \E r \in MayHold[id] : Write(id, r)

Spec == Init /\ [][Next]_lookupVars
-----------------------------------------------------------------------------
\* Nothing falls out of the queue: when no time would bring anything back, the
\* counts say that all is there.
NothingFallsOut ==
  LET counts == LookupCounts
      ever == MaxClock + retryNothing + retryUnreachable + 1
  IN /\ {a \in Albums : AlbumDue(a, ever)} = {} => counts.covers = counts.albums
     /\ {id \in FileIds : LyricsDue(id, ever)} = {} => counts.lyrics = counts.tracks

\* A cover that a row names is there for as long as the track it was filed
\* under has those bytes.
NamedCoversAreKept ==
  \A a \in Albums : LET b == albumRow[a].cover
                    IN b # NoBlob /\ stored[b[1]] = b[2] => b \in art

\* A question is put when the last answer is old enough: a month after
\* "nothing", an hour after none, never after a cover; and a source that turned
\* a pass away is not asked again by it.
NobodyIsPestered ==
  pass.at \in {"search", "cover"} =>
    LET last == heard[ThisAlbum]
    IN /\ last.said = "nothing" => last.at + retryNothing <= pass.now
       /\ last.said = "unanswered" => last.at + retryUnreachable <= pass.now
       /\ last.said # "found"
       /\ pass.turned = {}

\* Words kept for the bytes a file holds, and shown with it, were found by the
\* tags in those bytes.
WordsAreOfTheirBytes ==
  \A id \in FileIds : lyricsBySong(id) # None /\ lyricsRow[id].etag = stored[id] => lyricsBySong(id) = stored[id]

\* "A row that found an id keeps it": an album that has one in getAlbumInfo2
\* has it until its last track is gone.
IdentityIsKept ==
  [][\A a \in Albums : albumInfo2(a) /\ InAlbum(a)' # {} => albumInfo2(a)']_lookupVars
=============================================================================
