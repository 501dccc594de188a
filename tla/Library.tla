------------------------------ MODULE Library ------------------------------
(***************************************************************************)
(* The music library: what the drivers' queries make of the tags of the    *)
(* tracks (artists, albums, genres and their counts, the lists a client    *)
(* pages through), the names internal/music gives to tags so that they can *)
(* be folders, the tree of those names, and the ids of the Subsonic API.   *)
(*                                                                         *)
(* Tags are sequences of characters.  Tracks are added, retagged, played   *)
(* and removed; the properties relate what one question answers to what    *)
(* another does about the same library.                                    *)
(***************************************************************************)
EXTENDS Integers, Sequences, FiniteSets, FiniteSetsExt, SequencesExt

CONSTANTS
  Tags,         \* what a track may say: [artist, album, genre, year]
  FileNames,    \* sequence: the name of file n
  TrackNumbers, \* sequence: the track number of file n
  MaxPlays

VARIABLES
  server,       \* which driver answers
  index,        \* file id -> tags and plays, for the audio files there are
  newest        \* the highest id given so far

libraryVars == <<server, index, newest>>

Ids == DOMAIN index

SeqLess(s, t) ==
  \/ s # t /\ IsPrefix(s, t)
  \/ \E k \in DOMAIN s \cap DOMAIN t : SubSeq(s, 1, k - 1) = SubSeq(t, 1, k - 1) /\ s[k] < t[k]

\* ORDER BY a list of columns, each a sequence.
ByColumns(a, b) ==
  \E k \in DOMAIN a : SubSeq(a, 1, k - 1) = SubSeq(b, 1, k - 1) /\ SeqLess(a[k], b[k])
-----------------------------------------------------------------------------
(* Queries.                                                                *)

AlbumKey(f) == <<index[f].artist, index[f].album>>
TracksOf(key) == {f \in Ids : AlbumKey(f) = key}

\* An album is two tags, and no album is not one.
AlbumKeys == {AlbumKey(f) : f \in {g \in Ids : index[g].album # <<>>}}

\* albumSelect, the aggregate every album listing shares.  The first added is
\* the lowest id here.
sqliteAlbum(key) ==
  [artist |-> key[1], name |-> key[2], songs |-> Cardinality(TracksOf(key)),
   year |-> Max({index[f].year : f \in TracksOf(key)}), added |-> Min(TracksOf(key)),
   plays |-> MapThenSumSet(LAMBDA f : index[f].plays, TracksOf(key))]
mysqlAlbum(key) ==
  [artist |-> key[1], name |-> key[2], songs |-> Cardinality(TracksOf(key)),
   year |-> Max({index[f].year : f \in TracksOf(key)}), added |-> Min(TracksOf(key)),
   plays |-> MapThenSumSet(LAMBDA f : index[f].plays, TracksOf(key))]
postgresAlbum(key) ==
  [artist |-> key[1], name |-> key[2], songs |-> Cardinality(TracksOf(key)),
   year |-> Max({index[f].year : f \in TracksOf(key)}), added |-> Min(TracksOf(key)),
   plays |-> MapThenSumSet(LAMBDA f : index[f].plays, TracksOf(key))]

Album(key) ==
  CASE server = "sqlite" -> sqliteAlbum(key)
    [] server = "mysql" -> mysqlAlbum(key)
    [] server = "postgres" -> postgresAlbum(key)

Lower(s) == [k \in DOMAIN s |-> IF s[k] \in 65..90 THEN s[k] + 32 ELSE s[k]]

\* ORDER BY a text: its bytes, or the letters and then their case where the
\* collation is the database's own.
sqliteOrder(text)   == <<text>>
mysqlOrder(text)    == <<text>>
postgresOrder(text) == <<Lower(text), text>>

Order(text) ==
  CASE server = "sqlite" -> sqliteOrder(text)
    [] server = "mysql" -> mysqlOrder(text)
    [] server = "postgres" -> postgresOrder(text)

ArtistTags == {k[1] : k \in AlbumKeys} \ {<<>>}

Artists ==
  SetToSortSeq({[name |-> a, albums |-> Cardinality({k \in AlbumKeys : k[1] = a})] : a \in ArtistTags},
               LAMBDA x, y : ByColumns(Order(x.name), Order(y.name)))

\* No artist asks for everybody's.
KeysOf(artist) == {k \in AlbumKeys : artist = <<>> \/ k[1] = artist}

Albums(artist) ==
  SetToSortSeq({Album(k) : k \in KeysOf(artist)},
               LAMBDA x, y : ByColumns(Order(x.artist) \o Order(x.name), Order(y.artist) \o Order(y.name)))

Tracks(artist, album) ==
  SetToSortSeq(TracksOf(<<artist, album>>),
               LAMBDA f, g : \/ TrackNumbers[f] < TrackNumbers[g]
                             \/ TrackNumbers[f] = TrackNumbers[g] /\ f < g)

Orders == {"byName", "byArtist", "byAdded", "byYear", "byYearDesc", "frequent"}

\* What comes first in each order, as a number; and the columns that break the
\* tie.
Rank(order, a) ==
  CASE order = "byAdded" -> -a.added
    [] order = "byYear" -> a.year
    [] order = "byYearDesc" -> -a.year
    [] order = "frequent" -> -a.plays
    [] OTHER -> 0

sqliteTie(order, a) ==
  IF order = "byName" THEN Order(a.name) \o Order(a.artist) ELSE Order(a.artist) \o Order(a.name)
mysqlTie(order, a) ==
  IF order = "byName" THEN Order(a.name) \o Order(a.artist) ELSE Order(a.artist) \o Order(a.name)
postgresTie(order, a) ==
  IF order = "byName" THEN Order(a.name) \o Order(a.artist) ELSE Order(a.artist) \o Order(a.name)

Tie(order, a) ==
  CASE server = "sqlite" -> sqliteTie(order, a)
    [] server = "mysql" -> mysqlTie(order, a)
    [] server = "postgres" -> postgresTie(order, a)

Before(order, a, b) ==
  \/ Rank(order, a) < Rank(order, b)
  \/ Rank(order, a) = Rank(order, b) /\ ByColumns(Tie(order, a), Tie(order, b))

\* The genre and the year are of the album, never of the tracks that are
\* counted.
Listed(order, genre, from, to) ==
  {a \in {Album(k) : k \in AlbumKeys} :
     /\ genre = <<>> \/ \E f \in TracksOf(<<a.artist, a.name>>) : index[f].genre = genre
     /\ from = 0 \/ a.year >= from
     /\ to = 0 \/ a.year <= to
     /\ order = "frequent" => a.plays > 0}

Page(list, limit, offset) == SubSeq(list, offset + 1, Min({offset + limit, Len(list)}))

AlbumList(order, genre, from, to, limit, offset) ==
  Page(SetToSortSeq(Listed(order, genre, from, to), LAMBDA a, b : Before(order, a, b)), limit, offset)

\* By path, which is by id here.
TrackList(genre, from, to) ==
  {f \in Ids : /\ genre = <<>> \/ index[f].genre = genre
               /\ from = 0 \/ index[f].year >= from
               /\ to = 0 \/ index[f].year <= to}

\* The albums of a genre are counted by their two tags joined by a control
\* character.
sqliteAlbumsIn(tracks)   == {index[f].artist \o <<31>> \o index[f].album : f \in tracks}
mysqlAlbumsIn(tracks)    == {index[f].artist \o <<31>> \o index[f].album : f \in tracks}
postgresAlbumsIn(tracks) == {index[f].artist \o <<31>> \o index[f].album : f \in tracks}

AlbumsIn(tracks) ==
  CASE server = "sqlite" -> sqliteAlbumsIn(tracks)
    [] server = "mysql" -> mysqlAlbumsIn(tracks)
    [] server = "postgres" -> postgresAlbumsIn(tracks)

Genres ==
  {[name |-> g,
    songs |-> Cardinality({f \in Ids : index[f].genre = g}),
    albums |-> Cardinality(AlbumsIn({f \in Ids : index[f].genre = g /\ index[f].album # <<>>}))] :
     g \in {index[f].genre : f \in Ids} \ {<<>>}}
-----------------------------------------------------------------------------
(* Names.                                                                  *)

Forbidden == {47, 92, 60, 62, 58, 34, 124, 63, 42}
Underscore == 95

TrimSpace(s) ==
  LET at == {k \in DOMAIN s : s[k] # 32} IN IF at = {} THEN <<>> ELSE SubSeq(s, Min(at), Max(at))

Segment(name, whenEmpty) ==
  LET trim == TrimSpace(name)
      clean == [k \in DOMAIN trim |-> IF trim[k] \in Forbidden \/ trim[k] < 32 THEN Underscore ELSE trim[k]]
  IN IF \A k \in DOMAIN clean : clean[k] = 46 THEN whenEmpty ELSE clean

\* CopyName, for a name with no extension: " (n)".
CopyName(base, n) == base \o <<32, 40, 48 + n, 41>>

\* Mutant: a name that differs in case only is another name.
FreeOfExactly(taken, base) ==
  IF base \notin taken THEN base
  ELSE CopyName(base, CHOOSE n \in 2..9 : CopyName(base, n) \notin taken /\ \A m \in 2..(n - 1) : CopyName(base, m) \in taken)

Free(taken, base) ==
  LET is(name) == \A t \in taken : Lower(t) # Lower(name)
  IN IF is(base) THEN base
     ELSE CopyName(base, CHOOSE n \in 2..9 : is(CopyName(base, n)) /\ \A m \in 2..(n - 1) : ~is(CopyName(base, m)))

\* The names of things, given in the order that makes them stable.
unique(wants) == FoldLeft(LAMBDA names, want : Append(names, Free(Range(names), want)), <<>>, wants)

NamesOf(things, want(_)) ==
  LET names == unique([k \in DOMAIN things |-> want(things[k])])
  IN [x \in Range(things) |-> names[CHOOSE k \in DOMAIN things : things[k] = x]]

\* By the tag itself, whatever order the driver lists them in.
ArtistNames ==
  NamesOf(SetToSortSeq(ArtistTags, SeqLess), LAMBDA a : Segment(a, <<85>>))
AlbumNames(artist) ==
  NamesOf(SetToSortSeq({k[2] : k \in KeysOf(artist)}, SeqLess), LAMBDA a : Segment(a, <<85>>))

TrackNames(artist, album) ==
  NamesOf(SetToSortSeq(TracksOf(<<artist, album>>), <), LAMBDA f : Segment(FileNames[f], <<84>>))
-----------------------------------------------------------------------------
(* The tree of names.  A node is its path; what is at it, its tags.        *)

Nowhere == [artist |-> <<>>, album |-> <<>>, track |-> 0, there |-> FALSE]
At(artist, album, track) == [artist |-> artist, album |-> album, track |-> track, there |-> TRUE]
Called(names, name) == {x \in DOMAIN names : names[x] = name}
The(names, name) == CHOOSE x \in Called(names, name) : TRUE

InAlbum(artist, album, path) ==
  IF Len(path) = 2 THEN At(artist, album, 0)
  ELSE IF Called(TrackNames(artist, album), path[3]) = {} THEN Nowhere
  ELSE At(artist, album, The(TrackNames(artist, album), path[3]))

InArtist(artist, path) ==
  IF Len(path) = 1 THEN At(artist, <<>>, 0)
  ELSE IF Called(AlbumNames(artist), path[2]) = {} THEN Nowhere
  ELSE InAlbum(artist, The(AlbumNames(artist), path[2]), path)

Resolve(path) ==
  IF path = <<>> THEN At(<<>>, <<>>, 0)
  ELSE IF Len(path) > 3 \/ Called(ArtistNames, path[1]) = {} THEN Nowhere
  ELSE InArtist(The(ArtistNames, path[1]), path)

\* What Children lists in a node, as the paths of what is in it.
NamesIn(n, depth) ==
  CASE depth = 0 -> Range(ArtistNames)
    [] depth = 1 -> Range(AlbumNames(n.artist))
    [] OTHER -> Range(TrackNames(n.artist, n.album))

Children(path) == {Append(path, name) : name \in NamesIn(Resolve(path), Len(path))}

\* Where a page's link for some tags leads: nowhere for what the tree has not.
PathOfAlbum(artist, album) ==
  IF artist \in DOMAIN ArtistNames /\ album \in DOMAIN AlbumNames(artist)
  THEN <<ArtistNames[artist], AlbumNames(artist)[album]>> ELSE <<>>

PathOf(f) ==
  LET at == PathOfAlbum(index[f].artist, index[f].album)
  IN IF at = <<>> THEN <<>> ELSE Append(at, TrackNames(index[f].artist, index[f].album)[f])

\* The track an album is asked through when the question is about the album.
FirstTrack(artist, album) == IF TracksOf(<<artist, album>>) = {} THEN 0 ELSE Tracks(artist, album)[1]

\* A page, split by what is at the address, with what it links to.
musicPage(path) ==
  LET n == Resolve(path)
  IN IF ~n.there THEN [shows |-> "not found", links |-> {}, cover |-> 0]
     ELSE [shows |-> <<"artists", "artist", "album", "track">>[Len(path) + 1],
           links |-> IF Len(path) < 3 THEN Children(path) ELSE {},
           cover |-> IF Len(path) = 2 THEN FirstTrack(n.artist, n.album) ELSE 0]

\* Tags are sent to the address they are served at.
musicByTag(artist, album) ==
  IF album # <<>> THEN PathOfAlbum(artist, album)
  ELSE IF artist \in DOMAIN ArtistNames THEN <<ArtistNames[artist]>> ELSE <<>>

\* The WebDAV half of the same addresses: a PROPFIND lists what the tree has,
\* resolved before the library that writes the answer sees it.
Propfind(path) ==
  LET n == Resolve(path)
  IN IF ~n.there THEN [status |-> 404, members |-> {}]
     ELSE [status |-> 207, members |-> IF Len(path) < 3 THEN {c[Len(c)] : c \in Children(path)} ELSE {}]
-----------------------------------------------------------------------------
(* The Subsonic API.                                                       *)

\* Two tags with a NUL between; what comes before the first one is the artist.
albumID(artist, album) == artist \o <<0>> \o album
parseAlbumID(id) ==
  LET cut == Min({k \in DOMAIN id : id[k] = 0})
  IN <<SubSeq(id, 1, cut - 1), SubSeq(id, cut + 1, Len(id))>>

\* getAlbum: the first of the artist's albums with that name, and the tracks of
\* the two tags.
getAlbum(id) ==
  LET key == parseAlbumID(id)
      of == Albums(key[1])
      found == {k \in DOMAIN of : of[k].name = key[2]}
  IN IF found = {} THEN [there |-> FALSE, songs |-> 0, tracks |-> <<>>]
     ELSE [there |-> TRUE, songs |-> of[Min(found)].songs, tracks |-> Tracks(key[1], key[2])]

\* getArtist: an artist with no album is not there.
getArtist(artist) == [there |-> Albums(artist) # <<>>, albumCount |-> Len(Albums(artist))]

\* A range of years given backwards asks for them backwards.
albumsFor(from, to, limit, offset) ==
  IF from > to THEN AlbumList("byYearDesc", <<>>, to, from, limit, offset)
  ELSE AlbumList("byYear", <<>>, from, to, limit, offset)

-----------------------------------------------------------------------------
Init == server \in {"sqlite", "mysql", "postgres"} /\ index = <<>> /\ newest = 0

Put(f, tags, plays) == [g \in Ids \cup {f} |-> IF g = f THEN tags @@ [plays |-> plays] ELSE index[g]]

AddTrack ==
  /\ newest < Len(FileNames)
  /\ newest' = newest + 1
  /\ \E t \in Tags : index' = Put(newest', t, 0)
  /\ UNCHANGED server

Retag(f) ==
  /\ \E t \in Tags : index' = Put(f, t, index[f].plays)
  /\ UNCHANGED <<server, newest>>

Play(f) ==
  /\ index[f].plays < MaxPlays
  /\ index' = [index EXCEPT ![f].plays = @ + 1]
  /\ UNCHANGED <<server, newest>>

RemoveTrack(f) ==
  /\ index' = [g \in Ids \ {f} |-> index[g]]
  /\ UNCHANGED <<server, newest>>

Next == AddTrack \/ \E f \in Ids : Retag(f) \/ Play(f) \/ RemoveTrack(f)

Spec == Init /\ [][Next]_libraryVars
-----------------------------------------------------------------------------
(* Properties.                                                             *)

\* A listing and what is opened from it count alike: an artist its albums, an
\* album its songs, a genre the songs and the albums that are listed under it.
CountsAgree ==
  /\ \A a \in Range(Artists) : getArtist(a.name) = [there |-> TRUE, albumCount |-> a.albums]
  /\ \A g \in Genres : /\ g.songs = Cardinality(TrackList(g.name, 0, 0))
                       /\ g.albums = Cardinality(Listed("byName", g.name, 0, 0))
  /\ \A k \in AlbumKeys :
       LET shown == getAlbum(albumID(k[1], k[2]))
       IN shown.there /\ shown.songs = Len(shown.tracks) /\ Range(shown.tracks) = TracksOf(k)

\* However the albums are ordered, the pages put together are the list, with
\* nothing twice and nothing left out: no order leaves two albums to chance.
PagesAreTheList ==
  \A order \in Orders :
    LET all == Listed(order, <<>>, 0, 0)
        page(n) == AlbumList(order, <<>>, 0, 0, 1, n - 1)
    IN /\ \A a, b \in all : a # b => Before(order, a, b) # Before(order, b, a)
       /\ \A n \in 1..Cardinality(all) : Len(page(n)) = 1
       /\ {page(n)[1] : n \in 1..Cardinality(all)} = all

\* A backwards range of years is the same albums.
YearsEitherWay == Range(albumsFor(1, 2, 9, 0)) = Range(albumsFor(2, 1, 9, 0))

\* No two things in a folder have names that a file system which ignores case
\* takes for one; every link on a page is a page, and the mount lists the same;
\* the link of a track leads back to it, tags lead to the page of those tags, and
\* an album's cover is one of its own tracks'.
TreeLeadsBack ==
  /\ \A p \in {<<>>} \cup Children(<<>>) \cup UNION {Children(a) : a \in Children(<<>>)} :
       LET page == musicPage(p)
           n == Resolve(p)
       IN /\ Cardinality({Lower(c[Len(c)]) : c \in page.links}) =
               Cardinality(CASE Len(p) = 0 -> ArtistTags
                             [] Len(p) = 1 -> KeysOf(n.artist)
                             [] OTHER -> TracksOf(<<n.artist, n.album>>))
          /\ \A c \in page.links : musicPage(c).shows # "not found"
          /\ Propfind(p) = [status |-> 207, members |-> {c[Len(c)] : c \in page.links}]
          /\ Len(p) = 2 => page.cover \in TracksOf(<<n.artist, n.album>>)
  /\ \A f \in Ids : PathOf(f) # <<>> => Resolve(PathOf(f)) = At(index[f].artist, index[f].album, f)
  /\ \A f \in Ids : index[f].artist # <<>> /\ index[f].album # <<>> =>
       /\ PathOf(f) # <<>>
       /\ Resolve(musicByTag(index[f].artist, index[f].album)) = At(index[f].artist, index[f].album, 0)
       /\ Resolve(musicByTag(index[f].artist, <<>>)) = At(index[f].artist, <<>>, 0)

\* A track keeps its name when a newer file joins its album.
TrackNamesAreStable ==
  \A k \in AlbumKeys :
    newest \in TracksOf(k) =>
      LET now == TrackNames(k[1], k[2])
          before == unique([n \in 1..(Cardinality(TracksOf(k)) - 1) |->
                              Segment(FileNames[SetToSortSeq(TracksOf(k), <)[n]], <<84>>)])
      IN \A n \in DOMAIN before : now[SetToSortSeq(TracksOf(k), <)[n]] = before[n]

\* An artist keeps its name when another arrives (music/names.go:28: "Ties are
\* broken in an order that does not change when something else arrives").
ArtistNamesAreStable ==
  [][newest' > newest =>
       \A a \in DOMAIN ArtistNames : ArtistNames'[a] = ArtistNames[a]]_libraryVars

\* Every album that is listed has a place in the tree, and can be starred: both
\* need an artist.
ListedAlbumsHaveAPlace == \A k \in AlbumKeys : PathOfAlbum(k[1], k[2]) # <<>>

\* An album that is gone is not found, whoever else has one of that name.
GoneAlbumsAreGone ==
  \A t \in Tags : t.album # <<>> /\ <<t.artist, t.album>> \notin AlbumKeys =>
                    ~getAlbum(albumID(t.artist, t.album)).there
=============================================================================
