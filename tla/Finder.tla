------------------------------- MODULE Finder -------------------------------
(***************************************************************************)
(* Search: the Finder port as the three drivers answer it, the pages of    *)
(* the web search, WebDAV's SEARCH and OpenSubsonic's search3              *)
(* (internal/db/find.go, Find and Search of each driver, web/search.go,    *)
(* dav/search.go, subsonic/discover.go).                                   *)
(*                                                                         *)
(* A text is a sequence of words and separators.  A word is a number, its  *)
(* capital 100 more, and is of three letters at least, the shortest MySQL  *)
(* indexes; there is a separator between any two.  The path of an item is  *)
(* its place in Items.  A search is one walk, page by page, while files    *)
(* come and go.                                                            *)
(***************************************************************************)
EXTENDS Integers, Sequences, FiniteSets

CONSTANTS
  Items,        \* sequence of [dir, name, kind, title, artist, album, albumArtist, photo]
  Terms,        \* texts typed
  Scopes,       \* what a SEARCH may name: sequences of segments, Up among them
  PageLen,      \* rows of a page
  MaxMeddling   \* files that come or go during a search

VARIABLES
  dbms,         \* the driver
  shelf,        \* the items there are
  search,       \* [door, term, bucket, under, arbiter, limit, body, status], the one under way
  shown,        \* the keys shown, in order
  ended,        \* there is no link to more
  meddled       \* the items that came or went since it began

finderVars == <<dbms, shelf, search, shown, ended, meddled>>

SPACE == 0
UNDERSCORE == 1
DASH == 2
Up == -1
MaxResults == 2    \* maxSearchResults

LOCAL SequenceOps == INSTANCE SequencesExt

\* Ascending, and one order for every text.
TextLess(s, t) ==
  \E n \in 0..Len(s) : /\ n < Len(t) /\ SubSeq(s, 1, n) = SubSeq(t, 1, n)
                       /\ n = Len(s) \/ s[n + 1] < t[n + 1]
-----------------------------------------------------------------------------
(* Text.                                                                   *)

Fold(t) == [i \in DOMAIN t |-> IF t[i] > 100 THEN t[i] - 100 ELSE t[i]]

\* search_name and nameFlat: the separators of a name become spaces.
Flat(t) == [i \in DOMAIN t |-> IF t[i] \in {UNDERSCORE, DASH} THEN SPACE ELSE t[i]]

\* The runs of a text that no separator is in.
Tokens(t, seps) ==
  LET Edge(i) == i \in {0, Len(t) + 1} \/ t[i] \in seps
      runs == {r \in (1..Len(t)) \X (1..Len(t)) :
                 r[1] <= r[2] /\ Edge(r[1] - 1) /\ Edge(r[2] + 1) /\ \A i \in r[1]..r[2] : ~Edge(i)}
      order == SequenceOps!SetToSortSeq(runs, LAMBDA r, s : r[1] < s[1])
  IN [i \in DOMAIN order |-> SubSeq(t, order[i][1], order[i][2])]

\* One after the other, somewhere.
Within(part, whole) ==
  part # <<>> /\ \E i \in 1..Len(whole) : i + Len(part) - 1 <= Len(whole) /\ SubSeq(whole, i, i + Len(part) - 1) = part

\* What each engine takes for the end of a word.
Unicode61 == {SPACE, UNDERSCORE, DASH}
InnoDB == {SPACE, DASH}
Simple == {SPACE, UNDERSCORE, DASH}

sqliteName(term, t) == Within(Tokens(term, Unicode61), Tokens(Flat(t), Unicode61))
mysqlName(term, t) == Within(Tokens(Flat(term), InnoDB), Tokens(Flat(t), InnoDB))
postgresName(term, t) == Within(Tokens(Flat(term), Simple), Tokens(Flat(t), Simple))

\* A trigram index knows substrings, as LIKE does; MySQL flattens the term and
\* not the column.
sqliteTag(term, t) == Within(term, t)
mysqlTag(term, t) == Within(Tokens(Flat(term), InnoDB), Tokens(t, InnoDB))
postgresTag(term, t) == Within(Tokens(Flat(term), Simple), Tokens(Flat(t), Simple))

Engine(sqlite, mysql, postgres) ==
  CASE dbms = "sqlite" -> sqlite [] dbms = "mysql" -> mysql [] dbms = "postgres" -> postgres

NameMatch(term, t) == Engine(sqliteName(term, Fold(t)), mysqlName(term, Fold(t)), postgresName(term, Fold(t)))
TagMatch(term, t) == Engine(sqliteTag(term, Fold(t)), mysqlTag(term, Fold(t)), postgresTag(term, Fold(t)))

\* Contains and LIKE, the same on all three: an empty term is in everything.
Contains(term, t) == term = <<>> \/ Within(term, Fold(t))
-----------------------------------------------------------------------------
(* Find and Search.                                                        *)

Buckets == {"files", "tracks", "photos", "artists", "albums"}
ByTag == {"artists", "albums"}

\* A folder and what is spelled like it: SQLite's LIKE knows no case.
Beneath(dir, under) ==
  under = <<>> \/ Engine(Fold(dir) = Fold(under), dir = under, dir = under)

\* The bucket's WHERE.
Found(bucket, term, i) ==
  LET item == Items[i]
  IN CASE bucket = "files" -> NameMatch(term, item.name)
       [] bucket = "tracks" -> item.kind = "audio" /\ TagMatch(term, item.title)
       [] bucket = "photos" -> item.kind = "image" /\ TagMatch(term, item.photo)
       [] bucket = "artists" -> item.kind = "audio" /\ item.albumArtist # <<>> /\ item.album # <<>> /\ TagMatch(term, item.albumArtist)
       [] bucket = "albums" -> item.kind = "audio" /\ item.album # <<>> /\ TagMatch(term, item.album)

\* The columns Music.Search looks in: a track by any of its four names.
Columns(bucket, item) ==
  CASE bucket = "tracks" -> {item.title, item.artist, item.album, item.albumArtist}
    [] bucket = "artists" -> {item.albumArtist}
    [] bucket = "albums" -> {item.album}

\* SQLite asks the trigram index for three letters or more, which is any word
\* here, and LIKE for less.
sqliteSought(term, t) == IF \E i \in DOMAIN term : term[i] > DASH THEN Within(term, Fold(t)) ELSE Contains(term, t)
mysqlSought(term, t) == Contains(term, t)
postgresSought(term, t) == Contains(term, t)

Sought(bucket, term, i) ==
  LET item == Items[i]
  IN /\ item.kind = "audio"
     /\ bucket \in ByTag => item.album # <<>>
     /\ bucket = "artists" => item.albumArtist # <<>>
     /\ \E t \in Columns(bucket, item) : Engine(sqliteSought(term, t), mysqlSought(term, t), postgresSought(term, t))

\* What a row is ordered, grouped and resumed by.
Key(bucket, i) ==
  CASE bucket = "artists" -> <<Items[i].albumArtist, <<>>>>
    [] bucket = "albums" -> <<Items[i].albumArtist, Items[i].album>>
    [] OTHER -> <<<<i>>, <<>>>>

\* Past the cursor: a row comparison, and MySQL's spelled out.
sqlitePast(k, after) == TextLess(after[1], k[1]) \/ (after[1] = k[1] /\ TextLess(after[2], k[2]))
postgresPast(k, after) == TextLess(after[1], k[1]) \/ (after[1] = k[1] /\ TextLess(after[2], k[2]))

\* Mutant: the two halves of the cursor each on its own.
mysqlPastEach(k, after) == TextLess(after[1], k[1]) /\ (after[2] = <<>> \/ TextLess(after[2], k[2]))

mysqlPast(k, after) == TextLess(after[1], k[1]) \/ (after[1] = k[1] /\ TextLess(after[2], k[2]))
Past(k, after) == Engine(sqlitePast(k, after), mysqlPast(k, after), postgresPast(k, after))

Ordered(keys) == SequenceOps!SetToSortSeq(keys, LAMBDA k, l : sqlitePast(l, k))
FirstOf(s, n) == SubSeq(s, 1, IF n < Len(s) THEN n ELSE Len(s))

\* Find: an empty text is nothing, and no cursor is an empty one.
Nowhere == <<<<>>, <<>>>>
Find(term, bucket, under, after, limit) ==
  LET keys == {Key(bucket, i) : i \in {j \in shelf : Found(bucket, Fold(term), j) /\ Beneath(Items[j].dir, under)}}
  IN IF term = <<>> THEN <<>> ELSE FirstOf(Ordered({k \in keys : Past(k, after)}), limit)

\* Search: a limit and an offset.
Search(term, bucket, offset, limit) ==
  LET keys == {Key(bucket, i) : i \in {j \in shelf : Sought(bucket, Fold(term), j)}}
      all == Ordered(keys)
  IN FirstOf(SubSeq(all, offset + 1, Len(all)), limit)
-----------------------------------------------------------------------------
(* The doors.                                                              *)

Last(s) == IF s = <<>> THEN Nowhere ELSE s[Len(s)]

\* trim: the row past the page says that there is more.
More(rows) == Len(rows) > PageLen
Trimmed(rows) == FirstOf(rows, PageLen)

\* search of the web: the first page, and each one its link leads to, narrowed
\* to the bucket and resumed at its last row.
WebPage ==
  /\ search.door = "web" /\ ~ended
  /\ LET rows == Find(search.term, search.bucket, <<>>, Last(shown), PageLen + 1)
     IN shown' = shown \o Trimmed(rows) /\ ended' = ~More(rows)
  /\ UNCHANGED <<dbms, shelf, search, meddled>>

\* searchFor: a client asks for the next page until one is short.
SubsonicPage ==
  /\ search.door = "subsonic" /\ ~ended
  /\ LET rows == Search(search.term, search.bucket, Len(shown), PageLen)
     IN shown' = shown \o rows /\ ended' = (Len(rows) < PageLen)
  /\ UNCHANGED <<dbms, shelf, search, meddled>>

\* path.Clean of a rooted path.
Clean(href) ==
  SequenceOps!FoldLeft(LAMBDA done, s : IF s = Up THEN FirstOf(done, Len(done) - 1) ELSE Append(done, s), <<>>, href)

Tree == <<7>>
Refused == <<-7>>

\* scopeOf: the arbiter and the tree are the library, a folder under the tree
\* is itself, and nothing else is searched.
scopeOf(href, arbiter) ==
  LET asked == Clean(href)
  IN IF asked \in {arbiter, Tree} THEN <<>>
     ELSE IF Len(asked) > Len(Tree) /\ SubSeq(asked, 1, Len(Tree)) = Tree THEN SubSeq(asked, Len(Tree) + 1, Len(asked))
     ELSE Refused

\* conditionOf and checkOrder: words to look for, and the one order there is.
conditionOf(s) == s.body # "operator" /\ s.term # <<>>
checkOrder(s) == s.body # "order"

\* parseSearch: one grammar, one scope, something to select.
parseSearch(s) ==
  /\ s.body \notin {"junk", "grammar", "scopes", "select"}
  /\ scopeOf(s.under, s.arbiter) # Refused
  /\ conditionOf(s) /\ checkOrder(s)

\* A limit narrows the answer and never widens it.
LimitOf(asked) == IF asked > 0 /\ asked < MaxResults THEN asked ELSE MaxResults

\* writeResults: the first by path, with 507 beside them when there are more.
writeResults(rows, limit) ==
  /\ shown' = FirstOf(rows, limit)
  /\ search' = [search EXCEPT !.status = IF Len(rows) > limit THEN "cut" ELSE "whole"]

\* Searchable: one answer.
DavSearch ==
  /\ search.door = "dav" /\ ~ended
  /\ LET limit == LimitOf(search.limit)
     IN IF parseSearch(search)
        THEN writeResults(Find(search.term, "files", scopeOf(search.under, search.arbiter), Nowhere, limit + 1), limit)
        ELSE shown' = <<>> /\ search' = [search EXCEPT !.status = "refused"]
  /\ ended' = TRUE
  /\ UNCHANGED <<dbms, shelf, meddled>>

\* A file comes, goes, or comes back while somebody reads.
Meddle(i) ==
  /\ ~ended /\ shown # <<>> /\ Cardinality(meddled) < MaxMeddling
  /\ shelf' = IF i \in shelf THEN shelf \ {i} ELSE shelf \cup {i}
  /\ meddled' = meddled \cup {i}
  /\ UNCHANGED <<dbms, search, shown, ended>>

Bodies == {"basic", "junk", "grammar", "scopes", "operator", "order", "select"}

Asked(door, buckets) ==
  [door : {door}, term : Terms, bucket : buckets, under : {<<>>}, arbiter : {<<>>}, limit : {PageLen}, body : {""}, status : {""}]

Searches ==
  Asked("web", Buckets) \cup Asked("subsonic", Buckets \ {"files", "photos"}) \cup
  [door : {"dav"}, term : Terms, bucket : {"files"}, under : Scopes, arbiter : {<<>>, Tree}, limit : 0..MaxResults,
   body : {"basic"}, status : {""}] \cup
  [door : {"dav"}, term : Terms, bucket : {"files"}, under : {Tree}, arbiter : {Tree}, limit : {0},
   body : Bodies, status : {""}]

Init ==
  /\ dbms \in {"sqlite", "mysql", "postgres"}
  /\ shelf \in SUBSET DOMAIN Items
  /\ search \in Searches
  /\ shown = <<>> /\ ended = FALSE /\ meddled = {}

Next == WebPage \/ SubsonicPage \/ DavSearch \/ \E i \in DOMAIN Items : Meddle(i)

Spec == Init /\ [][Next]_finderVars
-----------------------------------------------------------------------------
\* What the port promises: whole words, one after the other, in the name or in
\* the tag of the bucket.
Promised(bucket, term, i) ==
  LET item == Items[i]
      text == CASE bucket = "files" -> item.name [] bucket = "tracks" -> item.title [] bucket = "photos" -> item.photo
                [] bucket = "artists" -> item.albumArtist [] bucket = "albums" -> item.album
  IN /\ Within(Tokens(Fold(term), {SPACE, UNDERSCORE, DASH}), Tokens(Fold(text), {SPACE, UNDERSCORE, DASH}))
     /\ bucket \in {"tracks", "artists", "albums"} => item.kind = "audio"
     /\ bucket = "photos" => item.kind = "image"
     /\ bucket = "artists" => item.album # <<>>

\* A text whose words are apart by one space each.
Plain(t) == \A i \in DOMAIN t : t[i] \notin {UNDERSCORE, DASH}
PlainTags(i) == \A t \in {Items[i].title, Items[i].albumArtist, Items[i].album, Items[i].photo} : Plain(t)

TimesShown(k) == Cardinality({n \in DOMAIN shown : shown[n] = k})
Ascending == \A n \in 1..Len(shown) - 1 : sqlitePast(shown[n + 1], shown[n])

\* Every match, once.
WalkOf(i) ==
  i \in shelf \ meddled /\ Promised(search.bucket, search.term, i) => TimesShown(Key(search.bucket, i)) = 1

\* A walk of the web search shows every name with the words in it once, and
\* every tag of plain words, whatever came and went; in order, and nothing of
\* an empty box.
WalksAreWhole ==
  search.door = "web" /\ ended =>
    /\ Ascending
    /\ search.term = <<>> => shown = <<>>
    /\ \A i \in DOMAIN Items :
         search.bucket = "files" \/ (Plain(search.term) /\ PlainTags(i)) => WalkOf(i)

\* Any tag with the words in it is found: "the separators ... are word
\* boundaries", "the same of a track's title".
TagsAreFound == search.door = "web" /\ ended => \A i \in DOMAIN Items : WalkOf(i)

\* A library nobody touches is walked by search3 once, all of it when nothing
\* was asked.
OfflineCopyIsWhole ==
  search.door = "subsonic" /\ ended /\ meddled = {} =>
    /\ Ascending
    /\ {shown[n] : n \in DOMAIN shown} = {Key(search.bucket, i) : i \in {j \in shelf : Sought(search.bucket, Fold(search.term), j)}}
    /\ search.term = <<>> /\ search.bucket = "tracks" => Len(shown) = Cardinality({i \in shelf : Items[i].kind = "audio"})

\* The library, or the folder that was named.
ScopedTo(i) ==
  LET asked == Clean(search.under)
  IN asked \in {search.arbiter, Tree} \/ asked = Tree \o Items[i].dir

\* SEARCH is refused when it asks for what the server does not have or for a
\* place outside the tree, and never widened; a whole answer is whole, and one
\* that is cut is full and the first by path.
SearchKeepsItsScope ==
  search.door = "dav" /\ ended =>
    LET asked == Clean(search.under)
        there == {i \in shelf : ScopedTo(i) /\ Promised("files", search.term, i)}
    IN /\ search.status = "refused" <=>
            search.body # "basic" \/ search.term = <<>> \/ (asked # search.arbiter /\ FirstOf(asked, 1) # Tree)
       /\ search.status = "whole" => \A i \in there : TimesShown(Key("files", i)) = 1
       /\ search.status = "cut" =>
            /\ Len(shown) = LimitOf(search.limit)
            /\ \A i \in there : TimesShown(Key("files", i)) = 1 \/ i > Last(shown)[1][1]

\* What is shown is beneath the scope, letter for letter.
ScopeIsExact ==
  search.door = "dav" /\ ended => \A n \in DOMAIN shown : ScopedTo(shown[n][1][1])
=============================================================================
