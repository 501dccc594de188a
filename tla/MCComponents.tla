---------------------------- MODULE MCComponents ----------------------------
(***************************************************************************)
(* Components that share no state, side by side: each behaviour is of the  *)
(* one that "which" names, and the state space is the sum of theirs.       *)
(* Safety only; MCPasses has the ones with liveness.                       *)
(***************************************************************************)
EXTENDS TreeEngines, TLC

CONSTANTS
  Sources, Clients, Films,                    \* Playback
  Entries, Times, PageSizes, Bases, MaxChanges,  \* Listing
  Alphabet, MaxSent, DirNames, MaxPathLen,   \* Paths
  Songs, AlbumTags, Callers, MaxCalls,       \* Annotations
  Discs, ListIds, Editors, MaxEdits, EntryBatch,  \* Playlists
  Tags, FileNames, TrackNumbers, MaxPlays,   \* Library
  Tabs, PhoneNames, Uids, Shapes, Typing, Stamped, MaxWrites, MaxSaves, MaxTyped,  \* Forms
  Items, Terms, Scopes, PageLen, MaxMeddling  \* Finder

VARIABLES
  subject, encodes, given, answer,           \* Playback
  folder, captures, reader, changes,         \* Listing
  job,                                       \* Paths
  dialect, library, notes, caller, calls,    \* Annotations
  driver, disc, lists, editor, listing, edits,  \* Playlists
  server, index, newest,                     \* Library
  kind, place, docs, tab, writes, saves,     \* Forms
  dbms, shelf, search, shown, ended, meddled  \* Finder

MCTracks ==
  [codec : {"flac", "mp3"}, bitrate : {0, 128, 900}, rate : {441, 1920}, channels : {0, 6}, depth : {24}]

Limit(codec, name, op, values) == [codec |-> codec, name |-> name, op |-> op, values |-> values, required |-> TRUE]
Target(codec, container, channels) == [codec |-> codec, container |-> container, channels |-> channels]

MCClients ==
  {[max |-> 0, maxTranscode |-> 0, direct |-> {}, targets |-> <<>>, limits |-> <<>>,
    asks |-> [format : {"", "raw", "mp3", "opus", "flac"}, max : {0, 128}]]} \cup
  [max : {0, 192}, maxTranscode : {0, 256},
   direct : {{}, {[codecs |-> {"mp3"}, channels |-> 2]}},
   targets : {<<Target("flac", "", 0), Target("opus", "oga", 2)>>, <<Target("aac", "m4a", 2), Target("mp3", "", 0)>>},
   limits : {<<>>,
             <<Limit("mp3", "bitrate", "LessThanEqual", <<160>>)>>,
             <<Limit("mp3", "channels", "NotEquals", <<6>>), Limit("opus", "rate", "GreaterThanEqual", <<480>>)>>,
             <<Limit("flac", "rate", "LessThanEqual", <<960>>)>>,
             <<Limit("aac", "rate", "LessThanEqual", <<500>>), Limit("aac", "bitrate", "Equals", <<96, 128>>)>>,
             <<Limit("flac", "depth", "LessThanEqual", <<16>>), Limit("opus", "rate", "Equals", <<960>>)>>},
   asks : {{}}]

Film(codec, keys, duration, counted) ==
  [codec |-> codec, hdr |-> FALSE, dovi5 |-> FALSE, browser |-> FALSE,
   keys |-> keys, duration |-> duration, counted |-> counted]

MCFilms ==
  {Film(codec, <<a, a + b, a + b + c>>, a + b + c + d, counted) :
     codec \in {"h264", "hevc"}, a \in {0, 8}, b \in {40, 640}, c \in {40, 600}, d \in {20, 800},
     counted \in BOOLEAN}
  \cup {[Film("hevc", <<0>>, 300, TRUE) EXCEPT !.dovi5 = TRUE], [Film("h264", <<0>>, 300, TRUE) EXCEPT !.hdr = TRUE],
        [Film("h264", <<0>>, 300, TRUE) EXCEPT !.browser = TRUE], Film("h264", <<0>>, 0, TRUE)}

MCBases == <<<<"a">>, <<"A">>, <<"a", 2>>>>

\* a, A, a_, ab and a letter of two bytes.
MCDirNames == {<<97>>, <<65>>, <<97, 95>>, <<97, 98>>, <<233>>}

Tagged(artist, album, genre, year) == [artist |-> artist, album |-> album, genre |-> genre, year |-> year]

\* Artists and albums that differ in a character no folder may have, in case,
\* or in being there at all.
MCTags ==
  {Tagged(<<97, 47>>, <<98>>, <<>>, 0), Tagged(<<97, 42>>, <<98>>, <<103>>, 1),
   Tagged(<<65, 95>>, <<66>>, <<103>>, 2), Tagged(<<>>, <<98>>, <<103>>, 1), Tagged(<<97, 42>>, <<>>, <<103>>, 0)}

MCFileNames == <<<<116>>, <<84>>, <<116>>>>
MCTrackNumbers == <<2, 2, 1>>

Tel(value, uri, types) == [value |-> value, uri |-> uri, types |-> types]
Card(n, fn, org, tel) == [n |-> n, fn |-> fn, org |-> org, note |-> "n", tel |-> tel]
Event(allDay, start, end, zone, rule) ==
  [summary |-> "s", allDay |-> allDay, start |-> start, end |-> end, zone |-> zone, sequence |-> 3, rule |-> rule]

\* A card with a display name of its own, one without N; a timed series that
\* starts on a half minute, two whole days.
MCShapes ==
  [contact |-> {Card(<<<<"a">>, <<"b">>>>, <<"own">>, <<<<"co">>, <<"dept">>>>,
                     <<Tel("1", TRUE, <<"voice", "home">>), Tel("2", FALSE, <<>>)>>),
                Card(<<>>, <<"a", "b">>, <<>>, <<Tel("3", FALSE, <<"pref">>)>>)},
   event |-> {Event(FALSE, 5, 8, "z", TRUE), Event(TRUE, 2, 4, "", FALSE)}]
\* A card with a display name, an empty N and no organization.
MCBareShapes == [MCShapes EXCEPT !.contact = {Card(<<<<>>, <<>>>>, <<"a">>, <<>>, <<>>)}]
MCTyping ==
  [contact |-> <<"given">> :> {<<"x">>} @@ <<"org">> :> {<<"y">>, <<>>} @@ <<"note">> :> {"m"}
               @@ <<"tel", 1>> :> {"", "9"} @@ <<"type", 1>> :> {"work"}
               @@ <<"tel", 0>> :> {"8", ""} @@ <<"type", 0>> :> {"cell"},
   event |-> <<"summary">> :> {"", "t"} @@ <<"end">> :> {5} @@ <<"start">> :> {1} @@ <<"allDay">> :> {TRUE}]

Song(dir, name, title, artist, album, albumArtist) ==
  [dir |-> dir, name |-> name, kind |-> "audio", title |-> title, artist |-> artist, album |-> album,
   albumArtist |-> albumArtist, photo |-> <<>>]
Shot(dir, name, photo) ==
  [dir |-> dir, name |-> name, kind |-> "image", title |-> <<>>, artist |-> <<>>, album |-> <<>>,
   albumArtist |-> <<>>, photo |-> photo]

\* Words 10 to 13, their capitals 110 to 113, and the three separators.
MCItems ==
  <<Song(<<10>>, <<10, 1, 11>>, <<10, 0, 11>>, <<>>, <<10>>, <<10>>),
    Song(<<10>>, <<10>>, <<110>>, <<11>>, <<10, 0, 12>>, <<10>>),
    Shot(<<110>>, <<11, 2, 10>>, <<12, 0, 110>>),
    Song(<<13>>, <<12>>, <<12, 0, 10>>, <<>>, <<10>>, <<12, 0, 10>>),
    Song(<<13>>, <<12, 1, 110>>, <<12, 1, 10>>, <<12>>, <<>>, <<10>>)>>
MCTerms == {<<>>, <<10>>, <<110, 0, 11>>, <<10, 1, 11>>, <<12>>, <<1>>}
MCScopes == {<<>>, <<7>>, <<7, 10>>, <<7, -1>>, <<10>>, <<7, 110>>, <<7, -1, 7, 13>>}
-----------------------------------------------------------------------------
Playback == INSTANCE Playback
Listing  == INSTANCE Listing
Paths    == INSTANCE Paths
Annotations == INSTANCE Annotations
Playlists   == INSTANCE Playlists
Library     == INSTANCE Library
Forms       == INSTANCE Forms
Finder      == INSTANCE Finder

pvars == <<subject, encodes, given, answer>>
lvars == <<folder, captures, reader, changes>>
nvars == <<dialect, library, notes, caller, calls>>
tvars == <<driver, disc, lists, editor, listing, edits>>
mvars == <<server, index, newest>>
fvars == <<kind, place, docs, tab, writes, saves>>
svars == <<dbms, shelf, search, shown, ended, meddled>>
vars  == <<which, pvars, lvars, evars, job, nvars, tvars, mvars, fvars, svars>>

Init ==
  /\ which \in {"playback", "listing", "engines", "paths", "annotations", "playlists", "library", "forms", "finder"}
  /\ Playback!Init
  /\ Listing!Init
  /\ Engines!Init /\ (which # "engines" => engine = "sqlite")
  /\ Paths!Init
  /\ Annotations!Init /\ (which # "annotations" => dialect = "sqlite")
  /\ Playlists!Init /\ (which # "playlists" => driver = "sqlite" /\ edits = 0)
  /\ Library!Init /\ (which # "library" => server = "sqlite")
  /\ Forms!Init /\ (which # "forms" => kind = "event" /\ place.default)
  /\ IF which = "finder" THEN Finder!Init
     ELSE dbms = "sqlite" /\ shelf = {} /\ search = 0 /\ shown = <<>> /\ ended = TRUE /\ meddled = {}

\* The components a behaviour is not of stay as they are.
Apart ==
  /\ UNCHANGED which
  /\ which # "playback" => UNCHANGED pvars
  /\ which # "listing" => UNCHANGED lvars
  /\ which # "engines" => UNCHANGED evars
  /\ which # "paths" => UNCHANGED job
  /\ which # "annotations" => UNCHANGED nvars
  /\ which # "playlists" => UNCHANGED tvars
  /\ which # "library" => UNCHANGED mvars
  /\ which # "forms" => UNCHANGED fvars
  /\ which # "finder" => UNCHANGED svars

Next ==
  /\ Apart
  /\ \/ which = "playback" /\ Playback!Next
     \/ which = "listing" /\ Listing!Next
     \/ which = "engines" /\ Engines!Next
     \/ which = "paths" /\ Paths!Next
     \/ which = "annotations" /\ Annotations!Next
     \/ which = "playlists" /\ Playlists!Next
     \/ which = "library" /\ Library!Next
     \/ which = "forms" /\ Forms!Next
     \/ which = "finder" /\ Finder!Next

Spec == Init /\ [][Next]_vars
-----------------------------------------------------------------------------
\* What getTranscodeDecision gives is taken (Playback).
DecisionsAreRedeemed == Playback!DecisionsAreRedeemed

\* A plan is no better than its source, keeps to the bitrate the client named
\* and, for a lossy target, is taken when the client comes back; the segments
\* of a film tile it, hold every frame once and start on their own keyframe
\* (Playback).
PlansKeepTheirPromises ==
  which = "playback" =>
    /\ Playback!NeverBetterThanTheSource /\ Playback!CeilingKept /\ Playback!LossyDecisionsAreRedeemed
    /\ Playback!SegmentsTile /\ Playback!FramesAddUp /\ Playback!SegmentsStartOnTheirKeyframe

\* A segment a playlist named is served (Playback).
SegmentsAreServed == Playback!SegmentsAreServed

\* An entry nobody touches is shown once and in order, and the links of the
\* gallery lead back to what they are made from (Listing).
ListingsAreComplete ==
  which = "listing" =>
    Listing!SteadyEntriesShownOnce /\ Listing!LinksLeadBack /\ Listing!TrashNamesAreStable

\* A folder with an ordinary name moves alone and whole, a path means the same
\* to every door, and a derived key says whose it is (Paths).
PathsMeanWhatTheySay ==
  which = "paths" =>
    /\ Paths!AsciiMovesTheBranch /\ Paths!BranchesAreMeasured /\ Paths!PathsAreSafe
    /\ Paths!DerivedKeysReadBack /\ Paths!TermsAreLiteral

\* Interleaved and interrupted requests leave what was said of each subject
\* (Annotations, as a step of Opinions).
SaysWhatWasSaid == Annotations!SaysWhatWasSaid

\* An edit of a playlist is made to the list its indices were read from, by
\* itself (Playlists); one of a contact or an event to the document that is
\* there when it is written, and to nothing of it that was not typed (Forms).
EditsAreApplied == Playlists!EditsAreApplied /\ Forms!SavesAreEdits

\* A form can be sent back as it was drawn (Forms).
DrawnFormsAreSound == Forms!DrawnFormsAreSound

\* The library's counts, pages, names and links agree with each other
\* (Library).
LibraryAgrees ==
  which = "library" =>
    /\ Library!CountsAgree /\ Library!PagesAreTheList /\ Library!YearsEitherWay
    /\ Library!TreeLeadsBack /\ Library!TrackNamesAreStable

\* What TLC violates: see Components.cfg (Engines, Playlists, Library).
PostgresRestoresWhole == which = "engines" => Engines!PostgresRestoresWhole
CollectionAnswers == which = "playlists" => Playlists!CollectionAnswers
SongsStay == Playlists!SongsStay
ArtistNamesAreStable == Library!ArtistNamesAreStable
ListedAlbumsHaveAPlace == which = "library" => Library!ListedAlbumsHaveAPlace
GoneAlbumsAreGone == which = "library" => Library!GoneAlbumsAreGone

\* Any folder moves alone and whole (Paths).
MovesTheBranch == which = "paths" => Paths!MovesTheBranch

\* A walk of any search is whole and in order, and SEARCH keeps to its scope
\* (Finder).
SearchesAreWhole ==
  which = "finder" => Finder!WalksAreWhole /\ Finder!OfflineCopyIsWhole /\ Finder!SearchKeepsItsScope

\* Every tag with the words in it is found; what is shown is beneath the scope
\* (Finder).
TagsAreFound == which = "finder" => Finder!TagsAreFound
ScopeIsExact == which = "finder" => Finder!ScopeIsExact
=============================================================================
