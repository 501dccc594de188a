----------------------------- MODULE Playlists -----------------------------
(***************************************************************************)
(* Playlists (internal/music, with the statements of the three drivers):   *)
(* an edit locks the playlist, reads what it holds, works out what is left *)
(* and writes the whole list again; beside it files are deleted, stop      *)
(* being music and come back, playlists are deleted, and the WebDAV        *)
(* collection of them is listed.                                           *)
(***************************************************************************)
EXTENDS Integers, Sequences, FiniteSets

CONSTANTS
  Discs,        \* file ids
  ListIds,      \* playlist ids
  Editors,      \* requests at once
  MaxEdits,     \* requests in a behaviour
  EntryBatch    \* rows of one INSERT

VARIABLES
  driver,       \* which driver runs
  disc,         \* file id -> "audio" or "other", for the files there are
  lists,        \* playlist id -> [name, entries], as committed
  editor,       \* request -> its transaction
  listing,      \* one PROPFIND of the collection
  edits

playlistVars == <<driver, disc, lists, editor, listing, edits>>

Audio == {f \in DOMAIN disc : disc[f] = "audio"}

\* Only what the library can play is listed, counted and indexed.
sqlitePlaylistTracks(id)   == SelectSeq(lists[id].entries, LAMBDA f : f \in Audio)
mysqlPlaylistTracks(id)    == SelectSeq(lists[id].entries, LAMBDA f : f \in Audio)
postgresPlaylistTracks(id) == SelectSeq(lists[id].entries, LAMBDA f : f \in Audio)

PlaylistTracks(id) ==
  CASE driver = "sqlite" -> sqlitePlaylistTracks(id)
    [] driver = "mysql" -> mysqlPlaylistTracks(id)
    [] driver = "postgres" -> postgresPlaylistTracks(id)

checkTracks(add) == \A k \in DOMAIN add : add[k] \in Audio

Out == [op |-> "none", id |-> 0, phase |-> "", remove |-> {}, add |-> <<>>, rename |-> FALSE, kept |-> <<>>, saw |-> <<>>]

Init ==
  /\ driver \in {"sqlite", "mysql", "postgres"}
  /\ disc = [f \in Discs |-> "audio"]
  /\ lists = [i \in {1} |-> [name |-> "old", entries |-> <<1, 2, 1>>]]
  /\ editor = [c \in Editors |-> Out]
  /\ \E reads \in BOOLEAN :       \* a behaviour edits or lists: both would only multiply
       /\ listing = [phase |-> IF reads THEN "idle" ELSE "off", todo |-> {}]
       /\ edits = IF reads THEN MaxEdits ELSE 0
-----------------------------------------------------------------------------
(* Locks.  SQLite's transactions take the write lock when they begin; the  *)
(* others' take the playlist's row with FOR UPDATE.                        *)

InTx(c) == editor[c].phase \in {"locked", "write"}
Holds(c, id) == InTx(c) /\ editor[c].id = id

\* Mutant: LockPlaylist without FOR UPDATE.
SeesOnly(c, id) == TRUE

sqliteMayLock(c, id)   == \A d \in Editors \ {c} : ~InTx(d)
mysqlMayLock(c, id)    == \A d \in Editors \ {c} : ~Holds(d, id)
postgresMayLock(c, id) == \A d \in Editors \ {c} : ~Holds(d, id)

MayLock(c, id) ==
  CASE driver = "sqlite" -> sqliteMayLock(c, id)
    [] driver = "mysql" -> mysqlMayLock(c, id)
    [] driver = "postgres" -> postgresMayLock(c, id)

\* A write outside the transactions waits for SQLite's lock.
MayWrite == driver = "sqlite" => \A c \in Editors : ~InTx(c)
-----------------------------------------------------------------------------
(* Requests.                                                               *)

Adds == {<<>>, <<2>>}
Removals == {{}, {0}, {2}}

Ask(c, request) ==
  /\ editor[c] = Out /\ edits < MaxEdits
  /\ edits' = edits + 1
  /\ editor' = [editor EXCEPT ![c] = request]
  /\ UNCHANGED <<driver, disc, lists, listing>>

\* updatePlaylist: indices to take out, songs to append, a new name.
Update(c) ==
  \E id \in ListIds, remove \in Removals, add \in Adds, rename \in BOOLEAN :
    Ask(c, [Out EXCEPT !.op = "update", !.id = id, !.phase = "begun",
                       !.remove = remove, !.add = add, !.rename = rename])

\* createPlaylist with an id, and without one.
Replace(c) ==
  \E id \in ListIds, add \in Adds, rename \in BOOLEAN :
    Ask(c, [Out EXCEPT !.op = "replace", !.id = id, !.phase = "begun", !.add = add, !.rename = rename])

Create(c) ==
  \E id \in ListIds \ DOMAIN lists, add \in Adds :
    /\ \A d \in Editors : editor[d].op = "create" => editor[d].id # id
    /\ Ask(c, [Out EXCEPT !.op = "create", !.id = id, !.phase = "begun", !.add = add])

Fail(c) ==
  /\ editor' = [editor EXCEPT ![c] = Out]
  /\ UNCHANGED <<driver, disc, lists, listing, edits>>

To(c, phase) == editor' = [editor EXCEPT ![c].phase = phase]

LockPlaylist(c) ==
  LET e == editor[c]
  IN /\ e.phase = "begun" /\ MayLock(c, e.id)
     /\ \/ e.op # "create" /\ e.id \notin DOMAIN lists /\ Fail(c)
        \/ /\ e.op = "create" \/ e.id \in DOMAIN lists
           /\ To(c, "locked")
           /\ UNCHANGED <<driver, disc, lists, listing, edits>>

\* What is left of a list when the places (from 0) are taken out.
Without(list, remove) ==
  LET at == SelectSeq([k \in DOMAIN list |-> k], LAMBDA k : k - 1 \notin remove)
  IN [k \in DOMAIN at |-> list[at[k]]]

\* Read inside the lock: the indices are into this list and no other.
Read(c) ==
  LET e == editor[c]
      tracks == PlaylistTracks(e.id)
      bad == e.op = "update" /\ \E i \in e.remove : i >= Len(tracks)
  IN /\ e.phase = "locked"
     /\ \/ (bad \/ ~checkTracks(e.add)) /\ Fail(c)
        \/ /\ ~bad /\ checkTracks(e.add)
           /\ editor' = [editor EXCEPT
                ![c].phase = "write",
                ![c].saw = IF e.op = "update" THEN lists[e.id].entries ELSE <<>>,
                ![c].kept = (IF e.op = "update" THEN Without(tracks, e.remove) ELSE <<>>) \o e.add]
           /\ UNCHANGED <<driver, disc, lists, listing, edits>>

\* A list is stored as rows, an INSERT for each batch of them, and read back by
\* position.
Positions(list, batch) ==
  {start + i : start \in {n * batch : n \in 0..Len(list)}, i \in 0..(batch - 1)} \cap 0..(Len(list) - 1)

sqliteRows(list)   == {[position |-> p, file |-> list[p + 1]] : p \in Positions(list, EntryBatch)}
mysqlRows(list)    == {[position |-> p, file |-> list[p + 1]] : p \in Positions(list, EntryBatch)}
postgresRows(list) == {[position |-> p, file |-> list[p + 1]] : p \in Positions(list, EntryBatch)}

SetPlaylistTracks(list) ==
  LET stored == CASE driver = "sqlite" -> sqliteRows(list)
                  [] driver = "mysql" -> mysqlRows(list)
                  [] driver = "postgres" -> postgresRows(list)
      at(n) == CHOOSE row \in stored : Cardinality({r \in stored : r.position < row.position}) = n - 1
  IN [n \in 1..Cardinality(stored) |-> at(n).file]

Touches(e) == e.op # "update" \/ e.remove # {} \/ e.add # <<>>

\* SetPlaylistTracks and UpdatePlaylist.  A song whose file is gone by now is
\* a reference to nothing, and undoes everything.
Written(e) ==
  LET old == IF e.id \in DOMAIN lists THEN lists[e.id] ELSE [name |-> "made", entries |-> <<>>]
  IN [name |-> IF e.rename THEN "new" ELSE old.name,
      entries |-> IF Touches(e) THEN SetPlaylistTracks(e.kept) ELSE old.entries]

Write(c) ==
  LET e == editor[c]
  IN /\ e.phase = "write"
     /\ \/ /\ Touches(e) /\ \E k \in DOMAIN e.kept : e.kept[k] \notin DOMAIN disc
           /\ Fail(c)
        \/ /\ Touches(e) => \A k \in DOMAIN e.kept : e.kept[k] \in DOMAIN disc
           /\ lists' = [i \in DOMAIN lists \cup {e.id} |-> IF i = e.id THEN Written(e) ELSE lists[i]]
           /\ editor' = [editor EXCEPT ![c] = Out]
           /\ UNCHANGED <<driver, disc, listing, edits>>

\* One statement, which waits for whoever holds the row.
Delete(id) ==
  /\ MayWrite /\ \A c \in Editors : ~Holds(c, id)
  /\ lists' = [i \in DOMAIN lists \ {id} |-> lists[i]]
  /\ UNCHANGED <<driver, disc, editor, listing, edits>>
-----------------------------------------------------------------------------
(* Files.  A deleted one leaves every playlist; one that is written over   *)
(* may be indexed as something else, and as music again later.             *)

DeleteDisc(f) ==
  /\ MayWrite
  /\ disc' = [g \in DOMAIN disc \ {f} |-> disc[g]]
  /\ lists' = [i \in DOMAIN lists |->
                [lists[i] EXCEPT !.entries = SelectSeq(@, LAMBDA g : g # f)]]
  /\ UNCHANGED <<driver, editor, listing, edits>>

Index(f) ==
  /\ MayWrite
  /\ disc' = [disc EXCEPT ![f] = IF @ = "audio" THEN "other" ELSE "audio"]
  /\ UNCHANGED <<driver, lists, editor, listing, edits>>
-----------------------------------------------------------------------------
(* The collection: the names are read once, then the body of each.         *)

ListPlaylists ==
  /\ listing.phase = "idle"
  /\ listing' = [phase |-> "reading", todo |-> DOMAIN lists]
  /\ UNCHANGED <<driver, disc, lists, editor, edits>>

\* A playlist that went since fails the request, as 404 for the collection.
ListBody ==
  /\ listing.phase = "reading" /\ listing.todo # {}
  /\ \E id \in listing.todo :
       listing' = IF id \in DOMAIN lists THEN [listing EXCEPT !.todo = @ \ {id}]
                  ELSE [phase |-> "not found", todo |-> {}]
  /\ UNCHANGED <<driver, disc, lists, editor, edits>>

Next ==
  \/ \E c \in Editors : Update(c) \/ Replace(c) \/ Create(c) \/ LockPlaylist(c) \/ Read(c) \/ Write(c)
  \/ \E id \in DOMAIN lists : Delete(id)
  \/ \E f \in DOMAIN disc : DeleteDisc(f) \/ Index(f)
  \/ ListPlaylists \/ ListBody

Spec == Init /\ [][Next]_playlistVars
-----------------------------------------------------------------------------
(* Properties.                                                             *)

\* An edit is made to the list its indices were read from, less what was
\* deleted since: nobody's edit comes between the read and the write and is
\* undone by it.  What it writes is the songs it keeps and then the ones it adds,
\* and it writes to no other playlist.
EditsAreApplied ==
  [][\A c \in Editors :
       LET e == editor[c]
           still(list) == SelectSeq(list, LAMBDA f : f \in DOMAIN disc)
           after == lists'[e.id].entries
       IN e.phase = "write" /\ editor'[c] = Out /\ lists' # lists =>
            /\ e.op = "update" => lists[e.id].entries = still(e.saw)
            /\ e.op = "update" /\ ~Touches(e) => after = lists[e.id].entries
            /\ Touches(e) => Len(after) = Len(e.kept)
            /\ Touches(e) => \A k \in DOMAIN e.add : after[Len(after) - Len(e.add) + k] = e.add[k]
            /\ \A i \in DOMAIN lists \ {e.id} : lists'[i] = lists[i]]_lists

\* A song leaves a playlist when somebody takes it out or its file goes, and
\* not because it is being indexed (db/playlist.go:12: "a rename and an
\* overwrite keep a track in it").
SongsStay ==
  [][\A id \in DOMAIN lists \cap DOMAIN lists' : \A f \in Discs :
       /\ \E k \in DOMAIN lists[id].entries : lists[id].entries[k] = f
       /\ f \in DOMAIN disc'
       /\ \A c \in Editors : editor[c].phase = "write" /\ editor[c].id = id =>
                               editor[c].op = "update" /\ editor[c].remove = {}
       => \E k \in DOMAIN lists'[id].entries : lists'[id].entries[k] = f]_lists

\* The collection is always there.
CollectionAnswers == listing.phase # "not found"
=============================================================================
