----------------------------- MODULE MCServices -----------------------------
(***************************************************************************)
(* What the components stand on, side by side as in MCComponents: the two  *)
(* stores (Stores), the rows of the three drivers, the migrations and the  *)
(* backups (Database), and what comes from outside (Outside).              *)
(***************************************************************************)
EXTENDS Database, Stores, Outside, TLC

\* A key two folders down, and one in the first of them whose name begins like
\* the second.
MCDiskKeys == {<<1, 0, 2, 0, 3>>, <<1, 0, 2, 4>>}

\* A key that is another's folder: no key the program makes is.
MCNestedKeys == {<<1>>, <<1, 0, 2>>, <<1, 3>>}
MCContents == {<<7, 8, 9>>}

\* A folder, a file in it and a neighbour.
MCTreePaths == {<<1>>, <<1, 3>>, <<2>>}

Recording(album, sung, ids, names) == [album |-> album, sung |-> sung, ids |-> ids, names |-> names]

\* Two albums, one of them known by its tags; a song in one of them.
MCRecordings == <<Recording(1, FALSE, "", 1), Recording(2, TRUE, "release", 2)>>

\* A song, and what it is written over with.
MCReplaced == <<Recording(1, TRUE, "", 2), Recording(2, TRUE, "group", 1)>>
MCSpellings == <<2, 1>>
MCMayHold == <<{1, 2}, {2}>>

\* A filecache of two users, whose second has a tree with a folder; the ids
\* are not in the order of the paths.
CacheRow(id, storage, area, rest, dir, size, valid) ==
  [id |-> id, storage |-> storage, area |-> area, rest |-> rest, dir |-> dir, size |-> size, valid |-> valid]
MCCache ==
  << CacheRow(1, 2, "", <<>>, TRUE, 1, TRUE), CacheRow(2, 2, "files", <<>>, TRUE, 1, TRUE),
     CacheRow(3, 2, "files", <<"d">>, TRUE, 1, TRUE), CacheRow(8, 2, "files", <<"d", "x">>, FALSE, 1, TRUE),
     CacheRow(5, 2, "files", <<"d", "y">>, FALSE, 1, TRUE), CacheRow(6, 2, "files", <<"z">>, FALSE, 0, TRUE),
     CacheRow(9, 2, "files_versions", <<"z">>, FALSE, 1, TRUE),
     CacheRow(7, 3, "files", <<"z">>, FALSE, 1, TRUE), CacheRow(4, 3, "files", <<"..">>, FALSE, 1, FALSE) >>
MCStorages == << [home |-> FALSE, user |-> ""], [home |-> TRUE, user |-> "u"], [home |-> TRUE, user |-> "v"] >>
MCUserPaths == {<<"d">>, <<"in", "z">>}

\* A user not named, an encrypted instance, one of many buckets, a file of
\* the wrong size; the root without validators, a folder with them.
Command(user, into, etag, encrypted, buckets, cutShort) ==
  [user |-> user, into |-> into, etag |-> etag, encrypted |-> encrypted, buckets |-> buckets, cut |-> cutShort]
MCCommands ==
  { Command("", <<>>, FALSE, FALSE, FALSE, 0), Command("u", <<>>, FALSE, TRUE, FALSE, 0),
    Command("v", <<>>, FALSE, FALSE, TRUE, 0), Command("v", <<>>, FALSE, FALSE, FALSE, 7),
    Command("u", <<>>, FALSE, FALSE, FALSE, 6), Command("u", <<"in">>, TRUE, FALSE, FALSE, 0) }

\* A file, another, one that is hidden, one with no path here, and one of the
\* first one's name again.
MCArrivals ==
  << [name |-> 1, total |-> 1], [name |-> 2, total |-> 2], [name |-> 3, total |-> 0],
     [name |-> 4, total |-> 0], [name |-> 1, total |-> 1] >>

\* Two of one build and one of the build before; a migration of tables, one
\* of rows and then a table, and one of rows.
MCBuilds == 1 :> 3 @@ 2 :> 3 @@ 3 :> 2
MCScripts == <<<<"ddl", "ddl">>, <<"dml", "ddl">>, <<"dml">>>>
-----------------------------------------------------------------------------
vars  == <<which, svars, dvars, rvars, lvars, nvars, ivars, gvars, bvars>>

\* Rows says in call and result what its last step was; two states that differ
\* in nothing else go on alike.
view == <<which, svars, dvars, Rows!rowView, lvars, nvars, ivars, gvars, bvars>>

Init ==
  /\ which \in {"s3", "disk", "rows", "lookups", "nextcloud", "incoming", "migrations", "backups"}
  /\ S3Store!Init
  /\ DiskStore!Init
  /\ Rows!Init /\ (which # "rows" => vendor = "sqlite")
  /\ Lookups!Init /\ (which # "lookups" => stored = [id \in FileIds |-> 0])
  /\ Nextcloud!Init /\ (which # "nextcloud" => command = CHOOSE c \in Commands : TRUE)
  /\ Incoming!Init
  /\ Migrations!Init /\ (which # "migrations" => base = "sqlite")
  /\ Backups!Init

\* The components a behaviour is not of stay as they are.
Apart ==
  /\ UNCHANGED which
  /\ which # "s3" => UNCHANGED svars
  /\ which # "disk" => UNCHANGED dvars
  /\ which # "rows" => UNCHANGED rvars
  /\ which # "lookups" => UNCHANGED lvars
  /\ which # "nextcloud" => UNCHANGED nvars
  /\ which # "incoming" => UNCHANGED ivars
  /\ which # "migrations" => UNCHANGED gvars
  /\ which # "backups" => UNCHANGED bvars

Next ==
  /\ Apart
  /\ \/ which = "s3" /\ S3Store!Next
     \/ which = "disk" /\ DiskStore!Next
     \/ which = "rows" /\ Rows!Next
     \/ which = "lookups" /\ Lookups!Next
     \/ which = "nextcloud" /\ Nextcloud!Next
     \/ which = "incoming" /\ Incoming!Next
     \/ which = "migrations" /\ Migrations!Next
     \/ which = "backups" /\ Backups!Next

Spec == Init /\ [][Next]_vars
-----------------------------------------------------------------------------
\* The rule of the bucket spares an upload that is alive (S3Store).
LiveUploadsSurvive == S3Store!LiveUploadsSurvive
=============================================================================
