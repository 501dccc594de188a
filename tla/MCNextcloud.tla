---------------------------- MODULE MCNextcloud ----------------------------
EXTENDS Nextcloud

\* One user with a folder of two files and a file beside it.
CacheRow(id, rest, dir) ==
  [id |-> id, storage |-> 1, area |-> "files", rest |-> rest, dir |-> dir, size |-> 1, valid |-> TRUE]
MCCache ==
  << CacheRow(1, <<>>, TRUE), CacheRow(2, <<"d">>, TRUE), CacheRow(5, <<"d", "x">>, FALSE),
     CacheRow(4, <<"d", "y">>, FALSE), CacheRow(3, <<"z">>, FALSE) >>
MCStorages == << [home |-> TRUE, user |-> "u"] >>
MCUserPaths == {<<"d">>}
MCCommands ==
  {[user |-> "", into |-> <<>>, etag |-> TRUE, encrypted |-> FALSE, buckets |-> FALSE, cut |-> 0]}
=============================================================================
