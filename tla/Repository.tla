---------------------------- MODULE Repository ----------------------------
(***************************************************************************)
(* What the three drivers promise of files, their metadata, their pictures *)
(* and their uploads, as the suite all three pass states it                *)
(* (internal/db/dbtest).  A path holds a file or a folder with an identity *)
(* of its own; a write changes the bytes and keeps the identity, a move    *)
(* changes the path and keeps the rest, and what was learnt of a file is   *)
(* of its identity, with the bytes it was learnt from.  Rows implements    *)
(* this module.                                                            *)
(***************************************************************************)
EXTENDS Integers, Sequences, FiniteSets

VARIABLES
  tree,       \* path -> [id, dir, bytes]
  known,      \* id -> [bytes, version, outcome]: what the extractor said
  drawn,      \* id -> [bytes, generation, outcome]: what was said of pictures
  pending,    \* upload -> [owner, path, received]
  reply       \* what the last call answered

Identities == {tree[p].id : p \in DOMAIN tree}
Under(p, d) == Len(p) > Len(d) /\ SubSeq(p, 1, Len(d)) = d
Children(d) == {p \in DOMAIN tree : Under(p, d) /\ Len(p) = Len(d) + 1}

With(f, x, v) == [y \in DOMAIN f \cup {x} |-> IF y = x THEN v ELSE f[y]]
Only(f, xs) == [y \in DOMAIN f \cap xs |-> f[y]]

Answers(what) == reply' = what
Refuses(what) == Answers(what) /\ UNCHANGED <<tree, known, drawn, pending>>

\* A file replaces a file, as the same file, and never a folder.
PutFile(p, bytes) ==
  \/ /\ p \in DOMAIN tree /\ tree[p].dir /\ Refuses("conflict")
  \/ /\ p \in DOMAIN tree /\ ~tree[p].dir
     /\ tree' = [tree EXCEPT ![p].bytes = bytes]
     /\ Answers("ok") /\ UNCHANGED <<known, drawn, pending>>
  \/ /\ p \notin DOMAIN tree
     /\ \E id \in {tree'[q].id : q \in DOMAIN tree'} \ Identities :
          tree' = With(tree, p, [id |-> id, dir |-> FALSE, bytes |-> bytes])
     /\ Answers("ok") /\ UNCHANGED <<known, drawn, pending>>

CreateDir(p) ==
  \/ /\ p \in DOMAIN tree /\ Refuses("conflict")
  \/ /\ p \notin DOMAIN tree
     /\ \E id \in {tree'[q].id : q \in DOMAIN tree'} \ Identities :
          tree' = With(tree, p, [id |-> id, dir |-> TRUE, bytes |-> 0])
     /\ Answers("ok") /\ UNCHANGED <<known, drawn, pending>>

\* A file takes what is known of it along.
DeleteFile(p) ==
  \/ /\ p \notin DOMAIN tree /\ Refuses("missing")
  \/ /\ p \in DOMAIN tree /\ Children(p) # {} /\ Refuses("conflict")
  \/ /\ p \in DOMAIN tree /\ Children(p) = {}
     /\ tree' = Only(tree, DOMAIN tree \ {p})
     /\ known' = Only(known, Identities \ {tree[p].id})
     /\ drawn' = Only(drawn, Identities \ {tree[p].id})
     /\ Answers("ok") /\ UNCHANGED pending

\* The folder and all that is under it, and nothing that is spelled like it.
MoveFile(from, to) ==
  LET moved == {p \in DOMAIN tree : p = from \/ Under(p, from)}
      Dest(p) == to \o SubSeq(p, Len(from) + 1, Len(p))
  IN \/ /\ (to = from \/ Under(to, from)) /\ Refuses("conflict")
     \/ /\ ~(to = from \/ Under(to, from))
        /\ from \notin DOMAIN tree /\ Refuses("missing")
     \/ /\ ~(to = from \/ Under(to, from))
        /\ from \in DOMAIN tree /\ to \in DOMAIN tree /\ Refuses("conflict")
     \/ /\ ~(to = from \/ Under(to, from))
        /\ from \in DOMAIN tree /\ to \notin DOMAIN tree
        /\ tree' = [p \in (DOMAIN tree \ moved) \cup {Dest(p) : p \in moved} |->
                      IF \E q \in moved : Dest(q) = p THEN tree[CHOOSE q \in moved : Dest(q) = p] ELSE tree[p]]
        /\ Answers("ok") /\ UNCHANGED <<known, drawn, pending>>

\* The last word on a file, whatever it was before; there must be a file.
PutMedia(id, verdict) ==
  \/ /\ id \notin Identities /\ Refuses("missing")
  \/ /\ id \in Identities
     /\ known' = With(known, id, verdict)
     /\ Answers("ok") /\ UNCHANGED <<tree, drawn, pending>>

\* A verdict on pictures needs a file the extractor has seen, and being said
\* twice is not an error.
PutThumbVerdict(id, verdict) ==
  \/ /\ id \notin DOMAIN known /\ Refuses("missing")
  \/ /\ id \in DOMAIN known
     /\ drawn' = With(drawn, id, verdict)
     /\ Answers("ok") /\ UNCHANGED <<tree, known, pending>>

\* Progress moves the count and nothing that was decided at the start.
PutUpload(u, upload) ==
  /\ pending' = With(pending, u, IF u \in DOMAIN pending THEN [pending[u] EXCEPT !.received = upload.received] ELSE upload)
  /\ Answers("ok") /\ UNCHANGED <<tree, known, drawn>>

\* Its owner's to delete, and nobody is told whether it was there.
DeleteUpload(u, owner) ==
  /\ pending' = IF u \in DOMAIN pending /\ pending[u].owner = owner THEN Only(pending, DOMAIN pending \ {u}) ELSE pending
  /\ Answers("ok") /\ UNCHANGED <<tree, known, drawn>>
-----------------------------------------------------------------------------
\* To be read: never, by an older extractor, from other bytes, or not reached
\* and the time has come.
ToRead(version, due) ==
  {tree[p].id : p \in {q \in DOMAIN tree : ~tree[q].dir /\
     (\/ tree[q].id \notin DOMAIN known
      \/ known[tree[q].id].version < version
      \/ known[tree[q].id].bytes # tree[q].bytes
      \/ known[tree[q].id].outcome = "unreached" /\ due)}}

\* What has been said of the bytes a file has now.
Read(version, outcome) ==
  {tree[p].id : p \in {q \in DOMAIN tree : ~tree[q].dir /\ tree[q].id \in DOMAIN known /\
     LET said == known[tree[q].id]
     IN said.version >= version /\ said.bytes = tree[q].bytes /\ said.outcome = outcome}}

\* What this generation has said of pictures, of whichever bytes.
Pictured(generation, outcome) ==
  {id \in DOMAIN drawn : drawn[id].generation = generation /\ drawn[id].outcome = outcome}

\* What the collector must keep: every file's, and no folder's.
Blobs == {tree[p].bytes : p \in {q \in DOMAIN tree : ~tree[q].dir}}

\* To be drawn: seen, and never tried, or tried by another generation or on
\* other bytes, or refused long ago.
ToDraw(generation, stale) ==
  {tree[p].id : p \in {q \in DOMAIN tree : tree[q].id \in DOMAIN known /\
     (\/ tree[q].id \notin DOMAIN drawn
      \/ drawn[tree[q].id].generation # generation
      \/ drawn[tree[q].id].bytes # tree[q].bytes
      \/ drawn[tree[q].id].outcome = "refused" /\ stale)}}
=============================================================================
