------------------------------ MODULE Backups ------------------------------
(***************************************************************************)
(* The database's own backups (files/backup.go, app/backup.go): a loop     *)
(* copies the database into the blob store, files the copy in a folder and *)
(* destroys the ones past BackupsKept; a process that starts files first   *)
(* the ones that no row names.  Meanwhile a user moves, trashes, restores  *)
(* and destroys them like any file, the process stops anywhere, and the    *)
(* whole database may be put back from one of them.                        *)
(*                                                                         *)
(* A backup is the moment it was taken, which names its key and its path   *)
(* in every folder.  Collect passes these keys over.                       *)
(***************************************************************************)
EXTENDS Integers, FiniteSetsExt

CONSTANTS
  BackupsKept,
  MaxNow,         \* the clock, in intervals
  MaxTouched,     \* what the user does
  MaxBroken,      \* errors, stops and databases put back
  RestoresBetween \* a restore may come between the two reads of AdoptBackups

VARIABLES
  now,
  store,          \* backup -> the database in it, for the blobs there are
  tree, bin,      \* the database: <<folder, backup>>, live and in the trash
  last,           \* what the loop knows as the newest: 0 for none, -1 before it looked
  loop,           \* the pass under way
  failing,        \* this process has met an error
  destroyed,      \* what the user destroyed
  touched, broken

backupVars == <<now, store, tree, bin, last, loop, failing, destroyed, touched, broken>>

Idle == [at |-> "idle", claimed |-> {}, todo |-> {}, key |-> 0, copy |-> <<>>]

Init ==
  /\ now = 1 /\ store = <<>> /\ tree = {} /\ bin = {}
  /\ last = -1 /\ loop = Idle /\ failing = FALSE /\ destroyed = {} /\ touched = 0 /\ broken = 0
-----------------------------------------------------------------------------
database == <<tree, bin>>
Keys(files) == {f[2] : f \in files}
Break == broken < MaxBroken /\ broken' = broken + 1 /\ failing' = TRUE
NoBreak == UNCHANGED <<broken, failing>>
Without(keys) == [k \in DOMAIN store \ keys |-> store[k]]

Tick ==
  /\ now < MaxNow /\ loop.at = "idle" /\ now' = now + 1
  /\ UNCHANGED <<store, tree, bin, last, loop, failing, destroyed, touched, broken>>

\* AdoptBackups: the keys of the live rows, those of the trash, the objects,
\* and one transaction that files what neither named.
ReadLive ==
  /\ loop.at = "idle" /\ last = -1
  /\ loop' = [Idle EXCEPT !.at = "trash", !.claimed = Keys(tree)]
  /\ UNCHANGED <<now, store, tree, bin, last, failing, destroyed, touched, broken>>

ClaimedByTrash == Keys(bin)

ReadTrash ==
  /\ loop.at = "trash"
  /\ loop' = [loop EXCEPT !.at = "list", !.claimed = @ \cup ClaimedByTrash]
  /\ UNCHANGED <<now, store, tree, bin, last, failing, destroyed, touched, broken>>

List ==
  /\ loop.at = "list"
  /\ loop' = [loop EXCEPT !.at = "adopt", !.todo = DOMAIN store \ loop.claimed]
  /\ UNCHANGED <<now, store, tree, bin, last, failing, destroyed, touched, broken>>

\* A path that is taken is passed over.
Adopt ==
  /\ loop.at = "adopt"
  /\ tree' = tree \cup {<<"dir", k>> : k \in loop.todo}
  /\ loop' = [Idle EXCEPT !.at = "look"]
  /\ UNCHANGED <<now, store, bin, last, failing, destroyed, touched, broken>>

\* An error of AdoptBackups is logged and nothing more.
AdoptFails ==
  /\ loop.at \in {"trash", "list", "adopt"} /\ Break
  /\ loop' = [Idle EXCEPT !.at = "look"]
  /\ UNCHANGED <<now, store, tree, bin, last, destroyed, touched>>

\* Backups: what is in the folder, whoever put it there.
Listed == {f[2] : f \in {g \in tree : g[1] = "dir"}}

Look ==
  /\ loop.at = "look"
  /\ last' = Max(Listed \cup {0})
  /\ loop' = Idle
  /\ UNCHANGED <<now, store, tree, bin, failing, destroyed, touched, broken>>

\* The folder is known and no backup in it, so that one is taken at once.
LookFails ==
  /\ loop.at = "look" /\ Break
  /\ last' = 0
  /\ loop' = Idle
  /\ UNCHANGED <<now, store, tree, bin, destroyed, touched>>

\* BackupTo: one transaction reads the database whole.  No two are taken in
\* the same second.
BackUp ==
  /\ loop.at = "idle" /\ last >= 0 /\ last < now /\ now \notin DOMAIN store \cup destroyed
  /\ loop' = [Idle EXCEPT !.at = "put", !.key = now, !.copy = database]
  /\ UNCHANGED <<now, store, tree, bin, last, failing, destroyed, touched, broken>>

Put ==
  /\ loop.at = "put"
  /\ store' = [k \in DOMAIN store \cup {loop.key} |-> IF k = loop.key THEN loop.copy ELSE store[k]]
  /\ loop' = [loop EXCEPT !.at = "file"]
  /\ UNCHANGED <<now, tree, bin, last, failing, destroyed, touched, broken>>

File ==
  /\ loop.at = "file"
  /\ tree' = tree \cup {<<"dir", loop.key>>}
  /\ loop' = [loop EXCEPT !.at = "rotate"]
  /\ UNCHANGED <<now, store, bin, last, failing, destroyed, touched, broken>>

\* Nothing landed, or the row did not and the blob is taken back, if it can be.
BackUpFails ==
  /\ loop.at \in {"put", "file"} /\ Break
  /\ store' \in {store, Without({loop.key})}
  /\ loop' = Idle
  /\ UNCHANGED <<now, tree, bin, last, destroyed, touched>>

\* Mutant: the oldest are the ones to keep.
PastTheNewest(listed) == {k \in listed : Cardinality({j \in listed : j < k}) >= BackupsKept}

\* all[min(len(all), BackupsKept):], newest first.
PastKept(listed) == {k \in listed : Cardinality({j \in listed : j > k}) >= BackupsKept}

Rotate ==
  /\ loop.at = "rotate"
  /\ loop' = [loop EXCEPT !.at = "drop", !.todo = PastKept(Listed)]
  /\ UNCHANGED <<now, store, tree, bin, last, failing, destroyed, touched, broken>>

Landed == last' = loop.key /\ loop' = Idle

\* DeleteFile by its path; one that has gone meanwhile ends the rotation.
DropRow ==
  /\ loop.at = "drop"
  /\ IF loop.todo = {} THEN Landed /\ NoBreak /\ UNCHANGED tree
     ELSE LET old == <<"dir", Max(loop.todo)>>
          IN IF old \in tree
             THEN tree' = tree \ {old} /\ loop' = [loop EXCEPT !.at = "blob"] /\ NoBreak /\ UNCHANGED last
             ELSE Landed /\ failing' = TRUE /\ UNCHANGED <<tree, broken>>
  /\ UNCHANGED <<now, store, bin, destroyed, touched>>

DropBlob ==
  /\ loop.at = "blob"
  /\ store' = Without({Max(loop.todo)})
  /\ loop' = [loop EXCEPT !.at = "drop", !.todo = @ \ {Max(@)}]
  /\ UNCHANGED <<now, tree, bin, last, failing, destroyed, touched, broken>>

DropFails ==
  /\ loop.at \in {"rotate", "drop", "blob"} /\ Break
  /\ Landed
  /\ UNCHANGED <<now, store, tree, bin, destroyed, touched>>
-----------------------------------------------------------------------------
Restart == last' = -1 /\ loop' = Idle /\ failing' = FALSE

Crash ==
  /\ Restart /\ broken < MaxBroken /\ broken' = broken + 1
  /\ UNCHANGED <<now, store, tree, bin, destroyed, touched>>

\* The administrator puts back the database that a backup holds.
PutBack ==
  /\ Restart /\ broken < MaxBroken /\ broken' = broken + 1
  /\ \E k \in DOMAIN store : tree' = store[k][1] /\ bin' = store[k][2]
  /\ UNCHANGED <<now, store, destroyed, touched>>

\* The user's doings: each is one transaction (FileTree, FileBlobs).
Touch == touched < MaxTouched /\ touched' = touched + 1

Move ==
  /\ Touch
  /\ \E f \in tree : \E to \in {"dir", "out"} \ {f[1]} : tree' = (tree \ {f}) \cup {<<to, f[2]>>}
  /\ UNCHANGED <<now, store, bin, last, loop, failing, destroyed, broken>>

Trash ==
  /\ Touch
  /\ \E f \in tree : tree' = tree \ {f} /\ bin' = bin \cup {f}
  /\ UNCHANGED <<now, store, last, loop, failing, destroyed, broken>>

Restore ==
  /\ Touch /\ (RestoresBetween \/ loop.at \notin {"trash", "list", "adopt"})
  /\ \E f \in bin \ tree : bin' = bin \ {f} /\ tree' = tree \cup {f}
  /\ UNCHANGED <<now, store, last, loop, failing, destroyed, broken>>

Destroy ==
  /\ Touch
  /\ \E f \in bin : bin' = bin \ {f} /\ store' = Without({f[2]}) /\ destroyed' = destroyed \cup {f[2]}
  /\ UNCHANGED <<now, tree, last, loop, failing, broken>>

Next ==
  \/ Tick \/ ReadLive \/ ReadTrash \/ List \/ Adopt \/ AdoptFails \/ Look \/ LookFails
  \/ BackUp \/ Put \/ File \/ BackUpFails \/ Rotate \/ DropRow \/ DropBlob \/ DropFails
  \/ Crash \/ PutBack \/ Move \/ Trash \/ Restore \/ Destroy

Spec == Init /\ [][Next]_backupVars
-----------------------------------------------------------------------------
\* "a database put back from one has no row for the backups taken after it --
\* AdoptBackups files them on the next start" (collect.go:252): a backup is
\* named by a row, live or in the trash, unless the start's pass has still to
\* come, the loop has it in hand, or this process met an error.
NoBackupIsForgotten ==
  \A k \in DOMAIN store \ Keys(tree \cup bin) :
    \/ last = -1 \/ failing
    \/ loop.at = "file" /\ k = loop.key
    \/ loop.at = "blob" /\ k = Max(loop.todo)

\* No two rows name one backup, so that the rotation of one of them never
\* takes the bytes of the other.
OneRowPerBackup == Cardinality(tree \cup bin) = Cardinality(Keys(tree) \cup Keys(bin)) /\ tree \cap bin = {}

\* "a failure here costs room and never a backup" (backup.go:128): what a
\* rotation drops has BackupsKept newer ones behind it, but for those the user
\* destroyed, and no row names it any more.
RotationKeepsTheNewest ==
  [][loop.at = "blob" /\ loop'.at = "drop" =>
       \A k \in DOMAIN store \ DOMAIN store' :
         /\ Cardinality({j \in DOMAIN store' \cup destroyed : j > k}) >= BackupsKept
         /\ k \notin Keys(tree \cup bin)]_backupVars
=============================================================================
