------------------------------ MODULE FileTree ------------------------------
(***************************************************************************)
(* The tree of internal/files and the doors that change it: WebDAV's PUT,  *)
(* MKCOL, DELETE, MOVE and COPY, the share sheet and the import folder     *)
(* (MkdirAll, FreeName, Write), the trash page (Restore, destroy), and the *)
(* Nextcloud import (Adopt).                                               *)
(*                                                                         *)
(* A row is a directory or a file, and a file is its blob key, which is    *)
(* also its ETag here: every write has one of its own.  Every transaction  *)
(* is one step (SQLite, _txlock=immediate).  What a handler reads outside  *)
(* a transaction it may use when it is no longer true: the Stat before a   *)
(* conditional PUT, the free name of a share, the plan of a copy, the      *)
(* destination a MOVE clears before it moves.                              *)
(***************************************************************************)
EXTENDS Naturals, Sequences, TLC

CONSTANTS
  Base,       \* names a client may use
  MaxCopies,  \* files.MaxCopies: how many names freeName tries
  MaxDepth,   \* bound: how deep the tree may be
  Keys,       \* bound: blob keys
  Batches,    \* bound: deletion identifiers
  Procs       \* concurrent requests

ASSUME TreeAssumption == MaxCopies \in Nat \ {0} /\ MaxDepth \in Nat \ {0}

VARIABLES
  tree,   \* table files: path -> row
  trash,  \* table trash: batch, path and row
  req     \* the request each process is serving

vars == <<tree, trash, req>>

None == "none"
Dir  == "dir"
ASSUME RowAssumption == None \notin Keys /\ Dir \notin Keys

\* "sunset.jpg" is <<sunset, 1>> and "sunset (2).jpg" is <<sunset, 2>>.
Names == Base \X (1..MaxCopies)
Paths == UNION {[1..n -> Names] : n \in 1..MaxDepth}
Root  == <<>>

ParentOf(p)  == SubSeq(p, 1, Len(p) - 1)
Under(d, p)  == Len(d) < Len(p) /\ SubSeq(p, 1, Len(d)) = d
AtOrUnder(d, p) == p = d \/ Under(d, p)
Rebase(p, from, to) == to \o SubSeq(p, Len(from) + 1, Len(p))

\* CopyName; a name that has its number already is the last candidate.
CopyName(p, n) ==
  IF n = 1 THEN p
  ELSE Append(ParentOf(p), <<p[Len(p)][1], p[Len(p)][2] + n - 1>>)

IsFile(row) == row \in Keys
Occupied(p) == tree[p] # None

Subtree(d)  == {p \in Paths : AtOrUnder(d, p) /\ Occupied(p)}
Contents    == {tree[p] : p \in Paths} \cap Keys
Trashed     == {t.row : t \in trash} \cap Keys
Kept        == Contents \cup Trashed

Fresh      == Keys \ Kept
FreshBatch == Batches \ {t.batch : t \in trash}

\* requireParent, against the rows of a transaction.
HasParent(t, p) == ParentOf(p) # Root => t[ParentOf(p)] = Dir

Idle == [op |-> "idle", from |-> Root, to |-> Root, seen |-> None, n |-> 0,
         plan |-> {}, todo |-> {}]
Serve(r, fields) == req' = [req EXCEPT ![r] = fields]
Done(r)          == Serve(r, Idle)

TypeOK ==
  /\ tree \in [Paths -> Keys \cup {Dir, None}]
  /\ trash \subseteq [batch : Batches, path : Paths, row : Keys \cup {Dir}]
  /\ \A r \in Procs :
       /\ req[r].op \in {"idle", "put", "upload", "mkdirs", "mkdir", "name", "share",
                         "clear", "move", "plan", "copy"}
       /\ req[r].from \in Paths \cup {Root}
       /\ req[r].to \in Paths \cup {Root}
       /\ req[r].seen \in Keys \cup {None, Dir, "any"}
       /\ req[r].n \in 0..(MaxDepth + MaxCopies)
       /\ req[r].plan \subseteq Paths \X {TRUE, FALSE}
       /\ req[r].todo \subseteq Paths

Init ==
  /\ tree = [p \in Paths |-> None]
  /\ trash = {}
  /\ req = [r \in Procs |-> Idle]
-----------------------------------------------------------------------------
(* One transaction, one statement of the client's.                         *)

Mkdir(p) ==
  /\ HasParent(tree, p)
  /\ ~Occupied(p)
  /\ tree' = [tree EXCEPT ![p] = Dir]
  /\ UNCHANGED <<trash, req>>

\* removeTree: the rows of p and of everything under it leave the tree.
Without(p) == [q \in Paths |-> IF AtOrUnder(p, q) THEN None ELSE tree[q]]

\* Mutant: only what has bytes is kept.
TrashFilesOnly(p, b) ==
  trash \cup {[batch |-> b, path |-> q, row |-> tree[q]] : q \in {x \in Subtree(p) : IsFile(tree[x])}}

\* They are the deletion.
Trash(p, b) == trash \cup {[batch |-> b, path |-> q, row |-> tree[q]] : q \in Subtree(p)}

Remove(p) ==
  /\ Occupied(p)
  /\ tree' = Without(p)
  /\ \E b \in FreshBatch : trash' = Trash(p, b)
  /\ UNCHANGED req

\* ValidateMove and MoveFile: nothing is replaced, nothing moves into itself.
CanMove(from, to) ==
  /\ from # to /\ ~Under(from, to)
  /\ HasParent(tree, to)
  /\ Occupied(from)
  /\ ~Occupied(to)

\* Bound: the moved tree still fits.
Fits(ps, from, to) == \A p \in ps : Rebase(p, from, to) \in Paths

Moved(from, to) ==
  [q \in Paths |->
     IF AtOrUnder(to, q) /\ Rebase(q, to, from) \in Subtree(from) THEN tree[Rebase(q, to, from)]
     ELSE IF AtOrUnder(from, q) THEN None
     ELSE tree[q]]

\* Move, as the rename page calls it.
Rename(from, to) ==
  /\ CanMove(from, to)
  /\ Fits(Subtree(from), from, to)
  /\ tree' = Moved(from, to)
  /\ UNCHANGED <<trash, req>>

\* The nearest row above p is a directory, or there is none: restoreParents
\* makes what is missing.
Ancestors(p) == {SubSeq(p, 1, n) : n \in 1..(Len(p) - 1)}
Reachable(p) ==
  \A a \in Ancestors(p) :
    IsFile(tree[a]) => \E d \in Ancestors(p) : Under(a, d) /\ tree[d] = Dir

\* The rows of a deletion; the first one by path is its root.
Rows(b)  == {t \in trash : t.batch = b}
RootOf(rows) == CHOOSE p \in {t.path : t \in rows} : \A t \in rows : Len(p) <= Len(t.path)

\* freeName inside the transaction: the first candidate nobody has.
Candidates(p) == {n \in 1..MaxCopies : CopyName(p, n) \in Paths}
FreeName(p) ==
  CopyName(p, CHOOSE n \in Candidates(p) :
                /\ ~Occupied(CopyName(p, n))
                /\ \A m \in Candidates(p) : m < n => Occupied(CopyName(p, m)))

\* Mutant: the restore goes back to where it was, free or not.
RestoreInPlace(b) ==
  /\ Rows(b) # {}
  /\ LET from == RootOf(Rows(b))
     IN /\ Reachable(from)
        /\ tree' = [q \in Paths |->
             IF \E t \in Rows(b) : t.path = q THEN (CHOOSE t \in Rows(b) : t.path = q).row
             ELSE IF q \in Ancestors(from) THEN Dir
             ELSE tree[q]]
  /\ trash' = trash \ Rows(b)
  /\ UNCHANGED req

\* Mutant: the parents are not put back.
RestoreWithoutParents(b) ==
  /\ Rows(b) # {}
  /\ LET from == RootOf(Rows(b))
     IN /\ ~Occupied(from)
        /\ tree' = [q \in Paths |->
             IF \E t \in Rows(b) : t.path = q THEN (CHOOSE t \in Rows(b) : t.path = q).row
             ELSE tree[q]]
  /\ trash' = trash \ Rows(b)
  /\ UNCHANGED req

\* Restore: beside what is there, under directories put back on the way.
Restore(b) ==
  /\ Rows(b) # {}
  /\ LET from == RootOf(Rows(b))
         to   == FreeName(from)
         back == [q \in Paths |-> {t \in Rows(b) : Rebase(t.path, from, to) = q}]
     IN /\ \E n \in Candidates(from) : ~Occupied(CopyName(from, n))
        /\ Reachable(to)
        /\ tree' = [q \in Paths |->
             IF back[q] # {} THEN (CHOOSE t \in back[q] : TRUE).row
             ELSE IF q \in Ancestors(to) THEN Dir
             ELSE tree[q]]
  /\ trash' = trash \ Rows(b)
  /\ UNCHANGED req

\* DestroyTrashed, from the page or because the month is up.
DestroyTrashed(b) ==
  /\ Rows(b) # {}
  /\ trash' = trash \ Rows(b)
  /\ UNCHANGED <<tree, req>>

\* Adopt: one row of an import; a taken path is skipped.
Adopt(p, row) ==
  /\ ~Occupied(p)
  /\ Reachable(p)
  /\ tree' = [q \in Paths |-> IF q = p THEN row ELSE IF q \in Ancestors(p) THEN Dir ELSE tree[q]]
  /\ UNCHANGED <<trash, req>>
-----------------------------------------------------------------------------
(* PUT.  The precondition is read before the bytes arrive, and the row is  *)
(* replaced after.                                                         *)

\* lockForTheRequest: a WebDAV request holds its paths, each by itself, and
\* another one for the same path is answered 423.  The other doors ask nobody.
Holds(r) ==
  CASE req[r].op \in {"put", "plan", "copy"} -> {req[r].to}
    [] req[r].op \in {"clear", "move"}       -> {req[r].from, req[r].to}
    [] OTHER                                 -> {}
Locked(p) == \E r \in Procs : p \in Holds(r)

\* Create: Stat and checkConditions.  "any" is a PUT without conditions,
\* None is If-None-Match: *, a key is If-Match with that ETag.
Create(r, p, seen) ==
  /\ req[r].op = "idle"
  /\ ~Locked(p)
  /\ seen # "any" => seen = tree[p]
  /\ seen # Dir
  /\ Serve(r, [Idle EXCEPT !.op = "put", !.to = p, !.seen = seen])
  /\ UNCHANGED <<tree, trash>>

\* The upload form and a finished resumable upload: Write at that path.
Upload(r, p) ==
  /\ req[r].op = "idle"
  /\ Serve(r, [Idle EXCEPT !.op = "upload", !.to = p])
  /\ UNCHANGED <<tree, trash>>

\* write: storeBlob is done, the transaction runs.
WriteRow(r) ==
  /\ req[r].op \in {"put", "upload", "share"}
  /\ HasParent(tree, req[r].to)
  /\ tree[req[r].to] # Dir
  /\ \E k \in Fresh : tree' = [tree EXCEPT ![req[r].to] = k]
  /\ Done(r)
  /\ UNCHANGED trash

\* No parent, a directory in the way, or the bytes did not arrive.
WriteFails(r) ==
  /\ req[r].op \in {"put", "upload", "share"}
  /\ Done(r)
  /\ UNCHANGED <<tree, trash>>
-----------------------------------------------------------------------------
(* The share sheet and the import folder: MkdirAll, FreeName, Write.       *)

Share(r, p) ==
  /\ req[r].op = "idle"
  /\ Serve(r, [Idle EXCEPT !.op = "mkdirs", !.to = p, !.n = 1])
  /\ UNCHANGED <<tree, trash>>

Walked(r) == SubSeq(req[r].to, 1, req[r].n)

\* MkdirAll stats one level; at the end of the walk a name is looked for.
MkdirAllStat(r) ==
  /\ req[r].op = "mkdirs"
  /\ IF req[r].n = Len(req[r].to) THEN Serve(r, [req[r] EXCEPT !.op = "name", !.n = 1])
     ELSE CASE tree[Walked(r)] = Dir  -> Serve(r, [req[r] EXCEPT !.n = @ + 1])
            [] tree[Walked(r)] = None -> Serve(r, [req[r] EXCEPT !.op = "mkdir"])
            [] OTHER                  -> Done(r)
  /\ UNCHANGED <<tree, trash>>

\* Mkdir of that level; a conflict means somebody else was first.
MkdirAllMake(r) ==
  /\ req[r].op = "mkdir"
  /\ LET w == Walked(r)
     IN IF ParentOf(w) # Root /\ tree[ParentOf(w)] = None THEN Done(r) /\ tree' = tree
        ELSE /\ tree' = IF HasParent(tree, w) /\ ~Occupied(w) THEN [tree EXCEPT ![w] = Dir] ELSE tree
             /\ Serve(r, [req[r] EXCEPT !.op = "mkdirs", !.n = @ + 1])
  /\ UNCHANGED trash

\* FreeName stats one candidate.
FreeNameStat(r) ==
  /\ req[r].op = "name"
  /\ IF req[r].n \notin Candidates(req[r].to) THEN Done(r)
     ELSE IF Occupied(CopyName(req[r].to, req[r].n)) THEN Serve(r, [req[r] EXCEPT !.n = @ + 1])
     ELSE Serve(r, [Idle EXCEPT !.op = "share", !.to = CopyName(req[r].to, req[r].n)])
  /\ UNCHANGED <<tree, trash>>
-----------------------------------------------------------------------------
(* MOVE with Overwrite: T clears the destination in a transaction of its   *)
(* own.                                                                    *)

\* A MOVE onto its own path is refused by the lock it has just taken.
MoveStat(r, from, to) ==
  /\ req[r].op = "idle"
  /\ from # to /\ ~Locked(from) /\ ~Locked(to)
  /\ Serve(r, [Idle EXCEPT !.op = IF Occupied(to) THEN "clear" ELSE "move",
                           !.from = from, !.to = to])
  /\ UNCHANGED <<tree, trash>>

MoveClear(r) ==
  /\ req[r].op = "clear"
  /\ Occupied(req[r].to)
  /\ tree' = Without(req[r].to)
  /\ \E b \in FreshBatch : trash' = Trash(req[r].to, b)
  /\ Serve(r, [req[r] EXCEPT !.op = "move"])

MoveRows(r) ==
  /\ req[r].op = "move"
  /\ CanMove(req[r].from, req[r].to)
  /\ Fits(Subtree(req[r].from), req[r].from, req[r].to)
  /\ tree' = Moved(req[r].from, req[r].to)
  /\ Done(r)
  /\ UNCHANGED trash

MoveFails(r) ==
  /\ req[r].op \in {"clear", "move"}
  /\ Done(r)
  /\ UNCHANGED <<tree, trash>>
-----------------------------------------------------------------------------
(* COPY: the plan is read row by row, the bytes are copied, and then one   *)
(* transaction replaces the destination.                                   *)

CopyStat(r, from, to, recursive) ==
  /\ req[r].op = "idle"
  /\ from # to /\ ~Under(from, to)
  /\ ~Locked(to)
  /\ Occupied(from)
  /\ Serve(r, [Idle EXCEPT !.op = "plan", !.from = from, !.to = to,
                           !.plan = {<<to, tree[from] = Dir>>},
                           !.todo = IF recursive /\ tree[from] = Dir THEN {from} ELSE {}])
  /\ UNCHANGED <<tree, trash>>

\* planCopy lists one directory.
PlanDir(r, d) ==
  /\ req[r].op = "plan"
  /\ d \in req[r].todo
  /\ LET children == {p \in Paths : ParentOf(p) = d /\ Occupied(p)}
     IN /\ Fits(children, req[r].from, req[r].to)
        /\ Serve(r, [req[r] EXCEPT
             !.plan = @ \cup {<<Rebase(c, req[r].from, req[r].to), tree[c] = Dir>> : c \in children},
             !.todo = (@ \ {d}) \cup {c \in children : tree[c] = Dir}])
  /\ UNCHANGED <<tree, trash>>

\* writeCopies: the bytes are under keys of their own.
CopyBytes(r) ==
  /\ req[r].op = "plan"
  /\ req[r].todo = {}
  /\ Serve(r, [req[r] EXCEPT !.op = "copy"])
  /\ UNCHANGED <<tree, trash>>

\* commitCopies: whatever the destination held is replaced, not merged.
CommitCopies(r) ==
  LET to    == req[r].to
      dirs  == {x[1] : x \in {y \in req[r].plan : y[2]}}
      leafs == {x[1] : x \in {y \in req[r].plan : ~y[2]}}
  IN /\ req[r].op = "copy"
     /\ HasParent(Without(to), to)
     /\ \E key \in [leafs -> Fresh] :
          /\ \A p, q \in leafs : key[p] = key[q] => p = q
          /\ tree' = [q \in Paths |-> CASE q \in leafs -> key[q]
                                        [] q \in dirs  -> Dir
                                        [] OTHER       -> Without(to)[q]]
     /\ Done(r)
     /\ UNCHANGED trash

\* A source that is gone, no room, no parent any more.
CopyFails(r) ==
  /\ req[r].op \in {"plan", "copy"}
  /\ Done(r)
  /\ UNCHANGED <<tree, trash>>
-----------------------------------------------------------------------------
Request(r) ==
  \/ \E p \in Paths : \E seen \in {"any", tree[p]} : Create(r, p, seen)
  \/ WriteRow(r) \/ WriteFails(r)
  \/ \E p \in Paths : Upload(r, p) \/ Share(r, p)
  \/ MkdirAllStat(r) \/ MkdirAllMake(r) \/ FreeNameStat(r)
  \/ \E p, q \in Paths : MoveStat(r, p, q)
  \/ MoveClear(r) \/ MoveRows(r) \/ MoveFails(r)
  \/ \E p, q \in Paths, deep \in BOOLEAN : CopyStat(r, p, q, deep)
  \/ \E d \in Paths : PlanDir(r, d)
  \/ CopyBytes(r) \/ CommitCopies(r) \/ CopyFails(r)

Statement ==
  \/ \E p \in Paths : Mkdir(p) \/ Remove(p)
  \/ \E p, q \in Paths : Rename(p, q)
  \/ \E b \in Batches : Restore(b) \/ DestroyTrashed(b)
  \/ \E p \in Paths, row \in Fresh \cup {Dir} : Adopt(p, row)

Next == Statement \/ \E r \in Procs : Request(r)

Spec == Init /\ [][Next]_vars
-----------------------------------------------------------------------------
(* What the tree promises.                                                 *)

\* Every row has the directory it is in: "a row whose parent is missing is
\* unreachable" (files.go:504).
TreeClosed == \A p \in Paths : Occupied(p) => HasParent(tree, p)

\* A deletion is a tree: one root, and under it every row has its directory
\* in the same deletion; Restore takes the first row for the root (trash.go:148).
DeletionIsATree ==
  \A t \in trash :
    LET rows == Rows(t.batch)
    IN \/ \A u \in rows : AtOrUnder(t.path, u.path)
       \/ \E d \in rows : d.path = ParentOf(t.path) /\ d.row = Dir

\* Moving, deleting, restoring, importing and making directories lose no
\* content: only what replaces on purpose, or destroys, takes any away.
OnlyReplacingLoses ==
  [][\/ Kept \subseteq Kept'
     \/ \E r \in Procs : WriteRow(r) \/ CommitCopies(r)
     \/ \E b \in Batches : DestroyTrashed(b)]_vars

\* A conditional PUT replaces what its condition was checked against: "only
\* if I am not overwriting somebody else's change" (dav.go:375).
ConditionHoldsAtCommit ==
  [][\A r \in Procs : WriteRow(r) /\ req[r].op = "put" /\ req[r].seen # "any"
       => tree[req[r].to] = req[r].seen]_vars

\* What is filed under a free name replaces nothing: "the name to file
\* something under when a write must not replace" (files.go:348).
ShareReplacesNothing ==
  [][\A r \in Procs : WriteRow(r) /\ req[r].op = "share"
       => ~Occupied(req[r].to)]_vars

\* Clearing the way for a MOVE takes the destination, not what is to be
\* moved: a failure between the two "loses the destination" (dav.go:324).
ClearingSparesTheSource ==
  [][\A r \in Procs : MoveClear(r) /\ Occupied(req[r].from)
       => tree'[req[r].from] = tree[req[r].from]]_vars
-----------------------------------------------------------------------------
\* For TLC: keys, deletions and requests are interchangeable.
Symmetry == Permutations(Keys) \cup Permutations(Batches) \cup Permutations(Procs)
=============================================================================
