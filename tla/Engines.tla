------------------------------ MODULE Engines ------------------------------
(***************************************************************************)
(* The transactions of internal/files, a statement at a time, on the three *)
(* database engines of internal/db.  The drivers are hand-written per      *)
(* dialect and so are what a transaction may see: SQLite takes the write   *)
(* lock when it begins (_txlock=immediate), PostgreSQL reads what is       *)
(* committed at each statement, MySQL reads the snapshot of its first read *)
(* and writes what is committed, locking the gaps its deletes look into.   *)
(*                                                                         *)
(* FileTree and FileBlobs take a transaction as one step, which is what    *)
(* SQLite makes of it; this module says what is left of their invariants   *)
(* on the other two.                                                       *)
(***************************************************************************)
EXTENDS Integers, Sequences, FiniteSets

CONSTANTS
  Workers,     \* concurrent requests
  MaxBegun     \* bound: how many transactions begin

VARIABLES
  engine,
  rows,     \* table files, as committed
  bin,      \* table trash, as committed
  blobs,    \* the originals in the store
  tx,       \* the transaction of each request, or Idle
  begun     \* how many have begun

evars == <<engine, rows, bin, blobs, tx, begun>>

\* What a path holds.  Keys and batches are random: the n-th transaction's
\* are its own.
None == 0
Dir  == 1
Key(n)   == n + 2
Batch(n) == <<"batch", n>>
BlobKeys == {Key(n) : n \in 0..MaxBegun}

\* One folder with one file, and where a restored one lands: CopyName(<<"d">>, 2).
Places == {<<"d">>, <<"d", "f">>, <<"d2">>, <<"d2", "f">>}
ParentOf(p)   == SubSeq(p, 1, Len(p) - 1)
ChildrenOf(p) == {q \in Places : Len(q) = 2 /\ ParentOf(q) = p}
Second(p)     == IF p = <<"d">> THEN <<"d2">> ELSE p
Rebase(p, from, to) == to \o SubSeq(p, Len(from) + 1, Len(p))

Idle == [op |-> "idle"]
Open(r) == tx[r].op # "idle" /\ tx[r].at = "open"
Nothing == [p \in {} |-> None]

\* A folder of Places has one child, and a deletion one row at each depth.
ListOf(S) == IF S = {} THEN <<>> ELSE <<CHOOSE x \in S : TRUE>>
-----------------------------------------------------------------------------
(* What a transaction sees, and whom its writes wait for.                  *)

\* Mutant: BEGIN without _txlock=immediate, which is deferred.
deferredBegins(r) == TRUE

\* New: every transaction takes the write lock up front.
sqliteBegins(r) == \A s \in Workers : ~Open(s)

Snapshot == [rows |-> rows, bin |-> bin]

\* Plain reads: the newest committed state, or the one of the first read.
postgresSees(t) == Snapshot
mysqlSees(t)    == t.snapshot
sqliteSees(t)   == t.snapshot
Sees(t) ==
  CASE engine = "postgres" -> postgresSees(t)
    [] engine = "mysql"    -> mysqlSees(t)
    [] engine = "sqlite"   -> sqliteSees(t)

\* FileByPath, ListFiles and TrashedIn, with the transaction's own writes.
Over(t, base) == [p \in Places |-> IF p \in DOMAIN t.writes THEN t.writes[p] ELSE base[p]]
FileByPath(t, p) == Over(t, Sees(t).rows)[p]
ListFiles(t, p)  == {q \in ChildrenOf(p) : FileByPath(t, q) # None}
TrashedIn(t, b)  == {x \in Sees(t).bin : x.batch = b}

\* What a statement that writes works on.
Current(t, p) == Over(t, rows)[p]

\* SQLite refuses to upgrade a read whose snapshot is old: SQLITE_BUSY.
Busy(t) == engine = "sqlite" /\ t.snapshot # Snapshot

\* The rows and the gaps a transaction holds until it ends.
Held(r) ==
  IF ~Open(r) THEN {}
  ELSE DOMAIN tx[r].writes \cup tx[r].emptied
       \cup (IF engine = "mysql" THEN UNION {ChildrenOf(p) : p \in tx[r].looked} ELSE {})

Waits(r, locks) == \E s \in Workers \ {r} : locks \cap Held(s) # {}
-----------------------------------------------------------------------------
(* Statements.  A transaction is the list of those it has still to make;   *)
(* one that fails ends it, and a rollback leaves nothing behind.           *)

Rest(t)      == [t EXCEPT !.plan = Tail(@)]
Then(t, new) == [t EXCEPT !.plan = new \o Tail(@)]
Written(t, p, row) == [Rest(t) EXCEPT !.writes = [q \in DOMAIN @ \cup {p} |-> IF q = p THEN row ELSE @[q]]]
Failed(t, why) == [t EXCEPT !.at = "failed", !.why = why, !.plan = <<>>]

Statement(do, p) == [do |-> do, path |-> p]

\* The upserts: ON CONFLICT ... WHERE is_dir = 0 RETURNING id.
sqlitePutFile(t, p, key) == IF Current(t, p) = Dir THEN Failed(t, "conflict") ELSE Written(t, p, key)
postgresPutFile(t, p, key) == sqlitePutFile(t, p, key)

\* ON DUPLICATE KEY UPDATE with an IF per column, and a read of the row it hit:
\* a directory that was not there at the snapshot is not there for the read.
mysqlPutFile(t, p, key) ==
  IF Current(t, p) # Dir THEN Written(t, p, key)
  ELSE Failed(t, IF FileByPath(t, p) = Dir THEN "conflict" ELSE "notfound")

PutFile(t, p, key) ==
  CASE engine = "sqlite"   -> sqlitePutFile(t, p, key)
    [] engine = "mysql"    -> mysqlPutFile(t, p, key)
    [] engine = "postgres" -> postgresPutFile(t, p, key)

\* CreateDir: a plain insert, whose unique violation mapErr calls a conflict.
CreateDir(t, p) == IF Current(t, p) # None THEN Failed(t, "conflict") ELSE Written(t, p, Dir)

\* DELETE ... AND NOT EXISTS (child).  SQLite and PostgreSQL look for children
\* in what the statement sees, MySQL in what is committed.
sqliteOccupied(t, p)   == \E q \in ChildrenOf(p) : FileByPath(t, q) # None
postgresOccupied(t, p) == \E q \in ChildrenOf(p) : FileByPath(t, q) # None
mysqlOccupied(t, p)    == \E q \in ChildrenOf(p) : Current(t, q) # None
Occupied(t, p) ==
  CASE engine = "sqlite"   -> sqliteOccupied(t, p)
    [] engine = "mysql"    -> mysqlOccupied(t, p)
    [] engine = "postgres" -> postgresOccupied(t, p)

\* CheckAffected: nothing changed, and the probe says why.
CheckAffected(t, p) == Failed(t, IF FileByPath(t, p) = Dir THEN "conflict" ELSE "notfound")

DeleteFile(t, p) ==
  IF Current(t, p) = None \/ Occupied(t, p) THEN CheckAffected(t, p)
  ELSE [Written(t, p, None) EXCEPT !.looked = @ \cup {p}]

DeleteTrash(t, b) == [Rest(t) EXCEPT !.emptied = @ \cup {b}]

\* The reads of internal/files inside a transaction.
requireParent(t, p) ==
  IF FileByPath(t, ParentOf(p)) = Dir THEN Rest(t)
  ELSE Failed(t, IF FileByPath(t, ParentOf(p)) = None THEN "notfound" ELSE "conflict")

\* replace: what the write displaces, as its transaction sees it.
Supersede(t, p) ==
  [Rest(t) EXCEPT !.drops = IF FileByPath(t, p) \in BlobKeys THEN {FileByPath(t, p)} ELSE {}]

\* removeTree: a row, its children and then the row itself.
RemoveTree(t, p) ==
  IF FileByPath(t, p) = None THEN Failed(t, "notfound")
  ELSE [Then(t, (IF FileByPath(t, p) = Dir THEN <<Statement("list", p)>> ELSE <<>>) \o <<Statement("delete", p)>>)
          EXCEPT !.taken = @ \cup {[path |-> p, row |-> FileByPath(t, p)]}]

RemoveChildren(t, p) == Then(t, ListOf({Statement("tree", q) : q \in ListFiles(t, p)}))

\* Restore: the rows of a deletion, and the first of the names that is free.
ReadDeletion(t) ==
  LET found == {[path |-> x.path, row |-> x.row] : x \in TrashedIn(t, t.batch)}
      root  == CHOOSE x \in found : \A y \in found : Len(x.path) <= Len(y.path)
  IN IF found = {} THEN (IF t.op = "restore" THEN Failed(t, "notfound") ELSE Rest(t))
     ELSE IF t.op = "restore" THEN [Rest(t) EXCEPT !.taken = found, !.root = root.path]
     ELSE [Rest(t) EXCEPT !.drops = {x.row : x \in found} \cap BlobKeys]

freeName(t) ==
  IF FileByPath(t, t.root) = None THEN [Rest(t) EXCEPT !.to = t.root]
  ELSE IF FileByPath(t, Second(t.root)) = None THEN [Rest(t) EXCEPT !.to = Second(t.root)]
  ELSE Failed(t, "conflict")

restoreParents(t) ==
  IF Len(t.to) = 1 \/ FileByPath(t, ParentOf(t.to)) = Dir THEN Rest(t)
  ELSE IF FileByPath(t, ParentOf(t.to)) = None THEN Then(t, <<Statement("dir", ParentOf(t.to))>>)
  ELSE Failed(t, "conflict")

\* ORDER BY path: a prefix sorts before everything under it.
RestoreRows(t) ==
  LET Stmt(x)  == [do |-> IF x.row = Dir THEN "dir" ELSE "put", path |-> Rebase(x.path, t.root, t.to), row |-> x.row]
      Deep(n)  == ListOf({Stmt(x) : x \in {y \in t.taken : Len(y.path) = n}})
  IN Then(t, Deep(1) \o Deep(2))

\* One statement; the locks it asks for are those of what it writes.
Perform(t, s) ==
  CASE s.do = "parent"  -> requireParent(t, s.path)
    [] s.do = "old"     -> Supersede(t, s.path)
    [] s.do = "put"     -> PutFile(t, s.path, s.row)
    [] s.do = "dir"     -> CreateDir(t, s.path)
    [] s.do = "tree"    -> RemoveTree(t, s.path)
    [] s.do = "list"    -> RemoveChildren(t, s.path)
    [] s.do = "delete"  -> DeleteFile(t, s.path)
    [] s.do = "read"    -> ReadDeletion(t)
    [] s.do = "name"    -> freeName(t)
    [] s.do = "parents" -> restoreParents(t)
    [] s.do = "rows"    -> RestoreRows(t)
    [] s.do = "empty"   -> DeleteTrash(t, t.batch)

Writes(s) == s.do \in {"put", "dir", "delete", "empty"}
Locks(t, s) ==
  CASE s.do \in {"put", "dir"} -> {s.path}
    [] s.do = "delete" -> {s.path} \cup (IF engine = "mysql" THEN ChildrenOf(s.path) ELSE {})
    [] s.do = "empty"  -> {t.batch}
    [] ~Writes(s) -> {}
-----------------------------------------------------------------------------
Begin(r, op, batch, plan) ==
  /\ tx[r] = Idle /\ begun < MaxBegun
  /\ engine = "sqlite" => sqliteBegins(r)
  /\ tx' = [tx EXCEPT ![r] =
       [op |-> op, at |-> "open", why |-> "", key |-> Key(begun + 1), batch |-> batch, plan |-> plan, snapshot |-> Snapshot,
        writes |-> Nothing, looked |-> {}, emptied |-> {}, taken |-> {}, drops |-> {}, root |-> <<>>, to |-> <<>>]]
  /\ begun' = begun + 1
  /\ UNCHANGED <<engine, rows, bin>>

Parent(p) == IF Len(p) = 1 THEN <<>> ELSE <<Statement("parent", p)>>

\* write: the blob first.
Write(r, p) ==
  /\ Begin(r, "write", Batch(0), Parent(p) \o <<Statement("old", p), [do |-> "put", path |-> p, row |-> Key(begun + 1)]>>)
  /\ blobs' = blobs \cup {Key(begun + 1)}

Mkdir(r, p) == Begin(r, "mkdir", Batch(0), Parent(p) \o <<Statement("dir", p)>>) /\ UNCHANGED blobs

Remove(r, p) == Begin(r, "remove", Batch(begun + 1), <<Statement("tree", p)>>) /\ UNCHANGED blobs

Restore(r, b) ==
  /\ Begin(r, "restore", b, [k \in 1..5 |-> Statement(<<"read", "name", "parents", "rows", "empty">>[k], <<>>)])
  /\ UNCHANGED blobs

DestroyTrashed(r, b) ==
  /\ Begin(r, "destroy", b, <<Statement("read", <<>>), Statement("empty", <<>>)>>)
  /\ UNCHANGED blobs

\* The next statement, unless it has to wait.  InTx: an error rolls back.
Step(r) ==
  /\ Open(r) /\ tx[r].plan # <<>>
  /\ LET t == tx[r]
         s == Head(t.plan)
     IN /\ ~Waits(r, Locks(t, s))
        /\ tx' = [tx EXCEPT ![r] = IF Writes(s) /\ Busy(t) THEN Failed(t, "busy") ELSE Perform(t, s)]
  /\ UNCHANGED <<engine, rows, bin, blobs, begun>>

\* Trash has inserted what removeTree took by the time a removal commits.
Committed(t) ==
  /\ rows' = Over(t, rows)
  /\ bin' = {x \in bin : x.batch \notin t.emptied}
            \cup (IF t.op = "remove" THEN {[batch |-> t.batch, path |-> x.path, row |-> x.row] : x \in t.taken} ELSE {})

Commit(r) ==
  /\ Open(r) /\ tx[r].plan = <<>>
  /\ Committed(tx[r])
  /\ tx' = [tx EXCEPT ![r].at = "committed"]
  /\ UNCHANGED <<engine, blobs, begun>>

\* After the transaction: a write drops the blob it replaced, or its own when
\* it failed, and a destruction the blobs of its rows.
End(r) ==
  /\ tx[r] # Idle /\ tx[r].at \in {"committed", "failed"}
  /\ blobs' = blobs \ (IF tx[r].at = "committed" THEN tx[r].drops ELSE {tx[r].key})
  /\ tx' = [tx EXCEPT ![r] = Idle]
  /\ UNCHANGED <<engine, rows, bin, begun>>

Request(r) ==
  \/ \E p \in Places : Write(r, p) \/ Mkdir(r, p) \/ Remove(r, p)
  \/ \E b \in {x.batch : x \in bin} : Restore(r, b) \/ DestroyTrashed(r, b)
  \/ Step(r) \/ Commit(r) \/ End(r)

\* A folder with one file in it, on an engine.
Init ==
  /\ engine \in {"sqlite", "mysql", "postgres"}
  /\ rows = [p \in Places |-> IF p = <<"d">> THEN Dir ELSE IF p = <<"d", "f">> THEN Key(0) ELSE None]
  /\ blobs = {Key(0)}
  /\ bin = {}
  /\ tx = [r \in Workers |-> Idle]
  /\ begun = 0

Next == \E r \in Workers : Request(r)

Spec == Init /\ [][Next]_evars
-----------------------------------------------------------------------------
TreeClosed == \A p \in Places : Len(p) = 2 /\ rows[p] # None => rows[ParentOf(p)] = Dir

Live    == {rows[p] : p \in Places} \cap BlobKeys
Deleted == {x.row : x \in bin} \cap BlobKeys

BlobsKept == Live \cup Deleted \subseteq blobs
OneRowPerBlob ==
  /\ Live \cap Deleted = {}
  /\ \A p, q \in Places : rows[p] \in BlobKeys /\ rows[p] = rows[q] => p = q
  /\ \A x, y \in bin : x.row \in BlobKeys /\ x.row = y.row => x = y

\* SQLite: however requests interleave, every row has its parent, every row
\* and every deletion its blob, no blob two rows, and no write fails because
\* another was under way (sqlite.go New: "Every transaction takes the write
\* lock up front").
SerialOnSQLite ==
  engine = "sqlite" =>
    /\ TreeClosed /\ BlobsKept /\ OneRowPerBlob
    /\ \A r \in Workers : tx[r] # Idle => tx[r].why # "busy"

\* On the engines that lock by the row and by the gap two transactions wait for
\* each other only once the tree has lost a folder under one of its files:
\* removeTree goes up the tree and Restore down, and still neither holds what
\* the other needs as long as every row has its parent.
WaitsFor(r, s) == r # s /\ Open(r) /\ tx[r].plan # <<>> /\ Locks(tx[r], Head(tx[r].plan)) \cap Held(s) # {}
CirclesNeedAnOrphan == TreeClosed => \A r, s \in Workers : ~(WaitsFor(r, s) /\ WaitsFor(s, r))

\* What the transactions of the three engines are trusted with.
TransactionsHold == SerialOnSQLite /\ CirclesNeedAnOrphan

\* What DestroyTrashed's order is for, on PostgreSQL: a file that was put back
\* has its bytes.  Does not hold: its delete finds nothing once a restore has
\* committed, and the blobs it read are dropped all the same.
PostgresRestoresWhole == engine = "postgres" => Live \subseteq blobs
=============================================================================
