------------------------------ MODULE Listing ------------------------------
(***************************************************************************)
(* A folder or a gallery read a page at a time while it changes: keyset    *)
(* pages of the files and captures tables in the three dialects            *)
(* (internal/db), the cursors the web pages put in their links             *)
(* (internal/web) and the names of the tree by date (internal/timeline).   *)
(*                                                                         *)
(* Paths, ids and file numbers are 1..Entries.  A time is in half          *)
(* milliseconds, MonthLength of them to a month.                           *)
(***************************************************************************)
EXTENDS Integers, Sequences, FiniteSets, FiniteSetsExt, SequencesExt

CONSTANTS
  Entries,
  Times,       \* the times a client may claim
  PageSizes,
  Bases,       \* the file name of each entry: <<"a">>, or <<"a", 2>> for "a (2)"
  MaxChanges

VARIABLES
  folder,    \* the rows of one directory
  captures,  \* the time each capture is listed by
  reader,    \* a browser scrolling through one of them
  changes

lvars == <<folder, captures, reader, changes>>

Ids         == 1..Entries
Absent      == [is |-> "absent"]
Row(d, s, t) == [is |-> IF d THEN "dir" ELSE "file", size |-> s, mtime |-> t]
MonthLength == 4
LastInstant == 8

There(table) == {i \in Ids : table[i] # Absent}
-----------------------------------------------------------------------------
(* Orders, cursors and pages.                                              *)

\* Mutant: times are stored as they come.
KeepTime(t) == t

\* Normalize: TimePrecision is a millisecond.
Normalize(t) == t - (t % 2)

Value(by, r) == CASE by = "name" -> 0 [] by = "size" -> r.size [] by = "mtime" -> r.mtime

Ascending(v, i, w, j) == v < w \/ (v = w /\ i < j)

\* ORDER BY, one group's.
Before(order, table, i, j) ==
  LET v == Value(order.by, table[i])
      w == Value(order.by, table[j])
  IN IF order.desc THEN Ascending(w, j, v, i) ELSE Ascending(v, i, w, j)

\* After, and what AtStart means.
Start == [path |-> 0]
After(table, i) == [path |-> i, dir |-> table[i].is = "dir", size |-> table[i].size, mtime |-> table[i].mtime]

\* (size, path) > (?, ?), or path > ?.
sqliteResumes(order, table, i, c) ==
  LET v == Value(order.by, table[i])
      w == Value(order.by, c)
  IN IF order.desc THEN Ascending(v, i, w, c.path) ELSE Ascending(w, c.path, v, i)

\* size > ? OR (size = ? AND path > ?): this dialect's spelling.
mysqlResumes(order, table, i, c) ==
  LET v == Value(order.by, table[i])
      w == Value(order.by, c)
  IN \/ order.by # "name" /\ IF order.desc THEN v < w ELSE v > w
     \/ v = w /\ IF order.desc THEN i < c.path ELSE i > c.path

\* (size, path) > ($4, $5), the time as a timestamp.
postgresResumes(order, table, i, c) == sqliteResumes(order, table, i, c)

Resumes(engine, order, table, i, c) ==
  CASE engine = "sqlite"   -> sqliteResumes(order, table, i, c)
    [] engine = "mysql"    -> mysqlResumes(order, table, i, c)
    [] engine = "postgres" -> postgresResumes(order, table, i, c)

First(s, n) == SubSeq(s, 1, IF Len(s) < n THEN Len(s) ELSE n)

\* Groups: collections first, unless the cursor has passed them.
Groups(c) == IF c # Start /\ ~c.dir THEN <<FALSE>> ELSE <<TRUE, FALSE>>

\* ListFilesPage: a statement per group, until the page is full.  Only the
\* group the cursor is in resumes.
ListFilesPage(engine, order, c, limit) ==
  LET rows(dir) ==
        SetToSortSeq({i \in There(folder) :
                        /\ (folder[i].is = "dir") = dir
                        /\ c # Start /\ dir = c.dir => Resumes(engine, order, folder, i, c)},
                     LAMBDA i, j : Before(order, folder, i, j))
  IN FoldLeft(LAMBDA out, dir : out \o First(rows(dir), limit - Len(out)), <<>>, Groups(c))

\* encodeCursor: only the half of the key the order reads goes into the link,
\* a time as its milliseconds.
encodeCursor(by, c) ==
  [dir |-> c.dir, path |-> c.path,
   value |-> CASE by = "name" -> 0 [] by = "size" -> c.size [] by = "mtime" -> c.mtime \div 2]

parseCursor(by, v) ==
  [path |-> v.path, dir |-> v.dir,
   size |-> IF by = "size" THEN v.value ELSE 0, mtime |-> IF by = "mtime" THEN v.value * 2 ELSE 0]

\* After and parseCursor again, as far as one order is concerned.
Carried(by, table, i) == parseCursor(by, encodeCursor(by, After(table, i)))
-----------------------------------------------------------------------------
(* Captures by date.                                                       *)

MonthOf(t)    == t \div MonthLength
MonthStart(m) == m * MonthLength
MonthEnd(m)   == MonthStart(m + 1)

\* (sort_at, file_id) < (?, ?).
sqliteOlder(i, c) == Ascending(captures[i].at, i, c.at, c.id)

\* sort_at <= ? AND (sort_at < ? OR file_id < ?).
mysqlOlder(i, c) == captures[i].at <= c.at /\ (captures[i].at < c.at \/ i < c.id)

\* (sort_at, file_id) < ($n, $n), clauses numbered as they are added.
postgresOlder(i, c) == sqliteOlder(i, c)

Older(engine, i, c) ==
  CASE engine = "sqlite" -> sqliteOlder(i, c) [] engine = "mysql" -> mysqlOlder(i, c) [] engine = "postgres" -> postgresOlder(i, c)

NewestFirst(s) == SetToSortSeq(s, LAMBDA i, j : Ascending(captures[j].at, j, captures[i].at, i))

\* Timeline, with no cursor when c is Start, bounded to [from, to).
Timeline(engine, c, from, to, limit) ==
  First(NewestFirst({i \in There(captures) :
                       /\ captures[i].at >= from /\ captures[i].at < to
                       /\ c # Start => Older(engine, i, c)}), limit)

CaptureCursor(i) == [id |-> i, at |-> captures[i].at, path |-> i]

\* encodeCaptureCursor and parseCaptureCursor.
CarriedCapture(i) == [CaptureCursor(i) EXCEPT !.at = (@ \div 2) * 2]

\* Around: one seek in each direction; 0 is nobody.
Around(engine, i) ==
  LET older == {j \in There(captures) : Older(engine, j, CaptureCursor(i))}
      newer == There(captures) \ (older \cup {i})
  IN [older |-> IF older = {} THEN 0 ELSE NewestFirst(older)[1],
      newer |-> IF newer = {} THEN 0 ELSE Last(NewestFirst(newer))]

\* Months: the newest, and then the newest before the month just found.
Months ==
  LET before[t \in 0..LastInstant] ==
        LET left == {captures[i].at : i \in There(captures)} \cap 0..(t - 1)
        IN IF left = {} THEN <<>> ELSE <<MonthOf(Max(left))>> \o before[MonthStart(MonthOf(Max(left)))]
  IN before[LastInstant]

\* CopyName.
CopyName(name, n) == IF n <= 1 THEN name ELSE Append(name, n)

\* ToLower, of the only letters there are.
Lower(name) == [name EXCEPT ![1] = IF @ = "A" THEN "a" ELSE @]

\* The first number that is free whatever the case, one after the other.
Named(order) ==
  FoldLeft(LAMBDA named, i :
             LET free(n) == Lower(CopyName(Bases[i], n)) \notin {Lower(named[j]) : j \in DOMAIN named}
                 name == CopyName(Bases[i], CHOOSE n \in 1..Entries : free(n) /\ \A k \in 1..(n - 1) : ~free(k))
             IN [j \in DOMAIN named \cup {i} |-> IF j = i THEN name ELSE named[j]],
           <<>>, order)

\* Names: in id order.
Names(ids) == Named(SetToSortSeq(ids, <))

\* Month: one month whole, read in batches by the same cursor.
Month(m) == Names({i \in There(captures) : captures[i].at >= MonthStart(m) /\ captures[i].at < MonthEnd(m)})

\* PathOf and Resolve; a capture that is no longer in its month has no path.
PathOf(c) == IF c.id \in DOMAIN Month(MonthOf(c.at)) THEN <<MonthOf(c.at), Month(MonthOf(c.at))[c.id]>> ELSE <<>>
Resolve(p) == IF p[1] \notin Range(Months) THEN {} ELSE {i \in DOMAIN Month(p[1]) : Month(p[1])[i] = p[2]}
-----------------------------------------------------------------------------
(* The trash as folders: a deletion is listed by its moment and its batch,  *)
(* as a capture is by its time and its file.                               *)

\* HAVING ? = '' OR (MAX(deleted_at), batch) < (?, ?), an aggregate.
sqliteBatches(c) == {i \in There(captures) : c = Start \/ Ascending(captures[i].at, i, c.at, c.id)}
postgresBatches(c) == sqliteBatches(c)

\* The cursor spelled out.
mysqlBatches(c) ==
  {i \in There(captures) : \/ c = Start \/ captures[i].at < c.at
                           \/ captures[i].at = c.at /\ i < c.id}

TrashBatches(engine, c, limit) ==
  First(NewestFirst(CASE engine = "sqlite"   -> sqliteBatches(c)
                      [] engine = "mysql"    -> mysqlBatches(c)
                      [] engine = "postgres" -> postgresBatches(c)), limit)

\* list: whole, a page at a time, each page after the last one's last row.
ReadTrash(engine, limit) ==
  LET pages[n \in 0..Entries] ==
        IF n = 0 THEN TrashBatches(engine, Start, limit)
        ELSE pages[n - 1] \o
             IF Len(pages[n - 1]) < n * limit THEN <<>>
             ELSE TrashBatches(engine, CaptureCursor(Last(pages[n - 1])), limit)
  IN pages[Entries]

\* Names: the oldest deletion keeps the plain name.
TrashNames(ids) == Named(Reverse(NewestFirst(ids)))
-----------------------------------------------------------------------------
(* The browser.                                                            *)

Orders  == [by : {"name", "size", "mtime"}, desc : BOOLEAN]
Engines == {"sqlite", "mysql", "postgres"}

NoReader == [at |-> "idle"]

\* A library as earlier writes left it.
Fill(table, what) ==
  /\ reader = NoReader
  /\ There(folder) = {} /\ There(captures) = {}
  /\ IF what = "folder" THEN folder' = table /\ UNCHANGED captures
     ELSE captures' = table /\ UNCHANGED folder
  /\ UNCHANGED <<reader, changes>>

\* The first page is asked for.
Open(engine, what, order, size) ==
  /\ reader = NoReader
  /\ There(IF what = "folder" THEN folder ELSE captures) # {}
  /\ reader' = [at |-> "reading", engine |-> engine, what |-> what, order |-> order, size |-> size,
                after |-> Start, page |-> <<>>, more |-> FALSE, shown |-> <<>>,
                steady |-> There(IF what = "folder" THEN folder ELSE captures)]
  /\ UNCHANGED <<folder, captures, changes>>

\* files.ListPage asks for one row more than the page, and the link to the
\* next one carries the last row shown.
FolderPage ==
  /\ reader.at = "reading" /\ reader.what = "folder"
  /\ LET rows == ListFilesPage(reader.engine, reader.order, reader.after, reader.size + 1)
         page == First(rows, reader.size)
         more == Len(rows) > reader.size
     IN reader' = [reader EXCEPT !.shown = @ \o page,
                                 !.after = IF more THEN Carried(reader.order.by, folder, Last(page)) ELSE @,
                                 !.at = IF more THEN "reading" ELSE "done"]
  /\ UNCHANGED <<folder, captures, changes>>

\* grid, up to the names of what it shows.
GridPage ==
  /\ reader.at = "reading" /\ reader.what = "grid"
  /\ LET rows == Timeline(reader.engine, reader.after, 0, LastInstant, reader.size + 1)
     IN reader' = [reader EXCEPT !.at = "naming", !.more = Len(rows) > reader.size,
                     !.page = [k \in 1..Len(First(rows, reader.size)) |-> CarriedCapture(rows[k])]]
  /\ UNCHANGED <<folder, captures, changes>>

\* tiles: one of the page that has left its month meanwhile fails the whole
\* page, and the browser asks again.
GridNames ==
  /\ reader.at = "naming"
  /\ LET page  == reader.page
         shown == \A k \in DOMAIN page : PathOf(page[k]) # <<>>
     IN reader' = [reader EXCEPT
          !.page = <<>>,
          !.at = IF shown /\ ~reader.more THEN "done" ELSE "reading",
          !.after = IF shown /\ reader.more THEN Last(page) ELSE @,
          !.shown = IF shown THEN @ \o [k \in DOMAIN page |-> page[k].id] ELSE @]
  /\ UNCHANGED <<folder, captures, changes>>

\* What a row keeps of the time a client claims.
Stored(r) == IF r = Absent THEN r ELSE [r EXCEPT !.mtime = Normalize(@)]
Dated(c)  == IF c = Absent THEN c ELSE [c EXCEPT !.at = Normalize(@)]

Changed(i) == reader' = [reader EXCEPT !.steady = @ \ {i}] /\ changes' = changes + 1

\* Somebody writes, deletes or moves an entry; the indexer dates a capture anew.
Change(i, r) ==
  /\ reader.at = "reading" /\ reader.what = "folder" /\ changes < MaxChanges
  /\ folder' = [folder EXCEPT ![i] = Stored(r)]
  /\ Changed(i)
  /\ UNCHANGED captures

Date(i, c) ==
  /\ reader.at \in {"reading", "naming"} /\ reader.what = "grid" /\ changes < MaxChanges
  /\ captures' = [captures EXCEPT ![i] = Dated(c)]
  /\ Changed(i)
  /\ UNCHANGED folder

FolderRows == {Absent, Row(TRUE, 0, 0)} \cup {Row(FALSE, s, t) : s \in {0, 1}, t \in Times}
GridRows   == {Absent} \cup [is : {"capture"}, at : Times]

Init ==
  /\ folder = [i \in Ids |-> Absent]
  /\ captures = [i \in Ids |-> Absent]
  /\ reader = NoReader
  /\ changes = 0

Next ==
  \/ \E table \in [Ids -> {Stored(r) : r \in FolderRows}] : Fill(table, "folder")
  \/ \E table \in [Ids -> {Dated(c) : c \in GridRows}] : Fill(table, "grid")
  \/ \E engine \in Engines, order \in Orders, size \in PageSizes : Open(engine, "folder", order, size)
  \/ \E engine \in Engines, size \in PageSizes : Open(engine, "grid", [by |-> "mtime", desc |-> TRUE], size)
  \/ FolderPage \/ GridPage \/ GridNames
  \/ \E i \in Ids, r \in FolderRows : Change(i, r)
  \/ \E i \in Ids, c \in GridRows : Date(i, c)

Spec == Init /\ [][Next]_lvars
-----------------------------------------------------------------------------
\* How often an entry was shown.
Showings(i) == Cardinality({k \in DOMAIN reader.shown : reader.shown[k] = i})

\* An entry nobody touched while the pages were read is shown once, in the
\* order that was asked for, whatever came and went around it and whichever
\* engine answered (db/file.go Cursor, web/cursor.go).
SteadyEntriesShownOnce ==
  reader # NoReader =>
    /\ \A i \in reader.steady : Showings(i) <= 1
    /\ reader.at = "done" => \A i \in reader.steady : Showings(i) = 1
    /\ reader.what = "folder" =>
         \A k, l \in DOMAIN reader.shown :
           LET i == reader.shown[k]
               j == reader.shown[l]
           IN k < l /\ {i, j} \subseteq reader.steady =>
                \/ folder[i].is = "dir" /\ folder[j].is = "file"
                \/ folder[i].is = folder[j].is /\ Before(reader.order, folder, i, j)

\* The months found by seeking are the months there are; a link to a capture
\* leads to it and to nothing else; and the way back from a neighbour is the
\* way one came (timeline.go PathOf, Resolve; captures.go Months, Around).
LinksLeadBack ==
  reader = NoReader =>
    /\ Months = SetToSortSeq({MonthOf(captures[i].at) : i \in There(captures)}, >)
    /\ \A i \in There(captures) : Resolve(PathOf(CaptureCursor(i))) = {i}
    /\ \A i, j \in There(captures) :
         i # j => Lower(PathOf(CaptureCursor(i))[2]) # Lower(PathOf(CaptureCursor(j))[2])
                  \/ MonthOf(captures[i].at) # MonthOf(captures[j].at)
    /\ \A engine \in Engines, i \in There(captures) :
         LET n == Around(engine, i).newer
         IN /\ n # 0 => Around(engine, n).older = i
            /\ n # 0 => Timeline(engine, CarriedCapture(n), 0, LastInstant, 1) = <<i>>

\* Every deletion is under the trash once, newest first, whatever the pages
\* and the engine, and one more deletion renames none of the older ones
\* (trash.go Names: "deleting something today cannot rename what you deleted
\* last week").
TrashNamesAreStable ==
  reader = NoReader =>
    /\ \A engine \in Engines, limit \in PageSizes : ReadTrash(engine, limit) = NewestFirst(There(captures))
    /\ \A i \in There(captures) :
         LET older == {j \in There(captures) : Ascending(captures[j].at, j, captures[i].at, i)}
         IN \A j \in older : TrashNames(older)[j] = TrashNames(There(captures))[j]
=============================================================================
