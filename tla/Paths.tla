------------------------------- MODULE Paths -------------------------------
(***************************************************************************)
(* What is done to the characters of a path: which strings are paths       *)
(* (db/file.go), how a URL becomes one (internal/web), how the drivers     *)
(* match and rewrite a branch of the tree with LIKE, substr and a range,   *)
(* and how blob keys are put together and taken apart (internal/files).    *)
(*                                                                         *)
(* A string is a sequence of code points; UTF-8 keeps their order, and     *)
(* needs two bytes for the ones above 127.  One step answers one question, *)
(* and the properties compare the answer with what the words say.          *)
(***************************************************************************)
EXTENDS Integers, Sequences, FiniteSets, FiniteSetsExt, SequencesExt

CONSTANTS
  Alphabet,     \* the characters of what a client sends
  MaxSent,      \* how many of them
  DirNames,     \* the names in a tree, each one segment
  MaxPathLen    \* in bytes

VARIABLE job    \* the question asked, with its answer

Slash == 47
Dot   == 46
Backslash  == 92
Percent    == 37
Underscore == 95
Dash       == 45

Bytes(s) == FoldLeft(LAMBDA n, c : n + IF c < 128 THEN 1 ELSE 2, 0, s)
Lower(s) == [k \in DOMAIN s |-> IF s[k] \in 65..90 THEN s[k] + 32 ELSE s[k]]
From(s, n) == SubSeq(s, n, Len(s))

LastOf(s, c) == Max({0} \cup {k \in DOMAIN s : s[k] = c})
Segments(s) ==
  LET cuts == SetToSortSeq({0, Len(s) + 1} \cup {k \in DOMAIN s : s[k] = Slash}, <)
  IN [k \in 1..(Len(cuts) - 1) |-> SubSeq(s, cuts[k] + 1, cuts[k + 1] - 1)]
Under(dir) == dir \o <<Slash>>
-----------------------------------------------------------------------------
(* Paths.                                                                  *)

Special == {<<>>, <<Dot>>, <<Dot, Dot>>}
Control(s) == \E k \in DOMAIN s : s[k] < 32 \/ s[k] = 127

ValidatePath(s) ==
  /\ s # <<>> /\ Bytes(s) <= MaxPathLen
  /\ Head(s) # Slash /\ Last(s) # Slash
  /\ ~Control(s)
  /\ Range(Segments(s)) \cap Special = {}

ParentOf(s) == SubSeq(s, 1, LastOf(s, Slash) - 1)

ValidateMove(from, to) ==
  /\ ValidatePath(from) /\ ValidatePath(to) /\ from # to
  /\ ~IsPrefix(Under(from), to)

\* path.Clean of a rooted path, and the trim after it.
toPath(s) ==
  LET up(segs, seg) == CASE seg \in {<<>>, <<Dot>>} -> segs
                         [] seg = <<Dot, Dot>> -> IF segs = <<>> THEN segs ELSE Front(segs)
                         [] OTHER -> Append(segs, seg)
      kept == FoldLeft(up, <<>>, Segments(s))
  IN From(FoldLeft(LAMBDA p, seg : p \o <<Slash>> \o seg, <<>>, kept), 2)

\* baseName: path.Base of a name a form sent, whichever way its slashes lean.
baseName(s) ==
  LET t == [k \in DOMAIN s |-> IF s[k] = Backslash THEN Slash ELSE s[k]]
      trimmed == SubSeq(t, 1, Max({0} \cup {k \in DOMAIN t : t[k] # Slash}))
  IN IF t = <<>> THEN <<Dot>> ELSE IF trimmed = <<>> THEN <<Slash>> ELSE From(trimmed, LastOf(trimmed, Slash) + 1)

\* path.Ext, and the number in front of it.
Ext(s) == IF LastOf(s, Dot) > LastOf(s, Slash) THEN From(s, LastOf(s, Dot)) ELSE <<>>
CopyName(s, n) ==
  IF n <= 1 THEN s ELSE SubSeq(s, 1, Len(s) - Len(Ext(s))) \o <<32, 40, 48 + n, 41>> \o Ext(s)
-----------------------------------------------------------------------------
(* Branches of the tree in SQL.                                            *)

Escaped(s) ==
  FoldLeft(LAMBDA p, c : p \o IF c \in {Percent, Underscore, Backslash} THEN <<Backslash, c>> ELSE <<c>>, <<>>, s)

UnderPattern(dir) == Escaped(Under(dir)) \o <<Percent>>
ContainsPattern(term) == <<Percent>> \o Escaped(term) \o <<Percent>>

\* LIKE pattern ESCAPE '\'.
Like(pattern, s) ==
  LET match[p \in 1..(Len(pattern) + 2), k \in 1..(Len(s) + 2)] ==
        IF p > Len(pattern) THEN k > Len(s)
        ELSE IF pattern[p] = Percent THEN match[p + 1, k] \/ (k <= Len(s) /\ match[p, k + 1])
        ELSE /\ k <= Len(s)
             /\ CASE pattern[p] = Underscore -> match[p + 1, k + 1]
                  [] pattern[p] = Backslash  -> pattern[p + 1] = s[k] /\ match[p + 2, k + 1]
                  [] OTHER                   -> pattern[p] = s[k] /\ match[p + 1, k + 1]
  IN match[1, 1]

\* SQLite's LIKE takes ASCII letters of either case for one another; the
\* column of MySQL is binary, and PostgreSQL's LIKE is exact.
sqliteLike(pattern, s)   == Like(Lower(pattern), Lower(s))
mysqlLike(pattern, s)    == Like(pattern, s)
postgresLike(pattern, s) == Like(pattern, s)
LikeOf(engine, pattern, s) ==
  CASE engine = "sqlite"   -> sqliteLike(pattern, s)
    [] engine = "mysql"    -> mysqlLike(pattern, s)
    [] engine = "postgres" -> postgresLike(pattern, s)

\* substr(s, n), SUBSTRING(s, n): in characters, while len(from) is in bytes.
Tail_(from) == Bytes(from) + 1

\* Mutant: the pattern of the branch is the name and a wildcard.
MovedBySpelling(engine, tree, from, to) ==
  {IF r.path = from THEN [r EXCEPT !.path = to, !.parent = ParentOf(to)]
   ELSE IF LikeOf(engine, Escaped(from) \o <<Percent>>, r.path)
     THEN [r EXCEPT !.path = to \o From(@, Tail_(from)), !.parent = to \o From(@, Tail_(from))]
   ELSE r : r \in tree}

\* MoveFile: the row, and then everything LIKE under it in one statement.
Moved(engine, tree, from, to) ==
  {IF r.path = from THEN [r EXCEPT !.path = to, !.parent = ParentOf(to)]
   ELSE IF LikeOf(engine, UnderPattern(from), r.path)
     THEN [r EXCEPT !.path = to \o From(@, Tail_(from)), !.parent = to \o From(@, Tail_(from))]
   ELSE r : r \in tree}

\* A row in the way of another is a conflict, and the transaction is undone.
MoveFile(engine, tree, from, to) ==
  IF /\ ValidateMove(from, to)
     /\ to \notin {r.path : r \in tree}
     /\ \A r, s \in Moved(engine, tree, from, to) : r.path = s.path => r = s
  THEN Moved(engine, tree, from, to) ELSE tree

Below(a, b) == \* a < b, byte by byte
  \E n \in 0..Len(b) :
    /\ n <= Len(a) /\ SubSeq(a, 1, n) = SubSeq(b, 1, n)
    /\ n < Len(b) /\ (n = Len(a) \/ a[n + 1] < b[n + 1])

SubtreeRange(dir) == <<Under(dir), dir \o <<Slash + 1>>>>

\* SubtreeSize, every file being one byte.
SubtreeSize(tree, dir) ==
  Cardinality({r \in tree : /\ ~r.dir
                            /\ dir # <<>> => ~Below(r.path, SubtreeRange(dir)[1]) /\ Below(r.path, SubtreeRange(dir)[2])})
-----------------------------------------------------------------------------
(* Blob keys.                                                              *)

ValidateKey(s) ==
  /\ s # <<>> /\ Head(s) # Slash /\ Last(s) # Slash
  /\ Backslash \notin Range(s) /\ ~Control(s)
  /\ Range(Segments(s)) \cap Special = {}
  /\ Head(s) # Dot

\* extensionOf: lower case letters and digits, and not too many.
extensionOf(s) ==
  LET ext == Lower(From(Ext(s), 2))
  IN IF Len(ext) <= 8 /\ \A k \in DOMAIN ext : ext[k] \in 97..122 \cup 48..57 THEN ext ELSE <<>>

\* newBlobKey, its kind, date and random part shortened to "i/9".
newBlobKey(s) == <<105, Slash, 57>> \o IF extensionOf(s) = <<>> THEN <<>> ELSE <<Dot>> \o extensionOf(s)

\* DerivedKey: "d/", the blob, "/g1-" and a name; and the ways back.
DerivedPrefix == <<100, Slash>>
CachePrefix   == <<99, Dash>>
DerivedKey(parent, name, generation) ==
  DerivedPrefix \o parent \o <<Slash, 103, 48 + generation, Dash>> \o name

parentOf(key) == IF IsPrefix(DerivedPrefix, key) THEN SubSeq(From(key, 3), 1, LastOf(From(key, 3), Slash) - 1) ELSE <<>>
Leaf(key)     == From(key, LastOf(key, Slash) + 1)
AfterDash(s)  == From(s, Min({Len(s) + 1} \cup {k \in DOMAIN s : s[k] = Dash}) + 1)

staleGeneration(key, generation) ==
  ~IsPrefix(<<103, 48 + generation, Dash>>, Leaf(key))
cached(key) == Dash \in Range(Leaf(key)) /\ IsPrefix(CachePrefix, AfterDash(Leaf(key)))
-----------------------------------------------------------------------------
Engines == {"sqlite", "mysql", "postgres"}
Strings == UNION {[1..n -> Alphabet] : n \in 0..MaxSent}
RowOf(p, dir) == [path |-> p, parent |-> ParentOf(p), dir |-> dir]

\* Two folders, a file in each and a folder with a file in the first.
Tree(a, b, c) ==
  {RowOf(a, TRUE), RowOf(b, TRUE), RowOf(Under(a) \o c, FALSE), RowOf(Under(b) \o c, FALSE),
   RowOf(Under(a) \o b, TRUE), RowOf(Under(Under(a) \o b) \o c, FALSE)}

Asked == [is |-> "nothing"]

Move(engine, a, b, c, to) ==
  /\ job = Asked /\ a # b /\ b # c
  /\ job' = [is |-> "move", engine |-> engine, before |-> Tree(a, b, c), from |-> a, to |-> to,
             after |-> MoveFile(engine, Tree(a, b, c), a, to)]

Send(s) == job = Asked /\ job' = [is |-> "sent", text |-> s]

Init == job = Asked

Next ==
  \/ \E engine \in Engines, a, b, c, d \in DirNames : \E to \in {d, Under(b) \o d, Under(a) \o d} : Move(engine, a, b, c, to)
  \/ \E s \in Strings : Send(s)

Spec == Init /\ [][Next]_<<job>>
-----------------------------------------------------------------------------
\* What a move means: the rows at and under the folder, and no other, are where
\* the destination says, and every row names its own parent.
Rebased(tree, from, to) ==
  {IF r.path = from THEN RowOf(to, r.dir)
   ELSE IF IsPrefix(Under(from), r.path) THEN RowOf(to \o From(r.path, Len(from) + 1), r.dir)
   ELSE r : r \in tree}

\* A folder goes to a name that is free, is short enough and is not inside of
\* the folder.
MayGo(tree, from, to) ==
  /\ \A r \in tree : r.path # to
  /\ ~IsPrefix(Under(from), to)
  /\ Bytes(from) <= MaxPathLen /\ Bytes(to) <= MaxPathLen

MovesTheBranch ==
  job.is = "move" =>
    job.after = IF MayGo(job.before, job.from, job.to) THEN Rebased(job.before, job.from, job.to) ELSE job.before

Ascii(s) == Bytes(s) = Len(s)
CaseTwin(tree, s) == \E r \in tree : r.path # s /\ Lower(r.path) = Lower(s)

\* A folder that may go moves, with everything under it and nothing beside it,
\* and one that may not stays: however its neighbours are spelled, as long as
\* its name is ASCII and, on SQLite, no other name differs from it only in case
\* (ValidateMove, MoveFile of the three drivers).
AsciiMovesTheBranch ==
  job.is = "move" /\ Ascii(job.from) /\ ~(job.engine = "sqlite" /\ CaseTwin(job.before, job.from)) => MovesTheBranch

\* A size adds up what is under the folder and nothing else (SubtreeRange).
BranchesAreMeasured ==
  job.is = "move" =>
    \A r \in job.before : r.dir =>
      SubtreeSize(job.before, r.path) = Cardinality({f \in job.before : ~f.dir /\ IsPrefix(Under(r.path), f.path)})

\* What a client sends never climbs, a path is its own address, a copy of it
\* is beside it, and what is stored for it has a key both stores accept
\* (toPath, ValidatePath, CopyName, newBlobKey, ValidateKey).
PathsAreSafe ==
  job.is = "sent" =>
    LET s == job.text
    IN /\ Range(Segments(toPath(s))) \cap Special \subseteq {<<>>}
       /\ toPath(toPath(s)) = toPath(s)
       /\ ValidatePath(s) => /\ toPath(s) = s
                             /\ ParentOf(s) = <<>> \/ ValidatePath(ParentOf(s))
                             /\ \A n \in {2, 3} : /\ ValidatePath(CopyName(s, n)) \/ Bytes(CopyName(s, n)) > MaxPathLen
                                                  /\ ParentOf(CopyName(s, n)) = ParentOf(s)
                                                  /\ CopyName(s, n) # CopyName(s, n - 1)
       /\ ValidatePath(baseName(s)) => Segments(baseName(s)) = <<baseName(s)>>
       /\ ValidateKey(newBlobKey(s))

\* The sweep reads out of a derived key what DerivedKey put in, whatever the
\* blob is called, and another generation's objects are stale (parentOf,
\* staleGeneration, cached).
DerivedKeysReadBack ==
  job.is = "sent" /\ ValidateKey(job.text) =>
    \A name \in {<<97>>, CachePrefix \o <<97>>} :
      LET key == DerivedKey(job.text, name, 1)
      IN /\ parentOf(key) = job.text /\ ValidateKey(key)
         /\ ~staleGeneration(key, 1) /\ staleGeneration(key, 2)
         /\ cached(key) <=> IsPrefix(CachePrefix, name)

\* A search term is matched as it is spelled (Contains).
TermsAreLiteral ==
  job.is = "sent" =>
    \A s \in {<<97, 46, 97>>, <<97, 37>>, <<92>>, <<97, 97, 47>>} :
      Like(ContainsPattern(job.text), s) <=> \E k \in 1..(Len(s) + 1) : IsPrefix(job.text, From(s, k))
=============================================================================
