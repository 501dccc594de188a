--------------------------- MODULE IndexerProofs ---------------------------
(***************************************************************************)
(* Proofs about Indexer for any number of files and writes, and channels   *)
(* and batches of any size.                                                *)
(***************************************************************************)
EXTENDS Indexer, SequenceTheorems, TLAPS

Bytes    == [etag : Keys, key : Keys]
Notes    == [file : Files, etag : Keys, key : Keys]
Tried    == [held : Notes, err : {"ok", "missing", "unreachable"}]
Verdicts == [etag : Keys, ok : BOOLEAN, retry : {"never", "later", "due"}]
Loops    == [pc : {"query", "extract", "record", "select"}, todo : Seq(Notes), attempts : Seq(Tried),
             at : Nat, indexed : Nat, lone : BOOLEAN]

\* The types, with what the channel and a batch can hold.
TInv ==
  /\ row \in [Files -> {None, Deleted} \cup Bytes]
  /\ media \in [Files -> {None} \cup Verdicts]
  /\ dropped \subseteq Keys
  /\ unsaid \subseteq [held : Notes, old : Keys \cup {0}]
  /\ notices \in Seq(Notes) /\ Len(notices) <= Buffer
  /\ lost \in BOOLEAN /\ down \in BOOLEAN
  /\ loop \in Loops /\ Len(loop.todo) + Len(loop.attempts) <= BatchSize
  /\ loop.pc = "record" => loop.at >= 1
  /\ writes \in 0..MaxWrites

\* A key that was given out and is no row's any more.
Nobodys(k) == k <= writes /\ \A f \in Files : Live(f) => row[f].key # k

\* What holds when every write brings bytes of its own: a row, and whatever
\* was read of one, says them by its key; what is dropped was replaced; and who
\* found a blob missing looked for one that was dropped, so that a last word
\* that says nothing is on bytes nobody has.
RowsApart ==
  /\ \A f \in Files : Live(f) => row[f].etag = row[f].key /\ row[f].key <= writes
  /\ \A f, g \in Files : Live(f) /\ Live(g) /\ f # g => row[f].key # row[g].key
Replaced ==
  /\ \A w \in unsaid : w.held.etag = w.held.key /\ (w.old = 0 \/ Nobodys(w.old))
  /\ \A k \in dropped : Nobodys(k)
NotedByKey ==
  /\ \A i \in 1..Len(notices) : notices[i].etag = notices[i].key
  /\ \A i \in 1..Len(loop.todo) : loop.todo[i].etag = loop.todo[i].key
TriedInVain ==
  \A i \in 1..Len(loop.attempts) :
    /\ loop.attempts[i].held.etag = loop.attempts[i].held.key
    /\ loop.attempts[i].err = "missing" => loop.attempts[i].held.key \in dropped
LastWords ==
  \A f \in Files : media[f] # None /\ ~media[f].ok /\ media[f].retry = "never" => media[f].etag \in dropped

IInv == TInv /\ RowsApart /\ Replaced /\ NotedByKey /\ TriedInVain /\ LastWords
-----------------------------------------------------------------------------
(* Types.                                                                  *)

LEMMA WaitingTypes ==
  /\ Waiting \in Loops /\ Waiting.pc = "select" /\ Waiting.todo = <<>> /\ Waiting.attempts = <<>>
  /\ Query \in Loops /\ Query.pc = "query" /\ Query.todo = <<>> /\ Query.attempts = <<>>
  /\ Len(Waiting.todo) + Len(Waiting.attempts) <= BatchSize
  /\ Len(Query.todo) + Len(Query.attempts) <= BatchSize
<1>1. <<>> \in Seq(Notes) /\ <<>> \in Seq(Tried) /\ Len(<<>>) = 0
  OBVIOUS
<1>2. Waiting \in Loops /\ Waiting.pc = "select" /\ Waiting.todo = <<>> /\ Waiting.attempts = <<>>
  BY <1>1 DEF Waiting, Loops
<1>3. Query \in Loops /\ Query.pc = "query" /\ Query.todo = <<>> /\ Query.attempts = <<>>
  BY <1>2 DEF Query, Loops
<1>4. 0 + 0 <= BatchSize
  BY IndexerAssumption
<1> QED BY <1>1, <1>2, <1>3, <1>4

LEMMA InitTypes == ASSUME Init PROVE TInv
<1>1. Query \in Loops /\ Len(Query.todo) + Len(Query.attempts) <= BatchSize /\ Query.pc = "query"
  BY WaitingTypes
<1>2. notices \in Seq(Notes) /\ Len(notices) <= Buffer
  BY IndexerAssumption DEF Init
<1>3. writes \in 0..MaxWrites
  BY IndexerAssumption DEF Init
<1> QED BY <1>1, <1>2, <1>3 DEF Init, TInv

LEMMA WriteTypes == ASSUME TInv, NEW f \in Files, NEW etag \in Keys, Write(f, etag) PROVE TInv'
<1> DEFINE key == writes + 1
<1>1. key \in Keys /\ key \in 0..MaxWrites
  BY IndexerAssumption DEF TInv, Write, Keys
<1>2. row' \in [Files -> {None, Deleted} \cup Bytes]
  BY <1>1 DEF TInv, Write, Bytes
<1>3. (IF Live(f) THEN row[f].key ELSE 0) \in Keys \cup {0}
  BY DEF TInv, Live, Bytes
<1>4. unsaid' \subseteq [held : Notes, old : Keys \cup {0}]
  BY <1>1, <1>3 DEF TInv, Write, Notes
<1> QED BY <1>1, <1>2, <1>4 DEF TInv, Write

LEMMA NoticeTypes ==
  ASSUME TInv, NEW held \in Notes, Notice(held)
  PROVE  notices' \in Seq(Notes) /\ Len(notices') <= Buffer /\ lost' \in BOOLEAN
<1>1. CASE Len(notices) < Buffer
  <2>1. notices' = Append(notices, held) /\ lost' = lost
    BY <1>1 DEF Notice
  <2>2. Append(notices, held) \in Seq(Notes) /\ Len(Append(notices, held)) = Len(notices) + 1
    BY DEF TInv
  <2>3. Len(notices) \in Nat /\ Buffer \in Nat
    BY IndexerAssumption DEF TInv
  <2>4. Len(notices) + 1 <= Buffer
    BY <1>1, <2>3
  <2> QED BY <2>1, <2>2, <2>4 DEF TInv
<1>2. CASE ~(Len(notices) < Buffer)
  BY <1>2 DEF TInv, Notice
<1> QED BY <1>1, <1>2

LEMMA AnnounceTypes ==
  ASSUME TInv, NEW w \in unsaid, Announce(w) \/ Unannounced(w) PROVE TInv'
<1>1. w.held \in Notes /\ w.old \in Keys \cup {0}
  BY DEF TInv
<1>2. dropped' \subseteq Keys /\ unsaid' \subseteq unsaid
  BY <1>1 DEF TInv, Announce, Unannounced
<1>3. notices' \in Seq(Notes) /\ Len(notices') <= Buffer /\ lost' \in BOOLEAN
  BY <1>1, NoticeTypes DEF TInv, Announce, Unannounced
<1> QED BY <1>2, <1>3 DEF TInv, Announce, Unannounced

LEMMA HeldTypes == ASSUME TInv, NEW f \in Files, Live(f) PROVE Held(f) \in Notes
BY DEF TInv, Live, Held, Notes, Bytes

LEMMA IndexBatchTypes == ASSUME TInv, IndexBatch PROVE TInv'
<1>0. PICK n \in 0..BatchSize : \E batch \in [1..n -> {Held(f) : f \in Pending}] :
        FirstPending(batch) /\ loop' = [Waiting EXCEPT !.pc = "extract", !.todo = batch]
  BY DEF IndexBatch
<1>1. PICK batch \in [1..n -> {Held(f) : f \in Pending}] :
        loop' = [Waiting EXCEPT !.pc = "extract", !.todo = batch]
  BY <1>0
<1>2. \A i \in 1..n : batch[i] \in Notes
  BY HeldTypes DEF Pending
<1>3. batch \in Seq(Notes) /\ Len(batch) = n
  BY <1>2, IndexerAssumption
<1>4. loop' \in Loops /\ loop'.todo = batch /\ loop'.attempts = <<>> /\ loop'.pc = "extract"
  BY <1>1, <1>3, WaitingTypes DEF Loops
<1>5. Len(loop'.todo) + Len(loop'.attempts) <= BatchSize
  <2>1. Len(loop'.todo) = n /\ Len(loop'.attempts) = 0 /\ n \in Nat /\ n <= BatchSize
    BY <1>3, <1>4, IndexerAssumption
  <2> QED BY <2>1
<1> QED BY <1>4, <1>5 DEF TInv, IndexBatch, world

LEMMA LoopTypes ==
  ASSUME TInv, Noticed \/ LostTrack \/ Tick \/ Extracted \/ Recorded \/ IndexFails PROVE TInv'
<1>1. CASE Noticed
  <2>1. Head(notices) \in Notes /\ Tail(notices) \in Seq(Notes) /\ Len(Tail(notices)) <= Buffer
    BY <1>1, IndexerAssumption DEF TInv, Noticed
  <2>2. <<Head(notices)>> \in Seq(Notes) /\ Len(<<Head(notices)>>) = 1
    BY <2>1
  <2>3. /\ loop' \in Loops /\ loop'.pc = "extract"
        /\ loop'.todo = <<Head(notices)>> /\ loop'.attempts = <<>>
    BY <1>1, <2>2, WaitingTypes DEF Noticed, Loops
  <2>4. Len(loop'.todo) + Len(loop'.attempts) <= BatchSize
    <3>1. 1 + 0 <= BatchSize
      BY IndexerAssumption
    <3> QED BY <2>2, <2>3, <3>1
  <2> QED BY <1>1, <2>1, <2>3, <2>4 DEF TInv, Noticed, world
<1>2. CASE LostTrack \/ Tick \/ Recorded \/ IndexFails
  BY <1>2, WaitingTypes DEF TInv, LostTrack, Tick, Recorded, IndexFails, world
<1>3. CASE Extracted
  <2>1. loop' \in Loops /\ loop'.todo = loop.todo /\ loop'.attempts = loop.attempts /\ loop'.at >= 1
    <3>1. 1 \in Nat /\ 1 >= 1
      OBVIOUS
    <3> QED BY <1>3, <3>1 DEF TInv, Extracted, Loops
  <2>2. Len(loop'.todo) + Len(loop'.attempts) <= BatchSize
    BY <2>1 DEF TInv
  <2> QED BY <1>3, <2>1, <2>2 DEF TInv, Extracted, world
<1> QED BY <1>1, <1>2, <1>3

LEMMA ExtractTypes == ASSUME TInv, Extract PROVE TInv'
<1> DEFINE held == Head(loop.todo)
           tried == [held |-> held, err |-> Outcome(held)]
<1>1. loop.todo \in Seq(Notes) /\ loop.todo # <<>> /\ loop.attempts \in Seq(Tried)
  BY DEF TInv, Extract, Loops
<1>2. held \in Notes /\ Tail(loop.todo) \in Seq(Notes) /\ Len(Tail(loop.todo)) = Len(loop.todo) - 1
  BY <1>1
<1>3. tried \in Tried
  BY <1>2 DEF Outcome, Tried
<1> HIDE DEF tried
<1>4. Append(loop.attempts, tried) \in Seq(Tried) /\ Len(Append(loop.attempts, tried)) = Len(loop.attempts) + 1
  BY <1>1, <1>3
<1>5. loop' = [loop EXCEPT !.todo = Tail(@), !.attempts = Append(@, tried)]
  BY DEF Extract, tried
<1>6. /\ loop' \in Loops /\ loop'.pc = "extract"
      /\ loop'.todo = Tail(loop.todo) /\ loop'.attempts = Append(loop.attempts, tried)
  BY <1>2, <1>4, <1>5 DEF TInv, Extract, Loops
<1>7. Len(loop'.todo) + Len(loop'.attempts) <= BatchSize
  <2>1. \A m, n \in Nat : (m - 1) + (n + 1) = m + n
    OBVIOUS
  <2>2. Len(loop.todo) \in Nat /\ Len(loop.attempts) \in Nat
    BY <1>1
  <2>3. Len(loop'.todo) + Len(loop'.attempts) = Len(loop.todo) + Len(loop.attempts)
    <3>1. (Len(loop.todo) - 1) + (Len(loop.attempts) + 1) = Len(loop.todo) + Len(loop.attempts)
      BY <2>1, <2>2
    <3>2. Len(loop'.todo) = Len(loop.todo) - 1 /\ Len(loop'.attempts) = Len(loop.attempts) + 1
      BY <1>2, <1>4, <1>6
    <3> QED BY <3>1, <3>2
  <2> QED BY <2>3 DEF TInv
<1> QED BY <1>6, <1>7 DEF TInv, Extract, world

LEMMA RecordTypes == ASSUME TInv, Record PROVE TInv'
<1> DEFINE a == loop.attempts[loop.at]
<1>1. a \in Tried
  BY DEF TInv, Record, Loops
<1>2. media' \in [Files -> {None} \cup Verdicts]
  <2>1. \A deferred : [etag |-> a.held.etag, ok |-> a.err = "ok", retry |-> IF deferred THEN "later" ELSE "never"] \in Verdicts
    BY <1>1 DEF Tried, Notes, Verdicts
  <2> QED BY <1>1, <2>1 DEF TInv, Record, Tried, Notes
<1>3. /\ loop' \in Loops /\ loop'.pc = "record" /\ loop'.at = loop.at + 1
      /\ loop'.todo = loop.todo /\ loop'.attempts = loop.attempts
  <2>1. loop.at \in Nat /\ loop.indexed \in Nat /\ loop.pc = "record"
    BY DEF TInv, Record, Loops
  <2> DEFINE m == IF Deferred(a, loop.attempts) /\ Live(a.held.file) THEN loop.indexed ELSE loop.indexed + 1
  <2>2. m \in Nat
    BY <2>1
  <2>3. loop' = [loop EXCEPT !.at = @ + 1, !.indexed = m]
    BY DEF Record
  <2> HIDE DEF m
  <2>4. loop.at + 1 \in Nat /\ loop \in Loops
    BY <2>1 DEF TInv
  <2> QED BY <2>1, <2>2, <2>3, <2>4 DEF Loops
<1>4. loop'.at >= 1
  BY <1>3 DEF TInv, Loops, Record
<1> QED BY <1>2, <1>3, <1>4 DEF TInv, Record, world

LEMMA DeleteTypes == ASSUME TInv, NEW f \in Files, Delete(f) PROVE TInv'
<1>1. /\ row' \in [Files -> {None, Deleted} \cup Bytes]
      /\ media' \in [Files -> {None} \cup Verdicts]
  BY DEF TInv, Delete
<1> QED BY <1>1 DEF TInv, Delete

LEMMA RetryTypes == ASSUME TInv, NEW f \in Files, RetryDue(f) PROVE TInv'
<1>1. [media[f] EXCEPT !.retry = "due"] \in Verdicts
  BY DEF TInv, RetryDue, Verdicts
<1>2. media' = [media EXCEPT ![f] = [media[f] EXCEPT !.retry = "due"]]
  BY DEF RetryDue
<1>3. media' \in [Files -> {None} \cup Verdicts]
  BY <1>1, <1>2 DEF TInv
<1> QED BY <1>3 DEF TInv, RetryDue, world

LEMMA WorldTypes == ASSUME TInv, StoreStops \/ StoreAnswers \/ Restart \/ UNCHANGED vars PROVE TInv'
<1>1. CASE StoreStops \/ StoreAnswers
  BY <1>1 DEF TInv, StoreStops, StoreAnswers
<1>2. CASE Restart
  <2>1. notices' \in Seq(Notes) /\ Len(notices') <= Buffer
    BY <1>2, IndexerAssumption DEF Restart
  <2> QED BY <1>2, <2>1, WaitingTypes DEF TInv, Restart
<1>3. CASE UNCHANGED vars
  BY <1>3 DEF TInv, vars
<1> QED BY <1>1, <1>2, <1>3

LEMMA NextTypes == ASSUME TInv, [Next]_vars PROVE TInv'
<1>1. CASE \E f \in Files : (\E etag \in Keys : Write(f, etag)) \/ Delete(f) \/ RetryDue(f)
  BY <1>1, WriteTypes, DeleteTypes, RetryTypes
<1>2. CASE \E w \in unsaid : Announce(w) \/ Unannounced(w)
  BY <1>2, AnnounceTypes
<1>3. CASE Noticed \/ LostTrack \/ Tick \/ Pass \/ IndexFails
  BY <1>3, IndexBatchTypes, LoopTypes, ExtractTypes, RecordTypes DEF Pass
<1>4. CASE StoreStops \/ StoreAnswers \/ Restart \/ UNCHANGED vars
  BY <1>4, WorldTypes
<1> QED BY <1>1, <1>2, <1>3, <1>4 DEF Next

LEMMA TypesAreOK == TInv => TypeOK
<1> SUFFICES ASSUME TInv PROVE TypeOK
  OBVIOUS
<1>1. \A f \in Files : Live(f) => row[f] \in [etag : Keys, key : Keys]
  BY DEF TInv, Live, Bytes
<1>2. \A f \in Files : media[f] = None \/ media[f] \in
        [etag : Keys, ok : BOOLEAN, retry : {"never", "later", "due"}]
  BY DEF TInv, Verdicts
<1>3. \A w \in unsaid : w.held.file \in Files /\ w.old \in Keys \cup {0}
  BY DEF TInv, Notes
<1>4. loop.pc \in {"query", "extract", "record", "select"}
  BY DEF TInv, Loops
<1> QED BY <1>1, <1>2, <1>3, <1>4 DEF TInv, TypeOK

\* A batch never outgrows BatchSize, nor the channel its buffer, and what is
\* held of a file is always a row it had (indexer.go:124, background.go).
THEOREM IndexerTypeCorrect == Spec => []TypeOK
<1>1. Init => TInv
  BY InitTypes
<1>2. TInv /\ [Next]_vars => TInv'
  BY NextTypes
<1> QED BY <1>1, <1>2, TypesAreOK, PTL DEF Spec
-----------------------------------------------------------------------------
(* Who touches what.                                                       *)

LEMMA WhoWrites ==
  ASSUME [Next]_vars
  PROVE  \/ \E f \in Files, etag \in Keys : Write(f, etag)
         \/ \E f \in Files : Delete(f)
         \/ UNCHANGED <<row, writes>>
BY DEF Next, vars, world, RetryDue, Announce, Unannounced, Noticed, LostTrack, Tick, Pass, IndexBatch,
       Extract, Extracted, Record, Recorded, IndexFails, StoreStops, StoreAnswers, Restart

LEMMA WhoDrops ==
  ASSUME [Next]_vars
  PROVE  \/ \E f \in Files, etag \in Keys : Write(f, etag)
         \/ \E w \in unsaid : unsaid' = unsaid \ {w} /\ dropped' = dropped \cup ({w.old} \ {0})
         \/ unsaid' \subseteq unsaid /\ dropped' = dropped
BY DEF Next, vars, world, Delete, RetryDue, Announce, Unannounced, Noticed, LostTrack, Tick, Pass, IndexBatch,
       Extract, Extracted, Record, Recorded, IndexFails, StoreStops, StoreAnswers, Restart
-----------------------------------------------------------------------------
(* Every write brings bytes of its own.                                    *)

\* A new row has a key no row has.
LEMMA RowsStayApart ==
  ASSUME TInv, RowsApart, SameBytes = FALSE, [Next]_vars PROVE RowsApart'
<1>1. ASSUME NEW f \in Files, NEW etag \in Keys, Write(f, etag) PROVE RowsApart'
  <2>1. writes \in Nat /\ writes' = writes + 1
    BY <1>1, IndexerAssumption DEF TInv, Write
  <2>2. etag = writes' /\ row' = [row EXCEPT ![f] = [etag |-> etag, key |-> writes']]
    BY <1>1, <2>1 DEF Write
  <2>3. row'[f].etag = writes' /\ row'[f].key = writes' /\ \A g \in Files \ {f} : row'[g] = row[g]
    BY <2>2 DEF TInv
  <2>4. \A g \in Files \ {f} : Live(g)' => Live(g)
    BY <2>3 DEF Live
  <2>5. \A g \in Files : Live(g) => row[g].key \in Nat /\ row[g].key <= writes /\ row[g].key # writes'
    BY <2>1, IndexerAssumption DEF RowsApart, TInv, Live, Bytes, Keys
  <2>6. \A k \in Nat : k <= writes => k <= writes'
    BY <2>1
  <2> QED BY <2>1, <2>3, <2>4, <2>5, <2>6 DEF RowsApart
<1>2. ASSUME NEW f \in Files, Delete(f) PROVE RowsApart'
  <2>1. writes' = writes /\ \A g \in Files : Live(g)' => Live(g) /\ row'[g] = row[g]
    BY <1>2 DEF TInv, Delete, Live
  <2> QED BY <2>1 DEF RowsApart
<1>3. CASE UNCHANGED <<row, writes>>
  BY <1>3 DEF RowsApart, Live
<1> QED BY <1>1, <1>2, <1>3, WhoWrites

\* A key nobody has comes back to nobody.
LEMMA NobodysStay ==
  ASSUME TInv, RowsApart, [Next]_vars, NEW k \in Nat, Nobodys(k) PROVE Nobodys(k)'
<1>1. ASSUME NEW f \in Files, NEW etag \in Keys, Write(f, etag) PROVE Nobodys(k)'
  <2>1. writes \in Nat /\ writes' = writes + 1 /\ row'[f].key = writes' /\ \A g \in Files \ {f} : row'[g] = row[g]
    BY <1>1, IndexerAssumption DEF TInv, Write
  <2>2. k <= writes' /\ k # writes'
    BY <2>1 DEF Nobodys
  <2> QED BY <2>1, <2>2 DEF Nobodys, Live
<1>2. ASSUME NEW f \in Files, Delete(f) PROVE Nobodys(k)'
  BY <1>2 DEF TInv, Delete, Live, Nobodys
<1>3. CASE UNCHANGED <<row, writes>>
  BY <1>3 DEF Nobodys, Live
<1> QED BY <1>1, <1>2, <1>3, WhoWrites

LEMMA StillReplaced ==
  ASSUME TInv, RowsApart, Replaced, SameBytes = FALSE, [Next]_vars PROVE Replaced'
<1>0. \A k \in Keys : k \in Nat
  BY IndexerAssumption DEF Keys
<1>1. /\ \A w \in unsaid : w.held.etag = w.held.key /\ (w.old = 0 \/ Nobodys(w.old)')
      /\ \A k \in dropped : Nobodys(k)'
  BY <1>0, NobodysStay DEF TInv, Replaced
<1>2. ASSUME NEW f \in Files, NEW etag \in Keys, Write(f, etag) PROVE Replaced'
  <2> DEFINE old == IF Live(f) THEN row[f].key ELSE 0
             new == [held |-> [file |-> f, etag |-> etag, key |-> writes + 1], old |-> old]
  <2>1. writes \in Nat /\ writes' = writes + 1 /\ etag = writes + 1
    BY <1>2, IndexerAssumption DEF TInv, Write
  <2>2. unsaid' = unsaid \cup {new} /\ dropped' = dropped
    BY <1>2 DEF Write
  <2>3. new.held.etag = new.held.key
    BY <2>1
  <2>4. ASSUME NEW k \in Nat, Live(f), row[f].key = k PROVE Nobodys(k)'
    <3>1. row'[f].key = writes' /\ \A g \in Files \ {f} : row'[g] = row[g]
      BY <1>2, <2>1 DEF TInv, Write
    <3>2. k <= writes
      BY <2>4 DEF RowsApart
    <3>3. k <= writes' /\ k # writes'
      BY <2>1, <3>2
    <3>4. \A g \in Files \ {f} : Live(g) => row[g].key # k
      BY <2>4 DEF RowsApart
    <3> QED BY <3>1, <3>3, <3>4 DEF Nobodys, Live
  <2>5. ASSUME NEW k, k = new.old PROVE k = 0 \/ Nobodys(k)'
    <3>1. Live(f) => row[f].key \in Nat
      BY <1>0 DEF TInv, Live, Bytes
    <3> QED BY <2>4, <2>5, <3>1
  <2> HIDE DEF new
  <2>6. ASSUME NEW w \in unsaid' PROVE w.held.etag = w.held.key /\ (w.old = 0 \/ Nobodys(w.old)')
    BY <1>1, <2>2, <2>3, <2>5
  <2> QED BY <1>1, <2>2, <2>6 DEF Replaced
<1>3. ASSUME NEW w \in unsaid, unsaid' = unsaid \ {w}, dropped' = dropped \cup ({w.old} \ {0}) PROVE Replaced'
  BY <1>1, <1>3 DEF Replaced
<1>4. CASE unsaid' \subseteq unsaid /\ dropped' = dropped
  BY <1>1, <1>4 DEF Replaced
<1> QED BY <1>2, <1>3, <1>4, WhoDrops

\* A blob that is gone stays gone.
LEMMA DroppedGrows == ASSUME [Next]_vars PROVE dropped \subseteq dropped'
BY WhoDrops DEF Write

LEMMA TailOf ==
  ASSUME NEW S, NEW s \in Seq(S), s # <<>>
  PROVE  /\ Len(Tail(s)) = Len(s) - 1 /\ Len(s) \in Nat /\ Len(s) >= 1 /\ Head(s) = s[1]
         /\ \A i \in 1..Len(Tail(s)) : i + 1 \in 1..Len(s) /\ Tail(s)[i] = s[i + 1]
<1>1. Len(Tail(s)) = Len(s) - 1 /\ Len(s) \in Nat /\ Len(s) >= 1 /\ Head(s) = s[1]
  OBVIOUS
<1>2. ASSUME NEW i \in 1..Len(Tail(s)) PROVE i + 1 \in 1..Len(s) /\ Tail(s)[i] = s[i + 1]
  BY <1>1
<1> QED BY <1>1, <1>2

LEMMA AppendOf ==
  ASSUME NEW S, NEW s \in Seq(S), NEW e \in S
  PROVE  \A i \in 1..Len(Append(s, e)) :
           \/ i \in 1..Len(s) /\ Append(s, e)[i] = s[i]
           \/ Append(s, e)[i] = e
OBVIOUS

\* What an action does to the channel.
LEMMA WhoNotes ==
  ASSUME [Next]_vars
  PROVE  \/ \E w \in unsaid : Notice(w.held)
         \/ Noticed
         \/ notices' = notices \/ notices' = <<>>
BY DEF Next, vars, world, Write, Delete, RetryDue, Announce, Unannounced, LostTrack, Tick, Pass, IndexBatch,
       Extract, Extracted, Record, Recorded, IndexFails, StoreStops, StoreAnswers, Restart

\* What an action leaves to extract, and what it has tried.
LEMMA WhoHolds ==
  ASSUME TInv, [Next]_vars
  PROVE  \/ Noticed \/ IndexBatch \/ Extract
         \/ loop'.todo = loop.todo /\ loop'.attempts = loop.attempts
         \/ loop'.todo = <<>> /\ loop'.attempts = <<>>
<1>1. CASE LostTrack \/ Tick \/ Recorded \/ IndexFails \/ Restart
  BY <1>1, WaitingTypes DEF LostTrack, Tick, Recorded, IndexFails, Restart
<1>2. CASE Extracted \/ Record
  BY <1>2 DEF Extracted, Record, TInv, Loops
<1>3. CASE loop' = loop
  BY <1>3
<1>4. \/ Noticed \/ IndexBatch \/ Extract
      \/ LostTrack \/ Tick \/ Recorded \/ IndexFails \/ Restart
      \/ Extracted \/ Record
      \/ loop' = loop
  BY DEF Next, vars, Pass, Write, Delete, RetryDue, Announce, Unannounced, StoreStops, StoreAnswers
<1> QED BY <1>1, <1>2, <1>3, <1>4

LEMMA NoticesByKey ==
  ASSUME TInv, RowsApart, Replaced, NotedByKey, [Next]_vars
  PROVE  \A i \in 1..Len(notices') : notices'[i].etag = notices'[i].key
<1>1. ASSUME NEW w \in unsaid, Notice(w.held) PROVE \A i \in 1..Len(notices') : notices'[i].etag = notices'[i].key
  <2>1. w.held \in Notes /\ w.held.etag = w.held.key /\ notices \in Seq(Notes)
    BY DEF TInv, Replaced
  <2>2. \A i \in 1..Len(Append(notices, w.held)) :
          Append(notices, w.held)[i].etag = Append(notices, w.held)[i].key
    BY <2>1, AppendOf DEF NotedByKey
  <2> QED BY <1>1, <2>2 DEF Notice, NotedByKey
<1>2. CASE Noticed
  <2>1. notices \in Seq(Notes) /\ notices # <<>> /\ notices' = Tail(notices)
    BY <1>2 DEF TInv, Noticed
  <2> QED BY <2>1, TailOf DEF NotedByKey
<1>3. CASE notices' = notices
  BY <1>3 DEF NotedByKey
<1>4. CASE notices' = <<>>
  BY <1>4
<1> QED BY <1>1, <1>2, <1>3, <1>4, WhoNotes

LEMMA TodoByKey ==
  ASSUME TInv, RowsApart, NotedByKey, [Next]_vars
  PROVE  \A i \in 1..Len(loop'.todo) : loop'.todo[i].etag = loop'.todo[i].key
<1>1. CASE Noticed
  <2>1. notices \in Seq(Notes) /\ notices # <<>> /\ loop'.todo = <<Head(notices)>>
    BY <1>1, WaitingTypes DEF TInv, Noticed, Loops
  <2>2. Head(notices).etag = Head(notices).key
    BY <2>1, TailOf DEF NotedByKey
  <2> QED BY <2>1, <2>2
<1>2. CASE IndexBatch
  <2>1. PICK n \in 0..BatchSize : \E batch \in [1..n -> {Held(f) : f \in Pending}] :
          FirstPending(batch) /\ loop' = [Waiting EXCEPT !.pc = "extract", !.todo = batch]
    BY <1>2 DEF IndexBatch
  <2>2. PICK batch \in [1..n -> {Held(f) : f \in Pending}] :
          loop' = [Waiting EXCEPT !.pc = "extract", !.todo = batch]
    BY <2>1
  <2>3. loop'.todo = batch
    BY <2>2, WaitingTypes DEF Loops
  <2>4. \A f \in Pending : Held(f).etag = Held(f).key
    BY DEF Pending, Held, RowsApart
  <2>5. \A i \in 1..n : batch[i].etag = batch[i].key
    BY <2>4
  <2>6. batch \in Seq({Held(f) : f \in Pending}) /\ Len(batch) = n
    BY IndexerAssumption
  <2> QED BY <2>3, <2>5, <2>6
<1>3. CASE Extract
  <2>1. loop.todo \in Seq(Notes) /\ loop.todo # <<>> /\ loop'.todo = Tail(loop.todo)
    BY <1>3 DEF TInv, Extract, Loops
  <2> QED BY <2>1, TailOf DEF NotedByKey
<1>4. CASE loop'.todo = loop.todo
  BY <1>4 DEF NotedByKey
<1>5. CASE loop'.todo = <<>>
  BY <1>5
<1> QED BY <1>1, <1>2, <1>3, <1>4, <1>5, WhoHolds

\* Who found a blob missing looked when it was gone, and it is gone for good.
LEMMA StillTriedInVain ==
  ASSUME TInv, NotedByKey, TriedInVain, [Next]_vars PROVE TriedInVain'
<1>1. CASE Noticed \/ IndexBatch
  <2>1. loop'.attempts = <<>>
    BY <1>1, WaitingTypes DEF Noticed, IndexBatch, Loops
  <2> QED BY <2>1 DEF TriedInVain
<1>2. CASE Extract
  <2> DEFINE held == Head(loop.todo)
             tried == [held |-> held, err |-> Outcome(held)]
  <2>1. loop.todo \in Seq(Notes) /\ loop.todo # <<>> /\ loop.attempts \in Seq(Tried)
    BY <1>2 DEF TInv, Extract, Loops
  <2>2. held \in Notes /\ held.etag = held.key
    BY <2>1, TailOf DEF NotedByKey
  <2>3. tried \in Tried /\ tried.held = held /\ (tried.err = "missing" => held.key \in dropped)
    BY <2>2 DEF Outcome, Tried
  <2>4. dropped' = dropped
    BY <1>2 DEF Extract, world
  <2>5. loop' = [loop EXCEPT !.todo = Tail(@), !.attempts = Append(@, tried)]
    BY <1>2 DEF Extract
  <2> HIDE DEF tried
  <2>6. loop'.attempts = Append(loop.attempts, tried)
    BY <2>5 DEF TInv, Loops
  <2> QED BY <2>1, <2>2, <2>3, <2>4, <2>6, AppendOf DEF TriedInVain
<1>3. CASE loop'.attempts = loop.attempts
  BY <1>3, DroppedGrows DEF TriedInVain
<1>4. CASE loop'.attempts = <<>>
  BY <1>4 DEF TriedInVain
<1> QED BY <1>1, <1>2, <1>3, <1>4, WhoHolds
-----------------------------------------------------------------------------
(* The last word on a file.                                                *)

\* What an action does to the verdicts.
LEMMA WhoSays ==
  ASSUME [Next]_vars
  PROVE  \/ \E f \in Files : Delete(f) \/ RetryDue(f)
         \/ Record
         \/ media' = media
BY DEF Next, vars, world, Write, Announce, Unannounced, Noticed, LostTrack, Tick, Pass, IndexBatch,
       Extract, Extracted, Recorded, IndexFails, StoreStops, StoreAnswers, Restart

\* record leaves a last word only on a blob that was missing, and that one was
\* dropped, never on one the store did not give.
LEMMA StillLastWords ==
  ASSUME TInv, TriedInVain, LastWords, [Next]_vars PROVE LastWords'
<1>1. ASSUME NEW f \in Files, Delete(f) PROVE LastWords'
  BY <1>1 DEF TInv, Delete, LastWords
<1>2. ASSUME NEW f \in Files, RetryDue(f) PROVE LastWords'
  <2>1. media[f] \in Verdicts /\ media'[f] = [media[f] EXCEPT !.retry = "due"]
    BY <1>2 DEF TInv, RetryDue
  <2>2. media'[f].retry = "due" /\ \A g \in Files \ {f} : media'[g] = media[g]
    BY <1>2, <2>1 DEF TInv, RetryDue, Verdicts
  <2>3. dropped' = dropped
    BY <1>2 DEF RetryDue, world
  <2> QED BY <2>2, <2>3 DEF LastWords
<1>3. CASE Record
  <2> DEFINE a == loop.attempts[loop.at]
             f == a.held.file
             verdict == [etag |-> a.held.etag, ok |-> a.err = "ok",
                         retry |-> IF Deferred(a, loop.attempts) THEN "later" ELSE "never"]
  <2>1. loop.at \in 1..Len(loop.attempts) /\ a \in Tried
    BY <1>3 DEF TInv, Record, Loops
  <2>2. dropped' = dropped
    BY <1>3 DEF Record, world
  <2>3. ~verdict.ok /\ verdict.retry = "never" => verdict.etag \in dropped
    BY <2>1 DEF TriedInVain, Deferred, Tried
  <2>4. media' = media \/ media' = [media EXCEPT ![f] = verdict]
    BY <1>3 DEF Record
  <2> HIDE DEF verdict
  <2>5. ASSUME NEW g \in Files PROVE media'[g] = media[g] \/ media'[g] = verdict
    BY <2>4 DEF TInv
  <2> QED BY <2>2, <2>3, <2>5 DEF LastWords
<1>4. CASE media' = media
  BY <1>4, DroppedGrows DEF LastWords
<1> QED BY <1>1, <1>2, <1>3, <1>4, WhoSays

LEMMA InitHolds == ASSUME Init PROVE IInv
<1>1. \A f \in Files : ~Live(f) /\ media[f] = None
  BY DEF Init, Live
<1>2. notices = <<>> /\ loop.todo = <<>> /\ loop.attempts = <<>>
  BY WaitingTypes DEF Init
<1>3. NotedByKey /\ TriedInVain
  BY <1>2 DEF NotedByKey, TriedInVain
<1>4. RowsApart /\ LastWords
  BY <1>1 DEF RowsApart, LastWords
<1>5. Replaced
  BY DEF Init, Replaced
<1> QED BY <1>3, <1>4, <1>5, InitTypes DEF IInv

LEMMA NextHolds == ASSUME IInv, SameBytes = FALSE, [Next]_vars PROVE IInv'
<1>1. NotedByKey'
  BY NoticesByKey, TodoByKey DEF IInv, NotedByKey
<1> QED BY <1>1, NextTypes, RowsStayApart, StillReplaced, StillTriedInVain, StillLastWords DEF IInv

\* The bytes a live row has are dropped for nobody, so no last word without a
\* description is on them.
LEMMA LastWordsAreOnOthersBytes == ASSUME IInv PROVE VerdictIsFromTheBytes
<1> SUFFICES ASSUME NEW f \in Files, Live(f), media[f] # None, media[f].etag = row[f].etag,
                    media[f].retry = "never", ~media[f].ok
             PROVE  FALSE
  BY DEF VerdictIsFromTheBytes
<1>1. row[f].key \in dropped
  BY DEF IInv, LastWords, RowsApart
<1>2. Nobodys(row[f].key)
  BY <1>1 DEF IInv, Replaced
<1> QED BY <1>2 DEF Nobodys

THEOREM IndexerInvariant == ASSUME SameBytes = FALSE PROVE Spec => []IInv
<1>1. Init => IInv
  BY InitHolds
<1>2. IInv /\ [Next]_vars => IInv'
  BY NextHolds
<1> QED BY <1>1, <1>2, PTL DEF Spec

\* A verdict on the bytes a file has is a verdict from those bytes
\* (indexer.go:199), for any number of files, writes, outages and restarts,
\* when every write brings bytes of its own.  Of two writes of the same bytes
\* the first one's blob is dropped under a batch that holds its row, and what
\* is recorded then is on bytes the file still has: Indexer.cfg says how TLC
\* shows it.
THEOREM VerdictsAreFromTheBytes ==
  ASSUME SameBytes = FALSE PROVE Spec => []VerdictIsFromTheBytes
BY IndexerInvariant, LastWordsAreOnOthersBytes, PTL
=============================================================================
