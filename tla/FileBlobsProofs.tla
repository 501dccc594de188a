-------------------------- MODULE FileBlobsProofs --------------------------
(***************************************************************************)
(* Proofs about FileBlobs for every number of paths, keys, requests and    *)
(* deletions, and for every grace period that covers what it has to.       *)
(***************************************************************************)
EXTENDS FileBlobs, TLAPS

\* The row a path gets from the rows a transaction writes is one of them.
LEMMA ReplacedRow ==
  ASSUME NEW rows \in SUBSET (Paths \X Keys), NEW gone, NEW p \in Paths
  PROVE  \/ \E h \in rows : h[1] = p /\ Replaced(rows, gone)[p] = h[2]
         \/ /\ \A h \in rows : h[1] # p
            /\ Replaced(rows, gone)[p] = IF p \in gone THEN NoKey ELSE files[p]
<1>1. CASE \E h \in rows : h[1] = p
  <2> DEFINE c == CHOOSE h \in rows : h[1] = p
  <2>1. c \in rows /\ c[1] = p
    BY <1>1
  <2>2. Replaced(rows, gone)[p] = c[2]
    BY <1>1 DEF Replaced
  <2> QED BY <2>1, <2>2
<1>2. CASE \A h \in rows : h[1] # p
  BY <1>2 DEF Replaced
<1> QED BY <1>1, <1>2

LEMMA ReplacedType ==
  ASSUME TypeOK, NEW rows \in SUBSET (Paths \X Keys), NEW gone
  PROVE  Replaced(rows, gone) \in [Paths -> Keys \cup {NoKey}]
<1>1. \A p \in Paths : Replaced(rows, gone)[p] \in Keys \cup {NoKey}
  <2> TAKE p \in Paths
  <2>1. CASE \E h \in rows : h[1] = p /\ Replaced(rows, gone)[p] = h[2]
    BY <2>1
  <2>2. CASE Replaced(rows, gone)[p] = IF p \in gone THEN NoKey ELSE files[p]
    BY <2>2 DEF TypeOK
  <2> QED BY <2>1, <2>2, ReplacedRow
<1> QED BY <1>1 DEF Replaced

\* What a restore writes at a path: one of the rows of the deletion, or what
\* was there.
Landed(rows, to) ==
  [p \in Paths |-> IF \E t \in rows : to[t] = p THEN (CHOOSE t \in rows : to[t] = p).key
                   ELSE files[p]]

LEMMA LandedRow ==
  ASSUME NEW rows, NEW to, NEW p \in Paths
  PROVE  \/ \E t \in rows : to[t] = p /\ Landed(rows, to)[p] = t.key
         \/ (\A t \in rows : to[t] # p) /\ Landed(rows, to)[p] = files[p]
<1>1. CASE \E t \in rows : to[t] = p
  <2> DEFINE c == CHOOSE t \in rows : to[t] = p
  <2>1. c \in rows /\ to[c] = p
    BY <1>1
  <2>2. Landed(rows, to)[p] = c.key
    BY <1>1 DEF Landed
  <2> QED BY <2>1, <2>2
<1>2. CASE \A t \in rows : to[t] # p
  BY <1>2 DEF Landed
<1> QED BY <1>1, <1>2

LEMMA LandedType ==
  ASSUME TypeOK, NEW rows \in SUBSET trash, NEW to
  PROVE  Landed(rows, to) \in [Paths -> Keys \cup {NoKey}]
<1>1. \A p \in Paths : Landed(rows, to)[p] \in Keys \cup {NoKey}
  <2> TAKE p \in Paths
  <2>1. CASE \E t \in rows : to[t] = p /\ Landed(rows, to)[p] = t.key
    BY <2>1 DEF TypeOK, TrashRow
  <2>2. CASE Landed(rows, to)[p] = files[p]
    BY <2>2 DEF TypeOK
  <2> QED BY <2>1, <2>2, LandedRow
<1> QED BY <1>1 DEF Landed

LEMMA MinNat ==
  ASSUME NEW a \in Nat, NEW b \in Nat
  PROVE  Min(a, b) \in 0..b /\ Min(a, b) <= a
BY DEF Min
-----------------------------------------------------------------------------
(* Type correctness.                                                       *)

LEMMA InitType == Init => TypeOK
BY TimeAssumption, ForeignAssumption DEF Init, TypeOK

LEMMA FinishType ==
  ASSUME TypeOK, NEW r \in Procs, NEW ks \in SUBSET Keys, NEW how \in {"undo", "drop"},
         Finish(r, ks, how)
  PROVE  /\ pc' \in [Procs -> {"idle", "write", "copy", "undo", "drop"}]
         /\ want' \in [Procs -> SUBSET Paths]
         /\ held' \in [Procs -> SUBSET (Paths \X Keys)]
         /\ doomed' \in [Procs -> SUBSET Keys]
         /\ lag' \in [Procs -> 0..MaxLag]
BY TimeAssumption DEF TypeOK, Finish

LEMMA HeldByType ==
  ASSUME TypeOK, NEW r \in Procs
  PROVE  held[r] \in SUBSET (Paths \X Keys) /\ HeldBy(r) \in SUBSET Keys
BY DEF TypeOK, HeldBy

LEMMA SupersededType ==
  ASSUME TypeOK, NEW r \in Procs, NEW gone \in SUBSET Paths
  PROVE  Superseded(held[r], gone) \in SUBSET Keys
BY HeldByType DEF TypeOK, Superseded

LEMMA RequestType ==
  ASSUME TypeOK, NEW r \in Procs, Request(r)
  PROVE  TypeOK'
<1> USE TimeAssumption
<1>1. ASSUME NEW p \in Paths, WriteBlob(r, p) PROVE TypeOK'
  BY <1>1 DEF WriteBlob, Put, TypeOK, loopVars
<1>2. ASSUME NEW p \in Paths, NEW idle \in 0..MaxIdle, CompleteUpload(r, p, idle) PROVE TypeOK'
  <2>1. Min(idle, Grace) \in 0..Grace
    BY MinNat
  <2> QED BY <1>2, <2>1 DEF CompleteUpload, TypeOK, loopVars, Fresh
<1>3. ASSUME NEW ps \in SUBSET Paths, PlanCopy(r, ps) PROVE TypeOK'
  BY <1>3 DEF PlanCopy, TypeOK, loopVars
<1>4. ASSUME NEW p \in Paths, CopyBlob(r, p) PROVE TypeOK'
  BY <1>4 DEF CopyBlob, Put, TypeOK, loopVars
<1>5. CASE CommitWrite(r)
  <2>1. files' \in [Paths -> Keys \cup {NoKey}]
    BY <1>5, HeldByType, ReplacedType DEF CommitWrite
  <2>2. Superseded(held[r], {}) \in SUBSET Keys
    BY SupersededType
  <2> QED BY <1>5, <2>1, <2>2, FinishType DEF CommitWrite, TypeOK, loopVars
<1>6. ASSUME NEW gone \in SUBSET Paths, CommitCopy(r, gone) PROVE TypeOK'
  <2>1. files' \in [Paths -> Keys \cup {NoKey}]
    BY <1>6, HeldByType, ReplacedType DEF CommitCopy
  <2>2. Superseded(held[r], gone) \in SUBSET Keys
    BY SupersededType
  <2> QED BY <1>6, <2>1, <2>2, FinishType DEF CommitCopy, TypeOK, loopVars
<1>7. CASE CommitFails(r)
  <2>1. files' \in [Paths -> Keys \cup {NoKey}]
    <3>1. CASE files' = files
      BY <3>1 DEF TypeOK
    <3>2. CASE \E gone \in IF pc[r] = "copy" THEN SUBSET Paths ELSE {{}} :
                 files' = Replaced(held[r], gone)
      BY <3>2, HeldByType, ReplacedType
    <3> QED BY <1>7, <3>1, <3>2 DEF CommitFails
  <2>2. HeldBy(r) \in SUBSET Keys
    BY HeldByType
  <2> QED BY <1>7, <2>1, <2>2, FinishType DEF CommitFails, TypeOK, loopVars
<1>8. ASSUME NEW k \in Keys, Undo(r, k) \/ Drop(r, k) PROVE TypeOK'
  <2>1. doomed[r] \ {k} \in SUBSET Keys
    BY DEF TypeOK
  <2> QED BY <1>8, <2>1, FinishType DEF Undo, Drop, Delete, TypeOK, loopVars
<1>9. CASE DropFails(r)
  BY <1>9, FinishType DEF DropFails, TypeOK, loopVars
<1>10. ASSUME NEW b \in Batches, DestroyTrashed(r, b) PROVE TypeOK'
  <2>1. {t.key : t \in TrashedIn(b)} \in SUBSET Keys
    BY DEF TypeOK, TrashedIn, TrashRow
  <2> QED BY <1>10, <2>1, FinishType DEF DestroyTrashed, TypeOK, loopVars
<1> QED BY <1>1, <1>2, <1>3, <1>4, <1>5, <1>6, <1>7, <1>8, <1>9, <1>10 DEF Request

LEMMA RowsType ==
  ASSUME TypeOK, Rows
  PROVE  TypeOK'
<1>1. ASSUME NEW p \in Paths, NEW q \in Paths, Move(p, q) PROVE TypeOK'
  BY <1>1 DEF Move, TypeOK, reqVars, loopVars
<1>2. ASSUME NEW ps \in (SUBSET Paths) \ {{}}, Remove(ps) PROVE TypeOK'
  <2>1. PICK b \in FreshBatch : trash' = trash \cup
         {[batch |-> b, owned |-> TRUE, path |-> p, key |-> files[p], age |-> 0] : p \in ps}
    BY <1>2 DEF Remove
  <2>2. \A p \in ps : files[p] \in Keys
    BY <1>2 DEF Remove, TypeOK
  <2>3. trash' \subseteq TrashRow
    <3>1. ASSUME NEW p \in ps
          PROVE  [batch |-> b, owned |-> TRUE, path |-> p, key |-> files[p], age |-> 0]
                   \in TrashRow
      BY <2>2, TimeAssumption DEF TrashRow, FreshBatch
    <3> QED BY <2>1, <3>1 DEF TypeOK
  <2>4. files' \in [Paths -> Keys \cup {NoKey}]
    BY <1>2 DEF Remove, TypeOK
  <2> QED BY <1>2, <2>3, <2>4 DEF Remove, TypeOK, reqVars, loopVars
<1>3. ASSUME NEW b \in Batches, Restore(b) PROVE TypeOK'
  <2> DEFINE rows == {t \in TrashedIn(b) : t.owned}
  <2>1. rows \in SUBSET trash
    BY DEF TrashedIn
  <2>2. PICK to \in Landings(rows) : files' = Landed(rows, to)
    BY <1>3 DEF Restore, Landed
  <2>3. files' \in [Paths -> Keys \cup {NoKey}]
    BY <2>1, <2>2, LandedType
  <2>4. trash' \subseteq TrashRow
    BY <1>3 DEF Restore, TypeOK
  <2> QED BY <1>3, <2>3, <2>4 DEF Restore, TypeOK, reqVars, loopVars
<1>4. ASSUME NEW p \in Paths, NEW k \in Keys, Adopt(p, k) PROVE TypeOK'
  BY <1>4 DEF Adopt, TypeOK, reqVars, loopVars
<1> QED BY <1>1, <1>2, <1>3, <1>4 DEF Rows

LEMMA KeysType ==
  ASSUME TypeOK
  PROVE  Live \subseteq Keys /\ Deleted \subseteq Keys /\ Unaccounted \subseteq Keys
BY DEF TypeOK, Live, Deleted, Unaccounted, TrashRow

LEMMA CollectorType ==
  ASSUME TypeOK, Collector
  PROVE  TypeOK'
<1> USE TimeAssumption
<1>1. CASE ListExpired
  BY <1>1 DEF ListExpired, TypeOK, reqVars, TrashRow
<1>2. ASSUME NEW b \in Batches, EmptyBatch(b) PROVE TypeOK'
  BY <1>2 DEF EmptyBatch, TypeOK, reqVars, TrashedIn, TrashRow
<1>3. ASSUME NEW k \in Keys, EmptyDrop(k) PROVE TypeOK'
  BY <1>3 DEF EmptyDrop, Delete, TypeOK, reqVars
<1>4. CASE EmptyFails
  BY <1>4 DEF EmptyFails, TypeOK, reqVars
<1>5. CASE ReadBlobKeys
  BY <1>5, KeysType DEF ReadBlobKeys, TypeOK, reqVars
<1>6. CASE ReadTrashKeys
  BY <1>6, KeysType DEF ReadTrashKeys, TypeOK, reqVars
<1>7. CASE ListStore
  BY <1>7 DEF ListStore, TypeOK, reqVars
<1>8. CASE CollectFails
  BY <1>8 DEF CollectFails, TypeOK, reqVars
<1>9. ASSUME NEW ks \in SUBSET orphans, TrashSome(ks) PROVE TypeOK'
  <2>1. trash' \subseteq TrashRow
    <3>1. ASSUME NEW b \in FreshBatch, NEW k \in ks
          PROVE  [batch |-> b, owned |-> FALSE, path |-> NoPath, key |-> k, age |-> 0]
                   \in TrashRow
      BY DEF TypeOK, TrashRow, FreshBatch
    <3> QED BY <1>9, <3>1 DEF TrashSome, TypeOK
  <2> QED BY <1>9, <2>1 DEF TrashSome, TypeOK, reqVars
<1> QED BY <1>1, <1>2, <1>3, <1>4, <1>5, <1>6, <1>7, <1>8, <1>9
     DEF Collector, TrashOrphans, TrashFails

LEMMA TickType ==
  ASSUME TypeOK, Tick
  PROVE  TypeOK'
<1> USE TimeAssumption
<1>1. trash' \subseteq TrashRow
  <2>1. ASSUME NEW t \in trash
        PROVE  [t EXCEPT !.age = Min(t.age + 1, Retention)] \in TrashRow
    <3>1. t \in TrashRow
      BY DEF TypeOK
    <3>2. t.age \in Nat
      BY <3>1 DEF TrashRow
    <3>3. Min(t.age + 1, Retention) \in 0..Retention
      BY <3>2, MinNat
    <3> QED BY <3>1, <3>3 DEF TrashRow
  <2> QED BY <2>1 DEF Tick
<1>2. age' \in [Keys -> 0..Grace]
  <2>1. ASSUME NEW k \in Keys PROVE Min(age[k] + 1, Grace) \in 0..Grace
    <3>1. age[k] \in Nat
      BY DEF TypeOK
    <3> QED BY <3>1, MinNat
  <2> QED BY <2>1 DEF Tick, TypeOK
<1>3. lag' \in [Procs -> 0..MaxLag] /\ reading' \in 0..MaxRead
  BY DEF Tick, TypeOK
<1> QED BY <1>1, <1>2, <1>3 DEF Tick, TypeOK

LEMMA CrashType ==
  ASSUME TypeOK, Crash
  PROVE  TypeOK'
BY TimeAssumption DEF Crash, TypeOK

LEMMA NextType ==
  ASSUME TypeOK, [Next]_vars
  PROVE  TypeOK'
<1>1. CASE UNCHANGED vars
  BY <1>1 DEF TypeOK, vars, reqVars, loopVars
<1> QED BY <1>1, RequestType, RowsType, CollectorType, TickType, CrashType DEF Next

\* Every reachable state is well formed, whatever the environment does.
THEOREM TypeCorrect == Spec => []TypeOK
BY InitType, NextType, PTL DEF Spec
-----------------------------------------------------------------------------
(* Nothing of the user's is lost.  The invariant splits the blobs that are *)
(* named somewhere into those a user can still reach or will reach when    *)
(* his request commits, and those somebody is on the way to delete; the    *)
(* two never meet.  What keeps the sweep from crossing the line is time: a *)
(* row it has not read belongs to a blob too young to be an orphan.        *)

Claimed   == Live \cup Deleted \cup InFlight
Condemned == Unaccounted \cup Doomed \cup emptying \cup orphans

Present == Claimed \subseteq stored
Apart   == Claimed \cap Condemned = {}

InFlightOnce ==
  /\ InFlight \cap (Live \cup Deleted) = {}
  /\ \A r, s \in Procs : \A h \in held[r], g \in held[s] :
       h[2] = g[2] => r = s /\ h = g

HeldYoung == \A r \in Procs : \A h \in held[r] : age[h[2]] <= lag[r] + MaxIdle

\* What the sweep has not read is too young for it.
TooYoung(k) == age[k] <= reading + MaxLag + MaxIdle

SweepCovers ==
  /\ loop = "trashkeys" => \A k \in Live : k \in refs \/ TooYoung(k)
  /\ loop = "list" => \A k \in Live \cup Deleted : k \in refs \/ TooYoung(k)

\* Who does nothing holds nothing.
AtRest ==
  /\ \A r \in Procs : pc[r] = "idle" => held[r] = {} /\ doomed[r] = {}
  /\ loop # "empty" => emptying = {}
  /\ loop # "trash" => orphans = {}

IndInv ==
  /\ TypeOK
  /\ Present
  /\ Apart
  /\ OneRowPerBlob
  /\ InFlightOnce
  /\ HeldYoung
  /\ SweepCovers
  /\ AtRest

LEMMA InitInd == Init => IndInv
<1> SUFFICES ASSUME Init PROVE IndInv
  OBVIOUS
<1>1. TypeOK
  BY InitType
<1>2. Live = {} /\ Deleted = {} /\ Unaccounted = {} /\ InFlight = {}
  BY DEF Init, Live, Deleted, Unaccounted, InFlight, HeldBy
<1>3. Present /\ Apart
  BY <1>2 DEF Present, Apart, Claimed
<1>4. OneRowPerBlob
  BY <1>2 DEF Init, OneRowPerBlob
<1>5. InFlightOnce /\ HeldYoung /\ SweepCovers /\ AtRest
  BY <1>2 DEF Init, InFlightOnce, HeldYoung, SweepCovers, AtRest
<1> QED BY <1>1, <1>3, <1>4, <1>5 DEF IndInv

\* A request stores a blob under a fresh key and holds its row.
LEMMA HoldFresh ==
  ASSUME IndInv, TypeOK',
         NEW r \in Procs, NEW path \in Paths, NEW k \in Fresh, NEW a \in 0..MaxIdle,
         stored' = stored \cup {k},
         age'[k] = a, \A x \in Keys : x # k => age'[x] = age[x],
         held'[r] \subseteq held[r] \cup {<<path, k>>},
         \A s \in Procs : s # r => held'[s] = held[s] /\ pc'[s] = pc[s],
         pc'[r] # "idle",
         UNCHANGED <<files, trash, doomed, lag, loopVars>>
  PROVE  IndInv'
<1> USE TimeAssumption
<1>1. /\ k \in Keys /\ k \notin Live /\ k \notin Deleted /\ k \notin InFlight
      /\ k \notin Unaccounted /\ k \notin Doomed /\ k \notin emptying /\ k \notin orphans
  BY DEF Fresh
<1>2. Live' = Live /\ Deleted' = Deleted /\ Unaccounted' = Unaccounted /\ Doomed' = Doomed
  BY DEF Live, Deleted, Unaccounted, Doomed
<1>3. \A s \in Procs : \A h \in held'[s] : h \in held[s] \/ (s = r /\ h = <<path, k>>)
  OBVIOUS
<1>4. InFlight' \subseteq InFlight \cup {k}
  BY <1>3 DEF InFlight, HeldBy
<1>5. \A s \in Procs : \A h \in held[s] : h[2] \in InFlight /\ h[2] \in Keys /\ h[2] # k
  BY <1>1 DEF InFlight, HeldBy, IndInv, TypeOK
<1>6. Present' /\ Apart'
  BY <1>1, <1>2, <1>4 DEF IndInv, Present, Apart, Claimed, Condemned, loopVars
<1>7. OneRowPerBlob'
  BY <1>2 DEF IndInv, OneRowPerBlob
<1>8. InFlightOnce'
  <2>1. (InFlight \cap (Live \cup Deleted) = {})'
    BY <1>1, <1>2, <1>4 DEF IndInv, InFlightOnce
  <2>2. ASSUME NEW s \in Procs, NEW u \in Procs, NEW h \in held'[s], NEW g \in held'[u],
               h[2] = g[2]
        PROVE  s = u /\ h = g
    BY <1>3, <1>5, <2>2 DEF IndInv, InFlightOnce
  <2> QED BY <2>1, <2>2 DEF InFlightOnce
<1>9. HeldYoung'
  <2> SUFFICES ASSUME NEW s \in Procs, NEW h \in held'[s]
               PROVE  age'[h[2]] <= lag[s] + MaxIdle
    BY DEF HeldYoung
  <2>1. CASE h \in held[s]
    BY <2>1, <1>5 DEF IndInv, HeldYoung
  <2>2. CASE s = r /\ h = <<path, k>>
    <3>1. lag[s] \in Nat
      BY DEF IndInv, TypeOK
    <3> QED BY <2>2, <3>1
  <2> QED BY <1>3, <2>1, <2>2
<1>10. SweepCovers'
  <2>1. \A x \in Live \cup Deleted : age'[x] = age[x]
    BY <1>1, KeysType DEF IndInv
  <2> QED BY <1>2, <2>1 DEF IndInv, SweepCovers, TooYoung, loopVars
<1>11. AtRest'
  BY DEF IndInv, AtRest, loopVars
<1> QED BY <1>6, <1>7, <1>8, <1>9, <1>10, <1>11 DEF IndInv

\* A transaction gives the held rows to the tree; what they displace is
\* about to be dropped.
LEMMA CommitRows ==
  ASSUME IndInv, TypeOK', NEW r \in Procs, NEW gone \in SUBSET Paths,
         files' = Replaced(held[r], gone),
         Finish(r, Superseded(held[r], gone), "drop"),
         UNCHANGED <<trash, stored, age, loopVars>>
  PROVE  IndInv'
<1> USE TimeAssumption, NullAssumption
<1> DEFINE rows == held[r]
<1>1. rows \in SUBSET (Paths \X Keys)
  BY DEF IndInv, TypeOK
<1>2. \A p \in Paths :
        \/ \E h \in rows : h[1] = p /\ files'[p] = h[2]
        \/ /\ p \notin gone /\ \A h \in rows : h[1] # p
           /\ files'[p] = files[p]
        \/ files'[p] = NoKey
  <2> TAKE p \in Paths
  <2>1. \/ \E h \in rows : h[1] = p /\ Replaced(rows, gone)[p] = h[2]
        \/ /\ \A h \in rows : h[1] # p
           /\ Replaced(rows, gone)[p] = IF p \in gone THEN NoKey ELSE files[p]
    BY <1>1, ReplacedRow
  <2> QED BY <2>1
<1>3. /\ held'[r] = {} /\ \A s \in Procs : s # r => held'[s] = held[s]
      /\ doomed'[r] = Superseded(rows, gone)
      /\ \A s \in Procs : s # r => doomed'[s] = doomed[s] /\ pc'[s] = pc[s]
      /\ \A s \in Procs : s # r => lag'[s] = lag[s]
      /\ pc'[r] = "idle" => doomed'[r] = {}
  BY DEF IndInv, TypeOK, Finish
<1>4. Deleted' = Deleted /\ Unaccounted' = Unaccounted
  BY DEF Deleted, Unaccounted
<1>5. Live' \subseteq Live \cup HeldBy(r)
  BY <1>2 DEF Live, HeldBy
<1>6. InFlight' \subseteq InFlight /\ InFlight' \cap HeldBy(r) = {}
  <2>1. InFlight' \subseteq InFlight
    BY <1>3 DEF InFlight, HeldBy
  <2>2. ASSUME NEW s \in Procs, NEW h \in held'[s], NEW g \in held[r], h[2] = g[2] PROVE FALSE
    BY <1>3, <2>2 DEF IndInv, InFlightOnce
  <2> QED BY <2>1, <2>2 DEF InFlight, HeldBy
<1>7. HeldBy(r) \subseteq InFlight
  BY DEF InFlight
<1>8. Superseded(rows, gone) \subseteq Live
  BY <1>1 DEF Superseded, Live
<1>9. Superseded(rows, gone) \cap Live' = {}
  <2> SUFFICES ASSUME NEW p \in Paths, NEW q \in Paths, files'[p] = files[q], files[q] # NoKey,
                      q \in gone \cup {h[1] : h \in rows}
               PROVE  FALSE
    BY <1>1 DEF Superseded, Live
  <2>1. files[q] \in Live
    BY DEF Live
  <2>2. CASE \E h \in rows : h[1] = p /\ files'[p] = h[2]
    BY <2>1, <2>2, <1>7 DEF HeldBy, IndInv, InFlightOnce
  <2>3. CASE p \notin gone /\ (\A h \in rows : h[1] # p) /\ files'[p] = files[p]
    BY <2>3 DEF IndInv, OneRowPerBlob
  <2> QED BY <1>2, <2>2, <2>3
<1>10. Doomed' \subseteq Doomed \cup Superseded(rows, gone)
  BY <1>3 DEF Doomed
<1>11. Live \cap Deleted = {} /\ InFlight \cap (Live \cup Deleted) = {}
  BY DEF IndInv, OneRowPerBlob, InFlightOnce
<1>12. Present'
  BY <1>4, <1>5, <1>6, <1>7 DEF IndInv, Present, Claimed
<1>13. Apart'
  <2>1. Claimed' \subseteq Claimed
    BY <1>4, <1>5, <1>6, <1>7 DEF Claimed
  <2>2. Claimed' \cap Superseded(rows, gone) = {}
    BY <1>4, <1>6, <1>8, <1>9, <1>11 DEF Claimed
  <2> QED BY <1>4, <1>10, <2>1, <2>2 DEF IndInv, Apart, Condemned, loopVars
<1>14. OneRowPerBlob'
  <2>1. ASSUME NEW p \in Paths, NEW q \in Paths, files'[p] = files'[q], files'[p] # NoKey
        PROVE  p = q
    <3>1. ASSUME NEW x \in Paths, NEW y \in Paths, files'[x] = files'[y], files'[x] # NoKey,
                 NEW h \in rows, h[1] = x, files'[x] = h[2], files'[y] = files[y]
          PROVE  FALSE
      <4>1. files[y] \in Live
        BY <3>1 DEF Live
      <4> QED BY <3>1, <4>1, <1>7, <1>11 DEF HeldBy
    <3>2. CASE /\ \E h \in rows : h[1] = p /\ files'[p] = h[2]
               /\ \E g \in rows : g[1] = q /\ files'[q] = g[2]
      BY <2>1, <3>2 DEF IndInv, InFlightOnce
    <3>3. CASE files'[p] = files[p] /\ files'[q] = files[q]
      BY <2>1, <3>3 DEF IndInv, OneRowPerBlob
    <3> QED BY <1>2, <2>1, <3>1, <3>2, <3>3
  <2>2. (Live \cap Deleted = {})'
    BY <1>4, <1>5, <1>7, <1>11
  <2> QED BY <2>1, <2>2 DEF IndInv, OneRowPerBlob
<1>15. InFlightOnce'
  <2>1. (InFlight \cap (Live \cup Deleted) = {})'
    BY <1>4, <1>5, <1>6, <1>11
  <2>2. \A s \in Procs : held'[s] \subseteq held[s]
    BY <1>3
  <2> QED BY <2>1, <2>2 DEF IndInv, InFlightOnce
<1>16. HeldYoung'
  BY <1>3 DEF IndInv, HeldYoung
<1>17. SweepCovers'
  <2>1. \A k \in HeldBy(r) : TooYoung(k)
    <3> SUFFICES ASSUME NEW h \in rows PROVE TooYoung(h[2])
      BY DEF HeldBy
    <3>1. age[h[2]] <= lag[r] + MaxIdle /\ age[h[2]] \in Nat /\ lag[r] \in 0..MaxLag
      BY <1>1 DEF IndInv, TypeOK, HeldYoung
    <3>2. reading \in Nat
      BY DEF IndInv, TypeOK
    <3> QED BY <3>1, <3>2 DEF TooYoung
  <2>2. \A k \in HeldBy(r) : TooYoung(k)'
    BY <2>1 DEF TooYoung, loopVars
  <2>3. \A k \in Keys : TooYoung(k)' <=> TooYoung(k)
    BY DEF TooYoung, loopVars
  <2> QED BY <1>4, <1>5, <2>2, <2>3, KeysType DEF IndInv, SweepCovers, loopVars
<1>18. AtRest'
  BY <1>3 DEF IndInv, AtRest, loopVars
<1> QED BY <1>12, <1>13, <1>14, <1>15, <1>16, <1>17, <1>18 DEF IndInv

\* A request gives up what it held or was about to delete, or deletes it.
LEMMA RequestEnds ==
  ASSUME IndInv, TypeOK', NEW r \in Procs, NEW how \in {"undo", "drop"},
         NEW ks \in SUBSET (doomed[r] \cup HeldBy(r)), NEW dead \in SUBSET doomed[r],
         Finish(r, ks, how),
         stored' = stored \ dead, \A x \in Keys \ dead : age'[x] = age[x],
         UNCHANGED <<files, trash, loopVars>>
  PROVE  IndInv'
<1> USE TimeAssumption
<1>1. /\ held'[r] = {} /\ \A s \in Procs : s # r => held'[s] = held[s]
      /\ doomed'[r] = ks /\ \A s \in Procs : s # r => doomed'[s] = doomed[s]
      /\ \A s \in Procs : s # r => lag'[s] = lag[s] /\ pc'[s] = pc[s]
      /\ pc'[r] = "idle" => doomed'[r] = {}
  BY DEF IndInv, TypeOK, Finish
<1>2. Live' = Live /\ Deleted' = Deleted /\ Unaccounted' = Unaccounted
  BY DEF Live, Deleted, Unaccounted
<1>3. InFlight' \subseteq InFlight /\ InFlight' \cap HeldBy(r) = {}
  <2>1. InFlight' \subseteq InFlight
    BY <1>1 DEF InFlight, HeldBy
  <2>2. ASSUME NEW s \in Procs, NEW h \in held'[s], NEW g \in held[r], h[2] = g[2] PROVE FALSE
    BY <1>1, <2>2 DEF IndInv, InFlightOnce
  <2> QED BY <2>1, <2>2 DEF InFlight, HeldBy
<1>4. HeldBy(r) \subseteq InFlight /\ dead \subseteq Doomed
  BY DEF InFlight, Doomed
<1>5. Doomed' \subseteq Doomed \cup HeldBy(r)
  BY <1>1 DEF Doomed
<1>6. InFlight \cap (Live \cup Deleted) = {} /\ Claimed \cap Doomed = {}
  BY DEF IndInv, InFlightOnce, Apart, Condemned
<1>7. Claimed' \subseteq Claimed /\ Claimed' \cap HeldBy(r) = {}
  BY <1>2, <1>3, <1>4, <1>6 DEF Claimed
<1>8. Present'
  BY <1>4, <1>6, <1>7 DEF IndInv, Present
<1>9. Apart'
  BY <1>2, <1>5, <1>7 DEF IndInv, Apart, Condemned, loopVars
<1>10. OneRowPerBlob'
  BY <1>2 DEF IndInv, OneRowPerBlob
<1>11. \A s \in Procs : held'[s] \subseteq held[s]
  BY <1>1
<1>12. InFlightOnce'
  BY <1>2, <1>3, <1>11 DEF IndInv, InFlightOnce
<1>13. \A x \in Claimed : x \in Keys /\ age'[x] = age[x]
  <2>1. Claimed \subseteq Keys
    BY DEF IndInv, TypeOK, Present
  <2> QED BY <2>1, <1>4, <1>6
<1>14. HeldYoung'
  <2> SUFFICES ASSUME NEW s \in Procs, NEW h \in held'[s]
               PROVE  age'[h[2]] <= lag'[s] + MaxIdle
    BY DEF HeldYoung
  <2>1. s # r /\ h \in held[s] /\ lag'[s] = lag[s]
    BY <1>1
  <2>2. h[2] \in Claimed
    BY <2>1 DEF Claimed, InFlight, HeldBy
  <2> QED BY <2>1, <2>2, <1>13 DEF IndInv, HeldYoung
<1>15. SweepCovers'
  <2>1. \A x \in Live \cup Deleted : TooYoung(x)' <=> TooYoung(x)
    BY <1>13 DEF Claimed, TooYoung, loopVars
  <2> QED BY <1>2, <2>1 DEF IndInv, SweepCovers, loopVars
<1>16. AtRest'
  BY <1>1 DEF IndInv, AtRest, loopVars
<1> QED BY <1>8, <1>9, <1>10, <1>12, <1>14, <1>15, <1>16 DEF IndInv

\* Destroying a deletion: its blobs lose the only row that claimed them.
LEMMA DestroyedKeys ==
  ASSUME IndInv, NEW b \in Batches, trash' = trash \ TrashedIn(b)
  PROVE  LET ks == {t.key : t \in TrashedIn(b)}
         IN /\ Deleted' \subseteq Deleted /\ Unaccounted' \subseteq Unaccounted
            /\ ks \subseteq Deleted \cup Unaccounted
            /\ Deleted' \cap ks = {}
<1> DEFINE ks == {t.key : t \in TrashedIn(b)}
<1>1. TrashedIn(b) \subseteq trash
  BY DEF TrashedIn
<1>2. Deleted' \subseteq Deleted /\ Unaccounted' \subseteq Unaccounted
  BY DEF Deleted, Unaccounted
<1>3. ks \subseteq Deleted \cup Unaccounted
  BY <1>1 DEF Deleted, Unaccounted
<1>4. ASSUME NEW t \in trash', t.owned, NEW u \in TrashedIn(b), t.key = u.key PROVE FALSE
  <2>1. t \in trash /\ t \notin TrashedIn(b) /\ u \in trash
    BY <1>1, <1>4
  <2>2. CASE u.owned
    BY <2>1, <2>2, <1>4 DEF IndInv, OneRowPerBlob
  <2>3. CASE ~u.owned
    <3>1. t.key \in Deleted /\ u.key \in Unaccounted
      BY <2>1, <2>3, <1>4 DEF Deleted, Unaccounted
    <3> QED BY <3>1, <1>4 DEF IndInv, Apart, Claimed, Condemned
  <2> QED BY <2>2, <2>3
<1>5. Deleted' \cap ks = {}
  BY <1>4 DEF Deleted
<1> QED BY <1>2, <1>3, <1>5

LEMMA RequestInd ==
  ASSUME IndInv, TypeOK', Prudent, NEW r \in Procs, Request(r)
  PROVE  IndInv'
<1> USE TimeAssumption
<1>0. TypeOK
  BY DEF IndInv
<1>1. ASSUME NEW p \in Paths, WriteBlob(r, p) PROVE IndInv'
  <2>1. PICK k \in Keys : Put(r, p, k)
    BY <1>1 DEF WriteBlob
  <2>2. /\ k \in Fresh /\ 0 \in 0..MaxIdle
        /\ stored' = stored \cup {k} /\ age'[k] = 0
        /\ \A x \in Keys : x # k => age'[x] = age[x]
        /\ held'[r] \subseteq held[r] \cup {<<p, k>>}
        /\ \A s \in Procs : s # r => held'[s] = held[s] /\ pc'[s] = pc[s]
        /\ pc'[r] # "idle"
    BY <1>0, <1>1, <2>1 DEF WriteBlob, Put, TypeOK
  <2>3. UNCHANGED <<files, trash, doomed, lag, loopVars>>
    BY <1>1 DEF WriteBlob
  <2> QED BY <2>2, <2>3, HoldFresh
<1>2. ASSUME NEW p \in Paths, NEW idle \in 0..MaxIdle, CompleteUpload(r, p, idle) PROVE IndInv'
  <2>1. PICK k \in Fresh : /\ stored' = stored \cup {k}
                           /\ age' = [age EXCEPT ![k] = Min(idle, Grace)]
                           /\ held' = [held EXCEPT ![r] = {<<p, k>>}]
    BY <1>2 DEF CompleteUpload
  <2>2. Min(idle, Grace) \in 0..MaxIdle
    BY DEF Min
  <2>3. /\ age'[k] = Min(idle, Grace)
        /\ \A x \in Keys : x # k => age'[x] = age[x]
        /\ held'[r] \subseteq held[r] \cup {<<p, k>>}
        /\ \A s \in Procs : s # r => held'[s] = held[s] /\ pc'[s] = pc[s]
        /\ pc'[r] # "idle"
    BY <1>0, <1>2, <2>1 DEF CompleteUpload, TypeOK, Fresh
  <2>4. UNCHANGED <<files, trash, doomed, lag, loopVars>>
    BY <1>2 DEF CompleteUpload
  <2> QED BY <2>1, <2>2, <2>3, <2>4, HoldFresh
<1>3. ASSUME NEW ps \in SUBSET Paths, PlanCopy(r, ps) PROVE IndInv'
  <2>1. AtRest'
    BY <1>0, <1>3 DEF PlanCopy, IndInv, AtRest, TypeOK, loopVars
  <2> QED BY <1>3, <2>1 DEF PlanCopy, IndInv, Present, Apart, Claimed, Condemned, OneRowPerBlob,
     InFlightOnce, HeldYoung, SweepCovers, TooYoung, loopVars, Live, Deleted, Unaccounted,
     InFlight, HeldBy, Doomed
<1>4. ASSUME NEW p \in Paths, CopyBlob(r, p) PROVE IndInv'
  <2>1. PICK k \in Keys : Put(r, p, k)
    BY <1>4 DEF CopyBlob
  <2>2. /\ k \in Fresh /\ 0 \in 0..MaxIdle
        /\ stored' = stored \cup {k} /\ age'[k] = 0
        /\ \A x \in Keys : x # k => age'[x] = age[x]
        /\ held'[r] \subseteq held[r] \cup {<<p, k>>}
        /\ \A s \in Procs : s # r => held'[s] = held[s] /\ pc'[s] = pc[s]
        /\ pc'[r] # "idle"
    BY <1>0, <1>4, <2>1 DEF CopyBlob, Put, TypeOK
  <2>3. UNCHANGED <<files, trash, doomed, lag, loopVars>>
    BY <1>4 DEF CopyBlob
  <2> QED BY <2>2, <2>3, HoldFresh
<1>5. CASE CommitWrite(r)
  BY <1>5, CommitRows DEF CommitWrite
<1>6. ASSUME NEW gone \in SUBSET Paths, CommitCopy(r, gone) PROVE IndInv'
  BY <1>6, CommitRows DEF CommitCopy
<1>7. CASE CommitFails(r)
  <2>1. files' = files
    BY <1>7 DEF CommitFails, Prudent
  <2>2. HeldBy(r) \in SUBSET (doomed[r] \cup HeldBy(r)) /\ {} \in SUBSET doomed[r]
    OBVIOUS
  <2>3. Finish(r, HeldBy(r), "undo") /\ UNCHANGED <<trash, stored, age, loopVars>>
    BY <1>7 DEF CommitFails
  <2>4. stored' = stored \ {} /\ \A x \in Keys \ {} : age'[x] = age[x]
    BY <2>3
  <2> QED BY <2>1, <2>2, <2>3, <2>4, RequestEnds
<1>8. ASSUME NEW k \in Keys, Undo(r, k) \/ Drop(r, k) PROVE IndInv'
  <2>1. k \in doomed[r] /\ UNCHANGED <<files, trash, loopVars>>
    BY <1>8 DEF Undo, Drop
  <2>2. PICK how \in {"undo", "drop"} : Finish(r, doomed[r] \ {k}, how)
    BY <1>8 DEF Undo, Drop
  <2>3. doomed[r] \ {k} \in SUBSET (doomed[r] \cup HeldBy(r))
    OBVIOUS
  <2>4. CASE Delete(k)
    <3>1. stored' = stored \ {k} /\ \A x \in Keys \ {k} : age'[x] = age[x]
      BY <1>0, <2>4 DEF Delete, TypeOK
    <3>2. {k} \in SUBSET doomed[r]
      BY <2>1
    <3> QED BY <2>1, <2>2, <2>3, <3>1, <3>2, RequestEnds
  <2>5. CASE UNCHANGED <<stored, age>>
    <3>1. stored' = stored \ {} /\ \A x \in Keys \ {} : age'[x] = age[x]
      BY <2>5
    <3>2. {} \in SUBSET doomed[r]
      OBVIOUS
    <3> QED BY <2>1, <2>2, <2>3, <3>1, <3>2, RequestEnds
  <2> QED BY <1>8, <2>4, <2>5 DEF Undo, Drop
<1>9. CASE DropFails(r)
  <2>1. Finish(r, {}, "drop") /\ UNCHANGED <<files, trash, stored, age, loopVars>>
    BY <1>9 DEF DropFails
  <2>2. stored' = stored \ {} /\ \A x \in Keys \ {} : age'[x] = age[x]
    BY <2>1
  <2>3. {} \in SUBSET (doomed[r] \cup HeldBy(r)) /\ {} \in SUBSET doomed[r]
    OBVIOUS
  <2> QED BY <2>1, <2>2, <2>3, RequestEnds
<1>10. ASSUME NEW b \in Batches, DestroyTrashed(r, b) PROVE IndInv'
  <2> DEFINE ks == {t.key : t \in TrashedIn(b)}
  <2>1. /\ trash' = trash \ TrashedIn(b) /\ Finish(r, ks, "drop")
        /\ UNCHANGED <<files, stored, age, loopVars>>
    BY <1>10 DEF DestroyTrashed
  <2>2. /\ Deleted' \subseteq Deleted /\ Unaccounted' \subseteq Unaccounted
        /\ ks \subseteq Deleted \cup Unaccounted /\ Deleted' \cap ks = {}
    BY <2>1, DestroyedKeys
  <2>3. /\ held'[r] = {} /\ doomed'[r] = ks
        /\ \A s \in Procs : s # r => /\ held'[s] = held[s] /\ doomed'[s] = doomed[s]
                                     /\ lag'[s] = lag[s] /\ pc'[s] = pc[s]
        /\ pc'[r] = "idle" => doomed'[r] = {}
    BY <1>0, <2>1 DEF TypeOK, Finish
  <2>4. Live' = Live /\ InFlight' \subseteq InFlight /\ Doomed' \subseteq Doomed \cup ks
    BY <2>1, <2>3 DEF Live, InFlight, HeldBy, Doomed
  <2>5. Claimed' \subseteq Claimed
    BY <2>2, <2>4 DEF Claimed
  <2>6. Claimed' \cap ks = {}
    <3>1. Live \cap Deleted = {} /\ InFlight \cap Deleted = {} /\ Claimed \cap Unaccounted = {}
      BY DEF IndInv, OneRowPerBlob, InFlightOnce, Apart, Condemned
    <3> QED BY <2>2, <2>4, <2>5, <3>1 DEF Claimed
  <2>7. Present'
    BY <2>1, <2>5 DEF IndInv, Present
  <2>8. Apart'
    BY <2>1, <2>2, <2>4, <2>5, <2>6 DEF IndInv, Apart, Condemned, loopVars
  <2>9. OneRowPerBlob'
    BY <2>1, <2>2, <2>4 DEF IndInv, OneRowPerBlob
  <2>10. \A s \in Procs : held'[s] \subseteq held[s]
    BY <2>3
  <2>11. InFlightOnce'
    BY <2>2, <2>4, <2>10 DEF IndInv, InFlightOnce
  <2>12. HeldYoung'
    BY <2>1, <2>3 DEF IndInv, HeldYoung
  <2>13. SweepCovers'
    BY <2>1, <2>2, <2>4 DEF IndInv, SweepCovers, TooYoung, loopVars
  <2>14. AtRest'
    BY <2>1, <2>3 DEF IndInv, AtRest, loopVars
  <2> QED BY <2>7, <2>8, <2>9, <2>11, <2>12, <2>13, <2>14 DEF IndInv
<1> QED BY <1>1, <1>2, <1>3, <1>4, <1>5, <1>6, <1>7, <1>8, <1>9, <1>10 DEF Request

\* A blob whose row goes from the tree to the trash or back is claimed before
\* and after; as long as the sweep still counts it, it stays covered.
LEMMA ClaimsMove ==
  ASSUME IndInv, TypeOK', OneRowPerBlob',
         Live' \cup Deleted' \subseteq Live \cup Deleted,
         Unaccounted' = Unaccounted,
         loop = "trashkeys" => Live' \subseteq Live,
         UNCHANGED <<stored, age, reqVars, loopVars>>
  PROVE  IndInv'
<1>1. InFlight' = InFlight /\ Doomed' = Doomed
  BY DEF InFlight, HeldBy, Doomed, reqVars
<1>2. Claimed' \subseteq Claimed /\ Condemned' = Condemned
  BY <1>1 DEF Claimed, Condemned, loopVars
<1>3. Present' /\ Apart'
  BY <1>2 DEF IndInv, Present, Apart
<1>4. InFlightOnce'
  BY <1>1 DEF IndInv, InFlightOnce, reqVars
<1>5. HeldYoung' /\ AtRest'
  BY DEF IndInv, HeldYoung, AtRest, reqVars, loopVars
<1>6. SweepCovers'
  BY DEF IndInv, SweepCovers, TooYoung, loopVars
<1> QED BY <1>3, <1>4, <1>5, <1>6 DEF IndInv

LEMMA MoveInd ==
  ASSUME IndInv, TypeOK', NEW p \in Paths, NEW q \in Paths, Move(p, q)
  PROVE  IndInv'
<1>1. \A x \in Paths : files'[x] = IF x = q THEN files[p] ELSE IF x = p THEN NoKey ELSE files[x]
  BY DEF Move, IndInv, TypeOK
<1>2. Live' \subseteq Live
  BY <1>1 DEF Live
<1>3. Deleted' = Deleted /\ Unaccounted' = Unaccounted
  BY DEF Move, Deleted, Unaccounted
<1>4. OneRowPerBlob'
  <2>1. ASSUME NEW x \in Paths, NEW y \in Paths, files'[x] = files'[y], files'[x] # NoKey
        PROVE  x = y
    BY <1>1, <2>1 DEF IndInv, OneRowPerBlob
  <2> QED BY <1>2, <1>3, <2>1 DEF Move, IndInv, OneRowPerBlob
<1> QED BY <1>2, <1>3, <1>4, ClaimsMove DEF Move

LEMMA RemoveInd ==
  ASSUME IndInv, TypeOK', NEW ps \in SUBSET Paths, Remove(ps)
  PROVE  IndInv'
<1> USE NullAssumption
<1>1. PICK b \in FreshBatch : trash' = trash \cup
        {[batch |-> b, owned |-> TRUE, path |-> p, key |-> files[p], age |-> 0] : p \in ps}
  BY DEF Remove
<1> DEFINE row(p) == [batch |-> b, owned |-> TRUE, path |-> p, key |-> files[p], age |-> 0]
<1>2. \A t \in trash' : t \in trash \/ \E p \in ps : t = row(p)
  BY <1>1
<1>3. \A p \in ps : /\ row(p).owned /\ row(p).key = files[p]
                    /\ files[p] \in Live /\ p \in Paths
  BY DEF Remove, Live
<1>4. Unaccounted' = Unaccounted
  <2>1. {u \in trash' : ~u.owned} = {u \in trash : ~u.owned}
    BY <1>1, <1>2, <1>3
  <2> QED BY <2>1 DEF Unaccounted
<1>5. \A k \in Deleted' : k \in Deleted \/ \E p \in ps : k = files[p]
  BY <1>2, <1>3 DEF Deleted
<1>6. \A x \in Paths : files'[x] = IF x \in ps THEN NoKey ELSE files[x]
  BY DEF Remove
<1>7. Live' \subseteq Live /\ \A p \in ps : files[p] \notin Live'
  <2>1. Live' \subseteq Live
    BY <1>6 DEF Live
  <2>2. ASSUME NEW p \in ps, NEW x \in Paths, files'[x] = files[p] PROVE FALSE
    <3>1. files[p] # NoKey
      BY DEF Remove
    <3>2. x \notin ps /\ files[x] = files[p]
      BY <1>6, <2>2, <3>1
    <3> QED BY <1>3, <3>1, <3>2 DEF IndInv, OneRowPerBlob
  <2> QED BY <2>1, <2>2 DEF Live
<1>8. Live \cap Deleted = {}
  BY DEF IndInv, OneRowPerBlob
<1>9. OneRowPerBlob'
  <2>1. ASSUME NEW x \in Paths, NEW y \in Paths, files'[x] = files'[y], files'[x] # NoKey
        PROVE  x = y
    BY <1>6, <2>1 DEF IndInv, OneRowPerBlob
  <2>2. ASSUME NEW t \in trash', NEW u \in trash', t.owned, u.owned, t.key = u.key
        PROVE  t = u
    <3>1. ASSUME NEW v \in trash, v.owned, NEW p \in ps, v.key = files[p] PROVE FALSE
      <4>1. v.key \in Deleted
        BY <3>1 DEF Deleted
      <4> QED BY <1>3, <1>8, <3>1, <4>1
    <3>2. CASE t \in trash /\ u \in trash
      BY <2>2, <3>2 DEF IndInv, OneRowPerBlob
    <3>3. CASE t \in trash /\ \E p \in ps : u = row(p)
      BY <2>2, <3>1, <3>3, <1>3
    <3>4. CASE u \in trash /\ \E p \in ps : t = row(p)
      BY <2>2, <3>1, <3>4, <1>3
    <3>5. ASSUME NEW p \in ps, NEW q \in ps, t = row(p), u = row(q) PROVE t = u
      <4>1. files[p] = files[q] /\ files[p] # NoKey
        BY <2>2, <3>5, <1>3 DEF Remove
      <4>2. p = q
        BY <4>1, <1>3 DEF IndInv, OneRowPerBlob
      <4> QED BY <4>2, <3>5
    <3> QED BY <1>2, <3>2, <3>3, <3>4, <3>5
  <2>3. (Live \cap Deleted = {})'
    BY <1>5, <1>7, <1>8
  <2> QED BY <2>1, <2>2, <2>3 DEF OneRowPerBlob
<1>10. Live' \cup Deleted' \subseteq Live \cup Deleted
  BY <1>3, <1>5, <1>7
<1> QED BY <1>4, <1>7, <1>9, <1>10, ClaimsMove DEF Remove

LEMMA RestoreInd ==
  ASSUME IndInv, TypeOK', Prudent, NEW b \in Batches, Restore(b)
  PROVE  IndInv'
<1> DEFINE rows == {t \in TrashedIn(b) : t.owned}
<1>1. PICK to \in Landings(rows) : files' = Landed(rows, to)
  BY DEF Restore, Landed
<1>2. trash' = trash \ rows /\ UNCHANGED <<stored, age, reqVars, loopVars>>
  BY DEF Restore
<1>3. \A t \in rows : t \in trash /\ t.owned /\ t.key \in Deleted
  BY DEF TrashedIn, Deleted
<1>4. \A p \in Paths : \/ \E t \in rows : to[t] = p /\ files'[p] = t.key
                       \/ files'[p] = files[p]
  <2> HIDE DEF rows
  <2> TAKE p \in Paths
  <2>1. \/ \E t \in rows : to[t] = p /\ Landed(rows, to)[p] = t.key
        \/ Landed(rows, to)[p] = files[p]
    BY LandedRow
  <2> QED BY <1>1, <2>1
<1>5. Unaccounted' = Unaccounted
  <2>1. {u \in trash' : ~u.owned} = {u \in trash : ~u.owned}
    BY <1>2, <1>3
  <2> QED BY <2>1 DEF Unaccounted
<1>6. Deleted' \subseteq Deleted /\ \A t \in rows : t.key \notin Deleted'
  <2>1. Deleted' \subseteq Deleted
    BY <1>2 DEF Deleted
  <2>2. ASSUME NEW t \in rows, NEW u \in trash', u.owned, u.key = t.key PROVE FALSE
    BY <1>2, <1>3, <2>2 DEF IndInv, OneRowPerBlob
  <2> QED BY <2>1, <2>2 DEF Deleted
<1>7. \A k \in Live' : k \in Live \/ \E t \in rows : k = t.key
  BY <1>4 DEF Live
<1>8. Live \cap Deleted = {}
  BY DEF IndInv, OneRowPerBlob
<1>9. OneRowPerBlob'
  <2>1. ASSUME NEW x \in Paths, NEW y \in Paths, files'[x] = files'[y], files'[x] # NoKey
        PROVE  x = y
    <3>1. ASSUME NEW v \in Paths, NEW w \in Paths, NEW t \in rows,
                 files'[v] = t.key, files'[w] = files[w], files'[v] = files'[w], files'[w] # NoKey
          PROVE  FALSE
      <4>1. files[w] \in Live
        BY <3>1 DEF Live
      <4> QED BY <3>1, <4>1, <1>3, <1>8
    <3>2. ASSUME NEW t \in rows, NEW u \in rows, to[t] = x, to[u] = y, t.key = u.key PROVE x = y
      BY <3>2, <1>3 DEF IndInv, OneRowPerBlob
    <3>3. CASE files'[x] = files[x] /\ files'[y] = files[y]
      BY <2>1, <3>3 DEF IndInv, OneRowPerBlob
    <3> QED BY <1>4, <2>1, <3>1, <3>2, <3>3
  <2>2. (Live \cap Deleted = {})'
    BY <1>6, <1>7, <1>8
  <2> QED BY <1>2, <2>1, <2>2 DEF IndInv, OneRowPerBlob
<1>10. loop # "trashkeys"
  BY DEF Restore, Prudent
<1>11. Live' \cup Deleted' \subseteq Live \cup Deleted
  BY <1>3, <1>6, <1>7
<1> QED BY <1>2, <1>5, <1>9, <1>10, <1>11, ClaimsMove

LEMMA AdoptInd ==
  ASSUME IndInv, TypeOK', Prudent, NEW p \in Paths, NEW k \in Keys, Adopt(p, k)
  PROVE  IndInv'
<1>1. /\ UNCHANGED <<trash, stored, age, reqVars, loopVars>>
      /\ k \in stored /\ k \notin Live /\ k \notin Deleted /\ k \notin Unaccounted
  BY DEF Adopt, Prudent
<1>2. \A x \in Paths : files'[x] = IF x = p THEN k ELSE files[x]
  BY DEF Adopt, IndInv, TypeOK
<1>3. Deleted' = Deleted /\ Unaccounted' = Unaccounted /\ InFlight' = InFlight /\ Doomed' = Doomed
  BY <1>1 DEF Deleted, Unaccounted, InFlight, HeldBy, Doomed, reqVars
<1>4. Live' \subseteq Live \cup {k}
  BY <1>2 DEF Live
<1>5. \A r \in Procs : held[r] = {} /\ doomed[r] = {}
  BY DEF Adopt, IndInv, AtRest
<1>6. InFlight = {} /\ Doomed = {} /\ emptying = {} /\ orphans = {}
  BY <1>5 DEF InFlight, HeldBy, Doomed, Adopt, IndInv, AtRest
<1>7. Present' /\ Apart'
  BY <1>1, <1>3, <1>4, <1>6 DEF IndInv, Present, Apart, Claimed, Condemned, loopVars
<1>8. OneRowPerBlob'
  <2>1. \A x \in Paths : files[x] # k
    BY <1>1, NullAssumption DEF Live
  <2>2. ASSUME NEW x \in Paths, NEW y \in Paths, files'[x] = files'[y], files'[x] # NoKey
        PROVE  x = y
    BY <1>2, <2>1, <2>2 DEF IndInv, OneRowPerBlob
  <2> QED BY <1>1, <1>3, <1>4, <2>2 DEF IndInv, OneRowPerBlob
<1>9. InFlightOnce' /\ HeldYoung'
  BY <1>1, <1>3, <1>5, <1>6 DEF InFlightOnce, HeldYoung, reqVars
<1>10. SweepCovers' /\ AtRest'
  BY <1>1 DEF Adopt, IndInv, SweepCovers, AtRest, reqVars, loopVars
<1> QED BY <1>7, <1>8, <1>9, <1>10 DEF IndInv

LEMMA RowsInd ==
  ASSUME IndInv, TypeOK', Prudent, Rows
  PROVE  IndInv'
BY MoveInd, RemoveInd, RestoreInd, AdoptInd DEF Rows
-----------------------------------------------------------------------------
(* The collector.                                                          *)

\* A step of the loop that leaves the rows, the blobs and the requests alone.
LEMMA LoopOnly ==
  ASSUME IndInv, TypeOK', SweepCovers',
         emptying' \cup orphans' \subseteq emptying \cup orphans,
         loop' # "empty" => emptying' = {}, loop' # "trash" => orphans' = {},
         UNCHANGED <<files, trash, stored, age, reqVars>>
  PROVE  IndInv'
<1>1. /\ Live' = Live /\ Deleted' = Deleted /\ Unaccounted' = Unaccounted
      /\ InFlight' = InFlight /\ Doomed' = Doomed
  BY DEF Live, Deleted, Unaccounted, InFlight, HeldBy, Doomed, reqVars
<1>2. Present' /\ Apart'
  BY <1>1 DEF IndInv, Present, Apart, Claimed, Condemned
<1>3. OneRowPerBlob' /\ InFlightOnce' /\ HeldYoung'
  BY <1>1 DEF IndInv, OneRowPerBlob, InFlightOnce, HeldYoung, reqVars
<1>4. AtRest'
  BY DEF IndInv, AtRest, reqVars
<1> QED BY <1>2, <1>3, <1>4 DEF IndInv

\* The listing makes an orphan of nothing that is claimed: a row the sweep did
\* not read has a blob too young, and so has a row not yet committed.
LEMMA ListStoreInd ==
  ASSUME IndInv, TypeOK', Prudent, ListStore
  PROVE  IndInv'
<1> USE TimeAssumption
<1>1. UNCHANGED <<files, trash, stored, age, reqVars, expired, emptying>>
  BY DEF ListStore
<1>2. /\ Live' = Live /\ Deleted' = Deleted /\ Unaccounted' = Unaccounted
      /\ InFlight' = InFlight /\ Doomed' = Doomed
  BY <1>1 DEF Live, Deleted, Unaccounted, InFlight, HeldBy, Doomed, reqVars
<1>3. ASSUME NEW k \in Live \cup Deleted, k \in orphans' PROVE FALSE
  <2>1. k \in Keys /\ k \notin refs /\ age[k] >= Grace
    BY <1>3, KeysType DEF ListStore, OldEnough, IndInv
  <2>2. age[k] <= reading + MaxLag + MaxIdle
    BY <2>1 DEF ListStore, IndInv, SweepCovers, TooYoung
  <2>3. reading \in 0..MaxRead /\ age[k] \in Nat
    BY <2>1 DEF IndInv, TypeOK
  <2> QED BY <2>1, <2>2, <2>3 DEF Prudent
<1>4. ASSUME NEW k \in InFlight, k \in orphans' PROVE FALSE
  <2>1. PICK r \in Procs : \E h \in held[r] : k = h[2]
    BY DEF InFlight, HeldBy
  <2>2. k \in Keys /\ age[k] <= lag[r] + MaxIdle
    BY <2>1 DEF IndInv, HeldYoung, TypeOK
  <2>3. age[k] \in Nat /\ lag[r] \in 0..MaxLag
    BY <2>2 DEF IndInv, TypeOK
  <2>4. age[k] >= Grace
    BY <1>4 DEF ListStore, OldEnough
  <2> QED BY <2>2, <2>3, <2>4 DEF Prudent
<1>5. Present' /\ Apart'
  BY <1>1, <1>2, <1>3, <1>4 DEF IndInv, Present, Apart, Claimed, Condemned
<1>6. OneRowPerBlob' /\ InFlightOnce' /\ HeldYoung'
  BY <1>1, <1>2 DEF IndInv, OneRowPerBlob, InFlightOnce, HeldYoung, reqVars
<1>7. SweepCovers' /\ AtRest'
  BY <1>1 DEF ListStore, IndInv, AtRest, SweepCovers, reqVars
<1> QED BY <1>5, <1>6, <1>7 DEF IndInv

LEMMA EmptyBatchInd ==
  ASSUME IndInv, TypeOK', NEW b \in Batches, EmptyBatch(b)
  PROVE  IndInv'
<1> DEFINE ks == {t.key : t \in TrashedIn(b)}
<1>1. /\ trash' = trash \ TrashedIn(b) /\ emptying' = ks /\ emptying = {}
      /\ UNCHANGED <<files, stored, age, reqVars, loop, refs, orphans, reading>>
  BY DEF EmptyBatch
<1>2. /\ Deleted' \subseteq Deleted /\ Unaccounted' \subseteq Unaccounted
      /\ ks \subseteq Deleted \cup Unaccounted /\ Deleted' \cap ks = {}
  BY <1>1, DestroyedKeys
<1>3. Live' = Live /\ InFlight' = InFlight /\ Doomed' = Doomed
  BY <1>1 DEF Live, InFlight, HeldBy, Doomed, reqVars
<1>4. Claimed' \subseteq Claimed
  BY <1>2, <1>3 DEF Claimed
<1>5. Claimed' \cap ks = {}
  <2>1. Live \cap Deleted = {} /\ InFlight \cap Deleted = {} /\ Claimed \cap Unaccounted = {}
    BY DEF IndInv, OneRowPerBlob, InFlightOnce, Apart, Condemned
  <2> QED BY <1>2, <1>3, <1>4, <2>1 DEF Claimed
<1>6. Present' /\ Apart'
  BY <1>1, <1>2, <1>3, <1>4, <1>5 DEF IndInv, Present, Apart, Condemned
<1>7. OneRowPerBlob' /\ InFlightOnce' /\ HeldYoung'
  BY <1>1, <1>2, <1>3 DEF IndInv, OneRowPerBlob, InFlightOnce, HeldYoung, reqVars
<1>8. SweepCovers' /\ AtRest'
  BY <1>1 DEF EmptyBatch, IndInv, SweepCovers, AtRest, reqVars
<1> QED BY <1>6, <1>7, <1>8 DEF IndInv

LEMMA EmptyDropInd ==
  ASSUME IndInv, TypeOK', NEW k \in Keys, EmptyDrop(k)
  PROVE  IndInv'
<1>1. /\ stored' = stored \ {k} /\ k \in emptying /\ emptying' = emptying \ {k}
      /\ \A x \in Keys \ {k} : age'[x] = age[x]
      /\ UNCHANGED <<files, trash, reqVars, loop, expired, refs, orphans, reading>>
  BY DEF EmptyDrop, Delete, IndInv, TypeOK
<1>2. /\ Live' = Live /\ Deleted' = Deleted /\ Unaccounted' = Unaccounted
      /\ InFlight' = InFlight /\ Doomed' = Doomed
  BY <1>1 DEF Live, Deleted, Unaccounted, InFlight, HeldBy, Doomed, reqVars
<1>3. k \notin Claimed /\ Claimed \subseteq Keys
  BY <1>1 DEF IndInv, Apart, Condemned, Present, TypeOK
<1>4. Present' /\ Apart'
  BY <1>1, <1>2, <1>3 DEF IndInv, Present, Apart, Claimed, Condemned
<1>5. OneRowPerBlob' /\ InFlightOnce'
  BY <1>1, <1>2 DEF IndInv, OneRowPerBlob, InFlightOnce, reqVars
<1>6. HeldYoung'
  <2> SUFFICES ASSUME NEW s \in Procs, NEW h \in held[s] PROVE age'[h[2]] <= lag[s] + MaxIdle
    BY <1>1 DEF HeldYoung, reqVars
  <2>1. h[2] \in Claimed
    BY DEF Claimed, InFlight, HeldBy
  <2> QED BY <1>1, <1>3, <2>1 DEF IndInv, HeldYoung
<1>7. SweepCovers' /\ AtRest'
  BY <1>1 DEF EmptyDrop, IndInv, SweepCovers, AtRest, reqVars
<1> QED BY <1>4, <1>5, <1>6, <1>7 DEF IndInv

\* What goes to the trash of nobody is an orphan of the listing.
LEMMA TrashSomeInd ==
  ASSUME IndInv, TypeOK', NEW ks \in SUBSET orphans, TrashSome(ks)
  PROVE  IndInv'
<1>1. /\ UNCHANGED <<files, stored, age, reqVars, expired, emptying, refs, reading>>
      /\ loop = "trash" /\ loop' = "idle" /\ orphans' = {}
  BY DEF TrashSome
<1>2. ASSUME NEW b \in Batches, NEW k \in ks
      PROVE  LET t == [batch |-> b, owned |-> FALSE, path |-> NoPath, key |-> k, age |-> 0]
             IN  t.owned = FALSE /\ t.key \in ks
  OBVIOUS
<1>3. trash \subseteq trash'
  BY DEF TrashSome
<1>4. \A t \in trash' : t \in trash \/ (t.owned = FALSE /\ t.key \in ks)
  <2>1. CASE trash' = trash
    BY <2>1
  <2>2. ASSUME NEW b \in FreshBatch,
               trash' = trash \cup
                 {[batch |-> b, owned |-> FALSE, path |-> NoPath, key |-> k, age |-> 0] : k \in ks}
        PROVE  \A t \in trash' : t \in trash \/ (t.owned = FALSE /\ t.key \in ks)
    BY <1>2, <2>2 DEF FreshBatch
  <2> QED BY <2>1, <2>2 DEF TrashSome
<1>5. {t \in trash' : t.owned} = {t \in trash : t.owned}
  BY <1>3, <1>4
<1>6. Deleted' = Deleted /\ Unaccounted' \subseteq Unaccounted \cup ks
  BY <1>4, <1>5 DEF Deleted, Unaccounted
<1>7. Live' = Live /\ InFlight' = InFlight /\ Doomed' = Doomed
  BY <1>1 DEF Live, InFlight, HeldBy, Doomed, reqVars
<1>8. Present' /\ Apart'
  BY <1>1, <1>6, <1>7 DEF IndInv, Present, Apart, Claimed, Condemned
<1>9. OneRowPerBlob'
  BY <1>1, <1>4, <1>6, <1>7 DEF IndInv, OneRowPerBlob
<1>10. InFlightOnce' /\ HeldYoung'
  BY <1>1, <1>6, <1>7 DEF IndInv, InFlightOnce, HeldYoung, reqVars
<1>11. SweepCovers' /\ AtRest'
  BY <1>1 DEF IndInv, SweepCovers, AtRest, reqVars
<1> QED BY <1>8, <1>9, <1>10, <1>11 DEF IndInv

LEMMA CollectorInd ==
  ASSUME IndInv, TypeOK', Prudent, Collector
  PROVE  IndInv'
<1>1. CASE ListExpired
  <2>1. SweepCovers'
    BY <1>1 DEF ListExpired, SweepCovers
  <2> QED BY <1>1, <2>1, LoopOnly DEF ListExpired, IndInv, AtRest
<1>2. CASE EmptyFails
  <2>1. SweepCovers'
    BY <1>2 DEF EmptyFails, SweepCovers
  <2> QED BY <1>2, <2>1, LoopOnly DEF EmptyFails, IndInv, AtRest
<1>3. CASE ReadBlobKeys
  <2>1. Live' = Live
    BY <1>3 DEF ReadBlobKeys, Live
  <2>2. SweepCovers'
    BY <1>3, <2>1 DEF ReadBlobKeys, SweepCovers
  <2> QED BY <1>3, <2>2, LoopOnly DEF ReadBlobKeys, IndInv, AtRest
<1>4. CASE ReadTrashKeys
  <2>1. Live' = Live /\ Deleted' = Deleted
    BY <1>4 DEF ReadTrashKeys, Live, Deleted
  <2>2. SweepCovers'
    BY <1>4, <2>1 DEF ReadTrashKeys, IndInv, SweepCovers, TooYoung
  <2> QED BY <1>4, <2>2, LoopOnly DEF ReadTrashKeys, IndInv, AtRest
<1>5. CASE CollectFails
  <2>1. SweepCovers'
    BY <1>5 DEF CollectFails, SweepCovers
  <2> QED BY <1>5, <2>1, LoopOnly DEF CollectFails, IndInv, AtRest
<1> QED BY <1>1, <1>2, <1>3, <1>4, <1>5, EmptyBatchInd, EmptyDropInd, ListStoreInd, TrashSomeInd
     DEF Collector, TrashOrphans, TrashFails
-----------------------------------------------------------------------------
(* Time and crashes.                                                       *)

LEMMA TickInd ==
  ASSUME IndInv, TypeOK', Tick
  PROVE  IndInv'
<1> USE TimeAssumption
<1> DEFINE older(t) == [t EXCEPT !.age = Min(t.age + 1, Retention)]
<1>1. /\ UNCHANGED <<files, stored, pc, want, held, doomed, loop, expired, emptying, refs, orphans>>
      /\ trash' = {older(t) : t \in trash}
  BY DEF Tick
<1>2. \A t \in trash : older(t).owned = t.owned /\ older(t).key = t.key
  BY DEF IndInv, TypeOK, TrashRow
<1>3. Deleted' = Deleted /\ Unaccounted' = Unaccounted
  <2> HIDE DEF older
  <2>1. \A t \in trash : older(t) \in trash'
    BY <1>1
  <2>2. \A u \in trash' : \E t \in trash : u = older(t)
    BY <1>1
  <2>3. Deleted' \subseteq Deleted /\ Unaccounted' \subseteq Unaccounted
    BY <1>2, <2>2 DEF Deleted, Unaccounted
  <2>4. ASSUME NEW t \in trash
        PROVE  (t.owned => t.key \in Deleted') /\ (~t.owned => t.key \in Unaccounted')
    BY <1>2, <2>1 DEF Deleted, Unaccounted
  <2>5. Deleted \subseteq Deleted' /\ Unaccounted \subseteq Unaccounted'
    BY <2>4 DEF Deleted, Unaccounted
  <2> QED BY <2>3, <2>5
<1>4. Live' = Live /\ InFlight' = InFlight /\ Doomed' = Doomed
  BY <1>1 DEF Live, InFlight, HeldBy, Doomed
<1>5. Present' /\ Apart'
  BY <1>1, <1>3, <1>4 DEF IndInv, Present, Apart, Claimed, Condemned
<1>6. OneRowPerBlob'
  <2> HIDE DEF older
  <2>1. ASSUME NEW t \in trash', NEW u \in trash', t.owned, u.owned, t.key = u.key PROVE t = u
    <3>1. PICK a \in trash : t = older(a)
      BY <1>1
    <3>2. PICK c \in trash : u = older(c)
      BY <1>1
    <3>3. a = c
      BY <1>2, <2>1, <3>1, <3>2 DEF IndInv, OneRowPerBlob
    <3> QED BY <3>1, <3>2, <3>3
  <2> QED BY <1>1, <1>3, <1>4, <2>1 DEF IndInv, OneRowPerBlob
<1>7. InFlightOnce' /\ AtRest'
  BY <1>1, <1>3, <1>4 DEF IndInv, InFlightOnce, AtRest
<1>8. \A k \in Keys : age[k] \in Nat /\ age'[k] \in Nat /\ age'[k] <= age[k] + 1
  BY DEF IndInv, TypeOK, Tick, Min
<1>9. HeldYoung'
  <2> SUFFICES ASSUME NEW s \in Procs, NEW h \in held[s] PROVE age'[h[2]] <= lag'[s] + MaxIdle
    BY <1>1 DEF HeldYoung
  <2>1. h[2] \in Keys /\ lag'[s] = lag[s] + 1 /\ lag[s] \in Nat
    BY DEF IndInv, TypeOK, Tick
  <2>2. age[h[2]] <= lag[s] + MaxIdle
    BY DEF IndInv, HeldYoung
  <2> QED BY <1>8, <2>1, <2>2
<1>10. SweepCovers'
  <2>1. ASSUME NEW k \in Keys, TooYoung(k), loop \in {"trashkeys", "list"} PROVE TooYoung(k)'
    <3>1. reading' = reading + 1 /\ reading \in Nat
      BY <2>1 DEF Tick, IndInv, TypeOK
    <3> QED BY <1>8, <2>1, <3>1 DEF TooYoung
  <2>2. Live \cup Deleted \subseteq Keys
    BY KeysType DEF IndInv
  <2> QED BY <1>1, <1>3, <1>4, <2>1, <2>2 DEF IndInv, SweepCovers
<1> QED BY <1>5, <1>6, <1>7, <1>9, <1>10 DEF IndInv

LEMMA CrashInd ==
  ASSUME IndInv, TypeOK', Crash
  PROVE  IndInv'
<1>1. Live' = Live /\ Deleted' = Deleted /\ Unaccounted' = Unaccounted
  BY DEF Crash, Live, Deleted, Unaccounted
<1>2. InFlight' = {} /\ Doomed' = {}
  BY DEF Crash, InFlight, HeldBy, Doomed
<1>3. Present' /\ Apart'
  BY <1>1, <1>2 DEF Crash, IndInv, Present, Apart, Claimed, Condemned
<1>4. OneRowPerBlob' /\ InFlightOnce'
  BY <1>1, <1>2 DEF Crash, IndInv, OneRowPerBlob, InFlightOnce
<1>5. HeldYoung' /\ SweepCovers' /\ AtRest'
  BY DEF Crash, HeldYoung, SweepCovers, AtRest
<1> QED BY <1>3, <1>4, <1>5 DEF IndInv

LEMMA NextInd ==
  ASSUME IndInv, Prudent, [Next]_vars
  PROVE  IndInv'
<1>1. TypeOK'
  BY NextType DEF IndInv
<1>2. CASE UNCHANGED vars
  <2>1. /\ Live' = Live /\ Deleted' = Deleted /\ Unaccounted' = Unaccounted
        /\ InFlight' = InFlight /\ Doomed' = Doomed
    BY <1>2 DEF vars, reqVars, Live, Deleted, Unaccounted, InFlight, HeldBy, Doomed
  <2> QED BY <1>1, <1>2, <2>1 DEF vars, reqVars, loopVars, IndInv, Present, Apart, Claimed,
       Condemned, OneRowPerBlob, InFlightOnce, HeldYoung, SweepCovers, TooYoung, AtRest
<1> QED BY <1>1, <1>2, RequestInd, RowsInd, CollectorInd, TickInd, CrashInd DEF Next

LEMMA Inductive == Prudent => (Spec => []IndInv)
<1> SUFFICES ASSUME Prudent PROVE Spec => []IndInv
  OBVIOUS
<1>1. Init => IndInv
  BY InitInd
<1>2. IndInv /\ [Next]_vars => IndInv'
  BY NextInd
<1> QED BY <1>1, <1>2, PTL DEF Spec

\* No read of a file ever finds the row without its bytes: whatever requests,
\* crashes, failed deletes and sweeps interleave, Collect, DestroyTrashed and
\* dropBlob only delete blobs that no row names.
THEOREM FilesAreSafe == Prudent => (Spec => []LiveRowsHaveBlobs)
<1>1. IndInv => LiveRowsHaveBlobs
  BY DEF IndInv, Present, Claimed, LiveRowsHaveBlobs
<1> QED BY <1>1, Inductive, PTL

\* Whatever the trash page offers can be restored with its bytes until the
\* deletion itself is destroyed.
THEOREM TrashIsSafe == Prudent => (Spec => []TrashCanBeRestored)
<1>1. IndInv => TrashCanBeRestored
  BY DEF IndInv, Present, Claimed, TrashCanBeRestored
<1> QED BY <1>1, Inductive, PTL

\* No two rows, live or deleted, ever share a blob.
THEOREM BlobsAreNotShared == Prudent => (Spec => []OneRowPerBlob)
<1>1. IndInv => OneRowPerBlob
  BY DEF IndInv
<1> QED BY <1>1, Inductive, PTL

\* The trash of nobody holds nothing of anybody's.
THEOREM SweepTakesOnlyOrphans == Prudent => (Spec => []UnaccountedIsUnclaimed)
<1>1. IndInv => UnaccountedIsUnclaimed
  BY DEF IndInv, Apart, Claimed, Condemned, UnaccountedIsUnclaimed
<1> QED BY <1>1, Inductive, PTL
=============================================================================
