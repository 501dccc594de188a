--------------------------- MODULE DatabaseProofs ---------------------------
(***************************************************************************)
(* Proofs about the components of Database: Backups for any number of      *)
(* backups, users' doings, errors, stops and databases put back, and       *)
(* Migrations for any number of instances, builds and migrations; and      *)
(* about those of Outside: Incoming for any arrivals and faults, Nextcloud *)
(* for any cache, workers, batches and commands, and Lookups for any       *)
(* recordings, files and hours.                                            *)
(***************************************************************************)
EXTENDS Database, Outside, FiniteSetTheorems, FunctionTheorems, SequenceTheorems, WellFoundedInduction, TLAPS

\* As many as one are kept, and no restore comes between AdoptBackups' reads.
Prudent == BackupsKept \in Nat \ {0} /\ RestoresBetween = FALSE
-----------------------------------------------------------------------------
(* The inductive invariant of Backups.                                     *)

Newer(k, H) == {j \in H : j > k}

\* Backup k of those in H, or rotated away because enough of H are newer.
Spared(k, H) == k \in H \/ Cardinality(Newer(k, H)) >= BackupsKept

\* What nothing but a rotation takes away: in the store, or destroyed by the
\* user, but for the one that may still be taken back.
HeldBy(st, de, lp) == (DOMAIN st \cup de) \ (IF lp.at = "file" THEN {lp.key} ELSE {})
Held == HeldBy(store, destroyed, loop)

Places == {"idle", "trash", "list", "adopt", "look", "put", "file", "rotate", "drop", "blob"}
Rows1 == SUBSET ({"dir", "out"} \X Nat)
Loops == [at : Places, claimed : SUBSET Nat, todo : SUBSET Nat, key : Nat, copy : (Rows1 \X Rows1) \cup {<<>>}]

\* A database of live rows t and rows b in the trash, at a time n: no two rows
\* name one backup, and what they name was spared.
Sound(t, b, n, H) ==
  /\ t \in Rows1 /\ b \in Rows1
  /\ t \cap b = {}
  /\ \A f, g \in t \cup b : f[2] = g[2] => f = g
  /\ \A f \in t \cup b : f[2] \in 1..n /\ Spared(f[2], H)

Named(t, b) == Backups!Keys(t \cup b)

\* What the pass l knows at its place.
Placed(l, n, st, t, b, la, fa, de) ==
  /\ l.at \in {"trash", "list", "adopt", "look"} => la = -1
  /\ l.at \in {"put", "file", "rotate", "drop", "blob"} => la # -1
  /\ l.at = "trash" => Backups!Keys(t) \subseteq l.claimed
  /\ l.at = "list" => Named(t, b) \subseteq l.claimed
  /\ l.at \in {"trash", "list"} => l.claimed \cap DOMAIN st \subseteq Named(t, b)
  /\ l.at = "adopt" =>
       /\ l.todo \cap Named(t, b) = {} /\ l.todo \subseteq DOMAIN st
       /\ DOMAIN st \subseteq l.todo \cup Named(t, b)
  /\ l.at = "look" => fa \/ DOMAIN st \subseteq Named(t, b)
  /\ l.at \in {"put", "file"} => l.key = n /\ n \notin de
  /\ l.at = "put" => n \notin DOMAIN st /\ l.copy \in Rows1 \X Rows1 /\ Sound(l.copy[1], l.copy[2], n, HeldBy(st, de, l))
  /\ l.at = "file" => n \in DOMAIN st
  /\ l.at \in {"drop", "blob"} =>
       \A k \in l.todo : k \in 1..n /\ Cardinality(Newer(k, HeldBy(st, de, l))) >= BackupsKept
  /\ l.at = "blob" => l.todo # {} /\ Backups!Max(l.todo) \notin Named(t, b)

Base ==
  /\ now \in Nat \ {0} /\ DOMAIN store \subseteq 1..now /\ destroyed \subseteq 1..now /\ loop \in Loops
  /\ Sound(kept, bin, now, Held)
  /\ \A k \in DOMAIN store : store[k] \in Rows1 \X Rows1 /\ Sound(store[k][1], store[k][2], now, Held)

BInv == Base /\ Placed(loop, now, store, kept, bin, last, failing, destroyed) /\ Backups!NoBackupIsForgotten
-----------------------------------------------------------------------------
(* Numbers and rows.                                                       *)

LEMMA SameCardinality == \A S : Backups!Cardinality(S) = Cardinality(S)
BY Zenon DEF Backups!Cardinality, Cardinality

LEMMA SmallestOf == ASSUME NEW T \in SUBSET Nat, T # {} PROVE \E t \in T : \A u \in T : t <= u
<1> DEFINE R == OpToRel(<, Nat)
<1>1. \A t, u \in Nat : <<t, u>> \in R <=> t < u
  BY DEF OpToRel
<1>2. IsWellFoundedOn(R, Nat)
  BY NatLessThanWellFounded
<1> HIDE DEF R
<1>3. PICK t \in T : \A u \in T : ~(<<u, t>> \in R)
  BY <1>2, WFMin
<1>4. \A u \in T : ~(u < t)
  BY <1>1, <1>3
<1> QED BY <1>4

LEMMA Largest ==
  ASSUME NEW b \in Nat, NEW S \in SUBSET (0..b), S # {}
  PROVE  Backups!Max(S) \in S /\ \A y \in S : y <= Backups!Max(S)
<1> DEFINE T == {b - x : x \in S}
<1>1. \A x \in 0..b : b - x \in Nat
  OBVIOUS
<1>2. T \in SUBSET Nat /\ T # {}
  BY <1>1
<1> HIDE DEF T
<1>3. PICK t \in T : \A u \in T : t <= u
  BY <1>2, SmallestOf
<1>4. PICK x \in S : t = b - x
  BY <1>3 DEF T
<1>5. ASSUME NEW y \in S PROVE y <= x
  <2>1. b - x <= b - y
    BY <1>3, <1>4 DEF T
  <2> QED BY <2>1
<1>6. \E m \in S : \A y \in S : m >= y
  BY <1>5
<1>7. Backups!Max(S) \in S /\ \A y \in S : Backups!Max(S) >= y
  BY <1>6 DEF Backups!Max
<1> QED BY <1>7

\* How many are newer.
LEMMA NewerCounts ==
  ASSUME NEW n \in Nat, NEW H \in SUBSET (1..n), NEW k
  PROVE  IsFiniteSet(Newer(k, H)) /\ Cardinality(Newer(k, H)) \in Nat
<1>1. IsFiniteSet(1..n)
  BY FS_Interval
<1>2. Newer(k, H) \in SUBSET (1..n)
  BY DEF Newer
<1>3. IsFiniteSet(Newer(k, H))
  BY <1>1, <1>2, FS_Subset
<1> QED BY <1>3, FS_CardinalityType

LEMMA MoreNewer ==
  ASSUME Prudent, NEW n \in Nat, NEW H \in SUBSET (1..n), NEW G \in SUBSET (1..n), NEW k, NEW j,
         Newer(k, H) \subseteq Newer(j, G), Cardinality(Newer(k, H)) >= BackupsKept
  PROVE  Cardinality(Newer(j, G)) >= BackupsKept
<1>1. IsFiniteSet(Newer(j, G)) /\ Cardinality(Newer(j, G)) \in Nat
  BY NewerCounts
<1>2. Cardinality(Newer(k, H)) \in Nat
  BY NewerCounts
<1>3. Cardinality(Newer(k, H)) <= Cardinality(Newer(j, G))
  BY <1>1, FS_Subset
<1> QED BY <1>1, <1>2, <1>3 DEF Prudent

\* Nothing is newer than the newest, and one at least is kept.
LEMMA NewestIsHeld ==
  ASSUME Prudent, NEW n \in Nat, NEW H \in SUBSET (1..n), Spared(n, H)
  PROVE  n \in H
<1>1. ASSUME NEW j \in Newer(n, H) PROVE FALSE
  <2>1. j \in 1..n /\ j > n
    BY DEF Newer
  <2> QED BY <2>1
<1>2. Newer(n, H) = {} /\ Cardinality({}) = 0
  BY <1>1, FS_EmptySet
<1> QED BY <1>2 DEF Spared, Prudent

LEMMA SparedMore ==
  ASSUME Prudent, NEW n \in Nat, NEW G \in SUBSET (1..n), NEW H \in SUBSET G, NEW k, Spared(k, H)
  PROVE  Spared(k, G)
<1>1. CASE k \in H
  BY <1>1 DEF Spared
<1>2. CASE Cardinality(Newer(k, H)) >= BackupsKept
  <2>1. Newer(k, H) \subseteq Newer(k, G) /\ H \in SUBSET (1..n)
    BY DEF Newer
  <2>2. Cardinality(Newer(k, G)) >= BackupsKept
    BY <1>2, <2>1, MoreNewer
  <2> QED BY <2>2 DEF Spared
<1> QED BY <1>1, <1>2 DEF Spared

\* A rotation takes m.
LEMMA EnoughWithout ==
  ASSUME Prudent, NEW n \in Nat, NEW H \in SUBSET (1..n), NEW m \in 1..n, NEW k \in 1..n,
         Cardinality(Newer(m, H)) >= BackupsKept, Cardinality(Newer(k, H)) >= BackupsKept
  PROVE  Cardinality(Newer(k, H \ {m})) >= BackupsKept
<1>1. H \ {m} \in SUBSET (1..n)
  OBVIOUS
<1>2. CASE m > k
  <2>1. ASSUME NEW j \in Newer(m, H) PROVE j \in Newer(k, H \ {m})
    <3>1. j \in H /\ j \in 1..n /\ j > m
      BY DEF Newer
    <3>2. j > k /\ j # m
      BY <1>2, <3>1
    <3> QED BY <3>1, <3>2 DEF Newer
  <2> QED BY <1>1, <2>1, MoreNewer
<1>3. CASE ~(m > k)
  <2>1. Newer(k, H) \subseteq Newer(k, H \ {m})
    BY <1>3 DEF Newer
  <2> QED BY <1>1, <2>1, MoreNewer
<1> QED BY <1>2, <1>3

LEMMA SparedWithout ==
  ASSUME Prudent, NEW n \in Nat, NEW H \in SUBSET (1..n), NEW m \in 1..n, NEW k \in 1..n,
         Cardinality(Newer(m, H)) >= BackupsKept, Spared(k, H)
  PROVE  Spared(k, H \ {m})
<1>1. CASE k \in H /\ k # m
  BY <1>1 DEF Spared
<1>2. CASE k = m \/ Cardinality(Newer(k, H)) >= BackupsKept
  <2>1. Cardinality(Newer(k, H)) >= BackupsKept
    BY <1>2
  <2>2. Cardinality(Newer(k, H \ {m})) >= BackupsKept
    BY <2>1, EnoughWithout
  <2> QED BY <2>2 DEF Spared
<1> QED BY <1>1, <1>2 DEF Spared

LEMMA SoundMore ==
  ASSUME Prudent, NEW n \in Nat, NEW o \in Nat, n <= o, NEW G \in SUBSET (1..o), NEW H \in SUBSET G,
         NEW t, NEW b, Sound(t, b, n, H)
  PROVE  Sound(t, b, o, G)
<1>1. ASSUME NEW f \in t \cup b PROVE f[2] \in 1..o /\ Spared(f[2], G)
  <2>1. f[2] \in 1..n /\ Spared(f[2], H)
    BY DEF Sound
  <2>2. Spared(f[2], G)
    BY <2>1, SparedMore
  <2> QED BY <2>1, <2>2
<1> QED BY <1>1 DEF Sound

LEMMA SoundWithout ==
  ASSUME Prudent, NEW n \in Nat, NEW H \in SUBSET (1..n), NEW m \in 1..n, Cardinality(Newer(m, H)) >= BackupsKept,
         NEW t, NEW b, Sound(t, b, n, H)
  PROVE  Sound(t, b, n, H \ {m})
<1>1. ASSUME NEW f \in t \cup b PROVE f[2] \in 1..n /\ Spared(f[2], H \ {m})
  <2>1. f[2] \in 1..n /\ Spared(f[2], H)
    BY DEF Sound
  <2>2. Spared(f[2], H \ {m})
    BY <2>1, SparedWithout
  <2> QED BY <2>1, <2>2
<1> QED BY <1>1 DEF Sound

\* Two rows that are apart name two backups.
LEMMA SoundIsOneEach ==
  ASSUME NEW n \in Nat, NEW H, NEW t, NEW b, Sound(t, b, n, H)
  PROVE  Cardinality(t \cup b) = Cardinality(Backups!Keys(t) \cup Backups!Keys(b))
<1> DEFINE S == t \cup b
           K == Backups!Keys(t) \cup Backups!Keys(b)
           F == [f \in S |-> f[2]]
<1>1. \A f \in S : f[2] \in K /\ f[2] \in 1..n
  BY DEF Sound, Backups!Keys
<1>2. \A f, g \in S : F[f] = F[g] => f = g
  BY DEF Sound
<1>3. K \subseteq 1..n
  BY DEF Sound, Backups!Keys
<1>4. \A k \in K : \E f \in S : F[f] = k
  BY DEF Backups!Keys
<1>5. F \in [S -> K]
  BY <1>1
<1> HIDE DEF S, K, F
<1>6. F \in Bijection(S, K)
  BY <1>2, <1>4, <1>5, Fun_IsBij
<1>7. ExistsBijection(K, S)
  BY <1>6, Fun_ExistsBij, Fun_ExistsBijSymmetric
<1>8. IsFiniteSet(1..n)
  BY FS_Interval
<1>9. IsFiniteSet(K)
  BY <1>3, <1>8, FS_Subset
<1>10. Cardinality(S) = Cardinality(K)
  BY <1>7, <1>9, FS_Bijection
<1> QED BY <1>10 DEF S, K
-----------------------------------------------------------------------------
(* The pass of the loop.                                                   *)

LEMMA IdleIs ==
  /\ Backups!Idle \in Loops /\ Backups!Idle.at = "idle" /\ Backups!Idle.claimed = {} /\ Backups!Idle.todo = {}
  /\ Backups!Idle.key = 0 /\ Backups!Idle.copy = <<>>
<1>1. Backups!Idle = [at |-> "idle", claimed |-> {}, todo |-> {}, key |-> 0, copy |-> <<>>]
  BY DEF Backups!Idle
<1> QED BY <1>1 DEF Loops, Places

LEMMA Goes ==
  ASSUME NEW l \in Loops, NEW a \in Places
  PROVE  /\ [l EXCEPT !.at = a] \in Loops /\ [l EXCEPT !.at = a].at = a
         /\ [l EXCEPT !.at = a].claimed = l.claimed /\ [l EXCEPT !.at = a].todo = l.todo
         /\ [l EXCEPT !.at = a].key = l.key /\ [l EXCEPT !.at = a].copy = l.copy
BY DEF Loops

\* While it backs up, the backup is named by no row.
LEMMA HeldRange == ASSUME Base PROVE Held \in SUBSET (1..now) /\ now \in Nat
BY DEF Base, Held, HeldBy

LEMMA FreshIsUnnamed ==
  ASSUME Prudent, BInv, loop.at \in {"put", "file"}
  PROVE  now \notin Named(kept, bin)
<1> SUFFICES ASSUME now \in Named(kept, bin) PROVE FALSE
  OBVIOUS
<1>1. Sound(kept, bin, now, Held) /\ Held \in SUBSET (1..now) /\ now \in Nat
  BY HeldRange DEF BInv, Base
<1>2. PICK f \in kept \cup bin : f[2] = now
  BY DEF Named, Backups!Keys
<1>3. Spared(now, Held)
  BY <1>1, <1>2 DEF Sound
<1>4. now \in Held
  BY <1>1, <1>3, NewestIsHeld
<1> QED BY <1>4 DEF BInv, Placed, Held, HeldBy

\* What is kept of the copies while nothing that is held goes.
LEMMA BaseLater ==
  ASSUME Prudent, Base, now' \in Nat \ {0}, now <= now', DOMAIN store' \subseteq 1..now', destroyed' \subseteq 1..now',
         loop' \in Loops, Held \subseteq Held', Sound(kept, bin, now, Held)' ,
         \A k \in DOMAIN store' :
           \/ k \in DOMAIN store /\ store'[k] = store[k]
           \/ store'[k] \in Rows1 \X Rows1 /\ Sound(store'[k][1], store'[k][2], now', Held')
  PROVE  Base'
<1>1. Held' \in SUBSET (1..now')
  BY DEF Held, HeldBy
<1>2. ASSUME NEW k \in DOMAIN store' PROVE store'[k] \in Rows1 \X Rows1 /\ Sound(store'[k][1], store'[k][2], now', Held')
  <2>1. CASE k \in DOMAIN store /\ store'[k] = store[k]
    <3>1. store[k] \in Rows1 \X Rows1 /\ Sound(store[k][1], store[k][2], now, Held) /\ now \in Nat
      BY <2>1 DEF Base
    <3>2. Sound(store[k][1], store[k][2], now', Held')
      BY <1>1, <3>1, SoundMore
    <3> QED BY <2>1, <3>1, <3>2
  <2>2. CASE store'[k] \in Rows1 \X Rows1 /\ Sound(store'[k][1], store'[k][2], now', Held')
    BY <2>2
  <2> QED BY <2>1, <2>2
<1> QED BY <1>2 DEF Base

LEMMA BaseLoop ==
  ASSUME Prudent, Base, now' = now, UNCHANGED <<store, kept, bin, destroyed>>, loop' \in Loops,
         loop'.at = "file" => loop.at = "file" /\ loop'.key = loop.key
  PROVE  Base' /\ Held \subseteq Held'
<1>1. Held \subseteq Held'
  BY DEF Held, HeldBy
<1>2. Held' \in SUBSET (1..now) /\ now \in Nat /\ now <= now
  <2>1. Held' \subseteq DOMAIN store' \cup destroyed' /\ store' = store /\ destroyed' = destroyed
    BY DEF Held, HeldBy
  <2>2. DOMAIN store \subseteq 1..now /\ destroyed \subseteq 1..now /\ now \in Nat
    BY DEF Base
  <2>3. DOMAIN store' = DOMAIN store
    BY <2>1
  <2>4. Held' \subseteq 1..now
    BY <2>1, <2>2, <2>3
  <2> QED BY <2>2, <2>4
<1>3. Sound(kept, bin, now, Held')
  BY <1>1, <1>2, SoundMore DEF Base
<1>4. Sound(kept, bin, now, Held)'
  BY <1>3
<1>5. \A k \in DOMAIN store' : k \in DOMAIN store /\ store'[k] = store[k]
  OBVIOUS
<1>6. DOMAIN store' \subseteq 1..now' /\ destroyed' \subseteq 1..now' /\ now' \in Nat \ {0} /\ now <= now'
  BY <1>2 DEF Base
<1> QED BY <1>1, <1>4, <1>5, <1>6, BaseLater

\* What the user does is done to the rows, and to the blob of one that goes.
LEMMA UserStep ==
  ASSUME Prudent, BInv, UNCHANGED <<now, last, loop, failing>>,
         Named(kept, bin)' \subseteq Named(kept, bin), DOMAIN store' \subseteq DOMAIN store,
         DOMAIN store \ Named(kept, bin) \subseteq DOMAIN store',
         DOMAIN store' \cap Named(kept, bin) \subseteq Named(kept, bin)',
         \A k \in DOMAIN store' : store'[k] = store[k],
         destroyed \subseteq destroyed', destroyed' \subseteq destroyed \cup Named(kept, bin),
         DOMAIN store \cup destroyed \subseteq DOMAIN store' \cup destroyed',
         loop.at = "trash" => Backups!Keys(kept)' \subseteq Backups!Keys(kept),
         Sound(kept', bin', now, Held)
  PROVE  BInv'
<1>1. Base /\ Placed(loop, now, store, kept, bin, last, failing, destroyed) /\ Backups!NoBackupIsForgotten
  BY DEF BInv
<1>2. now \in Nat /\ Held \in SUBSET (1..now) /\ Held \subseteq Held'
  BY <1>1, HeldRange DEF Held, HeldBy
<1>3. Named(kept, bin) \subseteq 1..now
  BY <1>1 DEF Base, Sound, Named, Backups!Keys
<1>4. DOMAIN store' \subseteq 1..now /\ destroyed' \subseteq 1..now /\ loop \in Loops
  BY <1>1, <1>3 DEF Base
<1>5. Held' \in SUBSET (1..now) /\ now <= now
  <2>1. Held' \subseteq DOMAIN store' \cup destroyed'
    BY DEF Held, HeldBy
  <2> QED BY <1>2, <1>4, <2>1
<1>6. Sound(kept', bin', now, Held')
  BY <1>2, <1>5, SoundMore
<1>7. Base'
  <2>1. Sound(kept, bin, now, Held)' /\ now' = now /\ loop' = loop
    BY <1>6
  <2>2. \A k \in DOMAIN store' : k \in DOMAIN store /\ store'[k] = store[k]
    OBVIOUS
  <2>3. now' \in Nat \ {0}
    BY <1>1 DEF Base
  <2> QED BY <1>1, <1>2, <1>4, <1>5, <2>1, <2>2, <2>3, BaseLater
<1>8. Placed(loop, now, store, kept, bin, last, failing, destroyed)'
  <2> DEFINE N == Named(kept, bin)
  <2>1. /\ loop.at \in {"trash", "list", "adopt", "look"} => last = -1
        /\ loop.at \in {"put", "file", "rotate", "drop", "blob"} => last # -1
        /\ loop.at = "trash" => Backups!Keys(kept') \subseteq loop.claimed
        /\ loop.at = "list" => Named(kept', bin') \subseteq loop.claimed
        /\ loop.at \in {"trash", "list"} => loop.claimed \cap DOMAIN store' \subseteq Named(kept', bin')
    BY <1>1 DEF Placed
  <2>2. loop.at = "adopt" => /\ loop.todo \cap Named(kept', bin') = {} /\ loop.todo \subseteq DOMAIN store'
                             /\ DOMAIN store' \subseteq loop.todo \cup Named(kept', bin')
    BY <1>1 DEF Placed
  <2>3. loop.at = "look" => failing \/ DOMAIN store' \subseteq Named(kept', bin')
    BY <1>1 DEF Placed
  <2>4. ASSUME loop.at \in {"put", "file"} PROVE loop.key = now /\ now \notin destroyed'
    BY <1>1, <2>4, FreshIsUnnamed DEF Placed
  <2>5. ASSUME loop.at = "put"
        PROVE  now \notin DOMAIN store' /\ loop.copy \in Rows1 \X Rows1 /\ Sound(loop.copy[1], loop.copy[2], now, Held')
    <3>1. now \notin DOMAIN store /\ loop.copy \in Rows1 \X Rows1 /\ Sound(loop.copy[1], loop.copy[2], now, Held)
      BY <1>1, <2>5 DEF Placed, Held
    <3>2. Sound(loop.copy[1], loop.copy[2], now, Held')
      BY <1>2, <1>5, <3>1, SoundMore
    <3> QED BY <3>1, <3>2
  <2>6. ASSUME loop.at = "file" PROVE now \in DOMAIN store'
    BY <1>1, <2>6, FreshIsUnnamed DEF Placed
  <2>7. ASSUME loop.at \in {"drop", "blob"}, NEW k \in loop.todo
        PROVE  k \in 1..now /\ Cardinality(Newer(k, Held')) >= BackupsKept
    <3>1. k \in 1..now /\ Cardinality(Newer(k, Held)) >= BackupsKept
      BY <1>1, <2>7 DEF Placed, Held
    <3>2. Newer(k, Held) \subseteq Newer(k, Held')
      BY <1>2 DEF Newer
    <3>3. Cardinality(Newer(k, Held')) >= BackupsKept
      BY <1>2, <1>5, <3>1, <3>2, MoreNewer
    <3> QED BY <3>1, <3>3
  <2>8. loop.at = "blob" => loop.todo # {} /\ Backups!Max(loop.todo) \notin Named(kept', bin')
    BY <1>1 DEF Placed
  <2>9. Held' = HeldBy(store', destroyed', loop)
    BY DEF Held
  <2> QED BY <2>1, <2>2, <2>3, <2>4, <2>5, <2>6, <2>7, <2>8, <2>9 DEF Placed
<1>9. Backups!NoBackupIsForgotten'
  <2>1. ASSUME NEW k \in DOMAIN store', k \notin Named(kept', bin')
        PROVE  k \in DOMAIN store /\ k \notin Named(kept, bin)
    BY <2>1
  <2> QED BY <1>1, <2>1 DEF Backups!NoBackupIsForgotten, Named
<1> QED BY <1>7, <1>8, <1>9 DEF BInv

LEMMA NamedIs == ASSUME NEW t, NEW b PROVE \A k : k \in Named(t, b) <=> \E f \in t \cup b : f[2] = k
BY DEF Named, Backups!Keys

LEMMA MoveHolds == ASSUME Prudent, BInv, Backups!Move PROVE BInv'
<1>1. PICK f \in kept : \E to \in {"dir", "out"} \ {f[1]} : kept' = (kept \ {f}) \cup {<<to, f[2]>>}
  BY DEF Backups!Move
<1>2. PICK to \in {"dir", "out"} : kept' = (kept \ {f}) \cup {<<to, f[2]>>}
  BY <1>1
<1>3. UNCHANGED <<now, store, bin, last, loop, failing, destroyed>>
  BY DEF Backups!Move
<1>4. Sound(kept, bin, now, Held)
  BY DEF BInv, Base
<1> DEFINE g == <<to, f[2]>>
<1>5. g[2] = f[2] /\ g \in {"dir", "out"} \X Nat
  BY <1>4 DEF Sound, Rows1
<1> HIDE DEF g
<1>6. kept' = (kept \ {f}) \cup {g}
  BY <1>2 DEF g
<1>7. Sound(kept', bin, now, Held)
  <2>1. g \notin bin
    BY <1>4, <1>5 DEF Sound
  <2>2. kept' \in Rows1 /\ kept' \cap bin = {}
    BY <1>4, <1>5, <1>6, <2>1 DEF Sound, Rows1
  <2>3. ASSUME NEW x \in kept' \cup bin, NEW y \in kept' \cup bin, x[2] = y[2] PROVE x = y
    BY <1>4, <1>5, <1>6, <2>3 DEF Sound
  <2>4. \A x \in kept' \cup bin : x[2] \in 1..now /\ Spared(x[2], Held)
    BY <1>4, <1>5, <1>6 DEF Sound
  <2> QED BY <1>4, <2>2, <2>3, <2>4 DEF Sound
<1>8. \A k : k \in Named(kept', bin) <=> k \in Named(kept, bin)
  BY <1>5, <1>6, NamedIs
<1>9. Backups!Keys(kept') \subseteq Backups!Keys(kept)
  BY <1>5, <1>6 DEF Backups!Keys
<1> QED BY <1>3, <1>7, <1>8, <1>9, UserStep

LEMMA TrashHolds == ASSUME Prudent, BInv, Backups!Trash PROVE BInv'
<1>1. PICK f \in kept : kept' = kept \ {f} /\ bin' = bin \cup {f}
  BY DEF Backups!Trash
<1>2. UNCHANGED <<now, store, last, loop, failing, destroyed>>
  BY DEF Backups!Trash
<1>3. Sound(kept, bin, now, Held)
  BY DEF BInv, Base
<1>4. kept' \cup bin' = kept \cup bin
  BY <1>1
<1>5. Sound(kept', bin', now, Held)
  <2>1. kept' \in Rows1 /\ bin' \in Rows1 /\ kept' \cap bin' = {}
    BY <1>1, <1>3 DEF Sound, Rows1
  <2> QED BY <1>3, <1>4, <2>1 DEF Sound
<1>6. Named(kept', bin') = Named(kept, bin)
  BY <1>4 DEF Named
<1>7. Backups!Keys(kept') \subseteq Backups!Keys(kept)
  BY <1>1 DEF Backups!Keys
<1> QED BY <1>2, <1>5, <1>6, <1>7, UserStep

LEMMA RestoreHolds == ASSUME Prudent, BInv, Backups!Restore PROVE BInv'
<1>1. PICK f \in bin \ kept : bin' = bin \ {f} /\ kept' = kept \cup {f}
  BY DEF Backups!Restore
<1>2. UNCHANGED <<now, store, last, loop, failing, destroyed>> /\ loop.at # "trash"
  BY DEF Backups!Restore, Prudent
<1>3. Sound(kept, bin, now, Held)
  BY DEF BInv, Base
<1>4. kept' \cup bin' = kept \cup bin
  BY <1>1
<1>5. Sound(kept', bin', now, Held)
  <2>1. kept' \in Rows1 /\ bin' \in Rows1 /\ kept' \cap bin' = {}
    BY <1>1, <1>3 DEF Sound, Rows1
  <2> QED BY <1>3, <1>4, <2>1 DEF Sound
<1>6. Named(kept', bin') = Named(kept, bin)
  BY <1>4 DEF Named
<1> QED BY <1>2, <1>5, <1>6, UserStep

LEMMA WithoutIs ==
  ASSUME NEW K
  PROVE  /\ DOMAIN Backups!Without(K) = DOMAIN store \ K
         /\ \A k \in DOMAIN store \ K : Backups!Without(K)[k] = store[k]
BY DEF Backups!Without

LEMMA DestroyHolds == ASSUME Prudent, BInv, Backups!Destroy PROVE BInv'
<1>1. PICK f \in bin : /\ bin' = bin \ {f} /\ store' = Backups!Without({f[2]})
                       /\ destroyed' = destroyed \cup {f[2]}
  BY DEF Backups!Destroy
<1>2. UNCHANGED <<now, kept, last, loop, failing>>
  BY DEF Backups!Destroy
<1>3. Sound(kept, bin, now, Held)
  BY DEF BInv, Base
<1>4. DOMAIN store' = DOMAIN store \ {f[2]} /\ \A k \in DOMAIN store' : store'[k] = store[k]
  BY <1>1, WithoutIs
<1>5. Sound(kept, bin', now, Held)
  BY <1>1, <1>3 DEF Sound, Rows1
<1>6. \A k : k \in Named(kept, bin') => k \in Named(kept, bin)
  BY <1>1, NamedIs
<1>7. \A k : k \in Named(kept, bin) => k = f[2] \/ k \in Named(kept, bin')
  BY <1>1, NamedIs
<1>8. f[2] \in Named(kept, bin)
  BY NamedIs
<1>9. /\ Named(kept, bin)' \subseteq Named(kept, bin)
      /\ DOMAIN store \ Named(kept, bin) \subseteq DOMAIN store'
      /\ DOMAIN store' \cap Named(kept, bin) \subseteq Named(kept, bin)'
  BY <1>2, <1>4, <1>6, <1>7, <1>8
<1>10. /\ destroyed \subseteq destroyed' /\ destroyed' \subseteq destroyed \cup Named(kept, bin)
       /\ DOMAIN store \cup destroyed \subseteq DOMAIN store' \cup destroyed' /\ DOMAIN store' \subseteq DOMAIN store
  BY <1>1, <1>4, <1>8
<1>11. Sound(kept', bin', now, Held) /\ Backups!Keys(kept)' \subseteq Backups!Keys(kept)
  BY <1>2, <1>5
<1> QED BY <1>2, <1>4, <1>9, <1>10, <1>11, UserStep
-----------------------------------------------------------------------------
(* AdoptBackups, and the look at the newest.                               *)

\* A place about which nothing has to be known but that nobody is forgotten.
LEMMA PlacedIdle ==
  ASSUME NEW l, NEW n, NEW st, NEW t, NEW b, NEW la, NEW fa, NEW de,
         l.at = "idle"
  PROVE  Placed(l, n, st, t, b, la, fa, de)
BY DEF Placed

LEMMA Parts ==
  ASSUME BInv
  PROVE  /\ Base /\ Placed(loop, now, store, kept, bin, last, failing, destroyed) /\ Backups!NoBackupIsForgotten
         /\ loop \in Loops /\ now \in Nat \ {0} /\ DOMAIN store \subseteq 1..now /\ destroyed \subseteq 1..now
         /\ Sound(kept, bin, now, Held) /\ Named(kept, bin) \subseteq 1..now
BY DEF BInv, Base, Sound, Named, Backups!Keys

LEMMA TickHolds == ASSUME Prudent, BInv, Backups!Tick PROVE BInv'
<1>1. loop.at = "idle" /\ now' = now + 1 /\ UNCHANGED <<store, kept, bin, last, loop, failing, destroyed>>
  BY DEF Backups!Tick
<1>2. /\ now' \in Nat /\ now <= now' /\ DOMAIN store' \subseteq 1..now' /\ destroyed' \subseteq 1..now'
      /\ loop' \in Loops
  BY <1>1, Parts
<1>3. Held' = Held
  BY <1>1 DEF Held
<1>4. Held' \in SUBSET (1..now')
  BY <1>2 DEF Held, HeldBy
<1>5. Sound(kept, bin, now', Held')
  BY <1>2, <1>3, <1>4, Parts, SoundMore
<1>6. Sound(kept, bin, now, Held)'
  BY <1>1, <1>5
<1>7. \A k \in DOMAIN store' : k \in DOMAIN store /\ store'[k] = store[k]
  BY <1>1
<1>8. Base'
  BY <1>2, <1>3, <1>6, <1>7, Parts, BaseLater
<1>9. Placed(loop, now, store, kept, bin, last, failing, destroyed)'
  BY <1>1, PlacedIdle
<1>10. Backups!NoBackupIsForgotten'
  BY <1>1, Parts DEF Backups!NoBackupIsForgotten
<1> QED BY <1>8, <1>9, <1>10 DEF BInv

LEMMA ReadLiveHolds == ASSUME Prudent, BInv, Backups!ReadLive PROVE BInv'
<1>1. last = -1 /\ UNCHANGED <<now, store, kept, bin, last, failing, destroyed>>
  BY DEF Backups!ReadLive
<1>2. Backups!Keys(kept) \in SUBSET Nat /\ Backups!Keys(kept) \subseteq Named(kept, bin)
  BY Parts DEF Named, Backups!Keys
<1>3. loop' \in Loops /\ loop'.at = "trash" /\ loop'.claimed = Backups!Keys(kept)
  <2>1. loop' = [Backups!Idle EXCEPT !.at = "trash", !.claimed = Backups!Keys(kept)] /\ "trash" \in Places
    BY DEF Backups!ReadLive, Places
  <2>2. Backups!Idle \in Loops
    BY IdleIs
  <2> QED BY <1>2, <2>1, <2>2 DEF Loops
<1>4. Base'
  BY <1>1, <1>3, Parts, BaseLoop
<1>5. Placed(loop', now, store, kept, bin, last, failing, destroyed)
  BY <1>1, <1>2, <1>3 DEF Placed
<1>6. Placed(loop, now, store, kept, bin, last, failing, destroyed)'
  BY <1>1, <1>5
<1>7. Backups!NoBackupIsForgotten'
  BY <1>1 DEF Backups!NoBackupIsForgotten
<1> QED BY <1>4, <1>6, <1>7 DEF BInv

LEMMA ReadTrashHolds == ASSUME Prudent, BInv, Backups!ReadTrash PROVE BInv'
<1>1. loop.at = "trash" /\ UNCHANGED <<now, store, kept, bin, last, failing, destroyed>>
  BY DEF Backups!ReadTrash
<1>2. /\ last = -1 /\ Backups!Keys(kept) \subseteq loop.claimed
      /\ loop.claimed \cap DOMAIN store \subseteq Named(kept, bin)
  BY <1>1, Parts DEF Placed
<1>3. Backups!ClaimedByTrash = Backups!Keys(bin) /\ Named(kept, bin) = Backups!Keys(kept) \cup Backups!Keys(bin)
  BY DEF Backups!ClaimedByTrash, Named, Backups!Keys
<1> DEFINE c == loop.claimed \cup Backups!ClaimedByTrash
<1>4. c \in SUBSET Nat /\ Named(kept, bin) \subseteq c /\ c \cap DOMAIN store \subseteq Named(kept, bin)
  <2>1. loop.claimed \in SUBSET Nat /\ Named(kept, bin) \subseteq Nat
    BY Parts DEF Loops
  <2> QED BY <1>2, <1>3, <2>1
<1> HIDE DEF c
<1>5. loop' \in Loops /\ loop'.at = "list" /\ loop'.claimed = c
  <2>1. loop' = [loop EXCEPT !.at = "list", !.claimed = c] /\ "list" \in Places
    BY DEF Backups!ReadTrash, Places, c
  <2>2. loop \in Loops
    BY Parts
  <2> QED BY <1>4, <2>1, <2>2 DEF Loops
<1>6. Base'
  BY <1>1, <1>5, Parts, BaseLoop
<1>7. Placed(loop', now, store, kept, bin, last, failing, destroyed)
  BY <1>2, <1>4, <1>5 DEF Placed
<1>8. Placed(loop, now, store, kept, bin, last, failing, destroyed)'
  BY <1>1, <1>7
<1>9. Backups!NoBackupIsForgotten'
  BY <1>1, <1>2 DEF Backups!NoBackupIsForgotten
<1> QED BY <1>6, <1>8, <1>9 DEF BInv

LEMMA ListHolds == ASSUME Prudent, BInv, Backups!List PROVE BInv'
<1>1. loop.at = "list" /\ UNCHANGED <<now, store, kept, bin, last, failing, destroyed>>
  BY DEF Backups!List
<1>2. /\ last = -1 /\ Named(kept, bin) \subseteq loop.claimed
      /\ loop.claimed \cap DOMAIN store \subseteq Named(kept, bin)
  BY <1>1, Parts DEF Placed
<1> DEFINE d == DOMAIN store \ loop.claimed
<1>3. d \in SUBSET Nat /\ d \cap Named(kept, bin) = {} /\ d \subseteq DOMAIN store /\ DOMAIN store \subseteq d \cup Named(kept, bin)
  BY <1>2, Parts
<1> HIDE DEF d
<1>4. loop' \in Loops /\ loop'.at = "adopt" /\ loop'.todo = d
  <2>1. loop' = [loop EXCEPT !.at = "adopt", !.todo = d] /\ "adopt" \in Places
    BY DEF Backups!List, Places, d
  <2>2. loop \in Loops
    BY Parts
  <2> QED BY <1>3, <2>1, <2>2 DEF Loops
<1>5. Base'
  BY <1>1, <1>4, Parts, BaseLoop
<1>6. Placed(loop', now, store, kept, bin, last, failing, destroyed)
  BY <1>2, <1>3, <1>4 DEF Placed
<1>7. Placed(loop, now, store, kept, bin, last, failing, destroyed)'
  BY <1>1, <1>6
<1>8. Backups!NoBackupIsForgotten'
  BY <1>1, <1>2 DEF Backups!NoBackupIsForgotten
<1> QED BY <1>5, <1>7, <1>8 DEF BInv

LEMMA Looking == [Backups!Idle EXCEPT !.at = "look"] \in Loops /\ [Backups!Idle EXCEPT !.at = "look"].at = "look"
<1>1. "look" \in Places
  BY DEF Places
<1> QED BY <1>1, IdleIs, Goes

\* Rows under new names.
Filed(K) == {<<"dir", k>> : k \in K}

LEMMA RowsComeIn ==
  ASSUME NEW n \in Nat, NEW H, NEW t, NEW b, Sound(t, b, n, H), NEW K \in SUBSET (1..n), K \cap Named(t, b) = {},
         \A k \in K : Spared(k, H)
  PROVE  Sound(t \cup Filed(K), b, n, H) /\ Named(t \cup Filed(K), b) = Named(t, b) \cup K
<1> DEFINE R == Filed(K)
           u == t \cup R
<1>1. ASSUME NEW f \in R PROVE f \in {"dir", "out"} \X Nat /\ f[2] \in K /\ f = <<"dir", f[2]>>
  <2>1. PICK k \in K : f = <<"dir", k>>
    BY DEF Filed
  <2> QED BY <2>1
<1>2. ASSUME NEW k \in K PROVE \E f \in R : f[2] = k
  <2>1. <<"dir", k>> \in R /\ <<"dir", k>>[2] = k
    BY DEF Filed
  <2> QED BY <2>1
<1>3. u = t \cup R
  OBVIOUS
<1> HIDE DEF R, u
<1>4. \A f \in t \cup b : f[2] \notin K
  BY NamedIs
<1>5. u \in Rows1 /\ u \cap b = {}
  BY <1>1, <1>3, <1>4 DEF Sound, Rows1
<1>6. ASSUME NEW x \in u \cup b, NEW y \in u \cup b, x[2] = y[2] PROVE x = y
  <2>1. CASE x \in R /\ y \in R
    BY <1>1, <1>6, <2>1
  <2>2. CASE x \notin R /\ y \notin R
    BY <1>3, <1>6, <2>2 DEF Sound
  <2>3. CASE x \in R /\ y \notin R
    BY <1>1, <1>3, <1>4, <1>6, <2>3
  <2>4. CASE x \notin R /\ y \in R
    BY <1>1, <1>3, <1>4, <1>6, <2>4
  <2> QED BY <2>1, <2>2, <2>3, <2>4
<1>7. \A x \in u \cup b : x[2] \in 1..n /\ Spared(x[2], H)
  BY <1>1, <1>3 DEF Sound
<1>8. ASSUME NEW k PROVE k \in Named(u, b) <=> k \in Named(t, b) \cup K
  <2>1. k \in Named(u, b) <=> \E f \in u \cup b : f[2] = k
    BY NamedIs
  <2>2. k \in Named(t, b) <=> \E f \in t \cup b : f[2] = k
    BY NamedIs
  <2>3. k \in K <=> \E f \in R : f[2] = k
    BY <1>1, <1>2
  <2> QED BY <1>3, <2>1, <2>2, <2>3
<1>9. b \in Rows1
  BY DEF Sound
<1>10. Sound(u, b, n, H) /\ Named(u, b) = Named(t, b) \cup K
  BY <1>5, <1>6, <1>7, <1>8, <1>9 DEF Sound
<1> QED BY <1>10 DEF u, R

LEMMA RowsCome ==
  ASSUME now \in Nat, NEW H, Sound(kept, bin, now, H), loop.todo \in SUBSET (1..now),
         loop.todo \cap Named(kept, bin) = {}, \A k \in loop.todo : Spared(k, H)
  PROVE  Sound(kept \cup Filed(loop.todo), bin, now, H) /\ Named(kept \cup Filed(loop.todo), bin) = Named(kept, bin) \cup loop.todo
BY RowsComeIn

LEMMA AdoptHolds == ASSUME Prudent, BInv, Backups!Adopt PROVE BInv'
<1>1. /\ loop.at = "adopt" /\ kept' = kept \cup {<<"dir", k>> : k \in loop.todo}
      /\ UNCHANGED <<now, store, bin, last, failing, destroyed>>
  BY DEF Backups!Adopt
<1>2. /\ last = -1 /\ loop.todo \cap Named(kept, bin) = {} /\ loop.todo \subseteq DOMAIN store
      /\ DOMAIN store \subseteq loop.todo \cup Named(kept, bin)
  BY <1>1, Parts DEF Placed
<1>3. Held = DOMAIN store \cup destroyed /\ loop.todo \in SUBSET (1..now)
  BY <1>1, <1>2, Parts DEF Held, HeldBy
<1>4. loop' \in Loops /\ loop'.at = "look"
  BY Looking DEF Backups!Adopt
<1>5. Sound(kept', bin, now, Held) /\ Named(kept', bin) = Named(kept, bin) \cup loop.todo
  <2>1. \A k \in loop.todo : Spared(k, Held)
    BY <1>2, <1>3 DEF Spared
  <2>2. /\ Sound(kept \cup Filed(loop.todo), bin, now, Held)
        /\ Named(kept \cup Filed(loop.todo), bin) = Named(kept, bin) \cup loop.todo
    BY <1>2, <1>3, <2>1, Parts, RowsCome
  <2>3. kept' = kept \cup Filed(loop.todo)
    BY <1>1 DEF Filed
  <2> QED BY <2>2, <2>3
<1>6. Held' = Held
  BY <1>1, <1>3, <1>4 DEF Held, HeldBy
<1>7. Base'
  <2>1. Sound(kept, bin, now, Held)'
    BY <1>1, <1>5, <1>6
  <2>2. \A k \in DOMAIN store' : k \in DOMAIN store /\ store'[k] = store[k]
    BY <1>1
  <2>3. now' \in Nat /\ now <= now' /\ DOMAIN store' \subseteq 1..now' /\ destroyed' \subseteq 1..now'
    BY <1>1, Parts
  <2> QED BY <1>4, <1>6, <2>1, <2>2, <2>3, Parts, BaseLater
<1>8. DOMAIN store \subseteq Named(kept', bin)
  BY <1>2, <1>5
<1>9. Placed(loop', now, store, kept', bin, last, failing, destroyed)
  BY <1>2, <1>4, <1>8 DEF Placed
<1>10. Placed(loop, now, store, kept, bin, last, failing, destroyed)'
  BY <1>1, <1>9
<1>11. Backups!NoBackupIsForgotten'
  BY <1>1, <1>2 DEF Backups!NoBackupIsForgotten
<1> QED BY <1>7, <1>10, <1>11 DEF BInv

LEMMA AdoptFailsHolds == ASSUME Prudent, BInv, Backups!AdoptFails PROVE BInv'
<1>1. loop.at \in {"trash", "list", "adopt"} /\ failing' = TRUE /\ UNCHANGED <<now, store, kept, bin, last, destroyed>>
  BY DEF Backups!AdoptFails, Backups!Break
<1>2. loop' \in Loops /\ loop'.at = "look"
  BY Looking DEF Backups!AdoptFails
<1>3. last = -1
  BY <1>1, Parts DEF Placed
<1>4. Base'
  BY <1>1, <1>2, Parts, BaseLoop
<1>5. Placed(loop', now, store, kept, bin, last, TRUE, destroyed)
  BY <1>2, <1>3 DEF Placed
<1>6. Placed(loop, now, store, kept, bin, last, failing, destroyed)'
  BY <1>1, <1>5
<1>7. Backups!NoBackupIsForgotten'
  BY <1>1, <1>3 DEF Backups!NoBackupIsForgotten
<1> QED BY <1>4, <1>6, <1>7 DEF BInv

LEMMA LookHolds == ASSUME Prudent, BInv, Backups!Look PROVE BInv'
<1>1. loop.at = "look" /\ loop' = Backups!Idle /\ UNCHANGED <<now, store, kept, bin, failing, destroyed>>
  BY DEF Backups!Look
<1>2. failing \/ DOMAIN store \subseteq Named(kept, bin)
  BY <1>1, Parts DEF Placed
<1>3. loop' \in Loops /\ loop'.at = "idle"
  BY <1>1, IdleIs
<1>4. Base'
  BY <1>1, <1>3, Parts, BaseLoop
<1>5. Placed(loop, now, store, kept, bin, last, failing, destroyed)'
  BY <1>3, PlacedIdle
<1>6. Backups!NoBackupIsForgotten'
  BY <1>1, <1>2 DEF Backups!NoBackupIsForgotten, Named
<1> QED BY <1>4, <1>5, <1>6 DEF BInv

LEMMA LookFailsHolds == ASSUME Prudent, BInv, Backups!LookFails PROVE BInv'
<1>1. loop' = Backups!Idle /\ failing' = TRUE /\ UNCHANGED <<now, store, kept, bin, destroyed>>
  BY DEF Backups!LookFails, Backups!Break
<1>2. loop' \in Loops /\ loop'.at = "idle"
  BY <1>1, IdleIs
<1>3. Base'
  BY <1>1, <1>2, Parts, BaseLoop
<1>4. Placed(loop, now, store, kept, bin, last, failing, destroyed)'
  BY <1>2, PlacedIdle
<1>5. Backups!NoBackupIsForgotten'
  BY <1>1 DEF Backups!NoBackupIsForgotten
<1> QED BY <1>3, <1>4, <1>5 DEF BInv
-----------------------------------------------------------------------------
(* A backup, and the rotation.                                             *)

LEMMA BackUpHolds == ASSUME Prudent, BInv, Backups!BackUp PROVE BInv'
<1>1. /\ loop.at = "idle" /\ last # -1 /\ now \notin DOMAIN store \cup destroyed
      /\ UNCHANGED <<now, store, kept, bin, last, failing, destroyed>>
  BY DEF Backups!BackUp
<1>2. loop' \in Loops /\ loop'.at = "put" /\ loop'.key = now /\ loop'.copy = <<kept, bin>>
  <2>1. loop' = [Backups!Idle EXCEPT !.at = "put", !.key = now, !.copy = <<kept, bin>>] /\ "put" \in Places
    BY DEF Backups!BackUp, Backups!database, Places
  <2>2. Backups!Idle \in Loops /\ now \in Nat /\ <<kept, bin>> \in Rows1 \X Rows1
    BY IdleIs, Parts DEF Sound
  <2> QED BY <2>1, <2>2 DEF Loops
<1>3. Base'
  BY <1>1, <1>2, Parts, BaseLoop
<1>4. Sound(loop'.copy[1], loop'.copy[2], now, HeldBy(store, destroyed, loop')) /\ loop'.copy \in Rows1 \X Rows1
  <2>1. HeldBy(store, destroyed, loop') = Held
    BY <1>1, <1>2 DEF Held, HeldBy
  <2>2. Sound(kept, bin, now, Held) /\ kept \in Rows1 /\ bin \in Rows1
    BY Parts DEF Sound
  <2> QED BY <1>2, <2>1, <2>2
<1>5. Placed(loop', now, store, kept, bin, last, failing, destroyed)
  BY <1>1, <1>2, <1>4 DEF Placed
<1>6. Placed(loop, now, store, kept, bin, last, failing, destroyed)'
  BY <1>1, <1>5
<1>7. Backups!NoBackupIsForgotten'
  BY <1>1, Parts DEF Backups!NoBackupIsForgotten
<1> QED BY <1>3, <1>6, <1>7 DEF BInv

LEMMA PutHolds == ASSUME Prudent, BInv, Backups!Put PROVE BInv'
<1>1. /\ loop.at = "put" /\ UNCHANGED <<now, kept, bin, last, failing, destroyed>>
      /\ store' = [k \in DOMAIN store \cup {loop.key} |-> IF k = loop.key THEN loop.copy ELSE store[k]]
  BY DEF Backups!Put
<1>2. /\ last # -1 /\ loop.key = now /\ now \notin destroyed /\ now \notin DOMAIN store
      /\ loop.copy \in Rows1 \X Rows1 /\ Sound(loop.copy[1], loop.copy[2], now, Held)
  BY <1>1, Parts DEF Placed, Held
<1>3. loop' \in Loops /\ loop'.at = "file" /\ loop'.key = now
  <2>1. loop' = [loop EXCEPT !.at = "file"] /\ "file" \in Places /\ loop \in Loops
    BY Parts DEF Backups!Put, Places
  <2> QED BY <1>2, <2>1 DEF Loops
<1>4. DOMAIN store' = DOMAIN store \cup {now} /\ store'[now] = loop.copy /\ \A k \in DOMAIN store : store'[k] = store[k]
  BY <1>1, <1>2
<1>5. Held' = Held
  BY <1>1, <1>2, <1>3, <1>4 DEF Held, HeldBy
<1>6. Base'
  <2>1. Sound(kept, bin, now, Held)'
    BY <1>1, <1>5, Parts
  <2>2. ASSUME NEW k \in DOMAIN store'
        PROVE  \/ k \in DOMAIN store /\ store'[k] = store[k]
               \/ store'[k] \in Rows1 \X Rows1 /\ Sound(store'[k][1], store'[k][2], now', Held')
    BY <1>1, <1>2, <1>4, <1>5
  <2>3. now \in 1..now
    BY Parts
  <2>4. now' \in Nat /\ now <= now' /\ DOMAIN store' \subseteq 1..now' /\ destroyed' \subseteq 1..now'
    BY <1>1, <1>4, <2>3, Parts
  <2> QED BY <1>3, <1>5, <2>1, <2>2, <2>4, Parts, BaseLater
<1>7. Placed(loop', now, store', kept, bin, last, failing, destroyed)
  BY <1>2, <1>3, <1>4 DEF Placed
<1>8. Placed(loop, now, store, kept, bin, last, failing, destroyed)'
  BY <1>1, <1>7
<1>9. Backups!NoBackupIsForgotten'
  BY <1>1, <1>3, <1>4, Parts DEF Backups!NoBackupIsForgotten
<1> QED BY <1>6, <1>8, <1>9 DEF BInv

LEMMA RowComes ==
  ASSUME now \in Nat, NEW H, Sound(kept, bin, now, H), {now} \in SUBSET (1..now), {now} \cap Named(kept, bin) = {},
         \A k \in {now} : Spared(k, H)
  PROVE  Sound(kept \cup Filed({now}), bin, now, H) /\ Named(kept \cup Filed({now}), bin) = Named(kept, bin) \cup {now}
<1> DEFINE K == {now}
<1>1. K \in SUBSET (1..now) /\ K \cap Named(kept, bin) = {} /\ \A k \in K : Spared(k, H)
  OBVIOUS
<1> HIDE DEF K
<1>2. Sound(kept \cup Filed(K), bin, now, H) /\ Named(kept \cup Filed(K), bin) = Named(kept, bin) \cup K
  BY <1>1, RowsComeIn
<1> QED BY <1>2 DEF K

LEMMA FileHolds == ASSUME Prudent, BInv, Backups!File PROVE BInv'
<1>1. /\ loop.at = "file" /\ kept' = kept \cup {<<"dir", loop.key>>}
      /\ UNCHANGED <<now, store, bin, last, failing, destroyed>>
  BY DEF Backups!File
<1>2. last # -1 /\ loop.key = now /\ now \in DOMAIN store /\ now \notin Named(kept, bin)
  BY <1>1, Parts, FreshIsUnnamed DEF Placed
<1>3. loop' \in Loops /\ loop'.at = "rotate"
  <2>1. loop' = [loop EXCEPT !.at = "rotate"] /\ "rotate" \in Places /\ loop \in Loops
    BY Parts DEF Backups!File, Places
  <2> QED BY <2>1 DEF Loops
<1>4. Held' = DOMAIN store \cup destroyed /\ Held \subseteq Held'
  BY <1>1, <1>3 DEF Held, HeldBy
<1>5. Held' \in SUBSET (1..now) /\ {now} \in SUBSET (1..now)
  BY <1>2, <1>4, Parts
<1>6. Sound(kept \cup Filed({now}), bin, now, Held') /\ Named(kept \cup Filed({now}), bin) = Named(kept, bin) \cup {now}
  <2>1. now \in Nat /\ now <= now
    BY Parts
  <2>2. Sound(kept, bin, now, Held')
    BY <1>4, <1>5, <2>1, Parts, SoundMore
  <2>3. \A k \in {now} : Spared(k, Held')
    BY <1>2, <1>4 DEF Spared
  <2>4. {now} \cap Named(kept, bin) = {}
    BY <1>2
  <2> QED BY <1>5, <2>1, <2>2, <2>3, <2>4, RowComes
<1>7. kept' = kept \cup Filed({now})
  BY <1>1, <1>2 DEF Filed
<1>8. Base'
  <2>1. Sound(kept, bin, now, Held)'
    BY <1>1, <1>6, <1>7
  <2>2. \A k \in DOMAIN store' : k \in DOMAIN store /\ store'[k] = store[k]
    BY <1>1
  <2>3. now' \in Nat /\ now <= now' /\ DOMAIN store' \subseteq 1..now' /\ destroyed' \subseteq 1..now'
    BY <1>1, Parts
  <2> QED BY <1>3, <1>4, <2>1, <2>2, <2>3, Parts, BaseLater
<1>9. Placed(loop, now, store, kept, bin, last, failing, destroyed)'
  BY <1>1, <1>2, <1>3 DEF Placed
<1>10. Backups!NoBackupIsForgotten'
  <2>1. Named(kept', bin') = Named(kept, bin) \cup {now}
    BY <1>1, <1>6, <1>7
  <2>2. ASSUME NEW k \in DOMAIN store', k \notin Named(kept', bin')
        PROVE  k \in DOMAIN store /\ k \notin Named(kept, bin) /\ k # loop.key
    BY <1>1, <1>2, <2>1, <2>2
  <2> QED BY <1>1, <2>2, Parts DEF Backups!NoBackupIsForgotten, Named
<1> QED BY <1>8, <1>9, <1>10 DEF BInv

LEMMA BackUpFailsHolds == ASSUME Prudent, BInv, Backups!BackUpFails PROVE BInv'
<1>1. /\ loop.at \in {"put", "file"} /\ failing' = TRUE /\ loop' = Backups!Idle
      /\ UNCHANGED <<now, kept, bin, last, destroyed>> /\ store' \in {store, Backups!Without({loop.key})}
  BY DEF Backups!BackUpFails, Backups!Break
<1>2. /\ DOMAIN store' \subseteq DOMAIN store /\ \A k \in DOMAIN store' : store'[k] = store[k]
      /\ DOMAIN store \subseteq DOMAIN store' \cup {loop.key}
  <2>1. CASE store' = store
    BY <2>1
  <2>2. CASE store' = Backups!Without({loop.key})
    <3>1. /\ DOMAIN store' = DOMAIN store \ {loop.key}
          /\ \A k \in DOMAIN store \ {loop.key} : store'[k] = store[k]
      BY <2>2, WithoutIs
    <3> QED BY <3>1
  <2> QED BY <1>1, <2>1, <2>2
<1>3. DOMAIN store \subseteq DOMAIN store' \cup {loop.key}
  BY <1>2
<1>4. loop' \in Loops /\ loop'.at = "idle"
  BY <1>1, IdleIs
<1>5. loop.at = "put" => loop.key \notin DOMAIN store
  BY Parts DEF Placed
<1>6. Held \subseteq Held'
  <2>1. Held' = DOMAIN store' \cup destroyed
    BY <1>1, <1>4 DEF Held, HeldBy
  <2> QED BY <1>1, <1>3, <1>5, <2>1 DEF Held, HeldBy
<1>7. now \in Nat /\ now <= now /\ DOMAIN store' \subseteq 1..now /\ destroyed' \subseteq 1..now
  BY <1>1, <1>2, Parts
<1>8. Held' \in SUBSET (1..now)
  BY <1>7 DEF Held, HeldBy
<1>9. Sound(kept, bin, now, Held)'
  <2>1. Sound(kept, bin, now, Held')
    BY <1>6, <1>7, <1>8, Parts, SoundMore
  <2> QED BY <1>1, <2>1
<1>10. Base'
  <2>1. \A k \in DOMAIN store' : k \in DOMAIN store /\ store'[k] = store[k]
    BY <1>2
  <2> QED BY <1>1, <1>4, <1>6, <1>7, <1>9, <2>1, Parts, BaseLater
<1>11. Placed(loop, now, store, kept, bin, last, failing, destroyed)'
  BY <1>4, PlacedIdle
<1>12. Backups!NoBackupIsForgotten'
  BY <1>1 DEF Backups!NoBackupIsForgotten
<1> QED BY <1>10, <1>11, <1>12 DEF BInv

LEMMA PastKeptIs ==
  ASSUME NEW L, NEW k \in Backups!PastKept(L)
  PROVE  k \in L /\ Cardinality(Newer(k, L)) >= BackupsKept
<1> DEFINE C(i) == Backups!Cardinality({j \in L : j > i})
<1>1. Backups!PastKept(L) = {i \in L : Backups!Cardinality({j \in L : j > i}) >= BackupsKept}
  BY DEF Backups!PastKept
<1>2. Backups!PastKept(L) = {i \in L : C(i) >= BackupsKept}
  BY <1>1
<1> HIDE DEF C
<1>3. k \in L /\ C(k) >= BackupsKept
  BY <1>2
<1> QED BY <1>3, SameCardinality DEF C, Newer

\* What is past the ones that are kept has enough newer ones, rotated or not.
LEMMA PastKeptHaveNewer ==
  ASSUME Prudent, BInv, NEW k \in Backups!PastKept(Backups!Listed)
  PROVE  k \in 1..now /\ Cardinality(Newer(k, Held)) >= BackupsKept
<1> DEFINE L == Backups!Listed
<1>1. L \in SUBSET (1..now) /\ \A j \in L : Spared(j, Held)
  BY Parts DEF Sound, Backups!Listed
<1>2. now \in Nat /\ Held \in SUBSET (1..now)
  BY Parts, HeldRange
<1>3. k \in L /\ Cardinality(Newer(k, L)) >= BackupsKept
  BY PastKeptIs
<1> HIDE DEF L
<1>4. CASE Newer(k, L) \subseteq Held
  <2>1. Newer(k, L) \subseteq Newer(k, Held)
    BY <1>4 DEF Newer
  <2> QED BY <1>1, <1>2, <1>3, <2>1, MoreNewer
<1>5. CASE ~(Newer(k, L) \subseteq Held)
  <2>1. PICK j \in L : j > k /\ j \notin Held
    BY <1>5 DEF Newer
  <2>2. Cardinality(Newer(j, Held)) >= BackupsKept
    BY <1>1, <2>1 DEF Spared
  <2>3. ASSUME NEW i \in Newer(j, Held) PROVE i \in Newer(k, Held)
    <3>1. i \in Held /\ i \in 1..now /\ j \in 1..now /\ k \in 1..now /\ i > j /\ j > k
      BY <1>1, <1>2, <1>3, <2>1 DEF Newer
    <3>2. i > k
      BY <3>1
    <3> QED BY <3>1, <3>2 DEF Newer
  <2>4. Cardinality(Newer(k, Held)) >= BackupsKept
    BY <1>2, <2>2, <2>3, MoreNewer
  <2> QED BY <1>1, <1>3, <2>4
<1> QED BY <1>1, <1>3, <1>4, <1>5

LEMMA RotateHolds == ASSUME Prudent, BInv, Backups!Rotate PROVE BInv'
<1>1. loop.at = "rotate" /\ last # -1 /\ UNCHANGED <<now, store, kept, bin, last, failing, destroyed>>
  BY Parts DEF Backups!Rotate, Placed
<1> DEFINE d == Backups!PastKept(Backups!Listed)
<1>2. \A k \in d : k \in 1..now /\ Cardinality(Newer(k, Held)) >= BackupsKept
  BY PastKeptHaveNewer
<1>3. d \in SUBSET Nat
  BY <1>2, Parts
<1> HIDE DEF d
<1>4. loop' \in Loops /\ loop'.at = "drop" /\ loop'.todo = d
  <2>1. loop' = [loop EXCEPT !.at = "drop", !.todo = d] /\ "drop" \in Places /\ loop \in Loops
    BY Parts DEF Backups!Rotate, Places, d
  <2> QED BY <1>3, <2>1 DEF Loops
<1>5. Base'
  BY <1>1, <1>4, Parts, BaseLoop
<1>6. HeldBy(store, destroyed, loop') = Held
  BY <1>1, <1>4 DEF Held, HeldBy
<1>7. Placed(loop', now, store, kept, bin, last, failing, destroyed)
  BY <1>1, <1>2, <1>4, <1>6 DEF Placed
<1>8. Placed(loop, now, store, kept, bin, last, failing, destroyed)'
  BY <1>1, <1>7
<1>9. Backups!NoBackupIsForgotten'
  BY <1>1, Parts DEF Backups!NoBackupIsForgotten
<1> QED BY <1>5, <1>8, <1>9 DEF BInv

\* The loop is done, and there is an error or nothing new.
LEMMA LandedHolds ==
  ASSUME Prudent, BInv, loop.at \in {"rotate", "drop", "blob"}, loop' = Backups!Idle, now' = now,
         UNCHANGED <<store, kept, bin, destroyed>>,
         failing' \/ (loop.at = "drop" /\ failing' = failing)
  PROVE  BInv'
<1>1. loop' \in Loops /\ loop'.at = "idle"
  BY IdleIs
<1>2. Base'
  BY <1>1, Parts, BaseLoop
<1>3. Placed(loop, now, store, kept, bin, last, failing, destroyed)'
  BY <1>1, PlacedIdle
<1>4. last # -1
  BY Parts DEF Placed
<1>5. Backups!NoBackupIsForgotten'
  BY <1>4, Parts DEF Backups!NoBackupIsForgotten
<1> QED BY <1>2, <1>3, <1>5 DEF BInv

\* The oldest to drop is one of them.
LEMMA OldestIs ==
  ASSUME Prudent, BInv, loop.at \in {"drop", "blob"}, loop.todo # {}
  PROVE  /\ Backups!Max(loop.todo) \in loop.todo /\ Backups!Max(loop.todo) \in 1..now
         /\ Cardinality(Newer(Backups!Max(loop.todo), Held)) >= BackupsKept
<1>1. \A k \in loop.todo : k \in 1..now /\ Cardinality(Newer(k, Held)) >= BackupsKept
  BY Parts DEF Placed, Held
<1>2. now \in Nat
  BY Parts
<1>3. loop.todo \in SUBSET (0..now)
  BY <1>1, <1>2
<1>4. Backups!Max(loop.todo) \in loop.todo
  BY <1>2, <1>3, Largest
<1> QED BY <1>1, <1>4

LEMMA RowDropped ==
  ASSUME Prudent, BInv, loop.at = "drop", loop.todo # {}, <<"dir", Backups!Max(loop.todo)>> \in kept,
         kept' = kept \ {<<"dir", Backups!Max(loop.todo)>>}, loop' = [loop EXCEPT !.at = "blob"],
         UNCHANGED <<now, store, bin, last, failing, destroyed>>
  PROVE  BInv'
<1> DEFINE m == Backups!Max(loop.todo)
           old == <<"dir", m>>
<1>1. old \in kept /\ old[2] = m /\ kept' = kept \ {old}
  OBVIOUS
<1> HIDE DEF old
<1>2. Sound(kept, bin, now, Held)
  BY Parts
<1>3. Sound(kept', bin, now, Held)
  BY <1>1, <1>2 DEF Sound, Rows1
<1>4. m \notin Named(kept', bin)
  <2>1. \A f \in kept' \cup bin : f[2] # m
    BY <1>1, <1>2 DEF Sound
  <2> QED BY <2>1, NamedIs
<1>5. \A k : k \in Named(kept, bin) => k = m \/ k \in Named(kept', bin)
  BY <1>1, NamedIs
<1>6. loop' \in Loops /\ loop'.at = "blob" /\ loop'.todo = loop.todo
  <2>1. "blob" \in Places /\ loop \in Loops
    BY Parts DEF Places
  <2> QED BY <2>1 DEF Loops
<1>7. Held' = Held
  BY <1>6 DEF Held, HeldBy
<1>8. Base'
  <2>1. Sound(kept, bin, now, Held)'
    BY <1>3, <1>7
  <2>2. \A k \in DOMAIN store' : k \in DOMAIN store /\ store'[k] = store[k]
    OBVIOUS
  <2>3. now' \in Nat \ {0} /\ now <= now' /\ DOMAIN store' \subseteq 1..now' /\ destroyed' \subseteq 1..now'
    BY Parts
  <2> QED BY <1>6, <1>7, <2>1, <2>2, <2>3, Parts, BaseLater
<1>9. Placed(loop', now, store, kept', bin, last, failing, destroyed)
  <2>1. /\ last # -1
        /\ \A k \in loop.todo : k \in 1..now /\ Cardinality(Newer(k, Held)) >= BackupsKept
    BY Parts DEF Placed, Held
  <2>2. HeldBy(store, destroyed, loop') = Held
    BY <1>6 DEF Held, HeldBy
  <2> QED BY <1>4, <1>6, <2>1, <2>2 DEF Placed
<1>10. Placed(loop, now, store, kept, bin, last, failing, destroyed)'
  BY <1>9
<1>11. Backups!NoBackupIsForgotten'
  <2>1. ASSUME NEW k \in DOMAIN store', k \notin Named(kept', bin')
        PROVE  k \in DOMAIN store /\ (k = m \/ k \notin Named(kept, bin))
    BY <1>5, <2>1
  <2>2. ASSUME NEW k \in DOMAIN store, k \notin Named(kept, bin) PROVE last = -1 \/ failing
    BY <2>2, Parts DEF Backups!NoBackupIsForgotten, Named
  <2> HIDE DEF m
  <2>3. m = Backups!Max(loop'.todo)
    BY <1>6 DEF m
  <2> QED BY <1>6, <2>1, <2>2, <2>3 DEF Backups!NoBackupIsForgotten, Named
<1> QED BY <1>8, <1>10, <1>11 DEF BInv

LEMMA DropRowHolds == ASSUME Prudent, BInv, Backups!DropRow PROVE BInv'
<1>1. loop.at = "drop" /\ UNCHANGED <<now, store, bin, destroyed>>
  BY DEF Backups!DropRow
<1>2. CASE loop.todo = {}
  <2>1. loop' = Backups!Idle /\ UNCHANGED <<kept, failing>>
    BY <1>2 DEF Backups!DropRow, Backups!Landed, Backups!NoBreak
  <2> QED BY <1>1, <2>1, LandedHolds
<1>3. CASE loop.todo # {} /\ <<"dir", Backups!Max(loop.todo)>> \in kept
  <2>1. /\ kept' = kept \ {<<"dir", Backups!Max(loop.todo)>>} /\ loop' = [loop EXCEPT !.at = "blob"]
        /\ UNCHANGED <<last, failing>>
    BY <1>3 DEF Backups!DropRow, Backups!NoBreak
  <2> QED BY <1>1, <1>3, <2>1, RowDropped
<1>4. CASE loop.todo # {} /\ ~(<<"dir", Backups!Max(loop.todo)>> \in kept)
  <2>1. loop' = Backups!Idle /\ failing' = TRUE /\ UNCHANGED kept
    BY <1>4 DEF Backups!DropRow, Backups!Landed
  <2> QED BY <1>1, <2>1, LandedHolds
<1> QED BY <1>2, <1>3, <1>4

LEMMA DropFailsHolds == ASSUME Prudent, BInv, Backups!DropFails PROVE BInv'
<1>1. /\ loop.at \in {"rotate", "drop", "blob"} /\ loop' = Backups!Idle /\ failing' = TRUE
      /\ UNCHANGED <<now, store, kept, bin, destroyed>>
  BY DEF Backups!DropFails, Backups!Landed, Backups!Break
<1> QED BY <1>1, LandedHolds

\* A blob goes that no row names, and enough newer ones are held.
LEMMA BlobDropped ==
  ASSUME Prudent, BInv, Backups!DropBlob
  PROVE  /\ Backups!Max(loop.todo) \notin Named(kept, bin)
         /\ Backups!Max(loop.todo) \in loop.todo /\ Backups!Max(loop.todo) \in 1..now
         /\ Cardinality(Newer(Backups!Max(loop.todo), Held)) >= BackupsKept
         /\ DOMAIN store' = DOMAIN store \ {Backups!Max(loop.todo)}
         /\ \A k \in DOMAIN store' : store'[k] = store[k]
         /\ Held \ {Backups!Max(loop.todo)} \subseteq Held' /\ Held = DOMAIN store \cup destroyed
         /\ loop' \in Loops /\ loop'.at = "drop" /\ loop'.todo = loop.todo \ {Backups!Max(loop.todo)}
<1> DEFINE m == Backups!Max(loop.todo)
<1>1. loop.at = "blob" /\ destroyed' = destroyed /\ store' = Backups!Without({m})
  BY DEF Backups!DropBlob
<1>2. loop' = [loop EXCEPT !.at = "drop", !.todo = loop.todo \ {m}]
  BY DEF Backups!DropBlob
<1>3. loop.todo # {} /\ m \notin Named(kept, bin)
  BY <1>1, Parts DEF Placed
<1>4. m \in loop.todo /\ m \in 1..now /\ Cardinality(Newer(m, Held)) >= BackupsKept
  BY <1>1, <1>3, OldestIs
<1> HIDE DEF m
<1>5. DOMAIN store' = DOMAIN store \ {m} /\ \A k \in DOMAIN store' : store'[k] = store[k]
  BY <1>1, WithoutIs
<1>6. loop' \in Loops /\ loop'.at = "drop" /\ loop'.todo = loop.todo \ {m}
  <2>1. "drop" \in Places /\ loop \in Loops
    BY Parts DEF Places
  <2> QED BY <1>2, <2>1 DEF Loops
<1>7. Held = DOMAIN store \cup destroyed /\ Held' = DOMAIN store' \cup destroyed
  BY <1>1, <1>6 DEF Held, HeldBy
<1>8. Held \ {m} \subseteq Held'
  BY <1>5, <1>7
<1> QED BY <1>3, <1>4, <1>5, <1>6, <1>7, <1>8 DEF m

LEMMA DropBlobHolds == ASSUME Prudent, BInv, Backups!DropBlob PROVE BInv'
<1> DEFINE m == Backups!Max(loop.todo)
<1>1. /\ m \in loop.todo /\ m \in 1..now /\ Cardinality(Newer(m, Held)) >= BackupsKept
      /\ DOMAIN store' = DOMAIN store \ {m} /\ \A k \in DOMAIN store' : store'[k] = store[k]
      /\ Held \ {m} \subseteq Held' /\ Held = DOMAIN store \cup destroyed
      /\ loop' \in Loops /\ loop'.at = "drop" /\ loop'.todo = loop.todo \ {m}
  BY BlobDropped
<1>2. loop.at = "blob" /\ UNCHANGED <<now, kept, bin, last, failing, destroyed>>
  BY DEF Backups!DropBlob
<1>3. m = Backups!Max(loop.todo)
  OBVIOUS
<1> HIDE DEF m
<1>4. now \in Nat /\ Held \in SUBSET (1..now) /\ Held \ {m} \in SUBSET (1..now) /\ now <= now
  BY Parts, HeldRange
<1>5. DOMAIN store' \subseteq 1..now /\ destroyed' \subseteq 1..now
  BY <1>1, <1>2, Parts
<1>6. Held' \in SUBSET (1..now)
  BY <1>5 DEF Held, HeldBy
<1>7. ASSUME NEW t, NEW b, Sound(t, b, now, Held) PROVE Sound(t, b, now, Held')
  <2>1. Sound(t, b, now, Held \ {m})
    BY <1>1, <1>4, <1>7, SoundWithout
  <2> QED BY <1>1, <1>4, <1>6, <2>1, SoundMore
<1>8. Base'
  <2>1. Sound(kept, bin, now, Held)'
    BY <1>2, <1>7, Parts
  <2>2. ASSUME NEW k \in DOMAIN store'
        PROVE  store'[k] \in Rows1 \X Rows1 /\ Sound(store'[k][1], store'[k][2], now', Held')
    <3>1. k \in DOMAIN store /\ store'[k] = store[k]
      BY <1>1
    <3>2. store[k] \in Rows1 \X Rows1 /\ Sound(store[k][1], store[k][2], now, Held)
      BY <3>1, Parts DEF Base
    <3>3. Sound(store[k][1], store[k][2], now, Held')
      BY <1>7, <3>2
    <3> QED BY <1>2, <3>1, <3>2, <3>3
  <2>3. now' \in Nat \ {0} /\ DOMAIN store' \subseteq 1..now' /\ destroyed' \subseteq 1..now'
    BY <1>2, <1>5, Parts
  <2> QED BY <1>1, <2>1, <2>2, <2>3 DEF Base
<1>9. Placed(loop', now, store', kept, bin, last, failing, destroyed)
  <2>1. last # -1 /\ \A k \in loop.todo : k \in 1..now /\ Cardinality(Newer(k, Held)) >= BackupsKept
    BY <1>2, Parts DEF Placed, Held
  <2>2. ASSUME NEW k \in loop.todo PROVE k \in 1..now /\ Cardinality(Newer(k, Held')) >= BackupsKept
    <3>1. Cardinality(Newer(k, Held \ {m})) >= BackupsKept /\ k \in 1..now
      BY <1>1, <1>4, <2>1, EnoughWithout
    <3>2. Newer(k, Held \ {m}) \subseteq Newer(k, Held')
      BY <1>1 DEF Newer
    <3> QED BY <1>4, <1>6, <3>1, <3>2, MoreNewer
  <2>3. HeldBy(store', destroyed, loop') = Held'
    BY <1>2 DEF Held
  <2> QED BY <1>1, <2>1, <2>2, <2>3 DEF Placed
<1>10. Placed(loop, now, store, kept, bin, last, failing, destroyed)'
  BY <1>2, <1>9
<1>11. Backups!NoBackupIsForgotten'
  BY <1>1, <1>2, <1>3, Parts DEF Backups!NoBackupIsForgotten
<1> QED BY <1>8, <1>10, <1>11 DEF BInv
-----------------------------------------------------------------------------
(* The process stops, a database is put back, and the whole.               *)

LEMMA CrashHolds == ASSUME Prudent, BInv, Backups!Crash PROVE BInv'
<1>1. last' = -1 /\ loop' = Backups!Idle /\ UNCHANGED <<now, store, kept, bin, destroyed>>
  BY DEF Backups!Crash, Backups!Restart
<1>2. loop' \in Loops /\ loop'.at = "idle"
  BY <1>1, IdleIs
<1>3. Base'
  BY <1>1, <1>2, Parts, BaseLoop
<1>4. Placed(loop, now, store, kept, bin, last, failing, destroyed)'
  BY <1>2, PlacedIdle
<1>5. Backups!NoBackupIsForgotten'
  BY <1>1 DEF Backups!NoBackupIsForgotten
<1> QED BY <1>3, <1>4, <1>5 DEF BInv

LEMMA PutBackHolds == ASSUME Prudent, BInv, Backups!PutBack PROVE BInv'
<1>1. last' = -1 /\ loop' = Backups!Idle /\ UNCHANGED <<now, store, destroyed>>
  BY DEF Backups!PutBack, Backups!Restart
<1>2. PICK k \in DOMAIN store : kept' = store[k][1] /\ bin' = store[k][2]
  BY DEF Backups!PutBack
<1>3. loop' \in Loops /\ loop'.at = "idle"
  BY <1>1, IdleIs
<1>4. Held' = DOMAIN store \cup destroyed /\ Held \subseteq Held'
  BY <1>1, <1>3 DEF Held, HeldBy
<1>5. now \in Nat /\ now <= now /\ Held' \in SUBSET (1..now)
  BY <1>4, Parts
<1>6. Sound(store[k][1], store[k][2], now, Held)
  BY Parts DEF Base
<1>7. Sound(store[k][1], store[k][2], now, Held')
  BY <1>4, <1>5, <1>6, SoundMore
<1>8. Sound(kept, bin, now, Held)'
  BY <1>1, <1>2, <1>7
<1>9. Base'
  <2>1. \A j \in DOMAIN store' : j \in DOMAIN store /\ store'[j] = store[j]
    BY <1>1
  <2>2. now' \in Nat \ {0} /\ now <= now' /\ DOMAIN store' \subseteq 1..now' /\ destroyed' \subseteq 1..now'
    BY <1>1, Parts
  <2> QED BY <1>3, <1>4, <1>8, <2>1, <2>2, Parts, BaseLater
<1>10. Placed(loop, now, store, kept, bin, last, failing, destroyed)'
  BY <1>3, PlacedIdle
<1>11. Backups!NoBackupIsForgotten'
  BY <1>1 DEF Backups!NoBackupIsForgotten
<1> QED BY <1>9, <1>10, <1>11 DEF BInv

LEMMA BackupsNextHolds == ASSUME Prudent, BInv, Backups!Next PROVE BInv'
BY TickHolds, ReadLiveHolds, ReadTrashHolds, ListHolds, AdoptHolds, AdoptFailsHolds, LookHolds, LookFailsHolds, BackUpHolds,
   PutHolds, FileHolds, BackUpFailsHolds, RotateHolds, DropRowHolds, DropBlobHolds, DropFailsHolds, CrashHolds,
   PutBackHolds, MoveHolds, TrashHolds, RestoreHolds, DestroyHolds
   DEF Backups!Next

LEMMA BackupsInitHolds == ASSUME Backups!Init PROVE BInv
<1>1. /\ now = 1 /\ store = <<>> /\ kept = {} /\ bin = {} /\ destroyed = {} /\ loop = Backups!Idle
  BY DEF Backups!Init
<1>2. DOMAIN store = {}
  BY <1>1
<1>3. loop \in Loops /\ loop.at = "idle"
  BY <1>1, IdleIs
<1>4. Sound(kept, bin, now, Held)
  BY <1>1 DEF Sound, Rows1
<1>5. Base
  BY <1>1, <1>2, <1>3, <1>4 DEF Base
<1>6. Placed(loop, now, store, kept, bin, last, failing, destroyed)
  BY <1>3, PlacedIdle
<1> QED BY <1>2, <1>5, <1>6 DEF BInv, Backups!NoBackupIsForgotten

LEMMA BackupsStand == ASSUME BInv, UNCHANGED Backups!backupVars PROVE BInv'
<1>1. UNCHANGED <<now, store, kept, bin, last, loop, failing, destroyed>>
  BY DEF Backups!backupVars
<1>2. Held' = Held
  BY <1>1 DEF Held
<1>3. Base'
  BY <1>1, <1>2, Parts DEF Base
<1>4. Placed(loop, now, store, kept, bin, last, failing, destroyed)'
  BY <1>1, Parts
<1>5. Backups!NoBackupIsForgotten'
  BY <1>1, Parts DEF Backups!NoBackupIsForgotten
<1> QED BY <1>3, <1>4, <1>5 DEF BInv

\* The invariant of Backups: rows are one for each backup, and what a rotation
\* may drop has enough newer ones (backup.go).
THEOREM BackupsInvariant == ASSUME Prudent PROVE Backups!Spec => []BInv
<1>1. Backups!Init => BInv
  BY BackupsInitHolds
<1>2. BInv /\ [Backups!Next]_(Backups!backupVars) => BInv'
  BY BackupsNextHolds, BackupsStand
<1> QED BY <1>1, <1>2, PTL DEF Backups!Spec
-----------------------------------------------------------------------------
(* What it is for: the backups.                                            *)

\* What the rotation takes.
TakesTheOldest ==
  loop.at = "blob" /\ loop'.at = "drop" =>
    \A k \in DOMAIN store \ DOMAIN store' :
      /\ Backups!Cardinality({j \in DOMAIN store' \cup destroyed : j > k}) >= BackupsKept
      /\ k \notin Backups!Keys(kept \cup bin)

LEMMA BlobGoes == ASSUME Prudent, BInv, Backups!DropBlob PROVE TakesTheOldest
<1> DEFINE m == Backups!Max(loop.todo)
<1>1. /\ m \notin Named(kept, bin) /\ m \in 1..now /\ Cardinality(Newer(m, Held)) >= BackupsKept
      /\ DOMAIN store' = DOMAIN store \ {m} /\ Held = DOMAIN store \cup destroyed
  BY BlobDropped
<1> HIDE DEF m
<1> DEFINE G == DOMAIN store' \cup destroyed
<1>2. Newer(m, Held) \subseteq Newer(m, G)
  <2>1. ~(m > m)
    BY <1>1
  <2> QED BY <1>1, <2>1 DEF Newer
<1>3. now \in Nat /\ Held \in SUBSET (1..now) /\ G \in SUBSET (1..now)
  BY <1>1, Parts
<1>4. G = DOMAIN store' \cup destroyed
  OBVIOUS
<1> HIDE DEF G
<1>5. Cardinality(Newer(m, G)) >= BackupsKept
  BY <1>1, <1>2, <1>3, MoreNewer
<1>6. Newer(m, G) = {j \in DOMAIN store' \cup destroyed : j > m}
  BY <1>4 DEF Newer
<1>7. Backups!Cardinality({j \in DOMAIN store' \cup destroyed : j > m}) >= BackupsKept
  BY <1>5, <1>6, SameCardinality
<1>8. ASSUME NEW k \in DOMAIN store \ DOMAIN store' PROVE k = m
  BY <1>1
<1> QED BY <1>1, <1>7, <1>8 DEF TakesTheOldest, Named

LEMMA NothingElseRotates ==
  ASSUME Backups!Next, ~Backups!DropBlob, loop \in Loops
  PROVE  ~(loop.at = "blob" /\ loop'.at = "drop")
<1>1. Backups!Idle.at = "idle" /\ [Backups!Idle EXCEPT !.at = "look"].at = "look"
  BY IdleIs, Looking
<1>2. CASE \/ Backups!Tick \/ Backups!ReadLive \/ Backups!ReadTrash \/ Backups!List \/ Backups!Adopt
           \/ Backups!AdoptFails \/ Backups!Look \/ Backups!LookFails \/ Backups!BackUp \/ Backups!Put \/ Backups!File
           \/ Backups!BackUpFails \/ Backups!Rotate \/ Backups!DropRow
  BY <1>2 DEF Backups!Tick, Backups!ReadLive, Backups!ReadTrash, Backups!List, Backups!Adopt, Backups!AdoptFails,
     Backups!Look, Backups!LookFails, Backups!BackUp, Backups!Put, Backups!File, Backups!BackUpFails, Backups!Rotate,
     Backups!DropRow
<1>3. CASE Backups!DropFails \/ Backups!Crash \/ Backups!PutBack
  BY <1>1, <1>3 DEF Backups!DropFails, Backups!Landed, Backups!Crash, Backups!PutBack, Backups!Restart
<1>4. CASE Backups!Move \/ Backups!Trash \/ Backups!Restore \/ Backups!Destroy
  BY <1>4 DEF Backups!Move, Backups!Trash, Backups!Restore, Backups!Destroy
<1> QED BY <1>2, <1>3, <1>4 DEF Backups!Next

\* "a failure here costs room and never a backup" (backup.go:128), "AdoptBackups
\* files them on the next start" (collect.go:252): for any number of backups
\* that are kept, any doings of the user, errors, stops and databases put back,
\* if no restore comes between the reads of AdoptBackups.
THEOREM BackupsStayKept ==
  ASSUME Prudent
  PROVE  Backups!Spec => [](Backups!NoBackupIsForgotten /\ Backups!OneRowPerBackup) /\ Backups!RotationKeepsTheNewest
<1>1. Backups!Spec => []BInv
  BY BackupsInvariant
<1>2. BInv => Backups!NoBackupIsForgotten /\ Backups!OneRowPerBackup
  <2> SUFFICES ASSUME BInv PROVE Backups!NoBackupIsForgotten /\ Backups!OneRowPerBackup
    OBVIOUS
  <2>1. Sound(kept, bin, now, Held) /\ now \in Nat
    BY Parts
  <2>2. kept \cap bin = {}
    BY <2>1 DEF Sound
  <2>3. Cardinality(kept \cup bin) = Cardinality(Backups!Keys(kept) \cup Backups!Keys(bin))
    BY <2>1, SoundIsOneEach
  <2> QED BY <2>2, <2>3, SameCardinality, Parts DEF Backups!OneRowPerBackup
<1>3. BInv /\ [Backups!Next]_(Backups!backupVars) => [TakesTheOldest]_(Backups!backupVars)
  <2> SUFFICES ASSUME BInv, Backups!Next PROVE TakesTheOldest
    OBVIOUS
  <2>2. CASE Backups!DropBlob
    BY <2>2, BlobGoes
  <2>3. CASE ~Backups!DropBlob
    BY <2>3, NothingElseRotates, Parts DEF TakesTheOldest
  <2> QED BY <2>2, <2>3
<1> QED BY <1>1, <1>2, <1>3, PTL DEF Backups!Spec, Backups!RotationKeepsTheNewest, TakesTheOldest
-----------------------------------------------------------------------------
(* The inductive invariant of Migrations.                                  *)

\* A build knows a version that has a script.
Built == Builds \in [Servers -> 0..Len(Scripts)] /\ Scripts \in Seq(Seq({"ddl", "dml"}))

Rests == {"off", "lock", "read", "up", "failed", "refused"}
Running == {"read", "apply", "commit"}
Runs == [at : Rests \cup {"apply", "commit"}, version : Nat, step : Nat, tx : SUBSET (Nat \X Nat), auto : BOOLEAN]
Written(p) == {<<p.version, j>> : j \in 1..(p.step - 1)}

\* What run p of instance s has done: written and not committed, or on MySQL,
\* past a "ddl", in effect.
AtWork(s, p, b, sc, vs, la) ==
  /\ p.at = "lock" => b # "sqlite"
  /\ p.at \in Rests => p.tx = {}
  /\ p.at \in {"apply", "commit"} =>
       /\ p.version \in 1..Builds[s] /\ p.version <= la + 1
       /\ p.step \in 1..(Len(Scripts[p.version]) + 2)
       /\ p.at = "commit" <=> p.step = Len(Scripts[p.version]) + 2
       /\ p.auto => b = "mysql" /\ p.tx = {} /\ Written(p) \cap Migrations!Script(p.version) \subseteq sc
       /\ p.auto /\ p.at = "commit" => p.version \in vs
       /\ ~p.auto => p.tx = Written(p)

\* No two write one thing, and what waits for its commit is not there.
TxApart(sv) == \A s, t \in Servers : sv[s].tx \cap sv[t].tx # {} => s = t
FirstToCommit(sv, b, vs) == b # "mysql" => \A s \in Servers : sv[s].at = "commit" => sv[s].version \notin vs

\* One runs at a time, as long as no run goes on without its lock.
OneRuns(sv, b, mi, c) ==
  /\ b = "sqlite" =>
       \A s, t \in Servers : sv[s].at \in Running /\ sv[t].at \notin {"off", "failed", "refused"} => s = t
  /\ b # "sqlite" /\ ~c => \A s \in Servers : sv[s].at \in Running => mi = {s}
InOrder(sv, b, c, la) ==
  b = "sqlite" \/ ~c =>
    \A s \in Servers :
      /\ sv[s].at = "apply" => sv[s].version = la + 1
      /\ sv[s].at = "commit" => sv[s].version = la + 1 \/ (sv[s].auto /\ sv[s].version = la)

\* As long as nothing went wrong, what is in effect beyond the versions was
\* written by a run that is under way.
NothingHalf(sv, sc, rec) ==
  \A w \in sc \ rec : \E s \in Servers : sv[s].at = "apply" /\ sv[s].auto /\ w \in Written(sv[s])

Schema ==
  /\ Migrations!Latest \in 0..Len(Scripts) /\ Migrations!VersionMeansSchema
  /\ stops \in Nat /\ (cut => stops # 0) /\ cut \in BOOLEAN
MInv ==
  /\ Schema /\ server \in [Servers -> Runs]
  /\ \A s \in Servers : AtWork(s, server[s], base, schema, versions, Migrations!Latest)
  /\ TxApart(server) /\ FirstToCommit(server, base, versions)
  /\ OneRuns(server, base, migrator, cut) /\ InOrder(server, base, cut, Migrations!Latest)
  /\ stops = 0 => NothingHalf(server, schema, Migrations!Recorded)
  /\ Migrations!NobodyFailsForAnother

LEMMA LatestOf == ASSUME NEW n \in Nat PROVE Migrations!Max((1..n) \cup {0}) = n
<1> DEFINE S == (1..n) \cup {0}
<1>1. n \in S /\ \A y \in S : n >= y /\ y \in Int
  OBVIOUS
<1> HIDE DEF S
<1>2. \E m \in S : \A y \in S : m >= y
  BY <1>1
<1>3. Migrations!Max(S) \in S /\ \A y \in S : Migrations!Max(S) >= y
  BY <1>2 DEF Migrations!Max
<1> DEFINE m == Migrations!Max(S)
<1>4. m \in S /\ m >= n
  BY <1>1, <1>3
<1>5. n >= m /\ m \in Int
  BY <1>1, <1>4
<1> HIDE DEF m
<1>6. m = n
  BY <1>4, <1>5
<1> QED BY <1>6 DEF S, m

LEMMA VersionsAre == ASSUME MInv PROVE versions = 1..Migrations!Latest /\ Migrations!Latest \in Nat
BY DEF MInv, Schema, Migrations!VersionMeansSchema

\* A version that is added is the next or one there is.
LEMMA VersionComes ==
  ASSUME NEW n \in Nat, NEW v \in 1..(n + 1)
  PROVE  Migrations!Max(((1..n) \cup {v}) \cup {0}) = IF v = n + 1 THEN v ELSE n
<1>1. CASE v = n + 1
  <2>1. ((1..n) \cup {v}) \cup {0} = (1..v) \cup {0} /\ v \in Nat
    BY <1>1
  <2> QED BY <1>1, <2>1, LatestOf
<1>2. CASE v # n + 1
  <2>1. ((1..n) \cup {v}) \cup {0} = (1..n) \cup {0}
    BY <1>2
  <2> QED BY <1>2, <2>1, LatestOf
<1> QED BY <1>1, <1>2

LEMMA OffIs ==
  ASSUME NEW a \in Rests
  PROVE  /\ [Migrations!Off EXCEPT !.at = a] \in Runs /\ [Migrations!Off EXCEPT !.at = a].at = a
         /\ [Migrations!Off EXCEPT !.at = a].tx = {}
<1>1. Migrations!Off = [at |-> "off", version |-> 0, step |-> 0, tx |-> {}, auto |-> FALSE]
  BY DEF Migrations!Off
<1> QED BY <1>1 DEF Runs

LEMMA GoIs ==
  ASSUME MInv, NEW s \in Servers, NEW a \in Rests, Migrations!Go(s, a)
  PROVE  /\ server' \in [Servers -> Runs] /\ server'[s].at = a /\ server'[s].tx = {}
         /\ \A t \in Servers \ {s} : server'[t] = server[t]
<1> DEFINE q == [Migrations!Off EXCEPT !.at = a]
<1>1. q \in Runs /\ q.at = a /\ q.tx = {}
  BY OffIs
<1>2. server' = [server EXCEPT ![s] = q]
  BY DEF Migrations!Go
<1> HIDE DEF q
<1> QED BY <1>1, <1>2 DEF MInv

\* An instance comes to rest, or on to read, and nothing else changes.
LEMMA GoHolds ==
  ASSUME MInv, NEW s \in Servers, NEW a \in Rests, Migrations!Go(s, a),
         UNCHANGED <<base, schema, versions, cut>>, stops' = stops \/ stops' = stops + 1,
         a = "lock" => base # "sqlite",
         stops' = 0 => a # "failed" /\ server[s].at # "apply",
         OneRuns(server, base, migrator, cut)'
  PROVE  MInv'
<1>1. /\ server' \in [Servers -> Runs] /\ server'[s].at = a /\ server'[s].tx = {}
      /\ \A t \in Servers \ {s} : server'[t] = server[t]
  BY GoIs
<1>2. Migrations!Latest' = Migrations!Latest /\ Migrations!Recorded' = Migrations!Recorded
  BY DEF Migrations!Latest, Migrations!Recorded
<1>3. Schema'
  BY <1>2 DEF MInv, Schema, Migrations!VersionMeansSchema
<1>4. ASSUME NEW t \in Servers
      PROVE  AtWork(t, server'[t], base, schema, versions, Migrations!Latest)
  <2>1. CASE t = s
    BY <1>1, <2>1 DEF AtWork, Rests
  <2>2. CASE t # s
    BY <1>1, <2>2 DEF MInv
  <2> QED BY <2>1, <2>2
<1>5. TxApart(server')
  BY <1>1 DEF MInv, TxApart
<1>6. FirstToCommit(server', base, versions)
  BY <1>1 DEF MInv, FirstToCommit, Rests
<1>7. InOrder(server', base, cut, Migrations!Latest)
  BY <1>1 DEF MInv, InOrder, Rests
<1>8. stops' = 0 => stops = 0
  BY DEF MInv, Schema
<1>9. ASSUME stops' = 0 PROVE NothingHalf(server', schema, Migrations!Recorded)
  BY <1>1, <1>8, <1>9 DEF MInv, NothingHalf
<1>10. Migrations!NobodyFailsForAnother'
  BY <1>1, <1>8 DEF MInv, Migrations!NobodyFailsForAnother
<1> QED BY <1>1, <1>2, <1>3, <1>4, <1>5, <1>6, <1>7, <1>9, <1>10 DEF MInv

LEMMA StartHolds == ASSUME MInv, NEW s \in Servers, Migrations!Start(s) PROVE MInv'
<1> DEFINE a == IF base = "sqlite" THEN "read" ELSE "lock"
<1>1. /\ server[s].at = "off" /\ Migrations!Go(s, a) /\ UNCHANGED <<base, schema, versions, migrator, stops, cut>>
      /\ base = "sqlite" => \A other \in Servers : server[other].at \in {"off", "failed", "refused"}
  BY DEF Migrations!Start
<1>2. a \in Rests /\ (a = "lock" => base # "sqlite") /\ a # "failed" /\ (base # "sqlite" => a \notin Running)
  BY DEF Rests, Running
<1> HIDE DEF a
<1>3. server'[s].at = a /\ \A t \in Servers \ {s} : server'[t] = server[t]
  BY <1>1, <1>2, GoIs
<1>4. OneRuns(server', base, migrator, cut)
  <2>1. CASE base = "sqlite"
    BY <1>1, <1>3, <2>1 DEF OneRuns, Running
  <2>2. CASE base # "sqlite"
    BY <1>1, <1>2, <1>3, <2>2 DEF MInv, OneRuns
  <2> QED BY <2>1, <2>2
<1>5. OneRuns(server, base, migrator, cut)'
  BY <1>1, <1>4
<1> QED BY <1>1, <1>2, <1>5, GoHolds

LEMMA LockMigrationsHolds == ASSUME MInv, NEW s \in Servers, Migrations!LockMigrations(s) PROVE MInv'
<1>1. /\ server[s].at = "lock" /\ migrator = {} /\ migrator' = {s} /\ Migrations!Go(s, "read")
      /\ UNCHANGED <<base, schema, versions, stops, cut>>
  BY DEF Migrations!LockMigrations, Migrations!LockIsFree
<1>2. "read" \in Rests
  BY DEF Rests
<1>3. server'[s].at = "read" /\ \A t \in Servers \ {s} : server'[t] = server[t]
  BY <1>1, <1>2, GoIs
<1>4. base # "sqlite"
  BY <1>1 DEF MInv, AtWork
<1>5. OneRuns(server', base, migrator', cut)
  BY <1>1, <1>3, <1>4 DEF MInv, OneRuns
<1>6. OneRuns(server, base, migrator, cut)'
  BY <1>1, <1>5
<1> QED BY <1>1, <1>2, <1>6, GoHolds

\* Who comes to rest gives the lock back.
LEMMA ReleaseIsFine ==
  ASSUME MInv, NEW s \in Servers, NEW a \in Rests \ Running, Migrations!Go(s, a), UNCHANGED <<base, cut>>,
         migrator' \in {migrator, migrator \ {s}}, a = "up" => server[s].at \in Running, a # "lock"
  PROVE  OneRuns(server, base, migrator, cut)'
<1>1. server'[s].at = a /\ \A t \in Servers \ {s} : server'[t] = server[t]
  BY GoIs
<1>2. ASSUME base = "sqlite", NEW x \in Servers, NEW y \in Servers,
             server'[x].at \in Running, server'[y].at \notin {"off", "failed", "refused"}
      PROVE  x = y
  <2>1. x # s /\ server'[x] = server[x]
    BY <1>1, <1>2
  <2>2. CASE y = s
    <3>1. a = "up"
      BY <1>1, <1>2, <2>2 DEF Rests, Running
    <3>2. server[s].at \notin {"off", "failed", "refused"}
      BY <3>1 DEF Running
    <3> QED BY <1>2, <2>1, <3>2 DEF MInv, OneRuns
  <2>3. CASE y # s
    BY <1>1, <1>2, <2>1, <2>3 DEF MInv, OneRuns
  <2> QED BY <2>2, <2>3
<1>3. ASSUME base # "sqlite", ~cut, NEW x \in Servers, server'[x].at \in Running PROVE migrator' = {x}
  <2>1. x # s /\ server'[x] = server[x]
    BY <1>1, <1>3
  <2>2. migrator = {x}
    BY <1>3, <2>1 DEF MInv, OneRuns
  <2> QED BY <2>1, <2>2
<1> QED BY <1>2, <1>3 DEF OneRuns

LEMMA LockTimesOutHolds == ASSUME MInv, NEW s \in Servers, Migrations!LockTimesOut(s) PROVE MInv'
<1>1. /\ Migrations!Go(s, "failed") /\ stops' = stops + 1 /\ UNCHANGED <<base, schema, versions, migrator, cut>>
  BY DEF Migrations!LockTimesOut, Migrations!Stop
<1>2. "failed" \in Rests \ Running
  BY DEF Rests, Running
<1>3. OneRuns(server, base, migrator, cut)'
  BY <1>1, <1>2, ReleaseIsFine
<1>4. stops' # 0
  BY <1>1 DEF MInv, Schema
<1> QED BY <1>1, <1>2, <1>3, <1>4, GoHolds

LEMMA FailHolds == ASSUME MInv, NEW s \in Servers, Migrations!Fail(s) PROVE MInv'
<1>1. /\ Migrations!Go(s, "failed") /\ stops' = stops + 1 /\ UNCHANGED <<base, schema, versions, cut>>
      /\ migrator' = migrator \ {s}
  BY DEF Migrations!Fail, Migrations!Stop, Migrations!Release
<1>2. "failed" \in Rests \ Running
  BY DEF Rests, Running
<1>3. OneRuns(server, base, migrator, cut)'
  BY <1>1, <1>2, ReleaseIsFine
<1>4. stops' # 0
  BY <1>1 DEF MInv, Schema
<1> QED BY <1>1, <1>2, <1>3, <1>4, GoHolds

LEMMA ExitHolds == ASSUME MInv, NEW s \in Servers, Migrations!Exit(s) PROVE MInv'
<1>1. /\ Migrations!Go(s, "off") /\ stops' = stops + 1 /\ UNCHANGED <<base, schema, versions, cut>>
      /\ migrator' = migrator \ {s}
  BY DEF Migrations!Exit, Migrations!Stop, Migrations!Release
<1>2. "off" \in Rests \ Running
  BY DEF Rests, Running
<1>3. OneRuns(server, base, migrator, cut)'
  BY <1>1, <1>2, ReleaseIsFine
<1>4. stops' # 0
  BY <1>1 DEF MInv, Schema
<1> QED BY <1>1, <1>2, <1>3, <1>4, GoHolds

\* A run begins the migration v.
Begins(s, v) == server' = [server EXCEPT ![s] = [Migrations!Off EXCEPT !.at = "apply", !.version = v, !.step = 1]]

LEMMA BeginsIs ==
  ASSUME MInv, NEW s \in Servers, NEW v \in Nat, Begins(s, v)
  PROVE  /\ server' \in [Servers -> Runs] /\ server'[s].at = "apply" /\ server'[s].version = v
         /\ server'[s].step = 1 /\ server'[s].tx = {} /\ ~server'[s].auto
         /\ \A t \in Servers \ {s} : server'[t] = server[t]
<1> DEFINE q == [Migrations!Off EXCEPT !.at = "apply", !.version = v, !.step = 1]
<1>1. Migrations!Off = [at |-> "off", version |-> 0, step |-> 0, tx |-> {}, auto |-> FALSE]
  BY DEF Migrations!Off
<1>2. q \in Runs /\ q.at = "apply" /\ q.version = v /\ q.step = 1 /\ q.tx = {} /\ ~q.auto
  BY <1>1 DEF Runs
<1>3. server' = [server EXCEPT ![s] = q]
  BY DEF Begins
<1> HIDE DEF q
<1> QED BY <1>2, <1>3 DEF MInv

LEMMA ScriptsAre ==
  ASSUME Built, NEW s \in Servers, NEW v \in 1..Builds[s]
  PROVE  /\ v \in DOMAIN Scripts /\ Len(Scripts[v]) \in Nat /\ DOMAIN Scripts[v] = 1..Len(Scripts[v])
         /\ Builds[s] \in 0..Len(Scripts)
<1>1. Builds[s] \in 0..Len(Scripts) /\ Len(Scripts) \in Nat /\ DOMAIN Scripts = 1..Len(Scripts)
  BY DEF Built
<1>2. v \in 1..Len(Scripts)
  BY <1>1
<1>3. Scripts[v] \in Seq({"ddl", "dml"})
  BY <1>1, <1>2 DEF Built
<1> QED BY <1>1, <1>2, <1>3

LEMMA BeginsAtWork ==
  ASSUME Built, NEW s \in Servers, NEW p \in Runs, NEW b, NEW sc, NEW vs, NEW la \in Nat,
         p.at = "apply", p.step = 1, p.tx = {}, ~p.auto, p.version \in 1..Builds[s], p.version <= la + 1
  PROVE  AtWork(s, p, b, sc, vs, la)
<1>1. Len(Scripts[p.version]) \in Nat
  BY ScriptsAre
<1>2. 1 \in 1..(Len(Scripts[p.version]) + 2) /\ 1 # Len(Scripts[p.version]) + 2
  BY <1>1
<1>3. Written(p) = {}
  BY DEF Written
<1> QED BY <1>2, <1>3 DEF AtWork, Rests

LEMMA ReadVersionHolds == ASSUME Built, MInv, NEW s \in Servers, Migrations!ReadVersion(s) PROVE MInv'
<1>1. server[s].at = "read" /\ UNCHANGED <<base, schema, versions, stops, cut>>
  BY DEF Migrations!ReadVersion
<1>2. ASSUME NEW a \in {"refused", "up"}, Migrations!Go(s, a), Migrations!Release(s) PROVE MInv'
  <2>1. a \in Rests \ Running /\ server[s].at \in Running /\ migrator' = migrator \ {s} /\ a # "lock" /\ a # "failed"
    BY <1>1, <1>2 DEF Rests, Running, Migrations!Release
  <2>2. OneRuns(server, base, migrator, cut)'
    BY <1>1, <1>2, <2>1, ReleaseIsFine
  <2> QED BY <1>1, <1>2, <2>1, <2>2, GoHolds
<1>3. CASE /\ Begins(s, Migrations!Latest + 1) /\ UNCHANGED migrator
           /\ ~(Migrations!Latest > Builds[s]) /\ Migrations!Latest # Builds[s]
  <2> DEFINE n == Migrations!Latest
  <2>1. n \in Nat /\ versions = 1..n /\ Builds[s] \in Nat
    BY VersionsAre DEF Built
  <2>2. n + 1 \in 1..Builds[s] /\ n + 1 \in Nat
    BY <1>3, <2>1
  <2>3. Migrations!Latest' = n /\ Migrations!Recorded' = Migrations!Recorded
    BY <1>1 DEF Migrations!Latest, Migrations!Recorded
  <2> HIDE DEF n
  <2>4. /\ server' \in [Servers -> Runs] /\ server'[s].at = "apply" /\ server'[s].version = n + 1
        /\ server'[s].step = 1 /\ server'[s].tx = {} /\ ~server'[s].auto
        /\ \A t \in Servers \ {s} : server'[t] = server[t]
    BY <1>3, <2>2, BeginsIs DEF n
  <2>5. Schema'
    BY <1>1, <2>3 DEF MInv, Schema, Migrations!VersionMeansSchema, n
  <2>6. ASSUME NEW t \in Servers PROVE AtWork(t, server'[t], base, schema, versions, n)
    <3>1. CASE t = s
      BY <2>1, <2>2, <2>4, <3>1, BeginsAtWork
    <3>2. CASE t # s
      BY <2>4, <3>2 DEF MInv, n
    <3> QED BY <3>1, <3>2
  <2>7. TxApart(server')
    BY <2>4 DEF MInv, TxApart
  <2>8. FirstToCommit(server', base, versions)
    BY <2>4 DEF MInv, FirstToCommit
  <2>9. OneRuns(server', base, migrator, cut)
    BY <1>1, <2>4 DEF MInv, OneRuns, Running
  <2>10. InOrder(server', base, cut, n)
    BY <2>4 DEF MInv, InOrder, n
  <2>11. ASSUME stops = 0 PROVE NothingHalf(server', schema, Migrations!Recorded)
    BY <1>1, <2>4, <2>11 DEF MInv, NothingHalf
  <2>12. Migrations!NobodyFailsForAnother'
    BY <1>1, <2>4 DEF MInv, Migrations!NobodyFailsForAnother
  <2> QED BY <1>1, <1>3, <2>3, <2>4, <2>5, <2>6, <2>7, <2>8, <2>9, <2>10, <2>11, <2>12 DEF MInv
<1> QED BY <1>2, <1>3 DEF Migrations!ReadVersion, Begins

LEMMA CutLockHolds == ASSUME MInv, NEW s \in Servers, Migrations!CutLock(s) PROVE MInv'
<1>1. cut' = TRUE /\ stops' = stops + 1 /\ UNCHANGED <<base, schema, versions, server>>
  BY DEF Migrations!CutLock, Migrations!Stop
<1>2. stops \in Nat /\ stops' # 0 /\ stops' \in Nat
  BY <1>1 DEF MInv, Schema
<1>3. Migrations!Latest' = Migrations!Latest /\ Migrations!Recorded' = Migrations!Recorded
  BY <1>1 DEF Migrations!Latest, Migrations!Recorded
<1>4. Schema'
  BY <1>1, <1>2, <1>3 DEF MInv, Schema, Migrations!VersionMeansSchema
<1>5. OneRuns(server, base, migrator', TRUE) /\ InOrder(server, base, TRUE, Migrations!Latest)
  BY DEF MInv, OneRuns, InOrder
<1>6. Migrations!NobodyFailsForAnother'
  BY <1>2 DEF Migrations!NobodyFailsForAnother
<1> QED BY <1>1, <1>2, <1>3, <1>4, <1>5, <1>6 DEF MInv
-----------------------------------------------------------------------------
(* Statements and versions.                                                *)

LEMMA ScriptIs ==
  ASSUME Built, NEW s \in Servers, NEW v \in 1..Builds[s]
  PROVE  \A w : w \in Migrations!Script(v) <=> \E k \in 1..Len(Scripts[v]) : w = <<v, k>>
<1>1. DOMAIN Scripts[v] = 1..Len(Scripts[v])
  BY ScriptsAre
<1> QED BY <1>1 DEF Migrations!Script

LEMMA ScriptIsOf == ASSUME NEW v, NEW w \in Migrations!Script(v) PROVE w[1] = v
BY DEF Migrations!Script

LEMMA WrittenIs ==
  ASSUME NEW p
  PROVE  \A w : w \in Written(p) <=> \E k \in 1..(p.step - 1) : w = <<p.version, k>>
BY DEF Written

LEMMA RecordedIs == \A w : w \in Migrations!Recorded <=> \E u \in versions : w \in Migrations!Script(u)
BY DEF Migrations!Recorded

\* What an instance has done stays so while others go on.
LEMMA AtWorkMore ==
  ASSUME NEW s, NEW p, NEW b, NEW sc, NEW sd, sc \subseteq sd, NEW vs, NEW vt, vs \subseteq vt,
         NEW la \in Nat, NEW lb \in Nat, la <= lb, AtWork(s, p, b, sc, vs, la), p \in Runs
  PROVE  AtWork(s, p, b, sd, vt, lb)
<1>1. p.version <= la + 1 => p.version <= lb + 1
  BY DEF Runs
<1> QED BY <1>1 DEF AtWork

\* A migration whose statements are in effect is recorded.
LEMMA Grown ==
  ASSUME Built, MInv, NEW v \in 1..(Migrations!Latest + 1), v <= Len(Scripts), versions' = versions \cup {v},
         schema \subseteq schema', schema' \subseteq schema \cup Migrations!Script(v),
         Migrations!Script(v) \subseteq schema', UNCHANGED <<base, stops, cut>>
  PROVE  /\ Schema' /\ Migrations!Recorded' = Migrations!Recorded \cup Migrations!Script(v)
         /\ Migrations!Latest' = (IF v = Migrations!Latest + 1 THEN v ELSE Migrations!Latest)
<1> DEFINE n == Migrations!Latest
           m == Migrations!Latest'
           R == Migrations!Recorded
           S(u) == Migrations!Script(u)
<1>1. n \in Nat /\ versions = 1..n /\ Len(Scripts) \in Nat /\ n <= Len(Scripts) /\ v \in 1..(n + 1)
  BY VersionsAre DEF MInv, Schema, Built
<1>2. m = IF v = n + 1 THEN v ELSE n
  <2>1. versions' \cup {0} = ((1..n) \cup {v}) \cup {0}
    BY <1>1
  <2>2. m = Migrations!Max(versions' \cup {0})
    BY DEF Migrations!Latest
  <2> HIDE DEF m
  <2>3. Migrations!Max(((1..n) \cup {v}) \cup {0}) = IF v = n + 1 THEN v ELSE n
    BY <1>1, VersionComes
  <2> QED BY <2>1, <2>2, <2>3
<1>3. Migrations!Recorded' = R \cup S(v)
  BY DEF Migrations!Recorded, Migrations!Script
<1>4. R \subseteq schema /\ schema \subseteq R \cup (IF base = "mysql" /\ n < Len(Scripts) THEN S(n + 1) ELSE {})
  BY DEF MInv, Schema, Migrations!VersionMeansSchema
<1> HIDE DEF n, m, S, R
<1>5. m \in 0..Len(Scripts) /\ versions' = 1..m
  <2>1. CASE v = n + 1
    BY <1>1, <1>2, <2>1
  <2>2. CASE v # n + 1
    BY <1>1, <1>2, <2>2
  <2> QED BY <2>1, <2>2
<1>6. schema' \subseteq Migrations!Recorded' \cup (IF base = "mysql" /\ m < Len(Scripts) THEN S(m + 1) ELSE {})
  <2>1. CASE v = n + 1
    <3>1. schema \subseteq R \cup S(v)
      BY <1>4, <2>1
    <3> QED BY <1>3, <3>1 DEF S
  <2>2. CASE v # n + 1
    <3>1. m = n /\ v \in versions
      BY <1>1, <1>2, <2>2 DEF n
    <3>2. S(v) \subseteq R
      BY <3>1, RecordedIs DEF S, R
    <3> QED BY <1>3, <1>4, <3>1, <3>2 DEF S
  <2> QED BY <2>1, <2>2
<1>7. Migrations!Recorded' \subseteq schema'
  BY <1>3, <1>4 DEF S
<1>8. Migrations!VersionMeansSchema'
  BY <1>5, <1>6, <1>7 DEF Migrations!VersionMeansSchema, m, S, Migrations!Script
<1>9. Schema'
  BY <1>5, <1>8 DEF Schema, MInv, m
<1> QED BY <1>2, <1>3, <1>9 DEF n, m, R, S

\* Nobody else is running, unless a run went on without its lock.
LEMMA OnlyOne ==
  ASSUME MInv, NEW s \in Servers, NEW t \in Servers, base = "sqlite" \/ ~cut,
         server[s].at \in Running, server[t].at \in Running
  PROVE  s = t
<1>1. CASE base = "sqlite"
  BY <1>1 DEF MInv, OneRuns, Running
<1>2. CASE base # "sqlite"
  BY <1>2 DEF MInv, OneRuns
<1> QED BY <1>1, <1>2

LEMMA CommitAdds ==
  ASSUME Built, MInv, NEW s \in Servers, Migrations!Commit(s)
  PROVE  /\ server[s].version \in 1..Builds[s] /\ server[s].version \in 1..(Migrations!Latest + 1)
         /\ Schema' /\ Migrations!Recorded' = Migrations!Recorded \cup Migrations!Script(server[s].version)
         /\ Migrations!Latest' = (IF server[s].version = Migrations!Latest + 1 THEN server[s].version ELSE Migrations!Latest)
         /\ schema \subseteq schema' /\ schema' \subseteq schema \cup Migrations!Script(server[s].version)
         /\ versions' = versions \cup {server[s].version}
<1> DEFINE v == server[s].version
           S == Migrations!Script(v)
<1>1. /\ server[s].at = "commit" /\ schema' = schema \cup (server[s].tx \cap S) /\ versions' = versions \cup {v}
      /\ UNCHANGED <<base, stops, cut>>
  BY DEF Migrations!Commit
<1>2. /\ v \in 1..Builds[s] /\ v <= Migrations!Latest + 1 /\ server[s].step = Len(Scripts[v]) + 2
      /\ server[s].auto => v \in versions
      /\ ~server[s].auto => server[s].tx = Written(server[s])
  BY <1>1 DEF MInv, AtWork
<1>3. Migrations!Latest \in Nat /\ Builds[s] <= Len(Scripts) /\ Builds[s] \in Nat /\ Len(Scripts[v]) \in Nat /\ Len(Scripts) \in Nat
  BY <1>2, VersionsAre, ScriptsAre DEF Built
<1>4. v \in 1..(Migrations!Latest + 1) /\ v <= Len(Scripts)
  BY <1>2, <1>3
<1>5. S \subseteq schema'
  <2>1. CASE server[s].auto
    BY <1>1, <1>2, <2>1, RecordedIs DEF MInv, Schema, Migrations!VersionMeansSchema
  <2>2. CASE ~server[s].auto
    <3>1. S \subseteq Written(server[s])
      <4>1. \A w : w \in S <=> \E k \in 1..Len(Scripts[v]) : w = <<v, k>>
        BY <1>2, ScriptIs
      <4>2. \A w : w \in Written(server[s]) <=> \E k \in 1..(server[s].step - 1) : w = <<v, k>>
        BY WrittenIs
      <4>3. 1..Len(Scripts[v]) \subseteq 1..(server[s].step - 1)
        BY <1>2, <1>3
      <4> HIDE DEF S, v
      <4> QED BY <4>1, <4>2, <4>3
    <3> QED BY <1>1, <1>2, <2>2, <3>1
  <2> QED BY <2>1, <2>2
<1> HIDE DEF v, S
<1>6. /\ Schema' /\ Migrations!Recorded' = Migrations!Recorded \cup Migrations!Script(v)
      /\ Migrations!Latest' = (IF v = Migrations!Latest + 1 THEN v ELSE Migrations!Latest)
  BY <1>1, <1>4, <1>5, Grown DEF S
<1> QED BY <1>1, <1>2, <1>4, <1>6 DEF v, S

LEMMA CommitHolds == ASSUME Built, MInv, NEW s \in Servers, Migrations!Commit(s) PROVE MInv'
<1> DEFINE v == server[s].version
           n == Migrations!Latest
           m == Migrations!Latest'
<1>1. /\ server[s].at = "commit" /\ versions' = versions \cup {v} /\ UNCHANGED <<base, stops, cut>>
      /\ v \in 1..Builds[s] /\ v \in 1..(n + 1) /\ Schema' /\ schema \subseteq schema'
      /\ schema' \subseteq schema \cup Migrations!Script(v)
      /\ Migrations!Recorded' = Migrations!Recorded \cup Migrations!Script(v)
      /\ m = (IF v = n + 1 THEN v ELSE n)
  BY CommitAdds DEF Migrations!Commit
<1>2. /\ n \in Nat /\ Builds[s] \in Nat /\ server \in [Servers -> Runs]
      /\ v = n + 1 \/ v = n \/ ~(base = "sqlite" \/ ~cut)
  BY <1>1, VersionsAre DEF MInv, Built, InOrder
<1>3. ASSUME \/ server'[s].at = "up" /\ server'[s].tx = {}
             \/ /\ server'[s].at = "apply" /\ server'[s].version = v + 1 /\ server'[s].step = 1 /\ server'[s].tx = {}
                /\ ~server'[s].auto /\ v # Builds[s],
             server' \in [Servers -> Runs], \A t \in Servers \ {s} : server'[t] = server[t],
             OneRuns(server, base, migrator, cut)'
      PROVE  MInv'
  <2> HIDE DEF m
  <2>1. m \in Nat /\ n <= m /\ v <= m
    BY <1>1, <1>2
  <2> HIDE DEF n, v
  <2>2. ASSUME NEW t \in Servers PROVE AtWork(t, server'[t], base, schema', versions', m)
    <3>1. CASE t = s /\ server'[s].at = "up"
      BY <1>3, <3>1 DEF AtWork, Rests
    <3>2. CASE t = s /\ server'[s].at # "up"
      <4>1. v + 1 \in 1..Builds[s] /\ v + 1 <= m + 1
        BY <1>1, <1>2, <1>3, <2>1, <3>2
      <4> QED BY <1>3, <2>1, <3>2, <4>1, BeginsAtWork
    <3>3. CASE t # s
      <4>1. AtWork(t, server[t], base, schema, versions, n) /\ server[t] \in Runs
        BY <1>2 DEF MInv, n
      <4>2. versions \subseteq versions'
        BY <1>1
      <4>3. AtWork(t, server[t], base, schema', versions', m)
        BY <1>1, <1>2, <2>1, <4>1, <4>2, AtWorkMore
      <4> QED BY <1>3, <3>3, <4>3
    <3> QED BY <3>1, <3>2, <3>3
  <2>3. TxApart(server')
    BY <1>3 DEF MInv, TxApart
  <2>4. FirstToCommit(server', base, versions')
    <3> SUFFICES ASSUME base # "mysql", NEW t \in Servers, server'[t].at = "commit" PROVE server'[t].version \notin versions'
      BY DEF FirstToCommit
    <3>1. t # s /\ server'[t] = server[t] /\ server[t].version \notin versions
      BY <1>3 DEF MInv, FirstToCommit
    <3>2. ASSUME server[t].version = v PROVE FALSE
      <4> DEFINE w == <<v, Len(Scripts[v]) + 1>>
      <4>1. /\ server[s].tx = Written(server[s]) /\ server[s].step = Len(Scripts[v]) + 2 /\ server[s].version = v
            /\ server[t].tx = Written(server[t]) /\ server[t].step = Len(Scripts[v]) + 2
        BY <1>1, <3>1, <3>2 DEF MInv, AtWork, v
      <4>2. Len(Scripts[v]) \in Nat
        BY <1>1, ScriptsAre
      <4>3. Len(Scripts[v]) + 1 \in 1..(Len(Scripts[v]) + 2 - 1)
        BY <4>2
      <4>4. w \in server[s].tx /\ w \in server[t].tx
        BY <3>2, <4>1, <4>3, WrittenIs
      <4> QED BY <3>1, <4>4 DEF MInv, TxApart
    <3> QED BY <1>1, <3>1, <3>2
  <2>5. InOrder(server', base, cut, m)
    <3> SUFFICES ASSUME base = "sqlite" \/ ~cut, NEW t \in Servers
                 PROVE  /\ server'[t].at = "apply" => server'[t].version = m + 1
                        /\ server'[t].at = "commit" => server'[t].version = m + 1 \/ (server'[t].auto /\ server'[t].version = m)
      BY DEF InOrder
    <3>1. CASE t = s
      <4>1. m = v
        BY <1>1, <1>2
      <4> QED BY <1>3, <3>1, <4>1
    <3>2. CASE t # s
      <4>1. server[t].at \notin Running
        BY <1>1, <3>2, OnlyOne DEF Running
      <4> QED BY <1>3, <3>2, <4>1 DEF Running
    <3> QED BY <3>1, <3>2
  <2>6. ASSUME stops = 0 PROVE NothingHalf(server', schema', Migrations!Recorded')
    <3> SUFFICES ASSUME NEW w \in schema' \ Migrations!Recorded'
                 PROVE  \E t \in Servers : server'[t].at = "apply" /\ server'[t].auto /\ w \in Written(server'[t])
      BY DEF NothingHalf
    <3>1. w \in schema \ Migrations!Recorded
      BY <1>1
    <3>2. PICK t \in Servers : server[t].at = "apply" /\ server[t].auto /\ w \in Written(server[t])
      BY <2>6, <3>1 DEF MInv, NothingHalf
    <3>3. server'[t] = server[t]
      BY <1>1, <1>3, <3>2
    <3> QED BY <3>2, <3>3
  <2>7. Migrations!NobodyFailsForAnother'
    BY <1>1, <1>3 DEF MInv, Migrations!NobodyFailsForAnother
  <2> QED BY <1>1, <1>3, <2>2, <2>3, <2>4, <2>5, <2>6, <2>7 DEF MInv, m
<1>4. CASE Migrations!Go(s, "up") /\ Migrations!Release(s)
  <2>1. "up" \in Rests \ Running /\ server[s].at \in Running /\ migrator' = migrator \ {s}
    BY <1>1, <1>4 DEF Rests, Running, Migrations!Release
  <2>2. OneRuns(server, base, migrator, cut)'
    BY <1>1, <1>4, <2>1, ReleaseIsFine
  <2>3. /\ server' \in [Servers -> Runs] /\ server'[s].at = "up" /\ server'[s].tx = {}
        /\ \A t \in Servers \ {s} : server'[t] = server[t]
    BY <1>4, <2>1, GoIs
  <2> QED BY <1>3, <2>2, <2>3
<1>5. CASE Begins(s, v + 1) /\ UNCHANGED migrator /\ v # Builds[s]
  <2>1. v + 1 \in Nat
    BY <1>1
  <2>2. /\ server' \in [Servers -> Runs] /\ server'[s].at = "apply" /\ server'[s].version = v + 1
        /\ server'[s].step = 1 /\ server'[s].tx = {} /\ ~server'[s].auto
        /\ \A t \in Servers \ {s} : server'[t] = server[t]
    BY <1>5, <2>1, BeginsIs
  <2>3. OneRuns(server', base, migrator, cut)
    BY <1>1, <2>2 DEF MInv, OneRuns, Running
  <2>4. OneRuns(server, base, migrator, cut)'
    BY <1>1, <1>5, <2>3
  <2> QED BY <1>3, <1>5, <2>2, <2>4
<1> QED BY <1>4, <1>5 DEF Migrations!Commit, Begins
-----------------------------------------------------------------------------
(* A statement.                                                            *)

\* Past a "ddl" of MySQL: what instance s executes now commits by itself.
IsDdl(s) ==
  server[s].step \in DOMAIN Scripts[server[s].version] /\ Scripts[server[s].version][server[s].step] = "ddl"
Alone(s) == base = "mysql" /\ (server[s].auto \/ IsDdl(s))
Last(s) == server[s].step > Len(Scripts[server[s].version])
Now(s) == <<server[s].version, server[s].step>>
Done(s) == IF Alone(s) THEN server[s].tx \cup {Now(s)} ELSE {}
Refused(s) == (IsDdl(s) /\ Now(s) \in schema) \/ (Last(s) /\ server[s].version \in versions)

LEMMA ExecIs ==
  ASSUME NEW s \in Servers, Migrations!Exec(s)
  PROVE  /\ server[s].at = "apply" /\ UNCHANGED <<base, stops, cut>>
         /\ \A t \in Servers \ {s} : Now(s) \notin server[t].tx
         /\ Refused(s) => Migrations!Go(s, "failed") /\ Migrations!Release(s) /\ UNCHANGED <<schema, versions>>
         /\ ~Refused(s) =>
              /\ schema' = schema \cup (Done(s) \ {<<v, Len(Scripts[v]) + 1>> : v \in DOMAIN Scripts})
              /\ versions' = IF Last(s) /\ Alone(s) THEN versions \cup {server[s].version} ELSE versions
              /\ server' = [server EXCEPT ![s].tx = IF Alone(s) THEN {} ELSE @ \cup {Now(s)}, ![s].auto = Alone(s),
                                          ![s].step = @ + 1, ![s].at = IF Last(s) THEN "commit" ELSE @]
              /\ UNCHANGED migrator
BY DEF Migrations!Exec, Migrations!Held, IsDdl, Alone, Last, Now, Done, Refused

\* Where the run is.
LEMMA ExecFrom ==
  ASSUME Built, MInv, NEW s \in Servers, server[s].at = "apply"
  PROVE  /\ server[s] \in Runs /\ server[s].version \in 1..Builds[s] /\ server[s].version <= Migrations!Latest + 1
         /\ Migrations!Latest \in Nat /\ versions = 1..Migrations!Latest
         /\ server[s].version \in DOMAIN Scripts /\ server[s].version \in 1..Len(Scripts) /\ Len(Scripts) \in Nat
         /\ Len(Scripts[server[s].version]) \in Nat
         /\ DOMAIN Scripts[server[s].version] = 1..Len(Scripts[server[s].version])
         /\ server[s].step \in 1..(Len(Scripts[server[s].version]) + 1)
         /\ server[s].auto => /\ base = "mysql" /\ server[s].tx = {}
                              /\ Written(server[s]) \cap Migrations!Script(server[s].version) \subseteq schema
         /\ ~server[s].auto => server[s].tx = Written(server[s])
<1>1. server[s] \in Runs /\ AtWork(s, server[s], base, schema, versions, Migrations!Latest)
  BY DEF MInv
<1>2. server[s].version \in 1..Builds[s] /\ server[s].version <= Migrations!Latest + 1
  BY <1>1 DEF AtWork
<1>3. /\ server[s].version \in DOMAIN Scripts /\ Len(Scripts[server[s].version]) \in Nat
      /\ DOMAIN Scripts[server[s].version] = 1..Len(Scripts[server[s].version])
      /\ Builds[s] \in 0..Len(Scripts)
  BY <1>2, ScriptsAre
<1>4. server[s].step \in 1..(Len(Scripts[server[s].version]) + 2) /\ server[s].step # Len(Scripts[server[s].version]) + 2
  BY <1>1 DEF AtWork
<1>5. server[s].step \in 1..(Len(Scripts[server[s].version]) + 1)
  BY <1>3, <1>4
<1>6. Len(Scripts) \in Nat /\ server[s].version \in 1..Len(Scripts)
  BY <1>2, <1>3 DEF Built
<1>7. Migrations!Latest \in Nat /\ versions = 1..Migrations!Latest
  BY VersionsAre
<1>8. /\ server[s].auto => /\ base = "mysql" /\ server[s].tx = {}
                           /\ Written(server[s]) \cap Migrations!Script(server[s].version) \subseteq schema
      /\ ~server[s].auto => server[s].tx = Written(server[s])
  BY <1>1 DEF AtWork
<1> QED BY <1>1, <1>2, <1>3, <1>5, <1>6, <1>7, <1>8

LEMMA ExecTo ==
  ASSUME Built, MInv, NEW s \in Servers, Migrations!Exec(s), ~Refused(s)
  PROVE  /\ server' \in [Servers -> Runs] /\ \A t \in Servers \ {s} : server'[t] = server[t]
         /\ server'[s].version = server[s].version /\ server'[s].step = server[s].step + 1
         /\ server'[s].auto = Alone(s) /\ server'[s].tx = (IF Alone(s) THEN {} ELSE server[s].tx \cup {Now(s)})
         /\ server'[s].at = (IF Last(s) THEN "commit" ELSE "apply")
<1> DEFINE p == server[s]
           a == Alone(s)
           q == [p EXCEPT !.tx = IF a THEN {} ELSE @ \cup {Now(s)}, !.auto = a, !.step = @ + 1,
                          !.at = IF Last(s) THEN "commit" ELSE @]
<1>1. p \in Runs /\ p.at = "apply" /\ server \in [Servers -> Runs]
  BY ExecIs DEF MInv
<1>2. server' = [server EXCEPT ![s] = q]
  <2> DEFINE X == [server EXCEPT ![s].tx = IF a THEN {} ELSE @ \cup {Now(s)}, ![s].auto = a,
                                 ![s].step = @ + 1, ![s].at = IF Last(s) THEN "commit" ELSE @]
  <2>1. server' = X
    BY ExecIs
  <2> HIDE DEF a
  <2>2. X = [server EXCEPT ![s] = q]
    BY <1>1 DEF Runs
  <2> QED BY <2>1, <2>2
<1>3. a \in BOOLEAN /\ Now(s) \in Nat \X Nat /\ p.step + 1 \in Nat
  BY <1>1 DEF Alone, Now, Runs
<1> HIDE DEF a
<1>4. /\ q \in Runs /\ q.version = p.version /\ q.step = p.step + 1 /\ q.auto = a
      /\ q.tx = (IF a THEN {} ELSE p.tx \cup {Now(s)}) /\ q.at = (IF Last(s) THEN "commit" ELSE "apply")
  BY <1>1, <1>3 DEF Runs
<1> HIDE DEF q, p
<1>5. server' \in [Servers -> Runs] /\ server'[s] = q /\ \A t \in Servers \ {s} : server'[t] = server[t]
  BY <1>1, <1>2, <1>4
<1> QED BY <1>4, <1>5 DEF a, p

\* What the statement has done, and what its run has after it.
LEMMA ExecWrites ==
  ASSUME Built, MInv, NEW s \in Servers, Migrations!Exec(s), ~Refused(s)
  PROVE  /\ schema \subseteq schema' /\ schema' \subseteq schema \cup (Done(s) \cap Migrations!Script(server[s].version))
         /\ Done(s) \subseteq Written(server'[s])
         /\ Written(server'[s]) = Written(server[s]) \cup {Now(s)}
         /\ server'[s].auto => Written(server'[s]) \cap Migrations!Script(server[s].version) \subseteq schema'
         /\ ~server'[s].auto => server'[s].tx = Written(server'[s]) /\ ~server[s].auto /\ schema' = schema
<1> DEFINE p == server[s]
           q == server'[s]
           v == p.version
           k == p.step
           L == Len(Scripts[v])
           After == {<<u, Len(Scripts[u]) + 1>> : u \in DOMAIN Scripts}
<1>1. /\ p.at = "apply" /\ schema' = schema \cup (Done(s) \ After) /\ q.version = v /\ q.step = k + 1 /\ q.auto = Alone(s)
      /\ q.tx = (IF Alone(s) THEN {} ELSE p.tx \cup {Now(s)})
  BY ExecIs, ExecTo
<1>2. /\ v \in 1..Builds[s] /\ v \in DOMAIN Scripts /\ L \in Nat /\ k \in 1..(L + 1)
      /\ p.auto => base = "mysql" /\ p.tx = {} /\ Written(p) \cap Migrations!Script(v) \subseteq schema
      /\ ~p.auto => p.tx = Written(p)
  BY <1>1, ExecFrom
<1>3. Now(s) = <<v, k>>
  BY DEF Now
<1> HIDE DEF L, k, v
<1>4. \A w : w \in Migrations!Script(v) <=> \E j \in 1..L : w = <<v, j>>
  BY <1>2, ScriptIs DEF L
<1>5. \A w : w \in Written(p) <=> \E j \in 1..(k - 1) : w = <<v, j>>
  BY WrittenIs DEF k, v
<1>6. \A w : w \in Written(q) <=> \E j \in 1..k : w = <<v, j>>
  BY <1>1, <1>2 DEF Written
<1>7. \A w : w \in Written(q) <=> w \in Written(p) \/ w = Now(s)
  BY <1>2, <1>3, <1>5, <1>6
<1>8. Written(q) = Written(p) \cup {Now(s)}
  BY <1>7
<1>9. Done(s) \subseteq Written(q)
  BY <1>2, <1>8 DEF Done
<1>10. \A j \in 1..L : <<v, j>> \notin After
  BY <1>2 DEF L
<1>11. <<v, L + 1>> \in After
  BY <1>2 DEF L
<1> HIDE DEF After
<1>12. Done(s) \ After \subseteq Done(s) \cap Migrations!Script(v)
  <2> SUFFICES ASSUME NEW w \in Done(s), w \notin After PROVE w \in Migrations!Script(v)
    OBVIOUS
  <2>1. PICK j \in 1..k : w = <<v, j>>
    BY <1>6, <1>9
  <2>2. j # L + 1
    BY <1>11, <2>1
  <2>3. j \in 1..L
    BY <1>2, <2>1, <2>2
  <2> QED BY <1>4, <2>1, <2>3
<1>13. ASSUME q.auto PROVE Written(q) \cap Migrations!Script(v) \subseteq schema'
  <2> SUFFICES ASSUME NEW w \in Written(q), w \in Migrations!Script(v) PROVE w \in schema'
    OBVIOUS
  <2>1. w \notin After
    BY <1>4, <1>10
  <2>2. CASE w = Now(s)
    BY <1>1, <1>13, <2>1, <2>2 DEF Done
  <2>3. CASE w \in Written(p) /\ p.auto
    BY <1>1, <1>2, <2>3
  <2>4. CASE w \in Written(p) /\ ~p.auto
    BY <1>1, <1>2, <1>13, <2>1, <2>4 DEF Done
  <2> QED BY <1>7, <2>2, <2>3, <2>4
<1>14. ASSUME ~q.auto PROVE q.tx = Written(q) /\ ~p.auto /\ schema' = schema
  <2>1. ~Alone(s) /\ Done(s) = {}
    BY <1>1, <1>14 DEF Done
  <2>2. ~p.auto
    BY <1>2, <2>1 DEF Alone
  <2> QED BY <1>1, <1>2, <1>8, <2>1, <2>2
<1> QED BY <1>1, <1>8, <1>9, <1>12, <1>13, <1>14 DEF v

\* The versions after it.
LEMMA ExecRecords ==
  ASSUME Built, MInv, NEW s \in Servers, Migrations!Exec(s), ~Refused(s)
  PROVE  /\ Schema' /\ Migrations!Latest' \in Nat /\ Migrations!Latest <= Migrations!Latest'
         /\ Last(s) /\ Alone(s) =>
              /\ server[s].version = Migrations!Latest + 1 /\ Migrations!Latest' = server[s].version
              /\ versions' = versions \cup {server[s].version}
              /\ Migrations!Recorded' = Migrations!Recorded \cup Migrations!Script(server[s].version)
         /\ ~(Last(s) /\ Alone(s)) =>
              versions' = versions /\ Migrations!Latest' = Migrations!Latest /\ Migrations!Recorded' = Migrations!Recorded
<1> DEFINE p == server[s]
           v == p.version
           n == Migrations!Latest
           S(u) == Migrations!Script(u)
<1>1. /\ p.at = "apply" /\ UNCHANGED <<base, stops, cut>>
      /\ versions' = IF Last(s) /\ Alone(s) THEN versions \cup {v} ELSE versions
  BY ExecIs
<1>2. /\ v \in 1..Builds[s] /\ v <= n + 1 /\ n \in Nat /\ versions = 1..n /\ v \in 1..Len(Scripts) /\ Len(Scripts) \in Nat
      /\ Len(Scripts[v]) \in Nat /\ p.step \in 1..(Len(Scripts[v]) + 1)
  BY <1>1, ExecFrom
<1>3. /\ schema \subseteq schema' /\ schema' \subseteq schema \cup S(v) /\ server'[s].auto = Alone(s)
      /\ server'[s].version = v /\ server'[s].step = p.step + 1
      /\ Alone(s) => Written(server'[s]) \cap S(v) \subseteq schema'
      /\ ~Alone(s) => schema' = schema
  BY ExecWrites, ExecTo
<1>4. CASE Last(s) /\ Alone(s)
  <2>1. v \notin versions /\ p.step = Len(Scripts[v]) + 1
    BY <1>2, <1>4 DEF Refused, Last
  <2>2. v = n + 1 /\ v \in 1..(n + 1) /\ v <= Len(Scripts)
    BY <1>2, <2>1
  <2>3. S(v) \subseteq Written(server'[s])
    <3> SUFFICES ASSUME NEW w \in Migrations!Script(v) PROVE w \in Written(server'[s])
      OBVIOUS
    <3>1. PICK k \in 1..Len(Scripts[v]) : w = <<v, k>>
      BY <1>2, ScriptIs
    <3>2. k \in 1..(server'[s].step - 1) /\ w = <<server'[s].version, k>>
      BY <1>2, <1>3, <2>1, <3>1
    <3> QED BY <3>2, WrittenIs
  <2>4. S(v) \subseteq schema' /\ versions' = versions \cup {v}
    BY <1>1, <1>3, <1>4, <2>3
  <2> HIDE DEF v, n
  <2>5. /\ Schema' /\ Migrations!Recorded' = Migrations!Recorded \cup Migrations!Script(v)
        /\ Migrations!Latest' = (IF v = Migrations!Latest + 1 THEN v ELSE Migrations!Latest)
    BY <1>1, <1>3, <2>2, <2>4, Grown DEF n
  <2>6. Migrations!Latest' = v /\ v = Migrations!Latest + 1 /\ Migrations!Latest \in Nat
    BY <1>2, <2>2, <2>5 DEF n
  <2>7. Migrations!Latest' \in Nat /\ Migrations!Latest <= Migrations!Latest'
    BY <2>6
  <2> QED BY <1>4, <2>4, <2>5, <2>6, <2>7 DEF v
<1>5. CASE ~(Last(s) /\ Alone(s))
  <2>1. versions' = versions
    BY <1>1, <1>5
  <2>2. Migrations!Latest' = n /\ Migrations!Recorded' = Migrations!Recorded
    BY <2>1 DEF Migrations!Latest, Migrations!Recorded
  <2> HIDE DEF v, n, S
  <2>3. /\ n \in 0..Len(Scripts) /\ versions = 1..n /\ Migrations!Recorded \subseteq schema
        /\ schema \subseteq Migrations!Recorded \cup (IF base = "mysql" /\ n < Len(Scripts) THEN S(n + 1) ELSE {})
    BY DEF MInv, Schema, Migrations!VersionMeansSchema, n, S
  <2>4. schema' \subseteq Migrations!Recorded \cup (IF base = "mysql" /\ n < Len(Scripts) THEN S(n + 1) ELSE {})
    <3>1. CASE ~Alone(s)
      BY <1>3, <2>3, <3>1
    <3>2. CASE Alone(s) /\ v = n + 1
      <4>1. base = "mysql" /\ n < Len(Scripts)
        BY <1>2, <3>2 DEF Alone
      <4> QED BY <1>3, <2>3, <3>2, <4>1
    <3>3. CASE v # n + 1
      <4>1. v \in versions
        BY <1>2, <3>3
      <4>2. S(v) \subseteq Migrations!Recorded
        BY <4>1, RecordedIs DEF S
      <4> QED BY <1>3, <2>3, <4>2
    <3> QED BY <3>1, <3>2, <3>3
  <2>5. Migrations!VersionMeansSchema'
    <3>1. /\ versions' = 1..Migrations!Latest' /\ Migrations!Recorded' \subseteq schema'
          /\ schema' \subseteq Migrations!Recorded' \cup (IF base' = "mysql" /\ Migrations!Latest' < Len(Scripts)
                                                       THEN S(Migrations!Latest' + 1) ELSE {})
      BY <1>1, <1>3, <2>1, <2>2, <2>3, <2>4
    <3> QED BY <3>1 DEF Migrations!VersionMeansSchema, S, Migrations!Script
  <2>6. Schema'
    BY <1>1, <2>2, <2>3, <2>5 DEF MInv, Schema, n
  <2> QED BY <1>2, <1>5, <2>1, <2>2, <2>6 DEF n
<1> QED BY <1>4, <1>5

\* A statement that is refused met a half of another run, which something cut.
LEMMA ExecRefused == ASSUME Built, MInv, NEW s \in Servers, Migrations!Exec(s), Refused(s) PROVE MInv'
<1>1. /\ server[s].at = "apply" /\ Migrations!Go(s, "failed") /\ migrator' = migrator \ {s}
      /\ UNCHANGED <<base, schema, versions, stops, cut>>
  BY ExecIs DEF Migrations!Release
<1>2. stops # 0
  <2> SUFFICES ASSUME stops = 0 PROVE FALSE
    OBVIOUS
  <2> DEFINE v == server[s].version
             n == Migrations!Latest
  <2>1. ~cut /\ v = n + 1
    BY <1>1 DEF MInv, Schema, InOrder
  <2>2. /\ n \in Nat /\ versions = 1..n /\ server[s].step \in 1..(Len(Scripts[v]) + 1) /\ Len(Scripts[v]) \in Nat
    BY <1>1, ExecFrom
  <2>3. v \notin versions
    BY <2>1, <2>2
  <2>4. IsDdl(s) /\ Now(s) \in schema
    BY <2>3 DEF Refused
  <2> HIDE DEF n
  <2>5. Now(s) \notin Migrations!Recorded
    <3> SUFFICES ASSUME NEW u \in versions, Now(s) \in Migrations!Script(u) PROVE FALSE
      BY RecordedIs
    <3>1. Now(s)[1] = u
      BY ScriptIsOf
    <3> QED BY <2>3, <3>1 DEF Now
  <2>6. PICK t \in Servers : server[t].at = "apply" /\ server[t].auto /\ Now(s) \in Written(server[t])
    BY <2>4, <2>5 DEF MInv, NothingHalf
  <2>7. t = s
    BY <1>1, <2>1, <2>6, OnlyOne DEF Running
  <2>8. PICK j \in 1..(server[s].step - 1) : Now(s) = <<v, j>>
    BY <2>6, <2>7, WrittenIs
  <2> QED BY <2>2, <2>8 DEF Now
<1>3. "failed" \in Rests \ Running
  BY DEF Rests, Running
<1>4. OneRuns(server, base, migrator, cut)'
  BY <1>1, <1>3, ReleaseIsFine
<1> QED BY <1>1, <1>2, <1>3, <1>4, GoHolds

LEMMA ExecHolds == ASSUME Built, MInv, NEW s \in Servers, Migrations!Exec(s) PROVE MInv'
<1>1. CASE Refused(s)
  BY <1>1, ExecRefused
<1>2. CASE ~Refused(s)
  <2> DEFINE p == server[s]
             q == server'[s]
             v == server[s].version
             n == Migrations!Latest
             m == Migrations!Latest'
             R == Migrations!Recorded
             L == Len(Scripts[server[s].version])
  <2>1. /\ p.at = "apply" /\ UNCHANGED <<base, stops, cut, migrator>>
        /\ \A t \in Servers \ {s} : Now(s) \notin server[t].tx
    BY <1>2, ExecIs
  <2>2. /\ p \in Runs /\ v \in 1..Builds[s] /\ v <= n + 1 /\ n \in Nat /\ versions = 1..n /\ L \in Nat
        /\ p.step \in 1..(L + 1) /\ v \in Nat
        /\ p.auto => base = "mysql" /\ p.tx = {}
    BY <2>1, ExecFrom
  <2>3. /\ server' \in [Servers -> Runs] /\ \A t \in Servers \ {s} : server'[t] = server[t]
        /\ q.version = v /\ q.step = p.step + 1 /\ q.auto = Alone(s) /\ q.tx = (IF Alone(s) THEN {} ELSE p.tx \cup {Now(s)})
        /\ q.at = (IF Last(s) THEN "commit" ELSE "apply")
    BY <1>2, ExecTo
  <2>4. /\ schema \subseteq schema' /\ schema' \subseteq schema \cup (Done(s) \cap Migrations!Script(v))
        /\ Done(s) \subseteq Written(q) /\ Written(q) = Written(p) \cup {Now(s)}
        /\ q.auto => Written(q) \cap Migrations!Script(v) \subseteq schema'
        /\ ~q.auto => q.tx = Written(q) /\ ~p.auto /\ schema' = schema
    BY <1>2, ExecWrites
  <2>5. /\ Schema' /\ m \in Nat /\ n <= m
        /\ Last(s) /\ Alone(s) => /\ v = n + 1 /\ m = v /\ versions' = versions \cup {v}
                                  /\ Migrations!Recorded' = R \cup Migrations!Script(v)
        /\ ~(Last(s) /\ Alone(s)) => versions' = versions /\ m = n /\ Migrations!Recorded' = R
    BY <1>2, ExecRecords
  <2>6. Last(s) <=> p.step = L + 1
    BY <2>2 DEF Last
  <2> HIDE DEF m
  <2>7. Alone(s) => base = "mysql"
    BY DEF Alone
  <2>8. Last(s) => v \notin versions
    BY <1>2 DEF Refused
  <2>9. \A t \in Servers : AtWork(t, server[t], base, schema, versions, n) /\ server[t] \in Runs
    BY DEF MInv
  <2> HIDE DEF n, R
  <2>10. ASSUME NEW t \in Servers PROVE AtWork(t, server'[t], base, schema', versions', m)
    <3>1. CASE t = s
      <4> HIDE DEF v, L
      <4>1. q.step \in 1..(L + 2) /\ (q.at = "commit" <=> q.step = L + 2)
        BY <2>2, <2>3, <2>6
      <4>2. q.version \in 1..Builds[s] /\ q.version <= m + 1 /\ q.at \in {"apply", "commit"}
        BY <2>2, <2>3, <2>5
      <4>3. q.auto /\ q.at = "commit" => q.version \in versions'
        BY <2>3, <2>5
      <4>4. q.auto => base = "mysql" /\ q.tx = {}
        BY <2>3, <2>7
      <4>5. L = Len(Scripts[q.version]) /\ v = q.version
        BY <2>3 DEF L, v
      <4> HIDE DEF q
      <4>6. AtWork(s, q, base, schema', versions', m)
        BY <2>4, <4>1, <4>2, <4>3, <4>4, <4>5 DEF AtWork, Rests
      <4> QED BY <3>1, <4>6 DEF q
    <3>2. CASE t # s
      <4>1. versions \subseteq versions'
        BY <2>5
      <4>2. AtWork(t, server[t], base, schema', versions', m)
        BY <2>2, <2>4, <2>5, <2>9, <4>1, AtWorkMore
      <4> QED BY <2>3, <3>2, <4>2
    <3> QED BY <3>1, <3>2
  <2>11. TxApart(server')
    BY <2>1, <2>3 DEF MInv, TxApart
  <2>12. FirstToCommit(server', base, versions')
    BY <2>3, <2>5, <2>7, <2>8 DEF MInv, FirstToCommit
  <2>13. OneRuns(server', base, migrator, cut)
    <3>1. \A t \in Servers : /\ server'[t].at \in Running => server[t].at \in Running
                             /\ server'[t].at \notin {"off", "failed", "refused"} => server[t].at \notin {"off", "failed", "refused"}
      BY <2>1, <2>3 DEF Running
    <3> QED BY <3>1 DEF MInv, OneRuns
  <2>14. InOrder(server', base, cut, m)
    <3> SUFFICES ASSUME base = "sqlite" \/ ~cut, NEW t \in Servers
                 PROVE  /\ server'[t].at = "apply" => server'[t].version = m + 1
                        /\ server'[t].at = "commit" => server'[t].version = m + 1 \/ (server'[t].auto /\ server'[t].version = m)
      BY DEF InOrder
    <3>1. v = n + 1
      BY <2>1 DEF MInv, InOrder, n
    <3>2. CASE t = s
      BY <2>3, <2>5, <3>1, <3>2
    <3>3. CASE t # s
      <4>1. server[t].at \notin Running
        BY <2>1, <3>3, OnlyOne DEF Running
      <4> QED BY <2>3, <3>3, <4>1 DEF Running
    <3> QED BY <3>2, <3>3
  <2>15. ASSUME stops = 0 PROVE NothingHalf(server', schema', Migrations!Recorded')
    <3> SUFFICES ASSUME NEW w \in schema', w \notin Migrations!Recorded'
                 PROVE  \E t \in Servers : server'[t].at = "apply" /\ server'[t].auto /\ w \in Written(server'[t])
      BY DEF NothingHalf
    <3>1. ~cut /\ w \notin R
      BY <2>5, <2>15 DEF MInv, Schema
    <3>2. CASE w \in schema
      <4>1. PICK t \in Servers : server[t].at = "apply" /\ server[t].auto /\ w \in Written(server[t])
        BY <2>15, <3>1, <3>2 DEF MInv, NothingHalf, R
      <4>2. t = s
        BY <2>1, <3>1, <4>1, OnlyOne DEF Running
      <4>3. q.auto /\ w \in Written(q)
        BY <2>4, <4>1, <4>2
      <4>4. ~Last(s)
        <5> SUFFICES ASSUME Last(s) PROVE FALSE
          OBVIOUS
        <5>1. PICK j \in 1..(p.step - 1) : w = <<v, j>>
          BY <4>1, <4>2, WrittenIs
        <5>2. j \in 1..L
          BY <2>2, <2>6, <5>1
        <5>3. w \in Migrations!Script(v)
          BY <2>2, <5>1, <5>2, ScriptIs
        <5> QED BY <2>3, <2>5, <4>3, <5>3
      <4> QED BY <2>3, <4>3, <4>4
    <3>3. CASE w \notin schema
      <4>1. w \in Done(s) /\ w \in Migrations!Script(v)
        BY <2>4, <3>3
      <4>2. q.auto /\ w \in Written(q)
        BY <2>4, <3>3, <4>1
      <4>3. ~Last(s)
        BY <2>3, <2>5, <4>1, <4>2
      <4> QED BY <2>3, <4>2, <4>3
    <3> QED BY <3>2, <3>3
  <2>16. Migrations!NobodyFailsForAnother'
    BY <2>1, <2>3 DEF MInv, Migrations!NobodyFailsForAnother
  <2> HIDE DEF p, q, v, L
  <2> QED BY <2>1, <2>3, <2>5, <2>10, <2>11, <2>12, <2>13, <2>14, <2>15, <2>16 DEF MInv, m
<1> QED BY <1>1, <1>2

LEMMA MigrationsInitHolds == ASSUME Built, Migrations!Init PROVE MInv
<1>1. /\ base \in {"sqlite", "mysql", "postgres"} /\ schema = {} /\ versions = {} /\ stops = 0 /\ cut = FALSE
      /\ server = [s \in Servers |-> Migrations!Off]
  BY DEF Migrations!Init
<1>2. Migrations!Off \in Runs /\ Migrations!Off.at = "off" /\ Migrations!Off.tx = {}
  BY DEF Migrations!Off, Runs, Rests
<1>3. versions \cup {0} = (1..0) \cup {0} /\ versions = 1..0
  BY <1>1
<1>4. Migrations!Latest = 0
  BY <1>3, LatestOf DEF Migrations!Latest
<1>5. server \in [Servers -> Runs] /\ \A s \in Servers : server[s].at = "off" /\ server[s].tx = {}
  BY <1>1, <1>2
<1>6. Schema
  <2>1. Migrations!Recorded = {} /\ Len(Scripts) \in Nat
    BY <1>1 DEF Migrations!Recorded, Built
  <2>2. 0 \in 0..Len(Scripts) /\ stops \in Nat /\ cut = FALSE
    BY <1>1, <2>1
  <2>3. Migrations!VersionMeansSchema
    BY <1>1, <1>3, <1>4, <2>1 DEF Migrations!VersionMeansSchema
  <2> QED BY <1>4, <2>2, <2>3 DEF Schema
<1>7. \A s \in Servers : AtWork(s, server[s], base, schema, versions, Migrations!Latest)
  BY <1>5 DEF AtWork
<1>8. TxApart(server) /\ FirstToCommit(server, base, versions) /\ OneRuns(server, base, migrator, cut)
  BY <1>5 DEF TxApart, FirstToCommit, OneRuns, Running
<1>9. InOrder(server, base, cut, Migrations!Latest) /\ NothingHalf(server, schema, Migrations!Recorded)
  BY <1>1, <1>5 DEF InOrder, NothingHalf
<1>10. Migrations!NobodyFailsForAnother
  BY <1>5 DEF Migrations!NobodyFailsForAnother
<1> QED BY <1>5, <1>6, <1>7, <1>8, <1>9, <1>10 DEF MInv

LEMMA MigrationStep == ASSUME Built, MInv, [Migrations!Next]_(Migrations!migrationVars) PROVE MInv'
<1>1. ASSUME UNCHANGED Migrations!migrationVars PROVE MInv'
  <2>1. UNCHANGED <<base, schema, versions, migrator, server, stops, cut>>
    BY <1>1 DEF Migrations!migrationVars
  <2>2. Migrations!Latest' = Migrations!Latest /\ Migrations!Recorded' = Migrations!Recorded
    BY <2>1 DEF Migrations!Latest, Migrations!Recorded
  <2> QED BY <2>1, <2>2 DEF MInv, Schema, Migrations!VersionMeansSchema, Migrations!NobodyFailsForAnother
<1>2. ASSUME Migrations!Next PROVE MInv'
  BY <1>2, StartHolds, LockMigrationsHolds, LockTimesOutHolds, ReadVersionHolds, ExecHolds, CommitHolds,
     FailHolds, ExitHolds, CutLockHolds DEF Migrations!Next
<1> QED BY <1>1, <1>2

\* The invariant of Migrations: what every run has written, and what it knows
\* of the version (db/migrate.go).
THEOREM MigrationsInvariant == ASSUME Built PROVE Migrations!Spec => []MInv
<1>1. Migrations!Init => MInv
  BY MigrationsInitHolds
<1>2. MInv /\ [Migrations!Next]_(Migrations!migrationVars) => MInv'
  BY MigrationStep
<1> QED BY <1>1, <1>2, PTL DEF Migrations!Spec
-----------------------------------------------------------------------------
(* What it is for: the schema.                                             *)

\* The step a build comes up by finds its own version the last.
LEMMA ComesUp ==
  ASSUME Built, MInv, Migrations!Next, NEW s \in Servers, server'[s].at = "up", server[s].at # "up",
         ~(base = "mysql" /\ cut)
  PROVE  Migrations!Latest' = Builds[s]
<1>1. PICK t \in Servers :
        \/ Migrations!Start(t) \/ Migrations!LockMigrations(t) \/ Migrations!LockTimesOut(t) \/ Migrations!ReadVersion(t)
        \/ Migrations!Exec(t) \/ Migrations!Commit(t) \/ Migrations!Fail(t) \/ Migrations!Exit(t) \/ Migrations!CutLock(t)
  BY DEF Migrations!Next
<1>2. ASSUME NEW a \in Rests, Migrations!Go(t, a) PROVE t = s /\ a = "up"
  BY <1>2, GoIs
<1>3. ASSUME NEW v \in Nat, Begins(t, v) PROVE FALSE
  BY <1>3, BeginsIs
<1>4. CASE Migrations!ReadVersion(t)
  <2>1. Migrations!Latest \in Nat
    BY VersionsAre
  <2>2. UNCHANGED versions /\ Migrations!Latest' = Migrations!Latest
    BY <1>4 DEF Migrations!ReadVersion, Migrations!Latest
  <2>3. ~Begins(t, Migrations!Latest + 1)
    BY <1>3, <2>1
  <2>4. ~Migrations!Go(t, "refused")
    BY <1>2 DEF Rests
  <2>5. Migrations!Go(t, "up") /\ Migrations!Latest = Builds[t]
    BY <1>4, <2>3, <2>4 DEF Migrations!ReadVersion, Begins
  <2> QED BY <1>2, <2>2, <2>5 DEF Rests
<1>5. CASE Migrations!Commit(t)
  <2> DEFINE v == server[t].version
             n == Migrations!Latest
  <2>1. /\ v \in 1..Builds[t] /\ v \in 1..(n + 1) /\ Migrations!Latest' = (IF v = n + 1 THEN v ELSE n)
        /\ server[t].at = "commit"
    BY <1>5, CommitAdds DEF Migrations!Commit
  <2>2. v + 1 \in Nat /\ n \in Nat /\ versions = 1..n
    BY <2>1, VersionsAre
  <2>3. ~Begins(t, v + 1)
    BY <1>3, <2>2
  <2>4. Migrations!Go(t, "up") /\ v = Builds[t]
    BY <1>5, <2>3 DEF Migrations!Commit, Begins
  <2>5. t = s
    BY <1>2, <2>4 DEF Rests
  <2>6. v = n + 1 \/ v = n
    <3>1. CASE base = "mysql"
      BY <2>1, <3>1 DEF MInv, InOrder
    <3>2. CASE base # "mysql"
      <4>1. v \notin versions
        BY <2>1, <3>2 DEF MInv, FirstToCommit
      <4> QED BY <2>1, <2>2, <4>1
    <3> QED BY <3>1, <3>2
  <2> QED BY <2>1, <2>4, <2>5, <2>6
<1>6. CASE Migrations!Start(t)
  BY <1>2, <1>6 DEF Migrations!Start, Rests
<1>7. CASE Migrations!LockMigrations(t)
  BY <1>2, <1>7 DEF Migrations!LockMigrations, Rests
<1>8. CASE Migrations!LockTimesOut(t) \/ Migrations!Fail(t)
  BY <1>2, <1>8 DEF Migrations!LockTimesOut, Migrations!Fail, Rests
<1>9. CASE Migrations!Exit(t)
  BY <1>2, <1>9 DEF Migrations!Exit, Rests
<1>10. CASE Migrations!CutLock(t)
  BY <1>10 DEF Migrations!CutLock
<1>11. CASE Migrations!Exec(t)
  <2>1. ~Refused(t)
    BY <1>2, <1>11, ExecIs DEF Rests
  <2>2. /\ \A u \in Servers \ {t} : server'[u] = server[u]
        /\ server'[t].at = (IF Last(t) THEN "commit" ELSE "apply")
    BY <1>11, <2>1, ExecTo
  <2> QED BY <2>2
<1> QED BY <1>1, <1>4, <1>5, <1>6, <1>7, <1>8, <1>9, <1>10, <1>11

ComesUpOnItsOwn ==
  \A s \in Servers :
    /\ server'[s].at = "up" /\ server[s].at # "up"
    /\ ~(base = "mysql" /\ cut)
    => Migrations!Max(versions' \cup {0}) = Builds[s]

\* "two instances started together both come up" (dbtest/migratelock.go:23), a
\* recorded version is its schema, and nobody comes up on a newer one
\* (migrate.go:77): for any number of instances, builds and migrations,
\* failures, stops and locks lost.
THEOREM MigrationsStayWhole ==
  ASSUME Built
  PROVE  Migrations!Spec => /\ [](Migrations!VersionMeansSchema /\ Migrations!NobodyFailsForAnother)
                            /\ Migrations!NobodyStartsOnTheFuture
<1>1. MInv => Migrations!VersionMeansSchema /\ Migrations!NobodyFailsForAnother
  BY DEF MInv, Schema
<1>2. MInv /\ [Migrations!Next]_(Migrations!migrationVars) => [ComesUpOnItsOwn]_(Migrations!migrationVars)
  <2> SUFFICES ASSUME MInv, Migrations!Next PROVE ComesUpOnItsOwn
    OBVIOUS
  <2> SUFFICES ASSUME NEW s \in Servers, server'[s].at = "up", server[s].at # "up", ~(base = "mysql" /\ cut)
               PROVE  Migrations!Max(versions' \cup {0}) = Builds[s]
    BY DEF ComesUpOnItsOwn
  <2> QED BY ComesUp DEF Migrations!Latest
<1> QED BY <1>1, <1>2, MigrationsInvariant, PTL DEF Migrations!Spec, Migrations!NobodyStartsOnTheFuture, ComesUpOnItsOwn

\* Both: the schema and the backups of the database.
THEOREM DatabaseStaysKept == ASSUME Prudent, Built PROVE Backups!Spec /\ Migrations!Spec => DatabaseIsKept
BY BackupsStayKept, MigrationsStayWhole, PTL DEF DatabaseIsKept
-----------------------------------------------------------------------------
(* Numbers in a row.                                                       *)

\* a is the numbers of S, the smallest first.
Ranked(a, S) == a = [k \in 1..Cardinality(S) |-> CHOOSE x \in S : Cardinality({y \in S : y < x}) = k - 1]

LEMMA RanksAre ==
  ASSUME NEW S \in SUBSET Nat, IsFiniteSet(S), NEW k \in 1..Cardinality(S)
  PROVE  \E x \in S : Cardinality({y \in S : y < x}) = k - 1
<1> DEFINE Below(x) == {y \in S : y < x}
           N == Cardinality(S)
           f == [x \in S |-> Cardinality(Below(x)) + 1]
<1>1. N \in Nat
  BY FS_CardinalityType
<1>2. \A x \in S : Below(x) \in SUBSET (S \ {x})
  OBVIOUS
<1>3. ASSUME NEW x \in S PROVE IsFiniteSet(Below(x)) /\ Cardinality(Below(x)) \in Nat /\ Cardinality(Below(x)) < N
  <2>1. IsFiniteSet(S \ {x}) /\ Cardinality(S \ {x}) = N - 1
    BY FS_RemoveElement
  <2>2. IsFiniteSet(Below(x)) /\ Cardinality(Below(x)) <= N - 1
    <3> HIDE DEF Below
    <3> QED BY <1>2, <2>1, FS_Subset
  <2>3. Cardinality(Below(x)) \in Nat
    BY <2>2, FS_CardinalityType
  <2> HIDE DEF Below, N
  <2> QED BY <1>1, <2>2, <2>3
<1>4. ASSUME NEW x \in S, NEW z \in S, x < z PROVE Cardinality(Below(x)) < Cardinality(Below(z))
  <2>a. \A y \in S : y \in Nat /\ (y < x => y < z)
    BY <1>4
  <2>b. x \notin Below(x) /\ x \in Below(z)
    BY <1>4
  <2>c. Below(x) \subseteq Below(z)
    BY <2>a
  <2>1. x \notin Below(x) /\ Below(x) \cup {x} \in SUBSET Below(z)
    <3> HIDE DEF Below
    <3> QED BY <2>b, <2>c
  <2>2. Cardinality(Below(x) \cup {x}) = Cardinality(Below(x)) + 1
    <3> HIDE DEF Below
    <3> QED BY <1>3, <2>1, FS_AddElement, ZenonT(20)
  <2>3. Cardinality(Below(x) \cup {x}) <= Cardinality(Below(z))
    <3> HIDE DEF Below
    <3> QED BY <1>3, <2>1, FS_Subset
  <2>4. Cardinality(Below(x)) \in Nat /\ Cardinality(Below(z)) \in Nat
    BY <1>3
  <2> HIDE DEF Below
  <2> QED BY <2>2, <2>3, <2>4
<1> HIDE DEF Below, N
<1>5. f \in Injection(S, 1..N)
  <2>1. f \in [S -> 1..N]
    BY <1>1, <1>3
  <2>2. ASSUME NEW x \in S, NEW z \in S, x # z PROVE f[x] # f[z]
    <3>1. x < z \/ z < x
      BY <2>2
    <3>2. Cardinality(Below(x)) # Cardinality(Below(z))
      BY <1>3, <1>4, <3>1
    <3>3. Cardinality(Below(x)) \in Nat /\ Cardinality(Below(z)) \in Nat
      BY <1>3
    <3> QED BY <3>2, <3>3
  <2> HIDE DEF f
  <2> QED BY <2>1, <2>2 DEF Injection, IsInjective
<1>6. IsFiniteSet(1..N) /\ Cardinality(1..N) = N
  BY <1>1, FS_Interval
<1>7. f \in Surjection(S, 1..N)
  <2> HIDE DEF f
  <2> QED BY <1>5, <1>6, FS_Injection DEF N
<1>8. PICK x \in S : f[x] = k
  <2>1. k \in 1..N
    BY DEF N
  <2> HIDE DEF f
  <2> QED BY <1>7, <2>1 DEF Surjection
<1>9. Cardinality(Below(x)) = k - 1
  BY <1>3, <1>8
<1> QED BY <1>9 DEF Below

LEMMA RanksDiffer ==
  ASSUME NEW S \in SUBSET Nat, IsFiniteSet(S), NEW x \in S, NEW z \in S, x # z
  PROVE  Cardinality({y \in S : y < x}) # Cardinality({y \in S : y < z})
<1>1. ASSUME NEW u \in S, NEW v \in S, u < v
      PROVE  Cardinality({y \in S : y < u}) # Cardinality({y \in S : y < v})
  <2> DEFINE A == {y \in S : y < u}
             B == {y \in S : y < v}
  <2>a. \A y \in S : y \in Nat /\ (y < u => y < v)
    BY <1>1
  <2>b. u \in B /\ u \notin A
    BY <1>1
  <2>c. A \subseteq B
    BY <2>a
  <2>1. A \in SUBSET B /\ A # B
    <3> HIDE DEF A, B
    <3> QED BY <2>b, <2>c
  <2>2. B \in SUBSET S
    OBVIOUS
  <2> HIDE DEF A, B
  <2>3. IsFiniteSet(B)
    BY <2>2, FS_Subset
  <2>4. Cardinality(A) # Cardinality(B)
    BY <2>1, <2>3, FS_Subset
  <2> QED BY <2>4 DEF A, B
<1>2. x < z \/ z < x
  OBVIOUS
<1> QED BY <1>1, <1>2

LEMMA RankedAre ==
  ASSUME NEW S \in SUBSET Nat, IsFiniteSet(S), NEW a, Ranked(a, S)
  PROVE  /\ DOMAIN a = 1..Cardinality(S) /\ Cardinality(S) \in Nat
         /\ \A k \in DOMAIN a : a[k] \in S /\ Cardinality({y \in S : y < a[k]}) = k - 1
         /\ \A k, l \in DOMAIN a : a[k] = a[l] => k = l
         /\ \A x \in S : \E k \in DOMAIN a : a[k] = x
<1> DEFINE r == [x \in S |-> Cardinality({y \in S : y < x})]
<1>1. Cardinality(S) \in Nat
  BY FS_CardinalityType
<1>2. DOMAIN a = 1..Cardinality(S)
  BY DEF Ranked
<1>3. \A k \in DOMAIN a : a[k] \in S /\ r[a[k]] = k - 1
  <2> SUFFICES ASSUME NEW k \in DOMAIN a PROVE a[k] \in S /\ r[a[k]] = k - 1
    OBVIOUS
  <2>1. \E x \in S : r[x] = k - 1
    BY <1>2, RanksAre
  <2>2. a[k] = CHOOSE x \in S : r[x] = k - 1
    BY <1>2 DEF Ranked
  <2> HIDE DEF r
  <2> QED BY <2>1, <2>2
<1>4. \A x, z \in S : x # z => r[x] # r[z]
  BY RanksDiffer
<1>5. DOMAIN a \subseteq Nat
  BY <1>1, <1>2
<1>6. \A k, l \in DOMAIN a : a[k] = a[l] => k = l
  <2> HIDE DEF r
  <2> QED BY <1>3, <1>5
<1>7. \A x \in S : r[x] \in 0..(Cardinality(S) - 1)
  <2> SUFFICES ASSUME NEW x \in S PROVE r[x] \in 0..(Cardinality(S) - 1)
    OBVIOUS
  <2> DEFINE B == {y \in S : y < x}
  <2>1. B \in SUBSET S /\ B # S
    OBVIOUS
  <2>2. r[x] = Cardinality(B)
    OBVIOUS
  <2> HIDE DEF B, r
  <2>3. IsFiniteSet(B) /\ Cardinality(B) <= Cardinality(S) /\ Cardinality(B) # Cardinality(S)
    BY <2>1, FS_Subset
  <2>4. Cardinality(B) \in Nat
    BY <2>3, FS_CardinalityType
  <2> QED BY <1>1, <2>2, <2>3, <2>4
<1>8. \A x \in S : \E k \in DOMAIN a : a[k] = x
  <2> SUFFICES ASSUME NEW x \in S PROVE \E k \in DOMAIN a : a[k] = x
    OBVIOUS
  <2>1. r[x] + 1 \in DOMAIN a /\ r[x] = (r[x] + 1) - 1
    <3> HIDE DEF r
    <3> QED BY <1>1, <1>2, <1>7
  <2>2. a[r[x] + 1] \in S /\ r[a[r[x] + 1]] = r[x]
    <3> HIDE DEF r
    <3> QED BY <1>3, <2>1
  <2> HIDE DEF r
  <2> QED BY <1>4, <2>1, <2>2
<1> QED BY <1>1, <1>2, <1>3, <1>6, <1>8

\* The operators of an instance count as the standard ones do.
LEMMA CloudCounts == \A S : Nextcloud!Cardinality(S) = Cardinality(S)
BY Zenon DEF Nextcloud!Cardinality, Cardinality
-----------------------------------------------------------------------------
(* The inductive invariant of Incoming.                                    *)

FolderFile == [id : Nat, size : Nat, open : BOOLEAN, seen : BOOLEAN]
Measures == UNION {[S -> Nat] : S \in SUBSET Nat}
Walks ==
  [at : {"idle", "walk", "name", "write", "remove"}, left : SUBSET Nat, name : Nat, size : Nat, copy : Nat,
   after : Measures]

\* What is in the directory: files of their own, that are whole when closed.
FilesStand ==
  /\ IsFiniteSet(DOMAIN disk) /\ DOMAIN disk \subseteq Nat /\ disk \in [DOMAIN disk -> FolderFile]
  /\ arrived \in 0..Len(Arrivals) /\ misses \in 0..MaxFaults
  /\ \A n \in DOMAIN disk :
       /\ disk[n].id \in 1..arrived /\ disk[n].size <= Incoming!Total(disk[n].id)
       /\ ~disk[n].open => disk[n].size = Incoming!Total(disk[n].id)
  /\ \A m, n \in DOMAIN disk : disk[m].id = disk[n].id => m = n

\* An open file has grown since it measured that, unless it was not looked at
\* since.
GrownSince(f, size) == f.open => size <= f.size /\ (~f.seen => size < f.size)

\* What the passes have measured (s) of the files there are (d), and what this
\* one (w) knows at its place, with copies l in the library.
Walking(w, d, s, l) ==
  /\ s \in Measures /\ w \in Walks
  /\ w.at = "idle" => DOMAIN s \subseteq DOMAIN d
  /\ \A n \in DOMAIN s \cap DOMAIN d : w.at = "idle" \/ n \in w.left => GrownSince(d[n], s[n])
  /\ w.left \subseteq DOMAIN d
  /\ DOMAIN w.after \subseteq DOMAIN d /\ DOMAIN w.after \cap w.left = {}
  /\ \A n \in DOMAIN w.after : GrownSince(d[n], w.after[n])
  /\ w.at = "idle" => w.left = {}
  /\ w.at \in {"name", "write", "remove"} =>
       /\ w.left # {} /\ w.name = Incoming!Min(w.left)
       /\ ~d[w.name].open /\ d[w.name].size = w.size
  /\ w.at = "write" => <<w.name, w.copy>> \notin l

WalkStands == Walking(walk, disk, sizes, DOMAIN library)

InLibrary(id) == \E p \in DOMAIN library : library[p] = [id |-> id, size |-> Incoming!Total(id)]
Ids == {library[p].id : p \in DOMAIN library}

\* The files that are in the library too and will be filed again.
Again == {n \in DOMAIN disk : disk[n].id \in Ids /\ ~(walk.at = "remove" /\ n = walk.name)}

LibraryStands ==
  /\ IsFiniteSet(DOMAIN library) /\ library \in [DOMAIN library -> [id : 1..arrived, size : Nat]]
  /\ \A p \in DOMAIN library : library[p].size = Incoming!Total(library[p].id)
  /\ walk.at = "remove" => InLibrary(disk[walk.name].id)
  /\ Cardinality(DOMAIN library) + Cardinality(Again) <= Cardinality(Ids) + misses
  /\ Incoming!NothingIsLost

FolderInv == FilesStand /\ WalkStands /\ LibraryStands
-----------------------------------------------------------------------------
(* The import folder: helpers.                                             *)

LEMMA CountedAlike == \A S : Incoming!Cardinality(S) = Cardinality(S)
BY Zenon DEF Incoming!Cardinality, Cardinality

LEMMA SmallestName ==
  ASSUME NEW S \in SUBSET Nat, S # {}
  PROVE  Incoming!Min(S) \in S /\ \A y \in S : Incoming!Min(S) <= y
<1>1. \E x \in S : \A y \in S : x =< y
  BY SmallestOf
<1> QED BY <1>1 DEF Incoming!Min

LEMMA TotalIs == ASSUME NEW id \in 1..Len(Arrivals) PROVE Incoming!Total(id) \in Nat
BY FolderAssumption DEF Incoming!Total

LEMMA WithIs ==
  ASSUME NEW f, NEW n, NEW v
  PROVE  /\ DOMAIN Incoming!With(f, n, v) = DOMAIN f \cup {n}

         /\ Incoming!With(f, n, v)[n] = v
         /\ \A m \in DOMAIN f : m # n => Incoming!With(f, n, v)[m] = f[m]
BY DEF Incoming!With

LEMMA MeasureIs == ASSUME NEW f \in Measures PROVE DOMAIN f \in SUBSET Nat /\ \A n \in DOMAIN f : f[n] \in Nat
BY DEF Measures

LEMMA MeasuresMore ==
  ASSUME NEW f \in Measures, NEW n \in Nat, NEW v \in Nat
  PROVE  Incoming!With(f, n, v) \in Measures
<1>1. DOMAIN f \in SUBSET Nat /\ f \in [DOMAIN f -> Nat]
  BY DEF Measures
<1>2. DOMAIN f \cup {n} \in SUBSET Nat
  BY <1>1
<1>3. Incoming!With(f, n, v) \in [DOMAIN f \cup {n} -> Nat]
  BY <1>1 DEF Incoming!With
<1> QED BY <1>2, <1>3 DEF Measures

LEMMA IdsAreFinite ==
  ASSUME NEW f, IsFiniteSet(DOMAIN f)
  PROVE  IsFiniteSet({f[p].id : p \in DOMAIN f})
<1> DEFINE I == {f[p].id : p \in DOMAIN f}
           g == [p \in DOMAIN f |-> f[p].id]
<1>1. g \in Surjection(DOMAIN f, I)
  BY DEF Surjection
<1> HIDE DEF g, I
<1>2. IsFiniteSet(I)
  BY <1>1, FS_Surjection
<1> QED BY <1>2 DEF I

\* What a count of copies and reasons comes to when nothing is filed.
LEMMA CopiesStay ==
  ASSUME FilesStand, LibraryStands, UNCHANGED library, Again' \subseteq Again, misses' \in Nat, misses <= misses'
  PROVE  Cardinality(DOMAIN library') + Cardinality(Again') <= Cardinality(Ids') + misses'
<1>1. IsFiniteSet(Again) /\ Again \subseteq DOMAIN disk
  BY FS_Subset DEF FilesStand, Again
<1>2. IsFiniteSet(Again') /\ Cardinality(Again') <= Cardinality(Again) /\ Cardinality(Again') \in Nat /\ Cardinality(Again) \in Nat
  BY <1>1, FS_Subset, FS_CardinalityType
<1>3. Ids' = Ids
  BY DEF Ids
<1>4. IsFiniteSet(Ids)
  BY IdsAreFinite DEF LibraryStands, Ids
<1>5. Cardinality(Ids) \in Nat /\ Cardinality(DOMAIN library) \in Nat
  BY <1>4, FS_CardinalityType DEF LibraryStands
<1>6. misses \in Nat
  BY FolderAssumption DEF FilesStand
<1>7. Cardinality(DOMAIN library) + Cardinality(Again) <= Cardinality(Ids) + misses
  BY DEF LibraryStands
<1>8. Cardinality(DOMAIN library') = Cardinality(DOMAIN library) /\ Cardinality(Ids') = Cardinality(Ids)
  BY <1>3
<1> HIDE DEF Again, Ids
<1> QED BY <1>2, <1>5, <1>6, <1>7, <1>8

LEMMA FolderInitHolds == ASSUME Incoming!Init PROVE FolderInv
<1> USE DEF Incoming!Init
<1>1. DOMAIN disk = {} /\ DOMAIN library = {} /\ DOMAIN sizes = {}
  OBVIOUS
<1>2. IsFiniteSet({}) /\ Cardinality({}) = 0
  BY FS_EmptySet
<1>3. FilesStand
  BY <1>1, <1>2, FolderAssumption DEF FilesStand
<1>4. sizes \in [{} -> Nat] /\ <<>> \in [{} -> Nat]
  BY <1>1
<1>5. sizes \in Measures /\ <<>> \in Measures
  BY <1>4 DEF Measures
<1>6. walk \in Walks
  BY <1>5 DEF Walks, Incoming!NoWalk
<1>7. WalkStands
  BY <1>1, <1>5, <1>6 DEF WalkStands, Walking, Incoming!NoWalk
<1>8. Ids = {} /\ Again = {}
  BY <1>1 DEF Ids, Again
<1>9. LibraryStands
  BY <1>1, <1>2, <1>8 DEF LibraryStands, Incoming!NoWalk, Incoming!NothingIsLost
<1> QED BY <1>3, <1>7, <1>9 DEF FolderInv
-----------------------------------------------------------------------------
(* The import folder: its steps.                                           *)

\* What the numbers and the walk are made of.
LEMMA FolderTypes ==
  ASSUME FilesStand, WalkStands
  PROVE  /\ arrived \in Nat /\ misses \in Nat /\ MaxFaults \in Nat /\ Len(Arrivals) \in Nat
         /\ \A n \in DOMAIN disk : n \in Nat /\ disk[n] \in FolderFile /\ disk[n].id \in 1..Len(Arrivals)
         /\ \A n \in DOMAIN disk : Incoming!Total(disk[n].id) \in Nat
         /\ walk.left \in SUBSET Nat /\ walk.after \in Measures /\ walk.size \in Nat /\ walk.name \in Nat
         /\ walk = [at |-> walk.at, left |-> walk.left, name |-> walk.name, size |-> walk.size, copy |-> walk.copy,
                    after |-> walk.after]
<1>1. arrived \in 0..Len(Arrivals) /\ misses \in 0..MaxFaults /\ MaxFaults \in Nat /\ Len(Arrivals) \in Nat
  BY FolderAssumption DEF FilesStand
<1>2. \A n \in DOMAIN disk : n \in Nat /\ disk[n] \in FolderFile /\ disk[n].id \in 1..arrived
  BY DEF FilesStand
<1>3. \A n \in DOMAIN disk : disk[n].id \in 1..Len(Arrivals)
  BY <1>1, <1>2
<1>4. \A n \in DOMAIN disk : Incoming!Total(disk[n].id) \in Nat
  BY <1>3, TotalIs
<1>5. walk \in Walks
  BY DEF WalkStands, Walking
<1> QED BY <1>1, <1>2, <1>3, <1>4, <1>5 DEF Walks

LEMMA ArriveHolds == ASSUME FolderInv, Incoming!Arrive PROVE FolderInv'
<1> DEFINE n == Arrivals[arrived + 1].name
           f == [id |-> arrived + 1, size |-> 0, open |-> TRUE, seen |-> FALSE]
<1>1. FilesStand /\ WalkStands /\ LibraryStands
  BY DEF FolderInv
<1>2. /\ arrived + 1 \in 1..Len(Arrivals) /\ n \in Nat /\ n \notin DOMAIN disk
      /\ arrived' = arrived + 1 /\ UNCHANGED <<sizes, walk, library, misses>>
  <2>1. arrived + 1 \in DOMAIN Arrivals
    BY <1>1, FolderTypes, FolderAssumption DEF Incoming!Arrive
  <2>2. n \in Nat
    BY <2>1, FolderAssumption
  <2> QED BY <1>1, <2>1, <2>2, FolderTypes, FolderAssumption DEF Incoming!Arrive
<1>3. /\ disk' = Incoming!With(disk, n, f) /\ DOMAIN disk' = DOMAIN disk \cup {n}
      /\ disk'[n] = f /\ \A m \in DOMAIN disk : disk'[m] = disk[m]
  <2>1. disk' = Incoming!With(disk, n, f)
    BY <1>2 DEF Incoming!Arrive
  <2> HIDE DEF n, f
  <2> QED BY <1>2, <2>1 DEF Incoming!With
<1>4. f \in FolderFile /\ f.id = arrived + 1 /\ f.size = 0 /\ f.open
  BY <1>1, FolderTypes DEF FolderFile
<1> HIDE DEF n, f
<1>5. FilesStand'
  <2>1. IsFiniteSet(DOMAIN disk') /\ DOMAIN disk' \subseteq Nat
    BY <1>1, <1>2, <1>3, FS_AddElement DEF FilesStand
  <2>2. disk' \in [DOMAIN disk' -> FolderFile]
    BY <1>1, <1>3, <1>4, FolderTypes DEF Incoming!With
  <2>3. arrived' \in 0..Len(Arrivals) /\ misses' \in 0..MaxFaults
    BY <1>1, <1>2, FolderTypes DEF FilesStand
  <2>4. Incoming!Total(arrived + 1) \in Nat
    BY <1>2, TotalIs
  <2>5. ASSUME NEW m \in DOMAIN disk'
        PROVE  /\ disk'[m].id \in 1..arrived' /\ disk'[m].size <= Incoming!Total(disk'[m].id)
               /\ ~disk'[m].open => disk'[m].size = Incoming!Total(disk'[m].id)
    <3>1. CASE m = n
      BY <3>1, <1>1, <1>2, <1>3, <1>4, <2>4, FolderTypes
    <3>2. CASE m \in DOMAIN disk
      BY <3>2, <1>1, <1>2, <1>3, FolderTypes DEF FilesStand
    <3> QED BY <3>1, <3>2, <1>3
  <2>6. \A m \in DOMAIN disk : disk[m].id # arrived + 1
    BY <1>1, FolderTypes DEF FilesStand
  <2>7. \A k, m \in DOMAIN disk' : disk'[k].id = disk'[m].id => k = m
    BY <2>6, <1>1, <1>3, <1>4 DEF FilesStand
  <2>8. (\A k \in DOMAIN disk : disk[k].size <= Incoming!Total(disk[k].id))' <=> \A k \in DOMAIN disk' : disk'[k].size <= Incoming!Total(disk'[k].id)
    BY DEF Incoming!Total
  <2> QED BY <2>1, <2>2, <2>3, <2>5, <2>7 DEF FilesStand, Incoming!Total
<1>6. WalkStands'
  <2> DEFINE D == DOMAIN disk
             Fine(d) ==
               /\ walk.at = "idle" => DOMAIN sizes \subseteq DOMAIN d
               /\ \A m \in DOMAIN sizes \cap DOMAIN d : walk.at = "idle" \/ m \in walk.left => GrownSince(d[m], sizes[m])
               /\ walk.left \subseteq DOMAIN d
               /\ DOMAIN walk.after \subseteq DOMAIN d
               /\ \A m \in DOMAIN walk.after : GrownSince(d[m], walk.after[m])
  <2>1. Fine(disk)
    BY <1>1 DEF WalkStands, Walking
  <2>2. Fine(disk')
    BY <2>1, <1>2, <1>3
  <2>3. walk.at \in {"name", "write", "remove"} => walk.name \in DOMAIN disk
    BY <1>1, FolderTypes, SmallestName DEF WalkStands, Walking, Incoming!This
  <2>4. walk.at \in {"name", "write", "remove"} => ~disk'[walk.name].open /\ disk'[walk.name].size = walk.size
    BY <2>3, <1>1, <1>3 DEF WalkStands, Walking
  <2> QED BY <1>1, <1>2, <2>2, <2>4 DEF WalkStands, Walking, Incoming!This, GrownSince
<1>7. LibraryStands'
  <2>1. arrived + 1 \notin Ids
    BY <1>1, FolderTypes DEF LibraryStands, Ids
  <2>2. Again' = Again /\ Ids' = Ids
    BY <2>1, <1>1, <1>2, <1>3, <1>4 DEF Again, Ids
  <2>3. library' \in [DOMAIN library' -> [id : 1..arrived', size : Nat]]
    BY <1>1, <1>2, FolderTypes DEF LibraryStands
  <2>4. Incoming!NothingIsLost'
    <3> SUFFICES ASSUME NEW id \in 1..arrived'
                 PROVE  \/ \E m \in DOMAIN disk' : disk'[m].id = id
                        \/ \E p \in DOMAIN library : library[p] = [id |-> id, size |-> Incoming!Total(id)]
      BY <1>2 DEF Incoming!NothingIsLost, Incoming!Total
    <3>1. CASE id = arrived + 1
      BY <3>1, <1>3, <1>4
    <3>2. CASE id \in 1..arrived
      BY <3>2, <1>1, <1>3 DEF LibraryStands, Incoming!NothingIsLost
    <3> QED BY <3>1, <3>2, <1>1, <1>2, FolderTypes
  <2>5. walk'.at = "remove" => InLibrary(disk[walk.name].id)' 
    <3>1. walk.at = "remove" => walk.name \in DOMAIN disk
      BY <1>1, FolderTypes, SmallestName DEF WalkStands, Walking, Incoming!This
    <3> QED BY <3>1, <1>1, <1>2, <1>3 DEF LibraryStands, InLibrary, Incoming!Total
  <2> QED BY <1>1, <1>2, <2>2, <2>3, <2>4, <2>5 DEF LibraryStands, Incoming!Total
<1> QED BY <1>5, <1>6, <1>7 DEF FolderInv

\* A file of the directory becomes another of the same id that is at least as
\* far, while nothing is measured.
LEMMA FileMoves ==
  ASSUME FolderInv, NEW n \in DOMAIN disk, NEW f \in FolderFile, UNCHANGED <<arrived, sizes, walk, library, misses>>,
         disk' = [disk EXCEPT ![n] = f], f.id = disk[n].id, f.size <= Incoming!Total(f.id),
         ~f.open => f.size = Incoming!Total(f.id),
         disk[n].open,
         \A w \in Nat : GrownSince(disk[n], w) => GrownSince(f, w)
  PROVE  FolderInv'
<1>1. FilesStand /\ WalkStands /\ LibraryStands
  BY DEF FolderInv
<1>2. /\ DOMAIN disk' = DOMAIN disk /\ disk'[n] = f /\ \A m \in DOMAIN disk : m # n => disk'[m] = disk[m]
      /\ \A m \in DOMAIN disk : disk'[m].id = disk[m].id
      /\ disk' \in [DOMAIN disk' -> FolderFile]
  BY <1>1 DEF FilesStand
<1>3. FilesStand'
  BY <1>1, <1>2 DEF FilesStand, Incoming!Total
<1>4. WalkStands'
  <2>1. \A m \in DOMAIN disk, v \in Nat : GrownSince(disk[m], v) => GrownSince(disk'[m], v)
    BY <1>2
  <2>2. /\ \A m \in DOMAIN sizes : sizes[m] \in Nat
        /\ \A m \in DOMAIN walk.after : walk.after[m] \in Nat
    BY <1>1, MeasureIs, FolderTypes DEF WalkStands, Walking
  <2>3. \A m \in DOMAIN sizes \cap DOMAIN disk : walk.at = "idle" \/ m \in walk.left => GrownSince(disk'[m], sizes[m])
    BY <1>1, <2>1, <2>2 DEF WalkStands, Walking
  <2>4. \A m \in DOMAIN walk.after : GrownSince(disk'[m], walk.after[m])
    BY <1>1, <2>1, <2>2 DEF WalkStands, Walking
  <2>5. walk.at \in {"name", "write", "remove"} => walk.name \in DOMAIN disk /\ walk.name # n
    BY <1>1, FolderTypes, SmallestName DEF WalkStands, Walking, Incoming!This
  <2>6. walk.at \in {"name", "write", "remove"} => ~disk'[walk.name].open /\ disk'[walk.name].size = walk.size
    BY <1>1, <1>2, <2>5 DEF WalkStands, Walking
  <2> QED BY <1>1, <1>2, <2>3, <2>4, <2>6 DEF WalkStands, Walking, Incoming!This, GrownSince
<1>5. LibraryStands'
  <2>1. Again' = Again /\ Ids' = Ids
    BY <1>2 DEF Again, Ids
  <2>2. (walk.at = "remove" => InLibrary(disk[walk.name].id))'
    <3>1. walk.at = "remove" => walk.name \in DOMAIN disk
      BY <1>1, FolderTypes, SmallestName DEF WalkStands, Walking, Incoming!This
    <3> QED BY <3>1, <1>1, <1>2 DEF LibraryStands, InLibrary, Incoming!Total
  <2>3. Incoming!NothingIsLost'
    BY <1>1, <1>2 DEF LibraryStands, Incoming!NothingIsLost, Incoming!Total
  <2> QED BY <1>1, <2>1, <2>2, <2>3 DEF LibraryStands, Incoming!Total
<1> QED BY <1>3, <1>4, <1>5 DEF FolderInv

LEMMA GrowHolds == ASSUME FolderInv, NEW n \in DOMAIN disk, Incoming!Grow(n) PROVE FolderInv'
<1>1. FilesStand /\ WalkStands
  BY DEF FolderInv
<1>2. disk[n] \in FolderFile /\ Incoming!Total(disk[n].id) \in Nat
  BY <1>1, FolderTypes
<1> PICK g : g = disk[n]
  OBVIOUS
<1> PICK v : v = disk[n].size + 1
  OBVIOUS
<1> PICK f : f = [g EXCEPT !.size = v, !.seen = FALSE]
  OBVIOUS
<1>3. disk[n].open /\ disk[n].size < Incoming!Total(disk[n].id) /\ UNCHANGED <<arrived, sizes, walk, library, misses>>
  BY DEF Incoming!Grow
<1>4. f \in FolderFile /\ f.id = disk[n].id /\ f.size = disk[n].size + 1 /\ f.open /\ ~f.seen
  <2>1. g \in FolderFile /\ v \in Nat /\ g.open
    BY <1>2, <1>3 DEF FolderFile
  <2>2. f \in FolderFile /\ f.id = g.id /\ f.size = v /\ f.open = g.open /\ f.seen = FALSE
    BY <2>1 DEF FolderFile
  <2> QED BY <2>1, <2>2
<1>5. disk' = [disk EXCEPT ![n] = f]
  <2>2. disk' = [disk EXCEPT ![n] = [disk[n] EXCEPT !.size = @ + 1, !.seen = FALSE]]
    BY <1>1 DEF Incoming!Grow, FilesStand
  <2> QED BY <2>2
<1>6. disk[n].size \in Nat
  BY <1>2 DEF FolderFile
<1>7. f.size <= Incoming!Total(f.id)
  BY <1>2, <1>3, <1>4, <1>6
<1>8. \A w \in Nat : GrownSince(disk[n], w) => GrownSince(f, w)
  BY <1>3, <1>4, <1>6 DEF GrownSince
<1> QED BY <1>3, <1>4, <1>5, <1>7, <1>8, FileMoves

LEMMA CloseHolds == ASSUME FolderInv, NEW n \in DOMAIN disk, Incoming!CloseFile(n) PROVE FolderInv'
<1>1. FilesStand /\ WalkStands
  BY DEF FolderInv
<1>2. disk[n] \in FolderFile /\ Incoming!Total(disk[n].id) \in Nat
  BY <1>1, FolderTypes
<1> PICK g : g = disk[n]
  OBVIOUS
<1> PICK f : f = [g EXCEPT !.open = FALSE]
  OBVIOUS
<1>3. disk[n].open /\ disk[n].size = Incoming!Total(disk[n].id) /\ UNCHANGED <<arrived, sizes, walk, library, misses>>
  BY DEF Incoming!CloseFile
<1>4. f \in FolderFile /\ f.id = disk[n].id /\ f.size = disk[n].size /\ ~f.open
  <2>1. g \in FolderFile
    BY <1>2
  <2>2. f \in FolderFile /\ f.id = g.id /\ f.size = g.size /\ f.open = FALSE
    BY <2>1 DEF FolderFile
  <2> QED BY <2>2
<1>5. disk' = [disk EXCEPT ![n] = f]
  <2>2. disk' = [disk EXCEPT ![n] = [disk[n] EXCEPT !.open = FALSE]]
    BY <1>1 DEF Incoming!CloseFile, FilesStand
  <2> QED BY <2>2
<1>6. \A w \in Nat : GrownSince(disk[n], w) => GrownSince(f, w)
  BY <1>4 DEF GrownSince
<1>7. f.size <= Incoming!Total(f.id)
  BY <1>2, <1>3, <1>4
<1> QED BY <1>3, <1>4, <1>5, <1>6, <1>7, FileMoves
-----------------------------------------------------------------------------
(* The import folder: the pass.                                            *)

\* The walk goes on from the file it is at, which may have been looked at or
\* may be gone.
GoneOn(w, d, e, n, m, x) ==
  /\ w.at # "idle" /\ w.left # {} /\ n = Incoming!Min(w.left)
  /\ DOMAIN e \subseteq DOMAIN d /\ DOMAIN d \subseteq DOMAIN e \cup {n} /\ \A j \in DOMAIN d : j # n => e[j] = d[j]
  /\ \/ m = w.after
     \/ n \in DOMAIN e /\ \E v \in Nat : m = Incoming!With(w.after, n, v) /\ GrownSince(e[n], v)
  /\ x = [w EXCEPT !.at = "walk", !.left = @ \ {n}, !.after = m]

LEMMA Onward ==
  ASSUME NEW w, NEW d, NEW e, NEW s, NEW k, NEW l, NEW n, NEW m, NEW x, Walking(w, d, s, k), GoneOn(w, d, e, n, m, x)
  PROVE  Walking(x, e, s, l)
<1> USE DEF GoneOn
<1>1. w \in Walks /\ w.left \in SUBSET Nat /\ w.after \in Measures /\ n \in w.left /\ n \in Nat
  BY SmallestName DEF Walking, Walks
<1>2. /\ m \in Measures /\ DOMAIN m \subseteq DOMAIN w.after \cup {n}
      /\ \A j \in DOMAIN w.after : j # n => m[j] = w.after[j]
      /\ n \in DOMAIN m => n \in DOMAIN e /\ GrownSince(e[n], m[n])
  <2>1. CASE m = w.after
    BY <2>1, <1>1 DEF Walking
  <2>2. CASE n \in DOMAIN e /\ \E v \in Nat : m = Incoming!With(w.after, n, v) /\ GrownSince(e[n], v)
    <3>1. PICK v \in Nat : m = Incoming!With(w.after, n, v) /\ GrownSince(e[n], v)
      BY <2>2
    <3>2. m \in Measures
      BY <3>1, <1>1, MeasuresMore
    <3> QED BY <2>2, <3>1, <3>2 DEF Incoming!With
  <2> QED BY <2>1, <2>2
<1>3. x \in Walks /\ x.at = "walk" /\ x.left = w.left \ {n} /\ x.after = m
  BY <1>1, <1>2 DEF Walks
<1>4. \A j \in DOMAIN m : j \in DOMAIN e /\ GrownSince(e[j], m[j]) /\ j \notin x.left
  BY <1>1, <1>2, <1>3 DEF Walking
<1>5. \A j \in DOMAIN s \cap DOMAIN e : j \in x.left => GrownSince(e[j], s[j])
  BY <1>3 DEF Walking
<1> QED BY <1>1, <1>3, <1>4, <1>5 DEF Walking

\* A pass is over, or is forgotten with what was measured.
LEMMA PassOverAt ==
  ASSUME NEW w, NEW d, NEW s, NEW l, Walking(w, d, s, l), NEW m, m = w.after \/ m = <<>>, NEW x, x = Incoming!NoWalk
  PROVE  Walking(x, d, m, l)
<1>1. <<>> \in Measures /\ DOMAIN <<>> = {}
  <2>1. <<>> \in [{} -> Nat]
    OBVIOUS
  <2> QED BY <2>1 DEF Measures
<1>2. x = [at |-> "idle", left |-> {}, name |-> 0, size |-> 0, copy |-> 0, after |-> <<>>]
  BY DEF Incoming!NoWalk
<1>3. x \in Walks /\ x.at = "idle" /\ x.left = {} /\ x.after = <<>>
  BY <1>1, <1>2 DEF Walks
<1>4. m \in Measures /\ DOMAIN m \subseteq DOMAIN d /\ \A j \in DOMAIN m : GrownSince(d[j], m[j])
  BY <1>1 DEF Walking, Walks
<1> QED BY <1>1, <1>3, <1>4 DEF Walking

\* The library and its copies while nothing is filed and nothing goes.
LEMMA LibraryStays ==
  ASSUME FolderInv, UNCHANGED <<library, arrived>>, DOMAIN disk' = DOMAIN disk, \A n \in DOMAIN disk : disk'[n].id = disk[n].id,
         walk'.at # "remove",
         \/ misses' \in Nat /\ misses <= misses' /\ walk.at # "remove"
         \/ misses' = misses + 1
  PROVE  LibraryStands'
<1>1. FilesStand /\ WalkStands /\ LibraryStands
  BY DEF FolderInv
<1>2. IsFiniteSet(Again) /\ Again \subseteq DOMAIN disk
  BY <1>1, FS_Subset DEF FilesStand, Again
<1>3. Ids' = Ids /\ IsFiniteSet(Ids)
  BY <1>1, IdsAreFinite DEF Ids, LibraryStands
<1>4. Again' \subseteq Again \cup {walk.name} /\ (walk.at # "remove" => Again' \subseteq Again)
  BY <1>3 DEF Again
<1>5. IsFiniteSet(Again \cup {walk.name}) /\ Cardinality(Again \cup {walk.name}) <= Cardinality(Again) + 1
  <2>1. Cardinality(Again) \in Nat
    BY <1>2, FS_CardinalityType
  <2>2. /\ IsFiniteSet(Again \cup {walk.name})
        /\ Cardinality(Again \cup {walk.name}) = IF walk.name \in Again THEN Cardinality(Again) ELSE Cardinality(Again) + 1
    BY <1>2, FS_AddElement, Zenon
  <2> HIDE DEF Again
  <2> QED BY <2>1, <2>2
<1>6. Cardinality(DOMAIN library') + Cardinality(Again') <= Cardinality(Ids') + misses'
  <2>1. CASE walk.at # "remove" /\ misses' \in Nat /\ misses <= misses'
    BY <2>1, <1>1, <1>4, CopiesStay
  <2>2. CASE misses' = misses + 1
    <3>1. Cardinality(Again') <= Cardinality(Again \cup {walk.name}) /\ IsFiniteSet(Again')
      BY <1>4, <1>5, FS_Subset
    <3>2. /\ Cardinality(Again') \in Nat /\ Cardinality(Again) \in Nat /\ Cardinality(Again \cup {walk.name}) \in Nat
          /\ Cardinality(Ids) \in Nat /\ Cardinality(DOMAIN library) \in Nat
      BY <1>1, <1>2, <1>3, <1>5, <3>1, FS_CardinalityType DEF LibraryStands
    <3>3. misses \in Nat /\ Cardinality(DOMAIN library) + Cardinality(Again) <= Cardinality(Ids) + misses
      BY <1>1, FolderTypes DEF LibraryStands
    <3>4. Cardinality(DOMAIN library') = Cardinality(DOMAIN library) /\ Cardinality(Ids') = Cardinality(Ids)
      BY <1>3
    <3> HIDE DEF Again, Ids
    <3> QED BY <1>5, <2>2, <3>1, <3>2, <3>3, <3>4
  <2> QED BY <2>1, <2>2
<1>7. Incoming!NothingIsLost'
  BY <1>1 DEF LibraryStands, Incoming!NothingIsLost, Incoming!Total
<1> QED BY <1>1, <1>6, <1>7 DEF LibraryStands, Incoming!Total

LEMMA FilesStay ==
  ASSUME FilesStand, UNCHANGED <<disk, arrived>>, misses' \in 0..MaxFaults
  PROVE  FilesStand'
BY DEF FilesStand, Incoming!Total

\* An error or none.
LEMMA FaultsAre ==
  ASSUME FilesStand, Incoming!Fault \/ Incoming!NoFault
  PROVE  /\ misses' \in 0..MaxFaults /\ misses' \in Nat /\ misses <= misses'
         /\ Incoming!Fault => misses' = misses + 1
BY FolderAssumption DEF FilesStand, Incoming!Fault, Incoming!NoFault

LEMMA BeginHolds == ASSUME FolderInv, Incoming!Begin PROVE FolderInv'
<1>1. FilesStand /\ WalkStands /\ LibraryStands
  BY DEF FolderInv
<1>2. walk.at = "idle" /\ UNCHANGED <<disk, arrived, sizes, library, misses>>
  BY DEF Incoming!Begin
<1> PICK x : x = walk'
  OBVIOUS
<1>3. x = [at |-> "walk", left |-> DOMAIN disk, name |-> 0, size |-> 0, copy |-> 0, after |-> <<>>]
  BY DEF Incoming!Begin, Incoming!NoWalk
<1>4. <<>> \in Measures /\ DOMAIN <<>> = {}
  <2>1. <<>> \in [{} -> Nat]
    OBVIOUS
  <2> QED BY <2>1 DEF Measures
<1>5. x \in Walks /\ x.at = "walk" /\ x.left = DOMAIN disk /\ x.after = <<>>
  BY <1>1, <1>3, <1>4 DEF Walks, FilesStand
<1>6. Walking(x, disk, sizes, DOMAIN library)
  BY <1>1, <1>2, <1>4, <1>5 DEF WalkStands, Walking
<1>7. WalkStands'
  BY <1>2, <1>6 DEF WalkStands
<1>8. misses' \in 0..MaxFaults /\ misses' \in Nat /\ misses <= misses'
  BY <1>1, <1>2, FolderTypes DEF FilesStand
<1>9. FilesStand' /\ LibraryStands'
  BY <1>1, <1>2, <1>5, <1>8, FilesStay, LibraryStays
<1> QED BY <1>7, <1>9 DEF FolderInv

\* The pass goes on from its file, which nothing happened to but that it may
\* have been looked at.
LEMMA GoesOnHolds ==
  ASSUME FolderInv, walk.at # "idle", walk.left # {}, UNCHANGED <<disk, arrived, sizes, library>>,
         Incoming!Fault \/ (Incoming!NoFault /\ walk.at # "remove"),
         \/ Incoming!GoOn(walk.after)
         \/ \E v \in Nat : Incoming!GoOn(Incoming!With(walk.after, Incoming!This, v)) /\ GrownSince(disk[Incoming!This], v)
  PROVE  FolderInv'
<1>1. FilesStand /\ WalkStands /\ LibraryStands
  BY DEF FolderInv
<1>2. /\ misses' \in 0..MaxFaults /\ misses' \in Nat /\ misses <= misses'
      /\ misses' = misses + 1 \/ walk.at # "remove"
  BY <1>1, FaultsAre
<1> PICK n : n = Incoming!This
  OBVIOUS
<1> PICK x : x = walk'
  OBVIOUS
<1>3. n \in DOMAIN disk
  BY <1>1, FolderTypes, SmallestName DEF WalkStands, Walking, Incoming!This
<1>4. PICK m : /\ x = [walk EXCEPT !.at = "walk", !.left = @ \ {n}, !.after = m]
               /\ m = walk.after \/ \E v \in Nat : m = Incoming!With(walk.after, n, v) /\ GrownSince(disk[n], v)
  BY DEF Incoming!GoOn
<1>5. Walking(walk, disk, sizes, DOMAIN library)
  BY <1>1 DEF WalkStands
<1>6. n = Incoming!Min(walk.left)
  BY DEF Incoming!This
<1>7. Walking(x, disk, sizes, DOMAIN library)
  <2> PICK d, w : d = disk /\ w = walk
    OBVIOUS
  <2>1. GoneOn(w, d, d, n, m, x)
    BY <1>1, <1>3, <1>4, <1>6 DEF GoneOn
  <2> QED BY <1>5, <2>1, Onward
<1>8. WalkStands'
  BY <1>7 DEF WalkStands
<1>9. walk'.at # "remove"
  <2>1. walk \in Walks
    BY <1>1 DEF WalkStands, Walking
  <2>2. x.at = "walk"
    BY <1>4, <2>1 DEF Walks
  <2> QED BY <2>2
<1>10. FilesStand' /\ LibraryStands'
  BY <1>1, <1>2, <1>9, FilesStay, LibraryStays
<1> QED BY <1>8, <1>10 DEF FolderInv

LEMMA PassOverHolds == ASSUME FolderInv, Incoming!PassOver PROVE FolderInv'
<1>1. /\ walk.at = "walk" /\ walk.left # {}
      /\ Incoming!Fault \/ Incoming!NoFault
      /\ Incoming!GoOn(walk.after) /\ UNCHANGED <<disk, arrived, sizes, library>>
  BY DEF Incoming!PassOver
<1> QED BY <1>1, GoesOnHolds

\* A file at work on: it is closed and measures what it did.
LEMMA AtItsFile ==
  ASSUME FolderInv, walk.at \in {"name", "write", "remove"}
  PROVE  /\ walk.left # {} /\ walk.name = Incoming!This /\ walk.name \in DOMAIN disk /\ walk.size \in Nat
         /\ ~disk[walk.name].open /\ disk[walk.name].size = walk.size
         /\ disk[walk.name].size = Incoming!Total(disk[walk.name].id)
         /\ \A v \in Nat : GrownSince(disk[walk.name], v)
<1>1. FilesStand /\ WalkStands /\ LibraryStands
  BY DEF FolderInv
<1>2. walk.left # {} /\ walk.name = Incoming!This /\ ~disk[walk.name].open /\ disk[walk.name].size = walk.size
  BY <1>1 DEF WalkStands, Walking, Incoming!This
<1>3. walk.name \in DOMAIN disk /\ walk.size \in Nat
  BY <1>1, <1>2, FolderTypes, SmallestName DEF WalkStands, Walking, Incoming!This
<1> QED BY <1>1, <1>2, <1>3 DEF FilesStand, GrownSince

LEMMA FailedHolds ==
  ASSUME FolderInv, walk.at \in {"name", "write", "remove"}, Incoming!Failed, UNCHANGED <<disk, arrived, sizes, library>>,
         Incoming!Fault \/ (Incoming!NoFault /\ walk.at # "remove")
  PROVE  FolderInv'
<1>1. walk.left # {} /\ walk.name = Incoming!This /\ walk.size \in Nat /\ GrownSince(disk[walk.name], walk.size)
  BY AtItsFile
<1>2. Incoming!GoOn(Incoming!With(walk.after, Incoming!This, walk.size))
  BY <1>1 DEF Incoming!Failed
<1> QED BY <1>1, <1>2, GoesOnHolds

LEMMA VisitHolds == ASSUME FolderInv, ~SlowWriters, Incoming!Visit PROVE FolderInv'
<1>1. FilesStand /\ WalkStands /\ LibraryStands
  BY DEF FolderInv
<1> PICK n : n = Incoming!This
  OBVIOUS
<1>2. walk.at = "walk" /\ walk.left # {} /\ UNCHANGED <<arrived, sizes, library, misses>>
  BY DEF Incoming!Visit
<1>3. n \in walk.left /\ n \in DOMAIN disk /\ n \in Nat /\ n = Incoming!Min(walk.left)
  BY <1>1, <1>2, FolderTypes, SmallestName DEF WalkStands, Walking, Incoming!This
<1> PICK g : g = disk[n]
  OBVIOUS
<1> PICK f : f = [g EXCEPT !.seen = TRUE]
  OBVIOUS
<1>4. g \in FolderFile /\ g.size \in Nat
  BY <1>1, <1>3, FolderTypes DEF FolderFile
<1>5. f \in FolderFile /\ f.id = g.id /\ f.size = g.size /\ f.open = g.open /\ f.seen
  BY <1>4 DEF FolderFile
<1>6. /\ disk' = [disk EXCEPT ![n].seen = TRUE]
      /\ ~(disk[n].open /\ disk[n].seen)
      /\ \/ ~Incoming!Finished(n) /\ Incoming!GoOn(Incoming!With(walk.after, n, disk[n].size))
         \/ Incoming!Finished(n) /\ walk' = [walk EXCEPT !.at = "name", !.name = n, !.size = disk[n].size]
  BY DEF Incoming!Visit
<1>7. disk' = [disk EXCEPT ![n] = f]
  BY <1>6
<1>8. /\ DOMAIN disk' = DOMAIN disk /\ disk'[n] = f /\ \A m \in DOMAIN disk : m # n => disk'[m] = disk[m]
      /\ \A m \in DOMAIN disk : disk'[m].id = disk[m].id
      /\ disk' \in [DOMAIN disk' -> FolderFile]
  BY <1>1, <1>3, <1>5, <1>7 DEF FilesStand
<1>9. FilesStand'
  <2>1. misses' \in 0..MaxFaults
    BY <1>1, <1>2 DEF FilesStand
  <2>2. \A m \in DOMAIN disk : /\ disk'[m].size = disk[m].size
                               /\ disk'[m].open = disk[m].open
    BY <1>5, <1>8
  <2> QED BY <1>1, <1>2, <1>8, <2>1, <2>2 DEF FilesStand, Incoming!Total
<1>10. LibraryStands'
  <2>1. walk'.at # "remove"
    <3>1. walk \in Walks
      BY <1>1 DEF WalkStands, Walking
    <3>2. walk'.at \in {"walk", "name"}
      BY <1>6, <3>1 DEF Incoming!GoOn, Walks
    <3> QED BY <3>2
  <2>2. misses' \in Nat /\ misses <= misses'
    BY <1>1, <1>2, FolderTypes
  <2> QED BY <1>2, <1>8, <2>1, <2>2, LibraryStays
<1> PICK x : x = walk'
  OBVIOUS
<1> PICK e : e = disk'
  OBVIOUS
<1>11. Walking(walk, disk, sizes, DOMAIN library)
  BY <1>1 DEF WalkStands
<1>12. GrownSince(f, g.size)
  BY <1>4, <1>5 DEF GrownSince
<1>13. Walking(x, e, sizes, DOMAIN library)
  <2>1. CASE Incoming!GoOn(Incoming!With(walk.after, n, disk[n].size))
    <3>1. PICK m : m = Incoming!With(walk.after, n, g.size) /\ x = [walk EXCEPT !.at = "walk", !.left = @ \ {n}, !.after = m]
      BY <2>1 DEF Incoming!GoOn
    <3>2. n \in DOMAIN e /\ \E v \in Nat : m = Incoming!With(walk.after, n, v) /\ GrownSince(e[n], v)
      BY <1>3, <1>4, <1>8, <1>12, <3>1
    <3> PICK w, d, s, k : w = walk /\ d = disk /\ s = sizes /\ k = DOMAIN library
      OBVIOUS
    <3>3. DOMAIN e \subseteq DOMAIN d /\ DOMAIN d \subseteq DOMAIN e \cup {n} /\ \A j \in DOMAIN d : j # n => e[j] = d[j]
      BY <1>8
    <3>4. Walking(w, d, s, k) /\ w.at # "idle" /\ w.left # {} /\ n = Incoming!Min(w.left)
      BY <1>2, <1>3, <1>11
    <3>5. x = [w EXCEPT !.at = "walk", !.left = @ \ {n}, !.after = m]
      BY <3>1
    <3>6. Walking(x, e, s, k)
      <4>1. GoneOn(w, d, e, n, m, x)
        BY <3>2, <3>3, <3>4, <3>5 DEF GoneOn
      <4> QED BY <3>4, <4>1, Onward
    <3> QED BY <3>6
  <2>2. CASE Incoming!Finished(n) /\ x = [walk EXCEPT !.at = "name", !.name = n, !.size = disk[n].size]
    <3>1. n \in DOMAIN sizes /\ sizes[n] = g.size
      BY <2>2 DEF Incoming!Finished
    <3>2. ~g.open
      BY <1>2, <1>3, <1>4, <1>6, <1>11, <3>1 DEF Walking, GrownSince
    <3>3. walk \in Walks /\ x = [walk EXCEPT !.at = "name", !.name = n, !.size = g.size]
      BY <1>11, <2>2 DEF Walking
    <3>4. x \in Walks /\ x.at = "name" /\ x.left = walk.left /\ x.name = n /\ x.size = g.size /\ x.after = walk.after
      BY <1>3, <1>4, <3>3 DEF Walks
    <3>5. \A m \in DOMAIN disk : ~f.open /\ (m # n => e[m] = disk[m]) /\ e[n] = f
      BY <1>5, <1>8, <3>2
    <3>6. \A v : GrownSince(f, v)
      BY <1>5, <3>2 DEF GrownSince
    <3>7. \A m \in DOMAIN disk : \A v : GrownSince(disk[m], v) => GrownSince(e[m], v)
      BY <3>5, <3>6
    <3>8. \A m \in DOMAIN sizes \cap DOMAIN e : m \in x.left => GrownSince(e[m], sizes[m])
      <4>1. \A m \in DOMAIN sizes \cap DOMAIN disk : m \in walk.left => GrownSince(disk[m], sizes[m])
        BY <1>11 DEF Walking
      <4>2. DOMAIN e = DOMAIN disk
        BY <1>8
      <4> QED BY <3>4, <3>7, <4>1, <4>2
    <3>9. \A m \in DOMAIN x.after : GrownSince(e[m], x.after[m])
      <4>1. \A m \in DOMAIN walk.after : m \in DOMAIN disk /\ GrownSince(disk[m], walk.after[m])
        BY <1>11 DEF Walking
      <4> QED BY <3>4, <3>7, <4>1
    <3>10. ~e[x.name].open /\ e[x.name].size = x.size
      <4>1. ~f.open /\ f.size = g.size
        BY <1>5, <3>2
      <4>2. e[n] = f
        BY <1>8
      <4>3. x.name = n /\ x.size = g.size
        BY <3>4
      <4> QED BY <4>1, <4>2, <4>3
    <3> QED BY <1>2, <1>3, <1>8, <1>11, <3>4, <3>8, <3>9, <3>10 DEF Walking
  <2> QED BY <1>6, <2>1, <2>2
<1>14. WalkStands'
  BY <1>2, <1>13 DEF WalkStands
<1> QED BY <1>9, <1>10, <1>14 DEF FolderInv

\* There is a free name: fewer copies of it than there are numbers.
LEMMA ThereIsAName ==
  ASSUME FolderInv, NEW n
  PROVE  LET free == {k \in 0..Len(Arrivals) + MaxFaults : <<n, k>> \notin DOMAIN library}
         IN Incoming!Min(free) \in free /\ Incoming!Min(free) \in Nat
<1> DEFINE K == 0..Len(Arrivals) + MaxFaults
           free == {k \in K : <<n, k>> \notin DOMAIN library}
<1>1. FilesStand /\ WalkStands /\ LibraryStands
  BY DEF FolderInv
<1>2. Len(Arrivals) \in Nat /\ MaxFaults \in Nat /\ arrived \in 0..Len(Arrivals) /\ misses \in 0..MaxFaults
  BY <1>1, FolderTypes DEF FilesStand
<1>3. IsFiniteSet(K) /\ Cardinality(K) = Len(Arrivals) + MaxFaults + 1
  <2> PICK N \in Nat : N = Len(Arrivals) + MaxFaults
    BY <1>2
  <2>1. IsFiniteSet(0..N) /\ Cardinality(0..N) = N + 1
    BY FS_Interval
  <2> QED BY <2>1
<1>4. IsFiniteSet(Ids) /\ Ids \subseteq 1..arrived
  BY <1>1, IdsAreFinite DEF Ids, LibraryStands
<1>5. IsFiniteSet(1..arrived) /\ Cardinality(1..arrived) = arrived
  BY <1>2, FS_Interval
<1>6. Cardinality(Ids) <= arrived /\ Cardinality(Ids) \in Nat
  BY <1>4, <1>5, FS_Subset, FS_CardinalityType
<1>7. IsFiniteSet(Again)
  BY <1>1, FS_Subset DEF FilesStand, Again
<1>8. Cardinality(Again) \in Nat /\ Cardinality(DOMAIN library) \in Nat
  BY <1>1, <1>7, FS_CardinalityType DEF LibraryStands
<1>9. Cardinality(DOMAIN library) < Cardinality(K)
  <2>1. Cardinality(DOMAIN library) + Cardinality(Again) <= Cardinality(Ids) + misses
    BY <1>1 DEF LibraryStands
  <2> HIDE DEF Again, Ids, K
  <2> QED BY <1>2, <1>3, <1>6, <1>8, <2>1
<1>10. free # {}
  <2> SUFFICES ASSUME free = {} PROVE FALSE
    OBVIOUS
  <2> DEFINE f == [k \in K |-> <<n, k>>]
  <2>1. f \in [K -> DOMAIN library]
    OBVIOUS
  <2>2. IsFiniteSet(DOMAIN library)
    BY <1>1 DEF LibraryStands
  <2> HIDE DEF K
  <2>3. \A j, k \in K : f[j] = f[k] => j = k
    OBVIOUS
  <2> HIDE DEF f
  <2> QED BY <1>3, <1>9, <2>1, <2>2, <2>3, FS_PigeonHole
<1>11. free \in SUBSET Nat
  OBVIOUS
<1> HIDE DEF free
<1>12. Incoming!Min(free) \in free
  BY <1>10, <1>11, SmallestName
<1> QED BY <1>11, <1>12 DEF free

LEMMA FreeNameHolds == ASSUME FolderInv, ~SlowWriters, Incoming!FreeName PROVE FolderInv'
<1>1. FilesStand /\ WalkStands /\ LibraryStands
  BY DEF FolderInv
<1>2. walk.at = "name" /\ UNCHANGED <<disk, arrived, sizes, library>>
  BY DEF Incoming!FreeName
<1>3. CASE Incoming!Failed /\ (Incoming!NoFault \/ Incoming!Fault)
  BY <1>2, <1>3, FailedHolds
<1>4. ASSUME NEW k, k = Incoming!Min({j \in 0..Len(Arrivals) + MaxFaults : <<walk.name, j>> \notin DOMAIN library}),
             walk' = [walk EXCEPT !.at = "write", !.copy = k], Incoming!NoFault
      PROVE  FolderInv'
  <2>1. k \in Nat /\ <<walk.name, k>> \notin DOMAIN library
    BY <1>4, ThereIsAName
  <2> PICK x : x = walk'
    OBVIOUS
  <2>2. Walking(walk, disk, sizes, DOMAIN library)
    BY <1>1 DEF WalkStands
  <2>3. /\ x \in Walks /\ x.at = "write" /\ x.left = walk.left /\ x.name = walk.name /\ x.size = walk.size
        /\ x.copy = k /\ x.after = walk.after
    BY <1>4, <2>1, <2>2 DEF Walking, Walks
  <2>4. Walking(x, disk, sizes, DOMAIN library)
    BY <1>2, <2>1, <2>2, <2>3 DEF Walking
  <2>5. WalkStands'
    BY <1>2, <2>4 DEF WalkStands
  <2>6. misses' \in 0..MaxFaults /\ misses' \in Nat /\ misses <= misses'
    BY <1>1, <1>4, FaultsAre
  <2>7. FilesStand' /\ LibraryStands'
    BY <1>1, <1>2, <2>3, <2>6, FilesStay, LibraryStays
  <2> QED BY <2>5, <2>7 DEF FolderInv
<1> QED BY <1>2, <1>3, <1>4 DEF Incoming!FreeName

LEMMA WriteHolds == ASSUME FolderInv, ~SlowWriters, Incoming!Write PROVE FolderInv'
<1> PICK n : n = walk.name
  OBVIOUS
<1> PICK i : i = disk[n].id
  OBVIOUS
<1> PICK p : p = <<n, walk.copy>>
  OBVIOUS
<1> PICK r : r = [id |-> i, size |-> disk[n].size]
  OBVIOUS
<1>1. FilesStand /\ WalkStands /\ LibraryStands
  BY DEF FolderInv
<1>2. walk.at = "write" /\ UNCHANGED <<disk, arrived, sizes>>
  BY DEF Incoming!Write
<1>3. CASE Incoming!Failed /\ (Incoming!NoFault \/ Incoming!Fault) /\ UNCHANGED library
  BY <1>2, <1>3, FailedHolds
<1>4. ASSUME Incoming!NoFault, library' = Incoming!With(library, p, r), walk' = [walk EXCEPT !.at = "remove"]
      PROVE  FolderInv'
  <2>1. n \in DOMAIN disk /\ i \in 1..arrived /\ disk[n].size = Incoming!Total(i) /\ disk[n].size \in Nat
    BY <1>1, <1>2, AtItsFile, FolderTypes DEF FilesStand, FolderFile
  <2>2. r.id = i /\ r.size = Incoming!Total(i) /\ r \in [id : 1..arrived, size : Nat]
    BY <2>1
  <2>3. p \notin DOMAIN library
    BY <1>1, <1>2 DEF WalkStands, Walking
  <2>4. /\ DOMAIN library' = DOMAIN library \cup {p} /\ library'[p] = r
        /\ \A q \in DOMAIN library : library'[q] = library[q]
        /\ library' \in [DOMAIN library' -> [id : 1..arrived, size : Nat]]
    BY <1>1, <1>4, <2>2, <2>3 DEF Incoming!With, LibraryStands
  <2> PICK x : x = walk'
    OBVIOUS
  <2>5. Walking(walk, disk, sizes, DOMAIN library)
    BY <1>1 DEF WalkStands
  <2>6. /\ x \in Walks /\ x.at = "remove" /\ x.left = walk.left /\ x.name = walk.name /\ x.size = walk.size
        /\ x.after = walk.after
    BY <1>4, <2>5 DEF Walking, Walks
  <2>7. Walking(x, disk, sizes, DOMAIN library')
    BY <1>2, <2>5, <2>6 DEF Walking
  <2>8. WalkStands'
    BY <1>2, <2>7 DEF WalkStands
  <2>9. misses' \in 0..MaxFaults /\ misses' = misses
    BY <1>1, <1>4, FaultsAre DEF Incoming!NoFault
  <2>10. FilesStand'
    BY <1>1, <1>2, <2>9, FilesStay
  <2>11. Ids' = Ids \cup {i}
    BY <2>2, <2>3, <2>4 DEF Ids
  <2>12. /\ Again = {m \in DOMAIN disk : disk[m].id \in Ids}
         /\ Again' = {m \in DOMAIN disk : disk[m].id \in Ids \cup {i} /\ m # n}
    BY <1>2, <2>6, <2>11 DEF Again
  <2>13. \A m \in DOMAIN disk : disk[m].id = i => m = n
    BY <1>1, <2>1 DEF FilesStand
  <2>14. IsFiniteSet(Again) /\ IsFiniteSet(Ids) /\ IsFiniteSet(DOMAIN library)
    BY <1>1, <2>12, FS_Subset, IdsAreFinite DEF FilesStand, LibraryStands, Ids
  <2>15. /\ Cardinality(Again) \in Nat /\ Cardinality(Ids) \in Nat /\ Cardinality(DOMAIN library) \in Nat /\ misses \in Nat
         /\ Cardinality(DOMAIN library) + Cardinality(Again) <= Cardinality(Ids) + misses
    BY <1>1, <2>14, FS_CardinalityType, FolderTypes DEF LibraryStands
  <2>16. Cardinality(DOMAIN library') = Cardinality(DOMAIN library) + 1 /\ IsFiniteSet(DOMAIN library')
    BY <2>3, <2>4, <2>14, FS_AddElement
  <2>17. Cardinality(DOMAIN library') + Cardinality(Again') <= Cardinality(Ids') + misses'
    <3>1. CASE i \in Ids
      <4>1. Ids' = Ids
        BY <3>1, <2>11
      <4>2. Again' = Again \ {n} /\ n \in Again
        BY <3>1, <2>1, <2>12
      <4>3. Cardinality(Again \ {n}) = Cardinality(Again) - 1
        BY <2>14, <4>2, FS_RemoveElement
      <4>4. Cardinality(Again') = Cardinality(Again) - 1 /\ Cardinality(Ids') = Cardinality(Ids)
        BY <4>1, <4>2, <4>3
      <4> HIDE DEF Again, Ids
      <4> QED BY <2>9, <2>15, <2>16, <4>4
    <3>2. CASE i \notin Ids
      <4>1. Again' = Again
        BY <3>2, <2>12, <2>13
      <4>2. Cardinality(Ids \cup {i}) = Cardinality(Ids) + 1
        BY <3>2, <2>14, FS_AddElement
      <4>3. Cardinality(Again') = Cardinality(Again) /\ Cardinality(Ids') = Cardinality(Ids) + 1
        BY <2>11, <4>1, <4>2
      <4> HIDE DEF Again, Ids
      <4> QED BY <2>9, <2>15, <2>16, <4>3
    <3> QED BY <3>1, <3>2
  <2>18. Incoming!NothingIsLost'
    <3> SUFFICES ASSUME NEW id \in 1..arrived'
                 PROVE  \/ \E m \in DOMAIN disk' : disk'[m].id = id
                        \/ \E q \in DOMAIN library' : library'[q] = [id |-> id, size |-> Incoming!Total(id)]
      BY DEF Incoming!NothingIsLost, Incoming!Total
    <3> QED BY <1>1, <1>2, <2>4 DEF LibraryStands, Incoming!NothingIsLost
  <2>19. \A q \in DOMAIN library' : library'[q].size = Incoming!Total(library'[q].id)
    BY <1>1, <2>2, <2>4 DEF LibraryStands
  <2>20. (walk.at = "remove" => InLibrary(disk[walk.name].id))'
    <3>1. library'[p] = [id |-> i, size |-> Incoming!Total(i)] /\ p \in DOMAIN library'
      BY <2>1, <2>4
    <3> QED BY <1>2, <2>6, <3>1 DEF InLibrary, Incoming!Total
  <2>21. LibraryStands'
    BY <1>2, <2>4, <2>16, <2>17, <2>18, <2>19, <2>20 DEF LibraryStands, Incoming!Total
  <2> QED BY <2>8, <2>10, <2>21 DEF FolderInv
<1> QED BY <1>2, <1>3, <1>4 DEF Incoming!Write

LEMMA RemoveHolds == ASSUME FolderInv, ~SlowWriters, Incoming!RemoveFile PROVE FolderInv'
<1> PICK n : n = walk.name
  OBVIOUS
<1>1. FilesStand /\ WalkStands /\ LibraryStands
  BY DEF FolderInv
<1>2. walk.at = "remove" /\ UNCHANGED <<arrived, sizes, library>>
  BY DEF Incoming!RemoveFile
<1>3. CASE Incoming!Failed /\ Incoming!Fault /\ UNCHANGED disk
  BY <1>2, <1>3, FailedHolds
<1>4. ASSUME Incoming!NoFault, disk' = [m \in DOMAIN disk \ {n} |-> disk[m]], Incoming!GoOn(walk.after)
      PROVE  FolderInv'
  <2>1. n \in DOMAIN disk /\ n = Incoming!Min(walk.left) /\ walk.left # {} /\ n = Incoming!This
    BY <1>2, AtItsFile DEF Incoming!This
  <2>2. DOMAIN disk' = DOMAIN disk \ {n} /\ \A m \in DOMAIN disk : m # n => disk'[m] = disk[m]
    BY <1>4
  <2>3. misses' \in 0..MaxFaults /\ misses' = misses /\ misses' \in Nat
    BY <1>1, <1>4, FaultsAre DEF Incoming!NoFault
  <2>4. FilesStand'
    <3>1. IsFiniteSet(DOMAIN disk')
      <4>1. DOMAIN disk' \subseteq DOMAIN disk /\ IsFiniteSet(DOMAIN disk)
        BY <1>1, <2>2 DEF FilesStand
      <4> QED BY <4>1, FS_Subset
    <3>2. disk' \in [DOMAIN disk' -> FolderFile]
      BY <1>1, <1>4 DEF FilesStand
    <3> QED BY <1>1, <1>2, <2>2, <2>3, <3>1, <3>2 DEF FilesStand, Incoming!Total
  <2> PICK x, e, w, d, s, k : x = walk' /\ e = disk' /\ w = walk /\ d = disk /\ s = sizes /\ k = DOMAIN library
    OBVIOUS
  <2>5. Walking(w, d, s, k) /\ w.at # "idle" /\ w.left # {} /\ n = Incoming!Min(w.left)
    BY <1>1, <1>2, <2>1 DEF WalkStands
  <2>6. DOMAIN e \subseteq DOMAIN d /\ DOMAIN d \subseteq DOMAIN e \cup {n} /\ \A j \in DOMAIN d : j # n => e[j] = d[j]
    BY <2>2
  <2> PICK m : m = w.after
    OBVIOUS
  <2>7. x = [w EXCEPT !.at = "walk", !.left = @ \ {n}, !.after = m]
    BY <1>4, <2>1 DEF Incoming!GoOn
  <2>8. Walking(x, e, sizes, DOMAIN library)
    <3>1. m = w.after
      OBVIOUS
    <3>2. Walking(x, e, s, k)
      <4>1. GoneOn(w, d, e, n, m, x)
        BY <2>5, <2>6, <2>7, <3>1 DEF GoneOn
      <4> QED BY <2>5, <4>1, Onward
    <3> QED BY <3>2
  <2>9. WalkStands'
    BY <1>2, <2>8 DEF WalkStands
  <2>10. x.at = "walk"
    BY <2>5, <2>7 DEF Walking, Walks
  <2>11. Again' \subseteq Again
    BY <1>2, <2>2, <2>10 DEF Again, Ids
  <2>12. Cardinality(DOMAIN library') + Cardinality(Again') <= Cardinality(Ids') + misses'
    BY <1>1, <1>2, <2>3, <2>11, CopiesStay
  <2>13. Incoming!NothingIsLost'
    <3> SUFFICES ASSUME NEW id \in 1..arrived
                 PROVE  \/ \E j \in DOMAIN disk' : disk'[j].id = id
                        \/ \E q \in DOMAIN library : library[q] = [id |-> id, size |-> Incoming!Total(id)]
      BY <1>2 DEF Incoming!NothingIsLost, Incoming!Total
    <3>1. CASE id = disk[n].id
      BY <3>1, <1>1, <1>2 DEF LibraryStands, InLibrary
    <3>2. CASE id # disk[n].id
      BY <3>2, <1>1, <2>2 DEF LibraryStands, Incoming!NothingIsLost
    <3> QED BY <3>1, <3>2
  <2>14. LibraryStands'
    BY <1>1, <1>2, <2>10, <2>12, <2>13 DEF LibraryStands, Incoming!Total
  <2> QED BY <2>4, <2>9, <2>14 DEF FolderInv
<1> QED BY <1>2, <1>3, <1>4 DEF Incoming!RemoveFile

\* A pass ends, and what it measured is what the next one knows, or nothing.
LEMMA OverHolds ==
  ASSUME FolderInv, walk' = Incoming!NoWalk, sizes' = walk.after \/ sizes' = <<>>, UNCHANGED <<disk, arrived, library>>,
         Incoming!Fault \/ (Incoming!NoFault /\ walk.at # "remove")
  PROVE  FolderInv'
<1>1. FilesStand /\ WalkStands /\ LibraryStands
  BY DEF FolderInv
<1>2. /\ misses' \in 0..MaxFaults /\ misses' \in Nat /\ misses <= misses'
      /\ misses' = misses + 1 \/ walk.at # "remove"
  BY <1>1, FaultsAre
<1> PICK x, m, w, d, s, l : x = walk' /\ m = sizes' /\ w = walk /\ d = disk /\ s = sizes /\ l = DOMAIN library
  OBVIOUS
<1>3. Walking(w, d, s, l) /\ (m = w.after \/ m = <<>>) /\ x = Incoming!NoWalk
  BY <1>1 DEF WalkStands
<1>4. Walking(x, d, m, l)
  BY <1>3, PassOverAt
<1>5. WalkStands'
  BY <1>4 DEF WalkStands
<1>6. walk'.at = "idle"
  BY DEF Incoming!NoWalk
<1>7. FilesStand' /\ LibraryStands'
  BY <1>1, <1>2, <1>6, FilesStay, LibraryStays
<1> QED BY <1>5, <1>7 DEF FolderInv

LEMMA FolderNextHolds == ASSUME ~SlowWriters, FolderInv, [Incoming!Next]_ivars PROVE FolderInv'
<1>1. CASE Incoming!End
  BY <1>1, OverHolds DEF Incoming!End, Incoming!NoFault
<1>2. CASE Incoming!Cancel
  BY <1>2, OverHolds DEF Incoming!Cancel
<1>3. CASE Incoming!Restart
  BY <1>3, OverHolds DEF Incoming!Restart
<1>4. CASE UNCHANGED ivars
  BY <1>4 DEF ivars, FolderInv, FilesStand, WalkStands, Walking, LibraryStands, InLibrary, Ids, Again, Incoming!This,
              Incoming!Total, Incoming!NothingIsLost
<1> QED
  BY <1>1, <1>2, <1>3, <1>4, ArriveHolds, BeginHolds, PassOverHolds, VisitHolds, FreeNameHolds, WriteHolds, RemoveHolds,
     GrowHolds, CloseHolds DEF Incoming!Next

\* The import folder: from its first pass on, for any number of files, names,
\* sizes, errors and stops.
THEOREM FolderInvariant == ASSUME ~SlowWriters PROVE Incoming!Spec => []FolderInv
<1>1. Incoming!Init => FolderInv
  BY FolderInitHolds
<1>2. FolderInv /\ [Incoming!Next]_(Incoming!incomingVars) => FolderInv'
  BY FolderNextHolds DEF Incoming!incomingVars, ivars
<1> QED BY <1>1, <1>2, PTL DEF Incoming!Spec

LEMMA FolderPromises ==
  ASSUME FolderInv
  PROVE  Incoming!NothingIsLost /\ Incoming!CopiesHaveAReason /\ Incoming!OnlyWholeFiles
<1>1. FilesStand /\ WalkStands /\ LibraryStands
  BY DEF FolderInv
<1>2. IsFiniteSet(Again)
  BY <1>1, FS_Subset DEF FilesStand, Again
<1>3. IsFiniteSet(Ids)
  BY <1>1, IdsAreFinite DEF Ids, LibraryStands
<1>4. Cardinality(Again) \in Nat /\ Cardinality(DOMAIN library) \in Nat /\ Cardinality(Ids) \in Nat /\ misses \in Nat
  BY <1>1, <1>2, <1>3, FS_CardinalityType, FolderTypes DEF LibraryStands
<1>5. Cardinality(DOMAIN library) + Cardinality(Again) <= Cardinality(Ids) + misses
  BY <1>1 DEF LibraryStands
<1>6. Cardinality(DOMAIN library) <= Cardinality(Ids) + misses
  <2> HIDE DEF Again, Ids
  <2> QED BY <1>4, <1>5
<1>7. Incoming!CopiesHaveAReason
  BY <1>6, CountedAlike DEF Incoming!CopiesHaveAReason, Ids
<1> QED BY <1>1, <1>7 DEF LibraryStands, Incoming!OnlyWholeFiles
-----------------------------------------------------------------------------
(* The Nextcloud import: what the passes keep.                             *)

CloudRows == {Cache[n] : n \in DOMAIN Cache}

\* What a worker may hold.
Holding ==
  {Nextcloud!Nothing} \cup [is : {"entry"}, entry : CloudRows]
    \cup [is : {"answer"}, verdict : {"present", "mismatch", "missing", "failed"}]
    \cup [is : {"place", "returned"}, place : Nat]

Leaf == [dir : BOOLEAN, key : Nat, tagged : BOOLEAN, by : {"import", "user"}]

CloudTypes ==
  /\ command \in Commands /\ phase \in Nextcloud!Ends \cup Nextcloud!Running
  /\ holds \in [Workers -> Holding]
  /\ rows \in Seq(CloudRows) /\ batch \in Seq(CloudRows) /\ at \in Nat \ {0}
  /\ DOMAIN report = {"present", "mismatch", "missing", "failed", "unclaimed"}
  /\ \A v \in {"present", "mismatch", "missing", "failed"} : report[v] \in Nat
  /\ DOMAIN counts = {"adopted", "skipped"} /\ counts.adopted \in Nat /\ counts.skipped \in Nat

Answered == report.present + report.mismatch + report.missing + report.failed
NoneBad == report.missing = 0 /\ report.mismatch = 0 /\ report.failed = 0
Busy == {w \in Workers : holds[w] # Nextcloud!Nothing}
Asked == {holds[w].entry.id : w \in {v \in Workers : holds[v].is = "entry"}}
IdsOf(n) == {rows[m].id : m \in {k \in DOMAIN rows : k < n}}

WalkGoes ==
  phase = "walk" =>
    /\ \A m, n \in DOMAIN rows : rows[m].id = rows[n].id => m = n
    /\ claimed = {rows[n].id : n \in DOMAIN rows}
    /\ \A w \in Workers : holds[w].is \in {"nothing", "entry", "answer"}
    /\ at <= Len(rows) + 2
    /\ at # Len(rows) + 2 =>
         /\ Answered + Cardinality(Busy) = at - 1
         /\ NoneBad /\ (\A w \in Workers : holds[w].is = "answer" => holds[w].verdict = "present")
              => present \cup Asked = IdsOf(at)

SurveyStands ==
  /\ phase \in {"list", "open", "read", "hash", "adopt"} => Answered = Cardinality(claimed) /\ (NoneBad => present = claimed)
  /\ phase \in {"read", "hash", "adopt"} => NoneBad

TreeStands ==
  /\ DOMAIN tree \subseteq Seq(STRING) /\ tree \in [DOMAIN tree -> Leaf]
  /\ \A p \in DOMAIN tree : Len(p) > 1 => SubSeq(p, 1, Len(p) - 1) \in DOMAIN tree
  /\ \A p \in mine : p \in DOMAIN tree /\ tree[p].by = "user"
  /\ Nextcloud!ValidatorsAreWhole

NotYet == phase \in {"walk", "list", "open"} => batch = <<>> /\ counts.adopted + counts.skipped = 0

ImportStands ==
  phase \in {"read", "hash", "adopt", "done"} =>
    /\ at <= Len(rows) + 1 /\ Len(batch) < at
    /\ \A i \in DOMAIN batch : batch[i] = rows[at - 1 - Len(batch) + i]
    /\ counts.adopted + counts.skipped = at - 1 - Len(batch)
    /\ \A n \in DOMAIN rows : n < at - Len(batch) => Nextcloud!under(rows[n].rest) \in DOMAIN tree \cup removed
    /\ phase \in {"read", "done"} => batch = <<>>
    /\ phase = "done" => at = Len(rows) + 1
    /\ phase = "adopt" /\ command.etag => Nextcloud!Files \subseteq hashed

HashStands ==
  phase = "hash" =>
    /\ \A w \in Workers : holds[w].is \in {"nothing", "place", "returned"}

CloudInv == CloudTypes /\ WalkGoes /\ SurveyStands /\ NotYet /\ TreeStands /\ ImportStands /\ HashStands
-----------------------------------------------------------------------------
(* The Nextcloud import: the rows it reads.                                *)

LEMMA CloudRowsAre == \A f \in CloudRows : f.id \in Nat /\ f.rest \in Seq(STRING)
BY CloudAssumption DEF CloudRows

LEMMA PlacesAreFinite ==
  ASSUME NEW T \in SUBSET DOMAIN Cache
  PROVE  T \in SUBSET Nat /\ IsFiniteSet(T)
<1>1. DOMAIN Cache = 1..Len(Cache) /\ Len(Cache) \in Nat
  BY CloudAssumption
<1>2. IsFiniteSet(1..Len(Cache))
  BY <1>1, FS_Interval
<1>3. IsFiniteSet(T)
  BY <1>1, <1>2, FS_Subset
<1> QED BY <1>1, <1>3

LEMMA AscendingRanks == \A S : Ranked(Nextcloud!Ascending(S), S)
BY Zenon DEF Nextcloud!Ascending, Ranked, Nextcloud!Cardinality, Cardinality

LEMMA EntriesAre ==
  LET e == Nextcloud!Entries
  IN e \in Seq(CloudRows) /\ \A m, n \in DOMAIN e : e[m].id = e[n].id => m = n
<1> DEFINE T == {m \in Nextcloud!OfStorage(command.user) : ~Cache[m].dir}
           files == {Cache[n] : n \in T}
           S == {f.id : f \in files}
           g == [n \in T |-> Cache[n].id]
           a == Nextcloud!Ascending(S)
           e == Nextcloud!Entries
<1>1. T \in SUBSET DOMAIN Cache
  BY DEF Nextcloud!OfStorage
<1>2. IsFiniteSet(T)
  <2> HIDE DEF T
  <2> QED BY <1>1, PlacesAreFinite
<1>3. g \in Surjection(T, S)
  BY DEF Surjection
<1>4. S \in SUBSET Nat
  BY <1>1, CloudAssumption
<1>5. IsFiniteSet(S)
  <2> HIDE DEF T, S, g
  <2> QED BY <1>2, <1>3, FS_Surjection
<1>6. e = [k \in DOMAIN a |-> CHOOSE f \in files : f.id = a[k]]
  BY DEF Nextcloud!Entries
<1>7. /\ DOMAIN a = 1..Cardinality(S) /\ Cardinality(S) \in Nat
      /\ \A k \in DOMAIN a : a[k] \in S
      /\ \A k, l \in DOMAIN a : a[k] = a[l] => k = l
  <2>1. Ranked(a, S)
    BY AscendingRanks
  <2> HIDE DEF a, S
  <2> QED BY <1>4, <1>5, <2>1, RankedAre
<1>8. \A k \in DOMAIN a : \E f \in files : f.id = a[k]
  <2> HIDE DEF a, files
  <2> QED BY <1>7
<1>9. files \subseteq CloudRows
  BY <1>1 DEF CloudRows
<1> HIDE DEF a, files, S, T, e
<1>10. \A k \in DOMAIN a : e[k] \in files /\ e[k].id = a[k]
  BY <1>6, <1>8
<1>11. DOMAIN e = 1..Cardinality(S) /\ e = [k \in 1..Cardinality(S) |-> e[k]]
  BY <1>6, <1>7
<1>12. e \in [1..Cardinality(S) -> CloudRows]
  BY <1>7, <1>9, <1>10, <1>11
<1>13. e \in Seq(CloudRows)
  BY <1>7, <1>12, SeqDef
<1>14. \A m, n \in DOMAIN e : e[m].id = e[n].id => m = n
  BY <1>7, <1>10, <1>11
<1> QED BY <1>13, <1>14 DEF e

LEMMA AdoptedAre == Nextcloud!Adopted \in Seq(CloudRows)
<1> DEFINE T == {n \in Nextcloud!OfStorage(command.user) : Cache[n].rest # <<>> /\ Cache[n].valid}
           a == Nextcloud!Ascending(T)
           e == Nextcloud!Adopted
<1>1. T \in SUBSET DOMAIN Cache
  BY DEF Nextcloud!OfStorage
<1>2. e = [k \in DOMAIN a |-> Cache[a[k]]]
  BY DEF Nextcloud!Adopted
<1>3. Ranked(a, T)
  BY AscendingRanks
<1> HIDE DEF a, T, e
<1>4. DOMAIN a = 1..Cardinality(T) /\ Cardinality(T) \in Nat /\ \A k \in DOMAIN a : a[k] \in T
  BY <1>1, <1>3, PlacesAreFinite, RankedAre
<1>5. e \in [1..Cardinality(T) -> CloudRows]
  BY <1>1, <1>2, <1>4 DEF CloudRows
<1>6. e \in Seq(CloudRows)
  BY <1>4, <1>5, SeqDef
<1> QED BY <1>6 DEF e
-----------------------------------------------------------------------------
(* The Nextcloud import: the survey.                                       *)

LEMMA HoldingKinds ==
  /\ Nextcloud!Nothing \in Holding
  /\ \A f \in CloudRows : [is |-> "entry", entry |-> f] \in Holding
  /\ \A v \in {"present", "mismatch", "missing", "failed"} : [is |-> "answer", verdict |-> v] \in Holding
  /\ \A i \in Nat, k \in {"place", "returned"} : [is |-> k, place |-> i] \in Holding
  /\ \A h \in Holding : /\ h.is \in {"nothing", "entry", "answer", "place", "returned"}
                        /\ h.is = "nothing" <=> h = Nextcloud!Nothing
                        /\ h.is = "entry" => h.entry \in CloudRows
                        /\ h.is = "answer" => h.verdict \in {"present", "mismatch", "missing", "failed"}
                        /\ h.is \in {"place", "returned"} => h.place \in Nat
BY DEF Holding, Nextcloud!Nothing

\* One worker takes something up or lays it down.
LEMMA OneWorker ==
  ASSUME CloudTypes, NEW w \in Workers, NEW h \in Holding, holds' = [holds EXCEPT ![w] = h]
  PROVE  /\ holds' \in [Workers -> Holding] /\ holds'[w] = h
         /\ \A v \in Workers : v # w => holds'[v] = holds[v]
BY DEF CloudTypes

LEMMA BusyAre ==
  ASSUME CloudTypes
  PROVE  IsFiniteSet(Busy) /\ Cardinality(Busy) \in Nat
<1>1. Busy \in SUBSET Workers
  BY DEF Busy
<1>2. IsFiniteSet(Busy)
  BY <1>1, CloudAssumption, FS_Subset
<1> QED BY <1>2, FS_CardinalityType

LEMMA BusyChange ==
  ASSUME CloudTypes, NEW w \in Workers, NEW h \in Holding, holds' = [holds EXCEPT ![w] = h]
  PROVE  /\ h = Nextcloud!Nothing /\ holds[w] # Nextcloud!Nothing => Cardinality(Busy') = Cardinality(Busy) - 1
         /\ h # Nextcloud!Nothing /\ holds[w] = Nextcloud!Nothing => Cardinality(Busy') = Cardinality(Busy) + 1
         /\ h # Nextcloud!Nothing /\ holds[w] # Nextcloud!Nothing => Cardinality(Busy') = Cardinality(Busy)
<1>1. holds'[w] = h /\ \A v \in Workers : v # w => holds'[v] = holds[v]
  BY OneWorker
<1>2. IsFiniteSet(Busy) /\ Cardinality(Busy) \in Nat
  BY BusyAre
<1>3. CASE h = Nextcloud!Nothing /\ holds[w] # Nextcloud!Nothing
  <2>1. Busy' = Busy \ {w} /\ w \in Busy
    BY <1>1, <1>3 DEF Busy, Nextcloud!Nothing
  <2>2. Cardinality(Busy \ {w}) = Cardinality(Busy) - 1
    BY <1>2, <2>1, FS_RemoveElement
  <2> QED BY <1>3, <2>1, <2>2
<1>4. CASE h # Nextcloud!Nothing /\ holds[w] = Nextcloud!Nothing
  <2>1. Busy' = Busy \cup {w} /\ w \notin Busy
    BY <1>1, <1>4 DEF Busy, Nextcloud!Nothing
  <2>2. Cardinality(Busy \cup {w}) = Cardinality(Busy) + 1
    BY <1>2, <2>1, FS_AddElement, ZenonT(20)
  <2> QED BY <1>4, <2>1, <2>2
<1>5. CASE h # Nextcloud!Nothing /\ holds[w] # Nextcloud!Nothing
  <2>1. Busy' = Busy
    BY <1>1, <1>5 DEF Busy, Nextcloud!Nothing
  <2> QED BY <1>5, <2>1
<1> QED BY <1>3, <1>4, <1>5

LEMMA TreeStays ==
  ASSUME TreeStands, UNCHANGED <<command, tree, mine>>
  PROVE  TreeStands'
BY DEF TreeStands, Nextcloud!ValidatorsAreWhole

\* What stays the same in a step of the survey.
LEMMA SurveyFrame ==
  ASSUME CloudInv, UNCHANGED <<command, claimed, tree, removed, mine, rows, batch, hashed, counts>>,
         phase = "walk", phase' \in {"walk", "failed"}, holds' \in [Workers -> Holding], at' \in Nat \ {0},
         DOMAIN report' = DOMAIN report, \A v \in {"present", "mismatch", "missing", "failed"} : report'[v] \in Nat,
         WalkGoes'
  PROVE  CloudInv'
<1>1. CloudTypes'
  BY DEF CloudInv, CloudTypes, Nextcloud!Ends, Nextcloud!Running
<1>2. TreeStands'
  BY TreeStays DEF CloudInv
<1>3. SurveyStands' /\ NotYet' /\ ImportStands' /\ HashStands'
  BY DEF CloudInv, SurveyStands, NotYet, ImportStands, HashStands
<1> QED BY <1>1, <1>2, <1>3 DEF CloudInv

LEMMA RowsAre ==
  ASSUME CloudTypes
  PROVE  /\ DOMAIN rows = 1..Len(rows) /\ Len(rows) \in Nat /\ at \in Nat \ {0}
         /\ \A n \in DOMAIN rows : rows[n] \in CloudRows
         /\ holds \in [Workers -> Holding]
BY LenProperties, ElementOfSeq DEF CloudTypes

LEMMA FeedHolds == ASSUME CloudInv, NEW w \in Workers, Nextcloud!feed(w) PROVE CloudInv'
<1> DEFINE h == [is |-> "entry", entry |-> rows[at]]
<1>1. /\ phase = "walk" /\ at \in DOMAIN rows /\ holds[w] = Nextcloud!Nothing
      /\ holds' = [holds EXCEPT ![w] = h] /\ at' = at + 1
      /\ UNCHANGED <<command, claimed, tree, removed, mine, rows, phase, report, batch, hashed, counts, present>>
  BY DEF Nextcloud!feed, Nextcloud!source
<1>2. CloudTypes /\ WalkGoes
  BY DEF CloudInv
<1>3. h \in Holding /\ h # Nextcloud!Nothing /\ h.is = "entry" /\ h.entry = rows[at]
  BY <1>1, <1>2, RowsAre, HoldingKinds DEF Nextcloud!Nothing
<1> HIDE DEF h
<1>4. /\ holds' \in [Workers -> Holding] /\ holds'[w] = h
      /\ \A v \in Workers : v # w => holds'[v] = holds[v]
  BY <1>1, <1>2, <1>3, OneWorker
<1>5. Cardinality(Busy') = Cardinality(Busy) + 1 /\ Cardinality(Busy) \in Nat
  BY <1>1, <1>2, <1>3, BusyChange, BusyAre
<1>6. holds[w].is = "nothing"
  BY <1>1 DEF Nextcloud!Nothing
<1>7. Asked' = Asked \cup {rows[at].id}
  BY <1>3, <1>4, <1>6 DEF Asked
<1>8. IdsOf(at)' = IdsOf(at) \cup {rows[at].id}
  BY <1>1, <1>2, RowsAre DEF IdsOf
<1>9. at <= Len(rows) /\ at \in Nat /\ Len(rows) \in Nat
  BY <1>1, <1>2, RowsAre
<1>10. Answered' = Answered /\ Answered \in Nat
  BY <1>1, <1>2 DEF Answered, CloudTypes
<1>11. \A v \in Workers : holds[v].is = "answer" => v # w /\ holds'[v] = holds[v]
  BY <1>4, <1>6
<1>12. WalkGoes'
  <2>1. at' <= Len(rows) + 2 /\ at' # Len(rows) + 2
    BY <1>1, <1>9
  <2>2. Answered' + Cardinality(Busy') = at' - 1
    BY <1>1, <1>2, <1>5, <1>9, <1>10, SMTT(60) DEF WalkGoes
  <2>3. \A v \in Workers : holds'[v].is \in {"nothing", "entry", "answer"}
    BY <1>1, <1>2, <1>3, <1>4 DEF WalkGoes
  <2>4. ASSUME NoneBad', \A v \in Workers : holds'[v].is = "answer" => holds'[v].verdict = "present"
        PROVE  (present \cup Asked)' = IdsOf(at)'
    <3>1. NoneBad /\ \A v \in Workers : holds[v].is = "answer" => holds[v].verdict = "present"
      BY <1>1, <1>11, <2>4 DEF NoneBad
    <3>2. present \cup Asked = IdsOf(at)
      BY <1>1, <1>2, <1>9, <3>1 DEF WalkGoes
    <3> QED BY <1>1, <1>7, <1>8, <3>2
  <2> QED BY <1>1, <1>2, <2>1, <2>2, <2>3, <2>4 DEF WalkGoes
<1>13. at' \in Nat \ {0}
  BY <1>1, <1>9
<1>14. \A v \in {"present", "mismatch", "missing", "failed"} : report'[v] \in Nat
  BY <1>1, <1>2 DEF CloudTypes
<1> QED BY <1>1, <1>4, <1>12, <1>13, <1>14, SurveyFrame
LEMMA FeedStopsHolds == ASSUME CloudInv, Nextcloud!feedStops PROVE CloudInv'
<1>1. /\ phase = "walk" /\ at' = Len(rows) + 2
      /\ UNCHANGED <<command, claimed, tree, removed, mine, rows, phase, holds, report, batch, hashed, counts, present>>
  BY DEF Nextcloud!feedStops, Nextcloud!source
<1>2. CloudTypes /\ WalkGoes
  BY DEF CloudInv
<1>3. WalkGoes'
  BY <1>1, <1>2, RowsAre DEF WalkGoes
<1>4. holds' \in [Workers -> Holding] /\ at' \in Nat \ {0}
  BY <1>1, <1>2, RowsAre
<1>5. DOMAIN report' = DOMAIN report /\ \A v \in {"present", "mismatch", "missing", "failed"} : report'[v] \in Nat
  BY <1>1, <1>2 DEF CloudTypes
<1> QED BY <1>1, <1>3, <1>4, <1>5, SurveyFrame

LEMMA CheckHolds == ASSUME CloudInv, NEW w \in Workers, Nextcloud!check(w) PROVE CloudInv'
<1> DEFINE e == holds[w].entry
           h(v) == [is |-> "answer", verdict |-> v]
<1>1. /\ phase = "walk" /\ holds[w].is = "entry"
      /\ UNCHANGED <<command, claimed, tree, removed, mine, rows, phase, at, report, batch, hashed, counts>>
  BY DEF Nextcloud!check, Nextcloud!source
<1>2. CloudTypes /\ WalkGoes
  BY DEF CloudInv
<1>3. PICK v \in {"present", "mismatch", "missing", "failed"} :
        /\ holds' = [holds EXCEPT ![w] = h(v)]
        /\ IF v = "present" THEN present' = present \cup {e.id} ELSE present' = present
  BY DEF Nextcloud!check
<1>4. h(v) \in Holding /\ h(v) # Nextcloud!Nothing /\ h(v).is = "answer" /\ h(v).verdict = v
  BY HoldingKinds DEF Nextcloud!Nothing
<1> PICK k : k = h(v)
  OBVIOUS
<1> HIDE DEF h
<1>5. /\ holds' \in [Workers -> Holding] /\ holds'[w] = k
      /\ \A u \in Workers : u # w => holds'[u] = holds[u]
  BY <1>2, <1>3, <1>4, OneWorker
<1>6. holds[w] # Nextcloud!Nothing
  BY <1>1 DEF Nextcloud!Nothing
<1>7. Cardinality(Busy') = Cardinality(Busy)
  BY <1>2, <1>3, <1>4, <1>6, BusyChange
<1>8. Asked = Asked' \cup {e.id}
  BY <1>1, <1>4, <1>5 DEF Asked
<1>9. WalkGoes'
  <2>1. at' <= Len(rows') + 2
    BY <1>1, <1>2 DEF WalkGoes
  <2>2. ASSUME at' # Len(rows') + 2 PROVE Answered' + Cardinality(Busy') = at' - 1
    BY <1>1, <1>2, <1>7, <2>2 DEF WalkGoes, Answered
  <2>3. \A u \in Workers : holds'[u].is \in {"nothing", "entry", "answer"}
    BY <1>1, <1>2, <1>4, <1>5 DEF WalkGoes
  <2>4. ASSUME at' # Len(rows') + 2, NoneBad', \A u \in Workers : holds'[u].is = "answer" => holds'[u].verdict = "present"
        PROVE  (present \cup Asked)' = IdsOf(at)'
    <3>1. v = "present"
      BY <1>4, <1>5, <2>4
    <3>2. NoneBad /\ \A u \in Workers : holds[u].is = "answer" => holds[u].verdict = "present"
      BY <1>1, <1>5, <2>4 DEF NoneBad
    <3>3. present \cup Asked = IdsOf(at)
      BY <1>1, <1>2, <2>4, <3>2 DEF WalkGoes
    <3>4. IdsOf(at)' = IdsOf(at)
      BY <1>1 DEF IdsOf
    <3>5. present' = present \cup {e.id}
      BY <1>3, <3>1
    <3> HIDE DEF e
    <3> QED BY <1>8, <3>3, <3>4, <3>5
  <2> QED BY <1>1, <1>2, <2>1, <2>2, <2>3, <2>4 DEF WalkGoes
<1>10. DOMAIN report' = DOMAIN report /\ (\A u \in {"present", "mismatch", "missing", "failed"} : report'[u] \in Nat)
       /\ at' \in Nat \ {0}
  BY <1>1, <1>2 DEF CloudTypes
<1> QED BY <1>1, <1>5, <1>9, <1>10, SurveyFrame

LEMMA RecordHolds == ASSUME CloudInv, NEW w \in Workers, Nextcloud!record(w) PROVE CloudInv'
<1> PICK v : v = holds[w].verdict
  OBVIOUS
<1> PICK r, s : r = report /\ s = report'
  OBVIOUS
<1>1. /\ phase = "walk" /\ holds[w].is = "answer" /\ holds' = [holds EXCEPT ![w] = Nextcloud!Nothing]
      /\ s = [r EXCEPT ![v] = @ + 1]
      /\ UNCHANGED <<command, claimed, tree, removed, mine, rows, phase, at, batch, hashed, counts, present>>
  BY DEF Nextcloud!record, Nextcloud!source
<1>2. CloudTypes /\ WalkGoes
  BY DEF CloudInv
<1>3. v \in {"present", "mismatch", "missing", "failed"} /\ holds[w] # Nextcloud!Nothing
  BY <1>1, <1>2, RowsAre, HoldingKinds DEF Nextcloud!Nothing
<1>4. /\ holds' \in [Workers -> Holding] /\ holds'[w] = Nextcloud!Nothing
      /\ \A u \in Workers : u # w => holds'[u] = holds[u]
  BY <1>1, <1>2, HoldingKinds, OneWorker
<1>5. Cardinality(Busy') = Cardinality(Busy) - 1 /\ Cardinality(Busy) \in Nat
  BY <1>1, <1>2, <1>3, HoldingKinds, BusyChange, BusyAre
<1>6. /\ DOMAIN r = {"present", "mismatch", "missing", "failed", "unclaimed"}
      /\ \A u \in {"present", "mismatch", "missing", "failed"} : r[u] \in Nat
  BY <1>2 DEF CloudTypes
<1>7. /\ DOMAIN s = DOMAIN r
      /\ \A u \in {"present", "mismatch", "missing", "failed"} : s[u] = IF u = v THEN r[u] + 1 ELSE r[u]
  BY <1>1, <1>3, <1>6
<1>8. \A u \in {"present", "mismatch", "missing", "failed"} : s[u] \in Nat
  BY <1>6, <1>7
<1>9. Answered' = Answered + 1 /\ Answered \in Nat
  <2>1. s.present + s.mismatch + s.missing + s.failed = r.present + r.mismatch + r.missing + r.failed + 1
    BY <1>3, <1>6, <1>7
  <2>2. r.present + r.mismatch + r.missing + r.failed \in Nat
    BY <1>6
  <2> QED BY <2>1, <2>2 DEF Answered
<1>10. Asked' = Asked
  BY <1>1, <1>4, HoldingKinds DEF Asked
<1>11. WalkGoes'
  <2>1. at' <= Len(rows') + 2
    BY <1>1, <1>2 DEF WalkGoes
  <2>2. ASSUME at' # Len(rows') + 2 PROVE Answered' + Cardinality(Busy') = at' - 1
    BY <1>1, <1>2, <1>5, <1>9, <2>2 DEF WalkGoes
  <2>3. \A u \in Workers : holds'[u].is \in {"nothing", "entry", "answer"}
    BY <1>1, <1>2, <1>4, HoldingKinds DEF WalkGoes
  <2>4. ASSUME at' # Len(rows') + 2, NoneBad', \A u \in Workers : holds'[u].is = "answer" => holds'[u].verdict = "present"
        PROVE  (present \cup Asked)' = IdsOf(at)'
    <3>1. v = "present" /\ NoneBad
      BY <1>3, <1>6, <1>7, <2>4 DEF NoneBad
    <3>2. \A u \in Workers : holds[u].is = "answer" => holds[u].verdict = "present"
      BY <1>4, <2>4, <3>1
    <3>3. present \cup Asked = IdsOf(at)
      BY <1>1, <1>2, <2>4, <3>1, <3>2 DEF WalkGoes
    <3>4. IdsOf(at)' = IdsOf(at)
      BY <1>1 DEF IdsOf
    <3> QED BY <1>1, <1>10, <3>3, <3>4
  <2> QED BY <1>1, <1>2, <2>1, <2>2, <2>3, <2>4 DEF WalkGoes
<1>12. at' \in Nat \ {0}
  BY <1>1, <1>2 DEF CloudTypes
<1> QED BY <1>1, <1>4, <1>7, <1>8, <1>11, <1>12, SurveyFrame

\* The survey is over: what is claimed was asked about.
LEMMA CollectedHolds == ASSUME CloudInv, Nextcloud!collected PROVE CloudInv'
<1>1. /\ phase = "walk" /\ at \notin DOMAIN rows /\ \A w \in Workers : holds[w] = Nextcloud!Nothing
      /\ phase' = IF at = Len(rows) + 2 THEN "failed" ELSE "list"
      /\ UNCHANGED <<command, claimed, tree, removed, mine, rows, holds, at, report, batch, hashed, counts, present>>
  BY DEF Nextcloud!collected, Nextcloud!source
<1>2. CloudTypes /\ WalkGoes
  BY DEF CloudInv
<1>3. DOMAIN rows = 1..Len(rows) /\ Len(rows) \in Nat /\ at \in Nat \ {0}
  BY <1>2, RowsAre
<1>4. Cardinality(claimed) = Len(rows)
  <2> PICK N : N = Len(rows)
    OBVIOUS
  <2> DEFINE f == [n \in 1..N |-> rows[n].id]
             c == claimed
  <2>0. N \in Nat
    BY <1>3
  <2>1. f \in Bijection(1..N, c)
    BY <1>1, <1>2, <1>3 DEF WalkGoes, Bijection, Injection, IsInjective, Surjection
  <2>2. IsFiniteSet(1..N) /\ Cardinality(1..N) = N
    BY ONLY <2>0, FS_Interval
  <2>3. ExistsBijection(1..N, c)
    BY <2>1 DEF ExistsBijection
  <2> HIDE DEF f, c
  <2>4. Cardinality(c) = N
    BY <2>2, <2>3, FS_Bijection
  <2> QED BY <2>4 DEF c
<1>5. ASSUME phase' = "list" PROVE Answered = Cardinality(claimed) /\ (NoneBad => present = claimed)
  <2>1. at = Len(rows) + 1
    BY <1>1, <1>2, <1>3, <1>5 DEF WalkGoes
  <2>2. Busy = {} /\ Asked = {}
    BY <1>1 DEF Busy, Asked, Nextcloud!Nothing
  <2>3. Cardinality(Busy) = 0
    BY <2>2, FS_EmptySet
  <2>4. IdsOf(at) = claimed
    BY <1>1, <1>2, <1>3, <2>1 DEF IdsOf, WalkGoes
  <2>5. at # Len(rows) + 2
    BY <1>3, <2>1
  <2>6. Answered + Cardinality(Busy) = at - 1
    BY <1>1, <1>2, <2>5 DEF WalkGoes
  <2>7. Answered \in Nat
    BY <1>2 DEF Answered, CloudTypes
  <2>8. \A w \in Workers : holds[w].is = "answer" => holds[w].verdict = "present"
    BY <1>1 DEF Nextcloud!Nothing
  <2>9. NoneBad => present = claimed
    BY <1>1, <1>2, <2>2, <2>4, <2>5, <2>8 DEF WalkGoes
  <2>10. Answered = Len(rows)
    <3> PICK a, c, n : a = Answered /\ c = Cardinality(Busy) /\ n = Len(rows)
      OBVIOUS
    <3>1. a + c = at - 1 /\ a \in Nat /\ n \in Nat /\ c = 0 /\ at = n + 1
      BY <1>3, <2>1, <2>3, <2>6, <2>7
    <3>2. a = n
      BY ONLY <3>1
    <3> QED BY <3>2
  <2> QED BY <1>4, <2>9, <2>10
<1>6. SurveyStands'
  BY <1>1, <1>5 DEF SurveyStands, Answered, NoneBad
<1>7. CloudTypes'
  BY <1>1, <1>2 DEF CloudTypes, Nextcloud!Ends, Nextcloud!Running
<1>8. TreeStands'
  BY <1>1, TreeStays DEF CloudInv
<1>9. WalkGoes' /\ NotYet' /\ ImportStands' /\ HashStands'
  BY <1>1 DEF CloudInv, WalkGoes, NotYet, ImportStands, HashStands
<1> QED BY <1>6, <1>7, <1>8, <1>9 DEF CloudInv
-----------------------------------------------------------------------------
(* The Nextcloud import: around the survey, and the batches.               *)

LEMMA StartHoldsC == ASSUME CloudInv, Nextcloud!Start PROVE CloudInv'
<1>1. /\ phase' \in {"walk", "failed", "refused"}
      /\ rows' = Nextcloud!Entries /\ claimed' = {Nextcloud!Entries[n].id : n \in DOMAIN Nextcloud!Entries}
      /\ holds' = Nextcloud!Nobody /\ at' = 1 /\ report' = Nextcloud!NoReport
      /\ batch' = <<>> /\ counts' = [adopted |-> 0, skipped |-> 0] /\ present' = {}
      /\ UNCHANGED <<command, tree, removed, mine>>
  BY DEF Nextcloud!Start
<1>2. CloudTypes /\ TreeStands
  BY DEF CloudInv
<1>3. rows' \in Seq(CloudRows) /\ \A m, n \in DOMAIN rows' : rows'[m].id = rows'[n].id => m = n
  BY <1>1, EntriesAre
<1>4. holds' \in [Workers -> Holding] /\ \A w \in Workers : holds'[w] = Nextcloud!Nothing /\ holds'[w].is = "nothing"
  BY <1>1, HoldingKinds DEF Nextcloud!Nobody, Nextcloud!Nothing
<1>5. /\ DOMAIN report' = {"present", "mismatch", "missing", "failed", "unclaimed"}
      /\ report'.present = 0 /\ report'.mismatch = 0 /\ report'.missing = 0 /\ report'.failed = 0
  BY <1>1 DEF Nextcloud!NoReport
<1>6. DOMAIN counts' = {"adopted", "skipped"} /\ counts'.adopted = 0 /\ counts'.skipped = 0
  BY <1>1
<1>7. CloudTypes'
  <2>1. batch' \in Seq(CloudRows)
    BY <1>1, EmptySeq
  <2> QED BY <1>1, <1>2, <1>3, <1>4, <1>5, <1>6, <2>1 DEF CloudTypes, Nextcloud!Ends, Nextcloud!Running
<1>8. WalkGoes'
  <2>1. Busy' = {} /\ Asked' = {}
    BY <1>4 DEF Busy, Asked
  <2>2. Cardinality(Busy') = 0
    BY <2>1, FS_EmptySet
  <2>3. IdsOf(at)' = {}
    <3>1. \A k \in DOMAIN rows' : k \in Nat /\ ~(k < at')
      BY <1>1, <1>3, LenProperties
    <3> QED BY <3>1 DEF IdsOf
  <2>4. Answered' = 0
    BY <1>5 DEF Answered
  <2>5. Len(rows') \in Nat
    BY <1>3, LenProperties
  <2>6. Answered' + Cardinality(Busy') = at' - 1
    BY <1>1, <2>2, <2>4
  <2>7. claimed' = {rows'[n].id : n \in DOMAIN rows'}
    BY <1>1
  <2>8. at' <= Len(rows') + 2
    BY <1>1, <2>5
  <2> QED BY <1>1, <1>3, <1>4, <2>1, <2>3, <2>6, <2>7, <2>8 DEF WalkGoes
<1>9. TreeStands'
  BY <1>1, <1>2, TreeStays
<1>10. NotYet'
  BY <1>1, <1>6 DEF NotYet
<1>11. SurveyStands' /\ ImportStands' /\ HashStands'
  BY <1>1 DEF SurveyStands, ImportStands, HashStands
<1> QED BY <1>7, <1>8, <1>9, <1>10, <1>11 DEF CloudInv

\* The command ends, or has its counts of what nothing claims.
LEMMA EndsHold ==
  ASSUME CloudInv, UNCHANGED <<command, holds, rows, at, counts, report, tree, mine>>, batch' = batch \/ batch' = <<>>,
         phase' \in {"idle", "failed", "refused"}
  PROVE  CloudInv'
<1>1. CloudTypes'
  <2>1. batch' \in Seq(CloudRows)
    BY EmptySeq DEF CloudInv, CloudTypes
  <2> QED BY <2>1 DEF CloudInv, CloudTypes, Nextcloud!Ends, Nextcloud!Running
<1>2. TreeStands'
  BY TreeStays DEF CloudInv
<1>3. WalkGoes' /\ SurveyStands' /\ NotYet' /\ ImportStands' /\ HashStands'
  BY DEF WalkGoes, SurveyStands, NotYet, ImportStands, HashStands
<1> QED BY <1>1, <1>2, <1>3 DEF CloudInv

LEMMA KillHolds == ASSUME CloudInv, Nextcloud!Kill PROVE CloudInv'
<1>1. /\ phase' = "idle" /\ holds' = Nextcloud!Nobody /\ batch' = <<>>
      /\ UNCHANGED <<command, rows, at, counts, report, tree, mine>>
  BY DEF Nextcloud!Kill, Nextcloud!source
<1>2. CloudTypes'
  <2>1. batch' \in Seq(CloudRows)
    BY <1>1, EmptySeq
  <2>2. holds' \in [Workers -> Holding]
    BY <1>1, HoldingKinds DEF Nextcloud!Nobody
  <2> QED BY <1>1, <2>1, <2>2 DEF CloudInv, CloudTypes, Nextcloud!Ends, Nextcloud!Running
<1>3. TreeStands'
  BY <1>1, TreeStays DEF CloudInv
<1>4. WalkGoes' /\ SurveyStands' /\ NotYet' /\ ImportStands' /\ HashStands'
  BY <1>1 DEF WalkGoes, SurveyStands, NotYet, ImportStands, HashStands
<1> QED BY <1>2, <1>3, <1>4 DEF CloudInv

LEMMA CountUnclaimedHolds == ASSUME CloudInv, Nextcloud!countUnclaimed PROVE CloudInv'
<1> PICK r, s : r = report /\ s = report'
  OBVIOUS
<1>1. /\ phase = "list" /\ phase' = "open" /\ (s = r \/ \E u : s = [r EXCEPT !.unclaimed = u])
      /\ UNCHANGED <<command, claimed, tree, removed, mine, rows, holds, at, batch, hashed, counts, present>>
  BY DEF Nextcloud!countUnclaimed, Nextcloud!source
<1>2. CloudTypes /\ SurveyStands /\ NotYet
  BY DEF CloudInv
<1>3. /\ DOMAIN s = DOMAIN r /\ DOMAIN r = {"present", "mismatch", "missing", "failed", "unclaimed"}
      /\ \A v \in {"present", "mismatch", "missing", "failed"} : s[v] = r[v] /\ r[v] \in Nat
  BY <1>1, <1>2 DEF CloudTypes
<1>4. Answered' = Answered /\ (NoneBad' <=> NoneBad)
  BY <1>3 DEF Answered, NoneBad
<1>5. CloudTypes'
  BY <1>1, <1>2, <1>3 DEF CloudTypes, Nextcloud!Ends, Nextcloud!Running
<1>6. SurveyStands' /\ NotYet'
  BY <1>1, <1>2, <1>4 DEF SurveyStands, NotYet
<1>7. TreeStands'
  BY <1>1, TreeStays DEF CloudInv
<1>8. WalkGoes' /\ ImportStands' /\ HashStands'
  BY <1>1 DEF WalkGoes, ImportStands, HashStands
<1> QED BY <1>5, <1>6, <1>7, <1>8 DEF CloudInv

LEMMA OpenDatabaseHolds == ASSUME CloudInv, Nextcloud!openDatabase PROVE CloudInv'
<1>1. /\ phase = "open" /\ UNCHANGED <<command, claimed, tree, removed, mine, holds, report, batch, hashed, counts, present>>
  BY DEF Nextcloud!openDatabase, Nextcloud!source
<1>2. CASE phase' \in {"refused", "failed"} /\ UNCHANGED <<rows, at>>
  BY <1>1, <1>2, EndsHold
<1>3. CASE Nextcloud!Adoptable /\ phase' = "read" /\ rows' = Nextcloud!Adopted /\ at' = 1
  <2>1. CloudTypes /\ SurveyStands /\ NotYet
    BY DEF CloudInv
  <2>2. rows' \in Seq(CloudRows) /\ Len(rows') \in Nat /\ DOMAIN rows' = 1..Len(rows')
    BY <1>3, AdoptedAre, LenProperties
  <2>3. CloudTypes'
    BY <1>1, <1>3, <2>1, <2>2 DEF CloudTypes, Nextcloud!Ends, Nextcloud!Running
  <2>4. SurveyStands'
    BY <1>1, <1>3, <2>1 DEF SurveyStands, Nextcloud!Adoptable, NoneBad, Answered
  <2>5. ImportStands'
    <3>1. batch' = <<>> /\ Len(batch') = 0 /\ DOMAIN batch' = {} /\ counts'.adopted + counts'.skipped = 0
      BY <1>1, <2>1 DEF NotYet
    <3> QED BY <1>3, <2>2, <3>1 DEF ImportStands
  <2>6. TreeStands'
    BY <1>1, TreeStays DEF CloudInv
  <2>7. WalkGoes' /\ NotYet' /\ HashStands'
    BY <1>3 DEF WalkGoes, NotYet, HashStands
  <2> QED BY <2>3, <2>4, <2>5, <2>6, <2>7 DEF CloudInv
<1> QED BY <1>2, <1>3 DEF Nextcloud!openDatabase

LEMMA ReadBatchHolds == ASSUME CloudInv, Nextcloud!readBatch PROVE CloudInv'
<1>1. /\ phase = "read" /\ hashed' = {} /\ holds' = Nextcloud!Nobody
      /\ UNCHANGED <<command, claimed, tree, removed, mine, rows, report, counts, present>>
  BY DEF Nextcloud!readBatch, Nextcloud!source
<1>2. CloudTypes /\ SurveyStands /\ ImportStands
  BY DEF CloudInv
<1>3. /\ DOMAIN rows = 1..Len(rows) /\ Len(rows) \in Nat /\ at \in Nat \ {0}
      /\ \A n \in DOMAIN rows : rows[n] \in CloudRows
  BY <1>2, RowsAre
<1>4. /\ holds' \in [Workers -> Holding]
      /\ \A w \in Workers : holds'[w].is = "nothing"
  BY <1>1, HoldingKinds DEF Nextcloud!Nobody, Nextcloud!Nothing
<1>5. TreeStands'
  BY <1>1, TreeStays DEF CloudInv
<1>6. /\ batch = <<>> /\ Len(batch) = 0 /\ at <= Len(rows) + 1 /\ counts.adopted + counts.skipped = at - 1
      /\ \A n \in DOMAIN rows : n < at => Nextcloud!under(rows[n].rest) \in DOMAIN tree \cup removed
  <2>1. batch = <<>> /\ Len(batch) = 0
    BY <1>1, <1>2 DEF ImportStands
  <2> QED BY <1>1, <1>2, <1>3, <2>1 DEF ImportStands
<1>7. CASE phase' = "failed" /\ UNCHANGED <<batch, at>>
  <2>1. CloudTypes'
    BY <1>1, <1>2, <1>4, <1>7 DEF CloudTypes, Nextcloud!Ends, Nextcloud!Running
  <2>2. WalkGoes' /\ SurveyStands' /\ NotYet' /\ ImportStands' /\ HashStands'
    BY <1>7 DEF WalkGoes, SurveyStands, NotYet, ImportStands, HashStands
  <2> QED BY <1>5, <2>1, <2>2 DEF CloudInv
<1>8. ASSUME NEW upto, upto = (IF at + BatchSize - 1 < Len(rows) THEN at + BatchSize - 1 ELSE Len(rows)),
             batch' = SubSeq(rows, at, upto), at' = upto + 1,
             phase' = IF batch' = <<>> THEN "done" ELSE IF command.etag THEN "hash" ELSE "adopt"
      PROVE  CloudInv'
  <2> PICK m, l, z : m = at /\ l = Len(rows) /\ z = BatchSize
    OBVIOUS
  <2>b. m \in Nat \ {0} /\ l \in Nat /\ z \in Nat \ {0} /\ m <= l + 1 /\ upto = IF m + z - 1 < l THEN m + z - 1 ELSE l
    BY <1>3, <1>6, <1>8, CloudAssumption
  <2>c. upto \in Nat /\ upto <= l /\ m <= upto + 1 /\ (m = upto + 1 => upto = l)
    BY ONLY <2>b
  <2>1. upto \in Nat /\ upto <= Len(rows) /\ at <= upto + 1 /\ (at = upto + 1 => upto = Len(rows))
    BY <2>c
  <2>d. \A i \in m..upto : i \in 1..l
    BY ONLY <2>b, <2>c
  <2>2. \A i \in m..upto : rows[i] \in CloudRows
    BY <1>3, <2>d
  <2> PICK s : s = SubSeq(rows, m, upto)
    OBVIOUS
  <2>3. /\ batch' = s /\ s \in Seq(CloudRows) /\ Len(s) = upto - m + 1
        /\ \A i \in 1..(upto - m + 1) : s[i] = rows[m + i - 1]
    <3>1. m \in Int /\ upto \in Int
      BY ONLY <2>b, <2>c
    <3>2. /\ SubSeq(rows, m, upto) \in Seq(CloudRows)
          /\ Len(SubSeq(rows, m, upto)) = IF m <= upto THEN upto - m + 1 ELSE 0
          /\ \A i \in 1..(upto - m + 1) : SubSeq(rows, m, upto)[i] = rows[m + i - 1]
      BY ONLY <2>2, <3>1, SubSeqProperties
    <3> PICK k : k = Len(s)
      OBVIOUS
    <3>3. k = IF m <= upto THEN upto - m + 1 ELSE 0
      BY <3>2
    <3>4. k = upto - m + 1
      BY ONLY <2>b, <2>c, <3>3
    <3> QED BY <1>8, <3>2, <3>4
  <2>4. DOMAIN batch' = 1..(upto - m + 1)
    BY <2>3, LenProperties
  <2>5. phase' \in {"done", "hash", "adopt"} /\ (phase' = "done" => batch' = <<>>) /\ (phase' = "adopt" => ~command.etag)
    BY <1>8
  <2>a. at' = upto + 1 /\ at' \in Nat \ {0}
    BY <1>8, <2>1
  <2>6. CloudTypes'
    <3>1. phase' \in Nextcloud!Ends \cup Nextcloud!Running
      BY <2>5 DEF Nextcloud!Ends, Nextcloud!Running
    <3>2. batch' \in Seq(CloudRows)
      BY <2>3
    <3> QED BY <1>1, <1>2, <1>4, <2>a, <3>1, <3>2 DEF CloudTypes
  <2>7. ImportStands'
    <3>1. at' <= Len(rows') + 1 /\ Len(batch') < at' /\ at' - 1 - Len(batch') = at - 1 /\ at' - Len(batch') = at
      <4> PICK k, n : k = Len(batch') /\ n = at'
        OBVIOUS
      <4>1. k = upto - m + 1 /\ n = upto + 1 /\ upto \in Nat /\ l \in Nat /\ m \in Nat \ {0} /\ upto <= l /\ m <= upto + 1
        BY <2>b, <2>c, <2>3, <2>a
      <4>2. n <= l + 1 /\ k < n /\ n - 1 - k = m - 1 /\ n - k = m
        BY ONLY <4>1
      <4> QED BY <1>1, <4>2
    <3>2. \A i \in DOMAIN batch' : batch'[i] = rows'[at' - 1 - Len(batch') + i]
      <4> PICK j : j = at' - 1 - Len(batch')
        OBVIOUS
      <4>1. j = m - 1
        BY <3>1
      <4>2. \A i \in 1..(upto - m + 1) : s[i] = rows[j + i]
        <5> SUFFICES ASSUME NEW i \in 1..(upto - m + 1) PROVE s[i] = rows[j + i]
          OBVIOUS
        <5>1. m + i - 1 = j + i
          BY ONLY <2>b, <2>c, <4>1, i \in 1..(upto - m + 1)
        <5> QED BY <2>3, <5>1
      <4>3. rows' = rows
        BY <1>1
      <4> QED BY <2>3, <2>4, <4>2, <4>3
    <3>3. phase' = "done" => at' = Len(rows') + 1
      <4> SUFFICES ASSUME phase' = "done" PROVE at' = Len(rows') + 1
        OBVIOUS
      <4>1. s = <<>>
        BY <2>3, <2>5
      <4>2. Len(<<>>) = 0
        OBVIOUS
      <4>3. 0 = upto - m + 1
        BY <2>3, <4>1, <4>2
      <4>4. m = upto + 1
        BY ONLY <2>b, <2>c, <4>3
      <4>5. upto = l
        BY <2>c, <4>4
      <4> QED BY <1>1, <2>a, <4>5
    <3>4. counts'.adopted + counts'.skipped = at' - 1 - Len(batch')
      BY <1>1, <1>6, <3>1
    <3>5. \A n \in DOMAIN rows' : n < at' - Len(batch') => Nextcloud!under(rows[n].rest)' \in DOMAIN tree' \cup removed'
      BY <1>1, <1>6, <3>1 DEF Nextcloud!under
    <3> QED BY <1>1, <2>5, <3>1, <3>2, <3>3, <3>4, <3>5 DEF ImportStands, Nextcloud!under
  <2>8. SurveyStands'
    BY <1>1, <1>2, <2>5 DEF SurveyStands, NoneBad, Answered
  <2>9. WalkGoes' /\ NotYet' /\ HashStands'
    BY <1>4, <2>5 DEF WalkGoes, NotYet, HashStands
  <2> QED BY <1>5, <2>6, <2>7, <2>8, <2>9 DEF CloudInv
<1> QED BY <1>7, <1>8 DEF Nextcloud!readBatch
LEMMA HashFrame ==
  ASSUME CloudInv, phase = "hash", phase' \in {"hash", "adopt", "failed"}, holds' \in [Workers -> Holding], HashStands',
         UNCHANGED <<command, claimed, tree, removed, mine, rows, at, report, batch, counts, present>>,
         phase' = "adopt" /\ command.etag => Nextcloud!Files \subseteq hashed'
  PROVE  CloudInv'
<1>1. CloudTypes'
  BY DEF CloudInv, CloudTypes, Nextcloud!Ends, Nextcloud!Running
<1>2. TreeStands'
  BY TreeStays DEF CloudInv
<1>3. ImportStands'
  <2>1. ImportStands
    BY DEF CloudInv
  <2>2. Nextcloud!Files' = Nextcloud!Files
    BY DEF Nextcloud!Files
  <2> QED BY <2>1, <2>2 DEF ImportStands, Nextcloud!under
<1>4. WalkGoes' /\ NotYet' /\ SurveyStands'
  BY DEF CloudInv, WalkGoes, NotYet, SurveyStands, NoneBad, Answered
<1> QED BY <1>1, <1>2, <1>3, <1>4 DEF CloudInv

LEMMA HashHolds == ASSUME CloudInv, NEW w \in Workers, Nextcloud!hash(w) PROVE CloudInv'
<1> DEFINE W == Nextcloud!Waiting
           i == CHOOSE i \in W : \A j \in W : i <= j
           h == [is |-> "place", place |-> i]
<1>1. /\ phase = "hash" /\ W # {} /\ holds' = [holds EXCEPT ![w] = h]
      /\ UNCHANGED <<command, claimed, tree, removed, mine, rows, phase, at, report, batch, hashed, counts, present>>
  BY DEF Nextcloud!hash, Nextcloud!source
<1>2. CloudTypes /\ HashStands
  BY DEF CloudInv
<1>3. W \in SUBSET Nat
  <2>1. DOMAIN batch \subseteq Nat
    BY <1>2, LenProperties DEF CloudTypes
  <2> QED BY <2>1 DEF Nextcloud!Waiting, Nextcloud!Files
<1> HIDE DEF W
<1>4. i \in Nat
  <2>1. \E k \in W : \A j \in W : k <= j
    BY <1>1, <1>3, SmallestOf
  <2> QED BY <1>3, <2>1
<1> HIDE DEF i
<1>5. h \in Holding /\ h.is = "place"
  BY <1>4, HoldingKinds
<1> HIDE DEF h
<1>6. /\ holds' \in [Workers -> Holding] /\ holds'[w] = h
      /\ \A v \in Workers : v # w => holds'[v] = holds[v]
  BY <1>1, <1>2, <1>5, OneWorker
<1>7. HashStands'
  BY <1>1, <1>2, <1>5, <1>6 DEF HashStands
<1> QED BY <1>1, <1>6, <1>7, HashFrame

LEMMA DigestHolds == ASSUME CloudInv, NEW w \in Workers, Nextcloud!digest(w) PROVE CloudInv'
<1> PICK i : i = holds[w].place
  OBVIOUS
<1>1. /\ phase = "hash" /\ holds[w].is = "place"
      /\ UNCHANGED <<command, claimed, tree, removed, mine, rows, phase, at, report, batch, counts, present>>
  BY DEF Nextcloud!digest, Nextcloud!source
<1>2. CloudTypes /\ HashStands
  BY DEF CloudInv
<1>3. i \in Nat
  BY <1>1, <1>2, RowsAre, HoldingKinds
<1>4. \E h \in Holding : h.is \in {"nothing", "returned"} /\ holds' = [holds EXCEPT ![w] = h]
  <2>1. CASE holds' = [holds EXCEPT ![w] = Nextcloud!Nothing]
    BY <2>1, HoldingKinds
  <2>2. CASE holds' = [holds EXCEPT ![w] = [is |-> "returned", place |-> i]]
    <3>1. [is |-> "returned", place |-> i] \in Holding /\ [is |-> "returned", place |-> i].is = "returned"
      BY <1>3, HoldingKinds
    <3> QED BY <2>2, <3>1
  <2> QED BY <2>1, <2>2 DEF Nextcloud!digest
<1>5. PICK h \in Holding : h.is \in {"nothing", "returned"} /\ holds' = [holds EXCEPT ![w] = h]
  BY <1>4
<1>6. /\ holds' \in [Workers -> Holding] /\ holds'[w] = h
      /\ \A v \in Workers : v # w => holds'[v] = holds[v]
  BY <1>2, <1>5, OneWorker
<1>7. HashStands'
  BY <1>1, <1>2, <1>5, <1>6 DEF HashStands
<1> QED BY <1>1, <1>6, <1>7, HashFrame

\* Every file of the batch was handed over, and no worker met an error: each
\* has its validator.
LEMMA HashEndsHolds == ASSUME CloudInv, Nextcloud!hashEnds PROVE CloudInv'
<1>1. /\ phase = "hash" /\ Nextcloud!Quiet /\ holds' = Nextcloud!Nobody
      /\ phase' = "failed" \/ (phase' = "adopt" /\ Nextcloud!Waiting = {} /\ Nextcloud!Errors = {})
      /\ UNCHANGED <<command, claimed, tree, removed, mine, rows, at, report, batch, hashed, counts, present>>
  BY DEF Nextcloud!hashEnds, Nextcloud!source
<1>2. HashStands
  BY DEF CloudInv
<1>3. holds' \in [Workers -> Holding] /\ HashStands'
  BY <1>1, HoldingKinds DEF Nextcloud!Nobody, Nextcloud!Nothing, HashStands
<1>4. phase' = "adopt" => Nextcloud!Files \subseteq hashed'
  <2> SUFFICES ASSUME phase' = "adopt" PROVE Nextcloud!Files \subseteq hashed
    BY <1>1
  <2>1. \A v \in Workers : holds[v].is \notin {"place", "returned"}
    BY <1>1 DEF Nextcloud!Quiet, Nextcloud!Errors
  <2>2. Nextcloud!handed = hashed
    BY <2>1 DEF Nextcloud!handed
  <2> QED BY <1>1, <2>2 DEF Nextcloud!Waiting
<1> QED BY <1>1, <1>3, <1>4, HashFrame

\* What neither the command nor its tree is about.
LEMMA AsideHolds ==
  ASSUME CloudInv, UNCHANGED <<command, phase, holds, rows, claimed, at, report, batch, hashed, counts, tree,
                               present, removed, mine>>
  PROVE  CloudInv'
<1>1. CloudTypes' /\ SurveyStands' /\ NotYet' /\ HashStands'
  BY DEF CloudInv, CloudTypes, SurveyStands, NotYet, HashStands, Answered, NoneBad
<1>2. WalkGoes'
  <2>1. Busy' = Busy /\ Asked' = Asked /\ IdsOf(at)' = IdsOf(at) /\ Answered' = Answered /\ NoneBad' = NoneBad
    BY DEF Busy, Asked, IdsOf, Answered, NoneBad
  <2> QED BY <2>1 DEF CloudInv, WalkGoes
<1>3. TreeStands'
  BY TreeStays DEF CloudInv
<1>4. ImportStands'
  BY DEF CloudInv, ImportStands, Nextcloud!under, Nextcloud!Files
<1> QED BY <1>1, <1>2, <1>3, <1>4 DEF CloudInv

\* The user takes something away or puts something in the tree.
LEMMA MeddleHolds ==
  ASSUME CloudInv, UNCHANGED <<command, phase, holds, rows, claimed, at, report, batch, hashed, counts, present>>,
         TreeStands', DOMAIN tree \cup removed \subseteq DOMAIN tree' \cup removed'
  PROVE  CloudInv'
<1>1. CloudTypes' /\ SurveyStands' /\ NotYet' /\ HashStands'
  BY DEF CloudInv, CloudTypes, SurveyStands, NotYet, HashStands, Answered, NoneBad
<1>2. WalkGoes'
  <2>1. Busy' = Busy /\ Asked' = Asked /\ IdsOf(at)' = IdsOf(at) /\ Answered' = Answered /\ NoneBad' = NoneBad
    BY DEF Busy, Asked, IdsOf, Answered, NoneBad
  <2> QED BY <2>1 DEF CloudInv, WalkGoes
<1>3. ImportStands'
  BY DEF CloudInv, ImportStands, Nextcloud!under, Nextcloud!Files
<1> QED BY <1>1, <1>2, <1>3 DEF CloudInv
-----------------------------------------------------------------------------
(* The Nextcloud import: the tree.                                         *)

Parent(p) == SubSeq(p, 1, Len(p) - 1)

LEMMA AboveAre ==
  ASSUME NEW p \in Seq(STRING)
  PROVE  /\ Nextcloud!Above(p) \subseteq Seq(STRING)
         /\ Len(p) > 1 => Parent(p) \in Nextcloud!Above(p)
         /\ \A q \in Nextcloud!Above(p) : Len(q) > 1 => Parent(q) \in Nextcloud!Above(p)
         /\ Len(p) > 1 => \A q \in Nextcloud!Above(Parent(p)) : q \in Nextcloud!Above(p)
<1>1. Len(p) \in Nat /\ DOMAIN p = 1..Len(p) /\ \A i \in 1..Len(p) : p[i] \in STRING
  BY LenProperties, ElementOfSeq
<1>2. ASSUME NEW n \in 1..(Len(p) - 1)
      PROVE  SubSeq(p, 1, n) \in Seq(STRING) /\ Len(SubSeq(p, 1, n)) = n /\ \A i \in 1..n : SubSeq(p, 1, n)[i] = p[i]
  <2>1. n \in Int /\ 1 \in Int /\ \A i \in 1..n : p[i] \in STRING
    BY <1>1
  <2>2. /\ SubSeq(p, 1, n) \in Seq(STRING) /\ Len(SubSeq(p, 1, n)) = (IF 1 <= n THEN n - 1 + 1 ELSE 0)
        /\ \A i \in 1..(n - 1 + 1) : SubSeq(p, 1, n)[i] = p[1 + i - 1]
    BY <2>1, SubSeqProperties
  <2> QED BY <2>2
<1>3. ASSUME NEW n \in 1..(Len(p) - 1), NEW m \in 1..(n - 1)
      PROVE  SubSeq(SubSeq(p, 1, n), 1, m) = SubSeq(p, 1, m)
  <2>1. m \in 1..(Len(p) - 1) /\ m \in Nat /\ n \in Nat
    BY <1>1, <1>3
  <2> PICK q : q = SubSeq(p, 1, n)
    OBVIOUS
  <2>2. q \in Seq(STRING) /\ Len(q) = n /\ \A i \in 1..n : q[i] = p[i]
    BY <1>2
  <2>3. m \in Int /\ 1 \in Int /\ \A i \in 1..m : q[i] \in STRING
    BY <1>1, <2>1, <2>2
  <2>4. /\ SubSeq(q, 1, m) \in Seq(STRING) /\ Len(SubSeq(q, 1, m)) = (IF 1 <= m THEN m - 1 + 1 ELSE 0)
        /\ \A i \in 1..(m - 1 + 1) : SubSeq(q, 1, m)[i] = q[1 + i - 1]
    BY <2>3, SubSeqProperties
  <2>5. Len(SubSeq(q, 1, m)) = m /\ \A i \in 1..m : SubSeq(q, 1, m)[i] = p[i]
    BY <2>1, <2>2, <2>4
  <2>6. SubSeq(p, 1, m) \in Seq(STRING) /\ Len(SubSeq(p, 1, m)) = m /\ \A i \in 1..m : SubSeq(p, 1, m)[i] = p[i]
    BY <1>2, <2>1
  <2>7. SubSeq(q, 1, m) = SubSeq(p, 1, m)
    <3> PICK s, t : s = SubSeq(q, 1, m) /\ t = SubSeq(p, 1, m)
      OBVIOUS
    <3>1. s \in Seq(STRING) /\ t \in Seq(STRING) /\ Len(s) = Len(t) /\ \A i \in 1..Len(s) : s[i] = t[i]
      BY <2>4, <2>5, <2>6
    <3>2. s = t
      BY ONLY <3>1, SeqEqual
    <3> QED BY <3>2
  <2> QED BY <2>7
<1>4. Nextcloud!Above(p) = {SubSeq(p, 1, n) : n \in 1..(Len(p) - 1)}
  BY DEF Nextcloud!Above
<1>5. Len(p) > 1 => Parent(p) \in Nextcloud!Above(p)
  <2> HAVE Len(p) > 1
  <2>1. Len(p) - 1 \in 1..(Len(p) - 1)
    BY <1>1
  <2> QED BY <1>4, <2>1 DEF Parent
<1>6. ASSUME NEW q \in Nextcloud!Above(p), Len(q) > 1 PROVE Parent(q) \in Nextcloud!Above(p)
  <2>1. PICK n \in 1..(Len(p) - 1) : q = SubSeq(p, 1, n)
    BY <1>4
  <2>2. Len(q) = n
    BY <1>2, <2>1
  <2>3. n - 1 \in 1..(n - 1) /\ n - 1 \in 1..(Len(p) - 1)
    BY <1>1, <1>6, <2>2
  <2>4. Parent(q) = SubSeq(p, 1, n - 1)
    BY <1>3, <2>1, <2>2, <2>3 DEF Parent
  <2> QED BY <1>4, <2>3, <2>4
<1>7. ASSUME Len(p) > 1, NEW q \in Nextcloud!Above(Parent(p)) PROVE q \in Nextcloud!Above(p)
  <2>1. Len(p) - 1 \in 1..(Len(p) - 1)
    BY <1>1, <1>7
  <2>2. Len(Parent(p)) = Len(p) - 1
    BY <1>2, <2>1 DEF Parent
  <2>3. PICK m \in 1..(Len(p) - 1 - 1) : q = SubSeq(Parent(p), 1, m)
    BY <2>2 DEF Nextcloud!Above
  <2>4. q = SubSeq(p, 1, m)
    BY <1>3, <2>1, <2>3 DEF Parent
  <2>5. m \in 1..(Len(p) - 1)
    BY <1>1
  <2> QED BY <1>4, <2>4, <2>5
<1>8. Nextcloud!Above(p) \subseteq Seq(STRING)
  BY <1>2, <1>4
<1> QED BY <1>5, <1>6, <1>7, <1>8
\* A tree as it may be, and one that another has become.
TreeOk(t) ==
  /\ DOMAIN t \subseteq Seq(STRING) /\ t \in [DOMAIN t -> Leaf]
  /\ \A p \in DOMAIN t : Len(p) > 1 => Parent(p) \in DOMAIN t
  /\ command.etag => \A p \in DOMAIN t : t[p].dir \/ t[p].tagged
GrownTo(t, u) == DOMAIN t \subseteq DOMAIN u /\ \A p \in DOMAIN t : u[p] = t[p]

LEMMA TreeIsOk == TreeStands <=> TreeOk(tree) /\ \A p \in mine : p \in DOMAIN tree /\ tree[p].by = "user"
BY DEF TreeStands, TreeOk, Parent, Nextcloud!ValidatorsAreWhole

LEMMA FolderIs == Nextcloud!Folder \in Leaf /\ Nextcloud!Folder.dir
BY DEF Nextcloud!Folder, Leaf

\* A row that is adopted is where it belongs, and so is its folder.
LEMMA AdoptRowIs ==
  ASSUME CloudTypes, command.etag => Nextcloud!Files \subseteq hashed, NEW i \in DOMAIN batch, NEW t, TreeOk(t)
  PROVE  LET u == Nextcloud!AdoptRow(t, i)
         IN TreeOk(u) /\ GrownTo(t, u) /\ Nextcloud!under(batch[i].rest) \in DOMAIN u
<1> DEFINE p == Nextcloud!under(batch[i].rest)
           f == [dir |-> FALSE, key |-> batch[i].id, tagged |-> i \in hashed, by |-> "import"]
           g(q) == IF q \in DOMAIN t THEN t[q] ELSE IF q # p \/ batch[i].dir THEN Nextcloud!Folder ELSE f
           D == DOMAIN t \cup Nextcloud!Above(p) \cup {p}
           u == Nextcloud!AdoptRow(t, i)
<1>1. batch[i] \in CloudRows
  BY LenProperties, ElementOfSeq DEF CloudTypes
<1>2. batch[i].id \in Nat /\ batch[i].rest \in Seq(STRING)
  BY <1>1, CloudRowsAre
<1>3. p \in Seq(STRING)
  <2>1. command.into \in Seq(STRING)
    BY CloudAssumption DEF CloudTypes
  <2> QED BY <1>2, <2>1, ConcatProperties DEF Nextcloud!under
<1>4. CASE p \in DOMAIN t
  <2>1. u = t
    BY <1>4 DEF Nextcloud!AdoptRow
  <2> QED BY <1>4, <2>1 DEF GrownTo
<1>5. CASE p \notin DOMAIN t
  <2>1. u = [q \in D |-> g(q)]
    BY <1>5 DEF Nextcloud!AdoptRow
  <2>2. f \in Leaf
    BY <1>2 DEF Leaf
  <2>3. ~batch[i].dir /\ command.etag => f.tagged
    BY DEF Nextcloud!Files
  <2>4. \A q : q \in DOMAIN t => g(q) = t[q]
    OBVIOUS
  <2>5. \A q : q \notin DOMAIN t => g(q) = Nextcloud!Folder \/ (g(q) = f /\ ~batch[i].dir)
    OBVIOUS
  <2> HIDE DEF f, g
  <2>6. \A q \in D : g(q) \in Leaf
    BY <2>2, <2>4, <2>5, FolderIs DEF TreeOk
  <2>7. command.etag => \A q \in D : g(q).dir \/ g(q).tagged
    BY <2>3, <2>4, <2>5, FolderIs DEF TreeOk
  <2>8. D \subseteq Seq(STRING) /\ \A q \in D : Len(q) > 1 => Parent(q) \in D
    <3> HIDE DEF p
    <3> QED BY <1>3, AboveAre DEF TreeOk
  <2> HIDE DEF D, p, u
  <2>9. DOMAIN u = D /\ \A q \in D : u[q] = g(q)
    BY <2>1
  <2>10. u \in [D -> Leaf]
    BY <2>1, <2>6
  <2>11. TreeOk(u)
    BY <2>7, <2>8, <2>9, <2>10 DEF TreeOk
  <2>12. GrownTo(t, u) /\ p \in DOMAIN u
    BY <2>4, <2>9 DEF GrownTo, D
  <2> QED BY <2>11, <2>12 DEF p, u
<1> QED BY <1>4, <1>5

\* t goes through the first rows of the batch, one after the other.
Goes1(t, n) == t = [i \in 0..n |-> IF i = 0 THEN tree ELSE Nextcloud!AdoptRow(t[i - 1], i)]

LEMMA ThroughExists ==
  ASSUME NEW n \in Nat
  PROVE  \E t : Goes1(t, n)
<1> DEFINE None1 == {k \in Nat : ~\E t : Goes1(t, k)}
<1>1. \E t : Goes1(t, 0)
  <2> DEFINE t == [i \in 0..0 |-> tree]
  <2>1. t = [i \in 0..0 |-> IF i = 0 THEN tree ELSE Nextcloud!AdoptRow(t[i - 1], i)]
    OBVIOUS
  <2> QED BY <2>1 DEF Goes1
<1>2. ASSUME NEW k \in Nat, NEW t, Goes1(t, k) PROVE \E u : Goes1(u, k + 1)
  <2> DEFINE u == [i \in 0..(k + 1) |-> IF i = 0 THEN tree ELSE Nextcloud!AdoptRow(t[i - 1], i)]
  <2>1. \A i \in 0..k : t[i] = IF i = 0 THEN tree ELSE Nextcloud!AdoptRow(t[i - 1], i)
    BY <1>2 DEF Goes1
  <2>2. \A i \in 0..k : u[i] = t[i]
    BY <2>1
  <2>3. \A i \in 0..(k + 1) : i # 0 => i - 1 \in 0..k
    OBVIOUS
  <2>4. \A i \in 0..(k + 1) : (IF i = 0 THEN tree ELSE Nextcloud!AdoptRow(t[i - 1], i))
                                = (IF i = 0 THEN tree ELSE Nextcloud!AdoptRow(u[i - 1], i))
    BY <2>2, <2>3
  <2>5. u = [i \in 0..(k + 1) |-> IF i = 0 THEN tree ELSE Nextcloud!AdoptRow(u[i - 1], i)]
    BY <2>4
  <2> QED BY <2>5 DEF Goes1
<1> SUFFICES None1 = {}
  OBVIOUS
<1> SUFFICES ASSUME None1 # {} PROVE FALSE
  OBVIOUS
<1>3. PICK k \in None1 : \A m \in None1 : k <= m
  BY SmallestOf
<1>4. k # 0
  BY <1>1, <1>3
<1>5. k - 1 \in Nat /\ k - 1 \notin None1
  BY <1>3, <1>4
<1>6. \E t : Goes1(t, k - 1)
  BY <1>5
<1>7. \E t : Goes1(t, k - 1 + 1)
  BY <1>2, <1>5, <1>6
<1> QED BY <1>3, <1>7

LEMMA ThroughIs == ASSUME Len(batch) \in Nat PROVE Goes1(Nextcloud!Through, Len(batch))
<1> DEFINE f == CHOOSE t : Goes1(t, Len(batch))
<1>1. Goes1(f, Len(batch))
  BY ThroughExists
<1>2. Nextcloud!Through = f
  BY DEF Nextcloud!Through, Goes1
<1> QED BY <1>1, <1>2

\* After all of them the tree has every row of the batch.
LEMMA BatchIsThere ==
  ASSUME CloudTypes, command.etag => Nextcloud!Files \subseteq hashed, TreeOk(tree), NEW u, u = Nextcloud!Through[Len(batch)]
  PROVE  TreeOk(u) /\ GrownTo(tree, u) /\ \A i \in DOMAIN batch : Nextcloud!under(batch[i].rest) \in DOMAIN u
<1> DEFINE t == Nextcloud!Through
           Right(n) == /\ TreeOk(t[n]) /\ GrownTo(tree, t[n])
                       /\ \A i \in DOMAIN batch : i <= n => Nextcloud!under(batch[i].rest) \in DOMAIN t[n]
           Wrong == {n \in 0..Len(batch) : ~Right(n)}
<1>1. Len(batch) \in Nat /\ DOMAIN batch = 1..Len(batch)
  BY LenProperties DEF CloudTypes
<1>2. /\ t[0] = tree
      /\ \A i \in 1..Len(batch) : t[i] = Nextcloud!AdoptRow(t[i - 1], i)
  <2>1. Goes1(t, Len(batch))
    BY <1>1, ThroughIs
  <2> HIDE DEF t
  <2> QED BY <1>1, <2>1 DEF Goes1
<1>3. Right(0)
  BY <1>1, <1>2 DEF GrownTo
<1>4. ASSUME NEW n \in 1..Len(batch), Right(n - 1) PROVE Right(n)
  <2>1. t[n] = Nextcloud!AdoptRow(t[n - 1], n) /\ n \in DOMAIN batch
    BY <1>1, <1>2
  <2> PICK v, w : v = t[n - 1] /\ w = t[n]
    OBVIOUS
  <2>2. TreeOk(v) /\ GrownTo(tree, v) /\ \A i \in DOMAIN batch : i <= n - 1 => Nextcloud!under(batch[i].rest) \in DOMAIN v
    BY <1>4
  <2>3. TreeOk(w) /\ GrownTo(v, w) /\ Nextcloud!under(batch[n].rest) \in DOMAIN w
    BY <2>1, <2>2, AdoptRowIs
  <2>4. GrownTo(tree, w)
    BY <2>2, <2>3 DEF GrownTo
  <2>5. \A i \in DOMAIN batch : i <= n => i <= n - 1 \/ i = n
    BY <1>1
  <2>6. \A i \in DOMAIN batch : i <= n => Nextcloud!under(batch[i].rest) \in DOMAIN w
    BY <2>2, <2>3, <2>5 DEF GrownTo
  <2> QED BY <2>3, <2>4, <2>6
<1> HIDE DEF Right
<1>5. Wrong = {}
  <2> SUFFICES ASSUME Wrong # {} PROVE FALSE
    OBVIOUS
  <2>1. Wrong \in SUBSET Nat
    BY <1>1
  <2>2. PICK n \in Wrong : \A m \in Wrong : n <= m
    BY <2>1, SmallestOf
  <2>3. n \in 1..Len(batch) /\ n - 1 \in 0..Len(batch) /\ n - 1 \notin Wrong
    BY <1>1, <1>3, <2>1, <2>2
  <2>4. Right(n)
    BY <1>4, <2>3
  <2> QED BY <2>2, <2>4
<1>6. Right(Len(batch))
  BY <1>1, <1>5
<1> QED BY <1>1, <1>6 DEF Right
LEMMA AdoptHoldsC == ASSUME CloudInv, Nextcloud!Adopt PROVE CloudInv'
<1> DEFINE trees == Nextcloud!Through
           taken == {i \in DOMAIN batch : Nextcloud!under(batch[i].rest) \in DOMAIN trees[i - 1]}
           L == Len(batch)
           c == Cardinality(taken)
<1>1. /\ phase = "adopt"
      /\ UNCHANGED <<command, rows, claimed, removed, mine, holds, at, report, hashed, present>>
  BY DEF Nextcloud!Adopt
<1>2. CloudTypes /\ SurveyStands /\ TreeStands /\ ImportStands
  BY DEF CloudInv
<1>3. CASE phase' = "failed" /\ UNCHANGED <<tree, counts, batch>>
  BY <1>1, <1>3, EndsHold
<1>4. CASE /\ tree' = trees[L] /\ phase' = "read" /\ batch' = <<>>
           /\ counts' = [adopted |-> counts.adopted + L - Nextcloud!Cardinality(taken),
                         skipped |-> counts.skipped + Nextcloud!Cardinality(taken)]
  <2>1. /\ DOMAIN rows = 1..Len(rows) /\ Len(rows) \in Nat /\ at \in Nat \ {0}
        /\ L \in Nat /\ DOMAIN batch = 1..L
        /\ counts.adopted \in Nat /\ counts.skipped \in Nat
    BY <1>2, RowsAre, LenProperties DEF CloudTypes
  <2>2. c \in Nat /\ c <= L
    <3> PICK m : m = L
      OBVIOUS
    <3>1. m \in Nat /\ taken \in SUBSET (1..m)
      BY <2>1
    <3> HIDE DEF taken
    <3>2. IsFiniteSet(1..m) /\ Cardinality(1..m) = m
      BY ONLY <3>1, FS_Interval
    <3>3. IsFiniteSet(taken) /\ Cardinality(taken) <= m
      BY <3>1, <3>2, FS_Subset
    <3>4. Cardinality(taken) \in Nat
      BY <3>3, FS_CardinalityType
    <3> QED BY <3>3, <3>4
  <2>3. counts' = [adopted |-> counts.adopted + L - c, skipped |-> counts.skipped + c]
    <3> HIDE DEF taken, L
    <3> QED BY <1>4, CloudCounts
  <2> HIDE DEF taken, c
  <2>4. /\ DOMAIN counts' = {"adopted", "skipped"} /\ counts'.adopted \in Nat /\ counts'.skipped \in Nat
        /\ counts'.adopted + counts'.skipped = counts.adopted + counts.skipped + L
    BY <2>1, <2>2, <2>3
  <2>5. command.etag => Nextcloud!Files \subseteq hashed
    BY <1>1, <1>2 DEF ImportStands
  <2>6. /\ TreeOk(tree') /\ GrownTo(tree, tree')
        /\ \A i \in DOMAIN batch : Nextcloud!under(batch[i].rest) \in DOMAIN tree'
    <3> PICK u : u = Nextcloud!Through[Len(batch)]
      OBVIOUS
    <3>1. TreeOk(u) /\ GrownTo(tree, u) /\ \A i \in DOMAIN batch : Nextcloud!under(batch[i].rest) \in DOMAIN u
      BY <1>2, <2>5, TreeIsOk, BatchIsThere
    <3>2. tree' = u
      BY <1>4
    <3> QED BY <3>1, <3>2
  <2>7. TreeStands'
    <3>1. \A p \in mine : p \in DOMAIN tree' /\ tree'[p].by = "user"
      BY <1>2, <2>6 DEF TreeStands, GrownTo
    <3> QED BY <1>1, <2>6, <3>1 DEF TreeStands, TreeOk, Parent, Nextcloud!ValidatorsAreWhole
  <2>8. CloudTypes'
    <3>1. batch' \in Seq(CloudRows) /\ phase' \in Nextcloud!Ends \cup Nextcloud!Running
      BY <1>4, EmptySeq DEF Nextcloud!Running
    <3> QED BY <1>1, <1>2, <2>4, <3>1 DEF CloudTypes
  <2>9. ImportStands'
    <3>1. /\ at <= Len(rows) + 1 /\ L < at /\ counts.adopted + counts.skipped = at - 1 - L
          /\ \A i \in DOMAIN batch : batch[i] = rows[at - 1 - L + i]
          /\ \A n \in DOMAIN rows : n < at - L => Nextcloud!under(rows[n].rest) \in DOMAIN tree \cup removed
      BY <1>1, <1>2 DEF ImportStands
    <3>2. counts'.adopted + counts'.skipped = at - 1
      BY <2>1, <2>4, <3>1
    <3>3. ASSUME NEW n \in DOMAIN rows, n < at PROVE Nextcloud!under(rows[n].rest) \in DOMAIN tree' \cup removed
      <4>1. CASE n < at - L
        BY <3>1, <4>1, <2>6 DEF GrownTo
      <4>2. CASE ~(n < at - L)
        <5>1. n - (at - 1 - L) \in DOMAIN batch /\ n = at - 1 - L + (n - (at - 1 - L))
          <6> PICK l, a : l = L /\ a = at
            OBVIOUS
          <6>1. l \in Nat /\ a \in Nat \ {0} /\ n \in Nat /\ l < a /\ n < a /\ ~(n < a - l)
            BY <2>1, <3>1, <3>3, <4>2
          <6>2. n - (a - 1 - l) \in 1..l /\ n = a - 1 - l + (n - (a - 1 - l))
            BY ONLY <6>1
          <6> QED BY <2>1, <6>2
        <5>2. batch[n - (at - 1 - L)] = rows[n]
          BY <3>1, <5>1
        <5> QED BY <2>6, <5>1, <5>2
      <4> QED BY <4>1, <4>2
    <3>4. Len(batch') = 0 /\ DOMAIN batch' = {}
      BY <1>4
    <3> QED BY <1>1, <1>4, <2>1, <3>1, <3>2, <3>3, <3>4 DEF ImportStands, Nextcloud!under
  <2>10. SurveyStands' /\ WalkGoes' /\ NotYet' /\ HashStands'
    BY <1>1, <1>2, <1>4 DEF SurveyStands, WalkGoes, NotYet, HashStands, NoneBad, Answered
  <2> QED BY <2>7, <2>8, <2>9, <2>10 DEF CloudInv
<1> QED BY <1>3, <1>4 DEF Nextcloud!Adopt

LEMMA UserPutsHolds == ASSUME CloudInv, NEW p \in UserPaths, Nextcloud!UserPuts(p) PROVE CloudInv'
<1> DEFINE f == [dir |-> FALSE, key |-> 0, tagged |-> TRUE, by |-> "user"]
<1>1. /\ p \notin DOMAIN tree /\ (Len(p) > 1 => Parent(p) \in DOMAIN tree)
      /\ tree' = [q \in DOMAIN tree \cup {p} |-> IF q = p THEN f ELSE tree[q]]
      /\ removed' = removed \ {p} /\ mine' = mine \cup {p}
      /\ UNCHANGED <<command, phase, holds, rows, claimed, at, report, batch, hashed, counts, present>>
  BY DEF Nextcloud!UserPuts, Parent
<1>2. p \in Seq(STRING)
  BY CloudAssumption
<1>3. f \in Leaf /\ f.tagged /\ f.by = "user"
  BY DEF Leaf
<1> HIDE DEF f
<1>4. TreeOk(tree) /\ \A q \in mine : q \in DOMAIN tree /\ tree[q].by = "user"
  BY TreeIsOk DEF CloudInv
<1>5. DOMAIN tree' = DOMAIN tree \cup {p} /\ tree'[p] = f /\ \A q \in DOMAIN tree : tree'[q] = tree[q]
  BY <1>1
<1>6. tree' \in [DOMAIN tree' -> Leaf]
  BY <1>1, <1>3, <1>4, <1>5 DEF TreeOk
<1>7. TreeOk(tree')
  BY <1>1, <1>2, <1>3, <1>4, <1>5, <1>6 DEF TreeOk
<1>8. TreeStands'
  <2>1. \A q \in mine' : q \in DOMAIN tree' /\ tree'[q].by = "user"
    BY <1>1, <1>3, <1>4, <1>5
  <2> QED BY <1>1, <1>7, <2>1 DEF TreeStands, TreeOk, Parent, Nextcloud!ValidatorsAreWhole
<1>9. DOMAIN tree \cup removed \subseteq DOMAIN tree' \cup removed'
  BY <1>1, <1>5
<1> QED BY <1>1, <1>8, <1>9, MeddleHolds

\* What goes with a folder is everything below it: what stays keeps its own.
LEMMA UserDeletesHolds == ASSUME CloudInv, NEW p \in UserPaths, Nextcloud!UserDeletes(p) PROVE CloudInv'
<1> DEFINE going == {q \in DOMAIN tree : q = p \/ p \in Nextcloud!Above(q)}
<1>1. /\ tree' = [q \in DOMAIN tree \ going |-> tree[q]]
      /\ removed' = removed \cup going /\ mine' = mine \ going
      /\ UNCHANGED <<command, phase, holds, rows, claimed, at, report, batch, hashed, counts, present>>
  BY DEF Nextcloud!UserDeletes
<1>2. TreeOk(tree) /\ \A q \in mine : q \in DOMAIN tree /\ tree[q].by = "user"
  BY TreeIsOk DEF CloudInv
<1>3. ASSUME NEW q \in DOMAIN tree \ going, Len(q) > 1 PROVE Parent(q) \in DOMAIN tree \ going
  <2>1. Parent(q) \in DOMAIN tree /\ q \in Seq(STRING)
    BY <1>2, <1>3 DEF TreeOk
  <2>2. p # Parent(q) /\ p \notin Nextcloud!Above(Parent(q))
    BY <1>3, <2>1, AboveAre
  <2> QED BY <2>1, <2>2
<1> HIDE DEF going
<1>4. DOMAIN tree' = DOMAIN tree \ going /\ \A q \in DOMAIN tree' : tree'[q] = tree[q]
  BY <1>1
<1>5. tree' \in [DOMAIN tree' -> Leaf]
  BY <1>1, <1>2, <1>4 DEF TreeOk
<1>6. TreeOk(tree')
  BY <1>1, <1>2, <1>3, <1>4, <1>5 DEF TreeOk
<1>7. TreeStands'
  <2>1. \A q \in mine' : q \in DOMAIN tree' /\ tree'[q].by = "user"
    BY <1>1, <1>2, <1>4
  <2> QED BY <1>1, <1>6, <2>1 DEF TreeStands, TreeOk, Parent, Nextcloud!ValidatorsAreWhole
<1>8. DOMAIN tree \cup removed \subseteq DOMAIN tree' \cup removed'
  BY <1>1, <1>4
<1> QED BY <1>1, <1>7, <1>8, MeddleHolds

LEMMA CloudInitHolds == ASSUME Nextcloud!Init PROVE CloudInv
<1>1. /\ command \in Commands /\ phase = "idle" /\ holds = Nextcloud!Nobody /\ rows = <<>> /\ at = 1 /\ batch = <<>>
      /\ report = Nextcloud!NoReport /\ counts = [adopted |-> 0, skipped |-> 0]
      /\ tree = [p \in {} |-> 0] /\ mine = {}
  BY DEF Nextcloud!Init
<1>2. holds \in [Workers -> Holding]
  BY <1>1, HoldingKinds DEF Nextcloud!Nobody
<1>3. /\ DOMAIN report = {"present", "mismatch", "missing", "failed", "unclaimed"}
      /\ \A v \in {"present", "mismatch", "missing", "failed"} : report[v] \in Nat
  BY <1>1 DEF Nextcloud!NoReport
<1>4. DOMAIN counts = {"adopted", "skipped"} /\ counts.adopted \in Nat /\ counts.skipped \in Nat
  BY <1>1
<1>5. CloudTypes
  BY <1>1, <1>2, <1>3, <1>4, EmptySeq DEF CloudTypes, Nextcloud!Ends
<1>6. TreeStands
  <2>1. DOMAIN tree = {} /\ tree \in [DOMAIN tree -> Leaf]
    BY <1>1
  <2> QED BY <1>1, <2>1 DEF TreeStands, Nextcloud!ValidatorsAreWhole
<1>7. WalkGoes /\ SurveyStands /\ NotYet /\ ImportStands /\ HashStands
  BY <1>1 DEF WalkGoes, SurveyStands, NotYet, ImportStands, HashStands
<1> QED BY <1>5, <1>6, <1>7 DEF CloudInv

LEMMA CloudNextHolds == ASSUME CloudInv, [Nextcloud!Next]_nvars PROVE CloudInv'
<1>1. CASE Nextcloud!Proceed
  BY <1>1, FeedHolds, CheckHolds, RecordHolds, HashHolds, DigestHolds, FeedStopsHolds, CollectedHolds, CountUnclaimedHolds,
     OpenDatabaseHolds, ReadBatchHolds, HashEndsHolds, AdoptHoldsC DEF Nextcloud!Proceed
<1>2. CASE Nextcloud!Interrupt
  BY <1>2, AsideHolds DEF Nextcloud!Interrupt, Nextcloud!source
<1>3. CASE \E k \in Nextcloud!Objects : Nextcloud!Lose(k)
  BY <1>3, AsideHolds DEF Nextcloud!Lose
<1>4. CASE UNCHANGED nvars
  BY <1>4, AsideHolds DEF nvars
<1> QED
  BY <1>1, <1>2, <1>3, <1>4, StartHoldsC, KillHolds, UserPutsHolds, UserDeletesHolds DEF Nextcloud!Next

\* The Nextcloud import: for any cache, workers, batches and commands, and any
\* number of runs, faults and interruptions.
THEOREM CloudInvariant == Nextcloud!Spec => []CloudInv
<1>1. Nextcloud!Init => CloudInv
  BY CloudInitHolds
<1>2. CloudInv /\ [Nextcloud!Next]_(Nextcloud!cloudVars) => CloudInv'
  BY CloudNextHolds DEF Nextcloud!cloudVars, nvars
<1> QED BY <1>1, <1>2, PTL DEF Nextcloud!Spec

LEMMA CloudPromises ==
  ASSUME CloudInv
  PROVE  Nextcloud!SurveyIsComplete /\ Nextcloud!ImportIsWhole /\ Nextcloud!ValidatorsAreWhole
<1>1. CloudTypes /\ SurveyStands /\ TreeStands /\ ImportStands
  BY DEF CloudInv
<1>2. Nextcloud!SurveyIsComplete
  <2>1. Nextcloud!Cardinality(claimed) = Cardinality(claimed)
    BY CloudCounts
  <2> QED BY <1>1, <2>1 DEF SurveyStands, Answered, Nextcloud!SurveyIsComplete, Nextcloud!Running
<1>3. phase = "done" => /\ \A n \in DOMAIN rows : Nextcloud!under(rows[n].rest) \in DOMAIN tree \cup removed
                        /\ counts.adopted + counts.skipped = Len(rows)
  <2> HAVE phase = "done"
  <2>1. batch = <<>> /\ Len(batch) = 0 /\ at = Len(rows) + 1
    BY <1>1 DEF ImportStands
  <2>2. DOMAIN rows = 1..Len(rows) /\ Len(rows) \in Nat
    BY <1>1, RowsAre
  <2> QED BY <1>1, <2>1, <2>2 DEF ImportStands
<1>4. Nextcloud!ImportIsWhole
  BY <1>1, <1>3 DEF TreeStands, Nextcloud!ImportIsWhole
<1> QED BY <1>1, <1>2, <1>4 DEF TreeStands

\* ImportsAreWhole: neither source of files loses, repeats or cuts short what
\* it hands over, unless a writer comes back to its file.
THEOREM ImportsStayWhole == ASSUME ~SlowWriters PROVE Nextcloud!Spec /\ Incoming!Spec => []ImportsAreWhole
<1>1. CloudInv /\ FolderInv => ImportsAreWhole
  BY CloudPromises, FolderPromises DEF ImportsAreWhole
<1> QED BY <1>1, CloudInvariant, FolderInvariant, PTL
-----------------------------------------------------------------------------
(* The lookups: what the passes keep.                                      *)

Albums1 == Lookups!Albums
Bytes == DOMAIN Recordings
Blobs == {Lookups!NoBlob} \cup (FileIds \X Bytes)
Candidates == [album : Albums1, group : BOOLEAN, release : BOOLEAN]
Ever == MaxClock + 4

AlbumRows == [there : BOOLEAN, retry : Nat, group : BOOLEAN, cover : Blobs, version : Nat]
Answers == [at : Nat, said : {"nobody", "nothing", "unanswered", "found"}]

WithAlbum == {"search", "cover", "tracks", "store", "put"}

MusicTypes ==
  /\ stored \in [FileIds -> {0, -1} \cup Bytes] /\ indexed \in [FileIds -> {0} \cup Bytes]
  /\ albumRow \in [Albums1 -> AlbumRows] /\ heard \in [Albums1 -> Answers]
  /\ clock \in 1..MaxClock /\ viewer \in {0} \cup Albums1
  /\ DOMAIN lyricsRow = FileIds

\* The pass: every album on its list once, and asked about in its time.
InTime(h, hour) ==
  /\ h.said = "nothing" => h.at + 2 <= hour
  /\ h.said = "unanswered" => h.at + 1 <= hour
  /\ h.said # "found"

PassGoes ==
  /\ DOMAIN pass = {"at", "now", "albums", "songs", "left", "group", "blob", "turned"}
  /\ pass.at \in {"idle", "pruned", "songs", "words"} \cup WithAlbum
  /\ pass.now \in Nat /\ pass.now <= clock /\ pass.albums \in Seq(Candidates) /\ pass.group \in BOOLEAN /\ pass.blob \in Blobs
  /\ pass.at \in WithAlbum => pass.albums # <<>>
  /\ pass.at \notin {"songs", "words"} => pass.turned = {}
  /\ \A k, l \in DOMAIN pass.albums : pass.albums[k].album = pass.albums[l].album => k = l
  /\ \A k \in DOMAIN pass.albums : InTime(heard[pass.albums[k].album], pass.now)

\* A row says when it is due again, and what was heard.
RowsStand ==
  \A a \in Albums1 :
    LET row == albumRow[a]
    IN /\ row.there /\ row.cover = Lookups!NoBlob => row.retry # 0 /\ row.retry <= Ever
       /\ heard[a].said # "nobody" => row.there /\ row.version = 2
       /\ heard[a].said = "nothing" => row.retry = heard[a].at + 2
       /\ heard[a].said = "unanswered" => row.retry = heard[a].at + 1
       /\ heard[a].said = "found" => row.retry = 0

WordsStand == \A id \in FileIds : lyricsRow[id].there /\ ~lyricsRow[id].found => lyricsRow[id].retry # 0 /\ lyricsRow[id].retry <= Ever

\* Nobody has later bytes than these but what is there or gone.
Past(b) == stored[b[1]] = -1 \/ b[2] <= stored[b[1]]
Kept(b) == Past(b) /\ (stored[b[1]] = b[2] => b \in art)

NamedStand == \A a \in Albums1 : albumRow[a].cover # Lookups!NoBlob => Kept(albumRow[a].cover)

CoversStand ==
  /\ NamedStand
  /\ pass.at \in {"store", "put"} => pass.blob # Lookups!NoBlob /\ Past(pass.blob)
  /\ pass.at = "put" => Kept(pass.blob)

MusicInv == MusicTypes /\ PassGoes /\ RowsStand /\ WordsStand /\ CoversStand
-----------------------------------------------------------------------------
(* The lookups: helpers.                                                   *)

LEMMA MusicNumbers ==
  /\ Albums1 \in SUBSET (Nat \ {0}) /\ IsFiniteSet(Albums1)
  /\ Bytes \in SUBSET (Nat \ {0}) /\ 1 \in Bytes
  /\ FileIds \in SUBSET (Nat \ {0}) /\ IsFiniteSet(FileIds)
  /\ MaxClock \in Nat \ {0}
<1>1. DOMAIN Recordings = 1..Len(Recordings) /\ Len(Recordings) \in Nat \ {0}
      /\ \A r \in DOMAIN Recordings : Recordings[r].album \in Nat
  BY MusicAssumption
<1>2. Albums1 \in SUBSET (Nat \ {0})
  BY <1>1 DEF Albums1, Lookups!Albums, Lookups!None
<1>3. IsFiniteSet(Albums1)
  <2> PICK n : n = Len(Recordings)
    OBVIOUS
  <2> DEFINE T == {Recordings[r].album : r \in 1..n}
             f == [r \in 1..n |-> Recordings[r].album]
  <2>1. n \in Nat
    BY <1>1
  <2>2. IsFiniteSet(1..n)
    BY ONLY <2>1, FS_Interval
  <2>3. f \in Surjection(1..n, T)
    BY DEF Surjection
  <2>4. Albums1 \in SUBSET T
    BY <1>1 DEF Albums1, Lookups!Albums
  <2> HIDE DEF T, f
  <2>5. IsFiniteSet(T)
    BY <2>2, <2>3, FS_Surjection
  <2> QED BY <2>4, <2>5, FS_Subset
<1>4. Bytes \in SUBSET (Nat \ {0}) /\ 1 \in Bytes
  BY <1>1 DEF Bytes
<1> QED BY <1>2, <1>3, <1>4, MusicAssumption

LEMMA BlobsAre ==
  \A b \in Blobs : b # Lookups!NoBlob => b[1] \in FileIds /\ b[2] \in Bytes /\ b[1] \in Nat /\ b[2] \in Nat \ {0}
BY MusicNumbers DEF Blobs

LEMMA BlobIs ==
  ASSUME MusicTypes, NEW id \in FileIds, Lookups!Live(id)
  PROVE  /\ Lookups!Blob(id) \in Blobs /\ Lookups!Blob(id) # Lookups!NoBlob /\ Past(Lookups!Blob(id))
<1>1. stored[id] \in Bytes /\ id \in Nat \ {0} /\ stored[id] \in Nat
  BY MusicNumbers DEF MusicTypes, Lookups!Live, Lookups!None, Lookups!Gone
<1>2. Lookups!Blob(id) = <<id, stored[id]>>
  BY DEF Lookups!Blob
<1> QED BY <1>1, <1>2 DEF Blobs, Lookups!NoBlob, Lookups!None, Past

LEMMA LookupsRank == \A S : Ranked(Lookups!Ascending(S), S)
BY Zenon DEF Lookups!Ascending, Ranked, Lookups!Cardinality, Cardinality

\* The first of a set of numbers: each of them once.
LEMMA FirstAre ==
  ASSUME NEW S \in SUBSET Nat, IsFiniteSet(S), NEW n \in Nat, NEW d, d = Lookups!FirstOf(Lookups!Ascending(S), n)
  PROVE  d \in Seq(S) /\ \A k, l \in DOMAIN d : d[k] = d[l] => k = l
<1> PICK a : a = Lookups!Ascending(S)
  OBVIOUS
<1>0. Ranked(a, S)
  BY LookupsRank
<1>1. /\ DOMAIN a = 1..Cardinality(S) /\ Cardinality(S) \in Nat
      /\ \A k \in DOMAIN a : a[k] \in S
      /\ \A k, l \in DOMAIN a : a[k] = a[l] => k = l
  BY ONLY <1>0, S \in SUBSET Nat, IsFiniteSet(S), RankedAre
<1> PICK m : m = Cardinality(S)
  OBVIOUS
<1>2. a \in [1..m -> S] /\ m \in Nat
  <2>1. a = [k \in 1..m |-> a[k]]
    BY <1>0 DEF Ranked
  <2> QED BY <1>1, <2>1
<1>3. a \in Seq(S) /\ Len(a) = m
  BY <1>1, <1>2, SeqDef
<1> PICK e : e = (IF n < Len(a) THEN n ELSE Len(a))
  OBVIOUS
<1>4. e \in Nat /\ e <= m
  BY <1>2, <1>3
<1>5. d = SubSeq(a, 1, e)
  BY DEF Lookups!FirstOf
<1>6. \A i \in 1..e : a[i] \in S
  BY <1>1, <1>4
<1>7. d \in Seq(S) /\ Len(d) = e /\ \A i \in 1..e : d[i] = a[i]
  <2>1. /\ SubSeq(a, 1, e) \in Seq(S) /\ Len(SubSeq(a, 1, e)) = (IF 1 <= e THEN e - 1 + 1 ELSE 0)
        /\ \A i \in 1..(e - 1 + 1) : SubSeq(a, 1, e)[i] = a[1 + i - 1]
    <3>1. 1 \in Int /\ e \in Int
      BY <1>4
    <3> QED BY <1>6, <3>1, SubSeqProperties
  <2> QED BY <1>4, <1>5, <2>1
<1>8. DOMAIN d = 1..e
  BY <1>7, LenProperties
<1> QED BY <1>1, <1>4, <1>7, <1>8

\* What the next album makes of the pass.
LEMMA NextAlbumIs ==
  ASSUME PassGoes, NEW s \in Seq(Candidates), NEW x, x = Lookups!NextAlbum(s)
  PROVE  /\ DOMAIN x = DOMAIN pass /\ x.at \in {"songs", "cover", "search"} /\ (x.at \in WithAlbum => s # <<>>)
         /\ x.now = pass.now /\ x.albums = s /\ x.group \in BOOLEAN /\ x.blob = Lookups!NoBlob /\ x.turned = pass.turned
<1> PICK p : p = pass
  OBVIOUS
<1> DEFINE rest == [p EXCEPT !.albums = s, !.left = 0, !.group = FALSE, !.blob = Lookups!NoBlob]
<1>1. DOMAIN p = {"at", "now", "albums", "songs", "left", "group", "blob", "turned"}
  BY DEF PassGoes
<1>2. /\ DOMAIN rest = DOMAIN p /\ rest.now = p.now /\ rest.albums = s /\ rest.group = FALSE
      /\ rest.blob = Lookups!NoBlob /\ rest.turned = p.turned
  BY <1>1
<1> PICK r : r = rest
  OBVIOUS
<1>3. CASE s = <<>>
  <2>1. x = [r EXCEPT !.at = "songs"]
    BY <1>3 DEF Lookups!NextAlbum
  <2> HIDE DEF rest
  <2> QED BY <1>1, <1>2, <2>1 DEF WithAlbum
<1>4. CASE s # <<>>
  <2>1. s[1] \in Candidates
    BY <1>4, EmptySeq, ElementOfSeq
  <2>2. \/ x = [r EXCEPT !.at = "cover", !.group = s[1].group]
        \/ x = [r EXCEPT !.at = "search", !.left = Spellings[s[1].album]]
    BY <1>4 DEF Lookups!NextAlbum
  <2>3. s[1].group \in BOOLEAN
    BY <2>1 DEF Candidates
  <2> HIDE DEF rest
  <2> QED BY <1>1, <1>2, <1>4, <2>2, <2>3
<1> QED BY <1>3, <1>4

Distinct(s) == \A k, l \in DOMAIN s : s[k].album = s[l].album => k = l

LEMMA NextAlbumGoes ==
  ASSUME PassGoes, pass.turned = {}, clock' = clock, NEW s \in Seq(Candidates), Distinct(s), NEW x, pass' = x,
         \A k \in DOMAIN s : InTime(heard'[s[k].album], pass.now),
         \/ x = Lookups!NextAlbum(s)
         \/ s = <<>> /\ \E u : x = [Lookups!NextAlbum(<<>>) EXCEPT !.turned = u]
  PROVE  PassGoes' /\ pass'.at \in {"songs", "cover", "search"}
<1> PICK y : y = Lookups!NextAlbum(s)
  OBVIOUS
<1>1. /\ DOMAIN y = DOMAIN pass /\ y.at \in {"songs", "cover", "search"} /\ (y.at \in WithAlbum => s # <<>>)
      /\ y.now = pass.now /\ y.albums = s /\ y.group \in BOOLEAN /\ y.blob = Lookups!NoBlob /\ y.turned = {}
  BY NextAlbumIs
<1>2. /\ DOMAIN x = DOMAIN pass /\ x.at = y.at /\ x.now = pass.now /\ x.albums = s /\ x.group = y.group
      /\ x.blob = Lookups!NoBlob /\ (x.turned = {} \/ s = <<>>)
  <2>1. CASE x = y
    BY <1>1, <2>1
  <2>2. CASE s = <<>> /\ \E u : x = [y EXCEPT !.turned = u]
    <3>1. PICK u : x = [y EXCEPT !.turned = u]
      BY <2>2
    <3> QED BY <1>1, <2>2, <3>1 DEF PassGoes
  <2> QED BY <2>1, <2>2
<1>3. s = <<>> => x.at = "songs"
  BY <1>1, <1>2 DEF WithAlbum
<1>4. x.at \notin {"songs", "words"} => x.turned = {}
  BY <1>2, <1>3
<1>5. x.blob \in Blobs
  BY <1>2 DEF Blobs
<1>6. x.at \in {"songs", "cover", "search"}
  BY <1>1, <1>2
<1> QED BY <1>1, <1>2, <1>4, <1>5, <1>6 DEF PassGoes, Distinct, WithAlbum
-----------------------------------------------------------------------------
(* The lookups: albums.                                                    *)

LEMMA AlbumAtHand ==
  ASSUME PassGoes, pass.at \in WithAlbum
  PROVE  LET t == Tail(pass.albums)
         IN /\ Lookups!ThisAlbum \in Albums1 /\ pass.albums[1] \in Candidates
            /\ t \in Seq(Candidates) /\ Distinct(t)
            /\ \A k \in DOMAIN t : t[k].album # Lookups!ThisAlbum /\ t[k].album \in Albums1
            /\ \A k \in DOMAIN t : InTime(heard[t[k].album], pass.now)
            /\ InTime(heard[Lookups!ThisAlbum], pass.now)
<1> PICK s, t : s = pass.albums /\ t = Tail(s)
  OBVIOUS
<1>1. s \in Seq(Candidates) /\ s # <<>>
  BY DEF PassGoes
<1>2. /\ t \in Seq(Candidates) /\ Len(t) = Len(s) - 1 /\ Len(s) \in Nat \ {0}
      /\ \A i \in 1..Len(t) : t[i] = s[i + 1]
  <2>1. /\ Tail(s) \in Seq(Candidates) /\ Len(Tail(s)) = Len(s) - 1
        /\ \A i \in 1..Len(Tail(s)) : Tail(s)[i] = s[i + 1]
    BY ONLY <1>1, HeadTailProperties
  <2>2. Len(s) \in Nat \ {0}
    BY ONLY <1>1, EmptySeq
  <2> QED BY <2>1, <2>2
<1>3. DOMAIN t = 1..Len(t) /\ DOMAIN s = 1..Len(s) /\ \A k \in DOMAIN s : s[k] \in Candidates
  BY <1>1, <1>2, LenProperties, ElementOfSeq
<1>4. 1 \in DOMAIN s /\ \A k \in DOMAIN t : k + 1 \in DOMAIN s /\ k + 1 # 1 /\ t[k] = s[k + 1]
  BY <1>2, <1>3
<1>5. \A k, l \in DOMAIN s : s[k].album = s[l].album => k = l
  BY DEF PassGoes
<1>6. \A k, l \in DOMAIN t : k + 1 = l + 1 => k = l
  BY <1>2, <1>3
<1>7. Distinct(t)
  BY <1>4, <1>5, <1>6 DEF Distinct
<1>8. \A k \in DOMAIN s : s[k].album \in Albums1 /\ InTime(heard[s[k].album], pass.now)
  BY <1>3 DEF Candidates, PassGoes
<1>9. Lookups!ThisAlbum = s[1].album
  BY DEF Lookups!ThisAlbum
<1> QED BY <1>2, <1>3, <1>4, <1>5, <1>7, <1>8, <1>9

\* An album is written down, with what was heard of it.
LEMMA PutAlbumHolds ==
  ASSUME MusicInv, pass.at \in WithAlbum, UNCHANGED <<stored, indexed, lyricsRow, clock, viewer, art>>,
         NEW retry \in Nat, NEW group \in BOOLEAN, NEW cover \in Blobs, NEW said \in {"nothing", "unanswered", "found"},
         Lookups!PutAlbum(retry, group, cover, said),
         said = "nothing" => retry = pass.now + 2, said = "unanswered" => retry = pass.now + 1, said = "found" => retry = 0,
         cover = Lookups!NoBlob => retry # 0 /\ retry <= Ever,
         cover # Lookups!NoBlob => Kept(cover)
  PROVE  /\ MusicTypes' /\ RowsStand' /\ WordsStand'
         /\ NamedStand'
         /\ \A k \in DOMAIN Tail(pass.albums) : InTime(heard'[Tail(pass.albums)[k].album], pass.now)
<1> DEFINE r == [there |-> TRUE, retry |-> retry, group |-> group, cover |-> cover, version |-> 2]
           h == [at |-> pass.now, said |-> said]
<1> PICK a : a = Lookups!ThisAlbum
  OBVIOUS
<1>1. MusicTypes /\ PassGoes /\ RowsStand /\ WordsStand /\ CoversStand
  BY DEF MusicInv
<1>2. /\ a \in Albums1
      /\ \A k \in DOMAIN Tail(pass.albums) : Tail(pass.albums)[k].album # a /\ Tail(pass.albums)[k].album \in Albums1
      /\ \A k \in DOMAIN Tail(pass.albums) : InTime(heard[Tail(pass.albums)[k].album], pass.now)
  BY <1>1, AlbumAtHand
<1>3. pass.now \in Nat
  BY <1>1 DEF PassGoes
<1>4. albumRow' = [albumRow EXCEPT ![a] = r] /\ heard' = [heard EXCEPT ![a] = h]
  BY DEF Lookups!PutAlbum, Lookups!SearchVersion
<1>5. r \in AlbumRows /\ r.there /\ r.retry = retry /\ r.cover = cover /\ r.version = 2
  BY DEF AlbumRows
<1>6. h \in Answers /\ h.at = pass.now /\ h.said = said
  BY <1>3 DEF Answers
<1> HIDE DEF r, h
<1>7. /\ albumRow' \in [Albums1 -> AlbumRows] /\ albumRow'[a] = r /\ \A b \in Albums1 : b # a => albumRow'[b] = albumRow[b]
      /\ heard' \in [Albums1 -> Answers] /\ heard'[a] = h /\ \A b \in Albums1 : b # a => heard'[b] = heard[b]
  BY <1>1, <1>2, <1>4, <1>5, <1>6 DEF MusicTypes
<1>8. MusicTypes'
  BY <1>1, <1>7 DEF MusicTypes
<1>9. RowsStand'
  <2>1. \A b \in Albums1 : b # a => albumRow'[b] = albumRow[b] /\ heard'[b] = heard[b]
    BY <1>7
  <2>2. albumRow'[a].there /\ albumRow'[a].retry = retry /\ albumRow'[a].cover = cover /\ albumRow'[a].version = 2
        /\ heard'[a].at = pass.now /\ heard'[a].said = said
    BY <1>5, <1>6, <1>7
  <2> QED BY <1>1, <2>1, <2>2 DEF RowsStand
<1>10. WordsStand'
  BY <1>1 DEF WordsStand
<1>11. NamedStand'
  <2>2. ASSUME NEW b \in Albums1, albumRow'[b].cover # Lookups!NoBlob PROVE Kept(albumRow'[b].cover)
    <3>1. CASE b = a
      BY <2>2, <3>1, <1>5, <1>7
    <3>2. CASE b # a
      BY <2>2, <3>2, <1>1, <1>7 DEF CoversStand, NamedStand
    <3> QED BY <3>1, <3>2
  <2> QED BY <2>2 DEF NamedStand, Kept, Past
<1>12. \A k \in DOMAIN Tail(pass.albums) : InTime(heard'[Tail(pass.albums)[k].album], pass.now)
  BY <1>2, <1>7
<1> QED BY <1>8, <1>9, <1>10, <1>11, <1>12

\* The album is done with; the next one comes, or none.
LEMMA AlbumDone ==
  ASSUME MusicInv, pass.at \in WithAlbum, clock' = clock, pass.turned = {},
         \/ pass' = Lookups!RestOfAlbums
         \/ \E u : pass' = [Lookups!NextAlbum(<<>>) EXCEPT !.turned = u],
         MusicTypes', RowsStand', WordsStand',
         NamedStand',
         \A k \in DOMAIN Tail(pass.albums) : InTime(heard'[Tail(pass.albums)[k].album], pass.now)
  PROVE  MusicInv'
<1> PICK t, x : t = Tail(pass.albums) /\ x = pass'
  OBVIOUS
<1>1. PassGoes
  BY DEF MusicInv
<1>2. t \in Seq(Candidates) /\ Distinct(t)
  BY <1>1, AlbumAtHand
<1>3. PassGoes' /\ pass'.at \in {"songs", "cover", "search"}
  <2>1. CASE pass' = Lookups!RestOfAlbums
    <3>1. x = Lookups!NextAlbum(t)
      BY <2>1 DEF Lookups!RestOfAlbums
    <3>2. \A k \in DOMAIN t : InTime(heard'[t[k].album], pass.now)
      OBVIOUS
    <3> QED BY <1>1, <1>2, <3>1, <3>2, NextAlbumGoes
  <2>2. CASE \E u : pass' = [Lookups!NextAlbum(<<>>) EXCEPT !.turned = u]
    <3> PICK s : s = <<>>
      OBVIOUS
    <3>1. s \in Seq(Candidates) /\ Distinct(s) /\ s = <<>> /\ \A k \in DOMAIN s : InTime(heard'[s[k].album], pass.now)
      BY EmptySeq DEF Distinct
    <3>2. \E u : x = [Lookups!NextAlbum(<<>>) EXCEPT !.turned = u]
      BY <2>2
    <3> QED BY <1>1, <3>1, <3>2, NextAlbumGoes
  <2> QED BY <2>1, <2>2
<1>4. CoversStand'
  BY <1>3 DEF CoversStand, WithAlbum
<1> QED BY <1>3, <1>4 DEF MusicInv

LEMMA TurnedIsEmpty == ASSUME PassGoes, pass.at \in WithAlbum PROVE pass.turned = {}
BY DEF PassGoes, WithAlbum

LEMMA NothingThereHolds ==
  ASSUME MusicInv, pass.at \in WithAlbum, UNCHANGED <<stored, indexed, art, lyricsRow, clock, viewer>>,
         NEW group \in BOOLEAN, Lookups!NothingThere(group)
  PROVE  MusicInv'
<1> PICK retry : retry = pass.now + 2
  OBVIOUS
<1>1. PassGoes /\ MusicTypes
  BY DEF MusicInv
<1>2. pass.now \in Nat /\ pass.now <= MaxClock
  BY <1>1, MusicNumbers DEF PassGoes, MusicTypes
<1>3. retry \in Nat /\ retry # 0 /\ retry <= Ever
  BY <1>2, MusicNumbers DEF Ever
<1>4. Lookups!PutAlbum(retry, group, Lookups!NoBlob, "nothing") /\ pass' = Lookups!RestOfAlbums
  BY DEF Lookups!NothingThere, Lookups!retryNothing
<1>5. Lookups!NoBlob \in Blobs
  BY DEF Blobs
<1> PICK cover, said : cover = Lookups!NoBlob /\ said = "nothing"
  OBVIOUS
<1>6. /\ MusicTypes' /\ RowsStand' /\ WordsStand'
      /\ NamedStand'
      /\ \A k \in DOMAIN Tail(pass.albums) : InTime(heard'[Tail(pass.albums)[k].album], pass.now)
  BY <1>3, <1>4, <1>5, PutAlbumHolds
<1> QED BY <1>1, <1>4, <1>6, TurnedIsEmpty, AlbumDone

LEMMA DeferAlbumHolds ==
  ASSUME MusicInv, pass.at \in WithAlbum, UNCHANGED <<stored, indexed, art, lyricsRow, clock, viewer>>,
         NEW said, NEW service, Lookups!deferAlbum(said, service)
  PROVE  MusicInv'
<1> PICK retry : retry = pass.now + 1
  OBVIOUS
<1>1. PassGoes /\ MusicTypes
  BY DEF MusicInv
<1>2. pass.now \in Nat /\ pass.now <= MaxClock /\ pass.group \in BOOLEAN
  BY <1>1, MusicNumbers DEF PassGoes, MusicTypes
<1>3. retry \in Nat /\ retry # 0 /\ retry <= Ever
  BY <1>2, MusicNumbers DEF Ever
<1> PICK p : p = pass'
  OBVIOUS
<1>4. /\ Lookups!PutAlbum(retry, pass.group, Lookups!NoBlob, "unanswered")
      /\ p = Lookups!RestOfAlbums \/ \E u : p = [Lookups!NextAlbum(<<>>) EXCEPT !.turned = u]
  BY DEF Lookups!deferAlbum, Lookups!retryUnreachable
<1>5. Lookups!NoBlob \in Blobs
  BY DEF Blobs
<1> PICK group : group = pass.group
  OBVIOUS
<1>6. /\ MusicTypes' /\ RowsStand' /\ WordsStand'
      /\ NamedStand'
      /\ \A k \in DOMAIN Tail(pass.albums) : InTime(heard'[Tail(pass.albums)[k].album], pass.now)
  BY <1>2, <1>3, <1>4, <1>5, PutAlbumHolds
<1> QED BY <1>1, <1>4, <1>6, TurnedIsEmpty, AlbumDone
-----------------------------------------------------------------------------
(* The lookups: the steps of a pass.                                       *)

\* The pass goes on with the same albums.
GoesAlong(x) ==
  /\ DOMAIN x = DOMAIN pass /\ x.now = pass.now /\ x.albums = pass.albums /\ x.turned = pass.turned
  /\ x.group \in BOOLEAN /\ x.blob \in Blobs
  /\ \/ x.at \in WithAlbum /\ pass.at \in WithAlbum
     \/ x.at = "words" /\ pass.at \in {"songs", "words"}

LEMMA PassGoesAlong ==
  ASSUME PassGoes, heard' = heard, clock' = clock, NEW x, pass' = x, GoesAlong(x)
  PROVE  PassGoes'
BY DEF PassGoes, GoesAlong, WithAlbum

LEMMA IdleGoes == ASSUME pass' = Lookups!Idle, clock' \in Nat PROVE PassGoes' /\ pass'.at = "idle"
<1> PICK x : x = Lookups!Idle
  OBVIOUS
<1>1. /\ DOMAIN x = {"at", "now", "albums", "songs", "left", "group", "blob", "turned"}
      /\ x.at = "idle" /\ x.now = 0 /\ x.albums = <<>> /\ x.group = FALSE /\ x.blob = Lookups!NoBlob /\ x.turned = {}
  BY DEF Lookups!Idle
<1>2. <<>> \in Seq(Candidates) /\ DOMAIN <<>> = {}
  BY EmptySeq
<1>3. x.blob \in Blobs
  BY <1>1 DEF Blobs
<1>4. pass' = x
  OBVIOUS
<1> PICK c : c = clock'
  OBVIOUS
<1>7. c \in Nat
  OBVIOUS
<1>8. x.now \in Nat /\ x.now <= c
  BY ONLY <1>1, <1>7
<1>5. x.now \in Nat /\ x.now <= clock' /\ x.albums \in Seq(Candidates) /\ x.at \notin WithAlbum /\ x.group \in BOOLEAN
  <2>1. x.at \notin WithAlbum /\ x.group \in BOOLEAN
    BY ONLY <1>1 DEF WithAlbum
  <2>2. x.albums \in Seq(Candidates)
    BY ONLY <1>1, <1>2
  <2> QED BY <1>8, <2>1, <2>2
<1>6. DOMAIN x.albums = {}
  BY <1>1, <1>2
<1> QED BY ONLY <1>1, <1>3, <1>4, <1>5, <1>6 DEF PassGoes

LEMMA PassStops == ASSUME MusicInv, Lookups!Stop PROVE MusicInv'
<1>1. /\ pass' = Lookups!Idle
      /\ UNCHANGED <<stored, indexed, art, albumRow, lyricsRow, clock, viewer, heard>>
  BY DEF Lookups!Stop
<1>2. MusicTypes /\ RowsStand /\ WordsStand /\ CoversStand
  BY DEF MusicInv
<1>3. clock' \in Nat
  BY <1>1, <1>2, MusicNumbers DEF MusicTypes
<1>4. PassGoes' /\ pass'.at = "idle"
  BY <1>1, <1>3, IdleGoes
<1>5. MusicTypes' /\ RowsStand' /\ WordsStand'
  BY <1>1, <1>2 DEF MusicTypes, RowsStand, WordsStand
<1>6. CoversStand'
  BY <1>1, <1>2, <1>4 DEF CoversStand, NamedStand, Kept, Past
<1> QED BY <1>4, <1>5, <1>6 DEF MusicInv

LEMMA PruneHolds == ASSUME MusicInv, Lookups!Prune PROVE MusicInv'
<1>0. /\ albumRow' = [a \in Albums1 |-> IF Lookups!InAlbum(a) = {} THEN Lookups!NoRow ELSE albumRow[a]]
      /\ heard' = [a \in Albums1 |-> IF Lookups!InAlbum(a) = {} THEN Lookups!Silent ELSE heard[a]]
      /\ pass' = [Lookups!Idle EXCEPT !.at = "pruned", !.now = clock]
      /\ UNCHANGED <<stored, indexed, art, lyricsRow, clock, viewer>>
  BY DEF Lookups!Prune, Lookups!PruneAlbumLookups, Albums1
<1>1. MusicTypes /\ PassGoes /\ RowsStand /\ WordsStand /\ CoversStand
  BY DEF MusicInv
<1> PICK n, s : n = Lookups!NoRow /\ s = Lookups!Silent
  OBVIOUS
<1>2. n \in AlbumRows /\ n.there = FALSE /\ n.cover = Lookups!NoBlob
  BY DEF Lookups!NoRow, Lookups!Never, AlbumRows, Blobs
<1>3. s \in Answers /\ s.said = "nobody"
  BY DEF Lookups!Silent, Answers
<1>4. /\ albumRow' \in [Albums1 -> AlbumRows] /\ heard' \in [Albums1 -> Answers]
      /\ \A a \in Albums1 : \/ albumRow'[a] = n /\ heard'[a] = s
                            \/ albumRow'[a] = albumRow[a] /\ heard'[a] = heard[a]
  BY <1>0, <1>1, <1>2, <1>3 DEF MusicTypes
<1>5. MusicTypes'
  BY <1>0, <1>1, <1>4 DEF MusicTypes
<1>6. PassGoes' /\ pass'.at = "pruned"
  <2> PICK x, i : x = pass' /\ i = Lookups!Idle
    OBVIOUS
  <2>1. /\ DOMAIN i = {"at", "now", "albums", "songs", "left", "group", "blob", "turned"}
        /\ i.albums = <<>> /\ i.group = FALSE /\ i.blob = Lookups!NoBlob /\ i.turned = {}
    BY DEF Lookups!Idle
  <2>2. /\ DOMAIN x = DOMAIN i /\ x.at = "pruned" /\ x.now = clock
        /\ x.albums = <<>> /\ x.group = FALSE /\ x.blob = Lookups!NoBlob /\ x.turned = {}
    <3>1. x = [i EXCEPT !.at = "pruned", !.now = clock]
      BY <1>0
    <3> QED BY <2>1, <3>1
  <2>3. clock \in Nat /\ clock <= clock
    BY <1>1, MusicNumbers DEF MusicTypes
  <2>4. <<>> \in Seq(Candidates) /\ DOMAIN <<>> = {}
    BY EmptySeq
  <2>5. x.blob \in Blobs
    BY <2>2 DEF Blobs
  <2> QED BY <1>0, <2>1, <2>2, <2>3, <2>4, <2>5 DEF PassGoes, WithAlbum
<1>7. RowsStand'
  BY <1>1, <1>2, <1>3, <1>4 DEF RowsStand
<1>8. WordsStand'
  BY <1>0, <1>1 DEF WordsStand
<1>9. NamedStand'
  <2>1. ASSUME NEW a \in Albums1, albumRow'[a].cover # Lookups!NoBlob PROVE Kept(albumRow'[a].cover)
    BY <1>1, <1>2, <1>4, <2>1 DEF CoversStand, NamedStand
  <2> QED BY <1>0, <2>1 DEF NamedStand, Kept, Past
<1>10. CoversStand'
  BY <1>6, <1>9 DEF CoversStand
<1> QED BY <1>5, <1>6, <1>7, <1>8, <1>10 DEF MusicInv

\* What is due was heard of long enough ago.
LEMMA DueIsInTime ==
  ASSUME MusicTypes, RowsStand, NEW a \in Albums1, NEW hour \in Nat, Lookups!AlbumDue(a, hour)
  PROVE  InTime(heard[a], hour)
<1> PICK row, h : row = albumRow[a] /\ h = heard[a]
  OBVIOUS
<1>1. h.at \in Nat /\ row.retry \in Nat /\ row \in AlbumRows
  BY DEF MusicTypes, AlbumRows, Answers
<1>2. /\ h.said # "nobody" => row.there /\ row.version = 2
      /\ h.said = "nothing" => row.retry = h.at + 2
      /\ h.said = "unanswered" => row.retry = h.at + 1
      /\ h.said = "found" => row.retry = 0
  BY DEF RowsStand
<1>3. \/ ~row.there
      \/ row.retry # 0 /\ row.retry <= hour
      \/ ~(row.version = 2)
  BY <1>1 DEF Lookups!AlbumDue, Lookups!Never, Lookups!SearchVersion, AlbumRows
<1>4. h.said = "nobody" \/ (row.retry # 0 /\ row.retry <= hour)
  BY <1>2, <1>3
<1> QED BY <1>1, <1>2, <1>4 DEF InTime

LEMMA ReadAlbumsHolds == ASSUME MusicInv, Lookups!ReadAlbums PROVE MusicInv'
<1> PICK d : d = Lookups!PendingAlbumLookups(pass.now)
  OBVIOUS
<1> PICK s : s = [i \in DOMAIN d |-> Lookups!Candidate(d[i])]
  OBVIOUS
<1>0. /\ pass.at = "pruned" /\ pass' = Lookups!NextAlbum(s)
      /\ UNCHANGED <<stored, indexed, art, albumRow, lyricsRow, clock, viewer, heard>>
  BY DEF Lookups!ReadAlbums
<1>1. MusicTypes /\ PassGoes /\ RowsStand /\ WordsStand /\ CoversStand
  BY DEF MusicInv
<1> PICK S : S = {a \in Albums1 : Lookups!AlbumDue(a, pass.now)}
  OBVIOUS
<1>2. S \in SUBSET Nat /\ IsFiniteSet(S) /\ S \in SUBSET Albums1
  BY MusicNumbers, FS_Subset
<1>3. d \in Seq(S) /\ \A k, l \in DOMAIN d : d[k] = d[l] => k = l
  <2>1. d = Lookups!FirstOf(Lookups!Ascending(S), AlbumBatch)
    BY DEF Lookups!PendingAlbumLookups, Albums1
  <2>2. AlbumBatch \in Nat
    BY MusicAssumption
  <2> QED BY <1>2, <2>1, <2>2, FirstAre
<1>4. DOMAIN d = 1..Len(d) /\ Len(d) \in Nat /\ \A k \in DOMAIN d : d[k] \in S
  BY <1>3, LenProperties, ElementOfSeq
<1>5. \A a \in S : Lookups!Candidate(a) \in Candidates /\ Lookups!Candidate(a).album = a
  BY <1>2 DEF Lookups!Candidate, Candidates
<1>6. s \in Seq(Candidates) /\ DOMAIN s = DOMAIN d /\ \A k \in DOMAIN s : s[k].album = d[k]
  <2>1. s \in [1..Len(d) -> Candidates]
    BY <1>4, <1>5
  <2> QED BY <1>4, <1>5, <2>1, SeqDef
<1>7. Distinct(s)
  BY <1>3, <1>6 DEF Distinct
<1>8. pass.now \in Nat /\ pass.turned = {}
  BY <1>0, <1>1 DEF PassGoes
<1>9. \A k \in DOMAIN s : InTime(heard'[s[k].album], pass.now)
  <2> SUFFICES ASSUME NEW k \in DOMAIN s PROVE InTime(heard'[s[k].album], pass.now)
    OBVIOUS
  <2>1. s[k].album \in S /\ heard' = heard
    BY <1>0, <1>4, <1>6
  <2>2. \A a \in S : InTime(heard[a], pass.now)
    BY <1>1, <1>8, DueIsInTime
  <2> QED BY <2>1, <2>2
<1> PICK x : x = pass'
  OBVIOUS
<1>10. PassGoes' /\ pass'.at \in {"songs", "cover", "search"}
  BY <1>0, <1>1, <1>6, <1>7, <1>8, <1>9, NextAlbumGoes
<1>11. MusicTypes' /\ RowsStand' /\ WordsStand'
  BY <1>0, <1>1 DEF MusicTypes, RowsStand, WordsStand
<1>12. CoversStand'
  BY <1>0, <1>1, <1>10 DEF CoversStand, NamedStand, Kept, Past
<1> QED BY <1>10, <1>11, <1>12 DEF MusicInv

\* The rows are as they were, and so is what is asked about.
LEMMA GoesOnWithAlbum ==
  ASSUME MusicInv, UNCHANGED <<stored, indexed, art, albumRow, lyricsRow, clock, viewer, heard>>,
         NEW x, pass' = x, GoesAlong(x),
         x.at \in {"store", "put"} => x.blob # Lookups!NoBlob /\ Past(x.blob),
         x.at # "put"
  PROVE  MusicInv'
<1>1. MusicTypes /\ PassGoes /\ RowsStand /\ WordsStand /\ CoversStand
  BY DEF MusicInv
<1>2. PassGoes'
  BY <1>1, PassGoesAlong
<1>3. MusicTypes' /\ RowsStand' /\ WordsStand'
  BY <1>1 DEF MusicTypes, RowsStand, WordsStand
<1>4. CoversStand'
  BY <1>1 DEF CoversStand, NamedStand, Kept, Past
<1> QED BY <1>1, <1>2, <1>3, <1>4 DEF MusicInv

LEMMA ReleaseGroupHolds == ASSUME MusicInv, NEW said, Lookups!releaseGroup(said) PROVE MusicInv'
<1>0. pass.at = "search" /\ pass.at \in WithAlbum /\ UNCHANGED <<stored, indexed, art, lyricsRow, clock, viewer>>
  BY DEF Lookups!releaseGroup, WithAlbum
<1> PICK p, x : p = pass /\ x = pass'
  OBVIOUS
<1>1. DOMAIN p = {"at", "now", "albums", "songs", "left", "group", "blob", "turned"} /\ p.group \in BOOLEAN /\ p.blob \in Blobs
  BY DEF MusicInv, PassGoes
<1>2. CASE x = [p EXCEPT !.at = "cover", !.group = TRUE, !.left = 0] /\ UNCHANGED <<albumRow, heard>>
  <2>1. GoesAlong(x) /\ x.at = "cover"
    BY <1>0, <1>1, <1>2 DEF GoesAlong, WithAlbum
  <2> QED BY <1>0, <1>2, <2>1, GoesOnWithAlbum
<1>3. CASE x = [p EXCEPT !.left = @ - 1] /\ UNCHANGED <<albumRow, heard>>
  <2>1. GoesAlong(x) /\ x.at = "search"
    BY <1>0, <1>1, <1>3 DEF GoesAlong, WithAlbum
  <2> QED BY <1>0, <1>3, <2>1, GoesOnWithAlbum
<1>4. CASE Lookups!NothingThere(FALSE)
  BY <1>0, <1>4, NothingThereHolds
<1>5. CASE Lookups!deferAlbum(said, "musicbrainz")
  BY <1>0, <1>5, DeferAlbumHolds
<1> QED BY <1>2, <1>3, <1>4, <1>5 DEF Lookups!releaseGroup

LEMMA FrontCoverHolds == ASSUME MusicInv, NEW said, Lookups!frontCover(said) PROVE MusicInv'
<1>0. pass.at = "cover" /\ pass.at \in WithAlbum /\ UNCHANGED <<stored, indexed, art, lyricsRow, clock, viewer>>
  BY DEF Lookups!frontCover, WithAlbum
<1> PICK p, x : p = pass /\ x = pass'
  OBVIOUS
<1>1. DOMAIN p = {"at", "now", "albums", "songs", "left", "group", "blob", "turned"} /\ p.group \in BOOLEAN /\ p.blob \in Blobs
  BY DEF MusicInv, PassGoes
<1>2. CASE x = [p EXCEPT !.at = "tracks"] /\ UNCHANGED <<albumRow, heard>>
  <2>1. GoesAlong(x) /\ x.at = "tracks"
    BY <1>0, <1>1, <1>2 DEF GoesAlong, WithAlbum
  <2> QED BY <1>0, <1>2, <2>1, GoesOnWithAlbum
<1>3. CASE Lookups!NothingThere(p.group)
  BY <1>0, <1>1, <1>3, NothingThereHolds
<1>4. CASE Lookups!deferAlbum(said, "coverartarchive")
  BY <1>0, <1>4, DeferAlbumHolds
<1> QED BY <1>2, <1>3, <1>4 DEF Lookups!frontCover

LEMMA ListTracksHolds == ASSUME MusicInv, Lookups!ListTracks PROVE MusicInv'
<1>0. /\ pass.at = "tracks" /\ pass.at \in WithAlbum
      /\ UNCHANGED <<stored, indexed, art, albumRow, lyricsRow, clock, viewer, heard>>
  BY DEF Lookups!ListTracks, WithAlbum
<1>1. MusicTypes /\ PassGoes /\ RowsStand /\ WordsStand /\ CoversStand
  BY DEF MusicInv
<1> PICK a, p, x : a = Lookups!ThisAlbum /\ p = pass /\ x = pass'
  OBVIOUS
<1>2. CASE x = Lookups!RestOfAlbums
  <2>1. MusicTypes' /\ RowsStand' /\ WordsStand' /\ NamedStand'
    BY <1>0, <1>1 DEF MusicTypes, RowsStand, WordsStand, CoversStand, NamedStand, Kept, Past
  <2>2. \A k \in DOMAIN Tail(pass.albums) : InTime(heard'[Tail(pass.albums)[k].album], pass.now)
    <3>1. \A k \in DOMAIN Tail(pass.albums) : InTime(heard[Tail(pass.albums)[k].album], pass.now)
      BY <1>0, <1>1, AlbumAtHand
    <3> QED BY <1>0, <3>1
  <2> QED BY <1>0, <1>1, <1>2, <2>1, <2>2, TurnedIsEmpty, AlbumDone
<1>3. CASE Lookups!InAlbum(a) # {} /\ x = [p EXCEPT !.at = "store", !.blob = Lookups!Blob(Lookups!Ascending(Lookups!InAlbum(a))[1])]
  <2> PICK S, r : S = Lookups!InAlbum(a) /\ r = Lookups!Ascending(S)
    OBVIOUS
  <2>1. S \in SUBSET Nat /\ IsFiniteSet(S) /\ S # {} /\ \A id \in S : id \in FileIds /\ Lookups!Live(id)
    <3>1. S \in SUBSET FileIds /\ \A id \in S : Lookups!Live(id)
      BY DEF Lookups!InAlbum, Lookups!Audio
    <3> QED BY <1>3, <3>1, MusicNumbers, FS_Subset
  <2>2. r[1] \in S
    <3>1. Ranked(r, S)
      BY LookupsRank
    <3>2. /\ DOMAIN r = 1..Cardinality(S) /\ Cardinality(S) \in Nat
          /\ \A k \in DOMAIN r : r[k] \in S
          /\ \A z \in S : \E k \in DOMAIN r : r[k] = z
      BY ONLY <2>1, <3>1, RankedAre
    <3> PICK n : n = Cardinality(S)
      OBVIOUS
    <3>3. 1 \in 1..n
      BY <2>1, <3>2
    <3> QED BY <3>2, <3>3
  <2> PICK b : b = Lookups!Blob(r[1])
    OBVIOUS
  <2>3. b \in Blobs /\ b # Lookups!NoBlob /\ Past(b)
    BY <1>1, <2>1, <2>2, BlobIs
  <2>4. DOMAIN p = {"at", "now", "albums", "songs", "left", "group", "blob", "turned"} /\ p.group \in BOOLEAN
    BY <1>1 DEF PassGoes
  <2>5. x = [p EXCEPT !.at = "store", !.blob = b]
    BY <1>3
  <2>6. GoesAlong(x) /\ x.at = "store" /\ x.blob = b
    BY <1>0, <2>3, <2>4, <2>5 DEF GoesAlong, WithAlbum
  <2> QED BY <1>0, <2>3, <2>6, GoesOnWithAlbum
<1> QED BY <1>2, <1>3 DEF Lookups!ListTracks

LEMMA StoreArtHolds == ASSUME MusicInv, NEW taken \in BOOLEAN, Lookups!StoreArt(taken) PROVE MusicInv'
<1>0. pass.at = "store" /\ pass.at \in WithAlbum /\ UNCHANGED <<stored, indexed, lyricsRow, clock, viewer>>
  BY DEF Lookups!StoreArt, WithAlbum
<1>1. MusicTypes /\ PassGoes /\ RowsStand /\ WordsStand /\ CoversStand
  BY DEF MusicInv
<1> PICK p, x : p = pass /\ x = pass'
  OBVIOUS
<1>2. DOMAIN p = {"at", "now", "albums", "songs", "left", "group", "blob", "turned"} /\ p.group \in BOOLEAN /\ p.blob \in Blobs
  BY <1>1 DEF PassGoes
<1>3. CASE art' = art \cup {p.blob} /\ x = [p EXCEPT !.at = "put"] /\ UNCHANGED <<albumRow, heard>>
  <2>1. GoesAlong(x) /\ x.at = "put" /\ x.blob = p.blob
    BY <1>0, <1>2, <1>3 DEF GoesAlong, WithAlbum
  <2>2. PassGoes'
    BY <1>0, <1>1, <1>3, <2>1, PassGoesAlong
  <2>3. MusicTypes' /\ RowsStand' /\ WordsStand'
    BY <1>0, <1>1, <1>3 DEF MusicTypes, RowsStand, WordsStand
  <2>4. p.blob # Lookups!NoBlob /\ Past(p.blob)
    BY <1>0, <1>1 DEF CoversStand
  <2>5. CoversStand'
    BY <1>0, <1>1, <1>3, <2>1, <2>4 DEF CoversStand, NamedStand, Kept, Past
  <2> QED BY <2>2, <2>3, <2>5 DEF MusicInv
<1>4. CASE Lookups!NothingThere(p.group) /\ UNCHANGED art
  BY <1>0, <1>2, <1>4, NothingThereHolds
<1> QED BY <1>3, <1>4 DEF Lookups!StoreArt

LEMMA PutCoverHolds == ASSUME MusicInv, Lookups!PutCover PROVE MusicInv'
<1>0. /\ pass.at = "put" /\ pass.at \in WithAlbum /\ UNCHANGED <<stored, indexed, art, lyricsRow, clock, viewer>>
      /\ Lookups!PutAlbum(0, pass.group, pass.blob, "found") /\ pass' = Lookups!RestOfAlbums
  BY DEF Lookups!PutCover, WithAlbum, Lookups!Never
<1>1. PassGoes /\ CoversStand
  BY DEF MusicInv
<1> PICK group, cover, said : group = pass.group /\ cover = pass.blob /\ said = "found"
  OBVIOUS
<1>2. group \in BOOLEAN /\ cover \in Blobs /\ cover # Lookups!NoBlob /\ Kept(cover)
  BY <1>0, <1>1 DEF PassGoes, CoversStand
<1>3. /\ MusicTypes' /\ RowsStand' /\ WordsStand' /\ NamedStand'
      /\ \A k \in DOMAIN Tail(pass.albums) : InTime(heard'[Tail(pass.albums)[k].album], pass.now)
  BY <1>0, <1>2, PutAlbumHolds
<1> QED BY <1>0, <1>1, <1>3, TurnedIsEmpty, AlbumDone

\* The half of the songs goes on, or the pass is over.
LEMMA SongsGoOn ==
  ASSUME MusicInv, UNCHANGED <<stored, indexed, art, albumRow, clock, viewer, heard>>, pass.at \in {"songs", "words"},
         DOMAIN lyricsRow' = FileIds, WordsStand',
         NEW x, pass' = x, x = Lookups!Idle \/ GoesAlong(x)
  PROVE  MusicInv'
<1>1. MusicTypes /\ PassGoes /\ RowsStand /\ CoversStand
  BY DEF MusicInv
<1>2. PassGoes' /\ pass'.at \in {"idle", "words"}
  <2>1. CASE x = Lookups!Idle
    <3>1. clock' \in Nat
      BY <1>1, MusicNumbers DEF MusicTypes
    <3> QED BY <2>1, <3>1, IdleGoes
  <2>2. CASE GoesAlong(x)
    <3>1. PassGoes'
      BY <1>1, <2>2, PassGoesAlong
    <3> QED BY <2>2, <3>1 DEF GoesAlong, WithAlbum
  <2> QED BY <2>1, <2>2
<1>3. MusicTypes' /\ RowsStand'
  BY <1>1 DEF MusicTypes, RowsStand
<1>4. CoversStand'
  BY <1>1, <1>2 DEF CoversStand, NamedStand, Kept, Past
<1> QED BY <1>2, <1>3, <1>4 DEF MusicInv

LEMMA NextSongGoes ==
  ASSUME PassGoes, pass.at \in {"songs", "words"}, NEW s, NEW x, x = Lookups!NextSong(s)
  PROVE  x = Lookups!Idle \/ GoesAlong(x)
<1> PICK p : p = pass
  OBVIOUS
<1>1. /\ DOMAIN p = {"at", "now", "albums", "songs", "left", "group", "blob", "turned"}
      /\ p.group \in BOOLEAN /\ p.blob \in Blobs
  BY DEF PassGoes
<1>2. ASSUME x # Lookups!Idle PROVE x = [p EXCEPT !.at = "words", !.songs = s, !.left = Recordings[s[1].tags].names]
  BY <1>2 DEF Lookups!NextSong
<1> QED BY <1>1, <1>2 DEF GoesAlong

LEMMA ReadSongsHolds == ASSUME MusicInv, Lookups!ReadSongs PROVE MusicInv'
<1>0. /\ pass.at = "songs" /\ pass' = Lookups!NextSong(Lookups!PendingLyrics(pass.now))
      /\ UNCHANGED <<stored, indexed, art, albumRow, lyricsRow, clock, viewer, heard>>
  BY DEF Lookups!ReadSongs
<1>1. MusicTypes /\ PassGoes /\ WordsStand
  BY DEF MusicInv
<1> PICK x, s : x = pass' /\ s = Lookups!PendingLyrics(pass.now)
  OBVIOUS
<1>2. x = Lookups!Idle \/ GoesAlong(x)
  BY <1>0, <1>1, NextSongGoes
<1>3. DOMAIN lyricsRow' = FileIds /\ WordsStand'
  BY <1>0, <1>1 DEF MusicTypes, WordsStand
<1> QED BY <1>0, <1>2, <1>3, SongsGoOn

LEMMA PutLyricsHolds ==
  ASSUME MusicInv, NEW id, NEW row, lyricsRow' = Lookups!PutLyrics(id, row),
         ~row.found => row.retry # 0 /\ row.retry <= Ever
  PROVE  DOMAIN lyricsRow' = FileIds /\ WordsStand'
<1>1. DOMAIN lyricsRow = FileIds /\ WordsStand
  BY DEF MusicInv, MusicTypes
<1>2. /\ DOMAIN lyricsRow' = FileIds
      /\ \A k \in FileIds : lyricsRow'[k] = lyricsRow[k] \/ lyricsRow'[k] = row
  BY <1>1 DEF Lookups!PutLyrics
<1> QED BY <1>1, <1>2 DEF WordsStand

LEMMA LookupLyricsHolds ==
  ASSUME MusicInv, NEW said, NEW late \in 0..Lookups!lyricsJitter, Lookups!lookupLyrics(said, late)
  PROVE  MusicInv'
<1>0. pass.at = "words" /\ UNCHANGED <<stored, indexed, art, albumRow, clock, viewer, heard>>
  BY DEF Lookups!lookupLyrics
<1>1. MusicTypes /\ PassGoes /\ WordsStand
  BY DEF MusicInv
<1> PICK p, x, song : p = pass /\ x = pass' /\ song = pass.songs[1]
  OBVIOUS
<1>2. /\ DOMAIN p = {"at", "now", "albums", "songs", "left", "group", "blob", "turned"}
      /\ p.group \in BOOLEAN /\ p.blob \in Blobs /\ p.now \in Nat /\ p.now <= MaxClock /\ p.at = "words"
  BY <1>0, <1>1, MusicNumbers DEF PassGoes, MusicTypes
<1>3. late \in Nat /\ late <= 1
  BY DEF Lookups!lyricsJitter
<1> DEFINE Row(retry, found) == [there |-> TRUE, etag |-> song.etag, by |-> song.tags, retry |-> retry, found |-> found]
<1>4. /\ p.now + 2 # 0 /\ p.now + 2 <= Ever
      /\ p.now + 1 + late # 0 /\ p.now + 1 + late <= Ever
  BY <1>2, <1>3, MusicNumbers DEF Ever
<1>5. \/ x = [p EXCEPT !.left = @ - 1] /\ UNCHANGED lyricsRow
      \/ \E retry, found, s : /\ lyricsRow' = Lookups!PutLyrics(song.id, Row(retry, found))
                              /\ found \/ (found = FALSE /\ retry # 0 /\ retry <= Ever)
                              /\ x = Lookups!NextSong(s)
  BY <1>4 DEF Lookups!lookupLyrics, Lookups!Never, Lookups!retryNothing, Lookups!retryUnreachable
<1>6. CASE x = [p EXCEPT !.left = @ - 1] /\ UNCHANGED lyricsRow
  <2>1. GoesAlong(x)
    BY <1>2, <1>6 DEF GoesAlong, WithAlbum
  <2>2. DOMAIN lyricsRow' = FileIds /\ WordsStand'
    BY <1>1, <1>6 DEF MusicTypes, WordsStand
  <2> QED BY <1>0, <2>1, <2>2, SongsGoOn
<1>7. ASSUME NEW retry, NEW found, NEW s, lyricsRow' = Lookups!PutLyrics(song.id, Row(retry, found)),
             found \/ (found = FALSE /\ retry # 0 /\ retry <= Ever), x = Lookups!NextSong(s)
      PROVE  MusicInv'
  <2> PICK row : row = Row(retry, found)
    OBVIOUS
  <2>1. ~row.found => row.retry # 0 /\ row.retry <= Ever
    BY <1>7
  <2> HIDE DEF Row
  <2>2. DOMAIN lyricsRow' = FileIds /\ WordsStand'
    BY <1>7, <2>1, PutLyricsHolds
  <2>3. x = Lookups!Idle \/ GoesAlong(x)
    BY <1>0, <1>1, <1>7, NextSongGoes
  <2> QED BY <1>0, <2>2, <2>3, SongsGoOn
<1> HIDE DEF Row
<1> QED BY <1>5, <1>6, <1>7
-----------------------------------------------------------------------------
(* The lookups: the library and its readers.                               *)

\* A step beside the pass: it is where it was, and nobody was heard since.
LEMMA PassIsThere ==
  ASSUME MusicTypes, PassGoes, UNCHANGED pass, clock' \in Nat, clock <= clock',
         \A a \in Albums1 : heard'[a] = heard[a] \/ heard'[a] = Lookups!Silent
  PROVE  PassGoes'
<1> PICK s : s = pass.albums
  OBVIOUS
<1>1. s \in Seq(Candidates) /\ pass.now \in Nat /\ pass.now <= clock
  BY DEF PassGoes
<1>2. \A k \in DOMAIN s : s[k].album \in Albums1
  <2>1. \A k \in DOMAIN s : s[k] \in Candidates
    BY <1>1, LenProperties, ElementOfSeq
  <2> QED BY <2>1 DEF Candidates
<1>3. \A k \in DOMAIN s : InTime(heard[s[k].album], pass.now)
  BY DEF PassGoes
<1>4. \A k \in DOMAIN s : InTime(heard'[s[k].album], pass.now)
  <2>1. InTime(Lookups!Silent, pass.now)
    BY DEF InTime, Lookups!Silent
  <2> QED BY <1>2, <1>3, <2>1
<1>5. clock \in Nat
  BY MusicNumbers DEF MusicTypes
<1>6. pass.now <= clock'
  BY <1>1, <1>5
<1> QED BY <1>4, <1>6 DEF PassGoes

LEMMA ForgetCoverHolds == ASSUME MusicInv, Lookups!ForgetCover PROVE MusicInv'
<1> PICK a, s, c : a = viewer /\ s = Lookups!Silent /\ c = clock
  OBVIOUS
<1>1. MusicTypes /\ PassGoes /\ RowsStand /\ WordsStand /\ CoversStand
  BY DEF MusicInv
<1> PICK row : row = albumRow[a]
  OBVIOUS
<1> PICK new : new = IF row.there THEN [row EXCEPT !.cover = Lookups!NoBlob, !.retry = c] ELSE row
  OBVIOUS
<1>2. /\ a \in Albums1 /\ albumRow' = [albumRow EXCEPT ![a] = new] /\ viewer' = 0
      /\ heard' = [heard EXCEPT ![a] = s] /\ UNCHANGED <<stored, indexed, art, lyricsRow, clock, pass>>
  BY <1>1 DEF Lookups!ForgetCover, Lookups!None, MusicTypes
<1>3. c \in Nat /\ c # 0 /\ c <= Ever
  BY <1>1, MusicNumbers DEF MusicTypes, Ever
<1>4. row \in AlbumRows
  BY <1>1, <1>2 DEF MusicTypes
<1>5. new \in AlbumRows /\ (new.there => new.cover = Lookups!NoBlob /\ new.retry = c) /\ (~new.there => new = row)
  BY <1>3, <1>4 DEF AlbumRows, Blobs
<1>6. s \in Answers /\ s.said = "nobody"
  BY DEF Lookups!Silent, Answers
<1>7. /\ albumRow' \in [Albums1 -> AlbumRows] /\ albumRow'[a] = new /\ \A b \in Albums1 : b # a => albumRow'[b] = albumRow[b]
      /\ heard' \in [Albums1 -> Answers] /\ heard'[a] = s /\ \A b \in Albums1 : b # a => heard'[b] = heard[b]
  BY <1>1, <1>2, <1>5, <1>6 DEF MusicTypes
<1>8. MusicTypes'
  BY <1>1, <1>2, <1>7 DEF MusicTypes
<1>9. clock' \in Nat /\ clock <= clock'
  BY <1>2, <1>3
<1>10. PassGoes'
  BY <1>1, <1>2, <1>7, <1>9, PassIsThere
<1>11. RowsStand'
  <2>1. /\ albumRow'[a].there /\ albumRow'[a].cover = Lookups!NoBlob => albumRow'[a].retry # 0 /\ albumRow'[a].retry <= Ever
        /\ heard'[a].said = "nobody"
    <3>1. new.there /\ new.cover = Lookups!NoBlob => new.retry # 0 /\ new.retry <= Ever
      BY <1>3, <1>5
    <3> QED BY <1>6, <1>7, <3>1
  <2>2. \A b \in Albums1 : b # a => albumRow'[b] = albumRow[b] /\ heard'[b] = heard[b]
    BY <1>7
  <2> QED BY <1>1, <2>1, <2>2 DEF RowsStand
<1>12. WordsStand'
  BY <1>1, <1>2 DEF WordsStand
<1>13. CoversStand'
  <2>1. ASSUME NEW b \in Albums1, albumRow'[b].cover # Lookups!NoBlob PROVE Kept(albumRow'[b].cover)
    <3>1. albumRow'[b] = albumRow[b]
      BY <1>2, <1>5, <1>7, <2>1
    <3> QED BY <1>1, <2>1, <3>1 DEF CoversStand, NamedStand
  <2> QED BY <1>1, <1>2, <2>1 DEF CoversStand, NamedStand, Kept, Past
<1> QED BY <1>8, <1>10, <1>11, <1>12, <1>13 DEF MusicInv

LEMMA FetchedArtHolds == ASSUME MusicInv, NEW id \in Lookups!coverSource, Lookups!fetchedArt(id) PROVE MusicInv'
<1>0. UNCHANGED <<stored, indexed, art, albumRow, lyricsRow, clock, pass, heard>>
  BY DEF Lookups!fetchedArt
<1>1. MusicTypes /\ PassGoes /\ RowsStand /\ WordsStand /\ CoversStand
  BY DEF MusicInv
<1>2. viewer' \in Albums1
  <2>1. id \in FileIds /\ indexed[id] # 0
    BY DEF Lookups!coverSource, Lookups!Audio, Lookups!None
  <2>2. indexed[id] \in DOMAIN Recordings
    BY <1>1, <2>1 DEF MusicTypes, Bytes
  <2>3. viewer' = Recordings[indexed[id]].album /\ viewer' # 0
    BY DEF Lookups!fetchedArt, Lookups!Tags, Lookups!None
  <2> QED BY <2>2, <2>3 DEF Albums1, Lookups!Albums, Lookups!None
<1>3. MusicTypes'
  BY <1>0, <1>1, <1>2 DEF MusicTypes
<1>4. PassGoes' /\ RowsStand' /\ WordsStand'
  BY <1>0, <1>1 DEF PassGoes, RowsStand, WordsStand
<1>5. CoversStand'
  BY <1>0, <1>1 DEF CoversStand, NamedStand, Kept, Past
<1> QED BY <1>3, <1>4, <1>5 DEF MusicInv

\* A step of the library: bytes come and go, and nothing comes back.
LEMMA LibraryStep ==
  ASSUME MusicInv, UNCHANGED <<albumRow, clock, pass, viewer, heard>>,
         stored' \in [FileIds -> {0, -1} \cup Bytes], indexed' \in [FileIds -> {0} \cup Bytes],
         DOMAIN lyricsRow' = FileIds, WordsStand',
         \A b \in Blobs : b # Lookups!NoBlob /\ Past(b) => Past(b)' /\ (stored'[b[1]] = b[2] => stored[b[1]] = b[2]),
         \A b \in art : b \in art' \/ stored'[b[1]] # b[2]
  PROVE  MusicInv'
<1>1. MusicTypes /\ PassGoes /\ RowsStand /\ CoversStand
  BY DEF MusicInv
<1>2. MusicTypes' /\ RowsStand'
  BY <1>1 DEF MusicTypes, RowsStand
<1>3. PassGoes'
  BY <1>1 DEF PassGoes
<1>4. \A b \in Blobs : b # Lookups!NoBlob /\ Kept(b) => Kept(b)'
  BY DEF Kept
<1>5. \A a \in Albums1 : albumRow[a].cover \in Blobs
  BY <1>1 DEF MusicTypes, AlbumRows
<1>6. pass.blob \in Blobs
  BY <1>1 DEF PassGoes
<1>7. NamedStand'
  <2>1. ASSUME NEW a \in Albums1, albumRow[a].cover # Lookups!NoBlob PROVE Kept(albumRow[a].cover)'
    <3> PICK b : b = albumRow[a].cover
      OBVIOUS
    <3>1. b \in Blobs /\ b # Lookups!NoBlob /\ Kept(b)
      BY <1>1, <1>5, <2>1 DEF CoversStand, NamedStand
    <3>2. Kept(b)'
      BY <1>4, <3>1
    <3>3. albumRow'[a].cover = b
      OBVIOUS
    <3> QED BY <3>2, <3>3 DEF Kept, Past
  <2>2. albumRow' = albumRow
    OBVIOUS
  <2> QED BY <2>1, <2>2 DEF NamedStand, Kept, Past
<1>8. CoversStand'
  <2> PICK p, b : p = pass /\ b = p.blob
    OBVIOUS
  <2>1. /\ p.at \in {"store", "put"} => b # Lookups!NoBlob /\ Past(b)
        /\ p.at = "put" => Kept(b)
        /\ b \in Blobs
    BY <1>1, <1>6 DEF CoversStand
  <2>2. /\ p.at \in {"store", "put"} => Past(b)'
        /\ p.at = "put" => Kept(b)'
    BY <1>4, <2>1
  <2>3. pass' = p
    OBVIOUS
  <2> QED BY <1>7, <2>1, <2>2, <2>3 DEF CoversStand, Kept, Past
<1> QED BY <1>2, <1>3, <1>8 DEF MusicInv

LEMMA BytesHold == ASSUME MusicInv, NEW id \in FileIds, NEW r \in MayHold[id], Lookups!Write(id, r) PROVE MusicInv'
<1>0. /\ stored[id] # -1 /\ stored[id] < r /\ stored' = [stored EXCEPT ![id] = r]
      /\ UNCHANGED <<indexed, art, albumRow, lyricsRow, clock, pass, viewer, heard>>
  BY DEF Lookups!Write, Lookups!Gone
<1>1. MusicTypes /\ WordsStand
  BY DEF MusicInv
<1>2. r \in Bytes /\ r \in Nat
  BY MusicNumbers, MusicAssumption DEF Bytes
<1>3. /\ stored' \in [FileIds -> {0, -1} \cup Bytes] /\ indexed' \in [FileIds -> {0} \cup Bytes]
      /\ DOMAIN lyricsRow' = FileIds /\ stored'[id] = r /\ \A i \in FileIds : i # id => stored'[i] = stored[i]
  BY <1>0, <1>1, <1>2 DEF MusicTypes
<1>4. WordsStand'
  BY <1>0, <1>1 DEF WordsStand
<1>5. ASSUME NEW b \in Blobs, b # Lookups!NoBlob, Past(b)
      PROVE  Past(b)' /\ (stored'[b[1]] = b[2] => stored[b[1]] = b[2])
  <2> PICK i, n : i = b[1] /\ n = b[2]
    OBVIOUS
  <2>1. i \in FileIds /\ n \in Nat /\ (stored[i] = -1 \/ n <= stored[i])
    BY <1>5, BlobsAre DEF Past
  <2>2. stored[i] \in Nat \cup {-1}
    <3>1. stored[i] \in {0, -1} \cup Bytes
      BY <1>1, <2>1 DEF MusicTypes
    <3> PICK v : v = stored[i]
      OBVIOUS
    <3>2. v = 0 \/ v = -1 \/ v \in Bytes
      BY <3>1
    <3>3. \A w \in Bytes : w \in Nat
      BY MusicNumbers
    <3>4. v \in Nat \cup {-1}
      BY ONLY <3>2, <3>3
    <3> QED BY <3>4
  <2>3. (stored'[i] = -1 \/ n <= stored'[i]) /\ (stored'[i] = n => stored[i] = n)
    <3>1. CASE i = id
      BY <1>0, <1>2, <1>3, <2>1, <2>2, <3>1
    <3>2. CASE i # id
      BY <1>3, <2>1, <3>2
    <3> QED BY <3>1, <3>2
  <2> QED BY <2>3 DEF Past
<1>6. \A b \in art : b \in art'
  BY <1>0
<1> QED BY <1>0, <1>3, <1>4, <1>5, <1>6, LibraryStep

LEMMA DeletionHolds == ASSUME MusicInv, NEW id \in FileIds, Lookups!Delete(id) PROVE MusicInv'
<1>0. /\ stored' = [stored EXCEPT ![id] = -1] /\ indexed' = [indexed EXCEPT ![id] = 0]
      /\ lyricsRow' = [lyricsRow EXCEPT ![id] = Lookups!NoWords]
      /\ UNCHANGED <<art, albumRow, clock, pass, viewer, heard>>
  BY DEF Lookups!Delete, Lookups!Gone, Lookups!None
<1>1. MusicTypes /\ WordsStand
  BY DEF MusicInv
<1>2. /\ stored' \in [FileIds -> {0, -1} \cup Bytes] /\ indexed' \in [FileIds -> {0} \cup Bytes]
      /\ DOMAIN lyricsRow' = FileIds /\ stored'[id] = -1 /\ \A i \in FileIds : i # id => stored'[i] = stored[i]
  BY <1>0, <1>1 DEF MusicTypes
<1>3. WordsStand'
  <2> PICK w : w = Lookups!NoWords
    OBVIOUS
  <2>1. w.there = FALSE
    BY DEF Lookups!NoWords
  <2>2. \A i \in FileIds : lyricsRow'[i] = lyricsRow[i] \/ lyricsRow'[i] = w
    BY <1>0, <1>1 DEF MusicTypes
  <2> QED BY <1>1, <2>1, <2>2 DEF WordsStand
<1>4. ASSUME NEW b \in Blobs, b # Lookups!NoBlob, Past(b)
      PROVE  Past(b)' /\ (stored'[b[1]] = b[2] => stored[b[1]] = b[2])
  <2> PICK i, n : i = b[1] /\ n = b[2]
    OBVIOUS
  <2>1. i \in FileIds /\ n \in Nat /\ (stored[i] = -1 \/ n <= stored[i])
    BY <1>4, BlobsAre DEF Past
  <2>2. (stored'[i] = -1 \/ n <= stored'[i]) /\ (stored'[i] = n => stored[i] = n)
    <3>1. CASE i = id
      BY <1>2, <2>1, <3>1
    <3>2. CASE i # id
      BY <1>2, <2>1, <3>2
    <3> QED BY <3>1, <3>2
  <2> QED BY <2>2 DEF Past
<1>5. \A b \in art : b \in art'
  BY <1>0
<1> QED BY <1>0, <1>2, <1>3, <1>4, <1>5, LibraryStep

\* What is read or swept leaves the bytes that are there.
LEMMA ReadingHolds == ASSUME MusicInv, NEW id \in FileIds, Lookups!Index(id) PROVE MusicInv'
<1>0. /\ indexed' = [indexed EXCEPT ![id] = stored[id]] /\ stored[id] \notin {0, -1}
      /\ UNCHANGED <<stored, art, albumRow, lyricsRow, clock, pass, viewer, heard>>
  BY DEF Lookups!Index, Lookups!Live, Lookups!None, Lookups!Gone
<1>1. MusicTypes /\ WordsStand
  BY DEF MusicInv
<1>2. /\ stored' \in [FileIds -> {0, -1} \cup Bytes] /\ indexed' \in [FileIds -> {0} \cup Bytes]
      /\ DOMAIN lyricsRow' = FileIds
  BY <1>0, <1>1 DEF MusicTypes
<1>3. WordsStand'
  BY <1>0, <1>1 DEF WordsStand
<1>4. \A b \in Blobs : b # Lookups!NoBlob /\ Past(b) => Past(b)' /\ (stored'[b[1]] = b[2] => stored[b[1]] = b[2])
  BY <1>0 DEF Past
<1>5. \A b \in art : b \in art'
  BY <1>0
<1> QED BY <1>0, <1>2, <1>3, <1>4, <1>5, LibraryStep

LEMMA LostArtHolds == ASSUME MusicInv, Lookups!Sweep PROVE MusicInv'
<1>0. /\ \A b \in art : b \in art' \/ stored[b[1]] # b[2]
      /\ UNCHANGED <<stored, indexed, albumRow, lyricsRow, clock, pass, viewer, heard>>
  BY DEF Lookups!Sweep
<1>1. MusicTypes /\ WordsStand
  BY DEF MusicInv
<1>2. /\ stored' \in [FileIds -> {0, -1} \cup Bytes] /\ indexed' \in [FileIds -> {0} \cup Bytes]
      /\ DOMAIN lyricsRow' = FileIds
  BY <1>0, <1>1 DEF MusicTypes
<1>3. WordsStand'
  BY <1>0, <1>1 DEF WordsStand
<1>4. \A b \in Blobs : b # Lookups!NoBlob /\ Past(b) => Past(b)' /\ (stored'[b[1]] = b[2] => stored[b[1]] = b[2])
  BY <1>0 DEF Past
<1>5. \A b \in art : b \in art' \/ stored'[b[1]] # b[2]
  BY <1>0
<1> QED BY <1>0, <1>2, <1>3, <1>4, <1>5, LibraryStep

LEMMA HourHolds == ASSUME MusicInv, Lookups!Tick PROVE MusicInv'
<1>0. clock < MaxClock /\ clock' = clock + 1 /\ UNCHANGED <<stored, indexed, art, albumRow, lyricsRow, pass, viewer, heard>>
  BY DEF Lookups!Tick
<1>1. MusicTypes /\ PassGoes /\ RowsStand /\ WordsStand /\ CoversStand
  BY DEF MusicInv
<1>2. clock' \in 1..MaxClock /\ clock' \in Nat /\ clock <= clock'
  BY <1>0, <1>1, MusicNumbers DEF MusicTypes
<1>3. MusicTypes'
  BY <1>0, <1>1, <1>2 DEF MusicTypes
<1>4. PassGoes'
  BY <1>0, <1>1, <1>2, PassIsThere
<1>5. RowsStand' /\ WordsStand'
  BY <1>0, <1>1 DEF RowsStand, WordsStand
<1>6. CoversStand'
  BY <1>0, <1>1 DEF CoversStand, NamedStand, Kept, Past
<1> QED BY <1>3, <1>4, <1>5, <1>6 DEF MusicInv

LEMMA MusicBegins == ASSUME Lookups!Init PROVE MusicInv
<1> PICK n, o, s, w : n = Lookups!NoRow /\ o = Lookups!OldRow /\ s = Lookups!Silent /\ w = Lookups!NoWords
  OBVIOUS
<1>0. /\ stored \in {[id \in FileIds |-> 0], [id \in FileIds |-> IF id = 1 THEN 1 ELSE 0]} /\ indexed = stored
      /\ albumRow = [a \in Albums1 |-> IF Lookups!InAlbum(a) = {} THEN n ELSE o]
      /\ lyricsRow = [id \in FileIds |-> w] /\ clock = 1 /\ viewer = 0
      /\ heard = [a \in Albums1 |-> s]
  BY DEF Lookups!Init, Lookups!None, Albums1
<1>1. n \in AlbumRows /\ n.there = FALSE /\ n.cover = Lookups!NoBlob
  BY DEF Lookups!NoRow, Lookups!Never, AlbumRows, Blobs
<1>2. o \in AlbumRows /\ o.retry = 3 /\ o.cover = Lookups!NoBlob
  <2>1. o = [n EXCEPT !.there = TRUE, !.retry = 3, !.version = 1]
    BY DEF Lookups!OldRow, Lookups!retryNothing, Lookups!SearchVersion
  <2>2. \A m \in AlbumRows : LET e == [m EXCEPT !.there = TRUE, !.retry = 3, !.version = 1]
                             IN e \in AlbumRows /\ e.retry = 3 /\ e.cover = m.cover
    BY DEF AlbumRows
  <2> QED BY ONLY <1>1, <2>1, <2>2
<1>3. s \in Answers /\ s.said = "nobody" /\ w.there = FALSE
  BY DEF Lookups!Silent, Answers, Lookups!NoWords
<1>4. 3 # 0 /\ 3 <= Ever
  BY MusicNumbers DEF Ever
<1>5. MusicTypes
  BY <1>0, <1>1, <1>2, <1>3, MusicNumbers DEF MusicTypes
<1>6. RowsStand
  <2>1. \A a \in Albums1 : (albumRow[a] = n \/ albumRow[a] = o) /\ heard[a] = s
    BY <1>0
  <2> QED BY <1>1, <1>2, <1>3, <1>4, <2>1 DEF RowsStand
<1>7. WordsStand
  BY <1>0, <1>3 DEF WordsStand
<1>8. PassGoes /\ pass.at = "idle"
  <2> PICK x, c : x = Lookups!Idle /\ c = clock
    OBVIOUS
  <2>1. /\ DOMAIN x = {"at", "now", "albums", "songs", "left", "group", "blob", "turned"}
        /\ x.at = "idle" /\ x.now = 0 /\ x.albums = <<>> /\ x.group = FALSE /\ x.blob = Lookups!NoBlob /\ x.turned = {}
    BY DEF Lookups!Idle
  <2>2. <<>> \in Seq(Candidates) /\ DOMAIN <<>> = {}
    BY EmptySeq
  <2>3. x.blob \in Blobs
    BY <2>1 DEF Blobs
  <2>4. pass = x
    BY DEF Lookups!Init
  <2>5. c \in Nat
    BY <1>0
  <2>6. x.now \in Nat /\ x.now <= c
    BY ONLY <2>1, <2>5
  <2>7. x.at \notin WithAlbum /\ x.group \in BOOLEAN
    BY ONLY <2>1 DEF WithAlbum
  <2>8. x.albums \in Seq(Candidates) /\ DOMAIN x.albums = {}
    BY ONLY <2>1, <2>2
  <2>9. x.now <= clock
    BY <2>6
  <2> QED BY ONLY <2>1, <2>3, <2>4, <2>6, <2>7, <2>8, <2>9 DEF PassGoes
<1>9. CoversStand
  <2>1. \A a \in Albums1 : albumRow[a].cover = Lookups!NoBlob
    BY <1>0, <1>1, <1>2
  <2> QED BY <1>8, <2>1 DEF CoversStand, NamedStand
<1> QED BY <1>5, <1>6, <1>7, <1>8, <1>9 DEF MusicInv

LEMMA MusicGoesOn == ASSUME MusicInv, [Lookups!Next]_lvars PROVE MusicInv'
<1>1. CASE UNCHANGED lvars
  <2>1. UNCHANGED <<stored, indexed, art, albumRow, lyricsRow, clock, pass, viewer, heard>>
    BY <1>1 DEF lvars
  <2> QED BY <2>1 DEF MusicInv, MusicTypes, PassGoes, RowsStand, WordsStand, CoversStand, NamedStand, Kept, Past
<1>2. CASE Lookups!Next
  <2>1. CASE Lookups!Prune
    BY <2>1, PruneHolds
  <2>2. CASE Lookups!ReadAlbums
    BY <2>2, ReadAlbumsHolds
  <2>3. CASE Lookups!ListTracks
    BY <2>3, ListTracksHolds
  <2>4. CASE Lookups!PutCover
    BY <2>4, PutCoverHolds
  <2>5. CASE Lookups!ReadSongs
    BY <2>5, ReadSongsHolds
  <2>6. CASE Lookups!Stop
    BY <2>6, PassStops
  <2>7. CASE Lookups!ForgetCover
    BY <2>7, ForgetCoverHolds
  <2>8. CASE Lookups!Sweep
    BY <2>8, LostArtHolds
  <2>9. CASE Lookups!Tick
    BY <2>9, HourHolds
  <2>10. CASE \E said \in {Lookups!searchReleaseGroup(sent) : sent \in Lookups!Sent} : Lookups!releaseGroup(said)
    BY <2>10, ReleaseGroupHolds
  <2>11. CASE \E said \in {Lookups!get(sent) : sent \in Lookups!Sent} : Lookups!frontCover(said)
    BY <2>11, FrontCoverHolds
  <2>12. CASE \E taken \in BOOLEAN : Lookups!StoreArt(taken)
    BY <2>12, StoreArtHolds
  <2>13. CASE \E said \in {Lookups!lyricsBy(sent) : sent \in Lookups!Sent}, late \in 0..Lookups!lyricsJitter : Lookups!lookupLyrics(said, late)
    BY <2>13, LookupLyricsHolds
  <2>14. CASE \E id \in Lookups!coverSource : Lookups!fetchedArt(id)
    BY <2>14, FetchedArtHolds
  <2>15. CASE \E id \in FileIds : Lookups!Index(id) \/ Lookups!Delete(id)
    BY <2>15, ReadingHolds, DeletionHolds
  <2>16. CASE \E id \in FileIds : \E r \in MayHold[id] : Lookups!Write(id, r)
    BY <2>16, BytesHold
  <2> QED BY <1>2, <2>1, <2>2, <2>3, <2>4, <2>5, <2>6, <2>7, <2>8, <2>9, <2>10, <2>11, <2>12, <2>13, <2>14, <2>15, <2>16
          DEF Lookups!Next
<1> QED BY <1>1, <1>2

\* What the lookups keep: a row that has no cover is due again at an hour that
\* comes, what was heard of an album is in its row, and the cover that a row
\* names is beside its blob while a file has those bytes (Lookups).
THEOREM MusicInvariant == Lookups!Spec => []MusicInv
<1>1. Lookups!Init => MusicInv
  BY MusicBegins
<1>2. MusicInv /\ [Lookups!Next]_lvars => MusicInv'
  BY MusicGoesOn
<1>3. [Lookups!Next]_(Lookups!lookupVars) => [Lookups!Next]_lvars
  BY DEF Lookups!lookupVars, lvars
<1> QED BY <1>1, <1>2, <1>3, PTL DEF Lookups!Spec

LEMMA MusicPromises == ASSUME MusicInv PROVE LookupsKeepTheirPlace
<1>1. MusicTypes /\ PassGoes /\ RowsStand /\ WordsStand /\ CoversStand
  BY DEF MusicInv
<1>2. Lookups!NothingFallsOut
  <2> DEFINE albums == {a \in Albums1 : Lookups!InAlbum(a) # {}}
             covered == {a \in albums : albumRow[a].cover # Lookups!NoBlob}
             tracks == {id \in FileIds : Lookups!Audio(id) /\ Lookups!Tags(id).sung}
             lyrics == {id \in tracks : lyricsRow[id].found}
  <2> PICK hour : hour = MaxClock + Lookups!retryNothing + Lookups!retryUnreachable + 1
    OBVIOUS
  <2>0. hour = Ever
    BY MusicNumbers DEF Ever, Lookups!retryNothing, Lookups!retryUnreachable
  <2>1. ASSUME {a \in Albums1 : Lookups!AlbumDue(a, hour)} = {} PROVE covered = albums
    <3>1. ASSUME NEW a \in albums PROVE albumRow[a].cover # Lookups!NoBlob
      <4>1. ~Lookups!AlbumDue(a, hour)
        BY <2>1
      <4>2. albumRow[a].there /\ ~(albumRow[a].retry # 0 /\ albumRow[a].retry <= Ever)
        BY <2>0, <4>1 DEF Lookups!AlbumDue, Lookups!Never
      <4> QED BY <1>1, <4>2 DEF RowsStand
    <3> QED BY <3>1
  <2>2. ASSUME {id \in FileIds : Lookups!LyricsDue(id, hour)} = {} PROVE lyrics = tracks
    <3>1. ASSUME NEW id \in tracks PROVE lyricsRow[id].found
      <4>1. ~Lookups!LyricsDue(id, hour)
        BY <2>2
      <4>2. lyricsRow[id].there /\ ~(lyricsRow[id].retry # 0 /\ lyricsRow[id].retry <= Ever)
        BY <2>0, <4>1 DEF Lookups!LyricsDue, Lookups!Never
      <4> QED BY <1>1, <4>2 DEF WordsStand
    <3> QED BY <3>1
  <2>3. /\ Lookups!LookupCounts.covers = Lookups!Cardinality(covered) /\ Lookups!LookupCounts.albums = Lookups!Cardinality(albums)
        /\ Lookups!LookupCounts.lyrics = Lookups!Cardinality(lyrics) /\ Lookups!LookupCounts.tracks = Lookups!Cardinality(tracks)
    BY DEF Lookups!LookupCounts, Albums1
  <2> HIDE DEF albums, covered, tracks, lyrics
  <2>4. ({a \in Albums1 : Lookups!AlbumDue(a, hour)} = {}) => Lookups!LookupCounts.covers = Lookups!LookupCounts.albums
    BY <2>1, <2>3
  <2>5. ({id \in FileIds : Lookups!LyricsDue(id, hour)} = {}) => Lookups!LookupCounts.lyrics = Lookups!LookupCounts.tracks
    BY <2>2, <2>3
  <2> QED BY <2>4, <2>5 DEF Lookups!NothingFallsOut, Albums1
<1>3. Lookups!NamedCoversAreKept
  BY <1>1 DEF Lookups!NamedCoversAreKept, CoversStand, NamedStand, Kept, Albums1
<1>4. Lookups!NobodyIsPestered
  <2> SUFFICES ASSUME pass.at \in {"search", "cover"}
               PROVE  /\ InTime(heard[Lookups!ThisAlbum], pass.now) /\ pass.turned = {}
    BY DEF Lookups!NobodyIsPestered, InTime, Lookups!retryNothing, Lookups!retryUnreachable
  <2>1. pass.at \in WithAlbum
    BY DEF WithAlbum
  <2> QED BY <1>1, <2>1, AlbumAtHand, TurnedIsEmpty
<1> QED BY <1>2, <1>3, <1>4 DEF LookupsKeepTheirPlace

\* Nothing falls out of the lookups' queue, a cover that a row names is there
\* as long as its bytes are, and no source is asked before its time or after it
\* refused (Lookups), for every library, batch and run of hours.
THEOREM LookupsStayInPlace == Lookups!Spec => []LookupsKeepTheirPlace
BY MusicInvariant, MusicPromises, PTL
=============================================================================
