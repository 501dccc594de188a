--------------------------- MODULE FileTreeProofs ---------------------------
(***************************************************************************)
(* Proofs about FileTree for any names, depth, keys and deletions and any  *)
(* number of requests, and about Engines, its transactions a statement at  *)
(* a time, for any number of requests and transactions.                    *)
(***************************************************************************)
EXTENDS FileTree, TreeEngines, SequenceTheorems, WellFoundedInduction, TLAPS
-----------------------------------------------------------------------------
(* Paths.                                                                  *)

LEMMA Sizes == MaxCopies \in Nat /\ MaxCopies > 0 /\ MaxDepth \in Nat /\ MaxDepth > 0
BY TreeAssumption

LEMMA SmallestOf == ASSUME NEW T \in SUBSET Nat, T # {} PROVE \E t \in T : \A u \in T : t <= u
<1> DEFINE R == OpToRel(<, Nat)
<1>1. \A t, u \in Nat : <<t, u>> \in R <=> t < u
  BY DEF OpToRel
<1>2. IsWellFoundedOn(R, Nat)
  BY NatLessThanWellFounded
<1> HIDE DEF R
<1>3. PICK t \in T : \A u \in T : ~(<<u, t>> \in R)
  BY <1>2, WFMin
<1>4. \A u \in T : ~(u < t)
  BY <1>1, <1>3
<1> QED BY <1>4

LEMMA PathIs == \A p : p \in Paths <=> p \in Seq(Names) /\ Len(p) \in 1..MaxDepth
<1>1. ASSUME NEW p \in Paths PROVE p \in Seq(Names) /\ Len(p) \in 1..MaxDepth
  <2>1. PICK n \in 1..MaxDepth : p \in [1..n -> Names]
    BY DEF Paths
  <2>2. n \in Nat /\ p \in Seq(Names)
    BY <2>1, Sizes, SeqDef
  <2>3. Len(p) = n
    BY <2>1, <2>2
  <2> QED BY <2>1, <2>2, <2>3
<1>2. ASSUME NEW p \in Seq(Names), Len(p) \in 1..MaxDepth PROVE p \in Paths
  <2>1. p \in [1..Len(p) -> Names]
    BY LenProperties
  <2> QED BY <1>2, <2>1 DEF Paths
<1> QED BY <1>1, <1>2

\* The length of a path as a number of its own.
Depth(p) == Len(p)

LEMMA DepthIs == \A p : Depth(p) = Len(p)
BY DEF Depth

LEMMA Depths == \A p \in Paths : Depth(p) \in Nat /\ Depth(p) >= 1 /\ Depth(p) <= MaxDepth /\ p # Root
BY PathIs, Sizes, EmptySeq DEF Root, Depth

\* The first n names of a path.
LEMMA CutIs ==
  ASSUME NEW p \in Paths, NEW n \in 1..Depth(p)
  PROVE  /\ SubSeq(p, 1, n) \in Paths /\ Depth(SubSeq(p, 1, n)) = n
         /\ \A i \in 1..n : SubSeq(p, 1, n)[i] = p[i]
<1>1. p \in Seq(Names) /\ Len(p) \in 1..MaxDepth /\ Len(p) \in Nat /\ n \in 1..Len(p)
  BY PathIs, Sizes DEF Depth
<1>2. \A i \in 1..n : p[i] \in Names
  BY <1>1, ElementOfSeq
<1> DEFINE s == SubSeq(p, 1, n)
<1>3. s \in Seq(Names) /\ Len(s) = (IF 1 <= n THEN n - 1 + 1 ELSE 0) /\ \A i \in 1..(n - 1 + 1) : s[i] = p[1 + i - 1]
  BY <1>1, <1>2, SubSeqProperties
<1> HIDE DEF s
<1>4. n \in Nat /\ n >= 1 /\ n <= MaxDepth /\ n - 1 + 1 = n /\ \A i \in 1..n : 1 + i - 1 = i
  BY <1>1, Sizes
<1>5. Len(s) = n
  BY <1>3, <1>4
<1>6. \A i \in 1..n : s[i] = p[i]
  BY <1>3, <1>4
<1>7. s \in Paths
  BY <1>3, <1>4, <1>5, PathIs, Sizes
<1> QED BY <1>5, <1>6, <1>7 DEF s, Depth

LEMMA SamePath ==
  ASSUME NEW p \in Paths, NEW q \in Paths, Depth(p) = Depth(q), \A i \in 1..Depth(p) : p[i] = q[i]
  PROVE  p = q
BY PathIs, SeqEqual DEF Depth

\* What the definitions say of Len.
LEMMA ByDepth ==
  /\ \A d, p : Under(d, p) <=> Depth(d) < Depth(p) /\ SubSeq(p, 1, Depth(d)) = d
  /\ \A p : ParentOf(p) = SubSeq(p, 1, Depth(p) - 1)
  /\ \A p : Ancestors(p) = {SubSeq(p, 1, n) : n \in 1..(Depth(p) - 1)}
BY DEF Under, ParentOf, Ancestors, Depth

\* One path is at or under another when its names begin with the other's.
LEMMA Begins ==
  ASSUME NEW d \in Paths, NEW p \in Paths
  PROVE  AtOrUnder(d, p) <=> Depth(d) <= Depth(p) /\ \A i \in 1..Depth(d) : p[i] = d[i]
<1>1. Depth(d) \in Nat /\ Depth(p) \in Nat /\ Depth(d) >= 1 /\ Depth(p) >= 1
  BY Depths
<1>2. ASSUME AtOrUnder(d, p) PROVE Depth(d) <= Depth(p) /\ \A i \in 1..Depth(d) : p[i] = d[i]
  <2>1. CASE p = d
    BY <1>1, <2>1
  <2>2. CASE Under(d, p)
    <3>1. Depth(d) < Depth(p) /\ SubSeq(p, 1, Depth(d)) = d
      BY <2>2, ByDepth
    <3> QED BY <1>1, <3>1, CutIs
  <2> QED BY <1>2, <2>1, <2>2 DEF AtOrUnder
<1>3. ASSUME Depth(d) <= Depth(p), \A i \in 1..Depth(d) : p[i] = d[i] PROVE AtOrUnder(d, p)
  <2>1. CASE Depth(d) = Depth(p)
    <3>1. p = d
      BY <1>3, <2>1, SamePath
    <3> QED BY <3>1 DEF AtOrUnder
  <2>2. CASE Depth(d) # Depth(p)
    <3>1. Depth(d) \in 1..Depth(p) /\ Depth(d) < Depth(p)
      BY <1>1, <1>3, <2>2
    <3>2. SubSeq(p, 1, Depth(d)) \in Paths /\ Depth(SubSeq(p, 1, Depth(d))) = Depth(d) /\ \A i \in 1..Depth(d) : SubSeq(p, 1, Depth(d))[i] = d[i]
      BY <1>3, <3>1, CutIs
    <3>3. SubSeq(p, 1, Depth(d)) = d
      BY <3>2, SamePath
    <3> QED BY <3>1, <3>3, ByDepth DEF AtOrUnder
  <2> QED BY <2>1, <2>2
<1> QED BY <1>2, <1>3

LEMMA UnderIs == ASSUME NEW d \in Paths, NEW p \in Paths PROVE Under(d, p) <=> AtOrUnder(d, p) /\ p # d
BY Depths, ByDepth DEF AtOrUnder

LEMMA UnderOrder ==
  ASSUME NEW a \in Paths, NEW b \in Paths, NEW c \in Paths
  PROVE  /\ AtOrUnder(a, a)
         /\ AtOrUnder(a, b) /\ AtOrUnder(b, c) => AtOrUnder(a, c)
         /\ AtOrUnder(a, b) /\ AtOrUnder(b, a) => a = b
         /\ AtOrUnder(a, c) /\ AtOrUnder(b, c) => AtOrUnder(a, b) \/ AtOrUnder(b, a)
         /\ AtOrUnder(a, b) /\ Depth(a) = Depth(b) => a = b
<1>1. Depth(a) \in Nat /\ Depth(b) \in Nat /\ Depth(c) \in Nat
  BY Depths
<1>2. AtOrUnder(a, b) /\ AtOrUnder(b, c) => AtOrUnder(a, c)
  BY <1>1, Begins
<1>3. AtOrUnder(a, b) /\ Depth(a) = Depth(b) => a = b
  BY <1>1, Begins, SamePath
<1>4. AtOrUnder(a, b) /\ AtOrUnder(b, a) => a = b
  BY <1>1, <1>3, Begins
<1>5. AtOrUnder(a, c) /\ AtOrUnder(b, c) => AtOrUnder(a, b) \/ AtOrUnder(b, a)
  BY <1>1, Begins
<1> QED BY <1>2, <1>3, <1>4, <1>5 DEF AtOrUnder

LEMMA ParentIs ==
  ASSUME NEW p \in Paths
  PROVE  \/ Depth(p) = 1 /\ ParentOf(p) = Root
         \/ /\ Depth(p) > 1 /\ ParentOf(p) \in Paths /\ Depth(ParentOf(p)) = Depth(p) - 1 /\ ParentOf(p) # Root
            /\ Under(ParentOf(p), p)
<1>1. Depth(p) \in Nat /\ Depth(p) >= 1
  BY Depths
<1>2. CASE Depth(p) = 1
  BY <1>1, <1>2, SubSeqEmpty, ByDepth DEF Root
<1>3. CASE Depth(p) > 1
  <2>1. Depth(p) - 1 \in 1..Depth(p)
    BY <1>1, <1>3
  <2>2. ParentOf(p) \in Paths /\ Depth(ParentOf(p)) = Depth(p) - 1
    BY <2>1, CutIs, ByDepth
  <2>3. SubSeq(p, 1, Depth(ParentOf(p))) = ParentOf(p)
    BY <2>2, ByDepth
  <2>4. Depth(p) - 1 < Depth(p)
    BY <1>1
  <2>5. Under(ParentOf(p), p) /\ ParentOf(p) # Root
    BY <2>2, <2>3, <2>4, Depths, ByDepth
  <2> QED BY <1>3, <2>2, <2>5
<1> QED BY <1>1, <1>2, <1>3

\* What is at or under a directory is it, or has its parent there.
LEMMA ParentUnder ==
  ASSUME NEW d \in Paths, NEW p \in Paths
  PROVE  AtOrUnder(d, p) <=> p = d \/ (ParentOf(p) # Root /\ AtOrUnder(d, ParentOf(p)))
<1>1. Depth(d) \in Nat /\ Depth(p) \in Nat /\ Depth(d) >= 1
  BY Depths
<1>2. ASSUME AtOrUnder(d, p), p # d PROVE ParentOf(p) # Root /\ AtOrUnder(d, ParentOf(p))
  <2>1. Depth(d) < Depth(p)
    BY <1>2, UnderIs, ByDepth
  <2>0. Depth(p) # 1
    BY <1>1, <2>1
  <2>2. ParentOf(p) \in Paths /\ Depth(ParentOf(p)) = Depth(p) - 1 /\ ParentOf(p) # Root
    BY <2>0, ParentIs
  <2>3. \A i \in 1..(Depth(p) - 1) : ParentOf(p)[i] = p[i]
    BY <1>1, <2>1, CutIs, ByDepth
  <2>4. Depth(d) <= Depth(p) - 1 /\ \A i \in 1..Depth(d) : ParentOf(p)[i] = d[i]
    BY <1>1, <1>2, <2>1, <2>3, Begins
  <2> QED BY <2>2, <2>4, Begins
<1>3. ASSUME ParentOf(p) # Root, AtOrUnder(d, ParentOf(p)) PROVE AtOrUnder(d, p)
  <2>1. ParentOf(p) \in Paths /\ AtOrUnder(ParentOf(p), p)
    BY <1>3, ParentIs DEF AtOrUnder
  <2> QED BY <1>3, <2>1, UnderOrder
<1> QED BY <1>2, <1>3 DEF AtOrUnder

LEMMA AncestorsAre == ASSUME NEW p \in Paths, NEW a PROVE a \in Ancestors(p) <=> a \in Paths /\ Under(a, p)
<1>1. Depth(p) \in Nat
  BY Depths
<1>2. ASSUME a \in Ancestors(p) PROVE a \in Paths /\ Under(a, p)
  <2>1. PICK n \in 1..(Depth(p) - 1) : a = SubSeq(p, 1, n)
    BY <1>2, ByDepth
  <2>2. n \in 1..Depth(p) /\ n < Depth(p)
    BY <1>1, <2>1
  <2>3. a \in Paths /\ Depth(a) = n
    BY <2>1, <2>2, CutIs
  <2> QED BY <2>1, <2>2, <2>3, ByDepth
<1>3. ASSUME a \in Paths, Under(a, p) PROVE a \in Ancestors(p)
  <2>1. Depth(a) \in 1..(Depth(p) - 1)
    BY <1>1, <1>3, Depths, ByDepth
  <2> QED BY <1>3, <2>1, ByDepth
<1> QED BY <1>2, <1>3
-----------------------------------------------------------------------------
(* Moving a path from under one directory to under another.                *)

\* moved is to, of t names, and then what p, of k names, has after its first f.
IsRebased(moved, p, to, f, t, k) ==
  /\ moved \in Seq(Names) /\ Depth(moved) = t + k - f
  /\ \A i \in 1..t : moved[i] = to[i]
  /\ \A i \in (f + 1)..k : moved[t + i - f] = p[i]

LEMMA RebaseIs ==
  ASSUME NEW from \in Paths, NEW to \in Paths, NEW p \in Paths, AtOrUnder(from, p)
  PROVE  IsRebased(Rebase(p, from, to), p, to, Depth(from), Depth(to), Depth(p))
<1>1. PICK k \in Nat : k = Depth(p)
  BY Depths
<1>2. PICK f \in Nat : f = Depth(from) /\ f >= 1 /\ f <= k
  BY <1>1, Depths, Begins
<1>3. PICK t \in Nat : t = Depth(to) /\ t >= 1
  BY Depths
<1>4. p \in Seq(Names) /\ to \in Seq(Names) /\ Len(p) = k /\ Len(to) = t /\ Len(from) = f
  BY <1>1, <1>2, <1>3, PathIs DEF Depth
<1> DEFINE s == SubSeq(p, f + 1, k)
<1>5. s \in Seq(Names) /\ Len(s) = (IF f + 1 <= k THEN k - (f + 1) + 1 ELSE 0)
      /\ \A i \in 1..(k - (f + 1) + 1) : s[i] = p[f + 1 + i - 1]
  <2>1. \A i \in (f + 1)..k : i \in 1..k
    BY <1>2
  <2>2. \A i \in 1..k : p[i] \in Names
    BY <1>4, ElementOfSeq
  <2> QED BY <2>1, <2>2, SubSeqProperties
<1>6. Rebase(p, from, to) = to \o s
  BY <1>4 DEF Rebase
<1> HIDE DEF s
<1>7. Len(s) = k - f /\ \A i \in 1..(k - f) : s[i] = p[f + i]
  <2>1. (IF f + 1 <= k THEN k - (f + 1) + 1 ELSE 0) = k - f /\ k - (f + 1) + 1 = k - f
    BY <1>2
  <2>2. \A i \in 1..(k - f) : f + 1 + i - 1 = f + i
    BY <1>2
  <2> QED BY <1>5, <2>1, <2>2
<1> DEFINE r == to \o s
<1>8. r \in Seq(Names) /\ Len(r) = Len(to) + Len(s)
      /\ \A i \in 1..(Len(to) + Len(s)) : r[i] = IF i <= Len(to) THEN to[i] ELSE s[i - Len(to)]
  BY <1>4, <1>5, ConcatProperties
<1> HIDE DEF r
<1>9. PICK n \in Nat : n = Len(s) /\ n = k - f
  BY <1>2, <1>7
<1>10. Depth(r) = t + k - f
  <2>1. t + n = t + k - f
    BY <1>9
  <2> QED BY <1>4, <1>8, <1>9, <2>1 DEF Depth
<1>11. \A i \in 1..(t + n) : r[i] = IF i <= t THEN to[i] ELSE s[i - t]
  BY <1>4, <1>8, <1>9
<1>12. \A i \in 1..t : r[i] = to[i]
  BY <1>9, <1>11
<1>13. ASSUME NEW i \in (f + 1)..k PROVE r[t + i - f] = p[i]
  <2>1. t + i - f \in 1..(t + n) /\ ~(t + i - f <= t) /\ t + i - f - t = i - f /\ i - f \in 1..(k - f) /\ f + (i - f) = i
    BY <1>9, <1>13
  <2>2. r[t + i - f] = s[i - f]
    BY <1>11, <2>1
  <2>3. s[i - f] = p[f + (i - f)]
    BY <1>7, <2>1
  <2> QED BY <2>1, <2>2, <2>3
<1>14. Rebase(p, from, to) = r
  BY <1>6 DEF r
<1>15. IsRebased(r, p, to, f, t, k)
  BY <1>8, <1>10, <1>12, <1>13 DEF IsRebased
<1> QED BY <1>1, <1>2, <1>3, <1>14, <1>15

\* A path that fits at its new place is under it, and moves back to where it was.
LEMMA RebaseBack ==
  ASSUME NEW from \in Paths, NEW to \in Paths, NEW p \in Paths, AtOrUnder(from, p), Rebase(p, from, to) \in Paths
  PROVE  /\ AtOrUnder(to, Rebase(p, from, to))
         /\ Rebase(Rebase(p, from, to), to, from) = p
         /\ p = from <=> Rebase(p, from, to) = to
<1>1. PICK r \in Paths : r = Rebase(p, from, to)
  OBVIOUS
<1>2. PICK k \in Nat : k = Depth(p) /\ k <= MaxDepth /\ k >= 1
  BY Depths
<1>3. PICK f \in Nat : f = Depth(from) /\ f >= 1 /\ f <= k
  BY <1>2, Depths, Begins
<1>4. PICK t \in Nat : t = Depth(to) /\ t >= 1
  BY Depths
<1>5. /\ Depth(r) = t + k - f
      /\ \A i \in 1..t : r[i] = to[i]
      /\ \A i \in (f + 1)..k : r[t + i - f] = p[i]
  <2>1. IsRebased(r, p, to, f, t, k)
    BY <1>1, <1>2, <1>3, <1>4, RebaseIs
  <2> QED BY <2>1 DEF IsRebased
<1>6. AtOrUnder(to, r)
  <2>1. t <= t + k - f
    BY <1>3
  <2> QED BY <1>4, <1>5, <2>1, Begins
<1> DEFINE b == Rebase(r, to, from)
<1>0. PICK n \in Nat : n = Depth(r) /\ n = t + k - f
  BY <1>3, <1>5
<1>7. /\ b \in Seq(Names) /\ Depth(b) = f + n - t
      /\ \A i \in 1..f : b[i] = from[i]
      /\ \A i \in (t + 1)..n : b[f + i - t] = r[i]
  <2>1. IsRebased(b, r, from, t, f, n)
    BY <1>0, <1>3, <1>4, <1>6, RebaseIs
  <2> HIDE DEF b
  <2> QED BY <2>1 DEF IsRebased
<1> HIDE DEF b
<1>8. f + n - t = k /\ k \in 1..MaxDepth
  BY <1>0, <1>2, Sizes
<1>9. b \in Paths
  BY <1>7, <1>8, PathIs DEF Depth
<1>10. ASSUME NEW i \in 1..k PROVE b[i] = p[i]
  <2>1. CASE i <= f
    <3>1. i \in 1..f
      BY <2>1
    <3> QED BY <1>3, <1>7, <3>1, Begins
  <2>2. CASE ~(i <= f)
    <3>1. i + t - f \in (t + 1)..n /\ f + (i + t - f) - t = i /\ i \in (f + 1)..k /\ i + t - f = t + i - f
      BY <1>0, <1>3, <2>2
    <3>2. b[i] = r[t + i - f]
      BY <1>7, <3>1
    <3> QED BY <1>5, <3>1, <3>2
  <2> QED BY <2>1, <2>2
<1>11. b = p
  BY <1>2, <1>7, <1>8, <1>9, <1>10, SamePath
<1>12. p = from => r = to
  <2>1. ASSUME p = from PROVE r = to
    <3>1. t + k - f = t
      BY <1>2, <1>3, <2>1
    <3> QED BY <1>4, <1>5, <3>1, SamePath
  <2> QED BY <2>1
<1>13. r = to => p = from
  <2>1. ASSUME r = to PROVE p = from
    <3>1. k = f
      BY <1>2, <1>3, <1>4, <1>5, <2>1
    <3> QED BY <1>2, <1>3, <3>1, UnderOrder
  <2> QED BY <2>1
<1> QED BY <1>1, <1>6, <1>11, <1>12, <1>13 DEF b

\* What is under a directory that moves keeps its place under it.
LEMMA RebaseUnder ==
  ASSUME NEW from \in Paths, NEW to \in Paths, NEW d \in Paths, NEW p \in Paths,
         AtOrUnder(from, d), AtOrUnder(d, p), Rebase(p, from, to) \in Paths
  PROVE  Rebase(d, from, to) \in Paths /\ AtOrUnder(Rebase(d, from, to), Rebase(p, from, to))
<1>0. AtOrUnder(from, p)
  BY UnderOrder
<1>1. PICK k \in Nat : k = Depth(p) /\ k <= MaxDepth /\ k >= 1
  BY Depths
<1>2. PICK m \in Nat : m = Depth(d) /\ m <= k /\ m >= 1
  BY <1>1, Depths, Begins
<1>3. PICK f \in Nat : f = Depth(from) /\ f >= 1 /\ f <= m
  BY <1>2, Depths, Begins
<1>4. PICK t \in Nat : t = Depth(to) /\ t >= 1
  BY Depths
<1>5. PICK r \in Paths : r = Rebase(p, from, to)
  OBVIOUS
<1>6. /\ Depth(r) = t + k - f
      /\ \A i \in 1..t : r[i] = to[i]
      /\ \A i \in (f + 1)..k : r[t + i - f] = p[i]
  <2>1. IsRebased(r, p, to, f, t, k)
    BY <1>0, <1>1, <1>3, <1>4, <1>5, RebaseIs
  <2> QED BY <2>1 DEF IsRebased
<1> DEFINE s == Rebase(d, from, to)
<1>7. /\ s \in Seq(Names) /\ Depth(s) = t + m - f
      /\ \A i \in 1..t : s[i] = to[i]
      /\ \A i \in (f + 1)..m : s[t + i - f] = d[i]
  <2>1. IsRebased(s, d, to, f, t, m)
    BY <1>2, <1>3, <1>4, RebaseIs
  <2> HIDE DEF s
  <2> QED BY <2>1 DEF IsRebased
<1> HIDE DEF s
<1>8. t + k - f <= MaxDepth
  BY <1>5, <1>6, Depths
<1>9. t + m - f \in 1..MaxDepth /\ t + m - f <= t + k - f
  BY <1>2, <1>3, <1>4, <1>8, Sizes
<1>10. s \in Paths
  BY <1>7, <1>9, PathIs DEF Depth
<1>11. ASSUME NEW j \in 1..(t + m - f) PROVE r[j] = s[j]
  <2>1. CASE j <= t
    <3>1. j \in 1..t
      BY <2>1
    <3> QED BY <1>6, <1>7, <3>1
  <2>2. CASE ~(j <= t)
    <3>1. j + f - t \in (f + 1)..m /\ j + f - t \in (f + 1)..k /\ t + (j + f - t) - f = j /\ j + f - t \in 1..m
      BY <1>2, <1>3, <2>2
    <3>2. r[j] = p[j + f - t] /\ s[j] = d[j + f - t]
      BY <1>6, <1>7, <3>1
    <3>3. p[j + f - t] = d[j + f - t]
      BY <1>2, <3>1, Begins
    <3> QED BY <3>2, <3>3
  <2> QED BY <2>1, <2>2
<1> QED BY <1>5, <1>6, <1>7, <1>9, <1>10, <1>11, Begins DEF s

LEMMA RebaseParent ==
  ASSUME NEW from \in Paths, NEW to \in Paths, NEW p \in Paths, Under(from, p), Rebase(p, from, to) \in Paths
  PROVE  /\ ParentOf(p) \in Paths /\ AtOrUnder(from, ParentOf(p))
         /\ Rebase(ParentOf(p), from, to) \in Paths
         /\ ParentOf(Rebase(p, from, to)) = Rebase(ParentOf(p), from, to)
<1>1. AtOrUnder(from, p) /\ p # from
  BY UnderIs
<1>2. PICK d \in Paths : d = ParentOf(p) /\ AtOrUnder(from, d) /\ AtOrUnder(d, p) /\ Depth(d) = Depth(p) - 1
  <2>1. ParentOf(p) # Root /\ AtOrUnder(from, ParentOf(p))
    BY <1>1, ParentUnder
  <2> QED BY <2>1, ParentIs DEF AtOrUnder
<1>3. PICK r \in Paths : r = Rebase(p, from, to)
  OBVIOUS
<1>4. PICK s \in Paths : s = Rebase(d, from, to) /\ AtOrUnder(s, r)
  BY <1>2, <1>3, RebaseUnder
<1>5. Depth(s) = Depth(r) - 1
  <2>1. Depth(r) = Depth(to) + Depth(p) - Depth(from)
    BY <1>1, <1>3, RebaseIs DEF IsRebased
  <2>3. Depth(s) = Depth(to) + Depth(d) - Depth(from)
    BY <1>2, <1>4, RebaseIs DEF IsRebased
  <2>2. Depth(to) \in Nat /\ Depth(p) \in Nat /\ Depth(from) \in Nat
    BY Depths
  <2> QED BY <1>2, <2>1, <2>2, <2>3
<1>6. Depth(s) \in Nat /\ Depth(r) \in Nat /\ Depth(s) >= 1
  BY Depths
<1>7. s # r
  BY <1>5, <1>6
<1>8. AtOrUnder(s, ParentOf(r)) /\ ParentOf(r) # Root
  BY <1>4, <1>7, ParentUnder
<1>9. ParentOf(r) \in Paths /\ Depth(ParentOf(r)) = Depth(r) - 1
  BY <1>8, ParentIs
<1>10. s = ParentOf(r)
  BY <1>5, <1>8, <1>9, UnderOrder
<1> QED BY <1>2, <1>3, <1>4, <1>10
-----------------------------------------------------------------------------
(* The inductive invariant.                                                *)

Ops  == {"idle", "put", "upload", "mkdirs", "mkdir", "name", "share", "clear", "move", "plan", "copy"}
Reqs == [op : Ops, from : Paths \cup {Root}, to : Paths \cup {Root}, seen : Keys \cup {None, Dir, "any"},
         n : 0..(MaxDepth + MaxCopies), plan : SUBSET (Paths \X {TRUE, FALSE}), todo : SUBSET Paths]
Deleted == [batch : Batches, path : Paths, row : Keys \cup {Dir}]

\* What a request that has begun knows of itself.
Asked(q) ==
  /\ q.op # "idle" => q.to \in Paths
  /\ q.op \in {"clear", "move", "plan", "copy"} => q.from \in Paths
  /\ q.op = "mkdirs" => q.n \in 1..Len(q.to)
  /\ q.op = "mkdir" => q.n \in 1..(Len(q.to) - 1)
  /\ q.op = "name" => q.n \in 1..(MaxCopies + 1)

TInv ==
  /\ tree \in [Paths -> Keys \cup {Dir, None}]
  /\ trash \subseteq Deleted
  /\ req \in [Procs -> Reqs] /\ \A r \in Procs : Asked(req[r])

\* The plan of a copy is a tree under its destination, and what is still to be
\* listed has nothing under it yet.
Planned(q) ==
  q.op \in {"plan", "copy"} =>
    /\ \A x \in q.plan : AtOrUnder(q.to, x[1]) /\ (x[1] # q.to => <<ParentOf(x[1]), TRUE>> \in q.plan)
    /\ \A x, y \in q.plan : x[1] = y[1] => x = y
    /\ \A d \in q.todo : /\ AtOrUnder(q.from, d) /\ <<Rebase(d, q.from, q.to), TRUE>> \in q.plan
                         /\ \A x \in q.plan : ~Under(Rebase(d, q.from, q.to), x[1])

\* A deletion holds a path once.
Once == \A t, u \in trash : t.batch = u.batch /\ t.path = u.path => t = u

FInv == TInv /\ TreeClosed /\ Once /\ DeletionIsATree /\ \A r \in Procs : Planned(req[r])
-----------------------------------------------------------------------------
(* Trees, and what each kind of statement makes of one.                    *)

Trees == [Paths -> Keys \cup {Dir, None}]
Closed(t) == \A p \in Paths : t[p] # None => HasParent(t, p)

LEMMA Kinds == None # Dir /\ \A k \in Keys : k # None /\ k # Dir
BY RowAssumption DEF None, Dir

\* What is there has every directory above it.
LEMMA ClosedUp ==
  ASSUME NEW t, Closed(t), NEW d \in Paths, NEW q \in Paths, Under(d, q), t[q] # None
  PROVE  t[d] = Dir
<1>1. PICK m \in Nat : m = Depth(d) /\ m >= 1
  BY Depths
<1>2. PICK k \in Nat : k = Depth(q) /\ m < k
  BY <1>1, Depths, ByDepth
<1>3. SubSeq(q, 1, m) = d
  BY <1>1, ByDepth
<1> DEFINE T == {j \in 1..(k - m) : t[SubSeq(q, 1, k - j)] # Dir}
<1>4. SUFFICES ASSUME T # {} PROVE FALSE
  <2>1. k - m \in 1..(k - m) /\ k - (k - m) = m
    BY <1>2
  <2> QED BY <1>3, <2>1
<1>5. PICK j \in T : \A i \in T : j <= i
  <2>1. T \in SUBSET Nat
    OBVIOUS
  <2> HIDE DEF T
  <2> QED BY <1>4, <2>1, SmallestOf
<1>6. j \in 1..(k - m) /\ t[SubSeq(q, 1, k - j)] # Dir
  BY <1>5
<1>7. k - j \in 1..k /\ k - j + 1 \in 1..k /\ k - j + 1 - 1 = k - j /\ k - (j - 1) = k - j + 1 /\ k - j >= 1
  BY <1>1, <1>2, <1>6
<1> DEFINE p == SubSeq(q, 1, k - j + 1)
<1>8. p \in Paths /\ Depth(p) = k - j + 1 /\ \A i \in 1..(k - j + 1) : p[i] = q[i]
  BY <1>2, <1>7, CutIs
<1>9. SubSeq(q, 1, k - j) \in Paths /\ Depth(SubSeq(q, 1, k - j)) = k - j
      /\ \A i \in 1..(k - j) : SubSeq(q, 1, k - j)[i] = q[i]
  BY <1>2, <1>7, CutIs
<1>10. t[p] # None
  <2>1. CASE j = 1
    <3>1. k - j + 1 = k
      BY <1>6, <2>1
    <3>2. p = q
      BY <1>2, <1>8, <3>1, SamePath
    <3> QED BY <3>2
  <2>2. CASE j # 1
    <3>1. j - 1 \in 1..(k - m) /\ ~(j <= j - 1)
      BY <1>6, <2>2
    <3>2. j - 1 \notin T
      BY <1>5, <3>1
    <3>3. t[SubSeq(q, 1, k - (j - 1))] = Dir
      BY <3>1, <3>2
    <3> QED BY <1>7, <3>3, Kinds
  <2> QED BY <2>1, <2>2
<1> HIDE DEF p, T
<1>11. ParentOf(p) = SubSeq(q, 1, k - j)
  <2>1. ParentOf(p) \in Paths /\ Depth(ParentOf(p)) = k - j /\ \A i \in 1..(k - j) : ParentOf(p)[i] = p[i]
    <3>1. ParentOf(p) = SubSeq(p, 1, k - j) /\ k - j \in 1..Depth(p)
      BY <1>7, <1>8, ByDepth
    <3> QED BY <1>8, <3>1, CutIs
  <2>2. \A i \in 1..(k - j) : i \in 1..(k - j + 1)
    <3>1. PICK n \in Nat : n = k - j
      BY <1>7
    <3> QED BY <3>1
  <2>3. \A i \in 1..(k - j) : ParentOf(p)[i] = SubSeq(q, 1, k - j)[i]
    BY <1>8, <1>9, <2>1, <2>2
  <2> QED BY <1>9, <2>1, <2>3, SamePath
<1>12. t[ParentOf(p)] = Dir
  BY <1>8, <1>9, <1>10, <1>11, Depths DEF Closed, HasParent
<1> QED BY <1>6, <1>11, <1>12

LEMMA PutCloses ==
  ASSUME NEW t, Closed(t), NEW p \in Paths, HasParent(t, p), NEW row, row # None, row = Dir \/ t[p] # Dir,
         NEW u, \A q \in Paths : u[q] = IF q = p THEN row ELSE t[q]
  PROVE  Closed(u)
<1>1. SUFFICES ASSUME NEW q \in Paths, u[q] # None, ParentOf(q) # Root PROVE u[ParentOf(q)] = Dir
  BY DEF Closed, HasParent
<1>2. ParentOf(q) \in Paths
  BY <1>1, ParentIs
<1>3. t[ParentOf(q)] = Dir
  BY <1>1 DEF Closed, HasParent
<1> QED BY <1>2, <1>3

LEMMA WithoutCloses ==
  ASSUME NEW t, Closed(t), NEW p \in Paths, NEW u, \A q \in Paths : u[q] = IF AtOrUnder(p, q) THEN None ELSE t[q]
  PROVE  Closed(u)
<1>1. SUFFICES ASSUME NEW q \in Paths, u[q] # None, ParentOf(q) # Root PROVE u[ParentOf(q)] = Dir
  BY DEF Closed, HasParent
<1>2. ParentOf(q) \in Paths
  BY <1>1, ParentIs
<1>3. ~AtOrUnder(p, q) /\ t[q] # None
  BY <1>1
<1>4. t[ParentOf(q)] = Dir /\ ~AtOrUnder(p, ParentOf(q))
  BY <1>1, <1>3, ParentUnder DEF Closed, HasParent
<1> QED BY <1>2, <1>4

\* What lands at to and under it, with the directories above it.
LEMMA LandCloses ==
  ASSUME NEW t, Closed(t), NEW to \in Paths, t[to] = None, NEW L \in SUBSET Paths,
         \A q \in L : AtOrUnder(to, q),
         NEW u, \A q \in L : q # to => ParentOf(q) \in L /\ u[ParentOf(q)] = Dir,
         \A q \in Paths \ L : u[q] = IF q \in Ancestors(to) THEN Dir ELSE t[q]
  PROVE  Closed(u)
<1>1. SUFFICES ASSUME NEW q \in Paths, u[q] # None, ParentOf(q) # Root PROVE u[ParentOf(q)] = Dir
  BY DEF Closed, HasParent
<1>2. PICK d \in Paths : d = ParentOf(q) /\ Under(d, q)
  BY <1>1, ParentIs
<1>3. ASSUME Under(d, to) PROVE u[d] = Dir
  <2>1. d \notin L
    BY <1>3, UnderIs, UnderOrder
  <2> QED BY <1>3, <2>1, AncestorsAre
<1>4. CASE q \in L
  <2>1. CASE q = to
    BY <1>2, <1>3, <2>1
  <2>2. CASE q # to
    BY <1>2, <1>4, <2>2
  <2> QED BY <2>1, <2>2
<1>5. CASE q \notin L /\ q \in Ancestors(to)
  <2>1. Under(d, to)
    BY <1>2, <1>5, AncestorsAre, UnderIs, UnderOrder
  <2> QED BY <1>2, <1>3, <2>1
<1>6. CASE q \notin L /\ q \notin Ancestors(to)
  <2>1. t[q] # None
    BY <1>1, <1>6
  <2>2. t[d] = Dir
    BY <1>1, <1>2, <2>1 DEF Closed, HasParent
  <2>3. d \notin L
    <3>1. ASSUME AtOrUnder(to, d) PROVE FALSE
      <4>1. Under(to, d) \/ d = to
        BY <3>1, UnderIs
      <4> QED BY <2>2, <4>1, ClosedUp, Kinds
    <3> QED BY <3>1
  <2> QED BY <1>2, <2>2, <2>3
<1> QED BY <1>4, <1>5, <1>6

\* What replaces all there was at to and under it.
LEMMA CopyCloses ==
  ASSUME NEW t, Closed(t), NEW to \in Paths, NEW L \in SUBSET Paths,
         NEW w, \A q \in Paths : w[q] = IF AtOrUnder(to, q) THEN None ELSE t[q], HasParent(w, to),
         \A q \in L : AtOrUnder(to, q),
         NEW u, \A q \in L : q # to => ParentOf(q) \in L /\ u[ParentOf(q)] = Dir,
         \A q \in Paths \ L : u[q] = w[q]
  PROVE  Closed(u)
<1>1. Closed(w)
  BY WithoutCloses
<1>2. w[to] = None
  BY UnderOrder
<1>3. ASSUME NEW q \in Ancestors(to) PROVE w[q] = Dir
  <2>1. q \in Paths /\ Under(q, to)
    BY <1>3, AncestorsAre
  <2>2. ParentOf(to) \in Paths /\ ParentOf(to) # Root /\ AtOrUnder(q, ParentOf(to))
    <3>1. AtOrUnder(q, to) /\ to # q
      BY <2>1, UnderIs
    <3> QED BY <2>1, <3>1, ParentUnder, ParentIs
  <2>3. w[ParentOf(to)] = Dir
    BY <2>2 DEF HasParent
  <2>4. CASE q = ParentOf(to)
    BY <2>3, <2>4
  <2>5. CASE q # ParentOf(to)
    BY <1>1, <2>1, <2>2, <2>3, <2>5, ClosedUp, UnderIs, Kinds
  <2> QED BY <2>4, <2>5
<1>4. \A q \in Paths \ L : u[q] = IF q \in Ancestors(to) THEN Dir ELSE w[q]
  BY <1>3
<1> QED BY <1>1, <1>2, <1>4, LandCloses

LEMMA MovedCloses ==
  ASSUME NEW t, Closed(t), NEW from \in Paths, NEW to \in Paths,
         t[from] # None, t[to] = None, from # to, ~Under(from, to), HasParent(t, to),
         NEW S, S = {p \in Paths : AtOrUnder(from, p) /\ t[p] # None}, \A p \in S : Rebase(p, from, to) \in Paths,
         NEW u, \A q \in Paths : u[q] = IF AtOrUnder(to, q) /\ Rebase(q, to, from) \in S THEN t[Rebase(q, to, from)]
                                        ELSE IF AtOrUnder(from, q) THEN None ELSE t[q]
  PROVE  Closed(u)
<1>0. ~AtOrUnder(from, to)
  BY UnderIs
<1>1. SUFFICES ASSUME NEW q \in Paths, u[q] # None, ParentOf(q) # Root PROVE u[ParentOf(q)] = Dir
  BY DEF Closed, HasParent
<1>2. PICK d \in Paths : d = ParentOf(q) /\ Under(d, q)
  BY <1>1, ParentIs
<1>3. \A p \in Paths : t[p] # None => ~AtOrUnder(to, p)
  BY ClosedUp, UnderIs, Kinds
<1>4. CASE AtOrUnder(to, q) /\ Rebase(q, to, from) \in S
  <2>1. PICK p \in S : p = Rebase(q, to, from) /\ p \in Paths /\ AtOrUnder(from, p) /\ t[p] # None
    BY <1>4
  <2>2. CASE q = to
    <3>1. t[d] = Dir
      BY <1>1, <1>2, <2>2 DEF HasParent
    <3>2. ~AtOrUnder(from, d)
      BY <1>0, <1>1, <1>2, <2>2, ParentUnder
    <3>3. ~AtOrUnder(to, d)
      BY <1>3, <3>1, Kinds
    <3> QED BY <1>2, <3>1, <3>2, <3>3
  <2>3. CASE q # to
    <3>1. Under(to, q)
      BY <1>4, <2>3, UnderIs
    <3>2. AtOrUnder(to, d) /\ Rebase(d, to, from) \in Paths /\ ParentOf(p) = Rebase(d, to, from)
      BY <1>2, <2>1, <3>1, RebaseParent
    <3>3. AtOrUnder(from, Rebase(d, to, from))
      BY <3>2, RebaseBack
    <3>4. t[Rebase(d, to, from)] = Dir
      BY <2>1, <3>2, Depths DEF Closed, HasParent
    <3>5. Rebase(d, to, from) \in S
      BY <3>2, <3>3, <3>4, Kinds
    <3> QED BY <1>2, <3>2, <3>4, <3>5
  <2> QED BY <2>2, <2>3
<1>5. CASE ~(AtOrUnder(to, q) /\ Rebase(q, to, from) \in S)
  <2>1. t[q] # None /\ ~AtOrUnder(from, q)
    BY <1>1, <1>5
  <2>2. t[d] = Dir /\ ~AtOrUnder(from, d)
    BY <1>1, <1>2, <2>1, ParentUnder DEF Closed, HasParent
  <2>3. ~AtOrUnder(to, d)
    BY <1>3, <2>2, Kinds
  <2> QED BY <1>2, <2>2, <2>3
<1> QED BY <1>4, <1>5
-----------------------------------------------------------------------------
(* Restore.                                                                *)

LEMMA RowsAre ==
  ASSUME TInv, NEW b
  PROVE  \A t \in Rows(b) : t \in trash /\ t.batch = b /\ t.path \in Paths /\ t.row \in Keys \cup {Dir} /\ t.row # None
BY Kinds DEF TInv, Deleted, Rows

\* The first row of a deletion has all of it under it.
LEMMA RootIs ==
  ASSUME TInv, DeletionIsATree, NEW b, Rows(b) # {}
  PROVE  /\ RootOf(Rows(b)) \in Paths /\ \E t \in Rows(b) : t.path = RootOf(Rows(b))
         /\ \A t \in Rows(b) : /\ AtOrUnder(RootOf(Rows(b)), t.path)
                               /\ t.path # RootOf(Rows(b)) => \E d \in Rows(b) : d.path = ParentOf(t.path) /\ d.row = Dir
<1> DEFINE branch == Rows(b)
           ps == {t.path : t \in branch}
           T == {Depth(p) : p \in ps}
<1>1. ps \subseteq Paths /\ ps # {}
  BY RowsAre
<1>2. T \in SUBSET Nat /\ T # {}
  BY <1>1, Depths
<1>3. PICK m \in T : \A k \in T : m <= k
  <2> HIDE DEF T
  <2> QED BY <1>2, SmallestOf
<1>4. PICK p \in ps : Depth(p) = m
  BY <1>3
<1>5. \A t \in branch : Len(p) <= Len(t.path)
  BY <1>3, <1>4 DEF Depth
<1>6. PICK from : from = RootOf(branch)
  OBVIOUS
<1>7. from \in ps /\ \A t \in branch : Depth(from) <= Depth(t.path)
  BY <1>4, <1>5, <1>6 DEF RootOf, Depth
<1>8. PICK t0 \in branch : t0.path = from
  BY <1>7
<1>9. from \in Paths
  BY <1>1, <1>7
<1>10. ASSUME NEW t \in branch
       PROVE  \/ \A u \in branch : AtOrUnder(t.path, u.path)
              \/ \E d \in branch : d.path = ParentOf(t.path) /\ d.row = Dir
  BY RowsAre DEF DeletionIsATree
<1> HIDE DEF branch, ps, T
<1>11. \A t \in branch : t.path \in Paths
  BY RowsAre DEF branch
<1>12. \A u \in branch : AtOrUnder(from, u.path)
  <2>1. SUFFICES ASSUME NEW d \in branch, d.path = ParentOf(from) PROVE FALSE
    BY <1>8, <1>10
  <2>2. Depth(d.path) = Depth(from) - 1 /\ Depth(from) <= Depth(d.path) /\ Depth(from) \in Nat
    <3>1. d.path # Root
      BY <1>11, Depths
    <3> QED BY <1>7, <1>9, <2>1, <3>1, ParentIs, Depths
  <2> QED BY <2>2
<1>13. ASSUME NEW t \in branch, t.path # from PROVE \E d \in branch : d.path = ParentOf(t.path) /\ d.row = Dir
  <2>1. AtOrUnder(t.path, from) => t.path = from
    BY <1>9, <1>11, <1>12, UnderOrder
  <2> QED BY <1>8, <1>10, <1>13, <2>1
<1> QED BY <1>6, <1>8, <1>9, <1>12, <1>13 DEF branch

LEMMA CopyNameIs == ASSUME NEW p \in Paths, NEW n \in Candidates(p) PROVE CopyName(p, n) \in Paths /\ Depth(CopyName(p, n)) = Depth(p)
<1>1. CopyName(p, n) \in Paths
  BY DEF Candidates
<1>2. CASE n = 1
  BY <1>1, <1>2 DEF CopyName
<1>3. CASE n # 1
  <2> DEFINE e == <<p[Len(p)][1], p[Len(p)][2] + n - 1>>
             S == Names \cup {e}
  <2>1. CopyName(p, n) = Append(ParentOf(p), e)
    BY <1>3 DEF CopyName
  <2>2. PICK d : d = ParentOf(p)
    OBVIOUS
  <2>3. d \in Seq(Names) /\ Len(d) = Depth(p) - 1
    <3>1. CASE d = Root /\ Depth(p) = 1
      BY <3>1, EmptySeq DEF Root
    <3>2. CASE d \in Paths /\ Depth(d) = Depth(p) - 1
      BY <3>2, PathIs DEF Depth
    <3> QED BY <2>2, <3>1, <3>2, ParentIs
  <2> HIDE DEF e
  <2>4. d \in Seq(S) /\ e \in S
    BY <2>3, SeqMonotonic
  <2> HIDE DEF S
  <2>5. Len(Append(d, e)) = Len(d) + 1
    BY <2>4, AppendProperties
  <2>6. PICK k \in Nat : k = Depth(p)
    BY Depths
  <2>7. k - 1 + 1 = k
    OBVIOUS
  <2> QED BY <1>1, <2>1, <2>2, <2>3, <2>5, <2>6, <2>7 DEF Depth
<1> QED BY <1>2, <1>3

LEMMA FreeNameIs ==
  ASSUME NEW p \in Paths, \E n \in Candidates(p) : ~Occupied(CopyName(p, n))
  PROVE  FreeName(p) \in Paths /\ Depth(FreeName(p)) = Depth(p) /\ tree[FreeName(p)] = None
<1> DEFINE T == {n \in Candidates(p) : ~Occupied(CopyName(p, n))}
<1>1. T \in SUBSET Nat /\ T # {}
  BY Sizes DEF Candidates
<1>2. PICK n \in T : \A m \in T : n <= m
  <2> HIDE DEF T
  <2> QED BY <1>1, SmallestOf
<1>3. Candidates(p) \subseteq Nat
  BY Sizes DEF Candidates
<1>4. \A m \in Candidates(p) : m < n => Occupied(CopyName(p, m))
  BY <1>2, <1>3
<1> DEFINE c == CHOOSE k \in Candidates(p) :
                /\ ~Occupied(CopyName(p, k))
                /\ \A m \in Candidates(p) : m < k => Occupied(CopyName(p, m))
<1>5. c \in Candidates(p) /\ ~Occupied(CopyName(p, c))
  BY <1>2, <1>4
<1>6. FreeName(p) = CopyName(p, c)
  BY DEF FreeName
<1> HIDE DEF c
<1> QED BY <1>5, <1>6, CopyNameIs DEF Occupied

\* What Restore does: the rows of the deletion, beside what is there.
LEMMA RestoreIs ==
  ASSUME TInv, Once, DeletionIsATree, NEW b, Restore(b)
  PROVE  \E from, to \in Paths, L \in SUBSET Paths :
           /\ tree[to] = None /\ Reachable(to) /\ tree' \in Trees
           /\ \A q \in L : AtOrUnder(to, q) /\ tree'[q] # None /\ (q # to => ParentOf(q) \in L /\ tree'[ParentOf(q)] = Dir)
           /\ \A q \in Paths \ L : tree'[q] = IF q \in Ancestors(to) THEN Dir ELSE tree[q]
           /\ \A t \in Rows(b) : \E q \in L : tree'[q] = t.row
<1> DEFINE from == RootOf(Rows(b))
           to == FreeName(from)
           back(q) == {t \in Rows(b) : Rebase(t.path, from, to) = q}
           L == {q \in Paths : back(q) # {}}
<1>1. /\ from \in Paths
      /\ \A t \in Rows(b) : /\ AtOrUnder(from, t.path) /\ t.path \in Paths
                            /\ t.path # from => \E d \in Rows(b) : d.path = ParentOf(t.path) /\ d.row = Dir
  BY RootIs, RowsAre DEF Restore
<1>2. to \in Paths /\ Depth(to) = Depth(from) /\ tree[to] = None
  BY <1>1, FreeNameIs DEF Restore
<1>3. Reachable(to)
  BY DEF Restore
<1>4. \A q \in Paths : tree'[q] = IF back(q) # {} THEN (CHOOSE t \in back(q) : TRUE).row
                                  ELSE IF q \in Ancestors(to) THEN Dir ELSE tree[q]
  BY DEF Restore
<1>5. DOMAIN tree' = Paths /\ tree' = [q \in Paths |-> tree'[q]]
  BY DEF Restore
<1>6. PICK f \in Paths : f = from
  BY <1>1
<1>7. PICK o \in Paths : o = to
  BY <1>2
<1> HIDE DEF from, to
<1>8. ASSUME NEW t \in Rows(b) PROVE Rebase(t.path, from, to) \in Paths
  <2>1. Rebase(t.path, from, to) \in Seq(Names) /\ Depth(Rebase(t.path, from, to)) = Depth(to) + Depth(t.path) - Depth(from)
    BY <1>1, <1>2, RebaseIs DEF IsRebased
  <2>2. Depth(to) + Depth(t.path) - Depth(from) = Depth(t.path)
    BY <1>1, <1>2, Depths
  <2> QED BY <1>1, <2>1, <2>2, Depths, PathIs, Sizes DEF Depth
<1>9. ASSUME NEW t \in Rows(b), NEW u \in Rows(b), Rebase(t.path, from, to) = Rebase(u.path, from, to) PROVE t = u
  <2>1. t.path = u.path
    BY <1>1, <1>2, <1>8, <1>9, RebaseBack
  <2> QED BY <2>1, RowsAre DEF Once
<1>10. ASSUME NEW t \in Rows(b) PROVE Rebase(t.path, from, to) \in L /\ tree'[Rebase(t.path, from, to)] = t.row
  <2>1. t \in back(Rebase(t.path, from, to))
    OBVIOUS
  <2>2. \A u \in back(Rebase(t.path, from, to)) : u = t
    BY <1>9
  <2>3. (CHOOSE u \in back(Rebase(t.path, from, to)) : TRUE) = t
    BY <2>1, <2>2
  <2> HIDE DEF back
  <2> QED BY <1>4, <1>8, <2>1, <2>3
<1>11. \A q \in L : \E t \in Rows(b) : q = Rebase(t.path, from, to)
  OBVIOUS
<1>12. \A q \in Paths \ L : tree'[q] = IF q \in Ancestors(to) THEN Dir ELSE tree[q]
  BY <1>4
<1> HIDE DEF L, back
<1>13. ASSUME NEW q \in L
       PROVE  AtOrUnder(to, q) /\ tree'[q] \in Keys \cup {Dir} /\ (q # to => ParentOf(q) \in L /\ tree'[ParentOf(q)] = Dir)
  <2>1. PICK t \in Rows(b) : q = Rebase(t.path, from, to)
    BY <1>11
  <2>2. AtOrUnder(to, q) /\ (q = to <=> t.path = from)
    BY <1>1, <1>2, <1>8, <2>1, RebaseBack
  <2>3. tree'[q] = t.row /\ t.row \in Keys \cup {Dir}
    BY <1>10, <2>1, RowsAre
  <2>4. ASSUME q # to PROVE ParentOf(q) \in L /\ tree'[ParentOf(q)] = Dir
    <3>1. PICK d \in Rows(b) : d.path = ParentOf(t.path) /\ d.row = Dir
      BY <1>1, <2>2, <2>4
    <3>2. Under(from, t.path)
      BY <1>1, <2>2, <2>4, UnderIs
    <3>3. ParentOf(q) = Rebase(d.path, from, to)
      BY <1>1, <1>2, <1>8, <2>1, <3>1, <3>2, RebaseParent
    <3> QED BY <1>10, <3>1, <3>3
  <2> QED BY <2>2, <2>3, <2>4
<1>14. tree' \in Trees
  <2>1. \A q \in Paths : tree'[q] \in Keys \cup {Dir, None}
    BY <1>12, <1>13 DEF TInv
  <2> QED BY <1>5, <2>1 DEF Trees
<1>15. L \in SUBSET Paths
  BY DEF L
<1> QED BY <1>1, <1>2, <1>3, <1>10, <1>12, <1>13, <1>14, <1>15, Kinds
-----------------------------------------------------------------------------
(* What a step does to the tree.                                           *)

PutsRow(p, row) ==
  /\ HasParent(tree, p) /\ row \in Keys \cup {Dir} /\ (row = Dir \/ tree[p] # Dir)
  /\ tree' = [tree EXCEPT ![p] = row]

Moves(from, to) == CanMove(from, to) /\ Fits(Subtree(from), from, to) /\ tree' = Moved(from, to)

Lands(to, L) ==
  /\ tree[to] = None /\ Reachable(to) /\ tree' \in Trees
  /\ \A q \in L : AtOrUnder(to, q) /\ tree'[q] # None /\ (q # to => ParentOf(q) \in L /\ tree'[ParentOf(q)] = Dir)
  /\ \A q \in Paths \ L : tree'[q] = IF q \in Ancestors(to) THEN Dir ELSE tree[q]

LEMMA TreeSteps ==
  ASSUME TInv, Once, DeletionIsATree, [Next]_vars
  PROVE  \/ tree' = tree
         \/ \E p \in Paths : \E row : PutsRow(p, row)
         \/ \E p \in Paths : tree' = Without(p)
         \/ \E from, to \in Paths : Moves(from, to)
         \/ \E to \in Paths, L \in SUBSET Paths : Lands(to, L)
         \/ \E r \in Procs : CommitCopies(r)
<1>1. ASSUME NEW p \in Paths, Mkdir(p) PROVE PutsRow(p, Dir)
  BY <1>1 DEF Mkdir, PutsRow
<1>2. ASSUME NEW p \in Paths, Remove(p) PROVE tree' = Without(p)
  BY <1>2 DEF Remove
<1>3. ASSUME NEW p \in Paths, NEW q \in Paths, Rename(p, q) PROVE Moves(p, q)
  BY <1>3 DEF Rename, Moves
<1>4. ASSUME NEW b, Restore(b) PROVE \E to \in Paths, L \in SUBSET Paths : Lands(to, L)
  BY <1>4, RestoreIs DEF Lands
<1>5. ASSUME NEW p \in Paths, NEW row \in Fresh \cup {Dir}, Adopt(p, row) PROVE Lands(p, {p})
  <2>1. tree[p] = None /\ Reachable(p) /\ row \in Keys \cup {Dir} /\ row # None
    BY <1>5, Kinds DEF Adopt, Occupied, Fresh
  <2>2. tree' = [q \in Paths |-> IF q = p THEN row ELSE IF q \in Ancestors(p) THEN Dir ELSE tree[q]]
    BY <1>5 DEF Adopt
  <2>3. tree' \in Trees
    BY <2>1, <2>2 DEF Trees, TInv
  <2> QED BY <2>1, <2>2, <2>3 DEF Lands, AtOrUnder
<1>6. ASSUME NEW r \in Procs, WriteRow(r) PROVE \E p \in Paths : \E row : PutsRow(p, row)
  <2>1. req[r].to \in Paths
    BY <1>6 DEF WriteRow, TInv, Asked
  <2>2. PICK k \in Keys : tree' = [tree EXCEPT ![req[r].to] = k]
    BY <1>6 DEF WriteRow, Fresh
  <2>3. HasParent(tree, req[r].to) /\ tree[req[r].to] # Dir
    BY <1>6 DEF WriteRow
  <2> QED BY <2>1, <2>2, <2>3 DEF PutsRow
<1>7. ASSUME NEW r \in Procs, MkdirAllMake(r) PROVE tree' = tree \/ \E p \in Paths : \E row : PutsRow(p, row)
  <2>1. req[r].to \in Paths /\ req[r].n \in 1..(Depth(req[r].to) - 1)
    BY <1>7 DEF MkdirAllMake, TInv, Asked, Depth
  <2>2. Walked(r) \in Paths
    <3>1. req[r].n \in 1..Depth(req[r].to)
      BY <2>1, Depths
    <3> QED BY <2>1, <3>1, CutIs DEF Walked
  <2>3. tree' = tree \/ (HasParent(tree, Walked(r)) /\ tree' = [tree EXCEPT ![Walked(r)] = Dir])
    BY <1>7 DEF MkdirAllMake
  <2> QED BY <2>2, <2>3 DEF PutsRow
<1>8. ASSUME NEW r \in Procs, MoveClear(r) PROVE \E p \in Paths : tree' = Without(p)
  BY <1>8 DEF MoveClear, TInv, Asked
<1>9. ASSUME NEW r \in Procs, MoveRows(r) PROVE \E from, to \in Paths : Moves(from, to)
  BY <1>9 DEF MoveRows, TInv, Asked, Moves
<1>10. ASSUME NEW r \in Procs, Request(r), ~WriteRow(r), ~MkdirAllMake(r), ~MoveClear(r), ~MoveRows(r), ~CommitCopies(r)
       PROVE  tree' = tree
  BY <1>10 DEF Request, Create, Upload, Share, WriteFails, MkdirAllStat, FreeNameStat, MoveStat, MoveFails, CopyStat,
               PlanDir, CopyBytes, CopyFails
<1>11. ASSUME NEW b, DestroyTrashed(b) PROVE tree' = tree
  BY <1>11 DEF DestroyTrashed
<1>12. CASE Statement
  BY <1>1, <1>2, <1>3, <1>4, <1>5, <1>11, <1>12 DEF Statement
<1>13. CASE \E r \in Procs : Request(r)
  BY <1>6, <1>7, <1>8, <1>9, <1>10, <1>13
<1>14. CASE UNCHANGED vars
  BY <1>14 DEF vars
<1> QED BY <1>12, <1>13, <1>14 DEF Next

LEMMA PairIs == ASSUME NEW S, NEW T, NEW x \in S \X T PROVE x[1] \in S /\ x[2] \in T /\ x = <<x[1], x[2]>>
OBVIOUS

LEMMA Pairs == \A x \in Paths \X {TRUE, FALSE} : \E p \in Paths : x = <<p, TRUE>> \/ x = <<p, FALSE>>
<1>1. SUFFICES ASSUME NEW x \in Paths \X {TRUE, FALSE} PROVE \E p \in Paths : x = <<p, TRUE>> \/ x = <<p, FALSE>>
  OBVIOUS
<1>2. x[1] \in Paths /\ x[2] \in {TRUE, FALSE} /\ x = <<x[1], x[2]>>
  BY PairIs, Zenon
<1>3. (x[2] = TRUE) \/ (x[2] = FALSE)
  BY <1>2, Zenon
<1> QED BY <1>2, <1>3, Zenon

LEMMA Halves ==
  ASSUME NEW plan \in SUBSET (Paths \X {TRUE, FALSE})
  PROVE  /\ \A q \in {x[1] : x \in {y \in plan : y[2]}} : <<q, TRUE>> \in plan
         /\ \A q \in {x[1] : x \in {y \in plan : ~y[2]}} : <<q, FALSE>> \in plan
<1>1. ASSUME NEW x \in plan PROVE (x[2] => <<x[1], TRUE>> \in plan) /\ (~x[2] => <<x[1], FALSE>> \in plan)
  <2>1. PICK p \in Paths : x = <<p, TRUE>> \/ x = <<p, FALSE>>
    BY Pairs
  <2>2. CASE x = <<p, TRUE>>
    BY <2>2
  <2>3. CASE x = <<p, FALSE>>
    BY <2>3
  <2> QED BY <2>1, <2>2, <2>3
<1> QED BY <1>1

\* commitCopies: the plan takes the place of the destination.
LEMMA CommitIs ==
  ASSUME TInv, NEW r \in Procs, CommitCopies(r), Planned(req[r])
  PROVE  \E to \in Paths, L \in SUBSET Paths :
           /\ to = req[r].to /\ tree' \in Trees /\ HasParent(Without(to), to)
           /\ \A q \in L : AtOrUnder(to, q) /\ tree'[q] # None /\ (q # to => ParentOf(q) \in L /\ tree'[ParentOf(q)] = Dir)
           /\ \A q \in Paths \ L : tree'[q] = Without(to)[q]
<1> DEFINE to == req[r].to
           plan == req[r].plan
           dirs  == {x[1] : x \in {y \in plan : y[2]}}
           leafs == {x[1] : x \in {y \in plan : ~y[2]}}
           L == dirs \cup leafs
<1>1. to \in Paths /\ plan \subseteq Paths \X {TRUE, FALSE} /\ HasParent(Without(to), to)
  BY DEF CommitCopies, TInv, Asked, Reqs
<1>2. PICK key \in [leafs -> Fresh] :
        tree' = [q \in Paths |-> CASE q \in leafs -> key[q] [] q \in dirs -> Dir [] OTHER -> Without(to)[q]]
  BY DEF CommitCopies
<1>3. /\ \A x \in plan : AtOrUnder(to, x[1]) /\ (x[1] # to => <<ParentOf(x[1]), TRUE>> \in plan)
      /\ \A x, y \in plan : x[1] = y[1] => x = y
  BY DEF Planned, CommitCopies
<1>4. \A q \in Paths : Without(to)[q] \in Keys \cup {Dir, None}
  BY DEF Without, TInv
<1>5. \A q \in leafs : key[q] \in Keys /\ key[q] # None
  BY Kinds DEF Fresh
<1> HIDE DEF plan, to
<1>6. L \in SUBSET Paths
  BY <1>1
<1>7. \A q \in dirs : <<q, TRUE>> \in plan
  BY <1>1, Halves
<1>8. \A q \in leafs : <<q, FALSE>> \in plan
  BY <1>1, Halves
<1>9. \A q \in dirs : q \notin leafs
  <2>1. ASSUME NEW q \in dirs, q \in leafs PROVE FALSE
    <3>1. <<q, TRUE>> = <<q, FALSE>>
      BY <1>3, <1>7, <1>8, <2>1
    <3> QED BY <3>1
  <2> QED BY <2>1
<1>10. \A q \in L : <<q, TRUE>> \in plan \/ <<q, FALSE>> \in plan
  BY <1>7, <1>8
<1>11. \A q : <<q, TRUE>> \in plan => q \in dirs
  <2>1. ASSUME NEW q, <<q, TRUE>> \in plan PROVE q \in dirs
    <3>1. <<q, TRUE>> \in {y \in plan : y[2]}
      BY <2>1
    <3>2. <<q, TRUE>>[1] = q
      OBVIOUS
    <3> QED BY <3>1, <3>2
  <2> QED BY <2>1
<1>12. \A q \in L : AtOrUnder(to, q) /\ (q # to => ParentOf(q) \in dirs)
  <2>1. ASSUME NEW q \in L PROVE AtOrUnder(to, q) /\ (q # to => <<ParentOf(q), TRUE>> \in plan)
    <3>1. PICK x \in plan : x[1] = q
      BY <1>10, <2>1
    <3> QED BY <1>3, <3>1
  <2> QED BY <1>11, <2>1
<1> HIDE DEF dirs, leafs
<1>13. \A q \in dirs : q \in Paths /\ tree'[q] = Dir
  BY <1>2, <1>6, <1>9
<1>14. \A q \in leafs : q \in Paths /\ tree'[q] = key[q]
  BY <1>2, <1>6, <1>9
<1>15. \A q \in Paths \ L : tree'[q] = Without(to)[q]
  BY <1>2
<1>16. tree' \in Trees
  <2>1. \A q \in Paths : tree'[q] \in Keys \cup {Dir, None}
    BY <1>4, <1>5, <1>13, <1>14, <1>15
  <2>2. DOMAIN tree' = Paths /\ tree' = [q \in Paths |-> tree'[q]]
    BY <1>2
  <2> QED BY <2>1, <2>2 DEF Trees
<1>17. \A q \in L : AtOrUnder(to, q) /\ tree'[q] # None /\ (q # to => ParentOf(q) \in L /\ tree'[ParentOf(q)] = Dir)
  BY <1>5, <1>12, <1>13, <1>14, Kinds
<1> QED BY <1>1, <1>6, <1>15, <1>16, <1>17 DEF to

LEMMA StillClosed ==
  ASSUME TInv, Once, DeletionIsATree, TreeClosed, \A r \in Procs : Planned(req[r]), [Next]_vars
  PROVE  TreeClosed' /\ tree' \in Trees
<1>0. Closed(tree) /\ tree \in Trees
  BY DEF TInv, Trees, TreeClosed, Closed, Occupied
<1>1. SUFFICES Closed(tree') /\ tree' \in Trees
  BY DEF TreeClosed, Closed, Occupied
<1>2. CASE tree' = tree
  BY <1>0, <1>2
<1>3. ASSUME NEW p \in Paths, NEW row, PutsRow(p, row) PROVE Closed(tree') /\ tree' \in Trees
  <2>1. tree' \in Trees /\ \A q \in Paths : tree'[q] = IF q = p THEN row ELSE tree[q]
    BY <1>0, <1>3 DEF PutsRow, Trees
  <2>2. row # None /\ HasParent(tree, p) /\ (row = Dir \/ tree[p] # Dir)
    BY <1>3, Kinds DEF PutsRow
  <2> QED BY <1>0, <2>1, <2>2, PutCloses
<1>4. ASSUME NEW p \in Paths, tree' = Without(p) PROVE Closed(tree') /\ tree' \in Trees
  <2>1. tree' \in Trees /\ \A q \in Paths : tree'[q] = IF AtOrUnder(p, q) THEN None ELSE tree[q]
    BY <1>0, <1>4 DEF Without, Trees
  <2> QED BY <1>0, <2>1, WithoutCloses
<1>5. ASSUME NEW from \in Paths, NEW to \in Paths, Moves(from, to) PROVE Closed(tree') /\ tree' \in Trees
  <2>1. tree' = Moved(from, to) /\ CanMove(from, to) /\ \A p \in Subtree(from) : Rebase(p, from, to) \in Paths
    BY <1>5 DEF Moves, Fits
  <2>2. \A q \in Paths : tree'[q] = IF AtOrUnder(to, q) /\ Rebase(q, to, from) \in Subtree(from) THEN tree[Rebase(q, to, from)]
                                     ELSE IF AtOrUnder(from, q) THEN None ELSE tree[q]
    BY <2>1 DEF Moved
  <2>3. Subtree(from) = {p \in Paths : AtOrUnder(from, p) /\ tree[p] # None}
    BY DEF Subtree, Occupied
  <2>4. tree[from] # None /\ tree[to] = None /\ from # to /\ ~Under(from, to) /\ HasParent(tree, to)
    BY <2>1 DEF CanMove, Occupied
  <2>5. Closed(tree')
    BY <1>0, <2>1, <2>2, <2>3, <2>4, MovedCloses
  <2>6. tree' \in Trees
    <3>1. \A q \in Paths : tree'[q] \in Keys \cup {Dir, None}
      BY <1>0, <2>2, <2>3 DEF Trees
    <3>2. tree' = [q \in Paths |-> tree'[q]]
      BY <2>1 DEF Moved
    <3> QED BY <3>1, <3>2 DEF Trees
  <2> QED BY <2>5, <2>6
<1>6. ASSUME NEW to \in Paths, NEW L \in SUBSET Paths, Lands(to, L) PROVE Closed(tree') /\ tree' \in Trees
  <2>1. /\ tree[to] = None /\ tree' \in Trees /\ \A q \in L : AtOrUnder(to, q)
        /\ \A q \in L : q # to => ParentOf(q) \in L /\ tree'[ParentOf(q)] = Dir
        /\ \A q \in Paths \ L : tree'[q] = IF q \in Ancestors(to) THEN Dir ELSE tree[q]
    BY <1>6 DEF Lands
  <2> QED BY <1>0, <2>1, LandCloses
<1>7. ASSUME NEW r \in Procs, CommitCopies(r) PROVE Closed(tree') /\ tree' \in Trees
  <2>1. PICK to \in Paths, L \in SUBSET Paths :
           /\ tree' \in Trees /\ HasParent(Without(to), to)
           /\ \A q \in L : AtOrUnder(to, q) /\ (q # to => ParentOf(q) \in L /\ tree'[ParentOf(q)] = Dir)
           /\ \A q \in Paths \ L : tree'[q] = Without(to)[q]
    BY <1>7, CommitIs
  <2>2. \A q \in Paths : Without(to)[q] = IF AtOrUnder(to, q) THEN None ELSE tree[q]
    BY DEF Without
  <2> QED BY <1>0, <2>1, <2>2, CopyCloses
<1> QED BY <1>2, <1>3, <1>4, <1>5, <1>6, <1>7, TreeSteps
-----------------------------------------------------------------------------
(* The requests.                                                           *)

\* A step of a request leaves it with the fields q.
Leaves(r, q) == q \in Reqs /\ Asked(q) /\ Planned(q) /\ req' = [req EXCEPT ![r] = q]

LEMMA IdleIs == Idle \in Reqs /\ Asked(Idle) /\ Planned(Idle) /\ Idle.plan = {} /\ Idle.todo = {}
BY Sizes DEF Idle, Reqs, Ops, Asked, Planned

LEMMA DoneIs == ASSUME TInv, NEW r \in Procs, Done(r) PROVE Leaves(r, Idle)
BY IdleIs DEF Done, Serve, Leaves

\* Requests that have only begun.
LEMMA Asks ==
  ASSUME NEW q \in Reqs, q.op \notin {"idle", "mkdirs", "mkdir", "name", "plan", "copy"},
         q.to \in Paths, q.op \in {"clear", "move"} => q.from \in Paths
  PROVE  Asked(q) /\ Planned(q)
BY DEF Asked, Planned

LEMMA BeginIs ==
  ASSUME TInv, NEW r \in Procs,
         \/ \E p \in Paths : \E seen \in {"any", tree[p]} : Create(r, p, seen)
         \/ \E p \in Paths : Upload(r, p)
         \/ \E p, q \in Paths : MoveStat(r, p, q)
  PROVE  \E q : Leaves(r, q)
<1>1. ASSUME NEW p \in Paths, NEW seen \in {"any", tree[p]}, Create(r, p, seen) PROVE \E q : Leaves(r, q)
  <2> DEFINE q == [Idle EXCEPT !.op = "put", !.to = p, !.seen = seen]
  <2>1. seen \in Keys \cup {None, Dir, "any"}
    BY DEF TInv
  <2>2. q \in Reqs /\ q.op = "put" /\ q.to = p
    BY <2>1, IdleIs DEF Reqs, Ops
  <2>3. Asked(q) /\ Planned(q)
    <3> HIDE DEF q
    <3> QED BY <2>2, Asks
  <2> QED BY <1>1, <2>2, <2>3 DEF Create, Serve, Leaves
<1>2. ASSUME NEW p \in Paths, Upload(r, p) PROVE \E q : Leaves(r, q)
  <2> DEFINE q == [Idle EXCEPT !.op = "upload", !.to = p]
  <2>1. q \in Reqs /\ q.op = "upload" /\ q.to = p
    BY IdleIs DEF Reqs, Ops
  <2>2. Asked(q) /\ Planned(q)
    <3> HIDE DEF q
    <3> QED BY <2>1, Asks
  <2> QED BY <1>2, <2>1, <2>2 DEF Upload, Serve, Leaves
<1>3. ASSUME NEW from \in Paths, NEW to \in Paths, MoveStat(r, from, to) PROVE \E q : Leaves(r, q)
  <2> DEFINE op == IF Occupied(to) THEN "clear" ELSE "move"
             q == [Idle EXCEPT !.op = op, !.from = from, !.to = to]
  <2>2. op \in {"clear", "move"}
    OBVIOUS
  <2>3. req' = [req EXCEPT ![r] = [Idle EXCEPT !.op = op, !.from = from, !.to = to]]
    BY <1>3 DEF MoveStat, Serve
  <2> HIDE DEF op
  <2>4. q \in Reqs /\ q.op = op /\ q.to = to /\ q.from = from
    BY <2>2, IdleIs DEF Reqs, Ops
  <2>5. Asked(q) /\ Planned(q)
    <3> HIDE DEF q
    <3> QED BY <2>2, <2>4, Asks
  <2> QED BY <2>3, <2>4, <2>5 DEF Leaves
<1> QED BY <1>1, <1>2, <1>3

\* MkdirAll and FreeName count what they look at.
LEMMA WalkIs ==
  ASSUME TInv, NEW r \in Procs,
         (\E p \in Paths : Share(r, p)) \/ MkdirAllStat(r) \/ MkdirAllMake(r) \/ FreeNameStat(r)
  PROVE  \E q : Leaves(r, q)
<1>0. PICK p \in Reqs : p = req[r] /\ Asked(p)
  BY DEF TInv
<1>1. \A q \in Paths : Len(q) \in Nat /\ Len(q) >= 1 /\ Len(q) <= MaxDepth
  BY Depths DEF Depth
<1>2. ASSUME NEW q \in Paths, Share(r, q) PROVE \E x : Leaves(r, x)
  <2> DEFINE x == [Idle EXCEPT !.op = "mkdirs", !.to = q, !.n = 1]
  <2>2. 1 \in 1..Len(q) /\ 1 \in 0..(MaxDepth + MaxCopies)
    BY <1>1, Sizes
  <2>3. x \in Reqs /\ x.op = "mkdirs" /\ x.to = q /\ x.n = 1
    BY <2>2, IdleIs DEF Reqs, Ops
  <2>4. Asked(x) /\ Planned(x)
    <3> HIDE DEF x
    <3> QED BY <2>2, <2>3 DEF Asked, Planned
  <2> QED BY <1>2, <2>3, <2>4 DEF Share, Serve, Leaves
<1>3. CASE MkdirAllStat(r)
  <2>1. p.op = "mkdirs" /\ p.to \in Paths /\ p.n \in 1..Len(p.to)
    BY <1>0, <1>3 DEF MkdirAllStat, Asked
  <2>2. \/ req' = [req EXCEPT ![r] = [p EXCEPT !.op = "name", !.n = 1]]
        \/ p.n # Len(p.to) /\ req' = [req EXCEPT ![r] = [p EXCEPT !.n = p.n + 1]]
        \/ p.n # Len(p.to) /\ req' = [req EXCEPT ![r] = [p EXCEPT !.op = "mkdir"]]
        \/ Done(r)
    BY <1>0, <1>3 DEF MkdirAllStat, Serve
  <2>3. Leaves(r, [p EXCEPT !.op = "name", !.n = 1]) \/ ~(req' = [req EXCEPT ![r] = [p EXCEPT !.op = "name", !.n = 1]])
    <3>1. 1 \in 1..(MaxCopies + 1) /\ 1 \in 0..(MaxDepth + MaxCopies)
      BY Sizes
    <3> QED BY <2>1, <3>1 DEF Leaves, Reqs, Ops, Asked, Planned
  <2>4. ASSUME p.n # Len(p.to), req' = [req EXCEPT ![r] = [p EXCEPT !.n = p.n + 1]]
        PROVE  Leaves(r, [p EXCEPT !.n = p.n + 1])
    <3>1. p.n + 1 \in 1..Len(p.to) /\ p.n + 1 \in 0..(MaxDepth + MaxCopies)
      BY <1>1, <2>1, <2>4, Sizes
    <3> QED BY <2>1, <2>4, <3>1 DEF Leaves, Reqs, Ops, Asked, Planned
  <2>5. ASSUME p.n # Len(p.to), req' = [req EXCEPT ![r] = [p EXCEPT !.op = "mkdir"]]
        PROVE  Leaves(r, [p EXCEPT !.op = "mkdir"])
    <3>1. p.n \in 1..(Len(p.to) - 1)
      BY <1>1, <2>1, <2>5
    <3> QED BY <2>1, <2>5, <3>1 DEF Leaves, Reqs, Ops, Asked, Planned
  <2> QED BY <2>2, <2>3, <2>4, <2>5, DoneIs
<1>4. CASE MkdirAllMake(r)
  <2>1. p.op = "mkdir" /\ p.to \in Paths /\ p.n \in 1..(Len(p.to) - 1)
    BY <1>0, <1>4 DEF MkdirAllMake, Asked
  <2>2. Done(r) \/ req' = [req EXCEPT ![r] = [p EXCEPT !.op = "mkdirs", !.n = p.n + 1]]
    BY <1>0, <1>4 DEF MkdirAllMake, Serve
  <2>3. ASSUME req' = [req EXCEPT ![r] = [p EXCEPT !.op = "mkdirs", !.n = p.n + 1]]
        PROVE  Leaves(r, [p EXCEPT !.op = "mkdirs", !.n = p.n + 1])
    <3>1. p.n + 1 \in 1..Len(p.to) /\ p.n + 1 \in 0..(MaxDepth + MaxCopies)
      BY <1>1, <2>1, Sizes
    <3> QED BY <2>1, <2>3, <3>1 DEF Leaves, Reqs, Ops, Asked, Planned
  <2> QED BY <2>2, <2>3, DoneIs
<1>5. CASE FreeNameStat(r)
  <2>1. p.op = "name" /\ p.to \in Paths
    BY <1>0, <1>5 DEF FreeNameStat, Asked
  <2>2. \/ Done(r)
        \/ p.n \in Candidates(p.to) /\ req' = [req EXCEPT ![r] = [p EXCEPT !.n = p.n + 1]]
        \/ p.n \in Candidates(p.to) /\ req' = [req EXCEPT ![r] = [Idle EXCEPT !.op = "share", !.to = CopyName(p.to, p.n)]]
    BY <1>0, <1>5 DEF FreeNameStat, Serve
  <2>3. ASSUME p.n \in Candidates(p.to), req' = [req EXCEPT ![r] = [p EXCEPT !.n = p.n + 1]]
        PROVE  Leaves(r, [p EXCEPT !.n = p.n + 1])
    <3>1. p.n + 1 \in 1..(MaxCopies + 1) /\ p.n + 1 \in 0..(MaxDepth + MaxCopies)
      BY <2>3, Sizes DEF Candidates
    <3> QED BY <2>1, <2>3, <3>1 DEF Leaves, Reqs, Ops, Asked, Planned
  <2>4. ASSUME p.n \in Candidates(p.to),
               req' = [req EXCEPT ![r] = [Idle EXCEPT !.op = "share", !.to = CopyName(p.to, p.n)]]
        PROVE  \E x : Leaves(r, x)
    <3>1. PICK c \in Paths : c = CopyName(p.to, p.n)
      BY <2>4 DEF Candidates
    <3> DEFINE x == [Idle EXCEPT !.op = "share", !.to = c]
    <3>2. x \in Reqs /\ x.op = "share" /\ x.to = c
      BY IdleIs DEF Reqs, Ops
    <3>3. Asked(x) /\ Planned(x)
      <4> HIDE DEF x
      <4> QED BY <3>2, Asks
    <3> QED BY <2>4, <3>1, <3>2, <3>3 DEF Leaves
  <2> QED BY <2>2, <2>3, <2>4, DoneIs
<1> QED BY <1>2, <1>3, <1>4, <1>5

\* The end of a request, and the steps that only turn a page.
LEMMA EndIs ==
  ASSUME TInv, \A r \in Procs : Planned(req[r]), NEW r \in Procs,
         \/ WriteRow(r) \/ WriteFails(r) \/ MoveClear(r) \/ MoveRows(r) \/ MoveFails(r)
         \/ CopyBytes(r) \/ CommitCopies(r) \/ CopyFails(r)
  PROVE  \E q : Leaves(r, q)
<1>0. PICK p \in Reqs : p = req[r] /\ Asked(p) /\ Planned(p)
  BY DEF TInv
<1>1. CASE WriteRow(r) \/ WriteFails(r) \/ MoveRows(r) \/ MoveFails(r) \/ CommitCopies(r) \/ CopyFails(r)
  <2>1. Done(r)
    BY <1>1 DEF WriteRow, WriteFails, MoveRows, MoveFails, CommitCopies, CopyFails
  <2> QED BY <2>1, DoneIs
<1>2. CASE MoveClear(r)
  <2> DEFINE q == [p EXCEPT !.op = "move"]
  <2>1. req' = [req EXCEPT ![r] = q]
    BY <1>0, <1>2 DEF MoveClear, Serve
  <2>2. p.op = "clear" /\ p.to \in Paths /\ p.from \in Paths
    BY <1>0, <1>2 DEF MoveClear, Asked
  <2>3. q \in Reqs /\ q.op = "move" /\ q.to \in Paths /\ q.from \in Paths
    BY <2>2 DEF Reqs, Ops
  <2> HIDE DEF q
  <2> QED BY <2>1, <2>3, Asks DEF Leaves
<1>3. CASE CopyBytes(r)
  <2> DEFINE q == [p EXCEPT !.op = "copy"]
  <2>1. req' = [req EXCEPT ![r] = q]
    BY <1>0, <1>3 DEF CopyBytes, Serve
  <2>2. p.op = "plan" /\ p.to \in Paths /\ p.from \in Paths
    BY <1>0, <1>3 DEF CopyBytes, Asked
  <2>3. q \in Reqs /\ q.op = "copy" /\ q.to = p.to /\ q.from = p.from /\ q.plan = p.plan /\ q.todo = p.todo
    BY DEF Reqs, Ops
  <2> HIDE DEF q
  <2>4. Asked(q)
    BY <2>2, <2>3 DEF Asked
  <2>5. Planned(q)
    BY <1>0, <2>2, <2>3 DEF Planned
  <2> QED BY <2>1, <2>3, <2>4, <2>5 DEF Leaves
<1> QED BY <1>1, <1>2, <1>3

\* A copy begins with its destination in the plan and its source to be listed.
LEMMA CopyStatIs ==
  ASSUME TInv, NEW r \in Procs, NEW from \in Paths, NEW to \in Paths, NEW deep \in BOOLEAN, CopyStat(r, from, to, deep)
  PROVE  \E q : Leaves(r, q)
<1> DEFINE pair == <<to, tree[from] = Dir>>
           todo == IF deep /\ tree[from] = Dir THEN {from} ELSE {}
           q == [Idle EXCEPT !.op = "plan", !.from = from, !.to = to, !.plan = {pair}, !.todo = todo]
<1>1. req' = [req EXCEPT ![r] = q]
  BY DEF CopyStat, Serve
<1>2. pair = <<to, TRUE>> \/ (pair = <<to, FALSE>> /\ todo = {})
  <2>1. CASE tree[from] = Dir
    <3>1. (tree[from] = Dir) = TRUE
      BY <2>1
    <3> QED BY <3>1
  <2>2. CASE tree[from] # Dir
    <3>1. (tree[from] = Dir) = FALSE
      BY <2>2
    <3> QED BY <2>2, <3>1
  <2> QED BY <2>1, <2>2
<1>3. todo = {} \/ todo = {from}
  OBVIOUS
<1> HIDE DEF pair, todo
<1>4. pair \in Paths \X {TRUE, FALSE} /\ pair[1] = to
  <2>1. CASE pair = <<to, TRUE>>
    BY <2>1
  <2>2. CASE pair = <<to, FALSE>>
    BY <2>2
  <2> QED BY <1>2, <2>1, <2>2
<1>5. q \in Reqs /\ q.op = "plan" /\ q.from = from /\ q.to = to /\ q.plan = {pair} /\ q.todo = todo
  <2>1. {pair} \in SUBSET (Paths \X {TRUE, FALSE}) /\ todo \in SUBSET Paths
    BY <1>3, <1>4
  <2> HIDE DEF pair
  <2> QED BY <2>1, IdleIs DEF Reqs, Ops
<1> HIDE DEF q
<1>6. Asked(q)
  BY <1>5 DEF Asked
<1>7. AtOrUnder(to, to) /\ AtOrUnder(from, from) /\ ~Under(to, to)
  BY UnderIs, UnderOrder
<1>8. Rebase(from, from, to) = to
  <2>1. Rebase(from, from, to) \in Seq(Names) /\ Depth(Rebase(from, from, to)) = Depth(to) + Depth(from) - Depth(from)
    BY <1>7, RebaseIs DEF IsRebased
  <2>2. Depth(to) + Depth(from) - Depth(from) = Depth(to)
    BY Depths
  <2>3. Rebase(from, from, to) \in Paths
    BY <2>1, <2>2, Depths, PathIs, Sizes DEF Depth
  <2> QED BY <1>7, <2>3, RebaseBack
<1>9. ASSUME NEW d \in todo PROVE AtOrUnder(from, d) /\ Rebase(d, from, to) = to /\ pair = <<to, TRUE>>
  BY <1>2, <1>3, <1>7, <1>8
<1>10. Planned(q)
  BY <1>4, <1>5, <1>7, <1>9 DEF Planned
<1> QED BY <1>1, <1>5, <1>6, <1>10 DEF Leaves

\* Listing a directory adds what is in it, which nothing in the plan was.
LEMMA PlanDirIs ==
  ASSUME TInv, \A r \in Procs : Planned(req[r]), NEW r \in Procs, NEW d \in Paths, PlanDir(r, d)
  PROVE  \E q : Leaves(r, q)
<1>0. PICK p \in Reqs : p = req[r] /\ Asked(p) /\ Planned(p)
  BY DEF TInv
<1>1. PICK from, to \in Paths : from = p.from /\ to = p.to
  BY <1>0 DEF PlanDir, Asked
<1>2. PICK plan \in SUBSET (Paths \X {TRUE, FALSE}), todo \in SUBSET Paths : plan = p.plan /\ todo = p.todo
  BY DEF Reqs
<1>3. p.op = "plan" /\ d \in todo
  BY <1>0, <1>2 DEF PlanDir
<1>4. /\ \A x \in plan : AtOrUnder(to, x[1]) /\ (x[1] # to => <<ParentOf(x[1]), TRUE>> \in plan)
      /\ \A x, y \in plan : x[1] = y[1] => x = y
      /\ \A e \in todo : /\ AtOrUnder(from, e) /\ <<Rebase(e, from, to), TRUE>> \in plan
                         /\ \A x \in plan : ~Under(Rebase(e, from, to), x[1])
  BY <1>0, <1>1, <1>2, <1>3 DEF Planned
<1>5. \A x \in plan : x[1] \in Paths
  BY PairIs
<1>6. \A e \in todo : Rebase(e, from, to) \in Paths
  <2>1. SUFFICES ASSUME NEW e \in todo PROVE Rebase(e, from, to) \in Paths
    OBVIOUS
  <2>2. PICK x \in plan : x = <<Rebase(e, from, to), TRUE>>
    BY <1>4
  <2>3. x[1] = Rebase(e, from, to)
    BY <2>2
  <2> QED BY <1>5, <2>3
<1> DEFINE C == {c \in Paths : ParentOf(c) = d /\ Occupied(c)}
           pr(c) == <<Rebase(c, from, to), tree[c] = Dir>>
           N == {pr(c) : c \in C}
           more == (todo \ {d}) \cup {c \in C : tree[c] = Dir}
           q == [p EXCEPT !.plan = plan \cup N, !.todo = more]
<1>7. (\A c \in C : Rebase(c, from, to) \in Paths) /\ req' = [req EXCEPT ![r] = q]
  BY <1>0, <1>1, <1>2 DEF PlanDir, Serve, Fits
<1>8. ASSUME NEW c \in C PROVE Under(d, c) /\ Under(from, c) /\ AtOrUnder(from, c)
  <2>1. Under(d, c)
    BY ParentIs, Depths
  <2>2. AtOrUnder(from, d) /\ AtOrUnder(d, c) /\ c # d
    BY <1>3, <1>4, <2>1, UnderIs
  <2>3. AtOrUnder(from, c) /\ c # from
    BY <2>2, UnderOrder
  <2> QED BY <2>1, <2>3, UnderIs
<1>9. PICK Rd \in Paths : Rd = Rebase(d, from, to) /\ <<Rd, TRUE>> \in plan /\ \A x \in plan : ~Under(Rd, x[1])
  BY <1>3, <1>4, <1>6
<1>10. ASSUME NEW c \in C
       PROVE  /\ Rebase(c, from, to) \in Paths /\ AtOrUnder(to, Rebase(c, from, to)) /\ Rebase(c, from, to) # to
              /\ ParentOf(Rebase(c, from, to)) = Rd /\ Under(Rd, Rebase(c, from, to))
              /\ Rebase(Rebase(c, from, to), to, from) = c
  <2>1. Rebase(c, from, to) \in Paths /\ c # from
    BY <1>7, <1>8, UnderIs
  <2>2. ParentOf(Rebase(c, from, to)) = Rd
    BY <1>7, <1>8, <1>9, RebaseParent
  <2>3. Under(Rd, Rebase(c, from, to))
    BY <2>1, <2>2, ParentIs, Depths
  <2> QED BY <1>8, <2>1, <2>2, <2>3, RebaseBack
<1>11. ASSUME NEW c \in C
       PROVE  /\ tree[c] = Dir => pr(c) = <<Rebase(c, from, to), TRUE>>
              /\ tree[c] # Dir => pr(c) = <<Rebase(c, from, to), FALSE>>
  <2>1. ASSUME tree[c] = Dir PROVE pr(c) = <<Rebase(c, from, to), TRUE>>
    <3>1. (tree[c] = Dir) = TRUE
      BY <2>1
    <3> QED BY <3>1, Zenon
  <2>2. ASSUME tree[c] # Dir PROVE pr(c) = <<Rebase(c, from, to), FALSE>>
    <3>1. (tree[c] = Dir) = FALSE
      BY <2>2
    <3> QED BY <3>1, Zenon
  <2> QED BY <2>1, <2>2, Zenon
<1>12. more \in SUBSET Paths /\ q.op = "plan" /\ q.from = from /\ q.to = to /\ q.plan = plan \cup N /\ q.todo = more
  BY <1>1, <1>3 DEF Reqs
<1> HIDE DEF pr
<1>13. \A c \in C : pr(c) \in Paths \X {TRUE, FALSE} /\ pr(c)[1] = Rebase(c, from, to)
  <2>1. SUFFICES ASSUME NEW c \in C PROVE pr(c) \in Paths \X {TRUE, FALSE} /\ pr(c)[1] = Rebase(c, from, to)
    OBVIOUS
  <2>2. PICK R \in Paths : R = Rebase(c, from, to)
    BY <1>10
  <2>3. CASE pr(c) = <<R, TRUE>>
    <3>1. <<R, TRUE>> \in Paths \X {TRUE, FALSE} /\ <<R, TRUE>>[1] = R
      OBVIOUS
    <3> QED BY <2>2, <2>3, <3>1, Zenon
  <2>4. CASE pr(c) = <<R, FALSE>>
    <3>1. <<R, FALSE>> \in Paths \X {TRUE, FALSE} /\ <<R, FALSE>>[1] = R
      OBVIOUS
    <3> QED BY <2>2, <2>4, <3>1, Zenon
  <2> QED BY <1>11, <2>2, <2>3, <2>4
<1>14. \A x \in N : \E c \in C : x = pr(c) /\ x[1] = Rebase(c, from, to)
  BY <1>13
<1>15. \A c \in C : pr(c) \in N
  OBVIOUS
<1>16. N \in SUBSET (Paths \X {TRUE, FALSE})
  BY <1>13
<1>17. \A e \in more : (e \in todo /\ e # d) \/ (e \in C /\ tree[e] = Dir)
  OBVIOUS
<1> HIDE DEF N, more, C
<1>18. q \in Reqs
  BY <1>12, <1>16 DEF Reqs
<1> HIDE DEF q
<1>19. Asked(q)
  BY <1>12 DEF Asked
<1>20. ASSUME NEW x \in plan \cup N PROVE AtOrUnder(to, x[1]) /\ (x[1] # to => <<ParentOf(x[1]), TRUE>> \in plan \cup N)
  <2>1. CASE x \in plan
    BY <1>4, <2>1
  <2>2. CASE x \in N
    <3>1. PICK c \in C : x[1] = Rebase(c, from, to)
      BY <1>14, <2>2
    <3> QED BY <1>9, <1>10, <3>1
  <2> QED BY <1>20, <2>1, <2>2
<1>21. ASSUME NEW x \in plan, NEW y \in N PROVE x[1] # y[1]
  <2>1. PICK c \in C : y[1] = Rebase(c, from, to)
    BY <1>14
  <2> QED BY <1>9, <1>10, <2>1
<1>22. ASSUME NEW x \in N, NEW y \in N, x[1] = y[1] PROVE x = y
  <2>1. PICK c \in C : x = pr(c) /\ x[1] = Rebase(c, from, to)
    BY <1>14
  <2>2. PICK e \in C : y = pr(e) /\ y[1] = Rebase(e, from, to)
    BY <1>14
  <2>3. c = e
    BY <1>10, <1>22, <2>1, <2>2
  <2> QED BY <2>1, <2>2, <2>3
<1>23. \A x, y \in plan \cup N : x[1] = y[1] => x = y
  BY <1>4, <1>21, <1>22
<1>24. ASSUME NEW e \in todo, e # d
       PROVE  /\ AtOrUnder(from, e) /\ <<Rebase(e, from, to), TRUE>> \in plan \cup N
              /\ \A x \in plan \cup N : ~Under(Rebase(e, from, to), x[1])
  <2>1. PICK Re \in Paths : Re = Rebase(e, from, to) /\ <<Re, TRUE>> \in plan /\ \A x \in plan : ~Under(Re, x[1])
    BY <1>4, <1>6
  <2>2. Re # Rd
    <3>1. AtOrUnder(from, d) /\ AtOrUnder(from, e)
      BY <1>3, <1>4
    <3>2. Rebase(Rd, to, from) = d /\ Rebase(Re, to, from) = e
      BY <1>9, <2>1, <3>1, RebaseBack
    <3> QED BY <1>24, <3>2
  <2>3. ~Under(Re, Rd)
    <3>1. PICK x \in plan : x = <<Rd, TRUE>>
      BY <1>9
    <3>2. x[1] = Rd
      BY <3>1
    <3> QED BY <2>1, <3>2
  <2>4. ASSUME NEW c \in C PROVE ~Under(Re, Rebase(c, from, to))
    <3>1. SUFFICES ASSUME Under(Re, Rebase(c, from, to)) PROVE FALSE
      OBVIOUS
    <3>2. Rebase(c, from, to) \in Paths /\ ParentOf(Rebase(c, from, to)) = Rd
      BY <1>10
    <3>3. AtOrUnder(Re, Rd)
      BY <3>1, <3>2, UnderIs, ParentUnder
    <3> QED BY <2>2, <2>3, <3>3, UnderIs
  <2>5. \A x \in plan \cup N : ~Under(Re, x[1])
    BY <1>14, <2>1, <2>4
  <2> QED BY <1>4, <2>1, <2>5
<1>25. ASSUME NEW e \in C, tree[e] = Dir
       PROVE  /\ AtOrUnder(from, e) /\ <<Rebase(e, from, to), TRUE>> \in plan \cup N
              /\ \A x \in plan \cup N : ~Under(Rebase(e, from, to), x[1])
  <2>1. PICK Re \in Paths : Re = Rebase(e, from, to) /\ Under(Rd, Re)
    BY <1>10
  <2>2. AtOrUnder(Rd, Re) /\ Re # Rd
    BY <2>1, UnderIs
  <2>3. pr(e) = <<Re, TRUE>>
    BY <1>11, <1>25, <2>1
  <2>4. ASSUME NEW x \in plan, Under(Re, x[1]) PROVE FALSE
    <3>1. x[1] \in Paths
      BY <1>5
    <3>2. AtOrUnder(Re, x[1]) /\ x[1] # Re
      BY <2>4, <3>1, UnderIs
    <3>3. AtOrUnder(Rd, x[1]) /\ x[1] # Rd
      BY <2>2, <3>1, <3>2, UnderOrder
    <3> QED BY <1>9, <3>1, <3>3, UnderIs
  <2>5. ASSUME NEW c \in C, Under(Re, Rebase(c, from, to)) PROVE FALSE
    <3>1. Rebase(c, from, to) \in Paths /\ ParentOf(Rebase(c, from, to)) = Rd
      BY <1>10
    <3>2. AtOrUnder(Re, Rd)
      BY <2>5, <3>1, UnderIs, ParentUnder
    <3> QED BY <2>2, <3>2, UnderOrder
  <2>6. \A x \in plan \cup N : ~Under(Re, x[1])
    BY <1>14, <2>4, <2>5
  <2> QED BY <1>8, <1>15, <2>1, <2>3, <2>6
<1>26. \A e \in more : /\ AtOrUnder(from, e) /\ <<Rebase(e, from, to), TRUE>> \in plan \cup N
                       /\ \A x \in plan \cup N : ~Under(Rebase(e, from, to), x[1])
  BY <1>17, <1>24, <1>25
<1>27. Planned(q)
  BY <1>12, <1>20, <1>23, <1>26 DEF Planned
<1> QED BY <1>7, <1>18, <1>19, <1>27 DEF Leaves

LEMMA StillAsked ==
  ASSUME TInv, \A r \in Procs : Planned(req[r]), [Next]_vars
  PROVE  req' \in [Procs -> Reqs] /\ \A r \in Procs : Asked(req'[r]) /\ Planned(req'[r])
<1>1. CASE UNCHANGED req
  BY <1>1 DEF TInv
<1>2. ASSUME NEW r \in Procs, NEW q, Leaves(r, q)
      PROVE  req' \in [Procs -> Reqs] /\ \A s \in Procs : Asked(req'[s]) /\ Planned(req'[s])
  <2>1. req \in [Procs -> Reqs] /\ \A s \in Procs : Asked(req[s])
    BY DEF TInv
  <2>2. q \in Reqs /\ Asked(q) /\ Planned(q) /\ req' = [req EXCEPT ![r] = q]
    BY <1>2 DEF Leaves
  <2>3. \A s \in Procs : req'[s] = IF s = r THEN q ELSE req[s]
    BY <2>1, <2>2
  <2> QED BY <2>1, <2>2, <2>3
<1>3. ASSUME NEW r \in Procs, Request(r) PROVE \E q : Leaves(r, q)
  <2>1. CASE \E p, q \in Paths, deep \in BOOLEAN : CopyStat(r, p, q, deep)
    BY <2>1, CopyStatIs
  <2>2. CASE \E d \in Paths : PlanDir(r, d)
    BY <2>2, PlanDirIs
  <2> QED BY <1>3, <2>1, <2>2, BeginIs, WalkIs, EndIs DEF Request
<1>4. CASE Statement
  BY <1>1, <1>4 DEF Statement, Mkdir, Remove, Rename, Restore, DestroyTrashed, Adopt
<1>5. CASE UNCHANGED vars
  BY <1>1, <1>5 DEF vars
<1> QED BY <1>2, <1>3, <1>4, <1>5 DEF Next
-----------------------------------------------------------------------------
(* The trash.                                                              *)

Deletes(p, b) == Occupied(p) /\ b \in FreshBatch /\ trash' = Trash(p, b) /\ tree' = Without(p)

LEMMA TrashSteps ==
  ASSUME TInv, [Next]_vars
  PROVE  \/ trash' = trash
         \/ \E p \in Paths, b \in Batches : Deletes(p, b)
         \/ \E b \in Batches : trash' = trash \ Rows(b) /\ (Restore(b) \/ DestroyTrashed(b))
<1>1. ASSUME NEW p \in Paths, Remove(p) PROVE \E b \in Batches : Deletes(p, b)
  BY <1>1 DEF Remove, Deletes, FreshBatch
<1>2. ASSUME NEW r \in Procs, MoveClear(r) PROVE \E p \in Paths, b \in Batches : Deletes(p, b)
  BY <1>2 DEF MoveClear, Deletes, FreshBatch, TInv, Asked
<1>3. ASSUME NEW b \in Batches, Restore(b) \/ DestroyTrashed(b) PROVE trash' = trash \ Rows(b)
  BY <1>3 DEF Restore, DestroyTrashed
<1>4. ASSUME NEW r \in Procs, Request(r), ~MoveClear(r) PROVE trash' = trash
  BY <1>4 DEF Request, Create, Upload, Share, WriteRow, WriteFails, MkdirAllStat, MkdirAllMake, FreeNameStat, MoveStat,
              MoveRows, MoveFails, CopyStat, PlanDir, CopyBytes, CommitCopies, CopyFails
<1>5. ASSUME Statement, \A p \in Paths : ~Remove(p), \A b \in Batches : ~Restore(b) /\ ~DestroyTrashed(b) PROVE trash' = trash
  BY <1>5 DEF Statement, Mkdir, Rename, Adopt
<1>6. CASE Statement
  <2>1. CASE \E p \in Paths : Remove(p)
    BY <1>1, <2>1
  <2>2. CASE \E b \in Batches : Restore(b) \/ DestroyTrashed(b)
    BY <1>3, <2>2
  <2>3. CASE (\A p \in Paths : ~Remove(p)) /\ (\A b \in Batches : ~Restore(b) /\ ~DestroyTrashed(b))
    BY <1>5, <1>6, <2>3
  <2> QED BY <2>1, <2>2, <2>3
<1>7. CASE \E r \in Procs : Request(r)
  BY <1>2, <1>4, <1>7
<1>8. CASE UNCHANGED vars
  BY <1>8 DEF vars
<1> QED BY <1>6, <1>7, <1>8 DEF Next

\* A deletion holds the branch that leaves the tree.
LEMMA DeletesIs ==
  ASSUME TInv, TreeClosed, Once, DeletionIsATree, NEW p \in Paths, NEW b \in Batches, Deletes(p, b)
  PROVE  trash' \subseteq Deleted /\ Once' /\ DeletionIsATree'
<1> DEFINE e(q) == [batch |-> b, path |-> q, row |-> tree[q]]
           N == {e(q) : q \in Subtree(p)}
<1>1. trash' = trash \cup N /\ Occupied(p) /\ \A t \in trash : t.batch # b
  BY DEF Deletes, Trash, FreshBatch
<1>2. \A q \in Subtree(p) : q \in Paths /\ AtOrUnder(p, q) /\ tree[q] # None /\ e(q) \in Deleted
                            /\ e(q).batch = b /\ e(q).path = q /\ e(q).row = tree[q]
  BY DEF Subtree, Occupied, TInv, Deleted
<1> HIDE DEF e
<1>3. \A t \in N : \E q \in Subtree(p) : t = e(q)
  OBVIOUS
<1>4. \A t \in N : t \in Deleted /\ t.batch = b /\ t.path \in Subtree(p) /\ t = e(t.path)
  BY <1>2
<1>5. \A q \in Subtree(p) : e(q) \in N
  OBVIOUS
<1>6. p \in Subtree(p)
  BY <1>1, UnderOrder DEF Subtree
<1> HIDE DEF N
<1>7. trash' \subseteq Deleted
  BY <1>1, <1>4 DEF TInv
<1>8. Once'
  <2>1. ASSUME NEW t \in trash', NEW u \in trash', t.batch = u.batch, t.path = u.path PROVE t = u
    <3>1. CASE t \in trash /\ u \in trash
      BY <2>1, <3>1 DEF Once
    <3>2. CASE t \in N /\ u \in N
      BY <1>4, <2>1, <3>2
    <3>3. CASE ~(t \in trash /\ u \in trash) /\ ~(t \in N /\ u \in N)
      BY <1>1, <1>4, <2>1, <3>3
    <3> QED BY <3>1, <3>2, <3>3
  <2> QED BY <2>1 DEF Once
<1>9. ASSUME NEW t \in trash'
      PROVE  \/ \A u \in trash' : u.batch = t.batch => AtOrUnder(t.path, u.path)
             \/ \E d \in trash' : d.batch = t.batch /\ d.path = ParentOf(t.path) /\ d.row = Dir
  <2>1. CASE t \in trash
    <3>1. \/ \A u \in Rows(t.batch) : AtOrUnder(t.path, u.path)
          \/ \E d \in Rows(t.batch) : d.path = ParentOf(t.path) /\ d.row = Dir
      BY <2>1 DEF DeletionIsATree
    <3>2. \A u \in trash' : u.batch = t.batch <=> u \in Rows(t.batch)
      BY <1>1, <1>4, <2>1 DEF Rows
    <3>3. Rows(t.batch) \subseteq trash'
      BY <1>1 DEF Rows
    <3> QED BY <3>1, <3>2, <3>3
  <2>2. CASE t \in N
    <3>1. t.batch = b /\ t.path \in Subtree(p) /\ t.path \in Paths /\ AtOrUnder(p, t.path) /\ tree[t.path] # None
      BY <1>2, <1>4, <2>2
    <3>2. CASE t.path = p
      <4>1. \A u \in trash' : u.batch = b => AtOrUnder(p, u.path)
        BY <1>1, <1>2, <1>4
      <4> QED BY <3>1, <3>2, <4>1
    <3>3. CASE t.path # p
      <4>1. ParentOf(t.path) # Root /\ AtOrUnder(p, ParentOf(t.path)) /\ ParentOf(t.path) \in Paths
        BY <3>1, <3>3, ParentUnder, ParentIs
      <4>2. tree[ParentOf(t.path)] = Dir
        BY <3>1, <4>1 DEF TreeClosed, Occupied, HasParent
      <4>3. ParentOf(t.path) \in Subtree(p)
        BY <4>1, <4>2, Kinds DEF Subtree, Occupied
      <4>4. e(ParentOf(t.path)) \in trash'
        BY <1>1, <1>5, <4>3
      <4> QED BY <1>2, <3>1, <4>2, <4>3, <4>4
    <3> QED BY <3>2, <3>3
  <2> QED BY <1>1, <2>1, <2>2
<1>10. DeletionIsATree'
  BY <1>9 DEF DeletionIsATree, Rows
<1> QED BY <1>7, <1>8, <1>10

LEMMA TakenOut ==
  ASSUME TInv, Once, DeletionIsATree, NEW b, trash' = trash \ Rows(b)
  PROVE  trash' \subseteq Deleted /\ Once' /\ DeletionIsATree'
<1>1. trash' \subseteq trash
  OBVIOUS
<1>2. \A t \in trash' : t.batch # b
  BY DEF Rows
<1>3. \A t \in trash : t.batch # b => t \in trash'
  BY DEF Rows
<1>4. trash' \subseteq Deleted
  BY <1>1 DEF TInv
<1>5. Once'
  BY <1>1 DEF Once
<1>6. ASSUME NEW t \in trash'
      PROVE  \/ \A u \in trash' : u.batch = t.batch => AtOrUnder(t.path, u.path)
             \/ \E d \in trash' : d.batch = t.batch /\ d.path = ParentOf(t.path) /\ d.row = Dir
  <2>1. \/ \A u \in Rows(t.batch) : AtOrUnder(t.path, u.path)
        \/ \E d \in Rows(t.batch) : d.path = ParentOf(t.path) /\ d.row = Dir
    BY <1>1 DEF DeletionIsATree
  <2>2. \A u \in trash' : u.batch = t.batch <=> u \in Rows(t.batch)
    BY <1>1 DEF Rows
  <2>3. Rows(t.batch) \subseteq trash'
    BY <1>2, <1>3 DEF Rows
  <2> QED BY <2>1, <2>2, <2>3
<1>7. DeletionIsATree'
  BY <1>6 DEF DeletionIsATree, Rows
<1> QED BY <1>4, <1>5, <1>7
-----------------------------------------------------------------------------
(* The theorems.                                                           *)

LEMMA InitHolds == ASSUME Init PROVE FInv
<1>1. TInv
  BY IdleIs DEF Init, TInv
<1>2. \A r \in Procs : Planned(req[r])
  BY IdleIs DEF Init
<1> QED BY <1>1, <1>2 DEF Init, FInv, TreeClosed, Occupied, Once, DeletionIsATree

LEMMA NextHolds == ASSUME FInv, [Next]_vars PROVE FInv'
<1>1. TInv /\ TreeClosed /\ Once /\ DeletionIsATree /\ \A r \in Procs : Planned(req[r])
  BY DEF FInv
<1>2. TreeClosed' /\ tree' \in Trees
  BY <1>1, StillClosed
<1>3. req' \in [Procs -> Reqs] /\ \A r \in Procs : Asked(req'[r]) /\ Planned(req'[r])
  BY <1>1, StillAsked
<1>4. trash' \subseteq Deleted /\ Once' /\ DeletionIsATree'
  <2>1. CASE trash' = trash
    BY <1>1, <2>1 DEF TInv, Once, DeletionIsATree, Rows
  <2>2. CASE \E p \in Paths, b \in Batches : Deletes(p, b)
    BY <1>1, <2>2, DeletesIs
  <2>3. CASE \E b \in Batches : trash' = trash \ Rows(b)
    BY <1>1, <2>3, TakenOut
  <2> QED BY <1>1, <2>1, <2>2, <2>3, TrashSteps
<1>5. TInv'
  BY <1>2, <1>3, <1>4 DEF TInv, Trees
<1> QED BY <1>2, <1>3, <1>4, <1>5 DEF FInv

\* The rows, the deletions and the requests are what the code can hold, and
\* the invariant that carries the other results holds: requests know where
\* they are, and the plan of a copy is a tree whose directories are listed once.
THEOREM TreeInvariant == Spec => []FInv
<1>1. Init => FInv
  BY InitHolds
<1>2. FInv /\ [Next]_vars => FInv'
  BY NextHolds
<1> QED BY <1>1, <1>2, PTL DEF Spec

\* Every row, deletion and request is of its type, whatever is asked and in
\* whatever order.
THEOREM TreeTypeCorrect == Spec => []TypeOK
<1>1. FInv => TypeOK
  BY DEF FInv, TInv, TypeOK, Deleted, Reqs, Ops
<1> QED BY <1>1, TreeInvariant, PTL

\* No request, in any interleaving, leaves a row whose directory is missing:
\* not the two steps of a MOVE, not a copy that replaces a tree, not a restore
\* or an import that makes the directories it needs.
THEOREM TreeStaysClosed == Spec => []TreeClosed
<1>1. FInv => TreeClosed
  BY DEF FInv
<1> QED BY <1>1, TreeInvariant, PTL

\* A deletion keeps one root with everything else under a directory of the
\* same deletion, so Restore finds the place of each row.
THEOREM DeletionsAreTrees == Spec => []DeletionIsATree
<1>1. FInv => DeletionIsATree
  BY DEF FInv
<1> QED BY <1>1, TreeInvariant, PTL

LEMMA Keeps ==
  ASSUME \A p \in Paths : tree[p] \in Keys => (\E q \in Paths : tree'[q] = tree[p]) \/ \E t \in trash' : t.row = tree[p],
         \A t \in trash : t.row \in Keys => (\E q \in Paths : tree'[q] = t.row) \/ \E u \in trash' : u.row = t.row
  PROVE  Kept \subseteq Kept'
<1>1. Kept = {k \in Keys : (\E p \in Paths : tree[p] = k) \/ \E t \in trash : t.row = k}
  BY DEF Kept, Contents, Trashed
<1>2. Kept' = {k \in Keys : (\E p \in Paths : tree'[p] = k) \/ \E t \in trash' : t.row = k}
  BY DEF Kept, Contents, Trashed
<1> QED BY <1>1, <1>2

\* What lands beside the rest replaces no file, and no directory it needs is one.
LEMMA LandsKeeps ==
  ASSUME TreeClosed, NEW to \in Paths, NEW L \in SUBSET Paths, Lands(to, L), NEW q \in Paths, tree[q] \in Keys
  PROVE  tree'[q] = tree[q]
<1>0. Closed(tree) /\ tree[q] # None /\ tree[q] # Dir
  BY Kinds DEF TreeClosed, Closed, Occupied
<1>1. tree[to] = None /\ Reachable(to) /\ (\A p \in L : AtOrUnder(to, p))
      /\ \A p \in Paths \ L : tree'[p] = IF p \in Ancestors(to) THEN Dir ELSE tree[p]
  BY DEF Lands
<1>2. ~AtOrUnder(to, q)
  BY <1>0, <1>1, ClosedUp, UnderIs, Kinds
<1>3. q \notin Ancestors(to)
  <2>1. SUFFICES ASSUME q \in Ancestors(to) PROVE FALSE
    OBVIOUS
  <2>2. PICK d \in Ancestors(to) : Under(q, d) /\ tree[d] = Dir
    BY <1>1, <2>1 DEF Reachable, IsFile
  <2>3. tree[q] = Dir
    BY <1>0, <2>2, AncestorsAre, ClosedUp, Kinds
  <2> QED BY <1>0, <2>3
<1> QED BY <1>1, <1>2, <1>3

\* What moves is at its new place, and what does not stays.
LEMMA MovesKeeps ==
  ASSUME TreeClosed, NEW from \in Paths, NEW to \in Paths, Moves(from, to), NEW q \in Paths, tree[q] \in Keys
  PROVE  \E p \in Paths : tree'[p] = tree[q]
<1>0. Closed(tree) /\ tree[q] # None
  BY Kinds DEF TreeClosed, Closed, Occupied
<1>1. /\ tree[to] = None /\ \A p \in Subtree(from) : Rebase(p, from, to) \in Paths
      /\ \A p \in Paths : tree'[p] = IF AtOrUnder(to, p) /\ Rebase(p, to, from) \in Subtree(from) THEN tree[Rebase(p, to, from)]
                                     ELSE IF AtOrUnder(from, p) THEN None ELSE tree[p]
  BY DEF Moves, Fits, CanMove, Occupied, Moved
<1>2. CASE AtOrUnder(from, q)
  <2>1. q \in Subtree(from)
    BY <1>0, <1>2 DEF Subtree, Occupied
  <2>2. Rebase(q, from, to) \in Paths /\ AtOrUnder(to, Rebase(q, from, to)) /\ Rebase(Rebase(q, from, to), to, from) = q
    BY <1>1, <1>2, <2>1, RebaseBack
  <2> QED BY <1>1, <2>1, <2>2
<1>3. CASE ~AtOrUnder(from, q)
  <2>1. ~AtOrUnder(to, q)
    BY <1>0, <1>1, ClosedUp, UnderIs, Kinds
  <2> QED BY <1>1, <1>3, <2>1
<1> QED BY <1>2, <1>3

LEMMA DeletesKeeps ==
  ASSUME NEW p \in Paths, NEW b \in Batches, Deletes(p, b) PROVE Kept \subseteq Kept'
<1>1. \A t \in trash : t \in trash'
  BY DEF Deletes, Trash
<1>2. ASSUME NEW q \in Paths, tree[q] \in Keys PROVE (\E x \in Paths : tree'[x] = tree[q]) \/ \E t \in trash' : t.row = tree[q]
  <2>1. CASE AtOrUnder(p, q)
    <3>1. q \in Subtree(p)
      BY <1>2, <2>1, Kinds DEF Subtree, Occupied
    <3>2. [batch |-> b, path |-> q, row |-> tree[q]] \in trash'
      BY <3>1 DEF Deletes, Trash
    <3> QED BY <3>2
  <2>2. CASE ~AtOrUnder(p, q)
    BY <2>2 DEF Deletes, Without
  <2> QED BY <2>1, <2>2
<1> QED BY <1>1, <1>2, Keeps

LEMMA RestoreKeeps ==
  ASSUME TInv, Once, DeletionIsATree, TreeClosed, NEW b, Restore(b) PROVE Kept \subseteq Kept'
<1>1. PICK to \in Paths, L \in SUBSET Paths :
        /\ tree[to] = None /\ Reachable(to) /\ tree' \in Trees
        /\ \A q \in L : AtOrUnder(to, q) /\ tree'[q] # None /\ (q # to => ParentOf(q) \in L /\ tree'[ParentOf(q)] = Dir)
        /\ \A q \in Paths \ L : tree'[q] = IF q \in Ancestors(to) THEN Dir ELSE tree[q]
        /\ \A t \in Rows(b) : \E q \in L : tree'[q] = t.row
  BY RestoreIs
<1>0. Lands(to, L)
  BY <1>1 DEF Lands
<1>2. \A q \in Paths : tree[q] \in Keys => tree'[q] = tree[q]
  BY <1>0, LandsKeeps
<1>3. \A t \in trash : t \in trash' \/ t \in Rows(b)
  BY DEF Restore
<1> QED BY <1>1, <1>2, <1>3, Keeps

LEMMA NextKeeps ==
  ASSUME FInv, [Next]_vars
  PROVE  \/ Kept \subseteq Kept'
         \/ \E r \in Procs : WriteRow(r) \/ CommitCopies(r)
         \/ \E b \in Batches : DestroyTrashed(b)
<1>0. TInv /\ TreeClosed /\ Once /\ DeletionIsATree
  BY DEF FInv
<1>1. ASSUME trash' = trash, \A q \in Paths : tree[q] \in Keys => \E p \in Paths : tree'[p] = tree[q] PROVE Kept \subseteq Kept'
  BY <1>1, Keeps
<1>2. ASSUME trash' = trash, tree' = tree PROVE Kept \subseteq Kept'
  BY <1>1, <1>2
<1>3. ASSUME NEW p, ~Occupied(p), tree' = [tree EXCEPT ![p] = Dir], trash' = trash PROVE Kept \subseteq Kept'
  <2>1. \A q \in Paths : tree[q] \in Keys => tree'[q] = tree[q]
    BY <1>0, <1>3, Kinds DEF TInv, Occupied
  <2> QED BY <1>1, <1>3, <2>1
<1>4. ASSUME NEW from \in Paths, NEW to \in Paths, Moves(from, to), trash' = trash PROVE Kept \subseteq Kept'
  BY <1>0, <1>1, <1>4, MovesKeeps
<1>5. ASSUME NEW p \in Paths, NEW row \in Fresh \cup {Dir}, Adopt(p, row) PROVE Kept \subseteq Kept'
  <2>1. Lands(p, {p})
    <3>1. tree[p] = None /\ Reachable(p) /\ row \in Keys \cup {Dir} /\ row # None
      BY <1>5, Kinds DEF Adopt, Occupied, Fresh
    <3>2. tree' = [q \in Paths |-> IF q = p THEN row ELSE IF q \in Ancestors(p) THEN Dir ELSE tree[q]]
      BY <1>5 DEF Adopt
    <3>3. tree' \in Trees
      BY <1>0, <3>1, <3>2 DEF Trees, TInv
    <3> QED BY <3>1, <3>2, <3>3 DEF Lands, AtOrUnder
  <2>2. \A q \in Paths : tree[q] \in Keys => tree'[q] = tree[q]
    BY <1>0, <2>1, LandsKeeps
  <2>3. trash' = trash
    BY <1>5 DEF Adopt
  <2> QED BY <1>1, <2>2, <2>3
<1>6. CASE Statement
  <2>1. ASSUME NEW p \in Paths, Mkdir(p) PROVE Kept \subseteq Kept'
    BY <1>3, <2>1 DEF Mkdir
  <2>2. ASSUME NEW p \in Paths, Remove(p) PROVE Kept \subseteq Kept'
    <3>1. \E b \in Batches : Deletes(p, b)
      BY <2>2 DEF Remove, Deletes, FreshBatch
    <3> QED BY <3>1, DeletesKeeps
  <2>3. ASSUME NEW p \in Paths, NEW q \in Paths, Rename(p, q) PROVE Kept \subseteq Kept'
    BY <1>4, <2>3 DEF Rename, Moves
  <2>4. ASSUME NEW b, Restore(b) PROVE Kept \subseteq Kept'
    BY <1>0, <2>4, RestoreKeeps
  <2> QED BY <1>5, <1>6, <2>1, <2>2, <2>3, <2>4 DEF Statement
<1>7. ASSUME NEW r \in Procs, Request(r), ~WriteRow(r), ~CommitCopies(r) PROVE Kept \subseteq Kept'
  <2>1. CASE MkdirAllMake(r)
    <3>1. trash' = trash /\ (tree' = tree \/ (~Occupied(Walked(r)) /\ tree' = [tree EXCEPT ![Walked(r)] = Dir]))
      BY <2>1 DEF MkdirAllMake
    <3> QED BY <1>2, <1>3, <3>1
  <2>2. CASE MoveClear(r)
    <3>1. \E p \in Paths, b \in Batches : Deletes(p, b)
      BY <1>0, <2>2 DEF MoveClear, Deletes, FreshBatch, TInv, Asked
    <3> QED BY <3>1, DeletesKeeps
  <2>3. CASE MoveRows(r)
    <3>1. trash' = trash /\ \E from, to \in Paths : Moves(from, to)
      BY <1>0, <2>3 DEF MoveRows, TInv, Asked, Moves
    <3> QED BY <1>4, <3>1
  <2>4. CASE ~MkdirAllMake(r) /\ ~MoveClear(r) /\ ~MoveRows(r)
    <3>1. trash' = trash /\ tree' = tree
      BY <1>7, <2>4 DEF Request, Create, Upload, Share, WriteFails, MkdirAllStat, FreeNameStat, MoveStat, MoveFails, CopyStat,
                        PlanDir, CopyBytes, CopyFails
    <3> QED BY <1>2, <3>1
  <2> QED BY <2>1, <2>2, <2>3, <2>4
<1>8. CASE UNCHANGED vars
  BY <1>2, <1>8 DEF vars
<1> QED BY <1>6, <1>7, <1>8 DEF Next

\* No step but a write, a copy over something and a destruction takes a blob
\* key out of the tree and the trash together: a move, a rename, a deletion, a
\* restore, an import or a new directory loses the content of no file.
THEOREM ContentIsKept == Spec => OnlyReplacingLoses
<1>1. FInv /\ [Next]_vars => [\/ Kept \subseteq Kept'
                              \/ \E r \in Procs : WriteRow(r) \/ CommitCopies(r)
                              \/ \E b \in Batches : DestroyTrashed(b)]_vars
  BY NextKeeps
<1> QED BY <1>1, TreeInvariant, PTL DEF Spec, OnlyReplacingLoses

-----------------------------------------------------------------------------
(* The transactions under all this, a statement at a time (Engines): what  *)
(* each of them has done and has still to do, for any number of requests   *)
(* and of transactions.                                                    *)

LEMMA JoinOnes == ASSUME NEW a, NEW b PROVE <<a>> \o <<b>> = <<a, b>>
<1> DEFINE S == {a, b}
<1>1. <<a>> \in Seq(S) /\ <<b>> \in Seq(S) /\ <<a, b>> \in Seq(S)
  OBVIOUS
<1>2. Len(<<a>> \o <<b>>) = 2 /\ \A i \in 1..2 : (<<a>> \o <<b>>)[i] = <<a, b>>[i]
  BY <1>1, ConcatProperties
<1>3. <<a>> \o <<b>> \in Seq(S)
  BY <1>1, ConcatProperties
<1> QED BY <1>1, <1>2, <1>3, SeqEqual

LEMMA JoinTwo == ASSUME NEW a, NEW b, NEW c PROVE <<a>> \o <<b, c>> = <<a, b, c>>
<1> DEFINE S == {a, b, c}
<1>1. <<a>> \in Seq(S) /\ <<b, c>> \in Seq(S) /\ <<a, b, c>> \in Seq(S)
  OBVIOUS
<1>2. Len(<<a>> \o <<b, c>>) = 3 /\ \A i \in 1..3 : (<<a>> \o <<b, c>>)[i] = <<a, b, c>>[i]
  BY <1>1, ConcatProperties
<1>3. <<a>> \o <<b, c>> \in Seq(S)
  BY <1>1, ConcatProperties
<1> QED BY <1>1, <1>2, <1>3, SeqEqual

LEMMA JoinNone == ASSUME NEW s, NEW S, s \in Seq(S) PROVE s \o <<>> = s /\ <<>> \o s = s
  BY ConcatEmptySeq

\* What Then makes of the lists there are.
LEMMA Lists ==
  ASSUME NEW a, NEW b, NEW c
  PROVE  /\ <<>> \o <<>> = <<>> /\ <<a>> \o <<>> = <<a>> /\ <<>> \o <<a>> = <<a>>
         /\ <<>> \o <<a, b>> = <<a, b>> /\ <<a, b>> \o <<>> = <<a, b>>
         /\ <<a>> \o <<b>> = <<a, b>> /\ <<a>> \o <<b, c>> = <<a, b, c>>
         /\ <<a, b>> \o <<c>> = <<a, b, c>>
<1>1. <<>> \in Seq({a, b}) /\ <<a>> \in Seq({a, b}) /\ <<a, b>> \in Seq({a, b})
  OBVIOUS
<1>2. <<a, b>> \o <<c>> = <<a, b, c>>
  <2>1. <<a>> \in Seq({a, b, c}) /\ <<b>> \in Seq({a, b, c}) /\ <<c>> \in Seq({a, b, c})
    OBVIOUS
  <2>2. (<<a>> \o <<b>>) \o <<c>> = <<a>> \o (<<b>> \o <<c>>)
    BY <2>1, ConcatAssociative
  <2> QED BY <2>2, JoinOnes, JoinTwo
<1> QED BY <1>1, <1>2, JoinOnes, JoinTwo, JoinNone

LEMMA Plans ==
  ASSUME NEW a, NEW b, NEW c, NEW d, NEW e
  PROVE  /\ Head(<<a>>) = a /\ Tail(<<a>>) = <<>>
         /\ Head(<<a, b>>) = a /\ Tail(<<a, b>>) = <<b>>
         /\ Head(<<a, b, c>>) = a /\ Tail(<<a, b, c>>) = <<b, c>>
         /\ Head(<<a, b, c, d>>) = a /\ Tail(<<a, b, c, d>>) = <<b, c, d>>
         /\ Head(<<a, b, c, d, e>>) = a /\ Tail(<<a, b, c, d, e>>) = <<b, c, d, e>>
         /\ <<a>> # <<>> /\ <<a, b>> # <<>> /\ <<a, b, c>> # <<>> /\ <<a, b, c, d>> # <<>> /\ <<a, b, c, d, e>> # <<>>
  OBVIOUS

\* The four places: two folders and what may be in each.
Top    == <<"d">>
File   == <<"d", "f">>
Top2   == <<"d2">>
File2  == <<"d2", "f">>

LEMMA ThePlaces ==
  /\ Engines!Places = {Top, File, Top2, File2}
  /\ Top # File /\ Top # Top2 /\ Top # File2 /\ File # Top2 /\ File # File2 /\ Top2 # File2
  /\ Len(Top) = 1 /\ Len(Top2) = 1 /\ Len(File) = 2 /\ Len(File2) = 2
  /\ <<>> \notin Engines!Places
  BY DEF Engines!Places, Top, Top2, File, File2

LEMMA OneName == ASSUME NEW a, NEW b PROVE SubSeq(<<a, b>>, 2, 2) = <<b>> /\ SubSeq(<<a, b>>, 1, 1) = <<a>>
<1> PICK s : s = <<a, b>>
  OBVIOUS
<1>1. s[1] = a /\ s[2] = b /\ \A i \in 1..2 : s[i] \in {a, b}
  OBVIOUS
<1>2. \A i \in 2..2 : s[i] \in {a, b}
  BY <1>1
<1>3. \A i \in 1..1 : s[i] \in {a, b}
  BY <1>1
<1> PICK u : u = SubSeq(s, 2, 2)
  OBVIOUS
<1> PICK w : w = SubSeq(s, 1, 1)
  OBVIOUS
<1>4. /\ u \in Seq({a, b}) /\ Len(u) = 1 /\ \A i \in 1..1 : u[i] = s[2 + i - 1]
  BY <1>2, SubSeqProperties
<1>5. /\ w \in Seq({a, b}) /\ Len(w) = 1 /\ \A i \in 1..1 : w[i] = s[1 + i - 1]
  BY <1>3, SubSeqProperties
<1>6. u[1] = b /\ w[1] = a
  BY <1>1, <1>4, <1>5
<1>7. /\ <<a>> \in Seq({a, b}) /\ Len(<<a>>) = 1 /\ <<a>>[1] = a
      /\ <<b>> \in Seq({a, b}) /\ Len(<<b>>) = 1 /\ <<b>>[1] = b
  OBVIOUS
<1>8. u = <<b>>
  <2> PICK v : v = <<b>>
    OBVIOUS
  <2>1. v \in Seq({a, b}) /\ Len(u) = Len(v) /\ \A i \in 1..Len(u) : u[i] = v[i]
    BY <1>4, <1>6, <1>7
  <2> QED BY <2>1, <1>4, SeqEqual
<1>9. w = <<a>>
  <2> PICK v : v = <<a>>
    OBVIOUS
  <2>1. v \in Seq({a, b}) /\ Len(w) = Len(v) /\ \A i \in 1..Len(w) : w[i] = v[i]
    BY <1>5, <1>6, <1>7
  <2> QED BY <2>1, <1>5, SeqEqual
<1> QED BY <1>8, <1>9

LEMMA TheParents == Engines!ParentOf(File) = Top /\ Engines!ParentOf(File2) = Top2
  BY OneName, ThePlaces DEF Engines!ParentOf, Top, Top2, File, File2

LEMMA TheChildren ==
  /\ Engines!ChildrenOf(Top) = {File} /\ Engines!ChildrenOf(Top2) = {File2}
  /\ Engines!ChildrenOf(File) = {} /\ Engines!ChildrenOf(File2) = {}
  BY ThePlaces, TheParents DEF Engines!ChildrenOf

LEMMA TheNames ==
  /\ Engines!Second(Top) = Top2 /\ Engines!Second(Top2) = Top2 /\ Engines!Second(File) = File
         /\ Engines!Second(File2) = File2
  BY ThePlaces DEF Engines!Second, Top, Top2, File, File2

\* A deletion of a folder and its file lands beside it, or where it was.
LEMMA Rebased ==
  /\ \A p, q \in Engines!Places : Engines!Rebase(p, p, q) = q
  /\ Engines!Rebase(File, Top, Top) = File /\ Engines!Rebase(File, Top, Top2) = File2
  /\ Engines!Rebase(File2, Top2, Top2) = File2
<1>1. ASSUME NEW p \in Engines!Places, NEW q \in Engines!Places PROVE Engines!Rebase(p, p, q) = q
  <2>1. Len(p) \in Nat /\ q \in Seq({"d", "f", "d2"})
    <3>1. Top \in Seq({"d", "f", "d2"}) /\ Top2 \in Seq({"d", "f", "d2"})
      BY DEF Top, Top2
    <3>2. File \in Seq({"d", "f", "d2"}) /\ File2 \in Seq({"d", "f", "d2"})
      BY DEF File, File2
    <3> QED BY ThePlaces, <3>1, <3>2
  <2>2. SubSeq(p, Len(p) + 1, Len(p)) = <<>>
    BY <2>1, SubSeqEmpty
  <2> QED BY <2>1, <2>2, ConcatEmptySeq DEF Engines!Rebase
<1>2. SubSeq(File, Len(Top) + 1, Len(File)) = <<"f">> /\ SubSeq(File2, Len(Top2) + 1, Len(File2)) = <<"f">>
  BY ThePlaces, OneName DEF File, File2
<1>3. Top \o <<"f">> = File /\ Top2 \o <<"f">> = File2
  BY JoinOnes DEF Top, Top2, File, File2
<1> QED BY <1>1, <1>2, <1>3 DEF Engines!Rebase

Ids == {Engines!Batch(n) : n \in Nat}

LEMMA BatchesAre == ASSUME NEW m \in Nat, NEW n \in Nat PROVE Engines!Batch(m) \notin Engines!Places
    /\ (Engines!Batch(m) = Engines!Batch(n) => m = n)
  BY ThePlaces DEF Engines!Batch, Top, Top2, File, File2

-----------------------------------------------------------------------------
(* What a transaction is, and what one of each kind knows at each statement.*)

Numbers == Nat \ {0}
Drafts  == UNION {[D -> Nat] : D \in SUBSET Engines!Places}
Entries == [path : Engines!Places, row : Numbers]
TrashRows == [batch : Ids, path : Engines!Places, row : Numbers]
Entry(p, k) == [path |-> p, row |-> k]

Transactions(P) ==
  [op : {"write", "mkdir", "remove", "restore", "destroy"}, at : {"open", "committed", "failed"},
   why : {"", "conflict", "notfound", "busy"}, key : Nat, batch : Ids, plan : P,
   snapshot : [rows : [Engines!Places -> Nat], bin : SUBSET TrashRows], writes : Drafts, looked : SUBSET Engines!Places,
   emptied : SUBSET Ids, taken : SUBSET Entries, drops : SUBSET Nat,
   root : Engines!Places \cup {<<>>}, to : Engines!Places \cup {<<>>}]

\* A deletion is of one row, or of a folder and what was in it.
Family(S, p) ==
  \/ \E k \in Numbers : S = {Entry(p, k)}
  \/ \E q \in Engines!ChildrenOf(p), m \in Numbers : S = {Entry(p, Engines!Dir), Entry(q, m)}
EntriesOf(b, n) == {Entry(x.path, x.row) : x \in {y \in b : y.batch = n}}
Families(b) == \A x \in b : \E p \in Engines!Places : Family(EntriesOf(b, x.batch), p)

IsTransaction(t) == t \in Transactions({t.plan}) /\ Families(t.snapshot.bin)

Types ==
  /\ engine \in {"sqlite", "mysql", "postgres"}
  /\ rows \in [Engines!Places -> Nat] /\ bin \in SUBSET TrashRows /\ Families(bin) /\ begun \in Nat /\ blobs \subseteq Nat
  /\ tx = [r \in Workers |-> tx[r]]
  /\ \A r \in Workers : tx[r] = Engines!Idle \/ IsTransaction(tx[r])

\* A child of a place, and what is above one.
LEMMA Above ==
  ASSUME NEW p \in Engines!Places
  PROVE  /\ Engines!ChildrenOf(p) \subseteq Engines!Places
         /\ \A q \in Engines!ChildrenOf(p) : q # p /\ Engines!ParentOf(q) = p /\ Len(q) = 2 /\ Len(p) = 1
                /\ Engines!ChildrenOf(p) = {q} /\ Engines!ChildrenOf(q) = {}
         /\ Len(p) = 2 => Engines!ParentOf(p) \in Engines!Places /\ Len(Engines!ParentOf(p)) = 1
                /\ p \in Engines!ChildrenOf(Engines!ParentOf(p)) /\ Engines!ParentOf(p) # p
         /\ Len(p) \in {1, 2}
  BY ThePlaces, TheParents, TheChildren

LEMMA Drafted ==
  ASSUME NEW w \in Drafts
  PROVE  DOMAIN w \subseteq Engines!Places /\ \A p \in DOMAIN w : w[p] \in Nat
  BY DEF Drafts

LEMMA DraftedAre == ASSUME NEW D \in SUBSET Engines!Places, NEW w \in [D -> Nat] PROVE w \in Drafts
  BY DEF Drafts

LEMMA FieldsAre ==
  ASSUME NEW t, IsTransaction(t)
  PROVE  /\ t \in Transactions({t.plan})
         /\ t.op \in {"write", "mkdir", "remove", "restore", "destroy"} /\ t.at \in {"open", "committed", "failed"}
         /\ t.why \in {"", "conflict", "notfound", "busy"} /\ t.key \in Nat /\ t.batch \in Ids
         /\ t.snapshot.rows \in [Engines!Places -> Nat] /\ t.snapshot.bin \subseteq TrashRows /\ Families(t.snapshot.bin)
         /\ t.writes \in Drafts /\ t.looked \subseteq Engines!Places /\ t.emptied \subseteq Ids /\ t.taken \subseteq Entries
         /\ t.drops \subseteq Nat /\ t.root \in Engines!Places \cup {<<>>} /\ t.to \in Engines!Places \cup {<<>>}
  BY DEF IsTransaction, Transactions

\* What a statement leaves alone.
SameRequest(t, u) == u.op = t.op /\ u.key = t.key /\ u.batch = t.batch /\ u.snapshot = t.snapshot

LEMMA RestIs ==
  ASSUME NEW t, IsTransaction(t)
  PROVE  /\ IsTransaction(Engines!Rest(t)) /\ SameRequest(t, Engines!Rest(t)) /\ Engines!Rest(t).plan = Tail(t.plan)
         /\ Engines!Rest(t).at = t.at /\ Engines!Rest(t).why = t.why /\ Engines!Rest(t).writes = t.writes
                /\ Engines!Rest(t).looked = t.looked
         /\ Engines!Rest(t).emptied = t.emptied /\ Engines!Rest(t).taken = t.taken /\ Engines!Rest(t).drops = t.drops
         /\ Engines!Rest(t).root = t.root /\ Engines!Rest(t).to = t.to
  BY DEF IsTransaction, Transactions, Engines!Rest, SameRequest

LEMMA ThenIs ==
  ASSUME NEW t, IsTransaction(t), NEW new
  PROVE  /\ IsTransaction(Engines!Then(t, new)) /\ SameRequest(t, Engines!Then(t, new)) /\ Engines!Then(t,
                new).plan = new \o Tail(t.plan)
         /\ Engines!Then(t, new).at = t.at /\ Engines!Then(t, new).why = t.why /\ Engines!Then(t, new).writes = t.writes
                /\ Engines!Then(t, new).looked = t.looked
         /\ Engines!Then(t, new).emptied = t.emptied /\ Engines!Then(t, new).taken = t.taken /\ Engines!Then(t,
                new).drops = t.drops
         /\ Engines!Then(t, new).root = t.root /\ Engines!Then(t, new).to = t.to
  BY DEF IsTransaction, Transactions, Engines!Then, SameRequest

LEMMA FailedIs ==
  ASSUME NEW t, IsTransaction(t), NEW why \in {"conflict", "notfound", "busy"}
  PROVE  /\ IsTransaction(Engines!Failed(t, why)) /\ SameRequest(t, Engines!Failed(t, why)) /\ Engines!Failed(t,
                why).at = "failed"
         /\ Engines!Failed(t, why).why = why /\ Engines!Failed(t, why).drops = t.drops
  BY DEF IsTransaction, Transactions, Engines!Failed, SameRequest

LEMMA WrittenIs ==
  ASSUME NEW t, IsTransaction(t), NEW p \in Engines!Places, NEW row \in Nat
  PROVE  LET u == Engines!Written(t, p, row)
         IN /\ IsTransaction(u) /\ SameRequest(t, u) /\ u.plan = Tail(t.plan)
            /\ u.at = t.at /\ u.why = t.why /\ u.looked = t.looked
            /\ DOMAIN u.writes = DOMAIN t.writes \cup {p} /\ u.writes[p] = row
            /\ \A q \in DOMAIN t.writes : q # p => u.writes[q] = t.writes[q]
            /\ u.emptied = t.emptied /\ u.taken = t.taken /\ u.drops = t.drops
            /\ u.root = t.root /\ u.to = t.to
<1> PICK s : s = Engines!Rest(t)
  OBVIOUS
<1>1. IsTransaction(s) /\ SameRequest(t, s) /\ s.plan = Tail(t.plan)
  BY RestIs
<1> PICK w : w = [q \in DOMAIN s.writes \cup {p} |-> IF q = p THEN row ELSE s.writes[q]]
  OBVIOUS
<1>2. w \in [DOMAIN s.writes \cup {p} -> Nat] /\ DOMAIN s.writes \subseteq Engines!Places
  BY <1>1, FieldsAre, Drafted
<1>3. w \in Drafts
  BY <1>2, DraftedAre
<1> PICK u : u = [s EXCEPT !.writes = w]
  OBVIOUS
<1>4. u = Engines!Written(t, p, row)
  BY DEF Engines!Written
<1>5. /\ IsTransaction(u) /\ u.plan = s.plan /\ SameRequest(s, u) /\ u.writes = w
      /\ u.at = s.at /\ u.why = s.why /\ u.looked = s.looked
      /\ u.emptied = s.emptied /\ u.taken = s.taken /\ u.drops = s.drops
      /\ u.root = s.root /\ u.to = s.to
  BY <1>1, <1>3 DEF IsTransaction, Transactions, SameRequest
<1>6. s.writes = t.writes
  BY RestIs
<1>7. DOMAIN w = DOMAIN t.writes \cup {p} /\ w[p] = row /\ \A q \in DOMAIN t.writes : q # p => w[q] = t.writes[q]
  BY <1>6
<1> QED BY <1>1, <1>4, <1>5, <1>7, RestIs DEF SameRequest

\* What a transaction sees: on SQLite, where nothing changes under it, what
\* there is.
Undisturbed(t) == engine = "sqlite" => t.snapshot = Engines!Snapshot

LEMMA SightIs ==
  ASSUME Types, NEW t, IsTransaction(t)
  PROVE  /\ Engines!Sees(t).rows \in [Engines!Places -> Nat] /\ Engines!Sees(t).bin \subseteq TrashRows
                /\ Families(Engines!Sees(t).bin)
         /\ engine = "sqlite" /\ Undisturbed(t) => Engines!Sees(t).rows = rows /\ Engines!Sees(t).bin = bin
<1>1. Engines!Sees(t) = t.snapshot \/ Engines!Sees(t) = Engines!Snapshot
  BY DEF Types, Engines!Sees, Engines!postgresSees, Engines!mysqlSees, Engines!sqliteSees
<1>2. Engines!Snapshot.rows = rows /\ Engines!Snapshot.bin = bin
  BY DEF Engines!Snapshot
<1>3. engine = "sqlite" => Engines!Sees(t) = t.snapshot
  BY DEF Engines!Sees, Engines!sqliteSees
<1> QED BY <1>1, <1>2, <1>3, FieldsAre DEF Types, Undisturbed

LEMMA ViewIs ==
  ASSUME Types, NEW t, IsTransaction(t), NEW p \in Engines!Places
  PROVE  /\ Engines!FileByPath(t, p) \in Nat /\ Engines!Current(t, p) \in Nat
         /\ Engines!Current(t, p) = IF p \in DOMAIN t.writes THEN t.writes[p] ELSE rows[p]
         /\ p \in DOMAIN t.writes => Engines!FileByPath(t, p) = t.writes[p]
         /\ engine = "sqlite" /\ Undisturbed(t) => Engines!FileByPath(t, p) = Engines!Current(t, p)
<1>1. t.writes \in Drafts /\ (p \in DOMAIN t.writes => t.writes[p] \in Nat)
  BY FieldsAre, Drafted
<1>2. rows[p] \in Nat /\ Engines!Sees(t).rows[p] \in Nat
  BY SightIs DEF Types
<1>3. Engines!FileByPath(t, p) = IF p \in DOMAIN t.writes THEN t.writes[p] ELSE Engines!Sees(t).rows[p]
  BY DEF Engines!FileByPath, Engines!Over
<1>4. Engines!Current(t, p) = IF p \in DOMAIN t.writes THEN t.writes[p] ELSE rows[p]
  BY DEF Engines!Current, Engines!Over
<1> QED BY <1>1, <1>2, <1>3, <1>4, SightIs

LEMMA PerformIs ==
  ASSUME NEW t, NEW s
  PROVE  /\ s.do = "parent"  => Engines!Perform(t, s) = Engines!requireParent(t, s.path)
         /\ s.do = "old"     => Engines!Perform(t, s) = Engines!Supersede(t, s.path)
         /\ s.do = "put"     => Engines!Perform(t, s) = Engines!PutFile(t, s.path, s.row)
         /\ s.do = "dir"     => Engines!Perform(t, s) = Engines!CreateDir(t, s.path)
         /\ s.do = "tree"    => Engines!Perform(t, s) = Engines!RemoveTree(t, s.path)
         /\ s.do = "list"    => Engines!Perform(t, s) = Engines!RemoveChildren(t, s.path)
         /\ s.do = "delete"  => Engines!Perform(t, s) = Engines!DeleteFile(t, s.path)
         /\ s.do = "read"    => Engines!Perform(t, s) = Engines!ReadDeletion(t)
         /\ s.do = "name"    => Engines!Perform(t, s) = Engines!freeName(t)
         /\ s.do = "parents" => Engines!Perform(t, s) = Engines!restoreParents(t)
         /\ s.do = "rows"    => Engines!Perform(t, s) = Engines!RestoreRows(t)
         /\ s.do = "empty"   => Engines!Perform(t, s) = Engines!DeleteTrash(t, t.batch)
  BY DEF Engines!Perform

\* Going on, with nothing but the plan and what is named changed, or failing.
Fails(t, u) == IsTransaction(u) /\ SameRequest(t, u) /\ u.at = "failed" /\ u.why \in {"conflict", "notfound"}
    /\ u.drops = t.drops
GoesOn(t, u) ==
  /\ IsTransaction(u) /\ SameRequest(t, u) /\ u.at = t.at /\ u.why = t.why
  /\ u.emptied \in {t.emptied, t.emptied \cup {t.batch}}
  /\ DOMAIN t.writes \subseteq DOMAIN u.writes
SameDraft(t, u) == u.writes = t.writes /\ u.looked = t.looked /\ u.emptied = t.emptied
Wrote(t, u, p, row) ==
  /\ DOMAIN u.writes = DOMAIN t.writes \cup {p} /\ u.writes[p] = row
  /\ \A q \in DOMAIN t.writes : q # p => u.writes[q] = t.writes[q]
  /\ u.emptied = t.emptied /\ u.taken = t.taken /\ u.drops = t.drops /\ u.root = t.root /\ u.to = t.to

LEMMA FailsIs ==
  ASSUME NEW t, IsTransaction(t), NEW why \in {"conflict", "notfound"} PROVE Fails(t, Engines!Failed(t, why))
  BY FailedIs DEF Fails

LEMMA WroteIs ==
  ASSUME NEW t, IsTransaction(t), NEW p \in Engines!Places, NEW row \in Nat
  PROVE  LET u == Engines!Written(t, p, row)
         IN GoesOn(t, u) /\ Wrote(t, u, p, row) /\ u.looked = t.looked /\ u.plan = Tail(t.plan)
  BY WrittenIs DEF GoesOn, Wrote

\* PutFile, on each engine.
LEMMA PutIs ==
  ASSUME Types, NEW t, IsTransaction(t), NEW p \in Engines!Places, NEW k \in Nat, NEW u, u = Engines!PutFile(t, p, k)
  PROVE  \/ Fails(t, u)
         \/ Engines!Current(t, p) # Engines!Dir /\ GoesOn(t, u) /\ Wrote(t, u, p, k) /\ u.looked = t.looked
                /\ u.plan = Tail(t.plan)
<1>1. CASE Engines!Current(t, p) # Engines!Dir
  <2>1. u = Engines!Written(t, p, k)
    BY <1>1 DEF Types, Engines!PutFile, Engines!sqlitePutFile, Engines!mysqlPutFile, Engines!postgresPutFile
  <2> QED BY <1>1, <2>1, WroteIs
<1>2. CASE Engines!Current(t, p) = Engines!Dir
  <2>1. \E why \in {"conflict", "notfound"} : u = Engines!Failed(t, why)
    BY <1>2 DEF Types, Engines!PutFile, Engines!sqlitePutFile, Engines!mysqlPutFile, Engines!postgresPutFile
  <2> QED BY <2>1, FailsIs
<1> QED BY <1>1, <1>2

LEMMA CreateIs ==
  ASSUME Types, NEW t, IsTransaction(t), NEW p \in Engines!Places, NEW u, u = Engines!CreateDir(t, p)
  PROVE  \/ Fails(t, u)
         \/ Engines!Current(t, p) = Engines!None /\ GoesOn(t, u) /\ Wrote(t, u, p, Engines!Dir) /\ u.looked = t.looked
                /\ u.plan = Tail(t.plan)
<1>1. Engines!Dir \in Nat
  BY DEF Engines!Dir
<1> QED BY <1>1, WroteIs, FailsIs DEF Engines!CreateDir

LEMMA DeleteIs ==
  ASSUME Types, NEW t, IsTransaction(t), NEW p \in Engines!Places, NEW u, u = Engines!DeleteFile(t, p)
  PROVE  \/ Fails(t, u)
         \/ /\ Engines!Current(t, p) # Engines!None /\ GoesOn(t, u) /\ Wrote(t, u, p, Engines!None)
                   /\ u.looked = t.looked \cup {p} /\ u.plan = Tail(t.plan)
            /\ engine = "sqlite" => \A q \in Engines!ChildrenOf(p) : Engines!FileByPath(t, q) = Engines!None
<1>1. CASE Engines!Current(t, p) = Engines!None \/ Engines!Occupied(t, p)
  <2>1. \E why \in {"conflict", "notfound"} : u = Engines!Failed(t, why)
    BY <1>1 DEF Engines!DeleteFile, Engines!CheckAffected
  <2> QED BY <2>1, FailsIs
<1>2. CASE ~(Engines!Current(t, p) = Engines!None \/ Engines!Occupied(t, p))
  <2> PICK v : v = Engines!Written(t, p, Engines!None)
    OBVIOUS
  <2>1. u = [v EXCEPT !.looked = @ \cup {p}]
    BY <1>2 DEF Engines!DeleteFile
  <2>2. Engines!None \in Nat
    BY DEF Engines!None
  <2>3. GoesOn(t, v) /\ Wrote(t, v, p, Engines!None) /\ v.looked = t.looked /\ v.plan = Tail(t.plan)
    BY <2>2, WroteIs
  <2>4. IsTransaction(v) /\ v.looked \subseteq Engines!Places
    BY <2>3, FieldsAre DEF GoesOn
  <2> PICK w : w = v.looked \cup {p}
    OBVIOUS
  <2>7. w \in SUBSET Engines!Places /\ u = [v EXCEPT !.looked = w]
    BY <2>1, <2>4
  <2>5. /\ IsTransaction(u) /\ u.plan = v.plan /\ SameRequest(v, u) /\ u.writes = v.writes
        /\ u.at = v.at /\ u.why = v.why /\ u.looked = w
        /\ u.emptied = v.emptied /\ u.taken = v.taken /\ u.drops = v.drops
        /\ u.root = v.root /\ u.to = v.to
    BY <2>4, <2>7 DEF IsTransaction, Transactions, SameRequest
  <2>6. engine = "sqlite" => \A q \in Engines!ChildrenOf(p) : Engines!FileByPath(t, q) = Engines!None
    BY <1>2 DEF Engines!Occupied, Engines!sqliteOccupied
  <2> QED BY <1>2, <2>3, <2>5, <2>6 DEF GoesOn, Wrote, SameRequest
<1> QED BY <1>1, <1>2

-----------------------------------------------------------------------------
(* What a transaction of each kind has done and has still to do, with the    *)
(* rows f and the deletions b that are committed; on SQLite nothing changes under *)
(* it, so what it has read is still so.                                      *)

Bare(t) == DOMAIN t.writes = {} /\ t.looked = {} /\ t.emptied = {}
Parented(f, p) == Len(p) = 2 => f[Engines!ParentOf(p)] = Engines!Dir
Put(p, k)  == [do |-> "put", path |-> p, row |-> k]
Back(p, k) == [do |-> IF k = Engines!Dir THEN "dir" ELSE "put", path |-> p, row |-> k]
Plain(do)  == Engines!Statement(do, <<>>)

Replaced(t, f, p, e) == e = "sqlite" => Parented(f, p) /\ t.drops = {f[p]} \cap Engines!BlobKeys

Writing(t, f, e) ==
  /\ t.op = "write" /\ t.taken = {} /\ t.looked = {} /\ t.emptied = {}
  /\ \E p \in Engines!Places :
       \/ /\ Len(p) = 2 /\ t.plan = <<Engines!Statement("parent", p), Engines!Statement("old", p), Put(p, t.key)>>
          /\ DOMAIN t.writes = {} /\ t.drops = {}
       \/ /\ t.plan = <<Engines!Statement("old", p), Put(p, t.key)>> /\ (e = "sqlite" => Parented(f, p))
          /\ DOMAIN t.writes = {} /\ t.drops = {}
       \/ t.plan = <<Put(p, t.key)>> /\ DOMAIN t.writes = {} /\ Replaced(t, f, p, e)
       \/ /\ t.plan = <<>> /\ DOMAIN t.writes = {p} /\ t.writes[p] = t.key
          /\ Replaced(t, f, p, e) /\ (e = "sqlite" => f[p] # Engines!Dir)

Making(t, f, e) ==
  /\ t.op = "mkdir" /\ t.taken = {} /\ t.looked = {} /\ t.emptied = {} /\ t.drops = {}
  /\ \E p \in Engines!Places :
       \/ Len(p) = 2 /\ t.plan = <<Engines!Statement("parent", p), Engines!Statement("dir", p)>> /\ DOMAIN t.writes = {}
       \/ t.plan = <<Engines!Statement("dir", p)>> /\ DOMAIN t.writes = {} /\ (e = "sqlite" => Parented(f, p))
       \/ /\ t.plan = <<>> /\ DOMAIN t.writes = {p} /\ t.writes[p] = Engines!Dir
          /\ e = "sqlite" => Parented(f, p) /\ f[p] = Engines!None

Removing(t, f, e) ==
  /\ t.op = "remove" /\ t.looked \subseteq DOMAIN t.writes /\ t.emptied = {} /\ t.drops = {}
  /\ \E p \in Engines!Places :
       \/ t.plan = <<Engines!Statement("tree", p)>> /\ Bare(t) /\ t.taken = {}
       \/ /\ t.plan = <<Engines!Statement("list", p), Engines!Statement("delete", p)>> /\ Bare(t)
          /\ t.taken = {Entry(p, Engines!Dir)} /\ (e = "sqlite" => f[p] = Engines!Dir)
       \/ \E q \in Engines!ChildrenOf(p) :
            /\ t.plan = <<Engines!Statement("tree", q), Engines!Statement("delete", p)>> /\ Bare(t)
            /\ t.taken = {Entry(p, Engines!Dir)} /\ (e = "sqlite" => f[p] = Engines!Dir)
       \/ \E q \in Engines!ChildrenOf(p), m \in Numbers :
            /\ t.taken = {Entry(p, Engines!Dir), Entry(q, m)} /\ (e = "sqlite" => f[p] = Engines!Dir /\ f[q] = m)
            /\ \/ /\ t.plan = <<Engines!Statement("list", q), Engines!Statement("delete", q), Engines!Statement("delete",
                         p)>> /\ Bare(t)
               \/ /\ t.plan = <<Engines!Statement("delete", q), Engines!Statement("delete", p)>> /\ Bare(t)
               \/ /\ t.plan = <<Engines!Statement("delete", p)>> /\ DOMAIN t.writes = {q}
                  /\ f[q] # Engines!None /\ t.writes[q] = Engines!None
               \/ /\ t.plan = <<>> /\ DOMAIN t.writes = {p, q}
                  /\ f[q] # Engines!None /\ t.writes[q] = Engines!None /\ t.writes[p] = Engines!None
       \/ \E k \in Numbers :
            /\ t.taken = {Entry(p, k)} /\ (e = "sqlite" => f[p] = k)
            /\ \/ t.plan = <<Engines!Statement("delete", p)>> /\ Bare(t)
               \/ /\ t.plan = <<>> /\ DOMAIN t.writes = {p} /\ t.writes[p] = Engines!None
                  /\ e = "sqlite" => \A q \in Engines!ChildrenOf(p) : f[q] = Engines!None

\* Where a restored root lands there is a folder to hold it, or this made one.
Roofed(t, f, e) ==
  \/ DOMAIN t.writes = {} /\ (e = "sqlite" => Parented(f, t.to))
  \/ /\ Len(t.to) = 2 /\ DOMAIN t.writes = {Engines!ParentOf(t.to)} /\ t.writes[Engines!ParentOf(t.to)] = Engines!Dir
     /\ e = "sqlite" => f[Engines!ParentOf(t.to)] = Engines!None
Landed(t, f, e, k) ==
  \/ DOMAIN t.writes = {t.to} /\ t.writes[t.to] = k /\ (e = "sqlite" => Parented(f, t.to))
  \/ /\ Len(t.to) = 2 /\ DOMAIN t.writes = {Engines!ParentOf(t.to), t.to}
     /\ t.writes[Engines!ParentOf(t.to)] = Engines!Dir /\ t.writes[t.to] = k
     /\ e = "sqlite" => f[Engines!ParentOf(t.to)] = Engines!None

Landing(t, f, e) ==
  \/ t.plan = <<Plain("parents"), Plain("rows"), Plain("empty")>> /\ Bare(t)
  \/ /\ Len(t.to) = 2 /\ t.plan = <<Engines!Statement("dir", Engines!ParentOf(t.to)), Plain("rows"), Plain("empty")>>
            /\ Bare(t)
     /\ e = "sqlite" => f[Engines!ParentOf(t.to)] = Engines!None
  \/ t.plan = <<Plain("rows"), Plain("empty")>> /\ Roofed(t, f, e) /\ t.emptied = {}
  \/ \E k \in Numbers :
       /\ t.taken = {Entry(t.root, k)}
       /\ \/ t.plan = <<Back(t.to, k), Plain("empty")>> /\ Roofed(t, f, e) /\ t.emptied = {}
          \/ t.plan = <<Plain("empty")>> /\ Landed(t, f, e, k) /\ t.emptied = {}
          \/ t.plan = <<>> /\ Landed(t, f, e, k) /\ t.emptied = {t.batch}
  \/ \E q \in Engines!ChildrenOf(t.root), c \in Engines!ChildrenOf(t.to), m \in Numbers :
       /\ t.taken = {Entry(t.root, Engines!Dir), Entry(q, m)}
       /\ \/ t.plan = <<Back(t.to, Engines!Dir), Back(c, m), Plain("empty")>> /\ Bare(t)
          \/ /\ t.plan = <<Back(c, m), Plain("empty")>> /\ t.emptied = {}
             /\ DOMAIN t.writes = {t.to} /\ t.writes[t.to] = Engines!Dir
          \/ /\ t.plan = <<Plain("empty")>> /\ t.emptied = {}
             /\ DOMAIN t.writes = {t.to, c} /\ t.writes[t.to] = Engines!Dir /\ t.writes[c] = m
          \/ /\ t.plan = <<>> /\ t.emptied = {t.batch}
             /\ DOMAIN t.writes = {t.to, c} /\ t.writes[t.to] = Engines!Dir /\ t.writes[c] = m

Found(t, b, e) == t.root \in Engines!Places /\ Family(t.taken, t.root) /\ (e = "sqlite" => t.taken = EntriesOf(b, t.batch))

Restoring(t, f, b, e) ==
  /\ t.op = "restore" /\ t.looked = {} /\ t.drops = {}
  /\ \A p \in DOMAIN t.writes : f[p] # Engines!Dir
  /\ \/ /\ t.plan = <<Plain("read"), Plain("name"), Plain("parents"), Plain("rows"), Plain("empty")>>
        /\ Bare(t) /\ t.taken = {}
     \/ /\ Found(t, b, e)
        /\ \/ t.plan = <<Plain("name"), Plain("parents"), Plain("rows"), Plain("empty")>> /\ Bare(t)
           \/ t.to \in {t.root, Engines!Second(t.root)} /\ (e = "sqlite" => f[t.to] = Engines!None) /\ Landing(t, f, e)

Destroying(t, b, e) ==
  /\ t.op = "destroy" /\ DOMAIN t.writes = {} /\ t.looked = {} /\ t.taken = {}
  /\ \/ t.plan = <<Plain("read"), Plain("empty")>> /\ t.emptied = {} /\ t.drops = {}
     \/ /\ e = "sqlite" => t.drops = {x.row : x \in {y \in b : y.batch = t.batch}} \cap Engines!BlobKeys
        /\ \/ t.plan = <<Plain("empty")>> /\ t.emptied = {}
           \/ t.plan = <<>> /\ t.emptied = {t.batch}

Doing(t, f, b, e) ==
  Writing(t, f, e) \/ Making(t, f, e) \/ Removing(t, f, e) \/ Restoring(t, f, b, e) \/ Destroying(t, b, e)

LEMMA ParentOk ==
  ASSUME Types, NEW t, IsTransaction(t), Undisturbed(t), DOMAIN t.writes = {}, NEW p \in Engines!Places, Len(p) = 2,
         NEW u, u = Engines!requireParent(t, p)
  PROVE  Fails(t, u) \/ (u = Engines!Rest(t) /\ (engine = "sqlite" => rows[Engines!ParentOf(p)] = Engines!Dir))
<1>1. Engines!ParentOf(p) \in Engines!Places
  BY Above
<1>2. engine = "sqlite" => Engines!FileByPath(t, Engines!ParentOf(p)) = rows[Engines!ParentOf(p)]
  BY <1>1, ViewIs
<1>3. (\E why \in {"conflict", "notfound"} : u = Engines!Failed(t, why)) \/ (Engines!FileByPath(t,
    Engines!ParentOf(p)) = Engines!Dir /\ u = Engines!Rest(t))
  BY DEF Engines!requireParent
<1> QED BY <1>2, <1>3, FailsIs

LEMMA RestGoes ==
  ASSUME NEW t, IsTransaction(t), NEW u, u = Engines!Rest(t)
  PROVE  /\ GoesOn(t, u) /\ SameDraft(t, u) /\ u.plan = Tail(t.plan) /\ u.taken = t.taken /\ u.drops = t.drops
         /\ u.root = t.root /\ u.to = t.to /\ u.op = t.op /\ u.key = t.key
  BY RestIs DEF GoesOn, SameDraft, SameRequest

LEMMA SupersedeIs ==
  ASSUME Types, NEW t, IsTransaction(t), Undisturbed(t), DOMAIN t.writes = {}, NEW p \in Engines!Places,
         NEW u, u = Engines!Supersede(t, p)
  PROVE  /\ GoesOn(t, u) /\ SameDraft(t, u) /\ u.plan = Tail(t.plan) /\ u.taken = t.taken
         /\ engine = "sqlite" => u.drops = {rows[p]} \cap Engines!BlobKeys
<1> PICK d : d = IF Engines!FileByPath(t, p) \in Engines!BlobKeys THEN {Engines!FileByPath(t, p)} ELSE {}
  OBVIOUS
<1>1. d \in SUBSET Nat /\ (engine = "sqlite" => d = {rows[p]} \cap Engines!BlobKeys)
  BY ViewIs
<1> PICK v : v = Engines!Rest(t)
  OBVIOUS
<1>2. /\ IsTransaction(v) /\ SameRequest(t, v) /\ v.plan = Tail(t.plan)
      /\ v.at = t.at /\ v.why = t.why /\ v.writes = t.writes /\ v.looked = t.looked
      /\ v.emptied = t.emptied /\ v.taken = t.taken
  BY RestIs
<1>3. u = [v EXCEPT !.drops = d]
  BY DEF Engines!Supersede
<1>4. /\ IsTransaction(u) /\ SameRequest(v, u) /\ u.plan = v.plan /\ u.drops = d
      /\ u.at = v.at /\ u.why = v.why /\ u.writes = v.writes /\ u.looked = v.looked
      /\ u.emptied = v.emptied /\ u.taken = v.taken
  BY <1>1, <1>2, <1>3 DEF IsTransaction, Transactions, SameRequest
<1> QED BY <1>1, <1>2, <1>4 DEF GoesOn, SameDraft, SameRequest

LEMMA WritingGoesOn ==
  ASSUME Types, NEW t, IsTransaction(t), Undisturbed(t), Writing(t, rows, engine), t.plan # <<>>,
         NEW u, u = Engines!Perform(t, Head(t.plan))
  PROVE  Fails(t, u) \/ (GoesOn(t, u) /\ Writing(u, rows, engine))
<1>1. t.op = "write" /\ t.taken = {} /\ t.looked = {} /\ t.emptied = {} /\ t.key \in Nat
  BY FieldsAre DEF Writing
<1>2. PICK p \in Engines!Places :
       \/ /\ Len(p) = 2 /\ t.plan = <<Engines!Statement("parent", p), Engines!Statement("old", p), Put(p, t.key)>>
          /\ DOMAIN t.writes = {} /\ t.drops = {}
       \/ /\ t.plan = <<Engines!Statement("old", p), Put(p, t.key)>> /\ (engine = "sqlite" => Parented(rows, p))
          /\ DOMAIN t.writes = {} /\ t.drops = {}
       \/ t.plan = <<Put(p, t.key)>> /\ DOMAIN t.writes = {} /\ Replaced(t, rows, p, engine)
  BY DEF Writing
<1>3. CASE /\ Len(p) = 2 /\ t.plan = <<Engines!Statement("parent", p), Engines!Statement("old", p), Put(p, t.key)>>
           /\ DOMAIN t.writes = {} /\ t.drops = {}
  <2>1. Head(t.plan) = Engines!Statement("parent", p) /\ Tail(t.plan) = <<Engines!Statement("old", p), Put(p, t.key)>>
    BY <1>3, Plans
  <2>2. u = Engines!requireParent(t, p)
    BY <2>1, PerformIs DEF Engines!Statement
  <2>3. Fails(t, u) \/ (u = Engines!Rest(t) /\ (engine = "sqlite" => Parented(rows, p)))
    BY <1>3, <2>2, ParentOk DEF Parented
  <2>4. CASE u = Engines!Rest(t) /\ (engine = "sqlite" => Parented(rows, p))
    <3>2. /\ GoesOn(t, u) /\ SameDraft(t, u) /\ u.plan = Tail(t.plan) /\ u.taken = t.taken /\ u.drops = t.drops
          /\ u.op = t.op /\ u.key = t.key
      BY <2>4, RestGoes
    <3>1. /\ GoesOn(t, u) /\ u.plan = <<Engines!Statement("old", p), Put(p, u.key)>> /\ u.op = "write" /\ u.taken = {}
                 /\ u.looked = {}
          /\ u.emptied = {} /\ DOMAIN u.writes = {} /\ u.drops = {}
      BY <1>1, <1>3, <2>1, <3>2 DEF SameDraft
    <3> QED BY <1>2, <2>4, <3>1 DEF Writing
  <2> QED BY <2>3, <2>4
<1>4. CASE /\ t.plan = <<Engines!Statement("old", p), Put(p, t.key)>> /\ (engine = "sqlite" => Parented(rows, p))
           /\ DOMAIN t.writes = {} /\ t.drops = {}
  <2>1. Head(t.plan) = Engines!Statement("old", p) /\ Tail(t.plan) = <<Put(p, t.key)>>
    BY <1>4, Plans
  <2>2. u = Engines!Supersede(t, p)
    BY <2>1, PerformIs DEF Engines!Statement
  <2>5. DOMAIN t.writes = {}
    BY <1>4
  <2>3. /\ GoesOn(t, u) /\ SameDraft(t, u) /\ u.plan = Tail(t.plan) /\ u.taken = t.taken
        /\ engine = "sqlite" => u.drops = {rows[p]} \cap Engines!BlobKeys
    BY <1>2, <2>2, <2>5, SupersedeIs
  <2>4. u.op = "write" /\ u.key = t.key /\ u.taken = {} /\ u.looked = {} /\ u.emptied = {} /\ DOMAIN u.writes = {}
    BY <1>1, <1>4, <2>3 DEF GoesOn, SameRequest, SameDraft
  <2>6. Replaced(u, rows, p, engine)
    BY <1>4, <2>3 DEF Replaced
  <2>7. u.plan = <<Put(p, u.key)>>
    BY <2>1, <2>3, <2>4
  <2> QED BY <1>2, <2>3, <2>4, <2>6, <2>7 DEF Writing
<1>5. CASE t.plan = <<Put(p, t.key)>> /\ DOMAIN t.writes = {} /\ Replaced(t, rows, p, engine)
  <2>1. Head(t.plan) = Put(p, t.key) /\ Tail(t.plan) = <<>>
    BY <1>5, Plans
  <2>2. u = Engines!PutFile(t, p, t.key)
    BY <2>1, PerformIs DEF Put
  <2>3. Fails(t, u) \/ (Engines!Current(t, p) # Engines!Dir /\ GoesOn(t, u) /\ Wrote(t, u, p, t.key) /\ u.looked = t.looked
      /\ u.plan = <<>>)
    BY <1>1, <2>1, <2>2, <1>2, PutIs
  <2>4. CASE Engines!Current(t, p) # Engines!Dir /\ GoesOn(t, u) /\ Wrote(t, u, p, t.key) /\ u.looked = t.looked
      /\ u.plan = <<>>
    <3>1. rows[p] # Engines!Dir
      BY <1>5, <2>4, ViewIs
    <3>2. /\ u.op = "write" /\ u.key = t.key /\ u.taken = {} /\ u.looked = {} /\ u.emptied = {} /\ DOMAIN u.writes = {p}
          /\ u.writes[p] = u.key /\ u.drops = t.drops
      BY <1>1, <1>5, <2>4 DEF GoesOn, SameRequest, Wrote
    <3>3. Replaced(u, rows, p, engine)
      BY <1>5, <3>2 DEF Replaced
    <3> QED BY <1>2, <2>4, <3>1, <3>2, <3>3 DEF Writing
  <2> QED BY <2>3, <2>4
<1> QED BY <1>2, <1>3, <1>4, <1>5

LEMMA MakingGoesOn ==
  ASSUME Types, NEW t, IsTransaction(t), Undisturbed(t), Making(t, rows, engine), t.plan # <<>>,
         NEW u, u = Engines!Perform(t, Head(t.plan))
  PROVE  Fails(t, u) \/ (GoesOn(t, u) /\ Making(u, rows, engine))
<1>1. t.op = "mkdir" /\ t.taken = {} /\ t.looked = {} /\ t.emptied = {} /\ t.drops = {}
  BY DEF Making
<1>2. PICK p \in Engines!Places :
       \/ Len(p) = 2 /\ t.plan = <<Engines!Statement("parent", p), Engines!Statement("dir", p)>> /\ DOMAIN t.writes = {}
       \/ t.plan = <<Engines!Statement("dir", p)>> /\ DOMAIN t.writes = {} /\ (engine = "sqlite" => Parented(rows, p))
  BY DEF Making
<1>3. CASE Len(p) = 2 /\ t.plan = <<Engines!Statement("parent", p), Engines!Statement("dir", p)>> /\ DOMAIN t.writes = {}
  <2>1. Head(t.plan) = Engines!Statement("parent", p) /\ Tail(t.plan) = <<Engines!Statement("dir", p)>>
    BY <1>3, Plans
  <2>2. u = Engines!requireParent(t, p)
    BY <2>1, PerformIs DEF Engines!Statement
  <2>3. Fails(t, u) \/ (u = Engines!Rest(t) /\ (engine = "sqlite" => Parented(rows, p)))
    BY <1>3, <2>2, ParentOk DEF Parented
  <2>4. CASE u = Engines!Rest(t) /\ (engine = "sqlite" => Parented(rows, p))
    <3>2. /\ GoesOn(t, u) /\ SameDraft(t, u) /\ u.plan = Tail(t.plan) /\ u.taken = t.taken /\ u.drops = t.drops
          /\ u.op = t.op /\ u.key = t.key
      BY <2>4, RestGoes
    <3>1. /\ GoesOn(t, u) /\ u.plan = <<Engines!Statement("dir", p)>> /\ u.op = "mkdir" /\ u.taken = {} /\ u.looked = {}
          /\ u.emptied = {} /\ DOMAIN u.writes = {} /\ u.drops = {}
      BY <1>1, <1>3, <2>1, <3>2 DEF SameDraft
    <3> QED BY <1>2, <2>4, <3>1 DEF Making
  <2> QED BY <2>3, <2>4
<1>4. CASE t.plan = <<Engines!Statement("dir", p)>> /\ DOMAIN t.writes = {} /\ (engine = "sqlite" => Parented(rows, p))
  <2>1. Head(t.plan) = Engines!Statement("dir", p) /\ Tail(t.plan) = <<>>
    BY <1>4, Plans
  <2>2. u = Engines!CreateDir(t, p)
    BY <2>1, PerformIs DEF Engines!Statement
  <2>3. Fails(t, u) \/ (Engines!Current(t, p) = Engines!None /\ GoesOn(t, u) /\ Wrote(t, u, p, Engines!Dir)
      /\ u.looked = t.looked /\ u.plan = <<>>)
    BY <2>1, <2>2, <1>2, CreateIs
  <2>4. CASE Engines!Current(t, p) = Engines!None /\ GoesOn(t, u) /\ Wrote(t, u, p, Engines!Dir) /\ u.looked = t.looked
      /\ u.plan = <<>>
    <3>1. rows[p] = Engines!None
      BY <1>4, <2>4, ViewIs
    <3>2. /\ u.op = "mkdir" /\ u.taken = {} /\ u.looked = {} /\ u.emptied = {} /\ DOMAIN u.writes = {p}
          /\ u.writes[p] = Engines!Dir /\ u.drops = {}
      BY <1>1, <1>4, <2>4 DEF GoesOn, SameRequest, Wrote
    <3> QED BY <1>2, <1>4, <2>4, <3>1, <3>2 DEF Making
  <2> QED BY <2>3, <2>4
<1> QED BY <1>2, <1>3, <1>4

LEMMA ListOfIs == Engines!ListOf({}) = <<>> /\ \A x : Engines!ListOf({x}) = <<x>>
  BY DEF Engines!ListOf

LEMMA TakenIs ==
  ASSUME NEW v, IsTransaction(v), NEW s \in SUBSET Entries, NEW u, u = [v EXCEPT !.taken = s]
  PROVE  /\ IsTransaction(u) /\ u.plan = v.plan /\ SameRequest(v, u) /\ u.taken = s
         /\ u.at = v.at /\ u.why = v.why /\ u.writes = v.writes /\ u.looked = v.looked
         /\ u.emptied = v.emptied /\ u.drops = v.drops /\ u.root = v.root /\ u.to = v.to
  BY DEF IsTransaction, Transactions, SameRequest

LEMMA TakenMore ==
  ASSUME NEW v, IsTransaction(v), NEW e \in Entries, NEW u, u = [v EXCEPT !.taken = @ \cup {e}]
  PROVE  /\ IsTransaction(u) /\ u.plan = v.plan /\ SameRequest(v, u) /\ u.taken = v.taken \cup {e}
         /\ u.at = v.at /\ u.why = v.why /\ u.writes = v.writes /\ u.looked = v.looked
         /\ u.emptied = v.emptied /\ u.drops = v.drops /\ u.root = v.root /\ u.to = v.to
<1> PICK s : s = v.taken \cup {e}
  OBVIOUS
<1>1. s \in SUBSET Entries
  BY FieldsAre
<1>2. u = [v EXCEPT !.taken = s]
  OBVIOUS
<1> QED BY <1>1, <1>2, TakenIs

LEMMA ThenGoes ==
  ASSUME NEW t, IsTransaction(t), NEW new
  PROVE  LET u == Engines!Then(t, new)
         IN /\ GoesOn(t, u) /\ SameDraft(t, u) /\ u.drops = t.drops /\ u.taken = t.taken /\ u.plan = new \o Tail(t.plan)
            /\ u.root = t.root /\ u.to = t.to
<1> PICK u : u = Engines!Then(t, new)
  OBVIOUS
<1>1. /\ IsTransaction(u) /\ SameRequest(t, u) /\ u.plan = new \o Tail(t.plan)
      /\ u.at = t.at /\ u.why = t.why /\ u.writes = t.writes /\ u.looked = t.looked
      /\ u.emptied = t.emptied /\ u.taken = t.taken /\ u.drops = t.drops /\ u.root = t.root /\ u.to = t.to
  BY ThenIs
<1> QED BY <1>1 DEF GoesOn, SameDraft

LEMMA RemoveTreeIs ==
  ASSUME Types, NEW t, IsTransaction(t), NEW p \in Engines!Places, NEW u, u = Engines!RemoveTree(t, p)
  PROVE  \/ Fails(t, u)
         \/ /\ GoesOn(t, u) /\ SameDraft(t, u) /\ u.drops = t.drops
            /\ Engines!FileByPath(t, p) \in Numbers /\ u.taken = t.taken \cup {Entry(p, Engines!FileByPath(t, p))}
            /\ Engines!FileByPath(t, p) = Engines!Dir => u.plan = <<Engines!Statement("list", p),
                   Engines!Statement("delete", p)>> \o Tail(t.plan)
            /\ Engines!FileByPath(t, p) # Engines!Dir => u.plan = <<Engines!Statement("delete", p)>> \o Tail(t.plan)
<1> PICK k : k = Engines!FileByPath(t, p)
  OBVIOUS
<1>1. k \in Nat
  BY ViewIs
<1>2. CASE k = Engines!None
  <2>1. u = Engines!Failed(t, "notfound")
    BY <1>2 DEF Engines!RemoveTree
  <2> QED BY <2>1, FailsIs
<1>3. CASE k # Engines!None
  <2> PICK new : new = (IF k = Engines!Dir THEN <<Engines!Statement("list", p)>> ELSE <<>>) \o <<Engines!Statement("delete",
      p)>>
    OBVIOUS
  <2> PICK v : v = Engines!Then(t, new)
    OBVIOUS
  <2>1. /\ IsTransaction(v) /\ SameRequest(t, v) /\ v.plan = new \o Tail(t.plan)
        /\ v.at = t.at /\ v.why = t.why /\ v.writes = t.writes /\ v.looked = t.looked
        /\ v.emptied = t.emptied /\ v.taken = t.taken /\ v.drops = t.drops
    BY ThenIs
  <2>2. u = [v EXCEPT !.taken = @ \cup {Entry(p, k)}]
    BY <1>3 DEF Engines!RemoveTree, Entry
  <2>3. k \in Numbers /\ Entry(p, k) \in Entries
    BY <1>1, <1>3 DEF Numbers, Entries, Entry, Engines!None
  <2>4. /\ IsTransaction(u) /\ u.plan = v.plan /\ SameRequest(v, u) /\ u.taken = v.taken \cup {Entry(p, k)}
        /\ u.at = v.at /\ u.why = v.why /\ u.writes = v.writes /\ u.looked = v.looked
        /\ u.emptied = v.emptied /\ u.drops = v.drops
    BY <2>1, <2>2, <2>3, TakenMore
  <2>5. GoesOn(t, u) /\ SameDraft(t, u)
    BY <2>1, <2>4 DEF GoesOn, SameDraft, SameRequest
  <2>6. /\ k = Engines!Dir => new = <<Engines!Statement("list", p), Engines!Statement("delete", p)>>
        /\ k # Engines!Dir => new = <<Engines!Statement("delete", p)>>
    BY Lists
  <2> QED BY <2>1, <2>3, <2>4, <2>5, <2>6
<1> QED BY <1>2, <1>3

LEMMA ListingIs ==
  ASSUME Types, NEW t, IsTransaction(t), NEW p \in Engines!Places, NEW u, u = Engines!RemoveChildren(t, p)
  PROVE  /\ GoesOn(t, u) /\ SameDraft(t, u) /\ u.drops = t.drops /\ u.taken = t.taken
         /\ \/ u.plan = <<>> \o Tail(t.plan)
            \/ \E q \in Engines!ChildrenOf(p) : u.plan = <<Engines!Statement("tree", q)>> \o Tail(t.plan)
<1>1. ASSUME NEW new, new = Engines!ListOf({Engines!Statement("tree", q) : q \in Engines!ListFiles(t, p)})
      PROVE  GoesOn(t, u) /\ SameDraft(t, u) /\ u.drops = t.drops /\ u.taken = t.taken /\ u.plan = new \o Tail(t.plan)
  <2>1. u = Engines!Then(t, new)
    BY <1>1 DEF Engines!RemoveChildren
  <2>2. \E v : v = Engines!Then(t, new)
    OBVIOUS
  <2>3. PICK v : v = Engines!Then(t, new)
    BY <2>2
  <2>4. GoesOn(t, v) /\ SameDraft(t, v) /\ v.drops = t.drops /\ v.taken = t.taken /\ v.plan = new \o Tail(t.plan)
    BY <2>3, ThenGoes
  <2>5. u = v
    BY <2>1, <2>3
  <2> QED BY <2>4, <2>5
<1> PICK new : new = Engines!ListOf({Engines!Statement("tree", q) : q \in Engines!ListFiles(t, p)})
  OBVIOUS
<1>2. GoesOn(t, u) /\ SameDraft(t, u) /\ u.drops = t.drops /\ u.taken = t.taken /\ u.plan = new \o Tail(t.plan)
  BY <1>1
<1>3. Engines!ListFiles(t, p) = {} \/ \E q \in Engines!ChildrenOf(p) : Engines!ListFiles(t, p) = {q}
  <2>1. Engines!ListFiles(t, p) \subseteq Engines!ChildrenOf(p)
    BY DEF Engines!ListFiles
  <2>2. \A q \in Engines!ChildrenOf(p) : Engines!ChildrenOf(p) = {q}
    BY Above
  <2> QED BY <2>1, <2>2
<1>4. CASE Engines!ListFiles(t, p) = {}
  <2>1. {Engines!Statement("tree", q) : q \in Engines!ListFiles(t, p)} = {}
    BY <1>4
  <2> QED BY <1>2, <2>1, ListOfIs
<1>5. CASE \E q \in Engines!ChildrenOf(p) : Engines!ListFiles(t, p) = {q}
  <2>1. PICK q \in Engines!ChildrenOf(p) : Engines!ListFiles(t, p) = {q}
    BY <1>5
  <2>2. {Engines!Statement("tree", c) : c \in Engines!ListFiles(t, p)} = {Engines!Statement("tree", q)}
    BY <2>1
  <2> QED BY <1>2, <2>2, ListOfIs
<1> QED BY <1>3, <1>4, <1>5

LEMMA RemovingGoesOn ==
  ASSUME Types, NEW t, IsTransaction(t), Undisturbed(t), Removing(t, rows, engine), t.plan # <<>>,
         NEW u, u = Engines!Perform(t, Head(t.plan))
  PROVE  Fails(t, u) \/ (GoesOn(t, u) /\ Removing(u, rows, engine))
<1>1. t.op = "remove" /\ t.looked \subseteq DOMAIN t.writes /\ t.emptied = {} /\ t.drops = {}
  BY DEF Removing
<1>2. PICK p \in Engines!Places :
       \/ t.plan = <<Engines!Statement("tree", p)>> /\ Bare(t) /\ t.taken = {}
       \/ /\ t.plan = <<Engines!Statement("list", p), Engines!Statement("delete", p)>> /\ Bare(t)
          /\ t.taken = {Entry(p, Engines!Dir)} /\ (engine = "sqlite" => rows[p] = Engines!Dir)
       \/ \E q \in Engines!ChildrenOf(p) :
            /\ t.plan = <<Engines!Statement("tree", q), Engines!Statement("delete", p)>> /\ Bare(t)
            /\ t.taken = {Entry(p, Engines!Dir)} /\ (engine = "sqlite" => rows[p] = Engines!Dir)
       \/ \E q \in Engines!ChildrenOf(p), m \in Numbers :
            /\ t.taken = {Entry(p, Engines!Dir), Entry(q, m)} /\ (engine = "sqlite" => rows[p] = Engines!Dir /\ rows[q] = m)
            /\ \/ /\ t.plan = <<Engines!Statement("list", q), Engines!Statement("delete", q), Engines!Statement("delete",
                         p)>> /\ Bare(t)
               \/ /\ t.plan = <<Engines!Statement("delete", q), Engines!Statement("delete", p)>> /\ Bare(t)
               \/ /\ t.plan = <<Engines!Statement("delete", p)>> /\ DOMAIN t.writes = {q}
                  /\ rows[q] # Engines!None /\ t.writes[q] = Engines!None
       \/ \E k \in Numbers :
            /\ t.taken = {Entry(p, k)} /\ (engine = "sqlite" => rows[p] = k)
            /\ t.plan = <<Engines!Statement("delete", p)>> /\ Bare(t)
  BY DEF Removing
<1>3. Engines!Dir \in Numbers
  BY DEF Engines!Dir, Numbers
<1>4. ASSUME GoesOn(t, u), SameDraft(t, u), u.drops = t.drops, Bare(t)
      PROVE  /\ GoesOn(t, u) /\ u.op = "remove" /\ u.looked \subseteq DOMAIN u.writes /\ u.emptied = {} /\ u.drops = {}
                    /\ Bare(u)
  BY <1>1, <1>4 DEF GoesOn, SameRequest, SameDraft, Bare
<1>5. CASE t.plan = <<Engines!Statement("tree", p)>> /\ Bare(t) /\ t.taken = {}
  <2>1. Head(t.plan) = Engines!Statement("tree", p) /\ Tail(t.plan) = <<>>
    BY <1>5, Plans
  <2>2. u = Engines!RemoveTree(t, p)
    BY <2>1, PerformIs DEF Engines!Statement
  <2> PICK k : k = Engines!FileByPath(t, p)
    OBVIOUS
  <2>3. engine = "sqlite" => rows[p] = k
    BY <1>5, ViewIs DEF Bare
  <2>4. CASE /\ GoesOn(t, u) /\ SameDraft(t, u) /\ u.drops = t.drops
             /\ k \in Numbers /\ u.taken = t.taken \cup {Entry(p, k)}
             /\ k = Engines!Dir => u.plan = <<Engines!Statement("list", p), Engines!Statement("delete", p)>> \o Tail(t.plan)
             /\ k # Engines!Dir => u.plan = <<Engines!Statement("delete", p)>> \o Tail(t.plan)
    <3>1. u.taken = {Entry(p, k)}
      BY <1>5, <2>4
    <3>2. /\ k = Engines!Dir => u.plan = <<Engines!Statement("list", p), Engines!Statement("delete", p)>>
          /\ k # Engines!Dir => u.plan = <<Engines!Statement("delete", p)>>
      BY <2>1, <2>4, Lists
    <3> QED BY <1>2, <1>4, <1>5, <2>3, <2>4, <3>1, <3>2 DEF Removing
  <2> QED BY <1>2, <2>2, <2>4, RemoveTreeIs
<1>6. CASE /\ t.plan = <<Engines!Statement("list", p), Engines!Statement("delete", p)>> /\ Bare(t)
           /\ t.taken = {Entry(p, Engines!Dir)} /\ (engine = "sqlite" => rows[p] = Engines!Dir)
  <2>1. Head(t.plan) = Engines!Statement("list", p) /\ Tail(t.plan) = <<Engines!Statement("delete", p)>>
    BY <1>6, Plans
  <2>2. u = Engines!RemoveChildren(t, p)
    BY <2>1, PerformIs DEF Engines!Statement
  <2>3. /\ GoesOn(t, u) /\ SameDraft(t, u) /\ u.drops = t.drops /\ u.taken = t.taken
        /\ \/ u.plan = <<>> \o Tail(t.plan)
           \/ \E q \in Engines!ChildrenOf(p) : u.plan = <<Engines!Statement("tree", q)>> \o Tail(t.plan)
    BY <1>2, <2>2, ListingIs
  <2>4. \/ u.plan = <<Engines!Statement("delete", p)>>
        \/ \E q \in Engines!ChildrenOf(p) : u.plan = <<Engines!Statement("tree", q), Engines!Statement("delete", p)>>
    BY <2>1, <2>3, Lists
  <2> QED BY <1>2, <1>3, <1>4, <1>6, <2>3, <2>4 DEF Removing
<1>7. ASSUME NEW q \in Engines!ChildrenOf(p), t.plan = <<Engines!Statement("tree", q), Engines!Statement("delete", p)>>,
    Bare(t),
             t.taken = {Entry(p, Engines!Dir)}, engine = "sqlite" => rows[p] = Engines!Dir
      PROVE  Fails(t, u) \/ (GoesOn(t, u) /\ Removing(u, rows, engine))
  <2>1. Head(t.plan) = Engines!Statement("tree", q) /\ Tail(t.plan) = <<Engines!Statement("delete", p)>>
    BY <1>7, Plans
  <2>2. u = Engines!RemoveTree(t, q) /\ q \in Engines!Places
    BY <1>7, <2>1, PerformIs, Above DEF Engines!Statement
  <2> PICK m : m = Engines!FileByPath(t, q)
    OBVIOUS
  <2>3. engine = "sqlite" => rows[q] = m
    BY <1>7, <2>2, ViewIs DEF Bare
  <2>4. CASE /\ GoesOn(t, u) /\ SameDraft(t, u) /\ u.drops = t.drops
             /\ m \in Numbers /\ u.taken = t.taken \cup {Entry(q, m)}
             /\ m = Engines!Dir => u.plan = <<Engines!Statement("list", q), Engines!Statement("delete", q)>> \o Tail(t.plan)
             /\ m # Engines!Dir => u.plan = <<Engines!Statement("delete", q)>> \o Tail(t.plan)
    <3>1. u.taken = {Entry(p, Engines!Dir), Entry(q, m)}
      BY <1>7, <2>4
    <3>2. \/ u.plan = <<Engines!Statement("list", q), Engines!Statement("delete", q), Engines!Statement("delete", p)>>
          \/ u.plan = <<Engines!Statement("delete", q), Engines!Statement("delete", p)>>
      <4>1. CASE m = Engines!Dir
        <5>1. u.plan = <<Engines!Statement("list", q), Engines!Statement("delete", q)>> \o <<Engines!Statement("delete",
            p)>>
          BY <2>1, <2>4, <4>1
        <5> QED BY <5>1, Lists
      <4>2. CASE m # Engines!Dir
        <5>1. u.plan = <<Engines!Statement("delete", q)>> \o <<Engines!Statement("delete", p)>>
          BY <2>1, <2>4, <4>2
        <5> QED BY <5>1, Lists
      <4> QED BY <4>1, <4>2
    <3>3. Bare(u) /\ u.op = "remove" /\ u.looked \subseteq DOMAIN u.writes /\ u.emptied = {} /\ u.drops = {}
      BY <1>4, <1>7, <2>4
    <3> QED BY <1>2, <1>7, <2>3, <2>4, <3>1, <3>2, <3>3 DEF Removing
  <2> QED BY <2>2, <2>4, RemoveTreeIs
<1>8. ASSUME NEW q \in Engines!ChildrenOf(p), NEW m \in Numbers,
             t.taken = {Entry(p, Engines!Dir), Entry(q, m)}, engine = "sqlite" => rows[p] = Engines!Dir /\ rows[q] = m,
             \/ /\ t.plan = <<Engines!Statement("list", q), Engines!Statement("delete", q), Engines!Statement("delete", p)>>
                       /\ Bare(t)
             \/ /\ t.plan = <<Engines!Statement("delete", q), Engines!Statement("delete", p)>> /\ Bare(t)
             \/ /\ t.plan = <<Engines!Statement("delete", p)>> /\ DOMAIN t.writes = {q}
                /\ rows[q] # Engines!None /\ t.writes[q] = Engines!None
      PROVE  Fails(t, u) \/ (GoesOn(t, u) /\ Removing(u, rows, engine))
  <2>1. q \in Engines!Places /\ q # p /\ Engines!ChildrenOf(q) = {}
    BY <1>2, <1>8, Above
  <2>2. CASE t.plan = <<Engines!Statement("list", q), Engines!Statement("delete", q), Engines!Statement("delete", p)>>
      /\ Bare(t)
    <3>1. Head(t.plan) = Engines!Statement("list", q) /\ Tail(t.plan) = <<Engines!Statement("delete", q),
        Engines!Statement("delete", p)>>
      BY <2>2, Plans
    <3>2. u = Engines!RemoveChildren(t, q)
      BY <3>1, PerformIs DEF Engines!Statement
    <3>3. /\ GoesOn(t, u) /\ SameDraft(t, u) /\ u.drops = t.drops /\ u.taken = t.taken
          /\ u.plan = <<>> \o Tail(t.plan)
      BY <2>1, <3>2, ListingIs
    <3>4. u.plan = <<Engines!Statement("delete", q), Engines!Statement("delete", p)>>
      BY <3>1, <3>3, Lists
    <3>5. Bare(u) /\ u.op = "remove" /\ u.looked \subseteq DOMAIN u.writes /\ u.emptied = {} /\ u.drops = {}
      BY <1>4, <2>2, <3>3
    <3> QED BY <1>2, <1>8, <3>3, <3>4, <3>5 DEF Removing
  <2>3. CASE t.plan = <<Engines!Statement("delete", q), Engines!Statement("delete", p)>> /\ Bare(t)
    <3>1. Head(t.plan) = Engines!Statement("delete", q) /\ Tail(t.plan) = <<Engines!Statement("delete", p)>>
      BY <2>3, Plans
    <3>2. u = Engines!DeleteFile(t, q)
      BY <3>1, PerformIs DEF Engines!Statement
    <3>3. CASE /\ Engines!Current(t, q) # Engines!None /\ GoesOn(t, u) /\ Wrote(t, u, q, Engines!None) /\ u.looked = t.looked \cup {q}
               /\ u.plan = Tail(t.plan)
      <4>1. rows[q] # Engines!None
        BY <2>1, <2>3, <3>3, ViewIs DEF Bare
      <4>2. /\ DOMAIN u.writes = {q} /\ u.writes[q] = Engines!None /\ u.op = "remove" /\ u.looked \subseteq DOMAIN u.writes
            /\ u.emptied = {} /\ u.drops = {} /\ u.taken = t.taken /\ u.plan = <<Engines!Statement("delete", p)>>
        BY <1>1, <2>3, <3>1, <3>3 DEF Bare, Wrote, GoesOn, SameRequest
      <4> QED BY <1>2, <1>8, <3>3, <4>1, <4>2 DEF Removing
    <3> QED BY <2>1, <3>2, <3>3, DeleteIs
  <2>4. CASE t.plan = <<Engines!Statement("delete", p)>> /\ DOMAIN t.writes = {q} /\ rows[q] # Engines!None
      /\ t.writes[q] = Engines!None
    <3>1. Head(t.plan) = Engines!Statement("delete", p) /\ Tail(t.plan) = <<>>
      BY <2>4, Plans
    <3>2. u = Engines!DeleteFile(t, p)
      BY <3>1, PerformIs DEF Engines!Statement
    <3>3. CASE /\ Engines!Current(t, p) # Engines!None /\ GoesOn(t, u) /\ Wrote(t, u, p, Engines!None) /\ u.looked = t.looked \cup {p}
               /\ u.plan = Tail(t.plan)
      <4>1. /\ DOMAIN u.writes = {p, q} /\ u.writes[q] = Engines!None /\ u.writes[p] = Engines!None
            /\ u.op = "remove" /\ u.looked \subseteq DOMAIN u.writes
            /\ u.emptied = {} /\ u.drops = {} /\ u.taken = t.taken /\ u.plan = <<>>
        BY <1>1, <2>1, <2>4, <3>1, <3>3 DEF Wrote, GoesOn, SameRequest
      <4> QED BY <1>2, <1>8, <2>4, <3>3, <4>1 DEF Removing
    <3> QED BY <1>2, <3>2, <3>3, DeleteIs
  <2> QED BY <1>8, <2>2, <2>3, <2>4
<1>9. ASSUME NEW k \in Numbers, t.taken = {Entry(p, k)}, engine = "sqlite" => rows[p] = k,
             t.plan = <<Engines!Statement("delete", p)>>, Bare(t)
      PROVE  Fails(t, u) \/ (GoesOn(t, u) /\ Removing(u, rows, engine))
  <2>1. Head(t.plan) = Engines!Statement("delete", p) /\ Tail(t.plan) = <<>>
    BY <1>9, Plans
  <2>2. u = Engines!DeleteFile(t, p)
    BY <2>1, PerformIs DEF Engines!Statement
  <2>3. CASE /\ Engines!Current(t, p) # Engines!None /\ GoesOn(t, u) /\ Wrote(t, u, p, Engines!None) /\ u.looked = t.looked \cup {p}
             /\ u.plan = Tail(t.plan) /\ (engine = "sqlite" => \A q \in Engines!ChildrenOf(p) : Engines!FileByPath(t,
                    q) = Engines!None)
    <3>1. engine = "sqlite" => \A q \in Engines!ChildrenOf(p) : rows[q] = Engines!None
      BY <1>2, <1>9, <2>3, ViewIs, Above DEF Bare
    <3>2. /\ DOMAIN u.writes = {p} /\ u.writes[p] = Engines!None /\ u.op = "remove" /\ u.looked \subseteq DOMAIN u.writes
          /\ u.emptied = {} /\ u.drops = {} /\ u.taken = t.taken /\ u.plan = <<>>
      BY <1>1, <1>9, <2>1, <2>3 DEF Bare, Wrote, GoesOn, SameRequest
    <3> QED BY <1>2, <1>9, <2>3, <3>1, <3>2 DEF Removing
  <2> QED BY <1>2, <2>2, <2>3, DeleteIs
<1> QED BY <1>2, <1>5, <1>6, <1>7, <1>8, <1>9

\* A deletion's rows, and the first of them.
LEMMA DeletionIs ==
  ASSUME Types, NEW t, IsTransaction(t), Undisturbed(t),
         NEW found, found = {[path |-> x.path, row |-> x.row] : x \in Engines!TrashedIn(t, t.batch)}, found # {}
  PROVE  /\ \E p \in Engines!Places : Family(found, p)
         /\ engine = "sqlite" => found = EntriesOf(bin, t.batch)
<1>1. found = EntriesOf(Engines!Sees(t).bin, t.batch)
  BY DEF Engines!TrashedIn, EntriesOf, Entry
<1>2. PICK x \in Engines!Sees(t).bin : x.batch = t.batch
  BY <1>1 DEF EntriesOf
<1>3. \E p \in Engines!Places : Family(EntriesOf(Engines!Sees(t).bin, x.batch), p)
  BY <1>2, SightIs DEF Families
<1> QED BY <1>1, <1>2, <1>3, SightIs

LEMMA FamilyIs ==
  ASSUME NEW S, NEW p \in Engines!Places, Family(S, p)
  PROVE  /\ S \subseteq Entries /\ S # {}
         /\ (CHOOSE x \in S : \A y \in S : Len(x.path) <= Len(y.path)).path = p
         /\ \A x, y \in S : x.path = y.path => x = y
         /\ \A x \in S : x.path = p \/ x.path \in Engines!ChildrenOf(p)
<1>1. CASE \E k \in Numbers : S = {Entry(p, k)}
  <2>1. PICK k \in Numbers : S = {Entry(p, k)}
    BY <1>1
  <2>2. Entry(p, k) \in Entries /\ Entry(p, k).path = p /\ Len(p) \in Nat
    BY Above DEF Entries, Entry
  <2> PICK e : e = Entry(p, k)
    OBVIOUS
  <2>3. S = {e} /\ e \in Entries /\ e.path = p
    BY <2>1, <2>2
  <2>4. (CHOOSE x \in S : \A y \in S : Len(x.path) <= Len(y.path)) = e
    BY <2>2, <2>3
  <2> QED BY <2>3, <2>4
<1>2. CASE \E q \in Engines!ChildrenOf(p), m \in Numbers : S = {Entry(p, Engines!Dir), Entry(q, m)}
  <2>1. PICK q \in Engines!ChildrenOf(p), m \in Numbers : S = {Entry(p, Engines!Dir), Entry(q, m)}
    BY <1>2
  <2>2. q \in Engines!Places /\ q # p /\ Len(p) = 1 /\ Len(q) = 2 /\ Engines!Dir \in Numbers
    BY <2>1, Above DEF Engines!Dir, Numbers
  <2> PICK e, c : e = Entry(p, Engines!Dir) /\ c = Entry(q, m)
    OBVIOUS
  <2>3. S = {e, c} /\ e \in Entries /\ e.path = p /\ c \in Entries /\ c.path = q
    BY <2>1, <2>2 DEF Entries, Entry
  <2>4. (CHOOSE x \in S : \A y \in S : Len(x.path) <= Len(y.path)) = e
    <3>4. Len(e.path) = 1 /\ Len(c.path) = 2
      BY <2>2, <2>3
    <3>5. Len(e.path) <= Len(e.path) /\ Len(e.path) <= Len(c.path) /\ ~(Len(c.path) <= Len(e.path))
      BY <3>4
    <3>1. \A y \in S : Len(e.path) <= Len(y.path)
      BY <2>3, <3>5
    <3>6. e \in S /\ ~(Len(c.path) <= Len(e.path))
      BY <2>3, <3>5
    <3>2. ~(\A y \in S : Len(c.path) <= Len(y.path))
      BY <3>6
    <3>3. \A x \in S : (\A y \in S : Len(x.path) <= Len(y.path)) <=> x = e
      BY <2>3, <3>1, <3>2
    <3> QED BY <2>3, <3>3
  <2> QED BY <2>1, <2>2, <2>3, <2>4
<1> QED BY <1>1, <1>2 DEF Family


LEMMA FoundRootIs ==
  ASSUME NEW v, IsTransaction(v), NEW p \in Engines!Places, NEW u, u = [v EXCEPT !.root = p]
  PROVE  /\ IsTransaction(u) /\ u.plan = v.plan /\ SameRequest(v, u) /\ u.taken = v.taken /\ u.root = p
         /\ u.at = v.at /\ u.why = v.why /\ u.writes = v.writes /\ u.looked = v.looked
         /\ u.emptied = v.emptied /\ u.drops = v.drops
  BY DEF IsTransaction, Transactions, SameRequest

LEMMA DroppedIs ==
  ASSUME NEW v, IsTransaction(v), NEW d \in SUBSET Nat, NEW u, u = [v EXCEPT !.drops = d]
  PROVE  /\ IsTransaction(u) /\ u.plan = v.plan /\ SameRequest(v, u) /\ u.drops = d
         /\ u.at = v.at /\ u.why = v.why /\ u.writes = v.writes /\ u.looked = v.looked
         /\ u.emptied = v.emptied /\ u.taken = v.taken
  BY DEF IsTransaction, Transactions, SameRequest

LEMMA NamedIs ==
  ASSUME NEW v, IsTransaction(v), NEW p \in Engines!Places, NEW u, u = [v EXCEPT !.to = p]
  PROVE  /\ IsTransaction(u) /\ u.plan = v.plan /\ SameRequest(v, u) /\ u.taken = v.taken /\ u.root = v.root /\ u.to = p
         /\ u.at = v.at /\ u.why = v.why /\ u.writes = v.writes /\ u.looked = v.looked
         /\ u.emptied = v.emptied /\ u.drops = v.drops
  BY DEF IsTransaction, Transactions, SameRequest

LEMMA EmptiedIs ==
  ASSUME NEW v, IsTransaction(v), NEW b \in SUBSET Ids, NEW u, u = [v EXCEPT !.emptied = b]
  PROVE  /\ IsTransaction(u) /\ u.plan = v.plan /\ SameRequest(v, u) /\ u.taken = v.taken /\ u.root = v.root /\ u.to = v.to
         /\ u.at = v.at /\ u.why = v.why /\ u.writes = v.writes /\ u.looked = v.looked
         /\ u.emptied = b /\ u.drops = v.drops
  BY DEF IsTransaction, Transactions, SameRequest

\* The rows of the deletion a request is about.
RowsOf(b, n) == {x.row : x \in {y \in b : y.batch = n}}

LEMMA RestoreReads ==
  ASSUME Types, NEW t, IsTransaction(t), Undisturbed(t), t.op = "restore", NEW u, u = Engines!ReadDeletion(t)
  PROVE  \/ Fails(t, u)
         \/ GoesOn(t, u) /\ SameDraft(t, u) /\ u.plan = Tail(t.plan) /\ u.drops = t.drops /\ Found(u, bin, engine)
<1>1. PICK found : found = {[path |-> x.path, row |-> x.row] : x \in Engines!TrashedIn(t, t.batch)}
  OBVIOUS
<1>2. CASE found = {}
  <2>1. u = Engines!Failed(t, "notfound")
    BY <1>1, <1>2 DEF Engines!ReadDeletion
  <2> QED BY <2>1, FailsIs
<1>3. CASE found # {}
  <2>1. PICK root : root = (CHOOSE x \in found : \A y \in found : Len(x.path) <= Len(y.path)).path
    OBVIOUS
  <2>2. u = [Engines!Rest(t) EXCEPT !.taken = found, !.root = root]
    BY <1>1, <1>3, <2>1 DEF Engines!ReadDeletion
  <2>3. /\ \E p \in Engines!Places : Family(found, p)
        /\ engine = "sqlite" => found = EntriesOf(bin, t.batch)
    BY <1>1, <1>3, DeletionIs
  <2>4. PICK p \in Engines!Places : Family(found, p)
    BY <2>3
  <2>5. root = p /\ root \in Engines!Places /\ found \in SUBSET Entries
    BY <2>1, <2>4, FamilyIs
  <2>6. PICK v : v = Engines!Rest(t)
    OBVIOUS
  <2>7. /\ IsTransaction(v) /\ SameRequest(t, v) /\ v.plan = Tail(t.plan)
        /\ v.at = t.at /\ v.why = t.why /\ v.writes = t.writes /\ v.looked = t.looked
        /\ v.emptied = t.emptied /\ v.drops = t.drops
    BY <2>6, RestIs
  <2>8. PICK w : w = [v EXCEPT !.taken = found]
    OBVIOUS
  <2>11. u = [w EXCEPT !.root = root]
    BY <2>2, <2>6, <2>8
  <2>12. /\ IsTransaction(w) /\ w.plan = v.plan /\ SameRequest(v, w) /\ w.taken = found
         /\ w.at = v.at /\ w.why = v.why /\ w.writes = v.writes /\ w.looked = v.looked
         /\ w.emptied = v.emptied /\ w.drops = v.drops
    BY <2>5, <2>7, <2>8, TakenIs
  <2>13. /\ IsTransaction(u) /\ u.plan = w.plan /\ SameRequest(w, u) /\ u.taken = w.taken /\ u.root = root
         /\ u.at = w.at /\ u.why = w.why /\ u.writes = w.writes /\ u.looked = w.looked
         /\ u.emptied = w.emptied /\ u.drops = w.drops
    BY <2>5, <2>11, <2>12, FoundRootIs
  <2>9. /\ IsTransaction(u) /\ u.plan = v.plan /\ SameRequest(v, u) /\ u.taken = found /\ u.root = root
        /\ u.at = v.at /\ u.why = v.why /\ u.writes = v.writes /\ u.looked = v.looked
        /\ u.emptied = v.emptied /\ u.drops = v.drops
    BY <2>12, <2>13 DEF SameRequest
  <2>10. Found(u, bin, engine)
    BY <2>3, <2>4, <2>5, <2>7, <2>9 DEF Found, SameRequest
  <2> QED BY <2>7, <2>9, <2>10 DEF GoesOn, SameDraft, SameRequest
<1> QED BY <1>2, <1>3

LEMMA DestroyReads ==
  ASSUME Types, NEW t, IsTransaction(t), Undisturbed(t), t.op = "destroy", t.drops = {}, NEW u, u = Engines!ReadDeletion(t)
  PROVE  /\ GoesOn(t, u) /\ SameDraft(t, u) /\ u.plan = Tail(t.plan) /\ u.taken = t.taken
         /\ engine = "sqlite" => u.drops = RowsOf(bin, t.batch) \cap Engines!BlobKeys
<1>1. PICK found : found = {[path |-> x.path, row |-> x.row] : x \in Engines!TrashedIn(t, t.batch)}
  OBVIOUS
<1>2. {x.row : x \in found} = RowsOf(Engines!Sees(t).bin, t.batch)
  <2>1. found = {Entry(x.path, x.row) : x \in {y \in Engines!Sees(t).bin : y.batch = t.batch}}
    BY <1>1 DEF Engines!TrashedIn, Entry
  <2>2. \A x, k : Entry(x, k).row = k
    BY DEF Entry
  <2> HIDE <1>1
  <2>3. ASSUME NEW x \in found PROVE x.row \in RowsOf(Engines!Sees(t).bin, t.batch)
    BY <2>1, <2>2 DEF RowsOf
  <2>4. ASSUME NEW k \in RowsOf(Engines!Sees(t).bin, t.batch) PROVE \E x \in found : x.row = k
    <3>1. PICK y \in Engines!Sees(t).bin : y.batch = t.batch /\ y.row = k
      BY <2>4 DEF RowsOf
    <3>2. Entry(y.path, k) \in found
      BY <2>1, <3>1
    <3> QED BY <2>2, <3>2
  <2> QED BY <2>3, <2>4
<1>3. engine = "sqlite" => {x.row : x \in found} = RowsOf(bin, t.batch)
  BY <1>2, SightIs
<1>4. RowsOf(Engines!Sees(t).bin, t.batch) \subseteq Nat
  BY SightIs DEF RowsOf, TrashRows, Numbers
<1>5. CASE found = {}
  <2>1. u = Engines!Rest(t)
    BY <1>1, <1>5 DEF Engines!ReadDeletion
  <2>2. {x.row : x \in found} = {}
    BY <1>5
  <2> QED BY <1>3, <2>1, <2>2, RestGoes
<1>6. CASE found # {}
  <2>1. PICK d : d = {x.row : x \in found} \cap Engines!BlobKeys
    OBVIOUS
  <2>2. u = [Engines!Rest(t) EXCEPT !.drops = d]
    BY <1>1, <1>6, <2>1 DEF Engines!ReadDeletion
  <2>3. d \in SUBSET Nat
    BY <1>2, <1>4, <2>1
  <2>6. PICK v : v = Engines!Rest(t)
    OBVIOUS
  <2>7. /\ IsTransaction(v) /\ SameRequest(t, v) /\ v.plan = Tail(t.plan)
        /\ v.at = t.at /\ v.why = t.why /\ v.writes = t.writes /\ v.looked = t.looked
        /\ v.emptied = t.emptied /\ v.taken = t.taken
    BY <2>6, RestIs
  <2>8. u = [v EXCEPT !.drops = d]
    BY <2>2, <2>6
  <2>9. /\ IsTransaction(u) /\ u.plan = v.plan /\ SameRequest(v, u) /\ u.drops = d
        /\ u.at = v.at /\ u.why = v.why /\ u.writes = v.writes /\ u.looked = v.looked
        /\ u.emptied = v.emptied /\ u.taken = v.taken
    BY <2>3, <2>7, <2>8, DroppedIs
  <2> QED BY <1>3, <2>1, <2>7, <2>9 DEF GoesOn, SameDraft, SameRequest
<1> QED BY <1>5, <1>6

LEMMA EmptyIs ==
  ASSUME NEW t, IsTransaction(t), NEW u, u = Engines!DeleteTrash(t, t.batch)
  PROVE  /\ GoesOn(t, u) /\ u.plan = Tail(t.plan) /\ u.writes = t.writes /\ u.looked = t.looked
         /\ u.emptied = t.emptied \cup {t.batch} /\ u.taken = t.taken /\ u.drops = t.drops /\ u.root = t.root /\ u.to = t.to
<1>1. PICK v : v = Engines!Rest(t)
  OBVIOUS
<1>2. /\ IsTransaction(v) /\ SameRequest(t, v) /\ v.plan = Tail(t.plan)
      /\ v.at = t.at /\ v.why = t.why /\ v.writes = t.writes /\ v.looked = t.looked
      /\ v.emptied = t.emptied /\ v.taken = t.taken /\ v.drops = t.drops /\ v.root = t.root /\ v.to = t.to
  BY <1>1, RestIs
<1>3. u = [v EXCEPT !.emptied = @ \cup {t.batch}]
  BY <1>1 DEF Engines!DeleteTrash
<1>4. PICK b : b = v.emptied \cup {t.batch}
  OBVIOUS
<1>5. u = [v EXCEPT !.emptied = b]
  BY <1>3, <1>4
<1>6. b \in SUBSET Ids
  BY <1>2, <1>4, FieldsAre
<1>7. /\ IsTransaction(u) /\ u.plan = v.plan /\ SameRequest(v, u) /\ u.taken = v.taken /\ u.root = v.root /\ u.to = v.to
      /\ u.at = v.at /\ u.why = v.why /\ u.writes = v.writes /\ u.looked = v.looked
      /\ u.emptied = b /\ u.drops = v.drops
  BY <1>2, <1>5, <1>6, EmptiedIs
<1> QED BY <1>2, <1>4, <1>7 DEF GoesOn, SameRequest

LEMMA DestroyingGoesOn ==
  ASSUME Types, NEW t, IsTransaction(t), Undisturbed(t), Destroying(t, bin, engine), t.plan # <<>>,
         NEW u, u = Engines!Perform(t, Head(t.plan))
  PROVE  GoesOn(t, u) /\ Destroying(u, bin, engine)
<1>1. t.op = "destroy" /\ DOMAIN t.writes = {} /\ t.looked = {} /\ t.taken = {}
  BY DEF Destroying
<1>2. CASE t.plan = <<Plain("read"), Plain("empty")>> /\ t.emptied = {} /\ t.drops = {}
  <2>1. Head(t.plan) = Plain("read") /\ Tail(t.plan) = <<Plain("empty")>>
    BY <1>2, Plans
  <2>2. u = Engines!ReadDeletion(t)
    BY <2>1, PerformIs DEF Engines!Statement, Plain
  <2>3. /\ GoesOn(t, u) /\ SameDraft(t, u) /\ u.plan = Tail(t.plan) /\ u.taken = t.taken
        /\ engine = "sqlite" => u.drops = RowsOf(bin, t.batch) \cap Engines!BlobKeys
    BY <1>1, <1>2, <2>2, DestroyReads
  <2>4. u.op = "destroy" /\ u.batch = t.batch /\ DOMAIN u.writes = {} /\ u.looked = {} /\ u.taken = {} /\ u.emptied = {}
    BY <1>1, <1>2, <2>3 DEF GoesOn, SameRequest, SameDraft
  <2>5. engine = "sqlite" => u.drops = RowsOf(bin, u.batch) \cap Engines!BlobKeys
    BY <2>3, <2>4
  <2> QED BY <2>1, <2>3, <2>4, <2>5 DEF Destroying, RowsOf
<1>3. CASE /\ engine = "sqlite" => t.drops = {x.row : x \in {y \in bin : y.batch = t.batch}} \cap Engines!BlobKeys
           /\ t.plan = <<Plain("empty")>> /\ t.emptied = {}
  <2>1. Head(t.plan) = Plain("empty") /\ Tail(t.plan) = <<>>
    BY <1>3, Plans
  <2>2. u = Engines!DeleteTrash(t, t.batch)
    BY <2>1, PerformIs DEF Engines!Statement, Plain
  <2>3. /\ GoesOn(t, u) /\ u.plan = <<>> /\ u.writes = t.writes /\ u.looked = t.looked
        /\ u.emptied = {t.batch} /\ u.taken = t.taken /\ u.drops = t.drops
    BY <1>3, <2>1, <2>2, EmptyIs
  <2>4. /\ u.op = "destroy" /\ DOMAIN u.writes = {} /\ u.looked = {} /\ u.taken = {} /\ u.emptied = {u.batch}
        /\ u.batch = t.batch
    BY <1>1, <2>3 DEF GoesOn, SameRequest
  <2>5. engine = "sqlite" => u.drops = {x.row : x \in {y \in bin : y.batch = u.batch}} \cap Engines!BlobKeys
    BY <1>3, <2>3, <2>4
  <2> QED BY <2>3, <2>4, <2>5 DEF Destroying
<1> QED BY <1>2, <1>3 DEF Destroying

LEMMA NameIs ==
  ASSUME Types, NEW t, IsTransaction(t), Undisturbed(t), Bare(t), t.root \in Engines!Places, NEW u, u = Engines!freeName(t)
  PROVE  \/ Fails(t, u)
         \/ /\ GoesOn(t, u) /\ SameDraft(t, u) /\ u.plan = Tail(t.plan) /\ u.drops = t.drops /\ u.taken = t.taken
                   /\ u.root = t.root
            /\ u.to \in {t.root, Engines!Second(t.root)} /\ u.to \in Engines!Places /\ (engine = "sqlite"
                   => rows[u.to] = Engines!None)
<1>1. Engines!Second(t.root) \in Engines!Places
  BY ThePlaces, TheNames
<1>2. ASSUME NEW p \in {t.root, Engines!Second(t.root)}, Engines!FileByPath(t, p) = Engines!None,
    u = [Engines!Rest(t) EXCEPT !.to = p]
      PROVE  /\ GoesOn(t, u) /\ SameDraft(t, u) /\ u.plan = Tail(t.plan) /\ u.drops = t.drops /\ u.taken = t.taken
                    /\ u.root = t.root
             /\ u.to = p /\ u.to \in Engines!Places /\ (engine = "sqlite" => rows[p] = Engines!None)
  <2>1. p \in Engines!Places
    BY <1>1
  <2>2. engine = "sqlite" => rows[p] = Engines!None
    BY <1>2, <2>1, ViewIs DEF Bare
  <2>3. PICK v : v = Engines!Rest(t)
    OBVIOUS
  <2>4. /\ IsTransaction(v) /\ SameRequest(t, v) /\ v.plan = Tail(t.plan)
        /\ v.at = t.at /\ v.why = t.why /\ v.writes = t.writes /\ v.looked = t.looked
        /\ v.emptied = t.emptied /\ v.taken = t.taken /\ v.drops = t.drops /\ v.root = t.root
    BY <2>3, RestIs
  <2>5. u = [v EXCEPT !.to = p]
    BY <1>2, <2>3
  <2>6. /\ IsTransaction(u) /\ u.plan = v.plan /\ SameRequest(v, u) /\ u.taken = v.taken /\ u.root = v.root /\ u.to = p
        /\ u.at = v.at /\ u.why = v.why /\ u.writes = v.writes /\ u.looked = v.looked
        /\ u.emptied = v.emptied /\ u.drops = v.drops
    BY <2>1, <2>4, <2>5, NamedIs
  <2> QED BY <2>1, <2>2, <2>4, <2>6 DEF GoesOn, SameDraft, SameRequest
<1>3. \/ Engines!FileByPath(t, t.root) = Engines!None /\ u = [Engines!Rest(t) EXCEPT !.to = t.root]
      \/ Engines!FileByPath(t, Engines!Second(t.root)) = Engines!None
             /\ u = [Engines!Rest(t) EXCEPT !.to = Engines!Second(t.root)]
      \/ u = Engines!Failed(t, "conflict")
  BY DEF Engines!freeName
<1>4. CASE Engines!FileByPath(t, t.root) = Engines!None /\ u = [Engines!Rest(t) EXCEPT !.to = t.root]
  BY <1>2, <1>4
<1>5. CASE Engines!FileByPath(t, Engines!Second(t.root)) = Engines!None
    /\ u = [Engines!Rest(t) EXCEPT !.to = Engines!Second(t.root)]
  BY <1>2, <1>5
<1>6. CASE u = Engines!Failed(t, "conflict")
  BY <1>6, FailsIs
<1> QED BY <1>3, <1>4, <1>5, <1>6

LEMMA RoofIs ==
  ASSUME Types, NEW t, IsTransaction(t), Undisturbed(t), Bare(t), t.to \in Engines!Places, NEW u,
      u = Engines!restoreParents(t)
  PROVE  \/ Fails(t, u)
         \/ u = Engines!Rest(t) /\ (engine = "sqlite" => Parented(rows, t.to))
         \/ /\ Len(t.to) = 2 /\ u = Engines!Then(t, <<Engines!Statement("dir", Engines!ParentOf(t.to))>>)
            /\ engine = "sqlite" => rows[Engines!ParentOf(t.to)] = Engines!None
<1>1. Len(t.to) = 1 \/ (Len(t.to) = 2 /\ Engines!ParentOf(t.to) \in Engines!Places)
  BY Above
<1>2. CASE Len(t.to) = 1
  <2>1. u = Engines!Rest(t) /\ Parented(rows, t.to)
    BY <1>2 DEF Engines!restoreParents, Parented
  <2> QED BY <2>1
<1>3. CASE Len(t.to) = 2 /\ Engines!ParentOf(t.to) \in Engines!Places
  <2>1. engine = "sqlite" => Engines!FileByPath(t, Engines!ParentOf(t.to)) = rows[Engines!ParentOf(t.to)]
    BY <1>3, ViewIs DEF Bare
  <2>2. CASE Engines!FileByPath(t, Engines!ParentOf(t.to)) = Engines!Dir
    BY <1>3, <2>1, <2>2 DEF Engines!restoreParents, Parented
  <2>3. CASE Engines!FileByPath(t, Engines!ParentOf(t.to)) = Engines!None
    BY <1>3, <2>1, <2>3 DEF Engines!restoreParents, Engines!None, Engines!Dir
  <2>4. CASE Engines!FileByPath(t, Engines!ParentOf(t.to)) # Engines!Dir /\ Engines!FileByPath(t,
      Engines!ParentOf(t.to)) # Engines!None
    <3>1. u = Engines!Failed(t, "conflict")
      BY <1>3, <2>4 DEF Engines!restoreParents
    <3> QED BY <3>1, FailsIs
  <2> QED BY <2>2, <2>3, <2>4
<1> QED BY <1>1, <1>2, <1>3

\* The lists RestoreRows makes of a deletion.
LEMMA SingleOut ==
  ASSUME NEW t, NEW p \in Engines!Places, NEW k, t.root = p, t.taken = {Entry(p, k)}, t.to \in Engines!Places, NEW u,
      u = Engines!RestoreRows(t)
  PROVE  u = Engines!Then(t, <<Back(t.to, k)>>)
<1> DEFINE Stmt(x) == [do |-> IF x.row = Engines!Dir THEN "dir" ELSE "put", path |-> Engines!Rebase(x.path, t.root, t.to),
    row |-> x.row]
<1> DEFINE Deep(n) == Engines!ListOf({Stmt(x) : x \in {y \in t.taken : Len(y.path) = n}})
<1>1. u = Engines!Then(t, Deep(1) \o Deep(2))
  BY DEF Engines!RestoreRows
<1> PICK e : e = Entry(p, k)
  OBVIOUS
<1>2. e.path = p /\ e.row = k /\ t.taken = {e}
  BY DEF Entry
<1>3. Stmt(e) = Back(t.to, k)
  BY <1>2, Rebased DEF Back
<1>4. \A n : Len(p) = n => Deep(n) = <<Back(t.to, k)>>
  <2> SUFFICES ASSUME NEW n, Len(p) = n PROVE Deep(n) = <<Back(t.to, k)>>
    OBVIOUS
  <2>1. {y \in t.taken : Len(y.path) = n} = {e}
    BY <1>2
  <2> HIDE DEF Stmt
  <2>2. {Stmt(x) : x \in {y \in t.taken : Len(y.path) = n}} = {Stmt(e)}
    BY <2>1
  <2> QED BY <1>3, <2>2, ListOfIs
<1>5. \A n : Len(p) # n => Deep(n) = <<>>
  <2> SUFFICES ASSUME NEW n, Len(p) # n PROVE Deep(n) = <<>>
    OBVIOUS
  <2>1. {y \in t.taken : Len(y.path) = n} = {}
    BY <1>2
  <2> HIDE DEF Stmt
  <2>2. {Stmt(x) : x \in {y \in t.taken : Len(y.path) = n}} = {}
    BY <2>1
  <2> QED BY <2>2, ListOfIs
<1> HIDE DEF Deep, Stmt
<1>6. Len(p) = 1 \/ Len(p) = 2
  BY Above
<1>7. (Deep(1) = <<Back(t.to, k)>> /\ Deep(2) = <<>>) \/ (Deep(1) = <<>> /\ Deep(2) = <<Back(t.to, k)>>)
  <2>1. CASE Len(p) = 1
    <3>1. Deep(1) = <<Back(t.to, k)>>
      BY <1>4, <2>1
    <3>2. Len(p) # 2
      BY <2>1
    <3>3. Deep(2) = <<>>
      BY <1>5, <3>2
    <3> QED BY <3>1, <3>3
  <2>2. CASE Len(p) = 2
    <3>1. Deep(2) = <<Back(t.to, k)>>
      BY <1>4, <2>2
    <3>2. Len(p) # 1
      BY <2>2
    <3>3. Deep(1) = <<>>
      BY <1>5, <3>2
    <3> QED BY <3>1, <3>3
  <2> QED BY <1>6, <2>1, <2>2
<1>8. Deep(1) \o Deep(2) = <<Back(t.to, k)>>
  BY <1>7, Lists
<1> QED BY <1>1, <1>8

LEMMA PairOut ==
  ASSUME NEW t, t.root \in Engines!Places, NEW q \in Engines!ChildrenOf(t.root), NEW m, t.taken = {Entry(t.root,
      Engines!Dir), Entry(q, m)},
         t.to \in {t.root, Engines!Second(t.root)}, NEW u, u = Engines!RestoreRows(t)
  PROVE  \E c \in Engines!ChildrenOf(t.to) : u = Engines!Then(t, <<Back(t.to, Engines!Dir), Back(c, m)>>)
<1> DEFINE Stmt(x) == [do |-> IF x.row = Engines!Dir THEN "dir" ELSE "put", path |-> Engines!Rebase(x.path, t.root, t.to),
    row |-> x.row]
<1> DEFINE Deep(n) == Engines!ListOf({Stmt(x) : x \in {y \in t.taken : Len(y.path) = n}})
<1>1. u = Engines!Then(t, Deep(1) \o Deep(2))
  BY DEF Engines!RestoreRows
<1> PICK p : p = t.root
  OBVIOUS
<1> PICK e, c : e = Entry(p, Engines!Dir) /\ c = Entry(q, m)
  OBVIOUS
<1>2. e.path = p /\ e.row = Engines!Dir /\ c.path = q /\ c.row = m /\ t.taken = {e, c} /\ Len(p) = 1 /\ Len(q) = 2
  BY Above DEF Entry
<1>3. t.to \in Engines!Places /\ Engines!Rebase(q, p, t.to) \in Engines!ChildrenOf(t.to)
  BY ThePlaces, TheNames, TheChildren, Rebased
<1>4. Stmt(e) = Back(t.to, Engines!Dir) /\ Stmt(c) = Back(Engines!Rebase(q, p, t.to), m)
  BY <1>2, <1>3, Rebased DEF Back
<1>5. Deep(1) = <<Back(t.to, Engines!Dir)>>
  <2>1. {y \in t.taken : Len(y.path) = 1} = {e}
    BY <1>2
  <2> HIDE DEF Stmt
  <2>2. {Stmt(x) : x \in {y \in t.taken : Len(y.path) = 1}} = {Stmt(e)}
    BY <2>1
  <2> QED BY <1>4, <2>2, ListOfIs
<1>6. Deep(2) = <<Back(Engines!Rebase(q, p, t.to), m)>>
  <2>1. {y \in t.taken : Len(y.path) = 2} = {c}
    BY <1>2
  <2> HIDE DEF Stmt
  <2>2. {Stmt(x) : x \in {y \in t.taken : Len(y.path) = 2}} = {Stmt(c)}
    BY <2>1
  <2> QED BY <1>4, <2>2, ListOfIs
<1> HIDE DEF Deep, Stmt
<1>7. Deep(1) \o Deep(2) = <<Back(t.to, Engines!Dir), Back(Engines!Rebase(q, p, t.to), m)>>
  BY <1>5, <1>6, Lists
<1> QED BY <1>1, <1>3, <1>7

LEMMA BackIs ==
  ASSUME Types, NEW t, IsTransaction(t), NEW p \in Engines!Places, NEW k \in Numbers, NEW u, u = Engines!Perform(t, Back(p,
      k))
  PROVE  \/ Fails(t, u)
         \/ Engines!Current(t, p) # Engines!Dir /\ GoesOn(t, u) /\ Wrote(t, u, p, k) /\ u.looked = t.looked
                /\ u.plan = Tail(t.plan)
<1>0. k \in Nat
  BY DEF Numbers
<1>1. CASE k = Engines!Dir
  <2>1. u = Engines!CreateDir(t, p)
    BY <1>1, PerformIs DEF Back
  <2>2. Engines!None # Engines!Dir
    BY DEF Engines!None, Engines!Dir
  <2> QED BY <1>1, <2>1, <2>2, CreateIs
<1>2. CASE k # Engines!Dir
  <2>1. u = Engines!PutFile(t, p, k)
    BY <1>2, PerformIs DEF Back
  <2> QED BY <1>0, <2>1, PutIs
<1> QED BY <1>1, <1>2

LEMMA RestoringGoesOn ==
  ASSUME Types, NEW t, IsTransaction(t), Undisturbed(t), Restoring(t, rows, bin, engine), t.plan # <<>>,
         NEW u, u = Engines!Perform(t, Head(t.plan))
  PROVE  Fails(t, u) \/ (GoesOn(t, u) /\ Restoring(u, rows, bin, engine))
<1>1. t.op = "restore" /\ t.looked = {} /\ t.drops = {} /\ \A p \in DOMAIN t.writes : rows[p] # Engines!Dir
  BY DEF Restoring
<1>2. CASE /\ t.plan = <<Plain("read"), Plain("name"), Plain("parents"), Plain("rows"), Plain("empty")>>
           /\ Bare(t) /\ t.taken = {}
  <2>1. Head(t.plan) = Plain("read") /\ Tail(t.plan) = <<Plain("name"), Plain("parents"), Plain("rows"), Plain("empty")>>
    BY <1>2, Plans
  <2>2. u = Engines!ReadDeletion(t)
    BY <2>1, PerformIs DEF Engines!Statement, Plain
  <2>3. CASE GoesOn(t, u) /\ SameDraft(t, u) /\ u.plan = Tail(t.plan) /\ u.drops = t.drops /\ Found(u, bin, engine)
    <3>1. /\ u.op = "restore" /\ u.looked = {} /\ u.drops = {} /\ Bare(u)
          /\ u.plan = <<Plain("name"), Plain("parents"), Plain("rows"), Plain("empty")>>
                 /\ \A p \in DOMAIN u.writes : rows[p] # Engines!Dir
      BY <1>1, <1>2, <2>1, <2>3 DEF GoesOn, SameRequest, SameDraft, Bare
    <3> QED BY <2>3, <3>1 DEF Restoring
  <2> QED BY <1>1, <2>2, <2>3, RestoreReads
<1>3. CASE Found(t, bin, engine) /\ t.plan = <<Plain("name"), Plain("parents"), Plain("rows"), Plain("empty")>> /\ Bare(t)
  <2>1. Head(t.plan) = Plain("name") /\ Tail(t.plan) = <<Plain("parents"), Plain("rows"), Plain("empty")>>
    BY <1>3, Plans
  <2>2. u = Engines!freeName(t)
    BY <2>1, PerformIs DEF Engines!Statement, Plain
  <2>3. CASE /\ GoesOn(t, u) /\ SameDraft(t, u) /\ u.plan = Tail(t.plan) /\ u.drops = t.drops /\ u.taken = t.taken /\ u.root = t.root
             /\ u.to \in {t.root, Engines!Second(t.root)} /\ u.to \in Engines!Places /\ (engine = "sqlite"
                    => rows[u.to] = Engines!None)
    <3>1. /\ u.op = "restore" /\ u.looked = {} /\ u.drops = {} /\ Bare(u) /\ u.batch = t.batch
          /\ u.plan = <<Plain("parents"), Plain("rows"), Plain("empty")>>
                 /\ \A p \in DOMAIN u.writes : rows[p] # Engines!Dir
          /\ u.to \in {u.root, Engines!Second(u.root)} /\ u.taken = t.taken /\ u.root = t.root
      BY <1>1, <1>3, <2>1, <2>3 DEF GoesOn, SameRequest, SameDraft, Bare
    <3>2. Found(u, bin, engine)
      BY <1>3, <3>1 DEF Found
    <3>3. Landing(u, rows, engine)
      BY <3>1 DEF Landing
    <3> QED BY <2>3, <3>1, <3>2, <3>3 DEF Restoring
  <2> QED BY <1>3, <2>2, <2>3, NameIs DEF Found
<1>4. CASE /\ Found(t, bin, engine) /\ t.to \in {t.root, Engines!Second(t.root)}
           /\ (engine = "sqlite" => rows[t.to] = Engines!None) /\ Landing(t, rows, engine)
  <2>1. t.root \in Engines!Places /\ Family(t.taken, t.root) /\ t.to \in Engines!Places /\ t.key \in Nat
      /\ Engines!None # Engines!Dir
    <3>1. t.root \in Engines!Places /\ Family(t.taken, t.root) /\ t.key \in Nat
      BY <1>4, FieldsAre DEF Found
    <3>2. t.to \in Engines!Places
      BY <1>4, <3>1, ThePlaces, TheNames
    <3>3. Engines!None # Engines!Dir
      BY DEF Engines!None, Engines!Dir
    <3> QED BY <3>1, <3>2, <3>3
  <2>2. ASSUME GoesOn(t, u), u.looked = t.looked, u.drops = t.drops, u.taken = t.taken, u.root = t.root, u.to = t.to,
               \A p \in DOMAIN u.writes : rows[p] # Engines!Dir, Landing(u, rows, engine)
        PROVE  GoesOn(t, u) /\ Restoring(u, rows, bin, engine)
    <3>1. u.op = "restore" /\ u.looked = {} /\ u.drops = {} /\ u.batch = t.batch /\ u.to \in {u.root,
        Engines!Second(u.root)}
      BY <1>1, <1>4, <2>2 DEF GoesOn, SameRequest
    <3>2. Found(u, bin, engine) /\ (engine = "sqlite" => rows[u.to] = Engines!None)
      BY <1>4, <2>2, <3>1 DEF Found
    <3> QED BY <2>2, <3>1, <3>2 DEF Restoring
  <2>3. CASE t.plan = <<Plain("parents"), Plain("rows"), Plain("empty")>> /\ Bare(t)
    <3>1. Head(t.plan) = Plain("parents") /\ Tail(t.plan) = <<Plain("rows"), Plain("empty")>>
      BY <2>3, Plans
    <3>2. u = Engines!restoreParents(t)
      BY <3>1, PerformIs DEF Engines!Statement, Plain
    <3>3. CASE u = Engines!Rest(t) /\ (engine = "sqlite" => Parented(rows, t.to))
      <4>1. /\ GoesOn(t, u) /\ SameDraft(t, u) /\ u.plan = <<Plain("rows"), Plain("empty")>>
            /\ u.taken = t.taken /\ u.drops = t.drops /\ u.root = t.root /\ u.to = t.to
        BY <3>1, <3>3, RestGoes
      <4>2. Roofed(u, rows, engine) /\ u.emptied = {} /\ DOMAIN u.writes = {} /\ u.looked = t.looked
        BY <2>3, <3>3, <4>1 DEF Roofed, SameDraft, Bare
      <4>3. Landing(u, rows, engine)
        BY <4>1, <4>2 DEF Landing
      <4> QED BY <2>2, <4>1, <4>2, <4>3
    <3>4. CASE /\ Len(t.to) = 2 /\ u = Engines!Then(t, <<Engines!Statement("dir", Engines!ParentOf(t.to))>>)
               /\ engine = "sqlite" => rows[Engines!ParentOf(t.to)] = Engines!None
      <4>1. PICK v : v = Engines!Then(t, <<Engines!Statement("dir", Engines!ParentOf(t.to))>>)
        OBVIOUS
      <4>2. /\ GoesOn(t, v) /\ SameDraft(t, v) /\ v.plan = <<Engines!Statement("dir",
                   Engines!ParentOf(t.to))>> \o Tail(t.plan)
            /\ v.taken = t.taken /\ v.drops = t.drops /\ v.root = t.root /\ v.to = t.to
        BY <4>1, ThenGoes
      <4>3. u = v
        BY <3>4, <4>1
      <4>7. v.plan = <<Engines!Statement("dir", Engines!ParentOf(t.to))>> \o <<Plain("rows"), Plain("empty")>>
        BY <3>1, <4>2
      <4>8. v.plan = <<Engines!Statement("dir", Engines!ParentOf(t.to)), Plain("rows"), Plain("empty")>>
        BY <4>7, Lists
      <4>4. v.plan = <<Engines!Statement("dir", Engines!ParentOf(v.to)), Plain("rows"), Plain("empty")>>
        BY <4>2, <4>8
      <4>5. Bare(v) /\ v.looked = t.looked /\ DOMAIN v.writes = {}
        BY <2>3, <4>2 DEF SameDraft, Bare
      <4>6. Landing(v, rows, engine)
        BY <3>4, <4>2, <4>4, <4>5 DEF Landing
      <4> QED BY <2>2, <4>2, <4>3, <4>5, <4>6
    <3> QED BY <2>1, <2>3, <3>2, <3>3, <3>4, RoofIs
  <2>4. CASE /\ Len(t.to) = 2 /\ t.plan = <<Engines!Statement("dir", Engines!ParentOf(t.to)), Plain("rows"), Plain("empty")>> /\ Bare(t)
             /\ engine = "sqlite" => rows[Engines!ParentOf(t.to)] = Engines!None
    <3>1. Head(t.plan) = Engines!Statement("dir", Engines!ParentOf(t.to)) /\ Tail(t.plan) = <<Plain("rows"),
        Plain("empty")>>
      BY <2>4, Plans
    <3>2. u = Engines!CreateDir(t, Engines!ParentOf(t.to)) /\ Engines!ParentOf(t.to) \in Engines!Places
      BY <2>1, <2>4, <3>1, PerformIs, Above DEF Engines!Statement
    <3>3. CASE /\ Engines!Current(t, Engines!ParentOf(t.to)) = Engines!None /\ GoesOn(t, u) /\ Wrote(t, u, Engines!ParentOf(t.to), Engines!Dir)
               /\ u.looked = t.looked /\ u.plan = Tail(t.plan)
      <4>1. rows[Engines!ParentOf(t.to)] # Engines!Dir
        BY <2>1, <2>4, <3>2, <3>3, ViewIs DEF Bare
      <4>2. /\ DOMAIN u.writes = {Engines!ParentOf(u.to)} /\ u.writes[Engines!ParentOf(u.to)] = Engines!Dir
                   /\ u.emptied = {}
            /\ u.taken = t.taken /\ u.drops = t.drops /\ u.root = t.root /\ u.to = t.to /\ u.plan = <<Plain("rows"),
                   Plain("empty")>>
        BY <2>4, <3>1, <3>3 DEF Wrote, Bare
      <4>3. Roofed(u, rows, engine)
        BY <2>4, <4>2 DEF Roofed
      <4>4. Landing(u, rows, engine)
        BY <4>2, <4>3 DEF Landing
      <4> QED BY <2>2, <3>3, <4>1, <4>2, <4>4
    <3> QED BY <3>2, <3>3, CreateIs
  <2>5. CASE t.plan = <<Plain("rows"), Plain("empty")>> /\ Roofed(t, rows, engine) /\ t.emptied = {}
    <3>1. Head(t.plan) = Plain("rows") /\ Tail(t.plan) = <<Plain("empty")>>
      BY <2>5, Plans
    <3>2. u = Engines!RestoreRows(t)
      BY <3>1, PerformIs DEF Engines!Statement, Plain
    <3>3. ASSUME NEW new, u = Engines!Then(t, new)
          PROVE  /\ GoesOn(t, u) /\ SameDraft(t, u) /\ u.plan = new \o <<Plain("empty")>> /\ u.looked = t.looked
                 /\ u.taken = t.taken /\ u.drops = t.drops /\ u.root = t.root /\ u.to = t.to
                 /\ u.writes = t.writes /\ u.emptied = {}
      <4>1. PICK v : v = Engines!Then(t, new)
        OBVIOUS
      <4>2. /\ GoesOn(t, v) /\ SameDraft(t, v) /\ v.plan = new \o Tail(t.plan)
            /\ v.taken = t.taken /\ v.drops = t.drops /\ v.root = t.root /\ v.to = t.to
        BY <4>1, ThenGoes
      <4>3. u = v
        BY <3>3, <4>1
      <4> QED BY <2>5, <3>1, <4>2, <4>3 DEF SameDraft
    <3>4. CASE \E k \in Numbers : t.taken = {Entry(t.root, k)}
      <4>1. PICK k \in Numbers : t.taken = {Entry(t.root, k)}
        BY <3>4
      <4>2. u = Engines!Then(t, <<Back(t.to, k)>>)
        BY <2>1, <3>2, <4>1, SingleOut
      <4>3. PICK new : new = <<Back(t.to, k)>>
        OBVIOUS
      <4>4. /\ GoesOn(t, u) /\ SameDraft(t, u) /\ u.plan = new \o <<Plain("empty")>> /\ u.looked = t.looked
            /\ u.taken = t.taken /\ u.drops = t.drops /\ u.root = t.root /\ u.to = t.to
            /\ u.writes = t.writes /\ u.emptied = {}
        BY <3>3, <4>2, <4>3
      <4>5. u.plan = <<Back(u.to, k), Plain("empty")>>
        BY <4>3, <4>4, Lists
      <4>6. Roofed(u, rows, engine)
        BY <2>5, <4>4 DEF Roofed
      <4>7. Landing(u, rows, engine)
        BY <4>1, <4>4, <4>5, <4>6 DEF Landing
      <4> QED BY <1>1, <2>2, <4>4, <4>7
    <3>5. CASE \E q \in Engines!ChildrenOf(t.root), m \in Numbers : t.taken = {Entry(t.root, Engines!Dir), Entry(q, m)}
      <4>1. PICK q \in Engines!ChildrenOf(t.root), m \in Numbers : t.taken = {Entry(t.root, Engines!Dir), Entry(q, m)}
        BY <3>5
      <4>2. \E c \in Engines!ChildrenOf(t.to) : u = Engines!Then(t, <<Back(t.to, Engines!Dir), Back(c, m)>>)
        BY <1>4, <2>1, <3>2, <4>1, PairOut
      <4>3. PICK c \in Engines!ChildrenOf(t.to) : u = Engines!Then(t, <<Back(t.to, Engines!Dir), Back(c, m)>>)
        BY <4>2
      <4>4. PICK new : new = <<Back(t.to, Engines!Dir), Back(c, m)>>
        OBVIOUS
      <4>5. /\ GoesOn(t, u) /\ SameDraft(t, u) /\ u.plan = new \o <<Plain("empty")>> /\ u.looked = t.looked
            /\ u.taken = t.taken /\ u.drops = t.drops /\ u.root = t.root /\ u.to = t.to
            /\ u.writes = t.writes /\ u.emptied = {}
        BY <3>3, <4>3, <4>4
      <4>6. u.plan = <<Back(u.to, Engines!Dir), Back(c, m), Plain("empty")>>
        BY <4>4, <4>5, Lists
      <4>7. Len(t.to) = 1
        BY <2>1, <4>3, Above
      <4>8. Bare(u)
        BY <1>1, <2>5, <4>5, <4>7 DEF Roofed, Bare
      <4>9. c \in Engines!ChildrenOf(u.to) /\ q \in Engines!ChildrenOf(u.root)
        BY <4>1, <4>3, <4>5
      <4>10. Landing(u, rows, engine)
        BY <4>1, <4>5, <4>6, <4>8, <4>9 DEF Landing
      <4> QED BY <1>1, <2>2, <4>5, <4>10
    <3> QED BY <2>1, <3>4, <3>5 DEF Family
  <2>6. ASSUME NEW k \in Numbers, t.taken = {Entry(t.root, k)},
               \/ t.plan = <<Back(t.to, k), Plain("empty")>> /\ Roofed(t, rows, engine) /\ t.emptied = {}
               \/ t.plan = <<Plain("empty")>> /\ Landed(t, rows, engine, k) /\ t.emptied = {}
        PROVE  Fails(t, u) \/ (GoesOn(t, u) /\ Restoring(u, rows, bin, engine))
    <3>1. CASE t.plan = <<Back(t.to, k), Plain("empty")>> /\ Roofed(t, rows, engine) /\ t.emptied = {}
      <4>1. Head(t.plan) = Back(t.to, k) /\ Tail(t.plan) = <<Plain("empty")>>
        BY <3>1, Plans
      <4>2. CASE Engines!Current(t, t.to) # Engines!Dir /\ GoesOn(t, u) /\ Wrote(t, u, t.to, k) /\ u.looked = t.looked
          /\ u.plan = Tail(t.plan)
        <5>1. t.to \notin DOMAIN t.writes /\ (Len(t.to) = 2 => Engines!ParentOf(t.to) # t.to)
          BY <2>1, <3>1, Above DEF Roofed
        <5>2. rows[t.to] # Engines!Dir
          BY <2>1, <4>2, <5>1, ViewIs
        <5>3. \A p \in DOMAIN u.writes : rows[p] # Engines!Dir
          BY <1>1, <4>2, <5>2 DEF Wrote
        <5>4. u.emptied = {} /\ u.taken = t.taken /\ u.drops = t.drops /\ u.root = t.root /\ u.to = t.to
            /\ u.plan = <<Plain("empty")>>
          BY <3>1, <4>1, <4>2 DEF Wrote
        <5>5. Landed(u, rows, engine, k)
          <6>1. CASE DOMAIN t.writes = {} /\ (engine = "sqlite" => Parented(rows, t.to))
            BY <4>2, <5>4, <6>1 DEF Landed, Wrote
          <6>2. CASE /\ Len(t.to) = 2 /\ DOMAIN t.writes = {Engines!ParentOf(t.to)} /\ t.writes[Engines!ParentOf(t.to)] = Engines!Dir
                     /\ engine = "sqlite" => rows[Engines!ParentOf(t.to)] = Engines!None
            BY <4>2, <5>1, <5>4, <6>2 DEF Landed, Wrote
          <6> QED BY <3>1, <6>1, <6>2 DEF Roofed
        <5>6. Landing(u, rows, engine)
          BY <2>6, <5>4, <5>5 DEF Landing
        <5> QED BY <2>2, <4>2, <5>3, <5>4, <5>6
      <4> QED BY <2>1, <4>1, <4>2, BackIs
    <3>2. CASE t.plan = <<Plain("empty")>> /\ Landed(t, rows, engine, k) /\ t.emptied = {}
      <4>1. Head(t.plan) = Plain("empty") /\ Tail(t.plan) = <<>>
        BY <3>2, Plans
      <4>2. u = Engines!DeleteTrash(t, t.batch)
        BY <4>1, PerformIs DEF Engines!Statement, Plain
      <4>3. /\ GoesOn(t, u) /\ u.plan = Tail(t.plan) /\ u.writes = t.writes /\ u.looked = t.looked
            /\ u.emptied = t.emptied \cup {t.batch} /\ u.taken = t.taken /\ u.drops = t.drops /\ u.root = t.root
                   /\ u.to = t.to
        BY <4>2, EmptyIs
      <4>4. u.plan = <<>> /\ u.emptied = {u.batch} /\ Landed(u, rows, engine, k)
        BY <3>2, <4>1, <4>3 DEF GoesOn, SameRequest, Landed
      <4>5. Landing(u, rows, engine)
        BY <2>6, <4>3, <4>4 DEF Landing
      <4> QED BY <1>1, <2>2, <4>3, <4>5
    <3> QED BY <2>6, <3>1, <3>2
  <2>7. ASSUME NEW q \in Engines!ChildrenOf(t.root), NEW c \in Engines!ChildrenOf(t.to), NEW m \in Numbers,
               t.taken = {Entry(t.root, Engines!Dir), Entry(q, m)},
               \/ t.plan = <<Back(t.to, Engines!Dir), Back(c, m), Plain("empty")>> /\ Bare(t)
               \/ /\ t.plan = <<Back(c, m), Plain("empty")>> /\ t.emptied = {}
                  /\ DOMAIN t.writes = {t.to} /\ t.writes[t.to] = Engines!Dir
               \/ /\ t.plan = <<Plain("empty")>> /\ t.emptied = {}
                  /\ DOMAIN t.writes = {t.to, c} /\ t.writes[t.to] = Engines!Dir /\ t.writes[c] = m
        PROVE  Fails(t, u) \/ (GoesOn(t, u) /\ Restoring(u, rows, bin, engine))
    <3>0. c \in Engines!Places /\ c # t.to /\ Engines!Dir \in Numbers
      <4>1. c \in Engines!Places /\ c # t.to
        BY <2>1, <2>7, Above
      <4> QED BY <4>1 DEF Engines!Dir, Numbers
    <3>1. CASE t.plan = <<Back(t.to, Engines!Dir), Back(c, m), Plain("empty")>> /\ Bare(t)
      <4>1. Head(t.plan) = Back(t.to, Engines!Dir) /\ Tail(t.plan) = <<Back(c, m), Plain("empty")>>
        BY <3>1, Plans
      <4>2. CASE Engines!Current(t, t.to) # Engines!Dir /\ GoesOn(t, u) /\ Wrote(t, u, t.to, Engines!Dir)
          /\ u.looked = t.looked /\ u.plan = Tail(t.plan)
        <5>1. rows[t.to] # Engines!Dir
          BY <2>1, <3>1, <4>2, ViewIs DEF Bare
        <5>2. /\ u.emptied = {} /\ u.taken = t.taken /\ u.drops = t.drops /\ u.root = t.root /\ u.to = t.to
              /\ u.plan = <<Back(c, m), Plain("empty")>> /\ DOMAIN u.writes = {u.to} /\ u.writes[u.to] = Engines!Dir
          BY <3>1, <4>1, <4>2 DEF Wrote, Bare
        <5>3. \A p \in DOMAIN u.writes : rows[p] # Engines!Dir
          BY <5>1, <5>2
        <5>4. c \in Engines!ChildrenOf(u.to) /\ q \in Engines!ChildrenOf(u.root) /\ u.taken = {Entry(u.root, Engines!Dir),
            Entry(q, m)}
          BY <2>7, <5>2
        <5>5. Landing(u, rows, engine)
          BY <5>2, <5>4 DEF Landing
        <5> QED BY <2>2, <4>2, <5>2, <5>3, <5>5
      <4> QED BY <2>1, <3>0, <4>1, <4>2, BackIs
    <3>2. CASE /\ t.plan = <<Back(c, m), Plain("empty")>> /\ t.emptied = {}
               /\ DOMAIN t.writes = {t.to} /\ t.writes[t.to] = Engines!Dir
      <4>1. Head(t.plan) = Back(c, m) /\ Tail(t.plan) = <<Plain("empty")>>
        BY <3>2, Plans
      <4>2. CASE Engines!Current(t, c) # Engines!Dir /\ GoesOn(t, u) /\ Wrote(t, u, c, m) /\ u.looked = t.looked
          /\ u.plan = Tail(t.plan)
        <5>1. rows[c] # Engines!Dir
          BY <3>0, <3>2, <4>2, ViewIs
        <5>2. /\ u.emptied = {} /\ u.taken = t.taken /\ u.drops = t.drops /\ u.root = t.root /\ u.to = t.to
              /\ u.plan = <<Plain("empty")>> /\ DOMAIN u.writes = {u.to, c} /\ u.writes[u.to] = Engines!Dir
                     /\ u.writes[c] = m
          BY <3>0, <3>2, <4>1, <4>2 DEF Wrote
        <5>3. \A p \in DOMAIN u.writes : rows[p] # Engines!Dir
          BY <1>1, <3>2, <5>1, <5>2
        <5>4. c \in Engines!ChildrenOf(u.to) /\ q \in Engines!ChildrenOf(u.root) /\ u.taken = {Entry(u.root, Engines!Dir),
            Entry(q, m)}
          BY <2>7, <5>2
        <5>5. Landing(u, rows, engine)
          BY <5>2, <5>4 DEF Landing
        <5> QED BY <2>2, <4>2, <5>2, <5>3, <5>5
      <4> QED BY <3>0, <4>1, <4>2, BackIs
    <3>3. CASE /\ t.plan = <<Plain("empty")>> /\ t.emptied = {}
               /\ DOMAIN t.writes = {t.to, c} /\ t.writes[t.to] = Engines!Dir /\ t.writes[c] = m
      <4>1. Head(t.plan) = Plain("empty") /\ Tail(t.plan) = <<>>
        BY <3>3, Plans
      <4>2. u = Engines!DeleteTrash(t, t.batch)
        BY <4>1, PerformIs DEF Engines!Statement, Plain
      <4>3. /\ GoesOn(t, u) /\ u.plan = Tail(t.plan) /\ u.writes = t.writes /\ u.looked = t.looked
            /\ u.emptied = t.emptied \cup {t.batch} /\ u.taken = t.taken /\ u.drops = t.drops /\ u.root = t.root
                   /\ u.to = t.to
        BY <4>2, EmptyIs
      <4>4. /\ u.plan = <<>> /\ u.emptied = {u.batch} /\ DOMAIN u.writes = {u.to, c} /\ u.writes[u.to] = Engines!Dir
                   /\ u.writes[c] = m
            /\ c \in Engines!ChildrenOf(u.to) /\ q \in Engines!ChildrenOf(u.root)
        BY <2>7, <3>3, <4>1, <4>3 DEF GoesOn, SameRequest
      <4>5. Landing(u, rows, engine)
        BY <2>7, <4>3, <4>4 DEF Landing
      <4> QED BY <1>1, <2>2, <4>3, <4>5
    <3> QED BY <2>7, <3>1, <3>2, <3>3
  <2> QED BY <1>4, <2>3, <2>4, <2>5, <2>6, <2>7 DEF Landing
<1> QED BY <1>2, <1>3, <1>4 DEF Restoring

-----------------------------------------------------------------------------
(* What a transaction takes: no more than what the statement asked for.     *)

Reads == {"parent", "old", "tree", "list", "read", "name", "parents", "rows"}
IsStatement(s) ==
  /\ s.do \in Reads \cup {"put", "dir", "delete", "empty"}
  /\ s.do \in {"put", "dir", "delete", "tree", "list"} => s.path \in Engines!Places
  /\ s.do = "put" => s.row \in Nat

LEMMA StatementIs ==
  /\ \A p \in Engines!Places, do \in {"parent", "old", "dir", "tree", "list", "delete"} : IsStatement(Engines!Statement(do,
         p))
  /\ \A p \in Engines!Places, k \in Nat : IsStatement(Put(p, k))
  /\ \A p \in Engines!Places, k \in Numbers : IsStatement(Back(p, k))
  /\ \A do \in {"read", "name", "parents", "rows", "empty"} : IsStatement(Plain(do))
  BY DEF IsStatement, Engines!Statement, Put, Back, Plain, Reads, Numbers

LEMMA HeadIs ==
  ASSUME NEW t, IsTransaction(t), NEW f, NEW b, NEW e, Doing(t, f, b, e), t.plan # <<>>
  PROVE  IsStatement(Head(t.plan))
<1>6. Engines!Dir \in Numbers
  BY DEF Engines!Dir, Numbers
<1>0. t.key \in Nat /\ Engines!Dir \in Numbers
  BY <1>6, FieldsAre
<1>1. CASE Writing(t, f, e)
  <2>1. PICK p \in Engines!Places :
       \/ t.plan = <<Engines!Statement("parent", p), Engines!Statement("old", p), Put(p, t.key)>>
       \/ t.plan = <<Engines!Statement("old", p), Put(p, t.key)>>
       \/ t.plan = <<Put(p, t.key)>>
    BY <1>1 DEF Writing
  <2>2. Head(t.plan) \in {Engines!Statement("parent", p), Engines!Statement("old", p), Put(p, t.key)}
    BY <2>1, Plans
  <2> QED BY <1>0, <2>2, StatementIs
<1>2. CASE Making(t, f, e)
  <2>1. PICK p \in Engines!Places : t.plan = <<Engines!Statement("parent", p), Engines!Statement("dir", p)>>
      \/ t.plan = <<Engines!Statement("dir", p)>>
    BY <1>2 DEF Making
  <2>2. Head(t.plan) \in {Engines!Statement("parent", p), Engines!Statement("dir", p)}
    BY <2>1, Plans
  <2> QED BY <2>2, StatementIs
<1>3. CASE Removing(t, f, e)
  <2>1. PICK p \in Engines!Places :
       \/ t.plan = <<Engines!Statement("tree", p)>>
       \/ t.plan = <<Engines!Statement("list", p), Engines!Statement("delete", p)>>
       \/ \E q \in Engines!ChildrenOf(p) :
            \/ t.plan = <<Engines!Statement("tree", q), Engines!Statement("delete", p)>>
            \/ t.plan = <<Engines!Statement("list", q), Engines!Statement("delete", q), Engines!Statement("delete", p)>>
            \/ t.plan = <<Engines!Statement("delete", q), Engines!Statement("delete", p)>>
       \/ t.plan = <<Engines!Statement("delete", p)>>
    BY <1>3 DEF Removing
  <2>2. \E q \in Engines!Places : Head(t.plan) \in {Engines!Statement("tree", q), Engines!Statement("list", q),
      Engines!Statement("delete", q)}
    <3>1. CASE t.plan = <<Engines!Statement("tree", p)>>
      BY <3>1, <2>1, Plans
    <3>2. CASE t.plan = <<Engines!Statement("list", p), Engines!Statement("delete", p)>>
      BY <3>2, <2>1, Plans
    <3>3. ASSUME NEW q \in Engines!ChildrenOf(p),
            \/ t.plan = <<Engines!Statement("tree", q), Engines!Statement("delete", p)>>
            \/ t.plan = <<Engines!Statement("list", q), Engines!Statement("delete", q), Engines!Statement("delete", p)>>
            \/ t.plan = <<Engines!Statement("delete", q), Engines!Statement("delete", p)>>
          PROVE \E c \in Engines!Places : Head(t.plan) \in {Engines!Statement("tree", c), Engines!Statement("list", c),
              Engines!Statement("delete", c)}
      <4>1. q \in Engines!Places
        BY <2>1, <3>3, Above
      <4>2. Head(t.plan) \in {Engines!Statement("tree", q), Engines!Statement("list", q), Engines!Statement("delete", q)}
        BY <3>3, Plans
      <4> QED BY <4>1, <4>2
    <3>4. CASE t.plan = <<Engines!Statement("delete", p)>>
      BY <3>4, <2>1, Plans
    <3> QED BY <2>1, <3>1, <3>2, <3>3, <3>4
  <2> QED BY <2>2, StatementIs
<1>4. CASE Restoring(t, f, b, e)
  <2>1. \/ t.plan = <<Plain("read"), Plain("name"), Plain("parents"), Plain("rows"), Plain("empty")>>
        \/ Found(t, b, e) /\ t.plan = <<Plain("name"), Plain("parents"), Plain("rows"), Plain("empty")>>
        \/ Found(t, b, e) /\ t.to \in {t.root, Engines!Second(t.root)} /\ Landing(t, f, e)
    BY <1>4 DEF Restoring
  <2>2. CASE t.plan = <<Plain("read"), Plain("name"), Plain("parents"), Plain("rows"), Plain("empty")>>
    BY <2>2, Plans, StatementIs
  <2>3. CASE t.plan = <<Plain("name"), Plain("parents"), Plain("rows"), Plain("empty")>>
    BY <2>3, Plans, StatementIs
  <2>4. CASE Found(t, b, e) /\ t.to \in {t.root, Engines!Second(t.root)} /\ Landing(t, f, e)
    <3>1. t.to \in Engines!Places
      BY <2>4, ThePlaces, TheNames DEF Found
    <3>2. \/ t.plan = <<Plain("parents"), Plain("rows"), Plain("empty")>>
          \/ Len(t.to) = 2 /\ t.plan = <<Engines!Statement("dir", Engines!ParentOf(t.to)), Plain("rows"), Plain("empty")>>
          \/ t.plan = <<Plain("rows"), Plain("empty")>>
          \/ \E k \in Numbers : t.plan = <<Back(t.to, k), Plain("empty")>>
          \/ t.plan = <<Plain("empty")>>
          \/ \E c \in Engines!ChildrenOf(t.to), m \in Numbers : t.plan = <<Back(t.to, Engines!Dir), Back(c, m),
                 Plain("empty")>>
          \/ \E c \in Engines!ChildrenOf(t.to), m \in Numbers : t.plan = <<Back(c, m), Plain("empty")>>
      BY <2>4 DEF Landing
    <3>3. CASE t.plan = <<Plain("parents"), Plain("rows"), Plain("empty")>>
      BY <3>3, Plans, StatementIs
    <3>4. CASE Len(t.to) = 2 /\ t.plan = <<Engines!Statement("dir", Engines!ParentOf(t.to)), Plain("rows"), Plain("empty")>>
      <4>1. Engines!ParentOf(t.to) \in Engines!Places /\ Head(t.plan) = Engines!Statement("dir", Engines!ParentOf(t.to))
        BY <3>1, <3>4, Above, Plans
      <4> QED BY <4>1, StatementIs
    <3>5. CASE t.plan = <<Plain("rows"), Plain("empty")>>
      BY <3>5, Plans, StatementIs
    <3>6. CASE \E k \in Numbers : t.plan = <<Back(t.to, k), Plain("empty")>>
      <4>1. \E k \in Numbers : Head(t.plan) = Back(t.to, k)
        BY <3>6, Plans
      <4> QED BY <3>1, <4>1, StatementIs
    <3>7. CASE t.plan = <<Plain("empty")>>
      BY <3>7, Plans, StatementIs
    <3>8. CASE \E c \in Engines!ChildrenOf(t.to), m \in Numbers : t.plan = <<Back(t.to, Engines!Dir), Back(c, m),
        Plain("empty")>>
      <4>1. Head(t.plan) = Back(t.to, Engines!Dir)
        BY <3>8, Plans
      <4> QED BY <1>0, <3>1, <4>1, StatementIs
    <3>9. CASE \E c \in Engines!ChildrenOf(t.to), m \in Numbers : t.plan = <<Back(c, m), Plain("empty")>>
      <4>1. \E c \in Engines!ChildrenOf(t.to), m \in Numbers : Head(t.plan) = Back(c, m)
        BY <3>9, Plans
      <4>2. \E c \in Engines!Places, m \in Numbers : Head(t.plan) = Back(c, m)
        BY <3>1, <4>1, Above
      <4> QED BY <4>2, StatementIs
    <3> QED BY <3>2, <3>3, <3>4, <3>5, <3>6, <3>7, <3>8, <3>9
  <2> QED BY <2>1, <2>2, <2>3, <2>4
<1>5. CASE Destroying(t, b, e)
  <2>1. t.plan = <<Plain("read"), Plain("empty")>> \/ t.plan = <<Plain("empty")>>
    BY <1>5 DEF Destroying
  <2> QED BY <2>1, Plans, StatementIs
<1> QED BY <1>1, <1>2, <1>3, <1>4, <1>5 DEF Doing

\* A record whose plan or findings change holds what it held.
LEMMA DraftKept ==
  ASSUME NEW t, IsTransaction(t)
  PROVE  /\ \A why : Engines!Failed(t, why).at = "failed"
         /\ SameDraft(t, Engines!Rest(t)) /\ IsTransaction(Engines!Rest(t))
         /\ \A new : SameDraft(t, Engines!Then(t, new)) /\ IsTransaction(Engines!Then(t, new))
  BY DEF IsTransaction, Transactions, Engines!Rest, Engines!Then, Engines!Failed, SameDraft

LEMMA NotesKept ==
  ASSUME NEW v, IsTransaction(v), NEW u,
         \/ \E d : u = [v EXCEPT !.drops = d]
         \/ \E d : u = [v EXCEPT !.to = d]
         \/ \E d, x : u = [v EXCEPT !.taken = d, !.root = x]
  PROVE  SameDraft(v, u)
<1>1. CASE \E d : u = [v EXCEPT !.drops = d]
  <2>1. PICK d : u = [v EXCEPT !.drops = d]
    BY <1>1
  <2> QED BY <2>1 DEF IsTransaction, Transactions, SameDraft
<1>2. CASE \E d : u = [v EXCEPT !.to = d]
  <2>1. PICK d : u = [v EXCEPT !.to = d]
    BY <1>2
  <2> QED BY <2>1 DEF IsTransaction, Transactions, SameDraft
<1>3. CASE \E d, x : u = [v EXCEPT !.taken = d, !.root = x]
  <2>1. PICK d, x : u = [v EXCEPT !.taken = d, !.root = x]
    BY <1>3
  <2> QED BY <2>1 DEF IsTransaction, Transactions, SameDraft
<1> QED BY <1>1, <1>2, <1>3

LEMMA ReadsTakeNothing ==
  ASSUME Types, NEW t, IsTransaction(t), NEW s, IsStatement(s), s.do \in Reads, NEW u, u = Engines!Perform(t, s)
  PROVE  u.at = "failed" \/ SameDraft(t, u)
<1>0. /\ \A why : Engines!Failed(t, why).at = "failed"
      /\ SameDraft(t, Engines!Rest(t)) /\ IsTransaction(Engines!Rest(t))
      /\ \A new : SameDraft(t, Engines!Then(t, new)) /\ IsTransaction(Engines!Then(t, new))
  BY DraftKept
<1>1. CASE s.do = "parent"
  <2>1. u = Engines!Rest(t) \/ \E why : u = Engines!Failed(t, why)
    BY <1>1, PerformIs DEF Engines!requireParent
  <2> QED BY <1>0, <2>1
<1>2. CASE s.do = "old"
  <2>1. \E d : u = [Engines!Rest(t) EXCEPT !.drops = d]
    BY <1>2, PerformIs DEF Engines!Supersede
  <2>2. PICK v : v = Engines!Rest(t)
    OBVIOUS
  <2>3. \E d : u = [v EXCEPT !.drops = d]
    BY <2>1, <2>2
  <2>5. IsTransaction(v)
    BY <1>0, <2>2
  <2>4. SameDraft(v, u)
    BY <2>3, <2>5, NotesKept
  <2> QED BY <1>0, <2>2, <2>4 DEF SameDraft
<1>3. CASE s.do = "tree"
  <2>1. u = Engines!RemoveTree(t, s.path) /\ s.path \in Engines!Places
    BY <1>3, PerformIs DEF IsStatement
  <2>2. Fails(t, u) \/ SameDraft(t, u)
    BY <2>1, RemoveTreeIs
  <2> QED BY <2>2 DEF Fails
<1>4. CASE s.do = "list"
  BY <1>4, PerformIs, ListingIs DEF IsStatement
<1>5. CASE s.do = "read"
  <2>1. u = Engines!ReadDeletion(t)
    BY <1>5, PerformIs
  <2>2. PICK v : v = Engines!Rest(t)
    OBVIOUS
  <2>3. \/ \E why : u = Engines!Failed(t, why)
        \/ u = v
        \/ \E d, x : u = [v EXCEPT !.taken = d, !.root = x]
        \/ \E d : u = [v EXCEPT !.drops = d]
    BY <2>1, <2>2 DEF Engines!ReadDeletion
  <2>5. IsTransaction(v)
    BY <1>0, <2>2
  <2>4. u.at = "failed" \/ u = v \/ SameDraft(v, u)
    <3>1. CASE \E why : u = Engines!Failed(t, why)
      BY <1>0, <3>1
    <3>2. CASE (\E d, x : u = [v EXCEPT !.taken = d, !.root = x]) \/ (\E d : u = [v EXCEPT !.drops = d])
      BY <2>5, <3>2, NotesKept
    <3> QED BY <2>3, <3>1, <3>2
  <2> QED BY <1>0, <2>2, <2>4 DEF SameDraft
<1>6. CASE s.do = "name"
  <2>1. u = Engines!freeName(t)
    BY <1>6, PerformIs
  <2>2. PICK v : v = Engines!Rest(t)
    OBVIOUS
  <2>3. (\E why : u = Engines!Failed(t, why)) \/ (\E d : u = [v EXCEPT !.to = d])
    BY <2>1, <2>2 DEF Engines!freeName
  <2>5. IsTransaction(v)
    BY <1>0, <2>2
  <2>4. u.at = "failed" \/ SameDraft(v, u)
    <3>1. CASE \E why : u = Engines!Failed(t, why)
      BY <1>0, <3>1
    <3>2. CASE \E d : u = [v EXCEPT !.to = d]
      BY <2>5, <3>2, NotesKept
    <3> QED BY <2>3, <3>1, <3>2
  <2> QED BY <1>0, <2>2, <2>4 DEF SameDraft
<1>7. CASE s.do = "parents"
  <2>1. u = Engines!restoreParents(t)
    BY <1>7, PerformIs
  <2>2. u = Engines!Rest(t) \/ (\E new : u = Engines!Then(t, new)) \/ (\E why : u = Engines!Failed(t, why))
    BY <2>1 DEF Engines!restoreParents
  <2> QED BY <1>0, <2>2
<1>8. CASE s.do = "rows"
  <2>1. \E new : u = Engines!Then(t, new)
    BY <1>8, PerformIs DEF Engines!RestoreRows
  <2> QED BY <1>0, <2>1
<1> QED BY <1>1, <1>2, <1>3, <1>4, <1>5, <1>6, <1>7, <1>8 DEF Reads

\* What a transaction in progress holds.
Holding(t) ==
  DOMAIN t.writes \cup t.emptied
  \cup (IF engine = "mysql" THEN UNION {Engines!ChildrenOf(p) : p \in t.looked} ELSE {})

LEMMA PerformTakes ==
  ASSUME Types, NEW t, IsTransaction(t), NEW s, IsStatement(s), NEW u, u = Engines!Perform(t, s)
  PROVE  u.at = "failed" \/ Holding(u) \subseteq Holding(t) \cup Engines!Locks(t, s)
<1>1. CASE s.do \in Reads
  <2>1. CASE SameDraft(t, u)
    BY <2>1 DEF SameDraft, Holding
  <2> QED BY <1>1, <2>1, ReadsTakeNothing
<1>2. CASE s.do = "put"
  <2>1. u = Engines!PutFile(t, s.path, s.row) /\ s.path \in Engines!Places /\ s.row \in Nat /\ Engines!Locks(t,
      s) = {s.path}
    BY <1>2, PerformIs DEF IsStatement, Engines!Locks, Engines!Writes
  <2>2. Fails(t, u) \/ (Wrote(t, u, s.path, s.row) /\ u.looked = t.looked)
    BY <2>1, PutIs
  <2>3. CASE Wrote(t, u, s.path, s.row) /\ u.looked = t.looked
    BY <2>1, <2>3 DEF Wrote, Holding
  <2> QED BY <2>2, <2>3 DEF Fails
<1>3. CASE s.do = "dir"
  <2>1. u = Engines!CreateDir(t, s.path) /\ s.path \in Engines!Places /\ Engines!Locks(t, s) = {s.path}
    BY <1>3, PerformIs DEF IsStatement, Engines!Locks, Engines!Writes
  <2>2. Fails(t, u) \/ (Wrote(t, u, s.path, Engines!Dir) /\ u.looked = t.looked)
    BY <2>1, CreateIs
  <2>3. CASE Wrote(t, u, s.path, Engines!Dir) /\ u.looked = t.looked
    BY <2>1, <2>3 DEF Wrote, Holding
  <2> QED BY <2>2, <2>3 DEF Fails
<1>4. CASE s.do = "delete"
  <2>1. /\ u = Engines!DeleteFile(t, s.path) /\ s.path \in Engines!Places
        /\ Engines!Locks(t, s) = {s.path} \cup (IF engine = "mysql" THEN Engines!ChildrenOf(s.path) ELSE {})
    BY <1>4, PerformIs DEF IsStatement, Engines!Locks, Engines!Writes
  <2>2. Fails(t, u) \/ (Wrote(t, u, s.path, Engines!None) /\ u.looked = t.looked \cup {s.path})
    BY <2>1, DeleteIs
  <2>3. CASE Wrote(t, u, s.path, Engines!None) /\ u.looked = t.looked \cup {s.path}
    <3>1. DOMAIN u.writes = DOMAIN t.writes \cup {s.path} /\ u.emptied = t.emptied
      BY <2>3 DEF Wrote
    <3>2. UNION {Engines!ChildrenOf(p) : p \in u.looked} = (UNION {Engines!ChildrenOf(p) : p \in t.looked}) \cup Engines!ChildrenOf(s.path)
      BY <2>3
    <3> QED BY <2>1, <3>1, <3>2 DEF Holding
  <2> QED BY <2>2, <2>3 DEF Fails
<1>5. CASE s.do = "empty"
  <2>1. u = Engines!DeleteTrash(t, t.batch) /\ Engines!Locks(t, s) = {t.batch}
    BY <1>5, PerformIs DEF Engines!Locks, Engines!Writes
  <2>2. u.writes = t.writes /\ u.looked = t.looked /\ u.emptied = t.emptied \cup {t.batch}
    BY <2>1, EmptyIs
  <2> QED BY <2>1, <2>2 DEF Holding
<1> QED BY <1>1, <1>2, <1>3, <1>4, <1>5 DEF IsStatement

-----------------------------------------------------------------------------
(* A statement keeps its transaction's course, and so does, off SQLite, the *)
(* commit of another: it changes no row this one holds.                     *)

LEMMA StepGoesOn ==
  ASSUME Types, NEW t, IsTransaction(t), Undisturbed(t), Doing(t, rows, bin, engine), t.plan # <<>>,
         NEW u, u = Engines!Perform(t, Head(t.plan))
  PROVE  Fails(t, u) \/ (GoesOn(t, u) /\ Doing(u, rows, bin, engine))
<1>1. CASE Writing(t, rows, engine)
  BY <1>1, WritingGoesOn DEF Doing
<1>2. CASE Making(t, rows, engine)
  BY <1>2, MakingGoesOn DEF Doing
<1>3. CASE Removing(t, rows, engine)
  BY <1>3, RemovingGoesOn DEF Doing
<1>4. CASE Restoring(t, rows, bin, engine)
  BY <1>4, RestoringGoesOn DEF Doing
<1>5. CASE Destroying(t, bin, engine)
  BY <1>5, DestroyingGoesOn DEF Doing
<1> QED BY <1>1, <1>2, <1>3, <1>4, <1>5 DEF Doing

LEMMA CourseKept ==
  ASSUME NEW t, NEW f, NEW b, NEW e, e # "sqlite", Doing(t, f, b, e), NEW g, NEW c, \A p \in DOMAIN t.writes : g[p] = f[p]
  PROVE  Doing(t, g, c, e)
<1>1. CASE Writing(t, f, e)
  <2>1. Writing(t, g, e)
    BY <1>1 DEF Writing, Replaced
  <2> QED BY <2>1 DEF Doing
<1>2. CASE Making(t, f, e)
  <2>1. Making(t, g, e)
    BY <1>2 DEF Making
  <2> QED BY <2>1 DEF Doing
<1>3. CASE Removing(t, f, e)
  <2>1. t.op = "remove" /\ t.looked \subseteq DOMAIN t.writes /\ t.emptied = {} /\ t.drops = {}
    BY <1>3 DEF Removing
  <2>2. PICK p \in Engines!Places :
       \/ t.plan = <<Engines!Statement("tree", p)>> /\ Bare(t) /\ t.taken = {}
       \/ /\ t.plan = <<Engines!Statement("list", p), Engines!Statement("delete", p)>> /\ Bare(t) /\ t.taken = {Entry(p,
                 Engines!Dir)}
       \/ \E q \in Engines!ChildrenOf(p) :
            /\ t.plan = <<Engines!Statement("tree", q), Engines!Statement("delete", p)>> /\ Bare(t) /\ t.taken = {Entry(p,
                   Engines!Dir)}
       \/ \E q \in Engines!ChildrenOf(p), m \in Numbers :
            /\ t.taken = {Entry(p, Engines!Dir), Entry(q, m)}
            /\ \/ /\ t.plan = <<Engines!Statement("list", q), Engines!Statement("delete", q), Engines!Statement("delete",
                         p)>> /\ Bare(t)
               \/ /\ t.plan = <<Engines!Statement("delete", q), Engines!Statement("delete", p)>> /\ Bare(t)
               \/ /\ t.plan = <<Engines!Statement("delete", p)>> /\ DOMAIN t.writes = {q}
                  /\ f[q] # Engines!None /\ t.writes[q] = Engines!None
               \/ /\ t.plan = <<>> /\ DOMAIN t.writes = {p, q}
                  /\ f[q] # Engines!None /\ t.writes[q] = Engines!None /\ t.writes[p] = Engines!None
       \/ \E k \in Numbers :
            /\ t.taken = {Entry(p, k)}
            /\ \/ t.plan = <<Engines!Statement("delete", p)>> /\ Bare(t)
               \/ /\ t.plan = <<>> /\ DOMAIN t.writes = {p} /\ t.writes[p] = Engines!None
    BY <1>3 DEF Removing
  <2>3. \A q : DOMAIN t.writes = {q} \/ DOMAIN t.writes = {p, q} => g[q] = f[q]
    OBVIOUS
  <2>4. Removing(t, g, e)
    BY <2>1, <2>2, <2>3 DEF Removing
  <2> QED BY <2>4 DEF Doing
<1>4. CASE Restoring(t, f, b, e)
  <2>1. t.op = "restore" /\ t.looked = {} /\ t.drops = {} /\ \A p \in DOMAIN t.writes : g[p] # Engines!Dir
    BY <1>4 DEF Restoring
  <2>2. Landing(t, f, e) => Landing(t, g, e)
    BY DEF Landing, Roofed, Landed
  <2>3. Found(t, b, e) => Found(t, c, e)
    BY DEF Found
  <2>4. Restoring(t, g, c, e)
    BY <1>4, <2>1, <2>2, <2>3 DEF Restoring
  <2> QED BY <2>4 DEF Doing
<1>5. CASE Destroying(t, b, e)
  <2>1. Destroying(t, c, e)
    BY <1>5 DEF Destroying
  <2> QED BY <2>1 DEF Doing
<1> QED BY <1>1, <1>2, <1>3, <1>4, <1>5 DEF Doing

\* A transaction that has just begun.
New(op, key, batch, plan) ==
  [op |-> op, at |-> "open", why |-> "", key |-> key, batch |-> batch, plan |-> plan, snapshot |-> Engines!Snapshot,
   writes |-> Engines!Nothing, looked |-> {}, emptied |-> {}, taken |-> {}, drops |-> {}, root |-> <<>>, to |-> <<>>]

JustBegun(t, op, key, n, plan) ==
  /\ IsTransaction(t) /\ Undisturbed(t) /\ Bare(t) /\ t.taken = {} /\ t.drops = {} /\ t.plan = plan
  /\ t.op = op /\ t.key = key /\ t.batch = n /\ t.at = "open" /\ t.why = "" /\ Holding(t) = {}

LEMMA NewIs ==
  ASSUME Types, NEW op \in {"write", "mkdir", "remove", "restore", "destroy"}, NEW key \in Nat, NEW n \in Ids, NEW plan
  PROVE  JustBegun(New(op, key, n, plan), op, key, n, plan)
<1> PICK t : t = New(op, key, n, plan)
  OBVIOUS
<1>1. DOMAIN Engines!Nothing = {} /\ Engines!Nothing \in Drafts
  <2>1. Engines!Nothing \in [{} -> Nat] /\ {} \in SUBSET Engines!Places
    BY DEF Engines!Nothing
  <2> QED BY <2>1, DraftedAre DEF Engines!Nothing
<1>2. Engines!Snapshot \in [rows : [Engines!Places -> Nat], bin : SUBSET TrashRows] /\ Families(Engines!Snapshot.bin)
  BY DEF Engines!Snapshot, Types
<1>3. /\ t.taken = {} /\ t.drops = {} /\ t.plan = plan /\ t.snapshot = Engines!Snapshot /\ t.writes = Engines!Nothing
             /\ t.looked = {}
      /\ t.emptied = {} /\ t.op = op /\ t.key = key /\ t.batch = n /\ t.at = "open" /\ t.why = ""
  BY DEF New
<1>4. t \in Transactions({plan})
  BY <1>1, <1>2 DEF New, Transactions
<1>5. IsTransaction(t)
  BY <1>2, <1>3, <1>4 DEF IsTransaction
<1>6. Bare(t) /\ Undisturbed(t) /\ Holding(t) = {}
  BY <1>1, <1>3 DEF Bare, Undisturbed, Holding
<1> QED BY <1>3, <1>5, <1>6 DEF JustBegun

LEMMA RestorePlan ==
  [k \in 1..5 |-> Engines!Statement(<<"read", "name", "parents", "rows", "empty">>[k], <<>>)]
    = <<Plain("read"), Plain("name"), Plain("parents"), Plain("rows"), Plain("empty")>>
<1>1. PICK f : f = [k \in 1..5 |-> Engines!Statement(<<"read", "name", "parents", "rows", "empty">>[k], <<>>)]
  OBVIOUS
<1>2. PICK g : g = <<Plain("read"), Plain("name"), Plain("parents"), Plain("rows"), Plain("empty")>>
  OBVIOUS
<1>3. /\ f[1] = Plain("read") /\ f[2] = Plain("name") /\ f[3] = Plain("parents") /\ f[4] = Plain("rows")
             /\ f[5] = Plain("empty")
  BY <1>1 DEF Plain
<1>4. /\ g[1] = Plain("read") /\ g[2] = Plain("name") /\ g[3] = Plain("parents") /\ g[4] = Plain("rows")
             /\ g[5] = Plain("empty")
  BY <1>2
<1>5. PICK S : S = {Plain("read"), Plain("name"), Plain("parents"), Plain("rows"), Plain("empty")}
  OBVIOUS
<1>6. \A k \in 1..5 : f[k] = g[k] /\ f[k] \in S
  BY <1>3, <1>4, <1>5
<1>7. g \in Seq(S) /\ Len(g) = 5
  BY <1>2, <1>5
<1>8. f \in Seq(S) /\ Len(f) = 5
  <2>1. f \in [1..5 -> S]
    BY <1>1, <1>6
  <2>2. f \in Seq(S)
    BY <2>1, SeqDef
  <2>3. DOMAIN f = 1..5 /\ DOMAIN f = 1..Len(f) /\ Len(f) \in Nat
    BY <2>1, <2>2, LenProperties
  <2> QED BY <2>2, <2>3
<1>9. f = g
  BY <1>6, <1>7, <1>8, SeqEqual
<1> QED BY <1>1, <1>2, <1>9

LEMMA BegunDoing ==
  ASSUME Types, NEW key \in Nat, NEW n \in Ids
  PROVE  /\ \A p \in Engines!Places : Doing(New("write", key, n, Engines!Parent(p) \o <<Engines!Statement("old", p), Put(p,
                key)>>), rows, bin, engine)
         /\ \A p \in Engines!Places : Doing(New("mkdir", key, n, Engines!Parent(p) \o <<Engines!Statement("dir", p)>>),
                rows, bin, engine)
         /\ \A p \in Engines!Places : Doing(New("remove", key, n, <<Engines!Statement("tree", p)>>), rows, bin, engine)
         /\ Doing(New("restore", key, n, <<Plain("read"), Plain("name"), Plain("parents"), Plain("rows"), Plain("empty")>>),
                rows, bin, engine)
         /\ Doing(New("destroy", key, n, <<Plain("read"), Plain("empty")>>), rows, bin, engine)
<1>1. ASSUME NEW p \in Engines!Places PROVE Doing(New("write", key, n, Engines!Parent(p) \o <<Engines!Statement("old", p),
    Put(p, key)>>), rows, bin, engine)
  <2>1. PICK plan : plan = Engines!Parent(p) \o <<Engines!Statement("old", p), Put(p, key)>>
    OBVIOUS
  <2>2. PICK t : t = New("write", key, n, plan)
    OBVIOUS
  <2>6. JustBegun(t, "write", key, n, plan)
    BY <2>2, NewIs
  <2>3. Bare(t) /\ t.taken = {} /\ t.drops = {} /\ t.plan = plan /\ t.op = "write" /\ t.key = key
    BY <2>6 DEF JustBegun
  <2>4. \/ Len(p) = 2 /\ plan = <<Engines!Statement("parent", p), Engines!Statement("old", p), Put(p, key)>>
        \/ Parented(rows, p) /\ plan = <<Engines!Statement("old", p), Put(p, key)>>
    <3>1. CASE Len(p) = 1
      <4>1. plan = <<>> \o <<Engines!Statement("old", p), Put(p, key)>> /\ Parented(rows, p)
        BY <2>1, <3>1 DEF Engines!Parent, Parented
      <4> QED BY <4>1, Lists
    <3>2. CASE Len(p) = 2
      <4>1. plan = <<Engines!Statement("parent", p)>> \o <<Engines!Statement("old", p), Put(p, key)>>
        BY <2>1, <3>2 DEF Engines!Parent
      <4> QED BY <3>2, <4>1, Lists
    <3> QED BY <1>1, <3>1, <3>2, Above
  <2>5. Writing(t, rows, engine)
    BY <1>1, <2>3, <2>4 DEF Writing, Bare
  <2> QED BY <2>1, <2>2, <2>5 DEF Doing
<1>2. ASSUME NEW p \in Engines!Places PROVE Doing(New("mkdir", key, n, Engines!Parent(p) \o <<Engines!Statement("dir",
    p)>>), rows, bin, engine)
  <2>1. PICK plan : plan = Engines!Parent(p) \o <<Engines!Statement("dir", p)>>
    OBVIOUS
  <2>2. PICK t : t = New("mkdir", key, n, plan)
    OBVIOUS
  <2>6. JustBegun(t, "mkdir", key, n, plan)
    BY <2>2, NewIs
  <2>3. Bare(t) /\ t.taken = {} /\ t.drops = {} /\ t.plan = plan /\ t.op = "mkdir"
    BY <2>6 DEF JustBegun
  <2>4. \/ Len(p) = 2 /\ plan = <<Engines!Statement("parent", p), Engines!Statement("dir", p)>>
        \/ Parented(rows, p) /\ plan = <<Engines!Statement("dir", p)>>
    <3>1. CASE Len(p) = 1
      <4>1. plan = <<>> \o <<Engines!Statement("dir", p)>> /\ Parented(rows, p)
        BY <2>1, <3>1 DEF Engines!Parent, Parented
      <4> QED BY <4>1, Lists
    <3>2. CASE Len(p) = 2
      <4>1. plan = <<Engines!Statement("parent", p)>> \o <<Engines!Statement("dir", p)>>
        BY <2>1, <3>2 DEF Engines!Parent
      <4> QED BY <3>2, <4>1, Lists
    <3> QED BY <1>2, <3>1, <3>2, Above
  <2>5. Making(t, rows, engine)
    BY <1>2, <2>3, <2>4 DEF Making, Bare
  <2> QED BY <2>1, <2>2, <2>5 DEF Doing
<1>3. ASSUME NEW p \in Engines!Places PROVE Doing(New("remove", key, n, <<Engines!Statement("tree", p)>>), rows, bin,
    engine)
  <2>2. PICK t : t = New("remove", key, n, <<Engines!Statement("tree", p)>>)
    OBVIOUS
  <2>6. JustBegun(t, "remove", key, n, <<Engines!Statement("tree", p)>>)
    BY <2>2, NewIs
  <2>3. Bare(t) /\ t.taken = {} /\ t.drops = {} /\ t.plan = <<Engines!Statement("tree", p)>> /\ t.op = "remove"
    BY <2>6 DEF JustBegun
  <2>5. Removing(t, rows, engine)
    BY <1>3, <2>3 DEF Removing, Bare
  <2> QED BY <2>2, <2>5 DEF Doing
<1>4. Doing(New("restore", key, n, <<Plain("read"), Plain("name"), Plain("parents"), Plain("rows"), Plain("empty")>>), rows,
    bin, engine)
  <2>1. PICK plan : plan = <<Plain("read"), Plain("name"), Plain("parents"), Plain("rows"), Plain("empty")>>
    OBVIOUS
  <2>2. PICK t : t = New("restore", key, n, plan)
    OBVIOUS
  <2>6. JustBegun(t, "restore", key, n, plan)
    BY <2>2, NewIs
  <2>3. Bare(t) /\ t.taken = {} /\ t.drops = {} /\ t.plan = plan /\ t.op = "restore"
    BY <2>6 DEF JustBegun
  <2>5. Restoring(t, rows, bin, engine)
    BY <2>1, <2>3 DEF Restoring, Bare
  <2> QED BY <2>1, <2>2, <2>5 DEF Doing
<1>5. Doing(New("destroy", key, n, <<Plain("read"), Plain("empty")>>), rows, bin, engine)
  <2>2. PICK t : t = New("destroy", key, n, <<Plain("read"), Plain("empty")>>)
    OBVIOUS
  <2>6. JustBegun(t, "destroy", key, n, <<Plain("read"), Plain("empty")>>)
    BY <2>2, NewIs
  <2>3. Bare(t) /\ t.taken = {} /\ t.drops = {} /\ t.plan = <<Plain("read"), Plain("empty")>> /\ t.op = "destroy"
    BY <2>6 DEF JustBegun
  <2>5. Destroying(t, bin, engine)
    BY <2>3 DEF Destroying, Bare
  <2> QED BY <2>2, <2>5 DEF Doing
<1> QED BY <1>1, <1>2, <1>3, <1>4, <1>5

-----------------------------------------------------------------------------
(* The invariant: what holds on every engine, and what on SQLite, where the *)
(* one transaction that is open finds the tables as it left them.           *)

Courses   == \A r \in Workers : Engines!Open(r) => Doing(tx[r], rows, bin, engine)
Exclusive == \A r, s \in Workers : r # s => Engines!Held(r) \cap Engines!Held(s) = {}

KeysAreOwn ==
  /\ \A r \in Workers : tx[r] # Engines!Idle => \E n \in 1..begun : tx[r].key = Engines!Key(n) /\ (tx[r].op = "remove"
         => tx[r].batch = Engines!Batch(n))
  /\ \A r, s \in Workers : r # s /\ tx[r] # Engines!Idle /\ tx[s] # Engines!Idle => tx[r].key # tx[s].key
  /\ \A x \in bin : \E n \in 1..begun : x.batch = Engines!Batch(n)
  /\ \A r \in Workers : Engines!Open(r) /\ tx[r].op = "remove" => \A x \in bin : x.batch # tx[r].batch

\* The keys of the rows there are, deleted ones with them.
UsedIn(f, b) == {f[p] : p \in Engines!Places} \cup {x.row : x \in b}
Used == UsedIn(rows, bin)

Accounts ==
  /\ \A k \in Used : k <= begun + 2
  /\ \A r \in Workers : tx[r] # Engines!Idle /\ tx[r].at # "committed" => tx[r].key \notin Used
  /\ \A r \in Workers : tx[r] # Engines!Idle /\ tx[r].at = "committed" => tx[r].drops \cap Used = {}
  /\ \A s \in Workers : tx[s] # Engines!Idle => \A k \in tx[s].drops : k \in Engines!BlobKeys /\ k <= begun + 2
  /\ \A r, s \in Workers : tx[r] # Engines!Idle /\ tx[s] # Engines!Idle /\ tx[r].at = "open" => tx[r].key \notin tx[s].drops
  /\ \A r \in Workers : Engines!Open(r) /\ tx[r].op = "write" => tx[r].key \in blobs

Serial ==
  engine = "sqlite" =>
    /\ \A r, s \in Workers : Engines!Open(r) /\ Engines!Open(s) => r = s
    /\ \A r \in Workers : Engines!Open(r) => Undisturbed(tx[r])
    /\ \A r \in Workers : tx[r] # Engines!Idle => tx[r].why # "busy"
    /\ Engines!TreeClosed /\ Engines!OneRowPerBlob /\ Engines!BlobsKept /\ Accounts

TransactionsInv == Types /\ Courses /\ Exclusive /\ KeysAreOwn /\ Serial

\* A worker between requests, and one in the middle of one.
LEMMA SlotIs ==
  ASSUME NEW t, t = Engines!Idle \/ IsTransaction(t)
  PROVE  /\ IsTransaction(t) => t # Engines!Idle /\ t.op # "idle"
         /\ t = Engines!Idle => t.op = "idle"
         /\ t # Engines!Idle => IsTransaction(t)
<1>1. ASSUME IsTransaction(t) PROVE t.op # "idle"
  BY <1>1, FieldsAre
<1>2. t = Engines!Idle => t.op = "idle"
  BY DEF Engines!Idle
<1> QED BY <1>1, <1>2

LEMMA OpenIs ==
  ASSUME Types, NEW r \in Workers
  PROVE  /\ tx[r] = Engines!Idle \/ IsTransaction(tx[r])
         /\ Engines!Open(r) <=> (tx[r] # Engines!Idle /\ tx[r].at = "open")
         /\ Engines!Open(r) => IsTransaction(tx[r]) /\ tx[r].op # "idle" /\ Engines!Held(r) = Holding(tx[r])
         /\ ~Engines!Open(r) => Engines!Held(r) = {}
<1>1. tx[r] = Engines!Idle \/ IsTransaction(tx[r])
  BY DEF Types
<1> QED BY <1>1, SlotIs DEF Engines!Open, Engines!Held, Holding

LEMMA SlotsAre ==
  ASSUME Types, NEW r \in Workers, NEW u, tx' = [tx EXCEPT ![r] = u]
  PROVE  tx'[r] = u /\ (\A s \in Workers : s # r => tx'[s] = tx[s]) /\ tx' = [s \in Workers |-> tx'[s]]
  BY DEF Types

\* The kinds of step, with what the lemmas above say of each.
Starts(r, t) ==
  /\ tx[r] = Engines!Idle /\ (engine = "sqlite" => \A s \in Workers : ~Engines!Open(s))
  /\ IsTransaction(t) /\ Undisturbed(t) /\ t.drops = {} /\ t.key = Engines!Key(begun + 1) /\ t.at = "open" /\ t.why = ""
  /\ Holding(t) = {} /\ Doing(t, rows, bin, engine) /\ (t.op = "remove" => t.batch = Engines!Batch(begun + 1))
  /\ tx' = [tx EXCEPT ![r] = t] /\ begun' = begun + 1
  /\ blobs' = blobs \cup (IF t.op = "write" THEN {t.key} ELSE {})
  /\ engine' = engine /\ rows' = rows /\ bin' = bin

Advances(r, u) ==
  /\ Engines!Open(r) /\ tx' = [tx EXCEPT ![r] = u]
  /\ Fails(tx[r], u) \/ (GoesOn(tx[r], u) /\ Doing(u, rows, bin, engine))
  /\ \A s \in Workers : s # r /\ u.at # "failed" => Holding(u) \cap Engines!Held(s) = {}
  /\ engine' = engine /\ rows' = rows /\ bin' = bin /\ blobs' = blobs /\ begun' = begun

LEMMA StartsIs ==
  ASSUME TransactionsInv, NEW r \in Workers, NEW op \in {"write", "mkdir", "remove", "restore", "destroy"}, NEW n \in Ids,
         NEW plan, Engines!Begin(r, op, n, plan), Doing(New(op, Engines!Key(begun + 1), n, plan), rows, bin, engine),
         op = "remove" => n = Engines!Batch(begun + 1),
             blobs' = blobs \cup (IF op = "write" THEN {Engines!Key(begun + 1)} ELSE {})
  PROVE  \E t : Starts(r, t)
<1>1. Types /\ begun \in Nat /\ Engines!Key(begun + 1) \in Nat
  BY DEF TransactionsInv, Types, Engines!Key
<1>2. PICK t : t = New(op, Engines!Key(begun + 1), n, plan)
  OBVIOUS
<1>3. JustBegun(t, op, Engines!Key(begun + 1), n, plan)
  BY <1>1, <1>2, NewIs
<1>4. /\ tx[r] = Engines!Idle /\ (engine = "sqlite" => \A s \in Workers : ~Engines!Open(s))
      /\ tx' = [tx EXCEPT ![r] = t] /\ begun' = begun + 1 /\ engine' = engine /\ rows' = rows /\ bin' = bin
  BY <1>2 DEF Engines!Begin, Engines!sqliteBegins, New
<1>5. Doing(t, rows, bin, engine)
  BY <1>2
<1>6. t.op = op /\ t.batch = n /\ t.key = Engines!Key(begun + 1)
  BY <1>3 DEF JustBegun
<1> QED BY <1>3, <1>4, <1>5, <1>6 DEF JustBegun, Starts

LEMMA MovesIs ==
  ASSUME TransactionsInv, NEW r \in Workers, Engines!Step(r)
  PROVE  \E u : Advances(r, u)
<1>1. Types /\ Engines!Open(r) /\ tx[r].plan # <<>> /\ IsTransaction(tx[r]) /\ Doing(tx[r], rows, bin, engine)
    /\ Engines!Held(r) = Holding(tx[r])
  BY OpenIs DEF TransactionsInv, Courses, Engines!Step
<1>2. PICK t : t = tx[r]
  OBVIOUS
<1>3. PICK s : s = Head(t.plan)
  OBVIOUS
<1>4. Undisturbed(t) /\ ~Engines!Busy(t)
  BY <1>1, <1>2 DEF TransactionsInv, Serial, Undisturbed, Engines!Busy
<1>5. IsStatement(s)
  BY <1>1, <1>2, <1>3, HeadIs
<1>6. PICK u : u = Engines!Perform(t, s)
  OBVIOUS
<1>7. /\ ~Engines!Waits(r, Engines!Locks(t, s)) /\ tx' = [tx EXCEPT ![r] = u]
      /\ engine' = engine /\ rows' = rows /\ bin' = bin /\ blobs' = blobs /\ begun' = begun
  BY <1>2, <1>3, <1>4, <1>6 DEF Engines!Step
<1>8. Fails(t, u) \/ (GoesOn(t, u) /\ Doing(u, rows, bin, engine))
  BY <1>1, <1>2, <1>3, <1>4, <1>6, StepGoesOn
<1>9. u.at = "failed" \/ Holding(u) \subseteq Holding(t) \cup Engines!Locks(t, s)
  BY <1>1, <1>2, <1>5, <1>6, PerformTakes
<1>10. ASSUME NEW w \in Workers, w # r, u.at # "failed" PROVE Holding(u) \cap Engines!Held(w) = {}
  <2>1. Holding(t) \cap Engines!Held(w) = {}
    BY <1>1, <1>2, <1>10 DEF TransactionsInv, Exclusive
  <2>2. Engines!Locks(t, s) \cap Engines!Held(w) = {}
    BY <1>7, <1>10 DEF Engines!Waits
  <2> QED BY <1>9, <1>10, <2>1, <2>2
<1> QED BY <1>1, <1>2, <1>7, <1>8, <1>10 DEF Advances

LEMMA RequestIs ==
  ASSUME TransactionsInv, NEW r \in Workers, Engines!Request(r)
  PROVE  (\E t : Starts(r, t)) \/ (\E u : Advances(r, u)) \/ Engines!Commit(r) \/ Engines!End(r)
<1>1. Types /\ Engines!Key(begun + 1) \in Nat /\ begun \in Nat
  BY DEF TransactionsInv, Types, Engines!Key
<1>2. Engines!Batch(0) \in Ids /\ Engines!Batch(begun + 1) \in Ids /\ \A x \in bin : x.batch \in Ids
  BY <1>1 DEF Ids, Types, TrashRows
<1>3. ASSUME NEW p \in Engines!Places, Engines!Write(r, p) PROVE \E t : Starts(r, t)
  <2>1. PICK plan : plan = Engines!Parent(p) \o <<Engines!Statement("old", p), Put(p, Engines!Key(begun + 1))>>
    OBVIOUS
  <2>2. Engines!Begin(r, "write", Engines!Batch(0), plan) /\ blobs' = blobs \cup {Engines!Key(begun + 1)}
    BY <1>3, <2>1 DEF Engines!Write, Put
  <2>3. Doing(New("write", Engines!Key(begun + 1), Engines!Batch(0), plan), rows, bin, engine)
    BY <1>1, <1>2, <1>3, <2>1, BegunDoing
  <2> QED BY <1>2, <2>2, <2>3, StartsIs
<1>4. ASSUME NEW p \in Engines!Places, Engines!Mkdir(r, p) PROVE \E t : Starts(r, t)
  <2>1. PICK plan : plan = Engines!Parent(p) \o <<Engines!Statement("dir", p)>>
    OBVIOUS
  <2>2. Engines!Begin(r, "mkdir", Engines!Batch(0), plan) /\ blobs' = blobs \cup {}
    BY <1>4, <2>1 DEF Engines!Mkdir
  <2>3. Doing(New("mkdir", Engines!Key(begun + 1), Engines!Batch(0), plan), rows, bin, engine)
    BY <1>1, <1>2, <1>4, <2>1, BegunDoing
  <2> QED BY <1>2, <2>2, <2>3, StartsIs
<1>5. ASSUME NEW p \in Engines!Places, Engines!Remove(r, p) PROVE \E t : Starts(r, t)
  <2>1. PICK plan : plan = <<Engines!Statement("tree", p)>>
    OBVIOUS
  <2>2. Engines!Begin(r, "remove", Engines!Batch(begun + 1), plan) /\ blobs' = blobs \cup {}
    BY <1>5, <2>1 DEF Engines!Remove
  <2>3. Doing(New("remove", Engines!Key(begun + 1), Engines!Batch(begun + 1), plan), rows, bin, engine)
    BY <1>1, <1>2, <1>5, <2>1, BegunDoing
  <2> QED BY <1>2, <2>2, <2>3, StartsIs
<1>6. ASSUME NEW b \in {x.batch : x \in bin}, Engines!Restore(r, b) PROVE \E t : Starts(r, t)
  <2>1. PICK plan : plan = <<Plain("read"), Plain("name"), Plain("parents"), Plain("rows"), Plain("empty")>>
    OBVIOUS
  <2>2. Engines!Begin(r, "restore", b, plan) /\ blobs' = blobs \cup {} /\ b \in Ids
    BY <1>2, <1>6, <2>1, RestorePlan DEF Engines!Restore
  <2>3. Doing(New("restore", Engines!Key(begun + 1), b, plan), rows, bin, engine)
    BY <1>1, <2>1, <2>2, BegunDoing
  <2> QED BY <2>2, <2>3, StartsIs
<1>7. ASSUME NEW b \in {x.batch : x \in bin}, Engines!DestroyTrashed(r, b) PROVE \E t : Starts(r, t)
  <2>1. PICK plan : plan = <<Plain("read"), Plain("empty")>>
    OBVIOUS
  <2>2. Engines!Begin(r, "destroy", b, plan) /\ blobs' = blobs \cup {} /\ b \in Ids
    BY <1>2, <1>7, <2>1 DEF Engines!DestroyTrashed, Plain
  <2>3. Doing(New("destroy", Engines!Key(begun + 1), b, plan), rows, bin, engine)
    BY <1>1, <2>1, <2>2, BegunDoing
  <2> QED BY <2>2, <2>3, StartsIs
<1> QED BY <1>3, <1>4, <1>5, <1>6, <1>7, MovesIs DEF Engines!Request

-----------------------------------------------------------------------------
(* What a transaction of each kind commits.                                 *)

Wrote1(t, f, e) ==
  /\ t.op = "write" /\ t.emptied = {}
  /\ \E p \in Engines!Places : /\ DOMAIN t.writes = {p} /\ t.writes[p] = t.key
                               /\ Replaced(t, f, p, e) /\ (e = "sqlite" => f[p] # Engines!Dir)
Made(t, f, e) ==
  /\ t.op = "mkdir" /\ t.emptied = {} /\ t.drops = {}
  /\ \E p \in Engines!Places : /\ DOMAIN t.writes = {p} /\ t.writes[p] = Engines!Dir
                               /\ e = "sqlite" => Parented(f, p) /\ f[p] = Engines!None
Removed(t, f, e) ==
  /\ t.op = "remove" /\ t.emptied = {} /\ t.drops = {}
  /\ \E p \in Engines!Places :
       \/ \E q \in Engines!ChildrenOf(p), m \in Numbers :
            /\ t.taken = {Entry(p, Engines!Dir), Entry(q, m)} /\ (e = "sqlite" => f[p] = Engines!Dir /\ f[q] = m)
            /\ DOMAIN t.writes = {p, q} /\ t.writes[q] = Engines!None /\ t.writes[p] = Engines!None
       \/ \E k \in Numbers :
            /\ t.taken = {Entry(p, k)} /\ (e = "sqlite" => f[p] = k /\ \A q \in Engines!ChildrenOf(p) : f[q] = Engines!None)
            /\ DOMAIN t.writes = {p} /\ t.writes[p] = Engines!None
Restored(t, f, b, e) ==
  /\ t.op = "restore" /\ t.emptied = {t.batch} /\ t.drops = {} /\ t.to \in Engines!Places
  /\ e = "sqlite" => f[t.to] = Engines!None /\ t.taken = EntriesOf(b, t.batch)
  /\ \/ \E k \in Numbers : t.taken = {Entry(t.root, k)} /\ Landed(t, f, e, k)
     \/ \E q \in Engines!ChildrenOf(t.root), c \in Engines!ChildrenOf(t.to), m \in Numbers :
          /\ t.taken = {Entry(t.root, Engines!Dir), Entry(q, m)}
          /\ DOMAIN t.writes = {t.to, c} /\ t.writes[t.to] = Engines!Dir /\ t.writes[c] = m
Destroyed(t, b, e) ==
  /\ t.op = "destroy" /\ DOMAIN t.writes = {} /\ t.emptied = {t.batch}
  /\ e = "sqlite" => t.drops = {x.row : x \in {y \in b : y.batch = t.batch}} \cap Engines!BlobKeys

LEMMA DoneBy ==
  ASSUME NEW t, NEW f, NEW b, NEW e, Doing(t, f, b, e), t.plan = <<>>
  PROVE  Wrote1(t, f, e) \/ Made(t, f, e) \/ Removed(t, f, e) \/ Restored(t, f, b, e) \/ Destroyed(t, b, e)
<1>1. CASE Writing(t, f, e)
  <2>1. Wrote1(t, f, e)
    BY <1>1, Plans DEF Writing, Wrote1
  <2> QED BY <2>1
<1>2. CASE Making(t, f, e)
  <2>1. Made(t, f, e)
    BY <1>2, Plans DEF Making, Made
  <2> QED BY <2>1
<1>3. CASE Removing(t, f, e)
  <2>1. Removed(t, f, e)
    BY <1>3, Plans DEF Removing, Removed
  <2> QED BY <2>1
<1>4. CASE Restoring(t, f, b, e)
  <2>1. t.op = "restore" /\ t.looked = {} /\ t.drops = {}
    BY <1>4 DEF Restoring
  <2>2. Found(t, b, e) /\ t.to \in {t.root, Engines!Second(t.root)} /\ (e = "sqlite" => f[t.to] = Engines!None)
      /\ Landing(t, f, e)
    BY <1>4, Plans DEF Restoring
  <2>3. t.to \in Engines!Places /\ (e = "sqlite" => t.taken = EntriesOf(b, t.batch))
    BY <2>2, ThePlaces, TheNames DEF Found
  <2>4. \/ \E k \in Numbers : t.taken = {Entry(t.root, k)} /\ Landed(t, f, e, k) /\ t.emptied = {t.batch}
        \/ \E q \in Engines!ChildrenOf(t.root), c \in Engines!ChildrenOf(t.to), m \in Numbers :
             /\ t.taken = {Entry(t.root, Engines!Dir), Entry(q, m)} /\ t.emptied = {t.batch}
             /\ DOMAIN t.writes = {t.to, c} /\ t.writes[t.to] = Engines!Dir /\ t.writes[c] = m
    BY <2>2, Plans DEF Landing
  <2>5. Restored(t, f, b, e)
    BY <2>1, <2>2, <2>3, <2>4 DEF Restored
  <2> QED BY <2>5
<1>5. CASE Destroying(t, b, e)
  <2>1. Destroyed(t, b, e)
    BY <1>5, Plans DEF Destroying, Destroyed
  <2> QED BY <2>1
<1> QED BY <1>1, <1>2, <1>3, <1>4, <1>5 DEF Doing

\* The deletions that are left, and the one a removal adds.
Sent(t) == {[batch |-> t.batch, path |-> x.path, row |-> x.row] : x \in t.taken}

LEMMA SentIs ==
  ASSUME NEW t, t.taken \subseteq Entries, t.batch \in Ids
  PROVE  /\ Sent(t) \subseteq TrashRows /\ EntriesOf(Sent(t), t.batch) = t.taken
         /\ \A y \in Sent(t) : y.batch = t.batch /\ Entry(y.path, y.row) \in t.taken
<1> PICK S, n : S = t.taken /\ n = t.batch
  OBVIOUS
<1>1. \A x \in S : x.path \in Engines!Places /\ x.row \in Numbers /\ Entry(x.path, x.row) = x
  BY DEF Entries, Entry
<1>2. PICK g : g = [x \in S |-> [batch |-> n, path |-> x.path, row |-> x.row]]
  OBVIOUS
<1>3. \A x \in S : g[x] \in TrashRows /\ g[x].batch = n /\ g[x].path = x.path /\ g[x].row = x.row
  BY <1>1, <1>2 DEF TrashRows
<1>4. Sent(t) = {g[x] : x \in S}
  BY <1>2 DEF Sent
<1>5. \A y \in Sent(t) : y \in TrashRows /\ y.batch = n /\ Entry(y.path, y.row) \in S
  BY <1>1, <1>3, <1>4
<1>6. \A x \in S : x \in EntriesOf(Sent(t), n)
  BY <1>1, <1>3, <1>4 DEF EntriesOf
<1>7. \A x \in EntriesOf(Sent(t), n) : x \in S
  BY <1>5 DEF EntriesOf
<1> QED BY <1>5, <1>6, <1>7

Left(t) == {x \in bin : x.batch \notin t.emptied}

LEMMA FamiliesLeft ==
  ASSUME Types, NEW t
  PROVE  Left(t) \subseteq TrashRows /\ Families(Left(t))
<1>1. Left(t) \subseteq bin
  BY DEF Left
<1>2. ASSUME NEW x \in Left(t) PROVE \E p \in Engines!Places : Family(EntriesOf(Left(t), x.batch), p)
  <2>1. {y \in Left(t) : y.batch = x.batch} = {y \in bin : y.batch = x.batch}
    BY DEF Left
  <2>2. EntriesOf(Left(t), x.batch) = EntriesOf(bin, x.batch)
    BY <2>1 DEF EntriesOf
  <2> QED BY <1>1, <2>2 DEF Types, Families
<1> QED BY <1>1, <1>2 DEF Types, Families

LEMMA FamiliesJoined ==
  ASSUME Types, NEW t, IsTransaction(t), \A x \in bin : x.batch # t.batch, NEW p \in Engines!Places, Family(t.taken, p)
  PROVE  bin \cup Sent(t) \subseteq TrashRows /\ Families(bin \cup Sent(t))
<1>0. t.taken \subseteq Entries /\ t.batch \in Ids
  BY FieldsAre
<1>1. /\ Sent(t) \subseteq TrashRows /\ EntriesOf(Sent(t), t.batch) = t.taken
      /\ \A y \in Sent(t) : y.batch = t.batch
  BY <1>0, SentIs
<1>2. ASSUME NEW x \in bin PROVE \E q \in Engines!Places : Family(EntriesOf(bin \cup Sent(t), x.batch), q)
  <2>1. {y \in bin \cup Sent(t) : y.batch = x.batch} = {y \in bin : y.batch = x.batch}
    BY <1>1
  <2>2. EntriesOf(bin \cup Sent(t), x.batch) = EntriesOf(bin, x.batch)
    BY <2>1 DEF EntriesOf
  <2> QED BY <2>2 DEF Types, Families
<1>3. ASSUME NEW x \in Sent(t) PROVE Family(EntriesOf(bin \cup Sent(t), x.batch), p)
  <2>1. {y \in bin \cup Sent(t) : y.batch = t.batch} = {y \in Sent(t) : y.batch = t.batch}
    BY <1>1
  <2>2. EntriesOf(bin \cup Sent(t), t.batch) = t.taken
    BY <1>1, <2>1 DEF EntriesOf
  <2> QED BY <1>1, <2>2
<1> QED BY <1>1, <1>2, <1>3 DEF Types, Families

\* The tables after a commit.
LEMMA TablesAfter ==
  ASSUME TransactionsInv, NEW r \in Workers, Engines!Commit(r), NEW t, t = tx[r]
  PROVE  /\ Engines!Open(r) /\ IsTransaction(t) /\ Doing(t, rows, bin, engine) /\ t.plan = <<>> /\ t.at = "open"
         /\ rows' \in [Engines!Places -> Nat]
                /\ \A p \in Engines!Places : rows'[p] = IF p \in DOMAIN t.writes THEN t.writes[p] ELSE rows[p]
         /\ bin' \subseteq TrashRows /\ Families(bin')
         /\ t.op = "remove" => bin' = bin \cup Sent(t)
         /\ t.op # "remove" => bin' = Left(t)
         /\ engine' = engine /\ blobs' = blobs /\ begun' = begun
<1>1. /\ Types /\ Engines!Open(r) /\ IsTransaction(t) /\ Doing(t, rows, bin, engine) /\ t.plan = <<>> /\ t.at = "open"
      /\ engine' = engine /\ blobs' = blobs /\ begun' = begun
  BY OpenIs DEF TransactionsInv, Courses, Engines!Commit
<1>2. rows' = Engines!Over(t, rows) /\ bin' = Left(t) \cup (IF t.op = "remove" THEN Sent(t) ELSE {})
  BY DEF Engines!Commit, Engines!Committed, Left, Sent
<1>3. \A p \in Engines!Places : rows'[p] = IF p \in DOMAIN t.writes THEN t.writes[p] ELSE rows[p]
  BY <1>2 DEF Engines!Over
<1>4. rows' \in [Engines!Places -> Nat]
  <2>1. t.writes \in Drafts
    BY <1>1, FieldsAre
  <2>2. \A p \in Engines!Places : (IF p \in DOMAIN t.writes THEN t.writes[p] ELSE rows[p]) \in Nat
    BY <1>1, <2>1, Drafted DEF Types
  <2> QED BY <1>2, <2>2 DEF Engines!Over
<1>5. CASE t.op = "remove"
  <2>1. Removed(t, rows, engine)
    BY <1>1, <1>5, DoneBy DEF Wrote1, Made, Restored, Destroyed
  <2>2. \E p \in Engines!Places : Family(t.taken, p)
    BY <2>1 DEF Removed, Family
  <2>3. Left(t) = bin
    BY <2>1 DEF Removed, Left
  <2>4. \A x \in bin : x.batch # t.batch
    BY <1>1, <1>5 DEF TransactionsInv, KeysAreOwn
  <2>5. bin \cup Sent(t) \subseteq TrashRows /\ Families(bin \cup Sent(t))
    BY <1>1, <2>2, <2>4, FamiliesJoined
  <2> QED BY <1>1, <1>2, <1>3, <1>4, <1>5, <2>3, <2>5
<1>6. CASE t.op # "remove"
  BY <1>1, <1>2, <1>3, <1>4, <1>6, FamiliesLeft
<1> QED BY <1>5, <1>6

-----------------------------------------------------------------------------
(* Every kind of step keeps what holds on every engine.                     *)

LEMMA SlotKept ==
  ASSUME Types, NEW r \in Workers, NEW u, u = Engines!Idle \/ IsTransaction(u), tx' = [tx EXCEPT ![r] = u], engine' = engine
  PROVE  /\ tx'[r] = u /\ \A s \in Workers : s # r => tx'[s] = tx[s] /\ Engines!Open(s)' = Engines!Open(s)
                /\ Engines!Held(s)' = Engines!Held(s)
         /\ Engines!Open(r)' <=> (u # Engines!Idle /\ u.at = "open")
         /\ Engines!Open(r)' => IsTransaction(u) /\ Engines!Held(r)' = Holding(u)
         /\ ~Engines!Open(r)' => Engines!Held(r)' = {}
         /\ tx' = [s \in Workers |-> tx'[s]] /\ \A s \in Workers : tx'[s] = Engines!Idle \/ IsTransaction(tx'[s])
<1>1. tx'[r] = u /\ (\A s \in Workers : s # r => tx'[s] = tx[s]) /\ tx' = [s \in Workers |-> tx'[s]]
  BY SlotsAre
<1>2. ASSUME NEW s \in Workers, s # r PROVE Engines!Open(s)' = Engines!Open(s) /\ Engines!Held(s)' = Engines!Held(s)
  BY <1>1, <1>2 DEF Engines!Open, Engines!Held
<1>3. Engines!Open(r)' <=> (u # Engines!Idle /\ u.at = "open")
  BY <1>1, SlotIs DEF Engines!Open
<1>4. Engines!Open(r)' => IsTransaction(u) /\ Engines!Held(r)' = Holding(u)
  BY <1>1, <1>3 DEF Engines!Held, Holding
<1>5. ~Engines!Open(r)' => Engines!Held(r)' = {}
  BY DEF Engines!Held
<1>6. \A s \in Workers : tx'[s] = Engines!Idle \/ IsTransaction(tx'[s])
  BY <1>1 DEF Types
<1> QED BY <1>1, <1>2, <1>3, <1>4, <1>5, <1>6

LEMMA CommittedIs ==
  ASSUME NEW t, IsTransaction(t), NEW u, u = [t EXCEPT !.at = "committed"]
  PROVE  IsTransaction(u) /\ SameRequest(t, u) /\ u.at = "committed" /\ u.drops = t.drops /\ u.why = t.why
  BY DEF IsTransaction, Transactions, SameRequest

\* The slot a step changes, and to what.
LEMMA CommitSlot ==
  ASSUME TransactionsInv, NEW r \in Workers, Engines!Commit(r)
  PROVE  \E u : /\ tx' = [tx EXCEPT ![r] = u] /\ IsTransaction(u) /\ SameRequest(tx[r], u) /\ u.at = "committed"
                /\ u.drops = tx[r].drops /\ u.why = tx[r].why
<1>1. PICK t : t = tx[r]
  OBVIOUS
<1>2. IsTransaction(t)
  BY <1>1, TablesAfter
<1>3. PICK u : u = [t EXCEPT !.at = "committed"]
  OBVIOUS
<1>4. tx' = [tx EXCEPT ![r] = u]
  BY <1>1, <1>3 DEF Engines!Commit
<1> QED BY <1>1, <1>2, <1>3, <1>4, CommittedIs

LEMMA TypesKept ==
  ASSUME Types, NEW r \in Workers, NEW u, u = Engines!Idle \/ IsTransaction(u), tx' = [tx EXCEPT ![r] = u],
      engine' = engine,
         rows' \in [Engines!Places -> Nat], bin' \subseteq TrashRows, Families(bin'), begun' \in Nat, blobs' \subseteq Nat
  PROVE  Types'
<1>1. tx' = [s \in Workers |-> tx'[s]] /\ \A s \in Workers : tx'[s] = Engines!Idle \/ IsTransaction(tx'[s])
  BY SlotKept
<1> QED BY <1>1 DEF Types

LEMMA StartKeeps ==
  ASSUME TransactionsInv, NEW r \in Workers, NEW t, Starts(r, t)
  PROVE  Types' /\ Courses' /\ Exclusive' /\ KeysAreOwn'
<1>1. /\ Types /\ IsTransaction(t) /\ tx' = [tx EXCEPT ![r] = t] /\ engine' = engine /\ rows' = rows /\ bin' = bin
      /\ begun' = begun + 1 /\ begun \in Nat /\ t.key = Engines!Key(begun + 1) /\ Engines!Key(begun + 1) \in Nat
             /\ Holding(t) = {}
  <2>1. Types /\ begun \in Nat
    BY DEF TransactionsInv, Types
  <2>2. Engines!Key(begun + 1) \in Nat
    BY <2>1 DEF Engines!Key
  <2> QED BY <2>1, <2>2 DEF Starts
<1>2. Types'
  <2>1. blobs' \subseteq Nat
    BY <1>1 DEF Starts, Types
  <2> QED BY <1>1, <2>1, TypesKept DEF Types
<1>3. /\ tx'[r] = t /\ \A s \in Workers : s # r => tx'[s] = tx[s] /\ Engines!Open(s)' = Engines!Open(s)
             /\ Engines!Held(s)' = Engines!Held(s)
      /\ Engines!Held(r)' = {}
  BY <1>1, SlotKept
<1>4. Courses'
  <2>1. ASSUME NEW s \in Workers, Engines!Open(s)' PROVE Doing(tx'[s], rows', bin', engine')
    <3>1. CASE s = r
      BY <1>1, <1>3, <3>1 DEF Starts
    <3>2. CASE s # r
      BY <1>1, <1>3, <2>1, <3>2 DEF TransactionsInv, Courses
    <3> QED BY <3>1, <3>2
  <2> QED BY <2>1 DEF Courses
<1>5. Exclusive'
  BY <1>3 DEF TransactionsInv, Exclusive
<1>6. KeysAreOwn'
  <2>1. ASSUME NEW s \in Workers, tx'[s] # Engines!Idle
        PROVE  \E n \in 1..begun' : tx'[s].key = Engines!Key(n) /\ (tx'[s].op = "remove" => tx'[s].batch = Engines!Batch(n))
    <3>1. CASE s = r
      <4>1. begun + 1 \in 1..begun' /\ tx'[s] = t
        BY <1>1, <1>3, <3>1
      <4>2. t.key = Engines!Key(begun + 1) /\ (t.op = "remove" => t.batch = Engines!Batch(begun + 1))
        BY DEF Starts
      <4> QED BY <4>1, <4>2
    <3>2. CASE s # r
      BY <1>1, <1>3, <2>1, <3>2 DEF TransactionsInv, KeysAreOwn
    <3> QED BY <3>1, <3>2
  <2>2. ASSUME NEW s \in Workers, s # r, tx'[s] # Engines!Idle PROVE tx'[s].key # t.key
    <3>1. \E n \in 1..begun : tx'[s].key = Engines!Key(n)
      BY <1>3, <2>2 DEF TransactionsInv, KeysAreOwn
    <3> QED BY <1>1, <3>1 DEF Engines!Key
  <2>3. ASSUME NEW x \in bin' PROVE \E n \in 1..begun' : x.batch = Engines!Batch(n)
    BY <1>1, <2>3 DEF TransactionsInv, KeysAreOwn
  <2>4. ASSUME NEW s \in Workers, Engines!Open(s)', tx'[s].op = "remove", NEW x \in bin' PROVE x.batch # tx'[s].batch
    <3>1. CASE s = r
      <4>1. PICK n \in 1..begun : x.batch = Engines!Batch(n)
        BY <1>1, <2>4 DEF TransactionsInv, KeysAreOwn
      <4>2. tx'[s].batch = Engines!Batch(begun + 1)
        BY <1>3, <2>4, <3>1 DEF Starts
      <4>3. n \in Nat /\ begun + 1 \in Nat /\ n # begun + 1
        BY <1>1, <4>1
      <4> QED BY <4>1, <4>2, <4>3, BatchesAre
    <3>2. CASE s # r
      BY <1>1, <1>3, <2>4, <3>2 DEF TransactionsInv, KeysAreOwn
    <3> QED BY <3>1, <3>2
  <2>5. \A s, w \in Workers : s # w /\ tx'[s] # Engines!Idle /\ tx'[w] # Engines!Idle => tx'[s].key # tx'[w].key
    BY <1>3, <2>2 DEF TransactionsInv, KeysAreOwn
  <2> QED BY <2>1, <2>3, <2>4, <2>5 DEF KeysAreOwn
<1> QED BY <1>2, <1>4, <1>5, <1>6

\* What a step has that changes neither the keys nor the deletions.
LEMMA KeysKept ==
  ASSUME TransactionsInv, NEW r \in Workers, NEW u, u = Engines!Idle \/ (IsTransaction(u) /\ tx[r] # Engines!Idle
      /\ SameRequest(tx[r], u)),
         tx' = [tx EXCEPT ![r] = u], engine' = engine, begun' = begun, bin' = bin, Engines!Open(r)' => Engines!Open(r)
  PROVE  KeysAreOwn'
<1>1. Types
  BY DEF TransactionsInv
<1>2. tx'[r] = u /\ \A s \in Workers : s # r => tx'[s] = tx[s] /\ Engines!Open(s)' = Engines!Open(s)
  BY <1>1, SlotKept
<1>3. \A s \in Workers : tx'[s] # Engines!Idle => tx[s] # Engines!Idle /\ tx'[s].key = tx[s].key /\ tx'[s].op = tx[s].op
    /\ tx'[s].batch = tx[s].batch
  BY <1>2 DEF SameRequest
<1>4. \A s \in Workers : Engines!Open(s)' => Engines!Open(s) /\ tx'[s] # Engines!Idle
  <2>1. ASSUME NEW s \in Workers, Engines!Open(s)' PROVE tx'[s] # Engines!Idle
    BY <2>1 DEF Engines!Open, Engines!Idle
  <2> QED BY <1>2, <2>1
<1> QED BY <1>3, <1>4 DEF TransactionsInv, KeysAreOwn

LEMMA MoveKeeps ==
  ASSUME TransactionsInv, NEW r \in Workers, NEW u, Advances(r, u)
  PROVE  Types' /\ Courses' /\ Exclusive' /\ KeysAreOwn'
<1>1. /\ Types /\ Engines!Open(r) /\ tx[r] # Engines!Idle /\ IsTransaction(u) /\ SameRequest(tx[r], u)
             /\ tx' = [tx EXCEPT ![r] = u]
      /\ engine' = engine /\ rows' = rows /\ bin' = bin /\ begun' = begun /\ blobs' = blobs
  BY OpenIs DEF TransactionsInv, Advances, Fails, GoesOn
<1>2. Types'
  BY <1>1, TypesKept DEF Types
<1>3. /\ tx'[r] = u /\ \A s \in Workers : s # r => tx'[s] = tx[s] /\ Engines!Open(s)' = Engines!Open(s)
             /\ Engines!Held(s)' = Engines!Held(s)
      /\ Engines!Open(r)' <=> (u # Engines!Idle /\ u.at = "open")
      /\ Engines!Open(r)' => Engines!Held(r)' = Holding(u)
      /\ ~Engines!Open(r)' => Engines!Held(r)' = {}
  BY <1>1, SlotKept
<1>4. Courses'
  <2>1. ASSUME NEW s \in Workers, Engines!Open(s)' PROVE Doing(tx'[s], rows', bin', engine')
    <3>1. CASE s = r
      BY <1>1, <1>3, <2>1, <3>1 DEF Advances, Fails
    <3>2. CASE s # r
      BY <1>1, <1>3, <2>1, <3>2 DEF TransactionsInv, Courses
    <3> QED BY <3>1, <3>2
  <2> QED BY <2>1 DEF Courses
<1>5. Exclusive'
  <2>1. \A s \in Workers : s # r => Engines!Held(r)' \cap Engines!Held(s)' = {}
    BY <1>3 DEF Advances
  <2> QED BY <1>3, <2>1 DEF TransactionsInv, Exclusive
<1>6. KeysAreOwn'
  BY <1>1, KeysKept
<1> QED BY <1>2, <1>4, <1>5, <1>6

LEMMA EndingIs ==
  ASSUME TransactionsInv, NEW r \in Workers, Engines!End(r)
  PROVE  /\ tx[r] # Engines!Idle /\ ~Engines!Open(r) /\ IsTransaction(tx[r]) /\ tx[r].at \in {"committed", "failed"}
         /\ tx' = [tx EXCEPT ![r] = Engines!Idle]
                /\ blobs' = blobs \ (IF tx[r].at = "committed" THEN tx[r].drops ELSE {tx[r].key})
         /\ engine' = engine /\ rows' = rows /\ bin' = bin /\ begun' = begun
<1>1. /\ tx[r] # Engines!Idle /\ tx[r].at \in {"committed", "failed"}
      /\ tx' = [tx EXCEPT ![r] = Engines!Idle]
             /\ blobs' = blobs \ (IF tx[r].at = "committed" THEN tx[r].drops ELSE {tx[r].key})
      /\ engine' = engine /\ rows' = rows /\ bin' = bin /\ begun' = begun
  BY DEF Engines!End
<1>2. ~Engines!Open(r) /\ IsTransaction(tx[r])
  BY <1>1, OpenIs DEF TransactionsInv
<1> QED BY <1>1, <1>2

LEMMA EndKeeps ==
  ASSUME TransactionsInv, NEW r \in Workers, Engines!End(r)
  PROVE  Types' /\ Courses' /\ Exclusive' /\ KeysAreOwn'
<1>1. /\ Types /\ tx' = [tx EXCEPT ![r] = Engines!Idle] /\ blobs' \subseteq blobs
      /\ engine' = engine /\ rows' = rows /\ bin' = bin /\ begun' = begun
  BY EndingIs DEF TransactionsInv
<1>2. Types'
  BY <1>1, TypesKept DEF Types
<1>3. /\ tx'[r] = Engines!Idle /\ \A s \in Workers : s # r => tx'[s] = tx[s] /\ Engines!Open(s)' = Engines!Open(s)
             /\ Engines!Held(s)' = Engines!Held(s)
      /\ ~Engines!Open(r)' /\ Engines!Held(r)' = {}
  BY <1>1, SlotKept
<1>4. Courses'
  <2>1. ASSUME NEW s \in Workers, Engines!Open(s)' PROVE Doing(tx'[s], rows', bin', engine')
    <3>1. s # r
      BY <1>3, <2>1
    <3> QED BY <1>1, <1>3, <2>1, <3>1 DEF TransactionsInv, Courses
  <2> QED BY <2>1 DEF Courses
<1>5. Exclusive'
  BY <1>3 DEF TransactionsInv, Exclusive
<1>6. KeysAreOwn'
  BY <1>1, <1>3, KeysKept
<1> QED BY <1>2, <1>4, <1>5, <1>6

LEMMA CommitKeeps ==
  ASSUME TransactionsInv, NEW r \in Workers, Engines!Commit(r)
  PROVE  Types' /\ Courses' /\ Exclusive' /\ KeysAreOwn'
<1>0. PICK t : t = tx[r]
  OBVIOUS
<1>1. /\ Engines!Open(r) /\ IsTransaction(t) /\ Doing(t, rows, bin, engine) /\ t.plan = <<>> /\ t.at = "open"
      /\ rows' \in [Engines!Places -> Nat]
             /\ \A p \in Engines!Places : rows'[p] = IF p \in DOMAIN t.writes THEN t.writes[p] ELSE rows[p]
      /\ bin' \subseteq TrashRows /\ Families(bin')
      /\ t.op = "remove" => bin' = bin \cup Sent(t)
      /\ t.op # "remove" => bin' = Left(t)
      /\ engine' = engine /\ blobs' = blobs /\ begun' = begun
  BY <1>0, TablesAfter
<1>2. PICK u : tx' = [tx EXCEPT ![r] = u] /\ IsTransaction(u) /\ SameRequest(t, u) /\ u.at = "committed"
  BY <1>0, CommitSlot
<1>3. Types /\ tx[r] # Engines!Idle /\ Engines!Held(r) = Holding(t) /\ blobs \subseteq Nat /\ begun \in Nat
  BY <1>0, <1>1, OpenIs DEF TransactionsInv, Types
<1>4. Types'
  BY <1>1, <1>2, <1>3, TypesKept
<1>5. /\ tx'[r] = u /\ \A s \in Workers : s # r => tx'[s] = tx[s] /\ Engines!Open(s)' = Engines!Open(s)
             /\ Engines!Held(s)' = Engines!Held(s)
      /\ ~Engines!Open(r)' /\ Engines!Held(r)' = {}
  BY <1>1, <1>2, <1>3, SlotKept
<1>6. Courses'
  <2>1. ASSUME NEW s \in Workers, Engines!Open(s)' PROVE Doing(tx'[s], rows', bin', engine')
    <3>1. s # r /\ Engines!Open(s) /\ tx'[s] = tx[s]
      BY <1>5, <2>1
    <3>2. PICK v : v = tx[s]
      OBVIOUS
    <3>3. IsTransaction(v) /\ Engines!Held(s) = Holding(v) /\ Doing(v, rows, bin, engine)
      BY <1>3, <3>1, <3>2, OpenIs DEF TransactionsInv, Courses
    <3>4. engine # "sqlite"
      BY <1>1, <3>1 DEF TransactionsInv, Serial
    <3>5. Engines!Held(r) \cap Engines!Held(s) = {}
      BY <3>1 DEF TransactionsInv, Exclusive
    <3>6. ASSUME NEW p \in DOMAIN v.writes PROVE rows'[p] = rows[p]
      <4>1. p \in Engines!Places
        BY <3>3, <3>6, FieldsAre, Drafted
      <4>2. p \notin DOMAIN t.writes
        BY <1>3, <3>3, <3>5, <3>6 DEF Holding
      <4> QED BY <1>1, <4>1, <4>2
    <3>7. Doing(v, rows', bin', engine)
      BY <3>3, <3>4, <3>6, CourseKept
    <3> QED BY <1>1, <3>1, <3>2, <3>7
  <2> QED BY <2>1 DEF Courses
<1>7. Exclusive'
  BY <1>5 DEF TransactionsInv, Exclusive
<1>8. KeysAreOwn'
  <2>1. \A s \in Workers : tx'[s] # Engines!Idle => tx[s] # Engines!Idle /\ tx'[s].key = tx[s].key /\ tx'[s].op = tx[s].op
      /\ tx'[s].batch = tx[s].batch
    BY <1>0, <1>2, <1>3, <1>5 DEF SameRequest
  <2>2. PICK n \in 1..begun : t.key = Engines!Key(n) /\ (t.op = "remove" => t.batch = Engines!Batch(n))
    BY <1>0, <1>3 DEF TransactionsInv, KeysAreOwn
  <2>3. \A x \in bin' : x \in bin \/ (t.op = "remove" /\ x.batch = Engines!Batch(n))
    <3>1. CASE t.op = "remove"
      <4>1. t.taken \subseteq Entries /\ t.batch \in Ids
        BY <1>1, FieldsAre
      <4>2. \A y \in Sent(t) : y.batch = t.batch
        BY <4>1, SentIs
      <4> QED BY <1>1, <2>2, <3>1, <4>2
    <3>2. CASE t.op # "remove"
      BY <1>1, <3>2 DEF Left
    <3> QED BY <3>1, <3>2
  <2>4. ASSUME NEW s \in Workers, Engines!Open(s)', tx'[s].op = "remove", NEW x \in bin' PROVE x.batch # tx'[s].batch
    <3>1. s # r /\ Engines!Open(s) /\ tx'[s] = tx[s] /\ tx[s] # Engines!Idle
      BY <1>3, <1>5, <2>4, OpenIs
    <3>2. CASE x \in bin
      BY <2>4, <3>1, <3>2 DEF TransactionsInv, KeysAreOwn
    <3>3. CASE t.op = "remove" /\ x.batch = Engines!Batch(n)
      <4>1. PICK m \in 1..begun : tx[s].key = Engines!Key(m) /\ tx[s].batch = Engines!Batch(m)
        BY <2>4, <3>1 DEF TransactionsInv, KeysAreOwn
      <4>2. tx[s].key # t.key
        BY <1>0, <1>3, <3>1 DEF TransactionsInv, KeysAreOwn
      <4>3. m # n /\ m \in Nat /\ n \in Nat
        BY <1>3, <2>2, <4>1, <4>2
      <4> QED BY <3>1, <3>3, <4>1, <4>3, BatchesAre
    <3> QED BY <2>3, <3>2, <3>3
  <2>5. \A x \in bin' : \E m \in 1..begun' : x.batch = Engines!Batch(m)
    BY <1>1, <2>2, <2>3 DEF TransactionsInv, KeysAreOwn
  <2>6. /\ \A s \in Workers : tx'[s] # Engines!Idle => \E m \in 1..begun' : tx'[s].key = Engines!Key(m)
               /\ (tx'[s].op = "remove" => tx'[s].batch = Engines!Batch(m))
        /\ \A s, w \in Workers : s # w /\ tx'[s] # Engines!Idle /\ tx'[w] # Engines!Idle => tx'[s].key # tx'[w].key
    BY <1>1, <2>1 DEF TransactionsInv, KeysAreOwn
  <2> QED BY <2>4, <2>5, <2>6 DEF KeysAreOwn
<1> QED BY <1>4, <1>6, <1>7, <1>8

-----------------------------------------------------------------------------
(* SQLite: what one transaction commits over the tables it found.           *)

ClosedTree(f) == \A p \in Engines!Places : Len(p) = 2 /\ f[p] # Engines!None => f[Engines!ParentOf(p)] = Engines!Dir
LiveIn(f)    == {f[p] : p \in Engines!Places} \cap Engines!BlobKeys
DeletedIn(b) == {x.row : x \in b} \cap Engines!BlobKeys
OncePerKey(f, b) ==
  /\ LiveIn(f) \cap DeletedIn(b) = {}
  /\ \A p, q \in Engines!Places : f[p] \in Engines!BlobKeys /\ f[p] = f[q] => p = q
  /\ \A x, y \in b : x.row \in Engines!BlobKeys /\ x.row = y.row => x = y

\* What a commit makes of the tables f and b: g and c.
Whole(t, f, b, g, c) ==
  /\ ClosedTree(g) /\ OncePerKey(g, c)
  /\ UsedIn(g, c) \subseteq UsedIn(f, b) \cup {Engines!None, Engines!Dir} \cup (IF t.op = "write" THEN {t.key} ELSE {})
  /\ t.drops \cap UsedIn(g, c) = {}

LEMMA Values == Engines!None \notin Engines!BlobKeys /\ Engines!Dir \notin Engines!BlobKeys /\ Engines!None # Engines!Dir
    /\ Engines!Dir \in Numbers /\ Engines!None \notin Numbers
  BY DEF Engines!BlobKeys, Engines!Key, Engines!None, Engines!Dir, Numbers

\* What OneRowPerBlob says of a key: it is in one place.
LEMMA OnceIs ==
  ASSUME NEW f, NEW b
  PROVE  OncePerKey(f, b) <=> /\ \A p \in Engines!Places, x \in b : f[p] \in Engines!BlobKeys => f[p] # x.row
                              /\ \A p, q \in Engines!Places : f[p] \in Engines!BlobKeys /\ f[p] = f[q] => p = q
                              /\ \A x, y \in b : x.row \in Engines!BlobKeys /\ x.row = y.row => x = y
  BY DEF OncePerKey, LiveIn, DeletedIn

LEMMA WholeWrite ==
  ASSUME NEW t, NEW f, NEW b, NEW g, ClosedTree(f), OncePerKey(f, b), t.key \notin UsedIn(f, b),
         Wrote1(t, f, "sqlite"), \A p \in Engines!Places : g[p] = IF p \in DOMAIN t.writes THEN t.writes[p] ELSE f[p]
  PROVE  Whole(t, f, b, g, b)
<1>1. PICK p \in Engines!Places : /\ DOMAIN t.writes = {p} /\ t.writes[p] = t.key
                                  /\ Parented(f, p) /\ t.drops = {f[p]} \cap Engines!BlobKeys /\ f[p] # Engines!Dir
  BY DEF Wrote1, Replaced
<1>2. g[p] = t.key /\ \A q \in Engines!Places : q # p => g[q] = f[q]
  BY <1>1
<1>3. (\A q \in Engines!Places : f[q] # t.key) /\ (\A x \in b : x.row # t.key)
  BY DEF UsedIn
<1>4. ClosedTree(g)
  <2>1. ASSUME NEW q \in Engines!Places, Len(q) = 2, g[q] # Engines!None PROVE g[Engines!ParentOf(q)] = Engines!Dir
    <3>1. Engines!ParentOf(q) \in Engines!Places /\ Engines!ParentOf(q) # q
      BY <2>1, Above
    <3>2. f[Engines!ParentOf(q)] = Engines!Dir
      <4>1. CASE q = p
        BY <1>1, <2>1, <4>1 DEF Parented
      <4>2. CASE q # p
        BY <1>2, <2>1, <4>2 DEF ClosedTree
      <4> QED BY <4>1, <4>2
    <3>3. Engines!ParentOf(q) # p
      BY <1>1, <3>2
    <3> QED BY <1>2, <3>1, <3>2, <3>3
  <2> QED BY <2>1 DEF ClosedTree
<1>5. /\ \A q \in Engines!Places, x \in b : f[q] \in Engines!BlobKeys => f[q] # x.row
      /\ \A q, w \in Engines!Places : f[q] \in Engines!BlobKeys /\ f[q] = f[w] => q = w
      /\ \A x, y \in b : x.row \in Engines!BlobKeys /\ x.row = y.row => x = y
  BY OnceIs
<1>6. OncePerKey(g, b)
  <2>1. \A q \in Engines!Places, x \in b : g[q] \in Engines!BlobKeys => g[q] # x.row
    BY <1>2, <1>3, <1>5
  <2>2. ASSUME NEW q \in Engines!Places, NEW w \in Engines!Places, g[q] \in Engines!BlobKeys, g[q] = g[w] PROVE q = w
    <3>1. CASE q = p
      <4>1. w # p => g[w] # g[q]
        BY <1>2, <1>3, <3>1
      <4> QED BY <2>2, <3>1, <4>1
    <3>2. CASE q # p
      <4>1. g[q] = f[q] /\ f[q] # t.key
        BY <1>2, <1>3, <3>2
      <4>2. w # p /\ g[w] = f[w]
        BY <1>2, <2>2, <4>1
      <4> QED BY <1>5, <2>2, <4>1, <4>2
    <3> QED BY <3>1, <3>2
  <2> QED BY <1>5, <2>1, <2>2, OnceIs
<1>7. UsedIn(g, b) \subseteq UsedIn(f, b) \cup {t.key}
  BY <1>1, <1>2 DEF UsedIn
<1>8. t.drops \cap UsedIn(g, b) = {}
  <2>1. ASSUME f[p] \in Engines!BlobKeys PROVE f[p] \notin UsedIn(g, b)
    <3>1. ASSUME NEW q \in Engines!Places PROVE g[q] # f[p]
      <4>1. CASE q = p
        BY <1>1, <1>2, <1>3, <4>1
      <4>2. CASE q # p
        <5>1. g[q] = f[q] /\ (f[p] = f[q] => p = q)
          BY <1>1, <1>2, <1>5, <2>1, <4>2
        <5> QED BY <4>2, <5>1
      <4> QED BY <4>1, <4>2
    <3>2. \A x \in b : x.row # f[p]
      BY <1>1, <1>5, <2>1
    <3> QED BY <3>1, <3>2 DEF UsedIn
  <2> QED BY <1>1, <2>1
<1> QED BY <1>4, <1>6, <1>7, <1>8 DEF Whole, Wrote1

LEMMA WholeMade ==
  ASSUME NEW t, NEW f, NEW b, NEW g, ClosedTree(f), OncePerKey(f, b),
         Made(t, f, "sqlite"), \A p \in Engines!Places : g[p] = IF p \in DOMAIN t.writes THEN t.writes[p] ELSE f[p]
  PROVE  Whole(t, f, b, g, b)
<1>1. PICK p \in Engines!Places : /\ DOMAIN t.writes = {p} /\ t.writes[p] = Engines!Dir
                                  /\ Parented(f, p) /\ f[p] = Engines!None
  BY DEF Made
<1>2. g[p] = Engines!Dir /\ \A q \in Engines!Places : q # p => g[q] = f[q]
  BY <1>1
<1>4. ClosedTree(g)
  <2>1. ASSUME NEW q \in Engines!Places, Len(q) = 2, g[q] # Engines!None PROVE g[Engines!ParentOf(q)] = Engines!Dir
    <3>1. Engines!ParentOf(q) \in Engines!Places /\ Engines!ParentOf(q) # q
      BY <2>1, Above
    <3>2. f[Engines!ParentOf(q)] = Engines!Dir
      <4>1. CASE q = p
        BY <1>1, <2>1, <4>1 DEF Parented
      <4>2. CASE q # p
        BY <1>2, <2>1, <4>2 DEF ClosedTree
      <4> QED BY <4>1, <4>2
    <3>3. Engines!ParentOf(q) # p
      BY <1>1, <3>2, Values
    <3> QED BY <1>2, <3>1, <3>2, <3>3
  <2> QED BY <2>1 DEF ClosedTree
<1>5. /\ \A q \in Engines!Places, x \in b : f[q] \in Engines!BlobKeys => f[q] # x.row
      /\ \A q, w \in Engines!Places : f[q] \in Engines!BlobKeys /\ f[q] = f[w] => q = w
      /\ \A x, y \in b : x.row \in Engines!BlobKeys /\ x.row = y.row => x = y
  BY OnceIs
<1>6. OncePerKey(g, b)
  <2>1. \A q \in Engines!Places, x \in b : g[q] \in Engines!BlobKeys => g[q] # x.row
    BY <1>2, <1>5, Values
  <2>2. \A q, w \in Engines!Places : g[q] \in Engines!BlobKeys /\ g[q] = g[w] => q = w
    BY <1>2, <1>5, Values
  <2> QED BY <1>5, <2>1, <2>2, OnceIs
<1>7. UsedIn(g, b) \subseteq UsedIn(f, b) \cup {Engines!Dir}
  BY <1>1, <1>2 DEF UsedIn
<1> QED BY <1>4, <1>6, <1>7 DEF Whole, Made

LEMMA WholeDestroyed ==
  ASSUME NEW t, NEW f, NEW b, NEW g, NEW c, ClosedTree(f), OncePerKey(f, b), Destroyed(t, b, "sqlite"),
         \A p \in Engines!Places : g[p] = IF p \in DOMAIN t.writes THEN t.writes[p] ELSE f[p],
         c = {x \in b : x.batch \notin t.emptied}
  PROVE  Whole(t, f, b, g, c)
<1>1. /\ \A p \in Engines!Places : g[p] = f[p]
      /\ \A x \in c : x \in b /\ x.batch # t.batch
      /\ t.drops = {x.row : x \in {y \in b : y.batch = t.batch}} \cap Engines!BlobKeys
  BY DEF Destroyed
<1>2. /\ \A q \in Engines!Places, x \in b : f[q] \in Engines!BlobKeys => f[q] # x.row
      /\ \A q, w \in Engines!Places : f[q] \in Engines!BlobKeys /\ f[q] = f[w] => q = w
      /\ \A x, y \in b : x.row \in Engines!BlobKeys /\ x.row = y.row => x = y
  BY OnceIs
<1>3. ClosedTree(g)
  BY <1>1, Above DEF ClosedTree
<1>4. OncePerKey(g, c)
  BY <1>1, <1>2, OnceIs
<1>5. UsedIn(g, c) \subseteq UsedIn(f, b)
  BY <1>1 DEF UsedIn
<1>6. t.drops \cap UsedIn(g, c) = {}
  <2>1. ASSUME NEW k \in t.drops PROVE k \notin UsedIn(g, c)
    <3>1. PICK x \in b : x.batch = t.batch /\ x.row = k /\ k \in Engines!BlobKeys
      BY <1>1
    <3>2. \A q \in Engines!Places : g[q] # k
      BY <1>1, <1>2, <3>1
    <3>3. \A y \in c : y.row # k
      BY <1>1, <1>2, <3>1
    <3> QED BY <3>2, <3>3 DEF UsedIn
  <2> QED BY <2>1
<1> QED BY <1>3, <1>4, <1>5, <1>6 DEF Whole

\* A removal empties the places whose rows it takes, and no row is left under one.
Taking(t, f) ==
  /\ t.taken \subseteq Entries /\ \A x \in t.taken : x.path \in DOMAIN t.writes /\ f[x.path] = x.row
  /\ DOMAIN t.writes \subseteq Engines!Places /\ \A q \in DOMAIN t.writes : t.writes[q] = Engines!None
  /\ \A p \in DOMAIN t.writes : \A q \in Engines!ChildrenOf(p) : q \in DOMAIN t.writes \/ f[q] = Engines!None

LEMMA TakingIs ==
  ASSUME NEW t, NEW f, Removed(t, f, "sqlite")
  PROVE  Taking(t, f)
<1>1. PICK p \in Engines!Places :
       \/ \E q \in Engines!ChildrenOf(p), m \in Numbers :
            /\ t.taken = {Entry(p, Engines!Dir), Entry(q, m)} /\ f[p] = Engines!Dir /\ f[q] = m
            /\ DOMAIN t.writes = {p, q} /\ t.writes[q] = Engines!None /\ t.writes[p] = Engines!None
       \/ \E k \in Numbers :
            /\ t.taken = {Entry(p, k)} /\ f[p] = k /\ \A q \in Engines!ChildrenOf(p) : f[q] = Engines!None
            /\ DOMAIN t.writes = {p} /\ t.writes[p] = Engines!None
  BY DEF Removed
<1>2. ASSUME NEW q \in Engines!ChildrenOf(p), NEW m \in Numbers,
             t.taken = {Entry(p, Engines!Dir), Entry(q, m)}, f[p] = Engines!Dir, f[q] = m,
             DOMAIN t.writes = {p, q}, t.writes[q] = Engines!None, t.writes[p] = Engines!None
      PROVE  Taking(t, f)
  <2>1. q \in Engines!Places /\ Engines!ChildrenOf(p) = {q} /\ Engines!ChildrenOf(q) = {}
    BY <1>1, <1>2, Above
  <2>2. /\ Entry(p, Engines!Dir) \in Entries /\ Entry(p, Engines!Dir).path = p /\ Entry(p, Engines!Dir).row = Engines!Dir
        /\ Entry(q, m) \in Entries /\ Entry(q, m).path = q /\ Entry(q, m).row = m
    BY <1>1, <2>1, Values DEF Entries, Entry
  <2>3. \A x \in t.taken : x \in Entries /\ x.path \in DOMAIN t.writes /\ f[x.path] = x.row
    BY <1>2, <2>2
  <2> QED BY <1>1, <1>2, <2>1, <2>3 DEF Taking
<1>3. ASSUME NEW k \in Numbers, t.taken = {Entry(p, k)}, f[p] = k, \A q \in Engines!ChildrenOf(p) : f[q] = Engines!None,
             DOMAIN t.writes = {p}, t.writes[p] = Engines!None
      PROVE  Taking(t, f)
  <2>1. Entry(p, k) \in Entries /\ Entry(p, k).path = p /\ Entry(p, k).row = k
    BY <1>1 DEF Entries, Entry
  <2>2. \A x \in t.taken : x \in Entries /\ x.path \in DOMAIN t.writes /\ f[x.path] = x.row
    BY <1>3, <2>1
  <2> QED BY <1>1, <1>3, <2>2 DEF Taking
<1> QED BY <1>1, <1>2, <1>3

LEMMA WholeRemoved ==
  ASSUME NEW t, NEW f, NEW b, NEW g, ClosedTree(f), OncePerKey(f, b), Removed(t, f, "sqlite"), t.batch \in Ids,
         \A p \in Engines!Places : g[p] = IF p \in DOMAIN t.writes THEN t.writes[p] ELSE f[p]
  PROVE  Whole(t, f, b, g, b \cup Sent(t))
<1>1. /\ t.taken \subseteq Entries /\ \A x \in t.taken : x.path \in DOMAIN t.writes /\ f[x.path] = x.row
      /\ DOMAIN t.writes \subseteq Engines!Places /\ \A q \in DOMAIN t.writes : t.writes[q] = Engines!None
      /\ \A p \in DOMAIN t.writes : \A q \in Engines!ChildrenOf(p) : q \in DOMAIN t.writes \/ f[q] = Engines!None
  BY TakingIs DEF Taking
<1>2. /\ \A q \in Engines!Places, x \in b : f[q] \in Engines!BlobKeys => f[q] # x.row
      /\ \A q, w \in Engines!Places : f[q] \in Engines!BlobKeys /\ f[q] = f[w] => q = w
      /\ \A x, y \in b : x.row \in Engines!BlobKeys /\ x.row = y.row => x = y
  BY OnceIs
<1>3. /\ \A q \in DOMAIN t.writes : q \in Engines!Places /\ g[q] = Engines!None
      /\ \A q \in Engines!Places : q \notin DOMAIN t.writes => g[q] = f[q]
  BY <1>1
\* Every row it adds to the trash was one of the tree.
<1>4. \A y \in Sent(t) : y.batch = t.batch /\ y.path \in DOMAIN t.writes /\ y.path \in Engines!Places /\ f[y.path] = y.row
  <2>1. ASSUME NEW y \in Sent(t) PROVE y.batch = t.batch /\ y.path \in DOMAIN t.writes /\ f[y.path] = y.row
    <3>1. y.batch = t.batch /\ Entry(y.path, y.row) \in t.taken
      BY <1>1, SentIs
    <3>2. Entry(y.path, y.row).path = y.path /\ Entry(y.path, y.row).row = y.row
      BY DEF Entry
    <3> QED BY <1>1, <3>1, <3>2
  <2> QED BY <1>1, <2>1
<1>5. ClosedTree(g)
  <2>1. ASSUME NEW q \in Engines!Places, Len(q) = 2, g[q] # Engines!None PROVE g[Engines!ParentOf(q)] = Engines!Dir
    <3>1. Engines!ParentOf(q) \in Engines!Places /\ q \in Engines!ChildrenOf(Engines!ParentOf(q))
      BY <2>1, Above
    <3>2. q \notin DOMAIN t.writes /\ f[q] # Engines!None
      BY <1>3, <2>1
    <3>3. f[Engines!ParentOf(q)] = Engines!Dir /\ Engines!ParentOf(q) \notin DOMAIN t.writes
      BY <1>1, <2>1, <3>1, <3>2 DEF ClosedTree
    <3> QED BY <1>3, <3>1, <3>3
  <2> QED BY <2>1 DEF ClosedTree
<1>6. OncePerKey(g, b \cup Sent(t))
  <2>1. ASSUME NEW q \in Engines!Places, NEW x \in b \cup Sent(t), g[q] \in Engines!BlobKeys PROVE g[q] # x.row
    <3>1. q \notin DOMAIN t.writes /\ g[q] = f[q]
      BY <1>3, <2>1, Values
    <3>2. CASE x \in b
      BY <1>2, <2>1, <3>1, <3>2
    <3>3. CASE x \in Sent(t)
      BY <1>2, <1>4, <2>1, <3>1, <3>3
    <3> QED BY <3>2, <3>3
  <2>2. ASSUME NEW q \in Engines!Places, NEW w \in Engines!Places, g[q] \in Engines!BlobKeys, g[q] = g[w] PROVE q = w
    <3>1. g[q] = f[q] /\ g[w] = f[w]
      BY <1>3, <2>2, Values
    <3> QED BY <1>2, <2>2, <3>1
  <2>3. ASSUME NEW x \in b \cup Sent(t), NEW y \in b \cup Sent(t), x.row \in Engines!BlobKeys, x.row = y.row PROVE x = y
    <3>1. CASE x \in b /\ y \in b
      BY <1>2, <2>3, <3>1
    <3>2. CASE x \in b /\ y \in Sent(t)
      BY <1>2, <1>4, <2>3, <3>2
    <3>3. CASE x \in Sent(t) /\ y \in b
      BY <1>2, <1>4, <2>3, <3>3
    <3>4. CASE x \in Sent(t) /\ y \in Sent(t)
      <4>1. x.path = y.path /\ x.batch = y.batch
        BY <1>2, <1>4, <2>3, <3>4
      <4>2. x \in TrashRows /\ y \in TrashRows
        BY <1>1, <3>4, SentIs
      <4> QED BY <2>3, <4>1, <4>2 DEF TrashRows
    <3> QED BY <2>3, <3>1, <3>2, <3>3, <3>4
  <2> QED BY <2>1, <2>2, <2>3, OnceIs
<1>7. UsedIn(g, b \cup Sent(t)) \subseteq UsedIn(f, b) \cup {Engines!None}
  <2>1. \A q \in Engines!Places : g[q] = Engines!None \/ g[q] = f[q]
    BY <1>3
  <2>2. \A x \in b \cup Sent(t) : x \in b \/ \E q \in Engines!Places : f[q] = x.row
    BY <1>4
  <2> QED BY <2>1, <2>2 DEF UsedIn
<1>8. t.drops = {}
  BY DEF Removed
<1> QED BY <1>5, <1>6, <1>7, <1>8 DEF Whole

\* A restore lands every row it found, where nothing was.
Landed2(t, f, b, g) ==
  /\ \A q \in DOMAIN t.writes : q \in Engines!Places /\ (t.writes[q] = Engines!Dir \/ \E x \in b : x.batch = t.batch
         /\ x.row = t.writes[q])
  /\ \A q, w \in DOMAIN t.writes : t.writes[q] \in Engines!BlobKeys /\ t.writes[w] \in Engines!BlobKeys => q = w
  /\ \A q \in DOMAIN t.writes : g[q] = t.writes[q]

LEMMA LandedIs ==
  ASSUME NEW t, NEW f, NEW b, NEW g, ClosedTree(f), Restored(t, f, b, "sqlite"),
         \A p \in Engines!Places : g[p] = IF p \in DOMAIN t.writes THEN t.writes[p] ELSE f[p]
  PROVE  Landed2(t, f, b, g) /\ ClosedTree(g)
<1>1. /\ t.to \in Engines!Places /\ f[t.to] = Engines!None /\ t.taken = EntriesOf(b, t.batch)
      /\ \/ \E k \in Numbers : t.taken = {Entry(t.root, k)} /\ Landed(t, f, "sqlite", k)
         \/ \E q \in Engines!ChildrenOf(t.root), c \in Engines!ChildrenOf(t.to), m \in Numbers :
              /\ t.taken = {Entry(t.root, Engines!Dir), Entry(q, m)}
              /\ DOMAIN t.writes = {t.to, c} /\ t.writes[t.to] = Engines!Dir /\ t.writes[c] = m
  BY DEF Restored
<1>2. \A p, k : Entry(p, k) \in t.taken => \E x \in b : x.batch = t.batch /\ x.row = k
  <2>1. ASSUME NEW p, NEW k, Entry(p, k) \in t.taken PROVE \E x \in b : x.batch = t.batch /\ x.row = k
    <3>1. PICK x \in b : x.batch = t.batch /\ Entry(x.path, x.row) = Entry(p, k)
      BY <1>1, <2>1 DEF EntriesOf
    <3>2. Entry(x.path, x.row).row = x.row /\ Entry(p, k).row = k
      BY DEF Entry
    <3> QED BY <3>1, <3>2
  <2> QED BY <2>1
<1>3. PICK to : to = t.to /\ to \in Engines!Places /\ f[to] = Engines!None
  BY <1>1
<1>9. \A q \in Engines!ChildrenOf(to) : q \in Engines!Places /\ f[q] = Engines!None /\ Engines!ChildrenOf(q) = {} /\ q # to
    /\ Len(q) = 2 /\ Engines!ParentOf(q) = to /\ Len(to) = 1
  BY <1>3, Above, Values DEF ClosedTree
<1>4. ASSUME NEW k \in Numbers, t.taken = {Entry(t.root, k)}, Landed(t, f, "sqlite", k)
      PROVE  Landed2(t, f, b, g) /\ ClosedTree(g)
  <2>1. \E x \in b : x.batch = t.batch /\ x.row = k
    BY <1>2, <1>4
  <2>2. CASE DOMAIN t.writes = {to} /\ t.writes[to] = k /\ Parented(f, to)
    <3>1. Landed2(t, f, b, g)
      BY <1>3, <2>1, <2>2 DEF Landed2
    <3>2. ASSUME NEW q \in Engines!Places, Len(q) = 2, g[q] # Engines!None PROVE g[Engines!ParentOf(q)] = Engines!Dir
      <4>1. Engines!ParentOf(q) \in Engines!Places /\ Engines!ParentOf(q) # q
          /\ q \in Engines!ChildrenOf(Engines!ParentOf(q))
        BY <3>2, Above
      <4>2. f[Engines!ParentOf(q)] = Engines!Dir
        <5>1. CASE q = to
          BY <2>2, <3>2, <5>1 DEF Parented
        <5>2. CASE q # to
          BY <2>2, <3>2, <5>2 DEF ClosedTree
        <5> QED BY <5>1, <5>2
      <4>3. Engines!ParentOf(q) # to
        BY <1>3, <4>2, Values
      <4> QED BY <2>2, <4>1, <4>2, <4>3
    <3> QED BY <3>1, <3>2 DEF ClosedTree
  <2>3. CASE /\ Len(to) = 2 /\ DOMAIN t.writes = {Engines!ParentOf(to), to}
             /\ t.writes[Engines!ParentOf(to)] = Engines!Dir /\ t.writes[to] = k
    <3>0. Engines!ParentOf(to) \in Engines!Places /\ Len(Engines!ParentOf(to)) = 1
        /\ to \in Engines!ChildrenOf(Engines!ParentOf(to)) /\ Engines!ParentOf(to) # to
      BY <1>3, <2>3, Above
    <3>1. Landed2(t, f, b, g)
      BY <1>3, <2>1, <2>3, <3>0, Values DEF Landed2
    <3>2. ASSUME NEW q \in Engines!Places, Len(q) = 2, g[q] # Engines!None PROVE g[Engines!ParentOf(q)] = Engines!Dir
      <4>1. Engines!ParentOf(q) \in Engines!Places /\ Engines!ParentOf(q) # q /\ Len(Engines!ParentOf(q)) = 1
        BY <3>2, Above
      <4>2. CASE q = to
        BY <2>3, <3>0, <4>2
      <4>3. CASE q # to
        <5>1. q \notin DOMAIN t.writes /\ f[q] # Engines!None
          BY <2>3, <3>0, <3>2, <4>3
        <5>2. f[Engines!ParentOf(q)] = Engines!Dir
          BY <3>2, <5>1 DEF ClosedTree
        <5>3. Engines!ParentOf(q) # to
          BY <1>3, <5>2, Values
        <5> QED BY <2>3, <3>0, <4>1, <5>2, <5>3
      <4> QED BY <4>2, <4>3
    <3> QED BY <3>1, <3>2 DEF ClosedTree
  <2> QED BY <1>3, <1>4, <2>2, <2>3 DEF Landed
<1>5. ASSUME NEW q \in Engines!ChildrenOf(t.root), NEW c \in Engines!ChildrenOf(to), NEW m \in Numbers,
             t.taken = {Entry(t.root, Engines!Dir), Entry(q, m)},
             DOMAIN t.writes = {to, c}, t.writes[to] = Engines!Dir, t.writes[c] = m
      PROVE  Landed2(t, f, b, g) /\ ClosedTree(g)
  <2>1. \E x \in b : x.batch = t.batch /\ x.row = m
    BY <1>2, <1>5
  <2>2. Landed2(t, f, b, g)
    BY <1>3, <1>5, <1>9, <2>1, Values DEF Landed2
  <2>3. ASSUME NEW w \in Engines!Places, Len(w) = 2, g[w] # Engines!None PROVE g[Engines!ParentOf(w)] = Engines!Dir
    <3>1. Engines!ParentOf(w) \in Engines!Places /\ Engines!ParentOf(w) # w /\ Len(Engines!ParentOf(w)) = 1
      BY <2>3, Above
    <3>2. CASE w = c
      BY <1>3, <1>5, <1>9, <3>2
    <3>3. CASE w # c
      <4>1. w \notin DOMAIN t.writes /\ f[w] # Engines!None
        BY <1>5, <1>9, <2>3, <3>3
      <4>2. f[Engines!ParentOf(w)] = Engines!Dir
        BY <2>3, <4>1 DEF ClosedTree
      <4>3. Engines!ParentOf(w) # to /\ Engines!ParentOf(w) # c
        BY <1>3, <1>5, <1>9, <4>2, Values
      <4> QED BY <1>5, <3>1, <4>2, <4>3
    <3> QED BY <3>2, <3>3
  <2> QED BY <2>2, <2>3 DEF ClosedTree
<1> QED BY <1>1, <1>3, <1>4, <1>5

LEMMA WholeRestored ==
  ASSUME NEW t, NEW f, NEW b, NEW g, NEW c, ClosedTree(f), OncePerKey(f, b), Restored(t, f, b, "sqlite"),
         \A p \in Engines!Places : g[p] = IF p \in DOMAIN t.writes THEN t.writes[p] ELSE f[p],
         c = {x \in b : x.batch \notin t.emptied}
  PROVE  Whole(t, f, b, g, c)
<1>1. /\ \A q \in DOMAIN t.writes : q \in Engines!Places /\ (t.writes[q] = Engines!Dir \/ \E x \in b : x.batch = t.batch
             /\ x.row = t.writes[q])
      /\ \A q, w \in DOMAIN t.writes : t.writes[q] \in Engines!BlobKeys /\ t.writes[w] \in Engines!BlobKeys => q = w
      /\ \A q \in DOMAIN t.writes : g[q] = t.writes[q]
      /\ ClosedTree(g) /\ \A q \in Engines!Places : q \notin DOMAIN t.writes => g[q] = f[q]
  BY LandedIs DEF Landed2
<1>2. t.op = "restore" /\ t.drops = {} /\ \A x \in c : x \in b /\ x.batch # t.batch
  BY DEF Restored
<1>3. /\ \A q \in Engines!Places, x \in b : f[q] \in Engines!BlobKeys => f[q] # x.row
      /\ \A q, w \in Engines!Places : f[q] \in Engines!BlobKeys /\ f[q] = f[w] => q = w
      /\ \A x, y \in b : x.row \in Engines!BlobKeys /\ x.row = y.row => x = y
  BY OnceIs
<1>4. OncePerKey(g, c)
  <2>1. ASSUME NEW q \in Engines!Places, NEW x \in c, g[q] \in Engines!BlobKeys PROVE g[q] # x.row
    <3>1. CASE q \in DOMAIN t.writes
      <4>1. PICK y \in b : y.batch = t.batch /\ y.row = g[q]
        BY <1>1, <2>1, <3>1, Values
      <4>2. x \in b /\ x # y
        BY <1>2, <4>1
      <4> QED BY <1>3, <2>1, <4>1, <4>2
    <3>2. CASE q \notin DOMAIN t.writes
      BY <1>1, <1>2, <1>3, <2>1, <3>2
    <3> QED BY <3>1, <3>2
  <2>2. ASSUME NEW q \in Engines!Places, NEW w \in Engines!Places, g[q] \in Engines!BlobKeys, g[q] = g[w] PROVE q = w
    <3>1. CASE q \in DOMAIN t.writes /\ w \in DOMAIN t.writes
      BY <1>1, <2>2, <3>1
    <3>2. ASSUME NEW u \in DOMAIN t.writes, NEW v \in Engines!Places, v \notin DOMAIN t.writes, g[u] \in Engines!BlobKeys,
        g[u] = g[v] PROVE FALSE
      <4>1. PICK y \in b : y.batch = t.batch /\ y.row = g[u]
        BY <1>1, <3>2, Values
      <4>2. g[v] = f[v]
        BY <1>1, <3>2
      <4> QED BY <1>3, <3>2, <4>1, <4>2
    <3>3. CASE q \notin DOMAIN t.writes /\ w \notin DOMAIN t.writes
      BY <1>1, <1>3, <2>2, <3>3
    <3>4. ~(q \in DOMAIN t.writes /\ w \notin DOMAIN t.writes)
      BY <2>2, <3>2
    <3>5. ~(w \in DOMAIN t.writes /\ q \notin DOMAIN t.writes)
      BY <2>2, <3>2
    <3> QED BY <3>1, <3>3, <3>4, <3>5
  <2>3. \A x, y \in c : x.row \in Engines!BlobKeys /\ x.row = y.row => x = y
    BY <1>2, <1>3
  <2> QED BY <2>1, <2>2, <2>3, OnceIs
<1>5. UsedIn(g, c) \subseteq UsedIn(f, b) \cup {Engines!Dir}
  <2>1. \A q \in Engines!Places : g[q] = Engines!Dir \/ g[q] = f[q] \/ \E x \in b : x.row = g[q]
    BY <1>1
  <2> QED BY <1>2, <2>1 DEF UsedIn
<1> QED BY <1>1, <1>2, <1>4, <1>5 DEF Whole

-----------------------------------------------------------------------------
(* SQLite: each kind of step keeps the accounts.                            *)

LEMMA WholeIs ==
  ASSUME TransactionsInv, engine = "sqlite", NEW r \in Workers, Engines!Commit(r), NEW t, t = tx[r]
  PROVE  Whole(t, rows, bin, rows', bin')
<1>1. /\ Engines!Open(r) /\ IsTransaction(t) /\ Doing(t, rows, bin, "sqlite") /\ t.plan = <<>>
      /\ \A p \in Engines!Places : rows'[p] = IF p \in DOMAIN t.writes THEN t.writes[p] ELSE rows[p]
      /\ t.op = "remove" => bin' = bin \cup Sent(t)
      /\ t.op # "remove" => bin' = Left(t)
  BY TablesAfter
<1>2. ClosedTree(rows) /\ OncePerKey(rows, bin) /\ t.key \notin UsedIn(rows, bin) /\ t.batch \in Ids
  <2>1. ClosedTree(rows)
    BY DEF TransactionsInv, Serial, Engines!TreeClosed, ClosedTree
  <2>2. OncePerKey(rows, bin)
    BY DEF TransactionsInv, Serial, Engines!OneRowPerBlob, Engines!Live, Engines!Deleted, OncePerKey, LiveIn, DeletedIn
  <2>3. tx[r] # Engines!Idle /\ tx[r].at # "committed"
    BY <1>1, OpenIs DEF TransactionsInv
  <2>4. t.key \notin UsedIn(rows, bin)
    BY <2>3 DEF TransactionsInv, Serial, Accounts, Used
  <2> QED BY <1>1, <2>1, <2>2, <2>4, FieldsAre
<1>3. t.emptied = {} => Left(t) = bin
  BY DEF Left
<1>4. CASE Wrote1(t, rows, "sqlite")
  <2>1. bin' = bin
    BY <1>1, <1>3, <1>4 DEF Wrote1
  <2> QED BY <1>1, <1>2, <1>4, <2>1, WholeWrite
<1>5. CASE Made(t, rows, "sqlite")
  <2>1. bin' = bin
    BY <1>1, <1>3, <1>5 DEF Made
  <2> QED BY <1>1, <1>2, <1>5, <2>1, WholeMade
<1>6. CASE Removed(t, rows, "sqlite")
  <2>1. bin' = bin \cup Sent(t)
    BY <1>1, <1>6 DEF Removed
  <2> QED BY <1>1, <1>2, <1>6, <2>1, WholeRemoved
<1>7. CASE Restored(t, rows, bin, "sqlite")
  <2>1. bin' = {x \in bin : x.batch \notin t.emptied}
    BY <1>1, <1>7 DEF Restored, Left
  <2> QED BY <1>1, <1>2, <1>7, <2>1, WholeRestored
<1>8. CASE Destroyed(t, bin, "sqlite")
  <2>1. bin' = {x \in bin : x.batch \notin t.emptied}
    BY <1>1, <1>8 DEF Destroyed, Left
  <2> QED BY <1>1, <1>2, <1>8, <2>1, WholeDestroyed
<1> QED BY <1>1, <1>4, <1>5, <1>6, <1>7, <1>8, DoneBy

\* What a request means to drop is there, until it commits.
LEMMA DropsAre ==
  ASSUME NEW t, NEW f, NEW b, Doing(t, f, b, "sqlite")
  PROVE  t.drops \subseteq UsedIn(f, b) \cap Engines!BlobKeys
<1>1. CASE Writing(t, f, "sqlite")
  <2>1. PICK p \in Engines!Places : t.drops = {} \/ t.drops = {f[p]} \cap Engines!BlobKeys
    BY <1>1 DEF Writing, Replaced
  <2>2. f[p] \in UsedIn(f, b)
    BY <2>1 DEF UsedIn
  <2> QED BY <2>1, <2>2
<1>2. CASE Making(t, f, "sqlite") \/ Removing(t, f, "sqlite") \/ Restoring(t, f, b, "sqlite")
  BY <1>2 DEF Making, Removing, Restoring
<1>3. CASE Destroying(t, b, "sqlite")
  <2>1. t.drops = {} \/ t.drops = {x.row : x \in {y \in b : y.batch = t.batch}} \cap Engines!BlobKeys
    BY <1>3 DEF Destroying
  <2>2. \A x \in b : x.row \in UsedIn(f, b)
    BY DEF UsedIn
  <2> QED BY <2>1, <2>2
<1> QED BY <1>1, <1>2, <1>3 DEF Doing

\* Live and Deleted are what is used of the keys.
LEMMA KeptIs ==
  /\ Engines!BlobsKept <=> Used \cap Engines!BlobKeys \subseteq blobs
  /\ Engines!BlobsKept' <=> Used' \cap Engines!BlobKeys \subseteq blobs'
  BY DEF Engines!BlobsKept, Engines!Live, Engines!Deleted, Used, UsedIn

LEMMA StartSerial ==
  ASSUME TransactionsInv, NEW r \in Workers, NEW t, Starts(r, t)
  PROVE  Serial'
<1> SUFFICES ASSUME engine' = "sqlite"
             PROVE  /\ \A s, w \in Workers : Engines!Open(s)' /\ Engines!Open(w)' => s = w
                    /\ \A s \in Workers : Engines!Open(s)' => Undisturbed(tx[s])'
                    /\ \A s \in Workers : tx'[s] # Engines!Idle => tx'[s].why # "busy"
                    /\ Engines!TreeClosed' /\ Engines!OneRowPerBlob' /\ Engines!BlobsKept' /\ Accounts'
  BY DEF Serial
<1>1. /\ Types /\ IsTransaction(t) /\ tx' = [tx EXCEPT ![r] = t] /\ engine' = engine /\ rows' = rows /\ bin' = bin
      /\ begun' = begun + 1 /\ begun \in Nat /\ engine = "sqlite" /\ \A s \in Workers : ~Engines!Open(s)
      /\ t.key = begun + 3 /\ t.drops = {} /\ t.why = "" /\ t.at = "open" /\ Undisturbed(t)
      /\ blobs' = blobs \cup (IF t.op = "write" THEN {t.key} ELSE {})
  <2>1. Types /\ begun \in Nat
    BY DEF TransactionsInv, Types
  <2>2. Engines!Key(begun + 1) = begun + 3
    BY <2>1 DEF Engines!Key
  <2> QED BY <2>1, <2>2 DEF Starts
<1>2. tx'[r] = t /\ \A s \in Workers : s # r => tx'[s] = tx[s] /\ Engines!Open(s)' = Engines!Open(s)
  BY <1>1, SlotKept
<1>9. begun \in Nat /\ begun' = begun + 1 /\ t.key = begun + 3
  BY <1>1
<1>3. \A s \in Workers : Engines!Open(s)' => s = r
  BY <1>1, <1>2
<1>4. \A s \in Workers : Engines!Open(s)' => Undisturbed(tx[s])'
  <2>1. t.snapshot = Engines!Snapshot /\ Engines!Snapshot' = Engines!Snapshot
    BY <1>1 DEF Undisturbed, Engines!Snapshot
  <2>2. tx'[r].snapshot = Engines!Snapshot'
    BY <1>2, <2>1
  <2> QED BY <1>3, <2>2 DEF Undisturbed
<1>5. \A s \in Workers : tx'[s] # Engines!Idle => tx'[s].why # "busy"
  BY <1>1, <1>2 DEF TransactionsInv, Serial
<1>6. Engines!TreeClosed' /\ Engines!OneRowPerBlob' /\ Used' = Used
  BY <1>1 DEF TransactionsInv, Serial, Engines!TreeClosed, Engines!OneRowPerBlob, Engines!Live, Engines!Deleted, Used
<1>7. Engines!BlobsKept'
  BY <1>1, <1>6, KeptIs DEF TransactionsInv, Serial
<1>8. Accounts'
  <2>0. Accounts
    BY <1>1 DEF TransactionsInv, Serial
  <2>1. \A k \in Used' : k <= begun' + 2
    <3>1. ASSUME NEW k \in Used PROVE k <= begun' + 2
      <4>1. k \in Nat
        BY <1>1 DEF Used, UsedIn, Types, TrashRows, Numbers
      <4>2. k <= begun + 2
        BY <2>0 DEF Accounts
      <4> QED BY <1>9, <4>1, <4>2
    <3> QED BY <1>6, <3>1
  <2>2. \A s \in Workers : tx'[s] # Engines!Idle /\ tx'[s].at # "committed" => tx'[s].key \notin Used'
    <3>0. \A k \in Used : k <= begun + 2
      BY <2>0 DEF Accounts
    <3>1. t.key \notin Used
      BY <1>9, <3>0
    <3> QED BY <1>2, <1>6, <2>0, <3>1 DEF Accounts
  <2>3. \A s \in Workers : tx'[s] # Engines!Idle /\ tx'[s].at = "committed" => tx'[s].drops \cap Used' = {}
    BY <1>1, <1>2, <1>6, <2>0 DEF Accounts
  <2>4. \A s \in Workers : tx'[s] # Engines!Idle => \A k \in tx'[s].drops : k \in Engines!BlobKeys /\ k <= begun' + 2
    <3>1. ASSUME NEW s \in Workers, s # r, tx[s] # Engines!Idle, NEW k \in tx[s].drops PROVE k \in Engines!BlobKeys
        /\ k <= begun' + 2
      <4>1. k \in Nat
        BY <1>1, <3>1, OpenIs, FieldsAre
      <4>2. k \in Engines!BlobKeys /\ k <= begun + 2
        BY <2>0, <3>1 DEF Accounts
      <4> QED BY <1>9, <4>1, <4>2
    <3> QED BY <1>1, <1>2, <3>1
  <2>5. \A s, w \in Workers : tx'[s] # Engines!Idle /\ tx'[w] # Engines!Idle /\ tx'[s].at = "open"
      => tx'[s].key \notin tx'[w].drops
    <3>1. ASSUME NEW w \in Workers, tx'[w] # Engines!Idle PROVE t.key \notin tx'[w].drops
      <4>1. CASE w = r
        BY <1>1, <1>2, <4>1
      <4>2. CASE w # r
        <5>1. \A k \in tx'[w].drops : k <= begun + 2
          BY <1>2, <2>0, <3>1, <4>2 DEF Accounts
        <5> QED BY <1>9, <5>1
      <4> QED BY <4>1, <4>2
    <3>2. ASSUME NEW s \in Workers, s # r, tx'[s] # Engines!Idle PROVE tx'[s].at # "open"
      BY <1>1, <1>2, <3>2, OpenIs
    <3> QED BY <1>2, <3>1, <3>2
  <2>6. \A s \in Workers : Engines!Open(s)' /\ tx'[s].op = "write" => tx'[s].key \in blobs'
    <3>1. t.op = "write" => t.key \in blobs'
      BY <1>1
    <3> QED BY <1>2, <1>3, <3>1
  <2> QED BY <2>1, <2>2, <2>3, <2>4, <2>5, <2>6 DEF Accounts
<1> QED BY <1>3, <1>4, <1>5, <1>6, <1>7, <1>8

LEMMA MoveSerial ==
  ASSUME TransactionsInv, NEW r \in Workers, NEW u, Advances(r, u)
  PROVE  Serial'
<1> SUFFICES ASSUME engine' = "sqlite"
             PROVE  /\ \A s, w \in Workers : Engines!Open(s)' /\ Engines!Open(w)' => s = w
                    /\ \A s \in Workers : Engines!Open(s)' => Undisturbed(tx[s])'
                    /\ \A s \in Workers : tx'[s] # Engines!Idle => tx'[s].why # "busy"
                    /\ Engines!TreeClosed' /\ Engines!OneRowPerBlob' /\ Engines!BlobsKept' /\ Accounts'
  BY DEF Serial
<1>1. /\ Types /\ Engines!Open(r) /\ tx[r] # Engines!Idle /\ tx[r].at = "open" /\ tx' = [tx EXCEPT ![r] = u]
             /\ engine = "sqlite"
      /\ engine' = engine /\ rows' = rows /\ bin' = bin /\ begun' = begun /\ blobs' = blobs
      /\ Fails(tx[r], u) \/ (GoesOn(tx[r], u) /\ Doing(u, rows, bin, engine))
  BY OpenIs DEF TransactionsInv, Advances
<1>9. Serial /\ Accounts
  BY <1>1 DEF TransactionsInv, Serial
<1>2. IsTransaction(u) /\ SameRequest(tx[r], u) /\ u.at # "committed"
  BY <1>1 DEF Fails, GoesOn
<1>3. /\ tx'[r] = u /\ \A s \in Workers : s # r => tx'[s] = tx[s] /\ Engines!Open(s)' = Engines!Open(s)
  BY <1>1, <1>2, SlotKept
<1>4. \A s \in Workers : Engines!Open(s)' => Engines!Open(s)
  BY <1>1, <1>3
<1>5. \A s \in Workers : Engines!Open(s)' => Undisturbed(tx[s])'
  <2>1. ASSUME NEW s \in Workers, Engines!Open(s)' PROVE tx'[s].snapshot = tx[s].snapshot
    BY <1>2, <1>3 DEF SameRequest
  <2> QED BY <1>1, <1>4, <1>9, <2>1 DEF Serial, Undisturbed, Engines!Snapshot
<1>6. \A s \in Workers : tx'[s] # Engines!Idle => tx'[s].why # "busy"
  <2>1. u.why # "busy"
    BY <1>1, <1>9 DEF Serial, Fails, GoesOn
  <2> QED BY <1>1, <1>3, <1>9, <2>1 DEF Serial
<1>7. Engines!TreeClosed' /\ Engines!OneRowPerBlob' /\ Engines!BlobsKept' /\ Used' = Used
  BY <1>1, <1>9 DEF Serial, Engines!TreeClosed, Engines!OneRowPerBlob, Engines!BlobsKept, Engines!Live, Engines!Deleted,
      Used
<1>8. Accounts'
  <2>1. u.drops \subseteq Used \cap Engines!BlobKeys
    <3>1. CASE Fails(tx[r], u)
      <4>1. Doing(tx[r], rows, bin, "sqlite")
        BY <1>1 DEF TransactionsInv, Courses
      <4>2. tx[r].drops \subseteq UsedIn(rows, bin) \cap Engines!BlobKeys
        BY <4>1, DropsAre
      <4> QED BY <3>1, <4>2 DEF Fails, Used
    <3>2. CASE Doing(u, rows, bin, engine)
      BY <1>1, <3>2, DropsAre DEF Used
    <3> QED BY <1>1, <3>1, <3>2
  <2>2. u.key = tx[r].key /\ u.op = tx[r].op /\ tx[r].key \notin Used
    BY <1>1, <1>2, <1>9 DEF SameRequest, Accounts
  <2>3. \A s \in Workers : tx'[s] # Engines!Idle /\ tx'[s].at # "committed" => tx'[s].key \notin Used'
    BY <1>3, <1>7, <1>9, <2>2 DEF Accounts
  <2>4. \A s \in Workers : tx'[s] # Engines!Idle /\ tx'[s].at = "committed" => tx'[s].drops \cap Used' = {}
    BY <1>2, <1>3, <1>7, <1>9 DEF Accounts
  <2>5. \A s \in Workers : tx'[s] # Engines!Idle => \A k \in tx'[s].drops : k \in Engines!BlobKeys /\ k <= begun' + 2
    BY <1>1, <1>3, <1>9, <2>1 DEF Accounts
  <2>6. \A s, w \in Workers : tx'[s] # Engines!Idle /\ tx'[w] # Engines!Idle /\ tx'[s].at = "open"
      => tx'[s].key \notin tx'[w].drops
    <3>1. ASSUME NEW s \in Workers, tx'[s] # Engines!Idle, tx'[s].at = "open" PROVE s = r /\ tx'[s].key = tx[r].key
      <4>1. s = r
        BY <1>1, <1>3, <1>9, <3>1, OpenIs DEF Serial
      <4> QED BY <1>3, <2>2, <4>1
    <3>2. ASSUME NEW w \in Workers, tx'[w] # Engines!Idle PROVE tx[r].key \notin tx'[w].drops
      <4>1. CASE w = r
        BY <1>3, <2>1, <2>2, <4>1
      <4>2. CASE w # r
        BY <1>1, <1>3, <1>9, <3>2, <4>2 DEF Accounts
      <4> QED BY <4>1, <4>2
    <3> QED BY <3>1, <3>2
  <2>7. \A s \in Workers : Engines!Open(s)' /\ tx'[s].op = "write" => tx'[s].key \in blobs'
    BY <1>1, <1>3, <1>4, <1>9, <2>2 DEF Accounts
  <2>8. \A k \in Used' : k <= begun' + 2
    BY <1>1, <1>7, <1>9 DEF Accounts
  <2> QED BY <2>3, <2>4, <2>5, <2>6, <2>7, <2>8 DEF Accounts
<1>10. \A s, w \in Workers : Engines!Open(s)' /\ Engines!Open(w)' => s = w
  BY <1>1, <1>4, <1>9 DEF Serial
<1> QED BY <1>5, <1>6, <1>7, <1>8, <1>10

\* The slot of a transaction that has committed, and the accounts.
LEMMA CommitSerial ==
  ASSUME TransactionsInv, NEW r \in Workers, Engines!Commit(r)
  PROVE  Serial'
<1> SUFFICES ASSUME engine' = "sqlite"
             PROVE  /\ \A s, w \in Workers : Engines!Open(s)' /\ Engines!Open(w)' => s = w
                    /\ \A s \in Workers : Engines!Open(s)' => Undisturbed(tx[s])'
                    /\ \A s \in Workers : tx'[s] # Engines!Idle => tx'[s].why # "busy"
                    /\ Engines!TreeClosed' /\ Engines!OneRowPerBlob' /\ Engines!BlobsKept' /\ Accounts'
  BY DEF Serial
<1>0. PICK t : t = tx[r]
  OBVIOUS
<1>1. /\ Types /\ Engines!Open(r) /\ IsTransaction(t) /\ t.at = "open" /\ t # Engines!Idle /\ engine = "sqlite"
      /\ blobs' = blobs /\ begun' = begun /\ begun \in Nat
  <2>1. Types /\ begun \in Nat
    BY DEF TransactionsInv, Types
  <2>2. Engines!Open(r) /\ IsTransaction(t) /\ t.at = "open" /\ engine' = engine /\ blobs' = blobs /\ begun' = begun
    BY <1>0, TablesAfter
  <2> QED BY <1>0, <2>1, <2>2, OpenIs
<1>2. PICK u : /\ tx' = [tx EXCEPT ![r] = u] /\ IsTransaction(u) /\ SameRequest(t, u) /\ u.at = "committed"
               /\ u.drops = t.drops /\ u.why = t.why
  BY <1>0, CommitSlot
<1>3. Serial /\ Accounts
  BY <1>1 DEF TransactionsInv, Serial
<1>4. /\ tx'[r] = u /\ (\A s \in Workers : s # r => tx'[s] = tx[s] /\ Engines!Open(s)' = Engines!Open(s))
             /\ ~Engines!Open(r)'
  BY <1>1, <1>2, SlotKept
<1>5. \A s \in Workers : ~Engines!Open(s)'
  BY <1>1, <1>3, <1>4 DEF Serial
<1>6. /\ ClosedTree(rows') /\ OncePerKey(rows', bin') /\ t.drops \cap UsedIn(rows', bin') = {}
      /\ UsedIn(rows', bin') \subseteq UsedIn(rows, bin) \cup {Engines!None,
             Engines!Dir} \cup (IF t.op = "write" THEN {t.key} ELSE {})
  BY <1>0, <1>1, WholeIs DEF Whole
<1>7. Engines!TreeClosed' /\ Engines!OneRowPerBlob'
  BY <1>6 DEF Engines!TreeClosed, ClosedTree, Engines!OneRowPerBlob, Engines!Live, Engines!Deleted, OncePerKey, LiveIn,
      DeletedIn
<1>8. /\ Used' \subseteq Used \cup {Engines!None, Engines!Dir} \cup (IF t.op = "write" THEN {t.key} ELSE {})
             /\ t.drops \cap Used' = {}
  BY <1>6 DEF Used
<1>9. Engines!BlobsKept'
  <2>1. Used \cap Engines!BlobKeys \subseteq blobs
    BY <1>1, <1>3, KeptIs DEF Serial
  <2>2. t.op = "write" => t.key \in blobs
    BY <1>0, <1>1, <1>3 DEF Accounts
  <2> QED BY <1>1, <1>8, <2>1, <2>2, Values, KeptIs
<1>10. \A s \in Workers : tx'[s] # Engines!Idle => tx'[s].why # "busy"
  BY <1>0, <1>1, <1>2, <1>3, <1>4 DEF Serial
<1>11. Accounts'
  <2>1. \A s \in Workers : tx[s] # Engines!Idle => tx[s].key # Engines!None /\ tx[s].key # Engines!Dir
      /\ tx[s].key <= begun + 2
    <3>1. ASSUME NEW s \in Workers, tx[s] # Engines!Idle PROVE tx[s].key # Engines!None /\ tx[s].key # Engines!Dir
        /\ tx[s].key <= begun + 2
      <4>1. PICK n \in 1..begun : tx[s].key = Engines!Key(n)
        BY <3>1 DEF TransactionsInv, KeysAreOwn
      <4> QED BY <1>1, <4>1 DEF Engines!Key, Engines!None, Engines!Dir
    <3> QED BY <3>1
  <2>2. \A k \in Used' : k <= begun' + 2
    <3>1. \A k \in Used : k <= begun + 2
      BY <1>3 DEF Accounts
    <3>2. t.key <= begun + 2
      BY <1>0, <1>1, <2>1
    <3>3. Engines!None <= begun + 2 /\ Engines!Dir <= begun + 2
      BY <1>1 DEF Engines!None, Engines!Dir
    <3>4. \A k \in Used' : k \in Used \/ k = Engines!None \/ k = Engines!Dir \/ k = t.key
      BY <1>8
    <3>5. \A k \in Used' : k <= begun + 2
      BY <3>1, <3>2, <3>3, <3>4
    <3> QED BY <1>1, <3>5
  <2>3. \A s \in Workers : tx'[s] # Engines!Idle /\ tx'[s].at # "committed" => tx'[s].key \notin Used'
    <3>1. ASSUME NEW s \in Workers, tx'[s] # Engines!Idle, tx'[s].at # "committed" PROVE tx'[s].key \notin Used'
      <4>1. s # r /\ tx'[s] = tx[s]
        BY <1>2, <1>4, <3>1
      <4>2. tx[s].key \notin Used
        BY <1>3, <3>1, <4>1 DEF Accounts
      <4>3. tx[s].key # t.key
        BY <1>0, <1>1, <3>1, <4>1 DEF TransactionsInv, KeysAreOwn
      <4>4. tx[s].key # Engines!None /\ tx[s].key # Engines!Dir
        BY <2>1, <3>1, <4>1
      <4> QED BY <1>8, <4>1, <4>2, <4>3, <4>4
    <3> QED BY <3>1
  <2>4. \A s \in Workers : tx'[s] # Engines!Idle /\ tx'[s].at = "committed" => tx'[s].drops \cap Used' = {}
    <3>1. ASSUME NEW s \in Workers, s # r, tx'[s] # Engines!Idle, tx'[s].at = "committed" PROVE tx'[s].drops \cap Used' = {}
      <4>1. tx'[s] = tx[s] /\ tx[s].drops \cap Used = {} /\ \A k \in tx[s].drops : k \in Engines!BlobKeys
        BY <1>3, <1>4, <3>1 DEF Accounts
      <4>2. t.key \notin tx[s].drops
        BY <1>0, <1>1, <1>3, <3>1, <4>1 DEF Accounts
      <4> QED BY <1>8, <4>1, <4>2, Values
    <3> QED BY <1>2, <1>4, <1>8, <3>1
  <2>5. \A s \in Workers : tx'[s] # Engines!Idle => \A k \in tx'[s].drops : k \in Engines!BlobKeys /\ k <= begun' + 2
    BY <1>0, <1>1, <1>2, <1>3, <1>4 DEF Accounts
  <2>6. \A s \in Workers : tx'[s] # Engines!Idle => tx'[s].at # "open"
    <3>1. ASSUME NEW s \in Workers, s # r, tx'[s] # Engines!Idle PROVE tx'[s].at # "open"
      BY <1>1, <1>4, <1>5, <3>1, OpenIs
    <3> QED BY <1>2, <1>4, <3>1
  <2> QED BY <1>5, <2>2, <2>3, <2>4, <2>5, <2>6 DEF Accounts
<1> QED BY <1>5, <1>7, <1>9, <1>10, <1>11

LEMMA EndSerial ==
  ASSUME TransactionsInv, NEW r \in Workers, Engines!End(r)
  PROVE  Serial'
<1> SUFFICES ASSUME engine' = "sqlite"
             PROVE  /\ \A s, w \in Workers : Engines!Open(s)' /\ Engines!Open(w)' => s = w
                    /\ \A s \in Workers : Engines!Open(s)' => Undisturbed(tx[s])'
                    /\ \A s \in Workers : tx'[s] # Engines!Idle => tx'[s].why # "busy"
                    /\ Engines!TreeClosed' /\ Engines!OneRowPerBlob' /\ Engines!BlobsKept' /\ Accounts'
  BY DEF Serial
<1>0. PICK d : d = IF tx[r].at = "committed" THEN tx[r].drops ELSE {tx[r].key}
  OBVIOUS
<1>1. /\ Types /\ tx[r] # Engines!Idle /\ ~Engines!Open(r) /\ tx' = [tx EXCEPT ![r] = Engines!Idle] /\ blobs' = blobs \ d
      /\ engine = "sqlite" /\ engine' = engine /\ rows' = rows /\ bin' = bin /\ begun' = begun
      /\ tx[r].at \in {"committed", "failed"}
  BY <1>0, EndingIs DEF TransactionsInv
<1>2. Serial /\ Accounts
  BY <1>1 DEF TransactionsInv, Serial
<1>3. /\ tx'[r] = Engines!Idle /\ \A s \in Workers : s # r => tx'[s] = tx[s] /\ Engines!Open(s)' = Engines!Open(s)
      /\ ~Engines!Open(r)'
  BY <1>1, SlotKept
<1>4. \A s \in Workers : tx'[s] # Engines!Idle => s # r /\ tx'[s] = tx[s]
  BY <1>3
<1>5. \A s \in Workers : Engines!Open(s)' => s # r /\ Engines!Open(s) /\ tx'[s] = tx[s] /\ tx[s] # Engines!Idle
  <2>1. \A s \in Workers : Engines!Open(s) => tx[s] # Engines!Idle
    BY <1>1, OpenIs
  <2> QED BY <1>3, <2>1
<1>6. d \cap Used = {}
  BY <1>0, <1>1, <1>2 DEF Accounts
<1>7. Engines!TreeClosed' /\ Engines!OneRowPerBlob' /\ Used' = Used
  BY <1>1, <1>2 DEF Serial, Engines!TreeClosed, Engines!OneRowPerBlob, Engines!Live, Engines!Deleted, Used
<1>8. Engines!BlobsKept'
  BY <1>1, <1>2, <1>6, <1>7, KeptIs DEF Serial
<1>9. \A s \in Workers : Engines!Open(s)' => Undisturbed(tx[s])'
  BY <1>1, <1>2, <1>5 DEF Serial, Undisturbed, Engines!Snapshot
<1>10. Accounts'
  <2>1. \A s \in Workers : Engines!Open(s)' /\ tx'[s].op = "write" => tx'[s].key \in blobs'
    <3>1. ASSUME NEW s \in Workers, Engines!Open(s)', tx'[s].op = "write" PROVE tx'[s].key \in blobs'
      <4>1. s # r /\ Engines!Open(s) /\ tx'[s] = tx[s] /\ tx[s] # Engines!Idle
        BY <1>5, <3>1
      <4>2. tx[s].key \in blobs
        BY <1>2, <3>1, <4>1 DEF Accounts
      <4>3. tx[s].key # tx[r].key
        BY <1>1, <4>1 DEF TransactionsInv, KeysAreOwn
      <4>4. tx[s].at = "open"
        BY <1>1, <4>1, OpenIs
      <4>5. tx[s].key \notin tx[r].drops
        BY <1>1, <1>2, <4>1, <4>4 DEF Accounts
      <4> QED BY <1>0, <1>1, <4>1, <4>2, <4>3, <4>5
    <3> QED BY <3>1
  <2>2. \A k \in Used' : k <= begun' + 2
    BY <1>1, <1>2, <1>7 DEF Accounts
  <2>3. \A s \in Workers : tx'[s] # Engines!Idle /\ tx'[s].at # "committed" => tx'[s].key \notin Used'
    BY <1>2, <1>4, <1>7 DEF Accounts
  <2>4. \A s \in Workers : tx'[s] # Engines!Idle /\ tx'[s].at = "committed" => tx'[s].drops \cap Used' = {}
    BY <1>2, <1>4, <1>7 DEF Accounts
  <2>5. \A s \in Workers : tx'[s] # Engines!Idle => \A k \in tx'[s].drops : k \in Engines!BlobKeys /\ k <= begun' + 2
    BY <1>1, <1>2, <1>4 DEF Accounts
  <2>6. \A s, w \in Workers : tx'[s] # Engines!Idle /\ tx'[w] # Engines!Idle /\ tx'[s].at = "open"
      => tx'[s].key \notin tx'[w].drops
    BY <1>2, <1>4 DEF Accounts
  <2> QED BY <2>1, <2>2, <2>3, <2>4, <2>5, <2>6 DEF Accounts
<1>11. \A s, w \in Workers : Engines!Open(s)' /\ Engines!Open(w)' => s = w
  BY <1>1, <1>2, <1>5 DEF Serial
<1>12. \A s \in Workers : tx'[s] # Engines!Idle => tx'[s].why # "busy"
  BY <1>1, <1>2, <1>4 DEF Serial
<1> QED BY <1>7, <1>8, <1>9, <1>10, <1>11, <1>12

LEMMA TransactionsInit == Engines!Init => TransactionsInv
<1> SUFFICES ASSUME Engines!Init PROVE TransactionsInv
  OBVIOUS
<1>1. /\ engine \in {"sqlite", "mysql", "postgres"} /\ blobs = {2} /\ bin = {} /\ begun = 0
      /\ tx = [r \in Workers |-> Engines!Idle]
             /\ rows = [p \in Engines!Places |-> IF p = Top THEN 1 ELSE IF p = File THEN 2 ELSE 0]
  BY DEF Engines!Init, Engines!Key, Engines!None, Engines!Dir, Top, File
<1>2. /\ rows \in [Engines!Places -> Nat] /\ \A p \in Engines!Places : rows[p] \in {0, 1, 2} /\ (rows[p] = 2 => p = File)
      /\ rows[Top] = 1 /\ \A p \in Engines!Places : Len(p) = 2 /\ rows[p] # 0 => p = File
  BY <1>1, ThePlaces
<1>3. \A r \in Workers : tx[r] = Engines!Idle /\ ~Engines!Open(r) /\ Engines!Held(r) = {}
  BY <1>1 DEF Engines!Open, Engines!Held, Engines!Idle
<1>4. Types
  BY <1>1, <1>2 DEF Types, Families
<1>5. Courses /\ Exclusive /\ KeysAreOwn
  BY <1>1, <1>3 DEF Courses, Exclusive, KeysAreOwn
<1>6. \A k \in Engines!BlobKeys : k >= 2
  BY DEF Engines!BlobKeys, Engines!Key
<1>7. Engines!TreeClosed
  BY <1>2, ThePlaces, TheParents DEF Engines!TreeClosed, Engines!None, Engines!Dir
<1>8. Engines!OneRowPerBlob
  <2>1. Engines!Live \subseteq {2} /\ Engines!Deleted = {}
    BY <1>1, <1>2, <1>6 DEF Engines!Live, Engines!Deleted
  <2>2. \A p, q \in Engines!Places : rows[p] \in Engines!BlobKeys /\ rows[p] = rows[q] => p = q
    BY <1>2, <1>6
  <2> QED BY <1>1, <2>1, <2>2 DEF Engines!OneRowPerBlob
<1>9. Used \subseteq {0, 1, 2} /\ Used \cap Engines!BlobKeys \subseteq {2}
  BY <1>1, <1>2, <1>6 DEF Used, UsedIn
<1>10. Engines!BlobsKept
  BY <1>1, <1>9, KeptIs
<1>11. Accounts
  BY <1>1, <1>3, <1>9 DEF Accounts
<1> QED BY <1>3, <1>4, <1>5, <1>7, <1>8, <1>10, <1>11 DEF TransactionsInv, Serial

LEMMA TransactionsIdle == TransactionsInv /\ UNCHANGED Engines!evars => TransactionsInv'
<1> SUFFICES ASSUME TransactionsInv, UNCHANGED Engines!evars PROVE TransactionsInv'
  OBVIOUS
<1>1. engine' = engine /\ rows' = rows /\ bin' = bin /\ blobs' = blobs /\ tx' = tx /\ begun' = begun
  BY DEF Engines!evars
<1>2. Types' /\ Courses' /\ KeysAreOwn'
  BY <1>1 DEF TransactionsInv, Types, Courses, KeysAreOwn, Engines!Open
<1>3. Exclusive'
  BY <1>1 DEF TransactionsInv, Exclusive, Engines!Held, Engines!Open
<1>4. Serial'
  BY <1>1 DEF TransactionsInv, Serial, Engines!Open, Undisturbed, Engines!Snapshot, Engines!TreeClosed,
      Engines!OneRowPerBlob, Engines!BlobsKept, Engines!Live, Engines!Deleted, Accounts, Used
<1> QED BY <1>2, <1>3, <1>4 DEF TransactionsInv

LEMMA TransactionsNext == TransactionsInv /\ [Engines!Next]_(Engines!evars) => TransactionsInv'
<1> SUFFICES ASSUME TransactionsInv, [Engines!Next]_(Engines!evars) PROVE TransactionsInv'
  OBVIOUS
<1>1. ASSUME NEW r \in Workers, Engines!Request(r) PROVE TransactionsInv'
  <2>1. ASSUME NEW t, Starts(r, t) PROVE TransactionsInv'
    BY <2>1, StartKeeps, StartSerial DEF TransactionsInv
  <2>2. ASSUME NEW u, Advances(r, u) PROVE TransactionsInv'
    BY <2>2, MoveKeeps, MoveSerial DEF TransactionsInv
  <2>3. CASE Engines!Commit(r)
    BY <2>3, CommitKeeps, CommitSerial DEF TransactionsInv
  <2>4. CASE Engines!End(r)
    BY <2>4, EndKeeps, EndSerial DEF TransactionsInv
  <2> QED BY <1>1, <2>1, <2>2, <2>3, <2>4, RequestIs
<1> QED BY <1>1, TransactionsIdle DEF Engines!Next

-----------------------------------------------------------------------------
(* What a transaction that has a statement to make holds, and what it asks  *)
(* for: a removal the child for its parent, a restore the folder for what   *)
(* goes into it.                                                            *)

HoldsAndAsks(H, L, f) ==
  \/ H = {}
  \/ \E p \in Engines!Places : \E q \in Engines!ChildrenOf(p) : H = {q} /\ L \subseteq {p, q} /\ f[q] # Engines!None
  \/ \E h \in Engines!Places : \E w \in Engines!ChildrenOf(h) : H = {h} /\ L = {w} /\ f[h] # Engines!Dir
  \/ H \subseteq Engines!Places /\ L \cap Engines!Places = {}

LEMMA LocksAre ==
  ASSUME NEW t, t.batch \in Ids
  PROVE  /\ \A p : Engines!Locks(t, Engines!Statement("delete",
                p)) = {p} \cup (IF engine = "mysql" THEN Engines!ChildrenOf(p) ELSE {})
         /\ \A p, k : Engines!Locks(t, Back(p, k)) = {p}
         /\ Engines!Locks(t, Plain("empty")) \cap Engines!Places = {} /\ Engines!Locks(t, Plain("rows")) = {}
<1>1. t.batch \notin Engines!Places
  BY BatchesAre DEF Ids
<1> QED BY <1>1 DEF Engines!Locks, Engines!Writes, Engines!Statement, Back, Plain

LEMMA AsksFor ==
  ASSUME Types, NEW t, IsTransaction(t), Doing(t, rows, bin, engine), t.plan # <<>>
  PROVE  HoldsAndAsks(Holding(t), Engines!Locks(t, Head(t.plan)), rows)
<1>1. ASSUME Bare(t) PROVE HoldsAndAsks(Holding(t), Engines!Locks(t, Head(t.plan)), rows)
  <2>1. Holding(t) = {}
    BY <1>1 DEF Bare, Holding
  <2> QED BY <2>1 DEF HoldsAndAsks
<1>2. t.batch \in Ids /\ t.writes \in Drafts
  BY FieldsAre
<1>3. CASE Writing(t, rows, engine)
  <2>1. Bare(t)
    BY <1>3 DEF Writing, Bare
  <2> QED BY <1>1, <2>1
<1>4. CASE Making(t, rows, engine)
  <2>1. Bare(t)
    BY <1>4 DEF Making, Bare
  <2> QED BY <1>1, <2>1
<1>5. CASE Destroying(t, bin, engine)
  <2>1. Bare(t)
    BY <1>5 DEF Destroying, Bare
  <2> QED BY <1>1, <2>1
<1>6. CASE Removing(t, rows, engine)
  <2>1. Bare(t) \/ \E p \in Engines!Places : \E q \in Engines!ChildrenOf(p) :
          t.plan = <<Engines!Statement("delete", p)>> /\ DOMAIN t.writes = {q} /\ rows[q] # Engines!None
    BY <1>6 DEF Removing
  <2>2. ASSUME NEW p \in Engines!Places, NEW q \in Engines!ChildrenOf(p),
               t.plan = <<Engines!Statement("delete", p)>>, DOMAIN t.writes = {q}, rows[q] # Engines!None
        PROVE  HoldsAndAsks(Holding(t), Engines!Locks(t, Head(t.plan)), rows)
    <3>1. Engines!ChildrenOf(p) = {q} /\ Engines!ChildrenOf(q) = {}
      BY <2>2, Above
    <3>2. t.looked \subseteq {q} /\ t.emptied = {}
      BY <1>6, <2>2 DEF Removing
    <3>3. UNION {Engines!ChildrenOf(w) : w \in t.looked} = {}
      BY <3>1, <3>2
    <3>4. Holding(t) = {q}
      BY <2>2, <3>2, <3>3 DEF Holding
    <3>5. Head(t.plan) = Engines!Statement("delete", p)
      BY <2>2, Plans
    <3>6. Engines!Locks(t, Head(t.plan)) \subseteq {p, q}
      BY <1>2, <3>1, <3>5, LocksAre
    <3> QED BY <2>2, <3>4, <3>6 DEF HoldsAndAsks
  <2> QED BY <1>1, <2>1, <2>2
<1>7. CASE Restoring(t, rows, bin, engine)
  <2>1. t.looked = {} /\ \A p \in DOMAIN t.writes : rows[p] # Engines!Dir
    BY <1>7 DEF Restoring
  <2>2. Bare(t) \/ (t.to \in Engines!Places /\ Landing(t, rows, engine))
    BY <1>7, ThePlaces, TheNames DEF Restoring, Found
  <2>3. CASE t.to \in Engines!Places /\ Landing(t, rows, engine) /\ ~Bare(t)
    <3>1. \/ t.plan = <<Plain("rows"), Plain("empty")>> /\ t.emptied = {}
          \/ t.plan = <<Plain("empty")>> /\ t.emptied = {}
          \/ \E k : t.plan = <<Back(t.to, k), Plain("empty")>> /\ t.emptied = {} /\ Roofed(t, rows, engine)
          \/ \E c \in Engines!ChildrenOf(t.to), m \in Numbers : t.plan = <<Back(c, m), Plain("empty")>> /\ t.emptied = {}
                 /\ DOMAIN t.writes = {t.to}
      BY <2>3, Plans DEF Landing
    <3>2. Holding(t) = DOMAIN t.writes /\ DOMAIN t.writes \subseteq Engines!Places
      <4>1. UNION {Engines!ChildrenOf(w) : w \in t.looked} = {}
        BY <2>1
      <4> QED BY <1>2, <3>1, <4>1, Drafted DEF Holding
    <3>3. CASE t.plan = <<Plain("rows"), Plain("empty")>> \/ t.plan = <<Plain("empty")>>
      <4>1. Head(t.plan) = Plain("rows") \/ Head(t.plan) = Plain("empty")
        BY <3>3, Plans
      <4>2. Engines!Locks(t, Head(t.plan)) \cap Engines!Places = {}
        BY <1>2, <4>1, LocksAre
      <4> QED BY <3>2, <4>2 DEF HoldsAndAsks
    <3>4. ASSUME NEW k, t.plan = <<Back(t.to, k), Plain("empty")>>, t.emptied = {}, Roofed(t, rows, engine)
          PROVE  HoldsAndAsks(Holding(t), Engines!Locks(t, Head(t.plan)), rows)
      <4>1. Len(t.to) = 2 /\ DOMAIN t.writes = {Engines!ParentOf(t.to)}
        BY <2>1, <2>3, <3>4 DEF Roofed, Bare
      <4>2. Engines!ParentOf(t.to) \in Engines!Places /\ t.to \in Engines!ChildrenOf(Engines!ParentOf(t.to))
          /\ rows[Engines!ParentOf(t.to)] # Engines!Dir
        BY <2>1, <2>3, <4>1, Above
      <4>3. Head(t.plan) = Back(t.to, k)
        BY <3>4, Plans
      <4>4. Engines!Locks(t, Head(t.plan)) = {t.to}
        BY <1>2, <4>3, LocksAre
      <4> QED BY <3>2, <4>1, <4>2, <4>4 DEF HoldsAndAsks
    <3>5. ASSUME NEW c \in Engines!ChildrenOf(t.to), NEW m \in Numbers, t.plan = <<Back(c, m), Plain("empty")>>,
        DOMAIN t.writes = {t.to}
          PROVE  HoldsAndAsks(Holding(t), Engines!Locks(t, Head(t.plan)), rows)
      <4>1. Head(t.plan) = Back(c, m) /\ rows[t.to] # Engines!Dir
        BY <2>1, <3>5, Plans
      <4>2. Engines!Locks(t, Head(t.plan)) = {c}
        BY <1>2, <4>1, LocksAre
      <4> QED BY <2>3, <3>2, <3>5, <4>1, <4>2 DEF HoldsAndAsks
    <3> QED BY <3>1, <3>3, <3>4, <3>5
  <2> QED BY <1>1, <2>2, <2>3
<1> QED BY <1>3, <1>4, <1>5, <1>6, <1>7 DEF Doing

LEMMA NoCircle ==
  ASSUME NEW f, ClosedTree(f), NEW H, NEW L, NEW K, NEW M, HoldsAndAsks(H, L, f), HoldsAndAsks(K, M, f), H \cap K = {},
      L \cap K # {}
  PROVE  M \cap H = {}
<1> SUFFICES ASSUME M \cap H # {} PROVE FALSE
  OBVIOUS
<1>1. H # {} /\ K # {} /\ L # {} /\ M # {}
  OBVIOUS
<1>2. ASSUME NEW p \in Engines!Places, NEW q \in Engines!ChildrenOf(p) PROVE q \in Engines!Places /\ Len(q) = 2
    /\ Len(p) = 1 /\ Engines!ParentOf(q) = p
  BY <1>2, Above
<1>3. (H \subseteq Engines!Places /\ K \subseteq Engines!Places)
  BY <1>2 DEF HoldsAndAsks
<1>4. \/ \E p \in Engines!Places : \E q \in Engines!ChildrenOf(p) : H = {q} /\ L \subseteq {p, q} /\ f[q] # Engines!None
      \/ \E h \in Engines!Places : \E w \in Engines!ChildrenOf(h) : H = {h} /\ L = {w} /\ f[h] # Engines!Dir
  BY <1>1, <1>3 DEF HoldsAndAsks
<1>5. \/ \E p \in Engines!Places : \E q \in Engines!ChildrenOf(p) : K = {q} /\ M \subseteq {p, q} /\ f[q] # Engines!None
      \/ \E h \in Engines!Places : \E w \in Engines!ChildrenOf(h) : K = {h} /\ M = {w} /\ f[h] # Engines!Dir
  BY <1>1, <1>3 DEF HoldsAndAsks
<1>6. ASSUME NEW p \in Engines!Places, NEW q \in Engines!ChildrenOf(p), NEW h \in Engines!Places,
    NEW w \in Engines!ChildrenOf(h),
             f[q] # Engines!None, f[h] # Engines!Dir, w = q
      PROVE  FALSE
  BY <1>2, <1>6 DEF ClosedTree
<1>7. ASSUME NEW p \in Engines!Places, NEW q \in Engines!ChildrenOf(p), H = {q}, L \subseteq {p, q}, f[q] # Engines!None
    PROVE FALSE
  <2>1. ASSUME NEW a \in Engines!Places, NEW c \in Engines!ChildrenOf(a), K = {c}, M \subseteq {a, c} PROVE FALSE
    <3>1. c = p
      BY <1>7, <2>1
    <3> QED BY <1>2, <1>7, <2>1, <3>1
  <2>2. ASSUME NEW h \in Engines!Places, NEW w \in Engines!ChildrenOf(h), K = {h}, M = {w}, f[h] # Engines!Dir PROVE FALSE
    <3>1. w = q
      BY <1>7, <2>2
    <3> QED BY <1>6, <1>7, <2>2, <3>1
  <2> QED BY <1>5, <2>1, <2>2
<1>8. ASSUME NEW h \in Engines!Places, NEW w \in Engines!ChildrenOf(h), H = {h}, L = {w}, f[h] # Engines!Dir PROVE FALSE
  <2>1. ASSUME NEW p \in Engines!Places, NEW q \in Engines!ChildrenOf(p), K = {q}, M \subseteq {p, q}, f[q] # Engines!None
      PROVE FALSE
    <3>1. w = q
      BY <1>8, <2>1
    <3> QED BY <1>6, <1>8, <2>1, <3>1
  <2>2. ASSUME NEW a \in Engines!Places, NEW c \in Engines!ChildrenOf(a), K = {a}, M = {c} PROVE FALSE
    <3>1. w = a
      BY <1>8, <2>2
    <3> QED BY <1>2, <1>8, <2>2, <3>1
  <2> QED BY <1>5, <2>1, <2>2
<1> QED BY <1>4, <1>7, <1>8

LEMMA WaitingIs ==
  ASSUME TransactionsInv, NEW r \in Workers, NEW s \in Workers, Engines!TreeClosed, Engines!WaitsFor(r, s)
  PROVE  ~Engines!WaitsFor(s, r)
<1> SUFFICES ASSUME Engines!WaitsFor(s, r) PROVE FALSE
  OBVIOUS
<1>1. /\ Types /\ r # s /\ ClosedTree(rows)
      /\ Engines!Open(r) /\ tx[r].plan # <<>> /\ Engines!Locks(tx[r], Head(tx[r].plan)) \cap Engines!Held(s) # {}
      /\ Engines!Open(s) /\ tx[s].plan # <<>> /\ Engines!Locks(tx[s], Head(tx[s].plan)) \cap Engines!Held(r) # {}
  BY DEF TransactionsInv, Engines!WaitsFor, Engines!TreeClosed, ClosedTree
<1>2. /\ IsTransaction(tx[r]) /\ Engines!Held(r) = Holding(tx[r]) /\ Doing(tx[r], rows, bin, engine)
      /\ IsTransaction(tx[s]) /\ Engines!Held(s) = Holding(tx[s]) /\ Doing(tx[s], rows, bin, engine)
      /\ Engines!Held(r) \cap Engines!Held(s) = {}
  BY <1>1, OpenIs DEF TransactionsInv, Courses, Exclusive
<1>3. HoldsAndAsks(Engines!Held(r), Engines!Locks(tx[r], Head(tx[r].plan)), rows) /\ HoldsAndAsks(Engines!Held(s),
    Engines!Locks(tx[s], Head(tx[s].plan)), rows)
  BY <1>1, <1>2, AsksFor
<1> QED BY <1>1, <1>2, <1>3, NoCircle

\* Types, what each open transaction has read and written at each of its
\* statements, that no two hold one row, and SQLite's accounts: an invariant of
\* the transactions of internal/files on the three engines.
THEOREM TransactionsInvariant == Engines!Spec => []TransactionsInv
BY TransactionsInit, TransactionsNext, PTL DEF Engines!Spec

\* SQLite leaves no row without its parent or its blob however requests
\* interleave, and no transaction waits in a circle while every row has its parent.
THEOREM TransactionsAreKept == Engines!Spec => []TransactionsHold
<1>1. TransactionsInv => TransactionsHold
  <2>1. TransactionsInv => Engines!SerialOnSQLite
    BY DEF TransactionsInv, Serial, Engines!SerialOnSQLite
  <2>2. TransactionsInv => Engines!CirclesNeedAnOrphan
    BY WaitingIs DEF Engines!CirclesNeedAnOrphan
  <2> QED BY <2>1, <2>2 DEF TransactionsHold, Engines!TransactionsHold
<1> QED BY <1>1, TransactionsInvariant, PTL
=============================================================================
