--------------------------- MODULE DavLocksProofs ---------------------------
(***************************************************************************)
(* Proofs about DavLocks for every tree of paths and every number of       *)
(* requests and tokens.                                                    *)
(***************************************************************************)
EXTENDS DavLocks, TLAPS

\* Two collections above one path are above each other.
LEMMA PrefixesCompare ==
  ASSUME NEW a \in Seq(STRING), NEW b \in Seq(STRING), NEW p \in Seq(STRING),
         Under(a, p), Under(b, p)
  PROVE  a = b \/ Under(a, b) \/ Under(b, a)
<1>1. CASE Len(a) = Len(b)
  BY <1>1 DEF Under
<1>2. CASE Len(a) < Len(b)
  <2>1. Len(SubSeq(b, 1, Len(a))) = Len(a)
    BY <1>2
  <2>2. \A i \in 1..Len(a) : SubSeq(b, 1, Len(a))[i] = a[i]
    BY <1>2 DEF Under
  <2> QED BY <1>2, <2>1, <2>2 DEF Under
<1>3. CASE Len(b) < Len(a)
  <2>1. Len(SubSeq(a, 1, Len(b))) = Len(b)
    BY <1>3
  <2>2. \A i \in 1..Len(b) : SubSeq(a, 1, Len(b))[i] = b[i]
    BY <1>3 DEF Under
  <2> QED BY <1>3, <2>1, <2>2 DEF Under
<1> QED BY <1>1, <1>2, <1>3
-----------------------------------------------------------------------------
(* The inductive invariant.                                                *)

\* No two locks cover one path.
Exclusive == \A l, m \in locks, p \in Paths : Covers(l, p) /\ Covers(m, p) => l = m

\* The places at which a request holds nothing.
TakesNothing == {"idle", "holdSrc", "covers", "claim", "claimSrc", "claimDst", "lock", "reserve"}

\* What a request q of r's may be like at a place, while the tokens h are held
\* and the tokens i given out.
PhaseOf(r, pc, q, h, i) ==
  /\ q.mine \subseteq {r} \X {"src", "dst"}
  /\ q.claimed \subseteq h
  /\ pc \in TakesNothing => q.mine = {} /\ q.claimed = {}
  /\ pc \in {"otherDst", "otherSrc"} => q.mine = {}
  /\ pc = "holdDst" => q.claimed = {}
  /\ pc # "idle" => ~(q.src = None /\ q.dst = None)
  /\ pc \in {"claimSrc", "otherDst", "claimDst", "otherSrc"} => q.dst # None
  /\ pc \in {"claimDst", "otherSrc", "lock", "reserve"} => q.src # None
  /\ pc \in {"covers", "claim", "claimSrc", "otherDst", "claimDst", "otherSrc"} => q.tok \in i
  /\ pc = "reserve" => q.tok \in Tokens \ i
  /\ pc = "idle" => q = Idle

Phase(r) == PhaseOf(r, req[r].pc, req[r], held, issued)

\* Claims are of tokens that were given out, and each is of one request.
ClaimsApart == \A r, s \in Procs : r # s => req[r].claimed \cap req[s].claimed = {}

\* A token that is being given out is nobody else's.
ReservesApart ==
  \A r, s \in Procs : r # s /\ req[r].pc = "reserve" /\ req[s].pc = "reserve" => req[r].tok # req[s].tok

IndInv ==
  /\ TypeOK
  /\ held \subseteq issued
  /\ Exclusive
  /\ \A r \in Procs : Phase(r)
  /\ ClaimsApart
  /\ ReservesApart
  /\ NothingStaysHeld

\* A lock that could be created covers nothing that another lock covers.
LEMMA CreatedApart ==
  ASSUME TypeOK, NEW t \in Tokens \cup BriefTokens, NEW p \in Paths, NEW deep \in BOOLEAN, CanCreate(p, deep),
         NEW l \in locks, NEW q \in Paths,
         Covers(l, q), Covers([token |-> t, root |-> p, deep |-> deep], q)
  PROVE  FALSE
<1>1. /\ l.root \in Seq(STRING) /\ p \in Seq(STRING) /\ q \in Seq(STRING)
      /\ l.deep \in BOOLEAN
  BY LocksAssumption DEF TypeOK
<1>2. ~Covers(l, p) /\ ~(deep /\ Under(p, l.root))
  BY DEF CanCreate
<1>3. p = q \/ (deep /\ Under(p, q))
  BY DEF Covers
<1>4. l.root = q \/ (l.deep /\ Under(l.root, q))
  BY DEF Covers
<1>5. CASE p = q
  BY <1>2, <1>5
<1>6. CASE l.root = q /\ deep /\ Under(p, q)
  BY <1>2, <1>6
<1>7. CASE l.deep /\ Under(l.root, q) /\ deep /\ Under(p, q)
  <2>1. l.root = p \/ Under(l.root, p) \/ Under(p, l.root)
    BY <1>1, <1>7, PrefixesCompare
  <2> QED BY <1>2, <1>7, <2>1 DEF Covers
<1> QED BY <1>3, <1>4, <1>5, <1>6, <1>7

LEMMA CreateExclusive ==
  ASSUME TypeOK, Exclusive, NEW t \in Tokens \cup BriefTokens, NEW p \in Paths, NEW deep \in BOOLEAN,
         CanCreate(p, deep),
         locks' = locks \cup {[token |-> t, root |-> p, deep |-> deep]}
  PROVE  Exclusive'
<1> DEFINE n == [token |-> t, root |-> p, deep |-> deep]
<1> SUFFICES ASSUME NEW l \in locks', NEW m \in locks', NEW q \in Paths, Covers(l, q), Covers(m, q)
             PROVE  l = m
  BY DEF Exclusive, Covers
<1>1. CASE l \in locks /\ m \in locks
  BY <1>1 DEF Exclusive
<1>2. CASE l = n /\ m = n
  BY <1>2
<1>3. CASE l \in locks /\ m = n
  BY <1>3, CreatedApart
<1>4. CASE m \in locks /\ l = n
  BY <1>4, CreatedApart
<1> QED BY <1>1, <1>2, <1>3, <1>4

\* Fewer locks exclude each other too.
LEMMA FewerExclusive == ASSUME Exclusive, locks' \subseteq locks PROVE Exclusive'
  BY DEF Exclusive, Covers

LEMMA InitInd == Init => IndInv
  BY LocksAssumption DEF Init, IndInv, TypeOK, Exclusive, Phase, PhaseOf, ClaimsApart,
     ReservesApart, NothingStaysHeld, Idle, Request, Methods, TakesNothing

\* A step of one request, and all it has to keep.
LEMMA UpdateInd ==
  ASSUME IndInv, NEW r \in Procs, NEW q \in Request,
         req' = [req EXCEPT ![r] = q],
         content' \in [Paths -> {"none", "dir", "empty", "data"}],
         locks' \subseteq [token : Tokens \cup BriefTokens, root : Paths, deep : BOOLEAN],
         Exclusive',
         issued \subseteq issued', issued' \subseteq Tokens,
         PhaseOf(r, q.pc, q, held', issued'),
         held' = (held \ req[r].claimed) \cup q.claimed,
         q.claimed \subseteq issued',
         held' \subseteq {l.token : l \in locks'},
         \A s \in Procs \ {r} : q.claimed \cap req[s].claimed = {},
         \A s \in Procs \ {r} : req[s].pc = "reserve" => req[s].tok \notin issued' /\ (q.pc = "reserve" => req[s].tok # q.tok),
         \A l \in locks' : l.token \in BriefTokens => l.token \in q.mine \/ (l \in locks /\ l.token \notin req[r].mine)
  PROVE  IndInv'
<1>1. /\ req'[r] = q
      /\ \A s \in Procs \ {r} : req'[s] = req[s]
      /\ req' \in [Procs -> Request]
  BY DEF IndInv, TypeOK
<1>2. TypeOK' /\ (held \subseteq issued)'
  BY <1>1 DEF IndInv, TypeOK
<1>3. ASSUME NEW s \in Procs PROVE Phase(s)'
  <2>1. CASE s = r
    BY <1>1, <2>1 DEF Phase
  <2>2. CASE s # r
    <3>1. req[s].claimed \subseteq held' /\ Phase(s)
      BY <2>2 DEF IndInv, Phase, PhaseOf, ClaimsApart
    <3>2. req[s].pc = "reserve" => req[s].tok \notin issued'
      BY <2>2
    <3> QED BY <1>1, <2>2, <3>1, <3>2 DEF Phase, PhaseOf
  <2> QED BY <2>1, <2>2
<1>4. ClaimsApart'
  BY <1>1 DEF IndInv, ClaimsApart
<1>5. ReservesApart'
  BY <1>1 DEF IndInv, ReservesApart
<1>6. NothingStaysHeld'
  <2>1. ASSUME NEW l \in locks', l.token \in BriefTokens PROVE \E s \in Procs : l.token \in req'[s].mine
    <3>1. CASE l.token \in q.mine
      BY <1>1, <3>1
    <3>2. CASE l \in locks /\ l.token \notin req[r].mine
      BY <1>1, <2>1, <3>2 DEF IndInv, NothingStaysHeld
    <3> QED BY <2>1, <3>1, <3>2
  <2>2. ASSUME NEW t \in held' PROVE \E s \in Procs : t \in req'[s].claimed
    BY <1>1 DEF IndInv, NothingStaysHeld
  <2>3. ASSUME NEW s \in Procs, req'[s].pc = "idle" PROVE req'[s] = Idle
    BY <1>3, <2>3 DEF Phase, PhaseOf
  <2> QED BY <2>1, <2>2, <2>3 DEF NothingStaysHeld
<1> QED BY <1>2, <1>3, <1>4, <1>5, <1>6 DEF IndInv

\* On to the next place, with what it has.
LEMMA GotoInd ==
  ASSUME IndInv, NEW r \in Procs,
         NEW pc \in {"holdSrc", "holdDst", "covers", "claim", "claimSrc", "otherDst", "claimDst", "otherSrc",
                     "run", "move", "release", "lock"},
         Goto(r, pc), PhaseOf(r, pc, req[r], held, issued),
         UNCHANGED <<locks, held, issued>>,
         content' \in [Paths -> {"none", "dir", "empty", "data"}]
  PROVE  IndInv'
<1> DEFINE q == [req[r] EXCEPT !.pc = pc]
<1>1. req[r] \in Request /\ req[r].claimed \subseteq held
  BY DEF IndInv, TypeOK, Phase, PhaseOf
<1>2. /\ q \in Request /\ q.pc = pc /\ q.src = req[r].src /\ q.dst = req[r].dst /\ q.tok = req[r].tok
      /\ q.mine = req[r].mine /\ q.claimed = req[r].claimed
  BY <1>1 DEF Request
<1>3. req' = [req EXCEPT ![r] = q]
  BY DEF Goto, IndInv, TypeOK
<1>4. Exclusive'
  BY FewerExclusive DEF IndInv
<1>5. locks' \subseteq [token : Tokens \cup BriefTokens, root : Paths, deep : BOOLEAN] /\ issued' \subseteq Tokens
  BY DEF IndInv, TypeOK
<1>6. held' = (held \ req[r].claimed) \cup q.claimed /\ q.claimed \subseteq issued' /\ held' \subseteq {l.token : l \in locks'}
  BY <1>1, <1>2 DEF IndInv, TypeOK
<1>7. \A s \in Procs \ {r} : q.claimed \cap req[s].claimed = {}
  BY <1>2 DEF IndInv, ClaimsApart
<1>8. \A s \in Procs \ {r} : req[s].pc = "reserve" => req[s].tok \notin issued' /\ (q.pc = "reserve" => req[s].tok # q.tok)
  BY <1>2 DEF IndInv, Phase, PhaseOf
<1>9. \A l \in locks' : l.token \in BriefTokens => l.token \in q.mine \/ (l \in locks /\ l.token \notin req[r].mine)
  BY <1>2
<1>10. PhaseOf(r, q.pc, q, held', issued')
  BY <1>2 DEF PhaseOf
<1> HIDE DEF q
<1> QED BY <1>2, <1>3, <1>4, <1>5, <1>6, <1>7, <1>8, <1>9, <1>10, UpdateInd

\* The request is over, and what it took is given back.
LEMMA DoneInd ==
  ASSUME IndInv, NEW r \in Procs, Done(r),
         locks' \subseteq locks, \A l \in locks' : l.token \notin req[r].mine,
         held' = held \ req[r].claimed, held' \subseteq {l.token : l \in locks'},
         issued \subseteq issued', issued' \subseteq Tokens,
         \A s \in Procs \ {r} : req[s].pc = "reserve" => req[s].tok \notin issued',
         content' \in [Paths -> {"none", "dir", "empty", "data"}]
  PROVE  IndInv'
<1>1. Idle \in Request /\ Idle.claimed = {} /\ Idle.mine = {} /\ Idle.pc = "idle"
  BY DEF Idle, Request, Methods
<1>2. PhaseOf(r, "idle", Idle, held', issued')
  BY DEF PhaseOf, Idle, TakesNothing
<1>3. Exclusive'
  BY FewerExclusive DEF IndInv
<1>4. locks' \subseteq [token : Tokens \cup BriefTokens, root : Paths, deep : BOOLEAN]
  BY DEF IndInv, TypeOK
<1> QED BY <1>1, <1>2, <1>3, <1>4, UpdateInd DEF Done, Serve

\* A brief lock on a path nothing covers.
LEMMA HoldInd ==
  ASSUME IndInv, NEW r \in Procs, NEW p \in Paths, NEW end \in {"src", "dst"}, NEW pc \in {"holdDst", "run"},
         CanCreate(p, FALSE), Hold(r, p, end, pc),
         req[r].pc \in {"holdSrc", "holdDst", "otherDst", "otherSrc"},
         pc = "holdDst" => req[r].claimed = {},
         UNCHANGED <<content, issued>>
  PROVE  IndInv'
<1> DEFINE q == [req[r] EXCEPT !.pc = pc, !.mine = @ \cup {<<r, end>>}]
           n == [token |-> <<r, end>>, root |-> p, deep |-> FALSE]
<1>1. /\ req[r] \in Request /\ req[r].claimed \subseteq held /\ Phase(r)
      /\ <<r, end>> \in BriefTokens
  BY DEF IndInv, TypeOK, Phase, PhaseOf, BriefTokens
<1>2. /\ q.mine = req[r].mine \cup {<<r, end>>} /\ q.claimed = req[r].claimed /\ q.tok = req[r].tok /\ q.pc = pc
      /\ q.src = req[r].src /\ q.dst = req[r].dst
      /\ q \in Request
  BY <1>1 DEF Request
<1>3. req' = [req EXCEPT ![r] = q] /\ locks' = locks \cup {n} /\ held' = held
  BY DEF Hold, Serve
<1>4. Exclusive'
  BY <1>1, <1>3, CreateExclusive DEF IndInv
<1>5. locks' \subseteq [token : Tokens \cup BriefTokens, root : Paths, deep : BOOLEAN] /\ issued' \subseteq Tokens
  <2>1. n \in [token : Tokens \cup BriefTokens, root : Paths, deep : BOOLEAN]
    BY <1>1
  <2> QED BY <1>3, <2>1 DEF IndInv, TypeOK
<1>6. held' = (held \ req[r].claimed) \cup q.claimed /\ q.claimed \subseteq issued' /\ held' \subseteq {l.token : l \in locks'}
  BY <1>1, <1>2, <1>3 DEF IndInv, TypeOK
<1>7. \A s \in Procs \ {r} : q.claimed \cap req[s].claimed = {}
  BY <1>2 DEF IndInv, ClaimsApart
<1>8. \A s \in Procs \ {r} : req[s].pc = "reserve" => req[s].tok \notin issued' /\ (q.pc = "reserve" => req[s].tok # q.tok)
  BY <1>2 DEF IndInv, Phase, PhaseOf
<1>9. \A l \in locks' : l.token \in BriefTokens => l.token \in q.mine \/ (l \in locks /\ l.token \notin req[r].mine)
  BY <1>2, <1>3
<1>10. PhaseOf(r, q.pc, q, held', issued')
  BY <1>1, <1>2, <1>3 DEF Phase, PhaseOf, TakesNothing
<1> HIDE DEF q, n
<1> QED BY <1>2, <1>3, <1>4, <1>5, <1>6, <1>7, <1>8, <1>9, <1>10, UpdateInd DEF IndInv, TypeOK

\* A claim of a lock that is there and that nobody holds.
LEMMA ClaimInd ==
  ASSUME IndInv, NEW r \in Procs, NEW pc \in {"run", "otherDst", "otherSrc"}, NEW p \in Paths,
         Claim(r, pc), Confirms(req[r].tok, p),
         req[r].pc \in {"claim", "claimSrc", "claimDst"},
         pc \in {"otherDst", "otherSrc"} => req[r].dst # None,
         pc = "otherSrc" => req[r].src # None,
         UNCHANGED <<content, locks, issued>>
  PROVE  IndInv'
<1> DEFINE q == [req[r] EXCEPT !.pc = pc, !.claimed = {req[r].tok}]
<1>1. /\ req[r] \in Request /\ req[r].claimed = {} /\ Phase(r)
      /\ req[r].mine = {} /\ req[r].tok \in issued /\ req[r].tok \in Tokens
  BY DEF IndInv, TypeOK, Phase, PhaseOf, TakesNothing
<1>2. \E l \in locks : l.token = req[r].tok /\ req[r].tok \notin held
  BY LocksAssumption DEF Confirms
<1>3. /\ q.mine = {} /\ q.claimed = {req[r].tok} /\ q.tok = req[r].tok /\ q.pc = pc
      /\ q.src = req[r].src /\ q.dst = req[r].dst
      /\ q \in Request
  BY <1>1 DEF Request
<1>4. req' = [req EXCEPT ![r] = q] /\ held' = held \cup {req[r].tok}
  BY DEF Claim, Serve
<1>5. Exclusive'
  BY FewerExclusive DEF IndInv
<1>6. held' \subseteq {l.token : l \in locks'}
  BY <1>2, <1>4 DEF IndInv, TypeOK
<1>7. \A s \in Procs \ {r} : q.claimed \cap req[s].claimed = {}
  BY <1>2, <1>3 DEF IndInv, Phase, PhaseOf
<1>8. \A s \in Procs \ {r} : req[s].pc = "reserve" => req[s].tok \notin issued' /\ (q.pc = "reserve" => req[s].tok # q.tok)
  BY <1>3 DEF IndInv, Phase, PhaseOf
<1>9. PhaseOf(r, q.pc, q, held', issued')
  BY <1>1, <1>3, <1>4 DEF Phase, PhaseOf, TakesNothing
<1>10. held' = (held \ req[r].claimed) \cup q.claimed /\ q.claimed \subseteq issued'
  BY <1>1, <1>3, <1>4
<1>11. /\ content' \in [Paths -> {"none", "dir", "empty", "data"}]
       /\ locks' \subseteq [token : Tokens \cup BriefTokens, root : Paths, deep : BOOLEAN]
       /\ issued \subseteq issued' /\ issued' \subseteq Tokens
  BY DEF IndInv, TypeOK
<1>12. \A l \in locks' : l.token \in BriefTokens => l.token \in q.mine \/ (l \in locks /\ l.token \notin req[r].mine)
  BY <1>1
<1> HIDE DEF q
<1> QED BY <1>3, <1>4, <1>5, <1>6, <1>7, <1>8, <1>9, <1>10, <1>11, <1>12, UpdateInd

\* The gate, place by place.
LEMMA ArriveInd ==
  ASSUME IndInv, NEW r \in Procs, NEW m \in Methods, NEW s \in Paths \cup {None}, NEW d \in Paths \cup {None},
         NEW k \in Tokens \cup {None}, Arrive(r, m, s, d, k)
  PROVE  IndInv'
<1> DEFINE q == [Idle EXCEPT !.pc = IF k = None THEN "holdSrc" ELSE "covers",
                             !.method = m, !.src = s, !.dst = d, !.tok = k]
<1>1. /\ q \in Request /\ q.mine = {} /\ q.claimed = {} /\ q.pc \in {"holdSrc", "covers"}
      /\ q.src = s /\ q.dst = d /\ q.tok = k /\ (q.pc = "covers" => k # None)
  BY DEF Idle, Request
<1>2. req' = [req EXCEPT ![r] = q] /\ UNCHANGED <<content, locks, held, issued>>
  BY DEF Arrive, Serve
<1>3. req[r] = Idle /\ req[r].claimed = {} /\ req[r].mine = {}
  BY DEF Arrive, IndInv, Phase, PhaseOf, TakesNothing, Idle
<1>4. PhaseOf(r, q.pc, q, held', issued')
  BY <1>1, <1>2 DEF PhaseOf, TakesNothing, Arrive, Methods
<1>5. Exclusive'
  BY <1>2, FewerExclusive DEF IndInv
<1>6. \A j \in Procs \ {r} : req[j].pc = "reserve" => req[j].tok \notin issued'
  BY <1>2 DEF IndInv, Phase, PhaseOf
<1>7. /\ content' \in [Paths -> {"none", "dir", "empty", "data"}]
      /\ locks' \subseteq [token : Tokens \cup BriefTokens, root : Paths, deep : BOOLEAN]
      /\ issued \subseteq issued' /\ issued' \subseteq Tokens /\ held' \subseteq {l.token : l \in locks'}
  BY <1>2 DEF IndInv, TypeOK
<1>8. held' = (held \ req[r].claimed) \cup q.claimed /\ q.claimed \subseteq issued' /\ q.pc # "reserve"
  BY <1>1, <1>2, <1>3
<1>9. \A l \in locks' : l.token \in BriefTokens => l.token \in q.mine \/ (l \in locks /\ l.token \notin req[r].mine)
  BY <1>2, <1>3
<1>10. \A j \in Procs \ {r} : q.claimed \cap req[j].claimed = {}
  BY <1>1
<1> HIDE DEF q
<1> QED BY <1>1, <1>2, <1>4, <1>5, <1>6, <1>7, <1>8, <1>9, <1>10, UpdateInd

LEMMA HoldSrcInd == ASSUME IndInv, NEW r \in Procs, HoldSrc(r) PROVE IndInv'
<1>1. Phase(r) /\ req[r] \in Request /\ req[r].pc = "holdSrc" /\ UNCHANGED <<content, issued>>
  BY DEF IndInv, TypeOK, HoldSrc
<1>2. CASE req[r].src = None
  BY <1>1, <1>2, GotoInd DEF HoldSrc, Phase, PhaseOf, TakesNothing, IndInv, TypeOK
<1>3. CASE req[r].src # None /\ CanCreate(req[r].src, FALSE)
  <2>1. req[r].src \in Paths /\ req[r].claimed = {} /\ Hold(r, req[r].src, "src", "holdDst")
    BY <1>1, <1>3 DEF HoldSrc, Request, Phase, PhaseOf, TakesNothing
  <2> QED BY <1>1, <1>3, <2>1, HoldInd
<1>4. CASE req[r].src # None /\ ~CanCreate(req[r].src, FALSE)
  BY <1>1, <1>4, DoneInd DEF HoldSrc, Phase, PhaseOf, TakesNothing, IndInv, TypeOK
<1> QED BY <1>2, <1>3, <1>4

LEMMA HoldDstInd == ASSUME IndInv, NEW r \in Procs, HoldDst(r) PROVE IndInv'
<1>1. Phase(r) /\ req[r] \in Request /\ req[r].pc = "holdDst" /\ UNCHANGED <<content, issued>>
  BY DEF IndInv, TypeOK, HoldDst
<1>2. CASE req[r].dst = None
  BY <1>1, <1>2, GotoInd DEF HoldDst, Phase, PhaseOf, TakesNothing, IndInv, TypeOK
<1>3. CASE req[r].dst # None /\ CanCreate(req[r].dst, FALSE)
  <2>1. req[r].dst \in Paths /\ Hold(r, req[r].dst, "dst", "run")
    BY <1>1, <1>3 DEF HoldDst, Request
  <2> QED BY <1>1, <1>3, <2>1, HoldInd
<1>4. CASE req[r].dst # None /\ ~CanCreate(req[r].dst, FALSE)
  <2>1. /\ locks' = Unlocked(req[r].mine) /\ Done(r) /\ held' = held /\ req[r].claimed = {}
        /\ req[r].mine \subseteq BriefTokens
    BY <1>1, <1>4 DEF HoldDst, Phase, PhaseOf, Request
  <2>2. held' \subseteq {l.token : l \in locks'}
    BY <2>1, LocksAssumption DEF IndInv, TypeOK, Unlocked, BriefTokens
  <2> QED BY <1>1, <2>1, <2>2, DoneInd DEF Unlocked, Phase, PhaseOf, IndInv, TypeOK
<1> QED BY <1>2, <1>3, <1>4

LEMMA CheckTokenInd == ASSUME IndInv, NEW r \in Procs, CheckToken(r) PROVE IndInv'
<1>1. Phase(r) /\ req[r].pc = "covers" /\ UNCHANGED <<content, locks, held, issued>>
  BY DEF IndInv, CheckToken
<1>2. CASE Goto(r, "claim")
  BY <1>1, <1>2, GotoInd DEF Phase, PhaseOf, TakesNothing, IndInv, TypeOK
<1>3. CASE Done(r)
  BY <1>1, <1>3, DoneInd DEF Phase, PhaseOf, TakesNothing, IndInv, TypeOK
<1> QED BY <1>2, <1>3 DEF CheckToken

LEMMA ClaimBothInd == ASSUME IndInv, NEW r \in Procs, ClaimBoth(r) PROVE IndInv'
<1>1. Phase(r) /\ req[r] \in Request /\ req[r].pc = "claim" /\ UNCHANGED <<content, locks, issued>>
  BY DEF IndInv, TypeOK, ClaimBoth
<1>2. CASE Claim(r, "run") /\ Confirms(req[r].tok, req[r].src) /\ Confirms(req[r].tok, req[r].dst)
  <2>1. PICK p \in Paths : p \in {req[r].src, req[r].dst}
    BY <1>1 DEF Phase, PhaseOf, Request
  <2> QED BY <1>1, <1>2, <2>1, ClaimInd
<1>3. CASE Goto(r, IF req[r].dst = None THEN "holdSrc" ELSE "claimSrc") /\ UNCHANGED held
  <2>1. CASE req[r].dst = None
    BY <1>1, <1>3, <2>1, GotoInd DEF Phase, PhaseOf, TakesNothing, IndInv, TypeOK
  <2>2. CASE req[r].dst # None
    BY <1>1, <1>3, <2>2, GotoInd DEF Phase, PhaseOf, TakesNothing, IndInv, TypeOK
  <2> QED BY <2>1, <2>2
<1> QED BY <1>2, <1>3 DEF ClaimBoth

LEMMA ClaimSrcInd == ASSUME IndInv, NEW r \in Procs, ClaimSrc(r) PROVE IndInv'
<1>1. Phase(r) /\ req[r] \in Request /\ req[r].pc = "claimSrc" /\ UNCHANGED <<content, locks, issued>>
  BY DEF IndInv, TypeOK, ClaimSrc
<1>2. CASE req[r].src = None
  BY <1>1, <1>2, GotoInd DEF ClaimSrc, Phase, PhaseOf, TakesNothing, IndInv, TypeOK
<1>3. CASE req[r].src # None /\ Confirms(req[r].tok, req[r].src)
  <2>1. req[r].src \in Paths /\ req[r].dst # None /\ Claim(r, "otherDst")
    BY <1>1, <1>3 DEF ClaimSrc, Phase, PhaseOf, Request
  <2> QED BY <1>1, <1>3, <2>1, ClaimInd
<1>4. CASE req[r].src # None /\ ~Confirms(req[r].tok, req[r].src)
  BY <1>1, <1>4, GotoInd DEF ClaimSrc, Phase, PhaseOf, TakesNothing, IndInv, TypeOK
<1> QED BY <1>2, <1>3, <1>4

LEMMA ClaimDstInd == ASSUME IndInv, NEW r \in Procs, ClaimDst(r) PROVE IndInv'
<1>1. Phase(r) /\ req[r] \in Request /\ req[r].pc = "claimDst" /\ UNCHANGED <<content, locks, issued>>
  BY DEF IndInv, TypeOK, ClaimDst
<1>2. CASE Confirms(req[r].tok, req[r].dst)
  <2>1. req[r].dst \in Paths /\ req[r].src # None /\ req[r].dst # None /\ Claim(r, "otherSrc")
    BY <1>1, <1>2 DEF ClaimDst, Phase, PhaseOf, Request
  <2> QED BY <1>1, <1>2, <2>1, ClaimInd
<1>3. CASE ~Confirms(req[r].tok, req[r].dst)
  BY <1>1, <1>3, GotoInd DEF ClaimDst, Phase, PhaseOf, TakesNothing, IndInv, TypeOK
<1> QED BY <1>2, <1>3

\* The other end held, or the claim given back.
LEMMA HoldOtherInd ==
  ASSUME IndInv, NEW r \in Procs, NEW p \in Paths, NEW end \in {"src", "dst"}, NEW next \in {"holdSrc", "claimDst"},
         req[r].pc \in {"otherDst", "otherSrc"}, HoldOther(r, p, end, next),
         next = "claimDst" => req[r].src # None,
         UNCHANGED <<content, issued>>
  PROVE  IndInv'
<1>1. Phase(r) /\ req[r] \in Request
  BY DEF IndInv, TypeOK
<1>2. CASE CanCreate(p, FALSE)
  BY <1>1, <1>2, HoldInd DEF HoldOther
<1>3. CASE ~CanCreate(p, FALSE)
  <2> DEFINE q == [req[r] EXCEPT !.pc = next, !.claimed = {}]
  <2>1. /\ q \in Request /\ q.pc = next /\ q.src = req[r].src /\ q.dst = req[r].dst /\ q.tok = req[r].tok
        /\ q.mine = {} /\ q.claimed = {}
    BY <1>1 DEF Request, Phase, PhaseOf
  <2>2. req' = [req EXCEPT ![r] = q] /\ held' = held \ req[r].claimed /\ locks' = locks
    BY <1>3 DEF HoldOther, Serve
  <2>3. Exclusive'
    BY <2>2, FewerExclusive DEF IndInv
  <2>4. PhaseOf(r, q.pc, q, held', issued')
    BY <1>1, <2>1 DEF Phase, PhaseOf
  <2>5. \A s \in Procs \ {r} : req[s].pc = "reserve" => req[s].tok \notin issued' /\ (q.pc = "reserve" => req[s].tok # q.tok)
    BY <2>1 DEF IndInv, Phase, PhaseOf
  <2>6. /\ content' \in [Paths -> {"none", "dir", "empty", "data"}]
        /\ locks' \subseteq [token : Tokens \cup BriefTokens, root : Paths, deep : BOOLEAN]
        /\ issued \subseteq issued' /\ issued' \subseteq Tokens /\ held' \subseteq {l.token : l \in locks'}
    BY <2>2 DEF IndInv, TypeOK
  <2>7. held' = (held \ req[r].claimed) \cup q.claimed /\ q.claimed \subseteq issued'
    BY <2>1, <2>2
  <2>8. \A l \in locks' : l.token \in BriefTokens => l.token \in q.mine \/ (l \in locks /\ l.token \notin req[r].mine)
    BY <1>1, <2>2 DEF Phase, PhaseOf
  <2>9. \A s \in Procs \ {r} : q.claimed \cap req[s].claimed = {}
    BY <2>1
  <2> HIDE DEF q
  <2> QED BY <2>1, <2>2, <2>3, <2>4, <2>5, <2>6, <2>7, <2>8, <2>9, UpdateInd
<1> QED BY <1>2, <1>3

LEMMA OtherDstInd == ASSUME IndInv, NEW r \in Procs, OtherDst(r) PROVE IndInv'
<1>1. Phase(r) /\ req[r] \in Request /\ req[r].pc = "otherDst" /\ UNCHANGED <<content, issued>>
  BY DEF IndInv, TypeOK, OtherDst
<1>2. req[r].dst \in Paths
  BY <1>1 DEF Phase, PhaseOf, Request
<1> QED BY <1>1, <1>2, HoldOtherInd DEF OtherDst

LEMMA OtherSrcInd == ASSUME IndInv, NEW r \in Procs, OtherSrc(r) PROVE IndInv'
<1>1. Phase(r) /\ req[r] \in Request /\ req[r].pc = "otherSrc" /\ UNCHANGED <<content, issued>>
  BY DEF IndInv, TypeOK, OtherSrc
<1>2. req[r].src \in Paths
  BY <1>1 DEF Phase, PhaseOf, Request
<1> QED BY <1>1, <1>2, HoldOtherInd DEF OtherSrc

LEMMA GateInd == ASSUME IndInv, NEW r \in Procs, Gate(r) PROVE IndInv'
  BY HoldSrcInd, HoldDstInd, CheckTokenInd, ClaimBothInd, ClaimSrcInd, OtherDstInd, ClaimDstInd, OtherSrcInd DEF Gate
-----------------------------------------------------------------------------
(* Behind the gate, and LOCK and UNLOCK.                                   *)

LEMMA RunInd == ASSUME IndInv, NEW r \in Procs, Run(r) \/ MoveRows(r) \/ RunFails(r) PROVE IndInv'
<1>1. Phase(r) /\ req[r].pc \in {"run", "move"} /\ UNCHANGED <<locks, held, issued>>
  BY DEF IndInv, Run, MoveRows, RunFails
<1>2. content' \in [Paths -> {"none", "dir", "empty", "data"}]
  BY DEF IndInv, TypeOK, Run, MoveRows, RunFails, Put, Without, Moved
<1>3. Goto(r, "move") \/ Goto(r, "release")
  BY DEF Run, MoveRows, RunFails
<1>4. PhaseOf(r, "move", req[r], held, issued) /\ PhaseOf(r, "release", req[r], held, issued)
  BY <1>1 DEF Phase, PhaseOf, TakesNothing
<1> QED BY <1>1, <1>2, <1>3, <1>4, GotoInd

LEMMA ReleaseInd == ASSUME IndInv, NEW r \in Procs, Release(r) PROVE IndInv'
<1>1. /\ Phase(r) /\ req[r] \in Request /\ locks' = Unlocked(req[r].mine) /\ held' = held \ req[r].claimed
      /\ Done(r) /\ UNCHANGED <<content, issued>>
  BY DEF IndInv, TypeOK, Release
<1>2. held' \subseteq {l.token : l \in locks'}
  BY <1>1, LocksAssumption DEF IndInv, TypeOK, Unlocked, BriefTokens, Request
<1>3. \A s \in Procs \ {r} : req[s].pc = "reserve" => req[s].tok \notin issued'
  BY <1>1 DEF IndInv, Phase, PhaseOf
<1> QED BY <1>1, <1>2, <1>3, DoneInd DEF IndInv, TypeOK, Unlocked

LEMMA LockStatInd ==
  ASSUME IndInv, NEW r \in Procs, NEW p \in Paths, NEW deep \in BOOLEAN, LockStat(r, p, deep)
  PROVE  IndInv'
<1> DEFINE q == [Idle EXCEPT !.pc = "lock", !.src = p, !.deep = deep, !.missing = content[p] = "none"]
<1>1. /\ q \in Request /\ q.mine = {} /\ q.claimed = {} /\ q.pc = "lock" /\ q.src = p
  BY DEF Idle, Request, Methods
<1>2. req' = [req EXCEPT ![r] = q] /\ UNCHANGED <<content, locks, held, issued>>
  BY DEF LockStat, Serve
<1>3. req[r].claimed = {} /\ req[r].mine = {}
  BY DEF LockStat, IndInv, Phase, PhaseOf, TakesNothing
<1>4. PhaseOf(r, q.pc, q, held', issued')
  BY <1>1, LocksAssumption DEF PhaseOf, TakesNothing
<1>5. Exclusive'
  BY <1>2, FewerExclusive DEF IndInv
<1>6. \A s \in Procs \ {r} : req[s].pc = "reserve" => req[s].tok \notin issued' /\ (q.pc = "reserve" => req[s].tok # q.tok)
  BY <1>1, <1>2 DEF IndInv, Phase, PhaseOf
<1>7. /\ content' \in [Paths -> {"none", "dir", "empty", "data"}]
      /\ locks' \subseteq [token : Tokens \cup BriefTokens, root : Paths, deep : BOOLEAN]
      /\ issued \subseteq issued' /\ issued' \subseteq Tokens /\ held' \subseteq {l.token : l \in locks'}
  BY <1>2 DEF IndInv, TypeOK
<1>8. held' = (held \ req[r].claimed) \cup q.claimed /\ q.claimed \subseteq issued'
  BY <1>1, <1>2, <1>3
<1>9. \A l \in locks' : l.token \in BriefTokens => l.token \in q.mine \/ (l \in locks /\ l.token \notin req[r].mine)
  BY <1>2, <1>3
<1>10. \A s \in Procs \ {r} : q.claimed \cap req[s].claimed = {}
  BY <1>1
<1> HIDE DEF q
<1> QED BY <1>1, <1>2, <1>4, <1>5, <1>6, <1>7, <1>8, <1>9, <1>10, UpdateInd

LEMMA LockCreateInd == ASSUME IndInv, NEW r \in Procs, LockCreate(r) PROVE IndInv'
<1>1. /\ Phase(r) /\ req[r] \in Request /\ req[r].pc = "lock" /\ UNCHANGED <<content, held>>
      /\ req[r].claimed = {} /\ req[r].mine = {} /\ req[r].src \in Paths /\ req[r].deep \in BOOLEAN
  BY DEF IndInv, TypeOK, LockCreate, Phase, PhaseOf, TakesNothing, Request
<1>2. CASE ~CanCreate(req[r].src, req[r].deep)
  <2>1. Done(r) /\ UNCHANGED <<locks, issued>>
    BY <1>2 DEF LockCreate
  <2>2. \A s \in Procs \ {r} : req[s].pc = "reserve" => req[s].tok \notin issued'
    BY <2>1 DEF IndInv, Phase, PhaseOf
  <2> QED BY <1>1, <2>1, <2>2, DoneInd DEF IndInv, TypeOK
<1>3. ASSUME CanCreate(req[r].src, req[r].deep) PROVE IndInv'
  <2>1. PICK t \in FreshTokens :
          /\ locks' = locks \cup {[token |-> t, root |-> req[r].src, deep |-> req[r].deep]}
          /\ IF req[r].missing
             THEN Serve(r, [req[r] EXCEPT !.pc = "reserve", !.tok = t]) /\ issued' = issued
             ELSE Done(r) /\ issued' = issued \cup {t}
    BY <1>3 DEF LockCreate
  <2>2. t \in Tokens /\ t \notin issued /\ (\A s \in Procs : req[s].tok # t) /\ t \notin BriefTokens
    BY LocksAssumption DEF FreshTokens, BriefTokens
  <2>3. Exclusive'
    BY <1>1, <1>3, <2>1, <2>2, CreateExclusive DEF IndInv
  <2>4. /\ locks' \subseteq [token : Tokens \cup BriefTokens, root : Paths, deep : BOOLEAN]
        /\ content' \in [Paths -> {"none", "dir", "empty", "data"}]
        /\ issued \subseteq issued' /\ issued' \subseteq Tokens /\ held' \subseteq {l.token : l \in locks'}
    <3>1. [token |-> t, root |-> req[r].src, deep |-> req[r].deep]
             \in [token : Tokens \cup BriefTokens, root : Paths, deep : BOOLEAN]
      BY <1>1, <2>2
    <3> QED BY <1>1, <2>1, <2>2, <3>1 DEF IndInv, TypeOK
  <2>5. \A l \in locks' : l.token \in BriefTokens => l \in locks /\ l.token \notin req[r].mine
    BY <1>1, <2>1, <2>2
  <2>6. \A s \in Procs \ {r} : req[s].pc = "reserve" => req[s].tok \notin issued'
    BY <2>1, <2>2 DEF IndInv, Phase, PhaseOf
  <2>7. CASE req[r].missing
    <3> DEFINE q == [req[r] EXCEPT !.pc = "reserve", !.tok = t]
    <3>1. q \in Request /\ q.pc = "reserve" /\ q.tok = t /\ q.mine = {} /\ q.claimed = {} /\ q.src = req[r].src
      BY <1>1, <2>2 DEF Request
    <3>2. req' = [req EXCEPT ![r] = q] /\ issued' = issued
      BY <2>1, <2>7 DEF Serve
    <3>3. PhaseOf(r, q.pc, q, held', issued')
      BY <1>1, <2>2, <3>1, <3>2, LocksAssumption DEF PhaseOf, TakesNothing
    <3>4. held' = (held \ req[r].claimed) \cup q.claimed /\ q.claimed \subseteq issued'
      BY <1>1, <3>1
    <3>5. \A s \in Procs \ {r} : req[s].tok # q.tok /\ q.claimed \cap req[s].claimed = {}
      BY <2>2, <3>1
    <3> HIDE DEF q
    <3> QED BY <2>3, <2>4, <2>5, <2>6, <3>1, <3>2, <3>3, <3>4, <3>5, UpdateInd
  <2>8. CASE ~req[r].missing
    <3>1. Done(r)
      BY <2>1, <2>8
    <3>2. Idle \in Request /\ Idle.claimed = {} /\ Idle.mine = {} /\ Idle.pc = "idle" /\ PhaseOf(r, Idle.pc, Idle, held', issued')
      BY DEF Idle, Request, Methods, PhaseOf, TakesNothing
    <3> QED BY <1>1, <2>3, <2>4, <2>5, <2>6, <3>1, <3>2, UpdateInd DEF Done, Serve
  <2> QED BY <2>7, <2>8
<1> QED BY <1>2, <1>3

LEMMA ReserveInd == ASSUME IndInv, NEW r \in Procs, Reserve(r) PROVE IndInv'
<1>1. /\ Phase(r) /\ req[r].pc = "reserve" /\ UNCHANGED <<locks, held>> /\ Done(r)
      /\ req[r].claimed = {} /\ req[r].mine = {} /\ req[r].tok \in Tokens /\ issued' = issued \cup {req[r].tok}
  BY DEF IndInv, Reserve, Phase, PhaseOf, TakesNothing
<1>2. content' \in [Paths -> {"none", "dir", "empty", "data"}] /\ issued' \subseteq Tokens /\ held' \subseteq {l.token : l \in locks'}
  BY <1>1 DEF IndInv, TypeOK, Reserve
<1>3. \A s \in Procs \ {r} : req[s].pc = "reserve" => req[s].tok \notin issued'
  BY <1>1 DEF IndInv, Phase, PhaseOf, ReservesApart
<1> QED BY <1>1, <1>2, <1>3, DoneInd

LEMMA ReserveFailsInd == ASSUME IndInv, NEW r \in Procs, ReserveFails(r) PROVE IndInv'
<1>1. /\ Phase(r) /\ req[r].pc = "reserve" /\ UNCHANGED <<content, held, issued>> /\ Done(r)
      /\ req[r].claimed = {} /\ req[r].mine = {} /\ req[r].tok \notin issued /\ locks' = Unlocked({req[r].tok})
  BY DEF IndInv, ReserveFails, Phase, PhaseOf, TakesNothing
<1>2. content' \in [Paths -> {"none", "dir", "empty", "data"}] /\ issued' \subseteq Tokens
  BY <1>1 DEF IndInv, TypeOK
<1>3. held' \subseteq {l.token : l \in locks'}
  BY <1>1 DEF IndInv, TypeOK, Unlocked
<1>4. \A s \in Procs \ {r} : req[s].pc = "reserve" => req[s].tok \notin issued'
  BY <1>1 DEF IndInv, Phase, PhaseOf
<1> QED BY <1>1, <1>2, <1>3, <1>4, DoneInd DEF Unlocked

\* A lock that nobody holds goes, and no request is the poorer.
LEMMA GoneInd ==
  ASSUME IndInv, locks' \subseteq locks, held \subseteq {l.token : l \in locks'}, UNCHANGED <<content, held, issued, req>>
  PROVE  IndInv'
<1>1. Exclusive'
  BY FewerExclusive DEF IndInv
<1>2. TypeOK' /\ (held \subseteq issued)' /\ ClaimsApart' /\ ReservesApart' /\ NothingStaysHeld'
  BY DEF IndInv, TypeOK, ClaimsApart, ReservesApart, NothingStaysHeld
<1>3. \A r \in Procs : Phase(r)'
  BY DEF IndInv, Phase
<1> QED BY <1>1, <1>2, <1>3 DEF IndInv

LEMMA NextInd == ASSUME IndInv, [Next]_vars PROVE IndInv'
<1>1. ASSUME NEW r \in Procs, NEW m \in Methods, NEW s \in Paths \cup {None}, NEW d \in Paths \cup {None},
             NEW t \in Tokens \cup {None}, Arrive(r, m, s, d, t)
      PROVE  IndInv'
  BY <1>1, ArriveInd
<1>2. ASSUME NEW r \in Procs, Gate(r) PROVE IndInv'
  BY <1>2, GateInd
<1>3. ASSUME NEW r \in Procs, Run(r) \/ MoveRows(r) \/ RunFails(r) PROVE IndInv'
  BY <1>3, RunInd
<1>4. ASSUME NEW r \in Procs, Release(r) PROVE IndInv'
  BY <1>4, ReleaseInd
<1>5. ASSUME NEW r \in Procs, NEW p \in Paths, NEW deep \in BOOLEAN, LockStat(r, p, deep) PROVE IndInv'
  BY <1>5, LockStatInd
<1>6. ASSUME NEW r \in Procs, LockCreate(r) \/ Reserve(r) \/ ReserveFails(r) PROVE IndInv'
  BY <1>6, LockCreateInd, ReserveInd, ReserveFailsInd
<1>7. ASSUME NEW t \in Tokens, Unlock(t) PROVE IndInv'
  <2>1. locks' = Unlocked({t}) /\ t \notin held /\ UNCHANGED <<content, held, issued, req>>
    BY <1>7 DEF Unlock
  <2>2. held \subseteq {l.token : l \in locks'}
    BY <2>1 DEF IndInv, TypeOK, Unlocked
  <2> QED BY <2>1, <2>2, GoneInd DEF Unlocked
<1>8. ASSUME NEW l \in locks, Expire(l) PROVE IndInv'
  <2>1. locks' = locks \ {l} /\ l.token \notin held /\ UNCHANGED <<content, held, issued, req>>
    BY <1>8 DEF Expire
  <2>2. held \subseteq {k.token : k \in locks'}
    BY <2>1 DEF IndInv, TypeOK
  <2> QED BY <2>1, <2>2, GoneInd
<1>9. CASE Restart
  <2>1. Idle \in Request /\ Idle.claimed = {} /\ Idle.mine = {} /\ Idle.pc = "idle"
    BY DEF Idle, Request, Methods
  <2>2. locks' = {} /\ held' = {} /\ req' = [r \in Procs |-> Idle] /\ UNCHANGED <<content, issued>>
    BY <1>9 DEF Restart
  <2>3. TypeOK' /\ Exclusive' /\ (held \subseteq issued)'
    BY <2>1, <2>2 DEF IndInv, TypeOK, Exclusive
  <2>4. \A r \in Procs : Phase(r)'
    BY <2>1, <2>2 DEF Phase, PhaseOf, TakesNothing
  <2>5. ClaimsApart' /\ ReservesApart' /\ NothingStaysHeld'
    BY <2>1, <2>2 DEF ClaimsApart, ReservesApart, NothingStaysHeld
  <2> QED BY <2>3, <2>4, <2>5 DEF IndInv
<1>10. CASE UNCHANGED vars
  BY <1>10, GoneInd DEF vars, IndInv, TypeOK
<1> QED BY <1>1, <1>2, <1>3, <1>4, <1>5, <1>6, <1>7, <1>8, <1>9, <1>10 DEF Next

LEMMA Inductive == Spec => []IndInv
<1>1. Init => IndInv
  BY InitInd
<1>2. IndInv /\ [Next]_vars => IndInv'
  BY NextInd
<1> QED BY <1>1, <1>2, PTL DEF Spec

\* TypeOK: what the lock system and the requests are ever like, whatever the
\* clients send and however often the process restarts.
THEOREM LocksTypeCorrect == Spec => []TypeOK
<1>1. IndInv => TypeOK
  BY DEF IndInv
<1> QED BY <1>1, Inductive, PTL

\* NothingStaysHeld: every way out of the gate and every method gives back the
\* locks and the claims a request took (confirmLocks, lockForTheRequest and the
\* release they return).
THEOREM NothingIsLeftLocked == Spec => []NothingStaysHeld
<1>1. IndInv => NothingStaysHeld
  BY DEF IndInv
<1> QED BY <1>1, Inductive, PTL
-----------------------------------------------------------------------------
(* The paths a request has got a lock on, while no brief lock runs out.    *)

Secured(q) ==
  {p \in {q.src, q.dst} \ {None} :
     \/ q.pc \in {"run", "move"}
     \/ q.pc \in {"holdDst", "otherDst"} /\ p = q.src
     \/ q.pc = "otherSrc" /\ p = q.dst}

\* Each of them is covered by a lock that the request took or claimed.
GuardedBy(q, ls) == \A p \in Secured(q) : \E l \in ls : Covers(l, p) /\ l.token \in q.mine \cup q.claimed

Guarded == \A r \in Procs : GuardedBy(req[r], locks)

\* It stays so while no such lock goes.
LEMMA StillGuarded ==
  ASSUME NEW q, NEW ls, NEW ms, GuardedBy(q, ls), \A l \in ls : l.token \in q.mine \cup q.claimed => l \in ms,
         NEW n, Secured(n) \subseteq Secured(q), q.mine \subseteq n.mine, q.claimed \subseteq n.claimed
  PROVE  GuardedBy(n, ms)
  BY DEF GuardedBy

\* What a request goes without is not what another one has.
LEMMA OwnApart ==
  ASSUME IndInv, NEW r \in Procs
  PROVE  /\ \A s \in Procs \ {r} : req[s].mine \cap Own(r) = {}
         /\ \A s \in Procs \ {r} : req[s].pc = "reserve" => req[s].tok \notin Own(r)
         /\ \A t \in issued : t \notin held => t \notin Own(r)
         /\ Own(r) \subseteq held \cup BriefTokens
<1>1. /\ req[r].mine \subseteq BriefTokens /\ req[r].claimed \subseteq held /\ held \subseteq issued /\ issued \subseteq Tokens
      /\ Tokens \cap BriefTokens = {}
  BY LocksAssumption DEF IndInv, TypeOK, Phase, PhaseOf, BriefTokens
<1>2. ASSUME NEW s \in Procs \ {r} PROVE req[s].mine \cap Own(r) = {}
  <2>1. req[s].mine \subseteq {s} \X {"src", "dst"} /\ req[r].mine \subseteq {r} \X {"src", "dst"}
    BY DEF IndInv, Phase, PhaseOf
  <2>2. req[s].mine \subseteq BriefTokens
    BY <2>1 DEF BriefTokens
  <2> QED BY <1>1, <2>1, <2>2 DEF Own
<1>3. ASSUME NEW s \in Procs \ {r}, req[s].pc = "reserve" PROVE req[s].tok \notin Own(r)
  <2>1. req[s].tok \in Tokens /\ req[s].tok \notin issued
    BY <1>3 DEF IndInv, Phase, PhaseOf
  <2> QED BY <1>1, <2>1 DEF Own
<1>4. ASSUME NEW t \in issued, t \notin held PROVE t \notin Own(r)
  BY <1>1, <1>4 DEF Own
<1>5. Own(r) \subseteq held \cup BriefTokens
  BY <1>1 DEF Own
<1> QED BY <1>2, <1>3, <1>4, <1>5

\* A step of one request takes no lock of another.
LEMMA OthersGuarded ==
  ASSUME IndInv, Guarded, NEW s \in Procs, NEW r \in Procs \ {s}, req'[r] = req[r],
         \/ locks \subseteq locks'
         \/ locks' = Unlocked(req[s].mine)
         \/ req[s].pc = "reserve" /\ locks' = Unlocked({req[s].tok})
  PROVE  GuardedBy(req'[r], locks')
<1>1. \A l \in locks : l.token \in req[r].mine \cup req[r].claimed => l \in locks'
  BY OwnApart DEF Unlocked, Own
<1> QED BY <1>1, StillGuarded DEF Guarded

\* The step of a request that goes on with what it has.
LEMMA SameGuarded ==
  ASSUME IndInv, Guarded, NEW r \in Procs, NEW pc \in {"holdDst", "otherDst", "run", "move"}, Goto(r, pc), locks' = locks,
         \/ req[r].pc = "run" /\ pc = "move"
         \/ req[r].pc = "holdDst" /\ pc = "run" /\ req[r].dst = None
         \/ req[r].src = None /\ pc \in {"holdDst", "otherDst"}
  PROVE  GuardedBy(req'[r], locks')
<1> DEFINE q == [req[r] EXCEPT !.pc = pc]
<1>1. req[r] \in Request /\ req'[r] = q
  BY DEF Goto, IndInv, TypeOK
<1>2. q.pc = pc /\ q.src = req[r].src /\ q.dst = req[r].dst /\ q.mine = req[r].mine /\ q.claimed = req[r].claimed
  BY <1>1 DEF Request
<1> HIDE DEF q
<1>3. Secured(q) \subseteq Secured(req[r])
  BY <1>2 DEF Secured
<1> QED BY <1>1, <1>2, <1>3, StillGuarded DEF Guarded

\* A request that is over, or has not begun, needs nothing.
LEMMA NothingToGuard == ASSUME NEW q, NEW ls, q.pc \in TakesNothing \cup {"release"} PROVE GuardedBy(q, ls)
  BY DEF GuardedBy, Secured, TakesNothing

\* The step that holds a path.
LEMMA HoldGuarded ==
  ASSUME IndInv, Guarded, NEW r \in Procs, NEW p \in Paths, NEW end \in {"src", "dst"}, NEW pc \in {"holdDst", "run"},
         Hold(r, p, end, pc), {req[r].src, req[r].dst} \ {None, p} \subseteq Secured(req[r]) \/ (pc = "holdDst" /\ p = req[r].src)
  PROVE  GuardedBy(req'[r], locks')
<1> DEFINE q == [req[r] EXCEPT !.pc = pc, !.mine = @ \cup {<<r, end>>}]
           n == [token |-> <<r, end>>, root |-> p, deep |-> FALSE]
<1>1. req[r] \in Request /\ req'[r] = q /\ locks' = locks \cup {n}
  BY DEF Hold, Serve, IndInv, TypeOK
<1>2. /\ q.mine = req[r].mine \cup {<<r, end>>} /\ q.claimed = req[r].claimed /\ q.pc = pc
      /\ q.src = req[r].src /\ q.dst = req[r].dst
  BY <1>1 DEF Request
<1>3. n \in locks' /\ Covers(n, p) /\ n.token = <<r, end>>
  BY <1>1 DEF Covers
<1> HIDE DEF q, n
<1>4. ASSUME NEW x \in Secured(q) PROVE x = p \/ x \in Secured(req[r])
  BY <1>2, <1>4 DEF Secured
<1>5. ASSUME NEW x \in Secured(q) PROVE \E l \in locks' : Covers(l, x) /\ l.token \in q.mine \cup q.claimed
  <2>1. CASE x = p
    BY <1>2, <1>3, <2>1
  <2>2. CASE x \in Secured(req[r])
    <3>1. PICK l \in locks : Covers(l, x) /\ l.token \in req[r].mine \cup req[r].claimed
      BY <2>2 DEF Guarded, GuardedBy
    <3> QED BY <1>1, <1>2, <3>1
  <2> QED BY <1>4, <2>1, <2>2
<1> QED BY <1>1, <1>5 DEF GuardedBy

\* The step that claims a lock for every path that has to be covered by then.
LEMMA ClaimGuarded ==
  ASSUME IndInv, NEW r \in Procs, NEW pc \in {"run", "otherDst", "otherSrc"}, Claim(r, pc), locks' = locks,
         \A p \in Secured([req[r] EXCEPT !.pc = pc]) : Confirms(req[r].tok, p)
  PROVE  GuardedBy(req'[r], locks')
<1> DEFINE q == [req[r] EXCEPT !.pc = pc, !.claimed = {req[r].tok}]
           w == [req[r] EXCEPT !.pc = pc]
<1>1. req[r] \in Request /\ req'[r] = q
  BY DEF Claim, Serve, IndInv, TypeOK
<1>2. /\ q.claimed = {req[r].tok} /\ q.pc = pc /\ q.src = req[r].src /\ q.dst = req[r].dst
      /\ w.pc = pc /\ w.src = req[r].src /\ w.dst = req[r].dst
  BY <1>1 DEF Request
<1>3. \A p \in Secured(w) : Confirms(req[r].tok, p)
  OBVIOUS
<1> HIDE DEF q, w
<1>4. Secured(q) = Secured(w)
  BY <1>2 DEF Secured
<1>5. \A p \in Secured(q) : p # None
  BY DEF Secured
<1> QED BY <1>1, <1>2, <1>3, <1>4, <1>5 DEF GuardedBy, Confirms

\* Every step of a request leaves it guarded.
LEMMA GateGuarded == ASSUME IndInv, Guarded, NEW r \in Procs, Gate(r) PROVE GuardedBy(req'[r], locks')
<1>1. req \in [Procs -> Request] /\ Phase(r) /\ req[r] \in Request
  BY DEF IndInv, TypeOK
<1>2. ASSUME Done(r) PROVE GuardedBy(req'[r], locks')
  <2>1. req'[r] = Idle /\ Idle.pc = "idle"
    BY <1>1, <1>2 DEF Done, Serve, Idle
  <2> QED BY <2>1, NothingToGuard DEF TakesNothing
<1>3. ASSUME NEW pc \in TakesNothing \cup {"release"}, Goto(r, pc) PROVE GuardedBy(req'[r], locks')
  <2>1. req'[r].pc = pc
    BY <1>1, <1>3 DEF Goto, Request
  <2> QED BY <2>1, NothingToGuard
<1>4. CASE HoldSrc(r)
  <2>1. CASE req[r].src = None
    BY <1>4, <2>1, SameGuarded DEF HoldSrc
  <2>2. CASE req[r].src # None /\ CanCreate(req[r].src, FALSE)
    <3>1. req[r].src \in Paths /\ Hold(r, req[r].src, "src", "holdDst")
      BY <1>1, <1>4, <2>2 DEF HoldSrc, Request
    <3> QED BY <3>1, HoldGuarded
  <2>3. CASE req[r].src # None /\ ~CanCreate(req[r].src, FALSE)
    BY <1>2, <1>4, <2>3 DEF HoldSrc
  <2> QED BY <2>1, <2>2, <2>3
<1>5. CASE HoldDst(r)
  <2>1. CASE req[r].dst = None
    BY <1>5, <2>1, SameGuarded DEF HoldDst
  <2>2. CASE req[r].dst # None /\ CanCreate(req[r].dst, FALSE)
    <3>1. req[r].dst \in Paths /\ Hold(r, req[r].dst, "dst", "run")
      BY <1>1, <1>5, <2>2 DEF HoldDst, Request
    <3>2. {req[r].src, req[r].dst} \ {None, req[r].dst} \subseteq Secured(req[r])
      BY <1>5 DEF HoldDst, Secured
    <3> QED BY <3>1, <3>2, HoldGuarded
  <2>3. CASE req[r].dst # None /\ ~CanCreate(req[r].dst, FALSE)
    BY <1>2, <1>5, <2>3 DEF HoldDst
  <2> QED BY <2>1, <2>2, <2>3
<1>6. CASE CheckToken(r)
  BY <1>2, <1>3, <1>6 DEF CheckToken, TakesNothing
<1>7. CASE ClaimBoth(r)
  <2>1. CASE Claim(r, "run") /\ Confirms(req[r].tok, req[r].src) /\ Confirms(req[r].tok, req[r].dst)
    <3> DEFINE w == [req[r] EXCEPT !.pc = "run"]
    <3>1. w.src = req[r].src /\ w.dst = req[r].dst
      BY <1>1 DEF Request
    <3>2. \A p \in Secured(w) : Confirms(req[r].tok, p)
      BY <2>1, <3>1 DEF Secured
    <3> QED BY <1>7, <2>1, <3>2, ClaimGuarded DEF ClaimBoth
  <2>2. CASE Goto(r, IF req[r].dst = None THEN "holdSrc" ELSE "claimSrc")
    BY <1>3, <2>2 DEF TakesNothing
  <2> QED BY <1>7, <2>1, <2>2 DEF ClaimBoth
<1>8. CASE ClaimSrc(r)
  <2>1. CASE req[r].src = None
    BY <1>8, <2>1, SameGuarded DEF ClaimSrc
  <2>2. CASE req[r].src # None /\ Claim(r, "otherDst") /\ Confirms(req[r].tok, req[r].src)
    <3> DEFINE w == [req[r] EXCEPT !.pc = "otherDst"]
    <3>1. w.src = req[r].src /\ w.dst = req[r].dst /\ w.pc = "otherDst"
      BY <1>1 DEF Request
    <3>2. \A p \in Secured(w) : Confirms(req[r].tok, p)
      BY <2>2, <3>1 DEF Secured
    <3> QED BY <1>8, <2>2, <3>2, ClaimGuarded DEF ClaimSrc
  <2>3. CASE Goto(r, "claimDst")
    BY <1>3, <2>3 DEF TakesNothing
  <2> QED BY <1>8, <2>1, <2>2, <2>3 DEF ClaimSrc
<1>9. CASE ClaimDst(r)
  <2>1. CASE Claim(r, "otherSrc") /\ Confirms(req[r].tok, req[r].dst)
    <3> DEFINE w == [req[r] EXCEPT !.pc = "otherSrc"]
    <3>1. w.src = req[r].src /\ w.dst = req[r].dst /\ w.pc = "otherSrc"
      BY <1>1 DEF Request
    <3>2. \A p \in Secured(w) : Confirms(req[r].tok, p)
      BY <2>1, <3>1 DEF Secured
    <3> QED BY <1>9, <2>1, <3>2, ClaimGuarded DEF ClaimDst
  <2>2. CASE Goto(r, "holdSrc")
    BY <1>3, <2>2 DEF TakesNothing
  <2> QED BY <1>9, <2>1, <2>2 DEF ClaimDst
<1>10. ASSUME NEW p \in Paths, NEW end \in {"src", "dst"}, NEW next \in {"holdSrc", "claimDst"}, HoldOther(r, p, end, next),
              {req[r].src, req[r].dst} \ {None, p} \subseteq Secured(req[r])
       PROVE  GuardedBy(req'[r], locks')
  <2>1. CASE CanCreate(p, FALSE)
    BY <1>10, <2>1, HoldGuarded DEF HoldOther
  <2>2. CASE ~CanCreate(p, FALSE)
    <3>1. req'[r].pc = next
      BY <1>1, <1>10, <2>2 DEF HoldOther, Serve, Request
    <3> QED BY <3>1, NothingToGuard DEF TakesNothing
  <2> QED BY <2>1, <2>2
<1>11. CASE OtherDst(r)
  <2>1. req[r].dst \in Paths /\ {req[r].src, req[r].dst} \ {None, req[r].dst} \subseteq Secured(req[r])
    BY <1>1, <1>11 DEF OtherDst, Phase, PhaseOf, Request, Secured
  <2> QED BY <1>10, <1>11, <2>1 DEF OtherDst
<1>12. CASE OtherSrc(r)
  <2>1. req[r].src \in Paths /\ {req[r].src, req[r].dst} \ {None, req[r].src} \subseteq Secured(req[r])
    BY <1>1, <1>12 DEF OtherSrc, Phase, PhaseOf, Request, Secured
  <2> QED BY <1>10, <1>12, <2>1 DEF OtherSrc
<1> QED BY <1>4, <1>5, <1>6, <1>7, <1>8, <1>9, <1>11, <1>12 DEF Gate

\* Behind the gate a request keeps what it has until it is over.
LEMMA RunGuarded ==
  ASSUME IndInv, Guarded, NEW r \in Procs, Run(r) \/ MoveRows(r) \/ RunFails(r)
  PROVE  GuardedBy(req'[r], locks')
<1>1. req[r] \in Request /\ req[r].pc \in {"run", "move"} /\ locks' = locks
  BY DEF IndInv, TypeOK, Run, MoveRows, RunFails
<1>2. CASE Goto(r, "move") /\ req[r].pc = "run"
  BY <1>1, <1>2, SameGuarded
<1>3. CASE Goto(r, "release")
  <2>1. req'[r].pc = "release"
    BY <1>1, <1>3 DEF Goto, IndInv, TypeOK, Request
  <2> QED BY <2>1, NothingToGuard
<1> QED BY <1>2, <1>3 DEF Run, MoveRows, RunFails

\* The steps after which a request has nothing, or has taken nothing yet.
LEMMA FreeGuarded ==
  ASSUME IndInv, NEW r \in Procs, NEW q, req' = [req EXCEPT ![r] = q], q.pc \in TakesNothing \cup {"release"}
  PROVE  GuardedBy(req'[r], locks')
  BY NothingToGuard DEF IndInv, TypeOK

LEMMA GuardedNext ==
  ASSUME BriefExpires = FALSE, IndInv, Guarded, [Next]_vars
  PROVE  Guarded'
<1>1. ASSUME NEW s \in Procs, GuardedBy(req'[s], locks'), \A r \in Procs \ {s} : req'[r] = req[r],
             \/ locks \subseteq locks'
             \/ locks' = Unlocked(req[s].mine)
             \/ req[s].pc = "reserve" /\ locks' = Unlocked({req[s].tok})
      PROVE  Guarded'
  BY <1>1, OthersGuarded DEF Guarded
<1>2. ASSUME NEW s \in Procs, NEW q, Serve(s, q)
      PROVE  \A r \in Procs \ {s} : req'[r] = req[r]
  BY <1>2 DEF Serve, IndInv, TypeOK
<1>3. ASSUME NEW s \in Procs, NEW pc, Goto(s, pc)
      PROVE  \A r \in Procs \ {s} : req'[r] = req[r]
  BY <1>3 DEF Goto, IndInv, TypeOK
<1>4. ASSUME NEW r \in Procs, NEW m \in Methods, NEW s \in Paths \cup {None}, NEW d \in Paths \cup {None},
             NEW t \in Tokens \cup {None}, Arrive(r, m, s, d, t)
      PROVE  Guarded'
  <2> DEFINE q == [Idle EXCEPT !.pc = IF t = None THEN "holdSrc" ELSE "covers",
                               !.method = m, !.src = s, !.dst = d, !.tok = t]
  <2>1. q.pc \in TakesNothing
    BY DEF Idle, TakesNothing
  <2>2. Serve(r, q) /\ locks' = locks
    BY <1>4 DEF Arrive
  <2> HIDE DEF q
  <2>3. GuardedBy(req'[r], locks')
    BY <2>1, <2>2, FreeGuarded DEF Serve
  <2> QED BY <1>1, <1>2, <2>2, <2>3
<1>5. ASSUME NEW r \in Procs, Gate(r) PROVE Guarded'
  <2>1. GuardedBy(req'[r], locks')
    BY <1>5, GateGuarded
  <2>2. \A s \in Procs \ {r} : req'[s] = req[s]
    BY <1>5 DEF Gate, HoldSrc, HoldDst, CheckToken, ClaimBoth, ClaimSrc, OtherDst, ClaimDst, OtherSrc,
                HoldOther, Hold, Claim, Goto, Serve, Done, IndInv, TypeOK
  <2>3. locks \subseteq locks' \/ locks' = Unlocked(req[r].mine)
    BY <1>5 DEF Gate, HoldSrc, HoldDst, CheckToken, ClaimBoth, ClaimSrc, OtherDst, ClaimDst, OtherSrc,
                HoldOther, Hold
  <2> QED BY <1>1, <2>1, <2>2, <2>3
<1>6. ASSUME NEW r \in Procs, Run(r) \/ MoveRows(r) \/ RunFails(r) PROVE Guarded'
  <2>1. GuardedBy(req'[r], locks')
    BY <1>6, RunGuarded
  <2>2. locks' = locks /\ (Goto(r, "release") \/ Goto(r, "move"))
    BY <1>6 DEF Run, MoveRows, RunFails
  <2> QED BY <1>1, <1>3, <2>1, <2>2
<1>7. ASSUME NEW r \in Procs, Done(r),
             \/ locks \subseteq locks'
             \/ locks' = Unlocked(req[r].mine)
             \/ req[r].pc = "reserve" /\ locks' = Unlocked({req[r].tok})
      PROVE  Guarded'
  <2>1. Serve(r, Idle) /\ Idle.pc \in TakesNothing
    BY <1>7 DEF Done, Idle, TakesNothing
  <2>2. GuardedBy(req'[r], locks')
    BY <2>1, FreeGuarded DEF Serve
  <2> QED BY <1>1, <1>2, <1>7, <2>1, <2>2
<1>8. ASSUME NEW r \in Procs, Release(r) PROVE Guarded'
  BY <1>7, <1>8 DEF Release
<1>9. ASSUME NEW r \in Procs, NEW p \in Paths, NEW deep \in BOOLEAN, LockStat(r, p, deep) PROVE Guarded'
  <2> DEFINE q == [Idle EXCEPT !.pc = "lock", !.src = p, !.deep = deep, !.missing = content[p] = "none"]
  <2>1. q.pc \in TakesNothing
    BY DEF Idle, TakesNothing
  <2>2. Serve(r, q) /\ locks' = locks
    BY <1>9 DEF LockStat
  <2> HIDE DEF q
  <2>3. GuardedBy(req'[r], locks')
    BY <2>1, <2>2, FreeGuarded DEF Serve
  <2> QED BY <1>1, <1>2, <2>2, <2>3
<1>10. ASSUME NEW r \in Procs, LockCreate(r) PROVE Guarded'
  <2>1. locks \subseteq locks'
    BY <1>10 DEF LockCreate
  <2>2. CASE Done(r)
    BY <1>7, <2>1, <2>2
  <2>3. ASSUME NEW t \in FreshTokens, Serve(r, [req[r] EXCEPT !.pc = "reserve", !.tok = t]) PROVE Guarded'
    <3> DEFINE q == [req[r] EXCEPT !.pc = "reserve", !.tok = t]
    <3>1. q.pc \in TakesNothing
      BY DEF IndInv, TypeOK, Request, TakesNothing
    <3>2. Serve(r, q)
      BY <2>3
    <3> HIDE DEF q
    <3>3. GuardedBy(req'[r], locks')
      BY <3>1, <3>2, FreeGuarded DEF Serve
    <3> QED BY <1>1, <1>2, <2>1, <3>2, <3>3
  <2> QED BY <1>10, <2>2, <2>3 DEF LockCreate
<1>11. ASSUME NEW r \in Procs, Reserve(r) \/ ReserveFails(r) PROVE Guarded'
  BY <1>7, <1>11 DEF Reserve, ReserveFails
<1>12. ASSUME UNCHANGED req, \A l \in locks : l \in locks' \/ (l.token \notin held /\ l.token \notin BriefTokens)
       PROVE  Guarded'
  <2>1. ASSUME NEW r \in Procs PROVE GuardedBy(req[r], locks')
    <3>1. \A l \in locks : l.token \in req[r].mine \cup req[r].claimed => l \in locks'
      BY <1>12, OwnApart DEF Own
    <3> QED BY <3>1, StillGuarded DEF Guarded
  <2> QED BY <1>12, <2>1 DEF Guarded
<1>13. ASSUME NEW t \in Tokens, Unlock(t) PROVE Guarded'
  BY <1>12, <1>13, LocksAssumption DEF Unlock, Unlocked, BriefTokens
<1>14. ASSUME NEW l \in locks, Expire(l) PROVE Guarded'
  BY <1>12, <1>14 DEF Expire
<1>15. CASE Restart
  <2>1. \A r \in Procs : req'[r].pc = "idle"
    BY <1>15 DEF Restart, Idle
  <2> QED BY <2>1, NothingToGuard DEF Guarded, TakesNothing
<1>16. CASE UNCHANGED vars
  BY <1>12, <1>16 DEF vars
<1> QED BY <1>4, <1>5, <1>6, <1>8, <1>9, <1>10, <1>11, <1>13, <1>14, <1>15, <1>16 DEF Next

LEMMA GuardedAlways == BriefExpires = FALSE /\ Spec => []Guarded
<1>1. Init => Guarded
  BY NothingToGuard DEF Init, Guarded, Idle, TakesNothing
<1>2. BriefExpires = FALSE /\ IndInv /\ Guarded /\ [Next]_vars => Guarded'
  BY GuardedNext
<1>3. CASE BriefExpires = FALSE
  <2>1. IndInv /\ Guarded /\ [Next]_vars => Guarded'
    BY <1>2, <1>3
  <2> QED BY <1>1, <2>1, Inductive, PTL DEF Spec
<1> QED BY <1>3

\* ForeignLocksRefuse: while a request writes, whatever lock covers a path of
\* its is one it took or claimed (locks.go:25), if briefLock outlasts it.
THEOREM GateKeepsOthersOut == BriefExpires = FALSE /\ Spec => []ForeignLocksRefuse
<1>1. IndInv /\ Guarded => ForeignLocksRefuse
  <2> SUFFICES ASSUME IndInv, Guarded, NEW r \in Procs, Running(r), NEW p \in Touched(r), NEW l \in locks, Covers(l, p)
               PROVE  l.token \in Own(r)
    BY DEF ForeignLocksRefuse
  <2>1. p \in Secured(req[r]) /\ p \in Paths
    BY DEF Secured, Touched, Running, IndInv, TypeOK, Request
  <2>2. PICK m \in locks : Covers(m, p) /\ m.token \in Own(r)
    BY <2>1 DEF Guarded, GuardedBy, Own
  <2>3. l = m
    BY <2>1, <2>2 DEF IndInv, Exclusive
  <2> QED BY <2>2, <2>3
<1> QED BY <1>1, Inductive, GuardedAlways, PTL

\* OneWriterPerPath: two requests that write never do so on one path, if
\* briefLock outlasts them.
THEOREM WritersAreApart == BriefExpires = FALSE /\ Spec => []OneWriterPerPath
<1>1. IndInv /\ Guarded => OneWriterPerPath
  <2> SUFFICES ASSUME IndInv, Guarded, NEW r \in Procs, NEW s \in Procs, r # s, Running(r), Running(s),
                      NEW p \in Touched(r) \cap Touched(s)
               PROVE  FALSE
    BY DEF OneWriterPerPath
  <2>1. p \in Secured(req[r]) /\ p \in Secured(req[s]) /\ p \in Paths
    BY DEF Secured, Touched, Running, IndInv, TypeOK, Request
  <2>2. PICK l \in locks : Covers(l, p) /\ l.token \in Own(r)
    BY <2>1 DEF Guarded, GuardedBy, Own
  <2>3. PICK m \in locks : Covers(m, p) /\ m.token \in Own(s)
    BY <2>1 DEF Guarded, GuardedBy, Own
  <2>4. l = m
    BY <2>1, <2>2, <2>3 DEF IndInv, Exclusive
  <2>5. Own(r) \cap Own(s) = {}
    <3>1. req[r].mine \cap Own(s) = {} /\ req[s].mine \cap Own(r) = {}
      BY OwnApart
    <3>2. req[r].claimed \cap req[s].claimed = {}
      BY DEF IndInv, ClaimsApart
    <3> QED BY <3>1, <3>2 DEF Own
  <2> QED BY <2>2, <2>3, <2>4, <2>5
<1> QED BY <1>1, Inductive, GuardedAlways, PTL
=============================================================================
