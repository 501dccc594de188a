------------------------------ MODULE DavLocks ------------------------------
(***************************************************************************)
(* WebDAV locking: LOCK and UNLOCK (internal/dav/lock.go), the gate every  *)
(* writing method goes through (internal/dav/locks.go), and the lock       *)
(* system they ask, x/net's memLS behind internal/dav/memlocks.go.         *)
(*                                                                         *)
(* Every call of the lock system is one step, under its mutex.  A request  *)
(* without an If header takes a lock of its own on each path it writes; a  *)
(* request with one claims the lock whose token it names.  Time is not     *)
(* counted: a lock nobody holds may expire at any moment.                  *)
(***************************************************************************)
EXTENDS Naturals, Sequences

CONSTANTS
  None,         \* no such path, no If header
  Paths,        \* sequences of names
  Tokens,       \* bound: tokens LOCK gives out, none of them twice
  Procs,        \* concurrent requests
  BriefExpires  \* a request may last longer than the lock it took (briefLock)

ASSUME LocksAssumption ==
  /\ \A p \in Paths : p \in Seq(STRING) /\ p # <<>>
  /\ None \notin Paths /\ None \notin Tokens
  /\ Tokens \cap (Procs \X {"src", "dst"}) = {}
  /\ BriefExpires \in BOOLEAN

VARIABLES
  content, \* the tree: path -> "none", "dir", "empty" or "data"
  locks,   \* memLS.byToken
  held,    \* tokens of the locks a request has confirmed
  issued,  \* tokens clients were told
  req      \* the request each process is serving

vars == <<content, locks, held, issued, req>>

Under(d, p)     == Len(d) < Len(p) /\ SubSeq(p, 1, Len(d)) = d
AtOrUnder(d, p) == p = d \/ Under(d, p)
ParentOf(p)     == SubSeq(p, 1, Len(p) - 1)

Methods == {"PUT", "DELETE", "MKCOL", "MOVE", "COPY"}
BriefTokens == Procs \X {"src", "dst"}

Idle == [pc |-> "idle", method |-> "PUT", src |-> None, dst |-> None, tok |-> None,
         mine |-> {}, claimed |-> {}, deep |-> FALSE, missing |-> FALSE]
Goto(r, pc)      == req' = [req EXCEPT ![r].pc = pc]
Serve(r, fields) == req' = [req EXCEPT ![r] = fields]
Done(r)          == Serve(r, Idle)

Request ==
  [pc : {"idle", "holdSrc", "holdDst", "covers", "claim", "claimSrc", "otherDst", "claimDst",
         "otherSrc", "run", "move", "release", "lock", "reserve"},
   method : Methods, src : Paths \cup {None}, dst : Paths \cup {None}, tok : Tokens \cup {None},
   mine : SUBSET BriefTokens, claimed : SUBSET Tokens, deep : BOOLEAN, missing : BOOLEAN]

TypeOK ==
  /\ content \in [Paths -> {"none", "dir", "empty", "data"}]
  /\ locks \subseteq [token : Tokens \cup BriefTokens, root : Paths, deep : BOOLEAN]
  /\ held \subseteq {l.token : l \in locks}
  /\ issued \subseteq Tokens
  /\ req \in [Procs -> Request]

Init ==
  /\ content = [p \in Paths |-> "none"]
  /\ locks = {} /\ held = {} /\ issued = {}
  /\ req = [r \in Procs |-> Idle]
-----------------------------------------------------------------------------
(* x/net's memLS.                                                          *)

Covers(l, p) == l.root = p \/ (l.deep /\ Under(l.root, p))

\* canCreate: nothing covers the path, and a lock on a collection finds none
\* below it.
CanCreate(p, deep) ==
  \A l \in locks : ~Covers(l, p) /\ ~(deep /\ Under(p, l.root))

\* lookup: that token names a lock that covers the path and is not held.
Confirms(t, p) == p = None \/ \E l \in locks : l.token = t /\ t \notin held /\ Covers(l, p)

Unlocked(ts) == {l \in locks : l.token \notin ts}
-----------------------------------------------------------------------------
(* confirmLocks.                                                           *)

\* lockedPaths: a COPY leaves its source alone.  An If header names a token.
Arrive(r, method, src, dst, tok) ==
  /\ req[r].pc = "idle"
  /\ (dst = None) = (method \notin {"MOVE", "COPY"})
  /\ (src = None) = (method = "COPY")
  /\ tok \in issued \cup {None}
  /\ Serve(r, [Idle EXCEPT !.pc = IF tok = None THEN "holdSrc" ELSE "covers",
                           !.method = method, !.src = src, !.dst = dst, !.tok = tok])
  /\ UNCHANGED <<content, locks, held, issued>>

Hold(r, p, end, pc) ==
  /\ locks' = locks \cup {[token |-> <<r, end>>, root |-> p, deep |-> FALSE]}
  /\ Serve(r, [req[r] EXCEPT !.pc = pc, !.mine = @ \cup {<<r, end>>}])
  /\ UNCHANGED held

\* lockForTheRequest: the source first.  A refusal is 423, or 412 for a list
\* of an If header.
HoldSrc(r) ==
  /\ req[r].pc = "holdSrc"
  /\ IF req[r].src = None THEN Goto(r, "holdDst") /\ UNCHANGED <<locks, held>>
     ELSE IF CanCreate(req[r].src, FALSE) THEN Hold(r, req[r].src, "src", "holdDst")
     ELSE Done(r) /\ UNCHANGED <<locks, held>>
  /\ UNCHANGED <<content, issued>>

\* Mutant: a refused destination leaves the source locked.
HoldDstKeepingSrc(r) ==
  /\ req[r].pc = "holdDst"
  /\ IF req[r].dst = None THEN Goto(r, "run") /\ UNCHANGED <<locks, held>>
     ELSE IF CanCreate(req[r].dst, FALSE) THEN Hold(r, req[r].dst, "dst", "run")
     ELSE Done(r) /\ UNCHANGED <<locks, held>>
  /\ UNCHANGED <<content, issued>>

\* Then the destination; a refusal gives the source back.
HoldDst(r) ==
  /\ req[r].pc = "holdDst"
  /\ IF req[r].dst = None THEN Goto(r, "run") /\ UNCHANGED <<locks, held>>
     ELSE IF CanCreate(req[r].dst, FALSE) THEN Hold(r, req[r].dst, "dst", "run")
     ELSE locks' = Unlocked(req[r].mine) /\ Done(r) /\ UNCHANGED held
  /\ UNCHANGED <<content, issued>>

\* holds: the token has to cover what the list is about, the Request-URI; for
\* a COPY that is its source, which is not followed here.
CheckToken(r) ==
  /\ req[r].pc = "covers"
  /\ \/ (req[r].src # None => Confirms(req[r].tok, req[r].src)) /\ Goto(r, "claim")
     \/ ~(req[r].src # None /\ Confirms(req[r].tok, req[r].src)) /\ Done(r)
  /\ UNCHANGED <<content, locks, held, issued>>

Claim(r, pc) ==
  /\ held' = held \cup {req[r].tok}
  /\ Serve(r, [req[r] EXCEPT !.pc = pc, !.claimed = {req[r].tok}])

\* claimTouched: both ends at once.
ClaimBoth(r) ==
  /\ req[r].pc = "claim"
  /\ IF Confirms(req[r].tok, req[r].src) /\ Confirms(req[r].tok, req[r].dst) THEN Claim(r, "run")
     ELSE Goto(r, IF req[r].dst = None THEN "holdSrc" ELSE "claimSrc") /\ UNCHANGED held
  /\ UNCHANGED <<content, locks, issued>>

\* One end claimed: for a COPY there is none to claim.
ClaimSrc(r) ==
  /\ req[r].pc = "claimSrc"
  /\ IF req[r].src = None THEN Goto(r, "otherDst") /\ UNCHANGED held
     ELSE IF Confirms(req[r].tok, req[r].src) THEN Claim(r, "otherDst")
     ELSE Goto(r, "claimDst") /\ UNCHANGED held
  /\ UNCHANGED <<content, locks, issued>>

\* And the other one held; a refusal gives the claim back.
HoldOther(r, p, end, next) ==
  IF CanCreate(p, FALSE) THEN Hold(r, p, end, "run")
  ELSE /\ held' = held \ req[r].claimed
       /\ Serve(r, [req[r] EXCEPT !.pc = next, !.claimed = {}])
       /\ UNCHANGED locks

\* Mutant: the other end is taken for free without asking.
OtherDstUnasked(r) ==
  /\ req[r].pc = "otherDst"
  /\ Goto(r, "run")
  /\ UNCHANGED <<content, locks, held, issued>>

OtherDst(r) ==
  /\ req[r].pc = "otherDst"
  /\ HoldOther(r, req[r].dst, "dst", IF req[r].src = None THEN "holdSrc" ELSE "claimDst")
  /\ UNCHANGED <<content, issued>>

ClaimDst(r) ==
  /\ req[r].pc = "claimDst"
  /\ IF Confirms(req[r].tok, req[r].dst) THEN Claim(r, "otherSrc")
     ELSE Goto(r, "holdSrc") /\ UNCHANGED held
  /\ UNCHANGED <<content, locks, issued>>

OtherSrc(r) ==
  /\ req[r].pc = "otherSrc"
  /\ HoldOther(r, req[r].src, "src", "holdSrc")
  /\ UNCHANGED <<content, issued>>
-----------------------------------------------------------------------------
(* What the methods do to the tree, once they are through.                 *)

HasParent(p) == Len(p) = 1 \/ (ParentOf(p) \in Paths /\ content[ParentOf(p)] = "dir")
Without(p)   == [q \in Paths |-> IF AtOrUnder(p, q) THEN "none" ELSE content[q]]

Put(p) == HasParent(p) /\ content[p] # "dir" /\ content' = [content EXCEPT ![p] = "data"]

\* The rows of src under dst.
Moved(src, dst) ==
  [q \in Paths |->
     IF AtOrUnder(dst, q) /\ src \o SubSeq(q, Len(dst) + 1, Len(q)) \in Paths
     THEN content[src \o SubSeq(q, Len(dst) + 1, Len(q))]
     ELSE IF AtOrUnder(src, q) THEN "none" ELSE content[q]]

Run(r) ==
  LET src == req[r].src
      dst == req[r].dst
  IN /\ req[r].pc = "run"
     /\ \/ req[r].method = "PUT" /\ Put(src) /\ Goto(r, "release")
        \/ req[r].method = "DELETE" /\ content' = Without(src) /\ Goto(r, "release")
        \/ /\ req[r].method = "MKCOL" /\ HasParent(src) /\ content[src] = "none"
           /\ content' = [content EXCEPT ![src] = "dir"] /\ Goto(r, "release")
        \/ req[r].method = "COPY" /\ Put(dst) /\ Goto(r, "release")
        \/ req[r].method = "MOVE" /\ content' = Without(dst) /\ Goto(r, "move")
     /\ UNCHANGED <<locks, held, issued>>

MoveRows(r) ==
  LET src == req[r].src
      dst == req[r].dst
  IN /\ req[r].pc = "move"
     /\ ~AtOrUnder(src, dst) /\ HasParent(dst)
     /\ content[src] # "none" /\ content[dst] = "none"
     /\ content' = Moved(src, dst)
     /\ Goto(r, "release")
     /\ UNCHANGED <<locks, held, issued>>

\* Refused further in, or the client has gone.
RunFails(r) ==
  /\ req[r].pc \in {"run", "move"}
  /\ Goto(r, "release")
  /\ UNCHANGED <<content, locks, held, issued>>

\* The deferred release.
Release(r) ==
  /\ req[r].pc = "release"
  /\ locks' = Unlocked(req[r].mine)
  /\ held' = held \ req[r].claimed
  /\ Done(r)
  /\ UNCHANGED <<content, issued>>
-----------------------------------------------------------------------------
(* LOCK and UNLOCK.                                                        *)

\* handleLock looks whether there is anything at the path.
LockStat(r, p, deep) ==
  /\ req[r].pc = "idle"
  /\ Serve(r, [Idle EXCEPT !.pc = "lock", !.src = p, !.deep = deep, !.missing = content[p] = "none"])
  /\ UNCHANGED <<content, locks, held, issued>>

FreshTokens == Tokens \ (issued \cup {l.token : l \in locks} \cup {req[s].tok : s \in Procs})

LockCreate(r) ==
  /\ req[r].pc = "lock"
  /\ IF CanCreate(req[r].src, req[r].deep)
     THEN \E t \in FreshTokens :
            /\ locks' = locks \cup {[token |-> t, root |-> req[r].src, deep |-> req[r].deep]}
            /\ IF req[r].missing
               THEN Serve(r, [req[r] EXCEPT !.pc = "reserve", !.tok = t]) /\ issued' = issued
               ELSE Done(r) /\ issued' = issued \cup {t}
     ELSE Done(r) /\ UNCHANGED <<locks, issued>>
  /\ UNCHANGED <<content, held>>

\* An empty file at a path with nothing at it.
Reserve(r) ==
  /\ req[r].pc = "reserve"
  /\ HasParent(req[r].src) /\ content[req[r].src] # "dir"
  /\ content' = [content EXCEPT ![req[r].src] = "empty"]
  /\ issued' = issued \cup {req[r].tok}
  /\ Done(r)
  /\ UNCHANGED <<locks, held>>

\* Without a parent, or refused by the database: the lock goes again.
ReserveFails(r) ==
  /\ req[r].pc = "reserve"
  /\ locks' = Unlocked({req[r].tok})
  /\ Done(r)
  /\ UNCHANGED <<content, held, issued>>

\* handleUnlock, by whoever knows the token; not while a request holds it.
Unlock(t) ==
  /\ t \in issued
  /\ t \notin held
  /\ locks' = Unlocked({t})
  /\ UNCHANGED <<content, held, issued, req>>

\* collectExpiredNodes: a held lock is not in the heap.
Expire(l) ==
  /\ l \in locks
  /\ l.token \notin held
  /\ l.token \in BriefTokens => BriefExpires
  /\ locks' = locks \ {l}
  /\ UNCHANGED <<content, held, issued, req>>

\* The locks are in this process and nowhere else.
Restart ==
  /\ locks' = {} /\ held' = {}
  /\ req' = [r \in Procs |-> Idle]
  /\ UNCHANGED <<content, issued>>
-----------------------------------------------------------------------------
Gate(r) ==
  \/ HoldSrc(r) \/ HoldDst(r) \/ CheckToken(r) \/ ClaimBoth(r)
  \/ ClaimSrc(r) \/ OtherDst(r) \/ ClaimDst(r) \/ OtherSrc(r)

Next ==
  \/ \E r \in Procs :
       \/ \E m \in Methods, s, d \in Paths \cup {None}, t \in Tokens \cup {None} : Arrive(r, m, s, d, t)
       \/ Gate(r) \/ Run(r) \/ MoveRows(r) \/ RunFails(r) \/ Release(r)
       \/ \E p \in Paths, deep \in BOOLEAN : LockStat(r, p, deep)
       \/ LockCreate(r) \/ Reserve(r) \/ ReserveFails(r)
  \/ \E t \in Tokens : Unlock(t)
  \/ \E l \in locks : Expire(l)
  \/ Restart

Spec == Init /\ [][Next]_vars
-----------------------------------------------------------------------------
(* What locking promises.                                                  *)

Running(r) == req[r].pc \in {"run", "move"}
Touched(r) == {req[r].src, req[r].dst} \ {None}
Own(r)     == req[r].mine \cup req[r].claimed

\* While a request writes, no lock on its paths is somebody else's: the gate
\* is "refusing a write to something somebody else has locked" (locks.go:25),
\* and nobody can lock them until it is done.
ForeignLocksRefuse ==
  \A r \in Procs : Running(r) =>
    \A p \in Touched(r), l \in locks : Covers(l, p) => l.token \in Own(r)

\* Two writing requests never run on one path, whatever tokens they named.
OneWriterPerPath ==
  \A r, s \in Procs : r # s /\ Running(r) /\ Running(s) => Touched(r) \cap Touched(s) = {}

\* What a request took it gives back, on every way out: a lock of a request
\* that is over, or a claim nobody will release, would refuse everybody.
NothingStaysHeld ==
  /\ \A l \in locks : l.token \in BriefTokens => \E r \in Procs : l.token \in req[r].mine
  /\ \A t \in held : \E r \in Procs : t \in req[r].claimed
  /\ \A r \in Procs : req[r].pc = "idle" => req[r] = Idle

\* No write reaches anything that is locked by somebody else, members of a
\* collection included (locks.go:25).
MembersAreProtected ==
  [][\A r \in Procs : Run(r) \/ MoveRows(r) =>
       \A p \in Paths, l \in locks :
         content'[p] # content[p] /\ Covers(l, p) => l.token \in Own(r)]_vars

\* The empty file a LOCK makes is made where nothing is: it is for "a lock on
\* a path with nothing at it" (lock.go:121).
ReserveReplacesNothing ==
  [][\A r \in Procs : Reserve(r) => content[req[r].src] = "none"]_vars
=============================================================================
