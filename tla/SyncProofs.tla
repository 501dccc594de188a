----------------------------- MODULE SyncProofs -----------------------------
(***************************************************************************)
(* Proofs about the rows behind two promises.  Sync: for any number of     *)
(* objects, writers and clients, and writes and ticks without a bound that *)
(* matters.  The tables of Database (Rows): for any paths and any number   *)
(* of files, that each of the three drivers does and answers what the      *)
(* suite of Repository says.                                               *)
(***************************************************************************)
EXTENDS Sync, Database, FiniteSetTheorems, SequenceTheorems, WellFoundedInduction, TLAPS

\* SQLite, and nothing between the two pairs of reads that must agree.
InTurn == Serial = TRUE /\ Overtaken = FALSE

Vers    == Nat \cup {None}
Mirrors == [Names -> Vers]
Kept    == [ver : Nat, tok : Nat]
Graves  == [tok : Nat, at : Nat]
Txs     == [op : {"idle", "put", "delete"}, name : Names \cup {None}, cond : BOOLEAN, seen : Vers, at : Nat, id : Nat]
Syncs   == [pc : {"idle", "calendar", "changes", "items"}, id : Nat, since : Nat, mirror : Mirrors,
            to : [id : Nat, token : Nat], todo : SUBSET [name : Names, tok : Nat], gone : SUBSET Names, got : Mirrors]

TInv ==
  /\ cal \in [id : Nat, token : Nat, pruned : Nat] /\ made \in Nat /\ cal.id <= made
  /\ objects \in [Names -> Kept \cup {None}]
  /\ tombs \in [Names -> Graves \cup {None}]
  /\ tx \in [Writers -> Txs] /\ \A w \in Writers : tx[w].op # "idle" => tx[w].name \in Names /\ tx[w].id # 0
  /\ client \in [Clients -> Syncs]
  /\ clock \in Nat /\ writes \in Nat

\* Tokens: no object or tombstone is above the calendar's, none that is left is
\* below the mark, and no name has both.
Tokens ==
  /\ cal.pruned <= cal.token /\ (cal.id = 0 => cal.token = 0)
  /\ \A n \in Names : objects[n] # None => objects[n].tok \in 1..cal.token /\ tombs[n] = None
  /\ \A n \in Names : tombs[n] # None => tombs[n].tok \in (cal.pruned + 1)..cal.token

\* Tombstones are as old as their tokens say, and so is the one that a
\* transaction is about to leave.
Times ==
  /\ \A n \in Names : tombs[n] # None => tombs[n].at <= clock
  /\ \A m, n \in Names : tombs[m] # None /\ tombs[n] # None /\ tombs[m].tok <= tombs[n].tok => tombs[m].at <= tombs[n].at
  /\ \A v, w \in Writers : tx[v].op # "idle" /\ tx[w].op # "idle" => v = w
  /\ \A w \in Writers : tx[w].op = "delete" =>
       tx[w].at <= clock /\ \A n \in Names : tombs[n] # None => tombs[n].at <= tx[w].at

\* While a conditional write is open what it checked stays.
Checked == \A w \in Writers : tx[w].op = "put" /\ tx[w].cond => tx[w].seen = Ver(objects[tx[w].name])

\* The next report from this token says what is not known of a name, or is
\* refused.
Known(n, has, since) ==
  \/ has = Ver(objects[n])
  \/ objects[n] # None /\ objects[n].tok > since
  \/ objects[n] = None /\ tombs[n] # None /\ tombs[n].tok > since /\ since > 0
  \/ since > 0 /\ since < cal.pruned

\* What the answer makes of a client's mirror.
After(q, n) ==
  IF q.id = 0 \/ q.got[n] # None THEN q.got[n] ELSE IF n \in q.gone THEN None ELSE q.mirror[n]

ToRead(q) == {ch.name : ch \in q.todo}

\* A client that has no token knows no change, and one whose token is 0 has
\* nothing.
Token(q) ==
  /\ q.id <= made /\ q.to.id <= made
  /\ q.id = 0 => q.since = 0
  /\ q.id # 0 /\ q.since = 0 => q.mirror = Nothing

CaughtUp(q) ==
  q.id = cal.id /\ cal.id # 0 => q.since <= cal.token /\ \A n \in Names : Known(n, q.mirror[n], q.since)

\* The two reads of the calendar.
Asking(q) == q.pc = "calendar" => cal.id # 0 /\ q.id \in {0, cal.id}

\* Between the calendar and the changes: nothing is pruned, but the calendar may go.
Listing(q) ==
  q.pc = "changes" =>
    /\ q.to.id # 0 /\ q.id \in {0, q.to.id} /\ q.since <= q.to.token
    /\ q.to.id = cal.id => q.to.token <= cal.token /\ (q.since > 0 => q.since >= cal.pruned)

\* Between the changes and the answer: what is still to be read has a change
\* that this report or the next one says, and the rest is known at its token.
Reading(q) ==
  q.pc = "items" =>
    /\ q.to.id # 0 /\ q.id \in {0, q.to.id}
    /\ q.to.token = 0 => q.todo = {} /\ q.got = Nothing /\ (q.id # 0 => q.mirror = Nothing)
    /\ q.to.id = cal.id =>
         /\ q.to.token <= cal.token
         /\ \A n \in Names \ ToRead(q) : Known(n, After(q, n), q.to.token)
         /\ \A n \in ToRead(q) :
              \/ objects[n] # None
              \/ tombs[n] # None /\ tombs[n].tok > q.to.token
              \/ q.to.token < cal.pruned

Unread(q) == q.pc # "items" => q.got = Nothing /\ q.todo = {}

Syncing(q) == Token(q) /\ CaughtUp(q) /\ Asking(q) /\ Listing(q) /\ Reading(q) /\ Unread(q)

SInv == TInv /\ Tokens /\ Times /\ Checked /\ \A c \in Clients : Syncing(client[c])
-----------------------------------------------------------------------------
(* Types.                                                                  *)

LEMMA NoRow == \A r \in Kept \cup Graves \cup Nat : r # None
BY SyncAssumption DEF Kept, Graves

LEMMA Constants == Retention \in Nat /\ MaxWrites \in Nat /\ MaxClock \in Nat /\ MaxId \in Nat
BY SyncAssumption

LEMMA SmallestOf == ASSUME NEW T \in SUBSET Nat, T # {} PROVE \E t \in T : \A u \in T : t <= u
<1> DEFINE R == OpToRel(<, Nat)
<1>1. \A t, u \in Nat : <<t, u>> \in R <=> t < u
  BY DEF OpToRel
<1>2. IsWellFoundedOn(R, Nat)
  BY NatLessThanWellFounded
<1> HIDE DEF R
<1>3. PICK t \in T : \A u \in T : ~(<<u, t>> \in R)
  BY <1>2, WFMin
<1>4. \A u \in T : ~(u < t)
  BY <1>1, <1>3
<1> QED BY <1>4

LEMMA Largest ==
  ASSUME NEW b \in Nat, NEW S \in SUBSET (0..b), S # {}
  PROVE  Max(S) \in S /\ \A y \in S : y <= Max(S)
<1> DEFINE T == {b - x : x \in S}
<1>1. \A x \in 0..b : b - x \in Nat
  OBVIOUS
<1>2. T \in SUBSET Nat /\ T # {}
  BY <1>1
<1> HIDE DEF T
<1>3. PICK t \in T : \A u \in T : t <= u
  BY <1>2, SmallestOf
<1>4. PICK x \in S : t = b - x
  BY <1>3 DEF T
<1>5. ASSUME NEW y \in S PROVE y <= x
  <2>1. b - x <= b - y
    BY <1>3, <1>4 DEF T
  <2> QED BY <2>1
<1>6. \E m \in S : \A y \in S : m >= y
  BY <1>5
<1>7. Max(S) \in S /\ \A y \in S : Max(S) >= y
  BY <1>6 DEF Max
<1> QED BY <1>7

LEMMA VerTypes == ASSUME TInv, NEW n \in Names PROVE Ver(objects[n]) \in Vers
BY DEF TInv, Ver, Vers, Kept

LEMMA FreshTypes ==
  /\ Nothing \in Mirrors /\ Fresh \in Syncs /\ Idle \in Txs
  /\ \A m \in Mirrors : [Fresh EXCEPT !.mirror = m] \in Syncs
BY DEF Nothing, Fresh, Idle, Mirrors, Vers, Syncs, Txs

LEMMA InitTypes == ASSUME Init PROVE TInv
<1>1. cal \in [id : Nat, token : Nat, pruned : Nat] /\ made \in Nat /\ cal.id <= made
  BY DEF Init
<1>2. objects \in [Names -> Kept \cup {None}] /\ tombs \in [Names -> Graves \cup {None}]
  BY DEF Init, Nothing
<1>3. tx \in [Writers -> Txs] /\ \A w \in Writers : tx[w].op # "idle" => tx[w].name \in Names /\ tx[w].id # 0
  BY FreshTypes DEF Init, Idle
<1> QED BY <1>1, <1>2, <1>3, FreshTypes DEF Init, TInv

LEMMA ReadTypes ==
  ASSUME TInv, NEW w \in Writers, NEW n \in Names,
         (\E cond \in BOOLEAN : PutRead(w, n, cond)) \/ DeleteRead(w, n)
  PROVE  TInv'
<1>1. PICK t \in Txs : tx' = [tx EXCEPT ![w] = t] /\ t.name \in Names /\ t.id # 0
  <2>1. CASE \E cond \in BOOLEAN : PutRead(w, n, cond)
    <3>1. PICK cond \in BOOLEAN : PutRead(w, n, cond)
      BY <2>1
    <3>2. (IF cond THEN Ver(objects[n]) ELSE None) \in Vers
      BY VerTypes DEF Vers
    <3>3. [op |-> "put", name |-> n, cond |-> cond, seen |-> IF cond THEN Ver(objects[n]) ELSE None,
           at |-> 0, id |-> cal.id] \in Txs
      BY <3>2 DEF Txs, TInv
    <3> QED BY <3>1, <3>3 DEF PutRead
  <2>2. CASE DeleteRead(w, n)
    <3>1. [op |-> "delete", name |-> n, cond |-> FALSE, seen |-> None, at |-> clock, id |-> cal.id] \in Txs
      BY DEF Txs, TInv, Vers
    <3> QED BY <2>2, <3>1 DEF DeleteRead
  <2> QED BY <2>1, <2>2
<1> QED BY <1>1 DEF TInv, PutRead, DeleteRead, tables

LEMMA WriteTypes ==
  ASSUME TInv, NEW w \in Writers, PutWrite(w) \/ DeleteWrite(w) \/ Rollback(w) PROVE TInv'
<1>1. tx[w].name \in Names /\ tx[w] \in Txs
  BY DEF TInv, PutWrite, DeleteWrite, Rollback
<1>2. tx' \in [Writers -> Txs] /\ \A v \in Writers : tx'[v].op # "idle" => tx'[v].name \in Names /\ tx'[v].id # 0
  <2>1. Idle \in Txs /\ Idle.op = "idle" /\ tx' = [tx EXCEPT ![w] = Idle]
    BY FreshTypes DEF PutWrite, DeleteWrite, Rollback, Idle
  <2> QED BY <2>1 DEF TInv
<1>3. cal' \in [id : Nat, token : Nat, pruned : Nat] /\ made' = made /\ cal'.id = cal.id /\ writes' \in Nat
  BY DEF TInv, PutWrite, DeleteWrite, Rollback, tables
<1>4. objects' \in [Names -> Kept \cup {None}]
  BY <1>1 DEF TInv, PutWrite, DeleteWrite, Rollback, tables, Kept
<1>5. tombs' \in [Names -> Graves \cup {None}]
  BY <1>1 DEF TInv, PutWrite, DeleteWrite, Rollback, tables, Graves, Txs
<1> QED BY <1>2, <1>3, <1>4, <1>5 DEF TInv, PutWrite, DeleteWrite, Rollback

LEMMA OldTypes ==
  ASSUME TInv, Tokens, Old # {}
  PROVE  /\ Max({tombs[n].tok : n \in Old}) \in Nat
         /\ \E n \in Old : Max({tombs[m].tok : m \in Old}) = tombs[n].tok
         /\ \A n \in Old : tombs[n].tok <= Max({tombs[m].tok : m \in Old})
<1> DEFINE S == {tombs[n].tok : n \in Old}
<1>1. S \in SUBSET (0..cal.token) /\ S # {} /\ cal.token \in Nat
  <2>1. \A n \in Old : n \in Names /\ tombs[n] # None
    BY DEF Old
  <2>2. cal.token \in Nat /\ cal.pruned \in Nat
    BY DEF TInv
  <2>3. \A n \in Old : tombs[n].tok \in 0..cal.token
    BY <2>1, <2>2 DEF Tokens
  <2> QED BY <2>2, <2>3
<1>2. Max(S) \in S /\ \A y \in S : y <= Max(S)
  BY <1>1, Largest
<1> QED BY <1>1, <1>2

LEMMA CalendarTypes ==
  ASSUME TInv, Tokens, Prune \/ DeleteCalendar \/ Create \/ Tick PROVE TInv'
<1>1. CASE Prune
  <2>1. cal' \in [id : Nat, token : Nat, pruned : Nat] /\ cal'.id = cal.id
    BY <1>1, OldTypes DEF Prune, TInv
  <2> QED BY <1>1, <2>1 DEF TInv, Prune
<1>2. CASE DeleteCalendar
  BY <1>2 DEF TInv, DeleteCalendar, Nothing
<1>3. CASE Create
  BY <1>3 DEF TInv, Create
<1>4. CASE Tick
  BY <1>4 DEF TInv, Tick, tables
<1> QED BY <1>1, <1>2, <1>3, <1>4

LEMMA RefusedIs ==
  ASSUME TInv, NEW c \in Clients, Refused(c)
  PROVE  LET q == [Fresh EXCEPT !.mirror = client[c].mirror]
         IN client' = [client EXCEPT ![c] = q] /\ q \in Syncs
<1>1. client[c].mirror \in Mirrors
  BY DEF TInv, Syncs
<1> QED BY <1>1, FreshTypes DEF Refused

LEMMA ServeSyncIs ==
  ASSUME TInv, NEW c \in Clients, ServeSync(c)
  PROVE  LET q == [client[c] EXCEPT !.pc = "calendar"]
         IN \/ cal.id # 0 /\ client[c].id \in {0, cal.id} /\ client' = [client EXCEPT ![c] = q] /\ q \in Syncs
            \/ Refused(c)
BY DEF TInv, ServeSync, Syncs

LEMMA ReadCalendarIs ==
  ASSUME TInv, NEW c \in Clients, ReadCalendar(c)
  PROVE  LET q == [client[c] EXCEPT !.pc = "changes", !.to = [id |-> cal.id, token |-> cal.token]]
         IN \/ cal.id # 0 /\ Answerable(client[c].since) /\ client' = [client EXCEPT ![c] = q] /\ q \in Syncs
            \/ Refused(c)
BY DEF TInv, ReadCalendar, Syncs

\* The tokens of what has changed.
ChangedTokens(c) == {objects[n].tok : n \in Changed(c)} \cup {tombs[n].tok : n \in Removed(c)}

LEMMA ChangedTypes ==
  ASSUME TInv, NEW c \in Clients
  PROVE  /\ ChangedTokens(c) \subseteq Nat
         /\ {[name |-> n, tok |-> objects[n].tok] : n \in Changed(c)} \in SUBSET [name : Names, tok : Nat]
<1>1. \A n \in Changed(c) : n \in Names /\ objects[n].tok \in Nat
  BY DEF TInv, Changed, Kept
<1>2. \A n \in Removed(c) : n \in Names /\ tombs[n].tok \in Nat
  BY DEF TInv, Removed, Graves
<1> QED BY <1>1, <1>2 DEF ChangedTokens

LEMMA ReadChangesIs ==
  ASSUME TInv, Tokens, NEW c \in Clients, ReadChanges(c)
  PROVE  \E t \in Nat :
           LET q == [client[c] EXCEPT
                       !.pc = "items",
                       !.to = [id |-> client[c].to.id, token |-> t],
                       !.todo = {[name |-> n, tok |-> objects[n].tok] : n \in Changed(c)},
                       !.gone = IF client[c].since = 0 THEN {} ELSE Removed(c)]
           IN /\ client' = [client EXCEPT ![c] = q] /\ q \in Syncs
              /\ t >= client[c].to.token /\ \A u \in ChangedTokens(c) : t >= u
              /\ t = client[c].to.token \/ t \in ChangedTokens(c)
<1> DEFINE S == {client[c].to.token} \cup ChangedTokens(c)
           t == Max(S)
           todo == {[name |-> n, tok |-> objects[n].tok] : n \in Changed(c)}
           gone == IF client[c].since = 0 THEN {} ELSE Removed(c)
           q == [client[c] EXCEPT !.pc = "items", !.to = [id |-> client[c].to.id, token |-> t], !.todo = todo,
                                  !.gone = gone]
<1>1. client[c] \in Syncs /\ client[c].to \in [id : Nat, token : Nat]
  BY DEF TInv, Syncs
<1>2. ChangedTokens(c) \subseteq Nat /\ todo \in SUBSET [name : Names, tok : Nat] /\ gone \in SUBSET Names
  BY ChangedTypes DEF Removed
<1>3. \A u \in ChangedTokens(c) : u <= cal.token
  BY DEF ChangedTokens, Changed, Removed, Tokens, TInv
<1>4. PICK b \in Nat : S \in SUBSET (0..b)
  <2>1. cal.token \in Nat /\ client[c].to.token \in Nat
    BY <1>1 DEF TInv
  <2>2. CASE client[c].to.token <= cal.token
    BY <1>2, <1>3, <2>1, <2>2
  <2>3. CASE cal.token <= client[c].to.token
    BY <1>2, <1>3, <2>1, <2>3
  <2> QED BY <2>1, <2>2, <2>3
<1>5. t \in S /\ \A u \in S : u <= t
  BY <1>4, Largest
<1>6. t \in Nat
  BY <1>4, <1>5
<1>7. client' = [client EXCEPT ![c].pc = "items", ![c].todo = todo, ![c].gone = gone,
                               ![c].to = [client[c].to EXCEPT !.token = t]]
  <2>1. S = {client[c].to.token} \cup {objects[n].tok : n \in Changed(c)} \cup {tombs[n].tok : n \in Removed(c)}
    BY DEF ChangedTokens
  <2>2. t = NewToken(c)
    BY <2>1 DEF NewToken
  <2> QED BY <2>2 DEF ReadChanges
<1> HIDE DEF t, todo, gone
<1>8. client' = [client EXCEPT ![c] = q]
  <2> DEFINE to == [client[c].to EXCEPT !.token = t]
  <2>1. to = [id |-> client[c].to.id, token |-> t]
    BY <1>1
  <2>2. client' = [client EXCEPT ![c] = [client[c] EXCEPT !.pc = "items", !.todo = todo, !.gone = gone, !.to = to]]
    <3> HIDE DEF to
    <3>1. client' = [client EXCEPT ![c].pc = "items", ![c].todo = todo, ![c].gone = gone, ![c].to = to]
      BY <1>7 DEF to
    <3> QED BY <1>1, <3>1 DEF TInv, Syncs
  <2> HIDE DEF to
  <2>3. [client[c] EXCEPT !.pc = "items", !.todo = todo, !.gone = gone, !.to = to] = q
    BY <1>1, <2>1 DEF Syncs
  <2> QED BY <2>2, <2>3
<1>9. q \in Syncs
  BY <1>1, <1>2, <1>6 DEF Syncs
<1>10. t >= client[c].to.token /\ \A u \in ChangedTokens(c) : t >= u
  BY <1>5
<1>11. t = client[c].to.token \/ t \in ChangedTokens(c)
  BY <1>5
<1> HIDE DEF S
<1> QED BY <1>6, <1>8, <1>9, <1>10, <1>11 DEF todo, gone

LEMMA ReadItemIs ==
  ASSUME TInv, NEW c \in Clients, NEW n \in Names, ReadItem(c, n)
  PROVE  \E ch \in client[c].todo :
           LET q == [client[c] EXCEPT !.todo = client[c].todo \ {ch}, !.got = [client[c].got EXCEPT ![n] = Ver(objects[n])]]
           IN ch.name = n /\ client' = [client EXCEPT ![c] = q] /\ q \in Syncs
<1>1. PICK ch \in client[c].todo :
        ch.name = n /\ client' = [client EXCEPT ![c].todo = @ \ {ch}, ![c].got[n] = Ver(objects[n])]
  BY DEF ReadItem
<1> DEFINE todo == client[c].todo \ {ch}
           got  == [client[c].got EXCEPT ![n] = Ver(objects[n])]
           q    == [client[c] EXCEPT !.todo = todo, !.got = got]
<1>2. client[c] \in Syncs
  BY DEF TInv
<1>3. client' = [client EXCEPT ![c] = q]
  BY <1>1, <1>2 DEF TInv, Syncs
<1>4. got \in Mirrors /\ todo \in SUBSET [name : Names, tok : Nat]
  BY <1>2, VerTypes DEF Mirrors, Syncs
<1> HIDE DEF todo, got
<1>5. q \in Syncs
  BY <1>2, <1>4 DEF Syncs
<1> QED BY <1>1, <1>3, <1>5 DEF todo, got

LEMMA AnswerIs ==
  ASSUME TInv, NEW c \in Clients, Answer(c)
  PROVE  LET q == [Fresh EXCEPT !.id = client[c].to.id, !.since = client[c].to.token,
                                !.mirror = [n \in Names |-> After(client[c], n)]]
         IN client' = [client EXCEPT ![c] = q] /\ q \in Syncs
<1> DEFINE m == [n \in Names |-> After(client[c], n)]
<1>1. client[c] \in Syncs
  BY DEF TInv
<1>2. m \in Mirrors
  BY <1>1 DEF After, Mirrors, Syncs, Vers
<1>3. client' = [client EXCEPT ![c] = [Fresh EXCEPT !.id = client[c].to.id, !.since = client[c].to.token, !.mirror = m]]
  BY DEF Answer, After
<1> HIDE DEF m
<1>4. [Fresh EXCEPT !.id = client[c].to.id, !.since = client[c].to.token, !.mirror = m] \in Syncs
  BY <1>1, <1>2, FreshTypes DEF Syncs
<1> QED BY <1>3, <1>4 DEF m

LEMMA LostIs ==
  ASSUME TInv, NEW c \in Clients, Lost(c)
  PROVE  LET q == [Fresh EXCEPT !.id = client[c].id, !.since = client[c].since, !.mirror = client[c].mirror]
         IN client' = [client EXCEPT ![c] = q] /\ q \in Syncs
<1>1. client[c] \in Syncs
  BY DEF TInv
<1>2. [Fresh EXCEPT !.id = client[c].id, !.since = client[c].since, !.mirror = client[c].mirror] \in Syncs
  BY <1>1, FreshTypes DEF Syncs
<1> QED BY <1>2 DEF Lost

LEMMA SyncTypes ==
  ASSUME TInv, Tokens, NEW c \in Clients, Report(c) \/ Lost(c) PROVE TInv'
<1>1. \E q \in Syncs : client' = [client EXCEPT ![c] = q]
  <2>1. ASSUME Refused(c) PROVE \E q \in Syncs : client' = [client EXCEPT ![c] = q]
    BY <2>1, RefusedIs
  <2>2. CASE ServeSync(c)
    BY <2>1, <2>2, ServeSyncIs
  <2>3. CASE ReadCalendar(c)
    BY <2>1, <2>3, ReadCalendarIs
  <2>4. CASE ReadChanges(c)
    BY <2>4, ReadChangesIs
  <2>5. CASE \E n \in Names : ReadItem(c, n)
    BY <2>5, ReadItemIs
  <2>6. CASE Answer(c)
    BY <2>6, AnswerIs
  <2>7. CASE Lost(c)
    BY <2>7, LostIs
  <2> QED BY <2>2, <2>3, <2>4, <2>5, <2>6, <2>7 DEF Report
<1>2. client' \in [Clients -> Syncs]
  BY <1>1 DEF TInv
<1>3. UNCHANGED <<cal, made, objects, tombs, tx, clock, writes>>
  BY DEF Report, Lost, ServeSync, ReadCalendar, ReadChanges, ReadItem, Answer, tables
<1> QED BY <1>2, <1>3 DEF TInv

LEMMA NextTypes == ASSUME TInv, Tokens, [Next]_vars PROVE TInv'
<1>1. CASE \E w \in Writers, n \in Names : (\E cond \in BOOLEAN : PutRead(w, n, cond)) \/ DeleteRead(w, n)
  BY <1>1, ReadTypes
<1>2. CASE \E w \in Writers : PutWrite(w) \/ DeleteWrite(w) \/ Rollback(w)
  BY <1>2, WriteTypes
<1>3. CASE Prune \/ DeleteCalendar \/ Create \/ Tick
  BY <1>3, CalendarTypes
<1>4. CASE \E c \in Clients : Report(c) \/ Lost(c)
  BY <1>4, SyncTypes
<1>5. CASE UNCHANGED vars
  BY <1>5 DEF vars, TInv
<1> QED BY <1>1, <1>2, <1>3, <1>4, <1>5 DEF Next
-----------------------------------------------------------------------------
(* The tables.                                                             *)

LEMMA WriteIs ==
  ASSUME TInv, NEW w \in Writers, PutWrite(w) \/ DeleteWrite(w)
  PROVE  \E n \in Names :
           /\ tx[w].name = n /\ tx[w].id = cal.id /\ cal.id # 0
           /\ cal' = [cal EXCEPT !.token = cal.token + 1]
           /\ cal'.token = cal.token + 1 /\ cal'.pruned = cal.pruned /\ cal'.id = cal.id
           /\ tx' = [tx EXCEPT ![w] = Idle]
           /\ UNCHANGED <<made, client, clock>>
           /\ \A m \in Names \ {n} : objects'[m] = objects[m] /\ tombs'[m] = tombs[m]
           /\ \/ tx[w].op = "put" /\ objects'[n] # None /\ objects'[n].tok = cal.token + 1 /\ tombs'[n] = None
              \/ /\ tx[w].op = "delete" /\ objects[n] # None /\ objects'[n] = None /\ tombs'[n] # None
                 /\ tombs'[n].tok = cal.token + 1 /\ tombs'[n].at = tx[w].at
<1>1. tx[w] \in Txs /\ tx[w].name \in Names /\ cal \in [id : Nat, token : Nat, pruned : Nat]
  BY DEF TInv, PutWrite, DeleteWrite
<1> DEFINE n == tx[w].name
<1>2. /\ tx[w].id = cal.id /\ cal.id # 0 /\ cal' = [cal EXCEPT !.token = cal.token + 1]
      /\ cal'.token = cal.token + 1 /\ cal'.pruned = cal.pruned /\ cal'.id = cal.id
      /\ tx' = [tx EXCEPT ![w] = Idle] /\ UNCHANGED <<made, client, clock>>
  BY <1>1 DEF TInv, PutWrite, DeleteWrite
<1>3. \A m \in Names \ {n} : objects'[m] = objects[m] /\ tombs'[m] = tombs[m]
  BY DEF TInv, PutWrite, DeleteWrite
<1>4. CASE PutWrite(w)
  <2>1. objects'[n] = [ver |-> writes + 1, tok |-> cal.token + 1] /\ tombs'[n] = None /\ tx[w].op = "put"
    BY <1>1, <1>4 DEF TInv, PutWrite
  <2>2. objects'[n] \in Kept
    BY <1>1, <2>1 DEF Kept, TInv
  <2>3. objects'[n].tok = cal.token + 1
    BY <2>1
  <2> QED BY <1>1, <1>2, <1>3, <2>1, <2>2, <2>3, NoRow
<1>5. CASE DeleteWrite(w)
  <2>1. /\ tombs'[n] = [tok |-> cal.token + 1, at |-> tx[w].at] /\ objects'[n] = None /\ objects[n] # None
        /\ tx[w].op = "delete"
    BY <1>1, <1>5 DEF TInv, DeleteWrite
  <2>2. tombs'[n] \in Graves
    BY <1>1, <2>1 DEF Graves, Txs
  <2>3. tombs'[n].tok = cal.token + 1 /\ tombs'[n].at = tx[w].at
    BY <2>1
  <2> QED BY <1>1, <1>2, <1>3, <2>1, <2>2, <2>3, NoRow
<1> QED BY <1>4, <1>5

LEMMA WhoChanges ==
  ASSUME [Next]_vars
  PROVE  \/ \E w \in Writers : PutWrite(w) \/ DeleteWrite(w)
         \/ Prune \/ DeleteCalendar \/ Create
         \/ UNCHANGED <<cal, made, objects, tombs>>
BY DEF Next, vars, tables, PutRead, DeleteRead, Rollback, Tick, Report, Lost, ServeSync, ReadCalendar, ReadChanges,
       ReadItem, Answer

LEMMA StepsUp ==
  ASSUME NEW t \in Nat, NEW p \in Nat, p <= t
  PROVE  /\ p <= t + 1 /\ t + 1 \in 1..(t + 1) /\ t + 1 \in (p + 1)..(t + 1)
         /\ \A k \in 1..t : k \in 1..(t + 1)
         /\ \A k \in (p + 1)..t : k \in (p + 1)..(t + 1)
OBVIOUS

\* What is pruned is older than what is left, so that its tokens are lower.
LEMMA PruneIs ==
  ASSUME TInv, Tokens, Times, Prune
  PROVE  /\ cal'.id = cal.id /\ cal'.token = cal.token /\ cal.pruned <= cal'.pruned /\ cal'.pruned <= cal'.token
         /\ \A n \in Old : tombs'[n] = None /\ tombs[n].tok <= cal'.pruned
         /\ \A n \in Names \ Old : tombs'[n] = tombs[n]
         /\ \A n \in Names : tombs'[n] # None => tombs'[n] = tombs[n] /\ cal'.pruned < tombs[n].tok
<1>1. cal \in [id : Nat, token : Nat, pruned : Nat] /\ Old # {}
  BY DEF TInv, Prune
<1>2. /\ cal'.pruned = Max({tombs[m].tok : m \in Old}) /\ cal'.id = cal.id /\ cal'.token = cal.token
      /\ tombs' = [n \in Names |-> IF n \in Old THEN None ELSE tombs[n]]
  BY <1>1 DEF Prune
<1>3. cal'.pruned \in Nat /\ \A n \in Old : tombs[n].tok <= cal'.pruned
  BY <1>1, <1>2, OldTypes
<1>4. PICK o \in Old : cal'.pruned = tombs[o].tok
  BY <1>1, <1>2, OldTypes
<1>5. o \in Names /\ tombs[o] # None /\ tombs[o].at + Retention < clock
  BY DEF Old
<1>6. cal.pruned <= cal'.pruned /\ cal'.pruned <= cal'.token
  BY <1>1, <1>2, <1>3, <1>4, <1>5 DEF Tokens
<1>7. ASSUME NEW n \in Names, tombs'[n] # None PROVE tombs'[n] = tombs[n] /\ cal'.pruned < tombs[n].tok
  <2>1. n \notin Old /\ tombs'[n] = tombs[n] /\ tombs[n] # None
    BY <1>2, <1>7
  <2>2. ~(tombs[n].at + Retention < clock)
    BY <2>1 DEF Old
  <2>3. tombs[n].at \in Nat /\ tombs[o].at \in Nat /\ tombs[n].tok \in Nat /\ clock \in Nat
    BY <1>5, <2>1 DEF TInv, Graves
  <2>4. ~(tombs[n].at <= tombs[o].at)
    BY <1>5, <2>2, <2>3, Constants
  <2>5. ~(tombs[n].tok <= tombs[o].tok)
    BY <1>5, <2>1, <2>4 DEF Times
  <2> QED BY <1>3, <1>4, <2>1, <2>3, <2>5
<1>8. \A n \in Old : tombs'[n] = None
  BY <1>2 DEF Old
<1>9. \A n \in Names \ Old : tombs'[n] = tombs[n]
  BY <1>2
<1> QED BY <1>2, <1>3, <1>6, <1>7, <1>8, <1>9

LEMMA StillTokens == ASSUME TInv, Tokens, Times, [Next]_vars PROVE Tokens'
<1>0. cal.token \in Nat /\ cal.pruned \in Nat /\ cal.pruned <= cal.token
  BY DEF TInv, Tokens
<1>1. ASSUME NEW w \in Writers, PutWrite(w) \/ DeleteWrite(w) PROVE Tokens'
  <2>1. PICK n \in Names :
          /\ cal'.token = cal.token + 1 /\ cal'.pruned = cal.pruned /\ cal'.id # 0
          /\ \A m \in Names \ {n} : objects'[m] = objects[m] /\ tombs'[m] = tombs[m]
          /\ \/ objects'[n] # None /\ objects'[n].tok = cal.token + 1 /\ tombs'[n] = None
             \/ objects'[n] = None /\ tombs'[n] # None /\ tombs'[n].tok = cal.token + 1
    BY <1>1, WriteIs
  <2>2. \A m \in Names : objects'[m] # None => objects'[m].tok \in 1..(cal.token + 1) /\ tombs'[m] = None
    BY <1>0, <2>1, StepsUp DEF Tokens
  <2>3. \A m \in Names : tombs'[m] # None => tombs'[m].tok \in (cal.pruned + 1)..(cal.token + 1)
    BY <1>0, <2>1, StepsUp DEF Tokens
  <2> QED BY <1>0, <2>1, <2>2, <2>3, StepsUp DEF Tokens
<1>2. CASE Prune
  <2>1. objects' = objects /\ cal'.id = cal.id /\ cal'.token = cal.token /\ cal'.pruned <= cal'.token /\ cal'.pruned \in Nat
    BY <1>2, PruneIs, NextTypes DEF Prune, TInv
  <2>2. \A n \in Names : objects'[n] # None => objects'[n].tok \in 1..cal'.token /\ tombs'[n] = None
    BY <1>2, <2>1, PruneIs DEF Tokens
  <2>3. ASSUME NEW n \in Names, tombs'[n] # None PROVE tombs'[n].tok \in (cal'.pruned + 1)..cal'.token
    <3>1. tombs'[n] = tombs[n] /\ cal'.pruned < tombs[n].tok
      BY <1>2, <2>3, PruneIs
    <3>2. tombs[n].tok \in Nat /\ tombs[n].tok <= cal.token
      BY <1>0, <2>3, <3>1 DEF Tokens
    <3> QED BY <1>0, <2>1, <3>1, <3>2
  <2> QED BY <2>1, <2>2, <2>3 DEF Tokens
<1>3. CASE DeleteCalendar
  BY <1>3 DEF DeleteCalendar, Tokens, Nothing
<1>4. CASE Create
  <2>1. \A n \in Names : objects[n] = None /\ tombs[n] = None
    BY <1>0, <1>4 DEF Create, Tokens
  <2>2. cal'.id # 0 /\ cal'.pruned = 0 /\ cal'.token = 0
    BY <1>4 DEF Create, TInv
  <2> QED BY <1>4, <2>1, <2>2 DEF Create, Tokens
<1>5. CASE UNCHANGED <<cal, made, objects, tombs>>
  BY <1>5 DEF Tokens
<1> QED BY <1>1, <1>2, <1>3, <1>4, <1>5, WhoChanges
-----------------------------------------------------------------------------
(* The transactions.                                                       *)

\* Under SQLite's lock a transaction begins alone.
LEMMA ReadIs ==
  ASSUME Serial = TRUE, TInv, NEW w \in Writers, NEW n \in Names, (\E cond \in BOOLEAN : PutRead(w, n, cond)) \/ DeleteRead(w, n)
  PROVE  /\ \A v \in Writers : tx[v].op = "idle"
         /\ \A v \in Writers \ {w} : tx'[v] = tx[v]
         /\ UNCHANGED <<cal, made, objects, tombs, client, clock, writes>>
         /\ tx'[w].op = "delete" => tx'[w].at = clock
         /\ tx'[w].op = "put" /\ tx'[w].cond => tx'[w].seen = Ver(objects[tx'[w].name])
<1>1. CASE \E cond \in BOOLEAN : PutRead(w, n, cond)
  BY <1>1 DEF PutRead, Begin, tables, TInv
<1>2. CASE DeleteRead(w, n)
  BY <1>2 DEF DeleteRead, Begin, tables, TInv
<1> QED BY <1>1, <1>2

LEMMA StillTimes == ASSUME Serial = TRUE, TInv, Tokens, Times, [Next]_vars PROVE Times'
<1>0. \A n \in Names : tombs[n] # None => tombs[n].tok \in Nat /\ tombs[n].at \in Nat
  BY DEF TInv, Graves
<1>1. ASSUME NEW w \in Writers, NEW n \in Names, (\E cond \in BOOLEAN : PutRead(w, n, cond)) \/ DeleteRead(w, n) PROVE Times'
  <2>1. /\ \A v \in Writers : tx[v].op = "idle"
        /\ \A v \in Writers \ {w} : tx'[v] = tx[v]
        /\ tombs' = tombs /\ clock' = clock
        /\ tx'[w].op = "delete" => tx'[w].at = clock
    BY <1>1, ReadIs
  <2>2. \A v \in Writers : tx'[v].op # "idle" => v = w
    BY <2>1
  <2>3. clock <= clock
    BY DEF TInv
  <2> QED BY <2>1, <2>2, <2>3 DEF Times
<1>2. ASSUME NEW w \in Writers, PutWrite(w) \/ DeleteWrite(w) PROVE Times'
  <2>1. PICK n \in Names :
          /\ tx' = [tx EXCEPT ![w] = Idle] /\ clock' = clock
          /\ \A m \in Names \ {n} : tombs'[m] = tombs[m]
          /\ \/ tombs'[n] = None
             \/ tx[w].op = "delete" /\ tombs'[n] # None /\ tombs'[n].tok = cal.token + 1 /\ tombs'[n].at = tx[w].at
    BY <1>2, WriteIs
  <2>2. \A v \in Writers : tx'[v].op = "idle"
    <3>1. tx[w].op # "idle"
      BY <1>2 DEF PutWrite, DeleteWrite
    <3> QED BY <2>1, <3>1 DEF Times, TInv, Idle
  <2>3. CASE tombs'[n] = None
    BY <2>1, <2>2, <2>3 DEF Times
  <2>4. CASE tombs'[n] # None
    <3>1. tx[w].at \in Nat /\ cal.token \in Nat
      BY DEF TInv, Txs
    <3>2. tombs'[n].tok = cal.token + 1 /\ tombs'[n].at = tx[w].at /\ tx[w].at <= clock
      BY <2>1, <2>4 DEF Times
    <3>3. \A m \in Names : tombs[m] # None => tombs[m].at <= tombs'[n].at /\ ~(tombs'[n].tok <= tombs[m].tok)
      <4>1. \A m \in Names : tombs[m] # None => tombs[m].at <= tombs'[n].at
        BY <2>1, <2>4, <3>2 DEF Times
      <4>2. ASSUME NEW m \in Names, tombs[m] # None PROVE ~(tombs'[n].tok <= tombs[m].tok)
        <5>1. tombs[m].tok \in Nat /\ tombs[m].tok <= cal.token
          BY <1>0, <4>2 DEF Tokens
        <5> QED BY <3>1, <3>2, <5>1
      <4> QED BY <4>1, <4>2
    <3>4. tombs'[n].at <= tombs'[n].at
      BY <3>1, <3>2
    <3>5. \A m, k \in Names : tombs'[m] # None /\ tombs'[k] # None /\ tombs'[m].tok <= tombs'[k].tok => tombs'[m].at <= tombs'[k].at
      BY <2>1, <3>3, <3>4 DEF Times
    <3>6. \A m \in Names : tombs'[m] # None => tombs'[m].at <= clock'
      BY <2>1, <3>2 DEF Times
    <3> QED BY <2>2, <3>5, <3>6 DEF Times
  <2> QED BY <2>3, <2>4
<1>3. ASSUME NEW w \in Writers, Rollback(w) PROVE Times'
  <2>1. tx' = [tx EXCEPT ![w] = Idle] /\ tombs' = tombs /\ clock' = clock
    BY <1>3 DEF Rollback, tables
  <2>2. \A v \in Writers : tx'[v].op # "idle" => tx'[v] = tx[v]
    BY <2>1 DEF TInv, Idle
  <2> QED BY <2>1, <2>2 DEF Times
<1>4. CASE Prune
  <2>1. tx' = tx /\ clock' = clock /\ \A n \in Names : tombs'[n] # None => tombs'[n] = tombs[n]
    BY <1>4, PruneIs DEF Prune
  <2>2. \A n \in Names : tombs'[n] # None => tombs[n] # None
    BY <2>1
  <2> QED BY <2>1, <2>2 DEF Times
<1>5. CASE DeleteCalendar
  <2>1. tx' = tx /\ clock' = clock /\ \A n \in Names : tombs'[n] = None
    BY <1>5 DEF DeleteCalendar, Nothing
  <2> QED BY <2>1 DEF Times
<1>6. CASE Tick
  <2>1. tx' = tx /\ tombs' = tombs /\ clock' = clock + 1 /\ clock \in Nat
    BY <1>6 DEF Tick, tables, TInv
  <2>2. \A n \in Names : tombs[n] # None => tombs[n].at <= clock + 1
    BY <1>0, <2>1 DEF Times
  <2>3. \A w \in Writers : tx[w].op = "delete" => tx[w].at <= clock + 1
    <3>1. \A w \in Writers : tx[w].at \in Nat
      BY DEF TInv, Txs
    <3> QED BY <2>1, <3>1 DEF Times
  <2> QED BY <2>1, <2>2, <2>3 DEF Times
<1>7. CASE Create \/ (\E c \in Clients : Report(c) \/ Lost(c)) \/ UNCHANGED vars
  <2>1. tx' = tx /\ tombs' = tombs /\ clock' = clock
    BY <1>7 DEF vars, tables, Create, Report, Lost, ServeSync, ReadCalendar, ReadChanges, ReadItem, Answer
  <2> QED BY <2>1 DEF Times
<1> QED BY <1>1, <1>2, <1>3, <1>4, <1>5, <1>6, <1>7 DEF Next

LEMMA StillChecked == ASSUME Serial = TRUE, TInv, Times, Checked, [Next]_vars PROVE Checked'
<1>1. ASSUME NEW w \in Writers, NEW n \in Names, (\E cond \in BOOLEAN : PutRead(w, n, cond)) \/ DeleteRead(w, n)
      PROVE Checked'
  BY <1>1, ReadIs DEF Checked, Ver
<1>2. ASSUME NEW w \in Writers, PutWrite(w) \/ DeleteWrite(w) PROVE Checked'
  <2>1. tx' = [tx EXCEPT ![w] = Idle] /\ tx[w].op # "idle"
    BY <1>2, WriteIs DEF PutWrite, DeleteWrite
  <2>2. \A v \in Writers : tx'[v].op = "idle"
    BY <2>1 DEF Times, TInv, Idle
  <2> QED BY <2>2 DEF Checked
<1>3. ASSUME NEW w \in Writers, Rollback(w) PROVE Checked'
  <2>1. tx' = [tx EXCEPT ![w] = Idle] /\ objects' = objects
    BY <1>3 DEF Rollback, tables
  <2>2. \A v \in Writers : tx'[v].op # "idle" => tx'[v] = tx[v]
    BY <2>1 DEF TInv, Idle
  <2> QED BY <2>1, <2>2 DEF Checked, Ver
<1>4. CASE DeleteCalendar
  BY <1>4 DEF DeleteCalendar, Checked, Times
<1>5. CASE Prune \/ Create \/ Tick \/ (\E c \in Clients : Report(c) \/ Lost(c)) \/ UNCHANGED vars
  <2>1. tx' = tx /\ objects' = objects
    BY <1>5 DEF vars, tables, Prune, Create, Tick, Report, Lost, ServeSync, ReadCalendar, ReadChanges, ReadItem, Answer
  <2> QED BY <2>1 DEF Checked, Ver
<1> QED BY <1>1, <1>2, <1>3, <1>4, <1>5 DEF Next
-----------------------------------------------------------------------------
(* A client that waits while the tables change.                            *)

\* What holds of a report under way: nothing is pruned between the calendar and
\* its changes, and the calendar does not go before it is read again.
LEMMA HowTablesChange ==
  ASSUME InTurn, TInv, Tokens, Times, [Next]_vars
  PROVE  /\ made <= made' /\ (cal'.id = cal.id \/ cal'.id = 0 \/ cal'.id > made)
         /\ cal'.id = cal.id => cal.token <= cal'.token
         /\ cal'.id # cal.id => cal.id = 0 \/ \A c \in Clients : client[c].pc # "calendar"
         /\ cal'.id = cal.id /\ cal'.pruned # cal.pruned => \A c \in Clients : client[c].pc # "changes"
<1>0. cal.token \in Nat /\ made \in Nat
  BY DEF TInv
<1>1. ASSUME NEW w \in Writers, PutWrite(w) \/ DeleteWrite(w)
      PROVE  made' = made /\ cal'.id = cal.id /\ cal'.token = cal.token + 1 /\ cal'.pruned = cal.pruned
  BY <1>1, WriteIs
<1>2. CASE Prune
  BY <1>0, <1>2, PruneIs DEF Prune, InTurn
<1>3. CASE DeleteCalendar
  BY <1>0, <1>3 DEF DeleteCalendar, InTurn
<1>4. CASE Create
  BY <1>0, <1>4 DEF Create
<1>5. CASE UNCHANGED <<cal, made, objects, tombs>>
  BY <1>0, <1>5
<1> QED BY <1>0, <1>1, <1>2, <1>3, <1>4, <1>5, WhoChanges

LEMMA StillKnown ==
  ASSUME InTurn, TInv, Tokens, Times, [Next]_vars, cal.id # 0, cal'.id = cal.id,
         NEW n \in Names, NEW has, NEW since \in Nat, since <= cal.token, since = 0 => has = None,
         Known(n, has, since)
  PROVE  Known(n, has, since)'
<1>0. cal.token \in Nat /\ cal.pruned \in Nat /\ Ver(None) = None
  BY DEF TInv, Ver
<1>1. ASSUME NEW w \in Writers, PutWrite(w) \/ DeleteWrite(w) PROVE Known(n, has, since)'
  <2>1. PICK k \in Names :
          /\ cal'.pruned = cal.pruned
          /\ \A m \in Names \ {k} : objects'[m] = objects[m] /\ tombs'[m] = tombs[m]
          /\ \/ objects'[k] # None /\ objects'[k].tok = cal.token + 1
             \/ objects'[k] = None /\ tombs'[k] # None /\ tombs'[k].tok = cal.token + 1
    BY <1>1, WriteIs
  <2>2. cal.token + 1 > since
    BY <1>0
  <2>3. CASE k = n
    BY <1>0, <2>1, <2>2, <2>3 DEF Known, Ver
  <2>4. CASE k # n
    BY <2>1, <2>4 DEF Known, Ver
  <2> QED BY <2>3, <2>4
<1>2. CASE Prune
  <2>1. objects' = objects
    BY <1>2 DEF Prune
  <2>2. CASE tombs'[n] = tombs[n]
    <3>1. cal.pruned <= cal'.pruned /\ cal'.pruned \in Nat
      BY <1>2, PruneIs, NextTypes DEF TInv
    <3>2. since < cal.pruned => since < cal'.pruned
      BY <1>0, <3>1
    <3> QED BY <2>1, <2>2, <3>2 DEF Known, Ver
  <2>3. CASE tombs'[n] # tombs[n]
    <3>1. n \in Old /\ tombs[n].tok <= cal'.pruned /\ cal.pruned <= cal'.pruned /\ cal'.pruned \in Nat
      BY <1>2, <2>3, PruneIs, NextTypes DEF TInv
    <3>2. tombs[n].tok \in Nat
      BY <3>1 DEF TInv, Graves, Old
    <3>3. since < cal.pruned \/ tombs[n].tok > since => since < cal'.pruned
      BY <1>0, <3>1, <3>2
    <3> QED BY <2>1, <3>3 DEF Known, Ver
  <2> QED BY <2>2, <2>3
<1>3. CASE DeleteCalendar \/ Create
  BY <1>3 DEF DeleteCalendar, Create, TInv
<1>4. CASE UNCHANGED <<cal, made, objects, tombs>>
  BY <1>4 DEF Known, Ver
<1> QED BY <1>1, <1>2, <1>3, <1>4, WhoChanges

\* What has been listed but not read: it is there, or what became of it comes next.
Unsaid(n, since) ==
  \/ objects[n] # None
  \/ tombs[n] # None /\ tombs[n].tok > since
  \/ since < cal.pruned

LEMMA StillUnsaid ==
  ASSUME InTurn, TInv, Tokens, Times, [Next]_vars, cal.id # 0, cal'.id = cal.id,
         NEW n \in Names, NEW since \in Nat, since <= cal.token, Unsaid(n, since)
  PROVE  Unsaid(n, since)'
<1>0. cal.token \in Nat /\ cal.pruned \in Nat
  BY DEF TInv
<1>1. ASSUME NEW w \in Writers, PutWrite(w) \/ DeleteWrite(w) PROVE Unsaid(n, since)'
  <2>1. PICK k \in Names :
          /\ cal'.pruned = cal.pruned
          /\ \A m \in Names \ {k} : objects'[m] = objects[m] /\ tombs'[m] = tombs[m]
          /\ \/ objects'[k] # None
             \/ tombs'[k] # None /\ tombs'[k].tok = cal.token + 1
    BY <1>1, WriteIs
  <2>2. cal.token + 1 > since
    BY <1>0
  <2>3. CASE k = n
    BY <2>1, <2>2, <2>3 DEF Unsaid
  <2>4. CASE k # n
    BY <2>1, <2>4 DEF Unsaid
  <2> QED BY <2>3, <2>4
<1>2. CASE Prune
  <2>1. objects' = objects /\ cal.pruned <= cal'.pruned /\ cal'.pruned \in Nat
    BY <1>2, PruneIs, NextTypes DEF Prune, TInv
  <2>2. since < cal.pruned => since < cal'.pruned
    BY <1>0, <2>1
  <2>3. CASE tombs'[n] = tombs[n]
    BY <2>1, <2>2, <2>3 DEF Unsaid
  <2>4. CASE tombs'[n] # tombs[n]
    <3>1. n \in Old /\ tombs[n].tok <= cal'.pruned
      BY <1>2, <2>4, PruneIs
    <3>2. tombs[n].tok \in Nat
      BY <3>1 DEF TInv, Graves, Old
    <3>3. tombs[n].tok > since => since < cal'.pruned
      BY <2>1, <3>1, <3>2
    <3> QED BY <2>1, <2>2, <3>3 DEF Unsaid
  <2> QED BY <2>3, <2>4
<1>3. CASE DeleteCalendar \/ Create
  BY <1>3 DEF DeleteCalendar, Create, TInv
<1>4. CASE UNCHANGED <<cal, made, objects, tombs>>
  BY <1>4 DEF Unsaid
<1> QED BY <1>1, <1>2, <1>3, <1>4, WhoChanges

LEMMA NothingHas == \A n \in Names : Nothing[n] = None
BY DEF Nothing

LEMMA StillSyncing ==
  ASSUME InTurn, TInv, Tokens, Times, [Next]_vars, NEW c \in Clients, NEW q \in Syncs, q.pc = client[c].pc, Syncing(q)
  PROVE  Syncing(q)'
<1> DEFINE t == q.to.token
<1>0. /\ q.id \in Nat /\ q.to.id \in Nat /\ q.since \in Nat /\ t \in Nat
      /\ cal.id \in Nat /\ cal.token \in Nat /\ made \in Nat /\ cal'.id \in Nat /\ cal'.token \in Nat /\ made' \in Nat
      /\ ToRead(q) \subseteq Names
  BY NextTypes DEF TInv, Syncs, ToRead
<1>1. /\ made <= made' /\ (cal'.id = cal.id \/ cal'.id = 0 \/ cal'.id > made)
      /\ cal'.id = cal.id => cal.token <= cal'.token
      /\ cal'.id # cal.id => cal.id = 0 \/ q.pc # "calendar"
      /\ cal'.id = cal.id /\ cal'.pruned # cal.pruned => q.pc # "changes"
  BY HowTablesChange
<1>2. q.id <= made /\ q.to.id <= made
  BY DEF Syncing, Token
<1>3. \A i \in Nat : i <= made /\ i # 0 /\ i = cal'.id => cal'.id = cal.id
  BY <1>0, <1>1
<1>4. Token(q)'
  BY <1>0, <1>1 DEF Syncing, Token
<1>5. ASSUME q.id = cal'.id, cal'.id # 0 PROVE q.since <= cal'.token /\ \A n \in Names : Known(n, q.mirror[n], q.since)'
  <2>1. cal'.id = cal.id /\ q.id # 0
    BY <1>0, <1>2, <1>3, <1>5
  <2>2. q.since <= cal.token /\ \A n \in Names : Known(n, q.mirror[n], q.since)
    BY <1>5, <2>1 DEF Syncing, CaughtUp
  <2>3. q.since = 0 => \A n \in Names : q.mirror[n] = None
    BY <2>1, NothingHas DEF Syncing, Token
  <2>4. \A n \in Names : Known(n, q.mirror[n], q.since)'
    BY <1>0, <1>5, <2>1, <2>2, <2>3, StillKnown
  <2> QED BY <1>0, <1>1, <2>1, <2>2, <2>4
<1>6. CaughtUp(q)'
  BY <1>5 DEF CaughtUp
<1>7. Asking(q)'
  BY <1>0, <1>1 DEF Syncing, Asking
<1>8. Listing(q)'
  <2>1. SUFFICES ASSUME q.pc = "changes", q.to.id = cal'.id
                 PROVE  t <= cal'.token /\ (q.since > 0 => q.since >= cal'.pruned)
    BY DEF Syncing, Listing
  <2>2. q.to.id # 0
    BY <2>1 DEF Syncing, Listing
  <2>3. cal'.id = cal.id
    BY <1>0, <1>2, <1>3, <2>1, <2>2
  <2>4. cal'.pruned = cal.pruned
    BY <1>1, <2>1, <2>3
  <2>5. t <= cal.token /\ (q.since > 0 => q.since >= cal.pruned)
    BY <2>1, <2>3 DEF Syncing, Listing
  <2> QED BY <1>0, <1>1, <2>3, <2>4, <2>5
<1>9. Reading(q)'
  <2>1. SUFFICES ASSUME q.pc = "items", q.to.id = cal'.id
                 PROVE  /\ t <= cal'.token
                        /\ \A n \in Names \ ToRead(q) : Known(n, After(q, n), t)'
                        /\ \A n \in ToRead(q) : Unsaid(n, t)'
    BY DEF Syncing, Reading, Unsaid, ToRead, After
  <2>2. q.to.id # 0
    BY <2>1 DEF Syncing, Reading
  <2>3. cal'.id = cal.id /\ cal.id # 0
    BY <1>0, <1>2, <1>3, <2>1, <2>2
  <2>4. /\ t <= cal.token
        /\ \A n \in Names \ ToRead(q) : Known(n, After(q, n), t)
        /\ \A n \in ToRead(q) : Unsaid(n, t)
    BY <2>1, <2>3 DEF Syncing, Reading, Unsaid
  <2>5. t = 0 => \A n \in Names : After(q, n) = None
    BY <2>1, NothingHas DEF Syncing, Reading, After
  <2>6. ASSUME NEW n \in Names \ ToRead(q) PROVE Known(n, After(q, n), t)'
    <3>1. PICK has : has = After(q, n)
      OBVIOUS
    <3>2. Known(n, has, t) /\ (t = 0 => has = None)
      BY <2>4, <2>5, <2>6, <3>1
    <3>3. Known(n, has, t)'
      BY <1>0, <2>3, <2>4, <3>2, StillKnown
    <3> QED BY <3>1, <3>3 DEF After
  <2>7. \A n \in ToRead(q) : Unsaid(n, t)'
    BY <1>0, <2>3, <2>4, StillUnsaid
  <2> QED BY <1>0, <1>1, <2>3, <2>4, <2>6, <2>7
<1>10. Unread(q)'
  BY DEF Syncing, Unread
<1> QED BY <1>4, <1>6, <1>7, <1>8, <1>9, <1>10 DEF Syncing
-----------------------------------------------------------------------------
(* A client's own steps.                                                   *)

LEMMA RowsAreAbove ==
  ASSUME TInv, Tokens, NEW n \in Names
  PROVE  /\ objects[n] # None => objects[n].tok \in Nat /\ objects[n].tok > 0 /\ objects[n].tok <= cal.token /\ tombs[n] = None
         /\ tombs[n] # None => tombs[n].tok \in Nat /\ tombs[n].tok <= cal.token
         /\ objects[n] # None => Ver(objects[n]) # None
         /\ objects[n] = None => Ver(objects[n]) = None
<1>1. objects[n] # None => Ver(objects[n]) # None
  BY NoRow DEF TInv, Ver, Kept
<1>2. cal.token \in Nat /\ cal.pruned \in Nat
  BY DEF TInv
<1> QED BY <1>1, <1>2 DEF Tokens, Ver

LEMMA RefusedSyncs ==
  ASSUME TInv, NEW c \in Clients, Refused(c)
  PROVE  \E q \in Syncs : client' = [client EXCEPT ![c] = q] /\ Syncing(q)
<1> DEFINE q == [Fresh EXCEPT !.mirror = client[c].mirror]
<1>1. q \in Syncs /\ client' = [client EXCEPT ![c] = q]
  BY RefusedIs
<1>2. q.id = 0 /\ q.since = 0 /\ q.pc = "idle" /\ q.to.id = 0 /\ q.got = Nothing /\ q.todo = {}
  BY DEF Fresh
<1>3. Syncing(q)
  <2> HIDE DEF q
  <2> QED BY <1>2 DEF Syncing, Token, CaughtUp, Asking, Listing, Reading, Unread, TInv
<1> QED BY <1>1, <1>3

LEMMA ServeSyncSyncs ==
  ASSUME TInv, NEW c \in Clients, ServeSync(c), Syncing(client[c])
  PROVE  \E q \in Syncs : client' = [client EXCEPT ![c] = q] /\ Syncing(q)
<1>1. CASE Refused(c)
  BY <1>1, RefusedSyncs
<1>2. CASE ~Refused(c)
  <2> DEFINE q == [client[c] EXCEPT !.pc = "calendar"]
  <2>1. cal.id # 0 /\ client[c].id \in {0, cal.id} /\ client' = [client EXCEPT ![c] = q] /\ q \in Syncs
    BY <1>2, ServeSyncIs
  <2>2. /\ q.pc = "calendar" /\ q.id = client[c].id /\ q.since = client[c].since /\ q.mirror = client[c].mirror
        /\ q.to = client[c].to /\ q.todo = client[c].todo /\ q.got = client[c].got /\ client[c].pc = "idle"
    BY DEF TInv, Syncs, ServeSync
  <2>3. Syncing(q)
    <3>1. q.id \in {0, cal.id} /\ cal.id # 0
      BY <2>1, <2>2
    <3> HIDE DEF q
    <3> QED BY <2>2, <3>1 DEF Syncing, Token, CaughtUp, Asking, Listing, Reading, Unread
  <2> QED BY <2>1, <2>3
<1> QED BY <1>1, <1>2

LEMMA ReadCalendarSyncs ==
  ASSUME TInv, Tokens, NEW c \in Clients, ReadCalendar(c), Syncing(client[c])
  PROVE  \E q \in Syncs : client' = [client EXCEPT ![c] = q] /\ Syncing(q)
<1>1. CASE Refused(c)
  BY <1>1, RefusedSyncs
<1>2. CASE ~Refused(c)
  <2> DEFINE q == [client[c] EXCEPT !.pc = "changes", !.to = [id |-> cal.id, token |-> cal.token]]
  <2>1. cal.id # 0 /\ Answerable(client[c].since) /\ client' = [client EXCEPT ![c] = q] /\ q \in Syncs
    BY <1>2, ReadCalendarIs
  <2>2. /\ q.pc = "changes" /\ q.id = client[c].id /\ q.since = client[c].since /\ q.mirror = client[c].mirror
        /\ q.to.id = cal.id /\ q.to.token = cal.token /\ q.todo = client[c].todo /\ q.got = client[c].got
        /\ client[c].pc = "calendar"
    BY DEF TInv, Syncs, ReadCalendar
  <2>3. cal.id <= made /\ cal.token <= cal.token
    BY DEF TInv
  <2>4. Syncing(q)
    <3>1. cal.id # 0 /\ q.since <= cal.token /\ (q.since > 0 => q.since >= cal.pruned)
      BY <2>1, <2>2 DEF Answerable
    <3> HIDE DEF q
    <3>2. q.id \in {0, cal.id}
      BY <2>2 DEF Syncing, Asking
    <3> QED BY <2>2, <2>3, <3>1, <3>2 DEF Syncing, Token, CaughtUp, Asking, Listing, Reading, Unread
  <2> QED BY <2>1, <2>4
<1> QED BY <1>1, <1>2

LEMMA ReadChangesSyncs ==
  ASSUME TInv, Tokens, NEW c \in Clients, ReadChanges(c), Syncing(client[c])
  PROVE  \E q \in Syncs : client' = [client EXCEPT ![c] = q] /\ Syncing(q)
<1> DEFINE todo == {[name |-> n, tok |-> objects[n].tok] : n \in Changed(c)}
           gone == IF client[c].since = 0 THEN {} ELSE Removed(c)
<1>1. PICK t \in Nat :
        LET q == [client[c] EXCEPT !.pc = "items", !.to = [id |-> client[c].to.id, token |-> t], !.todo = todo, !.gone = gone]
        IN /\ client' = [client EXCEPT ![c] = q] /\ q \in Syncs
           /\ t >= client[c].to.token /\ \A u \in ChangedTokens(c) : t >= u
           /\ t = client[c].to.token \/ t \in ChangedTokens(c)
  BY ReadChangesIs
<1> DEFINE q == [client[c] EXCEPT !.pc = "items", !.to = [id |-> client[c].to.id, token |-> t], !.todo = todo, !.gone = gone]
<1>2. PICK p \in Syncs : p = client[c]
  BY DEF TInv
<1>3. Syncing(p) /\ p.pc = "changes" /\ client' = [client EXCEPT ![c] = q] /\ q \in Syncs
  BY <1>1, <1>2 DEF ReadChanges
<1>4. /\ q.pc = "items" /\ q.id = p.id /\ q.since = p.since /\ q.mirror = p.mirror /\ q.to.id = p.to.id /\ q.to.token = t
      /\ q.todo = todo /\ q.gone = gone /\ q.got = Nothing
  BY <1>2, <1>3 DEF Syncs, Syncing, Unread
<1>5. /\ t >= p.to.token /\ \A u \in ChangedTokens(c) : t >= u
      /\ t = p.to.token \/ t \in ChangedTokens(c)
  BY <1>1, <1>2
<1>6. /\ p.since \in Nat /\ p.to.token \in Nat /\ cal.token \in Nat /\ cal.pruned \in Nat /\ p.mirror \in Mirrors
      /\ p.id <= made /\ p.to.id <= made /\ (p.id = 0 => p.since = 0) /\ (p.id # 0 /\ p.since = 0 => p.mirror = Nothing)
      /\ p.to.id # 0 /\ p.id \in {0, p.to.id} /\ p.since <= p.to.token
      /\ p.to.id = cal.id => p.to.token <= cal.token /\ (p.since > 0 => p.since >= cal.pruned)
  BY <1>2, <1>3 DEF Syncs, Syncing, Token, Listing, TInv
<1>7. \A n \in Names : n \in Changed(c) <=> p.to.id = cal.id /\ objects[n] # None /\ objects[n].tok > p.since
  BY <1>2 DEF Changed
<1>8. \A n \in Names : n \in Removed(c) <=> p.to.id = cal.id /\ tombs[n] # None /\ tombs[n].tok > p.since
  BY <1>2 DEF Removed
<1>9. ToRead(q) = Changed(c) /\ Changed(c) \subseteq Names
  <2>1. ToRead(q) = {ch.name : ch \in todo}
    BY <1>4 DEF ToRead
  <2>2. \A ch \in todo : ch.name \in Changed(c)
    OBVIOUS
  <2>3. \A n \in Changed(c) : \E ch \in todo : ch.name = n
    <3>1. ASSUME NEW n \in Changed(c) PROVE [name |-> n, tok |-> objects[n].tok] \in todo
      BY <3>1
    <3> HIDE DEF todo
    <3> QED BY <3>1
  <2>4. Changed(c) \subseteq Names
    BY DEF Changed
  <2> HIDE DEF todo
  <2> QED BY <2>1, <2>2, <2>3, <2>4
<1>10. gone = IF p.since = 0 THEN {} ELSE Removed(c)
  BY <1>2
<1>11. \A n \in Changed(c) : objects[n].tok \in ChangedTokens(c)
  BY DEF ChangedTokens
<1>12. \A u \in ChangedTokens(c) : u <= cal.token /\ p.to.id = cal.id
  BY <1>2, RowsAreAbove DEF ChangedTokens, Changed, Removed
<1> HIDE DEF q, gone
<1>13. ASSUME t = 0 PROVE todo = {} /\ p.since = 0
  <2>1. \A n \in Changed(c) : FALSE
    <3>1. \A n \in Changed(c) : objects[n] # None /\ ~(t >= objects[n].tok)
      BY <1>7, <1>9, <1>13, RowsAreAbove
    <3> QED BY <1>5, <1>11, <3>1
  <2> QED BY <1>5, <1>6, <1>13, <2>1
<1> HIDE DEF todo
<1>14. ASSUME p.to.id = cal.id PROVE t <= cal.token
  BY <1>5, <1>6, <1>12, <1>14
<1>15. ASSUME p.to.id = cal.id, NEW n \in Names \ Changed(c) PROVE Known(n, After(q, n), t)
  <2>0. q.got[n] = None
    BY <1>4, NothingHas
  <2>1. objects[n] # None => ~(objects[n].tok > p.since)
    BY <1>7, <1>15
  <2>2. CASE p.since = 0
    <3>1. objects[n] = None
      BY <2>1, <2>2, RowsAreAbove
    <3>2. After(q, n) = None
      BY <1>4, <1>6, <1>10, <2>0, <2>2, NothingHas DEF After
    <3> QED BY <3>1, <3>2 DEF Known, Ver
  <2>3. CASE p.since # 0
    <3>1. p.id # 0 /\ p.id = cal.id /\ ~(p.since < cal.pruned)
      BY <1>6, <1>15, <2>3
    <3>2. Known(n, p.mirror[n], p.since)
      BY <1>3, <3>1 DEF Syncing, CaughtUp
    <3>3. After(q, n) = IF n \in Removed(c) THEN None ELSE p.mirror[n]
      BY <1>4, <1>10, <2>0, <2>3, <3>1 DEF After
    <3>4. CASE n \in Removed(c)
      <4>1. objects[n] = None
        BY <1>8, <3>4, RowsAreAbove
      <4> QED BY <3>3, <3>4, <4>1 DEF Known, Ver
    <3>5. CASE n \notin Removed(c)
      <4>1. ~(tombs[n] # None /\ tombs[n].tok > p.since)
        BY <1>8, <1>15, <3>5
      <4>2. p.mirror[n] = Ver(objects[n])
        BY <2>1, <3>1, <3>2, <4>1 DEF Known
      <4> QED BY <3>3, <3>5, <4>2 DEF Known
    <3> QED BY <3>4, <3>5
  <2> QED BY <2>2, <2>3
<1>16. \A n \in Changed(c) : objects[n] # None
  BY <1>7, <1>9
<1>17. Token(q)
  BY <1>4, <1>6 DEF Token
<1>18. CaughtUp(q)
  BY <1>3, <1>4 DEF Syncing, CaughtUp
<1>19. Reading(q)
  <2>1. t = 0 => q.todo = {} /\ q.got = Nothing /\ (q.id # 0 => q.mirror = Nothing)
    BY <1>4, <1>6, <1>13
  <2> QED BY <1>4, <1>6, <1>9, <1>14, <1>15, <1>16, <2>1 DEF Reading
<1>20. Syncing(q)
  BY <1>4, <1>17, <1>18, <1>19 DEF Syncing, Asking, Listing, Unread
<1> QED BY <1>3, <1>20

LEMMA ReadItemSyncs ==
  ASSUME TInv, Tokens, NEW c \in Clients, NEW n \in Names, ReadItem(c, n), Syncing(client[c])
  PROVE  \E q \in Syncs : client' = [client EXCEPT ![c] = q] /\ Syncing(q)
<1>1. PICK p \in Syncs : p = client[c]
  BY DEF TInv
<1>2. PICK ch \in p.todo :
        LET q == [p EXCEPT !.todo = p.todo \ {ch}, !.got = [p.got EXCEPT ![n] = Ver(objects[n])]]
        IN ch.name = n /\ client' = [client EXCEPT ![c] = q] /\ q \in Syncs
  BY <1>1, ReadItemIs
<1> DEFINE todo == p.todo \ {ch}
           got  == [p.got EXCEPT ![n] = Ver(objects[n])]
           q    == [p EXCEPT !.todo = todo, !.got = got]
<1>3. ch.name = n /\ client' = [client EXCEPT ![c] = q] /\ q \in Syncs
  BY <1>2
<1>4. Syncing(p) /\ p.pc = "items"
  BY <1>1 DEF ReadItem
<1>5. /\ q.pc = "items" /\ q.id = p.id /\ q.since = p.since /\ q.mirror = p.mirror /\ q.to = p.to
      /\ q.todo = todo /\ q.gone = p.gone /\ q.got = got
  BY <1>4 DEF Syncs
<1>6. got[n] = Ver(objects[n]) /\ \A m \in Names \ {n} : got[m] = p.got[m]
  BY DEF Syncs, Mirrors
<1>7. n \in ToRead(p) /\ ToRead(q) \subseteq ToRead(p) /\ \A m \in ToRead(p) \ {n} : m \in ToRead(q)
  BY <1>3, <1>5 DEF ToRead
<1> HIDE DEF q, todo, got
<1>8. p.to.token # 0 /\ p.to.id # 0 /\ p.id \in {0, p.to.id} /\ p.to.token \in Nat
  BY <1>2, <1>4 DEF Syncing, Reading, Syncs
<1>9. ASSUME p.to.id = cal.id, NEW m \in Names \ ToRead(q) PROVE Known(m, After(q, m), p.to.token)
  <2>1. CASE m # n
    <3>1. m \notin ToRead(p) /\ got[m] = p.got[m]
      BY <1>6, <1>7, <1>9, <2>1
    <3>2. After(q, m) = After(p, m)
      BY <1>5, <3>1 DEF After
    <3> QED BY <1>4, <1>9, <3>1, <3>2 DEF Syncing, Reading
  <2>2. CASE m = n
    <3>1. CASE objects[n] # None
      <4>1. After(q, n) = Ver(objects[n])
        BY <1>5, <1>6, <3>1, RowsAreAbove DEF After
      <4> QED BY <2>2, <4>1 DEF Known
    <3>2. CASE objects[n] = None
      <4>1. \/ tombs[n] # None /\ tombs[n].tok > p.to.token
            \/ p.to.token < cal.pruned
        BY <1>4, <1>7, <1>9, <3>2 DEF Syncing, Reading
      <4>2. p.to.token > 0
        BY <1>8
      <4> QED BY <2>2, <3>2, <4>1, <4>2 DEF Known
    <3> QED BY <3>1, <3>2
  <2> QED BY <2>1, <2>2
<1>10. Reading(q)
  <2>1. p.to.id = cal.id => /\ p.to.token <= cal.token
                            /\ \A m \in ToRead(q) : Unsaid(m, p.to.token)
    BY <1>4, <1>7 DEF Syncing, Reading, Unsaid
  <2> QED BY <1>5, <1>8, <1>9, <2>1 DEF Reading, Unsaid
<1>11. Syncing(q)
  BY <1>4, <1>5, <1>10 DEF Syncing, Token, CaughtUp, Asking, Listing, Unread
<1> QED BY <1>3, <1>11

LEMMA AnswerSyncs ==
  ASSUME TInv, NEW c \in Clients, Answer(c), Syncing(client[c])
  PROVE  \E q \in Syncs : client' = [client EXCEPT ![c] = q] /\ Syncing(q)
<1>1. PICK p \in Syncs : p = client[c]
  BY DEF TInv
<1> DEFINE mirror == [n \in Names |-> After(p, n)]
           q == [Fresh EXCEPT !.id = p.to.id, !.since = p.to.token, !.mirror = mirror]
<1>2. client' = [client EXCEPT ![c] = q] /\ q \in Syncs
  BY <1>1, AnswerIs
<1>3. Syncing(p) /\ p.pc = "items" /\ p.todo = {}
  BY <1>1 DEF Answer
<1>4. /\ q.pc = "idle" /\ q.id = p.to.id /\ q.since = p.to.token /\ q.mirror = mirror /\ q.to.id = 0
      /\ q.todo = {} /\ q.got = Nothing
  BY DEF Fresh
<1>5. ToRead(p) = {} /\ \A n \in Names : mirror[n] = After(p, n)
  BY <1>3 DEF ToRead
<1>6. p.to.token = 0 => mirror = Nothing
  BY <1>3, NothingHas DEF Syncing, Reading, After, Nothing
<1> HIDE DEF q, mirror
<1>7. CaughtUp(q)
  BY <1>3, <1>4, <1>5 DEF Syncing, Reading, CaughtUp
<1>8. Token(q)
  BY <1>3, <1>4, <1>6 DEF Syncing, Token, Reading, TInv
<1>9. Syncing(q)
  BY <1>4, <1>7, <1>8 DEF Syncing, Asking, Listing, Reading, Unread
<1> QED BY <1>2, <1>9

LEMMA LostSyncs ==
  ASSUME TInv, NEW c \in Clients, Lost(c), Syncing(client[c])
  PROVE  \E q \in Syncs : client' = [client EXCEPT ![c] = q] /\ Syncing(q)
<1> DEFINE q == [Fresh EXCEPT !.id = client[c].id, !.since = client[c].since, !.mirror = client[c].mirror]
<1>1. client' = [client EXCEPT ![c] = q] /\ q \in Syncs
  BY LostIs
<1>2. /\ q.pc = "idle" /\ q.id = client[c].id /\ q.since = client[c].since /\ q.mirror = client[c].mirror
      /\ q.to.id = 0 /\ q.todo = {} /\ q.got = Nothing
  BY DEF Fresh
<1> HIDE DEF q
<1>3. Syncing(q)
  BY <1>2 DEF Syncing, Token, CaughtUp, Asking, Listing, Reading, Unread, TInv
<1> QED BY <1>1, <1>3
-----------------------------------------------------------------------------
(* The theorems.                                                           *)

LEMMA StillAllSyncing ==
  ASSUME InTurn, TInv, Tokens, Times, [Next]_vars, \A c \in Clients : Syncing(client[c])
  PROVE  (\A c \in Clients : Syncing(client[c]))'
<1>1. ASSUME NEW c \in Clients, Report(c) \/ Lost(c) PROVE (\A d \in Clients : Syncing(client[d]))'
  <2>1. PICK q \in Syncs : client' = [client EXCEPT ![c] = q] /\ Syncing(q)
    <3>1. CASE ServeSync(c)
      BY <3>1, ServeSyncSyncs
    <3>2. CASE ReadCalendar(c)
      BY <3>2, ReadCalendarSyncs
    <3>3. CASE ReadChanges(c)
      BY <3>3, ReadChangesSyncs
    <3>4. CASE \E n \in Names : ReadItem(c, n)
      BY <3>4, ReadItemSyncs
    <3>5. CASE Answer(c)
      BY <3>5, AnswerSyncs
    <3>6. CASE Lost(c)
      BY <3>6, LostSyncs
    <3> QED BY <1>1, <3>1, <3>2, <3>3, <3>4, <3>5, <3>6 DEF Report
  <2>2. \A d \in Clients : Syncing(client'[d])
    BY <2>1 DEF TInv
  <2>3. UNCHANGED <<cal, made, objects, tombs>>
    BY <1>1 DEF Report, Lost, ServeSync, ReadCalendar, ReadChanges, ReadItem, Answer, tables
  <2>4. ASSUME NEW d \in Clients PROVE Syncing(client[d])'
    <3>1. PICK p : p = client'[d]
      OBVIOUS
    <3>2. Syncing(p)
      BY <2>2, <3>1
    <3>3. Syncing(p)'
      BY <2>3, <3>2 DEF Syncing, Token, CaughtUp, Asking, Listing, Reading, Unread, Known, Ver, After, ToRead
    <3> QED BY <3>1, <3>3 DEF Syncing, Token, CaughtUp, Asking, Listing, Reading, Unread, Known, Ver, After, ToRead
  <2> QED BY <2>4
<1>2. CASE client' = client
  <2>1. ASSUME NEW d \in Clients PROVE Syncing(client[d])'
    <3>1. PICK p \in Syncs : p = client[d]
      BY DEF TInv
    <3>2. Syncing(p)'
      BY <3>1, StillSyncing
    <3> QED BY <1>2, <3>1, <3>2 DEF Syncing, Token, CaughtUp, Asking, Listing, Reading, Unread, Known, Ver, After, ToRead
  <2> QED BY <2>1
<1>3. (\E c \in Clients : Report(c) \/ Lost(c)) \/ client' = client
  BY DEF Next, vars, PutRead, PutWrite, DeleteRead, DeleteWrite, Rollback, Prune, DeleteCalendar, Create, Tick
<1> QED BY <1>1, <1>2, <1>3

LEMMA InitHolds == ASSUME Init PROVE SInv
<1>1. TInv
  BY InitTypes
<1>2. \A n \in Names : objects[n] = None /\ tombs[n] = None
  BY NothingHas DEF Init
<1>3. cal.id = 1 /\ cal.token = 0 /\ cal.pruned = 0 /\ made = 1
  BY DEF Init
<1>4. \A w \in Writers : tx[w].op = "idle"
  BY DEF Init, Idle
<1>5. Tokens /\ Times /\ Checked
  BY <1>2, <1>3, <1>4 DEF Tokens, Times, Checked
<1>6. ASSUME NEW c \in Clients PROVE Syncing(client[c])
  <2>1. client[c] = Fresh
    BY DEF Init
  <2>2. /\ Fresh.id = 0 /\ Fresh.since = 0 /\ Fresh.pc = "idle" /\ Fresh.to.id = 0 /\ Fresh.got = Nothing /\ Fresh.todo = {}
    BY DEF Fresh
  <2> QED BY <1>3, <2>1, <2>2 DEF Syncing, Token, CaughtUp, Asking, Listing, Reading, Unread
<1> QED BY <1>1, <1>5, <1>6 DEF SInv

LEMMA NextHolds == ASSUME InTurn, SInv, [Next]_vars PROVE SInv'
BY NextTypes, StillTokens, StillTimes, StillChecked, StillAllSyncing DEF SInv, InTurn

\* The part of it that is about the writers and the tables holds whatever the
\* clients do between their reads.
TablesHold == TInv /\ Tokens /\ Times /\ Checked

\* SQLite: types, tokens, the age of tombstones and what an open transaction has
\* checked, for a calendar whose clients' syncs pruning may overtake.
THEOREM TablesInvariant == ASSUME Serial = TRUE PROVE Spec => []TablesHold
<1>1. Init => TablesHold
  BY InitHolds DEF SInv, TablesHold
<1>2. TablesHold /\ [Next]_vars => TablesHold'
  BY NextTypes, StillTokens, StillTimes, StillChecked DEF TablesHold
<1> QED BY <1>1, <1>2, PTL DEF Spec

\* SQLite, with no prune between a sync's reads of the calendar and of its
\* changes, and the calendar not removed between its two reads.
THEOREM SyncInvariant == ASSUME InTurn PROVE Spec => []SInv
<1>1. Init => SInv
  BY InitHolds
<1>2. SInv /\ [Next]_vars => SInv'
  BY NextHolds
<1> QED BY <1>1, <1>2, PTL DEF Spec

\* No client at rest has missed a change: its next report says it, or refuses
\* its token (CalendarChanges, serveSync, PruneCalendarTombstones).
THEOREM NoClientMissesAChange == ASSUME InTurn PROVE Spec => []NoChangeIsMissed
<1>1. SInv => NoChangeIsMissed
  <2>1. SUFFICES ASSUME SInv, NEW c \in Clients, client[c].id = cal.id, cal.id # 0, NEW n \in Names
                 PROVE  \/ client[c].mirror[n] = Ver(objects[n])
                        \/ objects[n] # None /\ objects[n].tok > client[c].since
                        \/ objects[n] = None /\ tombs[n] # None /\ tombs[n].tok > client[c].since /\ client[c].since > 0
                        \/ ~Answerable(client[c].since)
    BY DEF NoChangeIsMissed
  <2>2. Known(n, client[c].mirror[n], client[c].since)
    BY <2>1 DEF SInv, Syncing, CaughtUp
  <2>3. client[c].since \in Nat /\ cal.pruned \in Nat
    BY <2>1 DEF SInv, TInv, Syncs
  <2> QED BY <2>2, <2>3 DEF Known, Answerable
<1> QED BY <1>1, SyncInvariant, PTL

\* A conditional PUT on SQLite replaces the object its condition was checked
\* against (calendar.Put's check and PutCalendarObject are one transaction).
THEOREM ConditionsHoldWhenWritten == ASSUME Serial = TRUE PROVE Spec => ConditionHoldsAtWrite
<1>1. TablesHold => \A w \in Writers : PutWrite(w) /\ tx[w].cond => tx[w].seen = Ver(objects[tx[w].name])
  BY DEF TablesHold, Checked, PutWrite
<1>2. TablesHold => [\A w \in Writers : PutWrite(w) /\ tx[w].cond => tx[w].seen = Ver(objects[tx[w].name])]_vars
  BY <1>1
<1> QED BY <1>2, TablesInvariant, PTL DEF ConditionHoldsAtWrite

\* The mark below which deletions are forgotten never falls back on SQLite, so
\* that a token once refused stays refused (PruneCalendarTombstones).
THEOREM TheMarkOnlyRises == ASSUME Serial = TRUE PROVE Spec => PrunedOnlyRises
<1>1. TablesHold /\ [Next]_vars => [cal'.id = cal.id => cal'.pruned >= cal.pruned]_vars
  <2>1. SUFFICES ASSUME TablesHold, [Next]_vars, cal'.id = cal.id PROVE cal'.pruned >= cal.pruned
    OBVIOUS
  <2>2. cal.pruned \in Nat /\ cal'.pruned \in Nat
    BY <2>1, NextTypes DEF TablesHold, TInv
  <2>3. CASE \E w \in Writers : PutWrite(w) \/ DeleteWrite(w)
    BY <2>1, <2>2, <2>3, WriteIs DEF TablesHold
  <2>4. CASE Prune
    BY <2>1, <2>2, <2>4, PruneIs DEF TablesHold
  <2>5. CASE DeleteCalendar \/ Create
    BY <2>1, <2>5 DEF DeleteCalendar, Create, TablesHold, TInv
  <2>6. CASE UNCHANGED <<cal, made, objects, tombs>>
    BY <2>2, <2>6
  <2> QED BY <2>1, <2>3, <2>4, <2>5, <2>6, WhoChanges
<1> QED BY <1>1, TablesInvariant, PTL DEF PrunedOnlyRises, Spec
-----------------------------------------------------------------------------
(* The tables of files, media and uploads: paths, and moving them.         *)

TPaths == {p \in Seq(Nat) : p # <<>>}

\* The number of its names.
Deep(p) == Len(p)

AtOrBelow(d, p) == p = d \/ Rows!Under(p, d)

\* The least of a set of numbers.
LEMMA SmallestNumber == ASSUME NEW T \in SUBSET Nat, T # {} PROVE \E t \in T : \A u \in T : t <= u
<1> DEFINE R == OpToRel(<, Nat)
<1>1. \A t, u \in Nat : <<t, u>> \in R <=> t < u
  BY DEF OpToRel
<1>2. IsWellFoundedOn(R, Nat)
  BY NatLessThanWellFounded
<1> HIDE DEF R
<1>3. PICK t \in T : \A u \in T : ~(<<u, t>> \in R)
  BY <1>2, WFMin
<1>4. \A u \in T : ~(u < t)
  BY <1>1, <1>3
<1> QED BY <1>4

LEMMA DeepIs == \A p \in TPaths : Deep(p) \in Nat /\ Deep(p) >= 1 /\ Len(p) = Deep(p) /\ p \in Seq(Nat)
BY EmptySeq DEF TPaths, Deep

LEMMA PathFrom == ASSUME NEW p \in Seq(Nat), NEW n \in Nat, n >= 1, Len(p) = n PROVE p \in TPaths /\ Deep(p) = n
BY EmptySeq DEF TPaths, Deep

\* The first n names of a path.
LEMMA FirstNames ==
  ASSUME NEW p \in TPaths, NEW n \in 1..Deep(p)
  PROVE  /\ SubSeq(p, 1, n) \in TPaths /\ Deep(SubSeq(p, 1, n)) = n
         /\ \A i \in 1..n : SubSeq(p, 1, n)[i] = p[i]
<1>1. p \in Seq(Nat) /\ Len(p) \in Nat /\ n \in 1..Len(p)
  BY DeepIs
<1>2. \A i \in 1..n : p[i] \in Nat
  BY <1>1, ElementOfSeq
<1> DEFINE s == SubSeq(p, 1, n)
<1>3. s \in Seq(Nat) /\ Len(s) = (IF 1 <= n THEN n - 1 + 1 ELSE 0) /\ \A i \in 1..(n - 1 + 1) : s[i] = p[1 + i - 1]
  BY <1>1, <1>2, SubSeqProperties
<1> HIDE DEF s
<1>4. n \in Nat /\ n >= 1 /\ n - 1 + 1 = n /\ \A i \in 1..n : 1 + i - 1 = i
  BY <1>1
<1>5. Len(s) = n
  BY <1>3, <1>4
<1>6. \A i \in 1..n : s[i] = p[i]
  BY <1>3, <1>4
<1>7. s \in TPaths /\ Deep(s) = n
  BY <1>3, <1>4, <1>5, PathFrom
<1> QED BY <1>6, <1>7 DEF s

LEMMA OnePath ==
  ASSUME NEW p \in TPaths, NEW q \in TPaths, Deep(p) = Deep(q), \A i \in 1..Deep(p) : p[i] = q[i]
  PROVE  p = q
BY DeepIs, SeqEqual DEF Deep

\* What the definitions say of Len.
LEMMA SaidOfLen ==
  /\ \A d, p : Rows!Under(p, d) <=> Deep(p) > Deep(d) /\ SubSeq(p, 1, Deep(d)) = d
  /\ \A p : Rows!ParentOf(p) = SubSeq(p, 1, Deep(p) - 1)
  /\ \A p, from, to : Rows!Rebased(p, from, to) = to \o SubSeq(p, Deep(from) + 1, Deep(p))
BY DEF Rows!Under, Rows!ParentOf, Rows!Rebased, Deep

\* One path is at or below another when its names begin with the other's.
LEMMA BeginsWith ==
  ASSUME NEW d \in TPaths, NEW p \in TPaths
  PROVE  AtOrBelow(d, p) <=> Deep(d) <= Deep(p) /\ \A i \in 1..Deep(d) : p[i] = d[i]
<1>1. Deep(d) \in Nat /\ Deep(p) \in Nat /\ Deep(d) >= 1 /\ Deep(p) >= 1
  BY DeepIs
<1>2. ASSUME AtOrBelow(d, p) PROVE Deep(d) <= Deep(p) /\ \A i \in 1..Deep(d) : p[i] = d[i]
  <2>1. CASE p = d
    BY <1>1, <2>1
  <2>2. CASE Rows!Under(p, d)
    <3>1. Deep(p) > Deep(d) /\ SubSeq(p, 1, Deep(d)) = d
      BY <2>2, SaidOfLen
    <3> QED BY <1>1, <3>1, FirstNames
  <2> QED BY <1>2, <2>1, <2>2 DEF AtOrBelow
<1>3. ASSUME Deep(d) <= Deep(p), \A i \in 1..Deep(d) : p[i] = d[i] PROVE AtOrBelow(d, p)
  <2>1. CASE Deep(d) = Deep(p)
    <3>1. p = d
      BY <1>3, <2>1, OnePath
    <3> QED BY <3>1 DEF AtOrBelow
  <2>2. CASE Deep(d) # Deep(p)
    <3>1. Deep(d) \in 1..Deep(p) /\ Deep(p) > Deep(d)
      BY <1>1, <1>3, <2>2
    <3>2. /\ SubSeq(p, 1, Deep(d)) \in TPaths /\ Deep(SubSeq(p, 1, Deep(d))) = Deep(d)
          /\ \A i \in 1..Deep(d) : SubSeq(p, 1, Deep(d))[i] = d[i]
      BY <1>3, <3>1, FirstNames
    <3>3. SubSeq(p, 1, Deep(d)) = d
      BY <3>2, OnePath
    <3> QED BY <3>1, <3>3, SaidOfLen DEF AtOrBelow
  <2> QED BY <2>1, <2>2
<1> QED BY <1>2, <1>3

LEMMA BelowIs == ASSUME NEW d \in TPaths, NEW p \in TPaths PROVE Rows!Under(p, d) <=> AtOrBelow(d, p) /\ p # d
BY DeepIs, SaidOfLen DEF AtOrBelow

LEMMA BelowOrder ==
  ASSUME NEW a \in TPaths, NEW b \in TPaths, NEW c \in TPaths
  PROVE  /\ AtOrBelow(a, a)
         /\ AtOrBelow(a, b) /\ AtOrBelow(b, c) => AtOrBelow(a, c)
         /\ AtOrBelow(a, b) /\ Deep(a) = Deep(b) => a = b
<1>1. Deep(a) \in Nat /\ Deep(b) \in Nat /\ Deep(c) \in Nat
  BY DeepIs
<1>2. AtOrBelow(a, b) /\ AtOrBelow(b, c) => AtOrBelow(a, c)
  BY <1>1, BeginsWith
<1>3. AtOrBelow(a, b) /\ Deep(a) = Deep(b) => a = b
  BY <1>1, BeginsWith, OnePath
<1> QED BY <1>2, <1>3 DEF AtOrBelow

LEMMA ParentAbove ==
  ASSUME NEW p \in TPaths
  PROVE  /\ Rows!ParentOf(p) \in Seq(Nat)
         /\ Deep(p) = 1 => Rows!ParentOf(p) = <<>>
         /\ Deep(p) # 1 => /\ Rows!ParentOf(p) \in TPaths /\ Deep(Rows!ParentOf(p)) = Deep(p) - 1
                           /\ AtOrBelow(Rows!ParentOf(p), p)
<1>1. Deep(p) \in Nat /\ Deep(p) >= 1 /\ p \in Seq(Nat)
  BY DeepIs
<1>2. CASE Deep(p) = 1
  <2>1. Rows!ParentOf(p) = SubSeq(p, 1, 0)
    BY <1>2, SaidOfLen
  <2>2. SubSeq(p, 1, 0) = <<>> /\ <<>> \in Seq(Nat)
    BY <1>1, SubSeqEmpty
  <2> QED BY <1>2, <2>1, <2>2
<1>3. CASE Deep(p) # 1
  <2>1. Deep(p) - 1 \in 1..Deep(p) /\ Deep(p) > Deep(p) - 1
    BY <1>1, <1>3
  <2>2. Rows!ParentOf(p) \in TPaths /\ Deep(Rows!ParentOf(p)) = Deep(p) - 1
    BY <2>1, FirstNames, SaidOfLen
  <2>3. SubSeq(p, 1, Deep(Rows!ParentOf(p))) = Rows!ParentOf(p)
    BY <2>2, SaidOfLen
  <2>4. AtOrBelow(Rows!ParentOf(p), p)
    BY <2>1, <2>2, <2>3, SaidOfLen DEF AtOrBelow
  <2> QED BY <1>3, <2>2, <2>4, DeepIs
<1> QED BY <1>2, <1>3

\* What is at or below a folder is it, or has its parent there.
LEMMA ParentBelow ==
  ASSUME NEW d \in TPaths, NEW p \in TPaths
  PROVE  AtOrBelow(d, p) <=> p = d \/ (Deep(p) # 1 /\ AtOrBelow(d, Rows!ParentOf(p)))
<1>1. Deep(d) \in Nat /\ Deep(p) \in Nat /\ Deep(d) >= 1
  BY DeepIs
<1>2. ASSUME AtOrBelow(d, p), p # d PROVE Deep(p) # 1 /\ AtOrBelow(d, Rows!ParentOf(p))
  <2>1. Deep(p) > Deep(d) /\ \A i \in 1..Deep(d) : p[i] = d[i]
    BY <1>2, BelowIs, SaidOfLen, BeginsWith
  <2>0. Deep(p) # 1
    BY <1>1, <2>1
  <2>2. PICK q \in TPaths : q = Rows!ParentOf(p) /\ Deep(q) = Deep(p) - 1 /\ AtOrBelow(q, p)
    BY <2>0, ParentAbove
  <2>3. Deep(d) <= Deep(q) /\ \A i \in 1..Deep(q) : p[i] = q[i]
    BY <1>1, <2>1, <2>2, BeginsWith
  <2>4. \A i \in 1..Deep(d) : q[i] = d[i]
    BY <1>1, <2>1, <2>2, <2>3
  <2> QED BY <2>0, <2>2, <2>3, <2>4, BeginsWith
<1>3. ASSUME Deep(p) # 1, AtOrBelow(d, Rows!ParentOf(p)) PROVE AtOrBelow(d, p)
  BY <1>3, ParentAbove, BelowOrder
<1> QED BY <1>2, <1>3, BelowOrder

\* Children are told by the parent they name.
LEMMA ChildIs ==
  ASSUME NEW q \in TPaths, NEW d \in Seq(Nat)
  PROVE  Rows!ParentOf(q) = d <=> Rows!Under(q, d) /\ Len(q) = Len(d) + 1
<1>1. PICK n \in Nat : n = Deep(q) /\ n >= 1 /\ Len(q) = n
  BY DeepIs
<1>2. PICK m \in Nat : m = Len(d) /\ m = Deep(d)
  BY LenProperties DEF Deep
<1>3. ASSUME Rows!ParentOf(q) = d PROVE Rows!Under(q, d) /\ Len(q) = Len(d) + 1
  <2>1. m = n - 1
    <3>1. CASE n = 1
      <4>1. d = <<>>
        BY <1>1, <1>3, <3>1, ParentAbove
      <4>2. m = 0
        BY <1>2, <4>1, EmptySeq
      <4> QED BY <3>1, <4>2
    <3>2. CASE n # 1
      BY <1>1, <1>2, <1>3, <3>2, ParentAbove
    <3> QED BY <3>1, <3>2
  <2>2. SubSeq(q, 1, m) = d
    BY <1>1, <1>3, <2>1, SaidOfLen
  <2>3. n > m /\ n = m + 1
    BY <2>1
  <2> QED BY <1>1, <1>2, <2>2, <2>3, SaidOfLen
<1>4. ASSUME Rows!Under(q, d), Len(q) = Len(d) + 1 PROVE Rows!ParentOf(q) = d
  <2>1. n - 1 = m
    BY <1>1, <1>2, <1>4
  <2> QED BY <1>1, <1>2, <1>4, <2>1, SaidOfLen
<1> QED BY <1>3, <1>4

\* What moving makes of a path: to, of t names, and what p, of k, has after f.
Moves(r, p, to, f, t, k) ==
  /\ r \in TPaths /\ Deep(r) = t + k - f
  /\ \A i \in 1..t : r[i] = to[i]
  /\ \A i \in (f + 1)..k : r[t + i - f] = p[i]

LEMMA MovedPath ==
  ASSUME NEW from \in TPaths, NEW to \in TPaths, NEW p \in TPaths, AtOrBelow(from, p)
  PROVE  Moves(Rows!Rebased(p, from, to), p, to, Deep(from), Deep(to), Deep(p))
<1>1. PICK k \in Nat : k = Deep(p)
  BY DeepIs
<1>2. PICK f \in Nat : f = Deep(from) /\ f >= 1 /\ f <= k
  BY <1>1, DeepIs, BeginsWith
<1>3. PICK t \in Nat : t = Deep(to) /\ t >= 1
  BY DeepIs
<1>4. p \in Seq(Nat) /\ to \in Seq(Nat) /\ Len(p) = k /\ Len(to) = t /\ Len(from) = f
  BY <1>1, <1>2, <1>3, DeepIs
<1> DEFINE s == SubSeq(p, f + 1, k)
<1>5. s \in Seq(Nat) /\ Len(s) = (IF f + 1 <= k THEN k - (f + 1) + 1 ELSE 0)
      /\ \A i \in 1..(k - (f + 1) + 1) : s[i] = p[f + 1 + i - 1]
  <2>1. \A i \in (f + 1)..k : i \in 1..k
    BY <1>2
  <2>2. \A i \in 1..k : p[i] \in Nat
    BY <1>4, ElementOfSeq
  <2> QED BY <2>1, <2>2, SubSeqProperties
<1>6. Rows!Rebased(p, from, to) = to \o s
  BY <1>1, <1>2, SaidOfLen
<1> HIDE DEF s
<1>7. Len(s) = k - f /\ \A i \in 1..(k - f) : s[i] = p[f + i]
  <2>1. (IF f + 1 <= k THEN k - (f + 1) + 1 ELSE 0) = k - f /\ k - (f + 1) + 1 = k - f
    BY <1>2
  <2>2. \A i \in 1..(k - f) : f + 1 + i - 1 = f + i
    BY <1>2
  <2> QED BY <1>5, <2>1, <2>2
<1> DEFINE r == to \o s
<1>8. r \in Seq(Nat) /\ Len(r) = Len(to) + Len(s)
      /\ \A i \in 1..(Len(to) + Len(s)) : r[i] = IF i <= Len(to) THEN to[i] ELSE s[i - Len(to)]
  BY <1>4, <1>5, ConcatProperties
<1> HIDE DEF r
<1>9. PICK n \in Nat : n = Len(s) /\ n = k - f
  BY <1>2, <1>7
<1>10. r \in TPaths /\ Deep(r) = t + k - f
  <2>1. t + n = t + k - f /\ t + n \in Nat /\ t + n >= 1 /\ Len(r) = t + n
    BY <1>3, <1>4, <1>8, <1>9
  <2> QED BY <1>8, <2>1, PathFrom
<1>11. \A i \in 1..(t + n) : r[i] = IF i <= t THEN to[i] ELSE s[i - t]
  BY <1>4, <1>8, <1>9
<1>12. \A i \in 1..t : r[i] = to[i]
  BY <1>9, <1>11
<1>13. ASSUME NEW i \in (f + 1)..k PROVE r[t + i - f] = p[i]
  <2>1. t + i - f \in 1..(t + n) /\ ~(t + i - f <= t) /\ t + i - f - t = i - f /\ i - f \in 1..(k - f) /\ f + (i - f) = i
    BY <1>9, <1>13
  <2>2. r[t + i - f] = s[i - f]
    BY <1>11, <2>1
  <2>3. s[i - f] = p[f + (i - f)]
    BY <1>7, <2>1
  <2> QED BY <2>1, <2>2, <2>3
<1>14. Rows!Rebased(p, from, to) = r
  BY <1>6 DEF r
<1>15. Moves(r, p, to, f, t, k)
  BY <1>10, <1>12, <1>13 DEF Moves
<1> QED BY <1>1, <1>2, <1>3, <1>14, <1>15

\* No two paths move to one, what was below a folder is below its new place,
\* and the parent moves along.
LEMMA MovingIs ==
  ASSUME NEW from \in TPaths, NEW to \in TPaths
  PROVE  /\ Rows!Rebased(from, from, to) = to
         /\ \A p \in TPaths : AtOrBelow(from, p) =>
              Rows!Rebased(p, from, to) \in TPaths /\ AtOrBelow(to, Rows!Rebased(p, from, to))
         /\ \A p, q \in TPaths : AtOrBelow(from, p) /\ AtOrBelow(from, q) /\ Rows!Rebased(p, from, to) = Rows!Rebased(q, from, to)
              => p = q
         /\ \A p \in TPaths : AtOrBelow(from, p) /\ p # from =>
              /\ Deep(p) # 1 /\ AtOrBelow(from, Rows!ParentOf(p)) /\ Deep(Rows!Rebased(p, from, to)) # 1
              /\ Rows!ParentOf(Rows!Rebased(p, from, to)) = Rows!Rebased(Rows!ParentOf(p), from, to)
<1>1. PICK f \in Nat : f = Deep(from) /\ f >= 1
  BY DeepIs
<1>2. PICK t \in Nat : t = Deep(to) /\ t >= 1
  BY DeepIs
<1>3. ASSUME NEW p \in TPaths, AtOrBelow(from, p)
      PROVE  /\ Moves(Rows!Rebased(p, from, to), p, to, f, t, Deep(p))
             /\ Deep(p) \in Nat /\ f <= Deep(p) /\ \A i \in 1..f : p[i] = from[i]
  BY <1>1, <1>2, <1>3, MovedPath, DeepIs, BeginsWith
<1>4. ASSUME NEW p \in TPaths, AtOrBelow(from, p)
      PROVE  Rows!Rebased(p, from, to) \in TPaths /\ AtOrBelow(to, Rows!Rebased(p, from, to))
  <2>1. PICK k \in Nat : k = Deep(p) /\ f <= k
    BY <1>3, <1>4
  <2>2. PICK r \in TPaths : r = Rows!Rebased(p, from, to) /\ Deep(r) = t + k - f /\ \A i \in 1..t : r[i] = to[i]
    BY <1>3, <1>4, <2>1 DEF Moves
  <2>3. t <= t + k - f
    BY <2>1
  <2> QED BY <1>2, <2>2, <2>3, BeginsWith
<1>5. Rows!Rebased(from, from, to) = to
  <2>1. AtOrBelow(from, from)
    BY DEF AtOrBelow
  <2>2. PICK r \in TPaths : r = Rows!Rebased(from, from, to) /\ Deep(r) = t + f - f /\ \A i \in 1..t : r[i] = to[i]
    BY <1>1, <1>3, <2>1 DEF Moves
  <2>3. t + f - f = t
    OBVIOUS
  <2> QED BY <1>2, <2>2, <2>3, OnePath
<1>6. ASSUME NEW p \in TPaths, NEW q \in TPaths, AtOrBelow(from, p), AtOrBelow(from, q),
             Rows!Rebased(p, from, to) = Rows!Rebased(q, from, to)
      PROVE  p = q
  <2>1. PICK k \in Nat : k = Deep(p) /\ f <= k
    BY <1>3, <1>6
  <2>2. PICK l \in Nat : l = Deep(q) /\ f <= l
    BY <1>3, <1>6
  <2>3. PICK r \in TPaths : r = Rows!Rebased(p, from, to)
    BY <1>4, <1>6
  <2>4. Moves(r, p, to, f, t, k) /\ Moves(r, q, to, f, t, l)
    BY <1>3, <1>6, <2>1, <2>2, <2>3
  <2>5. Deep(r) = t + k - f /\ Deep(r) = t + l - f
    BY <2>4 DEF Moves
  <2>6. k = l
    BY <2>5
  <2>7. ASSUME NEW i \in 1..k PROVE p[i] = q[i]
    <3>1. CASE i <= f
      <4>1. i \in 1..f
        BY <3>1
      <4> QED BY <1>3, <1>6, <4>1
    <3>2. CASE ~(i <= f)
      <4>1. i \in (f + 1)..k
        BY <3>2
      <4>2. i \in (f + 1)..l
        BY <2>6, <4>1
      <4> QED BY <2>4, <4>1, <4>2 DEF Moves
    <3> QED BY <3>1, <3>2
  <2> QED BY <2>1, <2>2, <2>6, <2>7, OnePath
<1>7. ASSUME NEW p \in TPaths, AtOrBelow(from, p), p # from
      PROVE  /\ Deep(p) # 1 /\ AtOrBelow(from, Rows!ParentOf(p)) /\ Deep(Rows!Rebased(p, from, to)) # 1
             /\ Rows!ParentOf(Rows!Rebased(p, from, to)) = Rows!Rebased(Rows!ParentOf(p), from, to)
  <2>1. Deep(p) # 1 /\ AtOrBelow(from, Rows!ParentOf(p))
    BY <1>7, ParentBelow
  <2>2. PICK d \in TPaths : d = Rows!ParentOf(p) /\ Deep(d) = Deep(p) - 1 /\ AtOrBelow(d, p) /\ AtOrBelow(from, d)
    BY <2>1, ParentAbove
  <2>3. PICK k \in Nat : k = Deep(p) /\ f <= k /\ k >= 1
    BY <1>3, <1>7, DeepIs
  <2>4. PICK m \in Nat : m = Deep(d) /\ m = k - 1 /\ f <= m
    BY <1>3, <2>2, <2>3
  <2>5. PICK r \in TPaths : r = Rows!Rebased(p, from, to) /\ Moves(r, p, to, f, t, k)
    BY <1>3, <1>4, <1>7, <2>3
  <2>6. PICK s \in TPaths : s = Rows!Rebased(d, from, to) /\ Moves(s, d, to, f, t, m)
    BY <1>3, <1>4, <2>2, <2>4
  <2>7. Deep(r) = t + k - f /\ Deep(s) = t + m - f
    BY <2>5, <2>6 DEF Moves
  <2>8. PICK n \in Nat : n = Deep(r) /\ n # 1 /\ n = t + k - f
    <3>1. t + k - f \in Nat /\ t + k - f # 1
      BY <1>2, <2>4
    <3> QED BY <2>7, <3>1
  <2>9. PICK q \in TPaths : q = Rows!ParentOf(r) /\ Deep(q) = n - 1 /\ AtOrBelow(q, r)
    BY <2>8, ParentAbove
  <2>10. Deep(s) = n - 1
    BY <2>4, <2>7, <2>8
  <2>11. \A i \in 1..(n - 1) : q[i] = r[i]
    BY <2>9, BeginsWith
  <2>12. \A i \in 1..m : p[i] = d[i]
    BY <2>2, <2>4, BeginsWith
  <2>13. ASSUME NEW i \in 1..(n - 1) PROVE s[i] = r[i]
    <3>1. CASE i <= t
      <4>1. i \in 1..t
        BY <3>1
      <4> QED BY <2>5, <2>6, <4>1 DEF Moves
    <3>2. CASE ~(i <= t)
      <4>1. PICK j \in Nat : j = i + f - t /\ i = t + j - f
        BY <1>1, <3>2
      <4>2. j \in (f + 1)..m /\ j \in (f + 1)..k /\ j \in 1..m
        BY <1>1, <2>3, <2>4, <2>8, <3>2, <4>1
      <4>3. r[t + j - f] = p[j] /\ s[t + j - f] = d[j]
        BY <2>5, <2>6, <4>2 DEF Moves
      <4> QED BY <2>12, <4>1, <4>2, <4>3
    <3> QED BY <3>1, <3>2
  <2>14. s = q
    BY <2>9, <2>10, <2>11, <2>13, OnePath
  <2> QED BY <2>1, <2>2, <2>5, <2>6, <2>8, <2>9, <2>14
<1> QED BY <1>4, <1>5, <1>6, <1>7

-----------------------------------------------------------------------------
(* The tables: the inductive invariant.                                    *)

FileRows  == [path : TPaths, path_hash : TPaths, parent : Seq(Nat), blob : Nat, etag : Nat, mtime : Nat, is_dir : BOOLEAN]
ThumbRows == [state : {"untried", "made", "refused"}, blob : Nat, generation : Nat, old : BOOLEAN]
MediaRows == [version : {1}, etag : Nat, error : {"", "bad", "away"}, retry : {0, 1}, taken : Nat, sort : Nat, thumb : ThumbRows]

\* The table of files: a path has one row, every folder above it has one, and a
\* file has a blob of its own, which is its ETag.
Filed(t, n, m) ==
  /\ DOMAIN t \subseteq 1..n /\ t \in [DOMAIN t -> FileRows]
  /\ \A i \in DOMAIN t : t[i].parent = Rows!ParentOf(t[i].path)
  /\ \A i, j \in DOMAIN t : t[i].path = t[j].path => i = j
  /\ \A i \in DOMAIN t : Deep(t[i].path) # 1 => \E j \in DOMAIN t : t[j].path = t[i].parent /\ t[j].is_dir
  /\ \A i \in DOMAIN t : ~t[i].is_dir => t[i].blob = t[i].etag /\ t[i].blob \in 1..m
  /\ \A i, j \in DOMAIN t : ~t[i].is_dir /\ ~t[j].is_dir /\ t[i].blob = t[j].blob => i = j

\* The column of MySQL's index follows the path.
Hashed(v, t) == v = "mysql" => \A i \in DOMAIN t : t[i].path_hash = t[i].path

\* What was learnt is of files that are there, and what is to be tried again
\* has an error.
Learnt(t, md) ==
  /\ md \in [DOMAIN md -> MediaRows]
  /\ DOMAIN md \subseteq {i \in DOMAIN t : ~t[i].is_dir}
  /\ \A i \in DOMAIN md : md[i].retry # 0 => md[i].error # ""

RInv ==
  /\ vendor \in Rows!Vendors /\ lastId \in Nat /\ puts \in Nat
  /\ Filed(filesTable, lastId, puts)
  /\ Hashed(vendor, filesTable)
  /\ Learnt(filesTable, mediaTable)

\* The three drivers say one thing wherever they say the same.
LEMMA OneDriver == ASSUME vendor \in Rows!Vendors, NEW x PROVE Rows!Driver(x, x, x) = x
BY DEF Rows!Driver, Rows!Vendors

LEMMA RowsOfPath == ASSUME RInv, NEW p PROVE Rows!RowAt(p) = {i \in DOMAIN filesTable : filesTable[i].path = p}
BY DEF RInv, Hashed, Rows!RowAt, Rows!Driver, Rows!Vendors, Rows!sqliteKey, Rows!mysqlKey, Rows!postgresKey

\* What has a row has one for every folder above.
LEMMA FoldersAbove ==
  ASSUME NEW t, NEW n, NEW m, Filed(t, n, m), NEW d \in TPaths, NEW i \in DOMAIN t, AtOrBelow(d, t[i].path)
  PROVE  \E j \in DOMAIN t : t[j].path = d
<1> SUFFICES ASSUME \A j \in DOMAIN t : t[j].path # d PROVE FALSE
  OBVIOUS
<1>1. \A j \in DOMAIN t : t[j].path \in TPaths
  BY DEF Filed, FileRows
<1> DEFINE T == {Deep(t[j].path) : j \in {k \in DOMAIN t : AtOrBelow(d, t[k].path)}}
<1>2. T \in SUBSET Nat /\ T # {}
  BY <1>1, DeepIs
<1>3. PICK l \in T : \A u \in T : l <= u
  BY <1>2, SmallestNumber
<1>4. PICK j \in DOMAIN t : AtOrBelow(d, t[j].path) /\ l = Deep(t[j].path)
  BY <1>3
<1>5. Deep(t[j].path) # 1 /\ AtOrBelow(d, Rows!ParentOf(t[j].path))
  BY <1>1, <1>4, ParentBelow
<1>6. PICK k \in DOMAIN t : t[k].path = Rows!ParentOf(t[j].path)
  BY <1>5 DEF Filed
<1>7. Deep(t[k].path) \in T
  BY <1>5, <1>6
<1>8. PICK a \in Nat : a = Deep(t[k].path)
  BY <1>1, DeepIs
<1>9. a = l - 1 /\ l <= a
  BY <1>1, <1>3, <1>4, <1>5, <1>6, <1>7, <1>8, ParentAbove
<1>10. l \in Nat
  BY <1>2
<1> QED BY <1>8, <1>9, <1>10

\* A write over a file: u is t with another blob in row i.
LEMMA WrittenOver ==
  ASSUME NEW t, NEW n \in Nat, NEW m \in Nat, Filed(t, n, m), NEW i \in DOMAIN t, ~t[i].is_dir,
         NEW u \in [DOMAIN t -> FileRows], \A j \in DOMAIN t : j # i => u[j] = t[j],
         u[i].path = t[i].path, u[i].parent = t[i].parent, ~u[i].is_dir, u[i].blob = m + 1, u[i].etag = m + 1
  PROVE  Filed(u, n, m + 1)
<1>0. DOMAIN u = DOMAIN t /\ m + 1 \in 1..(m + 1) /\ m + 1 \notin 1..m /\ 1..m \subseteq 1..(m + 1)
  OBVIOUS
<1>1. ASSUME NEW j \in DOMAIN t PROVE u[j].path = t[j].path /\ u[j].parent = t[j].parent /\ u[j].is_dir = t[j].is_dir
  <2>1. CASE j # i
    BY <2>1
  <2>2. CASE j = i
    <3>1. t[i] \in FileRows /\ u[i] \in FileRows
      BY DEF Filed
    <3>2. t[i].is_dir \in BOOLEAN /\ u[i].is_dir \in BOOLEAN
      BY <3>1 DEF FileRows
    <3>3. t[i].is_dir = FALSE /\ u[i].is_dir = FALSE
      BY <3>2
    <3> QED BY <2>2, <3>3
  <2> QED BY <2>1, <2>2
<1>2. \A j \in DOMAIN t : ~u[j].is_dir => u[j].blob = u[j].etag /\ u[j].blob \in 1..(m + 1)
  BY <1>0 DEF Filed
<1>3. \A j, k \in DOMAIN t : ~u[j].is_dir /\ ~u[k].is_dir /\ u[j].blob = u[k].blob => j = k
  <2> SUFFICES ASSUME NEW j \in DOMAIN t, NEW k \in DOMAIN t, ~u[j].is_dir, ~u[k].is_dir, u[j].blob = u[k].blob, j # k PROVE FALSE
    OBVIOUS
  <2>1. CASE j = i
    <3>1. u[k] = t[k] /\ u[k].blob = m + 1
      BY <2>1
    <3> QED BY <1>0, <3>1 DEF Filed
  <2>2. CASE k = i
    <3>1. u[j] = t[j] /\ u[j].blob = m + 1
      BY <2>2
    <3> QED BY <1>0, <3>1 DEF Filed
  <2>3. CASE j # i /\ k # i
    BY <2>3 DEF Filed
  <2> QED BY <2>1, <2>2, <2>3
<1>4. \A j \in DOMAIN t : u[j].parent = Rows!ParentOf(u[j].path)
  BY <1>1 DEF Filed
<1>5. \A j, k \in DOMAIN t : u[j].path = u[k].path => j = k
  BY <1>1 DEF Filed
<1>6. \A j \in DOMAIN t : Deep(u[j].path) # 1 => \E k \in DOMAIN t : u[k].path = u[j].parent /\ u[k].is_dir
  BY <1>1 DEF Filed
<1> QED BY <1>0, <1>2, <1>3, <1>4, <1>5, <1>6 DEF Filed

\* Numbers given out since change nothing.
LEMMA FiledStill ==
  ASSUME NEW t, NEW n \in Nat, NEW m \in Nat, NEW k \in Nat, m <= k, Filed(t, n, m)
  PROVE  Filed(t, n, k)
<1>1. 1..m \subseteq 1..k
  OBVIOUS
<1> QED BY <1>1 DEF Filed

\* A row more, in a folder that is there.
LEMMA RowAdded ==
  ASSUME NEW t, NEW n \in Nat, NEW m \in Nat, NEW k \in Nat, Filed(t, n, m), NEW row \in FileRows,
         \A j \in DOMAIN t : t[j].path # row.path,
         row.parent = Rows!ParentOf(row.path),
         Deep(row.path) # 1 => \E j \in DOMAIN t : t[j].path = row.parent /\ t[j].is_dir,
         m <= k, ~row.is_dir => row.blob = row.etag /\ row.blob \in 1..k /\ row.blob \notin 1..m
  PROVE  Filed(Rows!With(t, n + 1, row), n + 1, k)
<1> DEFINE u == Rows!With(t, n + 1, row)
<1>0. 1..n \subseteq 1..(n + 1) /\ n + 1 \in 1..(n + 1) /\ n + 1 \notin 1..n /\ 1..m \subseteq 1..k
  OBVIOUS
<1>1. n + 1 \notin DOMAIN t
  BY <1>0 DEF Filed
<1>2. DOMAIN u = DOMAIN t \cup {n + 1} /\ u[n + 1] = row /\ \A j \in DOMAIN t : u[j] = t[j]
  BY <1>1 DEF Rows!With
<1>3. u = [y \in DOMAIN u |-> u[y]]
  BY DEF Rows!With
<1> HIDE DEF u
<1>4. DOMAIN u \subseteq 1..(n + 1)
  BY <1>0, <1>2 DEF Filed
<1>5. \A j \in DOMAIN u : u[j] \in FileRows
  BY <1>2 DEF Filed
<1>6. u \in [DOMAIN u -> FileRows]
  BY <1>3, <1>5
<1>7. \A j \in DOMAIN u : u[j].parent = Rows!ParentOf(u[j].path)
  BY <1>2 DEF Filed
<1>8. \A i, j \in DOMAIN u : u[i].path = u[j].path => i = j
  BY <1>1, <1>2 DEF Filed
<1>9. \A i \in DOMAIN u : Deep(u[i].path) # 1 => \E j \in DOMAIN u : u[j].path = u[i].parent /\ u[j].is_dir
  BY <1>2 DEF Filed
<1>10. \A i \in DOMAIN u : ~u[i].is_dir => u[i].blob = u[i].etag /\ u[i].blob \in 1..k
  BY <1>0, <1>2 DEF Filed
<1>11. \A i, j \in DOMAIN u : ~u[i].is_dir /\ ~u[j].is_dir /\ u[i].blob = u[j].blob => i = j
  BY <1>1, <1>2 DEF Filed
<1> QED BY <1>4, <1>6, <1>7, <1>8, <1>9, <1>10, <1>11 DEF Filed, u

\* Rows that have no children go.
LEMMA RowsGone ==
  ASSUME NEW t, NEW n, NEW m, Filed(t, n, m), NEW gone,
         \A i \in gone \cap DOMAIN t : \A j \in DOMAIN t : t[j].parent # t[i].path
  PROVE  Filed(Rows!Only(t, DOMAIN t \ gone), n, m)
<1> DEFINE u == Rows!Only(t, DOMAIN t \ gone)
<1>1. DOMAIN u = DOMAIN t \ gone /\ \A j \in DOMAIN u : u[j] = t[j]
  BY DEF Rows!Only
<1>2. u = [y \in DOMAIN u |-> u[y]]
  BY DEF Rows!Only
<1> HIDE DEF u
<1>3. \A j \in DOMAIN u : u[j] \in FileRows
  BY <1>1 DEF Filed
<1>4. u \in [DOMAIN u -> FileRows]
  BY <1>2, <1>3
<1>5. \A i \in DOMAIN u : Deep(u[i].path) # 1 => \E j \in DOMAIN u : u[j].path = u[i].parent /\ u[j].is_dir
  <2> SUFFICES ASSUME NEW i \in DOMAIN u, Deep(u[i].path) # 1 PROVE \E j \in DOMAIN u : u[j].path = u[i].parent /\ u[j].is_dir
    OBVIOUS
  <2>1. PICK j \in DOMAIN t : t[j].path = t[i].parent /\ t[j].is_dir
    BY <1>1 DEF Filed
  <2>2. j \notin gone
    BY <1>1, <2>1
  <2> QED BY <1>1, <2>1, <2>2
<1>6. DOMAIN u \subseteq 1..n
  BY <1>1 DEF Filed
<1>7. \A i \in DOMAIN u : u[i].parent = Rows!ParentOf(u[i].path)
  BY <1>1 DEF Filed
<1>8. \A i \in DOMAIN u : ~u[i].is_dir => u[i].blob = u[i].etag /\ u[i].blob \in 1..m
  BY <1>1 DEF Filed
<1>10. \A i, j \in DOMAIN u : u[i].path = u[j].path => i = j
  BY <1>1 DEF Filed
<1>11. \A i, j \in DOMAIN u : ~u[i].is_dir /\ ~u[j].is_dir /\ u[i].blob = u[j].blob => i = j
  BY <1>1 DEF Filed
<1>9. Filed(u, n, m)
  BY <1>4, <1>5, <1>6, <1>7, <1>8, <1>10, <1>11 DEF Filed
<1> QED BY <1>9 DEF u

\* Where a path is after a move.
Dest(p, from, to) == IF AtOrBelow(from, p) THEN Rows!Rebased(p, from, to) ELSE p

\* Every row of the branch moves, to a place where nothing is, in a folder.
LEMMA BranchMoved ==
  ASSUME NEW t, NEW n, NEW m, Filed(t, n, m), NEW from \in TPaths, NEW to \in TPaths, NEW u \in [DOMAIN t -> FileRows],
         ~AtOrBelow(from, to), \A i \in DOMAIN t : t[i].path # to,
         Deep(to) # 1 => \E j \in DOMAIN t : t[j].path = Rows!ParentOf(to) /\ t[j].is_dir,
         \A i \in DOMAIN t : /\ u[i].path = Dest(t[i].path, from, to) /\ u[i].parent = Rows!ParentOf(u[i].path)
                             /\ u[i].blob = t[i].blob /\ u[i].etag = t[i].etag /\ u[i].is_dir = t[i].is_dir
  PROVE  Filed(u, n, m)
<1>1. \A i \in DOMAIN t : t[i].path \in TPaths /\ t[i].parent = Rows!ParentOf(t[i].path)
  BY DEF Filed, FileRows
<1>2. \A i \in DOMAIN t : ~AtOrBelow(to, t[i].path)
  BY FoldersAbove
<1>3. ASSUME NEW i \in DOMAIN t, NEW j \in DOMAIN t, u[i].path = u[j].path PROVE i = j
  <2>1. t[i].path = t[j].path
    <3>1. CASE AtOrBelow(from, t[i].path) /\ AtOrBelow(from, t[j].path)
      <4>1. Rows!Rebased(t[i].path, from, to) = Rows!Rebased(t[j].path, from, to)
        BY <1>3, <3>1 DEF Dest
      <4>2. \A p, q \in TPaths : AtOrBelow(from, p) /\ AtOrBelow(from, q) /\ Rows!Rebased(p, from, to) = Rows!Rebased(q, from, to)
              => p = q
        BY MovingIs
      <4>3. t[i].path \in TPaths /\ t[j].path \in TPaths
        BY <1>1
      <4> QED BY <3>1, <4>1, <4>2, <4>3
    <3>2. CASE AtOrBelow(from, t[i].path) /\ ~AtOrBelow(from, t[j].path)
      <4>1. u[i].path = Rows!Rebased(t[i].path, from, to) /\ u[j].path = t[j].path
        BY <3>2 DEF Dest
      <4>2. AtOrBelow(to, u[i].path)
        BY <1>1, <3>2, <4>1, MovingIs
      <4> QED BY <1>2, <1>3, <4>1, <4>2
    <3>3. CASE ~AtOrBelow(from, t[i].path) /\ AtOrBelow(from, t[j].path)
      <4>1. u[j].path = Rows!Rebased(t[j].path, from, to) /\ u[i].path = t[i].path
        BY <3>3 DEF Dest
      <4>2. AtOrBelow(to, u[j].path)
        BY <1>1, <3>3, <4>1, MovingIs
      <4> QED BY <1>2, <1>3, <4>1, <4>2
    <3>4. CASE ~AtOrBelow(from, t[i].path) /\ ~AtOrBelow(from, t[j].path)
      BY <1>3, <3>4 DEF Dest
    <3> QED BY <3>1, <3>2, <3>3, <3>4
  <2> QED BY <2>1 DEF Filed
<1>4. ASSUME NEW i \in DOMAIN t, Deep(u[i].path) # 1 PROVE \E j \in DOMAIN t : u[j].path = u[i].parent /\ u[j].is_dir
  <2>1. CASE t[i].path = from
    <3>1. AtOrBelow(from, from)
      BY DEF AtOrBelow
    <3>2. u[i].path = to
      BY <2>1, <3>1, MovingIs DEF Dest
    <3>3. PICK j \in DOMAIN t : t[j].path = Rows!ParentOf(to) /\ t[j].is_dir
      BY <1>4, <3>2
    <3>4. ~AtOrBelow(from, t[j].path)
      BY <1>4, <3>2, <3>3, ParentBelow
    <3> QED BY <3>2, <3>3, <3>4 DEF Dest
  <2>2. CASE AtOrBelow(from, t[i].path) /\ t[i].path # from
    <3>1. /\ u[i].path = Rows!Rebased(t[i].path, from, to) /\ Deep(t[i].path) # 1
          /\ AtOrBelow(from, Rows!ParentOf(t[i].path))
          /\ u[i].parent = Rows!Rebased(Rows!ParentOf(t[i].path), from, to)
      BY <1>1, <2>2, MovingIs DEF Dest
    <3>2. PICK j \in DOMAIN t : t[j].path = Rows!ParentOf(t[i].path) /\ t[j].is_dir
      BY <1>1, <3>1 DEF Filed
    <3> QED BY <3>1, <3>2 DEF Dest
  <2>3. CASE ~AtOrBelow(from, t[i].path)
    <3>1. u[i].path = t[i].path /\ u[i].parent = t[i].parent
      BY <1>1, <2>3 DEF Dest
    <3>2. PICK j \in DOMAIN t : t[j].path = t[i].parent /\ t[j].is_dir
      BY <1>4, <3>1 DEF Filed
    <3>3. ~AtOrBelow(from, t[j].path)
      BY <1>1, <1>4, <2>3, <3>1, <3>2, ParentBelow
    <3> QED BY <3>1, <3>2, <3>3 DEF Dest
  <2> QED BY <2>1, <2>2, <2>3 DEF AtOrBelow
<1>5. \A i \in DOMAIN t : ~u[i].is_dir => u[i].blob = u[i].etag /\ u[i].blob \in 1..m
  BY DEF Filed
<1>6. \A i, j \in DOMAIN t : ~u[i].is_dir /\ ~u[j].is_dir /\ u[i].blob = u[j].blob => i = j
  BY DEF Filed
<1>7. DOMAIN u = DOMAIN t /\ DOMAIN t \subseteq 1..n
  BY DEF Filed
<1> QED BY <1>3, <1>4, <1>5, <1>6, <1>7 DEF Filed

-----------------------------------------------------------------------------
(* The tables: what each call does to them.                                *)

LEMMA RowIs == ASSUME NEW p \in TPaths, NEW k \in Nat PROVE Rows!FileRow(p, k) \in FileRows
BY ParentAbove DEF Rows!FileRow, FileRows

\* The three upserts: a folder stays, a file gets the bytes and keeps its place.
LEMMA UpsertIs ==
  ASSUME RInv, NEW i \in DOMAIN filesTable, NEW k \in Nat, NEW got,
         got = Rows!Upsert(filesTable[i], Rows!FileRow(filesTable[i].path, k))
  PROVE  /\ filesTable[i].is_dir => got.row = filesTable[i] /\ got.answer = "conflict"
         /\ ~filesTable[i].is_dir =>
              /\ got.answer = "ok" /\ got.row \in FileRows
              /\ got.row.path = filesTable[i].path /\ got.row.parent = filesTable[i].parent
              /\ ~got.row.is_dir /\ got.row.blob = k /\ got.row.etag = k
              /\ vendor = "mysql" => got.row.path_hash = got.row.path
<1>1. PICK old \in FileRows : old = filesTable[i]
  BY DEF RInv, Filed
<1>2. old.parent = Rows!ParentOf(old.path) /\ old.path \in TPaths /\ (vendor = "mysql" => old.path_hash = old.path)
  BY <1>1 DEF RInv, Filed, Hashed, FileRows
<1>3. PICK new \in FileRows : new = Rows!FileRow(old.path, k)
  BY <1>2, RowIs
<1>4. /\ new.path = old.path /\ new.path_hash = old.path /\ new.parent = old.parent /\ new.blob = k /\ new.etag = k
      /\ new.is_dir = FALSE
  BY <1>2, <1>3 DEF Rows!FileRow
<1>5. got = Rows!Upsert(old, new)
  BY <1>1, <1>3
<1>6. CASE vendor = "sqlite"
  <2>1. got = Rows!sqliteUpsert(old, new)
    BY <1>5, <1>6 DEF Rows!Upsert, Rows!Driver
  <2> QED BY <1>1, <1>4, <1>6, <2>1 DEF Rows!sqliteUpsert, FileRows
<1>7. CASE vendor = "postgres"
  <2>1. got = Rows!postgresUpsert(old, new)
    BY <1>5, <1>7 DEF Rows!Upsert, Rows!Driver
  <2> QED BY <1>1, <1>4, <1>7, <2>1 DEF Rows!postgresUpsert, FileRows
<1>8. CASE vendor = "mysql"
  <2>1. got = Rows!mysqlUpsert(old, new)
    BY <1>5, <1>8 DEF Rows!Upsert, Rows!Driver
  <2>2. CASE old.is_dir
    <3>1. got = [row |-> [old EXCEPT !.blob = old.blob, !.etag = old.etag, !.mtime = old.mtime], answer |-> "conflict"]
      BY <2>1, <2>2 DEF Rows!mysqlUpsert, FileRows
    <3>2. [old EXCEPT !.blob = old.blob, !.etag = old.etag, !.mtime = old.mtime] = old
      BY DEF FileRows
    <3> QED BY <1>1, <2>2, <3>1, <3>2
  <2>3. CASE ~old.is_dir
    <3>1. got = [row |-> [old EXCEPT !.blob = new.blob, !.etag = new.etag, !.mtime = new.mtime], answer |-> "ok"]
      BY <2>1, <2>3 DEF Rows!mysqlUpsert, FileRows
    <3>2. got.row = [old EXCEPT !.blob = new.blob, !.etag = new.etag, !.mtime = new.mtime] /\ got.answer = "ok"
      BY <3>1
    <3> QED BY <1>1, <1>2, <1>4, <2>3, <3>2 DEF FileRows
  <2> QED BY <2>2, <2>3
<1> QED BY <1>6, <1>7, <1>8 DEF RInv, Rows!Vendors

LEMMA PutFileDoes ==
  ASSUME RInv, NEW p \in TPaths, Rows!PutFile(p)
  PROVE  /\ puts' = puts + 1 /\ UNCHANGED <<vendor, mediaTable, uploadsTable, putting, told>>
         /\ call' = [op |-> "PutFile", path |-> p, bytes |-> puts + 1]
         /\ \/ \E i \in DOMAIN filesTable :
                 /\ filesTable[i].path = p /\ filesTable[i].is_dir /\ filesTable' = filesTable /\ lastId' = lastId
                 /\ result' = "conflict"
            \/ \E i \in DOMAIN filesTable :
                 /\ filesTable[i].path = p /\ ~filesTable[i].is_dir /\ lastId' = lastId /\ result' = "ok"
                 /\ filesTable' \in [DOMAIN filesTable -> FileRows]
                 /\ \A j \in DOMAIN filesTable : j # i => filesTable'[j] = filesTable[j]
                 /\ filesTable'[i].path = p /\ filesTable'[i].parent = filesTable[i].parent /\ ~filesTable'[i].is_dir
                 /\ filesTable'[i].blob = puts + 1 /\ filesTable'[i].etag = puts + 1
                 /\ vendor = "mysql" => filesTable'[i].path_hash = p
            \/ /\ \A i \in DOMAIN filesTable : filesTable[i].path # p
               /\ lastId' = lastId + 1 /\ result' = "ok"
               /\ filesTable' = Rows!With(filesTable, lastId + 1, Rows!FileRow(p, puts + 1))
<1>1. /\ puts' = puts + 1 /\ UNCHANGED <<vendor, mediaTable, uploadsTable, putting, told>>
      /\ call' = [op |-> "PutFile", path |-> p, bytes |-> puts + 1]
  BY DEF Rows!PutFile, Rows!Answers
<1>2. CASE \E i \in Rows!RowAt(p) :
          LET got == Rows!Upsert(filesTable[i], Rows!FileRow(p, puts + 1))
          IN filesTable' = [filesTable EXCEPT ![i] = got.row] /\ result' = got.answer /\ lastId' = lastId
  <2>1. PICK i \in Rows!RowAt(p) :
          LET got == Rows!Upsert(filesTable[i], Rows!FileRow(p, puts + 1))
          IN filesTable' = [filesTable EXCEPT ![i] = got.row] /\ result' = got.answer /\ lastId' = lastId
    BY <1>2
  <2>2. i \in DOMAIN filesTable /\ filesTable[i].path = p
    BY <2>1, RowsOfPath
  <2>3. PICK got : got = Rows!Upsert(filesTable[i], Rows!FileRow(p, puts + 1))
    OBVIOUS
  <2>4. filesTable' = [filesTable EXCEPT ![i] = got.row] /\ result' = got.answer /\ lastId' = lastId
    BY <2>1, <2>3
  <2>5. puts + 1 \in Nat /\ filesTable \in [DOMAIN filesTable -> FileRows]
    BY DEF RInv, Filed
  <2>6. /\ filesTable[i].is_dir => got.row = filesTable[i] /\ got.answer = "conflict"
        /\ ~filesTable[i].is_dir =>
              /\ got.answer = "ok" /\ got.row \in FileRows
              /\ got.row.path = filesTable[i].path /\ got.row.parent = filesTable[i].parent
              /\ ~got.row.is_dir /\ got.row.blob = puts + 1 /\ got.row.etag = puts + 1
              /\ vendor = "mysql" => got.row.path_hash = got.row.path
    BY <2>2, <2>3, <2>5, UpsertIs
  <2>7. CASE filesTable[i].is_dir
    <3>1. filesTable' = filesTable
      BY <2>2, <2>4, <2>5, <2>6, <2>7
    <3> QED BY <1>1, <2>2, <2>4, <2>6, <2>7, <3>1
  <2>8. CASE ~filesTable[i].is_dir
    <3>1. /\ filesTable' \in [DOMAIN filesTable -> FileRows] /\ filesTable'[i] = got.row
          /\ \A j \in DOMAIN filesTable : j # i => filesTable'[j] = filesTable[j]
      BY <2>2, <2>4, <2>5, <2>6, <2>8
    <3> QED BY <1>1, <2>2, <2>4, <2>6, <2>8, <3>1
  <2> QED BY <2>7, <2>8
<1>3. CASE /\ Rows!RowAt(p) = {} /\ lastId' = lastId + 1 /\ result' = "ok"
           /\ filesTable' = Rows!With(filesTable, lastId + 1, Rows!FileRow(p, puts + 1))
  <2>1. \A i \in DOMAIN filesTable : filesTable[i].path # p
    BY <1>3, RowsOfPath
  <2> QED BY <1>1, <1>3, <2>1
<1> QED BY <1>2, <1>3 DEF Rows!PutFile, Rows!Answers, Rows!NewId

LEMMA CreateDirDoes ==
  ASSUME RInv, NEW p \in TPaths, Rows!CreateDir(p)
  PROVE  /\ UNCHANGED <<vendor, mediaTable, uploadsTable, putting, puts, told>>
         /\ call' = [op |-> "CreateDir", path |-> p]
         /\ \/ /\ \E i \in DOMAIN filesTable : filesTable[i].path = p
               /\ filesTable' = filesTable /\ lastId' = lastId /\ result' = "conflict"
            \/ /\ \A i \in DOMAIN filesTable : filesTable[i].path # p
               /\ lastId' = lastId + 1 /\ result' = "ok"
               /\ filesTable' = Rows!With(filesTable, lastId + 1, [Rows!FileRow(p, 0) EXCEPT !.is_dir = TRUE])
<1>1. vendor \in Rows!Vendors
  BY DEF RInv
<1>2. Rows!Driver(Rows!sqliteDir(p), Rows!mysqlDir(p), Rows!postgresDir(p)) = Rows!DirRow(p)
  BY <1>1, OneDriver DEF Rows!sqliteDir, Rows!mysqlDir, Rows!postgresDir
<1> QED BY <1>2, RowsOfPath DEF Rows!CreateDir, Rows!Answers, Rows!NewId, Rows!DirRow

LEMMA DirIs ==
  ASSUME NEW p \in TPaths, NEW row, row = [Rows!FileRow(p, 0) EXCEPT !.is_dir = TRUE]
  PROVE  /\ row \in FileRows /\ row.path = p /\ row.path_hash = p /\ row.parent = Rows!ParentOf(p) /\ row.is_dir /\ row.blob = 0
BY ParentAbove DEF Rows!FileRow, FileRows

\* The rows of a path are one or none, and that is what is counted.
LEMMA OneOrNone ==
  ASSUME NEW S, \A i, j \in S : i = j
  PROVE  /\ IsFiniteSet(S) /\ Rows!Cardinality(S) \in Nat
         /\ Rows!Cardinality(S) > 0 <=> S # {}
         /\ Rows!Cardinality(S) = 0 <=> S = {}
         /\ Rows!Cardinality(S) \in {0, 1}
<1>1. Rows!Cardinality(S) = Cardinality(S)
  BY Zenon DEF Rows!Cardinality, Cardinality
<1>2. CASE S = {}
  <2>1. IsFiniteSet(S) /\ Cardinality(S) = 0
    BY <1>2, FS_EmptySet
  <2> QED BY <1>1, <1>2, <2>1
<1>3. CASE S # {}
  <2>1. PICK x : S = {x}
    BY <1>3
  <2>2. IsFiniteSet(S) /\ Cardinality(S) = 1
    BY <2>1, FS_Singleton
  <2> QED BY <1>1, <1>3, <2>2
<1> QED BY <1>2, <1>3

LEMMA AffectedIs ==
  ASSUME RInv, NEW S, NEW T PROVE Rows!Affected(S, T) = Rows!Cardinality(S)
BY OneDriver DEF RInv, Rows!Affected, Rows!sqliteAffected, Rows!mysqlAffected, Rows!postgresAffected

LEMMA DeleteFileDoes ==
  ASSUME RInv, NEW p \in TPaths, Rows!DeleteFile(p)
  PROVE  /\ UNCHANGED <<vendor, uploadsTable, putting, puts, told, lastId>>
         /\ call' = [op |-> "DeleteFile", path |-> p]
         /\ \/ /\ \A i \in DOMAIN filesTable : filesTable[i].path # p
               /\ UNCHANGED <<filesTable, mediaTable>> /\ result' = "missing"
            \/ \E i, j \in DOMAIN filesTable :
                 /\ filesTable[i].path = p /\ filesTable[j].parent = p
                 /\ UNCHANGED <<filesTable, mediaTable>> /\ result' = "conflict"
            \/ \E i \in DOMAIN filesTable :
                 /\ filesTable[i].path = p /\ \A j \in DOMAIN filesTable : filesTable[j].parent # p
                 /\ filesTable' = Rows!Only(filesTable, DOMAIN filesTable \ {i})
                 /\ mediaTable' = Rows!Only(mediaTable, DOMAIN filesTable \ {i}) /\ result' = "ok"
<1> DEFINE gone == Rows!Childless(p)
<1>1. vendor \in Rows!Vendors
  BY DEF RInv
<1>2. Rows!Driver(Rows!sqliteDeleted(p), Rows!mysqlDeleted(p), Rows!postgresDeleted(p)) = gone
  BY <1>1, OneDriver DEF Rows!sqliteDeleted, Rows!mysqlDeleted, Rows!postgresDeleted
<1>3. gone = {i \in DOMAIN filesTable : filesTable[i].path = p /\ \A j \in DOMAIN filesTable : filesTable[j].parent # p}
  BY RowsOfPath DEF Rows!Childless
<1> HIDE DEF gone
<1>4. /\ UNCHANGED <<vendor, uploadsTable, putting, puts, told, lastId>>
      /\ call' = [op |-> "DeleteFile", path |-> p]
      /\ filesTable' = Rows!Only(filesTable, DOMAIN filesTable \ gone)
      /\ mediaTable' = Rows!Only(mediaTable, DOMAIN filesTable \ gone)
      /\ result' = Rows!CheckAffected(Rows!Cardinality(gone), p)
  BY <1>2, AffectedIs DEF Rows!DeleteFile, Rows!Answers
<1>5. \A i, j \in gone : i = j
  BY <1>3 DEF RInv, Filed
<1>6. CASE gone = {}
  <2>1. filesTable' = filesTable
    <3>1. filesTable = [i \in DOMAIN filesTable |-> filesTable[i]]
      BY DEF RInv, Filed
    <3> QED BY <1>4, <1>6, <3>1 DEF Rows!Only
  <2>2. mediaTable' = mediaTable
    <3>1. mediaTable = [i \in DOMAIN mediaTable |-> mediaTable[i]] /\ DOMAIN mediaTable \subseteq DOMAIN filesTable
      BY DEF RInv, Learnt
    <3>2. DOMAIN mediaTable \cap (DOMAIN filesTable \ gone) = DOMAIN mediaTable
      BY <1>6, <3>1
    <3> QED BY <1>4, <3>1, <3>2 DEF Rows!Only
  <2>3. ~(Rows!Cardinality(gone) > 0)
    BY <1>5, <1>6, OneOrNone
  <2>4. result' = IF \E i \in Rows!RowAt(p) : filesTable[i].is_dir THEN "conflict" ELSE "missing"
    BY <1>4, <2>3 DEF Rows!CheckAffected
  <2>5. CASE \A i \in DOMAIN filesTable : filesTable[i].path # p
    <3>1. result' = "missing"
      BY <2>4, <2>5, RowsOfPath
    <3> QED BY <1>4, <2>1, <2>2, <2>5, <3>1
  <2>6. CASE \E i \in DOMAIN filesTable : filesTable[i].path = p
    <3>1. PICK i \in DOMAIN filesTable, j \in DOMAIN filesTable : filesTable[i].path = p /\ filesTable[j].parent = p
      BY <1>3, <1>6, <2>6
    <3>2. filesTable[j].path \in TPaths /\ filesTable[j].parent = Rows!ParentOf(filesTable[j].path)
      BY DEF RInv, Filed, FileRows
    <3>3. Deep(filesTable[j].path) # 1
      BY <3>1, <3>2, ParentAbove DEF TPaths
    <3>4. PICK k \in DOMAIN filesTable : filesTable[k].path = p /\ filesTable[k].is_dir
      BY <3>1, <3>3 DEF RInv, Filed
    <3>5. result' = "conflict"
      BY <2>4, <3>4, RowsOfPath
    <3> QED BY <1>4, <2>1, <2>2, <3>1, <3>5
  <2> QED BY <2>5, <2>6
<1>7. CASE gone # {}
  <2>1. PICK i \in gone : gone = {i}
    BY <1>5, <1>7
  <2>2. result' = "ok"
    BY <1>4, <1>5, <1>7, OneOrNone DEF Rows!CheckAffected
  <2> QED BY <1>3, <1>4, <2>1, <2>2
<1> QED BY <1>6, <1>7

LEMMA MoveFileDoes ==
  ASSUME RInv, NEW from \in TPaths, NEW to \in TPaths, Rows!MoveFile(from, to)
  PROVE  /\ UNCHANGED <<vendor, mediaTable, uploadsTable, putting, puts, told, lastId>>
         /\ call' = [op |-> "MoveFile", path |-> from, to |-> to]
         /\ \/ (to = from \/ Rows!Under(to, from)) /\ filesTable' = filesTable /\ result' = "conflict"
            \/ /\ ~(to = from \/ Rows!Under(to, from)) /\ \A i \in DOMAIN filesTable : filesTable[i].path # from
               /\ filesTable' = filesTable /\ result' = "missing"
            \/ /\ ~(to = from \/ Rows!Under(to, from))
               /\ \E i, j \in DOMAIN filesTable : filesTable[i].path = from /\ filesTable[j].path = to
               /\ filesTable' = filesTable /\ result' = "conflict"
            \/ /\ ~AtOrBelow(from, to)
               /\ \E i \in DOMAIN filesTable : filesTable[i].path = from
               /\ \A i \in DOMAIN filesTable : filesTable[i].path # to
               /\ filesTable' \in [DOMAIN filesTable -> FileRows] /\ result' = "ok"
               /\ \A i \in DOMAIN filesTable :
                    /\ filesTable'[i].path = Dest(filesTable[i].path, from, to)
                    /\ filesTable'[i].parent = Rows!ParentOf(filesTable'[i].path)
                    /\ filesTable'[i].blob = filesTable[i].blob /\ filesTable'[i].etag = filesTable[i].etag
                    /\ filesTable'[i].is_dir = filesTable[i].is_dir
                    /\ vendor = "mysql" => filesTable'[i].path_hash = filesTable'[i].path
<1> DEFINE Moved(row) ==
        CASE row.path = from -> [row EXCEPT !.path = to, !.path_hash = to, !.parent = Rows!ParentOf(to)]
          [] Rows!Under(row.path, from) ->
               Rows!Driver(Rows!sqliteMoved(row, from, to), Rows!mysqlMoved(row, from, to), Rows!postgresMoved(row, from, to))
          [] OTHER -> row
           answer == CASE to = from \/ Rows!Under(to, from) -> "conflict"
                  [] Rows!RowAt(from) # {} /\ Rows!RowAt(to) # {} -> "conflict"
                  [] OTHER -> Rows!CheckAffected(Rows!Cardinality(Rows!RowAt(from)), from)
<1>1. /\ UNCHANGED <<vendor, mediaTable, uploadsTable, putting, puts, told, lastId>>
      /\ call' = [op |-> "MoveFile", path |-> from, to |-> to]
      /\ filesTable' = IF answer = "ok" THEN [i \in DOMAIN filesTable |-> Moved(filesTable[i])] ELSE filesTable
      /\ result' = answer
  BY AffectedIs DEF Rows!MoveFile, Rows!Answers
<1>2. \A i, j \in Rows!RowAt(from) : i = j
  BY RowsOfPath DEF RInv, Filed
<1>3. Rows!CheckAffected(Rows!Cardinality(Rows!RowAt(from)), from) = IF Rows!RowAt(from) # {} THEN "ok" ELSE "missing"
  BY <1>2, OneOrNone DEF Rows!CheckAffected
<1>4. CASE to = from \/ Rows!Under(to, from)
  <2>1. answer = "conflict"
    BY <1>4
  <2> QED BY <1>1, <1>4, <2>1
<1>5. CASE ~(to = from \/ Rows!Under(to, from)) /\ Rows!RowAt(from) = {}
  <2>1. answer = "missing"
    BY <1>3, <1>5
  <2>2. \A i \in DOMAIN filesTable : filesTable[i].path # from
    BY <1>5, RowsOfPath
  <2> QED BY <1>1, <1>5, <2>1, <2>2
<1>6. CASE ~(to = from \/ Rows!Under(to, from)) /\ Rows!RowAt(from) # {} /\ Rows!RowAt(to) # {}
  <2>1. answer = "conflict"
    BY <1>6
  <2>2. \E i, j \in DOMAIN filesTable : filesTable[i].path = from /\ filesTable[j].path = to
    BY <1>6, RowsOfPath
  <2> QED BY <1>1, <1>6, <2>1, <2>2
<1>7. CASE ~(to = from \/ Rows!Under(to, from)) /\ Rows!RowAt(from) # {} /\ Rows!RowAt(to) = {}
  <2>1. answer = "ok"
    BY <1>3, <1>7
  <2>2. filesTable' = [i \in DOMAIN filesTable |-> Moved(filesTable[i])] /\ result' = "ok"
    BY <1>1, <2>1
  <2>3. ~AtOrBelow(from, to)
    BY <1>7 DEF AtOrBelow
  <2>4. (\E i \in DOMAIN filesTable : filesTable[i].path = from) /\ \A i \in DOMAIN filesTable : filesTable[i].path # to
    BY <1>7, RowsOfPath
  <2>5. ASSUME NEW row \in FileRows, row.parent = Rows!ParentOf(row.path), vendor = "mysql" => row.path_hash = row.path
        PROVE  /\ Moved(row) \in FileRows /\ Moved(row).path = Dest(row.path, from, to)
               /\ Moved(row).parent = Rows!ParentOf(Moved(row).path)
               /\ Moved(row).blob = row.blob /\ Moved(row).etag = row.etag /\ Moved(row).is_dir = row.is_dir
               /\ vendor = "mysql" => Moved(row).path_hash = Moved(row).path
    <3>1. row.path \in TPaths /\ AtOrBelow(from, from)
      BY DEF FileRows, AtOrBelow
    <3>2. CASE row.path = from
      <4>0. ~Rows!Under(row.path, from)
        BY <3>1, <3>2, BelowIs
      <4>1. Moved(row) = [row EXCEPT !.path = to, !.path_hash = to, !.parent = Rows!ParentOf(to)]
        BY <3>2, <4>0
      <4>2. Dest(row.path, from, to) = to
        BY <3>1, <3>2, MovingIs DEF Dest
      <4>3. Rows!ParentOf(to) \in Seq(Nat)
        BY ParentAbove
      <4> HIDE DEF Moved
      <4> QED BY <4>1, <4>2, <4>3 DEF FileRows
    <3>3. CASE row.path # from /\ Rows!Under(row.path, from)
      <4>1. Moved(row) = Rows!Driver(Rows!sqliteMoved(row, from, to), Rows!mysqlMoved(row, from, to), Rows!postgresMoved(row, from, to))
        BY <3>3
      <4>2. AtOrBelow(from, row.path)
        BY <3>3 DEF AtOrBelow
      <4>3. PICK q \in TPaths : q = Rows!Rebased(row.path, from, to) /\ q = Dest(row.path, from, to)
        BY <3>1, <4>2, MovingIs DEF Dest
      <4>4. Rows!Rebased(row.parent, from, to) = Rows!ParentOf(q) /\ Rows!ParentOf(q) \in Seq(Nat)
        <5>1. \A p \in TPaths : AtOrBelow(from, p) /\ p # from =>
                Rows!ParentOf(Rows!Rebased(p, from, to)) = Rows!Rebased(Rows!ParentOf(p), from, to)
          BY MovingIs
        <5>2. Rows!ParentOf(q) = Rows!Rebased(Rows!ParentOf(row.path), from, to)
          BY <3>1, <3>3, <4>2, <4>3, <5>1
        <5>3. Rows!ParentOf(q) \in Seq(Nat)
          BY ParentAbove
        <5> QED BY <2>5, <5>2, <5>3
      <4>5. /\ Rows!sqliteMoved(row, from, to) = [row EXCEPT !.path = q, !.parent = Rows!ParentOf(q)]
            /\ Rows!postgresMoved(row, from, to) = [row EXCEPT !.path = q, !.parent = Rows!ParentOf(q)]
            /\ Rows!mysqlMoved(row, from, to) = [row EXCEPT !.path = q, !.path_hash = q, !.parent = Rows!ParentOf(q)]
        BY <4>3, <4>4 DEF Rows!sqliteMoved, Rows!postgresMoved, Rows!mysqlMoved
      <4>6. \/ vendor # "mysql" /\ Moved(row) = [row EXCEPT !.path = q, !.parent = Rows!ParentOf(q)]
            \/ vendor = "mysql" /\ Moved(row) = [row EXCEPT !.path = q, !.path_hash = q, !.parent = Rows!ParentOf(q)]
        BY <4>1, <4>5 DEF RInv, Rows!Vendors, Rows!Driver
      <4> HIDE DEF Moved
      <4> QED BY <4>3, <4>4, <4>6 DEF FileRows
    <3>4. CASE row.path # from /\ ~Rows!Under(row.path, from)
      <4>1. Moved(row) = row
        BY <3>4
      <4>2. Dest(row.path, from, to) = row.path
        BY <3>4 DEF Dest, AtOrBelow
      <4> HIDE DEF Moved
      <4> QED BY <2>5, <4>1, <4>2
    <3> QED BY <3>2, <3>3, <3>4
  <2>6. \A i \in DOMAIN filesTable :
          /\ filesTable[i] \in FileRows /\ filesTable[i].parent = Rows!ParentOf(filesTable[i].path)
          /\ vendor = "mysql" => filesTable[i].path_hash = filesTable[i].path
    BY DEF RInv, Filed, Hashed
  <2> HIDE DEF Moved, answer
  <2>7. ASSUME NEW i \in DOMAIN filesTable
        PROVE  /\ filesTable'[i] \in FileRows /\ filesTable'[i].path = Dest(filesTable[i].path, from, to)
               /\ filesTable'[i].parent = Rows!ParentOf(filesTable'[i].path)
               /\ filesTable'[i].blob = filesTable[i].blob /\ filesTable'[i].etag = filesTable[i].etag
               /\ filesTable'[i].is_dir = filesTable[i].is_dir
               /\ vendor = "mysql" => filesTable'[i].path_hash = filesTable'[i].path
    <3>1. filesTable'[i] = Moved(filesTable[i])
      BY <2>2
    <3> QED BY <2>5, <2>6, <3>1
  <2>8. filesTable' \in [DOMAIN filesTable -> FileRows]
    BY <2>2, <2>7
  <2> QED BY <1>1, <2>2, <2>3, <2>4, <2>7, <2>8
<1> QED BY <1>4, <1>5, <1>6, <1>7


\* An indexer hands in what it found: an error, whether to try again, a time.
HandsIn(id, etag, e, r, t) ==
  /\ id \in Rows!Handed /\ etag \in 1..puts /\ e \in {"", "bad", "away"} /\ r \in {0, 1} /\ t \in Nat /\ (r # 0 => e # "")
  /\ Rows!PutMedia(id, etag, 1, e, r, t)

LEMMA VerdictIs ==
  ASSUME NEW id \in Rows!Handed, NEW etag \in 1..puts, NEW said \in Rows!Verdicts,
         Rows!PutMedia(id, etag, 1, said.error, said.retry, said.taken)
  PROVE  \E e, r, t : HandsIn(id, etag, e, r, t)
<1>1. PICK e, r, t : e = said.error /\ r = said.retry /\ t = said.taken
  OBVIOUS
<1>2. e \in {"", "bad", "away"} /\ r \in {0, 1} /\ t \in Nat /\ (r # 0 => e # "")
  <2>1. CASE said = [error |-> "", retry |-> 0, taken |-> 9]
    <3>1. e = "" /\ r = 0 /\ t = 9
      BY <1>1, <2>1
    <3> QED BY <3>1
  <2>2. CASE said = [error |-> "bad", retry |-> 0, taken |-> 0]
    <3>1. e = "bad" /\ r = 0 /\ t = 0
      BY <1>1, <2>2
    <3> QED BY <3>1
  <2>3. CASE said = [error |-> "away", retry |-> 1, taken |-> 0]
    <3>1. e = "away" /\ r = 1 /\ t = 0
      BY <1>1, <2>3
    <3> QED BY <3>1
  <2> QED BY <2>1, <2>2, <2>3 DEF Rows!Verdicts, Rows!NULL
<1>3. Rows!PutMedia(id, etag, 1, e, r, t)
  BY <1>1, Zenon
<1> QED BY <1>2, <1>3 DEF HandsIn

\* What PutMedia leaves.
SaidOf(id, etag, e, r) ==
  /\ UNCHANGED <<vendor, filesTable, uploadsTable, puts, lastId>>
  /\ call' = [op |-> "PutMedia", id |-> id, etag |-> etag, version |-> 1, error |-> e, retry |-> r]
  /\ r # 0 => e # ""
  /\ \/ id \notin DOMAIN filesTable /\ mediaTable' = mediaTable /\ result' = "missing"
     \/ /\ id \in DOMAIN filesTable /\ ~filesTable[id].is_dir /\ result' = "ok"
        /\ \E row \in MediaRows :
             /\ mediaTable' = Rows!With(mediaTable, id, row)
             /\ row.version = 1 /\ row.etag = etag /\ row.error = e /\ row.retry = r
             /\ row.thumb = IF id \in DOMAIN mediaTable THEN mediaTable[id].thumb ELSE Rows!Untried

LEMMA PutMediaDoes ==
  ASSUME RInv, NEW id, NEW etag, NEW e, NEW r, NEW t, HandsIn(id, etag, e, r, t)
  PROVE  SaidOf(id, etag, e, r)
<1>1. e \in {"", "bad", "away"} /\ r \in {0, 1} /\ t \in Nat /\ (r # 0 => e # "")
  BY DEF HandsIn
<1>2. etag \in Nat
  <2>1. puts \in Nat /\ etag \in 1..puts
    BY DEF HandsIn, RInv
  <2> QED BY <2>1
<1> DEFINE new == [version |-> 1, etag |-> etag, error |-> e, retry |-> r, taken |-> t, sort |-> 0, thumb |-> Rows!Untried]
<1>3. /\ UNCHANGED <<vendor, filesTable, uploadsTable, puts, lastId>>
      /\ call' = [op |-> "PutMedia", id |-> id, etag |-> etag, version |-> 1, error |-> e, retry |-> r]
      /\ \/ id \in DOMAIN filesTable /\ mediaTable' = Rows!With(mediaTable, id, Rows!StoredMedia(id, new)) /\ result' = "ok"
         \/ id \notin DOMAIN filesTable /\ mediaTable' = mediaTable /\ result' = "missing"
  BY <1>1 DEF HandsIn, Rows!PutMedia, Rows!Answers, Rows!NULL
<1>4. Rows!StoredMedia(id, new) = Rows!MediaUpsert(id, new)
  BY OneDriver DEF RInv, Rows!StoredMedia, Rows!sqlitePutMedia, Rows!mysqlPutMedia, Rows!postgresPutMedia
<1>5. Rows!Untried \in ThumbRows
  BY DEF Rows!Untried, ThumbRows
<1>6. new \in MediaRows
  BY <1>1, <1>2, <1>5 DEF MediaRows
<1>7. ASSUME id \in DOMAIN mediaTable PROVE mediaTable[id] \in MediaRows
  BY <1>7 DEF RInv, Learnt
<1>8. PICK row : row = Rows!StoredMedia(id, new)
  OBVIOUS
<1>9. /\ row \in MediaRows /\ row.version = 1 /\ row.etag = etag /\ row.error = e /\ row.retry = r
      /\ row.thumb = IF id \in DOMAIN mediaTable THEN mediaTable[id].thumb ELSE Rows!Untried
  <2>1. CASE id \notin DOMAIN mediaTable
    <3>1. row = new
      BY <1>4, <1>8, <2>1 DEF Rows!MediaUpsert
    <3> QED BY <1>6, <2>1, <3>1
  <2>2. CASE id \in DOMAIN mediaTable
    <3>1. row = [new EXCEPT !.sort = mediaTable[id].sort, !.thumb = mediaTable[id].thumb]
      BY <1>4, <1>8, <2>2 DEF Rows!MediaUpsert
    <3>2. mediaTable[id].sort \in Nat /\ mediaTable[id].thumb \in ThumbRows
      BY <1>7, <2>2 DEF MediaRows
    <3> QED BY <1>1, <1>2, <2>2, <3>1, <3>2 DEF MediaRows
  <2> QED BY <2>1, <2>2
<1>10. id \in DOMAIN filesTable => ~filesTable[id].is_dir
  BY DEF HandsIn, Rows!Handed
<1> HIDE DEF new
<1> QED BY <1>1, <1>3, <1>8, <1>9, <1>10 DEF SaidOf

LEMMA SortDoes ==
  ASSUME RInv, Rows!SortMedia
  PROVE  /\ UNCHANGED <<vendor, filesTable, uploadsTable, call, result, puts, lastId>>
         /\ mediaTable' \in [DOMAIN mediaTable -> MediaRows]
         /\ \A i \in DOMAIN mediaTable :
              /\ mediaTable'[i].version = mediaTable[i].version /\ mediaTable'[i].etag = mediaTable[i].etag
              /\ mediaTable'[i].error = mediaTable[i].error /\ mediaTable'[i].retry = mediaTable[i].retry
              /\ mediaTable'[i].thumb = mediaTable[i].thumb
<1>1. mediaTable \in [DOMAIN mediaTable -> MediaRows] /\ DOMAIN mediaTable \subseteq DOMAIN filesTable
  BY DEF RInv, Learnt
<1>2. UNCHANGED <<vendor, filesTable, uploadsTable, call, result, puts, lastId>>
  BY DEF Rows!SortMedia
<1>3. CASE putting \notin DOMAIN mediaTable
  <2>1. mediaTable' = mediaTable
    BY <1>3 DEF Rows!SortMedia
  <2> QED BY <1>1, <1>2, <2>1
<1>4. CASE putting \in DOMAIN mediaTable
  <2>1. PICK s : mediaTable' = [mediaTable EXCEPT ![putting].sort = s] /\ (s = mediaTable[putting].taken \/ s = filesTable[putting].mtime)
    BY <1>4 DEF Rows!SortMedia
  <2>2. filesTable[putting] \in FileRows /\ mediaTable[putting] \in MediaRows
    BY <1>1, <1>4 DEF RInv, Filed
  <2>3. s \in Nat
    BY <2>1, <2>2 DEF FileRows, MediaRows
  <2>4. PICK row : row = [mediaTable[putting] EXCEPT !.sort = s]
    OBVIOUS
  <2>5. /\ row \in MediaRows /\ row.version = mediaTable[putting].version /\ row.etag = mediaTable[putting].etag
        /\ row.error = mediaTable[putting].error /\ row.retry = mediaTable[putting].retry
        /\ row.thumb = mediaTable[putting].thumb
    BY <2>2, <2>3, <2>4 DEF MediaRows
  <2>6. mediaTable' = [mediaTable EXCEPT ![putting] = row]
    BY <2>1, <2>4
  <2> QED BY <1>1, <1>2, <1>4, <2>5, <2>6
<1> QED BY <1>3, <1>4

\* What a verdict on pictures leaves.
PicturedOf(id, blob, state) ==
  /\ UNCHANGED <<vendor, filesTable, uploadsTable, puts, lastId>>
  /\ call' = [op |-> "PutThumbVerdict", id |-> id, blob |-> blob, state |-> state]
  /\ result' = IF id \in DOMAIN mediaTable THEN "ok" ELSE "missing"
  /\ mediaTable' \in [DOMAIN mediaTable -> MediaRows]
  /\ \A i \in DOMAIN mediaTable :
       /\ mediaTable'[i].version = mediaTable[i].version /\ mediaTable'[i].etag = mediaTable[i].etag
       /\ mediaTable'[i].error = mediaTable[i].error /\ mediaTable'[i].retry = mediaTable[i].retry
       /\ mediaTable'[i].thumb = IF i = id THEN [state |-> state, blob |-> blob, generation |-> 1, old |-> FALSE]
                                 ELSE mediaTable[i].thumb

LEMMA ThumbDoes ==
  ASSUME RInv, NEW id, NEW blob \in 1..puts, NEW state \in {"made", "refused"}, Rows!PutThumbVerdict(id, blob, state)
  PROVE  PicturedOf(id, blob, state)
<1> DEFINE thumb == [state |-> state, blob |-> blob, generation |-> 1, old |-> FALSE]
           matched == {id} \cap DOMAIN mediaTable
<1>1. \A i \in DOMAIN mediaTable : mediaTable[i] \in MediaRows
  BY DEF RInv, Learnt
<1>2. /\ UNCHANGED <<vendor, filesTable, uploadsTable, puts, lastId>>
      /\ call' = [op |-> "PutThumbVerdict", id |-> id, blob |-> blob, state |-> state]
      /\ mediaTable' = [i \in DOMAIN mediaTable |-> IF i \in matched THEN [mediaTable[i] EXCEPT !.thumb = thumb] ELSE mediaTable[i]]
      /\ result' = IF Rows!Cardinality(matched) = 0 THEN "missing" ELSE "ok"
  BY AffectedIs DEF Rows!PutThumbVerdict, Rows!Answers
<1>3. Rows!Cardinality(matched) = 0 <=> id \notin DOMAIN mediaTable
  <2>1. \A i, j \in matched : i = j
    OBVIOUS
  <2>2. Rows!Cardinality(matched) = 0 <=> matched = {}
    BY <2>1, OneOrNone
  <2> QED BY <2>2
<1>4. thumb \in ThumbRows
  BY DEF RInv, ThumbRows
<1> HIDE DEF thumb
<1>5. ASSUME NEW i \in DOMAIN mediaTable
      PROVE  /\ mediaTable'[i] \in MediaRows
             /\ mediaTable'[i].version = mediaTable[i].version /\ mediaTable'[i].etag = mediaTable[i].etag
             /\ mediaTable'[i].error = mediaTable[i].error /\ mediaTable'[i].retry = mediaTable[i].retry
             /\ mediaTable'[i].thumb = IF i = id THEN thumb ELSE mediaTable[i].thumb
  <2>1. PICK row \in MediaRows : row = mediaTable[i]
    BY <1>1
  <2>2. mediaTable'[i] = IF i = id THEN [row EXCEPT !.thumb = thumb] ELSE row
    BY <1>2, <2>1
  <2>3. CASE i = id
    <3>1. mediaTable'[i] = [row EXCEPT !.thumb = thumb]
      BY <2>2, <2>3
    <3>2. [row EXCEPT !.thumb = thumb] \in MediaRows
      BY <1>4 DEF MediaRows
    <3> QED BY <2>1, <2>3, <3>1, <3>2 DEF MediaRows
  <2>4. CASE i # id
    BY <2>1, <2>2, <2>4
  <2> QED BY <2>3, <2>4
<1>6. mediaTable' \in [DOMAIN mediaTable -> MediaRows]
  BY <1>2, <1>5
<1>7. result' = IF id \in DOMAIN mediaTable THEN "ok" ELSE "missing"
  BY <1>2, <1>3
<1> QED BY <1>2, <1>5, <1>6, <1>7 DEF thumb, PicturedOf

\* Verdicts stay with files that stay.
LEMMA LearntStill ==
  ASSUME NEW t, NEW md, Learnt(t, md), NEW u, \A i \in DOMAIN t : ~t[i].is_dir => i \in DOMAIN u /\ ~u[i].is_dir
  PROVE  Learnt(u, md)
BY DEF Learnt

LEMMA LearntAnew ==
  ASSUME NEW t, NEW md, Learnt(t, md), NEW nd \in [DOMAIN md -> MediaRows],
         \A i \in DOMAIN md : nd[i].error = md[i].error /\ nd[i].retry = md[i].retry
  PROVE  Learnt(t, nd)
BY DEF Learnt

\* requireParent has found the folder.
LEMMA ParentIsThere ==
  ASSUME RInv, NEW p \in TPaths, Rows!ParentThere(p), Deep(p) # 1
  PROVE  \E j \in DOMAIN filesTable : filesTable[j].path = Rows!ParentOf(p) /\ filesTable[j].is_dir
BY RowsOfPath DEF Rows!ParentThere, Deep

LEMMA PutFileKeeps ==
  ASSUME RInv, NEW p \in TPaths, Rows!ParentThere(p), Rows!PutFile(p) PROVE RInv'
<1>1. puts' = puts + 1 /\ UNCHANGED <<vendor, mediaTable>> /\ puts \in Nat /\ lastId \in Nat /\ puts + 1 \in Nat /\ puts <= puts + 1
  BY PutFileDoes DEF RInv
<1>2. CASE filesTable' = filesTable /\ lastId' = lastId
  <2>1. Filed(filesTable, lastId, puts + 1)
    BY <1>1, FiledStill DEF RInv
  <2> QED BY <1>1, <1>2, <2>1 DEF RInv
<1>3. CASE \E i \in DOMAIN filesTable :
                 /\ filesTable[i].path = p /\ ~filesTable[i].is_dir /\ lastId' = lastId
                 /\ filesTable' \in [DOMAIN filesTable -> FileRows]
                 /\ \A j \in DOMAIN filesTable : j # i => filesTable'[j] = filesTable[j]
                 /\ filesTable'[i].path = p /\ filesTable'[i].parent = filesTable[i].parent /\ ~filesTable'[i].is_dir
                 /\ filesTable'[i].blob = puts + 1 /\ filesTable'[i].etag = puts + 1
                 /\ vendor = "mysql" => filesTable'[i].path_hash = p
  <2>1. PICK i \in DOMAIN filesTable :
                 /\ filesTable[i].path = p /\ ~filesTable[i].is_dir /\ lastId' = lastId
                 /\ filesTable' \in [DOMAIN filesTable -> FileRows]
                 /\ \A j \in DOMAIN filesTable : j # i => filesTable'[j] = filesTable[j]
                 /\ filesTable'[i].path = p /\ filesTable'[i].parent = filesTable[i].parent /\ ~filesTable'[i].is_dir
                 /\ filesTable'[i].blob = puts + 1 /\ filesTable'[i].etag = puts + 1
                 /\ vendor = "mysql" => filesTable'[i].path_hash = p
    BY <1>3
  <2>2. Filed(filesTable', lastId, puts + 1)
    BY <1>1, <2>1, WrittenOver DEF RInv
  <2>3. Hashed(vendor, filesTable')
    BY <2>1 DEF RInv, Hashed
  <2>4. \A j \in DOMAIN filesTable : ~filesTable[j].is_dir => j \in DOMAIN filesTable' /\ ~filesTable'[j].is_dir
    BY <2>1
  <2>5. Learnt(filesTable', mediaTable)
    BY <2>4, LearntStill DEF RInv
  <2> QED BY <1>1, <2>1, <2>2, <2>3, <2>5 DEF RInv
<1>4. CASE /\ \A i \in DOMAIN filesTable : filesTable[i].path # p
           /\ lastId' = lastId + 1 /\ filesTable' = Rows!With(filesTable, lastId + 1, Rows!FileRow(p, puts + 1))
  <2>1. PICK row \in FileRows : row = Rows!FileRow(p, puts + 1)
    BY <1>1, RowIs
  <2>2. row.path = p /\ row.path_hash = p /\ row.parent = Rows!ParentOf(p) /\ row.blob = puts + 1 /\ row.etag = puts + 1 /\ ~row.is_dir
    BY <2>1 DEF Rows!FileRow
  <2>3. puts + 1 \in 1..(puts + 1) /\ puts + 1 \notin 1..puts
    BY <1>1
  <2>4. Deep(row.path) # 1 => \E j \in DOMAIN filesTable : filesTable[j].path = row.parent /\ filesTable[j].is_dir
    BY <2>2, ParentIsThere
  <2>5. Filed(filesTable, lastId, puts)
    BY DEF RInv
  <2>6. Filed(Rows!With(filesTable, lastId + 1, row), lastId + 1, puts + 1)
    BY <1>1, <1>4, <2>2, <2>3, <2>4, <2>5, RowAdded
  <2>7. Filed(filesTable', lastId', puts')
    BY <1>1, <1>4, <2>1, <2>6
  <2>8. filesTable' = [y \in DOMAIN filesTable \cup {lastId + 1} |-> IF y = lastId + 1 THEN row ELSE filesTable[y]]
    BY <1>4, <2>1 DEF Rows!With
  <2>9. lastId + 1 \notin DOMAIN filesTable
    BY <1>1, <2>5 DEF Filed
  <2>10. Hashed(vendor', filesTable')
    BY <1>1, <2>2, <2>8 DEF RInv, Hashed
  <2>11. \A j \in DOMAIN filesTable : ~filesTable[j].is_dir => j \in DOMAIN filesTable' /\ ~filesTable'[j].is_dir
    BY <2>8, <2>9
  <2>12. Learnt(filesTable', mediaTable')
    BY <1>1, <2>11, LearntStill DEF RInv
  <2> QED BY <1>1, <1>4, <2>7, <2>10, <2>12 DEF RInv
<1> QED BY <1>2, <1>3, <1>4, PutFileDoes

LEMMA CreateDirKeeps ==
  ASSUME RInv, NEW p \in TPaths, Rows!ParentThere(p), Rows!CreateDir(p) PROVE RInv'
<1>1. UNCHANGED <<vendor, mediaTable, puts>> /\ puts \in Nat /\ lastId \in Nat
  BY CreateDirDoes DEF RInv
<1>2. CASE filesTable' = filesTable /\ lastId' = lastId
  BY <1>1, <1>2 DEF RInv
<1>3. CASE /\ \A i \in DOMAIN filesTable : filesTable[i].path # p
           /\ lastId' = lastId + 1
           /\ filesTable' = Rows!With(filesTable, lastId + 1, [Rows!FileRow(p, 0) EXCEPT !.is_dir = TRUE])
  <2>1. PICK row \in FileRows : row = [Rows!FileRow(p, 0) EXCEPT !.is_dir = TRUE]
    BY DirIs
  <2>2. row.path = p /\ row.path_hash = p /\ row.parent = Rows!ParentOf(p) /\ row.is_dir
    BY <2>1, DirIs
  <2>4. Deep(row.path) # 1 => \E j \in DOMAIN filesTable : filesTable[j].path = row.parent /\ filesTable[j].is_dir
    BY <2>2, ParentIsThere
  <2>5. Filed(filesTable, lastId, puts)
    BY DEF RInv
  <2>6. Filed(Rows!With(filesTable, lastId + 1, row), lastId + 1, puts)
    BY <1>1, <1>3, <2>2, <2>4, <2>5, RowAdded
  <2>7. Filed(filesTable', lastId', puts')
    BY <1>1, <1>3, <2>1, <2>6
  <2>8. filesTable' = [y \in DOMAIN filesTable \cup {lastId + 1} |-> IF y = lastId + 1 THEN row ELSE filesTable[y]]
    BY <1>3, <2>1 DEF Rows!With
  <2>9. lastId + 1 \notin DOMAIN filesTable
    BY <1>1, <2>5 DEF Filed
  <2>10. Hashed(vendor', filesTable')
    BY <1>1, <2>2, <2>8 DEF RInv, Hashed
  <2>11. \A j \in DOMAIN filesTable : ~filesTable[j].is_dir => j \in DOMAIN filesTable' /\ ~filesTable'[j].is_dir
    BY <2>8, <2>9
  <2>12. Learnt(filesTable', mediaTable')
    BY <1>1, <2>11, LearntStill DEF RInv
  <2> QED BY <1>1, <1>3, <2>7, <2>10, <2>12 DEF RInv
<1> QED BY <1>2, <1>3, CreateDirDoes

LEMMA DeleteFileKeeps ==
  ASSUME RInv, NEW p \in TPaths, Rows!DeleteFile(p) PROVE RInv'
<1>1. UNCHANGED <<vendor, puts, lastId>> /\ puts \in Nat /\ lastId \in Nat
  BY DeleteFileDoes DEF RInv
<1>2. CASE UNCHANGED <<filesTable, mediaTable>>
  BY <1>1, <1>2 DEF RInv
<1>3. CASE \E i \in DOMAIN filesTable :
                 /\ filesTable[i].path = p /\ \A j \in DOMAIN filesTable : filesTable[j].parent # p
                 /\ filesTable' = Rows!Only(filesTable, DOMAIN filesTable \ {i})
                 /\ mediaTable' = Rows!Only(mediaTable, DOMAIN filesTable \ {i})
  <2>1. PICK i \in DOMAIN filesTable :
                 /\ filesTable[i].path = p /\ \A j \in DOMAIN filesTable : filesTable[j].parent # p
                 /\ filesTable' = Rows!Only(filesTable, DOMAIN filesTable \ {i})
                 /\ mediaTable' = Rows!Only(mediaTable, DOMAIN filesTable \ {i})
    BY <1>3
  <2>2. Filed(filesTable, lastId, puts)
    BY DEF RInv
  <2>3. \A k \in {i} \cap DOMAIN filesTable : \A j \in DOMAIN filesTable : filesTable[j].parent # filesTable[k].path
    BY <2>1
  <2>4. Filed(Rows!Only(filesTable, DOMAIN filesTable \ {i}), lastId, puts)
    BY <2>2, <2>3, RowsGone
  <2>5. DOMAIN filesTable' = DOMAIN filesTable \ {i} /\ \A j \in DOMAIN filesTable' : filesTable'[j] = filesTable[j]
    BY <2>1 DEF Rows!Only
  <2>6. Hashed(vendor', filesTable')
    BY <1>1, <2>5 DEF RInv, Hashed
  <2>7. mediaTable' = [k \in DOMAIN mediaTable \ {i} |-> mediaTable[k]]
    <3>1. DOMAIN mediaTable \cap (DOMAIN filesTable \ {i}) = DOMAIN mediaTable \ {i}
      BY DEF RInv, Learnt
    <3> QED BY <2>1, <3>1 DEF Rows!Only
  <2>8. Learnt(filesTable', mediaTable')
    BY <2>5, <2>7 DEF RInv, Learnt
  <2> QED BY <1>1, <2>1, <2>4, <2>6, <2>8 DEF RInv
<1> QED BY <1>2, <1>3, DeleteFileDoes

LEMMA MoveFileKeeps ==
  ASSUME RInv, NEW from \in TPaths, NEW to \in TPaths, Rows!ParentThere(to), Rows!MoveFile(from, to) PROVE RInv'
<1>1. UNCHANGED <<vendor, mediaTable, puts, lastId>> /\ puts \in Nat /\ lastId \in Nat
  BY MoveFileDoes DEF RInv
<1>2. CASE filesTable' = filesTable
  BY <1>1, <1>2 DEF RInv
<1>3. CASE filesTable' # filesTable
  <2>1. /\ ~AtOrBelow(from, to)
        /\ \A i \in DOMAIN filesTable : filesTable[i].path # to
        /\ filesTable' \in [DOMAIN filesTable -> FileRows]
        /\ \A i \in DOMAIN filesTable :
             /\ filesTable'[i].path = Dest(filesTable[i].path, from, to)
             /\ filesTable'[i].parent = Rows!ParentOf(filesTable'[i].path)
             /\ filesTable'[i].blob = filesTable[i].blob /\ filesTable'[i].etag = filesTable[i].etag
             /\ filesTable'[i].is_dir = filesTable[i].is_dir
             /\ vendor = "mysql" => filesTable'[i].path_hash = filesTable'[i].path
    BY <1>3, MoveFileDoes
  <2>2. Deep(to) # 1 => \E j \in DOMAIN filesTable : filesTable[j].path = Rows!ParentOf(to) /\ filesTable[j].is_dir
    BY ParentIsThere
  <2>3. Filed(filesTable, lastId, puts)
    BY DEF RInv
  <2>4. Filed(filesTable', lastId, puts)
    BY <2>1, <2>2, <2>3, BranchMoved
  <2>5. Hashed(vendor', filesTable')
    BY <1>1, <2>1 DEF Hashed
  <2>6. \A j \in DOMAIN filesTable : ~filesTable[j].is_dir => j \in DOMAIN filesTable' /\ ~filesTable'[j].is_dir
    BY <2>1
  <2>7. Learnt(filesTable', mediaTable')
    BY <1>1, <2>6, LearntStill DEF RInv
  <2> QED BY <1>1, <2>4, <2>5, <2>7 DEF RInv
<1> QED BY <1>2, <1>3

LEMMA PutMediaKeeps ==
  ASSUME RInv, NEW id, NEW etag, NEW e, NEW r, NEW t, HandsIn(id, etag, e, r, t)
  PROVE  RInv'
<1>0. SaidOf(id, etag, e, r)
  BY PutMediaDoes
<1>1. UNCHANGED <<vendor, filesTable, puts, lastId>> /\ (r # 0 => e # "")
  BY <1>0 DEF SaidOf
<1>2. CASE mediaTable' = mediaTable
  BY <1>1, <1>2 DEF RInv
<1>3. CASE /\ id \in DOMAIN filesTable /\ ~filesTable[id].is_dir
           /\ \E row \in MediaRows :
                /\ mediaTable' = Rows!With(mediaTable, id, row) /\ row.error = e /\ row.retry = r
  <2>1. PICK row \in MediaRows : mediaTable' = Rows!With(mediaTable, id, row) /\ row.error = e /\ row.retry = r
    BY <1>3
  <2>2. mediaTable' = [y \in DOMAIN mediaTable \cup {id} |-> IF y = id THEN row ELSE mediaTable[y]]
    BY <2>1 DEF Rows!With
  <2>3. Learnt(filesTable, mediaTable')
    BY <1>1, <1>3, <2>1, <2>2 DEF RInv, Learnt
  <2> QED BY <1>1, <2>3 DEF RInv
<1> QED BY <1>0, <1>2, <1>3 DEF SaidOf

LEMMA RowsBegin == ASSUME Rows!Init PROVE RInv
BY DEF Rows!Init, RInv, Filed, Hashed, Learnt

LEMMA RowsGoOn == ASSUME RInv, [Rows!Next]_(Rows!rowVars) PROVE RInv'
<1>1. \A p \in TreePaths : p \in TPaths
  BY RowsAssumption DEF TPaths
<1>2. CASE UNCHANGED Rows!rowVars
  BY <1>2 DEF Rows!rowVars, RInv
<1>3. CASE \E p \in TreePaths : (Rows!ParentThere(p) /\ (Rows!PutFile(p) \/ Rows!CreateDir(p))) \/ Rows!DeleteFile(p)
  BY <1>1, <1>3, PutFileKeeps, CreateDirKeeps, DeleteFileKeeps
<1>4. CASE \E p, q \in TreePaths : Rows!ParentThere(q) /\ Rows!MoveFile(p, q)
  BY <1>1, <1>4, MoveFileKeeps
<1>5. CASE \E id \in Rows!Handed, etag \in 1..puts, said \in Rows!Verdicts :
             Rows!PutMedia(id, etag, 1, said.error, said.retry, said.taken)
  BY <1>5, VerdictIs, PutMediaKeeps
<1>6. CASE Rows!SortMedia
  <2>1. Learnt(filesTable, mediaTable')
    BY <1>6, SortDoes, LearntAnew DEF RInv
  <2> QED BY <1>6, <2>1, SortDoes DEF RInv
<1>7. CASE Rows!Cut
  BY <1>7 DEF Rows!Cut, RInv
<1>8. CASE \E id \in Rows!Handed, blob \in 1..puts, state \in {"made", "refused"} : Rows!PutThumbVerdict(id, blob, state)
  <2>1. PICK id \in Rows!Handed, blob \in 1..puts, state \in {"made", "refused"} : Rows!PutThumbVerdict(id, blob, state)
    BY <1>8
  <2>2. /\ UNCHANGED <<vendor, filesTable, puts, lastId>> /\ mediaTable' \in [DOMAIN mediaTable -> MediaRows]
        /\ \A i \in DOMAIN mediaTable : mediaTable'[i].error = mediaTable[i].error /\ mediaTable'[i].retry = mediaTable[i].retry
    BY <2>1, ThumbDoes DEF PicturedOf
  <2>3. Learnt(filesTable, mediaTable')
    BY <2>2, LearntAnew DEF RInv
  <2> QED BY <2>2, <2>3 DEF RInv
<1>9. CASE \E u \in UploadNames, owner \in Owners :
             (\E p \in TreePaths, received \in 0..1 : Rows!PutUpload(u, owner, p, received)) \/ Rows!DeleteUpload(u, owner)
  BY <1>9 DEF Rows!PutUpload, Rows!DeleteUpload, RInv
<1> QED BY <1>2, <1>3, <1>4, <1>5, <1>6, <1>7, <1>8, <1>9 DEF Rows!Next

\* The tables of the three drivers: a path has one row in a folder that has
\* one, and what was learnt is of a file that is there (db/sqlite, mysql,
\* postgres).
THEOREM RowsInvariant == Rows!Spec => []RInv
<1>1. Rows!Init => RInv
  BY RowsBegin
<1>2. RInv /\ [Rows!Next]_(Rows!rowVars) => RInv'
  BY RowsGoOn
<1> QED BY <1>1, <1>2, PTL DEF Rows!Spec

-----------------------------------------------------------------------------
(* The tables and the suite: what the repository holds, of the rows.       *)

\* What a row says of its path.
Says(t, i) == [id |-> i, dir |-> t[i].is_dir, bytes |-> t[i].blob]

LEMMA SaysIs == \A t, i : Says(t, i).id = i /\ Says(t, i).dir = t[i].is_dir /\ Says(t, i).bytes = t[i].blob
BY Zenon DEF Says

TreeOf(t) == [p \in {t[i].path : i \in DOMAIN t} |-> Says(t, CHOOSE i \in DOMAIN t : t[i].path = p)]

LEMMA TreeIs ==
  ASSUME NEW t, NEW n, NEW m, Filed(t, n, m)
  PROVE  /\ TreeOf(t) = [p \in DOMAIN TreeOf(t) |-> TreeOf(t)[p]]
         /\ DOMAIN TreeOf(t) = {t[i].path : i \in DOMAIN t}
         /\ \A i \in DOMAIN t : TreeOf(t)[t[i].path] = Says(t, i)
<1>1. ASSUME NEW i \in DOMAIN t PROVE TreeOf(t)[t[i].path] = Says(t, i)
  <2>1. PICK k : k = CHOOSE y \in DOMAIN t : t[y].path = t[i].path
    OBVIOUS
  <2>2. k \in DOMAIN t /\ t[k].path = t[i].path
    BY <2>1
  <2>3. k = i
    BY <2>2 DEF Filed
  <2> QED BY <2>1, <2>3 DEF TreeOf
<1> QED BY <1>1 DEF TreeOf

LEMMA IsTree ==
  ASSUME NEW t, NEW n, NEW m, Filed(t, n, m), NEW f, f = [p \in DOMAIN f |-> f[p]],
         DOMAIN f = {t[i].path : i \in DOMAIN t}, \A i \in DOMAIN t : f[t[i].path] = Says(t, i)
  PROVE  f = TreeOf(t)
<1>1. PICK g : g = TreeOf(t) /\ g = [p \in DOMAIN g |-> g[p]] /\ DOMAIN g = DOMAIN f /\ \A i \in DOMAIN t : g[t[i].path] = Says(t, i)
  BY TreeIs
<1>2. \A p \in DOMAIN f : f[p] = g[p]
  BY <1>1
<1> QED BY <1>1, <1>2

LEMMA TheIdentities ==
  ASSUME NEW t, NEW n, NEW m, Filed(t, n, m)
  PROVE  {TreeOf(t)[p].id : p \in DOMAIN TreeOf(t)} = DOMAIN t
<1>1. PICK f : f = TreeOf(t) /\ DOMAIN f = {t[j].path : j \in DOMAIN t} /\ \A j \in DOMAIN t : f[t[j].path] = Says(t, j)
  BY TreeIs
<1>2. \A j \in DOMAIN t : f[t[j].path].id = j
  BY <1>1, SaysIs
<1>3. {f[p].id : p \in DOMAIN f} = DOMAIN t
  BY <1>1, <1>2
<1> QED BY <1>1, <1>3

LEMMA TreeNow == ASSUME RInv PROVE Rows!theTree = TreeOf(filesTable)
<1>1. Filed(filesTable, lastId, puts)
  BY DEF RInv
<1>2. Rows!theTree = [p \in {filesTable[i].path : i \in DOMAIN filesTable} |->
                        Says(filesTable, CHOOSE i \in Rows!RowAt(p) : TRUE)]
  BY DEF Rows!theTree, Rows!Entry, Says
<1>3. ASSUME NEW i \in DOMAIN filesTable PROVE Rows!theTree[filesTable[i].path] = Says(filesTable, i)
  <2>1. PICK k : k = CHOOSE y \in Rows!RowAt(filesTable[i].path) : TRUE
    OBVIOUS
  <2>2. Rows!RowAt(filesTable[i].path) = {j \in DOMAIN filesTable : filesTable[j].path = filesTable[i].path}
    BY RowsOfPath
  <2>3. k \in DOMAIN filesTable /\ filesTable[k].path = filesTable[i].path
    BY <2>1, <2>2
  <2>4. k = i
    BY <1>1, <2>3 DEF Filed
  <2> QED BY <1>2, <2>1, <2>4
<1>4. PICK f : f = Rows!theTree
  OBVIOUS
<1>5. f = [p \in DOMAIN f |-> f[p]] /\ DOMAIN f = {filesTable[i].path : i \in DOMAIN filesTable}
  BY <1>2, <1>4
<1>6. \A i \in DOMAIN filesTable : f[filesTable[i].path] = Says(filesTable, i)
  BY <1>3, <1>4
<1> QED BY <1>1, <1>4, <1>5, <1>6, IsTree

LEMMA TreeThen == RInv' => Rows!theTree' = TreeOf(filesTable')
<1>1. RInv => Rows!theTree = TreeOf(filesTable)
  BY TreeNow
<1>2. RInv' => (Rows!theTree = TreeOf(filesTable))'
  BY <1>1, PTL
<1> QED BY <1>2

LEMMA TreeWritten ==
  ASSUME NEW t, NEW n, NEW m, Filed(t, n, m), NEW u, NEW k, Filed(u, n, k), DOMAIN u = DOMAIN t,
         NEW i \in DOMAIN t, \A j \in DOMAIN t : j # i => u[j] = t[j],
         u[i].path = t[i].path, ~t[i].is_dir, ~u[i].is_dir, NEW b, u[i].blob = b
  PROVE  TreeOf(u) = [TreeOf(t) EXCEPT ![t[i].path].bytes = b]
<1>1. PICK f : f = TreeOf(t) /\ f = [p \in DOMAIN f |-> f[p]] /\ DOMAIN f = {t[j].path : j \in DOMAIN t}
               /\ \A j \in DOMAIN t : f[t[j].path] = Says(t, j)
  BY TreeIs
<1>2. PICK g : g = [f EXCEPT ![t[i].path].bytes = b]
  OBVIOUS
<1>3. g = [p \in DOMAIN g |-> g[p]] /\ DOMAIN g = DOMAIN f
  BY <1>1, <1>2
<1>4. \A j \in DOMAIN t : u[j].path = t[j].path
  OBVIOUS
<1>5. DOMAIN g = {u[j].path : j \in DOMAIN u}
  BY <1>1, <1>3, <1>4
<1>6. t[i].is_dir = u[i].is_dir
  <2>1. t[i].is_dir \in BOOLEAN /\ u[i].is_dir \in BOOLEAN
    BY DEF Filed, FileRows
  <2> QED BY <2>1
<1>7. ASSUME NEW j \in DOMAIN u PROVE g[u[j].path] = Says(u, j)
  <2>1. CASE j = i
    <3>1. g[t[i].path] = [f[t[i].path] EXCEPT !.bytes = b]
      BY <1>1, <1>2
    <3>2. f[t[i].path] = [id |-> i, dir |-> t[i].is_dir, bytes |-> t[i].blob]
      BY <1>1 DEF Says
    <3>3. g[t[i].path] = [id |-> i, dir |-> t[i].is_dir, bytes |-> b]
      BY <3>1, <3>2
    <3> QED BY <1>6, <2>1, <3>3 DEF Says
  <2>2. CASE j # i
    <3>1. t[j].path # t[i].path
      BY <2>2 DEF Filed
    <3>2. g[t[j].path] = f[t[j].path]
      BY <1>1, <1>2, <3>1
    <3> QED BY <1>1, <2>2, <3>2 DEF Says
  <2> QED BY <2>1, <2>2
<1>8. g = TreeOf(u)
  BY <1>3, <1>5, <1>7, IsTree
<1> QED BY <1>1, <1>2, <1>8

LEMMA TreeGrown ==
  ASSUME NEW t, NEW n, NEW m, Filed(t, n, m), NEW u, NEW l, NEW k, Filed(u, l, k),
         NEW x, x \notin DOMAIN t, NEW row, \A j \in DOMAIN t : t[j].path # row.path, u = Rows!With(t, x, row)
  PROVE  /\ TreeOf(u) = Rows!Suite!With(TreeOf(t), row.path, [id |-> x, dir |-> row.is_dir, bytes |-> row.blob])
         /\ row.path \notin DOMAIN TreeOf(t)
         /\ x \in {TreeOf(u)[q].id : q \in DOMAIN TreeOf(u)} \ {TreeOf(t)[q].id : q \in DOMAIN TreeOf(t)}
<1>1. PICK f : f = TreeOf(t) /\ f = [p \in DOMAIN f |-> f[p]] /\ DOMAIN f = {t[j].path : j \in DOMAIN t}
               /\ \A j \in DOMAIN t : f[t[j].path] = Says(t, j)
  BY TreeIs
<1>2. PICK v : v = [id |-> x, dir |-> row.is_dir, bytes |-> row.blob]
  OBVIOUS
<1>3. PICK g : g = Rows!Suite!With(f, row.path, v)
  OBVIOUS
<1>4. /\ g = [p \in DOMAIN g |-> g[p]] /\ DOMAIN g = DOMAIN f \cup {row.path} /\ g[row.path] = v
      /\ \A p \in DOMAIN f : p # row.path => g[p] = f[p]
  BY <1>3 DEF Rows!Suite!With
<1>5. /\ DOMAIN u = DOMAIN t \cup {x} /\ u[x] = row /\ \A j \in DOMAIN t : u[j] = t[j]
  BY DEF Rows!With
<1>6. DOMAIN g = {u[j].path : j \in DOMAIN u}
  BY <1>1, <1>4, <1>5
<1>7. \A j \in DOMAIN u : g[u[j].path] = Says(u, j)
  BY <1>1, <1>2, <1>4, <1>5 DEF Says
<1>8. g = TreeOf(u)
  BY <1>4, <1>6, <1>7, IsTree
<1>9. row.path \notin DOMAIN f
  BY <1>1
<1>10. x \in {TreeOf(u)[q].id : q \in DOMAIN TreeOf(u)} \ {TreeOf(t)[q].id : q \in DOMAIN TreeOf(t)}
  <2>1. {TreeOf(u)[q].id : q \in DOMAIN TreeOf(u)} = DOMAIN u
    BY TheIdentities
  <2>2. {TreeOf(t)[q].id : q \in DOMAIN TreeOf(t)} = DOMAIN t
    BY TheIdentities
  <2>3. x \in DOMAIN u \ DOMAIN t
    BY <1>5
  <2> QED BY <2>1, <2>2, <2>3
<1> QED BY <1>1, <1>2, <1>3, <1>8, <1>9, <1>10

LEMMA TreeCut ==
  ASSUME NEW t, NEW n, NEW m, Filed(t, n, m), NEW u, Filed(u, n, m), NEW i \in DOMAIN t, u = Rows!Only(t, DOMAIN t \ {i})
  PROVE  TreeOf(u) = Rows!Suite!Only(TreeOf(t), DOMAIN TreeOf(t) \ {t[i].path})
<1>1. PICK f : f = TreeOf(t) /\ f = [p \in DOMAIN f |-> f[p]] /\ DOMAIN f = {t[j].path : j \in DOMAIN t}
               /\ \A j \in DOMAIN t : f[t[j].path] = Says(t, j)
  BY TreeIs
<1>2. PICK g : g = Rows!Suite!Only(f, DOMAIN f \ {t[i].path})
  OBVIOUS
<1>3. g = [p \in DOMAIN g |-> g[p]] /\ DOMAIN g = DOMAIN f \ {t[i].path} /\ \A p \in DOMAIN g : g[p] = f[p]
  BY <1>2 DEF Rows!Suite!Only
<1>4. DOMAIN u = DOMAIN t \ {i} /\ \A j \in DOMAIN u : u[j] = t[j]
  BY DEF Rows!Only
<1>5. \A j \in DOMAIN t : t[j].path = t[i].path => j = i
  BY DEF Filed
<1>6. DOMAIN g = {u[j].path : j \in DOMAIN u}
  <2>1. ASSUME NEW p \in DOMAIN g PROVE \E j \in DOMAIN u : p = u[j].path
    <3>1. PICK j \in DOMAIN t : p = t[j].path
      BY <1>1, <1>3
    <3>2. j # i
      BY <1>3, <3>1
    <3>3. j \in DOMAIN u /\ u[j] = t[j]
      BY <1>4, <3>2
    <3> QED BY <3>1, <3>3
  <2>2. \A j \in DOMAIN u : j \in DOMAIN t /\ j # i /\ u[j].path = t[j].path
    BY <1>4
  <2>3. \A j \in DOMAIN u : u[j].path \in DOMAIN g
    BY <1>1, <1>3, <1>5, <2>2
  <2> QED BY <2>1, <2>3
<1>7. ASSUME NEW j \in DOMAIN u PROVE g[u[j].path] = Says(u, j)
  <2>1. j \in DOMAIN t /\ u[j] = t[j] /\ u[j].path \in DOMAIN g
    BY <1>4, <1>6
  <2>2. g[t[j].path] = f[t[j].path]
    BY <1>3, <2>1
  <2> QED BY <1>1, <2>1, <2>2 DEF Says
<1>8. g = TreeOf(u)
  <2>1. Filed(u, n, m) /\ g = [p \in DOMAIN g |-> g[p]]
    BY <1>3
  <2> QED BY ONLY <1>6, <1>7, <2>1, IsTree
<1> QED BY <1>1, <1>2, <1>8

\* The tree with a branch elsewhere.
Relocated(f, moved, from, to) ==
  [p \in (DOMAIN f \ moved) \cup {Rows!Rebased(p, from, to) : p \in moved} |->
     IF \E q \in moved : Rows!Rebased(q, from, to) = p
     THEN f[CHOOSE q \in moved : Rows!Rebased(q, from, to) = p] ELSE f[p]]

\* A branch that moved: what is at a new place was at one old one.
LEMMA TreeMoved ==
  ASSUME NEW t, NEW n, NEW m, Filed(t, n, m), NEW u, Filed(u, n, m), DOMAIN u = DOMAIN t, NEW from \in TPaths, NEW to \in TPaths,
         ~AtOrBelow(from, to), \A i \in DOMAIN t : t[i].path # to,
         \A i \in DOMAIN t : u[i].path = Dest(t[i].path, from, to) /\ u[i].blob = t[i].blob /\ u[i].is_dir = t[i].is_dir,
         NEW f, f = TreeOf(t), NEW moved, moved = {p \in DOMAIN f : AtOrBelow(from, p)}
  PROVE  TreeOf(u) = Relocated(f, moved, from, to)
<1>1. /\ f = [p \in DOMAIN f |-> f[p]] /\ DOMAIN f = {t[j].path : j \in DOMAIN t}
      /\ \A j \in DOMAIN t : f[t[j].path] = Says(t, j)
  BY TreeIs
<1>2. PICK g : g = [p \in (DOMAIN f \ moved) \cup {Rows!Rebased(p, from, to) : p \in moved} |->
                      IF \E q \in moved : Rows!Rebased(q, from, to) = p
                      THEN f[CHOOSE q \in moved : Rows!Rebased(q, from, to) = p] ELSE f[p]]
  OBVIOUS
<1>3. /\ g = [p \in DOMAIN g |-> g[p]] /\ DOMAIN g = (DOMAIN f \ moved) \cup {Rows!Rebased(p, from, to) : p \in moved}
  BY <1>2
<1>4. \A i \in DOMAIN t : t[i].path \in TPaths
  BY DEF Filed, FileRows
<1>5. \A i \in DOMAIN t : ~AtOrBelow(to, t[i].path)
  BY FoldersAbove
<1>6. \A i \in DOMAIN t : t[i].path \in moved <=> AtOrBelow(from, t[i].path)
  BY <1>1
<1>7. moved \subseteq TPaths /\ \A p \in moved : AtOrBelow(from, p)
  BY <1>1, <1>4
<1>8. DOMAIN g = {u[j].path : j \in DOMAIN u}
  <2>1. ASSUME NEW j \in DOMAIN u PROVE u[j].path \in DOMAIN g
    <3>1. CASE AtOrBelow(from, t[j].path)
      BY <1>3, <1>6, <3>1 DEF Dest
    <3>2. CASE ~AtOrBelow(from, t[j].path)
      BY <1>1, <1>3, <1>6, <3>2 DEF Dest
    <3> QED BY <3>1, <3>2
  <2>2. ASSUME NEW p \in DOMAIN f \ moved PROVE p \in {u[j].path : j \in DOMAIN u}
    <3>1. PICK j \in DOMAIN t : p = t[j].path
      BY <1>1
    <3>2. u[j].path = p
      BY <1>6, <2>2, <3>1 DEF Dest
    <3> QED BY <3>2
  <2>3. ASSUME NEW q \in moved PROVE Rows!Rebased(q, from, to) \in {u[j].path : j \in DOMAIN u}
    <3>1. PICK j \in DOMAIN t : q = t[j].path
      BY <1>1
    <3>2. u[j].path = Rows!Rebased(q, from, to)
      BY <1>7, <3>1 DEF Dest
    <3> QED BY <3>2
  <2> QED BY <1>3, <2>1, <2>2, <2>3
<1>9. ASSUME NEW j \in DOMAIN u PROVE g[u[j].path] = Says(u, j)
  <2>1. Says(u, j) = Says(t, j) /\ u[j].path \in DOMAIN g /\ f[t[j].path] = Says(t, j)
    BY <1>1, <1>8 DEF Says
  <2>2. CASE AtOrBelow(from, t[j].path)
    <3>1. t[j].path \in moved /\ u[j].path = Rows!Rebased(t[j].path, from, to)
      BY <1>6, <2>2 DEF Dest
    <3>2. g[u[j].path] = f[CHOOSE q \in moved : Rows!Rebased(q, from, to) = u[j].path]
      BY <1>2, <1>3, <2>1, <3>1
    <3>3. PICK q : q = CHOOSE y \in moved : Rows!Rebased(y, from, to) = u[j].path
      OBVIOUS
    <3>4. q \in moved /\ Rows!Rebased(q, from, to) = Rows!Rebased(t[j].path, from, to)
      BY <3>1, <3>3
    <3>5. q = t[j].path
      <4>1. \A a, b \in TPaths : AtOrBelow(from, a) /\ AtOrBelow(from, b) /\ Rows!Rebased(a, from, to) = Rows!Rebased(b, from, to)
              => a = b
        BY MovingIs
      <4> QED BY <1>4, <1>7, <2>2, <3>4, <4>1
    <3> QED BY <2>1, <3>2, <3>3, <3>5
  <2>3. CASE ~AtOrBelow(from, t[j].path)
    <3>1. u[j].path = t[j].path
      BY <2>3 DEF Dest
    <3>2. \A q \in moved : Rows!Rebased(q, from, to) # t[j].path
      <4>1. \A q \in moved : AtOrBelow(to, Rows!Rebased(q, from, to))
        BY <1>7, MovingIs
      <4> QED BY <1>5, <4>1
    <3>3. g[t[j].path] = f[t[j].path]
      BY <1>2, <1>3, <2>1, <3>1, <3>2
    <3> QED BY <2>1, <3>1, <3>3
  <2> QED BY <2>2, <2>3
<1>10. g = TreeOf(u)
  BY <1>3, <1>8, <1>9, IsTree
<1>11. g = Relocated(f, moved, from, to)
  BY <1>2, Zenon DEF Relocated
<1> QED BY <1>10, <1>11

-----------------------------------------------------------------------------
(* The tables and the suite: each call.                                    *)

LEMMA MediaStays ==
  ASSUME mediaTable' = mediaTable PROVE Rows!theKnown' = Rows!theKnown /\ Rows!theDrawn' = Rows!theDrawn
BY DEF Rows!theKnown, Rows!theDrawn

\* The tree of the suite, before and after.
LEMMA Trees ==
  ASSUME RInv, RInv'
  PROVE  /\ Rows!theTree = TreeOf(filesTable) /\ Rows!theTree' = TreeOf(filesTable')
         /\ Filed(filesTable, lastId, puts) /\ Filed(filesTable', lastId', puts')
<1>1. Filed(filesTable, lastId, puts) /\ Filed(filesTable', lastId', puts')
  BY DEF RInv
<1> QED BY <1>1, TreeNow, TreeThen

LEMMA PutFileSuits ==
  ASSUME RInv, RInv', NEW p \in TPaths, Rows!PutFile(p) PROVE Rows!SuiteStep
<1>1. PICK t, u : t = filesTable /\ u = filesTable'
  OBVIOUS
<1>2. /\ Rows!theTree = TreeOf(t) /\ Rows!theTree' = TreeOf(u) /\ Filed(t, lastId, puts) /\ Filed(u, lastId', puts')
  BY <1>1, Trees
<1>3. Rows!theKnown' = Rows!theKnown /\ Rows!theDrawn' = Rows!theDrawn /\ uploadsTable' = uploadsTable
  BY PutFileDoes, MediaStays
<1>4. puts' = puts + 1 /\ call' = [op |-> "PutFile", path |-> p, bytes |-> puts + 1] /\ puts + 1 \in Nat /\ lastId \in Nat
  BY PutFileDoes DEF RInv
<1>5. PICK f : f = TreeOf(t) /\ DOMAIN f = {t[j].path : j \in DOMAIN t} /\ \A j \in DOMAIN t : f[t[j].path] = Says(t, j)
  BY <1>2, TreeIs
<1>6. Rows!Suite!PutFile(p, puts + 1)
  <2>1. CASE \E i \in DOMAIN t : t[i].path = p /\ t[i].is_dir /\ u = t /\ result' = "conflict"
    <3>1. p \in DOMAIN f /\ f[p].dir
      BY <1>5, <2>1, SaysIs
    <3>2. Rows!Suite!Refuses("conflict")
      BY <1>2, <1>3, <2>1 DEF Rows!Suite!Refuses, Rows!Suite!Answers
    <3> QED BY <1>2, <1>5, <3>1, <3>2 DEF Rows!Suite!PutFile
  <2>2. CASE \E i \in DOMAIN t :
               /\ t[i].path = p /\ ~t[i].is_dir /\ lastId' = lastId /\ result' = "ok"
               /\ u \in [DOMAIN t -> FileRows] /\ \A j \in DOMAIN t : j # i => u[j] = t[j]
               /\ u[i].path = p /\ ~u[i].is_dir /\ u[i].blob = puts + 1
    <3>1. PICK i \in DOMAIN t :
               /\ t[i].path = p /\ ~t[i].is_dir /\ lastId' = lastId /\ result' = "ok"
               /\ u \in [DOMAIN t -> FileRows] /\ \A j \in DOMAIN t : j # i => u[j] = t[j]
               /\ u[i].path = p /\ ~u[i].is_dir /\ u[i].blob = puts + 1
      BY <2>2
    <3>2. TreeOf(u) = [TreeOf(t) EXCEPT ![p].bytes = puts + 1]
      <4>1. PICK n, m, k, b : n = lastId /\ m = puts /\ k = puts' /\ b = puts + 1
        OBVIOUS
      <4>2. Filed(t, n, m) /\ Filed(u, n, k) /\ u[i].path = t[i].path /\ u[i].blob = b
        BY <1>2, <3>1, <4>1
      <4>3. DOMAIN u = DOMAIN t /\ i \in DOMAIN t /\ ~t[i].is_dir /\ ~u[i].is_dir /\ \A j \in DOMAIN t : j # i => u[j] = t[j]
        BY <3>1
      <4>4. TreeOf(u) = [TreeOf(t) EXCEPT ![t[i].path].bytes = b]
        BY ONLY <4>2, <4>3, TreeWritten
      <4> QED BY <3>1, <4>1, <4>4
    <3>3. p \in DOMAIN f /\ ~f[p].dir
      BY <1>5, <3>1, SaysIs
    <3> QED BY <1>2, <1>3, <1>5, <3>1, <3>2, <3>3 DEF Rows!Suite!PutFile, Rows!Suite!Answers
  <2>3. CASE /\ \A i \in DOMAIN t : t[i].path # p
             /\ lastId' = lastId + 1 /\ result' = "ok" /\ u = Rows!With(t, lastId + 1, Rows!FileRow(p, puts + 1))
    <3>1. PICK row : row = Rows!FileRow(p, puts + 1)
      OBVIOUS
    <3>2. row.path = p /\ row.is_dir = FALSE /\ row.blob = puts + 1
      BY <3>1 DEF Rows!FileRow
    <3>3. PICK x : x = lastId + 1
      OBVIOUS
    <3>4. x \notin DOMAIN t
      BY <1>2, <1>4, <3>3 DEF Filed
    <3>5. /\ u = Rows!With(t, x, row) /\ \A j \in DOMAIN t : t[j].path # row.path
      BY <2>3, <3>1, <3>2, <3>3
    <3>6. /\ TreeOf(u) = Rows!Suite!With(TreeOf(t), row.path, [id |-> x, dir |-> row.is_dir, bytes |-> row.blob])
          /\ row.path \notin DOMAIN TreeOf(t)
          /\ x \in {TreeOf(u)[q].id : q \in DOMAIN TreeOf(u)} \ {TreeOf(t)[q].id : q \in DOMAIN TreeOf(t)}
      BY <1>2, <3>4, <3>5, TreeGrown
    <3>7. /\ Rows!theTree' = Rows!Suite!With(Rows!theTree, p, [id |-> x, dir |-> FALSE, bytes |-> puts + 1])
          /\ p \notin DOMAIN Rows!theTree
          /\ x \in {Rows!theTree'[q].id : q \in DOMAIN Rows!theTree'} \ Rows!Suite!Identities
      BY <1>2, <3>2, <3>6 DEF Rows!Suite!Identities
    <3> QED BY <1>3, <2>3, <3>7 DEF Rows!Suite!PutFile, Rows!Suite!Answers
  <2> QED BY <1>1, <2>1, <2>2, <2>3, PutFileDoes
<1>7. call'.op = "PutFile" /\ call'.path = p /\ call'.bytes = puts + 1
  BY <1>4
<1> QED BY <1>6, <1>7 DEF Rows!SuiteStep

LEMMA CreateDirSuits ==
  ASSUME RInv, RInv', NEW p \in TPaths, Rows!CreateDir(p) PROVE Rows!SuiteStep
<1>1. PICK t, u : t = filesTable /\ u = filesTable'
  OBVIOUS
<1>2. /\ Rows!theTree = TreeOf(t) /\ Rows!theTree' = TreeOf(u) /\ Filed(t, lastId, puts) /\ Filed(u, lastId', puts')
  BY <1>1, Trees
<1>3. Rows!theKnown' = Rows!theKnown /\ Rows!theDrawn' = Rows!theDrawn /\ uploadsTable' = uploadsTable
  BY CreateDirDoes, MediaStays
<1>4. call' = [op |-> "CreateDir", path |-> p] /\ lastId \in Nat
  BY CreateDirDoes DEF RInv
<1>5. Rows!Suite!CreateDir(p)
  <2>1. CASE (\E i \in DOMAIN t : t[i].path = p) /\ u = t /\ result' = "conflict"
    <3>1. p \in DOMAIN TreeOf(t)
      <4>1. DOMAIN TreeOf(t) = {t[j].path : j \in DOMAIN t}
        BY <1>2, TreeIs
      <4> QED BY <2>1, <4>1
    <3> QED BY <1>2, <1>3, <2>1, <3>1 DEF Rows!Suite!CreateDir, Rows!Suite!Refuses, Rows!Suite!Answers
  <2>2. CASE /\ \A i \in DOMAIN t : t[i].path # p
             /\ lastId' = lastId + 1 /\ result' = "ok"
             /\ u = Rows!With(t, lastId + 1, [Rows!FileRow(p, 0) EXCEPT !.is_dir = TRUE])
    <3>1. PICK row : row = [Rows!FileRow(p, 0) EXCEPT !.is_dir = TRUE] /\ row.path = p /\ row.is_dir = TRUE /\ row.blob = 0
      <4>1. PICK row : row = [Rows!FileRow(p, 0) EXCEPT !.is_dir = TRUE]
        OBVIOUS
      <4> QED BY <4>1 DEF Rows!FileRow
    <3>3. PICK x : x = lastId + 1
      OBVIOUS
    <3>4. x \notin DOMAIN t
      BY <1>2, <1>4, <3>3 DEF Filed
    <3>5. /\ u = Rows!With(t, x, row) /\ \A j \in DOMAIN t : t[j].path # row.path
      BY <2>2, <3>1, <3>3
    <3>6. /\ TreeOf(u) = Rows!Suite!With(TreeOf(t), row.path, [id |-> x, dir |-> row.is_dir, bytes |-> row.blob])
          /\ row.path \notin DOMAIN TreeOf(t)
          /\ x \in {TreeOf(u)[q].id : q \in DOMAIN TreeOf(u)} \ {TreeOf(t)[q].id : q \in DOMAIN TreeOf(t)}
      BY <1>2, <3>4, <3>5, TreeGrown
    <3>7. /\ Rows!theTree' = Rows!Suite!With(Rows!theTree, p, [id |-> x, dir |-> TRUE, bytes |-> 0])
          /\ p \notin DOMAIN Rows!theTree
          /\ x \in {Rows!theTree'[q].id : q \in DOMAIN Rows!theTree'} \ Rows!Suite!Identities
      BY <1>2, <3>1, <3>6 DEF Rows!Suite!Identities
    <3> QED BY <1>3, <2>2, <3>7 DEF Rows!Suite!CreateDir, Rows!Suite!Answers
  <2> QED BY <1>1, <2>1, <2>2, CreateDirDoes
<1>6. call'.op = "CreateDir" /\ call'.path = p
  BY <1>4
<1> QED BY <1>5, <1>6 DEF Rows!SuiteStep

\* What the suite calls children has the folder as its parent.
LEMMA TheChildren ==
  ASSUME RInv, NEW d \in Seq(Nat)
  PROVE  Rows!Suite!Children(d) = {filesTable[i].path : i \in {j \in DOMAIN filesTable : filesTable[j].parent = d}}
<1>1. Rows!Suite!Children(d) = {p \in DOMAIN Rows!theTree : Rows!Under(p, d) /\ Len(p) = Len(d) + 1}
  BY DEF Rows!Suite!Children, Rows!Suite!Under, Rows!Under
<1>2. DOMAIN Rows!theTree = {filesTable[i].path : i \in DOMAIN filesTable}
  BY DEF Rows!theTree
<1>3. \A i \in DOMAIN filesTable : filesTable[i].path \in TPaths /\ filesTable[i].parent = Rows!ParentOf(filesTable[i].path)
  BY DEF RInv, Filed, FileRows
<1>4. \A i \in DOMAIN filesTable : filesTable[i].parent = d <=> Rows!Under(filesTable[i].path, d) /\ Len(filesTable[i].path) = Len(d) + 1
  BY <1>3, ChildIs
<1> QED BY <1>1, <1>2, <1>4

LEMMA DeleteFileSuits ==
  ASSUME RInv, RInv', NEW p \in TPaths, Rows!DeleteFile(p) PROVE Rows!SuiteStep
<1>1. PICK t, u : t = filesTable /\ u = filesTable'
  OBVIOUS
<1>2. /\ Rows!theTree = TreeOf(t) /\ Rows!theTree' = TreeOf(u) /\ Filed(t, lastId, puts) /\ Filed(u, lastId', puts')
  BY <1>1, Trees
<1>3. call' = [op |-> "DeleteFile", path |-> p] /\ uploadsTable' = uploadsTable /\ lastId' = lastId /\ puts' = puts
  BY DeleteFileDoes
<1>4. PICK f : f = TreeOf(t) /\ DOMAIN f = {t[j].path : j \in DOMAIN t} /\ \A j \in DOMAIN t : f[t[j].path] = Says(t, j)
  BY <1>2, TreeIs
<1>5. p \in Seq(Nat)
  BY DEF TPaths
<1>6. Rows!Suite!Children(p) = {t[i].path : i \in {j \in DOMAIN t : t[j].parent = p}}
  BY <1>1, <1>5, TheChildren
<1>7. Rows!Suite!DeleteFile(p)
  <2>1. CASE (\A i \in DOMAIN t : t[i].path # p) /\ u = t /\ mediaTable' = mediaTable /\ result' = "missing"
    <3>1. p \notin DOMAIN Rows!theTree
      BY <1>2, <1>4, <2>1
    <3> QED BY <1>2, <1>3, <2>1, <3>1, MediaStays DEF Rows!Suite!DeleteFile, Rows!Suite!Refuses, Rows!Suite!Answers
  <2>2. CASE (\E i, j \in DOMAIN t : t[i].path = p /\ t[j].parent = p) /\ u = t /\ mediaTable' = mediaTable /\ result' = "conflict"
    <3>1. p \in DOMAIN Rows!theTree /\ Rows!Suite!Children(p) # {}
      BY <1>2, <1>4, <1>6, <2>2
    <3> QED BY <1>2, <1>3, <2>2, <3>1, MediaStays DEF Rows!Suite!DeleteFile, Rows!Suite!Refuses, Rows!Suite!Answers
  <2>3. CASE /\ result' = "ok"
             /\ \E i \in DOMAIN t : /\ t[i].path = p /\ \A j \in DOMAIN t : t[j].parent # p
                                    /\ u = Rows!Only(t, DOMAIN t \ {i}) /\ mediaTable' = Rows!Only(mediaTable, DOMAIN t \ {i})
    <3>1. PICK i \in DOMAIN t : /\ t[i].path = p /\ \A j \in DOMAIN t : t[j].parent # p
                                /\ u = Rows!Only(t, DOMAIN t \ {i}) /\ mediaTable' = Rows!Only(mediaTable, DOMAIN t \ {i})
      BY <2>3
    <3>2. p \in DOMAIN Rows!theTree /\ Rows!Suite!Children(p) = {} /\ Rows!theTree[p].id = i
      BY <1>2, <1>4, <1>6, <3>1, SaysIs
    <3>3. Rows!theTree' = Rows!Suite!Only(Rows!theTree, DOMAIN Rows!theTree \ {p})
      <4>1. Filed(u, lastId, puts)
        BY <1>2, <1>3
      <4>2. TreeOf(u) = Rows!Suite!Only(TreeOf(t), DOMAIN TreeOf(t) \ {t[i].path})
        BY <1>2, <3>1, <4>1, TreeCut
      <4> QED BY <1>2, <3>1, <4>2
    <3>4. Rows!Suite!Identities = DOMAIN t
      BY <1>2, TheIdentities DEF Rows!Suite!Identities
    <3>5. PICK md, left : md = mediaTable /\ left = DOMAIN t \ {i}
      OBVIOUS
    <3>6. mediaTable' = [k \in DOMAIN md \cap left |-> md[k]]
      BY <3>1, <3>5 DEF Rows!Only
    <3>7. Rows!theKnown' = Rows!Suite!Only(Rows!theKnown, left)
      BY <3>5, <3>6 DEF Rows!theKnown, Rows!Suite!Only, Rows!Outcome
    <3>8. Rows!theDrawn' = Rows!Suite!Only(Rows!theDrawn, left)
      <4>1. {j \in DOMAIN mediaTable' : mediaTable'[j].thumb.state # "untried"} = {j \in DOMAIN md : md[j].thumb.state # "untried"} \cap left
        BY <3>6
      <4> QED BY <3>5, <3>6, <4>1 DEF Rows!theDrawn, Rows!Suite!Only
    <3>9. left = Rows!Suite!Identities \ {Rows!theTree[p].id}
      BY <3>2, <3>4, <3>5
    <3> QED BY <1>3, <2>3, <3>2, <3>3, <3>7, <3>8, <3>9 DEF Rows!Suite!DeleteFile, Rows!Suite!Answers
  <2> QED BY <1>1, <2>1, <2>2, <2>3, DeleteFileDoes
<1>8. call'.op = "DeleteFile" /\ call'.path = p
  BY <1>3
<1> QED BY <1>7, <1>8 DEF Rows!SuiteStep


LEMMA MoveFileSuits ==
  ASSUME RInv, RInv', NEW from \in TPaths, NEW to \in TPaths, Rows!MoveFile(from, to) PROVE Rows!SuiteStep
<1>1. PICK t, u : t = filesTable /\ u = filesTable'
  OBVIOUS
<1>2. /\ Rows!theTree = TreeOf(t) /\ Rows!theTree' = TreeOf(u) /\ Filed(t, lastId, puts) /\ Filed(u, lastId', puts')
  BY <1>1, Trees
<1>3. /\ Rows!theKnown' = Rows!theKnown /\ Rows!theDrawn' = Rows!theDrawn /\ uploadsTable' = uploadsTable
      /\ call' = [op |-> "MoveFile", path |-> from, to |-> to] /\ lastId' = lastId /\ puts' = puts
  BY MoveFileDoes, MediaStays
<1>4. DOMAIN Rows!theTree = {t[j].path : j \in DOMAIN t}
  BY <1>2, TreeIs
<1>5. AtOrBelow(from, to) <=> to = from \/ Rows!Suite!Under(to, from)
  BY DEF AtOrBelow, Rows!Under, Rows!Suite!Under
<1>6. Rows!Under(to, from) <=> Rows!Suite!Under(to, from)
  BY DEF Rows!Under, Rows!Suite!Under
<1>7. Rows!Suite!MoveFile(from, to)
  <2>1. CASE (to = from \/ Rows!Under(to, from)) /\ u = t /\ result' = "conflict"
    <3>1. Rows!Suite!Refuses("conflict")
      BY <1>2, <1>3, <2>1 DEF Rows!Suite!Refuses, Rows!Suite!Answers
    <3> QED BY <1>6, <2>1, <3>1 DEF Rows!Suite!MoveFile
  <2>2. CASE /\ ~(to = from \/ Rows!Under(to, from)) /\ \A i \in DOMAIN t : t[i].path # from
             /\ u = t /\ result' = "missing"
    <3>1. Rows!Suite!Refuses("missing") /\ from \notin DOMAIN Rows!theTree
      BY <1>2, <1>3, <1>4, <2>2 DEF Rows!Suite!Refuses, Rows!Suite!Answers
    <3> QED BY <1>6, <2>2, <3>1 DEF Rows!Suite!MoveFile
  <2>3. CASE /\ ~(to = from \/ Rows!Under(to, from))
             /\ \E i, j \in DOMAIN t : t[i].path = from /\ t[j].path = to
             /\ u = t /\ result' = "conflict"
    <3>1. Rows!Suite!Refuses("conflict") /\ from \in DOMAIN Rows!theTree /\ to \in DOMAIN Rows!theTree
      BY <1>2, <1>3, <1>4, <2>3 DEF Rows!Suite!Refuses, Rows!Suite!Answers
    <3> QED BY <1>6, <2>3, <3>1 DEF Rows!Suite!MoveFile
  <2>4. CASE /\ ~AtOrBelow(from, to)
             /\ \E i \in DOMAIN t : t[i].path = from
             /\ \A i \in DOMAIN t : t[i].path # to
             /\ u \in [DOMAIN t -> FileRows] /\ result' = "ok"
             /\ \A i \in DOMAIN t : u[i].path = Dest(t[i].path, from, to) /\ u[i].blob = t[i].blob /\ u[i].is_dir = t[i].is_dir
    <3>1. from \in DOMAIN Rows!theTree /\ to \notin DOMAIN Rows!theTree
      BY <1>4, <2>4
    <3>2. PICK f, n, m : f = TreeOf(t) /\ n = lastId /\ m = puts
      OBVIOUS
    <3>3. PICK moved : moved = {p \in DOMAIN f : AtOrBelow(from, p)}
      OBVIOUS
    <3>4. Filed(t, n, m) /\ Filed(u, n, m) /\ DOMAIN u = DOMAIN t
      BY <1>2, <1>3, <2>4, <3>2
    <3>5. TreeOf(u) = Relocated(f, moved, from, to)
      <4>1. f = TreeOf(t) /\ from \in TPaths /\ to \in TPaths
        BY <3>2
      <4>2. /\ ~AtOrBelow(from, to) /\ \A i \in DOMAIN t : t[i].path # to
            /\ \A i \in DOMAIN t : u[i].path = Dest(t[i].path, from, to) /\ u[i].blob = t[i].blob /\ u[i].is_dir = t[i].is_dir
        BY <2>4
      <4> QED BY ONLY <3>3, <3>4, <4>1, <4>2, TreeMoved
    <3>6. moved = {p \in DOMAIN Rows!theTree : p = from \/ Rows!Suite!Under(p, from)}
      BY <1>2, <3>2, <3>3 DEF AtOrBelow, Rows!Under, Rows!Suite!Under
    <3>7. /\ to \notin DOMAIN Rows!theTree /\ from \in DOMAIN Rows!theTree /\ ~(to = from \/ Rows!Suite!Under(to, from))
          /\ result' = "ok" /\ Rows!theKnown' = Rows!theKnown /\ Rows!theDrawn' = Rows!theDrawn /\ uploadsTable' = uploadsTable
      BY <1>3, <1>5, <2>4, <3>1
    <3>8. Rows!theTree' =
            [p \in (DOMAIN Rows!theTree \ moved) \cup {to \o SubSeq(p, Len(from) + 1, Len(p)) : p \in moved} |->
               IF \E q \in moved : to \o SubSeq(q, Len(from) + 1, Len(q)) = p
               THEN Rows!theTree[CHOOSE q \in moved : to \o SubSeq(q, Len(from) + 1, Len(q)) = p] ELSE Rows!theTree[p]]
      <4>1. Rows!theTree = f /\ Rows!theTree' = TreeOf(u)
        BY <1>2, <3>2
      <4> QED BY <3>5, <4>1, Zenon DEF Relocated, Rows!Rebased
    <3> QED BY <3>6, <3>7, <3>8, Zenon DEF Rows!Suite!MoveFile, Rows!Suite!Answers
  <2> QED BY <1>1, <2>1, <2>2, <2>3, <2>4, MoveFileDoes
<1>8. call'.op = "MoveFile" /\ call'.path = from /\ call'.to = to
  BY <1>3
<1> QED BY <1>7, <1>8 DEF Rows!SuiteStep

\* While no file changes its identity, neither does the tree.
LEMMA TreeStays == ASSUME UNCHANGED <<vendor, filesTable>> PROVE Rows!theTree' = Rows!theTree
BY DEF Rows!theTree, Rows!Entry, Rows!RowAt, Rows!Driver, Rows!sqliteKey, Rows!mysqlKey, Rows!postgresKey

LEMMA Identified == ASSUME RInv PROVE Rows!Suite!Identities = DOMAIN filesTable
<1>1. Filed(filesTable, lastId, puts) /\ Rows!theTree = TreeOf(filesTable)
  BY TreeNow DEF RInv
<1> QED BY <1>1, TheIdentities DEF Rows!Suite!Identities

LEMMA PutMediaSuits ==
  ASSUME RInv, NEW id, NEW etag, NEW e, NEW r, SaidOf(id, etag, e, r) PROVE Rows!SuiteStep
<1>1. /\ Rows!theTree' = Rows!theTree /\ uploadsTable' = uploadsTable
      /\ call' = [op |-> "PutMedia", id |-> id, etag |-> etag, version |-> 1, error |-> e, retry |-> r]
  BY TreeStays DEF SaidOf
<1>2. PICK o : o = Rows!Outcome(call') /\ o = IF e = "" THEN "ok" ELSE IF r # 0 THEN "unreached" ELSE "failed"
  BY <1>1 DEF Rows!Outcome, Rows!NULL
<1> DEFINE verdict == [bytes |-> etag, version |-> 1, outcome |-> o]
<1>3. Rows!Suite!PutMedia(id, verdict)
  <2>1. CASE id \notin DOMAIN filesTable /\ mediaTable' = mediaTable /\ result' = "missing"
    <3>1. id \notin Rows!Suite!Identities
      BY <2>1, Identified
    <3> QED BY <1>1, <2>1, <3>1, MediaStays DEF Rows!Suite!PutMedia, Rows!Suite!Refuses, Rows!Suite!Answers
  <2>2. CASE /\ id \in DOMAIN filesTable /\ result' = "ok"
             /\ \E row \in MediaRows :
                  /\ mediaTable' = Rows!With(mediaTable, id, row)
                  /\ row.version = 1 /\ row.etag = etag /\ row.error = e /\ row.retry = r
                  /\ row.thumb = IF id \in DOMAIN mediaTable THEN mediaTable[id].thumb ELSE Rows!Untried
    <3>1. PICK row \in MediaRows :
                  /\ mediaTable' = Rows!With(mediaTable, id, row)
                  /\ row.version = 1 /\ row.etag = etag /\ row.error = e /\ row.retry = r
                  /\ row.thumb = IF id \in DOMAIN mediaTable THEN mediaTable[id].thumb ELSE Rows!Untried
      BY <2>2
    <3>2. PICK md : md = mediaTable
      OBVIOUS
    <3>3. PICK nd : nd = mediaTable' /\ nd = [y \in DOMAIN md \cup {id} |-> IF y = id THEN row ELSE md[y]]
      BY <3>1, <3>2 DEF Rows!With
    <3>4. Rows!Outcome(row) = o
      BY <1>2, <3>1 DEF Rows!Outcome, Rows!NULL
    <3>5. Rows!theKnown' = Rows!Suite!With(Rows!theKnown, id, verdict)
      <4>1. PICK f : f = Rows!theKnown
        OBVIOUS
      <4>2. f = [i \in DOMAIN md |-> [bytes |-> md[i].etag, version |-> md[i].version, outcome |-> Rows!Outcome(md[i])]]
        BY <3>2, <4>1 DEF Rows!theKnown
      <4>3. Rows!theKnown' = [i \in DOMAIN nd |-> [bytes |-> nd[i].etag, version |-> nd[i].version, outcome |-> Rows!Outcome(nd[i])]]
        BY <3>3 DEF Rows!theKnown, Rows!Outcome
      <4>4. \A i \in DOMAIN nd : [bytes |-> nd[i].etag, version |-> nd[i].version, outcome |-> Rows!Outcome(nd[i])]
                                 = IF i = id THEN verdict ELSE f[i]
        BY <3>1, <3>3, <3>4, <4>2
      <4>5. DOMAIN nd = DOMAIN f \cup {id}
        BY <3>3, <4>2
      <4> QED BY <4>1, <4>3, <4>4, <4>5 DEF Rows!Suite!With
    <3>6. Rows!theDrawn' = Rows!theDrawn
      <4>1. ASSUME NEW i PROVE i \in DOMAIN nd /\ nd[i].thumb.state # "untried" <=> i \in DOMAIN md /\ md[i].thumb.state # "untried"
        BY <3>1, <3>2, <3>3 DEF Rows!Untried
      <4>2. ASSUME NEW i \in DOMAIN md PROVE nd[i].thumb = md[i].thumb
        BY <3>1, <3>2, <3>3
      <4>3. PICK f : f = Rows!theDrawn
        OBVIOUS
      <4>4. f = [i \in {j \in DOMAIN md : md[j].thumb.state # "untried"} |->
                   [bytes |-> md[i].thumb.blob, generation |-> md[i].thumb.generation, outcome |-> md[i].thumb.state]]
        BY <3>2, <4>3 DEF Rows!theDrawn
      <4>5. Rows!theDrawn' = [i \in {j \in DOMAIN nd : nd[j].thumb.state # "untried"} |->
                   [bytes |-> nd[i].thumb.blob, generation |-> nd[i].thumb.generation, outcome |-> nd[i].thumb.state]]
        BY <3>3 DEF Rows!theDrawn
      <4>6. {j \in DOMAIN nd : nd[j].thumb.state # "untried"} = {j \in DOMAIN md : md[j].thumb.state # "untried"}
        BY <4>1
      <4> QED BY <4>2, <4>3, <4>4, <4>5, <4>6
    <3>7. id \in Rows!Suite!Identities
      BY <2>2, Identified
    <3> QED BY <1>1, <2>2, <3>5, <3>6, <3>7 DEF Rows!Suite!PutMedia, Rows!Suite!Answers
  <2> QED BY <2>1, <2>2 DEF SaidOf
<1>4. /\ call'.op = "PutMedia" /\ call'.id = id
      /\ verdict = [bytes |-> call'.etag, version |-> call'.version, outcome |-> Rows!Outcome(call')]
  BY <1>1, <1>2
<1> HIDE DEF verdict
<1> QED BY <1>3, <1>4 DEF Rows!SuiteStep

LEMMA ThumbSuits ==
  ASSUME RInv, NEW id, NEW blob \in 1..puts, NEW state \in {"made", "refused"}, Rows!PutThumbVerdict(id, blob, state)
  PROVE  Rows!SuiteStep
<1>1. PICK thumb : thumb = [state |-> state, blob |-> blob, generation |-> 1, old |-> FALSE]
  OBVIOUS
<1>2. PICK md, nd : md = mediaTable /\ nd = mediaTable'
  OBVIOUS
<1>3. /\ UNCHANGED <<vendor, filesTable, uploadsTable>> /\ DOMAIN nd = DOMAIN md
      /\ call' = [op |-> "PutThumbVerdict", id |-> id, blob |-> blob, state |-> state]
      /\ result' = IF id \in DOMAIN md THEN "ok" ELSE "missing"
      /\ \A i \in DOMAIN md :
           /\ nd[i].version = md[i].version /\ nd[i].etag = md[i].etag
           /\ nd[i].error = md[i].error /\ nd[i].retry = md[i].retry
           /\ nd[i].thumb = IF i = id THEN thumb ELSE md[i].thumb
  <2>1. PicturedOf(id, blob, state)
    BY ThumbDoes
  <2> QED BY <1>1, <1>2, <2>1 DEF PicturedOf
<1>4. Rows!theTree' = Rows!theTree
  BY <1>3, TreeStays
<1> DEFINE verdict == [bytes |-> blob, generation |-> 1, outcome |-> state]
<1>5. Rows!theKnown' = Rows!theKnown
  <2>1. \A i \in DOMAIN md : Rows!Outcome(nd[i]) = Rows!Outcome(md[i])
    BY <1>3 DEF Rows!Outcome
  <2>2. Rows!theKnown = [i \in DOMAIN md |-> [bytes |-> md[i].etag, version |-> md[i].version, outcome |-> Rows!Outcome(md[i])]]
    BY <1>2 DEF Rows!theKnown
  <2>3. Rows!theKnown' = [i \in DOMAIN nd |-> [bytes |-> nd[i].etag, version |-> nd[i].version, outcome |-> Rows!Outcome(nd[i])]]
    BY <1>2 DEF Rows!theKnown, Rows!Outcome
  <2> QED BY <1>3, <2>1, <2>2, <2>3
<1>6. DOMAIN Rows!theKnown = DOMAIN md
  BY <1>2 DEF Rows!theKnown
<1>7. PICK f, g : f = Rows!theDrawn /\ g = Rows!theDrawn'
  OBVIOUS
<1>8. f = [i \in {j \in DOMAIN md : md[j].thumb.state # "untried"} |->
             [bytes |-> md[i].thumb.blob, generation |-> md[i].thumb.generation, outcome |-> md[i].thumb.state]]
  BY <1>2, <1>7 DEF Rows!theDrawn
<1>9. g = [i \in {j \in DOMAIN nd : nd[j].thumb.state # "untried"} |->
             [bytes |-> nd[i].thumb.blob, generation |-> nd[i].thumb.generation, outcome |-> nd[i].thumb.state]]
  BY <1>2, <1>7 DEF Rows!theDrawn
<1>10. CASE id \notin DOMAIN md
  <2>1. {j \in DOMAIN nd : nd[j].thumb.state # "untried"} = {j \in DOMAIN md : md[j].thumb.state # "untried"}
    BY <1>3, <1>10
  <2>2. \A i \in DOMAIN md : nd[i].thumb = md[i].thumb
    BY <1>3, <1>10
  <2>3. g = f
    BY <1>8, <1>9, <2>1, <2>2
  <2>4. Rows!Suite!PutThumbVerdict(id, verdict)
    BY <1>3, <1>4, <1>5, <1>6, <1>7, <1>10, <2>3 DEF Rows!Suite!PutThumbVerdict, Rows!Suite!Refuses, Rows!Suite!Answers
  <2> QED BY <1>3, <2>4 DEF Rows!SuiteStep
<1>11. CASE id \in DOMAIN md
  <2>1. thumb.state = state /\ state # "untried" /\ thumb.blob = blob /\ thumb.generation = 1
    BY <1>1
  <2>2. {j \in DOMAIN nd : nd[j].thumb.state # "untried"} = {j \in DOMAIN md : md[j].thumb.state # "untried"} \cup {id}
    BY <1>3, <1>11, <2>1
  <2>3. \A i \in DOMAIN md : i # id => nd[i].thumb = md[i].thumb
    BY <1>3
  <2>4. nd[id].thumb = thumb
    BY <1>3, <1>11
  <2>5. DOMAIN g = DOMAIN f \cup {id} /\ g = [i \in DOMAIN g |-> g[i]]
    BY <1>8, <1>9, <2>2
  <2>6. ASSUME NEW i \in DOMAIN g PROVE g[i] = IF i = id THEN verdict ELSE f[i]
    <3>1. CASE i = id
      BY <1>9, <2>1, <2>4, <2>6, <3>1
    <3>2. CASE i # id
      BY <1>3, <1>8, <1>9, <2>3, <2>5, <2>6, <3>2
    <3> QED BY <3>1, <3>2
  <2>7. Rows!theDrawn' = Rows!Suite!With(Rows!theDrawn, id, verdict)
    BY <1>7, <2>5, <2>6 DEF Rows!Suite!With
  <2>8. Rows!Suite!PutThumbVerdict(id, verdict)
    BY <1>3, <1>4, <1>5, <1>6, <1>11, <2>7 DEF Rows!Suite!PutThumbVerdict, Rows!Suite!Answers
  <2> QED BY <1>3, <2>8 DEF Rows!SuiteStep
<1> QED BY <1>10, <1>11

LEMMA UploadsSuit ==
  ASSUME RInv, NEW w, NEW owner,
         (\E p \in TreePaths, received \in 0..1 : Rows!PutUpload(w, owner, p, received)) \/ Rows!DeleteUpload(w, owner)
  PROVE  Rows!SuiteStep
<1>1. CASE \E p \in TreePaths, received \in 0..1 : Rows!PutUpload(w, owner, p, received)
  <2>1. PICK p \in TreePaths, received \in 0..1 : Rows!PutUpload(w, owner, p, received)
    BY <1>1
  <2>2. PICK new : new = [owner |-> owner, path |-> p, received |-> received]
    OBVIOUS
  <2>3. /\ uploadsTable' = Rows!With(uploadsTable, w, IF w \notin DOMAIN uploadsTable THEN new
                                                      ELSE [uploadsTable[w] EXCEPT !.received = new.received])
        /\ call' = [op |-> "PutUpload", id |-> w, upload |-> new] /\ result' = "ok"
        /\ UNCHANGED <<vendor, filesTable, mediaTable>>
    BY <2>1, <2>2, OneDriver
       DEF RInv, Rows!PutUpload, Rows!Answers, Rows!sqliteUpload, Rows!mysqlUpload, Rows!postgresUpload, Rows!UploadUpsert
  <2>4. Rows!Suite!PutUpload(w, new)
    BY <2>3, TreeStays, MediaStays DEF Rows!Suite!PutUpload, Rows!Suite!Answers, Rows!Suite!With, Rows!With
  <2>5. call'.op = "PutUpload" /\ call'.id = w /\ call'.upload = new
    BY <2>3
  <2> QED BY <2>4, <2>5 DEF Rows!SuiteStep
<1>2. CASE Rows!DeleteUpload(w, owner)
  <2>1. Rows!Suite!DeleteUpload(w, owner)
    BY <1>2, TreeStays, MediaStays
       DEF Rows!DeleteUpload, Rows!UploadByID, Rows!Answers, Rows!Only, Rows!Suite!DeleteUpload, Rows!Suite!Answers, Rows!Suite!Only
  <2>2. call' = [op |-> "DeleteUpload", id |-> w, owner |-> owner]
    BY <1>2 DEF Rows!DeleteUpload, Rows!Answers
  <2>3. call'.op = "DeleteUpload" /\ call'.id = w /\ call'.owner = owner
    BY <2>2
  <2> QED BY <2>1, <2>3 DEF Rows!SuiteStep
<1> QED BY <1>1, <1>2

\* The second statement of PutMedia, and its absence, tell nobody anything.
LEMMA SortSuits ==
  ASSUME RInv, Rows!SortMedia \/ Rows!Cut PROVE Rows!SuiteStep
<1>1. CASE Rows!Cut
  BY <1>1, TreeStays, MediaStays DEF Rows!Cut, Rows!SuiteStep
<1>2. CASE Rows!SortMedia
  <2>1. PICK md, nd : md = mediaTable /\ nd = mediaTable'
    OBVIOUS
  <2>2. /\ UNCHANGED <<vendor, filesTable, uploadsTable, call, result>> /\ DOMAIN nd = DOMAIN md
        /\ \A i \in DOMAIN md :
              /\ nd[i].version = md[i].version /\ nd[i].etag = md[i].etag
              /\ nd[i].error = md[i].error /\ nd[i].retry = md[i].retry /\ nd[i].thumb = md[i].thumb
    BY <1>2, <2>1, SortDoes
  <2>3. Rows!theKnown' = Rows!theKnown
    <3>1. \A i \in DOMAIN md : Rows!Outcome(nd[i]) = Rows!Outcome(md[i])
      BY <2>2 DEF Rows!Outcome
    <3>2. Rows!theKnown = [i \in DOMAIN md |-> [bytes |-> md[i].etag, version |-> md[i].version, outcome |-> Rows!Outcome(md[i])]]
      BY <2>1 DEF Rows!theKnown
    <3>3. Rows!theKnown' = [i \in DOMAIN nd |-> [bytes |-> nd[i].etag, version |-> nd[i].version, outcome |-> Rows!Outcome(nd[i])]]
      BY <2>1 DEF Rows!theKnown, Rows!Outcome
    <3> QED BY <2>2, <3>1, <3>2, <3>3
  <2>4. Rows!theDrawn' = Rows!theDrawn
    <3>1. {j \in DOMAIN nd : nd[j].thumb.state # "untried"} = {j \in DOMAIN md : md[j].thumb.state # "untried"}
      BY <2>2
    <3>2. Rows!theDrawn = [i \in {j \in DOMAIN md : md[j].thumb.state # "untried"} |->
             [bytes |-> md[i].thumb.blob, generation |-> md[i].thumb.generation, outcome |-> md[i].thumb.state]]
      BY <2>1 DEF Rows!theDrawn
    <3>3. Rows!theDrawn' = [i \in {j \in DOMAIN nd : nd[j].thumb.state # "untried"} |->
             [bytes |-> nd[i].thumb.blob, generation |-> nd[i].thumb.generation, outcome |-> nd[i].thumb.state]]
      BY <2>1 DEF Rows!theDrawn
    <3> QED BY <2>2, <3>1, <3>2, <3>3
  <2> QED BY <2>2, <2>3, <2>4, TreeStays DEF Rows!SuiteStep
<1> QED BY <1>1, <1>2

LEMMA EachCallSuits == ASSUME RInv, RInv', Rows!Next PROVE Rows!SuiteStep
<1>1. \A p \in TreePaths : p \in TPaths
  BY RowsAssumption DEF TPaths
<1>2. CASE \E p \in TreePaths : (Rows!ParentThere(p) /\ (Rows!PutFile(p) \/ Rows!CreateDir(p))) \/ Rows!DeleteFile(p)
  BY <1>1, <1>2, PutFileSuits, CreateDirSuits, DeleteFileSuits
<1>3. CASE \E p, q \in TreePaths : Rows!ParentThere(q) /\ Rows!MoveFile(p, q)
  BY <1>1, <1>3, MoveFileSuits
<1>4. CASE \E id \in Rows!Handed, etag \in 1..puts, said \in Rows!Verdicts :
             Rows!PutMedia(id, etag, 1, said.error, said.retry, said.taken)
  <2>1. PICK id, etag, e, r, t : HandsIn(id, etag, e, r, t)
    BY <1>4, VerdictIs
  <2>2. SaidOf(id, etag, e, r)
    BY <2>1, PutMediaDoes
  <2> QED BY <2>2, PutMediaSuits
<1>5. CASE Rows!SortMedia \/ Rows!Cut
  BY <1>5, SortSuits
<1>6. CASE \E id \in Rows!Handed, blob \in 1..puts, state \in {"made", "refused"} : Rows!PutThumbVerdict(id, blob, state)
  BY <1>6, ThumbSuits
<1>7. CASE \E w \in UploadNames, owner \in Owners :
             (\E p \in TreePaths, received \in 0..1 : Rows!PutUpload(w, owner, p, received)) \/ Rows!DeleteUpload(w, owner)
  BY <1>7, UploadsSuit
<1> QED BY <1>2, <1>3, <1>4, <1>5, <1>6, <1>7 DEF Rows!Next

\* Every driver, call by call, does what the suite says of it (db/dbtest).
THEOREM TheDriversImplementTheSuite == Rows!Spec => DriversImplementTheSuite
<1>1. RInv /\ RInv' /\ [Rows!Next]_(Rows!rowVars) => [Rows!SuiteStep]_rvars
  <2>1. CASE Rows!Next
    BY <2>1, EachCallSuits
  <2>2. CASE UNCHANGED Rows!rowVars
    BY <2>2 DEF Rows!rowVars, rvars
  <2> QED BY <2>1, <2>2
<1> QED BY <1>1, RowsInvariant, PTL DEF Rows!Spec, DriversImplementTheSuite

-----------------------------------------------------------------------------
(* The tables and the suite: the queries.                                  *)

\* The tree, the verdicts and the pictures of the suite, row by row.
LEMMA TheSuiteSees ==
  ASSUME RInv
  PROVE  /\ \A q \in DOMAIN Rows!theTree : \E i \in DOMAIN filesTable :
              /\ q = filesTable[i].path /\ Rows!theTree[q].id = i
              /\ Rows!theTree[q].dir = filesTable[i].is_dir /\ Rows!theTree[q].bytes = filesTable[i].blob
         /\ \A i \in DOMAIN filesTable : \E q \in DOMAIN Rows!theTree :
              /\ Rows!theTree[q].id = i
              /\ Rows!theTree[q].dir = filesTable[i].is_dir /\ Rows!theTree[q].bytes = filesTable[i].blob
<1>1. PICK f : f = Rows!theTree
  OBVIOUS
<1>2. DOMAIN f = {filesTable[j].path : j \in DOMAIN filesTable} /\ \A j \in DOMAIN filesTable : f[filesTable[j].path] = Says(filesTable, j)
  <2>1. Filed(filesTable, lastId, puts) /\ f = TreeOf(filesTable)
    BY <1>1, TreeNow DEF RInv
  <2> QED BY <2>1, TreeIs
<1>3. \A q \in DOMAIN f : \E i \in DOMAIN filesTable :
         q = filesTable[i].path /\ f[q].id = i /\ f[q].dir = filesTable[i].is_dir /\ f[q].bytes = filesTable[i].blob
  BY <1>2, SaysIs
<1>4. \A i \in DOMAIN filesTable : \E q \in DOMAIN f :
         f[q].id = i /\ f[q].dir = filesTable[i].is_dir /\ f[q].bytes = filesTable[i].blob
  BY <1>2, SaysIs
<1> QED BY <1>1, <1>3, <1>4

\* Nothing went wrong.
Fine(i) == mediaTable[i].error = ""

LEMMA TheSuiteKnows ==
  ASSUME RInv
  PROVE  /\ DOMAIN Rows!theKnown = DOMAIN mediaTable
         /\ \A i \in DOMAIN mediaTable :
              /\ i \in DOMAIN filesTable /\ ~filesTable[i].is_dir /\ filesTable[i].etag = filesTable[i].blob
              /\ mediaTable[i] \in MediaRows
              /\ Rows!theKnown[i].bytes = mediaTable[i].etag /\ Rows!theKnown[i].version = mediaTable[i].version
              /\ Rows!theKnown[i].outcome = "ok" <=> Fine(i)
              /\ Rows!theKnown[i].outcome = "failed" <=> ~Fine(i) /\ mediaTable[i].retry = 0
              /\ Rows!theKnown[i].outcome = "unreached" <=> mediaTable[i].retry = 1
              /\ mediaTable[i].retry = 1 => ~Fine(i)
<1>1. PICK k : k = Rows!theKnown
  OBVIOUS
<1>2. k = [i \in DOMAIN mediaTable |-> [bytes |-> mediaTable[i].etag, version |-> mediaTable[i].version,
                                        outcome |-> Rows!Outcome(mediaTable[i])]]
  BY <1>1 DEF Rows!theKnown
<1>3. ASSUME NEW i \in DOMAIN mediaTable
      PROVE  /\ i \in DOMAIN filesTable /\ ~filesTable[i].is_dir /\ filesTable[i].etag = filesTable[i].blob
             /\ mediaTable[i] \in MediaRows
             /\ k[i].bytes = mediaTable[i].etag /\ k[i].version = mediaTable[i].version
             /\ k[i].outcome = Rows!Outcome(mediaTable[i])
             /\ mediaTable[i].retry # 0 => mediaTable[i].error # ""
             /\ mediaTable[i].retry \in {0, 1}
  BY <1>2 DEF RInv, Learnt, Filed, MediaRows
<1>4. ASSUME NEW i \in DOMAIN mediaTable
      PROVE  /\ k[i].outcome = "ok" <=> Fine(i)
             /\ k[i].outcome = "failed" <=> ~Fine(i) /\ mediaTable[i].retry = 0
             /\ k[i].outcome = "unreached" <=> mediaTable[i].retry = 1
             /\ mediaTable[i].retry = 1 => ~Fine(i)
  <2>1. Rows!Outcome(mediaTable[i]) = IF Fine(i) THEN "ok" ELSE IF mediaTable[i].retry # 0 THEN "unreached" ELSE "failed"
    BY Zenon DEF Rows!Outcome, Rows!NULL, Fine
  <2>2. mediaTable[i].retry # 0 => ~Fine(i)
    BY <1>3, Zenon DEF Fine
  <2>3. mediaTable[i].retry \in {0, 1} /\ k[i].outcome = Rows!Outcome(mediaTable[i])
    BY <1>3
  <2> QED BY ONLY <2>1, <2>2, <2>3
<1> QED BY <1>1, <1>2, <1>3, <1>4

LEMMA TheSuiteDrew ==
  /\ DOMAIN Rows!theDrawn = {i \in DOMAIN mediaTable : mediaTable[i].thumb.state # "untried"}
  /\ \A i \in DOMAIN Rows!theDrawn :
       /\ Rows!theDrawn[i].bytes = mediaTable[i].thumb.blob /\ Rows!theDrawn[i].generation = mediaTable[i].thumb.generation
       /\ Rows!theDrawn[i].outcome = mediaTable[i].thumb.state
<1>1. PICK d : d = Rows!theDrawn
  OBVIOUS
<1>2. d = [i \in {j \in DOMAIN mediaTable : mediaTable[j].thumb.state # "untried"} |->
               [bytes |-> mediaTable[i].thumb.blob, generation |-> mediaTable[i].thumb.generation, outcome |-> mediaTable[i].thumb.state]]
  BY <1>1 DEF Rows!theDrawn
<1> QED BY <1>1, <1>2

\* What is in the queue of the extractor.
Waits(i, version, at) ==
  \/ i \notin DOMAIN mediaTable \/ mediaTable[i].version < version \/ mediaTable[i].etag # filesTable[i].etag
  \/ (mediaTable[i].retry = 1 /\ at = 1)

LEMMA PendingIs ==
  ASSUME RInv, NEW version \in Versions, NEW at \in 0..1
  PROVE  Rows!PendingMedia(version, at) = {i \in Rows!Live : Waits(i, version, at)}
<1>1. \A i : Rows!Driver(Rows!sqliteDue(i, version, at), Rows!mysqlDue(i, version, at), Rows!postgresDue(i, version, at))
             = Rows!Due(i, version, at)
  BY OneDriver DEF RInv, Rows!sqliteDue, Rows!mysqlDue, Rows!postgresDue
<1>2. ASSUME NEW i PROVE Rows!Due(i, version, at) <=> Waits(i, version, at)
  <2>1. i \in DOMAIN mediaTable => mediaTable[i].retry \in {0, 1}
    BY TheSuiteKnows DEF MediaRows
  <2> QED BY <2>1 DEF Rows!Due, Rows!Null, Rows!NULL, Waits
<1>3. Rows!PendingMedia(version, at) = {i \in Rows!Live : Rows!Due(i, version, at)}
  BY <1>1 DEF Rows!PendingMedia
<1> QED BY <1>2, <1>3

LEMMA LiveIs == ASSUME RInv PROVE /\ Rows!Live = {i \in DOMAIN filesTable : ~filesTable[i].is_dir}
                                  /\ DOMAIN mediaTable \subseteq Rows!Live
                                  /\ \A i \in Rows!Live : filesTable[i].etag = filesTable[i].blob
BY DEF RInv, Rows!Live, Learnt, Filed

LEMMA ToReadIs ==
  ASSUME RInv, NEW version \in Versions, NEW at \in 0..1
  PROVE  Rows!Suite!ToRead(version, at = 1) = {i \in Rows!Live : Waits(i, version, at)}
<1>1. PICK f, k : f = Rows!theTree /\ k = Rows!theKnown
  OBVIOUS
<1>2. PICK due \in BOOLEAN : due = (at = 1)
  OBVIOUS
<1>3. Rows!Suite!ToRead(version, due) =
        {f[p].id : p \in {q \in DOMAIN f : ~f[q].dir /\
           (f[q].id \notin DOMAIN k \/ k[f[q].id].version < version \/ k[f[q].id].bytes # f[q].bytes
            \/ (k[f[q].id].outcome = "unreached" /\ due))}}
  BY <1>1 DEF Rows!Suite!ToRead
<1>4. \A q \in DOMAIN f : \E i \in DOMAIN filesTable :
         f[q].id = i /\ f[q].dir = filesTable[i].is_dir /\ f[q].bytes = filesTable[i].blob
  BY <1>1, TheSuiteSees
<1>5. \A i \in DOMAIN filesTable : \E q \in DOMAIN f :
         f[q].id = i /\ f[q].dir = filesTable[i].is_dir /\ f[q].bytes = filesTable[i].blob
  BY <1>1, TheSuiteSees
<1>6. /\ DOMAIN k = DOMAIN mediaTable
      /\ \A i \in DOMAIN mediaTable :
              /\ k[i].bytes = mediaTable[i].etag /\ k[i].version = mediaTable[i].version
              /\ k[i].outcome = "unreached" <=> mediaTable[i].retry = 1
  BY <1>1, TheSuiteKnows
<1>7. \A i \in Rows!Live : Waits(i, version, at) <=>
         i \notin DOMAIN k \/ k[i].version < version \/ k[i].bytes # filesTable[i].blob \/ (k[i].outcome = "unreached" /\ due)
  BY <1>2, <1>6, LiveIs DEF Waits
<1>8. ASSUME NEW q \in DOMAIN f, ~f[q].dir,
             f[q].id \notin DOMAIN k \/ k[f[q].id].version < version \/ k[f[q].id].bytes # f[q].bytes
             \/ (k[f[q].id].outcome = "unreached" /\ due)
      PROVE  f[q].id \in Rows!Live /\ Waits(f[q].id, version, at)
  <2>1. PICK i \in DOMAIN filesTable : f[q].id = i /\ f[q].dir = filesTable[i].is_dir /\ f[q].bytes = filesTable[i].blob
    BY <1>4
  <2>2. i \in Rows!Live
    BY <1>8, <2>1, LiveIs
  <2> QED BY <1>7, <1>8, <2>1, <2>2
<1>9. ASSUME NEW i \in Rows!Live, Waits(i, version, at) PROVE i \in Rows!Suite!ToRead(version, due)
  <2>1. i \in DOMAIN filesTable /\ ~filesTable[i].is_dir
    BY LiveIs
  <2>2. PICK q \in DOMAIN f : f[q].id = i /\ f[q].dir = filesTable[i].is_dir /\ f[q].bytes = filesTable[i].blob
    BY <1>5, <2>1
  <2>3. /\ ~f[q].dir
        /\ f[q].id \notin DOMAIN k \/ k[f[q].id].version < version \/ k[f[q].id].bytes # f[q].bytes
           \/ (k[f[q].id].outcome = "unreached" /\ due)
    BY <1>7, <1>9, <2>1, <2>2
  <2> QED BY <1>3, <2>2, <2>3
<1> QED BY <1>2, <1>3, <1>8, <1>9

LEMMA VerdictsAre ==
  ASSUME RInv, NEW version \in Versions, NEW outcome
  PROVE  Rows!Suite!Read(version, outcome) =
           {i \in Rows!Live : /\ i \in DOMAIN mediaTable /\ mediaTable[i].version >= version
                              /\ mediaTable[i].etag = filesTable[i].etag /\ Rows!theKnown[i].outcome = outcome}
<1>1. PICK f, k : f = Rows!theTree /\ k = Rows!theKnown
  OBVIOUS
<1>3. Rows!Suite!Read(version, outcome) =
        {f[p].id : p \in {q \in DOMAIN f : ~f[q].dir /\ f[q].id \in DOMAIN k /\
           k[f[q].id].version >= version /\ k[f[q].id].bytes = f[q].bytes /\ k[f[q].id].outcome = outcome}}
  BY <1>1 DEF Rows!Suite!Read
<1>4. \A q \in DOMAIN f : \E i \in DOMAIN filesTable :
         f[q].id = i /\ f[q].dir = filesTable[i].is_dir /\ f[q].bytes = filesTable[i].blob
  BY <1>1, TheSuiteSees
<1>5. \A i \in DOMAIN filesTable : \E q \in DOMAIN f :
         f[q].id = i /\ f[q].dir = filesTable[i].is_dir /\ f[q].bytes = filesTable[i].blob
  BY <1>1, TheSuiteSees
<1>6. /\ DOMAIN k = DOMAIN mediaTable
      /\ \A i \in DOMAIN mediaTable : k[i].bytes = mediaTable[i].etag /\ k[i].version = mediaTable[i].version
  BY <1>1, TheSuiteKnows
<1> DEFINE S == {i \in Rows!Live : /\ i \in DOMAIN mediaTable /\ mediaTable[i].version >= version
                                   /\ mediaTable[i].etag = filesTable[i].etag /\ k[i].outcome = outcome}
<1>8. ASSUME NEW q \in DOMAIN f, ~f[q].dir, f[q].id \in DOMAIN k,
             k[f[q].id].version >= version, k[f[q].id].bytes = f[q].bytes, k[f[q].id].outcome = outcome
      PROVE  f[q].id \in S
  <2>1. PICK i \in DOMAIN filesTable : f[q].id = i /\ f[q].dir = filesTable[i].is_dir /\ f[q].bytes = filesTable[i].blob
    BY <1>4
  <2>2. i \in Rows!Live /\ filesTable[i].etag = filesTable[i].blob
    BY <1>8, <2>1, LiveIs
  <2> QED BY <1>6, <1>8, <2>1, <2>2
<1>9. ASSUME NEW i \in S PROVE i \in Rows!Suite!Read(version, outcome)
  <2>1. i \in DOMAIN filesTable /\ ~filesTable[i].is_dir /\ filesTable[i].etag = filesTable[i].blob
    BY LiveIs
  <2>2. PICK q \in DOMAIN f : f[q].id = i /\ f[q].dir = filesTable[i].is_dir /\ f[q].bytes = filesTable[i].blob
    BY <1>5, <2>1
  <2>3. /\ ~f[q].dir /\ f[q].id \in DOMAIN k
        /\ k[f[q].id].version >= version /\ k[f[q].id].bytes = f[q].bytes /\ k[f[q].id].outcome = outcome
    BY <1>6, <2>1, <2>2
  <2> QED BY <1>3, <2>2, <2>3
<1> QED BY <1>1, <1>3, <1>8, <1>9

LEMMA ThumbsAgree ==
  ASSUME RInv, NEW stale \in BOOLEAN PROVE Rows!PendingThumbs(1, stale) = Rows!Suite!ToDraw(1, stale)
<1>1. PICK f, k, d : f = Rows!theTree /\ k = Rows!theKnown /\ d = Rows!theDrawn
  OBVIOUS
<1>2. \A i : Rows!Driver(Rows!sqliteUndrawn(i, 1, stale), Rows!mysqlUndrawn(i, 1, stale), Rows!postgresUndrawn(i, 1, stale))
             = Rows!Undrawn(i, 1, stale)
  BY OneDriver DEF RInv, Rows!sqliteUndrawn, Rows!mysqlUndrawn, Rows!postgresUndrawn
<1>3. Rows!PendingThumbs(1, stale) = {i \in DOMAIN mediaTable : Rows!Undrawn(i, 1, stale)}
  BY <1>2 DEF Rows!PendingThumbs
<1>4. \A q \in DOMAIN f : \E i \in DOMAIN filesTable :
         f[q].id = i /\ f[q].dir = filesTable[i].is_dir /\ f[q].bytes = filesTable[i].blob
  BY <1>1, TheSuiteSees
<1>5. \A i \in DOMAIN filesTable : \E q \in DOMAIN f :
         f[q].id = i /\ f[q].dir = filesTable[i].is_dir /\ f[q].bytes = filesTable[i].blob
  BY <1>1, TheSuiteSees
<1>6. DOMAIN k = DOMAIN mediaTable /\ DOMAIN mediaTable \subseteq DOMAIN filesTable
  BY <1>1, TheSuiteKnows
<1>7. /\ DOMAIN d = {i \in DOMAIN mediaTable : mediaTable[i].thumb.state # "untried"}
      /\ \A i \in DOMAIN d :
           /\ d[i].bytes = mediaTable[i].thumb.blob /\ d[i].generation = mediaTable[i].thumb.generation
           /\ d[i].outcome = mediaTable[i].thumb.state
  BY <1>1, TheSuiteDrew
<1>8. ASSUME NEW i \in DOMAIN mediaTable
      PROVE  Rows!Undrawn(i, 1, stale) <=>
               i \notin DOMAIN d \/ d[i].generation # 1 \/ d[i].bytes # filesTable[i].blob \/ (d[i].outcome = "refused" /\ stale)
  BY <1>7 DEF Rows!Undrawn
<1>9. Rows!Suite!ToDraw(1, stale) =
        {f[p].id : p \in {q \in DOMAIN f : f[q].id \in DOMAIN k /\
           (f[q].id \notin DOMAIN d \/ d[f[q].id].generation # 1 \/ d[f[q].id].bytes # f[q].bytes
            \/ (d[f[q].id].outcome = "refused" /\ stale))}}
  BY <1>1 DEF Rows!Suite!ToDraw
<1>10. ASSUME NEW q \in DOMAIN f, f[q].id \in DOMAIN k,
              f[q].id \notin DOMAIN d \/ d[f[q].id].generation # 1 \/ d[f[q].id].bytes # f[q].bytes
              \/ (d[f[q].id].outcome = "refused" /\ stale)
       PROVE  f[q].id \in DOMAIN mediaTable /\ Rows!Undrawn(f[q].id, 1, stale)
  <2>1. PICK i \in DOMAIN filesTable : f[q].id = i /\ f[q].bytes = filesTable[i].blob
    BY <1>4
  <2> QED BY <1>6, <1>8, <1>10, <2>1
<1>11. ASSUME NEW i \in DOMAIN mediaTable, Rows!Undrawn(i, 1, stale) PROVE i \in Rows!Suite!ToDraw(1, stale)
  <2>1. PICK q \in DOMAIN f : f[q].id = i /\ f[q].bytes = filesTable[i].blob
    BY <1>5, <1>6
  <2>2. /\ f[q].id \in DOMAIN k
        /\ f[q].id \notin DOMAIN d \/ d[f[q].id].generation # 1 \/ d[f[q].id].bytes # f[q].bytes
           \/ (d[f[q].id].outcome = "refused" /\ stale)
    BY <1>6, <1>8, <1>11, <2>1
  <2> QED BY <1>9, <2>1, <2>2
<1> QED BY <1>3, <1>9, <1>10, <1>11


LEMMA CountIs == ASSUME NEW S PROVE Rows!Cardinality(S) = Cardinality(S)
BY Zenon DEF Rows!Cardinality, Cardinality

LEMMA LiveIsFinite == ASSUME RInv PROVE IsFiniteSet(Rows!Live)
<1>1. IsFiniteSet(1..lastId)
  BY FS_Interval DEF RInv
<1>2. Rows!Live \subseteq 1..lastId
  BY DEF RInv, Filed, Rows!Live
<1> QED BY <1>1, <1>2, FS_Subset

\* The counts of the counting query, as sets of files.
Seen(version)   == {i \in Rows!Live : i \in DOMAIN mediaTable /\ mediaTable[i].version >= version /\ mediaTable[i].etag = filesTable[i].etag}
ReadWell(version) == {i \in Seen(version) : Fine(i)}
Failed(version) == {i \in Seen(version) : ~Fine(i) /\ mediaTable[i].retry = 0}
Shown(state)    == {i \in Rows!Live : i \in DOMAIN mediaTable /\ mediaTable[i].thumb.state = state /\ mediaTable[i].thumb.generation = 1}

LEMMA CountsAre ==
  ASSUME RInv, NEW version
  PROVE  /\ Rows!MediaCounts(version).files = Rows!Cardinality(Rows!Live)
         /\ Rows!MediaCounts(version).indexed = Rows!Cardinality(ReadWell(version))
         /\ Rows!MediaCounts(version).failed = Rows!Cardinality(Failed(version))
         /\ Rows!MediaCounts(version).made = Rows!Cardinality(Shown("made"))
         /\ Rows!MediaCounts(version).refused = Rows!Cardinality(Shown("refused"))
<1>1. Rows!MediaCounts(version) = Rows!Counts(version, 1)
  BY OneDriver DEF RInv, Rows!MediaCounts, Rows!sqliteCounts, Rows!mysqlCounts, Rows!postgresCounts
<1>2. /\ Rows!Counts(version, 1).files = Rows!Cardinality(Rows!Live)
      /\ Rows!Counts(version, 1).indexed =
           Rows!Cardinality({i \in Rows!Live : Rows!Current(i, version) /\ mediaTable[i].error = ""})
      /\ Rows!Counts(version, 1).failed =
           Rows!Cardinality({i \in Rows!Live : Rows!Current(i, version) /\ mediaTable[i].error # "" /\ mediaTable[i].retry = Rows!NULL})
      /\ Rows!Counts(version, 1).made = Rows!Cardinality({i \in Rows!Live : Rows!Drawn(i, "made", 1)})
      /\ Rows!Counts(version, 1).refused = Rows!Cardinality({i \in Rows!Live : Rows!Drawn(i, "refused", 1)})
  BY DEF Rows!Counts, Rows!Count
<1>3. {i \in Rows!Live : Rows!Current(i, version) /\ mediaTable[i].error = ""} = ReadWell(version)
  BY DEF Rows!Current, Rows!Null, ReadWell, Seen, Fine
<1>4. {i \in Rows!Live : Rows!Current(i, version) /\ mediaTable[i].error # "" /\ mediaTable[i].retry = Rows!NULL} = Failed(version)
  BY DEF Rows!Current, Rows!Null, Rows!NULL, Failed, Seen, Fine
<1>5. \A state : {i \in Rows!Live : Rows!Drawn(i, state, 1)} = Shown(state)
  BY DEF Rows!Drawn, Rows!Null, Shown
<1> QED BY <1>1, <1>2, <1>3, <1>4, <1>5

\* A file is read, has failed, or waits, and is one of them.
LEMMA ThreeParts ==
  ASSUME RInv, NEW version \in Versions
  PROVE  Rows!Cardinality(Rows!Live) - Rows!Cardinality(ReadWell(version)) - Rows!Cardinality(Failed(version))
           = Rows!Cardinality(Rows!PendingMedia(version, 1))
<1>1. PICK L, A, B, P : L = Rows!Live /\ A = ReadWell(version) /\ B = Failed(version) /\ P = Rows!PendingMedia(version, 1)
  OBVIOUS
<1>2. P = {i \in L : Waits(i, version, 1)}
  BY <1>1, PendingIs
<1>3. \A i \in DOMAIN mediaTable : /\ mediaTable[i].retry \in {0, 1} /\ mediaTable[i].version \in Nat
                                   /\ mediaTable[i].retry = 1 => ~Fine(i)
  <2>1. \A i \in DOMAIN mediaTable : mediaTable[i] \in MediaRows
    BY TheSuiteKnows
  <2>2. \A i \in DOMAIN mediaTable : mediaTable[i].retry = 1 => ~Fine(i)
    BY TheSuiteKnows
  <2>3. \A i \in DOMAIN mediaTable : mediaTable[i].retry \in {0, 1} /\ mediaTable[i].version \in Nat
    <3>1. \A row \in MediaRows : row.retry \in {0, 1} /\ row.version \in {1}
      BY DEF MediaRows
    <3>2. \A row \in MediaRows : row.retry \in {0, 1} /\ row.version \in Nat
      BY <3>1
    <3> QED BY <2>1, <3>2
  <2> QED BY <2>2, <2>3
<1>4. version \in Nat
  BY RowsAssumption
<1>5. A \subseteq L /\ B \subseteq L /\ A \cap B = {}
  BY <1>1 DEF ReadWell, Failed, Seen
<1>6. P = L \ (A \cup B)
  <2>1. ASSUME NEW i \in L PROVE Waits(i, version, 1) <=> i \notin A /\ i \notin B
    <3>1. i \in Seen(version) <=> i \in DOMAIN mediaTable /\ mediaTable[i].version >= version /\ mediaTable[i].etag = filesTable[i].etag
      BY <1>1 DEF Seen
    <3>2. i \in A <=> i \in Seen(version) /\ Fine(i)
      BY <1>1 DEF ReadWell
    <3>3. i \in B <=> i \in Seen(version) /\ ~Fine(i) /\ mediaTable[i].retry = 0
      BY <1>1 DEF Failed
    <3>4. CASE i \notin Seen(version)
      BY <1>3, <1>4, <3>1, <3>2, <3>3, <3>4 DEF Waits
    <3>5. CASE i \in Seen(version)
      <4>1. Waits(i, version, 1) <=> mediaTable[i].retry = 1
        BY <1>3, <1>4, <3>1, <3>5 DEF Waits
      <4>2. mediaTable[i].retry = 1 <=> mediaTable[i].retry # 0
        BY <1>3, <3>1, <3>5
      <4>3. mediaTable[i].retry = 1 => ~Fine(i)
        BY <1>3, <3>1, <3>5
      <4> QED BY <3>2, <3>3, <3>5, <4>1, <4>2, <4>3
    <3> QED BY <3>4, <3>5
  <2> QED BY <1>2, <2>1
<1>7. IsFiniteSet(L)
  BY <1>1, LiveIsFinite
<1>8. IsFiniteSet(A) /\ IsFiniteSet(B)
  BY <1>5, <1>7, FS_Subset
<1>9. Cardinality(A \cup B) = Cardinality(A) + Cardinality(B) - Cardinality({})
  BY <1>5, <1>8, FS_Union
<1>10. Cardinality(L \ (A \cup B)) = Cardinality(L) - Cardinality(A \cup B)
  <2>1. L \cap (A \cup B) = A \cup B
    BY <1>5
  <2> QED BY <1>7, <2>1, FS_Difference
<1>11. Cardinality({}) = 0 /\ Cardinality(A) \in Nat /\ Cardinality(B) \in Nat /\ Cardinality(L) \in Nat
  BY <1>7, <1>8, FS_EmptySet, FS_CardinalityType
<1>12. PICK l, a, b, p, ab \in Int : l = Cardinality(L) /\ a = Cardinality(A) /\ b = Cardinality(B) /\ p = Cardinality(P) /\ ab = Cardinality(A \cup B)
  BY <1>6, <1>7, <1>9, <1>10, <1>11
<1>13. ab = a + b - 0 /\ p = l - ab
  BY <1>6, <1>9, <1>10, <1>11, <1>12
<1>14. l - a - b = p
  BY ONLY <1>13, l \in Int, a \in Int, b \in Int, p \in Int, ab \in Int
<1> QED BY <1>1, <1>12, <1>14, CountIs

\* No two files have one blob.
LEMMA BlobsCount == ASSUME RInv PROVE /\ {Rows!BlobKeys[i] : i \in Rows!Live} = Rows!Suite!Blobs
                                      /\ Rows!Cardinality(Rows!Suite!Blobs) = Rows!Cardinality(Rows!Live)
<1>1. PICK L, B, f : L = Rows!Live /\ B = Rows!Suite!Blobs /\ f = Rows!theTree
  OBVIOUS
<1>2. L = {i \in DOMAIN filesTable : ~filesTable[i].is_dir}
  BY <1>1 DEF Rows!Live
<1>3. B = {f[p].bytes : p \in {q \in DOMAIN f : ~f[q].dir}}
  BY <1>1 DEF Rows!Suite!Blobs
<1>4. \A q \in DOMAIN f : \E i \in DOMAIN filesTable :
         f[q].id = i /\ f[q].dir = filesTable[i].is_dir /\ f[q].bytes = filesTable[i].blob
  BY <1>1, TheSuiteSees
<1>5. \A i \in DOMAIN filesTable : \E q \in DOMAIN f :
         f[q].id = i /\ f[q].dir = filesTable[i].is_dir /\ f[q].bytes = filesTable[i].blob
  BY <1>1, TheSuiteSees
<1>6. B = {filesTable[i].blob : i \in L}
  <2>1. ASSUME NEW q \in DOMAIN f, ~f[q].dir PROVE \E i \in L : f[q].bytes = filesTable[i].blob
    BY <1>2, <1>4, <2>1
  <2>2. ASSUME NEW i \in L PROVE \E q \in DOMAIN f : ~f[q].dir /\ f[q].bytes = filesTable[i].blob
    BY <1>2, <1>5
  <2> QED BY <1>3, <2>1, <2>2
<1>7. {Rows!BlobKeys[i] : i \in L} = B
  BY <1>1, <1>6 DEF Rows!BlobKeys
<1>8. PICK g : g = [i \in L |-> filesTable[i].blob]
  OBVIOUS
<1>9. \A i, j \in L : g[i] = g[j] => i = j
  BY <1>2, <1>8 DEF RInv, Filed
<1>10. g \in [L -> B] /\ \A b \in B : \E i \in L : g[i] = b
  BY <1>6, <1>8
<1>11. g \in Bijection(L, B)
  <2>1. g \in Injection(L, B)
    BY <1>9, <1>10 DEF Injection, IsInjective
  <2>2. g \in Surjection(L, B)
    BY <1>10 DEF Surjection
  <2> QED BY <2>1, <2>2 DEF Bijection
<1>12. IsFiniteSet(L) /\ ExistsBijection(L, B)
  BY <1>1, <1>11, LiveIsFinite DEF ExistsBijection
<1>13. Cardinality(B) = Cardinality(L)
  BY <1>12, FS_Bijection
<1> QED BY <1>1, <1>7, <1>13, CountIs

LEMMA StatesAre ==
  ASSUME RInv
  PROVE  {i \in DOMAIN Rows!MediaStates(Rows!Live) : Rows!MediaStates(Rows!Live)[i].failed}
           = {i \in Rows!Live \cap DOMAIN Rows!theKnown : Rows!theKnown[i].outcome = "failed"}
<1>1. PICK s : s = Rows!MediaStates(Rows!Live)
  OBVIOUS
<1>2. Rows!MediaStates(Rows!Live) = Rows!sqliteStates(Rows!Live)
  BY OneDriver DEF RInv, Rows!MediaStates, Rows!sqliteStates, Rows!mysqlStates, Rows!postgresStates
<1>3. s = [i \in Rows!Live \cap DOMAIN mediaTable |-> Rows!State(i)]
  BY <1>1, <1>2 DEF Rows!sqliteStates
<1>4. \A i : Rows!State(i).failed = (~Fine(i) /\ mediaTable[i].retry = 0)
  BY DEF Rows!State, Rows!NULL, Fine
<1>5. DOMAIN s = Rows!Live \cap DOMAIN mediaTable /\ \A i \in DOMAIN s : s[i].failed = (~Fine(i) /\ mediaTable[i].retry = 0)
  BY <1>3, <1>4
<1>6. DOMAIN Rows!theKnown = DOMAIN mediaTable
      /\ \A i \in DOMAIN mediaTable : Rows!theKnown[i].outcome = "failed" <=> ~Fine(i) /\ mediaTable[i].retry = 0
  BY TheSuiteKnows
<1> QED BY <1>1, <1>5, <1>6

LEMMA PicturesAre ==
  ASSUME RInv, NEW state \in {"made", "refused"} PROVE Rows!Suite!Pictured(1, state) = Shown(state)
<1>1. PICK d : d = Rows!theDrawn
  OBVIOUS
<1>2. Rows!Suite!Pictured(1, state) = {i \in DOMAIN d : d[i].generation = 1 /\ d[i].outcome = state}
  BY <1>1 DEF Rows!Suite!Pictured
<1>3. /\ DOMAIN d = {i \in DOMAIN mediaTable : mediaTable[i].thumb.state # "untried"}
      /\ \A i \in DOMAIN d : d[i].generation = mediaTable[i].thumb.generation /\ d[i].outcome = mediaTable[i].thumb.state
  BY <1>1, TheSuiteDrew
<1> QED BY <1>2, <1>3, LiveIs DEF Shown

\* What the queries answer is what the suite says of the same files.
LEMMA TheQueuesAgree == ASSUME RInv PROVE QueuesAgree
<1>1. \A version \in Versions, at \in 0..1 : Rows!PendingMedia(version, at) = Rows!Suite!ToRead(version, at = 1)
  <2>1. ASSUME NEW version \in Versions, NEW at \in 0..1
        PROVE  Rows!PendingMedia(version, at) = Rows!Suite!ToRead(version, at = 1)
    <3>1. PICK l : l = {i \in Rows!Live : Waits(i, version, at)}
      OBVIOUS
    <3>2. Rows!PendingMedia(version, at) = l
      BY <3>1, PendingIs
    <3>3. Rows!Suite!ToRead(version, at = 1) = l
      BY <3>1, ToReadIs
    <3> QED BY <3>2, <3>3
  <2> QED BY <2>1
<1>2. \A stale \in BOOLEAN : Rows!PendingThumbs(1, stale) = Rows!Suite!ToDraw(1, stale)
  BY ThumbsAgree
<1>3. \A version \in Versions : Rows!Pending(Rows!MediaCounts(version)) = Rows!Cardinality(Rows!PendingMedia(version, 1))
  <2>1. ASSUME NEW version \in Versions
        PROVE  Rows!Pending(Rows!MediaCounts(version)) = Rows!Cardinality(Rows!PendingMedia(version, 1))
    <3>1. PICK l, a, b, c : /\ c = Rows!MediaCounts(version) /\ l = Rows!Cardinality(Rows!Live)
                            /\ a = Rows!Cardinality(ReadWell(version)) /\ b = Rows!Cardinality(Failed(version))
      OBVIOUS
    <3>2. c.files = l /\ c.indexed = a /\ c.failed = b
      BY <3>1, CountsAre
    <3>3. l - a - b = Rows!Cardinality(Rows!PendingMedia(version, 1))
      BY <3>1, ThreeParts
    <3>4. Rows!Pending(c) = c.files - c.indexed - c.failed
      BY DEF Rows!Pending
    <3> QED BY <3>1, <3>2, <3>3, <3>4
  <2> QED BY <2>1
<1>4. ASSUME NEW version \in Versions
      PROVE  /\ Rows!MediaCounts(version).indexed = Rows!Cardinality(Rows!Suite!Read(version, "ok"))
             /\ Rows!MediaCounts(version).failed = Rows!Cardinality(Rows!Suite!Read(version, "failed"))
  <2>1. Rows!Suite!Read(version, "ok") = ReadWell(version)
    BY VerdictsAre, TheSuiteKnows DEF ReadWell, Seen
  <2>2. Rows!Suite!Read(version, "failed") = Failed(version)
    BY VerdictsAre, TheSuiteKnows DEF Failed, Seen
  <2> QED BY <2>1, <2>2, CountsAre
<1>5. /\ Rows!MediaCounts(1).made = Rows!Cardinality(Rows!Suite!Pictured(1, "made"))
      /\ Rows!MediaCounts(1).refused = Rows!Cardinality(Rows!Suite!Pictured(1, "refused"))
  BY CountsAre, PicturesAre
<1>6. \A p \in TreePaths \cup {<<>>} : Rows!ListFiles(p) = Rows!Suite!Children(p)
  <2>1. \A p \in TreePaths \cup {<<>>} : p \in Seq(Nat)
    BY RowsAssumption, EmptySeq
  <2> QED BY <2>1, TheChildren DEF Rows!ListFiles
<1>7. \A i, j \in DOMAIN filesTable : filesTable[i].path = filesTable[j].path => i = j
  BY DEF RInv, Filed
<1> QED BY <1>1, <1>2, <1>3, <1>4, <1>5, <1>6, <1>7, StatesAre, BlobsCount DEF QueuesAgree, Rows!QueuesAgree

\* The queues, the counts and the listings of the three drivers, in every
\* reachable state (db/sqlite, mysql, postgres).
THEOREM TheQueuesAreTheSuites == Rows!Spec => []QueuesAgree
<1>1. RInv => QueuesAgree
  BY TheQueuesAgree
<1> QED BY <1>1, RowsInvariant, PTL
=============================================================================
