-------------------------------- MODULE Sync --------------------------------
(***************************************************************************)
(* Calendars and their sync-collection reports (internal/calendar,         *)
(* internal/dav/caldavsync.go, db/*/calendars.go).  Address books are the  *)
(* same tables, tokens and reads (internal/contacts).                      *)
(*                                                                         *)
(* There is one calendar, which may be deleted and made again under its    *)
(* name, and its clients.  A write is a transaction: SQLite begins it with *)
(* the write lock (_txlock=immediate), PostgreSQL and MySQL take the lock  *)
(* with the statement that moves the calendar's counter, after what the    *)
(* transaction has read.  A client's sync is several reads outside any     *)
(* transaction.                                                            *)
(***************************************************************************)
EXTENDS Naturals, FiniteSets, FiniteSetsExt

CONSTANTS
  None,       \* no object, no tombstone, no condition
  Names,      \* object names
  Writers,    \* concurrent writing requests
  Clients,    \* clients that sync by token
  Serial,     \* SQLite: one write transaction at a time
  Overtaken,  \* pruning and remaking may happen between two reads of a sync
  Retention,  \* TombstoneRetention, in ticks
  MaxWrites,  \* bound: writes of objects
  MaxClock,   \* bound: ticks
  MaxId       \* bound: how often the calendar is made

ASSUME SyncAssumption ==
  /\ {Retention, MaxWrites, MaxClock, MaxId} \subseteq Nat
  /\ {Serial, Overtaken} \subseteq BOOLEAN
  /\ None \notin Nat \cup [ver : Nat, tok : Nat] \cup [tok : Nat, at : Nat]

VARIABLES
  cal,     \* table calendars: the row [id, token, pruned]; id 0 is no calendar
  made,    \* ids given out
  objects, \* table calendar_objects: name -> None or [ver, tok]
  tombs,   \* table calendar_tombstones: name -> None or [tok, at]
  tx,      \* what each writing transaction has read
  client,  \* each client: its token and mirror, and the sync it is in
  clock, writes

vars == <<cal, made, objects, tombs, tx, client, clock, writes>>
tables == <<cal, made, objects, tombs>>

Idle   == [op |-> "idle", name |-> None, cond |-> FALSE, seen |-> None, at |-> 0, id |-> 0]
Nothing == [n \in Names |-> None]
Fresh  == [pc |-> "idle", id |-> 0, since |-> 0, mirror |-> Nothing,
           to |-> [id |-> 0, token |-> 0], todo |-> {}, gone |-> {}, got |-> Nothing]

Stamp == 0..MaxWrites

TypeOK ==
  /\ cal \in [id : 0..MaxId, token : Stamp, pruned : Stamp]
  /\ \A n \in Names : objects[n] # None => objects[n] \in [ver : 1..MaxWrites, tok : Stamp]
  /\ \A n \in Names : tombs[n] # None => tombs[n] \in [tok : Stamp, at : 0..MaxClock]
  /\ \A w \in Writers : tx[w].op \in {"idle", "put", "delete"}
  /\ \A c \in Clients : client[c].pc \in {"idle", "calendar", "changes", "items"}
  /\ cal.pruned <= cal.token

Init ==
  /\ cal = [id |-> 1, token |-> 0, pruned |-> 0]
  /\ made = 1
  /\ objects = Nothing /\ tombs = Nothing
  /\ tx = [w \in Writers |-> Idle]
  /\ client = [c \in Clients |-> Fresh]
  /\ clock = 0 /\ writes = 0
-----------------------------------------------------------------------------
(* The writers.                                                            *)

Ver(o) == IF o = None THEN None ELSE o.ver

\* Mutant: transactions do not exclude each other.
BeginAnyhow(w) == tx[w].op = "idle"

\* Under SQLite's lock a transaction begins when no other is open.
Begin(w) ==
  /\ tx[w].op = "idle"
  /\ Serial => \A v \in Writers : tx[v].op = "idle"

\* Put: the calendar, the object that is there and, of a conditional one, the
\* check of it.
PutRead(w, n, cond) ==
  /\ Begin(w)
  /\ cal.id # 0
  /\ tx' = [tx EXCEPT ![w] = [op |-> "put", name |-> n, cond |-> cond,
                              seen |-> IF cond THEN Ver(objects[n]) ELSE None,
                              at |-> 0, id |-> cal.id]]
  /\ UNCHANGED <<tables, client, clock, writes>>

\* PutCalendarObject: the counter, the row, the tombstone.
PutWrite(w) ==
  LET n == tx[w].name
  IN /\ tx[w].op = "put"
     /\ writes < MaxWrites
     /\ cal.id = tx[w].id
     /\ cal' = [cal EXCEPT !.token = @ + 1]
     /\ objects' = [objects EXCEPT ![n] = [ver |-> writes + 1, tok |-> cal.token + 1]]
     /\ tombs' = [tombs EXCEPT ![n] = None]
     /\ writes' = writes + 1
     /\ tx' = [tx EXCEPT ![w] = Idle]
     /\ UNCHANGED <<made, client, clock>>

\* Delete reads the clock before it waits for anything.
DeleteRead(w, n) ==
  /\ Begin(w)
  /\ cal.id # 0
  /\ tx' = [tx EXCEPT ![w] = [op |-> "delete", name |-> n, cond |-> FALSE, seen |-> None,
                              at |-> clock, id |-> cal.id]]
  /\ UNCHANGED <<tables, client, clock, writes>>

\* DeleteCalendarObject: the row, the counter, the tombstone.
DeleteWrite(w) ==
  LET n == tx[w].name
  IN /\ tx[w].op = "delete"
     /\ writes < MaxWrites
     /\ cal.id = tx[w].id
     /\ objects[n] # None
     /\ cal' = [cal EXCEPT !.token = @ + 1]
     /\ objects' = [objects EXCEPT ![n] = None]
     /\ tombs' = [tombs EXCEPT ![n] = [tok |-> cal.token + 1, at |-> tx[w].at]]
     /\ writes' = writes + 1
     /\ tx' = [tx EXCEPT ![w] = Idle]
     /\ UNCHANGED <<made, client, clock>>

\* Not found, a UID conflict, a deadlock, or the client has gone.
Rollback(w) ==
  /\ tx[w].op # "idle"
  /\ tx' = [tx EXCEPT ![w] = Idle]
  /\ UNCHANGED <<tables, client, clock, writes>>

Old == {n \in Names : tombs[n] # None /\ tombs[n].at + Retention < clock}

\* PruneCalendarTombstones: the mark, and the deletions before it.
Prune ==
  /\ ~Serial \/ \A w \in Writers : tx[w].op = "idle"
  /\ Overtaken \/ \A c \in Clients : client[c].pc # "changes"
  /\ Old # {}
  /\ cal' = [cal EXCEPT !.pruned = Max({tombs[n].tok : n \in Old})]
  /\ tombs' = [n \in Names |-> IF n \in Old THEN None ELSE tombs[n]]
  /\ UNCHANGED <<made, objects, tx, client, clock, writes>>

\* The objects and the tombstones go by cascade.
DeleteCalendar ==
  /\ ~Serial \/ \A w \in Writers : tx[w].op = "idle"
  /\ Overtaken \/ \A c \in Clients : client[c].pc # "calendar"
  /\ cal.id # 0
  /\ cal' = [id |-> 0, token |-> 0, pruned |-> 0]
  /\ objects' = Nothing /\ tombs' = Nothing
  /\ UNCHANGED <<made, tx, client, clock, writes>>

\* An id is never given twice (AUTOINCREMENT).
Create ==
  /\ cal.id = 0
  /\ made < MaxId
  /\ made' = made + 1
  /\ cal' = [id |-> made + 1, token |-> 0, pruned |-> 0]
  /\ UNCHANGED <<objects, tombs, tx, client, clock, writes>>

Tick ==
  /\ clock < MaxClock
  /\ clock' = clock + 1
  /\ UNCHANGED <<tables, tx, client, writes>>
-----------------------------------------------------------------------------
(* sync-collection.  A client without a token has id 0.                    *)

\* A calendar that is gone, or a token it will not answer: the client forgets
\* its token and lists the calendar again.
Refused(c) == client' = [client EXCEPT ![c] = [Fresh EXCEPT !.mirror = client[c].mirror]]

\* serveSync reads the calendar and parses the token: it has to be this one's.
ServeSync(c) ==
  /\ client[c].pc = "idle"
  /\ IF cal.id # 0 /\ client[c].id \in {0, cal.id}
     THEN client' = [client EXCEPT ![c].pc = "calendar"]
     ELSE Refused(c)
  /\ UNCHANGED <<tables, tx, clock, writes>>

\* Mutant: a pruned deletion is taken for none.
AnswerableAlways(since) == since <= cal.token

\* Mutant: the first sync is no exception.
AnswerableMarked(since) == since <= cal.token /\ since >= cal.pruned

Answerable(since) == since <= cal.token /\ (since > 0 => since >= cal.pruned)

\* Changes reads the calendar again, by name.
ReadCalendar(c) ==
  /\ client[c].pc = "calendar"
  /\ IF cal.id # 0 /\ Answerable(client[c].since)
     THEN client' = [client EXCEPT ![c].pc = "changes", ![c].to = [id |-> cal.id, token |-> cal.token]]
     ELSE Refused(c)
  /\ UNCHANGED <<tables, tx, clock, writes>>

\* CalendarChanges of that id, one statement.
Changed(c) == {n \in Names : /\ client[c].to.id = cal.id
                             /\ objects[n] # None /\ objects[n].tok > client[c].since}
Removed(c) == {n \in Names : /\ client[c].to.id = cal.id
                             /\ tombs[n] # None /\ tombs[n].tok > client[c].since}

\* The token handed back is the highest of the calendar's and the changes'.
NewToken(c) ==
  Max({client[c].to.token} \cup {objects[n].tok : n \in Changed(c)} \cup {tombs[n].tok : n \in Removed(c)})

ReadChanges(c) ==
  /\ client[c].pc = "changes"
  /\ client' = [client EXCEPT
       ![c].pc = "items",
       ![c].todo = {[name |-> n, tok |-> objects[n].tok] : n \in Changed(c)},
       ![c].gone = IF client[c].since = 0 THEN {} ELSE Removed(c),
       ![c].to = [@ EXCEPT !.token = NewToken(c)]]
  /\ UNCHANGED <<tables, tx, clock, writes>>

\* writeSyncFeed reads each member, in the order of the tokens, as it is by
\* then; one that has gone is left to the next sync.
ReadItem(c, n) ==
  /\ client[c].pc = "items"
  /\ \E ch \in client[c].todo :
       /\ ch.name = n
       /\ \A other \in client[c].todo : ch.tok <= other.tok
       /\ client' = [client EXCEPT ![c].todo = @ \ {ch}, ![c].got[n] = Ver(objects[n])]
  /\ UNCHANGED <<tables, tx, clock, writes>>

\* The answer arrives.  A first sync says what there is, a later one what has
\* changed.
Answer(c) ==
  /\ client[c].pc = "items"
  /\ client[c].todo = {}
  /\ client' = [client EXCEPT ![c] =
       [Fresh EXCEPT
          !.id = client[c].to.id,
          !.since = client[c].to.token,
          !.mirror = [n \in Names |->
             IF client[c].id = 0 \/ client[c].got[n] # None THEN client[c].got[n]
             ELSE IF n \in client[c].gone THEN None ELSE client[c].mirror[n]]]]
  /\ UNCHANGED <<tables, tx, clock, writes>>

\* Or the request fails, or the answer is lost.
Lost(c) ==
  /\ client[c].pc # "idle"
  /\ client' = [client EXCEPT ![c] =
       [Fresh EXCEPT !.id = client[c].id, !.since = client[c].since, !.mirror = client[c].mirror]]
  /\ UNCHANGED <<tables, tx, clock, writes>>
-----------------------------------------------------------------------------
Report(c) == ServeSync(c) \/ ReadCalendar(c) \/ ReadChanges(c) \/ Answer(c) \/ \E n \in Names : ReadItem(c, n)

Next ==
  \/ \E w \in Writers :
       \/ \E n \in Names : \/ \E cond \in BOOLEAN : PutRead(w, n, cond)
                           \/ DeleteRead(w, n)
       \/ PutWrite(w) \/ DeleteWrite(w) \/ Rollback(w)
  \/ Prune \/ DeleteCalendar \/ Create \/ Tick
  \/ \E c \in Clients : Report(c) \/ Lost(c)

Spec == Init /\ [][Next]_vars

\* Clients keep syncing, and not every answer is lost.
Fairness ==
  \A c \in Clients :
    /\ SF_vars(ServeSync(c)) /\ SF_vars(ReadCalendar(c)) /\ SF_vars(ReadChanges(c))
    /\ SF_vars(Answer(c)) /\ \A n \in Names : SF_vars(ReadItem(c, n))

FairSpec == Spec /\ Fairness
-----------------------------------------------------------------------------
(* What sync promises.                                                     *)

\* What a client has is what the calendar has, or the next report says
\* otherwise, or refuses: a change below the client's token is one it has
\* seen (db/calendar.go:16, "what changed since token n" is the objects and
\* the tombstones above n).
NoChangeIsMissed ==
  \A c \in Clients : client[c].pc = "idle" /\ client[c].id = cal.id /\ cal.id # 0 =>
    \A n \in Names :
      LET since == client[c].since
          has   == client[c].mirror[n]
      IN \/ has = Ver(objects[n])
         \/ objects[n] # None /\ objects[n].tok > since
         \/ objects[n] = None /\ tombs[n] # None /\ tombs[n].tok > since /\ since > 0
         \/ ~Answerable(since)

\* "PrunedToken is the highest token whose tombstones have been forgotten"
\* (db/calendar.go:37): for one calendar it never falls back.
PrunedOnlyRises == [][cal'.id = cal.id => cal'.pruned >= cal.pruned]_vars

\* A conditional PUT replaces what its condition was checked against:
\* "stores cal under name ... if check agrees with what is there"
\* (calendar.go:224).
ConditionHoldsAtWrite ==
  [][\A w \in Writers : PutWrite(w) /\ tx[w].cond => tx[w].seen = Ver(objects[tx[w].name])]_vars

\* A client that keeps asking ends up with the calendar as it is.
ClientsCatchUp ==
  \A c \in Clients : <>[](cal.id # 0 => client[c].mirror = [n \in Names |-> Ver(objects[n])])
=============================================================================
