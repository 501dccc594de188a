----------------------------- MODULE Migrations -----------------------------
(***************************************************************************)
(* The schema (db/migrate.go, and the drivers' LockMigrations): instances  *)
(* of one build or of several start over one database, and each brings it  *)
(* to the version it knows.  The lock is held on a connection of its own;  *)
(* the statements go out on others.                                        *)
(*                                                                         *)
(* A migration is a sequence of statements: "ddl" cannot be repeated,      *)
(* "dml" can.  On MySQL a "ddl" commits the transaction it is in, and what *)
(* follows it commits by itself.                                           *)
(***************************************************************************)
EXTENDS Integers, Sequences, FiniteSetsExt

CONSTANTS
  Servers,      \* instances
  Builds,       \* instance -> the last version its build knows
  Scripts,      \* version -> its statements
  MaxStops      \* failing statements, cuts and stops of the process

VARIABLES
  base,         \* the engine
  schema,       \* <<version, statement>> in effect
  versions,     \* rows of schema_migrations
  migrator,     \* who holds the lock, as a set
  server,       \* instance -> where it is
  stops,
  cut           \* a run has lost its lock and gone on

migrationVars == <<base, schema, versions, migrator, server, stops, cut>>

Off == [at |-> "off", version |-> 0, step |-> 0, tx |-> {}, auto |-> FALSE]

Init ==
  /\ base \in {"sqlite", "mysql", "postgres"}
  /\ schema = {} /\ versions = {} /\ migrator = {}
  /\ server = [s \in Servers |-> Off]
  /\ stops = 0 /\ cut = FALSE
-----------------------------------------------------------------------------
Go(s, at) == server' = [server EXCEPT ![s] = [Off EXCEPT !.at = at]]
Script(v) == {<<v, k>> : k \in DOMAIN Scripts[v]}
Latest == Max(versions \cup {0})
Stop == stops < MaxStops /\ stops' = stops + 1

\* The release, on every way out: a rollback, RELEASE_LOCK, or the end of the
\* session.
Release(s) == migrator' = migrator \ {s}

\* A SQLite database has one process (#192).
Start(s) ==
  /\ server[s].at = "off"
  /\ base = "sqlite" => \A other \in Servers : server[other].at \in {"off", "failed", "refused"}
  /\ Go(s, IF base = "sqlite" THEN "read" ELSE "lock")
  /\ UNCHANGED <<base, schema, versions, migrator, stops, cut>>

\* Mutant: the lock is no lock.
LockAlways(s) == TRUE

LockIsFree(s) == migrator = {}

LockMigrations(s) ==
  /\ server[s].at = "lock" /\ LockIsFree(s)
  /\ migrator' = {s}
  /\ Go(s, "read")
  /\ UNCHANGED <<base, schema, versions, stops, cut>>

\* GET_LOCK gives up after migrationLockWait.
LockTimesOut(s) ==
  /\ base = "mysql" /\ server[s].at = "lock" /\ migrator # {} /\ Stop
  /\ Go(s, "failed")
  /\ UNCHANGED <<base, schema, versions, migrator, cut>>

\* The version there is; a newer one than this build knows is refused.
ReadVersion(s) ==
  /\ server[s].at = "read"
  /\ IF Latest > Builds[s] THEN Go(s, "refused") /\ Release(s)
     ELSE IF Latest = Builds[s] THEN Go(s, "up") /\ Release(s)
     ELSE /\ server' = [server EXCEPT ![s] = [Off EXCEPT !.at = "apply", !.version = Latest + 1, !.step = 1]]
          /\ UNCHANGED migrator
  /\ UNCHANGED <<base, schema, versions, stops, cut>>

\* What is written by a transaction of another is waited for.
Held(s, write) == \E other \in Servers \ {s} : write \in server[other].tx

\* One statement of the migration, the row that records it after the last.
\* A failure rolls back what has not been committed.
Exec(s) ==
  LET me == server[s]
      write == <<me.version, me.step>>
      ddl == me.step \in DOMAIN Scripts[me.version] /\ Scripts[me.version][me.step] = "ddl"
      record == me.step > Len(Scripts[me.version])
      auto == base = "mysql" /\ (me.auto \/ ddl)
      done == IF auto THEN me.tx \cup {write} ELSE {}
  IN /\ me.at = "apply" /\ ~Held(s, write)
     /\ IF (ddl /\ write \in schema) \/ (record /\ me.version \in versions)
        THEN Go(s, "failed") /\ Release(s) /\ UNCHANGED <<schema, versions>>
        ELSE /\ schema' = schema \cup (done \ {<<v, Len(Scripts[v]) + 1>> : v \in DOMAIN Scripts})
             /\ versions' = IF record /\ auto THEN versions \cup {me.version} ELSE versions
             /\ server' = [server EXCEPT ![s].tx = IF auto THEN {} ELSE @ \cup {write}, ![s].auto = auto,
                                         ![s].step = @ + 1, ![s].at = IF record THEN "commit" ELSE @]
             /\ UNCHANGED migrator
     /\ UNCHANGED <<base, stops, cut>>

Commit(s) ==
  LET me == server[s]
  IN /\ me.at = "commit"
     /\ schema' = schema \cup (me.tx \cap Script(me.version))
     /\ versions' = versions \cup {me.version}
     /\ IF me.version = Builds[s] THEN Go(s, "up") /\ Release(s)
        ELSE /\ server' = [server EXCEPT ![s] = [Off EXCEPT !.at = "apply", !.version = me.version + 1, !.step = 1]]
             /\ UNCHANGED migrator
     /\ UNCHANGED <<base, stops, cut>>

\* A statement fails, or the context ends.
Fail(s) ==
  /\ server[s].at \in {"read", "apply", "commit"} /\ Stop
  /\ Go(s, "failed") /\ Release(s)
  /\ UNCHANGED <<base, schema, versions, cut>>

\* The process ends, or is started again after it failed.
Exit(s) ==
  /\ server[s].at # "off" /\ Stop
  /\ Go(s, "off") /\ Release(s)
  /\ UNCHANGED <<base, schema, versions, cut>>

\* The engine frees the lock of a connection that is gone; the run goes on.
CutLock(s) ==
  /\ s \in migrator /\ Stop
  /\ Release(s) /\ cut' = TRUE
  /\ UNCHANGED <<base, schema, versions, server>>

Next ==
  \E s \in Servers :
    \/ Start(s) \/ LockMigrations(s) \/ LockTimesOut(s) \/ ReadVersion(s)
    \/ Exec(s) \/ Commit(s) \/ Fail(s) \/ Exit(s) \/ CutLock(s)

Spec == Init /\ [][Next]_migrationVars
-----------------------------------------------------------------------------
Recorded == UNION {Script(v) : v \in versions}

\* What a version says has been applied is in effect, versions have no gaps,
\* and nothing else is in effect: on MySQL, nothing but of the next version.
VersionMeansSchema ==
  /\ versions = 1..Latest
  /\ Recorded \subseteq schema
  /\ schema \subseteq Recorded \cup (IF base = "mysql" /\ Latest < Len(Scripts) THEN Script(Latest + 1) ELSE {})

\* "two instances started together both come up" (dbtest/migratelock.go:23):
\* nobody fails because of another.
NobodyFailsForAnother == stops = 0 => \A s \in Servers : server[s].at # "failed"

\* A build that comes up finds no schema newer than its own (migrate.go:77).
\* On MySQL the row that records a migration may be there before its run has
\* ended, and a run that lost its lock does not keep the next from going on.
NobodyStartsOnTheFuture ==
  [][\A s \in Servers :
       /\ server'[s].at = "up" /\ server[s].at # "up"
       /\ ~(base = "mysql" /\ cut)
       => Max(versions' \cup {0}) = Builds[s]]_migrationVars

\* The same of every engine and every run.
NeverOnTheFuture ==
  [][\A s \in Servers : server'[s].at = "up" /\ server[s].at # "up" => Max(versions' \cup {0}) = Builds[s]]_migrationVars

\* "A migration that fails leaves the database at the last version that worked"
\* (migrate.go:48), so that the next start tries it again.
FailureLeavesTheLastVersion == (\A s \in Servers : server[s].at \notin {"apply", "commit"}) => schema = Recorded
=============================================================================
