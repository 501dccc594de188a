------------------------------- MODULE Store -------------------------------
(***************************************************************************)
(* What the blob port promises, as the suite both backends pass states it  *)
(* (internal/storage/storagetest).  An object is all of its bytes or is    *)
(* not there, and is written and deleted by who was asked to and by nobody *)
(* else; an upload accepts the bytes that follow the ones it has, and is   *)
(* nothing to a reader until it is completed.  DiskStore and S3Store       *)
(* implement this module.                                                  *)
(*                                                                         *)
(* Whoever uploads has one file, and its byte number n is n.               *)
(***************************************************************************)
EXTENDS Integers, Sequences, FiniteSets

CONSTANTS Keys, Bodies

VARIABLES
  objects,      \* key -> bytes, for the objects there are
  staged,       \* upload -> the bytes accepted, for the uploads there are
  calls,        \* <<caller, call>>, for the calls that have not taken effect
  expired       \* uploads so old that a store which is opened may drop them

\* A call takes effect once, between the request and its answer; one that
\* fails has no effect.
TakesEffect(call) == \E c \in calls : c[2] = call /\ c \notin calls'

PutOf(k, body)    == [op |-> "put", key |-> k, body |-> body]
DeleteOf(k)       == [op |-> "delete", key |-> k]
CompleteOf(u, k)  == [op |-> "complete", upload |-> u, key |-> k]
AbortOf(u)        == [op |-> "abort", upload |-> u]

Put(k, body) ==
  /\ TakesEffect(PutOf(k, body))
  /\ objects' = [x \in DOMAIN objects \cup {k} |-> IF x = k THEN body ELSE objects[x]]
  /\ UNCHANGED staged

Delete(k) ==
  /\ TakesEffect(DeleteOf(k))
  /\ objects' = [x \in DOMAIN objects \ {k} |-> objects[x]]
  /\ UNCHANGED staged

StartUpload(u) ==
  /\ staged' = [x \in DOMAIN staged \cup {u} |-> IF x = u THEN <<>> ELSE staged[x]]
  /\ UNCHANGED objects

\* Some of the file's next bytes, in order and none twice.
AppendUpload(u) ==
  /\ LET had == Len(staged[u])
     IN /\ DOMAIN staged' = DOMAIN staged
        /\ Len(staged'[u]) > had
        /\ staged' = [staged EXCEPT ![u] = @ \o [n \in 1..(Len(staged'[u]) - had) |-> had + n]]
  /\ UNCHANGED objects

CompleteUpload(u, k) ==
  /\ TakesEffect(CompleteOf(u, k))
  /\ objects' = [x \in DOMAIN objects \cup {k} |-> IF x = k THEN staged[u] ELSE objects[x]]
  /\ staged' = [x \in DOMAIN staged \ {u} |-> staged[x]]

Dropped(us) ==
  /\ staged' = [x \in DOMAIN staged \ us |-> staged[x]]
  /\ UNCHANGED objects

AbortUpload(u) == TakesEffect(AbortOf(u)) /\ Dropped({u})

\* A store that is opened drops what it finds old.
Open(us) == us \subseteq expired /\ Dropped(us)

Next ==
  \/ \E k \in Keys : Delete(k) \/ \E body \in Bodies : Put(k, body)
  \/ \E u \in DOMAIN staged' : u \notin DOMAIN staged /\ StartUpload(u)
  \/ \E us \in SUBSET DOMAIN staged : Open(us)
  \/ \E u \in DOMAIN staged : AppendUpload(u) \/ AbortUpload(u) \/ \E k \in Keys : CompleteUpload(u, k)
-----------------------------------------------------------------------------
(* Reads.                                                                  *)

\* The part of an object a range selects, by the place of each byte.
Part(bytes, r) ==
  LET Selected(i) ==
        IF r.suffix THEN i > Len(bytes) - r.n ELSE i > r.off /\ (r.hasLen => i <= r.off + r.n)
      places == {i \in 1..Len(bytes) : Selected(i)}
      before == {i \in 1..Len(bytes) : \A p \in places : i < p}
  IN [i \in 1..Cardinality(places) |-> bytes[i + Cardinality(before)]]

\* The end is a place to read nothing from; past it, before the start and an
\* empty suffix are not ranges.
Refused(bytes, r) ==
  IF r.suffix THEN r.n <= 0 ELSE r.off \notin 0..Len(bytes) \/ (r.hasLen /\ r.n < 0)

\* A listing takes a prefix of the characters, not of the folders.
Listed(keys, prefix) == {k \in keys : Len(k) >= Len(prefix) /\ SubSeq(k, 1, Len(prefix)) = prefix}
=============================================================================
