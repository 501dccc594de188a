------------------------------ MODULE Incoming ------------------------------
(***************************************************************************)
(* The import folder (internal/incoming): a pass walks a directory that    *)
(* other programs write into, and moves into the library what measured the *)
(* same on the pass before.  A file is written to the library first and    *)
(* removed from the directory afterwards; the process may stop anywhere.   *)
(*                                                                         *)
(* A file is an id and the size it will have; the path it is filed under   *)
(* is its name and, where that is taken, the number FreeName gives it.     *)
(***************************************************************************)
EXTENDS Integers, Sequences, FiniteSetsExt

CONSTANTS
  Arrivals,     \* sequence of [name, total]: the files that arrive, in this order
  Ignored,      \* names that are hidden or no regular file
  Unstorable,   \* names ValidatePath refuses
  SlowWriters,  \* a writer may pause for a whole interval, or come back to its file
  MaxFaults     \* errors and restarts

VARIABLES
  disk,         \* name -> [id, size, open, seen], for the files in the directory
  arrived,      \* how many have arrived
  sizes,        \* what each file measured on the last pass
  walk,         \* the pass under way, and the names it has still to come to
  library,      \* <<name, copy>> -> [id, size]
  misses        \* faults so far

incomingVars == <<disk, arrived, sizes, walk, library, misses>>

NoWalk == [at |-> "idle", left |-> {}, name |-> 0, size |-> 0, copy |-> 0, after |-> <<>>]

Total(id) == Arrivals[id].total

\* The function f, and v at n.
With(f, n, v) == [m \in DOMAIN f \cup {n} |-> IF m = n THEN v ELSE f[m]]

Init ==
  /\ disk = <<>> /\ arrived = 0 /\ sizes = <<>>
  /\ walk = NoWalk /\ library = <<>> /\ misses = 0
-----------------------------------------------------------------------------
(* The writers.                                                            *)

Arrive ==
  /\ arrived < Len(Arrivals) /\ Arrivals[arrived + 1].name \notin DOMAIN disk
  /\ arrived' = arrived + 1
  /\ disk' = With(disk, Arrivals[arrived'].name, [id |-> arrived', size |-> 0, open |-> TRUE, seen |-> FALSE])
  /\ UNCHANGED <<sizes, walk, library, misses>>

Grow(n) ==
  /\ disk[n].open /\ disk[n].size < Total(disk[n].id)
  /\ disk' = [disk EXCEPT ![n].size = @ + 1, ![n].seen = FALSE]
  /\ UNCHANGED <<arrived, sizes, walk, library, misses>>

CloseFile(n) ==
  /\ disk[n].open /\ disk[n].size = Total(disk[n].id)
  /\ disk' = [disk EXCEPT ![n].open = FALSE]
  /\ UNCHANGED <<arrived, sizes, walk, library, misses>>
-----------------------------------------------------------------------------
(* A pass.                                                                 *)

Fault == misses < MaxFaults /\ misses' = misses + 1
NoFault == UNCHANGED misses

\* WalkDir goes through the directory in the order of the names.
This == Min(walk.left)

\* The next file of the walk, which remembers what it has measured.
GoOn(measured) ==
  walk' = [walk EXCEPT !.at = "walk", !.left = @ \ {This}, !.after = measured]

\* WalkDir reads the directory.
Begin ==
  /\ walk.at = "idle"
  /\ walk' = [NoWalk EXCEPT !.at = "walk", !.left = DOMAIN disk]
  /\ UNCHANGED <<disk, arrived, sizes, library, misses>>

\* Mutant: a file seen before is finished, whatever it measured.
FinishedWhenSeen(n) == n \in DOMAIN sizes

\* Two passes in a row agree about the size.
Finished(n) == n \in DOMAIN sizes /\ sizes[n] = disk[n].size

\* Passed over or unreadable.
PassOver ==
  /\ walk.at = "walk" /\ walk.left # {}
  /\ \/ This \in Ignored /\ NoFault
     \/ Fault
  /\ GoOn(walk.after)
  /\ UNCHANGED <<disk, arrived, sizes, library>>

\* Remembered, or imported.  Writers that are not slow have gone on since they
\* were seen last.
Visit ==
  LET n == This
  IN /\ walk.at = "walk" /\ walk.left # {} /\ n \notin Ignored
     /\ SlowWriters \/ ~(disk[n].open /\ disk[n].seen)
     /\ disk' = [disk EXCEPT ![n].seen = TRUE]
     /\ IF ~Finished(n) THEN GoOn(With(walk.after, n, disk[n].size))
        ELSE walk' = [walk EXCEPT !.at = "name", !.name = n, !.size = disk[n].size]
     /\ UNCHANGED <<arrived, sizes, library, misses>>

\* Kept at its size: the next pass tries again.
Failed == GoOn(With(walk.after, walk.name, walk.size))

\* ValidatePath, MkdirAll and FreeName.
FreeName ==
  /\ walk.at = "name"
  /\ \/ /\ walk.name \notin Unstorable
        /\ walk' = [walk EXCEPT !.at = "write", !.copy = Min({k \in 0..Len(Arrivals) + MaxFaults :
                                                                <<walk.name, k>> \notin DOMAIN library})]
        /\ NoFault
     \/ walk.name \in Unstorable /\ Failed /\ NoFault
     \/ Fault /\ Failed
  /\ UNCHANGED <<disk, arrived, sizes, library>>

\* ExactReader: a body longer or shorter than it measured is refused.
ReadsItsSize(n) == disk[n].size = walk.size

Write ==
  LET n == walk.name
  IN /\ walk.at = "write"
     /\ \/ /\ ReadsItsSize(n) /\ NoFault
           /\ library' = With(library, <<n, walk.copy>>, [id |-> disk[n].id, size |-> disk[n].size])
           /\ walk' = [walk EXCEPT !.at = "remove"]
        \/ ~ReadsItsSize(n) /\ Failed /\ NoFault /\ UNCHANGED library
        \/ Fault /\ Failed /\ UNCHANGED library
     /\ UNCHANGED <<disk, arrived, sizes>>

RemoveFile ==
  LET n == walk.name
  IN /\ walk.at = "remove"
     /\ \/ disk' = [m \in DOMAIN disk \ {n} |-> disk[m]] /\ GoOn(walk.after) /\ NoFault
        \/ UNCHANGED disk /\ Fault /\ Failed
     /\ UNCHANGED <<arrived, sizes, library>>

\* record
End ==
  /\ walk.at = "walk" /\ walk.left = {}
  /\ sizes' = walk.after
  /\ walk' = NoWalk
  /\ UNCHANGED <<disk, arrived, library, misses>>

\* A cancelled pass records what it had; a process that stops, nothing.
Cancel ==
  /\ walk.at \in {"walk", "name", "write"} /\ Fault
  /\ sizes' = walk.after /\ walk' = NoWalk
  /\ UNCHANGED <<disk, arrived, library>>

Restart ==
  /\ Fault
  /\ sizes' = <<>> /\ walk' = NoWalk
  /\ UNCHANGED <<disk, arrived, library>>

Next ==
  \/ Arrive \/ Begin \/ PassOver \/ Visit \/ FreeName \/ Write \/ RemoveFile \/ End \/ Cancel \/ Restart
  \/ \E n \in DOMAIN disk : Grow(n) \/ CloseFile(n)

Spec == Init /\ [][Next]_incomingVars
-----------------------------------------------------------------------------
\* "a file deleted before the write committed would be a file nobody has": what
\* arrived is in the directory or, every byte of it, in the library, however
\* the pass and its writers interleave and wherever the process stops.
NothingIsLost ==
  \A id \in 1..arrived :
    \/ \E n \in DOMAIN disk : disk[n].id = id
    \/ \E p \in DOMAIN library : library[p] = [id |-> id, size |-> Total(id)]

\* A second copy is the price of a removal that failed or a stop before it,
\* and of nothing else (importFile's comment).
CopiesHaveAReason ==
  Cardinality(DOMAIN library) <= Cardinality({library[p].id : p \in DOMAIN library}) + misses

\* The library holds no file that was still being written.
OnlyWholeFiles == \A p \in DOMAIN library : library[p].size = Total(library[p].id)
=============================================================================
