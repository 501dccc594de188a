------------------------------ MODULE Outside ------------------------------
(***************************************************************************)
(* What comes from outside: the library of a Nextcloud server (Nextcloud), *)
(* the files that other programs leave in the import folder (Incoming) and *)
(* what other services say of the music (Lookups).  MCServices runs the    *)
(* three beside the rest, and DatabaseProofs is about them.                *)
(***************************************************************************)
EXTENDS Integers, Sequences, FiniteSets

CONSTANTS
  Recordings, Spellings, FileIds, MayHold, AlbumBatch, LyricsBatch, MaxClock, \* Lookups
  Cache, Storages, Workers, BatchSize, UserPaths, Commands, MaxFaults, MaxMeddles, MaxRuns,  \* Nextcloud
  Arrivals, Ignored, Unstorable, SlowWriters                         \* Incoming

VARIABLES
  stored, indexed, art, albumRow, lyricsRow, clock, pass, viewer, heard, \* Lookups
  command, phase, holds, rows, claimed, at, report, batch, hashed, counts, objects, tree,  \* Nextcloud
  interrupted, faults, meddles, runs, present, removed, mine,
  disk, arrived, sizes, walk, library, misses                        \* Incoming

Lookups   == INSTANCE Lookups
Nextcloud == INSTANCE Nextcloud WITH bucket <- objects
Incoming  == INSTANCE Incoming

lvars == <<stored, indexed, art, albumRow, lyricsRow, clock, pass, viewer, heard>>
nvars == <<command, phase, holds, rows, claimed, at, report, batch, hashed, counts, objects, tree,
           interrupted, faults, meddles, runs, present, removed, mine>>
ivars == <<disk, arrived, sizes, walk, library, misses>>

\* Recordings and files are numbered from 1, an album is a number above None
\* or none, and there is an hour to begin in.
ASSUME MusicAssumption ==
  /\ IsFiniteSet(FileIds) /\ FileIds \subseteq Nat \ {0}
  /\ Len(Recordings) \in Nat \ {0} /\ DOMAIN Recordings = 1..Len(Recordings)
  /\ \A r \in DOMAIN Recordings : Recordings[r].album \in Nat
  /\ \A id \in FileIds : MayHold[id] \subseteq DOMAIN Recordings
  /\ AlbumBatch \in Nat \ {0} /\ LyricsBatch \in Nat \ {0} /\ MaxClock \in Nat \ {0}

\* fileid is the primary key of filecache; a path is the names in it, and what
\* is adopted as a file has one; every part of a batch has a row.
ASSUME CloudAssumption ==
  /\ Len(Cache) \in Nat /\ DOMAIN Cache = 1..Len(Cache)
  /\ \A n \in DOMAIN Cache : Cache[n].id \in Nat /\ Cache[n].rest \in Seq(STRING)
  /\ \A m, n \in DOMAIN Cache : Cache[m].id = Cache[n].id => m = n
  /\ \A c \in Commands : c.into \in Seq(STRING)
  /\ \A p \in UserPaths : p \in Seq(STRING)
  /\ IsFiniteSet(Workers) /\ BatchSize \in Nat \ {0}

\* The order of names is that of numbers; a size is a number.
ASSUME FolderAssumption ==
  /\ Len(Arrivals) \in Nat /\ DOMAIN Arrivals = 1..Len(Arrivals)
  /\ \A n \in DOMAIN Arrivals : Arrivals[n].name \in Nat /\ Arrivals[n].total \in Nat
  /\ MaxFaults \in Nat
-----------------------------------------------------------------------------
\* Nothing falls out of the queue, a named cover is kept, and no source is
\* asked before its time (Lookups).
LookupsKeepTheirPlace == Lookups!NothingFallsOut /\ Lookups!NamedCoversAreKept /\ Lookups!NobodyIsPestered

\* The survey counts every object once; a finished import, repeated or not,
\* has every row where it belongs and replaced nothing; and none lacks the
\* validator that was asked for (Nextcloud).  What arrives in the import folder
\* is there or in the library, whole, and twice only after a fault (Incoming).
ImportsAreWhole ==
  /\ Nextcloud!SurveyIsComplete /\ Nextcloud!ImportIsWhole /\ Nextcloud!ValidatorsAreWhole
  /\ Incoming!NothingIsLost /\ Incoming!CopiesHaveAReason /\ Incoming!OnlyWholeFiles

\* The words kept for the bytes a file holds were found by the tags in them
\* (Lookups).
WordsAreOfTheirBytes == Lookups!WordsAreOfTheirBytes

\* An album that was identified stays so (Lookups).
IdentityIsKept == Lookups!IdentityIsKept
=============================================================================
