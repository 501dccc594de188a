---------------------------- MODULE MCFileBlobs ----------------------------
(* Instances of FileBlobs for TLC. *)
EXTENDS FileBlobs, TLC

\* Keys, requests, paths and deletions are interchangeable; a foreign key is
\* only interchangeable with another one.
Symmetry == Permutations(Paths) \cup Permutations(Keys \ Foreign)
            \cup Permutations(Procs) \cup Permutations(Batches)
=============================================================================
