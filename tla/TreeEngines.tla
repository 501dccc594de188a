---------------------------- MODULE TreeEngines ----------------------------
(***************************************************************************)
(* The transactions of internal/files a statement at a time (Engines), for *)
(* MCComponents, which runs them beside the rest, and for FileTreeProofs,  *)
(* which is about them.                                                    *)
(***************************************************************************)
EXTENDS Integers, Sequences, FiniteSets

CONSTANTS Workers, MaxBegun

VARIABLES
  which,        \* the component a behaviour is of
  engine, rows, bin, blobs, tx, begun

Engines == INSTANCE Engines

evars == <<engine, rows, bin, blobs, tx, begun>>
-----------------------------------------------------------------------------
\* Transactions are serial on SQLite, and on the others no two wait for each
\* other as long as every row has its parent (Engines).
TransactionsHold == which = "engines" => Engines!TransactionsHold
=============================================================================
