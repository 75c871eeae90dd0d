----------------------------- MODULE MCArchive -----------------------------
(***************************************************************************)
(* Small instances of Archive for TLC.                                     *)
(***************************************************************************)
EXTENDS Archive, TLC

\* The two tables a foreign key joins: what a deletion from one does to the other.
TwoChunks == <<"scores", "parts">>

============================================================================
