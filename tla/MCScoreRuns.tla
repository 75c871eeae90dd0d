---------------------------- MODULE MCScoreRuns ----------------------------
(***************************************************************************)
(* Small instances of ScoreRuns for TLC.                                   *)
(***************************************************************************)
EXTENDS ScoreRuns

\* One chunk in each table, and the smallest plan in which a table has two.
FourChunks == <<"universe", "scores", "parts", "details">>
TwoChunks == <<"scores", "details">>

============================================================================
