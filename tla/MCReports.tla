----------------------------- MODULE MCReports -----------------------------
(***************************************************************************)
(* A small instance of Reports for TLC.                                    *)
(***************************************************************************)
EXTENDS Reports, TLC

\* Companies are interchangeable.
Symmetry == Permutations(Corps)

============================================================================
