-------------------------- MODULE MCDisclosureSync --------------------------
(***************************************************************************)
(* Small instances of DisclosureSync for TLC.                              *)
(***************************************************************************)
EXTENDS DisclosureSync, TLC

CONSTANTS r1, r2, a

Symmetry == Permutations(Runs)

=============================================================================
