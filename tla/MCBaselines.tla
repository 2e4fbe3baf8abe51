---------------------------- MODULE MCBaselines ----------------------------
(* Instances of Baselines for TLC.                                          *)
EXTENDS Baselines, TLC

CONSTANTS feature, main, f1, f2, m1

\* Two checks of the feature branch, one of the main branch.
MCOwnBranch == [s \in Snap |-> IF s = m1 THEN main ELSE feature]

Symmetry == Permutations(Request) \cup Permutations({f1, f2})
=============================================================================
