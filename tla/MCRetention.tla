---------------------------- MODULE MCRetention ----------------------------
(* Instances of Retention for TLC.                                          *)
EXTENDS Retention, TLC

CONSTANTS main

MCOwnBranch == [i \in Ident |-> i]

Symmetry == Permutations(Snap) \cup Permutations(Hash)
=============================================================================
