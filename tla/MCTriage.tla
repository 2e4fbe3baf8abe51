------------------------------ MODULE MCTriage ------------------------------
(* Instances of Triage for TLC.                                             *)
EXTENDS Triage, TLC

MCVerdicts == {"noise", "uncertain"}
MCSeverity == [v \in MCVerdicts |-> IF v = "noise" THEN 1 ELSE 3]

Symmetry == Permutations(Checks) \cup Permutations(Instances)
=============================================================================
