----------------------------- MODULE MCTestRun -----------------------------
(* Instances of TestRun for TLC.                                            *)
EXTENDS TestRun, TLC

Symmetry == Permutations(Request) \cup Permutations(Test) \cup Permutations(Check)
=============================================================================
