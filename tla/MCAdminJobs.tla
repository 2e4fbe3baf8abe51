----------------------------- MODULE MCAdminJobs -----------------------------
(* Instances of AdminJobs for TLC.                                          *)
EXTENDS AdminJobs, TLC

Symmetry == Permutations(Job) \cup Permutations(Admin)
=============================================================================
