-------------------------- MODULE MCSnapshotStore --------------------------
(* Instances of SnapshotStore for TLC.                                      *)
EXTENDS SnapshotStore, TLC

CONSTANTS feature, main  \* identities of one check on two branches

\* No identity falls back to another branch.
MCOwnBranch == [i \in Ident |-> i]

\* branchFallbackEnabled: the feature branch falls back to the main branch.
MCFallback == [i \in Ident |-> main]

\* Bounds for each kind of deployment: on a replica set two branches of a check
\* share their images and one is accepted; on a standalone database, whose
\* documents appear one by one, one branch is accepted twice, with one image.
Bounds ==
  IF replicaSet THEN clock <= 1
  ELSE /\ \A p \in Request : loc[p].ident # feature
       /\ \E h \in Hash : \A s \in Snap : imghash[s] \in {h, DiffHash}

QuietBounded == Init /\ [][Next /\ Quiet /\ Bounds']_vars

Symmetry == Permutations(Request) \cup Permutations(Snap) \cup Permutations(Hash)
=============================================================================
