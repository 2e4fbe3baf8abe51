---------------------------- MODULE ImageLibrary ----------------------------
(***************************************************************************)
(* What the snapshot store promises to those who look at checks and        *)
(* baselines, with no documents, files, requests or tasks: an image that   *)
(* is shown can be seen, an image goes only when nothing shows it, and     *)
(* what has gone never comes back.  SnapshotStore and Retention are shown  *)
(* to implement this module.                                               *)
(***************************************************************************)
CONSTANT Image

VARIABLES
  kept,   \* images that can be seen
  lost,   \* images that could be seen once
  shown   \* images that a check or a baseline leads to

library == <<kept, lost, shown>>

LibraryTypeOK ==
  /\ kept \subseteq Image
  /\ lost \subseteq Image \ kept
  /\ shown \subseteq kept

LibraryInit ==
  /\ kept = {}
  /\ lost = {}
  /\ shown = {}

\* New images arrive, and more of those that are kept are shown.
Publish ==
  /\ kept \subseteq kept' /\ kept' \subseteq Image \ lost
  /\ shown \subseteq shown' /\ shown' \subseteq kept'
  /\ UNCHANGED lost

\* Less is shown, and images that nothing shows any more go.
Withdraw ==
  /\ kept' \subseteq kept
  /\ shown' \subseteq shown \cap kept'
  /\ lost' = lost \cup (kept \ kept')

LibraryNext == Publish \/ Withdraw

LibrarySpec == LibraryInit /\ [][LibraryNext]_library
=============================================================================
