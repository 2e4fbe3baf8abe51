----------------------------- MODULE LeaseQueue -----------------------------
(***************************************************************************)
(* What the triage queue promises, with no clock, claims or documents:     *)
(* checks wait for a verdict, server instances own the ones they work on,  *)
(* and a check is owned by at most one of them unless somebody asked to     *)
(* analyse it again, or its owner took longer than its lease.  Triage is    *)
(* shown to implement this module.                                         *)
(***************************************************************************)
CONSTANTS Checks, Instances

VARIABLES
  waiting,   \* checks without a verdict that need one
  owners,    \* the instances that work on each check
  reissued   \* checks that more than one may own: somebody asked to analyse them
             \* again, recompared them, or a lease ran out under its owner

queue == <<waiting, owners, reissued>>

QueueTypeOK ==
  /\ waiting \subseteq Checks
  /\ owners \in [Checks -> SUBSET Instances]
  /\ reissued \subseteq Checks

QueueInit ==
  /\ waiting = {}
  /\ owners = [c \in Checks |-> {}]
  /\ reissued = {}

\* A check starts or stops to need a verdict, whoever works on it.
Wait(c)  == waiting' = waiting \cup {c} /\ UNCHANGED <<owners, reissued>>
Leave(c) == waiting' = waiting \ {c} /\ UNCHANGED <<owners, reissued>>

\* A user asks for another analysis.
Reissue(c) ==
  /\ reissued' = reissued \cup {c}
  /\ waiting' \in {waiting \cup {c}, waiting \ {c}, waiting}
  /\ UNCHANGED owners

\* Leases run out while their owners are still at work.
RunOut(C) ==
  /\ \A c \in C : owners[c] # {}
  /\ reissued' = reissued \cup C
  /\ UNCHANGED <<waiting, owners>>

\* Nobody else owns what an instance takes, unless it was reissued.
Own(i, c) ==
  /\ c \in waiting
  /\ owners[c] = {} \/ c \in reissued
  /\ owners' = [owners EXCEPT ![c] = @ \cup {i}]
  /\ UNCHANGED <<waiting, reissued>>

\* An owner ends its work: with a verdict, or by putting the check back.
Settle(i, c) ==
  /\ i \in owners[c]
  /\ owners' = [owners EXCEPT ![c] = @ \ {i}]
  /\ waiting' = waiting \ {c}
  /\ UNCHANGED reissued

PutBack(i, c) ==
  /\ i \in owners[c]
  /\ owners' = [owners EXCEPT ![c] = @ \ {i}]
  /\ waiting' = waiting \cup {c}
  /\ UNCHANGED reissued

\* An instance crashes, or abandons all it has taken.
Abandon(i) ==
  /\ owners' = [c \in Checks |-> owners[c] \ {i}]
  /\ UNCHANGED <<waiting, reissued>>

QueueNext ==
  \/ \E c \in Checks : Wait(c) \/ Leave(c) \/ Reissue(c)
  \/ \E i \in Instances, c \in Checks : Own(i, c) \/ Settle(i, c) \/ PutBack(i, c)
  \/ \E i \in Instances : Abandon(i)
  \/ \E C \in SUBSET Checks : RunOut(C)

QueueSpec == QueueInit /\ [][QueueNext]_queue

\* At most one instance works on a check that was not reissued
\* (triage/index.ts, the comment of findUntriagedCheckIds).
OneOwner ==
  \A c \in Checks \ reissued : \A i, j \in owners[c] : i = j
=============================================================================
