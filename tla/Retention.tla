----------------------------- MODULE Retention -----------------------------
(***************************************************************************)
(* The maintenance tasks (tasks/core) over the snapshot store: removal of  *)
(* old checks, of old and of orphan baselines, of orphan snapshots and     *)
(* files, and the consistency cleanup.  Each reads the collections and the *)
(* images directory with several queries, decides from what it has read    *)
(* and deletes later, while uploads and acceptances of SnapshotStore go    *)
(* on.  Queries whose answers these cannot tell apart are one step.        *)
(*                                                                         *)
(* One task runs at a time; one that dies leaves its work half done.       *)
(* Which checks and rows are older than the limit is chosen when a task    *)
(* starts, because the limit is a date that the task computes then.        *)
(***************************************************************************)
EXTENDS SnapshotStore

CONSTANTS
  KeepLast,  \* baselines kept per identity (keepLast option)
  MaxTasks   \* bound on the tasks run

ASSUME RetentionAssumption == KeepLast \in Nat /\ MaxTasks \in Nat

VARIABLES
  task,  \* the task that runs: its step and what it has read
  runs   \* tasks started so far

taskVars == <<task, runs>>
storeVars == <<doc, fname, imghash, file, row, clock, check, torn>>
allVars == <<vars, taskVars>>

-----------------------------------------------------------------------------
(* Types *)

OldCheckSteps == {"ocRefs", "ocRows", "ocChecks", "ocNames",
                  "ocAgain", "ocUnlink"}
FileSteps == {"ofNames", "ofUnlink"}
SnapSteps == {"osChecks", "osDocs"}
OrphanRowSteps == {"orUsed", "orDelete"}
OldRowSteps == {"obDelete", "obRefs"}
CleanSteps == {"dcRows", "dcDocs", "dcChecks", "dcDelete", "dcUnlink"}
\* Shared by the tasks that call snapshotService.remove in a loop.
RemoveLoop == {"rmNext", "rmUnlink", "rmDelete"}
TaskSteps == {"idle"} \cup OldCheckSteps \cup FileSteps \cup SnapSteps
             \cup OrphanRowSteps \cup OldRowSteps \cup CleanSteps \cup RemoveLoop

Task == [step : TaskSteps,
         checks : SUBSET Snap,          \* checks to delete
         snaps : SUBSET Snap,           \* snapshots to delete
         diffs : SUBSET Snap,           \* diff images of the checks
         refs : SUBSET Snap,            \* snapshots found referenced
         files : SUBSET Snap,           \* files to unlink
         rows : SUBSET (Ident \X Snap), \* baseline rows to delete
         target : Snap \cup {None}]     \* snapshot being removed

NoTask == [step |-> "idle", checks |-> {}, snaps |-> {}, diffs |-> {},
           refs |-> {}, files |-> {}, rows |-> {}, target |-> None]

RetentionTypeOK == TypeOK /\ task \in Task /\ runs \in 0 .. MaxTasks

RetentionInit == Init /\ replicaSet /\ task = NoTask /\ runs = 0

-----------------------------------------------------------------------------
(* What the queries return *)

Visible == {s \in Snap : doc[s] = "saved"}
LiveChecks == {c \in Snap : check[c].st = "live"}
Rows == {k \in Ident \X Snap : row[k] > 0}
\* Mutant: the ids of the rows instead of their snapshootId.
MutRowSnaps == Rows
RowSnaps == {k[2] : k \in Rows}
\* Mutant: a clone is taken to name a file of its own.
MutNames == Visible
Names == {fname[s] : s \in Visible}
Diffs(C) == {check[c].diff : c \in C} \ {None}
BasesAndActuals(C) == C \cup ({check[c].base : c \in C} \ {None})
Referenced(C) == BasesAndActuals(C) \cup Diffs(C)

At(step) == task.step = step
Read(t) == task' = t /\ UNCHANGED <<vars, runs>>
Done == task' = NoTask

\* The first query of a task.
Begin(t) ==
  /\ At("idle") /\ runs < MaxTasks
  /\ runs' = runs + 1
  /\ task' = t
  /\ UNCHANGED vars

-----------------------------------------------------------------------------
(* handleOldChecksTask *)

\* Ids and filenames of the snapshots of the old checks.  The queries select by one
\* date; of what they read an acceptance changes the base only, which comes first.
OldChecks ==
  \E old \in SUBSET LiveChecks :
    LET ids == BasesAndActuals(old) IN
    Begin([NoTask EXCEPT !.step = "ocRefs", !.checks = old, !.snaps = ids,
                         !.diffs = Diffs(old),
                         !.files = {fname[s] : s \in Visible \cap (ids \cup Diffs(old))}])

\* collectCheckSnapshotIds: what the checks that stay refer to, ...
OldChecksRefs ==
  /\ At("ocRefs")
  /\ Read([task EXCEPT !.step = "ocRows",
                       !.refs = BasesAndActuals(LiveChecks \ task.checks)])

\* ... and collectBaselineSnapshotIds: what the baselines refer to.
OldChecksRows ==
  /\ At("ocRows")
  /\ Read([task EXCEPT !.step = "ocChecks", !.refs = @ \cup RowSnaps])

\* Mutant: the references of the checks that stay are not subtracted.
MutDeletable == task.snaps \ RowSnaps
\* Baseline and actual snapshots go if nothing was found to refer to them.
Deletable == task.snaps \ task.refs

DeleteChecks(C) ==
  check' = [c \in Snap |-> IF c \in C /\ check[c].st = "live"
                           THEN [check[c] EXCEPT !.st = "gone"] ELSE check[c]]
DeleteDocs(S) ==
  doc' = [s \in Snap |-> IF s \in S \cap Visible THEN "gone" ELSE doc[s]]

\* One transaction.  (Without transactions the same deletions follow one
\* another; tasks are modelled for a deployment that has them.)
OldChecksDelete ==
  /\ At("ocChecks")
  /\ DeleteChecks(task.checks)
  /\ DeleteDocs(Deletable \cup task.diffs)
  /\ task' = [task EXCEPT !.step = "ocNames"]
  /\ UNCHANGED <<fname, imghash, file, row, clock, torn, reqVars, runs>>

\* Files that no document names, read twice, the second time "to prevent
\* race condition".
OldChecksNames ==
  \/ At("ocNames") /\ Read([task EXCEPT !.step = "ocAgain", !.files = @ \ Names])
  \/ At("ocAgain") /\ Read([task EXCEPT !.step = "ocUnlink", !.files = @ \ Names])

\* The last step of three tasks.  The batches of unlinks are one step: no document
\* names any of these files, and a task that dies between them leaves some more.
Unlink ==
  /\ task.step \in {"ocUnlink", "ofUnlink", "dcUnlink"}
  /\ file' = file \ task.files
  /\ Done
  /\ UNCHANGED <<doc, fname, imghash, row, clock, check, torn, reqVars, runs>>

-----------------------------------------------------------------------------
(* handleOrphanFilesTask *)

\* The directory is listed first, the filenames are read second.
OrphanFiles == Begin([NoTask EXCEPT !.step = "ofNames", !.files = file])

OrphanFilesNames ==
  /\ At("ofNames")
  /\ Read([task EXCEPT !.step = "ofUnlink", !.files = @ \ Names])

-----------------------------------------------------------------------------
(* handleOrphanSnapshotsTask *)

OrphanSnapshots == Begin([NoTask EXCEPT !.step = "osChecks", !.refs = RowSnaps])

OrphanSnapshotsChecks ==
  /\ At("osChecks")
  /\ Read([task EXCEPT !.step = "osDocs", !.refs = @ \cup Referenced(LiveChecks)])

OrphanSnapshotsDocs ==
  /\ At("osDocs")
  /\ Read([task EXCEPT !.step = "rmNext", !.snaps = Visible \ task.refs, !.refs = {}])

-----------------------------------------------------------------------------
(* snapshotService.remove for each of task.snaps *)

\* The three queries of remove: a snapshot that a baseline names or that is
\* already deleted is skipped, a file that others name is not unlinked.  The last
\* one counts: the rows and the document of an unused snapshot change only in the
\* windows that Apart excludes.
RemoveNext ==
  /\ At("rmNext")
  /\ IF task.snaps = {}
       THEN Done
       ELSE \E s \in task.snaps :
         LET rest == [task EXCEPT !.snaps = @ \ {s}] IN
         task' = IF s \in RowSnaps \/ s \notin Visible THEN rest
                 ELSE [rest EXCEPT !.target = s,
                         !.step = IF Sharers(s) = {} THEN "rmUnlink" ELSE "rmDelete",
                         !.files = IF Sharers(s) = {} THEN {fname[s]} ELSE {}]
  /\ UNCHANGED <<vars, runs>>

RemoveTaskUnlink ==
  /\ At("rmUnlink")
  /\ file' = file \ task.files
  /\ task' = [task EXCEPT !.step = "rmDelete"]
  /\ UNCHANGED <<doc, fname, imghash, row, clock, check, torn, reqVars, runs>>

RemoveTaskDelete ==
  /\ At("rmDelete")
  /\ DeleteDocs({task.target})
  /\ task' = [task EXCEPT !.step = "rmNext", !.target = None, !.files = {}]
  /\ UNCHANGED <<fname, imghash, file, row, clock, check, torn, reqVars, runs>>

-----------------------------------------------------------------------------
(* handleOrphanBaselinesTask, handleOldBaselinesTask *)

OrphanBaselines == Begin([NoTask EXCEPT !.step = "orUsed", !.rows = Rows])

\* Snapshots that some check was compared with.
UsedAsBaseline == {check[c].base : c \in LiveChecks}

OrphanBaselinesUsed ==
  /\ At("orUsed")
  /\ Read([task EXCEPT !.step = "orDelete",
                       !.rows = {k \in @ : k[2] \notin UsedAsBaseline}])

\* selectOldBaselinesForRemoval: rank is the number of newer rows of the same
\* identity; equal dates do not occur.  KeepLast is at least one.
Newer(k) == {l \in Rows : l[1] = k[1] /\ row[l] > row[k]}
EffectiveKeepLast == IF KeepLast < 1 THEN 1 ELSE KeepLast
\* Mutant: the clamp of keepLast is missing and so is the guard on rank zero.
MutSelectOld(limit) ==
  {k \in Rows : row[k] <= limit /\ Cardinality(Newer(k)) >= KeepLast}
SelectOld(limit) ==
  {k \in Rows : row[k] <= limit /\ Cardinality(Newer(k)) >= EffectiveKeepLast}

OldBaselines ==
  \E limit \in 0 .. clock :
    Begin([NoTask EXCEPT !.step = "obDelete", !.rows = SelectOld(limit)])

\* Baseline.deleteMany by _id of either task; old baselines then free the
\* snapshots of the rows.
DeleteRows ==
  /\ task.step \in {"orDelete", "obDelete"}
  /\ row' = [k \in Ident \X Snap |-> IF k \in task.rows THEN 0 ELSE row[k]]
  /\ task' = IF At("orDelete") THEN NoTask
             ELSE [NoTask EXCEPT !.step = "obRefs", !.snaps = {k[2] : k \in task.rows}]
  /\ UNCHANGED <<doc, fname, imghash, file, clock, check, torn, reqVars, runs>>

\* collectReferencedSnapshotIds: four queries in parallel.
StillReferenced == RowSnaps \cup Referenced(LiveChecks)

OldBaselinesRefs ==
  /\ At("obRefs")
  /\ Read([task EXCEPT !.step = "rmNext", !.snaps = @ \ StillReferenced])

-----------------------------------------------------------------------------
(* handleDatabaseConsistencyTask *)

Consistency == Begin([NoTask EXCEPT !.step = "dcRows", !.files = file])

ConsistencyRows ==
  /\ At("dcRows")
  /\ Read([task EXCEPT !.step = "dcDocs", !.refs = RowSnaps])

\* Mutant: a file is missing if it was not listed when the task started.
MutMissing == Names \ task.files
\* fsp.access fails now.
Missing == Names \ file

\* snapshotsByFilename keeps one document per filename, the last of the
\* cursor.  It is abandoned if its file is missing and no baseline names it.
ConsistencyDocs ==
  /\ At("dcDocs")
  /\ \E last \in [Names -> Visible] :
       /\ \A f \in Names : fname[last[f]] = f
       /\ Read([task EXCEPT !.step = "dcChecks", !.files = @ \ Names,
                            !.snaps = {last[f] : f \in Missing} \ task.refs])

\* Checks whose baseline or actual snapshot is missing.
ConsistencyChecks ==
  /\ At("dcChecks")
  /\ Read([task EXCEPT !.step = "dcDelete",
             !.checks = {c \in LiveChecks : ~(BasesAndActuals({c}) \subseteq Visible)}])

\* One transaction.
ConsistencyDelete ==
  /\ At("dcDelete")
  /\ DeleteDocs(task.snaps)
  /\ DeleteChecks(task.checks)
  /\ task' = [task EXCEPT !.step = "dcUnlink", !.snaps = {}, !.checks = {}]
  /\ UNCHANGED <<fname, imghash, file, row, clock, torn, reqVars, runs>>

-----------------------------------------------------------------------------
(* Specification *)

TaskDies ==
  /\ ~At("idle")
  /\ Done
  /\ torn' = IF At("rmDelete") /\ task.files # {} THEN torn \cup {task.target} ELSE torn
  /\ UNCHANGED <<docVars, file, row, clock, check, reqVars, runs>>

TaskStep ==
  \/ OldChecks \/ OldChecksRefs \/ OldChecksRows \/ OldChecksDelete
  \/ OldChecksNames \/ Unlink
  \/ OrphanFiles \/ OrphanFilesNames
  \/ OrphanSnapshots \/ OrphanSnapshotsChecks \/ OrphanSnapshotsDocs
  \/ RemoveNext \/ RemoveTaskUnlink \/ RemoveTaskDelete
  \/ OrphanBaselines \/ OrphanBaselinesUsed \/ OldBaselines \/ DeleteRows
  \/ OldBaselinesRefs
  \/ Consistency \/ ConsistencyRows \/ ConsistencyDocs \/ ConsistencyChecks
  \/ ConsistencyDelete
  \/ TaskDies

RequestStep ==
  /\ \E p \in Request : CreateStep(p) \/ AcceptStep(p) \/ Die(p)
  /\ UNCHANGED taskVars

RetentionNext == (RequestStep \/ TaskStep) /\ UNCHANGED replicaSet

RetentionSpec == RetentionInit /\ [][RetentionNext]_allVars

-----------------------------------------------------------------------------
(* Properties *)

\* Every visible document has the file it names, except one whose remover has
\* just unlinked it or died there.
StoreKeepsFile ==
  \A d \in Visible \ torn :
    fname[d] \in file \/ (At("rmDelete") /\ d = task.target)

\* The tasks leave a consistent store: references lead to documents, documents
\* to files.
TasksLoseNothing == ReferencesResolve /\ StoreKeepsFile

\* The task for old baselines leaves the newest baseline of every identity,
\* also when new ones are accepted while it runs.
NewestKept ==
  [][At("obDelete") => \A k \in Rows : Newer(k) = {} => row'[k] > 0]_allVars

\* The baseline of an accepted check that later uploads are compared with is
\* never an orphan: a check that links to its own row keeps it.
LinkedRowKept ==
  [][At("orDelete") =>
       \A c \in LiveChecks : check[c].base = c /\ row[<<check[c].ident, c>>] > 0
         => row'[<<check[c].ident, c>>] > 0]_allVars

\* No task for baselines deletes a row that uploads are compared with.
BaselineRowsKept == NewestKept /\ LinkedRowKept

\* The consistency cleanup deletes what is inconsistent: every check it
\* deletes has lost a snapshot, every snapshot has lost its file.
OnlyBrokenDeleted ==
  [][At("dcDelete") =>
       /\ \A c \in LiveChecks : check'[c].st = "gone" => ~(BasesAndActuals({c}) \subseteq Visible)
       /\ \A s \in Visible : doc'[s] = "gone" => fname[s] \notin file]_allVars

-----------------------------------------------------------------------------
(* Requests and tasks apart.  Nothing in the code excludes the overlaps below; *)
(* each is needed, and with all of them the tasks lose nothing.               *)

\* Files of an upload in flight whose document is not visible yet.
InFlight(p) ==
  {s \in {loc[p].cur, loc[p].diff} \ {None} : fname[s] = s /\ doc[s] \in {"new", "tx"}}

\* Once a task has read the last names that it compares files with, it has not
\* judged one that an upload has just written, or is just cloning.
FilesApart ==
  task.step \in {"ocUnlink", "ofUnlink", "dcChecks", "dcDelete", "dcUnlink", "rmUnlink"} =>
    \A p \in Request, f \in task.files : f \notin InFlight(p) /\ ~CloneWindow(p, f)

\* No upload in flight has chosen a baseline whose snapshot is to be deleted.
Doomed ==
  CASE task.step \in {"ocRows", "ocChecks"} -> Deletable \ RowSnaps
    [] task.step \in RemoveLoop -> task.snaps \cup {task.target}
    [] OTHER -> {}
BasesApart == \A p \in Request : loc[p].base \notin Doomed \ {None}

\* Nobody accepts a check that is being retired.
AcceptApart ==
  task.step \in {"ocChecks"} =>
    \A p \in Request : pc[p] \in AcceptSteps => loc[p].chk \notin task.checks

\* No upload commits between the queries for references and for snapshots.
ScanApart ==
  task.step = "osDocs" =>
    \A c \in Snap : check'[c].st = "live" => check[c].st = "live"

\* Nobody accepts a check whose row is being judged.
LinkApart ==
  task.step \in {"orUsed", "orDelete"} =>
    \A p \in Request : pc[p] \in AcceptSteps =>
      <<check[loc[p].chk].ident, loc[p].chk>> \notin task.rows

\* No acceptance that has lost a race stamps a row anew that is judged old.
StampApart == At("obDelete") => \A k \in task.rows : row'[k] \in {0, row[k]}

Apart ==
  /\ FilesApart' /\ BasesApart' /\ AcceptApart' /\ LinkApart'
  /\ ScanApart /\ StampApart

ApartSpec == RetentionInit /\ [][RetentionNext /\ Apart]_allVars
=============================================================================
