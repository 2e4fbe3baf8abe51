--------------------------- MODULE RetentionProofs ---------------------------
(* Theorems about Retention, for every set of requests, snapshots, identities *)
(* and hashes, any number of tasks and any number of baselines to keep.       *)
EXTENDS SnapshotStoreProofs, Retention, FiniteSetTheorems

-----------------------------------------------------------------------------
(* Type correctness *)

\* A task that removes a snapshot knows which.
Targeted == task.step \in {"rmUnlink", "rmDelete"} => task.target \in Snap

RetentionTypeInv ==
  TypeInv /\ replicaSet /\ task \in Task /\ runs \in 0 .. MaxTasks /\ Targeted

LEMMA NoTaskType == NoTask \in Task
  BY StoreAssumption DEF NoTask, Task, TaskSteps

\* What a step of a task may do to the store: it deletes.
TaskFrame ==
  /\ pc' = pc /\ loc' = loc /\ fname' = fname /\ imghash' = imghash /\ clock' = clock
  /\ doc' \in [Snap -> DocState]
  /\ \A s \in Snap : doc'[s] = doc[s] \/ (doc[s] = "saved" /\ doc'[s] = "gone")
  /\ check' \in [Snap -> CheckRec]
  /\ \A c \in Snap : \/ check'[c] = check[c]
                     \/ check[c].st = "live" /\ check'[c] = [check[c] EXCEPT !.st = "gone"]
  /\ row' \in [Ident \X Snap -> Nat]
  /\ \A k \in Ident \X Snap : row'[k] \in {0, row[k]}
  /\ file' \subseteq file
  /\ torn \subseteq torn' /\ torn' \subseteq Snap

LEMMA FrameTypes ==
  ASSUME TypeInv, TaskFrame, replicaSet' = replicaSet  PROVE TypeInv'
  <1>1. TypeOK'
    BY DEF TaskFrame, TypeInv, TypeOK
  <1>2. ASSUME NEW p \in Request  PROVE ReqSet(p)'
    <2>1. ReqSet(p) /\ pc'[p] = pc[p] /\ loc'[p] = loc[p]
      BY DEF TaskFrame, TypeInv
    <2>2. pc[p] \in Holding => doc'[loc[p].cur] # "free"
      BY <2>1 DEF ReqSet, TaskFrame
    <2>3. ASSUME NEW c \in Snap  PROVE
            /\ check[c].st = "none" => check'[c].st = "none"
            /\ check[c].st \in {"live", "gone"} => check'[c].st \in {"live", "gone"}
            /\ check[c].st = "gone" => check'[c].st = "gone"
            /\ check'[c].diff = check[c].diff
      BY DEF TaskFrame, TypeInv, TypeOK, CheckRec
    <2>4. Uninserted \subseteq Holding
      BY DEF Uninserted
    <2> QED BY <2>1, <2>2, <2>3, <2>4 DEF ReqSet
  <1>3. ASSUME NEW c \in Snap  PROVE CheckSet(c)'
    BY DEF TaskFrame, TypeInv, TypeOK, CheckRec, CheckSet
  <1>4. DistinctCur'
    BY DEF TaskFrame, TypeInv, DistinctCur
  <1> QED BY <1>1, <1>2, <1>3, <1>4 DEF TypeInv

\* A step that only reads leaves the store as it is.
LEMMA ReadFrame ==
  ASSUME TypeInv, UNCHANGED vars  PROVE TaskFrame
  BY DEF TaskFrame, TypeInv, TypeOK, vars

\* What the queries return is of the types.
LEMMA QueryTypes ==
  ASSUME TypeInv
  PROVE  /\ Visible \subseteq Snap /\ LiveChecks \subseteq Snap
         /\ Rows \subseteq Ident \X Snap /\ RowSnaps \subseteq Snap /\ Names \subseteq Snap
         /\ \A C \in SUBSET Snap :
              /\ Diffs(C) \subseteq Snap /\ BasesAndActuals(C) \subseteq Snap
              /\ Referenced(C) \subseteq Snap
  <1>1. Visible \subseteq Snap /\ LiveChecks \subseteq Snap /\ Rows \subseteq Ident \X Snap
    BY DEF Visible, LiveChecks, Rows
  <1>2. RowSnaps \subseteq Snap /\ Names \subseteq Snap
    BY <1>1 DEF RowSnaps, Names, TypeInv, TypeOK
  <1>3. ASSUME NEW C \in SUBSET Snap
        PROVE  Diffs(C) \subseteq Snap /\ BasesAndActuals(C) \subseteq Snap
    BY DEF Diffs, BasesAndActuals, TypeInv, TypeOK, CheckRec
  <1> QED BY <1>1, <1>2, <1>3 DEF Referenced

TaskTyped == task' \in Task /\ runs' \in 0 .. MaxTasks /\ Targeted'

LEMMA BeginTyped ==
  ASSUME RetentionTypeInv, NEW t \in Task, t.step \notin {"rmUnlink", "rmDelete"}, Begin(t)
  PROVE  TaskFrame /\ TaskTyped
  <1>1. UNCHANGED vars /\ task' = t /\ runs' = runs + 1 /\ runs < MaxTasks
    BY DEF Begin
  <1>2. TaskFrame
    BY <1>1, ReadFrame DEF RetentionTypeInv
  <1>3. runs' \in 0 .. MaxTasks
    BY <1>1, RetentionAssumption DEF RetentionTypeInv
  <1> QED BY <1>1, <1>2, <1>3 DEF TaskTyped, Targeted

LEMMA ReadTyped ==
  ASSUME RetentionTypeInv, NEW t \in Task, t.step \notin {"rmUnlink", "rmDelete"}, Read(t)
  PROVE  TaskFrame /\ TaskTyped
  <1>1. UNCHANGED vars /\ task' = t /\ runs' = runs
    BY DEF Read
  <1>2. TaskFrame
    BY <1>1, ReadFrame DEF RetentionTypeInv
  <1> QED BY <1>1, <1>2 DEF TaskTyped, Targeted, RetentionTypeInv

LEMMA OldChecksTyped ==
  ASSUME RetentionTypeInv,
         OldChecks \/ OldChecksRefs \/ OldChecksRows \/ OldChecksNames
  PROVE  TaskFrame /\ TaskTyped
  <1>1. CASE OldChecks
    <2>1. PICK old \in SUBSET LiveChecks :
            LET ids == BasesAndActuals(old) IN
            Begin([NoTask EXCEPT !.step = "ocRefs", !.checks = old, !.snaps = ids,
                                 !.diffs = Diffs(old),
                                 !.files = {fname[s] : s \in Visible \cap (ids \cup Diffs(old))}])
      BY <1>1 DEF OldChecks
    <2>2. /\ old \in SUBSET Snap /\ BasesAndActuals(old) \in SUBSET Snap
          /\ Diffs(old) \in SUBSET Snap
      BY QueryTypes DEF RetentionTypeInv
    <2>3. {fname[s] : s \in Visible \cap (BasesAndActuals(old) \cup Diffs(old))} \in SUBSET Snap
      <3>1. fname \in [Snap -> Snap] /\ Visible \subseteq Snap
        BY QueryTypes DEF RetentionTypeInv, TypeInv, TypeOK
      <3> QED BY <3>1
    <2>4. [NoTask EXCEPT !.step = "ocRefs", !.checks = old, !.snaps = BasesAndActuals(old),
                 !.diffs = Diffs(old),
                 !.files = {fname[s] : s \in Visible \cap (BasesAndActuals(old) \cup Diffs(old))}]
            \in Task
      BY <2>2, <2>3, NoTaskType DEF Task, TaskSteps, OldCheckSteps
    <2> QED BY <2>1, <2>4, BeginTyped DEF NoTask
  <1>2. CASE OldChecksRefs
    <2>1. [task EXCEPT !.step = "ocRows", !.refs = BasesAndActuals(LiveChecks \ task.checks)] \in Task
      BY QueryTypes DEF RetentionTypeInv, Task, TaskSteps, OldCheckSteps
    <2> QED BY <1>2, <2>1, ReadTyped DEF OldChecksRefs, RetentionTypeInv, Task
  <1>3. CASE OldChecksRows
    <2>1. [task EXCEPT !.step = "ocChecks", !.refs = @ \cup RowSnaps] \in Task
      BY QueryTypes DEF RetentionTypeInv, Task, TaskSteps, OldCheckSteps
    <2> QED BY <1>3, <2>1, ReadTyped DEF OldChecksRows, RetentionTypeInv, Task
  <1>4. CASE OldChecksNames
    <2>1. ASSUME NEW st \in {"ocAgain", "ocUnlink"}
          PROVE  [task EXCEPT !.step = st, !.files = @ \ Names] \in Task
      BY DEF RetentionTypeInv, Task, TaskSteps, OldCheckSteps
    <2> QED BY <1>4, <2>1, ReadTyped DEF OldChecksNames, RetentionTypeInv, Task
  <1> QED BY <1>1, <1>2, <1>3, <1>4

LEMMA OrphansTyped ==
  ASSUME RetentionTypeInv,
         \/ OrphanFiles \/ OrphanFilesNames
         \/ OrphanSnapshots \/ OrphanSnapshotsChecks \/ OrphanSnapshotsDocs
  PROVE  TaskFrame /\ TaskTyped
  <1>1. CASE OrphanFiles
    <2>1. [NoTask EXCEPT !.step = "ofNames", !.files = file] \in Task
      BY NoTaskType DEF RetentionTypeInv, TypeInv, TypeOK, Task, TaskSteps, FileSteps
    <2> QED BY <1>1, <2>1, BeginTyped DEF OrphanFiles, NoTask
  <1>2. CASE OrphanFilesNames
    <2>1. [task EXCEPT !.step = "ofUnlink", !.files = @ \ Names] \in Task
      BY DEF RetentionTypeInv, Task, TaskSteps, FileSteps
    <2> QED BY <1>2, <2>1, ReadTyped DEF OrphanFilesNames, RetentionTypeInv, Task
  <1>3. CASE OrphanSnapshots
    <2>1. [NoTask EXCEPT !.step = "osChecks", !.refs = RowSnaps] \in Task
      BY NoTaskType, QueryTypes DEF RetentionTypeInv, Task, TaskSteps, SnapSteps
    <2> QED BY <1>3, <2>1, BeginTyped DEF OrphanSnapshots, NoTask
  <1>4. CASE OrphanSnapshotsChecks
    <2>1. [task EXCEPT !.step = "osDocs", !.refs = @ \cup Referenced(LiveChecks)] \in Task
      BY QueryTypes DEF RetentionTypeInv, Task, TaskSteps, SnapSteps
    <2> QED BY <1>4, <2>1, ReadTyped DEF OrphanSnapshotsChecks, RetentionTypeInv, Task
  <1>5. CASE OrphanSnapshotsDocs
    <2>1. [task EXCEPT !.step = "rmNext", !.snaps = Visible \ task.refs, !.refs = {}] \in Task
      BY QueryTypes DEF RetentionTypeInv, Task, TaskSteps, RemoveLoop
    <2> QED BY <1>5, <2>1, ReadTyped DEF OrphanSnapshotsDocs, RetentionTypeInv, Task
  <1> QED BY <1>1, <1>2, <1>3, <1>4, <1>5

LEMMA RowTasksTyped ==
  ASSUME RetentionTypeInv,
         OrphanBaselines \/ OrphanBaselinesUsed \/ OldBaselines \/ OldBaselinesRefs
  PROVE  TaskFrame /\ TaskTyped
  <1>1. CASE OrphanBaselines
    <2>1. [NoTask EXCEPT !.step = "orUsed", !.rows = Rows] \in Task
      BY NoTaskType, QueryTypes DEF RetentionTypeInv, Task, TaskSteps, OrphanRowSteps
    <2> QED BY <1>1, <2>1, BeginTyped DEF OrphanBaselines, NoTask
  <1>2. CASE OrphanBaselinesUsed
    <2>1. [task EXCEPT !.step = "orDelete", !.rows = {k \in @ : k[2] \notin UsedAsBaseline}] \in Task
      BY DEF RetentionTypeInv, Task, TaskSteps, OrphanRowSteps
    <2> QED BY <1>2, <2>1, ReadTyped DEF OrphanBaselinesUsed, RetentionTypeInv, Task
  <1>3. CASE OldBaselines
    <2>1. PICK limit \in 0 .. clock :
            Begin([NoTask EXCEPT !.step = "obDelete", !.rows = SelectOld(limit)])
      BY <1>3 DEF OldBaselines
    <2>2. [NoTask EXCEPT !.step = "obDelete", !.rows = SelectOld(limit)] \in Task
      BY NoTaskType, QueryTypes DEF RetentionTypeInv, SelectOld, Task, TaskSteps, OldRowSteps
    <2> QED BY <2>1, <2>2, BeginTyped DEF NoTask
  <1>4. CASE OldBaselinesRefs
    <2>1. [task EXCEPT !.step = "rmNext", !.snaps = @ \ StillReferenced] \in Task
      BY DEF RetentionTypeInv, Task, TaskSteps, RemoveLoop
    <2> QED BY <1>4, <2>1, ReadTyped DEF OldBaselinesRefs, RetentionTypeInv, Task
  <1> QED BY <1>1, <1>2, <1>3, <1>4

LEMMA ConsistencyTyped ==
  ASSUME RetentionTypeInv,
         Consistency \/ ConsistencyRows \/ ConsistencyDocs \/ ConsistencyChecks
  PROVE  TaskFrame /\ TaskTyped
  <1>1. CASE Consistency
    <2>1. [NoTask EXCEPT !.step = "dcRows", !.files = file] \in Task
      BY NoTaskType DEF RetentionTypeInv, TypeInv, TypeOK, Task, TaskSteps, CleanSteps
    <2> QED BY <1>1, <2>1, BeginTyped DEF Consistency, NoTask
  <1>2. CASE ConsistencyRows
    <2>1. [task EXCEPT !.step = "dcDocs", !.refs = RowSnaps] \in Task
      BY QueryTypes DEF RetentionTypeInv, Task, TaskSteps, CleanSteps
    <2> QED BY <1>2, <2>1, ReadTyped DEF ConsistencyRows, RetentionTypeInv, Task
  <1>3. CASE ConsistencyDocs
    <2>1. PICK last \in [Names -> Visible] :
            Read([task EXCEPT !.step = "dcChecks", !.files = @ \ Names,
                              !.snaps = {last[f] : f \in Missing} \ task.refs])
      BY <1>3 DEF ConsistencyDocs
    <2>2. {last[f] : f \in Missing} \subseteq Snap
      BY QueryTypes DEF RetentionTypeInv, Missing
    <2>3. [task EXCEPT !.step = "dcChecks", !.files = @ \ Names,
                       !.snaps = {last[f] : f \in Missing} \ task.refs] \in Task
      BY <2>2 DEF RetentionTypeInv, Task, TaskSteps, CleanSteps
    <2> QED BY <2>1, <2>3, ReadTyped DEF RetentionTypeInv, Task
  <1>4. CASE ConsistencyChecks
    <2>1. [task EXCEPT !.step = "dcDelete",
             !.checks = {c \in LiveChecks : ~(BasesAndActuals({c}) \subseteq Visible)}] \in Task
      BY QueryTypes DEF RetentionTypeInv, Task, TaskSteps, CleanSteps
    <2> QED BY <1>4, <2>1, ReadTyped DEF ConsistencyChecks, RetentionTypeInv, Task
  <1> QED BY <1>1, <1>2, <1>3, <1>4

\* The steps that delete.
LEMMA DeletedFrame ==
  ASSUME TypeInv, NEW S, NEW C
  PROVE  /\ DeleteDocs(S) =>
              /\ doc' \in [Snap -> DocState]
              /\ \A s \in Snap : doc'[s] = IF s \in S /\ doc[s] = "saved" THEN "gone" ELSE doc[s]
         /\ DeleteChecks(C) =>
              /\ check' \in [Snap -> CheckRec]
              /\ \A c \in Snap : check'[c] = IF c \in C /\ check[c].st = "live"
                                             THEN [check[c] EXCEPT !.st = "gone"] ELSE check[c]
  <1>1. ASSUME DeleteDocs(S)
        PROVE  /\ doc' \in [Snap -> DocState]
               /\ \A s \in Snap : doc'[s] = IF s \in S /\ doc[s] = "saved" THEN "gone" ELSE doc[s]
    BY <1>1 DEF DeleteDocs, Visible, TypeInv, TypeOK, DocState
  <1>2. ASSUME DeleteChecks(C)
        PROVE  /\ check' \in [Snap -> CheckRec]
               /\ \A c \in Snap : check'[c] = IF c \in C /\ check[c].st = "live"
                                              THEN [check[c] EXCEPT !.st = "gone"] ELSE check[c]
    BY <1>2 DEF DeleteChecks, TypeInv, TypeOK, CheckRec
  <1> QED BY <1>1, <1>2

LEMMA DeletesTyped ==
  ASSUME RetentionTypeInv,
         \/ OldChecksDelete \/ Unlink \/ RemoveNext \/ RemoveTaskUnlink \/ RemoveTaskDelete
         \/ DeleteRows \/ ConsistencyDelete \/ TaskDies
  PROVE  TaskFrame /\ TaskTyped
  <1> TypeInv /\ TypeOK /\ task \in Task /\ runs \in 0 .. MaxTasks
    BY DEF RetentionTypeInv, TypeInv
  <1>1. CASE OldChecksDelete
    <2>1. TaskFrame
      BY <1>1, DeletedFrame DEF OldChecksDelete, TaskFrame, TypeOK, reqVars
    <2>2. task' \in Task /\ task'.step = "ocNames" /\ runs' = runs
      BY <1>1 DEF OldChecksDelete, Task, TaskSteps, OldCheckSteps
    <2> QED BY <2>1, <2>2 DEF TaskTyped, Targeted
  <1>2. CASE Unlink
    <2>1. TaskFrame
      BY <1>2 DEF Unlink, TaskFrame, TypeOK, reqVars
    <2> QED BY <1>2, <2>1, NoTaskType DEF Unlink, Done, TaskTyped, Targeted, NoTask
  <1>3. CASE RemoveNext
    <2>1. TaskFrame /\ runs' = runs
      BY <1>3, ReadFrame DEF RemoveNext
    <2>2. CASE task' = NoTask
      BY <2>1, <2>2, NoTaskType DEF TaskTyped, Targeted, NoTask
    <2>3. CASE task' # NoTask
      <3>1. PICK s \in task.snaps :
              LET rest == [task EXCEPT !.snaps = @ \ {s}] IN
              task' = IF s \in RowSnaps \/ s \notin Visible THEN rest
                      ELSE [rest EXCEPT !.target = s,
                              !.step = IF Sharers(s) = {} THEN "rmUnlink" ELSE "rmDelete",
                              !.files = IF Sharers(s) = {} THEN {fname[s]} ELSE {}]
        BY <1>3, <2>3 DEF RemoveNext, Done
      <3>2. s \in Snap /\ fname[s] \in Snap /\ task.step = "rmNext"
        BY <1>3 DEF RemoveNext, At, Task, TypeOK
      <3>3. task' \in Task /\ Targeted'
        BY <3>1, <3>2 DEF Task, TaskSteps, RemoveLoop, Targeted
      <3> QED BY <2>1, <3>3 DEF TaskTyped
    <2> QED BY <2>2, <2>3
  <1>4. CASE RemoveTaskUnlink
    <2>1. TaskFrame
      BY <1>4 DEF RemoveTaskUnlink, TaskFrame, TypeOK, reqVars
    <2>2. task' \in Task /\ runs' = runs /\ Targeted'
      BY <1>4 DEF RemoveTaskUnlink, At, RetentionTypeInv, Targeted, Task, TaskSteps, RemoveLoop
    <2> QED BY <2>1, <2>2 DEF TaskTyped
  <1>5. CASE RemoveTaskDelete
    <2>1. /\ doc' \in [Snap -> DocState]
          /\ \A s \in Snap : doc'[s] = doc[s] \/ (doc[s] = "saved" /\ doc'[s] = "gone")
      BY <1>5, DeletedFrame DEF RemoveTaskDelete
    <2>2. TaskFrame
      BY <1>5, <2>1 DEF RemoveTaskDelete, TaskFrame, TypeOK, reqVars
    <2>3. task' \in Task /\ task'.step = "rmNext" /\ runs' = runs
      BY <1>5 DEF RemoveTaskDelete, Task, TaskSteps, RemoveLoop
    <2> QED BY <2>2, <2>3 DEF TaskTyped, Targeted
  <1>6. CASE DeleteRows
    <2>1. /\ row' = [k \in Ident \X Snap |-> IF k \in task.rows THEN 0 ELSE row[k]]
          /\ UNCHANGED <<doc, fname, imghash, file, clock, check, torn, pc, loc>>
      BY <1>6 DEF DeleteRows, reqVars
    <2>2. /\ row' \in [Ident \X Snap -> Nat]
          /\ \A k \in Ident \X Snap : row'[k] \in {0, row[k]}
      BY <2>1 DEF TypeOK
    <2>3. TaskFrame
      BY <2>1, <2>2 DEF TaskFrame, TypeOK
    <2>4. {k[2] : k \in task.rows} \in SUBSET Snap
      BY DEF Task
    <2>5. [NoTask EXCEPT !.step = "obRefs", !.snaps = {k[2] : k \in task.rows}] \in Task
      BY <2>4, NoTaskType DEF Task, TaskSteps, OldRowSteps
    <2>6. task' \in Task /\ task'.step \in {"idle", "obRefs"} /\ runs' = runs
      BY <1>6, <2>5, NoTaskType DEF DeleteRows, NoTask
    <2> QED BY <2>3, <2>6 DEF TaskTyped, Targeted
  <1>7. CASE ConsistencyDelete
    <2>1. TaskFrame
      BY <1>7, DeletedFrame DEF ConsistencyDelete, TaskFrame, TypeOK, reqVars
    <2>2. task' \in Task /\ task'.step = "dcUnlink" /\ runs' = runs
      BY <1>7 DEF ConsistencyDelete, Task, TaskSteps, CleanSteps
    <2> QED BY <2>1, <2>2 DEF TaskTyped, Targeted
  <1>8. CASE TaskDies
    <2>1. torn \subseteq torn' /\ torn' \subseteq Snap
      BY <1>8 DEF TaskDies, At, RetentionTypeInv, Targeted, TypeOK
    <2>2. TaskFrame
      BY <1>8, <2>1 DEF TaskDies, TaskFrame, TypeOK, reqVars, docVars
    <2> QED BY <1>8, <2>2, NoTaskType DEF TaskDies, Done, TaskTyped, Targeted, NoTask
  <1> QED BY <1>1, <1>2, <1>3, <1>4, <1>5, <1>6, <1>7, <1>8

LEMMA TaskMoves ==
  ASSUME RetentionTypeInv, TaskStep  PROVE TaskFrame /\ TaskTyped
  BY OldChecksTyped, OrphansTyped, RowTasksTyped, ConsistencyTyped, DeletesTyped DEF TaskStep

\* A step of a request is one of the store.
LEMMA RequestMoves ==
  ASSUME RequestStep, UNCHANGED replicaSet  PROVE [Next]_vars /\ UNCHANGED taskVars
  BY DEF RequestStep, Next

LEMMA RetentionTypeInit == RetentionInit => RetentionTypeInv
  BY TypeInit, NoTaskType, RetentionAssumption
  DEF RetentionInit, RetentionTypeInv, Targeted, NoTask

LEMMA RetentionTypeNext ==
  RetentionTypeInv /\ [RetentionNext]_allVars => RetentionTypeInv'
  <1> SUFFICES ASSUME RetentionTypeInv, [RetentionNext]_allVars  PROVE RetentionTypeInv'
    OBVIOUS
  <1> replicaSet' = replicaSet
    BY DEF RetentionNext, allVars, vars
  <1>1. CASE TaskStep
    BY <1>1, TaskMoves, FrameTypes DEF TaskTyped, RetentionTypeInv
  <1>2. CASE RequestStep
    BY <1>2, RequestMoves, TypeNext DEF taskVars, RetentionTypeInv, Targeted
  <1>3. CASE UNCHANGED allVars
    BY <1>3, TypeNext DEF allVars, taskVars, RetentionTypeInv, Targeted
  <1> QED BY <1>1, <1>2, <1>3 DEF RetentionNext

\* A task that removes a snapshot knows which, a count of tasks stays within its
\* bound, and the tasks take no id, check or row that is not one of the store.
THEOREM RetentionTypes == RetentionSpec => []RetentionTypeOK
  <1>1. RetentionTypeInv => RetentionTypeOK
    BY DEF RetentionTypeInv, TypeInv, RetentionTypeOK
  <1> QED BY <1>1, RetentionTypeInit, RetentionTypeNext, PTL DEF RetentionSpec

-----------------------------------------------------------------------------
(* The invariant of the environment in which requests and tasks are apart.    *)
(* No request of Retention removes a check, so what a request knows of its    *)
(* documents is simpler than in the store alone (ReqDocs, Owned, DiffOf and   *)
(* the others are those of the store); what it knows of the documents of      *)
(* others must survive the tasks.                                             *)

\* A check of this image has been committed.
Created(s) == check[s].st \in {"live", "gone"}

\* A request and the documents, checks and files it works with.
Works(p) ==
  /\ pc[p] \notin RemoveSteps
  /\ ReqDocs(p) /\ Owned(p) /\ HoldsFile(p)
  /\ InFlight(p) \subseteq file
  /\ loc[p].diff # None => loc[p].diff # loc[p].cur /\ check[loc[p].diff].st = "none"
  /\ pc[p] \in WithBase =>
       \/ loc[p].base = loc[p].cur
       \/ doc[loc[p].base] = "saved" /\ Created(loc[p].base)
  /\ Acceptor(p)

\* A baseline that is another image is one that a check was created with.
BaseCreated(c) ==
  check[c].st # "none" => check[c].base = c \/ Created(check[c].base)

\* What the store holds together.
Whole ==
  /\ \A s \in Snap : CloneOf(s) /\ FreeName(s) /\ DiffOf(s) /\ BaseCreated(s)
  /\ \A k \in Ident \X Snap : RowOf(k) /\ row[k] <= clock
  /\ LiveCheckResolves

\* A snapshot that the UI leads to, or that an upload is compared with.
Used == RowSnaps \cup Referenced(LiveChecks)
Bases == {loc[p].base : p \in Request}

\* Nobody needs a snapshot whose file is gone.
TornUnused == \A d \in torn : Settled(d) /\ d \notin Used /\ d \notin Bases

FilesHeld == StoreKeepsFile /\ TornUnused

-----------------------------------------------------------------------------
(* What a task has read, and what is still true of it *)

\* handleOldChecksTask
OldKnown ==
  task.step \in {"ocRefs", "ocRows", "ocChecks"} =>
    /\ task.checks \subseteq LiveChecks
    /\ task.diffs \subseteq Diffs(task.checks)
    /\ \A s \in task.snaps : Settled(s) /\ Created(s)

Others == BasesAndActuals(LiveChecks \ task.checks)
OldUnused ==
  /\ At("ocRows") => Others \cap Deletable \subseteq RowSnaps
  /\ At("ocChecks") => (Others \cup RowSnaps) \cap Deletable = {}

\* A file to be unlinked has no visible document, but for the one removed with it.
UnlinkUnnamed ==
  /\ task.step \in {"ocUnlink", "ofUnlink", "dcChecks", "dcDelete", "dcUnlink"} =>
       task.files \cap Names = {}
  /\ At("rmUnlink") =>
       /\ task.files = {fname[task.target]}
       /\ \A d \in Visible : fname[d] = fname[task.target] => d = task.target
  /\ At("rmDelete") /\ task.files = {} =>
       (task.target \in Visible \ torn => fname[task.target] \in file)

\* handleOrphanSnapshotsTask
OrphansKnown ==
  /\ At("osChecks") => RowSnaps \subseteq task.refs \cup LiveChecks
  /\ At("osDocs") => Used \subseteq task.refs

\* snapshotService.remove
LoopUnused ==
  /\ task.step \notin {"rmUnlink", "rmDelete"} => task.target = None
  /\ At("obRefs") => \A s \in task.snaps : Settled(s)
  /\ task.step \in RemoveLoop =>
       \A s \in (task.snaps \cup {task.target}) \ {None} : Settled(s) /\ s \notin Used

\* handleDatabaseConsistencyTask
BrokenKnown ==
  /\ task.step \in {"dcChecks", "dcDelete"} =>
       \A s \in task.snaps : s \in torn /\ fname[s] \notin file
  /\ At("dcDelete") => task.checks = {}

Judged ==
  OldKnown /\ OldUnused /\ UnlinkUnnamed /\ OrphansKnown /\ LoopUnused /\ BrokenKnown

\* The two tasks that delete rows
OldRowsOld ==
  At("obDelete") => \A k \in task.rows : Settled(k[2]) /\ (row[k] = 0 \/ Newer(k) # {})
OrphanRowsLoose ==
  /\ task.step \in {"orUsed", "orDelete"} => \A k \in task.rows : Created(k[2])
  /\ At("orDelete") => \A c \in LiveChecks :
                         check[c].base = c => <<check[c].ident, c>> \notin task.rows
RowsJudged == OldRowsOld /\ OrphanRowsLoose

Separate == FilesApart /\ BasesApart /\ AcceptApart /\ LinkApart

RetentionInv ==
  /\ \A p \in Request : Works(p)
  /\ DisjointIds
  /\ Whole /\ FilesHeld /\ Judged /\ RowsJudged /\ Separate

LEMMA RetentionInvInit == RetentionInit => RetentionInv
  <1> SUFFICES ASSUME RetentionInit  PROVE RetentionInv
    OBVIOUS
  <1>1. Init /\ task = NoTask /\ task.step = "idle"
    BY DEF RetentionInit, NoTask
  <1>2. \A p \in Request : pc[p] = "idle" /\ loc[p].cur = None /\ loc[p].diff = None
                           /\ loc[p].base = None
    BY <1>1 DEF Init, Blank
  <1>3. \A c \in Snap : check[c] = NoCheck /\ doc[c] = "free" /\ fname[c] = c
    BY <1>1 DEF Init
  <1>4. ASSUME NEW p \in Request  PROVE Works(p)
    <2>1. ReqDocs(p) /\ pc[p] \notin RemoveSteps /\ Acceptor(p)
      BY <1>2 DEF ReqDocs, Acceptor, RemoveSteps, AcceptSteps, Holding, CreateSteps, WithBase
    <2>2. OwnIds(p) = {}
      BY <1>2 DEF OwnIds
    <2>3. HoldsFile(p) /\ InFlight(p) = {} /\ Owned(p)
      BY <1>2, <2>2, StoreAssumption DEF HoldsFile, CloneWindow, InFlight, Owned
    <2> QED BY <1>2, <2>1, <2>3 DEF Works, WithBase
  <1>5. DisjointIds
    BY <1>2 DEF DisjointIds, OwnIds
  <1>6. Whole
    <2>1. ASSUME NEW s \in Snap  PROVE CloneOf(s) /\ FreeName(s) /\ DiffOf(s) /\ BaseCreated(s)
      BY <1>3 DEF CloneOf, FreeName, DiffOf, BaseCreated, NoCheck
    <2>2. \A k \in Ident \X Snap : RowOf(k) /\ row[k] <= clock
      BY <1>1 DEF Init, RowOf
    <2> QED BY <1>3, <2>1, <2>2 DEF Whole, LiveCheckResolves, NoCheck
  <1>7. FilesHeld
    BY <1>1, <1>3 DEF FilesHeld, StoreKeepsFile, TornUnused, Visible, Init
  <1>8. Judged /\ RowsJudged
    BY <1>1 DEF Judged, OldKnown, OldUnused, UnlinkUnnamed, OrphansKnown, LoopUnused, BrokenKnown,
                RowsJudged, OldRowsOld, OrphanRowsLoose, At, RemoveLoop, NoTask
  <1>9. Separate
    <2>1. Doomed = {}
      BY <1>1 DEF Doomed, RemoveLoop
    <2> QED BY <1>1, <2>1 DEF Separate, FilesApart, BasesApart, AcceptApart, LinkApart
  <1> QED BY <1>4, <1>5, <1>6, <1>7, <1>8, <1>9 DEF RetentionInv

-----------------------------------------------------------------------------
(* What a request sees of the steps of others *)

Away(q) ==
  /\ pc'[q] = pc[q] /\ loc'[q] = loc[q]
  /\ \A s \in OwnIds(q) : doc'[s] = doc[s] /\ fname'[s] = fname[s]
  /\ pc[q] = "finish" => check'[loc[q].cur] = check[loc[q].cur]
  /\ loc[q].diff # None => check'[loc[q].diff].st = "none"
  /\ \A s \in Snap : Settled(s) => Settled(s)' /\ fname'[s] = fname[s]
  /\ \A s \in Snap : Created(s) => Created(s)'
  /\ pc[q] \in WithBase /\ loc[q].base # loc[q].cur => doc'[loc[q].base] = "saved"
  /\ Acceptor(q)'
  /\ \A c \in Snap : check'[c].diff \in OwnIds(q) => check'[c].diff = check[c].diff
  /\ \A f \in file \ file' : f \notin InFlight(q) /\ ~CloneWindow(q, f)

LEMMA AwayKeeps ==
  ASSUME TypeInv, NEW q \in Request, Works(q), Away(q)
  PROVE  Works(q)'
  <1>1. /\ pc'[q] = pc[q] /\ loc'[q] = loc[q] /\ OwnIds(q)' = OwnIds(q)
        /\ \A s \in OwnIds(q) : doc'[s] = doc[s] /\ fname'[s] = fname[s]
    BY DEF Away, OwnIds
  <1>2. /\ loc[q].cur # None => loc[q].cur \in OwnIds(q)
        /\ loc[q].diff # None => loc[q].diff \in OwnIds(q)
        /\ pc[q] \in Holding => loc[q].cur \in Snap
        /\ None \notin Snap /\ OwnIds(q) \subseteq Snap
    BY StoreAssumption DEF OwnIds, TypeInv, TypeOK, Locals, ReqSet
  <1>3. pc[q] \notin RemoveSteps
    BY DEF Works
  <1>4. ReqDocs(q)'
    <2>1. ReqDocs(q)
      BY DEF Works
    <2>2. /\ pc[q] \in {"access", "clone"} => loc[q].src \in Snap
          /\ pc[q] \in WithBase => loc[q].base \in Snap
      BY DEF TypeInv, ReqSet, WithBase
    <2>3. /\ pc[q] = "save" => doc'[loc[q].cur] = "new"
          /\ pc[q] \in Holding \ {"save"} => doc'[loc[q].cur] = "tx"
      BY <1>1, <1>2, <2>1 DEF ReqDocs, Holding, CreateSteps
    <2>4. /\ pc[q] = "diffSave" => loc[q].diff \in Snap /\ doc'[loc[q].diff] = "new"
          /\ pc[q] \in {"insert", "finish"} /\ loc[q].diff # None => doc'[loc[q].diff] = "tx"
      BY <1>1, <1>2, <2>1 DEF ReqDocs
    <2>5. pc[q] = "cleanup" =>
            /\ loc[q].cur \in Snap /\ doc'[loc[q].cur] = "void"
            /\ loc[q].diff # None => doc'[loc[q].diff] = "void"
      BY <1>1, <1>2, <2>1 DEF ReqDocs
    <2>6. /\ pc[q] \in {"access", "clone"} => Settled(loc[q].src)'
          /\ pc[q] \in WithBase => Settled(loc[q].base)' \/ loc'[q].base = loc'[q].cur
      BY <1>1, <2>1, <2>2 DEF ReqDocs, Away
    <2>7. pc[q] = "finish" =>
            check'[loc[q].cur] = [st |-> "tx", ident |-> loc[q].ident,
                                  base |-> loc[q].base, diff |-> loc[q].diff]
      BY <2>1 DEF ReqDocs, Away
    <2>8. /\ pc[q] \notin Holding \cup {"cleanup"} => loc[q].cur = None
          /\ pc[q] \notin {"diffSave", "insert", "finish", "cleanup"} => loc[q].diff = None
      BY <2>1 DEF ReqDocs
    <2>9. pc[q] # "rUnlink"
      BY <1>3 DEF RemoveSteps
    <2> QED BY <1>1, <2>3, <2>4, <2>5, <2>6, <2>7, <2>8, <2>9 DEF ReqDocs
  <1>5. Owned(q)'
    BY <1>1 DEF Works, Owned, Away
  <1>6. \A f \in Snap : CloneWindow(q, f)' <=> CloneWindow(q, f)
    <2>1. pc[q] = "clone" => loc[q].src \in Snap /\ Settled(loc[q].src)
      BY DEF TypeInv, ReqSet, Works, ReqDocs
    <2>2. pc[q] = "clone" => fname'[loc[q].src] = fname[loc[q].src]
      BY <2>1 DEF Away
    <2> QED BY <1>1, <1>2, <2>2 DEF CloneWindow
  <1>7. InFlight(q)' = InFlight(q)
    BY <1>1, <1>2 DEF InFlight, OwnIds
  <1>8. HoldsFile(q)'
    <2>1. \A f \in Snap : CloneWindow(q, f)' => f \in file'
      BY <1>6 DEF Works, HoldsFile, Away
    <2>2. pc'[q] = "save" => fname'[loc'[q].cur] = loc'[q].cur
      BY <1>1, <1>2 DEF Works, HoldsFile, Holding, CreateSteps
    <2>3. loc'[q].diff # None => fname'[loc'[q].diff] = loc'[q].diff
      BY <1>1, <1>2 DEF Works, HoldsFile
    <2>4. pc'[q] # "rUnlink"
      BY <1>1, <1>3 DEF RemoveSteps
    <2> QED BY <2>1, <2>2, <2>3, <2>4 DEF HoldsFile
  <1>9. InFlight(q)' \subseteq file'
    BY <1>7 DEF Works, Away
  <1>10. loc'[q].diff # None => loc'[q].diff # loc'[q].cur /\ check'[loc'[q].diff].st = "none"
    BY <1>1 DEF Works, Away
  <1>11. pc'[q] \in WithBase =>
           \/ loc'[q].base = loc'[q].cur
           \/ doc'[loc'[q].base] = "saved" /\ Created(loc[q].base)'
    <2>1. pc[q] \in WithBase => loc[q].base \in Snap
      BY DEF TypeInv, ReqSet, WithBase
    <2> QED BY <1>1, <2>1 DEF Works, Away
  <1> QED BY <1>1, <1>3, <1>4, <1>5, <1>8, <1>9, <1>10, <1>11 DEF Works, Away

-----------------------------------------------------------------------------
(* What a step of a request does to the store *)

\* It issues unused ids and decides the fate of its own documents.
DocsDecided(p) ==
  \A s \in Snap :
    \/ doc'[s] = doc[s]
    \/ doc[s] = "free" /\ doc'[s] \in {"new", "tx"}
    \/ s \in OwnIds(p) /\ doc[s] \in {"new", "tx"} /\ doc'[s] \in {"tx", "void"}
    \/ s \in OwnIds(p) /\ doc[s] = "tx" /\ doc'[s] = "saved" /\ pc[p] = "finish"

\* A new document names a file of its own or that of an original.
NamesGiven ==
  \A s \in Snap :
    \/ fname'[s] = fname[s]
    \/ doc[s] = "free" /\ doc'[s] # "free" /\ Settled(fname'[s]) /\ fname[fname'[s]] = fname'[s]

\* createCheckDocument, commit, roll-back, and the save of accept.
ChecksDecided(p) ==
  \A c \in Snap :
    \/ check'[c] = check[c]
    \/ /\ pc[p] = "insert" /\ c = loc[p].cur /\ check[c].st = "none"
       /\ check'[c] = [st |-> "tx", ident |-> loc[p].ident,
                       base |-> loc[p].base, diff |-> loc[p].diff]
    \/ /\ pc[p] = "finish" /\ c = loc[p].cur /\ check[c].st = "tx"
       /\ check'[c] = [check[c] EXCEPT !.st = "live"]
       /\ \A s \in OwnIds(p) : doc'[s] = "saved"
    \/ c = loc[p].cur /\ check[c].st = "tx" /\ check'[c] = NoCheck
    \/ /\ pc[p] = "aSave" /\ c = loc[p].chk /\ check[c].st = "live"
       /\ check'[c] = [check[c] EXCEPT !.base = c]

RowsDecided(p) ==
  /\ clock' >= clock
  /\ \A k \in Ident \X Snap :
       \/ row'[k] = row[k]
       \/ /\ pc[p] = "aUpsert" /\ k = <<check[loc[p].chk].ident, loc[p].chk>>
          /\ row'[k] = clock + 1 /\ clock' = clock + 1

FilesDecided(p) ==
  /\ \A f \in file \ file' : f \in OwnIds(p) /\ doc[f] = "void"
  /\ \A f \in file' \ file : f \in Snap /\ doc[f] = "free"

Effect(p) ==
  /\ OthersStay(p) /\ IdsFresh(p) /\ torn' = torn
  /\ DocsDecided(p) /\ NamesGiven /\ ChecksDecided(p) /\ RowsDecided(p) /\ FilesDecided(p)
  /\ loc'[p].base \in {None, loc[p].base, loc[p].cur} \cup RowSnaps

\* Most steps change one variable of the store, if any.
LEMMA StoreSame ==
  ASSUME TypeInv, NEW p \in Request
  PROVE  /\ UNCHANGED doc => DocsDecided(p)
         /\ UNCHANGED fname => NamesGiven
         /\ UNCHANGED check => ChecksDecided(p)
         /\ UNCHANGED <<row, clock>> => RowsDecided(p)
         /\ UNCHANGED file => FilesDecided(p)
  <1>1. clock \in Nat
    BY DEF TypeInv, TypeOK
  <1>2. clock >= clock
    BY <1>1
  <1> QED BY <1>2 DEF DocsDecided, NamesGiven, ChecksDecided, RowsDecided, FilesDecided

LEMMA StepOthers ==
  ASSUME TypeInv, NEW p \in Request, NEW t, NEW l,
         pc' = [pc EXCEPT ![p] = t], loc' = [loc EXCEPT ![p] = l]
  PROVE  OthersStay(p) /\ pc'[p] = t /\ loc'[p] = l
  BY DEF TypeInv, TypeOK, OthersStay

\* The documents and the file of an idle request.
LEMMA BlankWorks ==
  ASSUME NEW p \in Request, pc'[p] = "idle", loc'[p] = Blank
  PROVE  Works(p)' /\ IdsFresh(p) /\ loc'[p].base = None
  <1>1. /\ loc'[p].cur = None /\ loc'[p].diff = None /\ loc'[p].base = None
        /\ OwnIds(p)' = {}
    BY DEF Blank, OwnIds
  <1>2. ReqDocs(p)' /\ Acceptor(p)' /\ pc'[p] \notin RemoveSteps
    BY <1>1 DEF ReqDocs, Acceptor, Holding, CreateSteps, AcceptSteps, RemoveSteps, WithBase
  <1>3. HoldsFile(p)' /\ InFlight(p)' = {} /\ Owned(p)'
    BY <1>1, StoreAssumption DEF HoldsFile, CloneWindow, InFlight, Owned
  <1> QED BY <1>1, <1>2, <1>3 DEF Works, IdsFresh, WithBase

LEMMA LookupEffect ==
  ASSUME TypeInv, NEW p \in Request, Works(p), Whole, Lookup(p)
  PROVE  Effect(p) /\ Works(p)'
  <1>1. PICK i \in Ident, h \in Hash, sent \in BOOLEAN :
          LET found == {s \in Snap : sent /\ doc[s] = "saved" /\ imghash[s] = h} IN
            \/ \E s \in found :
                 /\ Goto(p, "access")
                 /\ loc' = [loc EXCEPT ![p] = [Blank EXCEPT !.ident = i, !.src = s]]
            \/ /\ found = {}
               /\ Goto(p, "write")
               /\ loc' = [loc EXCEPT ![p] = [Blank EXCEPT !.ident = i, !.hash = h]]
    BY DEF Lookup
  <1>2. PICK l : /\ loc' = [loc EXCEPT ![p] = l]
                 /\ \/ pc' = [pc EXCEPT ![p] = "access"] /\ doc[l.src] = "saved" /\ l.src \in Snap
                    \/ pc' = [pc EXCEPT ![p] = "write"]
                 /\ l.cur = None /\ l.diff = None /\ l.base = None
    <2>1. CASE \E s \in Snap :
                 /\ doc[s] = "saved" /\ Goto(p, "access")
                 /\ loc' = [loc EXCEPT ![p] = [Blank EXCEPT !.ident = i, !.src = s]]
      <3>1. PICK s \in Snap :
              /\ doc[s] = "saved" /\ Goto(p, "access")
              /\ loc' = [loc EXCEPT ![p] = [Blank EXCEPT !.ident = i, !.src = s]]
        BY <2>1
      <3> DEFINE l == [Blank EXCEPT !.ident = i, !.src = s]
      <3>2. l.src = s /\ l.cur = None /\ l.diff = None /\ l.base = None
        BY DEF Blank
      <3> QED BY <3>1, <3>2 DEF Goto
    <2>2. CASE /\ Goto(p, "write")
               /\ loc' = [loc EXCEPT ![p] = [Blank EXCEPT !.ident = i, !.hash = h]]
      <3> DEFINE l == [Blank EXCEPT !.ident = i, !.hash = h]
      <3>1. l.cur = None /\ l.diff = None /\ l.base = None
        BY DEF Blank
      <3> QED BY <2>2, <3>1 DEF Goto
    <2> QED BY <1>1, <2>1, <2>2
  <1>3. /\ OthersStay(p) /\ loc'[p] = l /\ pc'[p] \in {"access", "write"}
        /\ pc'[p] = "access" => l.src \in Snap /\ doc[l.src] = "saved"
    BY <1>2, StepOthers
  <1>4. UNCHANGED <<doc, fname, file, row, clock, check, torn>>
    BY DEF Lookup, docVars
  <1>5. OwnIds(p)' = {}
    BY <1>2, <1>3 DEF OwnIds
  <1>6. Effect(p)
    BY <1>2, <1>3, <1>4, <1>5, StoreSame DEF Effect, IdsFresh
  <1>7. ReqDocs(p)'
    BY <1>2, <1>3, <1>4 DEF ReqDocs, Settled, Holding, CreateSteps, WithBase
  <1>8. HoldsFile(p)' /\ InFlight(p)' = {} /\ Owned(p)'
    BY <1>2, <1>3, <1>5, StoreAssumption DEF HoldsFile, CloneWindow, InFlight, Owned
  <1> QED BY <1>2, <1>3, <1>6, <1>7, <1>8 DEF Works, Acceptor, WithBase, RemoveSteps, AcceptSteps

LEMMA AccessEffect ==
  ASSUME TypeInv, NEW p \in Request, Works(p), Whole, Access(p)
  PROVE  Effect(p) /\ Works(p)'
  <1>1. /\ pc[p] = "access" /\ pc' = [pc EXCEPT ![p] = "clone"] /\ fname[loc[p].src] \in file
        /\ UNCHANGED <<doc, fname, file, row, clock, check, torn, loc>>
    BY DEF Access, Goto, docVars
  <1>2. OthersStay(p) /\ pc'[p] = "clone" /\ loc'[p] = loc[p]
    BY <1>1 DEF TypeInv, TypeOK, OthersStay
  <1>3. loc[p].cur = None /\ loc[p].diff = None /\ Settled(loc[p].src)
    BY <1>1 DEF Works, ReqDocs, Holding, CreateSteps
  <1>4. OwnIds(p)' = {}
    BY <1>2, <1>3 DEF OwnIds
  <1>5. Effect(p)
    BY <1>1, <1>2, <1>4, StoreSame DEF Effect, IdsFresh
  <1>6. ReqDocs(p)'
    BY <1>1, <1>2, <1>3 DEF ReqDocs, Settled, Holding, CreateSteps, WithBase
  <1>7. HoldsFile(p)' /\ InFlight(p)' = {} /\ Owned(p)'
    BY <1>1, <1>2, <1>3, <1>4, StoreAssumption DEF HoldsFile, CloneWindow, InFlight, Owned
  <1> QED BY <1>2, <1>3, <1>5, <1>6, <1>7 DEF Works, Acceptor, WithBase, RemoveSteps, AcceptSteps

\* The documents of a request that creates none, or has only the first.
LEMMA CloneEffect ==
  ASSUME TypeInv, NEW p \in Request, Works(p), Whole, Clone(p), replicaSet
  PROVE  Effect(p) /\ Works(p)'
  <1>1. PICK s \in Snap :
          /\ doc[s] = "free"
          /\ doc' = [doc EXCEPT ![s] = "tx"]
          /\ fname' = [fname EXCEPT ![s] = fname[loc[p].src]]
          /\ loc' = [loc EXCEPT ![p].cur = s]
    BY DEF Clone, Inserted
  <1>2. /\ pc[p] = "clone" /\ pc' = [pc EXCEPT ![p] = "find"]
        /\ UNCHANGED <<file, row, clock, check, torn>>
    BY DEF Clone, Goto
  <1>3. /\ loc[p].cur = None /\ loc[p].diff = None /\ Settled(loc[p].src) /\ loc[p].src \in Snap
        /\ fname[loc[p].src] \in file /\ fname[loc[p].src] \in Snap
    BY <1>2 DEF Works, ReqDocs, Holding, CreateSteps, HoldsFile, CloneWindow, TypeInv, TypeOK, ReqSet
  <1>4. /\ OthersStay(p) /\ pc'[p] = "find" /\ loc'[p] = [loc[p] EXCEPT !.cur = s]
    BY <1>1, <1>2 DEF TypeInv, TypeOK, OthersStay
  <1>5. /\ loc'[p].cur = s /\ loc'[p].diff = None /\ loc'[p].base = loc[p].base
        /\ None \notin Snap
    BY <1>3, <1>4, StoreAssumption DEF TypeInv, TypeOK, Locals
  <1>6. OwnIds(p)' = {s}
    BY <1>5 DEF OwnIds
  <1>7. /\ \A t \in Snap : doc'[t] = IF t = s THEN "tx" ELSE doc[t]
        /\ \A t \in Snap : fname'[t] = IF t = s THEN fname[loc[p].src] ELSE fname[t]
    BY <1>1 DEF TypeInv, TypeOK
  <1>8. Settled(fname[loc[p].src]) /\ fname[fname[loc[p].src]] = fname[loc[p].src]
    BY <1>3 DEF Whole, CloneOf
  <1>9. NamesGiven /\ DocsDecided(p)
    BY <1>1, <1>7, <1>8 DEF NamesGiven, DocsDecided
  <1>10. Effect(p)
    BY <1>1, <1>2, <1>4, <1>5, <1>6, <1>9, StoreSame DEF Effect, IdsFresh
  <1>11. ReqDocs(p)'
    BY <1>4, <1>5, <1>7 DEF ReqDocs, Holding, CreateSteps, WithBase
  <1>12. HoldsFile(p)' /\ InFlight(p)' \subseteq file'
    BY <1>2, <1>3, <1>4, <1>5, <1>7 DEF HoldsFile, CloneWindow, InFlight
  <1>13. Owned(p)'
    <2>1. ASSUME NEW c \in Snap, check[c].diff = s  PROVE FALSE
      BY <1>1, <2>1, <1>5 DEF Whole, DiffOf
    <2> QED BY <1>2, <1>6, <2>1 DEF Owned
  <1> QED BY <1>4, <1>5, <1>10, <1>11, <1>12, <1>13 DEF Works, Acceptor, WithBase, RemoveSteps,
          AcceptSteps

LEMMA WriteFileEffect ==
  ASSUME TypeInv, NEW p \in Request, Works(p), Whole, WriteFile(p)
  PROVE  Effect(p) /\ Works(p)'
  <1>1. PICK s \in Snap :
          /\ doc[s] = "free"
          /\ doc' = [doc EXCEPT ![s] = "new"]
          /\ file' = file \cup {s}
          /\ loc' = [loc EXCEPT ![p].cur = s]
    BY DEF WriteFile
  <1>2. /\ pc[p] = "write" /\ pc' = [pc EXCEPT ![p] = "save"]
        /\ UNCHANGED <<fname, row, clock, check, torn>>
    BY DEF WriteFile, Goto
  <1>3. loc[p].cur = None /\ loc[p].diff = None
    BY <1>2 DEF Works, ReqDocs, Holding, CreateSteps
  <1>4. /\ OthersStay(p) /\ pc'[p] = "save" /\ loc'[p] = [loc[p] EXCEPT !.cur = s]
    BY <1>1, <1>2 DEF TypeInv, TypeOK, OthersStay
  <1>5. /\ loc'[p].cur = s /\ loc'[p].diff = None /\ loc'[p].base = loc[p].base
        /\ None \notin Snap
    BY <1>3, <1>4, StoreAssumption DEF TypeInv, TypeOK, Locals
  <1>6. OwnIds(p)' = {s}
    BY <1>5 DEF OwnIds
  <1>7. \A t \in Snap : doc'[t] = IF t = s THEN "new" ELSE doc[t]
    BY <1>1 DEF TypeInv, TypeOK
  <1>8. fname[s] = s
    BY <1>1 DEF Whole, FreeName
  <1>9. DocsDecided(p) /\ FilesDecided(p)
    BY <1>1, <1>7 DEF DocsDecided, FilesDecided
  <1>10. Effect(p)
    BY <1>1, <1>2, <1>4, <1>5, <1>6, <1>9, StoreSame DEF Effect, IdsFresh
  <1>11. ReqDocs(p)'
    BY <1>4, <1>5, <1>7 DEF ReqDocs, Holding, CreateSteps, WithBase
  <1>12. HoldsFile(p)' /\ InFlight(p)' \subseteq file'
    BY <1>1, <1>2, <1>4, <1>5, <1>7, <1>8 DEF HoldsFile, CloneWindow, InFlight
  <1>13. Owned(p)'
    <2>1. ASSUME NEW c \in Snap, check[c].diff = s  PROVE FALSE
      BY <1>1, <2>1, <1>5 DEF Whole, DiffOf
    <2> QED BY <1>2, <1>6, <2>1 DEF Owned
  <1> QED BY <1>4, <1>5, <1>10, <1>11, <1>12, <1>13 DEF Works, Acceptor, WithBase, RemoveSteps,
          AcceptSteps

LEMMA SaveDocEffect ==
  ASSUME TypeInv, NEW p \in Request, Works(p), Whole, SaveDoc(p), replicaSet
  PROVE  Effect(p) /\ Works(p)'
  <1>1. /\ pc[p] = "save" /\ pc' = [pc EXCEPT ![p] = "find"]
        /\ doc' = [doc EXCEPT ![loc[p].cur] = "tx"]
        /\ UNCHANGED <<fname, file, row, clock, check, torn, loc>>
    BY DEF SaveDoc, Goto, Inserted
  <1>2. /\ loc[p].cur \in Snap /\ doc[loc[p].cur] = "new" /\ loc[p].diff = None
        /\ fname[loc[p].cur] = loc[p].cur /\ None \notin Snap
    BY <1>1, StoreAssumption DEF Works, ReqDocs, Holding, CreateSteps, TypeInv, ReqSet, HoldsFile
  <1>3. /\ OthersStay(p) /\ pc'[p] = "find" /\ loc'[p] = loc[p]
    BY <1>1 DEF TypeInv, TypeOK, OthersStay
  <1>4. OwnIds(p)' = {loc[p].cur} /\ OwnIds(p) = {loc[p].cur}
    BY <1>2, <1>3 DEF OwnIds
  <1>5. \A t \in Snap : doc'[t] = IF t = loc[p].cur THEN "tx" ELSE doc[t]
    BY <1>1, <1>2 DEF TypeInv, TypeOK
  <1>6. loc[p].cur \in InFlight(p)
    BY <1>2 DEF InFlight
  <1>7. DocsDecided(p)
    BY <1>2, <1>4, <1>5 DEF DocsDecided
  <1>8. Effect(p)
    BY <1>1, <1>3, <1>4, <1>7, StoreSame DEF Effect, IdsFresh
  <1>9. ReqDocs(p)'
    BY <1>2, <1>3, <1>5 DEF ReqDocs, Holding, CreateSteps, WithBase
  <1>10. HoldsFile(p)' /\ InFlight(p)' \subseteq file'
    BY <1>1, <1>2, <1>3, <1>5, <1>6 DEF HoldsFile, CloneWindow, InFlight, Works
  <1>11. Owned(p)'
    BY <1>1, <1>3, <1>4 DEF Owned, Works
  <1> QED BY <1>2, <1>3, <1>8, <1>9, <1>10, <1>11 DEF Works, Acceptor, WithBase, RemoveSteps,
          AcceptSteps

\* A step that leaves the documents alone leaves the request's as they are.
LEMMA SameDocs ==
  ASSUME TypeInv, NEW p \in Request, Works(p), UNCHANGED <<doc, fname, file, check>>,
         loc'[p].cur = loc[p].cur, loc'[p].diff = loc[p].diff,
         pc'[p] \notin {"clone", "save", "rUnlink"}
  PROVE  /\ IdsFresh(p) /\ HoldsFile(p)' /\ InFlight(p)' \subseteq file' /\ Owned(p)'
         /\ loc'[p].diff # None => loc'[p].diff # loc'[p].cur /\ check'[loc'[p].diff].st = "none"
  <1>1. OwnIds(p)' = OwnIds(p)
    BY DEF OwnIds
  <1>2. HoldsFile(p)'
    BY DEF Works, HoldsFile, CloneWindow
  <1>3. InFlight(p)' = InFlight(p)
    BY DEF InFlight
  <1> QED BY <1>1, <1>2, <1>3 DEF Works, IdsFresh, Owned

LEMMA RowKnown ==
  ASSUME TypeInv, Whole, NEW i \in Ident, NEW s \in RowsOf(i)
  PROVE  s \in Snap /\ s \in RowSnaps /\ doc[s] = "saved" /\ Created(s)
  <1>1. s \in Snap /\ row[<<i, s>>] > 0 /\ <<i, s>> \in Ident \X Snap
    BY DEF RowsOf
  <1>2. RowOf(<<i, s>>)
    BY <1>1 DEF Whole
  <1>3. <<i, s>> \in Rows /\ <<i, s>>[2] = s
    BY <1>1 DEF Rows
  <1> QED BY <1>1, <1>2, <1>3 DEF RowOf, RowSnaps, Created

LEMMA FindBaselineEffect ==
  ASSUME TypeInv, NEW p \in Request, Works(p), Whole, FindBaseline(p)
  PROVE  Effect(p) /\ Works(p)'
  <1>1. /\ pc[p] = "find" /\ loc[p].cur \in Snap /\ loc[p].ident \in Ident
        /\ doc[loc[p].cur] = "tx" /\ loc[p].diff = None
        /\ UNCHANGED <<doc, fname, file, row, clock, check, torn>>
    BY DEF FindBaseline, docVars, TypeInv, ReqSet, Works, ReqDocs, Holding, CreateSteps
  <1>2. BaselineIdent(loc[p].ident) \in Ident
    BY <1>1, StoreAssumption DEF BaselineIdent
  <1>3. PICK s : /\ loc' = [loc EXCEPT ![p].base = s]
                 /\ \/ s = loc[p].cur /\ pc' = [pc EXCEPT ![p] = "insert"]
                    \/ /\ s \in RowSnaps /\ doc[s] = "saved" /\ Created(s)
                       /\ pc' = [pc EXCEPT ![p] = "inspect"]
    BY <1>2, RowKnown DEF FindBaseline, Goto
  <1>4. /\ loc'[p].base = s /\ loc'[p].cur = loc[p].cur /\ loc'[p].diff = loc[p].diff
        /\ pc'[p] \in {"insert", "inspect"} /\ OthersStay(p)
        /\ s = loc[p].cur \/ (doc[s] = "saved" /\ Created(s))
    BY <1>3 DEF TypeInv, TypeOK, Locals, OthersStay
  <1>5. /\ IdsFresh(p) /\ HoldsFile(p)' /\ InFlight(p)' \subseteq file' /\ Owned(p)'
        /\ loc'[p].diff # None => loc'[p].diff # loc'[p].cur /\ check'[loc'[p].diff].st = "none"
    BY <1>1, <1>4, SameDocs
  <1>6. Effect(p)
    BY <1>1, <1>3, <1>4, <1>5, StoreSame DEF Effect
  <1>7. ReqDocs(p)'
    BY <1>1, <1>4 DEF ReqDocs, Holding, CreateSteps, WithBase, Settled
  <1> QED BY <1>1, <1>4, <1>5, <1>6, <1>7 DEF Works, Acceptor, WithBase, RemoveSteps, AcceptSteps,
          Created

LEMMA InspectEffect ==
  ASSUME TypeInv, NEW p \in Request, Works(p), Whole, Inspect(p)
  PROVE  Effect(p) /\ Works(p)'
  <1>1. /\ pc[p] = "inspect" /\ loc[p].cur \in Snap
        /\ doc[loc[p].cur] = "tx" /\ loc[p].diff = None
        /\ loc[p].base = loc[p].cur \/ (doc[loc[p].base] = "saved" /\ Created(loc[p].base))
        /\ UNCHANGED <<doc, fname, file, row, clock, check, torn>>
    BY DEF Inspect, docVars, TypeInv, ReqSet, Works, ReqDocs, Holding, CreateSteps, WithBase
  <1>2. /\ loc' = loc \/ loc' = [loc EXCEPT ![p].base = loc[p].cur]
        /\ pc' = [pc EXCEPT ![p] = "insert"] \/ pc' = [pc EXCEPT ![p] = "compare"]
    BY DEF Inspect, Goto
  <1>3. /\ loc'[p].base \in {loc[p].base, loc[p].cur}
        /\ loc'[p].cur = loc[p].cur /\ loc'[p].diff = loc[p].diff
        /\ pc'[p] \in {"insert", "compare"} /\ OthersStay(p)
    BY <1>2 DEF TypeInv, TypeOK, Locals, OthersStay
  <1>4. /\ IdsFresh(p) /\ HoldsFile(p)' /\ InFlight(p)' \subseteq file' /\ Owned(p)'
        /\ loc'[p].diff # None => loc'[p].diff # loc'[p].cur /\ check'[loc'[p].diff].st = "none"
    BY <1>1, <1>3, SameDocs
  <1>5. Effect(p)
    BY <1>1, <1>3, <1>4, StoreSame DEF Effect
  <1>6. ReqDocs(p)'
    BY <1>1, <1>3 DEF ReqDocs, Holding, CreateSteps, WithBase, Settled
  <1> QED BY <1>1, <1>3, <1>4, <1>5, <1>6 DEF Works, Acceptor, WithBase, RemoveSteps, AcceptSteps,
          Created

LEMMA CompareEffect ==
  ASSUME TypeInv, NEW p \in Request, Works(p), Whole, Compare(p)
  PROVE  Effect(p) /\ Works(p)'
  <1>1. /\ pc[p] = "compare" /\ loc[p].cur \in Snap
        /\ doc[loc[p].cur] = "tx" /\ loc[p].diff = None
        /\ loc[p].base = loc[p].cur \/ (doc[loc[p].base] = "saved" /\ Created(loc[p].base))
        /\ UNCHANGED <<doc, fname, file, row, clock, check, torn, loc>>
    BY DEF Compare, docVars, TypeInv, ReqSet, Works, ReqDocs, Holding, CreateSteps, WithBase
  <1>2. pc' = [pc EXCEPT ![p] = "insert"] \/ pc' = [pc EXCEPT ![p] = "diffWrite"]
    BY DEF Compare, Goto
  <1>3. pc'[p] \in {"insert", "diffWrite"} /\ OthersStay(p) /\ loc'[p] = loc[p]
    BY <1>1, <1>2 DEF TypeInv, TypeOK, OthersStay
  <1>4. /\ IdsFresh(p) /\ HoldsFile(p)' /\ InFlight(p)' \subseteq file' /\ Owned(p)'
        /\ loc'[p].diff # None => loc'[p].diff # loc'[p].cur /\ check'[loc'[p].diff].st = "none"
    BY <1>1, <1>3, SameDocs
  <1>5. Effect(p)
    BY <1>1, <1>3, <1>4, StoreSame DEF Effect
  <1>6. ReqDocs(p)'
    BY <1>1, <1>3 DEF ReqDocs, Holding, CreateSteps, WithBase, Settled
  <1> QED BY <1>1, <1>3, <1>4, <1>5, <1>6 DEF Works, Acceptor, WithBase, RemoveSteps, AcceptSteps,
          Created

LEMMA DiffWriteEffect ==
  ASSUME TypeInv, NEW p \in Request, Works(p), Whole, DiffWrite(p)
  PROVE  Effect(p) /\ Works(p)'
  <1>1. PICK s \in Snap :
          /\ doc[s] = "free"
          /\ doc' = [doc EXCEPT ![s] = "new"]
          /\ file' = file \cup {s}
          /\ loc' = [loc EXCEPT ![p].diff = s]
    BY DEF DiffWrite
  <1>2. /\ pc[p] = "diffWrite" /\ pc' = [pc EXCEPT ![p] = "diffSave"]
        /\ UNCHANGED <<fname, row, clock, check, torn>>
    BY DEF DiffWrite, Goto
  <1>3. /\ loc[p].cur \in Snap /\ doc[loc[p].cur] = "tx" /\ loc[p].diff = None
        /\ loc[p].base = loc[p].cur \/ (doc[loc[p].base] = "saved" /\ Created(loc[p].base))
        /\ None \notin Snap
    BY <1>2, StoreAssumption
    DEF TypeInv, ReqSet, Works, ReqDocs, Holding, CreateSteps, WithBase
  <1>4. /\ OthersStay(p) /\ pc'[p] = "diffSave" /\ loc'[p] = [loc[p] EXCEPT !.diff = s]
    BY <1>1, <1>2 DEF TypeInv, TypeOK, OthersStay
  <1>5. /\ loc'[p].cur = loc[p].cur /\ loc'[p].diff = s /\ loc'[p].base = loc[p].base
        /\ s # loc[p].cur
    BY <1>1, <1>3, <1>4 DEF TypeInv, TypeOK, Locals
  <1>6. OwnIds(p)' = {loc[p].cur, s} /\ OwnIds(p) = {loc[p].cur}
    BY <1>3, <1>5 DEF OwnIds
  <1>7. \A t \in Snap : doc'[t] = IF t = s THEN "new" ELSE doc[t]
    BY <1>1 DEF TypeInv, TypeOK
  <1>8. fname[s] = s /\ check[s].st = "none"
    BY <1>1 DEF Whole, FreeName, TypeInv, CheckSet
  <1>9. DocsDecided(p) /\ FilesDecided(p)
    BY <1>1, <1>7 DEF DocsDecided, FilesDecided
  <1>10. Effect(p)
    BY <1>1, <1>2, <1>4, <1>5, <1>6, <1>9, StoreSame DEF Effect, IdsFresh
  <1>11. loc[p].base # loc[p].cur => doc'[loc[p].base] = "saved"
    BY <1>1, <1>2, <1>3 DEF TypeInv, TypeOK, ReqSet
  <1>12. ReqDocs(p)'
    BY <1>3, <1>4, <1>5, <1>7, <1>11 DEF ReqDocs, Holding, CreateSteps, WithBase, Settled
  <1>13. HoldsFile(p)'
    <2>1. ASSUME NEW f \in Snap, CloneWindow(p, f)'  PROVE f \in file'
      BY <1>1, <1>2, <1>3, <1>4, <1>5, <1>7, <2>1 DEF CloneWindow, Works, HoldsFile
    <2> QED BY <1>2, <1>4, <1>5, <1>8, <2>1 DEF HoldsFile
  <1>14. InFlight(p)' \subseteq file'
    <2>1. loc[p].cur \in InFlight(p) \/ fname[loc[p].cur] # loc[p].cur
      BY <1>3 DEF InFlight
    <2> QED BY <1>1, <1>2, <1>5, <2>1 DEF InFlight, Works
  <1>15. Owned(p)'
    <2>1. ASSUME NEW c \in Snap, check[c].diff \in {loc[p].cur, s}  PROVE FALSE
      <3>1. check[c].diff # s
        BY <1>1, <1>3 DEF Whole, DiffOf
      <3>2. check[c].diff # loc[p].cur
        BY <1>3, <1>6 DEF Works, Owned
      <3> QED BY <2>1, <3>1, <3>2
    <2> QED BY <1>2, <1>6, <2>1 DEF Owned
  <1> QED BY <1>2, <1>3, <1>4, <1>5, <1>8, <1>10, <1>11, <1>12, <1>13, <1>14, <1>15
          DEF Works, Acceptor, WithBase, RemoveSteps, AcceptSteps, Created

LEMMA DiffSaveEffect ==
  ASSUME TypeInv, NEW p \in Request, Works(p), Whole, DiffSave(p), replicaSet
  PROVE  Effect(p) /\ Works(p)'
  <1>1. /\ pc[p] = "diffSave" /\ pc' = [pc EXCEPT ![p] = "insert"]
        /\ doc' = [doc EXCEPT ![loc[p].diff] = "tx"]
        /\ UNCHANGED <<fname, file, row, clock, check, torn, loc>>
    BY DEF DiffSave, Goto, Inserted
  <1>2. /\ loc[p].cur \in Snap /\ doc[loc[p].cur] = "tx"
        /\ loc[p].diff \in Snap /\ doc[loc[p].diff] = "new" /\ loc[p].diff # loc[p].cur
        /\ loc[p].base \in Snap
        /\ loc[p].base = loc[p].cur \/ (doc[loc[p].base] = "saved" /\ Created(loc[p].base))
        /\ None \notin Snap
    BY <1>1, StoreAssumption
    DEF TypeInv, ReqSet, Works, ReqDocs, Holding, CreateSteps, WithBase
  <1>3. OthersStay(p) /\ pc'[p] = "insert" /\ loc'[p] = loc[p]
    BY <1>1 DEF TypeInv, TypeOK, OthersStay
  <1>4. OwnIds(p)' = OwnIds(p) /\ loc[p].diff \in OwnIds(p)
    BY <1>2, <1>3 DEF OwnIds
  <1>5. \A t \in Snap : doc'[t] = IF t = loc[p].diff THEN "tx" ELSE doc[t]
    BY <1>1, <1>2 DEF TypeInv, TypeOK
  <1>6. DocsDecided(p)
    BY <1>2, <1>4, <1>5 DEF DocsDecided
  <1>7. Effect(p)
    BY <1>1, <1>3, <1>4, <1>6, StoreSame DEF Effect, IdsFresh
  <1>8. ReqDocs(p)'
    BY <1>2, <1>3, <1>5 DEF ReqDocs, Holding, CreateSteps, WithBase, Settled
  <1>9. HoldsFile(p)'
    <2>1. ASSUME NEW f \in Snap, CloneWindow(p, f)'  PROVE f \in file'
      BY <1>1, <1>2, <1>3, <1>5, <2>1 DEF CloneWindow, Works, HoldsFile
    <2> QED BY <1>1, <1>3, <2>1 DEF HoldsFile, Works
  <1>10. InFlight(p)' \subseteq file'
    <2>1. InFlight(p)' \subseteq InFlight(p)
      BY <1>1, <1>2, <1>3, <1>5 DEF InFlight
    <2> QED BY <1>1, <2>1 DEF Works
  <1>11. Owned(p)'
    BY <1>1, <1>3, <1>4 DEF Owned, Works
  <1> QED BY <1>1, <1>2, <1>3, <1>5, <1>7, <1>8, <1>9, <1>10, <1>11
          DEF Works, Acceptor, WithBase, RemoveSteps, AcceptSteps, Created

LEMMA InsertCheckEffect ==
  ASSUME TypeInv, NEW p \in Request, Works(p), Whole, InsertCheck(p), replicaSet
  PROVE  Effect(p) /\ Works(p)'
  <1>1. /\ pc[p] = "insert" /\ pc' = [pc EXCEPT ![p] = "finish"]
        /\ check' = [check EXCEPT ![loc[p].cur] =
                       [st |-> "tx", ident |-> loc[p].ident,
                        base |-> loc[p].base, diff |-> loc[p].diff]]
        /\ UNCHANGED <<doc, fname, file, row, clock, torn, loc>>
    BY DEF InsertCheck, Goto, docVars
  <1>2. /\ loc[p].cur \in Snap /\ doc[loc[p].cur] = "tx" /\ check[loc[p].cur].st = "none"
        /\ loc[p].diff # None => /\ doc[loc[p].diff] = "tx" /\ loc[p].diff # loc[p].cur
                                 /\ check[loc[p].diff].st = "none"
        /\ loc[p].base \in Snap
        /\ loc[p].base = loc[p].cur \/ (doc[loc[p].base] = "saved" /\ Created(loc[p].base))
        /\ loc[p].diff \in Snap \cup {None} /\ None \notin Snap
    BY <1>1, StoreAssumption
    DEF TypeInv, TypeOK, Locals, ReqSet, Works, ReqDocs, Holding, CreateSteps, Uninserted, WithBase
  <1>3. OthersStay(p) /\ pc'[p] = "finish" /\ loc'[p] = loc[p]
    BY <1>1 DEF TypeInv, TypeOK, OthersStay
  <1>4. OwnIds(p)' = OwnIds(p) /\ loc[p].cur \in OwnIds(p)
    BY <1>2, <1>3 DEF OwnIds
  <1>5. \A c \in Snap : check'[c] = IF c = loc[p].cur
                                    THEN [st |-> "tx", ident |-> loc[p].ident,
                                          base |-> loc[p].base, diff |-> loc[p].diff]
                                    ELSE check[c]
    BY <1>1, <1>2 DEF TypeInv, TypeOK
  <1>6. ChecksDecided(p)
    BY <1>1, <1>2, <1>5 DEF ChecksDecided
  <1>7. Effect(p)
    BY <1>1, <1>3, <1>4, <1>6, StoreSame DEF Effect, IdsFresh
  <1>8. ReqDocs(p)'
    BY <1>1, <1>2, <1>3, <1>5 DEF ReqDocs, Holding, CreateSteps, WithBase, Settled
  <1>9. HoldsFile(p)'
    <2>1. ASSUME NEW f \in Snap, CloneWindow(p, f)'  PROVE f \in file'
      BY <1>1, <1>3, <2>1 DEF CloneWindow, Works, HoldsFile
    <2> QED BY <1>1, <1>3, <2>1 DEF HoldsFile, Works
  <1>10. InFlight(p)' \subseteq file'
    BY <1>1, <1>3 DEF InFlight, Works
  <1>11. Owned(p)'
    <2>1. ASSUME NEW c \in Snap, check'[c].diff \in OwnIds(p)
          PROVE  check'[c].diff = loc[p].diff /\ c = loc[p].cur
      BY <1>5, <2>1 DEF Owned, Works
    <2> QED BY <1>3, <1>4, <2>1 DEF Owned
  <1>12. loc[p].base # loc[p].cur => Created(loc[p].base)'
    BY <1>1, <1>2, <1>5 DEF Created
  <1>13. loc[p].diff # None => check'[loc[p].diff].st = "none"
    BY <1>2, <1>5
  <1> QED BY <1>1, <1>2, <1>3, <1>7, <1>8, <1>9, <1>10, <1>11, <1>12, <1>13
          DEF Works, Acceptor, WithBase, RemoveSteps, AcceptSteps

LEMMA CommitEffect ==
  ASSUME TypeInv, NEW p \in Request, Works(p), Whole, Commit(p)
  PROVE  Effect(p) /\ Works(p)'
  <1>1. /\ pc[p] = "finish" /\ pc' = [pc EXCEPT ![p] = "idle"]
        /\ loc' = [loc EXCEPT ![p] = Blank]
        /\ doc' = [s \in Snap |-> IF s \in {loc[p].cur, loc[p].diff} /\ doc[s] = "tx"
                                  THEN "saved" ELSE doc[s]]
        /\ UNCHANGED <<fname, file, row, clock, torn>>
    BY DEF Commit, Goto, Finish
  <1>2. check' = [check EXCEPT ![loc[p].cur].st =
                    IF check[loc[p].cur].st = "tx" THEN "live" ELSE check[loc[p].cur].st]
    BY DEF Commit
  <1>3. /\ loc[p].cur \in Snap /\ doc[loc[p].cur] = "tx" /\ check[loc[p].cur].st = "tx"
        /\ loc[p].diff # None => doc[loc[p].diff] = "tx"
        /\ loc[p].diff \in Snap \cup {None} /\ None \notin Snap
    BY <1>1, StoreAssumption
    DEF TypeInv, TypeOK, Locals, ReqSet, Works, ReqDocs, Holding, CreateSteps
  <1>4. OthersStay(p) /\ pc'[p] = "idle" /\ loc'[p] = Blank
    BY <1>1 DEF TypeInv, TypeOK, OthersStay
  <1>5. \A s \in Snap : doc'[s] = IF s \in OwnIds(p) THEN "saved" ELSE doc[s]
    BY <1>1, <1>3 DEF OwnIds
  <1>6. OwnIds(p) \subseteq Snap /\ \A s \in OwnIds(p) : doc[s] = "tx"
    BY <1>3 DEF OwnIds
  <1>7. DocsDecided(p)
    BY <1>1, <1>5, <1>6 DEF DocsDecided
  <1>8. \A c \in Snap : check'[c] = IF c = loc[p].cur THEN [check[c] EXCEPT !.st = "live"]
                                    ELSE check[c]
    BY <1>2, <1>3 DEF TypeInv, TypeOK, CheckRec
  <1>9. ChecksDecided(p)
    BY <1>1, <1>3, <1>5, <1>6, <1>8 DEF ChecksDecided
  <1>10. Works(p)' /\ IdsFresh(p) /\ loc'[p].base = None
    BY <1>4, BlankWorks
  <1> QED BY <1>1, <1>4, <1>7, <1>9, <1>10, StoreSame DEF Effect

\* What Fail and Die undo.
LEMMA RollBackDecided ==
  ASSUME TypeInv, NEW p \in Request, RollBackDocs(p)
  PROVE  /\ DocsDecided(p) /\ ChecksDecided(p)
         /\ \A s \in Snap : doc'[s] = IF s \in OwnIds(p) /\ doc[s] \in {"new", "tx"}
                                      THEN "void" ELSE doc[s]
         /\ \A c \in Snap : check'[c] = check[c] \/ check'[c] = NoCheck
  <1>1. \A s \in Snap : doc'[s] = IF s \in OwnIds(p) /\ doc[s] \in {"new", "tx"}
                                  THEN "void" ELSE doc[s]
    BY StoreAssumption DEF RollBackDocs, OwnIds
  <1>2. \A c \in Snap : check'[c] = IF c = loc[p].cur /\ check[c].st = "tx"
                                    THEN NoCheck ELSE check[c]
    BY DEF RollBackDocs
  <1> QED BY <1>1, <1>2 DEF DocsDecided, ChecksDecided

LEMMA FailEffect ==
  ASSUME TypeInv, NEW p \in Request, Works(p), Whole, Fail(p)
  PROVE  Effect(p) /\ Works(p)'
  <1>1. pc[p] \in CreateSteps /\ RollBackDocs(p) /\ UNCHANGED <<fname, file, row, clock, torn>>
    BY DEF Fail
  <1>2. /\ DocsDecided(p) /\ ChecksDecided(p)
        /\ \A s \in Snap : doc'[s] = IF s \in OwnIds(p) /\ doc[s] \in {"new", "tx"}
                                     THEN "void" ELSE doc[s]
        /\ \A c \in Snap : check'[c] = check[c] \/ check'[c] = NoCheck
    BY <1>1, RollBackDecided
  <1>3. CASE Finish(p)
    <2>1. OthersStay(p) /\ pc'[p] = "idle" /\ loc'[p] = Blank
      BY <1>3 DEF Finish, Goto, TypeInv, TypeOK, OthersStay
    <2>2. Works(p)' /\ IdsFresh(p) /\ loc'[p].base = None
      BY <2>1, BlankWorks
    <2> QED BY <1>1, <1>2, <2>1, <2>2, StoreSame DEF Effect
  <1>4. CASE /\ pc[p] \notin {"access", "clone", "write", "save"}
             /\ Goto(p, "cleanup")
             /\ loc' = [loc EXCEPT ![p].diff = IF pc[p] = "diffSave" THEN None ELSE loc[p].diff]
    <2>1. /\ OthersStay(p) /\ pc'[p] = "cleanup"
          /\ loc'[p].cur = loc[p].cur /\ loc'[p].base = loc[p].base
          /\ loc'[p].diff = IF pc[p] = "diffSave" THEN None ELSE loc[p].diff
      BY <1>4 DEF Goto, TypeInv, TypeOK, Locals, OthersStay
    <2>2. /\ loc[p].cur \in Snap /\ doc[loc[p].cur] = "tx"
          /\ pc[p] # "diffSave" /\ loc[p].diff # None => doc[loc[p].diff] = "tx"
          /\ loc[p].diff # None => loc[p].diff # loc[p].cur
          /\ loc[p].diff \in Snap \cup {None} /\ None \notin Snap
      BY <1>1, <1>4, StoreAssumption
      DEF TypeInv, TypeOK, Locals, ReqSet, Works, ReqDocs, Holding, CreateSteps
    <2>3. /\ OwnIds(p)' \subseteq OwnIds(p) /\ loc[p].cur \in OwnIds(p)
          /\ OwnIds(p)' \subseteq {loc[p].cur, loc'[p].diff}
      BY <2>1, <2>2 DEF OwnIds
    <2>4. doc'[loc[p].cur] = "void" /\ (loc'[p].diff # None => doc'[loc'[p].diff] = "void")
      BY <1>2, <2>1, <2>2 DEF OwnIds
    <2>5. Effect(p)
      BY <1>1, <1>2, <2>1, <2>3, StoreSame DEF Effect, IdsFresh
    <2>6. ReqDocs(p)'
      BY <2>1, <2>2, <2>4 DEF ReqDocs, Holding, CreateSteps, WithBase
    <2>7. HoldsFile(p)' /\ InFlight(p)' = {}
      <3>1. loc'[p].diff # None => fname[loc'[p].diff] = loc'[p].diff
        BY <2>1 DEF Works, HoldsFile
      <3> QED BY <1>1, <2>1, <2>4, <3>1 DEF HoldsFile, CloneWindow, InFlight
    <2>8. Owned(p)'
      <3>1. ASSUME NEW c \in Snap, check'[c].diff \in OwnIds(p)'
            PROVE  check'[c].diff = loc'[p].diff /\ c = loc'[p].cur
        <4>1. check'[c] = check[c]
          BY <1>2, <2>2, <2>3, <3>1 DEF NoCheck, OwnIds
        <4>2. check[c].diff = loc[p].diff /\ c = loc[p].cur
          BY <2>3, <3>1, <4>1 DEF Works, Owned
        <4>3. check[c].diff # loc[p].cur
          BY <2>2, <2>3, <3>1, <4>1, <4>2 DEF OwnIds
        <4> QED BY <2>1, <2>3, <3>1, <4>1, <4>2, <4>3
      <3> QED BY <3>1 DEF Owned
    <2>9. loc'[p].diff # None => check'[loc'[p].diff].st = "none"
      BY <1>2, <2>1, <2>2 DEF Works, NoCheck
    <2> QED BY <2>1, <2>2, <2>5, <2>6, <2>7, <2>8, <2>9
            DEF Works, Acceptor, WithBase, RemoveSteps, AcceptSteps
  <1> QED BY <1>3, <1>4 DEF Fail

LEMMA CleanupEffect ==
  ASSUME TypeInv, NEW p \in Request, Works(p), Whole, Cleanup(p)
  PROVE  Effect(p) /\ Works(p)'
  <1>1. /\ pc[p] = "cleanup" /\ file' = file \ CleanupFiles(p)
        /\ UNCHANGED <<doc, fname, row, clock, check, torn>>
    BY DEF Cleanup, docVars
  <1>2. OthersStay(p) /\ pc'[p] = "idle" /\ loc'[p] = Blank
    BY DEF Cleanup, Finish, Goto, TypeInv, TypeOK, OthersStay
  <1>3. \A f \in CleanupFiles(p) : f \in OwnIds(p) /\ doc[f] = "void"
    BY <1>1, StoreAssumption DEF CleanupFiles, OwnIds, Works, ReqDocs
  <1>4. FilesDecided(p)
    BY <1>1, <1>3 DEF FilesDecided
  <1>5. Works(p)' /\ IdsFresh(p) /\ loc'[p].base = None
    BY <1>2, BlankWorks
  <1> QED BY <1>1, <1>2, <1>4, <1>5, StoreSame DEF Effect

LEMMA DieEffect ==
  ASSUME TypeInv, NEW p \in Request, Works(p), Whole, Die(p)
  PROVE  Effect(p) /\ Works(p)'
  <1>1. RollBackDocs(p) /\ UNCHANGED <<fname, file, row, clock, torn>>
    BY DEF Die, Works, RemoveSteps
  <1>2. OthersStay(p) /\ pc'[p] = "idle" /\ loc'[p] = Blank
    BY DEF Die, Finish, Goto, TypeInv, TypeOK, OthersStay
  <1>3. DocsDecided(p) /\ ChecksDecided(p)
    BY <1>1, RollBackDecided
  <1>4. Works(p)' /\ IdsFresh(p) /\ loc'[p].base = None
    BY <1>2, BlankWorks
  <1> QED BY <1>1, <1>2, <1>3, <1>4, StoreSame DEF Effect

\* An acceptance holds no documents.
LEMMA AcceptorWorks ==
  ASSUME NEW p \in Request, pc'[p] \in AcceptSteps, check'[loc'[p].chk].st = "live",
         loc'[p].cur = None, loc'[p].diff = None
  PROVE  Works(p)' /\ IdsFresh(p)
  <1>1. OwnIds(p)' = {}
    BY DEF OwnIds
  <1>2. ReqDocs(p)' /\ Acceptor(p)' /\ pc'[p] \notin RemoveSteps /\ pc'[p] \notin WithBase
    BY DEF ReqDocs, Acceptor, Holding, CreateSteps, AcceptSteps, RemoveSteps, WithBase
  <1>3. HoldsFile(p)' /\ InFlight(p)' = {} /\ Owned(p)'
    BY <1>1, StoreAssumption DEF HoldsFile, CloneWindow, InFlight, Owned, AcceptSteps
  <1> QED BY <1>1, <1>2, <1>3 DEF Works, IdsFresh

LEMMA AcceptStartEffect ==
  ASSUME TypeInv, NEW p \in Request, Works(p), Whole, AcceptStart(p)
  PROVE  Effect(p) /\ Works(p)'
  <1>1. PICK c \in Snap, link \in BOOLEAN :
          /\ check[c].st = "live"
          /\ loc' = [loc EXCEPT ![p] = [Blank EXCEPT !.chk = c, !.link = link]]
    BY DEF AcceptStart
  <1>2. /\ pc' = [pc EXCEPT ![p] = "aUpsert"]
        /\ UNCHANGED <<doc, fname, file, row, clock, check, torn>>
    BY DEF AcceptStart, Goto, docVars
  <1>3. /\ OthersStay(p) /\ pc'[p] = "aUpsert"
        /\ loc'[p] = [Blank EXCEPT !.chk = c, !.link = link]
    BY <1>1, <1>2, StepOthers
  <1>4. loc'[p].cur = None /\ loc'[p].diff = None /\ loc'[p].base = None /\ loc'[p].chk = c
    BY <1>3 DEF Blank
  <1>5. Works(p)' /\ IdsFresh(p)
    BY <1>1, <1>2, <1>3, <1>4, AcceptorWorks DEF AcceptSteps
  <1> QED BY <1>2, <1>3, <1>4, <1>5, StoreSame DEF Effect

LEMMA AcceptUpsertEffect ==
  ASSUME TypeInv, NEW p \in Request, Works(p), Whole, AcceptUpsert(p)
  PROVE  Effect(p) /\ Works(p)'
  <1>1. /\ pc[p] = "aUpsert" /\ pc' = [pc EXCEPT ![p] = "aSave"]
        /\ UNCHANGED <<doc, fname, file, check, torn, loc>>
    BY DEF AcceptUpsert, Goto, docVars
  <1>2. OthersStay(p) /\ pc'[p] = "aSave" /\ loc'[p] = loc[p]
    BY <1>1 DEF TypeInv, TypeOK, OthersStay
  <1>3. /\ check[loc[p].chk].st = "live" /\ loc[p].cur = None /\ loc[p].diff = None
    BY <1>1 DEF Works, ReqDocs, Acceptor, AcceptSteps, Holding, CreateSteps
  <1>4. Works(p)' /\ IdsFresh(p)
    BY <1>1, <1>2, <1>3, AcceptorWorks DEF AcceptSteps
  <1>5. RowsDecided(p)
    <2>1. clock \in Nat /\ clock + 1 >= clock /\ clock >= clock
      BY DEF TypeInv, TypeOK
    <2>2. CASE UNCHANGED <<row, clock>>
      BY <2>1, <2>2 DEF RowsDecided
    <2>3. CASE /\ clock' = clock + 1
               /\ row' = [row EXCEPT ![<<check[loc[p].chk].ident, loc[p].chk>>] = clock + 1]
      BY <1>1, <2>1, <2>3 DEF RowsDecided, TypeInv, TypeOK
    <2> QED BY <2>2, <2>3 DEF AcceptUpsert
  <1> QED BY <1>1, <1>2, <1>4, <1>5, StoreSame DEF Effect

LEMMA AcceptSaveEffect ==
  ASSUME TypeInv, NEW p \in Request, Works(p), Whole, AcceptSave(p)
  PROVE  Effect(p) /\ Works(p)'
  <1> DEFINE c == loc[p].chk
  <1>1. /\ pc[p] = "aSave" /\ UNCHANGED <<doc, fname, file, row, clock, torn>>
        /\ check' = [check EXCEPT ![c].base =
                       IF check[c].st = "live" /\ loc[p].link THEN c ELSE check[c].base]
    BY DEF AcceptSave, docVars
  <1>2. OthersStay(p) /\ pc'[p] = "idle" /\ loc'[p] = Blank
    BY DEF AcceptSave, Finish, Goto, TypeInv, TypeOK, OthersStay
  <1>3. check[c].st = "live" /\ c \in Snap
    BY <1>1 DEF Works, Acceptor, AcceptSteps, TypeInv, ReqSet
  <1>4. \A e \in Snap : \/ check'[e] = check[e]
                        \/ e = c /\ check'[e] = [check[e] EXCEPT !.base = e]
    BY <1>1, <1>3 DEF TypeInv, TypeOK, CheckRec
  <1>5. ChecksDecided(p)
    BY <1>1, <1>3, <1>4 DEF ChecksDecided
  <1>6. Works(p)' /\ IdsFresh(p) /\ loc'[p].base = None
    BY <1>2, BlankWorks
  <1> QED BY <1>1, <1>2, <1>5, <1>6, StoreSame DEF Effect

\* Every step of a request is of this form.
LEMMA RequestEffect ==
  ASSUME TypeInv, replicaSet, Whole, NEW p \in Request, Works(p),
         CreateStep(p) \/ AcceptStep(p) \/ Die(p)
  PROVE  Effect(p) /\ Works(p)'
  <1>1. CASE CreateStep(p)
    BY <1>1, LookupEffect, AccessEffect, CloneEffect, WriteFileEffect, SaveDocEffect,
       FindBaselineEffect, InspectEffect, CompareEffect, DiffWriteEffect, DiffSaveEffect,
       InsertCheckEffect, CommitEffect, FailEffect, CleanupEffect DEF CreateStep
  <1>2. CASE AcceptStep(p)
    BY <1>2, AcceptStartEffect, AcceptUpsertEffect, AcceptSaveEffect DEF AcceptStep
  <1> QED BY <1>1, <1>2, DieEffect

-----------------------------------------------------------------------------
(* What follows from it for the others and for the store *)

\* What a request works with is neither unused nor settled.
LEMMA OwnUnsettled ==
  ASSUME TypeInv, NEW p \in Request, Works(p)
  PROVE  /\ OwnIds(p) \subseteq Snap
         /\ \A s \in OwnIds(p) : doc[s] \in {"new", "tx", "void"}
  <1>1. OwnIds(p) \subseteq Snap
    BY DEF TypeInv, TypeOK, Locals, OwnIds
  <1>2. ReqDocs(p)
    BY DEF Works
  <1>3. loc[p].cur # None => doc[loc[p].cur] \in {"new", "tx", "void"}
    BY <1>2 DEF ReqDocs, Holding, CreateSteps
  <1>4. loc[p].diff # None => doc[loc[p].diff] \in {"new", "tx", "void"}
    BY <1>2 DEF ReqDocs
  <1> QED BY <1>1, <1>3, <1>4 DEF OwnIds

\* The same, field by field.
LEMMA CheckMoves ==
  ASSUME TypeInv, NEW p \in Request, Effect(p), NEW c \in Snap
  PROVE  \/ check'[c] = check[c]
         \/ /\ pc[p] = "insert" /\ c = loc[p].cur /\ check[c].st = "none"
            /\ check'[c].st = "tx" /\ check'[c].ident = loc[p].ident
            /\ check'[c].base = loc[p].base /\ check'[c].diff = loc[p].diff
         \/ /\ pc[p] = "finish" /\ c = loc[p].cur /\ check[c].st = "tx"
            /\ check'[c].st = "live" /\ check'[c].ident = check[c].ident
            /\ check'[c].base = check[c].base /\ check'[c].diff = check[c].diff
            /\ \A s \in OwnIds(p) : doc'[s] = "saved"
         \/ /\ c = loc[p].cur /\ check[c].st = "tx"
            /\ check'[c].st = "none" /\ check'[c].diff = None
         \/ /\ pc[p] = "aSave" /\ c = loc[p].chk /\ check[c].st = "live"
            /\ check'[c].st = "live" /\ check'[c].ident = check[c].ident
            /\ check'[c].base = c /\ check'[c].diff = check[c].diff
  <1>1. check[c] \in CheckRec
    BY DEF TypeInv, TypeOK
  <1>2. /\ [check[c] EXCEPT !.st = "live"].st = "live"
        /\ [check[c] EXCEPT !.st = "live"].ident = check[c].ident
        /\ [check[c] EXCEPT !.st = "live"].base = check[c].base
        /\ [check[c] EXCEPT !.st = "live"].diff = check[c].diff
        /\ [check[c] EXCEPT !.base = c].st = check[c].st
        /\ [check[c] EXCEPT !.base = c].ident = check[c].ident
        /\ [check[c] EXCEPT !.base = c].base = c
        /\ [check[c] EXCEPT !.base = c].diff = check[c].diff
        /\ NoCheck.st = "none" /\ NoCheck.diff = None
    BY <1>1 DEF CheckRec, NoCheck
  <1>3. CASE check'[c] = check[c]
    BY <1>3
  <1>4. CASE /\ pc[p] = "insert" /\ c = loc[p].cur /\ check[c].st = "none"
             /\ check'[c] = [st |-> "tx", ident |-> loc[p].ident,
                             base |-> loc[p].base, diff |-> loc[p].diff]
    BY <1>4
  <1>5. CASE /\ pc[p] = "finish" /\ c = loc[p].cur /\ check[c].st = "tx"
             /\ check'[c] = [check[c] EXCEPT !.st = "live"]
             /\ \A s \in OwnIds(p) : doc'[s] = "saved"
    BY <1>2, <1>5
  <1>6. CASE c = loc[p].cur /\ check[c].st = "tx" /\ check'[c] = NoCheck
    BY <1>2, <1>6
  <1>7. CASE /\ pc[p] = "aSave" /\ c = loc[p].chk /\ check[c].st = "live"
             /\ check'[c] = [check[c] EXCEPT !.base = c]
    BY <1>2, <1>7
  <1>8. ChecksDecided(p)
    BY DEF Effect
  <1> QED BY <1>3, <1>4, <1>5, <1>6, <1>7, <1>8 DEF ChecksDecided

\* A committed document stays what it is; so does a committed check, except
\* that an acceptance makes it its own baseline.
LEMMA StoreStays ==
  ASSUME TypeInv, NEW p \in Request, Works(p), Effect(p)
  PROVE  /\ \A s \in Snap : Settled(s) => doc'[s] = doc[s] /\ fname'[s] = fname[s] /\ Settled(s)'
         /\ \A s \in Snap : doc[s] # "free" => doc'[s] # "free" /\ fname'[s] = fname[s]
         /\ \A s \in Snap : Created(s) =>
              /\ Created(s)' /\ check'[s].st = check[s].st
              /\ check'[s].ident = check[s].ident /\ check'[s].diff = check[s].diff
         /\ \A k \in Ident \X Snap : row[k] > 0 => row'[k] > 0
  <1>1. OwnIds(p) \subseteq Snap /\ \A s \in OwnIds(p) : ~Settled(s)
    BY OwnUnsettled DEF Settled
  <1>2. \A s \in Snap : doc[s] # "free" => doc'[s] # "free" /\ fname'[s] = fname[s]
    BY DEF Effect, DocsDecided, NamesGiven
  <1>3. \A s \in Snap : Settled(s) => doc'[s] = doc[s]
    BY <1>1 DEF Effect, DocsDecided, Settled
  <1>4. ASSUME NEW s \in Snap, Created(s)
        PROVE  /\ check'[s].st = check[s].st /\ check'[s].ident = check[s].ident
               /\ check'[s].diff = check[s].diff
    BY <1>4, CheckMoves DEF Created
  <1>5. \A k \in Ident \X Snap : row[k] > 0 => row'[k] > 0
    BY DEF Effect, RowsDecided, TypeInv, TypeOK
  <1> QED BY <1>2, <1>3, <1>4, <1>5 DEF Settled, Created

\* A file that a settled document names is not removed by a request.
LEMMA FileStays ==
  ASSUME TypeInv, Whole, NEW p \in Request, Works(p), Effect(p), NEW d \in Snap, Settled(d)
  PROVE  fname'[d] \in file' <=> fname[d] \in file
  <1>1. fname'[d] = fname[d] /\ fname[d] \in Snap
    BY StoreStays DEF TypeInv, TypeOK
  <1>2. Settled(fname[d])
    BY DEF Whole, CloneOf
  <1>3. doc[fname[d]] \notin {"void", "free"}
    BY <1>2 DEF Settled
  <1> QED BY <1>1, <1>3 DEF Effect, FilesDecided

LEMMA OthersAway ==
  ASSUME TypeInv, Whole, DisjointIds, NEW p \in Request, Works(p), Effect(p),
         NEW q \in Request \ {p}, Works(q)
  PROVE  Away(q)
  <1>1. /\ OwnIds(p) \subseteq Snap /\ OwnIds(q) \subseteq Snap /\ None \notin Snap
        /\ \A s \in OwnIds(q) : s \notin OwnIds(p) /\ doc[s] # "free"
        /\ \A s \in OwnIds(p) : ~Settled(s)
    BY OwnUnsettled, StoreAssumption DEF DisjointIds, Settled
  <1>2. pc'[q] = pc[q] /\ loc'[q] = loc[q]
    BY DEF Effect, OthersStay
  <1>3. \A s \in OwnIds(q) : doc'[s] = doc[s] /\ fname'[s] = fname[s]
    BY <1>1, StoreStays DEF Effect, DocsDecided
  <1>4. /\ loc[q].cur # None => loc[q].cur \in OwnIds(q)
        /\ loc[q].diff # None => loc[q].diff \in OwnIds(q)
        /\ loc[p].cur # None => loc[p].cur \in OwnIds(p)
        /\ pc[q] \in Holding => loc[q].cur \in Snap
        /\ pc[p] \in Holding => loc[p].cur \in Snap
    BY DEF OwnIds, TypeInv, ReqSet
  <1>5. pc[q] = "finish" => check'[loc[q].cur] = check[loc[q].cur]
    <2>1. pc[q] = "finish" => /\ loc[q].cur \in OwnIds(q) /\ check[loc[q].cur].st = "tx"
      BY <1>1, <1>4 DEF Works, ReqDocs, Holding, CreateSteps
    <2> QED BY <1>1, <1>4, <2>1 DEF Effect, ChecksDecided
  <1>6. loc[q].diff # None => check'[loc[q].diff].st = "none"
    <2>1. loc[q].diff # None => loc[q].diff \in OwnIds(q) /\ check[loc[q].diff].st = "none"
      BY <1>4 DEF Works
    <2>2. pc[p] = "insert" => loc[p].cur \in OwnIds(p)
      BY <1>1, <1>4 DEF Holding, CreateSteps
    <2> QED BY <1>1, <2>1, <2>2 DEF Effect, ChecksDecided
  <1>7. /\ \A s \in Snap : Settled(s) => Settled(s)' /\ fname'[s] = fname[s]
        /\ \A s \in Snap : Created(s) => Created(s)'
    BY StoreStays
  <1>8. pc[q] \in WithBase /\ loc[q].base # loc[q].cur => doc'[loc[q].base] = "saved"
    <2>1. pc[q] \in WithBase => loc[q].base \in Snap
      BY DEF TypeInv, ReqSet, WithBase
    <2> QED BY <2>1, StoreStays DEF Works, Settled
  <1>9. Acceptor(q)'
    <2>1. pc[q] \in AcceptSteps => loc[q].chk \in Snap
      BY DEF TypeInv, ReqSet
    <2> QED BY <1>2, <2>1, StoreStays DEF Works, Acceptor, Created
  <1>10. \A c \in Snap : check'[c].diff \in OwnIds(q) => check'[c].diff = check[c].diff
    <2>1. loc[p].diff \notin OwnIds(q)
      BY <1>1 DEF OwnIds
    <2> QED BY <1>1, <2>1, CheckMoves
  <1>11. ASSUME NEW f \in file \ file'  PROVE f \notin InFlight(q) /\ ~CloneWindow(q, f)
    <2>1. f \in Snap /\ doc[f] = "void"
      BY <1>1 DEF Effect, FilesDecided
    <2>2. f \notin InFlight(q)
      BY <2>1 DEF InFlight
    <2>3. ~CloneWindow(q, f)
      <3>1. pc[q] = "clone" => loc[q].src \in Snap /\ Settled(loc[q].src)
        BY DEF Works, ReqDocs, TypeInv, ReqSet
      <3>2. \A s \in Snap : fname[s] = f => s = f \/ Settled(f)
        BY DEF Whole, CloneOf
      <3> QED BY <2>1, <3>1, <3>2 DEF CloneWindow, Settled
    <2> QED BY <2>2, <2>3
  <1> QED BY <1>2, <1>3, <1>5, <1>6, <1>7, <1>8, <1>9, <1>10, <1>11 DEF Away

LEMMA RequestsWork ==
  ASSUME TypeInv, RetentionInv, NEW p \in Request, Effect(p), Works(p)'
  PROVE  (\A q \in Request : Works(q)') /\ DisjointIds'
  <1>1. Whole /\ DisjointIds /\ \A q \in Request : Works(q)
    BY DEF RetentionInv
  <1>2. ASSUME NEW q \in Request  PROVE Works(q)'
    BY <1>1, OthersAway, AwayKeeps
  <1>3. DisjointIds'
    <2>1. \A q \in Request \ {p} : OwnIds(q)' = OwnIds(q)
      BY DEF Effect, OthersStay, OwnIds
    <2>2. \A q \in Request : \A s \in OwnIds(q) : doc[s] # "free"
      BY <1>1, OwnUnsettled
    <2> QED BY <1>1, <2>1, <2>2 DEF DisjointIds, Effect, IdsFresh
  <1> QED BY <1>2, <1>3

\* The snapshots of a check.
Parts(c) == {c, check[c].base, check[c].diff} \ {None}

LEMMA UsedIs ==
  /\ \A s : s \in Used <=> s \in RowSnaps \/ \E c \in LiveChecks : s \in Parts(c)
  /\ \A s : s \in Used' <=> s \in RowSnaps' \/ \E c \in LiveChecks' : s \in Parts(c)'
  <1>1. None \notin Snap
    BY StoreAssumption
  <1>2. \A s : s \in Used <=> s \in RowSnaps \/ \E c \in LiveChecks : s \in Parts(c)
    BY <1>1 DEF Used, Referenced, BasesAndActuals, Diffs, Parts, LiveChecks
  <1>3. \A s : s \in Used' <=> s \in RowSnaps' \/ \E c \in LiveChecks' : s \in Parts(c)'
    BY <1>1 DEF Used, Referenced, BasesAndActuals, Diffs, Parts, LiveChecks
  <1> QED BY <1>2, <1>3

LEMMA RowsAre ==
  /\ \A s : s \in RowSnaps <=> s \in Snap /\ \E i \in Ident : row[<<i, s>>] > 0
  /\ \A s : s \in RowSnaps' <=> s \in Snap /\ \E i \in Ident : row'[<<i, s>>] > 0
  <1>1. ASSUME NEW k \in Ident \X Snap
        PROVE  k[1] \in Ident /\ k[2] \in Snap /\ k = <<k[1], k[2]>>
    OBVIOUS
  <1>2. ASSUME NEW i \in Ident, NEW s \in Snap
        PROVE  <<i, s>> \in Ident \X Snap /\ <<i, s>>[2] = s
    OBVIOUS
  <1>3. ASSUME NEW s \in RowSnaps  PROVE s \in Snap /\ \E i \in Ident : row[<<i, s>>] > 0
    <2>1. PICK k \in Rows : s = k[2]
      BY DEF RowSnaps
    <2>2. k \in Ident \X Snap /\ row[k] > 0
      BY DEF Rows
    <2> QED BY <1>1, <2>1, <2>2
  <1>4. ASSUME NEW s \in Snap, NEW i \in Ident, row[<<i, s>>] > 0  PROVE s \in RowSnaps
    <2>1. <<i, s>> \in Rows
      BY <1>2, <1>4 DEF Rows
    <2> QED BY <1>2, <2>1 DEF RowSnaps
  <1>5. ASSUME NEW s \in RowSnaps'  PROVE s \in Snap /\ \E i \in Ident : row'[<<i, s>>] > 0
    <2>1. PICK k \in Rows' : s = k[2]
      BY DEF RowSnaps
    <2>2. k \in Ident \X Snap /\ row'[k] > 0
      BY DEF Rows
    <2> QED BY <1>1, <2>1, <2>2
  <1>6. ASSUME NEW s \in Snap, NEW i \in Ident, row'[<<i, s>>] > 0  PROVE s \in RowSnaps'
    <2>1. <<i, s>> \in Rows'
      BY <1>2, <1>6 DEF Rows
    <2> QED BY <1>2, <2>1 DEF RowSnaps
  <1> QED BY <1>3, <1>4, <1>5, <1>6

\* A check goes live by a commit.  An acceptance makes it its own baseline.
LEMMA LiveMoves ==
  ASSUME TypeInv, NEW p \in Request, Works(p), Effect(p)
  PROVE  /\ LiveChecks \subseteq LiveChecks'
         /\ \A c \in LiveChecks' \ LiveChecks :
              /\ pc[p] = "finish" /\ c = loc[p].cur /\ check[c].st = "tx"
              /\ check'[c].base = loc[p].base /\ check'[c].diff = loc[p].diff
              /\ check'[c].ident = loc[p].ident
              /\ \A s \in OwnIds(p) : doc'[s] = "saved"
         /\ \A c \in LiveChecks :
              /\ check'[c].diff = check[c].diff /\ check'[c].ident = check[c].ident
              /\ \/ check'[c].base = check[c].base
                 \/ pc[p] = "aSave" /\ c = loc[p].chk /\ check'[c].base = c
  <1>1. LiveChecks \subseteq LiveChecks'
    BY StoreStays DEF LiveChecks, Created
  <1>2. ASSUME NEW c \in LiveChecks' \ LiveChecks
        PROVE  /\ pc[p] = "finish" /\ c = loc[p].cur /\ check[c].st = "tx"
               /\ check'[c].base = loc[p].base /\ check'[c].diff = loc[p].diff
               /\ check'[c].ident = loc[p].ident
               /\ \A s \in OwnIds(p) : doc'[s] = "saved"
    <2>1. c \in Snap /\ check'[c].st = "live" /\ check[c].st # "live"
      BY <1>2 DEF LiveChecks
    <2>2. /\ pc[p] = "finish" /\ c = loc[p].cur /\ check[c].st = "tx"
          /\ check'[c].ident = check[c].ident
          /\ check'[c].base = check[c].base /\ check'[c].diff = check[c].diff
          /\ \A s \in OwnIds(p) : doc'[s] = "saved"
      BY <2>1, CheckMoves
    <2>3. check[c] = [st |-> "tx", ident |-> loc[p].ident,
                      base |-> loc[p].base, diff |-> loc[p].diff]
      BY <2>2 DEF Works, ReqDocs
    <2> QED BY <2>2, <2>3
  <1>3. ASSUME NEW c \in LiveChecks
        PROVE  /\ check'[c].diff = check[c].diff /\ check'[c].ident = check[c].ident
               /\ \/ check'[c].base = check[c].base
                  \/ pc[p] = "aSave" /\ c = loc[p].chk /\ check'[c].base = c
    BY CheckMoves DEF LiveChecks
  <1> QED BY <1>1, <1>2, <1>3

\* A row that appears is the one of a check being accepted.
LEMMA RowMoves ==
  ASSUME TypeInv, NEW p \in Request, Works(p), Effect(p)
  PROVE  /\ RowSnaps \subseteq RowSnaps'
         /\ \A s \in RowSnaps' \ RowSnaps :
              pc[p] \in AcceptSteps /\ s = loc[p].chk /\ s \in LiveChecks
  <1>1. RowSnaps \subseteq RowSnaps'
    BY StoreStays, RowsAre
  <1>2. ASSUME NEW s \in RowSnaps' \ RowSnaps
        PROVE  pc[p] \in AcceptSteps /\ s = loc[p].chk /\ s \in LiveChecks
    <2>1. PICK i \in Ident : s \in Snap /\ row'[<<i, s>>] > 0 /\ ~(row[<<i, s>>] > 0)
      BY <1>2, RowsAre
    <2>2. pc[p] = "aUpsert" /\ <<i, s>> = <<check[loc[p].chk].ident, loc[p].chk>>
      BY <2>1 DEF Effect, RowsDecided
    <2> QED BY <2>1, <2>2 DEF Works, Acceptor, AcceptSteps, LiveChecks
  <1> QED BY <1>1, <1>2

\* A snapshot that the UI leads to is one already, or one of a commit.
LEMMA UsedMoves ==
  ASSUME TypeInv, NEW p \in Request, Works(p), Effect(p), NEW s \in Used', s \notin Used
  PROVE  /\ s \in OwnIds(p) \/ s = loc[p].base
         /\ \E c \in LiveChecks' : c \notin LiveChecks
  <1>1. \A c \in LiveChecks : c \in Used /\ \A t \in Parts(c) : t \in Used
    BY UsedIs, StoreAssumption DEF Parts, LiveChecks
  <1>2. s \notin RowSnaps'
    BY <1>1, RowMoves, UsedIs
  <1>3. PICK c \in LiveChecks' : s \in Parts(c)'
    BY <1>2, UsedIs
  <1>4. CASE c \in LiveChecks
    <2>1. Parts(c)' \subseteq Parts(c) \cup {c}
      BY <1>4, LiveMoves DEF Parts
    <2> QED BY <1>1, <1>3, <1>4, <2>1
  <1>5. CASE c \notin LiveChecks
    BY <1>3, <1>5, LiveMoves DEF Parts, OwnIds
  <1> QED BY <1>4, <1>5

-----------------------------------------------------------------------------
(* The store after a step of a request *)

LEMMA RequestDiffs ==
  ASSUME TypeInv, Whole, NEW p \in Request, Works(p), Effect(p), NEW c \in Snap
  PROVE  DiffOf(c)'
  <1>1. /\ OwnIds(p) \subseteq Snap /\ None \notin Snap
        /\ loc[p].diff # None => /\ loc[p].diff \in OwnIds(p) /\ loc[p].diff # loc[p].cur
                                 /\ check[loc[p].diff].st = "none" /\ doc[loc[p].diff] # "free"
        /\ \A e \in Snap : check[e].diff = loc[p].diff /\ loc[p].diff # None => e = loc[p].cur
    <2>1. loc[p].diff # None => loc[p].diff \in OwnIds(p)
      BY DEF OwnIds
    <2> QED BY <2>1, OwnUnsettled, StoreAssumption DEF Works, Owned
  <1>2. ASSUME NEW e \in Snap, check'[e].diff # None
        PROVE  check'[e].diff = check[e].diff \/ (e = loc[p].cur /\ check'[e].diff = loc[p].diff)
    BY <1>2, CheckMoves
  <1>3. check'[c].st = "none" => check'[c].diff = None
    BY CheckMoves DEF Whole, DiffOf
  <1>4. ASSUME check'[c].diff # None
        PROVE  /\ check'[c].diff \in Snap /\ doc[check'[c].diff] # "free"
               /\ check[check'[c].diff].st = "none"
               /\ loc[p].cur # None => check'[c].diff # loc[p].cur
    <2>1. CASE check'[c].diff = check[c].diff
      <3>1. check[c].diff \in Snap
        BY <1>4, <2>1 DEF TypeInv, TypeOK, CheckRec
      <3>2. loc[p].cur # None => check[c].diff # loc[p].cur
        BY <1>1, <1>4, <2>1 DEF Works, Owned, OwnIds
      <3> QED BY <1>4, <2>1, <3>1, <3>2 DEF Whole, DiffOf
    <2>2. CASE c = loc[p].cur /\ check'[c].diff = loc[p].diff
      BY <1>1, <1>4, <2>2
    <2> QED BY <1>2, <1>4, <2>1, <2>2
  <1>5. check'[c].diff # None => doc'[check'[c].diff] # "free" /\ check'[check'[c].diff].st = "none"
    <2>1. ASSUME check'[c].diff # None
          PROVE  doc'[check'[c].diff] # "free" /\ check'[check'[c].diff].st = "none"
      <3>1. /\ check'[c].diff \in Snap /\ doc[check'[c].diff] # "free"
            /\ check[check'[c].diff].st = "none"
            /\ loc[p].cur # None => check'[c].diff # loc[p].cur
        BY <1>4, <2>1
      <3>2. doc'[check'[c].diff] # "free"
        BY <3>1, StoreStays
      <3>3. pc[p] = "insert" => loc[p].cur # None
        BY <1>1 DEF TypeInv, ReqSet, Holding, CreateSteps
      <3> QED BY <3>1, <3>2, <3>3, CheckMoves
    <2> QED BY <2>1
  <1>6. ASSUME NEW e \in Snap, check'[c].diff # None, check'[e].diff = check'[c].diff
        PROVE  e = c
    <2>1. CASE check'[c].diff = check[c].diff /\ check'[e].diff = check[e].diff
      BY <1>6, <2>1 DEF Whole, DiffOf
    <2>2. CASE c = loc[p].cur /\ check'[c].diff = loc[p].diff
      BY <1>1, <1>2, <1>6, <2>2
    <2>3. CASE e = loc[p].cur /\ check'[e].diff = loc[p].diff
      BY <1>1, <1>2, <1>6, <2>3
    <2> QED BY <1>2, <1>6, <2>1, <2>2, <2>3
  <1> QED BY <1>3, <1>5, <1>6 DEF DiffOf

LEMMA RequestWhole ==
  ASSUME TypeInv, TypeInv', Whole, NEW p \in Request, Works(p), Effect(p)
  PROVE  Whole'
  <1>1. ASSUME NEW s \in Snap  PROVE CloneOf(s)' /\ FreeName(s)'
    <2>1. CASE fname'[s] = fname[s]
      <3>1. fname[s] # s => Settled(fname[s]) /\ fname[fname[s]] = fname[s] /\ fname[s] \in Snap
        BY DEF Whole, CloneOf, TypeInv, TypeOK
      <3>2. CloneOf(s)'
        BY <2>1, <3>1, StoreStays DEF CloneOf, Settled
      <3>3. doc'[s] = "free" => doc[s] = "free"
        BY StoreStays
      <3> QED BY <2>1, <3>2, <3>3 DEF Whole, FreeName
    <2>2. CASE /\ doc[s] = "free" /\ doc'[s] # "free"
               /\ Settled(fname'[s]) /\ fname[fname'[s]] = fname'[s]
      <3>1. fname'[s] \in Snap
        BY DEF TypeInv, TypeOK
      <3> QED BY <2>2, <3>1, StoreStays DEF CloneOf, FreeName, Settled
    <2> QED BY <2>1, <2>2 DEF Effect, NamesGiven
  <1>2. ASSUME NEW s \in Snap  PROVE BaseCreated(s)'
    <2>1. check[s].st # "none" =>
            check[s].base = s \/ (check[s].base \in Snap /\ Created(check[s].base))
      BY DEF Whole, BaseCreated, TypeInv, CheckSet
    <2>2. pc[p] = "insert" =>
            loc[p].base = loc[p].cur \/ (loc[p].base \in Snap /\ Created(loc[p].base))
      BY DEF Works, WithBase, TypeInv, ReqSet
    <2> QED BY <2>1, <2>2, CheckMoves, StoreStays DEF BaseCreated
  <1>3. ASSUME NEW k \in Ident \X Snap  PROVE RowOf(k)' /\ row'[k] <= clock'
    <2>1. /\ row[k] \in Nat /\ clock \in Nat /\ row[k] <= clock /\ RowOf(k)
          /\ clock' = clock \/ clock' = clock + 1 \/ clock' >= clock
      BY DEF Effect, RowsDecided, TypeInv, TypeOK, Whole
    <2>2. CASE row'[k] = row[k]
      <3>1. RowOf(k)'
        BY <2>1, <2>2, StoreStays DEF RowOf, Settled, Created
      <3>2. row'[k] <= clock'
        <4>1. clock' >= clock /\ clock' \in Nat
          BY DEF Effect, RowsDecided, TypeInv, TypeOK
        <4> QED BY <2>1, <2>2, <4>1
      <3> QED BY <3>1, <3>2
    <2>3. CASE /\ pc[p] = "aUpsert" /\ k = <<check[loc[p].chk].ident, loc[p].chk>>
               /\ row'[k] = clock + 1 /\ clock' = clock + 1
      <3>1. k[2] = loc[p].chk /\ k[2] \in Snap /\ check[k[2]].st = "live"
        BY <2>3 DEF Works, Acceptor, AcceptSteps
      <3>2. doc[k[2]] = "saved"
        BY <3>1, StoreAssumption DEF Whole, LiveCheckResolves
      <3> QED BY <2>1, <2>3, <3>1, <3>2, StoreStays DEF RowOf, Settled, Created
    <2> QED BY <2>2, <2>3 DEF Effect, RowsDecided
  <1>4. ASSUME NEW c \in Snap, check'[c].st = "live", NEW s \in Parts(c)'
        PROVE  doc'[s] = "saved"
    <2>1. \A e \in LiveChecks : \A t \in Parts(e) : t \in Snap /\ doc[t] = "saved"
      BY DEF Whole, LiveCheckResolves, LiveChecks, Parts, TypeInv, TypeOK, CheckRec
    <2>2. c \in LiveChecks'
      BY <1>4 DEF LiveChecks
    <2>3. CASE c \in LiveChecks
      <3>1. c \in Parts(c)
        BY StoreAssumption DEF Parts
      <3>2. s \in Parts(c)
        BY <1>4, <2>3, <3>1, LiveMoves DEF Parts
      <3> QED BY <2>1, <2>3, <3>2, StoreStays DEF Settled
    <2>4. CASE c \notin LiveChecks
      <3>1. s \in {loc[p].cur, loc[p].base, loc[p].diff} \ {None} /\ pc[p] = "finish"
        BY <1>4, <2>2, <2>4, LiveMoves DEF Parts
      <3>2. CASE s \in OwnIds(p)
        BY <2>2, <2>4, <3>2, LiveMoves
      <3>3. CASE s = loc[p].base /\ loc[p].base # loc[p].cur
        <4>1. doc[s] = "saved" /\ s \in Snap
          BY <3>1, <3>3 DEF Works, WithBase, TypeInv, ReqSet
        <4> QED BY <4>1, StoreStays DEF Settled
      <3> QED BY <3>1, <3>2, <3>3 DEF OwnIds
    <2> QED BY <2>3, <2>4
  <1>5. LiveCheckResolves'
    BY <1>4 DEF LiveCheckResolves, Parts
  <1> QED BY <1>1, <1>2, <1>3, <1>5, RequestDiffs DEF Whole

\* A document that a commit makes visible has its file, and one that nobody
\* was about to unlink.
LEMMA CommittedFile ==
  ASSUME TypeInv, Whole, NEW p \in Request, Works(p), Effect(p),
         NEW d \in Visible', d \notin Visible
  PROVE  /\ d \in Snap /\ fname'[d] = fname[d]
         /\ fname[d] \in file /\ fname[d] \in file'
         /\ fname[d] \in InFlight(p) \/ CloneWindow(p, fname[d])
  <1>1. d \in Snap /\ doc'[d] = "saved" /\ doc[d] # "saved"
    BY DEF Visible
  <1>2. d \in OwnIds(p) /\ doc[d] = "tx" /\ pc[p] = "finish"
    BY <1>1 DEF Effect, DocsDecided
  <1>3. fname'[d] = fname[d] /\ fname[d] \in Snap
    BY <1>1, <1>2, StoreStays DEF TypeInv, TypeOK
  <1>4. CASE fname[d] = d
    <2>1. d \in InFlight(p)
      BY <1>2, <1>4 DEF InFlight, OwnIds
    <2>2. d \in file
      BY <2>1 DEF Works
    <2>3. d \in file'
      BY <1>2, <2>2 DEF Effect, FilesDecided
    <2> QED BY <1>1, <1>3, <1>4, <2>1, <2>2, <2>3
  <1>5. CASE fname[d] # d
    <2>1. d = loc[p].cur
      BY <1>2, <1>5 DEF OwnIds, Works, HoldsFile
    <2>2. CloneWindow(p, fname[d])
      BY <1>1, <1>2, <2>1 DEF CloneWindow
    <2>3. fname[d] \in file
      BY <1>3, <2>2 DEF Works, HoldsFile
    <2>4. Settled(fname[d])
      BY <1>1, <1>5 DEF Whole, CloneOf
    <2>5. fname[d] \in file'
      BY <2>3, <2>4 DEF Effect, FilesDecided, Settled
    <2> QED BY <1>1, <1>3, <2>2, <2>3, <2>5
  <1> QED BY <1>4, <1>5

LEMMA RequestFiles ==
  ASSUME TypeInv, Whole, FilesHeld, NEW p \in Request, Works(p), Effect(p), UNCHANGED task
  PROVE  FilesHeld'
  <1>1. torn' = torn /\ torn \subseteq Snap /\ Visible \subseteq Snap
    BY DEF Effect, TypeInv, TypeOK, Visible
  <1>2. ASSUME NEW d \in Visible' \ torn'
        PROVE  fname'[d] \in file' \/ (At("rmDelete")' /\ d = task'.target)
    <2>1. CASE d \in Visible
      <3>1. d \in Snap /\ Settled(d)
        BY <2>1 DEF Visible, Settled
      <3>2. fname[d] \in file \/ (At("rmDelete") /\ d = task.target)
        BY <1>1, <1>2, <2>1 DEF FilesHeld, StoreKeepsFile
      <3> QED BY <3>1, <3>2, FileStays DEF At
    <2>2. CASE d \notin Visible
      BY <1>2, <2>2, CommittedFile
    <2> QED BY <2>1, <2>2
  <1>3. ASSUME NEW d \in torn'  PROVE Settled(d)' /\ d \notin Used' /\ d \notin Bases'
    <2>1. d \in Snap /\ Settled(d) /\ d \notin Used /\ d \notin Bases /\ d # None
      BY <1>1, <1>3, StoreAssumption DEF FilesHeld, TornUnused
    <2>2. d \notin OwnIds(p) /\ d # loc[p].base /\ d \notin RowSnaps /\ d # loc[p].cur
      BY <2>1, OwnUnsettled, UsedIs DEF Settled, Bases, OwnIds
    <2>3. d \notin Used'
      BY <2>1, <2>2, UsedMoves
    <2>4. d # loc'[p].base
      BY <2>1, <2>2 DEF Effect
    <2>5. d \notin Bases'
      BY <2>1, <2>4 DEF Bases, Effect, OthersStay
    <2> QED BY <2>1, <2>3, <2>5, StoreStays
  <1> QED BY <1>2, <1>3 DEF FilesHeld, StoreKeepsFile, TornUnused

-----------------------------------------------------------------------------
(* What a task knows outlives a step of a request *)

LEMMA RequestOld ==
  ASSUME TypeInv, task \in Task, Whole, Judged, Separate,
         NEW p \in Request, Works(p), Effect(p), UNCHANGED task
  PROVE  OldKnown' /\ OldUnused'
  <1>1. /\ task.checks \subseteq Snap /\ task.snaps \subseteq Snap /\ Deletable' = Deletable
        /\ Deletable \subseteq task.snaps
    BY DEF Task, Deletable
  <1>2. OldKnown'
    <2>1. CASE task.step \in {"ocRefs", "ocRows", "ocChecks"}
      <3>1. /\ task.checks \subseteq LiveChecks /\ task.diffs \subseteq Diffs(task.checks)
            /\ \A s \in task.snaps : Settled(s) /\ Created(s)
        BY <2>1 DEF Judged, OldKnown
      <3>2. task.checks \subseteq LiveChecks'
        BY <3>1, LiveMoves
      <3>3. task.diffs \subseteq Diffs(task.checks)'
        BY <3>1, LiveMoves DEF Diffs
      <3>4. \A s \in task.snaps : Settled(s)' /\ Created(s)'
        BY <1>1, <3>1, StoreStays
      <3> QED BY <3>2, <3>3, <3>4 DEF OldKnown
    <2>2. CASE task.step \notin {"ocRefs", "ocRows", "ocChecks"}
      BY <2>2 DEF OldKnown
    <2> QED BY <2>1, <2>2
  <1>3. ASSUME NEW s \in Others', task.step \in {"ocRows", "ocChecks"}, s \in Deletable
        PROVE  s \in Others \/ s \in RowSnaps
    <2>1. PICK c \in LiveChecks' \ task.checks : s = c \/ (s = check'[c].base /\ s # None)
      BY <1>3 DEF Others, BasesAndActuals
    <2>2. \A e \in LiveChecks \ task.checks : e \in Others /\ check[e].base \in Others \cup {None}
      BY DEF Others, BasesAndActuals
    <2>3. CASE c \in LiveChecks
      BY <2>1, <2>2, <2>3, LiveMoves
    <2>4. CASE c \notin LiveChecks
      <3>1. c = loc[p].cur /\ check'[c].base = loc[p].base /\ c \in OwnIds(p)
        BY <2>4, LiveMoves, StoreAssumption DEF OwnIds, LiveChecks
      <3>2. Settled(s)
        BY <1>1, <1>3 DEF Judged, OldKnown
      <3>3. s # c
        BY <3>1, <3>2, OwnUnsettled DEF Settled
      <3>4. s = loc[p].base /\ s # None
        BY <2>1, <3>1, <3>3
      <3>5. Doomed = Deletable \ RowSnaps
        BY <1>3 DEF Doomed, RemoveLoop
      <3> QED BY <1>3, <3>4, <3>5 DEF Separate, BasesApart
    <2> QED BY <2>3, <2>4
  <1>4. At("ocRows")' => Others' \cap Deletable' \subseteq RowSnaps'
    <2>1. ASSUME At("ocRows"), NEW s \in Others', s \in Deletable  PROVE s \in RowSnaps'
      BY <1>3, <2>1, RowMoves DEF At, Judged, OldUnused
    <2> QED BY <1>1, <2>1 DEF At
  <1>5. At("ocChecks")' => (Others' \cup RowSnaps') \cap Deletable' = {}
    <2>1. ASSUME At("ocChecks"), NEW s \in Deletable  PROVE s \notin Others' /\ s \notin RowSnaps'
      <3>1. s \notin Others /\ s \notin RowSnaps
        BY <2>1 DEF Judged, OldUnused
      <3>2. s \notin Others'
        BY <1>3, <2>1, <3>1 DEF At
      <3>3. ASSUME s \in RowSnaps'  PROVE FALSE
        <4>1. pc[p] \in AcceptSteps /\ s = loc[p].chk /\ s \in LiveChecks
          BY <3>1, <3>3, RowMoves
        <4>2. s \notin task.checks
          BY <2>1, <4>1 DEF Separate, AcceptApart, At
        <4> QED BY <3>1, <4>1, <4>2 DEF Others, BasesAndActuals
      <3> QED BY <3>2, <3>3
    <2> QED BY <1>1, <2>1 DEF At
  <1> QED BY <1>2, <1>4, <1>5 DEF OldUnused

LEMMA RequestUnlinks ==
  ASSUME TypeInv, task \in Task, Targeted, Whole, Judged, Separate,
         NEW p \in Request, Works(p), Effect(p), UNCHANGED task
  PROVE  UnlinkUnnamed'
  <1>1. ASSUME task.step \in {"ocUnlink", "ofUnlink", "dcChecks", "dcDelete", "dcUnlink", "rmUnlink"},
               NEW f \in task.files, NEW d \in Visible', fname'[d] = f
        PROVE  d \in Visible /\ fname[d] = f
    <2>1. f \notin InFlight(p) /\ ~CloneWindow(p, f)
      BY <1>1 DEF Separate, FilesApart
    <2>2. d \in Visible
      BY <1>1, <2>1, CommittedFile
    <2> QED BY <1>1, <2>2, StoreStays DEF Visible, Settled
  <1>2. task.step \in {"ocUnlink", "ofUnlink", "dcChecks", "dcDelete", "dcUnlink"} =>
          task.files \cap Names' = {}
    BY <1>1 DEF Judged, UnlinkUnnamed, Names
  <1>3. At("rmUnlink") =>
          /\ task.files = {fname'[task.target]}
          /\ \A d \in Visible' : fname'[d] = fname'[task.target] => d = task.target
    <2>1. ASSUME At("rmUnlink")
          PROVE  /\ task.files = {fname'[task.target]}
                 /\ \A d \in Visible' : fname'[d] = fname'[task.target] => d = task.target
      <3>1. task.target \in Snap /\ Settled(task.target) /\ task.files = {fname[task.target]}
        BY <2>1, StoreAssumption
        DEF At, Targeted, Judged, LoopUnused, RemoveLoop, UnlinkUnnamed
      <3>2. fname'[task.target] = fname[task.target]
        BY <3>1, StoreStays
      <3>3. \A d \in Visible' : fname'[d] = fname[task.target] =>
              d \in Visible /\ fname[d] = fname[task.target]
        BY <1>1, <2>1, <3>1 DEF At
      <3> QED BY <2>1, <3>1, <3>2, <3>3 DEF Judged, UnlinkUnnamed
    <2> QED BY <2>1
  <1>4. At("rmDelete") /\ task.files = {} =>
          (task.target \in Visible' \ torn' => fname'[task.target] \in file')
    <2>1. ASSUME At("rmDelete"), task.files = {}, task.target \in Visible' \ torn'
          PROVE  fname'[task.target] \in file'
      <3>1. task.target \in Snap /\ Settled(task.target)
        BY <2>1, StoreAssumption DEF At, Targeted, Judged, LoopUnused, RemoveLoop
      <3>2. task.target \in Visible \ torn
        BY <2>1, <3>1, StoreStays DEF Visible, Effect
      <3> QED BY <2>1, <3>1, <3>2, FileStays DEF Judged, UnlinkUnnamed
    <2> QED BY <2>1
  <1> QED BY <1>2, <1>3, <1>4 DEF UnlinkUnnamed, At

LEMMA RequestLoops ==
  ASSUME TypeInv, task \in Task, Whole, FilesHeld, Judged, Separate, ScanApart,
         NEW p \in Request, Works(p), Effect(p), UNCHANGED task
  PROVE  OrphansKnown' /\ LoopUnused' /\ BrokenKnown'
  <1>1. /\ task.checks \subseteq Snap /\ task.snaps \subseteq Snap
        /\ task.target \in Snap \cup {None}
    BY DEF Task
  <1>2. OrphansKnown'
    <2>1. At("osChecks") => RowSnaps' \subseteq task.refs \cup LiveChecks'
      BY RowMoves, LiveMoves DEF Judged, OrphansKnown
    <2>2. At("osDocs") => Used' \subseteq task.refs
      <3>1. At("osDocs") => LiveChecks' \subseteq LiveChecks
        BY DEF ScanApart, LiveChecks, At
      <3> QED BY <3>1, UsedMoves DEF Judged, OrphansKnown
    <2> QED BY <2>1, <2>2 DEF OrphansKnown, At
  <1>3. LoopUnused'
    <2>1. At("obRefs") => \A s \in task.snaps : Settled(s)'
      BY <1>1, StoreStays DEF Judged, LoopUnused
    <2>2. ASSUME task.step \in RemoveLoop, NEW s \in (task.snaps \cup {task.target}) \ {None}
          PROVE  Settled(s)' /\ s \notin Used'
      <3>1. s \in Snap /\ Settled(s) /\ s \notin Used
        BY <1>1, <2>2 DEF Judged, LoopUnused
      <3>2. Doomed = task.snaps \cup {task.target}
        BY <2>2 DEF Doomed, RemoveLoop
      <3>3. s # loc[p].base
        BY <2>2, <3>2 DEF Separate, BasesApart
      <3>4. s \notin OwnIds(p)
        BY <3>1, OwnUnsettled DEF Settled
      <3> QED BY <3>1, <3>3, <3>4, StoreStays, UsedMoves
    <2>3. task.step \notin {"rmUnlink", "rmDelete"} => task.target = None
      BY DEF Judged, LoopUnused
    <2> QED BY <2>1, <2>2, <2>3 DEF LoopUnused, At
  <1>4. BrokenKnown'
    <2>1. ASSUME task.step \in {"dcChecks", "dcDelete"}, NEW s \in task.snaps
          PROVE  s \in torn' /\ fname'[s] \notin file'
      <3>1. s \in torn /\ fname[s] \notin file /\ s \in Snap
        BY <1>1, <2>1 DEF Judged, BrokenKnown
      <3>2. Settled(s)
        BY <3>1 DEF FilesHeld, TornUnused
      <3> QED BY <3>1, <3>2, FileStays DEF Effect
    <2> QED BY <2>1 DEF Judged, BrokenKnown, At
  <1> QED BY <1>2, <1>3, <1>4

LEMMA RequestRows ==
  ASSUME TypeInv, TypeInv', task \in Task, Whole, RowsJudged, Separate, StampApart,
         NEW p \in Request, Works(p), Effect(p), UNCHANGED task
  PROVE  RowsJudged'
  <1>1. \A k \in task.rows : k \in Ident \X Snap /\ k[2] \in Snap
    BY DEF Task
  <1>2. OldRowsOld'
    <2>1. ASSUME At("obDelete"), NEW k \in task.rows
          PROVE  Settled(k[2])' /\ (row'[k] = 0 \/ Newer(k)' # {})
      <3>1. k \in Ident \X Snap /\ k[2] \in Snap
        BY <1>1
      <3>2. Settled(k[2]) /\ (row[k] = 0 \/ Newer(k) # {}) /\ row'[k] \in {0, row[k]}
        BY <2>1 DEF RowsJudged, OldRowsOld, StampApart
      <3>3. ASSUME row'[k] # 0, NEW l \in Newer(k)  PROVE Newer(k)' # {}
        <4>1. /\ l \in Ident \X Snap /\ l[1] = k[1] /\ row[l] > row[k] /\ row'[k] = row[k]
              /\ row[l] <= clock
          BY <3>2, <3>3 DEF Newer, Rows, Whole
        <4>2. /\ row[l] \in Nat /\ row[k] \in Nat /\ clock \in Nat
              /\ row'[l] = row[l] \/ row'[l] = clock + 1
          BY <3>1, <4>1 DEF Effect, RowsDecided, TypeInv, TypeOK
        <4>3. row'[l] > row'[k] /\ row'[l] > 0
          BY <4>1, <4>2
        <4>4. l \in Newer(k)'
          BY <4>1, <4>3 DEF Newer, Rows
        <4> QED BY <4>4
      <3> QED BY <3>1, <3>2, <3>3, StoreStays
    <2> QED BY <2>1 DEF OldRowsOld, At
  <1>3. ASSUME task.step \in {"orUsed", "orDelete"}, NEW k \in task.rows  PROVE Created(k[2])'
    BY <1>1, <1>3, StoreStays DEF RowsJudged, OrphanRowsLoose
  <1>4. ASSUME At("orDelete"), NEW c \in LiveChecks', check'[c].base = c
        PROVE  <<check'[c].ident, c>> \notin task.rows
    <2>1. CASE c \in LiveChecks
      <3>1. \/ check[c].base = c
            \/ pc[p] = "aSave" /\ c = loc[p].chk
        BY <1>4, <2>1, LiveMoves
      <3>2. check'[c].ident = check[c].ident
        BY <2>1, LiveMoves
      <3>3. CASE check[c].base = c
        BY <1>4, <2>1, <3>2, <3>3 DEF RowsJudged, OrphanRowsLoose
      <3>4. CASE pc[p] = "aSave" /\ c = loc[p].chk
        BY <1>4, <3>2, <3>4 DEF Separate, LinkApart, AcceptSteps, At
      <3> QED BY <3>1, <3>3, <3>4
    <2>2. CASE c \notin LiveChecks
      <3>1. check[c].st = "tx"
        BY <2>2, LiveMoves
      <3>2. ASSUME <<check'[c].ident, c>> \in task.rows  PROVE Created(c)
        <4>1. <<check'[c].ident, c>>[2] = c
          OBVIOUS
        <4> QED BY <1>4, <3>2, <4>1 DEF RowsJudged, OrphanRowsLoose, At
      <3> QED BY <3>1, <3>2 DEF Created
    <2> QED BY <2>1, <2>2
  <1> QED BY <1>2, <1>3, <1>4 DEF RowsJudged, OrphanRowsLoose, At

LEMMA RequestKeeps ==
  ASSUME RetentionTypeInv, RetentionTypeInv', RetentionInv, RequestStep, Apart
  PROVE  RetentionInv'
  <1>1. PICK p \in Request : CreateStep(p) \/ AcceptStep(p) \/ Die(p)
    BY DEF RequestStep
  <1>2. UNCHANGED task
    BY DEF RequestStep, taskVars
  <1>3. /\ TypeInv /\ TypeInv' /\ replicaSet /\ task \in Task /\ Targeted /\ Whole /\ FilesHeld /\ Judged
        /\ RowsJudged /\ Separate /\ Works(p)
    BY DEF RetentionTypeInv, RetentionInv
  <1>4. ScanApart /\ StampApart /\ Separate'
    BY DEF Apart, Separate
  <1>5. Effect(p) /\ Works(p)'
    BY <1>1, <1>3, RequestEffect
  <1>6. (\A q \in Request : Works(q)') /\ DisjointIds'
    BY <1>3, <1>5, RequestsWork
  <1>7. Whole' /\ FilesHeld'
    BY <1>2, <1>3, <1>5, RequestWhole, RequestFiles
  <1>8. Judged'
    BY <1>2, <1>3, <1>4, <1>5, RequestOld, RequestUnlinks, RequestLoops DEF Judged
  <1>9. RowsJudged'
    BY <1>2, <1>3, <1>4, <1>5, RequestRows
  <1> QED BY <1>4, <1>6, <1>7, <1>8, <1>9 DEF RetentionInv

-----------------------------------------------------------------------------
(* What a step of a task does to the store *)

\* It deletes only what nobody needs.
Harmless ==
  /\ TaskFrame
  /\ \A s \in Snap : doc'[s] # doc[s] =>
       /\ s \notin Used'
       /\ \A q \in Request : pc[q] \in WithBase => loc[q].base # s
  /\ \A q \in Request : Acceptor(q)'
  /\ \A f \in file \ file' : \A q \in Request : f \notin InFlight(q) /\ ~CloneWindow(q, f)
  /\ \A d \in torn' \ torn : Settled(d) /\ d \notin Used /\ d \notin Bases

LEMMA TaskShrinks ==
  ASSUME TypeInv, TaskFrame
  PROVE  /\ Visible' \subseteq Visible /\ Names' \subseteq Names
         /\ LiveChecks' \subseteq LiveChecks /\ RowSnaps' \subseteq RowSnaps /\ Used' \subseteq Used
         /\ \A c \in Snap : /\ check'[c].ident = check[c].ident
                            /\ check'[c].base = check[c].base /\ check'[c].diff = check[c].diff
                            /\ Parts(c)' = Parts(c)
                            /\ Created(c)' <=> Created(c)
                            /\ check'[c].st = "none" <=> check[c].st = "none"
                            /\ check'[c].st = "tx" => check'[c] = check[c]
                            /\ check[c].st = "tx" => check'[c] = check[c]
         /\ \A s \in Snap : Settled(s) <=> Settled(s)'
  <1>1. Visible' \subseteq Visible
    BY DEF Visible, TaskFrame
  <1>2. Names' \subseteq Names
    BY <1>1 DEF Names, TaskFrame
  <1>3. \A c \in Snap :
          /\ check'[c].ident = check[c].ident
          /\ check'[c].base = check[c].base /\ check'[c].diff = check[c].diff
          /\ \/ check'[c] = check[c]
             \/ check[c].st = "live" /\ check'[c].st = "gone"
    BY DEF TaskFrame, TypeInv, TypeOK, CheckRec
  <1>4. LiveChecks' \subseteq LiveChecks
    BY <1>3 DEF LiveChecks
  <1>5. RowSnaps' \subseteq RowSnaps
    <2>1. \A k \in Ident \X Snap : row'[k] > 0 => row[k] > 0
      BY DEF TaskFrame, TypeInv, TypeOK
    <2> QED BY <2>1, RowsAre
  <1>6. \A c \in Snap : Parts(c)' = Parts(c)
    BY <1>3 DEF Parts
  <1>7. Used' \subseteq Used
    BY <1>4, <1>5, <1>6, UsedIs DEF LiveChecks
  <1>8. \A s \in Snap : Settled(s) <=> Settled(s)'
    BY DEF TaskFrame, Settled
  <1> QED BY <1>1, <1>2, <1>3, <1>4, <1>5, <1>6, <1>7, <1>8 DEF Created

LEMMA TaskAway ==
  ASSUME TypeInv, NEW q \in Request, Works(q), Harmless
  PROVE  Away(q)
  <1>1. TaskFrame
    BY DEF Harmless
  <1>2. OwnIds(q) \subseteq Snap /\ \A s \in OwnIds(q) : doc[s] # "saved"
    BY OwnUnsettled
  <1>3. /\ pc'[q] = pc[q] /\ loc'[q] = loc[q]
        /\ \A s \in OwnIds(q) : doc'[s] = doc[s] /\ fname'[s] = fname[s]
    BY <1>1, <1>2 DEF TaskFrame
  <1>4. pc[q] = "finish" => check'[loc[q].cur] = check[loc[q].cur]
    <2>1. pc[q] = "finish" => loc[q].cur \in Snap /\ check[loc[q].cur].st = "tx"
      BY DEF Works, ReqDocs, TypeInv, ReqSet, Holding, CreateSteps
    <2> QED BY <1>1, <2>1, TaskShrinks
  <1>5. loc[q].diff # None => check'[loc[q].diff].st = "none"
    <2>1. loc[q].diff # None => loc[q].diff \in Snap /\ check[loc[q].diff].st = "none"
      BY DEF Works, TypeInv, TypeOK, Locals
    <2> QED BY <1>1, <2>1, TaskShrinks
  <1>6. /\ \A s \in Snap : Settled(s) => Settled(s)' /\ fname'[s] = fname[s]
        /\ \A s \in Snap : Created(s) => Created(s)'
    BY <1>1, TaskShrinks DEF TaskFrame
  <1>7. pc[q] \in WithBase /\ loc[q].base # loc[q].cur => doc'[loc[q].base] = "saved"
    <2>1. pc[q] \in WithBase => loc[q].base \in Snap
      BY DEF TypeInv, ReqSet, WithBase
    <2> QED BY <2>1 DEF Works, Harmless
  <1>8. \A c \in Snap : check'[c].diff = check[c].diff
    BY <1>1, TaskShrinks
  <1> QED BY <1>3, <1>4, <1>5, <1>6, <1>7, <1>8 DEF Away, Harmless

LEMMA TaskWhole ==
  ASSUME TypeInv, Whole, Harmless
  PROVE  Whole'
  <1>1. TaskFrame /\ fname' = fname /\ clock' = clock
    BY DEF Harmless, TaskFrame
  <1>2. ASSUME NEW s \in Snap  PROVE CloneOf(s)' /\ FreeName(s)' /\ DiffOf(s)' /\ BaseCreated(s)'
    <2>1. CloneOf(s) /\ FreeName(s) /\ DiffOf(s) /\ BaseCreated(s) /\ fname[s] \in Snap
      BY DEF Whole, TypeInv, TypeOK
    <2>2. CloneOf(s)'
      BY <1>1, <2>1, TaskShrinks DEF CloneOf
    <2>3. FreeName(s)'
      BY <1>1, <2>1 DEF FreeName, TaskFrame
    <2>4. DiffOf(s)'
      <3>1. check[s].diff # None => check[s].diff \in Snap
        BY DEF TypeInv, TypeOK, CheckRec
      <3>2. check[s].diff # None => doc'[check[s].diff] # "free"
        BY <1>1, <2>1, <3>1 DEF DiffOf, TaskFrame
      <3> QED BY <1>1, <2>1, <3>1, <3>2, TaskShrinks DEF DiffOf
    <2>5. BaseCreated(s)'
      <3>1. check[s].st # "none" => check[s].base \in Snap
        BY DEF TypeInv, CheckSet
      <3> QED BY <1>1, <2>1, <3>1, TaskShrinks DEF BaseCreated
    <2> QED BY <2>2, <2>3, <2>4, <2>5
  <1>3. ASSUME NEW k \in Ident \X Snap  PROVE RowOf(k)' /\ row'[k] <= clock'
    <2>1. row[k] \in Nat /\ clock \in Nat /\ row[k] <= clock /\ RowOf(k) /\ row'[k] \in {0, row[k]}
      BY <1>1 DEF Whole, TypeInv, TypeOK, TaskFrame
    <2>2. row'[k] <= clock'
      BY <1>1, <2>1
    <2>3. ASSUME row'[k] > 0  PROVE doc'[k[2]] = "saved" /\ Created(k[2])'
      <3>1. k[2] \in Snap /\ k[1] \in Ident /\ k = <<k[1], k[2]>>
        OBVIOUS
      <3>2. doc[k[2]] = "saved" /\ Created(k[2])
        BY <2>1, <2>3 DEF RowOf, Created
      <3>3. k[2] \in Used'
        BY <2>3, <3>1, RowsAre, UsedIs
      <3> QED BY <1>1, <3>1, <3>2, <3>3, TaskShrinks DEF Harmless
    <2> QED BY <2>2, <2>3 DEF RowOf, Created
  <1>4. ASSUME NEW c \in Snap, check'[c].st = "live", NEW s \in Parts(c)'
        PROVE  doc'[s] = "saved"
    <2>1. c \in LiveChecks' /\ c \in LiveChecks /\ s \in Parts(c)
      BY <1>1, <1>4, TaskShrinks DEF LiveChecks
    <2>2. s \in Used' /\ s \in Snap
      BY <1>4, <2>1, UsedIs DEF Parts, TypeInv, TypeOK, CheckRec
    <2>3. doc[s] = "saved"
      BY <2>1 DEF Whole, LiveCheckResolves, LiveChecks, Parts
    <2> QED BY <2>2, <2>3 DEF Harmless
  <1>5. LiveCheckResolves'
    BY <1>4 DEF LiveCheckResolves, Parts
  <1> QED BY <1>2, <1>3, <1>5 DEF Whole

LEMMA TaskKeeps ==
  ASSUME TypeInv, RetentionInv, Harmless, StoreKeepsFile'
  PROVE  (\A q \in Request : Works(q)') /\ DisjointIds' /\ Whole' /\ FilesHeld'
  <1>1. TaskFrame /\ torn' \subseteq Snap /\ loc' = loc
    BY DEF Harmless, TaskFrame
  <1>2. \A q \in Request : Works(q)'
    BY TaskAway, AwayKeeps DEF RetentionInv
  <1>3. DisjointIds'
    BY <1>1 DEF RetentionInv, DisjointIds, OwnIds
  <1>4. Whole'
    BY TaskWhole DEF RetentionInv
  <1>5. ASSUME NEW d \in torn'  PROVE Settled(d)' /\ d \notin Used' /\ d \notin Bases'
    <2>1. d \in Snap /\ Settled(d) /\ d \notin Used /\ d \notin Bases
      BY <1>1, <1>5 DEF Harmless, RetentionInv, FilesHeld, TornUnused
    <2>2. Bases' = Bases
      BY <1>1 DEF Bases
    <2> QED BY <1>1, <2>1, <2>2, TaskShrinks
  <1> QED BY <1>2, <1>3, <1>4, <1>5 DEF FilesHeld, TornUnused

\* The steps that only read.
LEMMA SameStore ==
  ASSUME UNCHANGED vars
  PROVE  /\ Visible' = Visible /\ LiveChecks' = LiveChecks /\ RowSnaps' = RowSnaps
         /\ Names' = Names /\ Used' = Used
         /\ \A s : Settled(s)' <=> Settled(s)
         /\ \A s : Created(s)' <=> Created(s)
  <1>1. Visible' = Visible /\ LiveChecks' = LiveChecks /\ RowSnaps' = RowSnaps
    BY DEF vars, Visible, LiveChecks, RowSnaps, Rows
  <1>2. Names' = Names /\ Used' = Used
    BY <1>1 DEF vars, Names, Used, Referenced, BasesAndActuals, Diffs
  <1> QED BY <1>1, <1>2 DEF Settled, Created, vars

LEMMA ReadHarmless ==
  ASSUME RetentionTypeInv, RetentionInv, UNCHANGED vars, ~At("rmDelete")
  PROVE  Harmless /\ StoreKeepsFile'
  <1>1. TaskFrame
    BY ReadFrame DEF RetentionTypeInv
  <1>2. \A q \in Request : Acceptor(q)'
    BY DEF RetentionInv, Works, Acceptor, vars
  <1>3. Harmless
    BY <1>1, <1>2 DEF Harmless, vars
  <1>4. \A d \in Visible \ torn : fname[d] \in file
    BY DEF RetentionInv, FilesHeld, StoreKeepsFile
  <1> QED BY <1>3, <1>4, SameStore DEF StoreKeepsFile, vars

-----------------------------------------------------------------------------
(* What a task knows after a step of its own that only reads *)

\* Steps after which a task relies on nothing but that it removes nothing yet.
Careless == {"idle", "ocNames", "ocAgain", "ofNames", "orUsed", "orDelete", "obDelete",
             "dcRows", "dcDocs"}

LEMMA CarelessJudged ==
  ASSUME task'.step \in Careless, task'.target = None
  PROVE  Judged'
  BY DEF Careless, Judged, OldKnown, OldUnused, UnlinkUnnamed, OrphansKnown, LoopUnused,
         BrokenKnown, RemoveLoop, At

\* Only three steps of two tasks rely on rows.
LEMMA RowsElsewhere ==
  ASSUME task'.step \notin {"obDelete", "orUsed", "orDelete"}
  PROVE  RowsJudged'
  BY DEF RowsJudged, OldRowsOld, OrphanRowsLoose, At

\* A live check and its baseline have been committed.
LEMMA LiveSettled ==
  ASSUME TypeInv, Whole, NEW c \in LiveChecks
  PROVE  /\ \A s \in Parts(c) : s \in Snap /\ doc[s] = "saved" /\ Settled(s)
         /\ c \in Snap /\ Created(c)
         /\ check[c].base \in Snap /\ Created(check[c].base)
         /\ c \in Parts(c) /\ check[c].base \in Parts(c)
  <1>1. c \in Snap /\ check[c].st = "live" /\ None \notin Snap
    BY StoreAssumption DEF LiveChecks
  <1>2. check[c].base \in Snap /\ BaseCreated(c)
    BY <1>1 DEF Whole, TypeInv, CheckSet
  <1>3. \A s \in Parts(c) : s \in Snap /\ doc[s] = "saved"
    BY <1>1 DEF Whole, LiveCheckResolves, Parts, TypeInv, TypeOK, CheckRec
  <1> QED BY <1>1, <1>2, <1>3 DEF BaseCreated, Created, Parts, Settled

LEMMA OldChecksJudged ==
  ASSUME RetentionTypeInv, RetentionInv,
         OldChecks \/ OldChecksRefs \/ OldChecksRows \/ OldChecksNames
  PROVE  UNCHANGED vars /\ ~At("rmDelete") /\ Judged' /\ RowsJudged'
  <1>1. /\ TypeInv /\ Whole /\ Judged /\ task \in Task
        /\ task.step \notin {"rmUnlink", "rmDelete"} => task.target = None
    BY DEF RetentionTypeInv, RetentionInv, Judged, LoopUnused
  <1>2. CASE OldChecks
    <2>1. PICK old \in SUBSET LiveChecks :
            LET ids == BasesAndActuals(old) IN
            Begin([NoTask EXCEPT !.step = "ocRefs", !.checks = old, !.snaps = ids,
                                 !.diffs = Diffs(old),
                                 !.files = {fname[s] : s \in Visible \cap (ids \cup Diffs(old))}])
      BY <1>2 DEF OldChecks
    <2>2. /\ UNCHANGED vars /\ ~At("rmDelete")
          /\ task'.step = "ocRefs" /\ task'.target = None
          /\ task'.checks = old /\ task'.snaps = BasesAndActuals(old) /\ task'.diffs = Diffs(old)
      BY <2>1 DEF Begin, NoTask, At
    <2>3. \A s \in BasesAndActuals(old) : Settled(s)' /\ Created(s)'
      BY <1>1, <2>2, LiveSettled, SameStore DEF BasesAndActuals
    <2>4. Diffs(old)' = Diffs(old) /\ LiveChecks' = LiveChecks
      BY <2>2, SameStore DEF Diffs, vars
    <2>5. OldKnown'
      <3>1. task'.diffs \subseteq Diffs(task.checks)'
        BY <2>2, <2>4 DEF Diffs, vars
      <3> QED BY <2>2, <2>3, <2>4, <3>1 DEF OldKnown
    <2>6. OldUnused' /\ UnlinkUnnamed' /\ OrphansKnown' /\ LoopUnused' /\ BrokenKnown'
      BY <2>2 DEF OldUnused, UnlinkUnnamed, OrphansKnown, LoopUnused, BrokenKnown, RemoveLoop, At
    <2> QED BY <2>2, <2>5, <2>6, RowsElsewhere DEF Judged
  <1>3. CASE OldChecksRefs
    <2>1. /\ UNCHANGED vars /\ task.step = "ocRefs" /\ ~At("rmDelete")
          /\ task'.step = "ocRows" /\ task'.target = None /\ task'.checks = task.checks
          /\ task'.snaps = task.snaps /\ task'.diffs = task.diffs
          /\ task'.refs = BasesAndActuals(LiveChecks \ task.checks)
      BY <1>1, <1>3 DEF OldChecksRefs, Read, At, Task
    <2>2. OldKnown'
      <3>1. OldKnown
        BY <1>1 DEF Judged
      <3>2. Diffs(task.checks)' = Diffs(task.checks)
        BY <2>1 DEF Diffs, vars
      <3> QED BY <2>1, <3>1, <3>2, SameStore DEF OldKnown
    <2>3. Others' = task'.refs
      BY <2>1, SameStore DEF Others, BasesAndActuals, vars
    <2>4. OldUnused'
      BY <2>1, <2>3 DEF OldUnused, Deletable, At
    <2>5. UnlinkUnnamed' /\ OrphansKnown' /\ LoopUnused' /\ BrokenKnown'
      BY <2>1 DEF UnlinkUnnamed, OrphansKnown, LoopUnused, BrokenKnown, RemoveLoop, At
    <2> QED BY <2>1, <2>2, <2>4, <2>5, RowsElsewhere DEF Judged
  <1>4. CASE OldChecksRows
    <2>1. /\ UNCHANGED vars /\ task.step = "ocRows" /\ ~At("rmDelete")
          /\ task'.step = "ocChecks" /\ task'.target = None /\ task'.checks = task.checks
          /\ task'.snaps = task.snaps /\ task'.diffs = task.diffs
          /\ task'.refs = task.refs \cup RowSnaps
      BY <1>1, <1>4 DEF OldChecksRows, Read, At, Task
    <2>2. OldKnown'
      <3>1. OldKnown
        BY <1>1 DEF Judged
      <3>2. Diffs(task.checks)' = Diffs(task.checks)
        BY <2>1 DEF Diffs, vars
      <3> QED BY <2>1, <3>1, <3>2, SameStore DEF OldKnown
    <2>3. Others' = Others
      BY <2>1, SameStore DEF Others, BasesAndActuals, vars
    <2>4. OldUnused'
      <3>1. Others \cap Deletable \subseteq RowSnaps
        BY <1>1, <2>1 DEF Judged, OldUnused, At
      <3> QED BY <2>1, <2>3, <3>1, SameStore DEF OldUnused, Deletable, At
    <2>5. UnlinkUnnamed' /\ OrphansKnown' /\ LoopUnused' /\ BrokenKnown'
      BY <2>1 DEF UnlinkUnnamed, OrphansKnown, LoopUnused, BrokenKnown, RemoveLoop, At
    <2> QED BY <2>1, <2>2, <2>4, <2>5, RowsElsewhere DEF Judged
  <1>5. CASE OldChecksNames
    <2>1. /\ UNCHANGED vars /\ task.step \in {"ocNames", "ocAgain"} /\ ~At("rmDelete")
          /\ task'.step \in {"ocAgain", "ocUnlink"} /\ task'.target = None
          /\ task'.files = task.files \ Names
      BY <1>1, <1>5 DEF OldChecksNames, Read, At, Task
    <2>2. UnlinkUnnamed'
      BY <2>1, SameStore DEF UnlinkUnnamed, At
    <2>3. OldKnown' /\ OldUnused' /\ OrphansKnown' /\ LoopUnused' /\ BrokenKnown'
      BY <2>1 DEF OldKnown, OldUnused, OrphansKnown, LoopUnused, BrokenKnown, RemoveLoop, At
    <2> QED BY <2>1, <2>2, <2>3, RowsElsewhere DEF Judged
  <1> QED BY <1>2, <1>3, <1>4, <1>5

LEMMA OrphansJudged ==
  ASSUME RetentionTypeInv, RetentionInv,
         \/ OrphanFiles \/ OrphanFilesNames
         \/ OrphanSnapshots \/ OrphanSnapshotsChecks \/ OrphanSnapshotsDocs
  PROVE  UNCHANGED vars /\ ~At("rmDelete") /\ Judged' /\ RowsJudged'
  <1>1. /\ TypeInv /\ Whole /\ Judged /\ task \in Task
        /\ task.step \notin {"rmUnlink", "rmDelete"} => task.target = None
    BY DEF RetentionTypeInv, RetentionInv, Judged, LoopUnused
  <1>2. CASE OrphanFiles
    <2>1. /\ UNCHANGED vars /\ ~At("rmDelete") /\ task'.step = "ofNames" /\ task'.target = None
      BY <1>2 DEF OrphanFiles, Begin, NoTask, At
    <2> QED BY <2>1, CarelessJudged, RowsElsewhere DEF Careless
  <1>3. CASE OrphanFilesNames
    <2>1. /\ UNCHANGED vars /\ ~At("rmDelete")
          /\ task'.step = "ofUnlink" /\ task'.target = None /\ task'.files = task.files \ Names
      BY <1>1, <1>3 DEF OrphanFilesNames, Read, At, Task
    <2>2. UnlinkUnnamed'
      BY <2>1, SameStore DEF UnlinkUnnamed, At
    <2>3. OldKnown' /\ OldUnused' /\ OrphansKnown' /\ LoopUnused' /\ BrokenKnown'
      BY <2>1 DEF OldKnown, OldUnused, OrphansKnown, LoopUnused, BrokenKnown, RemoveLoop, At
    <2> QED BY <2>1, <2>2, <2>3, RowsElsewhere DEF Judged
  <1>4. CASE OrphanSnapshots
    <2>1. /\ UNCHANGED vars /\ ~At("rmDelete")
          /\ task'.step = "osChecks" /\ task'.target = None /\ task'.refs = RowSnaps
      BY <1>4 DEF OrphanSnapshots, Begin, NoTask, At
    <2>2. OrphansKnown'
      BY <2>1, SameStore DEF OrphansKnown, At
    <2>3. OldKnown' /\ OldUnused' /\ UnlinkUnnamed' /\ LoopUnused' /\ BrokenKnown'
      BY <2>1 DEF OldKnown, OldUnused, UnlinkUnnamed, LoopUnused, BrokenKnown, RemoveLoop, At
    <2> QED BY <2>1, <2>2, <2>3, RowsElsewhere DEF Judged
  <1>5. CASE OrphanSnapshotsChecks
    <2>1. /\ UNCHANGED vars /\ task.step = "osChecks" /\ ~At("rmDelete")
          /\ task'.step = "osDocs" /\ task'.target = None
          /\ task'.refs = task.refs \cup Referenced(LiveChecks)
      BY <1>1, <1>5 DEF OrphanSnapshotsChecks, Read, At, Task
    <2>2. RowSnaps \subseteq task.refs \cup LiveChecks
      BY <1>1, <2>1 DEF Judged, OrphansKnown, At
    <2>3. LiveChecks \subseteq Referenced(LiveChecks)
      BY DEF Referenced, BasesAndActuals
    <2>4. OrphansKnown'
      BY <2>1, <2>2, <2>3, SameStore DEF OrphansKnown, Used, At
    <2>5. OldKnown' /\ OldUnused' /\ UnlinkUnnamed' /\ LoopUnused' /\ BrokenKnown'
      BY <2>1 DEF OldKnown, OldUnused, UnlinkUnnamed, LoopUnused, BrokenKnown, RemoveLoop, At
    <2> QED BY <2>1, <2>4, <2>5, RowsElsewhere DEF Judged
  <1>6. CASE OrphanSnapshotsDocs
    <2>1. /\ UNCHANGED vars /\ task.step = "osDocs" /\ ~At("rmDelete")
          /\ task'.step = "rmNext" /\ task'.target = None
          /\ task'.snaps = Visible \ task.refs
      BY <1>1, <1>6 DEF OrphanSnapshotsDocs, Read, At, Task
    <2>2. Used \subseteq task.refs
      BY <1>1, <2>1 DEF Judged, OrphansKnown, At
    <2>3. \A s \in task'.snaps : Settled(s)' /\ s \notin Used'
      BY <2>1, <2>2, SameStore DEF Visible, Settled
    <2>4. LoopUnused'
      BY <2>1, <2>3 DEF LoopUnused, RemoveLoop, At
    <2>5. OldKnown' /\ OldUnused' /\ UnlinkUnnamed' /\ OrphansKnown' /\ BrokenKnown'
      BY <2>1 DEF OldKnown, OldUnused, UnlinkUnnamed, OrphansKnown, BrokenKnown, RemoveLoop, At
    <2> QED BY <2>1, <2>4, <2>5, RowsElsewhere DEF Judged
  <1> QED BY <1>2, <1>3, <1>4, <1>5, <1>6

\* The clamp on keepLast is what keeps the newest row of an identity.
LEMMA SelectedOld ==
  ASSUME NEW limit, NEW k \in SelectOld(limit)
  PROVE  k \in Rows /\ Newer(k) # {}
  <1>1. k \in Rows /\ Cardinality(Newer(k)) >= EffectiveKeepLast
    BY DEF SelectOld
  <1>2. EffectiveKeepLast \in Nat /\ EffectiveKeepLast >= 1
    BY RetentionAssumption DEF EffectiveKeepLast
  <1>3. Cardinality({}) = 0
    BY FS_EmptySet
  <1> QED BY <1>1, <1>2, <1>3

LEMMA RowTasksJudged ==
  ASSUME RetentionTypeInv, RetentionInv,
         OrphanBaselines \/ OrphanBaselinesUsed \/ OldBaselines \/ OldBaselinesRefs
  PROVE  UNCHANGED vars /\ ~At("rmDelete") /\ Judged' /\ RowsJudged'
  <1>1. /\ TypeInv /\ Whole /\ Judged /\ RowsJudged /\ task \in Task
        /\ task.step \notin {"rmUnlink", "rmDelete"} => task.target = None
    BY DEF RetentionTypeInv, RetentionInv, Judged, LoopUnused
  <1>2. ASSUME NEW k \in Rows
        PROVE  k[2] \in Snap /\ Settled(k[2]) /\ Created(k[2])
    BY <1>1 DEF Rows, Whole, RowOf, Settled, Created
  <1>3. CASE OrphanBaselines
    <2>1. /\ UNCHANGED vars /\ ~At("rmDelete")
          /\ task'.step = "orUsed" /\ task'.target = None /\ task'.rows = Rows
      BY <1>3 DEF OrphanBaselines, Begin, NoTask, At
    <2>2. RowsJudged'
      BY <1>2, <2>1, SameStore DEF RowsJudged, OldRowsOld, OrphanRowsLoose, At
    <2> QED BY <2>1, <2>2, CarelessJudged DEF Careless
  <1>4. CASE OrphanBaselinesUsed
    <2>1. /\ UNCHANGED vars /\ task.step = "orUsed" /\ ~At("rmDelete")
          /\ task'.step = "orDelete" /\ task'.target = None
          /\ task'.rows = {k \in task.rows : k[2] \notin UsedAsBaseline}
      BY <1>1, <1>4 DEF OrphanBaselinesUsed, Read, At, Task
    <2>2. \A k \in task'.rows : Created(k[2])'
      BY <1>1, <2>1, SameStore DEF RowsJudged, OrphanRowsLoose
    <2>3. ASSUME NEW c \in LiveChecks', check'[c].base = c, <<check'[c].ident, c>> \in task'.rows
          PROVE  FALSE
      <3>1. c \in LiveChecks /\ check[c].base = c
        BY <2>1, <2>3, SameStore DEF vars
      <3>2. c \in UsedAsBaseline
        BY <3>1 DEF UsedAsBaseline
      <3>3. <<check'[c].ident, c>>[2] = c
        OBVIOUS
      <3> QED BY <2>1, <2>3, <3>2, <3>3
    <2>4. RowsJudged'
      BY <2>1, <2>2, <2>3 DEF RowsJudged, OldRowsOld, OrphanRowsLoose, At
    <2> QED BY <2>1, <2>4, CarelessJudged DEF Careless
  <1>5. CASE OldBaselines
    <2>1. PICK limit \in 0 .. clock :
            Begin([NoTask EXCEPT !.step = "obDelete", !.rows = SelectOld(limit)])
      BY <1>5 DEF OldBaselines
    <2>2. /\ UNCHANGED vars /\ ~At("rmDelete")
          /\ task'.step = "obDelete" /\ task'.target = None /\ task'.rows = SelectOld(limit)
      BY <2>1 DEF Begin, NoTask, At
    <2>3. ASSUME NEW k \in SelectOld(limit)
          PROVE  Settled(k[2])' /\ Newer(k)' # {}
      <3>1. k \in Rows /\ Newer(k) # {}
        BY SelectedOld
      <3>2. Newer(k)' = Newer(k)
        BY <2>2 DEF Newer, Rows, vars
      <3> QED BY <1>2, <2>2, <3>1, <3>2, SameStore
    <2>4. RowsJudged'
      BY <2>2, <2>3 DEF RowsJudged, OldRowsOld, OrphanRowsLoose, At
    <2> QED BY <2>2, <2>4, CarelessJudged DEF Careless
  <1>6. CASE OldBaselinesRefs
    <2>1. /\ UNCHANGED vars /\ task.step = "obRefs" /\ ~At("rmDelete")
          /\ task'.step = "rmNext" /\ task'.target = None
          /\ task'.snaps = task.snaps \ StillReferenced
      BY <1>1, <1>6 DEF OldBaselinesRefs, Read, At, Task
    <2>2. StillReferenced = Used
      BY DEF StillReferenced, Used
    <2>3. \A s \in task'.snaps : Settled(s)' /\ s \notin Used'
      BY <1>1, <2>1, <2>2, SameStore DEF Judged, LoopUnused, At
    <2>4. LoopUnused'
      BY <2>1, <2>3 DEF LoopUnused, RemoveLoop, At
    <2>5. OldKnown' /\ OldUnused' /\ UnlinkUnnamed' /\ OrphansKnown' /\ BrokenKnown'
      BY <2>1 DEF OldKnown, OldUnused, UnlinkUnnamed, OrphansKnown, BrokenKnown, RemoveLoop, At
    <2> QED BY <2>1, <2>4, <2>5, RowsElsewhere DEF Judged
  <1> QED BY <1>3, <1>4, <1>5, <1>6

LEMMA ConsistencyJudged ==
  ASSUME RetentionTypeInv, RetentionInv,
         Consistency \/ ConsistencyRows \/ ConsistencyDocs \/ ConsistencyChecks
  PROVE  UNCHANGED vars /\ ~At("rmDelete") /\ Judged' /\ RowsJudged'
  <1>1. /\ TypeInv /\ Whole /\ Judged /\ FilesHeld /\ task \in Task
        /\ task.step \notin {"rmUnlink", "rmDelete"} => task.target = None
    BY DEF RetentionTypeInv, RetentionInv, Judged, LoopUnused
  <1>2. CASE Consistency
    <2>1. /\ UNCHANGED vars /\ ~At("rmDelete") /\ task'.step = "dcRows" /\ task'.target = None
      BY <1>2 DEF Consistency, Begin, NoTask, At
    <2> QED BY <2>1, CarelessJudged, RowsElsewhere DEF Careless
  <1>3. CASE ConsistencyRows
    <2>1. /\ UNCHANGED vars /\ ~At("rmDelete") /\ task'.step = "dcDocs" /\ task'.target = None
      BY <1>1, <1>3 DEF ConsistencyRows, Read, At, Task
    <2> QED BY <2>1, CarelessJudged, RowsElsewhere DEF Careless
  <1>4. CASE ConsistencyDocs
    <2>1. PICK last \in [Names -> Visible] :
            /\ \A f \in Names : fname[last[f]] = f
            /\ Read([task EXCEPT !.step = "dcChecks", !.files = @ \ Names,
                                 !.snaps = {last[f] : f \in Missing} \ task.refs])
      BY <1>4 DEF ConsistencyDocs
    <2>2. /\ UNCHANGED vars /\ ~At("rmDelete")
          /\ task'.step = "dcChecks" /\ task'.target = None
          /\ task'.files = task.files \ Names
          /\ task'.snaps = {last[f] : f \in Missing} \ task.refs
      BY <1>1, <1>4, <2>1 DEF ConsistencyDocs, Read, At, Task
    <2>3. ASSUME NEW f \in Missing  PROVE last[f] \in torn /\ fname[last[f]] \notin file
      <3>1. f \in Names /\ f \notin file
        BY DEF Missing
      <3>2. last[f] \in Visible /\ fname[last[f]] = f
        BY <2>1, <3>1
      <3> QED BY <1>1, <2>2, <3>1, <3>2 DEF FilesHeld, StoreKeepsFile
    <2>4. BrokenKnown'
      <3>1. ASSUME NEW s \in task'.snaps  PROVE s \in torn' /\ fname'[s] \notin file'
        <4>1. PICK f \in Missing : s = last[f]
          BY <2>2
        <4> QED BY <2>2, <2>3, <4>1 DEF vars
      <3> QED BY <2>2, <3>1 DEF BrokenKnown, At
    <2>5. UnlinkUnnamed'
      BY <2>2, SameStore DEF UnlinkUnnamed, At
    <2>6. OldKnown' /\ OldUnused' /\ OrphansKnown' /\ LoopUnused'
      BY <2>2 DEF OldKnown, OldUnused, OrphansKnown, LoopUnused, RemoveLoop, At
    <2> QED BY <2>2, <2>4, <2>5, <2>6, RowsElsewhere DEF Judged
  <1>5. CASE ConsistencyChecks
    <2>1. /\ UNCHANGED vars /\ task.step = "dcChecks" /\ ~At("rmDelete")
          /\ task'.step = "dcDelete" /\ task'.target = None
          /\ task'.files = task.files /\ task'.snaps = task.snaps
          /\ task'.checks = {c \in LiveChecks : ~(BasesAndActuals({c}) \subseteq Visible)}
      BY <1>1, <1>5 DEF ConsistencyChecks, Read, At, Task
    <2>2. ASSUME NEW c \in LiveChecks  PROVE BasesAndActuals({c}) \subseteq Visible
      BY <1>1, LiveSettled DEF BasesAndActuals, Visible
    <2>3. BrokenKnown'
      BY <1>1, <2>1, <2>2 DEF Judged, BrokenKnown, At, vars
    <2>4. UnlinkUnnamed'
      BY <1>1, <2>1, SameStore DEF Judged, UnlinkUnnamed, At
    <2>5. OldKnown' /\ OldUnused' /\ OrphansKnown' /\ LoopUnused'
      BY <2>1 DEF OldKnown, OldUnused, OrphansKnown, LoopUnused, RemoveLoop, At
    <2> QED BY <2>1, <2>3, <2>4, <2>5, RowsElsewhere DEF Judged
  <1> QED BY <1>2, <1>3, <1>4, <1>5

LEMMA RemoveNextJudged ==
  ASSUME RetentionTypeInv, RetentionInv, RemoveNext
  PROVE  UNCHANGED vars /\ ~At("rmDelete") /\ Judged' /\ RowsJudged'
  <1>1. /\ TypeInv /\ Whole /\ Judged /\ FilesHeld /\ task \in Task
        /\ task.step = "rmNext" /\ task.target = None
    BY DEF RetentionTypeInv, RetentionInv, Judged, LoopUnused, RemoveNext, At
  <1>2. UNCHANGED vars /\ ~At("rmDelete")
    BY <1>1 DEF RemoveNext, At
  <1>3. CASE task' = NoTask
    BY <1>2, <1>3, CarelessJudged, RowsElsewhere DEF NoTask, Careless
  <1>4. CASE task' # NoTask
    <2>1. PICK s \in task.snaps :
            LET rest == [task EXCEPT !.snaps = @ \ {s}] IN
            task' = IF s \in RowSnaps \/ s \notin Visible THEN rest
                    ELSE [rest EXCEPT !.target = s,
                            !.step = IF Sharers(s) = {} THEN "rmUnlink" ELSE "rmDelete",
                            !.files = IF Sharers(s) = {} THEN {fname[s]} ELSE {}]
      BY <1>4 DEF RemoveNext, Done
    <2>2. /\ s \in Snap
          /\ task'.snaps = task.snaps \ {s}
          /\ \/ task'.step = "rmNext" /\ task'.target = None
             \/ /\ s \in Visible /\ task'.target = s
                /\ \/ task'.step = "rmUnlink" /\ task'.files = {fname[s]} /\ Sharers(s) = {}
                   \/ task'.step = "rmDelete" /\ task'.files = {}
      BY <1>1, <2>1 DEF Task
    <2>3. \A t \in task.snaps : t # None => Settled(t) /\ t \notin Used
      BY <1>1 DEF Judged, LoopUnused, RemoveLoop
    <2>4. s # None
      BY <2>2, StoreAssumption
    <2>5. LoopUnused'
      BY <1>2, <2>2, <2>3, <2>4, SameStore DEF LoopUnused, RemoveLoop, At
    <2>6. task'.step = "rmUnlink" =>
            \A d \in Visible : fname[d] = fname[s] => d = s
      BY <2>2 DEF Sharers, Visible
    <2>7. task'.step = "rmDelete" => (s \in Visible \ torn => fname[s] \in file)
      BY <1>1 DEF FilesHeld, StoreKeepsFile, At
    <2>8. UnlinkUnnamed'
      BY <1>2, <2>2, <2>6, <2>7, SameStore DEF UnlinkUnnamed, At, vars
    <2>9. OldKnown' /\ OldUnused' /\ OrphansKnown' /\ BrokenKnown'
      BY <2>2 DEF OldKnown, OldUnused, OrphansKnown, BrokenKnown, At
    <2> QED BY <1>2, <2>2, <2>5, <2>8, <2>9, RowsElsewhere DEF Judged
  <1> QED BY <1>3, <1>4

-----------------------------------------------------------------------------
(* The steps that delete *)

\* Where no file is unlinked and nobody dies, no document loses its file.
LEMMA FilesUntouched ==
  ASSUME TypeInv, FilesHeld, TaskFrame, ~At("rmDelete"), UNCHANGED <<file, torn>>
  PROVE  StoreKeepsFile'
  <1>1. Visible' \subseteq Visible /\ fname' = fname
    BY TaskShrinks DEF TaskFrame
  <1> QED BY <1>1 DEF FilesHeld, StoreKeepsFile

\* Where no check is deleted, nobody's acceptance is.
LEMMA AcceptorsStay ==
  ASSUME TypeInv, RetentionInv, TaskFrame, UNCHANGED check
  PROVE  \A q \in Request : Acceptor(q)'
  BY DEF RetentionInv, Works, Acceptor, TaskFrame

LEMMA OldChecksDeleteHarmless ==
  ASSUME RetentionTypeInv, RetentionInv, OldChecksDelete
  PROVE  Harmless /\ StoreKeepsFile' /\ Judged' /\ RowsJudged'
  <1>1. /\ TypeInv /\ Whole /\ Judged /\ FilesHeld /\ Separate /\ task \in Task
        /\ task.step = "ocChecks" /\ task.target = None /\ ~At("rmDelete")
        /\ \A q \in Request : Works(q)
    BY DEF RetentionTypeInv, RetentionInv, Judged, LoopUnused, OldChecksDelete, At
  <1>2. /\ UNCHANGED <<fname, file, row, torn, pc, loc>>
        /\ task'.step = "ocNames" /\ task'.target = None
        /\ DeleteDocs(Deletable \cup task.diffs) /\ DeleteChecks(task.checks)
    BY <1>1 DEF OldChecksDelete, reqVars, Task
  <1>3. TaskFrame
    BY DeletesTyped
  <1>4. /\ \A s \in Snap : doc'[s] # doc[s] => s \in Deletable \cup task.diffs /\ doc[s] = "saved"
        /\ \A c \in Snap : check'[c] = IF c \in task.checks /\ check[c].st = "live"
                                       THEN [check[c] EXCEPT !.st = "gone"] ELSE check[c]
    BY <1>1, <1>2, DeletedFrame
  <1>5. \A c \in LiveChecks' : c \in LiveChecks \ task.checks /\ Parts(c)' = Parts(c)
    <2>1. ASSUME NEW c \in Snap, c \in task.checks  PROVE check'[c].st # "live"
      BY <1>1, <1>4, <2>1 DEF TypeInv, TypeOK, CheckRec
    <2> QED BY <1>1, <1>3, <2>1, TaskShrinks DEF LiveChecks
  <1>6. RowSnaps' = RowSnaps
    BY <1>2 DEF RowSnaps, Rows
  <1>7. /\ task.diffs \subseteq Diffs(task.checks) /\ task.checks \subseteq LiveChecks
        /\ \A s \in task.snaps : Settled(s) /\ Created(s)
        /\ (Others \cup RowSnaps) \cap Deletable = {} /\ Deletable \subseteq task.snaps
        /\ task.snaps \subseteq Snap
    BY <1>1 DEF Judged, OldKnown, OldUnused, At, Deletable, Task
  <1>8. ASSUME NEW c \in LiveChecks, NEW s \in Snap, s = check[c].diff
        PROVE  /\ ~Created(s) /\ check[s].st = "none"
               /\ \A e \in Snap : check[e].diff = s => e = c
    <2>1. c \in Snap /\ s # None
      BY StoreAssumption DEF LiveChecks
    <2> QED BY <1>1, <1>8, <2>1 DEF Whole, DiffOf, Created
  <1>9. ASSUME NEW s \in task.diffs
        PROVE  /\ s \in Snap /\ ~Created(s) /\ check[s].st = "none"
               /\ \E c \in task.checks : s = check[c].diff
    <2>1. PICK c \in task.checks : s = check[c].diff /\ s # None
      BY <1>7 DEF Diffs
    <2>2. c \in LiveChecks /\ c \in Snap /\ s \in Snap
      BY <1>1, <1>7, <2>1 DEF LiveChecks, TypeInv, TypeOK, CheckRec
    <2> QED BY <1>8, <2>1, <2>2
  <1>10. ASSUME NEW s \in Deletable \cup task.diffs, s \in Snap  PROVE s \notin Used'
    <2>1. s \notin RowSnaps'
      <3>1. CASE s \in Deletable
        BY <1>6, <1>7, <3>1
      <3>2. CASE s \in task.diffs
        <4>1. \A t \in RowSnaps : Created(t)
          BY <1>1 DEF RowSnaps, Rows, Whole, RowOf, Created
        <4> QED BY <1>6, <1>9, <3>2, <4>1
      <3> QED BY <3>1, <3>2
    <2>2. ASSUME NEW c \in LiveChecks', s \in Parts(c)'  PROVE FALSE
      <3>1. c \in LiveChecks \ task.checks /\ s \in Parts(c) /\ c \in Snap
        BY <1>5, <2>2 DEF LiveChecks
      <3>2. CASE s \in {c, check[c].base} /\ s # None
        <4>1. s \in Others /\ Created(s)
          BY <1>1, <3>1, <3>2, LiveSettled DEF Others, BasesAndActuals
        <4> QED BY <1>7, <1>9, <4>1
      <3>3. CASE s = check[c].diff
        <4>1. s \notin Deletable
          BY <1>7, <1>8, <3>1, <3>3
        <4>2. PICK e \in task.checks : s = check[e].diff
          BY <1>9, <4>1
        <4>3. e \in Snap
          BY <1>7 DEF LiveChecks
        <4> QED BY <1>8, <1>10, <3>1, <3>3, <4>2, <4>3
      <3> QED BY <3>1, <3>2, <3>3 DEF Parts
    <2> QED BY <2>1, <2>2, UsedIs
  <1>11. ASSUME NEW s \in Deletable \cup task.diffs, s \in Snap, doc[s] = "saved",
                NEW q \in Request, pc[q] \in WithBase, loc[q].base = s
         PROVE  FALSE
    <2>1. loc[q].base # loc[q].cur
      BY <1>1, <1>11 DEF Works, ReqDocs, WithBase, Holding, CreateSteps
    <2>2. Created(s)
      BY <1>1, <1>11, <2>1 DEF Works
    <2>3. s \in Deletable
      BY <1>9, <2>2
    <2>4. s \in Doomed /\ s # None
      BY <1>1, <1>7, <1>11, <2>3, StoreAssumption DEF Doomed, RemoveLoop
    <2> QED BY <1>1, <1>11, <2>4 DEF Separate, BasesApart
  <1>12. ASSUME NEW q \in Request  PROVE Acceptor(q)'
    <2>1. pc[q] \in AcceptSteps => /\ check[loc[q].chk].st = "live" /\ loc[q].chk \in Snap
                                   /\ loc[q].chk \notin task.checks
      BY <1>1 DEF Works, Acceptor, TypeInv, ReqSet, Separate, AcceptApart
    <2> QED BY <1>2, <1>4, <2>1 DEF Acceptor
  <1>13. Harmless
    BY <1>2, <1>3, <1>4, <1>10, <1>11, <1>12 DEF Harmless
  <1>14. StoreKeepsFile'
    BY <1>1, <1>2, <1>3, FilesUntouched
  <1> QED BY <1>2, <1>13, <1>14, CarelessJudged, RowsElsewhere DEF Careless

LEMMA UnlinkHarmless ==
  ASSUME RetentionTypeInv, RetentionInv, Unlink
  PROVE  Harmless /\ StoreKeepsFile' /\ Judged' /\ RowsJudged'
  <1>1. /\ TypeInv /\ Judged /\ FilesHeld /\ Separate
        /\ task.step \in {"ocUnlink", "ofUnlink", "dcUnlink"} /\ ~At("rmDelete")
    BY DEF RetentionTypeInv, RetentionInv, Unlink, At
  <1>2. /\ UNCHANGED <<doc, fname, row, check, torn, pc, loc>>
        /\ file' = file \ task.files /\ task' = NoTask
    BY DEF Unlink, reqVars, Done
  <1>3. TaskFrame
    BY DeletesTyped
  <1>4. \A q \in Request : Acceptor(q)'
    BY <1>1, <1>2, <1>3, AcceptorsStay
  <1>5. \A f \in file \ file' : \A q \in Request : f \notin InFlight(q) /\ ~CloneWindow(q, f)
    BY <1>1, <1>2 DEF Separate, FilesApart
  <1>6. Harmless
    BY <1>2, <1>3, <1>4, <1>5 DEF Harmless
  <1>7. StoreKeepsFile'
    <2>1. ASSUME NEW d \in Visible \ torn  PROVE fname[d] \in file \ task.files
      <3>1. fname[d] \in Names /\ fname[d] \in file
        BY <1>1 DEF FilesHeld, StoreKeepsFile, Names
      <3> QED BY <1>1, <3>1 DEF Judged, UnlinkUnnamed
    <2> QED BY <1>2, <2>1 DEF StoreKeepsFile, Visible
  <1> QED BY <1>2, <1>6, <1>7, CarelessJudged, RowsElsewhere DEF Careless, NoTask

LEMMA RemoveTaskUnlinkHarmless ==
  ASSUME RetentionTypeInv, RetentionInv, RemoveTaskUnlink
  PROVE  Harmless /\ StoreKeepsFile' /\ Judged' /\ RowsJudged'
  <1>1. /\ TypeInv /\ Judged /\ FilesHeld /\ Separate /\ task \in Task
        /\ task.step = "rmUnlink" /\ ~At("rmDelete")
    BY DEF RetentionTypeInv, RetentionInv, RemoveTaskUnlink, At
  <1>2. /\ UNCHANGED <<doc, fname, row, check, torn, pc, loc>>
        /\ file' = file \ task.files
        /\ task'.step = "rmDelete" /\ task'.target = task.target
        /\ task'.snaps = task.snaps /\ task'.files = task.files
    BY <1>1 DEF RemoveTaskUnlink, reqVars, Task
  <1>3. TaskFrame
    BY DeletesTyped
  <1>4. \A q \in Request : Acceptor(q)'
    BY <1>1, <1>2, <1>3, AcceptorsStay
  <1>5. \A f \in file \ file' : \A q \in Request : f \notin InFlight(q) /\ ~CloneWindow(q, f)
    BY <1>1, <1>2 DEF Separate, FilesApart
  <1>6. Harmless
    BY <1>2, <1>3, <1>4, <1>5 DEF Harmless
  <1>7. /\ task.files = {fname[task.target]}
        /\ \A d \in Visible : fname[d] = fname[task.target] => d = task.target
    BY <1>1 DEF Judged, UnlinkUnnamed, At
  <1>8. StoreKeepsFile'
    <2>1. ASSUME NEW d \in Visible \ torn  PROVE fname[d] \in file \ task.files \/ d = task.target
      BY <1>1, <1>7 DEF FilesHeld, StoreKeepsFile
    <2> QED BY <1>2, <2>1 DEF StoreKeepsFile, Visible, At
  <1>9. LoopUnused'
    <2>1. \A s \in (task.snaps \cup {task.target}) \ {None} : Settled(s) /\ s \notin Used
      BY <1>1 DEF Judged, LoopUnused, RemoveLoop
    <2>2. \A s : Settled(s)' <=> Settled(s)
      BY <1>2 DEF Settled
    <2>3. Used' \subseteq Used
      BY <1>1, <1>3, TaskShrinks
    <2> QED BY <1>2, <2>1, <2>2, <2>3 DEF LoopUnused, RemoveLoop, At
  <1>10. UnlinkUnnamed'
    BY <1>2, <1>7 DEF UnlinkUnnamed, At
  <1>11. OldKnown' /\ OldUnused' /\ OrphansKnown' /\ BrokenKnown'
    BY <1>2 DEF OldKnown, OldUnused, OrphansKnown, BrokenKnown, At
  <1> QED BY <1>2, <1>6, <1>8, <1>9, <1>10, <1>11, RowsElsewhere DEF Judged

LEMMA RemoveTaskDeleteHarmless ==
  ASSUME RetentionTypeInv, RetentionInv, RemoveTaskDelete
  PROVE  Harmless /\ StoreKeepsFile' /\ Judged' /\ RowsJudged'
  <1>1. /\ TypeInv /\ Judged /\ FilesHeld /\ Separate /\ task \in Task
        /\ task.step = "rmDelete" /\ task.target \in Snap
    BY DEF RetentionTypeInv, RetentionInv, Targeted, RemoveTaskDelete, At
  <1>2. /\ UNCHANGED <<fname, file, row, check, torn, pc, loc>>
        /\ task'.step = "rmNext" /\ task'.target = None /\ task'.snaps = task.snaps
        /\ DeleteDocs({task.target})
    BY <1>1 DEF RemoveTaskDelete, reqVars, Task
  <1>3. TaskFrame
    BY DeletesTyped
  <1>4. \A s \in Snap : doc'[s] = IF s = task.target /\ doc[s] = "saved" THEN "gone" ELSE doc[s]
    BY <1>1, <1>2, DeletedFrame
  <1>5. \A q \in Request : Acceptor(q)'
    BY <1>1, <1>2, <1>3, AcceptorsStay
  <1>6. /\ \A s \in (task.snaps \cup {task.target}) \ {None} : Settled(s) /\ s \notin Used
        /\ task.snaps \subseteq Snap /\ task.target # None
    BY <1>1, StoreAssumption DEF Judged, LoopUnused, RemoveLoop, Task
  <1>7. Used' \subseteq Used
    BY <1>1, <1>3, TaskShrinks
  <1>8. task.target \notin Bases
    <2>1. task.target \in Doomed \ {None}
      BY <1>1, <1>6 DEF Doomed, RemoveLoop
    <2> QED BY <1>1, <2>1 DEF Separate, BasesApart, Bases
  <1>9. Harmless
    BY <1>2, <1>3, <1>4, <1>5, <1>6, <1>7, <1>8 DEF Harmless, Bases
  <1>10. StoreKeepsFile'
    <2>1. ASSUME NEW d \in Visible'  PROVE d \in Visible /\ d # task.target
      BY <1>1, <1>4, <2>1 DEF Visible
    <2> QED BY <1>1, <1>2, <2>1 DEF FilesHeld, StoreKeepsFile
  <1>11. LoopUnused'
    <2>1. \A s \in task.snaps : s # None => Settled(s)' /\ s \notin Used'
      BY <1>1, <1>3, <1>6, <1>7, TaskShrinks
    <2> QED BY <1>2, <2>1 DEF LoopUnused, RemoveLoop, At
  <1>12. OldKnown' /\ OldUnused' /\ UnlinkUnnamed' /\ OrphansKnown' /\ BrokenKnown'
    BY <1>2 DEF OldKnown, OldUnused, UnlinkUnnamed, OrphansKnown, BrokenKnown, At
  <1> QED BY <1>2, <1>9, <1>10, <1>11, <1>12, RowsElsewhere DEF Judged

LEMMA DeleteRowsHarmless ==
  ASSUME RetentionTypeInv, RetentionInv, DeleteRows
  PROVE  Harmless /\ StoreKeepsFile' /\ Judged' /\ RowsJudged'
  <1>1. /\ TypeInv /\ Judged /\ FilesHeld /\ RowsJudged
        /\ task.step \in {"orDelete", "obDelete"} /\ ~At("rmDelete")
    BY DEF RetentionTypeInv, RetentionInv, DeleteRows, At
  <1>2. /\ UNCHANGED <<doc, fname, file, check, torn, pc, loc>>
        /\ task'.target = None
        /\ \/ task'.step = "idle"
           \/ /\ At("obDelete") /\ task'.step = "obRefs"
              /\ task'.snaps = {k[2] : k \in task.rows}
    BY <1>1 DEF DeleteRows, reqVars, NoTask, At
  <1>3. TaskFrame
    BY DeletesTyped
  <1>4. \A q \in Request : Acceptor(q)'
    BY <1>1, <1>2, <1>3, AcceptorsStay
  <1>5. Harmless
    BY <1>2, <1>3, <1>4 DEF Harmless
  <1>6. StoreKeepsFile'
    BY <1>1, <1>2, <1>3, FilesUntouched
  <1>7. CASE task'.step = "idle"
    BY <1>2, <1>5, <1>6, <1>7, CarelessJudged, RowsElsewhere DEF Careless
  <1>8. CASE task'.step = "obRefs"
    <2>1. \A k \in task.rows : Settled(k[2])
      BY <1>1, <1>2, <1>8 DEF RowsJudged, OldRowsOld
    <2>2. \A s \in task'.snaps : Settled(s)'
      BY <1>2, <1>8, <2>1 DEF Settled
    <2>3. LoopUnused'
      BY <1>2, <1>8, <2>2 DEF LoopUnused, RemoveLoop, At
    <2>4. OldKnown' /\ OldUnused' /\ UnlinkUnnamed' /\ OrphansKnown' /\ BrokenKnown'
      BY <1>8 DEF OldKnown, OldUnused, UnlinkUnnamed, OrphansKnown, BrokenKnown, At
    <2> QED BY <1>5, <1>6, <1>8, <2>3, <2>4, RowsElsewhere DEF Judged
  <1> QED BY <1>2, <1>7, <1>8

LEMMA ConsistencyDeleteHarmless ==
  ASSUME RetentionTypeInv, RetentionInv, ConsistencyDelete
  PROVE  Harmless /\ StoreKeepsFile' /\ Judged' /\ RowsJudged'
  <1>1. /\ TypeInv /\ Judged /\ FilesHeld /\ task \in Task
        /\ task.step = "dcDelete" /\ task.target = None /\ ~At("rmDelete")
    BY DEF RetentionTypeInv, RetentionInv, Judged, LoopUnused, ConsistencyDelete, At
  <1>2. /\ UNCHANGED <<fname, file, row, torn, pc, loc>>
        /\ task'.step = "dcUnlink" /\ task'.target = None /\ task'.files = task.files
        /\ DeleteDocs(task.snaps) /\ DeleteChecks(task.checks)
    BY <1>1 DEF ConsistencyDelete, reqVars, Task
  <1>3. TaskFrame
    BY DeletesTyped
  <1>4. /\ task.checks = {} /\ \A s \in task.snaps : s \in torn
        /\ task.files \cap Names = {}
    BY <1>1 DEF Judged, BrokenKnown, UnlinkUnnamed, At
  <1>5. /\ \A s \in Snap : doc'[s] # doc[s] => s \in task.snaps
        /\ \A c \in Snap : check'[c] = check[c]
    BY <1>1, <1>2, <1>4, DeletedFrame
  <1>6. \A q \in Request : Acceptor(q)'
    BY <1>1, <1>2, <1>5 DEF RetentionInv, Works, Acceptor, TypeInv, ReqSet
  <1>7. \A s \in Snap : doc'[s] # doc[s] => s \notin Used' /\ s \notin Bases
    BY <1>1, <1>3, <1>4, <1>5, TaskShrinks DEF FilesHeld, TornUnused
  <1>8. Harmless
    BY <1>2, <1>3, <1>6, <1>7 DEF Harmless, Bases
  <1>9. StoreKeepsFile'
    BY <1>1, <1>2, <1>3, FilesUntouched
  <1>10. UnlinkUnnamed'
    BY <1>1, <1>2, <1>3, <1>4, TaskShrinks DEF UnlinkUnnamed, At
  <1>11. OldKnown' /\ OldUnused' /\ OrphansKnown' /\ LoopUnused' /\ BrokenKnown'
    BY <1>2 DEF OldKnown, OldUnused, OrphansKnown, LoopUnused, BrokenKnown, RemoveLoop, At
  <1> QED BY <1>2, <1>8, <1>9, <1>10, <1>11, RowsElsewhere DEF Judged

LEMMA TaskDiesHarmless ==
  ASSUME RetentionTypeInv, RetentionInv, TaskDies
  PROVE  Harmless /\ StoreKeepsFile' /\ Judged' /\ RowsJudged'
  <1>1. TypeInv /\ Judged /\ FilesHeld /\ Separate /\ Targeted
    BY DEF RetentionTypeInv, RetentionInv
  <1>2. /\ UNCHANGED <<doc, fname, file, row, check, pc, loc>>
        /\ task' = NoTask
        /\ torn' = IF At("rmDelete") /\ task.files # {} THEN torn \cup {task.target} ELSE torn
    BY DEF TaskDies, reqVars, docVars, Done
  <1>3. TaskFrame
    BY DeletesTyped
  <1>4. \A q \in Request : Acceptor(q)'
    BY <1>1, <1>2, <1>3, AcceptorsStay
  <1>5. ASSUME NEW d \in torn' \ torn  PROVE Settled(d) /\ d \notin Used /\ d \notin Bases
    <2>1. At("rmDelete") /\ d = task.target /\ d \in Snap
      BY <1>1, <1>2, <1>5 DEF Targeted, At
    <2>2. d # None
      BY <2>1, StoreAssumption
    <2>3. d \in Doomed
      BY <2>1 DEF Doomed, RemoveLoop, At
    <2> QED BY <1>1, <2>1, <2>2, <2>3
            DEF Judged, LoopUnused, RemoveLoop, At, Separate, BasesApart, Bases
  <1>6. Harmless
    BY <1>2, <1>3, <1>4, <1>5 DEF Harmless
  <1>7. StoreKeepsFile'
    <2>1. ASSUME NEW d \in Visible \ torn'  PROVE fname[d] \in file
      <3>1. d \in Visible \ torn
        BY <1>2
      <3>2. fname[d] \in file \/ (At("rmDelete") /\ d = task.target)
        BY <1>1, <3>1 DEF FilesHeld, StoreKeepsFile
      <3>3. At("rmDelete") /\ d = task.target => task.files = {}
        BY <1>2
      <3> QED BY <1>1, <3>1, <3>2, <3>3 DEF Judged, UnlinkUnnamed
    <2> QED BY <1>2, <2>1 DEF StoreKeepsFile, Visible
  <1> QED BY <1>2, <1>6, <1>7, CarelessJudged, RowsElsewhere DEF Careless, NoTask

-----------------------------------------------------------------------------
(* The invariant, and what it says of the store *)

LEMMA TaskHarmless ==
  ASSUME RetentionTypeInv, RetentionInv, TaskStep
  PROVE  Harmless /\ StoreKeepsFile' /\ Judged' /\ RowsJudged'
  <1>1. CASE \/ OldChecks \/ OldChecksRefs \/ OldChecksRows \/ OldChecksNames
    BY <1>1, OldChecksJudged, ReadHarmless
  <1>2. CASE \/ OrphanFiles \/ OrphanFilesNames
             \/ OrphanSnapshots \/ OrphanSnapshotsChecks \/ OrphanSnapshotsDocs
    BY <1>2, OrphansJudged, ReadHarmless
  <1>3. CASE OrphanBaselines \/ OrphanBaselinesUsed \/ OldBaselines \/ OldBaselinesRefs
    BY <1>3, RowTasksJudged, ReadHarmless
  <1>4. CASE Consistency \/ ConsistencyRows \/ ConsistencyDocs \/ ConsistencyChecks
    BY <1>4, ConsistencyJudged, ReadHarmless
  <1>5. CASE RemoveNext
    BY <1>5, RemoveNextJudged, ReadHarmless
  <1>6. CASE \/ OldChecksDelete \/ Unlink \/ RemoveTaskUnlink \/ RemoveTaskDelete
             \/ DeleteRows \/ ConsistencyDelete \/ TaskDies
    BY <1>6, OldChecksDeleteHarmless, UnlinkHarmless, RemoveTaskUnlinkHarmless,
       RemoveTaskDeleteHarmless, DeleteRowsHarmless, ConsistencyDeleteHarmless,
       TaskDiesHarmless
  <1> QED BY <1>1, <1>2, <1>3, <1>4, <1>5, <1>6 DEF TaskStep

LEMMA TaskRemains ==
  ASSUME RetentionTypeInv, RetentionInv, TaskStep, Apart
  PROVE  RetentionInv'
  <1>1. TypeInv /\ Separate'
    BY DEF RetentionTypeInv, Apart, Separate
  <1>2. Harmless /\ StoreKeepsFile' /\ Judged' /\ RowsJudged'
    BY TaskHarmless
  <1>3. (\A q \in Request : Works(q)') /\ DisjointIds' /\ Whole' /\ FilesHeld'
    BY <1>1, <1>2, TaskKeeps
  <1> QED BY <1>1, <1>2, <1>3 DEF RetentionInv

LEMMA RetentionIdle ==
  ASSUME RetentionTypeInv, RetentionInv, UNCHANGED allVars
  PROVE  RetentionInv'
  <1>1. UNCHANGED vars /\ UNCHANGED task /\ TypeInv
    BY DEF allVars, taskVars, vars, RetentionTypeInv
  <1>2. TaskFrame
    BY <1>1, ReadFrame
  <1>3. \A q \in Request : Acceptor(q)'
    BY <1>1 DEF RetentionInv, Works, Acceptor, vars
  <1>4. Harmless
    BY <1>1, <1>2, <1>3 DEF Harmless, vars
  <1>5. StoreKeepsFile'
    BY <1>1, SameStore DEF RetentionInv, FilesHeld, StoreKeepsFile, vars, At
  <1>6. (\A q \in Request : Works(q)') /\ DisjointIds' /\ Whole' /\ FilesHeld'
    BY <1>1, <1>4, <1>5, TaskKeeps
  <1>7. Judged'
    <2>1. Judged
      BY DEF RetentionInv
    <2>2. Deletable' = Deletable /\ Others' = Others /\ Diffs(task.checks)' = Diffs(task.checks)
      BY <1>1, SameStore DEF Deletable, Others, BasesAndActuals, Diffs, vars
    <2>3. OldKnown' /\ OldUnused'
      BY <1>1, <2>1, <2>2, SameStore DEF Judged, OldKnown, OldUnused, At
    <2>4. UnlinkUnnamed' /\ OrphansKnown' /\ LoopUnused' /\ BrokenKnown'
      BY <1>1, <2>1, SameStore
      DEF Judged, UnlinkUnnamed, OrphansKnown, LoopUnused, BrokenKnown, At, vars
    <2> QED BY <2>3, <2>4 DEF Judged
  <1>8. RowsJudged'
    <2>1. \A k : Newer(k)' = Newer(k)
      BY <1>1 DEF Newer, Rows, vars
    <2> QED BY <1>1, <2>1, SameStore
            DEF RetentionInv, RowsJudged, OldRowsOld, OrphanRowsLoose, At, vars
  <1>9. Separate'
    <2>1. Doomed' = Doomed
      BY <1>1, SameStore DEF Doomed, Deletable
    <2>2. \A p \in Request :
            InFlight(p)' = InFlight(p) /\ \A f : CloneWindow(p, f)' <=> CloneWindow(p, f)
      BY <1>1 DEF InFlight, CloneWindow, vars
    <2> QED BY <1>1, <2>1, <2>2
            DEF RetentionInv, Separate, FilesApart, BasesApart, AcceptApart, LinkApart, vars
  <1> QED BY <1>6, <1>7, <1>8, <1>9 DEF RetentionInv

LEMMA RetentionInvNext ==
  RetentionTypeInv /\ RetentionInv /\ [RetentionNext /\ Apart]_allVars => RetentionInv'
  <1> SUFFICES ASSUME RetentionTypeInv, RetentionInv, [RetentionNext /\ Apart]_allVars
               PROVE  RetentionInv'
    OBVIOUS
  <1>1. RetentionTypeInv'
    BY RetentionTypeNext
  <1> QED BY <1>1, RequestKeeps, TaskRemains, RetentionIdle DEF RetentionNext

LEMMA RetentionHolds == ApartSpec => [](RetentionTypeInv /\ RetentionInv)
  <1>1. [RetentionNext /\ Apart]_allVars => [RetentionNext]_allVars
    OBVIOUS
  <1> QED BY <1>1, RetentionTypeInit, RetentionTypeNext, RetentionInvInit, RetentionInvNext, PTL
          DEF ApartSpec

\* With requests and tasks apart, no task and no upload takes the file of a
\* document that anybody can still open: handleOldChecksTask,
\* handleOrphanFilesTask, snapshotService.remove and the consistency cleanup
\* each unlink names judged some queries earlier, and none of those names is by
\* then the file of a visible document.
THEOREM TasksKeepFiles == ApartSpec => []StoreKeepsFile
  <1>1. RetentionInv => StoreKeepsFile
    BY DEF RetentionInv, FilesHeld
  <1> QED BY <1>1, RetentionHolds, PTL

\* With requests and tasks apart, whatever the tasks delete, baseline rows and
\* live checks lead to snapshots.
THEOREM TasksKeepReferences == ApartSpec => []ReferencesResolve
  <1>1. RetentionInv => ReferencesResolve
    BY DEF RetentionInv, Whole, RowOf, ReferencesResolve, BaselineKeepsDoc
  <1> QED BY <1>1, RetentionHolds, PTL

\* Only two tasks delete rows, only the cleanup deletes at dcDelete.
LEMMA TaskDeletes ==
  ASSUME RetentionTypeInv, RetentionInv, TaskStep
  PROVE  /\ UNCHANGED row \/ DeleteRows
         /\ At("dcDelete") => UNCHANGED <<doc, check>> \/ ConsistencyDelete
  <1>1. CASE \/ OldChecks \/ OldChecksRefs \/ OldChecksRows \/ OldChecksNames
             \/ OrphanFiles \/ OrphanFilesNames
             \/ OrphanSnapshots \/ OrphanSnapshotsChecks \/ OrphanSnapshotsDocs
             \/ OrphanBaselines \/ OrphanBaselinesUsed \/ OldBaselines \/ OldBaselinesRefs
             \/ Consistency \/ ConsistencyRows \/ ConsistencyDocs \/ ConsistencyChecks
             \/ RemoveNext
    <2>1. UNCHANGED vars
      BY <1>1, OldChecksJudged, OrphansJudged, RowTasksJudged, ConsistencyJudged,
         RemoveNextJudged
    <2> QED BY <2>1 DEF vars
  <1>2. CASE OldChecksDelete
    BY <1>2 DEF OldChecksDelete, At
  <1>3. CASE Unlink \/ RemoveTaskUnlink \/ TaskDies
    BY <1>3 DEF Unlink, RemoveTaskUnlink, TaskDies, docVars
  <1>4. CASE RemoveTaskDelete
    BY <1>4 DEF RemoveTaskDelete, At
  <1>5. CASE DeleteRows \/ ConsistencyDelete
    BY <1>5 DEF DeleteRows, ConsistencyDelete
  <1> QED BY <1>1, <1>2, <1>3, <1>4, <1>5 DEF TaskStep

\* What DeleteRows does to a row it does not delete.
LEMMA RowSpared ==
  ASSUME RetentionTypeInv, RetentionInv, RetentionNext, NEW k \in Ident \X Snap, row[k] > 0,
         k \notin task.rows
  PROVE  row'[k] > 0
  <1>1. CASE RequestStep
    <2>1. PICK p \in Request : CreateStep(p) \/ AcceptStep(p) \/ Die(p)
      BY <1>1 DEF RequestStep
    <2>2. TypeInv /\ Works(p) /\ Effect(p)
      BY <2>1, RequestEffect DEF RetentionTypeInv, RetentionInv
    <2> QED BY <2>2, StoreStays
  <1>2. CASE TaskStep
    BY <1>2, TaskDeletes DEF DeleteRows
  <1> QED BY <1>1, <1>2 DEF RetentionNext

\* With requests and tasks apart, the task for old baselines never takes the
\* newest row of an identity, and the task for orphan baselines never takes
\* the row of a check that is its own baseline, although both select the rows
\* first, go on reading, and delete by _id what has changed since.
THEOREM RowsAreKept == ApartSpec => BaselineRowsKept
  <1> DEFINE Newest == At("obDelete") => \A k \in Rows : Newer(k) = {} => row'[k] > 0
             Linked == At("orDelete") =>
                         \A c \in LiveChecks :
                           check[c].base = c /\ row[<<check[c].ident, c>>] > 0
                             => row'[<<check[c].ident, c>>] > 0
  <1>1. RetentionTypeInv /\ RetentionInv /\ [RetentionNext /\ Apart]_allVars => [Newest]_allVars
    <2> SUFFICES ASSUME RetentionTypeInv, RetentionInv, RetentionNext,
                        At("obDelete"), NEW k \in Rows, Newer(k) = {}
                 PROVE  row'[k] > 0
      OBVIOUS
    <2>1. k \in Ident \X Snap /\ row[k] > 0
      BY DEF Rows
    <2>2. k \notin task.rows
      BY <2>1 DEF RetentionInv, RowsJudged, OldRowsOld
    <2> QED BY <2>1, <2>2, RowSpared
  <1>2. RetentionTypeInv /\ RetentionInv /\ [RetentionNext /\ Apart]_allVars => [Linked]_allVars
    <2> SUFFICES ASSUME RetentionTypeInv, RetentionInv, RetentionNext, At("orDelete"),
                        NEW c \in LiveChecks, check[c].base = c, row[<<check[c].ident, c>>] > 0
                 PROVE  row'[<<check[c].ident, c>>] > 0
      OBVIOUS
    <2>1. <<check[c].ident, c>> \in Ident \X Snap
      BY DEF RetentionTypeInv, TypeInv, CheckSet, LiveChecks
    <2>2. <<check[c].ident, c>> \notin task.rows
      BY DEF RetentionInv, RowsJudged, OrphanRowsLoose
    <2> QED BY <2>1, <2>2, RowSpared
  <1> QED BY <1>1, <1>2, RetentionHolds, PTL
          DEF ApartSpec, BaselineRowsKept, NewestKept, LinkedRowKept

\* With requests and tasks apart, handleDatabaseConsistencyTask deletes no
\* check that resolves and no snapshot that has its file, although it judges
\* by what it read up to four queries earlier.
THEOREM OnlyBrokenGoes == ApartSpec => OnlyBrokenDeleted
  <1> DEFINE Broken ==
        At("dcDelete") =>
          /\ \A c \in LiveChecks :
               check'[c].st = "gone" => ~(BasesAndActuals({c}) \subseteq Visible)
          /\ \A s \in Visible : doc'[s] = "gone" => fname[s] \notin file
  <1>1. RetentionTypeInv /\ RetentionInv /\ [RetentionNext /\ Apart]_allVars => [Broken]_allVars
    <2> SUFFICES ASSUME RetentionTypeInv, RetentionInv, RetentionNext, At("dcDelete")
                 PROVE  /\ \A c \in LiveChecks :
                             check'[c].st = "gone" => ~(BasesAndActuals({c}) \subseteq Visible)
                        /\ \A s \in Visible : doc'[s] = "gone" => fname[s] \notin file
      OBVIOUS
    <2>1. CASE RequestStep
      <3>1. PICK p \in Request : CreateStep(p) \/ AcceptStep(p) \/ Die(p)
        BY <2>1 DEF RequestStep
      <3>2. TypeInv /\ Works(p) /\ Effect(p)
        BY <3>1, RequestEffect DEF RetentionTypeInv, RetentionInv
      <3> QED BY <3>2, StoreStays DEF LiveChecks, Visible, Created, Settled
    <2>2. CASE UNCHANGED <<doc, check>>
      BY <2>2 DEF LiveChecks, Visible
    <2>3. CASE ConsistencyDelete
      <3>1. TypeInv /\ BrokenKnown
        BY DEF RetentionTypeInv, RetentionInv, Judged
      <3>2. task.checks = {} /\ \A s \in task.snaps : fname[s] \notin file
        BY <3>1 DEF BrokenKnown, At
      <3>3. DeleteDocs(task.snaps) /\ DeleteChecks(task.checks)
        BY <2>3 DEF ConsistencyDelete
      <3> QED BY <3>1, <3>2, <3>3, DeletedFrame DEF LiveChecks, Visible
    <2> QED BY <2>1, <2>2, <2>3, TaskDeletes DEF RetentionNext
  <1> QED BY <1>1, RetentionHolds, PTL DEF ApartSpec, OnlyBrokenDeleted

\* With requests and tasks apart, what baseline rows and checks lead to stays
\* consistent under every retention and cleanup task: references lead to
\* snapshots and snapshots to their files.
THEOREM TasksAreHarmless == ApartSpec => []TasksLoseNothing
  BY TasksKeepFiles, TasksKeepReferences, PTL DEF TasksLoseNothing

-----------------------------------------------------------------------------
(* With its tasks the store still is an image library.                        *)

LEMMA ShownUsed ==
  /\ \A s \in Snap : s \in Shown <=> s \in Used
  /\ \A s \in Snap : s \in Shown' <=> s \in Used'
  <1>1. None \notin Snap
    BY StoreAssumption
  <1>2. ASSUME NEW s \in Snap  PROVE s \in Shown <=> s \in Used
    BY <1>1, UsedIs, RowsAre DEF Shown, Parts, LiveChecks
  <1>3. ASSUME NEW s \in Snap  PROVE s \in Shown' <=> s \in Used'
    BY <1>1, UsedIs, RowsAre DEF Shown, Parts, LiveChecks
  <1> QED BY <1>2, <1>3

\* What is shown can be seen.
LEMMA UsedSeen == RetentionTypeInv /\ RetentionInv => ShownSeen
  <1> SUFFICES ASSUME RetentionTypeInv, RetentionInv, NEW s \in Shown
               PROVE  s \in Snap /\ Life(s) = "kept"
    BY DEF ShownSeen
  <1>1. s \in Snap /\ s \in Used
    BY ShownUsed DEF Shown
  <1>2. doc[s] = "saved"
    <2>1. CASE s \in RowSnaps
      <3>1. PICK i \in Ident : row[<<i, s>>] > 0
        BY <2>1, RowsAre
      <3>2. <<i, s>> \in Ident \X Snap /\ <<i, s>>[2] = s
        BY <1>1
      <3>3. RowOf(<<i, s>>)
        BY <3>2 DEF RetentionInv, Whole
      <3> QED BY <3>1, <3>2, <3>3 DEF RowOf
    <2>2. CASE \E c \in LiveChecks : s \in Parts(c)
      BY <2>2 DEF RetentionInv, Whole, LiveCheckResolves, LiveChecks, Parts
    <2> QED BY <1>1, <2>1, <2>2, UsedIs
  <1>3. s \notin torn /\ ~(At("rmDelete") /\ s = task.target)
    BY <1>1, StoreAssumption
    DEF RetentionInv, FilesHeld, TornUnused, Judged, LoopUnused, At, RemoveLoop
  <1>4. fname[s] \in file
    BY <1>1, <1>2, <1>3 DEF RetentionInv, FilesHeld, StoreKeepsFile, Visible
  <1> QED BY <1>1, <1>2, <1>4, LifeIs

\* A request lets images arrive; an acceptance may show less.
LEMMA RequestLife ==
  ASSUME TypeInv, replicaSet' = replicaSet, Whole, NEW p \in Request, Works(p), Effect(p),
         NEW s \in Snap
  PROVE  \/ Life(s)' = Life(s)
         \/ Life(s) = "none" /\ Life(s)' = "kept" /\ pc[p] = "finish"
  <1>1. CASE Settled(s)
    <2>1. doc'[s] = doc[s]
      BY <1>1, StoreStays
    <2>2. fname'[s] \in file' <=> fname[s] \in file
      BY <1>1, FileStays
    <2> QED BY <2>1, <2>2 DEF Life
  <1>2. CASE ~Settled(s)
    <2>1. Life(s) = "none"
      BY <1>2, LifeIs
    <2>2. CASE Settled(s)'
      <3>1. doc'[s] = "saved" /\ pc[p] = "finish" /\ doc[s] # "saved"
        BY <1>2, <2>2 DEF Effect, DocsDecided, Settled
      <3>2. fname'[s] \in file'
        BY <3>1, CommittedFile DEF Visible
      <3> QED BY <2>1, <3>1, <3>2, LifeBecomes
    <2>3. CASE ~Settled(s)'
      BY <2>1, <2>3, LifeBecomes
    <2> QED BY <2>2, <2>3
  <1> QED BY <1>1, <1>2

LEMMA RequestShows ==
  ASSUME TypeInv, NEW p \in Request, Works(p), Effect(p)
  PROVE  /\ pc[p] = "aSave" => Shown' \subseteq Shown
         /\ pc[p] # "aSave" => Shown \subseteq Shown'
  <1>1. ASSUME pc[p] = "aSave", NEW s \in Shown'  PROVE s \in Shown
    <2>1. s \in Snap /\ s \in Used'
      BY ShownUsed DEF Shown
    <2>2. CASE s \in RowSnaps'
      <3>1. CASE s \in RowSnaps
        BY <2>1, <3>1, UsedIs, ShownUsed
      <3>2. CASE s \notin RowSnaps
        <4>1. s \in LiveChecks
          BY <2>2, <3>2, RowMoves
        <4>2. s \in Parts(s)
          BY <2>1, StoreAssumption DEF Parts
        <4> QED BY <2>1, <4>1, <4>2, UsedIs, ShownUsed
      <3> QED BY <3>1, <3>2
    <2>3. CASE \E c \in LiveChecks' : s \in Parts(c)'
      <3>1. PICK c \in LiveChecks' : s \in Parts(c)'
        BY <2>3
      <3>2. c \in LiveChecks
        BY <1>1, LiveMoves
      <3>3. s \in Parts(c)
        BY <2>1, <3>1, <3>2, LiveMoves, StoreAssumption DEF Parts
      <3> QED BY <2>1, <3>2, <3>3, UsedIs, ShownUsed
    <2> QED BY <2>1, <2>2, <2>3, UsedIs
  <1>2. ASSUME pc[p] # "aSave", NEW s \in Shown  PROVE s \in Shown'
    <2>1. s \in Snap /\ s \in Used
      BY ShownUsed DEF Shown
    <2>2. CASE s \in RowSnaps
      BY <2>1, <2>2, RowMoves, UsedIs, ShownUsed
    <2>3. CASE \E c \in LiveChecks : s \in Parts(c)
      <3>1. PICK c \in LiveChecks : s \in Parts(c)
        BY <2>3
      <3>2. c \in LiveChecks' /\ s \in Parts(c)'
        BY <1>2, <3>1, LiveMoves DEF Parts
      <3> QED BY <2>1, <3>2, UsedIs, ShownUsed
    <2> QED BY <2>1, <2>2, <2>3, UsedIs
  <1> QED BY <1>1, <1>2

LEMMA RequestLibrary ==
  ASSUME RetentionTypeInv, RetentionInv, ShownSeen', RequestStep, replicaSet' = replicaSet
  PROVE  Library!LibraryNext
  <1>1. PICK p \in Request : CreateStep(p) \/ AcceptStep(p) \/ Die(p)
    BY DEF RequestStep
  <1>2. TypeInv /\ Whole /\ Works(p) /\ Effect(p)
    BY <1>1, RequestEffect DEF RetentionTypeInv, RetentionInv
  <1>3. CASE pc[p] = "aSave"
    <2>1. \A s \in Snap : Life(s)' = Life(s)
      BY <1>2, <1>3, RequestLife
    <2>2. Shown' \subseteq Shown
      BY <1>2, <1>3, RequestShows
    <2> QED BY <2>1, <2>2, Withdraws DEF Library!LibraryNext
  <1>4. CASE pc[p] # "aSave"
    <2>1. \A s \in Snap : Life(s)' = Life(s) \/ (Life(s) = "none" /\ Life(s)' = "kept")
      BY <1>2, RequestLife
    <2>2. Shown \subseteq Shown'
      BY <1>2, <1>4, RequestShows
    <2> QED BY <2>1, <2>2, Publishes DEF Library!LibraryNext
  <1> QED BY <1>3, <1>4

LEMMA TaskLibrary ==
  ASSUME RetentionTypeInv, ShownSeen', TaskFrame, replicaSet' = replicaSet
  PROVE  Library!LibraryNext
  <1>1. TypeInv
    BY DEF RetentionTypeInv
  <1>2. Shown' \subseteq Shown
    <2> SUFFICES ASSUME NEW s \in Shown'  PROVE s \in Shown
      OBVIOUS
    <2>1. s \in Snap /\ s \in Used'
      BY ShownUsed DEF Shown
    <2> QED BY <1>1, <2>1, TaskShrinks, ShownUsed
  <1>3. ASSUME NEW s \in Snap
        PROVE  Life(s)' = Life(s) \/ (Life(s) = "kept" /\ Life(s)' = "lost")
    <2>1. /\ doc'[s] = doc[s] \/ (doc[s] = "saved" /\ doc'[s] = "gone")
          /\ fname'[s] = fname[s] /\ file' \subseteq file
      BY DEF TaskFrame
    <2> QED BY <2>1 DEF Life
  <1> QED BY <1>2, <1>3, Withdraws DEF Library!LibraryNext

\* With requests and tasks apart, the six tasks keep the promise that the
\* requests keep: they take only images that no baseline row and no check leads
\* to, and what is shown can be seen before, during and after each of them.
THEOREM TasksKeepTheLibrary == ApartSpec => ImplementsLibrary
  <1>1. RetentionInit => Library!LibraryInit
    BY LibraryStarts DEF RetentionInit
  <1>2. RetentionTypeInv /\ RetentionInv => ShownSeen
    BY UsedSeen
  <1>3. RetentionTypeInv /\ RetentionInv /\ ShownSeen' /\ [RetentionNext /\ Apart]_allVars
          => [Library!LibraryNext]_(Library!library)
    <2> SUFFICES ASSUME RetentionTypeInv, RetentionInv, ShownSeen',
                        [RetentionNext /\ Apart]_allVars
                 PROVE  [Library!LibraryNext]_(Library!library)
      OBVIOUS
    <2>1. replicaSet' = replicaSet
      BY DEF RetentionNext, allVars, vars
    <2>2. CASE RequestStep
      BY <2>1, <2>2, RequestLibrary
    <2>3. CASE TaskStep
      BY <2>1, <2>3, TaskMoves, TaskLibrary
    <2>4. CASE UNCHANGED allVars
      <3>1. TaskFrame
        BY <2>4, ReadFrame DEF allVars, RetentionTypeInv
      <3> QED BY <2>1, <3>1, TaskLibrary
    <2> QED BY <2>2, <2>3, <2>4 DEF RetentionNext
  <1> QED BY <1>1, <1>2, <1>3, RetentionHolds, PTL
          DEF ApartSpec, ImplementsLibrary, Library!LibrarySpec
=============================================================================
