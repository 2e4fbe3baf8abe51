----------------------------- MODULE AdminJobs -----------------------------
(***************************************************************************)
(* The admin data jobs of the Syngrisi server (admin-data-job.service):    *)
(* backups and restores of the database and of the screenshots.  A job is  *)
(* a job.json file that three parties read and rewrite as a whole (the     *)
(* request that creates the job, the worker that runs it, requests that    *)
(* cancel or delete it), an entry of the activeTasks map while its worker  *)
(* runs, and a slot of a counting semaphore kept in a MongoDB document.    *)
(* A database restore drops the database, and that document with it.       *)
(*                                                                         *)
(* One server process; a crash loses the requests, the workers and the     *)
(* map, and the next start runs initialize() before it serves requests.    *)
(***************************************************************************)
EXTENDS Naturals, FiniteSets

CONSTANTS
  Job,          \* ids of jobs
  Admin,        \* concurrent cancel and delete requests
  Kind,         \* the kinds of job requested, a subset of Kinds
  Max,          \* adminDataMaxConcurrentJobs
  ArchiveLock,  \* what uploaded archives hold of the semaphore (None: nothing)
  Faults,       \* which file and database operations may reject
  MaxProgress,  \* bound on the progress updates of a job
  MaxCrashes,   \* bound on the crashes of the server
  None          \* no semaphore document, no archive

\* backup: of either kind; images: screenshots_restore; restore: db_restore.
Kinds == {"backup", "images", "restore"}

ASSUME JobsAssumption ==
  /\ Job # {} /\ Job \cap Admin = {}
  /\ Job \cap {"base", "partial"} = {}
  /\ Kind \subseteq Kinds
  /\ Max \in Nat \ {0}
  /\ None \notin Nat
  /\ ArchiveLock \subseteq (0 .. Max) \cup {None}
  /\ Faults \subseteq {"create", "upload", "work", "release"}
  /\ MaxProgress \in Nat
  /\ MaxCrashes \in Nat

VARIABLES
  status,   \* status field of the job's record, absent if it cannot be read
  count,    \* count field of the semaphore document
  active,   \* activeTasks: no entry, an entry, an entry with cancelRequested
  db,       \* database content: base, that of the archive of a job, or partial
  safety,   \* the pre-restore backup in the job's directory
  crashes,  \* crashes so far
  pc, loc   \* workers (with the request that creates the job) and admins

store == <<status, count, active, db, safety, crashes>>
vars == <<status, count, active, db, safety, crashes, pc, loc>>

-----------------------------------------------------------------------------
(* Types *)

Process == Job \cup Admin
ActiveStatus == {"pending", "running"}
Terminal == {"completed", "failed", "cancelled"}
Status == ActiveStatus \cup Terminal \cup {"absent"}
Content == Job \cup {"base", "partial"}
Lock == (0 .. Max) \cup {None}
Archive == [db : Content, lock : Lock]

ASSUME NoneIsNoArchive == None \notin Archive

\* A restore that has dropped the database, before and during its recovery.
RecoverySteps == {"redrop", "reimportLock", "reimport"}
DroppedSteps == {"importLock", "import", "recover"} \cup RecoverySteps
\* A worker that performs the job itself.
BodySteps == {"work", "drop", "progWrite"} \cup DroppedSteps
WriteSteps == {"write", "storeWrite", "runWrite", "progWrite", "finWrite", "updWrite"}
Steps == {"none", "insert", "giveUp", "leaked", "upload", "storeRead", "storeCheck",
          "start", "activate", "runRead", "finRead", "release", "end", "done", "idle",
          "look", "updRead", "remove"}
           \cup BodySteps \cup WriteSteps

Locals == [job : Job,                     \* the job this process works on
           kind : Kinds,                  \* its type
           seen : Status,                 \* the status it has read
           out : Status,                  \* the status it is to write
           back : Steps,                  \* where a progress update returns to
           had : BOOLEAN,                 \* hadCancelRequested
           ticks : 0 .. MaxProgress]      \* progress updates so far

TypeOK ==
  /\ status \in [Job -> Status]
  /\ count \in Lock
  /\ active \in [Job -> {"no", "yes", "cancel"}]
  /\ db \in Content
  /\ safety \in [Job -> Archive \cup {None}]
  /\ crashes \in 0 .. MaxCrashes
  /\ pc \in [Process -> Steps]
  /\ loc \in [Process -> Locals]

Blank(j) == [job |-> j, kind |-> "backup", seen |-> "absent", out |-> "absent",
             back |-> "work", had |-> FALSE, ticks |-> 0]

\* The server has started: initialize() has written the semaphore.
Init ==
  /\ status = [j \in Job |-> "absent"]
  /\ count = 0
  /\ active = [j \in Job |-> "no"]
  /\ db = "base"
  /\ safety = [j \in Job |-> None]
  /\ crashes = 0
  /\ pc = [q \in Process |-> IF q \in Job THEN "none" ELSE "idle"]
  /\ loc = [q \in Process |-> Blank(IF q \in Job THEN q ELSE CHOOSE j \in Job : TRUE)]

-----------------------------------------------------------------------------
(* Helpers *)

Goto(q, step) == pc' = [pc EXCEPT ![q] = step]

\* What readJob may return.  writeFile truncates the file before it writes,
\* so while a record is being written it may not be readable (null).
ReadJob(j) ==
  {status[j]} \cup
    (IF \E q \in Process : pc[q] \in WriteSteps /\ loc[q].job = j THEN {"absent"} ELSE {})

\* The semaphore's release: $inc -1 if the document is there and positive.
Released == IF count \notin {0, None} THEN count - 1 ELSE count

\* Mutant: release without looking whether the job was active.
MutAfterWrite(q) == "release"

\* finalizeJob releases the slot only if the job it read was active.
AfterWrite(q) == IF loc[q].seen \in ActiveStatus THEN "release" ELSE "end"

-----------------------------------------------------------------------------
(* Creating a job *)

\* Mutant: $inc the semaphore whatever it counts.
MutCreate(j) ==
  /\ pc[j] = "none"
  /\ \E k \in Kind : loc' = [loc EXCEPT ![j].kind = k]
  /\ \/ count # None /\ count' = count + 1 /\ Goto(j, "write")
     \/ count = None /\ Goto(j, "insert") /\ UNCHANGED count
  /\ UNCHANGED <<status, active, db, safety, crashes>>

\* tryClaim: $inc the semaphore if it is below the limit ...
Create(j) ==
  /\ pc[j] = "none"
  /\ \E k \in Kind : loc' = [loc EXCEPT ![j].kind = k]
  /\ \/ /\ count # None /\ count < Max
        /\ count' = count + 1
        /\ Goto(j, "write")
     \/ /\ count = None \/ count = Max
        /\ Goto(j, "insert")
        /\ UNCHANGED count
  /\ UNCHANGED <<status, active, db, safety, crashes>>

\* ... or insert it; if it exists after all the job is refused.
Insert(j) ==
  /\ pc[j] = "insert"
  /\ \/ count = None /\ count' = 1 /\ Goto(j, "write")
     \/ count # None /\ Goto(j, "done") /\ UNCHANGED count
  /\ UNCHANGED <<status, active, db, safety, crashes, loc>>

\* createJob writes the record.
WriteRecord(j) ==
  /\ pc[j] = "write"
  /\ status' = [status EXCEPT ![j] = "pending"]
  /\ Goto(j, IF loc[j].kind = "backup" THEN "start" ELSE "upload")
  /\ UNCHANGED <<count, active, db, safety, crashes, loc>>

\* Writing the record, or the first line of its log, rejects ...
CreateFails(j) ==
  /\ "create" \in Faults
  /\ pc[j] = "write"
  /\ status' \in {status, [status EXCEPT ![j] = "pending"]}
  /\ Goto(j, "giveUp")
  /\ UNCHANGED <<count, active, db, safety, crashes, loc>>

\* ... and the catch gives the slot up, which may reject in its turn.
GiveUp(j) ==
  /\ pc[j] = "giveUp"
  /\ \/ count' = Released /\ Goto(j, "done")
     \/ "release" \in Faults /\ Goto(j, "leaked") /\ UNCHANGED count
  /\ UNCHANGED <<status, active, db, safety, crashes, loc>>

\* persistUploadToJobDir; if it rejects the job stays pending.
Upload(j) ==
  /\ pc[j] = "upload"
  /\ \/ Goto(j, "storeRead")
     \/ "upload" \in Faults /\ Goto(j, "done")
  /\ UNCHANGED <<store, loc>>

\* updateJob with the upload path: read the record ...
StoreRead(j) ==
  /\ pc[j] = "storeRead"
  /\ \E s \in ReadJob(j) :
       /\ loc' = [loc EXCEPT ![j].seen = s]
       /\ Goto(j, IF s = "absent" THEN "done" ELSE "storeWrite")
  /\ UNCHANGED store

\* ... and write it back.
StoreWrite(j) ==
  /\ pc[j] = "storeWrite"
  /\ status' = [status EXCEPT ![j] = loc[j].seen]
  /\ Goto(j, "storeCheck")
  /\ UNCHANGED <<count, active, db, safety, crashes, loc>>

\* "Failed to read created job": the job stays as it is.
StoreCheck(j) ==
  /\ pc[j] = "storeCheck"
  /\ \E s \in ReadJob(j) : Goto(j, IF s = "absent" THEN "done" ELSE "start")
  /\ UNCHANGED <<store, loc>>

-----------------------------------------------------------------------------
(* The worker *)

\* runJob: a job that was cancelled meanwhile is not run.
Start(j) ==
  /\ pc[j] = "start"
  /\ \E s \in ReadJob(j) :
       Goto(j, IF s \in {"absent", "cancelled"} THEN "done" ELSE "activate")
  /\ UNCHANGED <<store, loc>>

Activate(j) ==
  /\ pc[j] = "activate"
  /\ active' = [active EXCEPT ![j] = "yes"]
  /\ Goto(j, "runRead")
  /\ UNCHANGED <<status, count, db, safety, crashes, loc>>

\* updateJob to running.  If there is no record it throws, outside the try of
\* runJob; nobody handles that rejection and the process dies: Restart.
RunRead(j) ==
  /\ pc[j] = "runRead"
  /\ ReadJob(j) # {"absent"}
  /\ Goto(j, "runWrite")
  /\ UNCHANGED <<store, loc>>

RunWrite(j) ==
  /\ pc[j] = "runWrite"
  /\ status' = [status EXCEPT ![j] = "running"]
  /\ Goto(j, "work")
  /\ UNCHANGED <<count, active, db, safety, crashes, loc>>

\* updateProgress, between any two parts of the work: read ...
ProgressRead(j) ==
  /\ pc[j] \in {"work", "drop", "importLock", "import", "recover"}
  /\ loc[j].ticks < MaxProgress
  /\ \E s \in ReadJob(j) \ {"absent"} :
       loc' = [loc EXCEPT ![j].seen = s, ![j].back = pc[j], ![j].ticks = @ + 1]
  /\ Goto(j, "progWrite")
  /\ UNCHANGED store

\* ... and write the whole record back.
ProgressWrite(j) ==
  /\ pc[j] = "progWrite"
  /\ status' = [status EXCEPT ![j] = loc[j].seen]
  /\ Goto(j, loc[j].back)
  /\ UNCHANGED <<count, active, db, safety, crashes, loc>>

\* The files of job j were deleted under its worker.
FilesGone(j) ==
  IF pc[j] \in {"drop"} \cup DroppedSteps THEN safety[j] = None ELSE status[j] = "absent"

\* The job is done: finalizeJob as completed.  A backup needs its archive.
Complete(j) ==
  /\ pc[j] = "work"
  /\ \/ loc[j].kind = "backup" /\ ~FilesGone(j)
     \/ loc[j].kind = "images"
  /\ loc' = [loc EXCEPT ![j].out = "completed"]
  /\ Goto(j, "finRead")
  /\ UNCHANGED store

\* The errors the work of j may throw: a fault, or the cancellation request
\* that a check notices (a screenshots restore counts it as a failed file and
\* there is no check immediately before a drop).
Errors(j) ==
  {e \in {"cancelled", "failed"} :
     \/ e = "failed" /\ ("work" \in Faults \/ FilesGone(j))
     \/ /\ e = "cancelled" /\ active[j] = "cancel"
        /\ loc[j].kind # "images" /\ pc[j] \notin {"drop", "redrop"}}

\* The work throws before anything is dropped: finalizeJob from the catch.
Abort(j) ==
  /\ pc[j] = "work"
  /\ \E e \in Errors(j) : loc' = [loc EXCEPT ![j].out = e]
  /\ Goto(j, "finRead")
  /\ UNCHANGED store

-----------------------------------------------------------------------------
(* Restoring the database *)

\* createPreRestoreSafetyBackup dumps everything, the semaphore included.
SafetyBackup(j) ==
  /\ pc[j] = "work"
  /\ loc[j].kind = "restore" /\ ~FilesGone(j)
  /\ safety' = [safety EXCEPT ![j] = [db |-> db, lock |-> count]]
  /\ Goto(j, "drop")
  /\ UNCHANGED <<status, count, active, db, crashes, loc>>

DropDatabase(j) ==
  /\ pc[j] = "drop"
  /\ db' = "partial"
  /\ count' = None
  /\ Goto(j, "importLock")
  /\ UNCHANGED <<status, active, safety, crashes, loc>>

\* Import a dump of the semaphore: a duplicate key if it is there again.
ImportLock(j) ==
  /\ pc[j] = "importLock"
  /\ \E l \in ArchiveLock :
       \/ l = None /\ UNCHANGED count /\ Goto(j, "import") /\ UNCHANGED loc
       \/ l # None /\ count = None /\ count' = l /\ Goto(j, "import") /\ UNCHANGED loc
       \/ /\ l # None /\ count # None
          /\ loc' = [loc EXCEPT ![j].out = "failed"]
          /\ Goto(j, "recover")
          /\ UNCHANGED count
  /\ UNCHANGED <<status, active, db, safety, crashes>>

\* The other collections.
Import(j) ==
  /\ pc[j] = "import"
  /\ db' = j
  /\ loc' = [loc EXCEPT ![j].out = "completed"]
  /\ Goto(j, "finRead")
  /\ UNCHANGED <<status, count, active, safety, crashes>>

\* Mutant: only a failed import is recovered from, not a cancelled one.
MutImportFails(j) ==
  /\ pc[j] \in {"drop", "importLock", "import"}
  /\ \E e \in Errors(j) :
       /\ loc' = [loc EXCEPT ![j].out = e]
       /\ Goto(j, IF e = "cancelled" THEN "finRead" ELSE "recover")
  /\ UNCHANGED store

\* runRestoreWithSafetyBackup: any error of drop or import is recovered from.
ImportFails(j) ==
  /\ pc[j] \in {"drop", "importLock", "import"}
  /\ \E e \in Errors(j) : loc' = [loc EXCEPT ![j].out = e]
  /\ Goto(j, "recover")
  /\ UNCHANGED store

\* restoreFromSafetyArchive: put the cancellation request aside ...
Recover(j) ==
  /\ pc[j] = "recover"
  /\ loc' = [loc EXCEPT ![j].had = (active[j] = "cancel")]
  /\ active' = [active EXCEPT ![j] = "yes"]
  /\ Goto(j, "redrop")
  /\ UNCHANGED <<status, count, db, safety, crashes>>

\* ... drop what was imported ...
DropAgain(j) ==
  /\ pc[j] = "redrop" /\ ~FilesGone(j)
  /\ db' = "partial"
  /\ count' = None
  /\ Goto(j, "reimportLock")
  /\ UNCHANGED <<status, active, safety, crashes, loc>>

\* The finally of the recovery restores the flag it had put aside.
PutBack(j) == active' = [active EXCEPT ![j] = IF loc[j].had THEN "cancel" ELSE "yes"]

\* ... and import the safety archive.
ReimportLock(j) ==
  /\ pc[j] = "reimportLock" /\ ~FilesGone(j)
  /\ \/ /\ safety[j].lock = None \/ count = None
        /\ count' = IF safety[j].lock = None THEN count ELSE safety[j].lock
        /\ Goto(j, "reimport")
        /\ UNCHANGED <<active, loc>>
     \/ /\ safety[j].lock # None /\ count # None
        /\ loc' = [loc EXCEPT ![j].out = "failed"]
        /\ PutBack(j)
        /\ Goto(j, "finRead")
        /\ UNCHANGED count
  /\ UNCHANGED <<status, db, safety, crashes>>

Reimport(j) ==
  /\ pc[j] = "reimport" /\ ~FilesGone(j)
  /\ db' = safety[j].db
  /\ PutBack(j)
  /\ Goto(j, "finRead")
  /\ UNCHANGED <<status, count, safety, crashes, loc>>

\* The recovery itself throws: its error replaces the first one.
RecoveryFails(j) ==
  /\ pc[j] \in RecoverySteps
  /\ \E e \in Errors(j) : loc' = [loc EXCEPT ![j].out = e]
  /\ PutBack(j)
  /\ Goto(j, "finRead")
  /\ UNCHANGED <<status, count, db, safety, crashes>>

-----------------------------------------------------------------------------
(* finalizeJob, by a worker or by a cancelling request *)

\* Where a finalizeJob returns to.
Return(q) == IF q \in Job THEN "end" ELSE "idle"

\* The catch of runJob logs first, which rejects if the directory of the job is
\* gone: nobody handles that and the process dies (Restart).
FinRead(q) ==
  /\ pc[q] = "finRead"
  /\ q \in Job /\ loc[q].out # "completed" => status[q] # "absent"
  /\ \E s \in ReadJob(loc[q].job) :
       /\ loc' = [loc EXCEPT ![q].seen = s]
       /\ Goto(q, IF s = "absent" THEN Return(q) ELSE "finWrite")
  /\ UNCHANGED store

FinWrite(q) ==
  /\ pc[q] = "finWrite"
  /\ status' = [status EXCEPT ![loc[q].job] = loc[q].out]
  /\ Goto(q, IF AfterWrite(q) = "release" THEN "release" ELSE Return(q))
  /\ UNCHANGED <<count, active, db, safety, crashes, loc>>

Release(q) ==
  /\ pc[q] = "release"
  /\ count' = Released
  /\ Goto(q, Return(q))
  /\ UNCHANGED <<status, active, db, safety, crashes, loc>>

\* The release rejects.  In the try of runJob that makes the job failed; from
\* a request it goes to the caller; in the catch of runJob nobody handles it
\* and the process dies: Restart.
ReleaseFails(q) ==
  /\ "release" \in Faults
  /\ pc[q] = "release"
  /\ \/ /\ q \in Job /\ loc[q].out = "completed"
        /\ loc' = [loc EXCEPT ![q].out = "failed"]
        /\ Goto(q, "finRead")
     \/ q \in Admin /\ Goto(q, "idle") /\ UNCHANGED loc
  /\ UNCHANGED store

\* The finally of runJob: forget the task and clean its directory up, the
\* safety archive included, unless the record cannot be read.
End(j) ==
  /\ pc[j] = "end"
  /\ active' = [active EXCEPT ![j] = "no"]
  /\ \E s \in ReadJob(j) :
       safety' = IF s = "absent" THEN safety ELSE [safety EXCEPT ![j] = None]
  /\ Goto(j, "done")
  /\ UNCHANGED <<status, count, db, crashes, loc>>

-----------------------------------------------------------------------------
(* Requests on a job *)

CancelRead(a) ==
  /\ pc[a] = "idle"
  /\ \E j \in Job : \E s \in ReadJob(j) \ {"absent"} :
       loc' = [loc EXCEPT ![a] = [Blank(j) EXCEPT !.seen = s]]
  /\ Goto(a, "look")
  /\ UNCHANGED store

\* cancelJob: without a worker finalize the job, as cancelled only if it was
\* pending; otherwise ask the worker and note the request in the record.
CancelLook(a) ==
  /\ pc[a] = "look"
  /\ \/ /\ active[loc[a].job] = "no"
        /\ loc' = [loc EXCEPT ![a].out = IF loc[a].seen = "pending" THEN "cancelled" ELSE loc[a].seen]
        /\ Goto(a, "finRead")
        /\ UNCHANGED active
     \/ /\ active[loc[a].job] # "no"
        /\ active' = [active EXCEPT ![loc[a].job] = "cancel"]
        /\ Goto(a, "updRead")
        /\ UNCHANGED loc
  /\ UNCHANGED <<status, count, db, safety, crashes>>

UpdRead(a) ==
  /\ pc[a] = "updRead"
  /\ \E s \in ReadJob(loc[a].job) :
       /\ loc' = [loc EXCEPT ![a].seen = s]
       /\ Goto(a, IF s = "absent" THEN "idle" ELSE "updWrite")
  /\ UNCHANGED store

UpdWrite(a) ==
  /\ pc[a] = "updWrite"
  /\ status' = [status EXCEPT ![loc[a].job] = loc[a].seen]
  /\ Goto(a, "idle")
  /\ UNCHANGED <<count, active, db, safety, crashes, loc>>

\* deleteJob: refused for an active job.
DeleteRead(a) ==
  /\ pc[a] = "idle"
  /\ \E j \in Job :
       /\ ReadJob(j) \cap Terminal # {}
       /\ loc' = [loc EXCEPT ![a] = Blank(j)]
  /\ Goto(a, "remove")
  /\ UNCHANGED store

Remove(a) ==
  /\ pc[a] = "remove"
  /\ status' = [status EXCEPT ![loc[a].job] = "absent"]
  /\ safety' = [safety EXCEPT ![loc[a].job] = None]
  /\ Goto(a, "idle")
  /\ UNCHANGED <<count, active, db, crashes, loc>>

-----------------------------------------------------------------------------
(* Crash and restart *)

\* Mutant: the semaphore is not reset.
MutResetLock == count

\* resetJobAdmissionLock: no job is active after markStaleJobsFailed.
ResetLock == 0

\* Mutant: the next start forgets the jobs that were active.
MutRestart ==
  /\ crashes < MaxCrashes
  /\ crashes' = crashes + 1
  /\ count' = ResetLock
  /\ active' = [j \in Job |-> "no"]
  /\ pc' = [q \in Process |-> IF q \in Admin THEN "idle"
                              ELSE IF pc[q] = "none" THEN "none" ELSE "done"]
  /\ UNCHANGED <<status, db, safety, loc>>

\* The process dies and starts again.  A record being written may be left
\* unreadable; active jobs become failed.
Restart ==
  /\ crashes < MaxCrashes
  /\ crashes' = crashes + 1
  /\ \E lost \in SUBSET {j \in Job : "absent" \in ReadJob(j)} :
       status' = [j \in Job |-> IF j \in lost THEN "absent"
                                ELSE IF status[j] \in ActiveStatus THEN "failed" ELSE status[j]]
  /\ count' = ResetLock
  /\ active' = [j \in Job |-> "no"]
  /\ pc' = [q \in Process |-> IF q \in Admin THEN "idle"
                              ELSE IF pc[q] = "none" THEN "none" ELSE "done"]
  /\ UNCHANGED <<db, safety, loc>>

-----------------------------------------------------------------------------

WorkerStep(j) ==
  \/ Create(j) \/ Insert(j) \/ WriteRecord(j) \/ CreateFails(j) \/ GiveUp(j)
  \/ Upload(j) \/ StoreRead(j) \/ StoreWrite(j) \/ StoreCheck(j) \/ Start(j)
  \/ Activate(j) \/ RunRead(j)
  \/ RunWrite(j) \/ ProgressRead(j) \/ ProgressWrite(j) \/ Complete(j) \/ Abort(j)
  \/ SafetyBackup(j) \/ DropDatabase(j) \/ ImportLock(j) \/ Import(j) \/ ImportFails(j)
  \/ Recover(j) \/ DropAgain(j) \/ ReimportLock(j) \/ Reimport(j) \/ RecoveryFails(j)
  \/ FinRead(j) \/ FinWrite(j) \/ Release(j) \/ ReleaseFails(j) \/ End(j)

AdminStep(a) ==
  \/ CancelRead(a) \/ CancelLook(a) \/ UpdRead(a) \/ UpdWrite(a)
  \/ FinRead(a) \/ FinWrite(a) \/ Release(a) \/ ReleaseFails(a)
  \/ DeleteRead(a) \/ Remove(a)

Next ==
  \/ \E j \in Job : WorkerStep(j)
  \/ \E a \in Admin : AdminStep(a)
  \/ Restart

Spec == Init /\ [][Next]_vars

-----------------------------------------------------------------------------
(* Properties *)

Working(j) == pc[j] \in BodySteps

\* No more than Max jobs run at the same time ("job admission mutually
\* exclusive", "Release it exactly once"): the slot a job claimed is nobody
\* else's until it ends, however it is cancelled and whatever fails.
AtMostMax == Cardinality({j \in Job : Working(j)}) <= Max

\* "Cannot delete an active job. Cancel it first.": a record says running only
\* while there is a worker that a cancellation can stop.
RunningHasWorker ==
  \A j \in Job : status[j] = "running" /\ pc[j] = "done" =>
    \E a \in Admin : pc[a] # "idle" /\ loc[a].job = j

\* A database restore never loses the data: while the database is dropped or
\* half imported, some pre-restore archive on disk holds all of it.
DataRecoverable ==
  db = "partial" => \E j \in Job : safety[j] # None /\ safety[j].db # "partial"

\* The slot held for job j: its creation, its active record, its release.
HoldsSlot(j) ==
  \/ pc[j] \in {"write", "giveUp"}
  \/ status[j] \in ActiveStatus
  \/ \E q \in Process : pc[q] = "release" /\ loc[q].job = j

\* The semaphore counts every job that holds a slot ("Every job that
\* reached createJob claimed exactly one admission slot"): after a lower
\* count two jobs are admitted to one slot.
SlotsCovered ==
  count # None => Cardinality({j \in Job : HoldsSlot(j)}) <= count

\* Admission control holds: no more jobs work than there are slots, and the
\* semaphore that the next request looks at knows of all of them.
AdmissionHolds == AtMostMax /\ SlotsCovered

\* Every job that its request has handed to a worker ends, whatever the work
\* meets: its record does not say pending or running for ever.
JobsEnd == \A j \in Job : pc[j] = "start" ~> status[j] \notin ActiveStatus

\* The release of the slot of a job rejected: that in the catch of createJob, or
\* that of a job which had completed, and the second finalizeJob, which found the
\* record completed, left the slot alone.
SlotLost(j) ==
  \/ pc[j] = "leaked"
  \/ loc[j].seen = "completed" /\ loc[j].out = "failed"

\* When all requests for jobs are over the semaphore is free again, unless a
\* release was lost: then only a restart frees the slot.
SlotsReturned == <>[](count \in {0, None} \/ \E j \in Job : SlotLost(j))

-----------------------------------------------------------------------------
(* The orderly environment.  Nothing in the code excludes the overlaps below; *)
(* without them the jobs keep their promises.                                *)

\* Process q is inside a read-modify-write of a record.
Rewriting(q) ==
  pc[q] \in IF q \in Admin THEN Steps \ {"idle"}
            ELSE {"storeWrite", "activate", "runRead", "runWrite", "progWrite",
                  "finRead", "finWrite", "release"}

\* No two processes are inside a read-modify-write of the same record.
SerialRecord ==
  \A q, r \in Process :
    q # r /\ Rewriting(q) /\ Rewriting(r) => loc[q].job # loc[r].job

\* The restore j has dropped the database and has not ended.
Restoring(j) ==
  /\ loc[j].kind = "restore"
  /\ \/ pc[j] \in DroppedSteps \cup {"finRead", "finWrite", "release"}
     \/ pc[j] = "progWrite" /\ loc[j].back \in DroppedSteps

\* No job is requested while a restore has the database dropped.
NoRequestWhileDropped ==
  \A i, j \in Job : pc[i] = "insert" => ~Restoring(j)

\* The job of a restore that a crash interrupted is not deleted.
KeepArchive == \A j \in Job : safety[j] # None /\ safety'[j] = None => pc[j] = "end"

\* A job whose record was written gets the first line of its log.
LogWritten ==
  \A j \in Job : pc[j] = "write" /\ pc'[j] = "giveUp" => status'[j] = status[j]

\* The recovery of a restore neither fails nor is cancelled in its turn.
RecoverySucceeds ==
  \A j \in Job : pc[j] \in RecoverySteps /\ pc'[j] = "finRead" => db' = safety[j].db

Orderly ==
  /\ SerialRecord' /\ NoRequestWhileDropped'
  /\ KeepArchive /\ LogWritten /\ RecoverySucceeds

OrderlySpec == Init /\ [][Next /\ Orderly]_vars

\* Node runs every callback and every awaited operation settles: a worker
\* that can take a step takes one.  Requests for jobs need not arrive.
FairSpec ==
  /\ Spec
  /\ \A j \in Job : WF_vars(WorkerStep(j) /\ pc[j] # "none")
=============================================================================
