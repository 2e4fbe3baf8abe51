-------------------------- MODULE AdminJobsProofs --------------------------
(* Theorems about AdminJobs, for any number of jobs and requests, with       *)
(* faults and crashes: its types are kept in every environment; in the      *)
(* orderly one records do not say running for ever, and with one slot the   *)
(* data can be recovered and the slot is given to one job at a time.        *)
EXTENDS AdminJobs, FiniteSetTheorems, TLAPS

USE JobsAssumption

-----------------------------------------------------------------------------
(* Helpers *)

\* What a record may be read as is a status.
LEMMA ReadType == ASSUME TypeOK, NEW j \in Job PROVE ReadJob(j) \subseteq Status
BY DEF TypeOK, ReadJob, Status, ActiveStatus, Terminal

\* The release of a slot leaves the semaphore in its range.
LEMMA ReleasedType == ASSUME TypeOK PROVE Released \in Lock
BY DEF TypeOK, Released, Lock

\* A process starts with well-typed locals.
LEMMA BlankType == ASSUME NEW j \in Job PROVE Blank(j) \in Locals
BY DEF Blank, Locals, Kinds, Status, Steps, BodySteps

\* The outcomes of a job are statuses.
LEMMA OutType == ASSUME NEW j \in Job PROVE Errors(j) \cup {"completed"}
   \subseteq Status
BY DEF Errors, Status, Terminal

LEMMA LocType == ASSUME TypeOK PROVE loc \in [Process -> Locals]
BY DEF TypeOK

\* Assignments to the local variables of one process keep their types.
LEMMA SetKind ==
  ASSUME TypeOK, NEW q \in Process, NEW k \in Kinds
  PROVE  [loc EXCEPT ![q].kind = k] \in [Process -> Locals]
BY DEF TypeOK, Locals

LEMMA SetSeen ==
  ASSUME TypeOK, NEW q \in Process, NEW s \in Status
  PROVE  [loc EXCEPT ![q].seen = s] \in [Process -> Locals]
BY DEF TypeOK, Locals

LEMMA SetOut ==
  ASSUME TypeOK, NEW q \in Process, NEW s \in Status
  PROVE  [loc EXCEPT ![q].out = s] \in [Process -> Locals]
BY DEF TypeOK, Locals

LEMMA SetHad ==
  ASSUME TypeOK, NEW q \in Process, NEW b \in BOOLEAN
  PROVE  [loc EXCEPT ![q].had = b] \in [Process -> Locals]
BY DEF TypeOK, Locals

LEMMA InitType == Init => TypeOK
<1> SUFFICES ASSUME Init PROVE TypeOK
  OBVIOUS
<1>1. /\ status \in [Job -> Status] /\ count \in Lock /\ crashes \in 0 .. MaxCrashes
      /\ active \in [Job -> {"no", "yes", "cancel"}] /\ db \in Content
      /\ safety \in [Job -> Archive \cup {None}]
  BY DEF Init, Status, Lock, Content, Archive
<1>2. pc \in [Process -> Steps]
  BY DEF Init, Steps
<1>3. PICK i \in Job : i = (CHOOSE j \in Job : TRUE)
  BY Zenon
<1>4. \A q \in Process : (IF q \in Job THEN q ELSE i) \in Job
  OBVIOUS
<1>5. loc = [q \in Process |-> Blank(IF q \in Job THEN q ELSE i)]
  BY <1>3 DEF Init
<1>6. loc \in [Process -> Locals]
  BY <1>4, <1>5, BlankType
<1>7. QED
  BY <1>1, <1>2, <1>6 DEF TypeOK

-----------------------------------------------------------------------------
(* One lemma per action *)

LEMMA CreateType ==
  ASSUME TypeOK, NEW j \in Job, Create(j)
  PROVE  TypeOK'
<1>1. loc' \in [Process -> Locals]
  BY SetKind DEF Create, TypeOK, Process
<1>2. pc' \in [Process -> Steps]
  BY DEF Create, Goto, TypeOK, Process, Steps, BodySteps, DroppedSteps,
     RecoverySteps, WriteSteps
<1>3. QED
  BY <1>1, <1>2 DEF Create, Goto, TypeOK, Lock, Content, Archive

LEMMA InsertType ==
  ASSUME TypeOK, NEW j \in Job, Insert(j)
  PROVE  TypeOK'
BY DEF Insert, Goto, TypeOK, Process, Steps, BodySteps, DroppedSteps,
   RecoverySteps, WriteSteps, Lock, Content, Archive

LEMMA WriteRecordType ==
  ASSUME TypeOK, NEW j \in Job, WriteRecord(j)
  PROVE  TypeOK'
BY DEF WriteRecord, Goto, TypeOK, Process, Steps, BodySteps, DroppedSteps,
   RecoverySteps, WriteSteps, Status, ActiveStatus, Terminal, Lock, Content, Archive,
   Locals

LEMMA CreateFailsType ==
  ASSUME TypeOK, NEW j \in Job, CreateFails(j)
  PROVE  TypeOK'
BY DEF CreateFails, Goto, TypeOK, Process, Steps, BodySteps, DroppedSteps,
   RecoverySteps, WriteSteps, Status, ActiveStatus, Terminal, Lock, Content, Archive

LEMMA GiveUpType ==
  ASSUME TypeOK, NEW j \in Job, GiveUp(j)
  PROVE  TypeOK'
BY ReleasedType DEF GiveUp, Goto, TypeOK, Process, Steps, BodySteps, DroppedSteps,
   RecoverySteps, WriteSteps

LEMMA UploadType ==
  ASSUME TypeOK, NEW j \in Job, Upload(j)
  PROVE  TypeOK'
BY DEF Upload, Goto, store, TypeOK, Process, Steps, BodySteps, DroppedSteps,
   RecoverySteps, WriteSteps

LEMMA StoreReadType ==
  ASSUME TypeOK, NEW j \in Job, StoreRead(j)
  PROVE  TypeOK'
<1>1. PICK s \in ReadJob(j) : loc' = [loc EXCEPT ![j].seen = s]
  BY DEF StoreRead
<1>2. s \in Status
  BY ReadType
<1>3. loc' \in [Process -> Locals]
  BY <1>1, <1>2, SetSeen DEF Process
<1>4. pc' \in [Process -> Steps]
  BY DEF StoreRead, Goto, TypeOK, Process, Steps, BodySteps, DroppedSteps,
     RecoverySteps, WriteSteps
<1>5. QED
  BY <1>3, <1>4 DEF StoreRead, Goto, store, TypeOK

LEMMA StoreWriteType ==
  ASSUME TypeOK, NEW j \in Job, StoreWrite(j)
  PROVE  TypeOK'
BY DEF StoreWrite, Goto, TypeOK, Process, Steps, BodySteps, DroppedSteps,
   RecoverySteps, WriteSteps, Status, ActiveStatus, Terminal, Lock, Content, Archive,
   Locals

LEMMA StoreCheckType ==
  ASSUME TypeOK, NEW j \in Job, StoreCheck(j)
  PROVE  TypeOK'
BY DEF StoreCheck, Goto, store, TypeOK, Process, Steps, BodySteps, DroppedSteps,
   RecoverySteps, WriteSteps

LEMMA StartType ==
  ASSUME TypeOK, NEW j \in Job, Start(j)
  PROVE  TypeOK'
BY DEF Start, Goto, store, TypeOK, Process, Steps, BodySteps, DroppedSteps,
   RecoverySteps, WriteSteps

LEMMA ActivateType ==
  ASSUME TypeOK, NEW j \in Job, Activate(j)
  PROVE  TypeOK'
BY DEF Activate, Goto, TypeOK, Process, Steps, BodySteps, DroppedSteps,
   RecoverySteps, WriteSteps, Lock, Content, Archive

LEMMA RunReadType ==
  ASSUME TypeOK, NEW j \in Job, RunRead(j)
  PROVE  TypeOK'
BY DEF RunRead, Goto, store, TypeOK, Process, Steps, BodySteps, DroppedSteps,
   RecoverySteps, WriteSteps

LEMMA RunWriteType ==
  ASSUME TypeOK, NEW j \in Job, RunWrite(j)
  PROVE  TypeOK'
BY DEF RunWrite, Goto, TypeOK, Process, Steps, BodySteps, DroppedSteps,
   RecoverySteps, WriteSteps, Status, ActiveStatus, Terminal, Lock, Content, Archive

LEMMA ProgressReadType ==
  ASSUME TypeOK, NEW j \in Job, ProgressRead(j)
  PROVE  TypeOK'
<1>1. PICK s \in ReadJob(j) :
        loc' = [loc EXCEPT ![j].seen = s, ![j].back = pc[j], ![j].ticks = @ + 1]
  BY DEF ProgressRead
<1>2. s \in Status /\ pc[j] \in Steps
  BY ReadType DEF TypeOK, Process
<1>3. loc[j].ticks + 1 \in 0 .. MaxProgress
  BY LocType DEF ProgressRead, Locals, Process
<1>4. loc' \in [Process -> Locals]
  BY <1>1, <1>2, <1>3, LocType DEF Locals, Process
<1>5. pc' \in [Process -> Steps]
  BY DEF ProgressRead, Goto, TypeOK, Process, Steps, BodySteps, DroppedSteps,
     RecoverySteps, WriteSteps
<1>6. QED
  BY <1>4, <1>5 DEF ProgressRead, Goto, store, TypeOK

LEMMA ProgressWriteType ==
  ASSUME TypeOK, NEW j \in Job, ProgressWrite(j)
  PROVE  TypeOK'
BY DEF ProgressWrite, Goto, TypeOK, Process, Steps, BodySteps, DroppedSteps,
   RecoverySteps, WriteSteps, Status, ActiveStatus, Terminal, Lock, Content, Archive,
   Locals

LEMMA CompleteType ==
  ASSUME TypeOK, NEW j \in Job, Complete(j)
  PROVE  TypeOK'
<1>1. loc' \in [Process -> Locals]
  BY SetKind, SetOut, OutType DEF Complete, TypeOK, Process, Status,
     ActiveStatus, Terminal
<1>2. pc' \in [Process -> Steps]
  BY DEF Complete, Goto, TypeOK, Process, Steps, BodySteps, DroppedSteps,
     RecoverySteps, WriteSteps
<1>3. QED
  BY <1>1, <1>2 DEF Complete, Goto, store, TypeOK

LEMMA AbortType ==
  ASSUME TypeOK, NEW j \in Job, Abort(j)
  PROVE  TypeOK'
<1>1. PICK e \in Errors(j) : loc' = [loc EXCEPT ![j].out = e]
  BY DEF Abort
<1>2. e \in Status
  BY OutType
<1>3. loc' \in [Process -> Locals]
  BY <1>1, <1>2, SetOut DEF Process
<1>4. pc' \in [Process -> Steps]
  BY DEF Abort, Goto, TypeOK, Process, Steps, BodySteps, DroppedSteps,
     RecoverySteps, WriteSteps
<1>5. QED
  BY <1>3, <1>4 DEF Abort, Goto, store, TypeOK

LEMMA SafetyBackupType ==
  ASSUME TypeOK, NEW j \in Job, SafetyBackup(j)
  PROVE  TypeOK'
BY DEF SafetyBackup, Goto, TypeOK, Process, Steps, BodySteps, DroppedSteps,
   RecoverySteps, WriteSteps, Lock, Content, Archive, Locals

LEMMA DropDatabaseType ==
  ASSUME TypeOK, NEW j \in Job, DropDatabase(j)
  PROVE  TypeOK'
BY DEF DropDatabase, Goto, TypeOK, Process, Steps, BodySteps, DroppedSteps,
   RecoverySteps, WriteSteps, Lock, Content, Archive

LEMMA ImportLockType ==
  ASSUME TypeOK, NEW j \in Job, ImportLock(j)
  PROVE  TypeOK'
<1>1. loc' = loc \/ loc' = [loc EXCEPT ![j].out = "failed"]
  BY DEF ImportLock
<1>2. "failed" \in Status
  BY DEF Status, Terminal
<1>3. loc' \in [Process -> Locals]
  BY <1>1, <1>2, LocType, SetOut DEF Process
<1>4. pc' \in [Process -> Steps]
  BY DEF ImportLock, Goto, TypeOK, Process, Steps, BodySteps, DroppedSteps,
     RecoverySteps, WriteSteps
<1>5. QED
  BY <1>3, <1>4 DEF ImportLock, Goto, TypeOK, Lock, Content, Archive

LEMMA ImportType ==
  ASSUME TypeOK, NEW j \in Job, Import(j)
  PROVE  TypeOK'
<1>1. loc' \in [Process -> Locals]
  BY SetOut, OutType DEF Import, TypeOK, Process, Status, ActiveStatus, Terminal
<1>2. pc' \in [Process -> Steps]
  BY DEF Import, Goto, TypeOK, Process, Steps, BodySteps, DroppedSteps,
     RecoverySteps, WriteSteps
<1>3. QED
  BY <1>1, <1>2 DEF Import, Goto, TypeOK, Lock, Content, Archive

LEMMA ImportFailsType ==
  ASSUME TypeOK, NEW j \in Job, ImportFails(j)
  PROVE  TypeOK'
<1>1. PICK e \in Errors(j) : loc' = [loc EXCEPT ![j].out = e]
  BY DEF ImportFails
<1>2. e \in Status
  BY OutType
<1>3. loc' \in [Process -> Locals]
  BY <1>1, <1>2, SetOut DEF Process
<1>4. pc' \in [Process -> Steps]
  BY DEF ImportFails, Goto, TypeOK, Process, Steps, BodySteps, DroppedSteps,
     RecoverySteps, WriteSteps
<1>5. QED
  BY <1>3, <1>4 DEF ImportFails, Goto, store, TypeOK

LEMMA RecoverType ==
  ASSUME TypeOK, NEW j \in Job, Recover(j)
  PROVE  TypeOK'
<1>1. loc' \in [Process -> Locals]
  BY SetHad DEF Recover, TypeOK, Process
<1>2. pc' \in [Process -> Steps]
  BY DEF Recover, Goto, TypeOK, Process, Steps, BodySteps, DroppedSteps,
     RecoverySteps, WriteSteps
<1>3. QED
  BY <1>1, <1>2 DEF Recover, Goto, TypeOK, Lock, Content, Archive

LEMMA DropAgainType ==
  ASSUME TypeOK, NEW j \in Job, DropAgain(j)
  PROVE  TypeOK'
BY DEF DropAgain, Goto, TypeOK, Process, Steps, BodySteps, DroppedSteps,
   RecoverySteps, WriteSteps, Lock, Content, Archive

LEMMA ReimportLockType ==
  ASSUME TypeOK, NEW j \in Job, ReimportLock(j)
  PROVE  TypeOK'
<1>1. loc' = loc \/ loc' = [loc EXCEPT ![j].out = "failed"]
  BY DEF ReimportLock
<1>2. "failed" \in Status
  BY DEF Status, Terminal
<1>3. loc' \in [Process -> Locals]
  BY <1>1, <1>2, LocType, SetOut DEF Process
<1>4. pc' \in [Process -> Steps]
  BY DEF ReimportLock, Goto, PutBack, TypeOK, Process, Steps, BodySteps,
     DroppedSteps, RecoverySteps, WriteSteps
<1>5. QED
  BY <1>3, <1>4 DEF ReimportLock, Goto, PutBack, TypeOK, Lock, Content, Archive,
     FilesGone, DroppedSteps, RecoverySteps

LEMMA ReimportType ==
  ASSUME TypeOK, NEW j \in Job, Reimport(j)
  PROVE  TypeOK'
BY DEF Reimport, FilesGone, Goto, PutBack, TypeOK, Process, Steps, BodySteps,
   DroppedSteps, RecoverySteps, WriteSteps, Lock, Content, Archive

LEMMA RecoveryFailsType ==
  ASSUME TypeOK, NEW j \in Job, RecoveryFails(j)
  PROVE  TypeOK'
<1>1. PICK e \in Errors(j) : loc' = [loc EXCEPT ![j].out = e]
  BY DEF RecoveryFails
<1>2. e \in Status
  BY OutType
<1>3. loc' \in [Process -> Locals]
  BY <1>1, <1>2, SetOut DEF Process
<1>4. pc' \in [Process -> Steps]
  BY DEF RecoveryFails, Goto, PutBack, TypeOK, Process, Steps, BodySteps,
     DroppedSteps, RecoverySteps, WriteSteps
<1>5. QED
  BY <1>3, <1>4 DEF RecoveryFails, Goto, PutBack, TypeOK, Lock, Content, Archive

LEMMA EndType ==
  ASSUME TypeOK, NEW j \in Job, End(j)
  PROVE  TypeOK'
BY DEF End, Goto, TypeOK, Process, Steps, BodySteps, DroppedSteps,
   RecoverySteps, WriteSteps, Lock, Content, Archive

LEMMA FinReadType ==
  ASSUME TypeOK, NEW q \in Process, FinRead(q)
  PROVE  TypeOK'
<1>1. loc[q].job \in Job
  BY LocType DEF Locals, Process
<1>2. PICK s \in ReadJob(loc[q].job) : loc' = [loc EXCEPT ![q].seen = s]
  BY DEF FinRead
<1>3. s \in Status
  BY <1>1, ReadType
<1>4. loc' \in [Process -> Locals]
  BY <1>2, <1>3, SetSeen DEF Process
<1>5. pc' \in [Process -> Steps]
  BY DEF FinRead, Goto, Return, TypeOK, Process, Steps, BodySteps, DroppedSteps,
     RecoverySteps, WriteSteps
<1>6. QED
  BY <1>4, <1>5 DEF FinRead, Goto, Return, store, TypeOK

LEMMA FinWriteType ==
  ASSUME TypeOK, NEW q \in Process, FinWrite(q)
  PROVE  TypeOK'
BY DEF FinWrite, Goto, Return, AfterWrite, TypeOK, Process, Steps, BodySteps,
   DroppedSteps, RecoverySteps, WriteSteps, Status, ActiveStatus, Terminal,
   Lock, Content, Archive, Locals

LEMMA ReleaseType ==
  ASSUME TypeOK, NEW q \in Process, Release(q)
  PROVE  TypeOK'
BY ReleasedType DEF Release, Goto, Return, TypeOK, Process, Steps, BodySteps,
   DroppedSteps, RecoverySteps, WriteSteps, Lock, Content, Archive

LEMMA ReleaseFailsType ==
  ASSUME TypeOK, NEW q \in Process, ReleaseFails(q)
  PROVE  TypeOK'
<1>1. loc' = loc \/ loc' = [loc EXCEPT ![q].out = "failed"]
  BY DEF ReleaseFails
<1>2. "failed" \in Status
  BY DEF Status, Terminal
<1>3. loc' \in [Process -> Locals]
  BY <1>1, <1>2, LocType, SetOut DEF Process
<1>4. pc' \in [Process -> Steps]
  BY DEF ReleaseFails, Goto, TypeOK, Process, Steps, BodySteps, DroppedSteps,
     RecoverySteps, WriteSteps
<1>5. QED
  BY <1>3, <1>4 DEF ReleaseFails, Goto, store, TypeOK

LEMMA CancelReadType ==
  ASSUME TypeOK, NEW a \in Admin, CancelRead(a)
  PROVE  TypeOK'
<1>1. PICK j \in Job : \E s \in ReadJob(j) :
        loc' = [loc EXCEPT ![a] = [Blank(j) EXCEPT !.seen = s]]
  BY DEF CancelRead
<1>2. PICK s \in ReadJob(j) : loc' = [loc EXCEPT ![a] = [Blank(j) EXCEPT !.seen
   = s]]
  BY <1>1
<1>3. s \in Status
  BY ReadType
<1>4. [Blank(j) EXCEPT !.seen = s] \in Locals
  BY <1>3, BlankType DEF Locals
<1>5. loc' \in [Process -> Locals]
  BY <1>2, <1>4, LocType DEF Process
<1>6. pc' \in [Process -> Steps]
  BY DEF CancelRead, Goto, TypeOK, Process, Steps, BodySteps, DroppedSteps,
     RecoverySteps, WriteSteps
<1>7. QED
  BY <1>5, <1>6 DEF CancelRead, Goto, store, TypeOK

LEMMA CancelLookType ==
  ASSUME TypeOK, NEW a \in Admin, CancelLook(a)
  PROVE  TypeOK'
<1>1. PICK s : /\ s \in {"cancelled", loc[a].seen}
               /\ loc' = loc \/ loc' = [loc EXCEPT ![a].out = s]
  BY DEF CancelLook
<1>2. s \in Status
  BY <1>1, LocType DEF Locals, Process, Status, Terminal
<1>3. loc' \in [Process -> Locals]
  BY <1>1, <1>2, LocType, SetOut DEF Process
<1>4. pc' \in [Process -> Steps]
  BY DEF CancelLook, Goto, TypeOK, Process, Steps, BodySteps, DroppedSteps,
     RecoverySteps, WriteSteps
<1>5. QED
  BY <1>3, <1>4 DEF CancelLook, Goto, TypeOK, Lock, Content, Archive

LEMMA UpdReadType ==
  ASSUME TypeOK, NEW a \in Admin, UpdRead(a)
  PROVE  TypeOK'
<1>1. loc[a].job \in Job
  BY LocType DEF Locals, Process
<1>2. PICK s \in ReadJob(loc[a].job) : loc' = [loc EXCEPT ![a].seen = s]
  BY DEF UpdRead
<1>3. s \in Status
  BY <1>1, ReadType
<1>4. loc' \in [Process -> Locals]
  BY <1>2, <1>3, SetSeen DEF Process
<1>5. pc' \in [Process -> Steps]
  BY DEF UpdRead, Goto, TypeOK, Process, Steps, BodySteps, DroppedSteps,
     RecoverySteps, WriteSteps
<1>6. QED
  BY <1>4, <1>5 DEF UpdRead, Goto, store, TypeOK

LEMMA UpdWriteType ==
  ASSUME TypeOK, NEW a \in Admin, UpdWrite(a)
  PROVE  TypeOK'
BY DEF UpdWrite, Goto, TypeOK, Process, Steps, BodySteps, DroppedSteps,
   RecoverySteps, WriteSteps, Status, ActiveStatus, Terminal, Lock, Content, Archive,
   Locals

LEMMA DeleteReadType ==
  ASSUME TypeOK, NEW a \in Admin, DeleteRead(a)
  PROVE  TypeOK'
<1>1. loc' \in [Process -> Locals]
  BY ReadType, BlankType DEF DeleteRead, TypeOK, Process
<1>2. pc' \in [Process -> Steps]
  BY DEF DeleteRead, Goto, TypeOK, Process, Steps, BodySteps, DroppedSteps,
     RecoverySteps, WriteSteps
<1>3. QED
  BY <1>1, <1>2 DEF DeleteRead, Goto, store, TypeOK

LEMMA RemoveType ==
  ASSUME TypeOK, NEW a \in Admin, Remove(a)
  PROVE  TypeOK'
BY DEF Remove, Goto, TypeOK, Process, Steps, BodySteps, DroppedSteps,
   RecoverySteps, WriteSteps, Status, ActiveStatus, Terminal, Lock, Content, Archive,
   Locals

LEMMA RestartType ==
  ASSUME TypeOK, Restart
  PROVE  TypeOK'
<1>1. status' \in [Job -> Status]
  BY DEF Restart, TypeOK, Status, Terminal
<1>2. pc' \in [Process -> Steps]
  BY DEF Restart, Steps
<1>3. QED
  BY <1>1, <1>2 DEF Restart, TypeOK, ResetLock, Lock

-----------------------------------------------------------------------------
(* The theorem *)

LEMMA NextType == TypeOK /\ [Next]_vars => TypeOK'
<1> SUFFICES ASSUME TypeOK, [Next]_vars PROVE TypeOK'
  OBVIOUS
<1>1. CASE UNCHANGED vars
  BY <1>1 DEF vars, TypeOK
<1>2. ASSUME NEW j \in Job, WorkerStep(j) PROVE TypeOK'
  <2>1. j \in Process
    BY DEF Process
  <2>2. QED
    BY <1>2, <2>1, CreateType, InsertType, WriteRecordType, CreateFailsType,
       GiveUpType, StoreCheckType, UploadType, StoreReadType, StoreWriteType, StartType, ActivateType,
       RunReadType, RunWriteType, ProgressReadType, ProgressWriteType,
       CompleteType, AbortType, SafetyBackupType, DropDatabaseType,
       ImportLockType, ImportType, ImportFailsType, RecoverType, DropAgainType,
       ReimportLockType, ReimportType, RecoveryFailsType, FinReadType,
       FinWriteType, ReleaseType, ReleaseFailsType, EndType DEF WorkerStep
<1>3. ASSUME NEW a \in Admin, AdminStep(a) PROVE TypeOK'
  <2>1. a \in Process
    BY DEF Process
  <2>2. QED
    BY <1>3, <2>1, FinReadType, FinWriteType, ReleaseType, ReleaseFailsType,
       CancelReadType, CancelLookType, UpdReadType, UpdWriteType,
       DeleteReadType, RemoveType DEF AdminStep
<1>4. CASE Restart
  BY <1>4, RestartType
<1>5. QED
  BY <1>1, <1>2, <1>3, <1>4 DEF Next

\* Whatever overlaps, fails or crashes, the job records, the semaphore and the
\* archives keep their types: in particular the count stays between zero and
\* its limit although slots may be released twice.
THEOREM JobTypes == Spec => []TypeOK
<1>1. QED
  BY InitType, NextType, PTL DEF Spec

\* The same in the orderly environment.
THEOREM OrderlyTypes == OrderlySpec => []TypeOK
<1>1. TypeOK /\ [Next /\ Orderly]_vars => TypeOK'
  BY NextType
<1>2. QED
  BY <1>1, InitType, PTL DEF OrderlySpec

-----------------------------------------------------------------------------
(* The inductive invariant of the orderly environment.                      *)
(*                                                                          *)
(* Where a job is tells what its record and its activeTasks entry say       *)
(* (Stages), and so does where a request on it is (Requests).  From these   *)
(* follow who holds the slots (Slots) and which archives are safe           *)
(* (Archives).                                                              *)

\* Where a worker is, a progress update left aside.
At(j) == IF pc[j] = "progWrite" THEN loc[j].back ELSE pc[j]

Before == {"none", "insert", "write", "giveUp"}
Waiting == {"upload", "storeRead", "storeCheck", "start"}
RestoreSteps == {"drop"} \cup DroppedSteps
Body == {"work"} \cup RestoreSteps
InRestore(j) == At(j) \in RestoreSteps

Stage(j) ==
  /\ loc[j].job = j
  /\ pc[j] \notin {"idle", "look", "updRead", "updWrite", "remove"}
  /\ pc[j] \in Before => status[j] = "absent" /\ active[j] = "no"
  /\ pc[j] \in Waiting =>
       status[j] \in {"pending", "cancelled", "absent"} /\ active[j] = "no"
  /\ pc[j] = "storeWrite" =>
       /\ status[j] \in {"pending", "cancelled"} /\ loc[j].seen = status[j]
       /\ active[j] = "no"
  /\ pc[j] = "activate" => status[j] = "pending" /\ active[j] = "no"
  /\ pc[j] \in {"runRead", "runWrite"} => status[j] = "pending" /\ active[j] # "no"
  /\ At(j) \in Body => status[j] = "running" /\ active[j] # "no"
  /\ pc[j] = "progWrite" => loc[j].seen = status[j] /\ loc[j].back \in Body
  /\ InRestore(j) => loc[j].kind = "restore"
  /\ At(j) \in {"recover"} \cup RecoverySteps => loc[j].out \in Terminal
  /\ pc[j] \in {"finRead", "finWrite"} =>
       /\ loc[j].out \in Terminal
       /\ \/ status[j] = "running"
          \/ status[j] = "completed" /\ loc[j].out = "failed"
  /\ pc[j] = "finWrite" => loc[j].seen = status[j]
  /\ pc[j] = "release" => status[j] \in Terminal /\ status[j] = loc[j].out
  /\ pc[j] \in {"finRead", "finWrite", "release", "end"} => active[j] # "no"
  /\ pc[j] = "end" => status[j] \in Terminal \cup {"absent"}
  /\ pc[j] \in {"done", "leaked"} => status[j] # "running" /\ active[j] = "no"

\* What a request on job j knows of it.
Request(a, j) ==
  /\ pc[a] \in {"look", "updRead", "updWrite", "finRead", "finWrite", "release", "remove"}
  /\ pc[j] \notin Before
  /\ status[j] # "absent"
  /\ pc[a] \in {"look", "updWrite", "finWrite"} => loc[a].seen = status[j]
  /\ pc[a] \in {"finRead", "finWrite"} =>
       /\ active[j] = "no"
       /\ loc[a].out = IF status[j] = "pending" THEN "cancelled" ELSE status[j]
  /\ pc[a] = "release" => status[j] = "cancelled"
  /\ pc[a] = "remove" => status[j] \in Terminal

Busy(a, j) == pc[a] # "idle" /\ loc[a].job = j

Stages == \A j \in Job : Stage(j)
Requests == \A a \in Admin, j \in Job : Busy(a, j) => Request(a, j)
Known == TypeOK /\ Stages /\ Requests /\ SerialRecord

\* One slot, which one job holds; the semaphore is missing only under a restore.
OneHolder == \A i, j \in Job : HoldsSlot(i) /\ HoldsSlot(j) => i = j
FreeIfZero == count = 0 => \A j \in Job : ~HoldsSlot(j)
DroppedIfNone == count = None => \A j \in Job : HoldsSlot(j) => Restoring(j)
SafeLock == \A j \in Job : safety[j] # None => safety[j].lock # 0
Slots == OneHolder /\ FreeIfZero /\ DroppedIfNone /\ SafeLock

\* The archive of job j holds all data; the job is over and keeps it.
Safe(j) == safety[j] # None /\ safety[j].db # "partial"
Kept(j) == Safe(j) /\ pc[j] = "done"
PartialKept ==
  db = "partial" => \E j \in Job : Safe(j) /\ (pc[j] = "done" \/ InRestore(j))
RestoreKept ==
  \A j \in Job : InRestore(j) =>
    /\ safety[j] # None
    /\ safety[j].db = "partial" => \E i \in Job \ {j} : Kept(i)
Archives == PartialKept /\ RestoreKept

-----------------------------------------------------------------------------
(* What a step of a worker does *)

\* It leaves the other processes and jobs alone.
Local(j) ==
  /\ \A q \in Process \ {j} : pc'[q] = pc[q] /\ loc'[q] = loc[q]
  /\ \A i \in Job \ {j} :
       status'[i] = status[i] /\ active'[i] = active[i] /\ safety'[i] = safety[i]

\* Outside a rewrite the record of a job that exists stays as it is.
Gentle(j) ==
  Rewriting(j) \/ pc[j] \in Before \/
    /\ status'[j] = status[j]
    /\ active[j] = "no" => active'[j] = "no"
    /\ pc'[j] \notin Before

Occupies(j) == pc[j] \in {"write", "giveUp", "release"} \/ status[j] \in ActiveStatus

\* It takes no slot, and a restore that keeps its slot is still one.
Keeps(j) == Occupies(j)' => Occupies(j) /\ (Restoring(j) => Restoring(j)')

\* With one slot, which archives hold as taken.
OneSlot == Max = 1 /\ 0 \notin ArchiveLock

SlotStep(j) == OneSlot /\ SafeLock =>
  \/ Keeps(j) /\ count' = count
  \/ Keeps(j) /\ count' \notin {0, None}
  \/ pc[j] = "none" /\ count = 0 /\ count' = 1
  \/ pc[j] = "insert" /\ count = None /\ count' = 1
  \/ Occupies(j) /\ ~Occupies(j)' /\ count' = Released
  \/ Occupies(j) /\ Restoring(j)' /\ count' = None

\* An archive it writes holds the semaphore, with the slot it occupies.
LockStep(j) ==
  safety'[j] # None => safety'[j] = safety[j] \/ (safety'[j].lock = count /\ Occupies(j))

ArchiveStep(j) ==
  /\ db' = "partial" => db = "partial" \/ InRestore(j)
  /\ InRestore(j) =>
       /\ safety'[j] = safety[j]
       /\ InRestore(j)' \/ db' # "partial" \/ db' = safety[j].db
  /\ InRestore(j)' /\ ~InRestore(j) =>
       safety'[j] # None /\ safety'[j].db = db /\ status[j] = "running"

Shape(j) ==
  /\ pc[j] # "done" /\ Local(j) /\ Stage(j)' /\ Gentle(j)
  /\ SlotStep(j) /\ LockStep(j) /\ ArchiveStep(j)

-----------------------------------------------------------------------------
(* Steps before the worker runs *)

LEMMA JobIsProcess == \A j \in Job : j \in Process /\ j \notin Admin
BY DEF Process

LEMMA CreateShape ==
  ASSUME Known, NEW j \in Job, Create(j)
  PROVE  Shape(j)
<1> USE JobIsProcess
<1>1. /\ pc[j] = "none" /\ pc'[j] \in {"write", "insert"}
      /\ status' = status /\ active' = active /\ safety' = safety /\ db' = db
      /\ loc'[j].job = loc[j].job
      /\ \A q \in Process \ {j} : pc'[q] = pc[q] /\ loc'[q] = loc[q]
  BY DEF Create, Goto, Known, TypeOK, Locals
<1>2. Stage(j) /\ Local(j)
  BY <1>1 DEF Known, Stages, Local
<1>3. Stage(j)'
  BY <1>1, <1>2 DEF Stage, Before, At, Waiting, Body, InRestore, RestoreSteps,
     DroppedSteps, RecoverySteps
<1>4. Max = 1 => \/ count = 0 /\ count' = 1
                 \/ pc'[j] = "insert" /\ count' = count
  BY DEF Create, Goto, Known, TypeOK, Lock
<1>5. SlotStep(j)
  BY <1>1, <1>2, <1>4 DEF SlotStep, OneSlot, Keeps, Occupies, Stage, Before,
     ActiveStatus
<1>6. LockStep(j) /\ ArchiveStep(j)
  BY <1>1 DEF LockStep, ArchiveStep, InRestore, At, RestoreSteps, DroppedSteps,
     RecoverySteps
<1>7. QED
  BY <1>1, <1>2, <1>3, <1>5, <1>6 DEF Shape, Gentle, Before

LEMMA InsertShape ==
  ASSUME Known, NEW j \in Job, Insert(j)
  PROVE  Shape(j)
<1> USE JobIsProcess
<1>1. /\ pc[j] = "insert" /\ pc'[j] \in {"write", "done"}
      /\ status' = status /\ active' = active /\ safety' = safety /\ db' = db
      /\ loc' = loc
      /\ \A q \in Process \ {j} : pc'[q] = pc[q]
  BY DEF Insert, Goto, Known, TypeOK
<1>2. Stage(j) /\ Local(j)
  BY <1>1 DEF Known, Stages, Local
<1>3. Stage(j)'
  BY <1>1, <1>2 DEF Stage, Before, At, Waiting, Body, InRestore, RestoreSteps,
     DroppedSteps, RecoverySteps
<1>4. \/ count = None /\ count' = 1
      \/ pc'[j] = "done" /\ count' = count
  BY DEF Insert, Goto, Known, TypeOK
<1>5. SlotStep(j)
  BY <1>1, <1>2, <1>4 DEF SlotStep, Keeps, Occupies, Stage, Before, ActiveStatus
<1>6. LockStep(j) /\ ArchiveStep(j)
  BY <1>1 DEF LockStep, ArchiveStep, InRestore, At, RestoreSteps, DroppedSteps,
     RecoverySteps
<1>7. QED
  BY <1>1, <1>2, <1>3, <1>5, <1>6 DEF Shape, Gentle, Before

LEMMA WriteRecordShape ==
  ASSUME Known, NEW j \in Job, WriteRecord(j)
  PROVE  Shape(j)
<1> USE JobIsProcess
<1>1. /\ pc[j] = "write" /\ pc'[j] \in {"start", "upload"} /\ status'[j] = "pending"
      /\ active' = active /\ safety' = safety /\ db' = db /\ count' = count
      /\ loc' = loc
      /\ \A q \in Process \ {j} : pc'[q] = pc[q]
      /\ \A i \in Job \ {j} : status'[i] = status[i]
  BY DEF WriteRecord, Goto, Known, TypeOK
<1>2. Stage(j) /\ Local(j)
  BY <1>1 DEF Known, Stages, Local
<1>3. Stage(j)'
  BY <1>1, <1>2 DEF Stage, Before, At, Waiting, Body, InRestore, RestoreSteps,
     DroppedSteps, RecoverySteps
<1>4. SlotStep(j)
  BY <1>1 DEF SlotStep, Keeps, Occupies, Restoring, DroppedSteps, RecoverySteps
<1>5. LockStep(j) /\ ArchiveStep(j)
  BY <1>1 DEF LockStep, ArchiveStep, InRestore, At, RestoreSteps, DroppedSteps,
     RecoverySteps
<1>6. QED
  BY <1>1, <1>2, <1>3, <1>4, <1>5 DEF Shape, Gentle, Before

LEMMA CreateFailsShape ==
  ASSUME Known, NEW j \in Job, CreateFails(j), LogWritten
  PROVE  Shape(j)
<1> USE JobIsProcess
<1>1. /\ pc[j] = "write" /\ pc'[j] = "giveUp" /\ count' = count
      /\ active' = active /\ safety' = safety /\ db' = db
      /\ loc' = loc
      /\ \A q \in Process \ {j} : pc'[q] = pc[q]
      /\ \A i \in Job \ {j} : status'[i] = status[i]
  BY DEF CreateFails, Goto, Known, TypeOK
<1>2. Stage(j) /\ Local(j)
  BY <1>1 DEF Known, Stages, Local
<1>3. status'[j] = status[j] /\ status[j] = "absent"
  BY <1>1, <1>2 DEF LogWritten, Stage, Before
<1>4. Stage(j)'
  BY <1>1, <1>2, <1>3 DEF Stage, Before, At, Waiting, Body, InRestore, RestoreSteps,
     DroppedSteps, RecoverySteps
<1>5. SlotStep(j)
  BY <1>1 DEF SlotStep, Keeps, Occupies, Restoring, DroppedSteps, RecoverySteps
<1>6. LockStep(j) /\ ArchiveStep(j)
  BY <1>1 DEF LockStep, ArchiveStep, InRestore, At, RestoreSteps, DroppedSteps,
     RecoverySteps
<1>7. QED
  BY <1>1, <1>2, <1>4, <1>5, <1>6 DEF Shape, Gentle, Before

LEMMA GiveUpShape ==
  ASSUME Known, NEW j \in Job, GiveUp(j)
  PROVE  Shape(j)
<1> USE JobIsProcess
<1>1. /\ pc[j] = "giveUp"
      /\ \/ pc'[j] = "done" /\ count' = Released
         \/ pc'[j] = "leaked" /\ count' = count
      /\ status' = status /\ active' = active /\ safety' = safety /\ db' = db
      /\ loc' = loc
      /\ \A q \in Process \ {j} : pc'[q] = pc[q]
  BY DEF GiveUp, Goto, Known, TypeOK
<1>2. Stage(j) /\ Local(j)
  BY <1>1 DEF Known, Stages, Local
<1>3. status[j] = "absent"
  BY <1>1, <1>2 DEF Stage, Before
<1>4. Stage(j)'
  BY <1>1, <1>2, <1>3 DEF Stage, Before, At, Waiting, Body, InRestore, RestoreSteps,
     DroppedSteps, RecoverySteps
<1>5. Occupies(j) /\ ~Occupies(j)'
  BY <1>1, <1>3 DEF Occupies, ActiveStatus
<1>6. SlotStep(j)
  BY <1>1, <1>5 DEF SlotStep, Keeps
<1>7. LockStep(j) /\ ArchiveStep(j)
  BY <1>1 DEF LockStep, ArchiveStep, InRestore, At, RestoreSteps, DroppedSteps,
     RecoverySteps
<1>8. QED
  BY <1>1, <1>2, <1>4, <1>6, <1>7 DEF Shape, Gentle, Before

LEMMA UploadShape ==
  ASSUME Known, NEW j \in Job, Upload(j)
  PROVE  Shape(j)
<1> USE JobIsProcess
<1>1. /\ pc[j] = "upload" /\ pc'[j] \in {"storeRead", "done"}
      /\ status' = status /\ active' = active /\ safety' = safety /\ db' = db
      /\ count' = count /\ loc' = loc
      /\ \A q \in Process \ {j} : pc'[q] = pc[q]
  BY DEF Upload, Goto, store, Known, TypeOK
<1>2. Stage(j) /\ Local(j)
  BY <1>1 DEF Known, Stages, Local
<1>3. Stage(j)'
  BY <1>1, <1>2 DEF Stage, Before, At, Waiting, Body, InRestore, RestoreSteps,
     DroppedSteps, RecoverySteps
<1>4. SlotStep(j)
  BY <1>1 DEF SlotStep, Keeps, Occupies, Restoring, DroppedSteps, RecoverySteps
<1>5. LockStep(j) /\ ArchiveStep(j)
  BY <1>1 DEF LockStep, ArchiveStep, InRestore, At, RestoreSteps, DroppedSteps,
     RecoverySteps
<1>6. QED
  BY <1>1, <1>2, <1>3, <1>4, <1>5 DEF Shape, Gentle, Before

\* Nobody but q is inside a rewrite of the record of job j.
Free(q, j) == \A r \in Process \ {q} : Rewriting(r) => loc[r].job # j

\* Then what q reads is the record as it is.
LEMMA ReadAlone ==
  ASSUME Known, NEW q \in Process, NEW j \in Job, Free(q, j), pc[q] \notin WriteSteps
  PROVE  ReadJob(j) = {status[j]}
<1>1. ASSUME NEW r \in Process, pc[r] \in WriteSteps, loc[r].job = j
      PROVE  status[j] = "absent"
  <2>1. r # q /\ ~Rewriting(r)
    BY <1>1 DEF Free
  <2>2. r \notin Admin
    BY <1>1, <2>1 DEF Rewriting, WriteSteps, Steps
  <2>3. r \in Job /\ Stage(r)
    BY <2>2 DEF Process, Known, Stages
  <2>4. r = j
    BY <1>1, <2>3 DEF Stage
  <2>5. pc[j] = "write"
    BY <1>1, <2>1, <2>2, <2>3, <2>4 DEF Rewriting, WriteSteps, Stage
  <2>6. QED
    BY <2>3, <2>4, <2>5 DEF Stage, Before
<1>2. QED
  BY <1>1 DEF ReadJob

\* A worker that enters a rewrite is alone in it, and so was it before.
LEMMA EnterAlone ==
  ASSUME NEW j \in Job, SerialRecord', Rewriting(j)', loc'[j].job = j,
         \A q \in Process \ {j} : pc'[q] = pc[q] /\ loc'[q] = loc[q]
  PROVE  Free(j, j)
<1>1. \A r \in Process \ {j} : Rewriting(r) => Rewriting(r)'
  BY DEF Rewriting
<1>2. QED
  BY <1>1, JobIsProcess DEF Free, SerialRecord

LEMMA StoreReadShape ==
  ASSUME Known, NEW j \in Job, StoreRead(j), SerialRecord'
  PROVE  Shape(j)
<1> USE JobIsProcess
<1>1. /\ pc[j] = "storeRead" /\ loc'[j].job = loc[j].job
      /\ status' = status /\ active' = active /\ safety' = safety /\ db' = db
      /\ count' = count
      /\ \A q \in Process \ {j} : pc'[q] = pc[q] /\ loc'[q] = loc[q]
      /\ \/ pc'[j] = "done"
         \/ pc'[j] = "storeWrite" /\ loc'[j].seen \in ReadJob(j) \ {"absent"}
  <2>1. PICK s \in ReadJob(j) :
          /\ loc' = [loc EXCEPT ![j].seen = s]
          /\ Goto(j, IF s = "absent" THEN "done" ELSE "storeWrite")
    BY DEF StoreRead
  <2>2. QED
    BY <2>1 DEF StoreRead, Goto, store, Known, TypeOK, Locals
<1>2. Stage(j) /\ Local(j)
  BY <1>1 DEF Known, Stages, Local
<1>3. CASE pc'[j] = "done"
  <2>1. Stage(j)'
    BY <1>1, <1>2, <1>3 DEF Stage, Before, At, Waiting, Body, InRestore,
       RestoreSteps, DroppedSteps, RecoverySteps
  <2>2. SlotStep(j)
    BY <1>1, <1>3 DEF SlotStep, Keeps, Occupies, Restoring, DroppedSteps, RecoverySteps
  <2>3. LockStep(j) /\ ArchiveStep(j)
    BY <1>1, <1>3 DEF LockStep, ArchiveStep, InRestore, At, RestoreSteps,
       DroppedSteps, RecoverySteps
  <2>4. QED
    BY <1>1, <1>2, <1>3, <2>1, <2>2, <2>3 DEF Shape, Gentle, Before
<1>4. CASE pc'[j] = "storeWrite" /\ loc'[j].seen \in ReadJob(j) \ {"absent"}
  <2>1. Free(j, j)
    <3>1. Rewriting(j)' /\ loc'[j].job = j
      BY <1>1, <1>2, <1>4 DEF Rewriting, Stage
    <3>2. QED
      BY <1>1, <3>1, EnterAlone
  <2>2. ReadJob(j) = {status[j]}
    BY <1>1, <2>1, ReadAlone DEF WriteSteps
  <2>3. Stage(j)'
    BY <1>1, <1>2, <1>4, <2>2 DEF Stage, Before, At, Waiting, Body, InRestore,
       RestoreSteps, DroppedSteps, RecoverySteps
  <2>4. SlotStep(j)
    BY <1>1, <1>4 DEF SlotStep, Keeps, Occupies, Restoring, DroppedSteps, RecoverySteps
  <2>5. LockStep(j) /\ ArchiveStep(j)
    BY <1>1, <1>4 DEF LockStep, ArchiveStep, InRestore, At, RestoreSteps,
       DroppedSteps, RecoverySteps
  <2>6. QED
    BY <1>1, <1>2, <1>4, <2>3, <2>4, <2>5 DEF Shape, Gentle, Before
<1>5. QED
  BY <1>1, <1>3, <1>4

LEMMA StoreWriteShape ==
  ASSUME Known, NEW j \in Job, StoreWrite(j)
  PROVE  Shape(j)
<1> USE JobIsProcess
<1>1. /\ pc[j] = "storeWrite" /\ pc'[j] = "storeCheck" /\ status'[j] = loc[j].seen
      /\ active' = active /\ safety' = safety /\ db' = db /\ count' = count
      /\ loc' = loc
      /\ \A q \in Process \ {j} : pc'[q] = pc[q]
      /\ \A i \in Job \ {j} : status'[i] = status[i]
  BY DEF StoreWrite, Goto, Known, TypeOK
<1>2. Stage(j) /\ Local(j)
  BY <1>1 DEF Known, Stages, Local
<1>3. status'[j] = status[j]
  BY <1>1, <1>2 DEF Stage
<1>4. Stage(j)'
  BY <1>1, <1>2, <1>3 DEF Stage, Before, At, Waiting, Body, InRestore, RestoreSteps,
     DroppedSteps, RecoverySteps
<1>5. SlotStep(j)
  BY <1>1, <1>3 DEF SlotStep, Keeps, Occupies, Restoring, DroppedSteps, RecoverySteps
<1>6. LockStep(j) /\ ArchiveStep(j)
  BY <1>1 DEF LockStep, ArchiveStep, InRestore, At, RestoreSteps, DroppedSteps,
     RecoverySteps
<1>7. QED
  BY <1>1, <1>2, <1>3, <1>4, <1>5, <1>6 DEF Shape, Gentle, Before

LEMMA StoreCheckShape ==
  ASSUME Known, NEW j \in Job, StoreCheck(j)
  PROVE  Shape(j)
<1> USE JobIsProcess
<1>1. /\ pc[j] = "storeCheck" /\ pc'[j] \in {"start", "done"}
      /\ status' = status /\ active' = active /\ safety' = safety /\ db' = db
      /\ count' = count /\ loc' = loc
      /\ \A q \in Process \ {j} : pc'[q] = pc[q]
  BY DEF StoreCheck, Goto, store, Known, TypeOK
<1>2. Stage(j) /\ Local(j)
  BY <1>1 DEF Known, Stages, Local
<1>3. Stage(j)'
  BY <1>1, <1>2 DEF Stage, Before, At, Waiting, Body, InRestore, RestoreSteps,
     DroppedSteps, RecoverySteps
<1>4. SlotStep(j)
  BY <1>1 DEF SlotStep, Keeps, Occupies, Restoring, DroppedSteps, RecoverySteps
<1>5. LockStep(j) /\ ArchiveStep(j)
  BY <1>1 DEF LockStep, ArchiveStep, InRestore, At, RestoreSteps, DroppedSteps,
     RecoverySteps
<1>6. QED
  BY <1>1, <1>2, <1>3, <1>4, <1>5 DEF Shape, Gentle, Before

LEMMA StartShape ==
  ASSUME Known, NEW j \in Job, Start(j), SerialRecord'
  PROVE  Shape(j)
<1> USE JobIsProcess
<1>1. /\ pc[j] = "start" /\ loc' = loc
      /\ status' = status /\ active' = active /\ safety' = safety /\ db' = db
      /\ count' = count
      /\ \A q \in Process \ {j} : pc'[q] = pc[q]
      /\ \/ pc'[j] = "done"
         \/ pc'[j] = "activate" /\ \E s \in ReadJob(j) : s \notin {"absent", "cancelled"}
  BY DEF Start, Goto, store, Known, TypeOK
<1>2. Stage(j) /\ Local(j)
  BY <1>1 DEF Known, Stages, Local
<1>3. Stage(j)'
  <2>1. CASE pc'[j] = "done"
    BY <1>1, <1>2, <2>1 DEF Stage, Before, At, Waiting, Body, InRestore,
       RestoreSteps, DroppedSteps, RecoverySteps
  <2>2. CASE pc'[j] = "activate" /\ \E s \in ReadJob(j) : s \notin {"absent", "cancelled"}
    <3>1. Free(j, j)
      <4>1. Rewriting(j)' /\ loc'[j].job = j
        BY <1>1, <1>2, <2>2 DEF Rewriting, Stage
      <4>2. QED
        BY <1>1, <4>1, EnterAlone
    <3>2. ReadJob(j) = {status[j]}
      BY <1>1, <3>1, ReadAlone DEF WriteSteps
    <3>3. status[j] = "pending"
      BY <1>1, <1>2, <2>2, <3>2 DEF Stage, Waiting
    <3>4. QED
      BY <1>1, <1>2, <2>2, <3>3 DEF Stage, Before, At, Waiting, Body, InRestore,
         RestoreSteps, DroppedSteps, RecoverySteps
  <2>3. QED
    BY <1>1, <2>1, <2>2
<1>4. SlotStep(j)
  BY <1>1 DEF SlotStep, Keeps, Occupies, Restoring, DroppedSteps, RecoverySteps
<1>5. LockStep(j) /\ ArchiveStep(j)
  BY <1>1 DEF LockStep, ArchiveStep, InRestore, At, RestoreSteps, DroppedSteps,
     RecoverySteps
<1>6. QED
  BY <1>1, <1>2, <1>3, <1>4, <1>5 DEF Shape, Gentle, Before

LEMMA ActivateShape ==
  ASSUME Known, NEW j \in Job, Activate(j)
  PROVE  Shape(j)
<1> USE JobIsProcess
<1>1. /\ pc[j] = "activate" /\ pc'[j] = "runRead" /\ active'[j] = "yes"
      /\ status' = status /\ safety' = safety /\ db' = db /\ count' = count
      /\ loc' = loc
      /\ \A q \in Process \ {j} : pc'[q] = pc[q]
      /\ \A i \in Job \ {j} : active'[i] = active[i]
  BY DEF Activate, Goto, Known, TypeOK
<1>2. Stage(j) /\ Local(j)
  BY <1>1 DEF Known, Stages, Local
<1>3. Stage(j)'
  BY <1>1, <1>2 DEF Stage, Before, At, Waiting, Body, InRestore, RestoreSteps,
     DroppedSteps, RecoverySteps
<1>4. SlotStep(j)
  BY <1>1 DEF SlotStep, Keeps, Occupies, Restoring, DroppedSteps, RecoverySteps
<1>5. LockStep(j) /\ ArchiveStep(j)
  BY <1>1 DEF LockStep, ArchiveStep, InRestore, At, RestoreSteps, DroppedSteps,
     RecoverySteps
<1>6. Rewriting(j)
  BY <1>1 DEF Rewriting
<1>7. QED
  BY <1>1, <1>2, <1>3, <1>4, <1>5, <1>6 DEF Shape, Gentle

LEMMA RunReadShape ==
  ASSUME Known, NEW j \in Job, RunRead(j)
  PROVE  Shape(j)
<1> USE JobIsProcess
<1>1. /\ pc[j] = "runRead" /\ pc'[j] = "runWrite"
      /\ status' = status /\ active' = active /\ safety' = safety /\ db' = db
      /\ count' = count /\ loc' = loc
      /\ \A q \in Process \ {j} : pc'[q] = pc[q]
  BY DEF RunRead, Goto, store, Known, TypeOK
<1>2. Stage(j) /\ Local(j)
  BY <1>1 DEF Known, Stages, Local
<1>3. Stage(j)'
  BY <1>1, <1>2 DEF Stage, Before, At, Waiting, Body, InRestore, RestoreSteps,
     DroppedSteps, RecoverySteps
<1>4. SlotStep(j)
  BY <1>1 DEF SlotStep, Keeps, Occupies, Restoring, DroppedSteps, RecoverySteps
<1>5. LockStep(j) /\ ArchiveStep(j)
  BY <1>1 DEF LockStep, ArchiveStep, InRestore, At, RestoreSteps, DroppedSteps,
     RecoverySteps
<1>6. QED
  BY <1>1, <1>2, <1>3, <1>4, <1>5 DEF Shape, Gentle, Before

LEMMA RunWriteShape ==
  ASSUME Known, NEW j \in Job, RunWrite(j)
  PROVE  Shape(j)
<1> USE JobIsProcess
<1>1. /\ pc[j] = "runWrite" /\ pc'[j] = "work" /\ status'[j] = "running"
      /\ active' = active /\ safety' = safety /\ db' = db /\ count' = count
      /\ loc' = loc
      /\ \A q \in Process \ {j} : pc'[q] = pc[q]
      /\ \A i \in Job \ {j} : status'[i] = status[i]
  BY DEF RunWrite, Goto, Known, TypeOK
<1>2. Stage(j) /\ Local(j)
  BY <1>1 DEF Known, Stages, Local
<1>3. Stage(j)'
  BY <1>1, <1>2 DEF Stage, Before, At, Waiting, Body, InRestore, RestoreSteps,
     DroppedSteps, RecoverySteps
<1>4. SlotStep(j)
  BY <1>1, <1>2 DEF SlotStep, Keeps, Occupies, Restoring, DroppedSteps,
     RecoverySteps, Stage, ActiveStatus
<1>5. LockStep(j) /\ ArchiveStep(j)
  BY <1>1 DEF LockStep, ArchiveStep, InRestore, At, RestoreSteps, DroppedSteps,
     RecoverySteps
<1>6. Rewriting(j)
  BY <1>1 DEF Rewriting
<1>7. QED
  BY <1>1, <1>2, <1>3, <1>4, <1>5, <1>6 DEF Shape, Gentle

-----------------------------------------------------------------------------
(* The worker at its work *)

LEMMA ProgressReadShape ==
  ASSUME Known, NEW j \in Job, ProgressRead(j), SerialRecord'
  PROVE  Shape(j)
<1> USE JobIsProcess
<1>1. /\ pc[j] \in {"work", "drop", "importLock", "import", "recover"}
      /\ pc'[j] = "progWrite" /\ loc'[j].back = pc[j] /\ loc'[j].seen \in ReadJob(j)
      /\ loc'[j].job = loc[j].job /\ loc'[j].kind = loc[j].kind
      /\ loc'[j].out = loc[j].out
      /\ status' = status /\ active' = active /\ safety' = safety /\ db' = db
      /\ count' = count
      /\ \A q \in Process \ {j} : pc'[q] = pc[q] /\ loc'[q] = loc[q]
  <2>1. PICK s \in ReadJob(j) :
          loc' = [loc EXCEPT ![j].seen = s, ![j].back = pc[j], ![j].ticks = @ + 1]
    BY DEF ProgressRead
  <2>2. QED
    BY <2>1 DEF ProgressRead, Goto, store, Known, TypeOK, Locals
<1>2. Stage(j) /\ Local(j)
  BY <1>1 DEF Known, Stages, Local
<1>3. Free(j, j)
  <2>1. Rewriting(j)' /\ loc'[j].job = j
    BY <1>1, <1>2 DEF Rewriting, Stage
  <2>2. QED
    BY <1>1, <2>1, EnterAlone
<1>4. ReadJob(j) = {status[j]}
  BY <1>1, <1>3, ReadAlone DEF WriteSteps
<1>5. Stage(j)'
  BY <1>1, <1>2, <1>4 DEF Stage, Before, At, Waiting, Body, InRestore,
     RestoreSteps, DroppedSteps, RecoverySteps
<1>6. SlotStep(j)
  BY <1>1 DEF SlotStep, Keeps, Occupies, Restoring, DroppedSteps, RecoverySteps
<1>7. LockStep(j) /\ ArchiveStep(j)
  BY <1>1 DEF LockStep, ArchiveStep, InRestore, At, RestoreSteps, DroppedSteps,
     RecoverySteps
<1>8. QED
  BY <1>1, <1>2, <1>5, <1>6, <1>7 DEF Shape, Gentle, Before

LEMMA ProgressWriteShape ==
  ASSUME Known, NEW j \in Job, ProgressWrite(j)
  PROVE  Shape(j)
<1> USE JobIsProcess
<1>1. /\ pc[j] = "progWrite" /\ pc'[j] = loc[j].back /\ status'[j] = loc[j].seen
      /\ active' = active /\ safety' = safety /\ db' = db /\ count' = count
      /\ loc' = loc
      /\ \A q \in Process \ {j} : pc'[q] = pc[q]
      /\ \A i \in Job \ {j} : status'[i] = status[i]
  BY DEF ProgressWrite, Goto, Known, TypeOK
<1>2. Stage(j) /\ Local(j)
  BY <1>1 DEF Known, Stages, Local
<1>3. status'[j] = status[j] /\ pc'[j] \in Body
  BY <1>1, <1>2 DEF Stage
<1>4. Stage(j)'
  BY <1>1, <1>2, <1>3 DEF Stage, Before, At, Waiting, Body, InRestore,
     RestoreSteps, DroppedSteps, RecoverySteps
<1>5. SlotStep(j)
  BY <1>1, <1>3 DEF SlotStep, Keeps, Occupies, Restoring, Body, RestoreSteps,
     DroppedSteps, RecoverySteps
<1>6. LockStep(j) /\ ArchiveStep(j)
  BY <1>1, <1>3 DEF LockStep, ArchiveStep, InRestore, At, Body, RestoreSteps,
     DroppedSteps, RecoverySteps
<1>7. QED
  BY <1>1, <1>2, <1>3, <1>4, <1>5, <1>6 DEF Shape, Gentle, Before, Body,
     RestoreSteps, DroppedSteps, RecoverySteps

\* The end of the work, before anything is dropped.
LEMMA FromWorkShape ==
  ASSUME Known, NEW j \in Job, Complete(j) \/ Abort(j)
  PROVE  Shape(j)
<1> USE JobIsProcess
<1>1. /\ pc[j] = "work" /\ pc'[j] = "finRead" /\ loc'[j].out \in Terminal
      /\ loc'[j].job = loc[j].job
      /\ status' = status /\ active' = active /\ safety' = safety /\ db' = db
      /\ count' = count
      /\ \A q \in Process \ {j} : pc'[q] = pc[q] /\ loc'[q] = loc[q]
  <2>1. PICK e \in {"completed", "cancelled", "failed"} : loc' = [loc EXCEPT ![j].out = e]
    BY DEF Complete, Abort, Errors
  <2>2. QED
    BY <2>1 DEF Complete, Abort, Goto, store, Known, TypeOK, Locals, Terminal
<1>2. Stage(j) /\ Local(j)
  BY <1>1 DEF Known, Stages, Local
<1>3. Stage(j)'
  BY <1>1, <1>2 DEF Stage, Before, At, Waiting, Body, InRestore,
     RestoreSteps, DroppedSteps, RecoverySteps
<1>4. SlotStep(j)
  BY <1>1 DEF SlotStep, Keeps, Occupies, Restoring, DroppedSteps, RecoverySteps
<1>5. LockStep(j) /\ ArchiveStep(j)
  BY <1>1 DEF LockStep, ArchiveStep, InRestore, At, RestoreSteps, DroppedSteps,
     RecoverySteps
<1>6. QED
  BY <1>1, <1>2, <1>3, <1>4, <1>5 DEF Shape, Gentle, Before

LEMMA SafetyBackupShape ==
  ASSUME Known, NEW j \in Job, SafetyBackup(j)
  PROVE  Shape(j)
<1> USE JobIsProcess
<1>1. /\ pc[j] = "work" /\ pc'[j] = "drop" /\ loc[j].kind = "restore"
      /\ safety'[j] = [db |-> db, lock |-> count] /\ loc' = loc
      /\ status' = status /\ active' = active /\ db' = db /\ count' = count
      /\ \A q \in Process \ {j} : pc'[q] = pc[q]
      /\ \A i \in Job \ {j} : safety'[i] = safety[i]
  BY DEF SafetyBackup, Goto, Known, TypeOK
<1>2. Stage(j) /\ Local(j)
  BY <1>1 DEF Known, Stages, Local
<1>3. Stage(j)'
  BY <1>1, <1>2 DEF Stage, Before, At, Waiting, Body, InRestore,
     RestoreSteps, DroppedSteps, RecoverySteps
<1>4. SlotStep(j)
  BY <1>1 DEF SlotStep, Keeps, Occupies, Restoring, DroppedSteps, RecoverySteps
<1>5. status[j] = "running" /\ ~InRestore(j)
  BY <1>1, <1>2 DEF Stage, At, Body, InRestore, RestoreSteps, DroppedSteps,
     RecoverySteps
<1>6. [db |-> db, lock |-> count] \in Archive
  BY DEF Known, TypeOK, Archive
<1>7. LockStep(j) /\ ArchiveStep(j)
  BY <1>1, <1>5, <1>6, NoneIsNoArchive DEF LockStep, ArchiveStep, Occupies, ActiveStatus
<1>8. QED
  BY <1>1, <1>2, <1>3, <1>4, <1>7 DEF Shape, Gentle, Before

\* Both drops of a restore.
LEMMA DropShape ==
  ASSUME Known, NEW j \in Job, DropDatabase(j) \/ DropAgain(j)
  PROVE  Shape(j)
<1> USE JobIsProcess
<1>1. /\ pc[j] \in {"drop", "redrop"} /\ pc'[j] \in {"importLock", "reimportLock"}
      /\ pc[j] = "redrop" \/ pc'[j] = "importLock"
      /\ status' = status /\ active' = active /\ safety' = safety /\ count' = None
      /\ loc' = loc
      /\ \A q \in Process \ {j} : pc'[q] = pc[q]
  BY DEF DropDatabase, DropAgain, Goto, Known, TypeOK
<1>2. Stage(j) /\ Local(j)
  BY <1>1 DEF Known, Stages, Local
<1>3. InRestore(j) /\ InRestore(j)' /\ loc[j].kind = "restore" /\ status[j] = "running"
  BY <1>1, <1>2 DEF Stage, At, Body, InRestore, RestoreSteps, DroppedSteps,
     RecoverySteps
<1>4. Stage(j)'
  BY <1>1, <1>2 DEF Stage, Before, At, Waiting, Body, InRestore,
     RestoreSteps, DroppedSteps, RecoverySteps
<1>5. SlotStep(j)
  BY <1>1, <1>3 DEF SlotStep, Occupies, ActiveStatus, Restoring, DroppedSteps,
     RecoverySteps
<1>6. LockStep(j) /\ ArchiveStep(j)
  BY <1>1, <1>3 DEF LockStep, ArchiveStep
<1>7. QED
  BY <1>1, <1>2, <1>4, <1>5, <1>6 DEF Shape, Gentle, Before

LEMMA ImportLockShape ==
  ASSUME Known, NEW j \in Job, ImportLock(j)
  PROVE  Shape(j)
<1> USE JobIsProcess
<1>1. /\ pc[j] = "importLock" /\ pc'[j] \in {"import", "recover"}
      /\ status' = status /\ active' = active /\ safety' = safety /\ db' = db
      /\ 0 \notin ArchiveLock => count' = count \/ count' \notin {0, None}
      /\ pc'[j] = "import" \/ loc'[j].out = "failed"
      /\ loc'[j].job = loc[j].job /\ loc'[j].kind = loc[j].kind
      /\ \A q \in Process \ {j} : pc'[q] = pc[q] /\ loc'[q] = loc[q]
  BY DEF ImportLock, Goto, Known, TypeOK, Locals
<1>2. Stage(j) /\ Local(j)
  BY <1>1 DEF Known, Stages, Local
<1>3. Stage(j)'
  BY <1>1, <1>2 DEF Stage, Before, At, Waiting, Body, InRestore,
     RestoreSteps, DroppedSteps, RecoverySteps, Terminal
<1>4. SlotStep(j)
  BY <1>1 DEF SlotStep, OneSlot, Keeps, Occupies, Restoring, DroppedSteps, RecoverySteps
<1>5. LockStep(j) /\ ArchiveStep(j)
  BY <1>1 DEF LockStep, ArchiveStep, InRestore, At, RestoreSteps, DroppedSteps,
     RecoverySteps
<1>6. QED
  BY <1>1, <1>2, <1>3, <1>4, <1>5 DEF Shape, Gentle, Before

LEMMA ImportShape ==
  ASSUME Known, NEW j \in Job, Import(j)
  PROVE  Shape(j)
<1> USE JobIsProcess
<1>1. /\ pc[j] = "import" /\ pc'[j] = "finRead" /\ db' = j /\ loc'[j].out = "completed"
      /\ status' = status /\ active' = active /\ safety' = safety /\ count' = count
      /\ loc'[j].job = loc[j].job /\ loc'[j].kind = loc[j].kind
      /\ \A q \in Process \ {j} : pc'[q] = pc[q] /\ loc'[q] = loc[q]
  BY DEF Import, Goto, Known, TypeOK, Locals
<1>2. Stage(j) /\ Local(j)
  BY <1>1 DEF Known, Stages, Local
<1>3. Stage(j)'
  BY <1>1, <1>2 DEF Stage, Before, At, Waiting, Body, InRestore,
     RestoreSteps, DroppedSteps, RecoverySteps, Terminal
<1>4. SlotStep(j)
  BY <1>1 DEF SlotStep, Keeps, Occupies, Restoring, DroppedSteps, RecoverySteps
<1>5. db' # "partial"
  BY <1>1
<1>6. LockStep(j) /\ ArchiveStep(j)
  BY <1>1, <1>5 DEF LockStep, ArchiveStep, InRestore, At, RestoreSteps, DroppedSteps,
     RecoverySteps
<1>7. QED
  BY <1>1, <1>2, <1>3, <1>4, <1>6 DEF Shape, Gentle, Before

LEMMA ImportFailsShape ==
  ASSUME Known, NEW j \in Job, ImportFails(j)
  PROVE  Shape(j)
<1> USE JobIsProcess
<1>1. /\ pc[j] \in {"drop", "importLock", "import"} /\ pc'[j] = "recover"
      /\ loc'[j].out \in Terminal
      /\ status' = status /\ active' = active /\ safety' = safety /\ db' = db
      /\ count' = count
      /\ loc'[j].job = loc[j].job /\ loc'[j].kind = loc[j].kind
      /\ \A q \in Process \ {j} : pc'[q] = pc[q] /\ loc'[q] = loc[q]
  <2>1. PICK e \in {"cancelled", "failed"} : loc' = [loc EXCEPT ![j].out = e]
    BY DEF ImportFails, Errors
  <2>2. QED
    BY <2>1 DEF ImportFails, Goto, store, Known, TypeOK, Locals, Terminal
<1>2. Stage(j) /\ Local(j)
  BY <1>1 DEF Known, Stages, Local
<1>3. Stage(j)'
  BY <1>1, <1>2 DEF Stage, Before, At, Waiting, Body, InRestore,
     RestoreSteps, DroppedSteps, RecoverySteps
<1>4. SlotStep(j)
  BY <1>1, <1>2 DEF SlotStep, Keeps, Occupies, Restoring, DroppedSteps, RecoverySteps
<1>5. LockStep(j) /\ ArchiveStep(j)
  BY <1>1 DEF LockStep, ArchiveStep, InRestore, At, RestoreSteps, DroppedSteps,
     RecoverySteps
<1>6. QED
  BY <1>1, <1>2, <1>3, <1>4, <1>5 DEF Shape, Gentle, Before

LEMMA RecoverShape ==
  ASSUME Known, NEW j \in Job, Recover(j)
  PROVE  Shape(j)
<1> USE JobIsProcess
<1>1. /\ pc[j] = "recover" /\ pc'[j] = "redrop" /\ active'[j] = "yes"
      /\ status' = status /\ safety' = safety /\ db' = db /\ count' = count
      /\ loc'[j].job = loc[j].job /\ loc'[j].kind = loc[j].kind
      /\ loc'[j].out = loc[j].out
      /\ \A q \in Process \ {j} : pc'[q] = pc[q] /\ loc'[q] = loc[q]
      /\ \A i \in Job \ {j} : active'[i] = active[i]
  BY DEF Recover, Goto, Known, TypeOK, Locals
<1>2. Stage(j) /\ Local(j)
  BY <1>1 DEF Known, Stages, Local
<1>3. Stage(j)' /\ active[j] # "no"
  BY <1>1, <1>2 DEF Stage, Before, At, Waiting, Body, InRestore,
     RestoreSteps, DroppedSteps, RecoverySteps
<1>4. SlotStep(j)
  BY <1>1 DEF SlotStep, Keeps, Occupies, Restoring, DroppedSteps, RecoverySteps
<1>5. LockStep(j) /\ ArchiveStep(j)
  BY <1>1 DEF LockStep, ArchiveStep, InRestore, At, RestoreSteps, DroppedSteps,
     RecoverySteps
<1>6. QED
  BY <1>1, <1>2, <1>3, <1>4, <1>5 DEF Shape, Gentle, Before

LEMMA ReimportLockShape ==
  ASSUME Known, NEW j \in Job, ReimportLock(j), RecoverySucceeds
  PROVE  Shape(j)
<1> USE JobIsProcess
<1>1. /\ pc[j] = "reimportLock"
      /\ status' = status /\ safety' = safety /\ db' = db
      /\ loc'[j].job = loc[j].job /\ loc'[j].kind = loc[j].kind
      /\ \A q \in Process \ {j} : pc'[q] = pc[q] /\ loc'[q] = loc[q]
      /\ \A i \in Job \ {j} : active'[i] = active[i]
      /\ \/ pc'[j] = "reimport" /\ active'[j] = active[j] /\ loc'[j].out = loc[j].out
         \/ pc'[j] = "finRead" /\ loc'[j].out = "failed" /\ active'[j] # "no"
  BY DEF ReimportLock, PutBack, Goto, Known, TypeOK, Locals
<1>2. Stage(j) /\ Local(j)
  BY <1>1 DEF Known, Stages, Local
<1>3. Stage(j)' /\ active[j] # "no"
  BY <1>1, <1>2 DEF Stage, Before, At, Waiting, Body, InRestore,
     RestoreSteps, DroppedSteps, RecoverySteps, Terminal
<1>4. SafeLock => count' = count \/ count' \notin {0, None}
  <2>1. safety[j] # None
    BY <1>1 DEF ReimportLock, FilesGone, DroppedSteps, RecoverySteps
  <2>2. SafeLock => safety[j].lock # 0
    BY <2>1 DEF SafeLock
  <2>3. QED
    BY <2>2 DEF ReimportLock
<1>5. SlotStep(j)
  BY <1>1, <1>2, <1>4 DEF SlotStep, Keeps, Occupies, Restoring, DroppedSteps,
     RecoverySteps
<1>6. LockStep(j)
  BY <1>1 DEF LockStep
<1>7. pc'[j] = "finRead" => db' = safety[j].db
  BY <1>1 DEF RecoverySucceeds, RecoverySteps
<1>8. ArchiveStep(j)
  BY <1>1, <1>7 DEF ArchiveStep, InRestore, At, RestoreSteps, DroppedSteps,
     RecoverySteps
<1>9. QED
  BY <1>1, <1>2, <1>3, <1>5, <1>6, <1>8 DEF Shape, Gentle, Before

LEMMA ReimportShape ==
  ASSUME Known, NEW j \in Job, Reimport(j)
  PROVE  Shape(j)
<1> USE JobIsProcess
<1>1. /\ pc[j] = "reimport" /\ pc'[j] = "finRead" /\ db' = safety[j].db
      /\ status' = status /\ safety' = safety /\ count' = count
      /\ loc' = loc /\ active'[j] # "no"
      /\ \A q \in Process \ {j} : pc'[q] = pc[q]
      /\ \A i \in Job \ {j} : active'[i] = active[i]
  BY DEF Reimport, PutBack, Goto, Known, TypeOK
<1>2. Stage(j) /\ Local(j)
  BY <1>1 DEF Known, Stages, Local
<1>3. Stage(j)' /\ active[j] # "no"
  BY <1>1, <1>2 DEF Stage, Before, At, Waiting, Body, InRestore,
     RestoreSteps, DroppedSteps, RecoverySteps
<1>4. SlotStep(j)
  BY <1>1, <1>2 DEF SlotStep, Keeps, Occupies, Restoring, DroppedSteps, RecoverySteps
<1>5. LockStep(j) /\ ArchiveStep(j)
  BY <1>1 DEF LockStep, ArchiveStep, InRestore, At, RestoreSteps, DroppedSteps,
     RecoverySteps
<1>6. QED
  BY <1>1, <1>2, <1>3, <1>4, <1>5 DEF Shape, Gentle, Before

LEMMA RecoveryFailsShape ==
  ASSUME Known, NEW j \in Job, RecoveryFails(j), RecoverySucceeds
  PROVE  Shape(j)
<1> USE JobIsProcess
<1>1. /\ pc[j] \in RecoverySteps /\ pc'[j] = "finRead" /\ loc'[j].out \in Terminal
      /\ status' = status /\ safety' = safety /\ count' = count /\ db' = db
      /\ loc'[j].job = loc[j].job /\ loc'[j].kind = loc[j].kind
      /\ active'[j] # "no"
      /\ \A q \in Process \ {j} : pc'[q] = pc[q] /\ loc'[q] = loc[q]
      /\ \A i \in Job \ {j} : active'[i] = active[i]
  <2>1. PICK e \in {"cancelled", "failed"} : loc' = [loc EXCEPT ![j].out = e]
    BY DEF RecoveryFails, Errors
  <2>2. QED
    BY <2>1 DEF RecoveryFails, PutBack, Goto, Known, TypeOK, Locals, Terminal
<1>2. Stage(j) /\ Local(j)
  BY <1>1 DEF Known, Stages, Local
<1>3. Stage(j)' /\ active[j] # "no"
  BY <1>1, <1>2 DEF Stage, Before, At, Waiting, Body, InRestore,
     RestoreSteps, DroppedSteps, RecoverySteps
<1>4. SlotStep(j)
  BY <1>1, <1>2 DEF SlotStep, Keeps, Occupies, Restoring, DroppedSteps, RecoverySteps
<1>5. db' = safety[j].db
  BY <1>1 DEF RecoverySucceeds
<1>6. LockStep(j) /\ ArchiveStep(j)
  BY <1>1, <1>5 DEF LockStep, ArchiveStep, InRestore, At, RestoreSteps, DroppedSteps,
     RecoverySteps
<1>7. QED
  BY <1>1, <1>2, <1>3, <1>4, <1>6 DEF Shape, Gentle, Before, RecoverySteps

-----------------------------------------------------------------------------
(* The end of a worker *)

\* A process inside a rewrite is alone in it.
LEMMA InsideAlone ==
  ASSUME NEW q \in Process, NEW j \in Job, SerialRecord, Rewriting(q), loc[q].job = j
  PROVE  Free(q, j)
BY DEF SerialRecord, Free

LEMMA FinReadShape ==
  ASSUME Known, NEW j \in Job, FinRead(j)
  PROVE  Shape(j)
<1> USE JobIsProcess
<1>1. Stage(j) /\ pc[j] = "finRead" /\ loc[j].job = j
  BY DEF Known, Stages, Stage, FinRead
<1>2. Free(j, j)
  BY <1>1, InsideAlone DEF Known, Rewriting
<1>3. ReadJob(j) = {status[j]}
  BY <1>1, <1>2, ReadAlone DEF WriteSteps
<1>4. status[j] # "absent"
  BY <1>1 DEF Stage
<1>5. /\ pc'[j] = "finWrite" /\ loc'[j].seen = status[j] /\ loc'[j].out = loc[j].out
      /\ status' = status /\ active' = active /\ safety' = safety /\ db' = db
      /\ count' = count
      /\ loc'[j].job = loc[j].job /\ loc'[j].kind = loc[j].kind
      /\ \A q \in Process \ {j} : pc'[q] = pc[q] /\ loc'[q] = loc[q]
  <2>1. PICK s \in ReadJob(j) :
          /\ loc' = [loc EXCEPT ![j].seen = s]
          /\ Goto(j, IF s = "absent" THEN Return(j) ELSE "finWrite")
    BY <1>1 DEF FinRead
  <2>2. QED
    BY <1>3, <1>4, <2>1 DEF FinRead, Goto, store, Known, TypeOK, Locals
<1>6. Local(j)
  BY <1>5 DEF Local
<1>7. Stage(j)'
  BY <1>1, <1>5 DEF Stage, Before, At, Waiting, Body, InRestore,
     RestoreSteps, DroppedSteps, RecoverySteps
<1>8. SlotStep(j)
  BY <1>1, <1>5 DEF SlotStep, Keeps, Occupies, Restoring, DroppedSteps, RecoverySteps
<1>9. LockStep(j) /\ ArchiveStep(j)
  BY <1>1, <1>5 DEF LockStep, ArchiveStep, InRestore, At, RestoreSteps, DroppedSteps,
     RecoverySteps
<1>10. QED
  BY <1>1, <1>5, <1>6, <1>7, <1>8, <1>9 DEF Shape, Gentle, Before

LEMMA FinWriteShape ==
  ASSUME Known, NEW j \in Job, FinWrite(j)
  PROVE  Shape(j)
<1> USE JobIsProcess
<1>1. Stage(j) /\ pc[j] = "finWrite" /\ loc[j].job = j
  BY DEF Known, Stages, Stage, FinWrite
<1>2. /\ pc'[j] = IF loc[j].seen \in ActiveStatus THEN "release" ELSE "end"
      /\ status'[j] = loc[j].out
      /\ active' = active /\ safety' = safety /\ db' = db /\ count' = count
      /\ loc' = loc
      /\ \A q \in Process \ {j} : pc'[q] = pc[q]
      /\ \A i \in Job \ {j} : status'[i] = status[i]
  BY <1>1 DEF FinWrite, AfterWrite, Return, Goto, Known, TypeOK
<1>3. Local(j)
  BY <1>2 DEF Local
<1>4. loc[j].seen = status[j] /\ loc[j].out \in Terminal
  BY <1>1 DEF Stage
<1>5. Stage(j)'
  BY <1>1, <1>2, <1>4 DEF Stage, Before, At, Waiting, Body, InRestore,
     RestoreSteps, DroppedSteps, RecoverySteps
<1>6. Keeps(j)
  BY <1>1, <1>2, <1>4 DEF Keeps, Occupies, Restoring, DroppedSteps, RecoverySteps,
     ActiveStatus, Terminal
<1>7. LockStep(j) /\ ArchiveStep(j)
  BY <1>1, <1>2 DEF LockStep, ArchiveStep, InRestore, At, RestoreSteps, DroppedSteps,
     RecoverySteps
<1>8. Rewriting(j)
  BY <1>1 DEF Rewriting
<1>9. QED
  BY <1>1, <1>2, <1>3, <1>5, <1>6, <1>7, <1>8 DEF Shape, Gentle, SlotStep

LEMMA ReleaseShape ==
  ASSUME Known, NEW j \in Job, Release(j)
  PROVE  Shape(j)
<1> USE JobIsProcess
<1>1. /\ pc[j] = "release" /\ pc'[j] = "end" /\ count' = Released
      /\ status' = status /\ active' = active /\ safety' = safety /\ db' = db
      /\ loc' = loc
      /\ \A q \in Process \ {j} : pc'[q] = pc[q]
  BY DEF Release, Return, Goto, Known, TypeOK
<1>2. Stage(j) /\ Local(j)
  BY <1>1 DEF Known, Stages, Local
<1>3. Stage(j)'
  BY <1>1, <1>2 DEF Stage, Before, At, Waiting, Body, InRestore,
     RestoreSteps, DroppedSteps, RecoverySteps
<1>4. SlotStep(j)
  BY <1>1, <1>2 DEF SlotStep, Occupies, Stage, ActiveStatus, Terminal
<1>5. LockStep(j) /\ ArchiveStep(j)
  BY <1>1 DEF LockStep, ArchiveStep, InRestore, At, RestoreSteps, DroppedSteps,
     RecoverySteps
<1>6. QED
  BY <1>1, <1>2, <1>3, <1>4, <1>5 DEF Shape, Gentle, Before

LEMMA ReleaseFailsShape ==
  ASSUME Known, NEW j \in Job, ReleaseFails(j)
  PROVE  Shape(j)
<1> USE JobIsProcess
<1>1. /\ pc[j] = "release" /\ pc'[j] = "finRead" /\ loc[j].out = "completed"
      /\ loc'[j].out = "failed"
      /\ loc'[j].job = loc[j].job /\ loc'[j].kind = loc[j].kind
      /\ status' = status /\ active' = active /\ safety' = safety /\ db' = db
      /\ count' = count
      /\ \A q \in Process \ {j} : pc'[q] = pc[q] /\ loc'[q] = loc[q]
  BY DEF ReleaseFails, Goto, store, Known, TypeOK, Locals
<1>2. Stage(j) /\ Local(j)
  BY <1>1 DEF Known, Stages, Local
<1>3. Stage(j)'
  BY <1>1, <1>2 DEF Stage, Before, At, Waiting, Body, InRestore,
     RestoreSteps, DroppedSteps, RecoverySteps, Terminal
<1>4. SlotStep(j)
  BY <1>1, <1>2 DEF SlotStep, Keeps, Occupies, Stage, ActiveStatus, Terminal
<1>5. LockStep(j) /\ ArchiveStep(j)
  BY <1>1 DEF LockStep, ArchiveStep, InRestore, At, RestoreSteps, DroppedSteps,
     RecoverySteps
<1>6. QED
  BY <1>1, <1>2, <1>3, <1>4, <1>5 DEF Shape, Gentle, Before

LEMMA EndShape ==
  ASSUME Known, NEW j \in Job, End(j)
  PROVE  Shape(j)
<1> USE JobIsProcess
<1>1. /\ pc[j] = "end" /\ pc'[j] = "done" /\ active'[j] = "no"
      /\ safety'[j] \in {safety[j], None}
      /\ status' = status /\ db' = db /\ count' = count /\ loc' = loc
      /\ \A q \in Process \ {j} : pc'[q] = pc[q]
      /\ \A i \in Job \ {j} : active'[i] = active[i] /\ safety'[i] = safety[i]
  BY DEF End, Goto, Known, TypeOK
<1>2. Stage(j) /\ Local(j)
  BY <1>1 DEF Known, Stages, Local
<1>3. Stage(j)' /\ active[j] # "no"
  BY <1>1, <1>2 DEF Stage, Before, At, Waiting, Body, InRestore,
     RestoreSteps, DroppedSteps, RecoverySteps, Terminal
<1>4. SlotStep(j)
  BY <1>1, <1>2 DEF SlotStep, Keeps, Occupies, Stage, ActiveStatus, Terminal
<1>5. LockStep(j) /\ ArchiveStep(j)
  BY <1>1 DEF LockStep, ArchiveStep, InRestore, At, RestoreSteps, DroppedSteps,
     RecoverySteps
<1>6. QED
  BY <1>1, <1>2, <1>3, <1>4, <1>5 DEF Shape, Gentle, Before

\* Every step of a worker has this shape.
LEMMA WorkerShape ==
  ASSUME Known, NEW j \in Job, WorkerStep(j), Orderly
  PROVE  Shape(j)
BY CreateShape, InsertShape, WriteRecordShape, CreateFailsShape, GiveUpShape,
   UploadShape, StoreReadShape, StoreWriteShape, StoreCheckShape, StartShape, ActivateShape, RunReadShape,
   RunWriteShape, ProgressReadShape, ProgressWriteShape, FromWorkShape,
   SafetyBackupShape, DropShape, ImportLockShape, ImportShape, ImportFailsShape,
   RecoverShape, ReimportLockShape, ReimportShape, RecoveryFailsShape,
   FinReadShape, FinWriteShape, ReleaseShape, ReleaseFailsShape, EndShape
   DEF WorkerStep, Orderly

-----------------------------------------------------------------------------
(* What such a step keeps *)

LEMMA WorkerStages ==
  ASSUME Stages, NEW j \in Job, Shape(j)
  PROVE  Stages'
<1>1. ASSUME NEW i \in Job \ {j} PROVE Stage(i)'
  <2>1. Stage(i)
    BY DEF Stages
  <2>2. /\ pc'[i] = pc[i] /\ loc'[i] = loc[i]
        /\ status'[i] = status[i] /\ active'[i] = active[i]
    BY JobIsProcess DEF Shape, Local
  <2>3. QED
    BY <2>1, <2>2 DEF Stage, At, InRestore
<1>2. QED
  BY <1>1 DEF Stages, Shape

LEMMA WorkerRequests ==
  ASSUME Known, NEW j \in Job, Shape(j)
  PROVE  Requests'
<1> SUFFICES ASSUME NEW a \in Admin, NEW i \in Job, Busy(a, i)'
             PROVE  Request(a, i)'
  BY DEF Requests
<1>1. pc'[a] = pc[a] /\ loc'[a] = loc[a]
  BY JobIsProcess DEF Shape, Local, Process
<1>2. Busy(a, i) /\ Request(a, i)
  BY <1>1 DEF Busy, Known, Requests
<1>3. CASE i # j
  <2>1. pc'[i] = pc[i] /\ status'[i] = status[i] /\ active'[i] = active[i]
    BY <1>3, JobIsProcess DEF Shape, Local
  <2>2. QED
    BY <1>1, <1>2, <2>1 DEF Request
<1>4. CASE i = j
  <2>1. Rewriting(a) /\ loc[a].job = j /\ loc[j].job = j
    BY <1>2, <1>4 DEF Rewriting, Busy, Request, Steps, WriteSteps, Known, Stages, Stage
  <2>2. ~Rewriting(j)
    BY <2>1, JobIsProcess DEF Known, SerialRecord, Process
  <2>3. pc[j] \notin Before
    BY <1>2, <1>4 DEF Request
  <2>4. /\ status'[j] = status[j]
        /\ active[j] = "no" => active'[j] = "no"
        /\ pc'[j] \notin Before
    BY <2>2, <2>3 DEF Shape, Gentle
  <2>5. QED
    BY <1>1, <1>2, <1>4, <2>4 DEF Request
<1>5. QED
  BY <1>3, <1>4

\* Who holds a slot after a step of worker j.
LEMMA HoldersAfter ==
  ASSUME Known, NEW j \in Job, Shape(j), NEW i \in Job, HoldsSlot(i)'
  PROVE  \/ i # j /\ HoldsSlot(i) /\ (Restoring(i) => Restoring(i)')
         \/ i = j /\ Occupies(j)'
         \/ i = j /\ HoldsSlot(j) /\ ~Restoring(j) /\ ~Occupies(j) /\ ~Rewriting(j)
              /\ pc[j] \notin Before
<1> USE JobIsProcess
<1>1. \A q \in Process \ {j} : pc'[q] = pc[q] /\ loc'[q] = loc[q]
  BY DEF Shape, Local
<1>2. loc'[j].job = j
  BY DEF Shape, Stage
<1>3. CASE i # j
  <2>1. status'[i] = status[i] /\ pc'[i] = pc[i] /\ loc'[i] = loc[i]
    BY <1>3 DEF Shape, Local
  <2>2. HoldsSlot(i)
    BY <1>1, <1>2, <1>3, <2>1 DEF HoldsSlot
  <2>3. Restoring(i) => Restoring(i)'
    BY <2>1 DEF Restoring
  <2>4. QED
    BY <1>3, <2>2, <2>3
<1>4. CASE i = j /\ ~Occupies(j)'
  <2>1. PICK q \in Process : pc'[q] = "release" /\ loc'[q].job = j
    BY <1>4 DEF HoldsSlot, Occupies
  <2>2. q # j
    BY <1>4, <2>1 DEF Occupies
  <2>3. pc[q] = "release" /\ loc[q].job = j
    BY <1>1, <2>1, <2>2
  <2>4. q \in Admin
    BY <2>2, <2>3 DEF Process, Known, Stages, Stage
  <2>5. Busy(q, j) /\ Rewriting(q)
    BY <2>3, <2>4 DEF Busy, Rewriting, Steps
  <2>6. status[j] = "cancelled" /\ pc[j] \notin Before
    BY <2>3, <2>4, <2>5 DEF Known, Requests, Request
  <2>7. Stage(j) /\ loc[j].job = j
    BY DEF Known, Stages, Stage
  <2>8. ~Rewriting(j)
    BY <2>2, <2>3, <2>5, <2>7 DEF Known, SerialRecord
  <2>9. ~Restoring(j) /\ ~Occupies(j)
    BY <2>6, <2>7, <2>8 DEF Stage, Restoring, Occupies, ActiveStatus, Rewriting, Before,
       At, Body, RestoreSteps
  <2>10. QED
    BY <1>4, <2>3, <2>6, <2>8, <2>9 DEF HoldsSlot
<1>5. QED
  BY <1>3, <1>4

LEMMA OccupierHolds ==
  ASSUME Known, NEW j \in Job, Occupies(j)
  PROVE  HoldsSlot(j)
<1>1. loc[j].job = j
  BY DEF Known, Stages, Stage
<1>2. QED
  BY <1>1, JobIsProcess DEF Occupies, HoldsSlot

LEMMA WorkerSlots ==
  ASSUME Known, Slots, OneSlot, NoRequestWhileDropped, NEW j \in Job, Shape(j)
  PROVE  Slots'
<1> USE JobIsProcess
<1>1. SafeLock'
  <2> SUFFICES ASSUME NEW i \in Job, safety'[i] # None PROVE safety'[i].lock # 0
    BY DEF SafeLock
  <2>1. CASE safety'[i] = safety[i]
    BY <2>1 DEF Slots, SafeLock
  <2>2. CASE i = j /\ safety'[j].lock = count /\ Occupies(j)
    BY <2>2, OccupierHolds DEF Slots, FreeIfZero
  <2>3. QED
    BY <2>1, <2>2 DEF Shape, Local, LockStep
<1>2. CASE Keeps(j) /\ (count' = count \/ count' \notin {0, None})
  <2>1. ASSUME NEW i \in Job, HoldsSlot(i)' PROVE HoldsSlot(i)
    BY <1>2, <2>1, HoldersAfter, OccupierHolds DEF Keeps
  <2>2. OneHolder' /\ FreeIfZero'
    BY <1>2, <2>1 DEF Slots, OneHolder, FreeIfZero
  <2>3. ASSUME count' = None, NEW i \in Job, HoldsSlot(i)' PROVE Restoring(i)'
    <3>1. HoldsSlot(i) /\ count = None
      BY <1>2, <2>1, <2>3
    <3>2. Restoring(i)
      BY <3>1 DEF Slots, DroppedIfNone
    <3>3. QED
      BY <1>2, <2>3, <3>2, HoldersAfter DEF Keeps
  <2>4. QED
    BY <1>1, <2>2, <2>3 DEF Slots, DroppedIfNone
<1>3. CASE pc[j] = "none" /\ count = 0 /\ count' = 1
  <2>1. ASSUME NEW i \in Job, HoldsSlot(i)' PROVE i = j
    BY <1>3, <2>1, HoldersAfter DEF Slots, FreeIfZero
  <2>2. QED
    BY <1>1, <1>3, <2>1 DEF Slots, OneHolder, FreeIfZero, DroppedIfNone
<1>4. CASE pc[j] = "insert" /\ count = None /\ count' = 1
  <2>1. \A i \in Job : ~HoldsSlot(i)
    BY <1>4 DEF Slots, DroppedIfNone, NoRequestWhileDropped
  <2>2. ASSUME NEW i \in Job, HoldsSlot(i)' PROVE i = j
    BY <2>1, <2>2, HoldersAfter
  <2>3. QED
    BY <1>1, <1>4, <2>2 DEF Slots, OneHolder, FreeIfZero, DroppedIfNone
<1>5. CASE Occupies(j) /\ ~Occupies(j)' /\ count' = Released
  <2>1. HoldsSlot(j) /\ count # 0
    BY <1>5, OccupierHolds DEF Slots, FreeIfZero
  <2>2. \A i \in Job : ~HoldsSlot(i)'
    <3> SUFFICES ASSUME NEW i \in Job, HoldsSlot(i)' PROVE FALSE
      OBVIOUS
    <3>1. i # j /\ HoldsSlot(i)
      BY <1>5, HoldersAfter
    <3>2. QED
      BY <2>1, <3>1 DEF Slots, OneHolder
  <2>3. QED
    BY <1>1, <2>2 DEF Slots, OneHolder, FreeIfZero, DroppedIfNone
<1>6. CASE Occupies(j) /\ Restoring(j)' /\ count' = None
  <2>1. HoldsSlot(j)
    BY <1>6, OccupierHolds
  <2>2. ASSUME NEW i \in Job, HoldsSlot(i)' PROVE i = j
    BY <2>1, <2>2, HoldersAfter DEF Slots, OneHolder
  <2>3. QED
    BY <1>1, <1>6, <2>2 DEF Slots, OneHolder, FreeIfZero, DroppedIfNone
<1>7. QED
  BY <1>2, <1>3, <1>4, <1>5, <1>6 DEF Shape, SlotStep, Slots

\* Two jobs inside a restore would hold two slots.
LEMMA OneRestore ==
  ASSUME Known, Slots, NEW i \in Job, NEW j \in Job, InRestore(i), status[j] = "running"
  PROVE  i = j
<1>1. status[i] = "running"
  BY DEF Known, Stages, Stage, InRestore, Body
<1>2. QED
  BY <1>1 DEF Slots, OneHolder, HoldsSlot, ActiveStatus

LEMMA WorkerArchives ==
  ASSUME Known, Slots, Archives, NEW j \in Job, Shape(j)
  PROVE  Archives'
<1> USE JobIsProcess
<1>1. \A i \in Job \ {j} : /\ Safe(i)' <=> Safe(i)
                           /\ Kept(i)' <=> Kept(i)
                           /\ InRestore(i)' <=> InRestore(i)
                           /\ pc'[i] = pc[i] /\ safety'[i] = safety[i]
  BY DEF Shape, Local, Safe, Kept, InRestore, At
<1>2. ~Kept(j)
  BY DEF Shape, Kept
<1>3. ASSUME db' = "partial"
      PROVE  \E i \in Job : Safe(i)' /\ (pc'[i] = "done" \/ InRestore(i)')
  <2>1. CASE InRestore(j) /\ Safe(j)
    <3>1. safety'[j] = safety[j] /\ safety[j].db # "partial" /\ InRestore(j)'
      BY <1>3, <2>1 DEF Shape, ArchiveStep, Safe
    <3>2. Safe(j)'
      BY <2>1, <3>1 DEF Safe
    <3>3. QED
      BY <3>1, <3>2
  <2>2. CASE InRestore(j) /\ ~Safe(j)
    <3>1. PICK i \in Job \ {j} : Kept(i)
      BY <2>2 DEF Archives, RestoreKept, Safe
    <3>2. QED
      BY <1>1, <3>1 DEF Kept
  <2>3. CASE ~InRestore(j)
    <3>1. db = "partial"
      BY <1>3, <2>3 DEF Shape, ArchiveStep
    <3>2. PICK i \in Job : Safe(i) /\ (pc[i] = "done" \/ InRestore(i))
      BY <3>1 DEF Archives, PartialKept
    <3>3. i # j
      BY <2>3, <3>2 DEF Shape
    <3>4. QED
      BY <1>1, <3>2, <3>3
  <2>4. QED
    BY <2>1, <2>2, <2>3
<1>4. ASSUME NEW i \in Job, InRestore(i)'
      PROVE  /\ safety'[i] # None
             /\ safety'[i].db = "partial" => \E k \in Job \ {i} : Kept(k)'
  <2>1. CASE InRestore(i)
    <3>1. safety'[i] = safety[i]
      BY <1>1, <2>1 DEF Shape, ArchiveStep
    <3>2. /\ safety[i] # None
          /\ safety[i].db = "partial" => \E k \in Job \ {i} : Kept(k)
      BY <2>1 DEF Archives, RestoreKept
    <3>3. QED
      BY <1>1, <1>2, <3>1, <3>2
  <2>2. CASE ~InRestore(i)
    <3>1. i = j
      BY <1>1, <1>4, <2>2
    <3>2. safety'[j] # None /\ safety'[j].db = db /\ status[j] = "running"
      BY <1>4, <2>2, <3>1 DEF Shape, ArchiveStep
    <3>3. ASSUME db = "partial" PROVE \E k \in Job \ {j} : Kept(k)
      <4>1. PICK k \in Job : Safe(k) /\ (pc[k] = "done" \/ InRestore(k))
        BY <3>3 DEF Archives, PartialKept
      <4>2. k # j
        BY <2>2, <3>1, <4>1 DEF Shape
      <4>3. ~InRestore(k)
        BY <3>2, <4>2, OneRestore
      <4>4. QED
        BY <4>1, <4>2, <4>3 DEF Kept
    <3>4. QED
      BY <1>1, <1>2, <3>1, <3>2, <3>3
  <2>3. QED
    BY <2>1, <2>2
<1>5. QED
  BY <1>3, <1>4 DEF Archives, PartialKept, RestoreKept

-----------------------------------------------------------------------------
(* What a step of a request does *)

\* It ends at most one slot, that of the job it cancels.
SlotAsk(a, j) ==
  \/ /\ count' = count
     /\ status'[j] \in ActiveStatus => status[j] \in ActiveStatus
     /\ pc'[a] = "release" => status[j] \in ActiveStatus
  \/ /\ pc[a] = "release" /\ pc'[a] = "idle" /\ Busy(a, j)
     /\ count' = Released /\ status' = status

AskShape(a, j) ==
  /\ \A q \in Process \ {a} : pc'[q] = pc[q] /\ loc'[q] = loc[q]
  /\ loc'[a].job = j /\ db' = db
  /\ \A i \in Job \ {j} :
       status'[i] = status[i] /\ active'[i] = active[i] /\ safety'[i] = safety[i]
  /\ safety'[j] = safety[j] \/ (safety'[j] = None /\ pc[j] = "end")
  /\ Busy(a, j) \/ (status'[j] = status[j] /\ active'[j] = active[j])
  /\ Stage(j)'
  /\ Busy(a, j)' => Request(a, j)'
  /\ SlotAsk(a, j)

LEMMA AdminIsProcess == \A a \in Admin : a \in Process /\ a \notin Job
BY DEF Process

LEMMA BusyRewrites ==
  ASSUME NEW a \in Admin, pc[a] \in Steps, pc[a] # "idle"
  PROVE  Rewriting(a)
BY DEF Rewriting

\* A request that begins to read a record is alone with it.
LEMMA AskAlone ==
  ASSUME Known, NEW a \in Admin, NEW j \in Job, SerialRecord', pc[a] = "idle",
         loc'[a].job = j, pc'[a] \in {"look", "remove"},
         \A q \in Process \ {a} : pc'[q] = pc[q] /\ loc'[q] = loc[q]
  PROVE  ReadJob(j) = {status[j]}
<1>1. \A r \in Process \ {a} : Rewriting(r) => Rewriting(r)'
  BY DEF Rewriting
<1>2. Rewriting(a)'
  BY DEF Rewriting, Steps
<1>3. Free(a, j)
  BY <1>1, <1>2, AdminIsProcess DEF Free, SerialRecord
<1>4. QED
  BY <1>3, ReadAlone, AdminIsProcess DEF WriteSteps

\* What is known of a request that is under way on job j.
LEMMA Asking ==
  ASSUME Known, NEW a \in Admin, pc[a] # "idle", NEW j \in Job, loc[a].job = j
  PROVE  /\ Busy(a, j) /\ Request(a, j) /\ Stage(j)
         /\ ~Rewriting(j) /\ Free(a, j)
         /\ pc[a] \notin WriteSteps => ReadJob(j) = {status[j]}
<1> USE AdminIsProcess, JobIsProcess
<1>1. Busy(a, j) /\ Request(a, j) /\ Stage(j)
  BY DEF Busy, Known, Requests, Stages
<1>2. Rewriting(a)
  BY BusyRewrites DEF Known, TypeOK
<1>3. ~Rewriting(j)
  BY <1>1, <1>2 DEF Known, SerialRecord, Stage
<1>4. Free(a, j)
  BY <1>2, InsideAlone DEF Known
<1>5. QED
  BY <1>1, <1>3, <1>4, ReadAlone

LEMMA CancelReadShape ==
  ASSUME Known, NEW a \in Admin, CancelRead(a), SerialRecord'
  PROVE  \E j \in Job : AskShape(a, j)
<1> USE AdminIsProcess, JobIsProcess
<1>0. PICK j \in Job : \E s \in ReadJob(j) \ {"absent"} :
         loc' = [loc EXCEPT ![a] = [Blank(j) EXCEPT !.seen = s]]
  BY DEF CancelRead
<1>1. PICK s \in ReadJob(j) \ {"absent"} :
        loc' = [loc EXCEPT ![a] = [Blank(j) EXCEPT !.seen = s]]
  BY <1>0
<1>2. /\ pc[a] = "idle" /\ pc'[a] = "look" /\ loc'[a].job = j /\ loc'[a].seen = s
      /\ status' = status /\ active' = active /\ safety' = safety /\ db' = db
      /\ count' = count
      /\ \A q \in Process \ {a} : pc'[q] = pc[q] /\ loc'[q] = loc[q]
  BY <1>1 DEF CancelRead, Blank, Goto, store, Known, TypeOK
<1>3. s = status[j] /\ s # "absent"
  BY <1>1, <1>2, AskAlone
<1>4. Stage(j) /\ pc'[j] = pc[j] /\ loc'[j] = loc[j]
  BY <1>2 DEF Known, Stages
<1>5. Stage(j)'
  BY <1>2, <1>4 DEF Stage, At, InRestore
<1>6. Request(a, j)'
  BY <1>2, <1>3, <1>4 DEF Request, Stage
<1>7. AskShape(a, j)
  BY <1>2, <1>5, <1>6 DEF AskShape, SlotAsk
<1>8. QED
  BY <1>7

LEMMA DeleteReadShape ==
  ASSUME Known, NEW a \in Admin, DeleteRead(a), SerialRecord'
  PROVE  \E j \in Job : AskShape(a, j)
<1> USE AdminIsProcess, JobIsProcess
<1>1. PICK j \in Job : ReadJob(j) \cap Terminal # {} /\ loc' = [loc EXCEPT ![a] = Blank(j)]
  BY DEF DeleteRead
<1>2. /\ pc[a] = "idle" /\ pc'[a] = "remove" /\ loc'[a].job = j
      /\ status' = status /\ active' = active /\ safety' = safety /\ db' = db
      /\ count' = count
      /\ \A q \in Process \ {a} : pc'[q] = pc[q] /\ loc'[q] = loc[q]
  BY <1>1 DEF DeleteRead, Blank, Goto, store, Known, TypeOK
<1>3. status[j] \in Terminal
  BY <1>1, <1>2, AskAlone
<1>4. Stage(j) /\ pc'[j] = pc[j] /\ loc'[j] = loc[j]
  BY <1>2 DEF Known, Stages
<1>5. Stage(j)'
  BY <1>2, <1>4 DEF Stage, At, InRestore
<1>6. Request(a, j)'
  BY <1>2, <1>3, <1>4 DEF Request, Stage, Terminal
<1>7. AskShape(a, j)
  BY <1>2, <1>5, <1>6 DEF AskShape, SlotAsk
<1>8. QED
  BY <1>7

LEMMA CancelLookShape ==
  ASSUME Known, NEW a \in Admin, CancelLook(a)
  PROVE  \E j \in Job : AskShape(a, j)
<1> USE AdminIsProcess, JobIsProcess
<1>1. PICK j \in Job : j = loc[a].job
  BY DEF Known, TypeOK, Locals
<1>2. pc[a] = "look"
  BY DEF CancelLook
<1>3. /\ Busy(a, j) /\ Request(a, j) /\ Stage(j) /\ ~Rewriting(j)
  BY <1>1, <1>2, Asking
<1>4. /\ status' = status /\ safety' = safety /\ db' = db /\ count' = count
      /\ loc'[a].job = j /\ loc'[a].seen = loc[a].seen
      /\ \A q \in Process \ {a} : pc'[q] = pc[q] /\ loc'[q] = loc[q]
      /\ \A i \in Job \ {j} : active'[i] = active[i]
      /\ \/ /\ active[j] = "no" /\ active'[j] = "no" /\ pc'[a] = "finRead"
            /\ loc'[a].out = IF loc[a].seen = "pending" THEN "cancelled" ELSE loc[a].seen
         \/ active[j] # "no" /\ active'[j] = "cancel" /\ pc'[a] = "updRead"
  BY <1>1 DEF CancelLook, Goto, Known, TypeOK, Locals
<1>5. pc'[j] = pc[j] /\ loc'[j] = loc[j]
  BY <1>4
<1>6. Stage(j)'
  BY <1>3, <1>4, <1>5 DEF Stage, At, InRestore
<1>7. Request(a, j)'
  BY <1>2, <1>3, <1>4, <1>5 DEF Request
<1>8. AskShape(a, j)
  BY <1>2, <1>3, <1>4, <1>6, <1>7 DEF AskShape, SlotAsk
<1>9. QED
  BY <1>8

LEMMA UpdReadShape ==
  ASSUME Known, NEW a \in Admin, UpdRead(a)
  PROVE  \E j \in Job : AskShape(a, j)
<1> USE AdminIsProcess, JobIsProcess
<1>1. PICK j \in Job : j = loc[a].job
  BY DEF Known, TypeOK, Locals
<1>2. pc[a] = "updRead"
  BY DEF UpdRead
<1>3. Busy(a, j) /\ Request(a, j) /\ Stage(j) /\ ReadJob(j) = {status[j]}
  BY <1>1, <1>2, Asking DEF WriteSteps
<1>4. status[j] # "absent"
  BY <1>3 DEF Request
<1>5. /\ pc'[a] = "updWrite" /\ loc'[a].job = j /\ loc'[a].seen = status[j]
      /\ status' = status /\ active' = active /\ safety' = safety /\ db' = db
      /\ count' = count
      /\ \A q \in Process \ {a} : pc'[q] = pc[q] /\ loc'[q] = loc[q]
  <2>1. PICK s \in ReadJob(j) :
          /\ loc' = [loc EXCEPT ![a].seen = s]
          /\ Goto(a, IF s = "absent" THEN "idle" ELSE "updWrite")
    BY <1>1 DEF UpdRead
  <2>2. QED
    BY <1>1, <1>3, <1>4, <2>1 DEF UpdRead, Goto, store, Known, TypeOK, Locals
<1>6. pc'[j] = pc[j] /\ loc'[j] = loc[j]
  BY <1>5
<1>7. Stage(j)' /\ Request(a, j)'
  BY <1>3, <1>5, <1>6 DEF Stage, At, InRestore, Request
<1>8. AskShape(a, j)
  BY <1>3, <1>5, <1>7 DEF AskShape, SlotAsk
<1>9. QED
  BY <1>8

LEMMA UpdWriteShape ==
  ASSUME Known, NEW a \in Admin, UpdWrite(a)
  PROVE  \E j \in Job : AskShape(a, j)
<1> USE AdminIsProcess, JobIsProcess
<1>1. PICK j \in Job : j = loc[a].job
  BY DEF Known, TypeOK, Locals
<1>2. pc[a] = "updWrite"
  BY DEF UpdWrite
<1>3. Busy(a, j) /\ Request(a, j) /\ Stage(j)
  BY <1>1, <1>2, Asking
<1>4. loc[a].seen = status[j]
  BY <1>2, <1>3 DEF Request
<1>5. /\ pc'[a] = "idle" /\ loc' = loc /\ status'[j] = status[j]
      /\ active' = active /\ safety' = safety /\ db' = db /\ count' = count
      /\ \A q \in Process \ {a} : pc'[q] = pc[q]
      /\ \A i \in Job \ {j} : status'[i] = status[i]
  BY <1>1, <1>4 DEF UpdWrite, Goto, Known, TypeOK
<1>6. pc'[j] = pc[j] /\ loc'[j] = loc[j]
  BY <1>5
<1>7. Stage(j)' /\ ~Busy(a, j)'
  BY <1>3, <1>5, <1>6 DEF Stage, At, InRestore, Busy
<1>8. AskShape(a, j)
  BY <1>1, <1>3, <1>5, <1>7 DEF AskShape, SlotAsk
<1>9. QED
  BY <1>8

LEMMA FinReadAsk ==
  ASSUME Known, NEW a \in Admin, FinRead(a)
  PROVE  \E j \in Job : AskShape(a, j)
<1> USE AdminIsProcess, JobIsProcess
<1>1. PICK j \in Job : j = loc[a].job
  BY DEF Known, TypeOK, Locals
<1>2. pc[a] = "finRead"
  BY DEF FinRead
<1>3. Busy(a, j) /\ Request(a, j) /\ Stage(j) /\ ReadJob(j) = {status[j]}
  BY <1>1, <1>2, Asking DEF WriteSteps
<1>4. status[j] # "absent"
  BY <1>3 DEF Request
<1>5. /\ pc'[a] = "finWrite" /\ loc'[a].job = j /\ loc'[a].seen = status[j]
      /\ loc'[a].out = loc[a].out
      /\ status' = status /\ active' = active /\ safety' = safety /\ db' = db
      /\ count' = count
      /\ \A q \in Process \ {a} : pc'[q] = pc[q] /\ loc'[q] = loc[q]
  <2>1. PICK s \in ReadJob(j) :
          /\ loc' = [loc EXCEPT ![a].seen = s]
          /\ Goto(a, IF s = "absent" THEN Return(a) ELSE "finWrite")
    BY <1>1 DEF FinRead
  <2>2. QED
    BY <1>1, <1>3, <1>4, <2>1 DEF FinRead, Goto, store, Known, TypeOK, Locals
<1>6. pc'[j] = pc[j] /\ loc'[j] = loc[j]
  BY <1>5
<1>7. Stage(j)' /\ Request(a, j)'
  BY <1>2, <1>3, <1>5, <1>6 DEF Stage, At, InRestore, Request
<1>8. AskShape(a, j)
  BY <1>3, <1>5, <1>7 DEF AskShape, SlotAsk
<1>9. QED
  BY <1>8

LEMMA FinWriteAsk ==
  ASSUME Known, NEW a \in Admin, FinWrite(a)
  PROVE  \E j \in Job : AskShape(a, j)
<1> USE AdminIsProcess, JobIsProcess
<1>1. PICK j \in Job : j = loc[a].job
  BY DEF Known, TypeOK, Locals
<1>2. pc[a] = "finWrite"
  BY DEF FinWrite
<1>3. Busy(a, j) /\ Request(a, j) /\ Stage(j) /\ ~Rewriting(j)
  BY <1>1, <1>2, Asking
<1>4. /\ loc[a].seen = status[j] /\ active[j] = "no" /\ pc[j] \notin Before
      /\ loc[a].out = IF status[j] = "pending" THEN "cancelled" ELSE status[j]
  BY <1>2, <1>3 DEF Request
<1>5. pc[j] \in Waiting \cup {"done", "leaked"}
  <2>1. pc[j] \in Steps
    BY DEF Known, TypeOK
  <2>2. pc[j] \notin {"storeWrite", "activate", "runRead", "runWrite", "progWrite",
                      "finRead", "finWrite", "release", "end"}
    BY <1>3, <1>4 DEF Rewriting, Stage
  <2>3. pc[j] \notin Body
    BY <1>3, <1>4, <2>2 DEF Stage, At
  <2>4. QED
    BY <1>3, <1>4, <2>1, <2>2, <2>3 DEF Steps, Stage, Before, Waiting, Body, BodySteps,
       WriteSteps, RestoreSteps
<1>6. status[j] # "running"
  BY <1>3, <1>5 DEF Stage, Waiting
<1>7. /\ pc'[a] = IF status[j] = "pending" THEN "release" ELSE "idle"
      /\ status'[j] = IF status[j] = "pending" THEN "cancelled" ELSE status[j]
      /\ loc' = loc /\ active' = active /\ safety' = safety /\ db' = db
      /\ count' = count
      /\ \A q \in Process \ {a} : pc'[q] = pc[q]
      /\ \A i \in Job \ {j} : status'[i] = status[i]
  BY <1>1, <1>4, <1>6 DEF FinWrite, AfterWrite, Return, ActiveStatus, Goto, Known,
     TypeOK
<1>8. pc'[j] = pc[j] /\ loc'[j] = loc[j]
  BY <1>7
<1>9. Stage(j)'
  BY <1>3, <1>5, <1>7, <1>8 DEF Stage, At, InRestore, Waiting, Before, Body,
     RestoreSteps, DroppedSteps, RecoverySteps
<1>10. Busy(a, j)' => Request(a, j)'
  BY <1>3, <1>7, <1>8 DEF Request, Busy
<1>11. SlotAsk(a, j)
  BY <1>7 DEF SlotAsk, ActiveStatus
<1>12. AskShape(a, j)
  BY <1>1, <1>3, <1>7, <1>9, <1>10, <1>11 DEF AskShape
<1>13. QED
  BY <1>12

LEMMA ReleaseAsk ==
  ASSUME Known, NEW a \in Admin, Release(a) \/ ReleaseFails(a)
  PROVE  \E j \in Job : AskShape(a, j)
<1> USE AdminIsProcess, JobIsProcess
<1>1. PICK j \in Job : j = loc[a].job
  BY DEF Known, TypeOK, Locals
<1>2. pc[a] = "release"
  BY DEF Release, ReleaseFails
<1>3. Busy(a, j) /\ Request(a, j) /\ Stage(j)
  BY <1>1, <1>2, Asking
<1>4. /\ pc'[a] = "idle" /\ loc' = loc /\ count' \in {count, Released}
      /\ status' = status /\ active' = active /\ safety' = safety /\ db' = db
      /\ \A q \in Process \ {a} : pc'[q] = pc[q]
  BY <1>1 DEF Release, ReleaseFails, Return, Goto, store, Known, TypeOK
<1>5. pc'[j] = pc[j] /\ loc'[j] = loc[j]
  BY <1>4
<1>6. Stage(j)' /\ ~Busy(a, j)'
  BY <1>3, <1>4, <1>5 DEF Stage, At, InRestore, Busy
<1>7. SlotAsk(a, j)
  BY <1>2, <1>3, <1>4 DEF SlotAsk
<1>8. AskShape(a, j)
  BY <1>1, <1>3, <1>4, <1>6, <1>7 DEF AskShape
<1>9. QED
  BY <1>8

LEMMA RemoveShape ==
  ASSUME Known, NEW a \in Admin, Remove(a), KeepArchive
  PROVE  \E j \in Job : AskShape(a, j)
<1> USE AdminIsProcess, JobIsProcess
<1>1. PICK j \in Job : j = loc[a].job
  BY DEF Known, TypeOK, Locals
<1>2. pc[a] = "remove"
  BY DEF Remove
<1>3. Busy(a, j) /\ Request(a, j) /\ Stage(j) /\ ~Rewriting(j)
  BY <1>1, <1>2, Asking
<1>4. status[j] \in Terminal /\ pc[j] \notin Before
  BY <1>2, <1>3 DEF Request
<1>5. /\ pc'[a] = "idle" /\ loc' = loc /\ status'[j] = "absent" /\ safety'[j] = None
      /\ active' = active /\ db' = db /\ count' = count
      /\ \A q \in Process \ {a} : pc'[q] = pc[q]
      /\ \A i \in Job \ {j} : status'[i] = status[i] /\ safety'[i] = safety[i]
  BY <1>1 DEF Remove, Goto, Known, TypeOK
<1>6. safety'[j] = safety[j] \/ pc[j] = "end"
  BY <1>5 DEF KeepArchive
<1>7. pc'[j] = pc[j] /\ loc'[j] = loc[j]
  BY <1>5
<1>8. Stage(j)'
  BY <1>3, <1>4, <1>5, <1>7 DEF Stage, At, InRestore, Rewriting, Terminal
<1>9. ~Busy(a, j)' /\ SlotAsk(a, j)
  BY <1>5 DEF Busy, SlotAsk, ActiveStatus
<1>10. AskShape(a, j)
  BY <1>1, <1>3, <1>5, <1>6, <1>8, <1>9 DEF AskShape
<1>11. QED
  BY <1>10

\* Every step of a request has this shape.
LEMMA AdminShape ==
  ASSUME Known, NEW a \in Admin, AdminStep(a), Orderly
  PROVE  \E j \in Job : AskShape(a, j)
BY CancelReadShape, DeleteReadShape, CancelLookShape, UpdReadShape, UpdWriteShape,
   FinReadAsk, FinWriteAsk, ReleaseAsk, RemoveShape DEF AdminStep, Orderly

-----------------------------------------------------------------------------
(* What a step of a request keeps *)

LEMMA AskOthers ==
  ASSUME NEW a \in Admin, NEW j \in Job, AskShape(a, j), NEW i \in Job
  PROVE  /\ pc'[i] = pc[i] /\ loc'[i] = loc[i]
         /\ InRestore(i)' <=> InRestore(i)
         /\ Restoring(i)' <=> Restoring(i)
BY AdminIsProcess, JobIsProcess DEF AskShape, InRestore, At, Restoring

LEMMA AskStages ==
  ASSUME Stages, NEW a \in Admin, NEW j \in Job, AskShape(a, j)
  PROVE  Stages'
<1>1. ASSUME NEW i \in Job \ {j} PROVE Stage(i)'
  <2>1. Stage(i) /\ pc'[i] = pc[i] /\ loc'[i] = loc[i]
    BY AskOthers DEF Stages
  <2>2. status'[i] = status[i] /\ active'[i] = active[i]
    BY DEF AskShape
  <2>3. QED
    BY <2>1, <2>2 DEF Stage, At, InRestore
<1>2. QED
  BY <1>1 DEF Stages, AskShape

LEMMA AskRequests ==
  ASSUME Known, NEW a \in Admin, NEW j \in Job, AskShape(a, j)
  PROVE  Requests'
<1> USE AdminIsProcess, JobIsProcess
<1> SUFFICES ASSUME NEW b \in Admin, NEW i \in Job, Busy(b, i)'
             PROVE  Request(b, i)'
  BY DEF Requests
<1>1. CASE b = a
  <2>1. i = j
    BY <1>1 DEF Busy, AskShape
  <2>2. QED
    BY <1>1, <2>1 DEF AskShape
<1>2. CASE b # a
  <2>1. pc'[b] = pc[b] /\ loc'[b] = loc[b]
    BY <1>2 DEF AskShape
  <2>2. Busy(b, i) /\ Request(b, i)
    BY <2>1 DEF Busy, Known, Requests
  <2>3. status'[i] = status[i] /\ active'[i] = active[i]
    <3>1. CASE i # j
      BY <3>1 DEF AskShape
    <3>2. CASE i = j
      <4>1. ~Busy(a, j)
        <5> SUFFICES ASSUME Busy(a, j) PROVE FALSE
          OBVIOUS
        <5>1. Rewriting(a) /\ Rewriting(b)
          BY <2>2, BusyRewrites DEF Busy, Known, TypeOK
        <5>2. QED
          BY <1>2, <2>2, <3>2, <5>1 DEF Busy, Known, SerialRecord
      <4>2. QED
        BY <3>2, <4>1 DEF AskShape
    <3>3. QED
      BY <3>1, <3>2
  <2>4. QED
    BY <2>1, <2>2, <2>3, AskOthers DEF Request
<1>3. QED
  BY <1>1, <1>2

LEMMA AskSlots ==
  ASSUME Known, Slots, NEW a \in Admin, NEW j \in Job, AskShape(a, j)
  PROVE  Slots'
<1> USE AdminIsProcess, JobIsProcess
<1>1. SafeLock'
  BY DEF Slots, SafeLock, AskShape
<1>2. CASE /\ count' = count
           /\ status'[j] \in ActiveStatus => status[j] \in ActiveStatus
           /\ pc'[a] = "release" => status[j] \in ActiveStatus
  <2>1. ASSUME NEW i \in Job, HoldsSlot(i)' PROVE HoldsSlot(i)
    <3>1. CASE pc'[i] \in {"write", "giveUp"} \/ status'[i] \in ActiveStatus
      BY <1>2, <3>1, AskOthers DEF HoldsSlot, AskShape
    <3>2. CASE \E q \in Process : pc'[q] = "release" /\ loc'[q].job = i
      <4>1. PICK q \in Process : pc'[q] = "release" /\ loc'[q].job = i
        BY <3>2
      <4>2. CASE q = a
        BY <1>2, <4>1, <4>2 DEF HoldsSlot, AskShape
      <4>3. CASE q # a
        BY <4>1, <4>3 DEF HoldsSlot, AskShape
      <4>4. QED
        BY <4>2, <4>3
    <3>3. QED
      BY <2>1, <3>1, <3>2 DEF HoldsSlot
  <2>2. QED
    BY <1>1, <1>2, <2>1, AskOthers DEF Slots, OneHolder, FreeIfZero, DroppedIfNone
<1>3. CASE /\ pc[a] = "release" /\ pc'[a] = "idle" /\ Busy(a, j)
           /\ count' = Released /\ status' = status
  <2>1. Request(a, j) /\ loc[a].job = j
    BY <1>3 DEF Known, Requests, Busy
  <2>2. HoldsSlot(j) /\ status[j] = "cancelled" /\ pc[j] \notin Before
    BY <1>3, <2>1 DEF HoldsSlot, Request
  <2>3. \A i \in Job : ~HoldsSlot(i)'
    <3> SUFFICES ASSUME NEW i \in Job, HoldsSlot(i)' PROVE FALSE
      OBVIOUS
    <3>1. CASE pc'[i] \in {"write", "giveUp"} \/ status'[i] \in ActiveStatus
      <4>1. HoldsSlot(i) /\ (pc[i] \in {"write", "giveUp"} \/ status[i] \in ActiveStatus)
        BY <1>3, <3>1, AskOthers DEF HoldsSlot
      <4>2. i = j
        BY <2>2, <4>1 DEF Slots, OneHolder
      <4>3. QED
        BY <2>2, <4>1, <4>2 DEF Before, ActiveStatus
    <3>2. CASE \E q \in Process : pc'[q] = "release" /\ loc'[q].job = i
      <4>1. PICK q \in Process : pc'[q] = "release" /\ loc'[q].job = i
        BY <3>2
      <4>2. q # a
        BY <1>3, <4>1
      <4>3. pc[q] = "release" /\ loc[q].job = i
        BY <4>1, <4>2 DEF AskShape
      <4>4. i = j
        BY <2>2, <4>3 DEF Slots, OneHolder, HoldsSlot
      <4>5. Rewriting(q) /\ Rewriting(a)
        BY <1>3, <4>3 DEF Rewriting, Steps
      <4>6. QED
        BY <2>1, <4>2, <4>3, <4>4, <4>5 DEF Known, SerialRecord
    <3>3. QED
      BY <3>1, <3>2 DEF HoldsSlot
  <2>4. QED
    BY <1>1, <2>3 DEF Slots, OneHolder, FreeIfZero, DroppedIfNone
<1>4. QED
  BY <1>2, <1>3 DEF AskShape, SlotAsk

LEMMA AskArchives ==
  ASSUME Known, Archives, NEW a \in Admin, NEW j \in Job, AskShape(a, j)
  PROVE  Archives'
<1> USE AdminIsProcess, JobIsProcess
<1>1. ASSUME NEW i \in Job, pc[i] = "done" \/ InRestore(i)
      PROVE  safety'[i] = safety[i] /\ pc'[i] = pc[i] /\ (InRestore(i)' <=> InRestore(i))
  <2>1. pc[i] # "end"
    BY <1>1 DEF InRestore, At, RestoreSteps, DroppedSteps, RecoverySteps
  <2>2. QED
    BY <2>1, AskOthers DEF AskShape
<1>2. \A i \in Job : Kept(i) => Kept(i)'
  BY <1>1 DEF Kept, Safe
<1>3. PartialKept'
  <2> SUFFICES ASSUME db' = "partial"
               PROVE  \E i \in Job : Safe(i)' /\ (pc'[i] = "done" \/ InRestore(i)')
    BY DEF PartialKept
  <2>1. db = "partial"
    BY DEF AskShape
  <2>2. PICK i \in Job : Safe(i) /\ (pc[i] = "done" \/ InRestore(i))
    BY <2>1 DEF Archives, PartialKept
  <2>3. Safe(i)' /\ (pc'[i] = "done" \/ InRestore(i)')
    BY <1>1, <2>2 DEF Safe
  <2>4. QED
    BY <2>3
<1>4. RestoreKept'
  <2> SUFFICES ASSUME NEW i \in Job, InRestore(i)'
               PROVE  /\ safety'[i] # None
                      /\ safety'[i].db = "partial" => \E k \in Job \ {i} : Kept(k)'
    BY DEF RestoreKept
  <2>1. InRestore(i) /\ safety'[i] = safety[i]
    BY <1>1, AskOthers
  <2>2. QED
    BY <1>2, <2>1 DEF Archives, RestoreKept
<1>5. QED
  BY <1>3, <1>4 DEF Archives

-----------------------------------------------------------------------------
(* Start and restart *)

LEMMA RestartKeeps ==
  ASSUME Known, Restart
  PROVE  Stages' /\ Requests' /\ (SafeLock => Slots') /\ (Archives => Archives')
<1> USE AdminIsProcess, JobIsProcess
<1>1. \A j \in Job : /\ pc'[j] = IF pc[j] = "none" THEN "none" ELSE "done"
                     /\ active'[j] = "no" /\ status'[j] \notin ActiveStatus
                     /\ pc[j] = "none" => status'[j] = "absent"
                     /\ loc'[j] = loc[j] /\ safety'[j] = safety[j]
  BY DEF Restart, ActiveStatus, Known, Stages, Stage, Before
<1>2. \A q \in Process : pc'[q] \notin {"release", "write", "giveUp"}
  BY DEF Restart
<1>3. ASSUME NEW j \in Job PROVE Stage(j)'
  <2>1. loc[j].job = j
    BY DEF Known, Stages, Stage
  <2>2. pc'[j] \in {"none", "done"} /\ active'[j] = "no" /\ loc'[j] = loc[j]
    BY <1>1
  <2>3. /\ pc'[j] = "none" => status'[j] = "absent"
        /\ status'[j] # "running"
    BY <1>1 DEF ActiveStatus
  <2>4. QED
    BY <2>1, <2>2, <2>3 DEF Stage, At, Before, Waiting, Body, InRestore,
       RestoreSteps, DroppedSteps, RecoverySteps
<1>4. Requests'
  BY DEF Restart, Requests, Busy
<1>5. \A j \in Job : ~HoldsSlot(j)'
  BY <1>1, <1>2 DEF HoldsSlot
<1>6. SafeLock => Slots'
  BY <1>1, <1>5 DEF Slots, OneHolder, FreeIfZero, DroppedIfNone, SafeLock
<1>7. \A j \in Job : ~InRestore(j)'
  BY <1>1 DEF InRestore, At, RestoreSteps, DroppedSteps, RecoverySteps
<1>8. PartialKept => PartialKept'
  <2> SUFFICES ASSUME PartialKept, db' = "partial"
               PROVE  \E i \in Job : Safe(i)' /\ (pc'[i] = "done" \/ InRestore(i)')
    BY DEF PartialKept
  <2>1. PICK i \in Job : Safe(i) /\ (pc[i] = "done" \/ InRestore(i))
    BY DEF Restart, PartialKept
  <2>2. pc[i] # "none"
    BY <2>1 DEF InRestore, At, RestoreSteps, DroppedSteps, RecoverySteps
  <2>3. Safe(i)' /\ pc'[i] = "done"
    BY <1>1, <2>1, <2>2 DEF Safe
  <2>4. QED
    BY <2>3
<1>9. QED
  BY <1>3, <1>4, <1>6, <1>7, <1>8 DEF Stages, Archives, RestoreKept

LEMMA InitKnown ==
  Init => Known /\ Slots /\ Archives /\ NoRequestWhileDropped
<1> USE AdminIsProcess, JobIsProcess
<1> SUFFICES ASSUME Init PROVE Known /\ Slots /\ Archives /\ NoRequestWhileDropped
  OBVIOUS
<1>1. /\ \A j \in Job : /\ status[j] = "absent" /\ active[j] = "no" /\ pc[j] = "none"
                        /\ safety[j] = None /\ loc[j].job = j
      /\ \A a \in Admin : pc[a] = "idle"
      /\ db = "base" /\ count = 0
  BY DEF Init, Blank
<1>2. \A q \in Process : ~Rewriting(q) /\ pc[q] # "release"
  BY <1>1 DEF Rewriting, Process
<1>3. ASSUME NEW j \in Job PROVE Stage(j) /\ ~HoldsSlot(j) /\ ~InRestore(j)
  BY <1>1, <1>2 DEF Stage, At, Before, Waiting, Body, InRestore, RestoreSteps,
     DroppedSteps, RecoverySteps, HoldsSlot, ActiveStatus
<1>4. TypeOK /\ Stages /\ Requests /\ SerialRecord
  BY <1>1, <1>2, <1>3, InitType DEF Stages, Requests, Busy, SerialRecord
<1>5. Slots
  BY <1>1, <1>3 DEF Slots, OneHolder, FreeIfZero, DroppedIfNone, SafeLock
<1>6. Archives /\ NoRequestWhileDropped
  BY <1>1, <1>3 DEF Archives, PartialKept, RestoreKept, NoRequestWhileDropped
<1>7. QED
  BY <1>4, <1>5, <1>6 DEF Known

-----------------------------------------------------------------------------
(* The theorems of the orderly environment *)

OrderlyInv == Known /\ NoRequestWhileDropped
OneSlotInv == OrderlyInv /\ Slots /\ Archives

LEMMA OrderlyStep ==
  ASSUME OrderlyInv, [Next /\ Orderly]_vars
  PROVE  OrderlyInv'
<1>1. CASE UNCHANGED vars
  BY <1>1 DEF OrderlyInv, Known, vars, TypeOK, Stages, Stage, At, InRestore,
     Requests, Request, Busy, SerialRecord, Rewriting, NoRequestWhileDropped, Restoring
<1>2. CASE Next /\ Orderly
  <2>1. TypeOK' /\ SerialRecord' /\ NoRequestWhileDropped'
    BY <1>2, NextType DEF Orderly, OrderlyInv, Known
  <2>2. Stages' /\ Requests'
    <3>1. ASSUME NEW j \in Job, WorkerStep(j) PROVE Stages' /\ Requests'
      BY <1>2, <3>1, WorkerShape, WorkerStages, WorkerRequests DEF OrderlyInv, Known
    <3>2. ASSUME NEW a \in Admin, AdminStep(a) PROVE Stages' /\ Requests'
      BY <1>2, <3>2, AdminShape, AskStages, AskRequests DEF OrderlyInv, Known
    <3>3. CASE Restart
      BY <3>3, RestartKeeps DEF OrderlyInv
    <3>4. QED
      BY <1>2, <3>1, <3>2, <3>3 DEF Next
  <2>3. QED
    BY <2>1, <2>2 DEF OrderlyInv, Known
<1>3. QED
  BY <1>1, <1>2

LEMMA OneSlotStep ==
  ASSUME OneSlot, OneSlotInv, [Next /\ Orderly]_vars
  PROVE  OneSlotInv'
<1>1. OrderlyInv'
  BY OrderlyStep DEF OneSlotInv
<1>2. CASE UNCHANGED vars
  <2>1. Slots'
    BY <1>2 DEF OneSlotInv, vars, Slots, OneHolder, FreeIfZero, DroppedIfNone,
       SafeLock, HoldsSlot, Restoring
  <2>2. Archives'
    BY <1>2 DEF OneSlotInv, vars, Archives, PartialKept, RestoreKept, Kept, Safe,
       InRestore, At
  <2>3. QED
    BY <1>1, <2>1, <2>2 DEF OneSlotInv
<1>3. CASE Next /\ Orderly
  <2>1. ASSUME NEW j \in Job, WorkerStep(j) PROVE Slots' /\ Archives'
    <3>1. Shape(j)
      BY <1>3, <2>1, WorkerShape DEF OneSlotInv, OrderlyInv
    <3>2. QED
      BY <3>1, WorkerSlots, WorkerArchives DEF OneSlotInv, OrderlyInv
  <2>2. ASSUME NEW a \in Admin, AdminStep(a) PROVE Slots' /\ Archives'
    <3>1. PICK j \in Job : AskShape(a, j)
      BY <1>3, <2>2, AdminShape DEF OneSlotInv, OrderlyInv
    <3>2. QED
      BY <3>1, AskSlots, AskArchives DEF OneSlotInv, OrderlyInv
  <2>3. CASE Restart
    <3>1. SafeLock
      BY DEF OneSlotInv, Slots
    <3>2. QED
      BY <1>1, <2>3, <3>1, RestartKeeps DEF OneSlotInv, OrderlyInv
  <2>4. QED
    BY <1>1, <1>3, <2>1, <2>2, <2>3 DEF Next, OneSlotInv
<1>4. QED
  BY <1>2, <1>3

\* A record says running only while there is a worker that a cancellation can
\* stop, or a request that is about to end it, as long as no two processes
\* rewrite the record at the same time (finalizeJob, updateJob, cancelJob).
THEOREM RunningIsWorked == OrderlySpec => []RunningHasWorker
<1>1. Init => OrderlyInv
  BY InitKnown DEF OrderlyInv
<1>2. OrderlyInv /\ [Next /\ Orderly]_vars => OrderlyInv'
  BY OrderlyStep
<1>3. OrderlyInv => RunningHasWorker
  BY DEF OrderlyInv, Known, Stages, Stage, RunningHasWorker
<1>4. QED
  BY <1>1, <1>2, <1>3, PTL DEF OrderlySpec

LEMMA OneSlotInvariant ==
  ASSUME OneSlot PROVE OrderlySpec => []OneSlotInv
<1>1. Init => OneSlotInv
  BY InitKnown DEF OneSlotInv, OrderlyInv
<1>2. OneSlotInv /\ [Next /\ Orderly]_vars => OneSlotInv'
  BY OneSlotStep
<1>3. QED
  BY <1>1, <1>2, PTL DEF OrderlySpec

\* Whatever fails, is cancelled or crashes, a database restore leaves all of
\* the data somewhere: while the database is dropped or half imported a
\* pre-restore archive holds it.  One job at a time, as by default
\* (adminDataMaxConcurrentJobs), in the orderly environment.
THEOREM RestoresAreRecoverable ==
  ASSUME Max = 1, 0 \notin ArchiveLock PROVE OrderlySpec => []DataRecoverable
<1>1. OneSlotInv => DataRecoverable
  BY DEF OneSlotInv, Archives, PartialKept, Safe, DataRecoverable
<1>2. QED
  BY <1>1, OneSlotInvariant, PTL DEF OneSlot

\* With one slot there is never a second job at work, nor a free slot in the
\* semaphore while a job holds it (tryClaim, release), although restores drop
\* the semaphore and import it again.
THEOREM OneJobAtATime ==
  ASSUME Max = 1, 0 \notin ArchiveLock PROVE OrderlySpec => []AdmissionHolds
<1>1. ASSUME NEW S \in SUBSET Job, \A i, j \in S : i = j
      PROVE  Cardinality(S) \in {0, 1} /\ (S # {} => Cardinality(S) = 1)
  <2>1. CASE S = {}
    BY <2>1, FS_EmptySet
  <2>2. CASE S # {}
    <3>1. PICK x \in S : S = {x}
      BY <1>1, <2>2
    <3>2. QED
      BY <3>1, FS_Singleton
  <2>3. QED
    BY <2>1, <2>2
<1>2. ASSUME OneSlotInv PROVE AdmissionHolds
  <2>1. DEFINE W == {j \in Job : Working(j)}
               H == {j \in Job : HoldsSlot(j)}
  <2>2. \A j \in Job : Working(j) => HoldsSlot(j)
    BY <1>2 DEF OneSlotInv, OrderlyInv, Known, Stages, Stage, Working, HoldsSlot,
       BodySteps, Body, RestoreSteps, At, ActiveStatus
  <2>3. \A i, j \in H : i = j
    BY <1>2 DEF OneSlotInv, Slots, OneHolder
  <2>4. Cardinality(W) \in {0, 1}
    BY <1>1, <2>2, <2>3
  <2>5. Cardinality(H) \in {0, 1} /\ (H # {} => Cardinality(H) = 1)
    BY <1>1, <2>3
  <2>6. AtMostMax
    BY <2>4 DEF AtMostMax
  <2>7. count # None => count \in Nat /\ (H # {} => count # 0)
    BY <1>2 DEF OneSlotInv, OrderlyInv, Known, TypeOK, Lock, Slots, FreeIfZero
  <2>8. H = {} => Cardinality(H) = 0
    BY FS_EmptySet
  <2>9. count # None => Cardinality(H) <= count
    BY <2>5, <2>7, <2>8
  <2>10. QED
    BY <2>6, <2>9 DEF AdmissionHolds, SlotsCovered
<1>3. QED
  BY <1>2, OneSlotInvariant, PTL DEF OneSlot
=============================================================================
