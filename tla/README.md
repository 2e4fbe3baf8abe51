# Verification of Syngrisi

TLA+ models of the concurrent core of Syngrisi, a visual-regression server, and of
the clients that drive it: TLC checks them on small instances, TLAPS proves the
central properties for every instance. Paths below are relative to
`packages/syngrisi/src/` unless they start with another package.

## The system

Syngrisi stores screenshots ("snapshots") that test clients upload, compares each
with the accepted baseline of the same check identity and lets people accept or
remove the resulting checks. It is one Node.js process per instance (several may
share a database and an images directory), MongoDB and a directory of PNG files.
A request handler is an async function; every `await` is a point where all other
handlers run. There are no locks; only `createCheck` uses a transaction, and only
when MongoDB is a replica set. Two schedulers per instance (triage, cleanup) poll the
database. Drivers in the test processes call the server over HTTP and retry.

| component | state | operations | what makes it hard |
|---|---|---|---|
| Snapshot store (`services/client`, `snapshot-file`, `snapshot`) | VRSSnapshot documents, PNG files shared by documents with equal hash | create, clone, clean up, remove | file and document change in separate steps, sharing is found by query, rollback covers documents only |
| Check review (`services/check`) | VRSCheck documents | accept, remove, update, recompare | several collections changed with no transaction |
| Baselines (`services/baseline`, `baseline-history`) | VRSBaseline rows, newest `createdDate` wins | accept (upsert), lookup with fallback, promote, edit regions, remove | racing upserts, dates taken before the write, rows of two branches that share a snapshot |
| Comparison (`services/comparison`, `lib/comparison`) | none | verdict of two images | tolerance and dimension boundaries |
| Tests, runs, suites (`services/test-run`, `test`, `run`, `suite`) | status of a test, list of its checks | start and end session, update after a check, remove | read-compute-write over concurrent changes; `run.finished` counted after the write |
| Triage (`services/triage`, `lib/schedulers/triageScheduler`) | `triage` subdocument of a check | claim, classify, cancel, requeue, auto-accept | leases of several instances, unconditional writes |
| Admin data jobs (`services/admin-data-job`, `admin-data/`) | job records, a semaphore of admission slots, the map of workers | create, run, cancel, delete, finalize, backup, restore | three writers of one record, the slot, the drop and its recovery, crashes |
| Maintenance tasks (`tasks/core`) | none of their own | old checks, old/orphan baselines, orphan files/snapshots, consistency | decide from scans, delete later, while requests run |
| Cleanup scheduler and settings (`lib/schedulers/autoCleanupScheduler`, `lib/AppSettings`) | a setting with `lastRunAt`, a cache of it in every instance | tick, get, set, enable, disable | decisions from a cache, value written back after a long run |
| Client SDKs (`packages/core-api`, `playwright-sdk`, `wdio-sdk`) | the test a driver has open | start and stop a session, check, accept, retry | answers that get lost, requests that arrive after they were given up |
| Change signatures, DOM snapshots, users, SSO, shares, plugins, webhooks, logs, UI, CLI | see `PROJECT.json` | | not modelled, with the reason for each below |

Interactions: uploads, reviews and maintenance tasks change the same documents and
files; triage and drivers accept checks through the same `accept`; the cleanup
scheduler starts the maintenance tasks; a restore replaces everything underneath.
Correctness is mostly about references (check → snapshot, baseline row → snapshot,
document → file, test ↔ check), about derived values (status and worst verdict of a
test, the baseline in force) and about who may do something now (leases, slots,
sweeps, sessions).

## Modules

| module | models | uses |
|---|---|---|
| `ImageLibrary` | abstract: which images can be seen and which are shown | |
| `SnapshotStore` | the snapshot store with the requests that change it: createCheck, accept, removeCheck, snapshot and baseline removal | implements `ImageLibrary` |
| `Retention` | the six maintenance tasks, interleaved with uploads and acceptances of the store | extends `SnapshotStore`; with its tasks it still implements `ImageLibrary` |
| `Baselines` | the rows of one check on its branches: acceptance, promotion, removal, ignore regions | |
| `TestRun` | sessions, the status of a test and its list of checks, `run.finished` | |
| `AdminJobs` | the admin data jobs: records, admission slot, workers, cancellation, database restore | |
| `LeaseQueue` | abstract: who waits for a verdict and who works on what | |
| `Triage` | the triage scheduler of several instances, requests of users | implements `LeaseQueue` |
| `Cleanup` | a cleanup setting, its caches and the schedulers that sweep by it | |
| `Client` | drivers, the retrying API client, the network, what the server does for them | |
| `SnapshotStoreProofs`, `RetentionProofs`, `BaselinesProofs`, `TestRunProofs`, `TriageProofs`, `CleanupProofs`, `ClientProofs`, `AdminJobsProofs` | theorems about the module each is named after | extends that module and `TLAPS`; `RetentionProofs` also `SnapshotStoreProofs` |
| `MC*` | TLC instances, one per module | |

In every module `pc`/`loc` (or `job`, `drv`, `task`) hold for each actor the call it
makes next and its local variables, and an action is one awaited call with the
synchronous code after it. "history" variables are read by properties only.

### SnapshotStore

A snapshot is identified with its ObjectId. `doc`, `fname` and `imghash` are its
document (life, `filename`, `imghash`), `file` the set of ids whose `<id>.png` is
on disk, `row` the baseline rows with their `createdDate`, `check` the check
whose `actualSnapshotId` is the id (every check has its own actual snapshot, so
the id of a check and that of its actual snapshot are the same value here), and
`pc`/`loc` the requests in flight: the call each makes next and its local
variables. Each action is one awaited database or file call with the synchronous
code after it:

| code | actions |
|---|---|
| `createCheck` | `Lookup` (isNeedFiles), `Access`, `Clone` or `WriteFile`, `SaveDoc`, `FindBaseline`, `Inspect`, `Compare`, `DiffWrite`, `DiffSave`, `InsertCheck`, `Commit` |
| its `catch` | `Fail`, enabled before every call, then `Cleanup` (cleanupOrphanFiles) |
| `accept`, `createNewBaseline` | `AcceptStart`, `AcceptUpsert`, `AcceptSave` |
| `removeCheck`, `snapshotService.remove`, `removeSnapshotFile` | `RemoveStart`, then for each snapshot of the check `RemoveCheckBaseline`, `RemoveFindDoc`, `RemoveFindOthers`, `RemoveUnlink`, `RemoveDelete` |
| `BaselineService.remove` | `RemoveBaseline` |
| death of the server process, a rejected call of accept or removeCheck | `Die` |

Abstractions, and why they lose nothing that the properties see:

- Reads and writes of the test, the triage flag and the ignore regions are in
  TestRun, Triage and Baselines; those of the suite and the run, DOM snapshots,
  webhooks and logs are left out.
- A document inserted by a transaction is `tx`, invisible to everybody else, and
  becomes `saved` when it commits. The lookup by hash and the baseline lookups
  carry no session in the code either, so they see committed documents only. A
  document that is rolled back is `void`, one that is deleted is `gone`; ids are
  never reused.
- `replicaSet`, chosen by the first state among `Deployments`, is one answer for all
  requests. `supportsTransactions` asks the server each time and answers no when the
  question fails; a run with changing answers is the union of the two kinds and is not
  checked.
- The two unlinks of `cleanupOrphanFiles`, the two reads of `compareSnapshots`
  and the two queries of `getAcceptedBaseline` are one step each.
- Pixel comparison is a choice: equal hashes are equal images; otherwise the
  images differ or are within tolerance. A plugin may skip the comparison. An
  `afterCompare` plugin that drops `diffId` from the result is not modelled.
- Re-comparison of a check is in TestRun, promotion in Baselines, the maintenance
  tasks in Retention.
- When the commit rejects, the abort in the catch block rejects too and the
  cleanup is not reached: that outcome is `Die`.
- `torn` is a history variable: the documents whose remover died between the
  unlink and the delete. Nothing in the code repairs these, and the properties
  say exactly what is promised of all the others.

What all this is for is said by `ImageLibrary`, which knows neither documents nor files
nor requests: an image that is shown can be seen; a step either lets images arrive and
shows more (`Publish`) or shows less and lets images go that nothing shows any more
(`Withdraw`); what has gone stays away. The refinement (`Library`) takes `shown` from the
baseline rows and the visible checks (`Shown`: a check leads to its image, its baseline
and its diff), `kept` and `lost` from the document of an image and, on a replica set, its
file (`Life`). `ImplementsLibrary` is `Library!LibrarySpec`.

### AdminJobs

`status` is the status field of a job's `job.json`, `active` the `activeTasks` map
with its `cancelRequested` flag, `count` the admission semaphore in MongoDB, `db`
whose data the database holds and `safety` the pre-restore archives. A member of
`Job` is one job, with the request that creates it and then its worker; a member
of `Admin` is a request that cancels or deletes a job.

| code | actions |
|---|---|
| `createJob` and the four `create*Job` | `Create`, `Insert` (tryClaim), `WriteRecord`, `CreateFails` and `GiveUp` (its catch), `Upload`, `StoreRead`, `StoreWrite`, `StoreCheck` |
| `runJob` | `Start`, `Activate`, `RunRead`, `RunWrite`, `Complete`, `Abort`, `End` |
| `updateProgress` | `ProgressRead`, `ProgressWrite` |
| `runDbRestore`, `runRestoreWithSafetyBackup` | `SafetyBackup`, `DropDatabase`, `ImportLock`, `Import`, `ImportFails` |
| `restoreFromSafetyArchive` | `Recover`, `DropAgain`, `ReimportLock`, `Reimport`, `RecoveryFails` |
| `finalizeJob` | `FinRead`, `FinWrite`, `Release`, `ReleaseFails` |
| `cancelJob`, `deleteJob` | `CancelRead`, `CancelLook`, `UpdRead`, `UpdWrite`; `DeleteRead`, `Remove` |
| crash, `markStaleJobsFailed`, `initialize` | `Restart` |

Every update of a record is a read of the file and a later write of all of it, so
each is two actions; `fsp.writeFile` truncates first, so a read during a write may
find nothing (`ReadJob`). What differs from the code, and why:

- The work of a job is one step, with any number of progress updates (up to
  `MaxProgress`) around it: only its outcome reaches the variables. A database
  dump is imported in two steps, the semaphore's collection and the rest.
- A screenshots restore counts a cancellation as a file that failed and goes on,
  as in the code; a check for cancellation precedes every other part except the
  drop.
- An update to `running` that finds no record, and a release that rejects inside
  the catch of `runJob`, are rejections nobody handles: the process dies
  (`Restart`).
- Deleting the directory of a job whose worker still runs makes the parts of the work
  that need its files throw (`FilesGone`), and the log line of the catch reject,
  which ends the process.
- `activeTasks.delete` and the cleanup that follows are one step. The expiry of
  old jobs deletes like `deleteJob`. Two overlapping writes of one record leave
  one or the other, never a mixture.
- There is one server process. Several processes that share the jobs directory
  fail each other's jobs when they start; that is not modelled.

`Faults` names the operations that may reject in an instance: writing a record or
its first log line, storing an upload, the work itself, the release of a slot.

### Retention

`task` is the one task that runs, its step and what it has read so far. A step is a
query, a deletion or an unlink, or several of one kind, and requests of the store run in
between.

| code | actions |
|---|---|
| `handle-old-checks` | `OldChecks`, `OldChecksRefs`, `OldChecksRows`, `OldChecksDelete`, `OldChecksNames` (twice), `Unlink` |
| `handle-orphan-files` | `OrphanFiles`, `OrphanFilesNames`, `Unlink` |
| `handle-orphan-snapshots` | `OrphanSnapshots`, `OrphanSnapshotsChecks`, `OrphanSnapshotsDocs`, then `RemoveNext`, `RemoveTaskUnlink`, `RemoveTaskDelete` for each |
| `handle-orphan-baselines` | `OrphanBaselines`, `OrphanBaselinesUsed`, `DeleteRows` |
| `handle-old-baselines`, `old-baselines-selection` | `OldBaselines`, `DeleteRows`, `OldBaselinesRefs`, then the removal loop |
| `handle-database-consistency` | `Consistency`, `ConsistencyRows`, `ConsistencyDocs`, `ConsistencyChecks`, `ConsistencyDelete`, `Unlink` |
| a task that rejects or dies | `TaskDies` |

These merge several awaited calls into one step:

- `OldChecks`: the aggregates that select the old checks, all by one date, and the query
  for filenames, which never change. An acceptance in between changes only the base of a
  check, which is read first.
- `OldChecksRefs`, `OrphanSnapshotsChecks`, `OldBaselinesRefs`: the aggregates of the
  fields of the checks (and of the rows). An acceptance in between leaves a reference too
  many, which is harmless. A check that commits in between may be found by one field and
  not by another: this makes the windows of `BasesApart` and `ScanApart` below longer by
  that time, and is left out like them.
- `RemoveNext`: the queries for a row, for the document and for the sharers of its file,
  at the time of the last. The document and the rows of an unused snapshot change only in
  the windows of `Apart`; the removal of SnapshotStore has the three apart.
- `Unlink`: batches of unlinks. No document names these files, so a task that dies between
  two of them leaves files that the next one removes.

The age limit is a date computed when a task starts, so which checks and rows are
older is chosen then. One task runs at a time, on a replica set. The requests beside it are
uploads, acceptances and crashes. Left out: removals of checks and of baselines beside a
task (tasks delete rows, and once a row is gone a removal takes images that other checks
need, with or without a task at work: the overlap `KeepRows` below), dry runs and reports,
the removal of empty tests, runs and suites, and the variant of old checks for databases
without transactions.

### Baselines

`row` holds the rows of one check by branch and snapshot (the unique index), each with
its `_id` (insertion order), `createdDate` and ignore regions.

| code | actions |
|---|---|
| `createNewBaseline` | `AcceptLast` (last baseline read, date taken), `AcceptUpsert`, and after a duplicate key `AcceptFind`, `AcceptSave` |
| `promoteBaselines`, `promoteRun` | `PromoteFind`, `PromoteUpsert` for each source row, `PromoteEnd` |
| `BaselineService.remove`; `PUT /v1/baselines/:id` | `RemoveRow`; `EditRegions` |
| a call that rejects, a crash | `Die` |

An upsert takes its date when it is sent and is applied later, so rows need not be
inserted in the order of their dates; a duplicate key can only come from a row that
was inserted after the upsert was sent (`Collides`). `older`, `want` and `lone` are
history: which rows were in force (and could no longer be restamped) when a row's
acceptance began; the regions last saved for a branch's baseline while nobody else
worked on it; the promotions that overlapped nothing. Regions saved while a request
works on the branch set `want` to `None`: that request may have read the old ones, so
nothing can be promised of them. Left out: the other fields of a baseline. An acceptance
carries the tolerance from the last baseline like the regions, but neither `matchType` nor
the bound regions (`check.service.ts:89-95`); a promotion carries all four. `PUT
/v1/baselines/:id` also takes `createdDate`, `branch` and `markedAs`
(`Baseline.schema.ts:64-121`), which no page of the application sends; who edits these by
hand may put any row in force. Left out, too: the history page and its summaries.

Every date is new and greater than all before. This is an assumption: one clock for all
servers, and never two `new Date()` in one millisecond. With equal dates the order of two
baselines is that of the index, and `LaterWins` and `PromotionTakesOver` say nothing.

### TestRun

| code | actions |
|---|---|
| `startSession`, `endSession` | `StartSession`; `EndSession`, `EndRead`, `EndUpdate`, `EndCount` (run.finished) |
| `createCheck`, `updateTestAfterCheck` | `CreateCheck`, `CreateBegin`, `CreateInsert`, `CreateSave`, `CreateCommit` |
| `accept` | `Accept`, `AcceptCheck`, `LoadTest`, `Status`, `SaveTest` |
| `update`, `recompare` | `Change`, `ChangeCheck`, `LoadTest`, `Status`, `SaveTest` |
| `removeCheck`; `test.remove` | `Remove`, `LoadTest`, `Status`, `SaveTest`; `RemoveTest`, `RemoveNext`, `RemoveLast` |
| crash, rejected call | `Die` |

A check is new, passed or failed when it was compared; `update` takes any status, of
which blinking is told apart because the two functions named `calculateTestStatus` do:
that of `endSession` calls a test with a blinking check Passed and one with nothing but
pending checks "not set" (`test-run.service.ts:86-104`), that of a review calls both
Failed (`check.service.ts:24-35`). `StatusAtRest` therefore is about the latter, which
every review uses, and says that both agree on compared statuses.

`createCheck` runs in a transaction: invisible until it commits, refused when the test
was written since it began, and holding the test once it has written it. `save()`
sends a field only if it differs from what the request had loaded. `mixed` names the
tests whose requests have overlapped in a way that lets the status go stale (all but
uploads among themselves and acceptances among themselves), `cut` those on which a
request died after its first write. `markedAs`, computed next to the status by the
same requests, and the dates of runs and suites are left out.

### LeaseQueue and Triage

`LeaseQueue` has no clock and no documents: `waiting` checks, their `owners`, and
those `reissued`, which more than one may own: somebody asked to analyse them again, or
their lease ran out under the owner. Nobody else takes an owned check. `Triage` has the
subdocument of each check, the settings, and for each instance its batch and the
classification that runs. Time is counted in units: a claim has an age up to
`TTL + 1`, a classification lasts at most `Slow`.

| code | actions |
|---|---|
| `createCheckDocument`, the transaction of `createCheck` | `Insert`, `MarkPending` (outside the transaction), `Commit` |
| `tick`, `findUntriagedCheckIds` | `Tick`, `Claim`, `EndClaim`, `TakeNext`, `EndTick` |
| `triageCheck` | `Classify` or `ProviderFails`, `Accept`, `WriteVerdict` |
| `requeueCheck`, `cancelCheck`, the three routes of `ai.controller` | `Requeue`, `Cancel`, `Ask` |
| `updateTestWorstVerdict` | `ReadWorst`, `StoreWorst` |
| accept, remove, recompare by a user; the switches | `Review`, `Recompare`; `Toggle` |
| crash; time | `Crash`; `Pass` |

One project and one test. What the model answers, and whether its confidence reaches
the threshold, is a choice; prompts are left out. `asked` remembers what users last
did about a check, and `overdue` names those whose lease ran out while an instance still held
them. The properties speak of the others, `Protected`: a cancellation or a re-run is not
coordinated with a classification in flight, nor is the taker of a check with the late
holder. On a replica set the flag that marks a check as pending is written to a
check that nobody can see and is lost; the scheduler does not ask for it.

### Cleanup

`db` is the setting in the database, `cache` and `at` the copy of each server and its
age, `pc`/`loc` a scheduler or a request of an administrator.

| code | actions |
|---|---|
| `AppSettings.get` with `ensureInitialized` | `Read`, `Land` |
| `set`, `enable`, `disable` | `Set`, `SetCache`; `Flag`, `FlagCache` |
| the form of the settings page | `OpenForm`, `Submit` |
| `tick` of the scheduler | `Skip` or `Sweep`, then `Swept` (value written back) or `SweepFails` |
| time, crash | `Tick`, `Crash` |

Times are ages that stop growing at the largest age told apart, so the clock needs no
bound. What a sweep deletes is Retention.

### Client

`drv` is what a driver has open and the call it awaits; `net` the requests on their way
or in the server's hands, which may outlive the call that sent them.

| code | actions |
|---|---|
| `startTestSession`, `stopTestSession`, `check` of the drivers | `ThrowAtOnce` (before any request), `Start`, `Stop`, `CheckImage`, `Proceed` (second phase with the file, automatic acceptance) |
| `requestWithRetry` | `Answered`, `Break`, `Failed` inside them, `Resume` |
| the server | `StartSession`, `EndSession`, `AskFile`, `Inspect`, `CreateCheck`, `SendUpsert`, `AcceptRow` and after a duplicate key `AcceptAgain`, `AcceptSave`, `Refuse` |
| other users | `Review`, `RemoveRow` |

The server's work is cut only where the requests of others make a difference;
SnapshotStore and TestRun have it in full. One identity, whose `rows` are a sequence in
the order of their dates; `RemoveRow` takes one of them out. `fetch` has no timeout, so a
call ends when the server answers or the connection breaks. A row's date is that of its
write; what its being taken earlier changes is in Baselines.

## Properties and runs

| run | instance | shows |
|---|---|---|
| `tx` | `SnapshotStore`, 2 requests, 3 snapshots, 2 hashes, transactions; 1.3 million states | `TypeOK`; `OriginalKeepsFile`: a visible document that wrote its own file has it; `CleanupIsPrivate`: a failed createCheck unlinks no file that a visible document names |
| `quiet` | the same, with 2 branches and fallback on a replica set, or 1 hash and 2 insertions of a row on a standalone database; 3.8 million states | without the three overlaps of `Quiet` (`QuietSpec` with `Bounds`), in both kinds of deployment: `StoreConsistent`: rows and visible checks lead to snapshots (`ReferencesResolve`) and, on a replica set, every document has its file (`DocKeepsFile`); `ImplementsLibrary` |
| `apart` | `Retention`, 1 request, 3 snapshots, 2 hashes, 1 identity, 2 tasks; 2.0 million states | `ApartSpec`, without the overlaps of `Apart`: `TasksLoseNothing`: references lead to snapshots, and snapshots to files unless a remover died on them; `ImplementsLibrary`, with the tasks; `BaselineRowsKept`: the newest baseline of an identity and a baseline linked by its check stay; `OnlyBrokenDeleted`: the consistency cleanup deletes only what is inconsistent (here snapshots a dead remover left without a file: no check is broken) |
| `timeline` | `Baselines`, 2 requests, 2 branches, 3 snapshots, 4 insertions, 5 dates; 6.3 million states | `LaterWins`: a baseline superseded by a later acceptance never comes back before it; `RegionsCarried`: saved regions are those compared under; `PromotionTakesOver`: a first promotion makes the branch's baseline the one in force |
| `promote` | 1 request, 2 snapshots | violates `PromotedIsActive`: a baseline promoted before does not become active again |
| `sessions` | `TestRun`, 2 requests, 2 tests, 2 checks, 1 cut, 1 mixed test; 7.0 million states | `StatusAtRest`: the status agrees with the checks; `ChecksAndTests`: a test lists all its checks and every check has its test; `FinishedReported`: run.finished is sent when the last session ends, and not before |
| `pool` | `Triage`, 2 checks, 2 instances, batches of 2, 2 attempts, TTL 1, classifications of 1, 1 crash, 1 review; 4.2 million states | of `Protected` checks `LeaseExclusive`: two instances never work on one; `EffectsBounded`: bounded attempts, one acceptance; `VerdictStays`; besides `WorstFollows`; `ImplementsQueue` |
| `drain` | 1 check, 2 instances, 1 request, TTL 1, 1 crash, 1 switch, fairness; 2.0 million states | `Drained`: a check that waits is decided, put aside, or triage is off |
| `shared` | `Cleanup`, 2 servers, 1 administrator, TTL 1, interval 3, 1 edit, 1 crash, fairness; 2.9 million states | `NoStaleSweep`: a disabled cleanup sweeps only as long as a cache may be stale, and so with two sweeps too close (or at once: `lastRunAt` is written after a sweep); `EditSurvives`; `SweptAgain`: sweeps go on after failures |
| `network` | `Client`, 2 drivers (1 accepts automatically), 2 images, 2 attempts, 4 calls of drivers and reviewers, 1 late request, fairness; 0.9 million states | `AtMostOnce`: a call leaves one test or check; `SessionKept`: checks go to the test of the session the driver is in, which runs; `AcceptanceKept`: what was reported accepted is, and a late or repeated request brings no older baseline back except as the loser of two upserts in flight together; `CallsReturn` |
| `orderly` | `AdminJobs`, 2 jobs of any kind, 1 cancelling or deleting request, 1 slot, rejecting operations, 1 crash; 4.4 million states | `AdmissionHolds`: no more jobs run than there are slots and the semaphore counts every slot held; `RunningHasWorker`: a record says running only while a worker exists; `DataRecoverable`: a half-imported database has a complete safety archive; all in the environment `Orderly` |
| `live` | 2 jobs of any kind, rejecting operations, 1 crash, fairness; 0.4 million states | `JobsEnd`, `SlotsReturned` |

Every instance also checks one type invariant, and each property has a mutant of the
code ("mutants" in `PROJECT.json`) that TLC finds to violate it.

### Environments: what the code leaves open

Three runs hold in an environment that excludes overlaps the code does not exclude. Each
excluded overlap is needed: with it TLC finds the loss described here. On the instances
checked these are therefore the only ways in which the properties of the three fail.

**Quiet** (`SnapshotStore`):

- `SerialReview`: an acceptance inserts its row after a removal of the same check has
  looked for one; the snapshot is deleted and the row is a zombie
  (`snapshot.service.ts:70`).
- `SerialClone`: an upload clones a snapshot between the reference query of a removal
  and its unlink; the shared file is gone (`snapshot.service.ts:30-52`).
- `KeepRows`: once a baseline row is deleted, removing a newer check deletes the
  image of the older one that it was compared with (`check.service.ts:403`).

The proofs tell which property needs which: references need the first and the third
(`QuietReferences`), files the second (`QuietFiles`). On a standalone database, a failed
upload leaves a document whose file the cleanup has unlinked (`client.service.ts:219`);
`DocKeepsFile` is about replica sets only.

**Apart** (`Retention`, conjoined to the next-state relation of `ApartSpec`), in each case
something read before and acted on after:

- `FilesApart`: a file is judged while an upload has written or is cloning it and its
  document is not committed.
- `BasesApart`: an upload has chosen as its baseline a snapshot that is judged unused.
- `AcceptApart`: a check that is being retired is accepted.
- `ScanApart`: an upload commits between the two queries of orphan-snapshots.
- `LinkApart`: a check is accepted while its row is judged an orphan.
- `StampApart`: an acceptance that lost the race of two upserts stamps anew a row that the
  task for old baselines has judged old; the row is the newest and is deleted. It takes
  two requests, so the instance, which has one, does not show it; the proof did.

Besides, orphan-baselines deletes rows accepted by triage or in any way that leaves no
link in the check (`BaselineRowsKept` is about linked rows), old-checks deletes diff
images without looking for references, and the consistency cleanup keeps one document
for each filename.

**Orderly** (`AdminJobs`):

- `SerialRecord`: a cancellation that read a pending job releases its slot while the
  worker starts it anyway; a cancellation's message is written back over the final
  status and the job says running for ever.
- `NoRequestWhileDropped`: a restore drops the semaphore with everything else, and a
  request made before it is imported claims a slot of its own
  (`admin-data-job.service.ts:476`).
- `RecoverySucceeds`: a second cancellation during the recovery of the first leaves the
  database half imported and its archive deleted (`admin-data-job.service.ts:420`); so
  does a recovery that fails.
- `KeepArchive`: the job of a restore that a crash interrupted is deleted, and with it
  the only copy of the data.
- `LogWritten`: a job whose first log line could not be written has given its slot up
  but stays pending; cancelling it later releases the slot of another.

Even there, `DataRecoverable` and `AdmissionHolds` are about one slot, the default of
`SYNGRISI_ADMIN_DATA_MAX_CONCURRENT_JOBS` (`envConfig.ts:21`), and about archives that a job
dumped while it held the slot (`0 \notin ArchiveLock`). With several slots a restore can
drop what another is still importing, and the semaphore it imports knows only the jobs
that ran when the archive was made.

The histories play the same part in the other modules:

- `Triage`: a lease may run out under a healthy holder (`overdue`). The code claims up to
  ten checks at once under one ten-minute lease and gives each classification up to two
  minutes, so the last of a slow batch may be taken by another instance although the
  comment says that instances "never triage the same check twice"
  (`services/triage/index.ts:212`), and the later of two verdicts stays. The instances of
  the runs have such batches (`Batch * Slow > TTL` in `pool`), and the properties show
  that this and a user's request are the only ways to it. A classification in flight
  overwrites a cancellation and may still accept the check, and one that fails puts the
  cancelled check back (`asked`). The worst verdict is stale after two refreshes overlap
  (`blurred`), and when the last verdict of a test goes.
- `TestRun`: two requests that overlap on one test, other than two uploads or two
  acceptances, or a review before the session has ended, may leave its status stale
  (`mixed`); a request that dies between two writes does (`cut`). A check committed into a
  test that has ended does not reach its status until the next review. An acceptance
  during a session overwrites `Running`, so run.finished may be early; removing the last
  running test sends none. `test.finished` carries the document as it was before the
  update (`findByIdAndUpdate` without `new`), although WEBHOOKS.md says "updated".
- `Cleanup`: the value written back after a sweep replaces an edit made during it
  (`autoCleanupScheduler.ts:91`), hence `wanted`; a cache may be refreshed with a value
  read before a set; the settings form sends back the `lastRunAt` it was opened with;
  two servers may sweep within `MinInterval` by the age of a cache, or together while the
  sweep of one still runs, because `lastRunAt` is written after it. A sweep that never
  settles stops the scheduler of its server.
- `Client`: a `startTestSession` that throws before it has replaced `params.test` (a refused
  parameter, a browser that does not answer: `PlaywrightDriver.ts:113-120`) leaves the driver
  in the session before, and so its next checks. An acceptance that is repeated while its first
  request is still served may collide with it and stamp the row anew (`check.service.ts:130`),
  over a newer baseline (`met`). An answer lost by `startSession` leaves a running test that
  nobody ends; an acceptance may leave a row without the check saved; two drivers that both
  accept displace one another.
- `Baselines`: two acceptances that overlap may be dated in one order and inserted in
  the other, and a promotion, which copies the rows in insertion order, then makes the
  other one active (`fresh`). Accepting an older check again does not make it the
  newest. A collision inside a promotion ends it half-way. `compareCheck` looks regions
  up by snapshot, so a row that was promoted shares its regions with the first row
  inserted (`want`).
- `AdminJobs`: a release that rejects after the job was recorded as completed loses the
  slot until a restart, and so does one that rejects in the catch of `createJob`
  (`SlotLost` in `SlotsReturned`).

### Bounds

Two requests (instances, servers, drivers) are the interfering pair each hazard needs;
each starts again when it has finished, so long sequences are covered until ids or
counters run out. Where a module has a third party (an administrator, a crash) it
comes once, which is enough to fall between any two steps of the others.

- `SnapshotStore`: three snapshots are an original, a clone and a third check or a diff
  image. `MaxAccepts` bounds the rows inserted: one, and two where the loser of two racing
  upserts restamps its row. `Bounds` gives each kind of deployment its own instance in
  `quiet`; the theorems have neither. Identities are not symmetric because of the
  fallback.
- `Retention`: two tasks let the second work on what the first, perhaps dead half-way,
  has left; two rows of one identity let one be old and one new.
- `Baselines`: four insertions on two branches let a branch be accepted twice,
  promoted, and accepted or promoted again; five dates leave one for a restamped row.
- `Triage`: a lease of one unit covers the first classification of a batch of two and
  runs out in the second; two attempts let a check fail, be retried and be given up.
- `TestRun`: two tests are needed for run.finished; two checks for an upload beside a
  review; one cut. `MaxMixed`: one test may be mixed at a time, the other shows what it
  promises.
- `Cleanup`: `TTL` and `MinInterval` keep the order of their real values (30 s, 24 h by default)
  with the interval longer than two caches' ages.
- `Client`: four calls of drivers and reviewers are a session, a check, its end or a
  reviewer's acceptance or removal of the row, and one more; the acceptance by the driver
  itself is part of its check. One request may be late.
- `AdminJobs`: two jobs are one that loses its slot and one admitted beside it.
  `ArchiveLock` lists what uploaded archives hold of the semaphore: with one slot a
  backup was made by a job that held it, or by hand without the collection.

### Fairness

`SnapshotStore`, `Retention`, `Baselines` and `TestRun` assume none: all their
properties are safety properties and a request may die anywhere. In `AdminJobs` a
worker that can take a step takes one, because awaited file and database calls settle;
in `Triage` timers fire, awaited calls settle and time passes, and the call to the
provider is aborted when its timeout ends; in `Cleanup` polls and sweeps go on and
time passes; in `Client` the server answers or the connection breaks, and a driver
resumes after its delay. Users and administrators are never forced to act, nor is a
crash. `live` leaves out the rejection of an upload (a job that stays pending keeps
its slot until somebody cancels it) and has one slot, since a restored archive brings
the semaphore of another time with it.

Deadlock is checked in `SnapshotStore`. The other instances stop when their bounds
are reached and nobody asks for anything.

## Proofs

Every proof module extends the module it is about, and its theorems hold for all values of
the constants that the assumption named in that module allows: any number of requests,
snapshots, tests, servers, drivers or jobs, any bounds. TLC's instances are only where
the invariants were tried out first. Each theorem rests on an inductive invariant that is
stated in its proof module, on one lemma for each action saying which variables and
locals the step leaves, and on frame lemmas that carry the invariant over the actors that
do not move. A theorem that needs more than the assumption says so.

`SnapshotStoreProofs`, from `StoreAssumption` (`None` is a fresh value, no upload has
the hash of a diff image, `MainOf` is a function, `Deployments` are Booleans, `MaxAccepts`
a number):

- `TypeCorrect`, `TypesKept`: `Spec => []TypeInv` and its conjunct `[]TypeOK`.
  `TypeInv` adds to `TypeOK` which locals are set at which step (`ReqSet`), which
  fields a check has (`CheckSet`), and that two requests never build on the same
  new document (`DistinctCur`). Without these the actions that index `doc` or
  `fname` with a local could not be typed.
- `OriginalsKeepFiles`, `CleanupsArePrivate`: `OriginalKeepsFile` and `CleanupIsPrivate`,
  which are about replica sets, under every interleaving. `TxInv` says how a request, a
  check and a row constrain the life of the documents they name. `ReqDocs`: before its
  commit the documents of a request are invisible (`new` or `tx`). `DisjointIds`: they
  belong to that request alone. `CloneOf`: a document that names another one's file was
  copied from a visible one. `UnsavedHasFile`: a document on its way has its file.
  `RowSettled`, `CheckSettled`: rows and visible checks name settled documents only, which
  stops a removal from picking up a document of an open transaction. An unlink then hits
  the file of an original only if no visible document names it (`LastReference`) or its
  own remover is at work, and that remover next deletes the document.
- `QuietReferences`: `ReferencesResolve` if `SerialReview'` and `KeepRows` hold in every
  step, in both kinds of deployment. `RefInv` says who may refer to what: a baseline that
  is not the check's own image has a row (`Based`), a diff image belongs to one check
  (`DiffOf`), the documents of an upload to its own check (`Owned`). A remover that found
  no row (`Remover`) therefore deletes an image that only its own check, already gone,
  refers to.
- `QuietFiles`: `DocKeepsFile`, on a replica set, if `SerialClone'` holds in every step.
  `FileInv` adds to `TxInv` that the file an upload is about to name is there and that a
  remover about to unlink has no sharer (`HoldsFile`).

Both assume less than `QuietSpec`, which implies their hypotheses; the clone window does
not matter to references, nor rows and reviews to files. Together they give

- `QuietStoreConsistent`: `QuietSpec => []StoreConsistent`, in both kinds of deployment.
- `StoreIsALibrary`: `QuietSpec => ImplementsLibrary`. `LibraryInv` joins the invariants
  above with what the refinement needs besides: the document a remover works on has been
  saved (`Found`), and no document that a dead remover has left without its file is shown
  (`TornUnshown`). Then every step of a request either `Grows` the library (only a commit
  or a save makes an image `kept`, and what it shows is `kept` by then: `Publishes`) or
  `Shrinks` it (a removal loses only the image it is at, which nothing shows any more:
  `Withdraws`); `LibraryMoves` shows that there is no third kind. That an image which is
  lost never returns rests on ids being used once; that one which is kept is hidden before
  it is lost rests on `RefInv` and `FileInv`.
  `LibraryPromise` derives from the abstract module alone that what is shown is kept and
  what is lost is not.

`RetentionProofs`, from `StoreAssumption` and `RetentionAssumption` (bounds that are
numbers; `RetentionInit` chooses a replica set):

- `RetentionTypes`: `RetentionTypeOK` of `RetentionSpec`. `RetentionTypeInv` carries `TypeInv`
  over the steps of a task, for which it is enough that a task only deletes (`TaskFrame`).
- `TasksKeepFiles`, `TasksKeepReferences`, `RowsAreKept`, `OnlyBrokenGoes`: `StoreKeepsFile`,
  `ReferencesResolve`, `BaselineRowsKept` and `OnlyBrokenDeleted` of `ApartSpec`, for any
  number of requests and tasks. They share `RetentionInv`. The invariants of
  `SnapshotStoreProofs` could be used in part only: they say that what is referred to has
  a row, and tasks delete rows. `Works` says of a request what it relies on, `Whole` that
  whatever a row or a live check names has been saved. `FilesHeld` adds that nobody
  refers to a document that a dead task has left without its file (`TornUnused`), `Judged`
  and `RowsJudged` what a task has read and still holds: the snapshots in its loop are
  unused (`LoopUnused`), files about to go are named by no visible document
  (`UnlinkUnnamed`), what is taken for broken is broken for good (`BrokenKnown`), rows
  judged old are not the newest (`OldRowsOld`). Nothing but `Apart` is assumed of how
  requests and tasks interleave.
- `TasksAreHarmless`, `TasksKeepTheLibrary`: `TasksLoseNothing` and `ImplementsLibrary` of
  `ApartSpec`. Under `RetentionInv` what is shown is exactly what the code's own judgement
  of use comes to (`ShownUsed`), so a task, which loses only what is unused, makes a step of
  `Withdraw` (`TaskLibrary`). A request makes one of `Publish`, except an acceptance, whose
  write of the check may hide the baseline that the check was compared with
  (`RequestShows`, `RequestLibrary`).
- The steps come in two kinds. One of a request has an `Effect`: it decides the fate of its
  own documents only, so the others are `Away`, and what a task knows survives it unless
  it is one of the overlaps. One of a task is `Harmless`: it deletes only what nobody
  needs, so every `Works` survives.

`BaselinesProofs`, from `BaselinesAssumption`:

- `BaselinesTypes`; `Typed` adds the locals that each call needs (`Prepared`).
- `LaterBaselinesWin`: `LaterWins`. `Timeline`: ids and dates are behind their counters; a
  row that was settled before an acceptance was sent is dated before the date the
  acceptance carries, and nobody may restamp it (`Before`). A restamp reaches only a row
  inserted after the acceptance was sent (`found > seen`).
- `RegionsAreCarried`: `RegionsCarried`. `Wanted`: the row in force has the regions, and so has
  whatever a call in flight may bring into force: the row it inserts, the row it restamps,
  the rows left in front when it restamps to an older date (`AsksFor`). The proof failed
  first, because a request that had read the old regions could be under way when a user
  saved new ones; `EditRegions` then promises nothing.
- `PromotionsTakeOver`: `PromotionTakesOver`. `Dated`: no two rows or calls have a date in
  common. `Alone`: what is still to be promoted is exactly what the target lacks.

`TestRunProofs`, from `TestRunAssumption`:

- `TestRunTypes`; `Typed` says at which step a request of each kind can be, and that a
  check being created belongs to one transaction (`Owned`).
- `TestsAndChecksMeet`: `ChecksAndTests`. `Listed`: a list is complete and holds no check that
  was rolled back. `Whole`: a removal of a test knows all the checks still to remove.
- `EndsAreReported`: `FinishedReported`. `Told`: a test shows `Running` until its session
  ends; once all have ended, a request is about to count or has reported.
- `TestsShowTheirChecks`: `StatusAtRest`. `Agreed`: what each request has loaded or computed
  relates to the checks as they are now; among acceptances only `Failed` can turn into
  `Passed`, and if the status is behind the checks an acceptance that will write `Passed` is on
  its way (`Catches`). This is why overlapping acceptances are no `mixed` case. `Compares`:
  until its session ends a test has compared checks only, unless it is mixed, so that what
  `endSession` writes is what a review would.

`TriageProofs`, from `TriageAssumption`:

- `TriageTypes`, and `WorstIsFresh`: `WorstFollows` (`FreshInv`: what a worker is about to
  store is the worst verdict given so far).
- `LeasesExclude`, `VerdictsStay`, `EffectsStayBounded`: `LeaseExclusive`, `VerdictStays` and
  `EffectsBounded`, for any batch, lease and timeout. `LeaseInv`: a protected check has one
  place in one batch (`Once`), and its claim has not run out (`Covered`), since the step of
  time that ends a claim under a holder takes the check from `Protected`. `EffectsInv`
  counts: attempts in the document, in the locals of the worker and those really made
  differ by at most one for each crash.
- `TriageIsAQueue`: `ImplementsQueue`. Each action maps to a step of `LeaseQueue` or a
  stutter, with the checks that wait, the batch and the current check of each instance as
  owners, and the checks that are not protected as reissued.

`CleanupProofs`, from `CleanupAssumption`:

- `CleanupTypes`; `Typed` adds that a refreshed cache is fresh while its call lasts (`Awaited`).
- `EditsSurvive`: `EditSurvives`. `Kept`: the saved value, or what the scheduler makes of it, is
  in the database, in every answer and sweep under way, and in every cache younger than
  the edit.
- `SweepsAreNotStale`: `NoStaleSweep`. `TurnedOff`, `Gap`: a copy that is still enabled, or
  has an older `lastRunAt`, is at least as old as the write it has missed.

`ClientProofs`, from `ClientAssumption`:

- `ClientTypes`, `CallsLeaveOne`: `TypeOK` and `AtMostOnce` are part of one invariant, `Base`:
  one request of a call could still make something (`OneMaker`), and while the driver is
  to send another the call has made nothing (`NotYet`). Types alone are not inductive: ids
  of documents are bounded by the calls only because a call leaves one.
- `SessionsStay`: `SessionKept` (`Sessions`: a late request to stop is for a test its driver
  has left, one of a check is for the test of its session).
- `AcceptancesStay`: `AcceptanceKept`. `Acceptances`: all requests of a call name one image and
  one check, so that a repeated one finds the row of the first. `Races`: an upsert that
  collides was in flight together with the one that inserted the row.

`AdminJobsProofs`, from `JobsAssumption`:

- `JobTypes`, `OrderlyTypes`: `TypeOK` of `Spec` and of `OrderlySpec`. It is inductive as it
  stands, because a recovery step whose archive is gone throws (`FilesGone`) and a
  release leaves a count of zero alone (`ReleasedType`).
- `RunningIsWorked`: `OrderlySpec => []RunningHasWorker`, for any number of slots. `Known`: the
  step a worker is at determines the status and the entry of `activeTasks` (`Stages`),
  and so does the step of a request (`Requests`), since nobody else rewrites the record.
- `RestoresAreRecoverable`, `OneJobAtATime`: `DataRecoverable` and `AdmissionHolds` of
  `OrderlySpec` if `Max = 1` and `0 \notin ArchiveLock`. `Slots`: one job holds the slot, the
  semaphore is missing only under its restore, and safety archives hold it as taken.
  `Archives`: a half imported database has a complete archive of a job that restores or
  is over.

Model-checked only:

- Liveness (`Drained`, `SweptAgain`, `CallsReturn`, `JobsEnd`, `SlotsReturned`): liveness
  under fairness and ENABLED are out of the prover's reach. `PromotedIsActive` is false.
- `AdmissionHolds` and `DataRecoverable` for several slots, where they fail.

No module has a RECURSIVE operator, and what a fold computes for every input, which
needs an induction over data, is nowhere needed.

## Not modelled

- *Change signatures* (`services/changeSig`): a polling backfill without leases; writing
  a signature twice writes the same value.
- *DOM snapshots*: compressed files beside a check, deduplicated and unlinked like
  images, with the same count-then-unlink window (`dom-snapshot.service.ts:200`);
  removing a check deletes all with its id. No caller depends on them.
- *Authentication, SSO, users, shares, plugins*: request-local decisions over library
  code. In the store a plugin that skips a comparison is an outcome of `Compare`.
- *Webhooks, GitHub status, logs*: calls that change no state of the server. Posts for one
  commit may be reordered.
- *Comparison*: its control flow and outcomes are in `Compare`; the pixel arithmetic and
  the `node-resemble.js` package are numeric code without shared state. A worker that
  exits without a message leaves an upload pending.
- *HTTP layer, migrations, startup, UI, CLI*: routing, validation, one-off data
  conversions and views; their calls are the environment of the models.
- *Python and Groovy clients, cucumber services, MCP server*: thin or sequential
  callers of the same API without retries.

Most of the lines of the repository are these, above all UI layout and end-to-end test
support, which is why the models stand for a small share of its lines.

## Plan

1. Not yet modelled and worth it: several processes sharing the jobs directory, DOM
   snapshots, the mark (`markedAs`) of a test, the removal of empty tests and runs.
2. To prove: every invariant and action property of the runs is stated by a theorem. A
   refinement of the maintenance tasks by one that deletes in a single step would make
   `Apart` a statement about atomicity.
