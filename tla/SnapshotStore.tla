--------------------------- MODULE SnapshotStore ---------------------------
(***************************************************************************)
(* The image store of the Syngrisi server: VRSSnapshot documents, the PNG  *)
(* files they name, the VRSCheck documents and VRSBaseline rows that refer *)
(* to them, and the request handlers that change all four concurrently:    *)
(* createCheck (client.service), accept and removeCheck (check.service),   *)
(* snapshot remove (snapshot.service) and baseline remove.                 *)
(*                                                                         *)
(* A handler is an asynchronous function: every await is a point where the *)
(* other requests run.  `pc[p]' names the call request p performs next and *)
(* `loc[p]' holds what it has read so far.  Nothing locks the store; in a  *)
(* deployment on a replica set createCheck writes its documents in a       *)
(* transaction, files and all other handlers are never transactional.      *)
(***************************************************************************)
EXTENDS Naturals, FiniteSets

CONSTANTS
  Request,     \* requests that may be in flight at the same time
  Snap,        \* ObjectIds of snapshot documents; <id>.png is written `id'
  Ident,       \* check identities (name, viewport, browserName, os, app, branch)
  Hash,        \* image hashes that clients upload
  MainOf,      \* the identity on the project's main branch (itself: no fallback)
  Deployments, \* kinds of database: TRUE a replica set, FALSE a standalone one
  MaxAccepts,  \* bound on the baseline rows ever inserted
  DiffHash,    \* hash of a generated diff image: never that of an upload
  None         \* an unset reference

ASSUME StoreAssumption ==
  /\ None \notin Snap \cup Ident \cup Hash
  /\ DiffHash \notin Hash
  /\ MainOf \in [Ident -> Ident]
  /\ Deployments \subseteq BOOLEAN
  /\ MaxAccepts \in Nat

VARIABLES
  doc,      \* life of the snapshot document with this id
  fname,    \* its filename field: the id whose upload wrote the file
  imghash,  \* its imghash field
  file,     \* files present in the images directory
  row,      \* baseline row <<ident, snapshot>>: its createdDate, 0 if absent
  clock,    \* createdDate of the newest row ever inserted
  check,    \* the check whose actualSnapshotId is this id (each has its own)
  torn,     \* history: documents whose remover died after unlinking the file
  replicaSet, \* supportsTransactions(), the same answer to every request
  pc, loc   \* the requests: the next call of each, and its local variables

docVars == <<doc, fname, imghash>>
reqVars == <<pc, loc>>
vars == <<doc, fname, imghash, file, row, clock, check, torn, replicaSet, pc, loc>>

-----------------------------------------------------------------------------
(* Types *)

\* free: id never used; new: file being written, no document yet; tx: saved
\* inside an open transaction; saved: visible to everybody; gone: deleted;
\* void: rolled back or never saved.  Ids are never reused.
DocState == {"free", "new", "tx", "saved", "gone", "void"}

CheckRec == [st : {"none", "tx", "live", "gone"},
             ident : Ident \cup {None},
             base : Snap \cup {None},
             diff : Snap \cup {None}]

NoCheck == [st |-> "none", ident |-> None, base |-> None, diff |-> None]

CreateSteps == {"access", "clone", "write", "save", "find", "inspect",
                "compare", "diffWrite", "diffSave", "insert", "finish"}
RemoveSteps == {"rBaseline", "rDoc", "rOthers", "rUnlink", "rDelete"}
AcceptSteps == {"aUpsert", "aSave"}
Steps == {"idle", "cleanup"} \cup CreateSteps \cup RemoveSteps \cup AcceptSteps

\* The snapshots a removed check owns, in the order they are removed.
Stages == {"base", "actual", "diff"}

Locals == [ident : Ident \cup {None}, hash : Hash \cup {None},
           src : Snap \cup {None},   \* document found by hash, to clone
           cur : Snap \cup {None},   \* actualSnapshot
           base : Snap \cup {None},  \* currentBaselineSnapshot
           diff : Snap \cup {None},  \* diffSnapshot
           chk : Snap \cup {None},   \* the check being accepted or removed
           stage : Stages,           \* which of its snapshots is being removed
           last : BOOLEAN,           \* isLastSnapshotFile()
           link : BOOLEAN]           \* accept was given a baselineId

Blank == [ident |-> None, hash |-> None, src |-> None, cur |-> None,
          base |-> None, diff |-> None, chk |-> None, stage |-> "base",
          last |-> FALSE, link |-> FALSE]

TypeOK ==
  /\ doc \in [Snap -> DocState]
  /\ fname \in [Snap -> Snap]
  /\ imghash \in [Snap -> Hash \cup {DiffHash}]
  /\ file \subseteq Snap
  /\ row \in [Ident \X Snap -> Nat]
  /\ clock \in Nat
  /\ check \in [Snap -> CheckRec]
  /\ torn \subseteq Snap
  /\ replicaSet \in Deployments
  /\ pc \in [Request -> Steps]
  /\ loc \in [Request -> Locals]

Init ==
  /\ doc = [s \in Snap |-> "free"]
  /\ fname = [s \in Snap |-> s]
  /\ imghash = [s \in Snap |-> DiffHash]
  /\ file = {}
  /\ row = [k \in Ident \X Snap |-> 0]
  /\ clock = 0
  /\ check = [s \in Snap |-> NoCheck]
  /\ torn = {}
  /\ replicaSet \in Deployments
  /\ pc = [p \in Request |-> "idle"]
  /\ loc = [p \in Request |-> Blank]

-----------------------------------------------------------------------------
(* Helpers *)

Goto(p, step) == pc' = [pc EXCEPT ![p] = step]

Finish(p) == Goto(p, "idle") /\ loc' = [loc EXCEPT ![p] = Blank]

\* A document saved by createCheck is visible at once, or when it commits.
Inserted == IF replicaSet THEN "tx" ELSE "saved"

\* findAcceptedBaselineByIdent's candidates (accept writes no other mark),
\* with getAcceptedBaseline's fallback to the main branch when there is none.
RowsOf(i) == {s \in Snap : row[<<i, s>>] > 0}
BaselineIdent(i) == IF RowsOf(i) # {} THEN i ELSE MainOf[i]

\* The id of the snapshot request p is removing now.
Target(p) ==
  LET c == loc[p].chk IN
    IF loc[p].stage = "base" THEN check[c].base
    ELSE IF loc[p].stage = "actual" THEN c ELSE check[c].diff

\* Mutant: clean up without comparing the filename with the id.
MutCleanupFiles(p) == {fname[s] : s \in {loc[p].cur, loc[p].diff} \cap Snap}

\* The files cleanupOrphanFiles unlinks: the actual image only if this
\* request wrote it (its filename is <id>.png), and the diff image.
CleanupFiles(p) ==
  {s \in Snap : s \in {loc[p].cur, loc[p].diff} /\ fname[s] = s}

-----------------------------------------------------------------------------
(* createCheck *)

\* isNeedFiles: look the uploaded hash up among the visible documents.  The
\* branch that answers `needFiles' changes nothing and is not a step.  An
\* upload without hashCode is never looked up: its hash is computed later.
Lookup(p) ==
  /\ pc[p] = "idle"
  /\ \E i \in Ident, h \in Hash, hashCodeSent \in BOOLEAN :
       LET found == {s \in Snap : hashCodeSent /\ doc[s] = "saved" /\ imghash[s] = h} IN
         \/ \E s \in found :
              /\ Goto(p, "access")
              /\ loc' = [loc EXCEPT ![p] = [Blank EXCEPT !.ident = i, !.src = s]]
         \/ /\ found = {}
            /\ Goto(p, "write")
            /\ loc' = [loc EXCEPT ![p] = [Blank EXCEPT !.ident = i, !.hash = h]]
  /\ UNCHANGED <<docVars, file, row, clock, check, torn>>

\* Mutant: clone without checking that the file is there.
MutAccess(p) ==
  /\ pc[p] = "access"
  /\ Goto(p, "clone")
  /\ UNCHANGED <<docVars, file, row, clock, check, torn, loc>>

\* prepareActualSnapshot: the file of the document found must be readable.
Access(p) ==
  /\ pc[p] = "access"
  /\ fname[loc[p].src] \in file
  /\ Goto(p, "clone")
  /\ UNCHANGED <<docVars, file, row, clock, check, torn, loc>>

\* cloneSnapshot: a new document that shares the file of the one found.
Clone(p) ==
  /\ pc[p] = "clone"
  /\ \E s \in Snap :
       /\ doc[s] = "free"
       /\ doc' = [doc EXCEPT ![s] = Inserted]
       /\ fname' = [fname EXCEPT ![s] = fname[loc[p].src]]
       /\ imghash' = [imghash EXCEPT ![s] = imghash[loc[p].src]]
       /\ loc' = [loc EXCEPT ![p].cur = s]
  /\ Goto(p, "find")
  /\ UNCHANGED <<file, row, clock, check, torn>>

\* Mutant: the file is named by the hash of the image.
MutWriteFile(p) ==
  /\ pc[p] = "write"
  /\ \E s \in Snap :
       /\ doc[s] = "free"
       /\ doc' = [doc EXCEPT ![s] = "new"]
       /\ imghash' = [imghash EXCEPT ![s] = loc[p].hash]
       /\ file' = file \cup {loc[p].hash}
       /\ loc' = [loc EXCEPT ![p].cur = s]
  /\ Goto(p, "save")
  /\ UNCHANGED <<fname, row, clock, check, torn>>

\* createSnapshot writes <id>.png first ...
WriteFile(p) ==
  /\ pc[p] = "write"
  /\ \E s \in Snap :
       /\ doc[s] = "free"
       /\ doc' = [doc EXCEPT ![s] = "new"]
       /\ imghash' = [imghash EXCEPT ![s] = loc[p].hash]
       /\ file' = file \cup {s}
       /\ loc' = [loc EXCEPT ![p].cur = s]
  /\ Goto(p, "save")
  /\ UNCHANGED <<fname, row, clock, check, torn>>

\* ... and saves the document second.
SaveDoc(p) ==
  /\ pc[p] = "save"
  /\ doc' = [doc EXCEPT ![loc[p].cur] = Inserted]
  /\ Goto(p, "find")
  /\ UNCHANGED <<fname, imghash, file, row, clock, check, torn, loc>>

\* getAcceptedBaseline, then inspectBaseline's branch for `no baseline': the
\* check is new or not accepted, is not compared and is its own baseline.
FindBaseline(p) ==
  /\ pc[p] = "find"
  /\ LET i == BaselineIdent(loc[p].ident) IN
       \/ /\ RowsOf(i) = {}
          /\ loc' = [loc EXCEPT ![p].base = loc[p].cur]
          /\ Goto(p, "insert")
       \/ \E s \in RowsOf(i) :
            /\ \A t \in RowsOf(i) : row[<<i, t>>] <= row[<<i, s>>]
            /\ loc' = [loc EXCEPT ![p].base = s]
            /\ Goto(p, "inspect")
  /\ UNCHANGED <<docVars, file, row, clock, check, torn>>

\* inspectBaseline: load the baseline's snapshot.  A row whose snapshot is
\* missing (a zombie baseline) is treated as no baseline.
Inspect(p) ==
  /\ pc[p] = "inspect"
  /\ \/ /\ doc[loc[p].base] = "saved"
        /\ Goto(p, "compare")
        /\ UNCHANGED loc
     \/ /\ doc[loc[p].base] # "saved"
        /\ loc' = [loc EXCEPT ![p].base = loc[p].cur]
        /\ Goto(p, "insert")
  /\ UNCHANGED <<docVars, file, row, clock, check, torn>>

\* compareCheck: equal hashes are equal images, a plugin may skip the
\* comparison; otherwise both files are read (a missing one rejects: Fail)
\* and the images differ or, within tolerance, do not.
Compare(p) ==
  /\ pc[p] = "compare"
  /\ \/ Goto(p, "insert")
     \/ /\ imghash[loc[p].base] # imghash[loc[p].cur]
        /\ {fname[loc[p].base], fname[loc[p].cur]} \subseteq file
        /\ Goto(p, "diffWrite")
  /\ UNCHANGED <<docVars, file, row, clock, check, torn, loc>>

\* createSnapshot for the diff image: the file ...
DiffWrite(p) ==
  /\ pc[p] = "diffWrite"
  /\ \E s \in Snap :
       /\ doc[s] = "free"
       /\ doc' = [doc EXCEPT ![s] = "new"]
       /\ file' = file \cup {s}
       /\ loc' = [loc EXCEPT ![p].diff = s]
  /\ Goto(p, "diffSave")
  /\ UNCHANGED <<fname, imghash, row, clock, check, torn>>

\* ... and the document.
DiffSave(p) ==
  /\ pc[p] = "diffSave"
  /\ doc' = [doc EXCEPT ![loc[p].diff] = Inserted]
  /\ Goto(p, "insert")
  /\ UNCHANGED <<fname, imghash, file, row, clock, check, torn, loc>>

\* createCheckDocument.
InsertCheck(p) ==
  /\ pc[p] = "insert"
  /\ check' = [check EXCEPT ![loc[p].cur] =
                 [st |-> IF replicaSet THEN "tx" ELSE "live", ident |-> loc[p].ident,
                  base |-> loc[p].base, diff |-> loc[p].diff]]
  /\ Goto(p, "finish")
  /\ UNCHANGED <<docVars, file, row, clock, torn, loc>>

\* After the test, suite and run are updated: commit, which makes the
\* transaction's documents visible, and answer.
Commit(p) ==
  /\ pc[p] = "finish"
  /\ doc' = [s \in Snap |-> IF s \in {loc[p].cur, loc[p].diff} /\ doc[s] = "tx"
                            THEN "saved" ELSE doc[s]]
  /\ check' = [check EXCEPT ![loc[p].cur].st = IF @ = "tx" THEN "live" ELSE @]
  /\ Finish(p)
  /\ UNCHANGED <<fname, imghash, file, row, clock, torn>>

\* What an aborted transaction, or a save that never happened, leaves of the
\* documents of request p: nothing.
RollBackDocs(p) ==
  /\ doc' = [s \in Snap |-> IF s \in {loc[p].cur, loc[p].diff} /\ doc[s] \in {"new", "tx"}
                            THEN "void" ELSE doc[s]]
  /\ check' = [s \in Snap |-> IF s = loc[p].cur /\ check[s].st = "tx"
                              THEN NoCheck ELSE check[s]]

\* The catch block: any awaited call of createCheck may reject.  Abort the
\* transaction if there is one; the files to clean up are those of the
\* snapshots createCheck has been handed: not one whose save() rejected.  (When
\* the commit itself rejects, so does the abort: no cleanup, which is Die.)
Fail(p) ==
  /\ pc[p] \in CreateSteps
  /\ RollBackDocs(p)
  /\ \/ /\ pc[p] \in {"access", "clone", "write", "save"}
        /\ Finish(p)
     \/ /\ pc[p] \notin {"access", "clone", "write", "save"}
        /\ Goto(p, "cleanup")
        /\ loc' = [loc EXCEPT ![p].diff = IF pc[p] = "diffSave" THEN None ELSE @]
  /\ UNCHANGED <<fname, imghash, file, row, clock, torn>>

\* cleanupOrphanFiles, then the 500 answer.
Cleanup(p) ==
  /\ pc[p] = "cleanup"
  /\ file' = file \ CleanupFiles(p)
  /\ Finish(p)
  /\ UNCHANGED <<docVars, row, clock, check, torn>>

-----------------------------------------------------------------------------
(* accept *)

\* Check.findById, Test.findById.  The UI and test.accept pass a baselineId
\* (the check's own actual snapshot), the triage auto-accept an empty one.
AcceptStart(p) ==
  /\ pc[p] = "idle"
  /\ \E c \in Snap, withBaselineId \in BOOLEAN :
       /\ check[c].st = "live"
       /\ loc' = [loc EXCEPT ![p] = [Blank EXCEPT !.chk = c, !.link = withBaselineId]]
  /\ Goto(p, "aUpsert")
  /\ UNCHANGED <<docVars, file, row, clock, check, torn>>

\* createNewBaseline: upsert the row of (identity, actual snapshot).  An
\* existing row keeps its createdDate ($setOnInsert); only the loser of two
\* upserts that raced on the unique index stamps it anew.
AcceptUpsert(p) ==
  /\ pc[p] = "aUpsert"
  /\ LET k == <<check[loc[p].chk].ident, loc[p].chk>> IN
       \/ row[k] > 0 /\ UNCHANGED <<row, clock>>
       \/ /\ \/ row[k] = 0
             \/ \E q \in Request \ {p} : pc[q] = "aSave" /\ loc[q].chk = loc[p].chk
          /\ clock < MaxAccepts
          /\ clock' = clock + 1
          /\ row' = [row EXCEPT ![k] = clock + 1]
  /\ Goto(p, "aSave")
  /\ UNCHANGED <<docVars, file, check, torn, loc>>

\* check.save: writes the modified paths; rejects if the check was deleted.
AcceptSave(p) ==
  /\ pc[p] = "aSave"
  /\ LET c == loc[p].chk IN
       check' = [check EXCEPT ![c].base =
                   IF check[c].st = "live" /\ loc[p].link THEN c ELSE @]
  /\ Finish(p)
  /\ UNCHANGED <<docVars, file, row, clock, torn>>

-----------------------------------------------------------------------------
(* removeCheck and snapshot remove *)

\* Check.findByIdAndDelete; then its snapshots, the baseline's first.
RemoveStart(p) ==
  /\ pc[p] = "idle"
  /\ \E c \in Snap :
       /\ check[c].st = "live"
       /\ check' = [check EXCEPT ![c].st = "gone"]
       /\ loc' = [loc EXCEPT ![p] = [Blank EXCEPT !.chk = c]]
  /\ Goto(p, "rBaseline")
  /\ UNCHANGED <<docVars, file, row, clock, torn>>

\* The next snapshot of the check, or the end of the handler.
NextTarget(p) ==
  \/ /\ loc[p].stage = "base"
     /\ loc' = [loc EXCEPT ![p].stage = "actual", ![p].last = FALSE]
     /\ Goto(p, "rBaseline")
  \/ /\ loc[p].stage = "actual"
     /\ check[loc[p].chk].diff # None
     /\ loc' = [loc EXCEPT ![p].stage = "diff", ![p].last = FALSE]
     /\ Goto(p, "rBaseline")
  \/ /\ loc[p].stage = "diff" \/ (loc[p].stage = "actual" /\ check[loc[p].chk].diff = None)
     /\ Finish(p)

\* Mutant: remove the snapshot whether a baseline names it or not.
MutRemoveCheckBaseline(p) ==
  /\ pc[p] = "rBaseline"
  /\ Goto(p, "rDoc")
  /\ UNCHANGED <<docVars, file, row, clock, check, torn, loc>>

\* Baseline.findOne: a snapshot some baseline names is not removed.
RemoveCheckBaseline(p) ==
  /\ pc[p] = "rBaseline"
  /\ \/ (\E i \in Ident : row[<<i, Target(p)>>] > 0) /\ NextTarget(p)
     \/ /\ \A i \in Ident : row[<<i, Target(p)>>] = 0
        /\ Goto(p, "rDoc")
        /\ UNCHANGED loc
  /\ UNCHANGED <<docVars, file, row, clock, check, torn>>

\* Snapshot.findById.
RemoveFindDoc(p) ==
  /\ pc[p] = "rDoc"
  /\ \/ doc[Target(p)] # "saved" /\ NextTarget(p)
     \/ doc[Target(p)] = "saved" /\ Goto(p, "rOthers") /\ UNCHANGED loc
  /\ UNCHANGED <<docVars, file, row, clock, check, torn>>

\* Mutant: match on _id instead of filename: nothing is ever shared.
MutSharers(t) == {s \in {t} \ {t} : doc[s] = "saved"}

\* The visible documents, other than this one, with the same filename.
Sharers(t) == {s \in Snap \ {t} : doc[s] = "saved" /\ fname[s] = fname[t]}

\* removeSnapshotFile: is this the last reference to the file?
RemoveFindOthers(p) ==
  /\ pc[p] = "rOthers"
  /\ LET last == Sharers(Target(p)) = {} IN
       /\ loc' = [loc EXCEPT ![p].last = last]
       /\ Goto(p, IF last THEN "rUnlink" ELSE "rDelete")
  /\ UNCHANGED <<docVars, file, row, clock, check, torn>>

\* unlink; a file that is already missing is ignored.
RemoveUnlink(p) ==
  /\ pc[p] = "rUnlink"
  /\ file' = file \ {fname[Target(p)]}
  /\ Goto(p, "rDelete")
  /\ UNCHANGED <<docVars, row, clock, check, torn, loc>>

\* Snapshot.findByIdAndDelete.
RemoveDelete(p) ==
  /\ pc[p] = "rDelete"
  /\ doc' = [doc EXCEPT ![Target(p)] = "gone"]
  /\ NextTarget(p)
  /\ UNCHANGED <<fname, imghash, file, row, clock, check, torn>>

-----------------------------------------------------------------------------
(* Baseline removal and failures *)

\* baseline.service remove: the row only, its snapshot stays.
RemoveBaseline(k) ==
  /\ row[k] > 0
  /\ row' = [row EXCEPT ![k] = 0]
  /\ UNCHANGED <<docVars, file, clock, check, torn, reqVars>>

\* The server process serving p dies, or a call of accept or removeCheck
\* rejects (neither has a cleanup): the request ends where it stands and
\* the database rolls an open transaction back.
Die(p) ==
  /\ pc[p] # "idle"
  /\ RollBackDocs(p)
  /\ torn' = IF pc[p] = "rDelete" /\ loc[p].last THEN torn \cup {Target(p)} ELSE torn
  /\ Finish(p)
  /\ UNCHANGED <<fname, imghash, file, row, clock>>

CreateStep(p) ==
  \/ Lookup(p) \/ Access(p) \/ Clone(p) \/ WriteFile(p) \/ SaveDoc(p)
  \/ FindBaseline(p) \/ Inspect(p) \/ Compare(p) \/ DiffWrite(p) \/ DiffSave(p)
  \/ InsertCheck(p) \/ Commit(p) \/ Fail(p) \/ Cleanup(p)

AcceptStep(p) == AcceptStart(p) \/ AcceptUpsert(p) \/ AcceptSave(p)

RemoveStep(p) ==
  \/ RemoveStart(p) \/ RemoveCheckBaseline(p) \/ RemoveFindDoc(p)
  \/ RemoveFindOthers(p) \/ RemoveUnlink(p) \/ RemoveDelete(p)

Next ==
  /\ \/ \E p \in Request : CreateStep(p) \/ AcceptStep(p) \/ RemoveStep(p) \/ Die(p)
     \/ \E k \in Ident \X Snap : RemoveBaseline(k)
  /\ UNCHANGED replicaSet

Spec == Init /\ [][Next]_vars

-----------------------------------------------------------------------------
(* Properties *)

\* The remover of d has unlinked d's file and is about to delete d.
BeingDeleted(d) ==
  \E p \in Request : pc[p] = "rDelete" /\ loc[p].last /\ Target(p) = d

\* The document that wrote its own file (not a clone) has that file for as
\* long as it is visible, whatever uploads, failures, crashes and removals of
\* it and of its clones interleave: in a deployment with transactions.
OriginalKeepsFile ==
  replicaSet => \A d \in Snap :
    doc[d] = "saved" /\ fname[d] = d /\ d \notin torn /\ ~BeingDeleted(d)
      => d \in file

\* The files a failed createCheck unlinks are private to it: no visible
\* document of any other request names them (with transactions).
CleanupIsPrivate ==
  replicaSet => \A p \in Request : pc[p] = "cleanup" =>
    \A d \in Snap : doc[d] = "saved" => fname[d] \notin CleanupFiles(p)

\* Every visible document, clone or not, has the file it names.
DocKeepsFile ==
  replicaSet => \A d \in Snap :
    doc[d] = "saved" /\ d \notin torn /\ ~BeingDeleted(d) => fname[d] \in file

\* A baseline row names a visible snapshot: there are no zombie baselines.
BaselineKeepsDoc ==
  \A k \in Ident \X Snap : row[k] > 0 => doc[k[2]] = "saved"

\* The three snapshots of a check the UI can open are all visible documents.
LiveCheckResolves ==
  \A c \in Snap : check[c].st = "live" =>
    \A s \in {c, check[c].base, check[c].diff} \ {None} : doc[s] = "saved"

\* Whatever the UI follows, from a row or from a check, leads to a snapshot.
ReferencesResolve == BaselineKeepsDoc /\ LiveCheckResolves

\* The store is consistent: references lead to documents, documents to files.
StoreConsistent == ReferencesResolve /\ DocKeepsFile

\* What the UI leads to: the images of baseline rows and of visible checks.
Shown ==
  {s \in Snap :
     \/ \E i \in Ident : row[<<i, s>>] > 0
     \/ \E c \in Snap : check[c].st = "live" /\ s \in {c, check[c].base, check[c].diff}}

\* An image can be seen if its document is visible and, on a replica set, the
\* file is there.  (Without transactions the document of a failed upload stays
\* behind without it; there the promise is about documents only.)
Life(s) ==
  CASE doc[s] = "saved" /\ (replicaSet => fname[s] \in file) -> "kept"
    [] doc[s] = "gone" \/ (doc[s] = "saved" /\ replicaSet /\ fname[s] \notin file) -> "lost"
    [] OTHER -> "none"

Library == INSTANCE ImageLibrary WITH
  Image <- Snap,
  kept <- {s \in Snap : Life(s) = "kept"},
  lost <- {s \in Snap : Life(s) = "lost"},
  shown <- Shown

\* The store implements the abstract library: it shows only images that can be
\* seen, and an image goes only when nothing shows it, never to come back.
ImplementsLibrary == Library!LibrarySpec

-----------------------------------------------------------------------------
(* The quiet environment.  Nothing in the code excludes the three overlaps    *)
(* below; with them excluded the store is consistent, so they are the only    *)
(* ways in which it loses an image.                                          *)

\* Nobody accepts a check while another request removes it.
SerialReview ==
  \A p, q \in Request :
    ~(pc[p] \in AcceptSteps /\ pc[q] \in RemoveSteps /\ loc[p].chk = loc[q].chk)

\* Request p holds a file it has accessed but whose clone is not visible yet.
CloneWindow(p, f) ==
  \/ pc[p] = "clone" /\ fname[loc[p].src] = f
  \/ \E s \in Snap : s = loc[p].cur /\ doc[s] = "tx" /\ fname[s] = f

\* Nobody clones a file between the remover's last reference query and unlink.
SerialClone ==
  \A p, q \in Request :
    pc[q] = "rUnlink" => ~CloneWindow(p, fname[Target(q)])

\* No baseline row is deleted.
KeepRows == \A k \in Ident \X Snap : row[k] > 0 => row'[k] > 0

Quiet == SerialReview' /\ SerialClone' /\ KeepRows

QuietSpec == Init /\ [][Next /\ Quiet]_vars
=============================================================================
