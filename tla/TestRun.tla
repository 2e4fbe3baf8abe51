------------------------------ MODULE TestRun ------------------------------
(***************************************************************************)
(* The tests of one run, their checks, and what a test says of its checks: *)
(* the status is computed from the checks by every request that changes    *)
(* one, in a step of its own, and written by save(), which sends it only   *)
(* if it differs from what the request had loaded.  markedAs, computed     *)
(* next to the status by the same requests, is left out.                   *)
(*                                                                         *)
(* Requests: startSession and endSession (test-run.service), createCheck   *)
(* as far as it concerns the test (client.service), accept, update,        *)
(* recompare and removeCheck (check.service), and removal of a test        *)
(* (test.service).  createCheck runs in a transaction: what it writes is   *)
(* invisible until it commits, it loses to a test written since it began,  *)
(* and a test that it has written is locked until it ends.                 *)
(***************************************************************************)
EXTENDS Naturals, FiniteSets

CONSTANTS
  Request,  \* requests in flight at the same time
  Test,     \* ObjectIds of tests of the run
  Check,    \* ObjectIds of checks
  MaxCuts,  \* bound: tests a request on which dies half-way
  MaxMixed, \* bound: tests whose requests overlap in ways that few users bring about
  None      \* no test, no check

ASSUME TestRunAssumption == None \notin Test \cup Check

VARIABLES
  test,      \* test documents
  check,     \* check documents
  pc, loc,   \* requests: the call that is next, and the local variables
  finished,  \* run.finished was sent after the newest test had started
  mixed,     \* history: tests whose requests have overlapped
  cut        \* history: tests a request on which died after its first write

docVars == <<test, check>>
reqVars == <<pc, loc>>
sentVars == <<finished, cut>>
vars == <<test, check, pc, loc, finished, mixed, cut>>

-----------------------------------------------------------------------------
(* Types *)

\* A check has one of the first three from compareCheck; "other" stands for pending,
\* approved, running, aborted, and for what update, which runs no validators, takes
\* besides these.
Compared == {"new", "passed", "failed"}
CheckStatus == Compared \cup {"blinking", "other"}
TestStatus == {"Running", "New", "Passed", "Failed", "not set"}

TestDoc == [st : {"free", "live", "gone"},
            status : TestStatus,
            checks : SUBSET Check,
            ended : BOOLEAN]  \* history: endSession has written the status
NewTest == [st |-> "live", status |-> "Running", checks |-> {}, ended |-> FALSE]

\* tx: created in a transaction that is open.
CheckDoc == [st : {"free", "tx", "live", "gone", "void"},
             test : Test \cup {None},
             status : CheckStatus]

NewCheck == [st |-> "free", test |-> None, status |-> "new"]

CreateSteps == {"cBegin", "cInsert", "cSave", "cCommit"}
EndSteps == {"eRead", "eUpdate", "eCount"}
ReviewSteps == {"aCheck", "uCheck", "dLoad", "tStatus", "tSave"}
RemoveSteps == {"xNext", "xTest"}
Steps == {"idle"} \cup CreateSteps \cup EndSteps \cup ReviewSteps \cup RemoveSteps

Kinds == {"none", "create", "end", "accept", "change", "remove", "removeTest"}

Locals == [kind : Kinds,
           test : Test \cup {None},
           check : Check \cup {None},
           status : TestStatus,    \* test.status: loaded, then computed
           dirty : BOOLEAN,        \* test.status differs from what was loaded
           to : CheckStatus,       \* status to be saved in the check
           first : BOOLEAN,        \* createCheck sets the test's creator
           stale : BOOLEAN,        \* test written by others since the begin
           rest : SUBSET Check]    \* checks of the test still to be removed

Blank == [kind |-> "none", test |-> None, check |-> None, status |-> "Running",
          dirty |-> FALSE, to |-> "new", first |-> FALSE, stale |-> FALSE,
          rest |-> {}]

TypeOK ==
  /\ test \in [Test -> TestDoc]
  /\ check \in [Check -> CheckDoc]
  /\ pc \in [Request -> Steps]
  /\ loc \in [Request -> Locals]
  /\ finished \in BOOLEAN
  /\ mixed \subseteq Test
  /\ cut \subseteq Test

Init ==
  /\ test = [t \in Test |-> [NewTest EXCEPT !.st = "free"]]
  /\ check = [c \in Check |-> NewCheck]
  /\ pc = [p \in Request |-> "idle"]
  /\ loc = [p \in Request |-> Blank]
  /\ finished = FALSE
  /\ mixed = {}
  /\ cut = {}

-----------------------------------------------------------------------------
(* What the queries return and what is computed from it *)

LiveTests == {t \in Test : test[t].st = "live"}
ChecksOf(t) == {c \in Check : check[c].st = "live" /\ check[c].test = t}
Statuses(t) == {check[c].status : c \in ChecksOf(t)}

\* Mutant: the status of the check is taken for that of the test.
MutStatusAtEnd(t) ==
  LET S == Statuses(t) IN
    IF S \subseteq {"new"} THEN "New"
    ELSE IF "failed" \in S THEN "failed"
    ELSE IF S \subseteq {"other"} THEN "not set" ELSE "Passed"

\* calculateTestStatus of endSession: the conditions follow one another, the
\* last that holds decides.
StatusAtEnd(t) ==
  LET S == Statuses(t) IN
    IF S \subseteq {"new"} THEN "New"
    ELSE IF "failed" \in S THEN "Failed"
    ELSE IF S \subseteq {"other"} THEN "not set" ELSE "Passed"

\* calculateTestStatus of check.service, a second function of that name.
StatusOnReview(t) ==
  LET S == Statuses(t) IN
    IF S \subseteq {"new"} THEN "New"
    ELSE IF S \subseteq {"new", "passed"} THEN "Passed" ELSE "Failed"

Goto(p, step) == pc' = [pc EXCEPT ![p] = step]
Finish(p) == Goto(p, "idle") /\ loc' = [loc EXCEPT ![p] = Blank]

\* A transaction that has written the test holds it until it ends.
Locked(t) ==
  \E q \in Request : loc[q].test = t /\
    (pc[q] = "cCommit" \/ (loc[q].first /\ pc[q] \in {"cInsert", "cSave"}))

\* Transactions that have begun and will find the test changed.
MarkStale(t, l) ==
  [q \in Request |-> IF l[q].test = t /\ pc[q] \in {"cInsert", "cSave"}
                     THEN [l[q] EXCEPT !.stale = TRUE] ELSE l[q]]

\* History: requests on one test that no user of the SDK and one reviewer make
\* at the same time; acceptances may overlap, and so may creations.
Overlap(p, t, kind) ==
  \/ \E q \in Request \ {p} : pc[q] # "idle" /\ loc[q].test = t
       /\ ~(loc[q].kind = kind /\ kind \in {"accept", "create"})
  \/ kind \notin {"create", "end"} /\ ~test[t].ended

Start(p, kind, step, l) ==
  /\ pc[p] = "idle"
  /\ Goto(p, step)
  /\ loc' = [loc EXCEPT ![p] = [l EXCEPT !.kind = kind]]
  /\ mixed' = mixed \cup {t \in {l.test} : Overlap(p, t, kind)}
  /\ Cardinality(mixed') <= MaxMixed

\* The documents without the checks of C.
Deleted(C) == [c \in Check |-> IF c \in C THEN [NewCheck EXCEPT !.st = "gone"] ELSE check[c]]

\* Locals of a request that has loaded test t.
Loaded(t, l) == [l EXCEPT !.test = t, !.status = test[t].status, !.dirty = FALSE]

-----------------------------------------------------------------------------
(* Sessions *)

\* App, run and suite are upserted, then the test is created.
StartSession(t) ==
  /\ test[t].st = "free"
  /\ test' = [test EXCEPT ![t] = NewTest]
  /\ finished' = FALSE
  /\ UNCHANGED <<check, reqVars, mixed, cut>>

\* waitUntil gives up after its attempts: endSession goes on with any checks.
\* A client ends a session once and adds no check to one that has ended.
Open == {t \in LiveTests : ~test[t].ended}
EndSession(p) ==
  /\ \E t \in Open : Start(p, "end", "eRead", [Blank EXCEPT !.test = t])
  /\ UNCHANGED <<docVars, sentVars>>

EndRead(p) ==
  /\ pc[p] = "eRead"
  /\ loc' = [loc EXCEPT ![p].status = StatusAtEnd(loc[p].test)]
  /\ Goto(p, "eUpdate")
  /\ UNCHANGED <<docVars, sentVars, mixed>>

\* A test that is gone is not updated.
EndUpdate(p) ==
  /\ pc[p] = "eUpdate"
  /\ LET t == loc[p].test IN
       \/ /\ test[t].st = "live"
          /\ ~Locked(t)
          /\ test' = [test EXCEPT ![t].status = loc[p].status, ![t].ended = TRUE]
          /\ loc' = [MarkStale(t, loc) EXCEPT ![p].status = "Running"]
          /\ Goto(p, "eCount")
       \/ test[t].st # "live" /\ Finish(p) /\ UNCHANGED test
  /\ UNCHANGED <<check, finished, mixed, cut>>

\* Mutant: a test whose checks have no baseline yet counts as unfinished.
MutEndCount(p) ==
  /\ pc[p] = "eCount"
  /\ finished' = (finished \/ \A t \in LiveTests : test[t].status \in {"Passed", "Failed"})
  /\ Finish(p)
  /\ UNCHANGED <<docVars, mixed, cut>>

\* run.finished once no test of the run is Running.
EndCount(p) ==
  /\ pc[p] = "eCount"
  /\ finished' = (finished \/ \A t \in LiveTests : test[t].status # "Running")
  /\ Finish(p)
  /\ UNCHANGED <<docVars, mixed, cut>>

-----------------------------------------------------------------------------
(* createCheck *)

CreateCheck(p) ==
  /\ \E t \in Open :
       Start(p, "create", "cBegin",
             [Blank EXCEPT !.test = t, !.first = test[t].checks = {}])
  /\ UNCHANGED <<docVars, sentVars>>

\* The transaction begins; the first check of a test writes its creator, and
\* two transactions that do conflict.
CreateBegin(p) ==
  /\ pc[p] = "cBegin"
  /\ loc[p].first => test[loc[p].test].st = "live" /\ ~Locked(loc[p].test)
  /\ Goto(p, "cInsert")
  /\ loc' = [(IF loc[p].first THEN MarkStale(loc[p].test, loc) ELSE loc)
               EXCEPT ![p].stale = FALSE]
  /\ UNCHANGED <<docVars, sentVars, mixed>>

\* A check gets its status from its comparison, or from there being none.
CreateInsert(p) ==
  /\ pc[p] = "cInsert"
  /\ \E c \in Check, s \in Compared :
       /\ check[c].st = "free"
       /\ check' = [check EXCEPT ![c] = [st |-> "tx", test |-> loc[p].test, status |-> s]]
       /\ loc' = [loc EXCEPT ![p].check = c]
  /\ Goto(p, "cSave")
  /\ UNCHANGED <<test, sentVars, mixed>>

\* Mutant: the test is saved without the session of the transaction.
MutCreateSave(p) ==
  /\ pc[p] = "cSave"
  /\ test[loc[p].test].st = "live"
  /\ test' = [test EXCEPT ![loc[p].test].checks = @ \cup {loc[p].check}]
  /\ Goto(p, "cCommit")
  /\ UNCHANGED <<check, sentVars, mixed, loc>>

\* test.save in the transaction: conflicts with whoever wrote the test since.
CreateSave(p) ==
  /\ pc[p] = "cSave"
  /\ test[loc[p].test].st = "live"
  /\ ~loc[p].stale
  /\ \A q \in Request \ {p} : ~(pc[q] = "cCommit" /\ loc[q].test = loc[p].test)
  /\ Goto(p, "cCommit")
  /\ UNCHANGED <<docVars, sentVars, mixed, loc>>

CreateCommit(p) ==
  /\ pc[p] = "cCommit"
  /\ LET t == loc[p].test IN
       /\ test' = [test EXCEPT ![t].checks = @ \cup {loc[p].check}]
       /\ loc' = [MarkStale(t, loc) EXCEPT ![p] = Blank]
  /\ check' = [check EXCEPT ![loc[p].check].st = "live"]
  /\ Goto(p, "idle")
  /\ UNCHANGED <<sentVars, mixed>>

-----------------------------------------------------------------------------
(* Reviews: accept, update, recompare, removeCheck *)

\* accept loads the check and the test before it writes either.
Accept(p) ==
  /\ \E c \in Check :
       /\ check[c].st = "live" /\ test[check[c].test].st = "live"
       /\ Start(p, "accept", "aCheck",
                [Loaded(check[c].test, Blank) EXCEPT
                   !.check = c,
                   !.to = IF check[c].status = "new" THEN "new" ELSE "passed"])
  /\ UNCHANGED <<docVars, sentVars>>

\* check.save after the baseline was upserted; rejects if the check is gone.
AcceptCheck(p) ==
  /\ pc[p] = "aCheck"
  /\ check[loc[p].check].st = "live"
  /\ check' = [check EXCEPT ![loc[p].check].status = loc[p].to]
  /\ loc' = [loc EXCEPT ![p].check = None, ![p].to = "new"]
  /\ Goto(p, "tStatus")
  /\ UNCHANGED <<test, sentVars, mixed>>

\* update takes any status from its caller, recompare compares again; a test
\* that recompare does not find is no error, the request ends there as in Die.
Change(p) ==
  /\ \E c \in Check, s \in CheckStatus :
       /\ check[c].st = "live"
       /\ Start(p, "change", "uCheck",
                [Blank EXCEPT !.test = check[c].test, !.check = c, !.to = s])
  /\ UNCHANGED <<docVars, sentVars>>

ChangeCheck(p) ==
  /\ pc[p] = "uCheck"
  /\ check[loc[p].check].st = "live"
  /\ check' = [check EXCEPT ![loc[p].check].status = loc[p].to]
  /\ loc' = [loc EXCEPT ![p].check = None, ![p].to = "new"]
  /\ Goto(p, "dLoad")
  /\ UNCHANGED <<test, sentVars, mixed>>

\* removeCheck deletes first.
Remove(p) ==
  /\ \E c \in Check :
       /\ check[c].st = "live"
       /\ Start(p, "remove", "dLoad", [Blank EXCEPT !.test = check[c].test])
       /\ check' = Deleted({c})
  /\ UNCHANGED <<test, sentVars>>

\* Test.findById after the check was written.
LoadTest(p) ==
  /\ pc[p] = "dLoad"
  /\ test[loc[p].test].st = "live"
  /\ loc' = [loc EXCEPT ![p] = Loaded(loc[p].test, loc[p])]
  /\ Goto(p, "tStatus")
  /\ UNCHANGED <<docVars, sentVars, mixed>>

\* Mutant: the status is taken from what the request had loaded.
MutStatus(p) ==
  /\ pc[p] = "tStatus"
  /\ loc' = [loc EXCEPT ![p].dirty = TRUE]
  /\ Goto(p, "tSave")
  /\ UNCHANGED <<docVars, sentVars, mixed>>

\* test.status = calculateTestStatus.
Status(p) ==
  /\ pc[p] = "tStatus"
  /\ LET s == StatusOnReview(loc[p].test) IN
       loc' = [loc EXCEPT ![p].status = s, ![p].dirty = s # loc[p].status]
  /\ Goto(p, "tSave")
  /\ UNCHANGED <<docVars, sentVars, mixed>>

\* test.save waits for a transaction that holds the test.
SaveTest(p) ==
  /\ pc[p] = "tSave"
  /\ LET t == loc[p].test IN
       /\ test[t].st = "live"
       /\ ~Locked(t)
       /\ test' = [test EXCEPT ![t].status = IF loc[p].dirty THEN loc[p].status ELSE @]
       /\ IF loc[p].kind = "removeTest"
            THEN /\ Goto(p, "xNext")
                 /\ loc' = [MarkStale(t, loc) EXCEPT ![p].status = "Running", ![p].dirty = FALSE]
            ELSE Goto(p, "idle") /\ loc' = [MarkStale(t, loc) EXCEPT ![p] = Blank]
  /\ UNCHANGED <<check, sentVars, mixed>>

-----------------------------------------------------------------------------
(* Removal of a test *)

RemoveTest(p) ==
  /\ \E t \in LiveTests :
       Start(p, "removeTest", "xNext", [Blank EXCEPT !.test = t, !.rest = ChecksOf(t)])
  /\ UNCHANGED <<docVars, sentVars>>

\* removeCheck of the next check; one that is already gone rejects (Die).
RemoveNext(p) ==
  /\ pc[p] = "xNext"
  /\ \/ \E c \in loc[p].rest :
          /\ check[c].st = "live"
          /\ check' = Deleted({c})
          /\ loc' = [loc EXCEPT ![p].rest = @ \ {c}]
          /\ Goto(p, "dLoad")
     \/ loc[p].rest = {} /\ Goto(p, "xTest") /\ UNCHANGED <<check, loc>>
  /\ UNCHANGED <<test, sentVars, mixed>>

RemoveLast(p) ==
  /\ pc[p] = "xTest"
  /\ ~Locked(loc[p].test)
  /\ test' = [test EXCEPT ![loc[p].test] =
                [NewTest EXCEPT !.st = "gone", !.ended = test[loc[p].test].ended]]
  /\ loc' = [MarkStale(loc[p].test, loc) EXCEPT ![p] = Blank]
  /\ Goto(p, "idle")
  /\ UNCHANGED <<check, sentVars, mixed>>

-----------------------------------------------------------------------------
(* Specification *)

\* The process dies or a call rejects: a transaction is rolled back, anything
\* else stays as far as it got.
Unwritten == CreateSteps \cup {"eRead", "eUpdate", "aCheck", "uCheck"}
Die(p) ==
  /\ pc[p] # "idle"
  /\ check' = [c \in Check |-> IF c = loc[p].check /\ check[c].st = "tx"
                               THEN [NewCheck EXCEPT !.st = "void"] ELSE check[c]]
  /\ \/ pc[p] \in Unwritten /\ UNCHANGED cut
     \/ pc[p] \notin Unwritten /\ Cardinality(cut) < MaxCuts /\ cut' = cut \cup {loc[p].test}
  /\ Finish(p)
  /\ UNCHANGED <<test, finished, mixed>>

SessionStep(p) ==
  \/ EndSession(p) \/ EndRead(p) \/ EndUpdate(p) \/ EndCount(p)
  \/ CreateCheck(p) \/ CreateBegin(p) \/ CreateInsert(p) \/ CreateSave(p)
  \/ CreateCommit(p)

ReviewStep(p) ==
  \/ Accept(p) \/ AcceptCheck(p) \/ Change(p) \/ ChangeCheck(p) \/ Remove(p)
  \/ LoadTest(p) \/ Status(p) \/ SaveTest(p)
  \/ RemoveTest(p) \/ RemoveNext(p) \/ RemoveLast(p)

Next ==
  \/ \E t \in Test : StartSession(t)
  \/ \E p \in Request : SessionStep(p) \/ ReviewStep(p) \/ Die(p)

Spec == Init /\ [][Next]_vars

-----------------------------------------------------------------------------
(* Properties *)

Busy(t) == \E p \in Request : pc[p] # "idle" /\ loc[p].test = t

\* A test at rest whose session has ended shows the status of its checks,
\* although acceptances of its checks may have overlapped: each computes the
\* status from what it reads, and the slower one may write last.  It is the status
\* that check.service computes; the calculateTestStatus of endSession, had it been
\* asked, gives the same of checks with statuses of comparisons and acceptances,
\* but not of others: for a blinking check Passed, for a pending one "not set".
StatusAtRest ==
  \A t \in LiveTests \ (mixed \cup cut) : test[t].ended /\ ~Busy(t) =>
    /\ test[t].status = StatusOnReview(t)
    /\ Statuses(t) \subseteq Compared => test[t].status = StatusAtEnd(t)

\* The list of checks in a test is complete, and lists no check whose creation
\* was rolled back.
ChecksListed ==
  \A t \in LiveTests :
    /\ ChecksOf(t) \subseteq test[t].checks
    /\ \A c \in test[t].checks : check[c].st \in {"live", "gone"}

\* "fired once a run's last test finishes" (run_finished_webhook.feature): when
\* every session has ended, however their ends interleave, one of them has seen
\* that none is left and has sent run.finished; and it was not sent while a
\* session ran, except one whose checks were reviewed meanwhile.
FinishedReported ==
  LET started == {t \in Test : test[t].st # "free"} IN
    /\ (\A p \in Request : pc[p] = "idle") /\ cut = {} /\ started # {}
         /\ (\A t \in started : test[t].ended) => finished
    /\ finished => \A t \in LiveTests \ mixed : test[t].ended

\* A test is removed after its checks: a check that is live has its test, also
\* when a removal stops half-way.
CheckHasTest ==
  \A c \in Check : check[c].st = "live" /\ check[c].test \notin mixed
    => test[check[c].test].st = "live"

\* A test and its checks find each other.
ChecksAndTests == ChecksListed /\ CheckHasTest
=============================================================================
