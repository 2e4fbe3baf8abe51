------------------------------ MODULE Client ------------------------------
(***************************************************************************)
(* Test drivers (PlaywrightDriver, WDIODriver) that call the server over a *)
(* network through SyngrisiApi: a session of checks of one identity, which *)
(* are accepted by the driver when they are new.                           *)
(*                                                                         *)
(* A request is lost, its answer is lost, it is refused with 401, or fails *)
(* with another error in the middle of the server's work; a connection may *)
(* break while the server goes on with the request.  requestWithRetry      *)
(* sends a request again after a 401, and after a transient failure if the *)
(* call is idempotent, up to MaxAttempts times.  The server's work on a    *)
(* request is cut where the requests of others make a difference; the      *)
(* modules SnapshotStore and TestRun have it in full, and Baselines the    *)
(* dates of the rows, which here are in the order of their writes.         *)
(***************************************************************************)
EXTENDS Naturals, Sequences, FiniteSets, SequencesExt

CONSTANTS
  Driver,       \* drivers, each awaits a call before it makes the next one
  AutoAccept,   \* those whose checks are taken with autoAccept
  Image,        \* screenshots, by their hash
  MaxAttempts,  \* maxRetries of requestWithRetry
  MaxCalls,     \* bound: calls of all drivers, acceptances and removals by reviewers
  MaxLate,      \* bound: requests that no driver waits for, before one more is cut off
  None          \* no image, no reply

ASSUME ClientAssumption ==
  /\ MaxAttempts \in Nat \ {0} /\ MaxCalls \in Nat /\ MaxLate \in Nat
  /\ AutoAccept \subseteq Driver
  /\ None \notin Image

VARIABLES
  drv,     \* drivers
  net,     \* requests on their way to the server or in its hands
  test,    \* test documents, in the order of their creation
  check,   \* check documents, likewise
  rows,    \* images of the baseline rows of the identity, by createdDate
  calls,   \* calls made so far
  landed,  \* history: checks whose row was written, and not removed since
  told     \* history: checks that a call has returned as accepted

serverVars == <<test, check, rows, landed>>
vars == <<drv, net, serverVars, calls, told>>

-----------------------------------------------------------------------------
(* Types *)

Ops == {"start", "stop", "hash", "file", "accept"}
Calls == 0..MaxCalls       \* 0: none

\* A test, a check: documents are named by their position; 0 is undefined.
TestDoc == [call : Calls, running : BOOLEAN]
CheckDoc == [call : Calls, session : Calls, test : Calls, image : Image,
             accepted : BOOLEAN]

\* call: which call of a driver or a reviewer it serves; step: "begun" when
\* the server has read what it decides on (a check) or has written the row (accept),
\* "upsert" while the upsert of the row is in flight, "collided" after it has failed;
\* raced: the row was inserted while that upsert was in flight; met: history: another
\* upsert of the row was in flight then, too.
Request == [call : Calls, attempt : 1..MaxAttempts, op : Ops, session : Calls,
            test : Calls, check : Calls, image : Image \cup {None},
            step : {"sent", "upsert", "collided", "begun"}, new : BOOLEAN,
            raced : BOOLEAN, met : BOOLEAN]

\* needFile: 206 requiredFileData; again: an error of retryableStatus.
Reply == [ok : BOOLEAN, again : BOOLEAN, needFile : BOOLEAN, id : Calls, new : BOOLEAN]

\* testId, session: params.test.testId, and the call that was to set it.
DriverState == [pc : {"idle", "sent", "pause"}, testId : Calls, session : Calls,
                req : Request, reply : Reply \cup {None}]

NoRequest == [call |-> 0, attempt |-> 1, op |-> "start", session |-> 0,
              test |-> 0, check |-> 0, image |-> None, step |-> "sent",
              new |-> FALSE, raced |-> FALSE, met |-> FALSE]

TypeOK ==
  /\ drv \in [Driver -> DriverState]
  /\ net \subseteq Request
  /\ test \in Seq(TestDoc) /\ check \in Seq(CheckDoc)
  /\ rows \in Seq(Image) /\ IsInjective(rows)
  /\ calls \in Calls
  /\ landed \subseteq DOMAIN check /\ told \subseteq DOMAIN check

Init ==
  /\ drv = [d \in Driver |-> [pc |-> "idle", testId |-> 0, session |-> 0,
                              req |-> NoRequest, reply |-> None]]
  /\ net = {} /\ test = <<>> /\ check = <<>> /\ rows = <<>>
  /\ calls = 0 /\ landed = {} /\ told = {}

-----------------------------------------------------------------------------
(* requestWithRetry *)

Live(d) == drv[d].pc = "sent" /\ drv[d].reply = None

\* The driver waits for r, and was not cut off from it.
Awaited(d, r) == Live(d) /\ drv[d].req.call = r.call
                 /\ drv[d].req.attempt = r.attempt /\ drv[d].req.op = r.op

Late == {r \in net : \A d \in Driver : ~Awaited(d, r)}

\* A request is sent in the state st of its driver.
Send(d, st, r) ==
  /\ drv' = [drv EXCEPT ![d] = [st EXCEPT !.pc = "sent", !.req = r,
                                          !.reply = None]]
  /\ net' = net \cup {r}

\* The call returns, or throws.
Return(d) == drv' = [drv EXCEPT ![d].pc = "idle", ![d].req = NoRequest,
                                ![d].reply = None]

\* Mutant: a check is posted again after a failure, too.
MutIdempotent(op) == op \in {"hash", "file", "accept"}
\* The calls for which requestWithRetry is told so.
Idempotent(op) == op = "accept"

\* "transient": no answer, or an error of retryableStatus; "final": any other error.
Failures == {"401", "transient", "final"}

\* Mutant: an attempt refused with 401 does not count.
MutNextAttempt(n, failure) == IF failure = "401" THEN n ELSE n + 1
NextAttempt(n, failure) == n + 1

Repeated(op, failure) ==
  failure = "401" \/ (failure = "transient" /\ Idempotent(op))

\* The error is thrown to the test.
GiveUp(d) == Return(d) /\ UNCHANGED told

\* The catch branch: retry after retryDelayMs, or the error is thrown.
Failed(d, failure) ==
  LET r == drv[d].req IN
    IF Repeated(r.op, failure) /\ r.attempt < MaxAttempts
      THEN /\ drv' = [drv EXCEPT ![d].pc = "pause", ![d].reply = None,
                                 ![d].req.attempt = NextAttempt(@, failure)]
           /\ UNCHANGED told
      ELSE GiveUp(d)

Resume(d) ==
  /\ drv[d].pc = "pause"
  /\ Send(d, drv[d], drv[d].req)
  /\ UNCHANGED <<serverVars, calls, told>>

-----------------------------------------------------------------------------
(* Calls of a driver *)

Count == calls < MaxCalls /\ calls' = calls + 1
Begin(d) == drv[d].pc = "idle" /\ Count

\* Mutant: params.test is kept until the session has started.
MutStartState(d) == [drv[d] EXCEPT !.session = calls + 1]
\* params.test is replaced, which drops the testId of the last session.
StartState(d) == [drv[d] EXCEPT !.session = calls + 1, !.testId = 0]

\* A call that throws before it sends anything: startTestSession in the guard of its
\* parameters or while it reads the browser, with params.test as it was, or, when
\* params.test has been replaced, in the guard of startSession; WDIO's
\* stopTestSession without a session.
ThrowAtOnce(d) ==
  /\ Begin(d)
  /\ drv' \in {drv, [drv EXCEPT ![d] = StartState(d)]}
  /\ UNCHANGED <<net, serverVars, told>>

\* startTestSession, up to its request.
Start(d) ==
  /\ Begin(d)
  /\ Send(d, StartState(d), [NoRequest EXCEPT !.call = calls + 1])
  /\ UNCHANGED <<serverVars, told>>

StopState(d) == [drv[d] EXCEPT !.testId = 0]

\* stopTestSession, in Playwright with the id undefined if no session is open.
Stop(d) ==
  /\ Begin(d)
  /\ Send(d, StopState(d), [NoRequest EXCEPT !.call = calls + 1, !.op = "stop",
                                             !.test = drv[d].testId])
  /\ UNCHANGED <<serverVars, told>>

\* check: the hash goes first.
CheckImage(d, i) ==
  /\ Begin(d)
  /\ drv[d].testId # 0
  /\ Send(d, drv[d],
          [NoRequest EXCEPT !.call = calls + 1, !.op = "hash", !.image = i,
                            !.test = drv[d].testId, !.session = drv[d].session])
  /\ UNCHANGED <<serverVars, told>>

\* What the driver does next with the answer that has reached it.
Proceed(d) ==
  LET r == drv[d].req  a == drv[d].reply IN
    \/ /\ r.op = "start"
       /\ drv' = [drv EXCEPT ![d].pc = "idle", ![d].testId = a.id,
                             ![d].req = NoRequest, ![d].reply = None]
       /\ UNCHANGED <<net, told>>
    \/ /\ r.op = "stop" /\ Return(d) /\ UNCHANGED <<net, told>>
    \/ \* coreCheck, phase 2
       /\ r.op = "hash" /\ a.needFile
       /\ Send(d, drv[d], [r EXCEPT !.op = "file", !.attempt = 1])
       /\ UNCHANGED told
    \/ /\ r.op \in {"hash", "file"} /\ ~a.needFile /\ a.new /\ d \in AutoAccept
       /\ Send(d, drv[d], [r EXCEPT !.op = "accept", !.attempt = 1, !.check = a.id])
       /\ UNCHANGED told
    \/ /\ r.op \in {"hash", "file"} /\ ~a.needFile /\ ~(a.new /\ d \in AutoAccept)
       /\ Return(d) /\ UNCHANGED <<net, told>>
    \/ /\ r.op = "accept" /\ Return(d)
       /\ told' = told \cup {r.check} /\ UNCHANGED net

\* The answer reaches the driver.
Answered(d) ==
  /\ drv[d].pc = "sent" /\ drv[d].reply # None
  /\ \/ drv[d].reply.ok /\ Proceed(d)
     \/ /\ ~drv[d].reply.ok
        /\ Failed(d, IF drv[d].reply.again THEN "transient" ELSE "final")
        /\ UNCHANGED net
  /\ UNCHANGED <<serverVars, calls>>

\* The call fails: the connection breaks before the request has reached the
\* server, while it is served, or before the answer has come back; or the server
\* answers with an error.  The request stays in net, where it may yet be served, or
\* served to the end, or not.
Break(d) ==
  /\ drv[d].pc = "sent"
  /\ Failed(d, "transient") \/ Failed(d, "final")
  /\ \/ Cardinality(Late) < MaxLate /\ UNCHANGED net
     \/ net' = {r \in net : ~Awaited(d, r)}
  /\ UNCHANGED <<serverVars, calls>>

-----------------------------------------------------------------------------
(* The server *)

Answer(r, a) ==
  drv' = [d \in Driver |-> IF Awaited(d, r) THEN [drv[d] EXCEPT !.reply = a] ELSE drv[d]]
Done(r, a) == net' = net \ {r} /\ Answer(r, a) /\ UNCHANGED <<calls, told>>
Success(id, new) ==
  [ok |-> TRUE, again |-> FALSE, needFile |-> FALSE, id |-> id, new |-> new]
Error(again) == [Success(0, FALSE) EXCEPT !.ok = FALSE, !.again = again]
NeedFile == [Success(0, FALSE) EXCEPT !.needFile = TRUE]

StartSession(r) ==
  /\ r.op = "start"
  /\ test' = Append(test, [call |-> r.call, running |-> TRUE])
  /\ Done(r, Success(Len(test) + 1, FALSE))
  /\ UNCHANGED <<check, rows, landed>>

\* endSession; 400 without a test id.
EndSession(r) ==
  /\ r.op = "stop"
  /\ IF r.test = 0
       THEN Done(r, Error(FALSE)) /\ UNCHANGED test
       ELSE Done(r, Success(r.test, FALSE)) /\ test' = [test EXCEPT ![r.test].running = FALSE]
  /\ UNCHANGED <<check, rows, landed>>

\* isNeedFiles: the hash is not that of a snapshot.
Stored(i) == \E c \in DOMAIN check : check[c].image = i

AskFile(r) ==
  /\ r.op = "hash" /\ r.step = "sent" /\ ~Stored(r.image)
  /\ Done(r, NeedFile)
  /\ UNCHANGED serverVars

\* inspectBaseline and compareCheck: the status is new if the identity has neither
\* a baseline nor a check; passed and failed are not told apart here.
IsNew == rows = <<>> /\ check = <<>>

Inspect(r) ==
  /\ r.op \in {"hash", "file"} /\ r.step = "sent"
  /\ r.op = "file" \/ Stored(r.image)
  /\ net' = (net \ {r}) \cup {[r EXCEPT !.step = "begun", !.new = IsNew]}
  /\ UNCHANGED <<drv, serverVars, calls, told>>

\* The transaction of createCheck commits.
CreateCheck(r) ==
  /\ r.op \in {"hash", "file"} /\ r.step = "begun"
  /\ check' = Append(check, [call |-> r.call, session |-> r.session, test |-> r.test,
                             image |-> r.image, accepted |-> FALSE])
  /\ Done(r, Success(Len(check) + 1, r.new))
  /\ UNCHANGED <<test, rows, landed>>

\* Upserts of rows of this image that the database has not answered.
InFlight(i) == {q \in net : q.step = "upsert" /\ q.image = i}

\* createNewBaseline: the upsert is sent.
SendUpsert(r) ==
  /\ r.op = "accept" /\ r.step = "sent"
  /\ LET others == InFlight(r.image) IN
       net' = (net \ ({r} \cup others)) \cup {[q EXCEPT !.met = TRUE] : q \in others}
                \cup {[r EXCEPT !.step = "upsert", !.met = others # {}]}
  /\ UNCHANGED <<drv, serverVars, calls, told>>

\* Mutant: createdDate is set by every accept.
MutUpsert(i) == rows' = Append(Remove(rows, i), i)
\* Mutant: the row is inserted, not upserted.
MutInsert(i) == rows' = Append(rows, i)
\* createdDate is written by the insert only.
Upsert(i) == rows' = IF Contains(rows, i) THEN rows ELSE Append(rows, i)

\* The row has been written, by r.
Written(r) == [r EXCEPT !.step = "begun", !.raced = FALSE, !.met = FALSE]

\* The upsert finds the row, or inserts it and so gets in the way of others in flight;
\* or it collides with the row that was inserted after it was sent (code 11000).
AcceptRow(r) ==
  LET others == IF Contains(rows, r.image) THEN {} ELSE InFlight(r.image) \ {r} IN
    /\ r.op = "accept" /\ r.step = "upsert"
    /\ \/ /\ Upsert(r.image)
          /\ landed' = landed \cup {r.check}
          /\ net' = (net \ ({r} \cup others)) \cup {[q EXCEPT !.raced = TRUE] : q \in others}
                       \cup {Written(r)}
       \/ /\ r.raced /\ Contains(rows, r.image)
          /\ net' = (net \ {r}) \cup {[r EXCEPT !.step = "collided"]}
          /\ UNCHANGED <<rows, landed>>
    /\ UNCHANGED <<drv, test, check, calls, told>>

\* existing.save(), with createdDate = new Date().
Restamp(i) ==
  \E k \in DOMAIN rows : rows[k] = i /\ rows' = Append(RemoveAt(rows, k), i)

\* The row that was in the way is found and saved with a new createdDate; the call
\* fails with 500 if it has gone, before the one or the other.
AcceptAgain(r) ==
  /\ r.op = "accept" /\ r.step = "collided"
  /\ \/ /\ Restamp(r.image)
        /\ landed' = landed \cup {r.check}
        /\ net' = (net \ {r}) \cup {Written(r)}
        /\ UNCHANGED <<drv, calls, told>>
     \/ /\ ~Contains(rows, r.image)
        /\ Done(r, Error(TRUE))
        /\ UNCHANGED <<rows, landed>>
  /\ UNCHANGED <<test, check>>

Accepted(c) == check' = [check EXCEPT ![c].accepted = TRUE]

\* accept, from check.save() on.
AcceptSave(r) ==
  /\ r.op = "accept" /\ r.step = "begun"
  /\ Accepted(r.check)
  /\ Done(r, Success(r.check, FALSE))
  /\ UNCHANGED <<test, rows, landed>>

\* 401, before any handler.
Refuse(d, r) ==
  /\ r \in net /\ r.step = "sent" /\ Awaited(d, r)
  /\ net' = net \ {r}
  /\ Failed(d, "401")
  /\ UNCHANGED <<serverVars, calls>>

Serve(r) ==
  /\ r \in net
  /\ \/ StartSession(r) \/ EndSession(r) \/ AskFile(r) \/ Inspect(r)
     \/ CreateCheck(r) \/ SendUpsert(r) \/ AcceptRow(r) \/ AcceptAgain(r)
     \/ AcceptSave(r)

-----------------------------------------------------------------------------
(* People *)

\* A reviewer accepts a check: the same request, for which no driver waits.
Review(c) ==
  /\ Count
  /\ net' = net \cup {[NoRequest EXCEPT !.call = calls + 1, !.op = "accept",
                                         !.check = c, !.image = check[c].image]}
  /\ UNCHANGED <<drv, serverVars, told>>

\* A baseline row is removed.
RemoveRow(k) ==
  /\ Count
  /\ rows' = RemoveAt(rows, k)
  /\ landed' = {c \in landed : check[c].image # rows[k]}
  /\ UNCHANGED <<drv, net, test, check, told>>

Drive(d) ==
  \/ ThrowAtOnce(d) \/ Start(d) \/ Stop(d) \/ Answered(d) \/ Break(d) \/ Resume(d)
  \/ \E i \in Image : CheckImage(d, i)
  \/ \E r \in net : Refuse(d, r)

Next ==
  \/ \E d \in Driver : Drive(d)
  \/ \E r \in net : Serve(r)
  \/ \E c \in DOMAIN check : Review(c)
  \/ \E k \in DOMAIN rows : RemoveRow(k)

Spec == Init /\ [][Next]_vars

\* What a call waits for, one thing at a time: a timer, the server, its answer.
Progress(d) ==
  Answered(d) \/ Resume(d) \/ \E r \in net : Awaited(d, r) /\ Serve(r)

\* The server answers a request whose driver waits for it, or the connection
\* breaks (fetch has no timeout of its own); timers fire.
FairSpec == Spec /\ \A d \in Driver : WF_vars(Progress(d))

-----------------------------------------------------------------------------
(* Properties *)

\* A call of a driver leaves at most one test, or one check, on the server,
\* however often its request was sent and however late it was served.
AtMostOnce ==
  /\ \A t, u \in DOMAIN test : test[t].call = test[u].call => t = u
  /\ \A c, e \in DOMAIN check : check[c].call = check[e].call => c = e

\* A check belongs to the test of the session in which the driver took it, the one
\* that its last startTestSession was to open: nothing is added to the session before
\* once params.test has been replaced, whether the new one has started or not.  A
\* startTestSession that throws earlier leaves the driver in the session before.
ChecksInOwnTest ==
  \A c \in DOMAIN check : test[check[c].test].call = check[c].session

\* The test that a driver adds checks to is running: no session that it has asked
\* to stop, no late stop request, has ended it.
SessionOpen ==
  \A d \in Driver : drv[d].testId # 0 =>
    /\ test[drv[d].testId].running
    /\ test[drv[d].testId].call = drv[d].session

\* The session of a driver and its test on the server stay together.
SessionKept == ChecksInOwnTest /\ SessionOpen

\* What a driver returns as accepted is accepted, and its row was written.
AcceptedHolds == \A c \in told : check[c].accepted

\* An accept that is repeated, or served late, after a first one has written its
\* row does not bring an older baseline back: the rows change only when a row is
\* written for a check for the first time, or is removed; or when the upsert of an
\* accept was in flight together with another one for the same image, has lost to
\* it, and gives the row a new date.
RetryKeepsNewer ==
  [][rows' = rows \/ landed' # landed \/ \E r \in net : r.met /\ Restamp(r.image)]_vars

\* An acceptance, once reported, is neither missing nor undone by its own retries.
AcceptanceKept == []AcceptedHolds /\ RetryKeepsNewer

\* Every call of a driver returns or throws, whatever fails.
CallsReturn == \A d \in Driver : drv[d].pc # "idle" ~> drv[d].pc = "idle"

=============================================================================
