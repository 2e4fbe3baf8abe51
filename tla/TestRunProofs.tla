--------------------------- MODULE TestRunProofs ---------------------------
(***************************************************************************)
(* Proofs about TestRun: every state is of the types, a test and its       *)
(* checks find each other (ChecksAndTests), a test at rest shows the       *)
(* status of its checks (StatusAtRest), and the end of a run is reported   *)
(* (FinishedReported), for any number of tests, checks and requests.       *)
(***************************************************************************)
EXTENDS TestRun, TLAPS

-----------------------------------------------------------------------------
(* Requests *)

Calls == pc' \in [Request -> Steps] /\ loc' \in [Request -> Locals]

\* A step of one request leaves the others where they are; a transaction may
\* learn that its test has been written.
Kept(q) ==
  /\ pc'[q] = pc[q]
  /\ loc'[q].kind = loc[q].kind /\ loc'[q].test = loc[q].test
  /\ loc'[q].check = loc[q].check /\ loc'[q].status = loc[q].status
  /\ loc'[q].dirty = loc[q].dirty /\ loc'[q].to = loc[q].to
  /\ loc'[q].rest = loc[q].rest

Others(p) == \A q \in Request : q # p => Kept(q)

\* The request goes on with the test it is about.
Moves(p, step) ==
  pc'[p] = step /\ loc'[p].kind = loc[p].kind /\ loc'[p].test = loc[p].test

Ends(p) == pc'[p] = "idle" /\ loc'[p] = Blank

LEMMA StepNames ==
  /\ \A s \in {"idle", "cBegin", "cInsert", "cSave", "cCommit", "eRead", "eUpdate",
               "eCount", "aCheck", "uCheck", "dLoad", "tStatus", "tSave", "xNext",
               "xTest"} : s \in Steps
  /\ \A s \in Steps : s \in {"idle", "cBegin", "cInsert", "cSave", "cCommit", "eRead",
                             "eUpdate", "eCount", "aCheck", "uCheck", "dLoad",
                             "tStatus", "tSave", "xNext", "xTest"}
BY DEF Steps, CreateSteps, EndSteps, ReviewSteps, RemoveSteps

LEMMA BlankTyped ==
  /\ Blank \in Locals
  /\ Blank.kind = "none" /\ Blank.test = None /\ Blank.check = None
  /\ Blank.rest = {} /\ Blank.status = "Running" /\ Blank.dirty = FALSE
BY DEF Blank, Locals, Kinds, TestStatus, CheckStatus, Compared

LEMMA Parts ==
  ASSUME TypeOK
  PROVE  /\ \A p \in Request : pc[p] \in Steps /\ loc[p] \in Locals
         /\ \A t \in Test : test[t] \in TestDoc
         /\ \A c \in Check : check[c] \in CheckDoc
BY DEF TypeOK

\* The fields of a record that a step may write.
LEMMA LocalFields ==
  ASSUME NEW l \in Locals
  PROVE  /\ l.kind \in Kinds /\ l.test \in Test \cup {None} /\ l.check \in Check \cup {None}
         /\ l.status \in TestStatus /\ l.dirty \in BOOLEAN /\ l.to \in CheckStatus
         /\ l.first \in BOOLEAN /\ l.stale \in BOOLEAN /\ l.rest \in SUBSET Check
BY DEF Locals

LEMMA TestFields ==
  ASSUME NEW d \in TestDoc
  PROVE  /\ d.st \in {"free", "live", "gone"} /\ d.status \in TestStatus
         /\ d.checks \in SUBSET Check /\ d.ended \in BOOLEAN
BY DEF TestDoc

LEMMA CheckFields ==
  ASSUME NEW d \in CheckDoc
  PROVE  /\ d.st \in {"free", "tx", "live", "gone", "void"}
         /\ d.test \in Test \cup {None} /\ d.status \in CheckStatus
BY DEF CheckDoc

LEMMA MarkStaleKeeps ==
  ASSUME NEW l \in [Request -> Locals], NEW t
  PROVE  /\ MarkStale(t, l) \in [Request -> Locals]
         /\ \A q \in Request :
              LET m == MarkStale(t, l)[q]
              IN  /\ m.kind = l[q].kind /\ m.test = l[q].test /\ m.check = l[q].check
                  /\ m.status = l[q].status /\ m.dirty = l[q].dirty /\ m.to = l[q].to
                  /\ m.rest = l[q].rest
<1>1. \A k \in Locals : LET m == [k EXCEPT !.stale = TRUE]
                        IN  /\ m \in Locals
                            /\ m.kind = k.kind /\ m.test = k.test /\ m.check = k.check
                            /\ m.status = k.status /\ m.dirty = k.dirty /\ m.to = k.to
                            /\ m.rest = k.rest
  BY DEF Locals
<1>2. \A q \in Request : MarkStale(t, l)[q] = l[q]
                         \/ MarkStale(t, l)[q] = [l[q] EXCEPT !.stale = TRUE]
  BY DEF MarkStale
<1>3. MarkStale(t, l) \in [Request -> Locals]
  BY <1>1 DEF MarkStale
<1>4. QED
  BY <1>1, <1>2, <1>3

\* A step of p that writes its locals, and one that writes the test as well.
LEMMA StepDoes ==
  ASSUME TypeOK, NEW p \in Request, NEW step \in Steps, NEW l \in Locals,
         Goto(p, step), loc' = [loc EXCEPT ![p] = l]
  PROVE  Calls /\ Others(p) /\ pc'[p] = step /\ loc'[p] = l
BY DEF TypeOK, Goto, Calls, Others, Kept

LEMMA WriteDoes ==
  ASSUME TypeOK, NEW p \in Request, NEW step \in Steps, NEW l \in Locals, NEW t,
         Goto(p, step), loc' = [MarkStale(t, loc) EXCEPT ![p] = l]
  PROVE  Calls /\ Others(p) /\ pc'[p] = step /\ loc'[p] = l
<1>1. loc \in [Request -> Locals] /\ pc \in [Request -> Steps]
  BY DEF TypeOK
<1>2. /\ MarkStale(t, loc) \in [Request -> Locals]
      /\ \A q \in Request :
              LET m == MarkStale(t, loc)[q]
              IN  /\ m.kind = loc[q].kind /\ m.test = loc[q].test /\ m.check = loc[q].check
                  /\ m.status = loc[q].status /\ m.dirty = loc[q].dirty /\ m.to = loc[q].to
                  /\ m.rest = loc[q].rest
  BY <1>1, MarkStaleKeeps
<1>3. Calls /\ pc'[p] = step /\ loc'[p] = l
  BY <1>1, <1>2 DEF Goto, Calls
<1>4. \A q \in Request : q # p => loc'[q] = MarkStale(t, loc)[q] /\ pc'[q] = pc[q]
  BY <1>1, <1>2 DEF Goto
<1>5. Others(p)
  BY <1>2, <1>4 DEF Others, Kept
<1>6. QED
  BY <1>3, <1>5

LEMMA FinishDoes ==
  ASSUME TypeOK, NEW p \in Request, Finish(p)
  PROVE  Calls /\ Others(p) /\ Ends(p)
BY StepDoes, StepNames, BlankTyped DEF Finish, Ends

-----------------------------------------------------------------------------
(* What each step does, field by field *)

\* A request on t begins.
Begins(p, kind, step, t) ==
  /\ Calls /\ Others(p)
  /\ pc[p] = "idle" /\ pc'[p] = step /\ loc'[p].kind = kind /\ loc'[p].test = t
  /\ mixed' = mixed \cup {u \in {t} : Overlap(p, u, kind)}

LEMMA StartDoes ==
  ASSUME TypeOK, NEW p \in Request, NEW kind \in Kinds, NEW step \in Steps,
         NEW l \in Locals, Start(p, kind, step, l)
  PROVE  /\ Begins(p, kind, step, l.test)
         /\ loc'[p].check = l.check /\ loc'[p].status = l.status
         /\ loc'[p].dirty = l.dirty /\ loc'[p].to = l.to /\ loc'[p].rest = l.rest
<1> DEFINE k == [l EXCEPT !.kind = kind]
<1>1. /\ k \in Locals /\ k.kind = kind /\ k.test = l.test /\ k.check = l.check
      /\ k.status = l.status /\ k.dirty = l.dirty /\ k.to = l.to /\ k.rest = l.rest
  BY DEF Locals
<1>2. Goto(p, step) /\ loc' = [loc EXCEPT ![p] = k] /\ pc[p] = "idle"
      /\ mixed' = mixed \cup {t \in {l.test} : Overlap(p, t, kind)}
  BY DEF Start
<1> HIDE DEF k
<1>3. Calls /\ Others(p) /\ pc'[p] = step /\ loc'[p] = k
  BY <1>1, <1>2, StepDoes
<1>4. QED
  BY <1>1, <1>2, <1>3 DEF Begins

LEMMA EndSessionDoes ==
  ASSUME TypeOK, NEW p \in Request, EndSession(p)
  PROVE  \E t \in Open : /\ Begins(p, "end", "eRead", t)
                         /\ loc'[p].check = None /\ loc'[p].rest = {}
                         /\ loc'[p].status = "Running" /\ ~loc'[p].dirty
<1>1. PICK t \in Open : Start(p, "end", "eRead", [Blank EXCEPT !.test = t])
  BY DEF EndSession
<1> DEFINE l == [Blank EXCEPT !.test = t]
<1>2. t \in Test
  BY DEF Open, LiveTests
<1>3. /\ l \in Locals /\ l.test = t /\ l.check = None /\ l.rest = {}
      /\ l.status = "Running" /\ ~l.dirty
  BY <1>2, BlankTyped DEF Locals
<1>4. "end" \in Kinds /\ "eRead" \in Steps
  BY StepNames DEF Kinds
<1>5. Start(p, "end", "eRead", l)
  BY <1>1
<1> HIDE DEF l
<1>6. QED
  BY <1>3, <1>4, <1>5, StartDoes

LEMMA CreateCheckDoes ==
  ASSUME TypeOK, NEW p \in Request, CreateCheck(p)
  PROVE  \E t \in Open : /\ Begins(p, "create", "cBegin", t)
                         /\ loc'[p].check = None /\ loc'[p].rest = {}
                         /\ loc'[p].status = "Running" /\ ~loc'[p].dirty
<1>1. PICK t \in Open :
        Start(p, "create", "cBegin",
              [Blank EXCEPT !.test = t, !.first = test[t].checks = {}])
  BY DEF CreateCheck
<1> DEFINE l == [Blank EXCEPT !.test = t, !.first = test[t].checks = {}]
<1>2. t \in Test /\ (test[t].checks = {}) \in BOOLEAN
  BY DEF Open, LiveTests
<1>3. /\ l \in Locals /\ l.test = t /\ l.check = None /\ l.rest = {}
      /\ l.status = "Running" /\ ~l.dirty
  BY <1>2, BlankTyped DEF Locals
<1>4. "create" \in Kinds /\ "cBegin" \in Steps
  BY StepNames DEF Kinds
<1>5. Start(p, "create", "cBegin", l)
  BY <1>1
<1> HIDE DEF l
<1>6. QED
  BY <1>3, <1>4, <1>5, StartDoes

LEMMA AcceptDoes ==
  ASSUME TypeOK, NEW p \in Request, Accept(p),
         \A c \in Check : check[c].st = "live" => check[c].test \in Test
  PROVE  \E c \in Check :
           /\ check[c].st = "live" /\ test[check[c].test].st = "live"
           /\ Begins(p, "accept", "aCheck", check[c].test)
           /\ loc'[p].check = c /\ loc'[p].rest = {}
           /\ loc'[p].status = test[check[c].test].status /\ ~loc'[p].dirty
           /\ loc'[p].to = IF check[c].status = "new" THEN "new" ELSE "passed"
<1>1. PICK c \in Check :
        /\ check[c].st = "live" /\ test[check[c].test].st = "live"
        /\ Start(p, "accept", "aCheck",
                 [Loaded(check[c].test, Blank) EXCEPT
                    !.check = c,
                    !.to = IF check[c].status = "new" THEN "new" ELSE "passed"])
  BY DEF Accept
<1> DEFINE t == check[c].test
           to == IF check[c].status = "new" THEN "new" ELSE "passed"
           k == Loaded(t, Blank)
           l == [k EXCEPT !.check = c, !.to = to]
<1>2. t \in Test /\ to \in CheckStatus
  BY <1>1 DEF CheckStatus, Compared
<1>3. test[t].status \in TestStatus
  BY <1>2, Parts, TestFields
<1> HIDE DEF t, to
<1>4. /\ k \in Locals /\ k.test = t /\ k.rest = {} /\ k.status = test[t].status /\ ~k.dirty
  BY <1>2, <1>3, BlankTyped DEF Locals, Loaded
<1> HIDE DEF k
<1>5. /\ l \in Locals /\ l.test = t /\ l.check = c /\ l.rest = {}
      /\ l.status = test[t].status /\ ~l.dirty /\ l.to = to
  BY <1>2, <1>4 DEF Locals
<1>6. "accept" \in Kinds /\ "aCheck" \in Steps
  BY StepNames DEF Kinds
<1>7. Start(p, "accept", "aCheck", l)
  BY <1>1 DEF k, t, to
<1> HIDE DEF l
<1>8. /\ Begins(p, "accept", "aCheck", t)
      /\ loc'[p].check = c /\ loc'[p].rest = {}
      /\ loc'[p].status = test[t].status /\ ~loc'[p].dirty /\ loc'[p].to = to
  BY <1>5, <1>6, <1>7, StartDoes
<1>9. QED
  BY <1>1, <1>8 DEF t, to

LEMMA ChangeDoes ==
  ASSUME TypeOK, NEW p \in Request, Change(p),
         \A c \in Check : check[c].st = "live" => check[c].test \in Test
  PROVE  \E c \in Check :
           /\ check[c].st = "live"
           /\ Begins(p, "change", "uCheck", check[c].test)
           /\ loc'[p].check = c /\ loc'[p].rest = {} /\ ~loc'[p].dirty
<1>1. PICK c \in Check, s \in CheckStatus :
        /\ check[c].st = "live"
        /\ Start(p, "change", "uCheck",
                 [Blank EXCEPT !.test = check[c].test, !.check = c, !.to = s])
  BY DEF Change
<1> DEFINE l == [Blank EXCEPT !.test = check[c].test, !.check = c, !.to = s]
<1>2. check[c].test \in Test
  BY <1>1
<1>3. l \in Locals /\ l.test = check[c].test /\ l.check = c /\ l.rest = {} /\ ~l.dirty
  BY <1>2, BlankTyped DEF Locals
<1>4. "change" \in Kinds /\ "uCheck" \in Steps
  BY StepNames DEF Kinds
<1>5. Start(p, "change", "uCheck", l)
  BY <1>1
<1> HIDE DEF l
<1>6. QED
  BY <1>1, <1>3, <1>4, <1>5, StartDoes

LEMMA RemoveDoes ==
  ASSUME TypeOK, NEW p \in Request, Remove(p),
         \A c \in Check : check[c].st = "live" => check[c].test \in Test
  PROVE  \E c \in Check :
           /\ check[c].st = "live" /\ check' = Deleted({c})
           /\ Begins(p, "remove", "dLoad", check[c].test)
           /\ loc'[p].check = None /\ loc'[p].rest = {} /\ ~loc'[p].dirty
<1>1. PICK c \in Check :
        /\ check[c].st = "live"
        /\ Start(p, "remove", "dLoad", [Blank EXCEPT !.test = check[c].test])
        /\ check' = Deleted({c})
  BY DEF Remove
<1> DEFINE l == [Blank EXCEPT !.test = check[c].test]
<1>2. check[c].test \in Test
  BY <1>1
<1>3. l \in Locals /\ l.test = check[c].test /\ l.check = None /\ l.rest = {} /\ ~l.dirty
  BY <1>2, BlankTyped DEF Locals
<1>4. "remove" \in Kinds /\ "dLoad" \in Steps
  BY StepNames DEF Kinds
<1>5. Start(p, "remove", "dLoad", l)
  BY <1>1
<1> HIDE DEF l
<1>6. QED
  BY <1>1, <1>3, <1>4, <1>5, StartDoes

LEMMA RemoveTestDoes ==
  ASSUME TypeOK, NEW p \in Request, RemoveTest(p)
  PROVE  \E t \in LiveTests :
           /\ Begins(p, "removeTest", "xNext", t)
           /\ loc'[p].check = None /\ loc'[p].rest = ChecksOf(t) /\ ~loc'[p].dirty
<1>1. PICK t \in LiveTests :
        Start(p, "removeTest", "xNext", [Blank EXCEPT !.test = t, !.rest = ChecksOf(t)])
  BY DEF RemoveTest
<1> DEFINE l == [Blank EXCEPT !.test = t, !.rest = ChecksOf(t)]
<1>2. t \in Test /\ ChecksOf(t) \in SUBSET Check
  BY DEF LiveTests, ChecksOf
<1>3. /\ l \in Locals /\ l.test = t /\ l.check = None /\ l.rest = ChecksOf(t)
      /\ ~l.dirty
  BY <1>2, BlankTyped DEF Locals
<1>4. "removeTest" \in Kinds /\ "xNext" \in Steps
  BY StepNames DEF Kinds
<1>5. Start(p, "removeTest", "xNext", l)
  BY <1>1
<1> HIDE DEF l
<1>6. QED
  BY <1>3, <1>4, <1>5, StartDoes

\* Tests and checks other than one are left alone.
OtherTests(t) == \A u \in Test : u # t => test'[u] = test[u]
OtherChecks(k) == \A c \in Check : c # k => check'[c] = check[c]

LEMMA DeletedDoes ==
  ASSUME TypeOK, NEW C, check' = Deleted(C)
  PROVE  /\ check' \in [Check -> CheckDoc]
         /\ \A c \in C \cap Check : check'[c].st = "gone"
         /\ \A c \in Check \ C : check'[c] = check[c]
<1>1. /\ [NewCheck EXCEPT !.st = "gone"] \in CheckDoc
      /\ [NewCheck EXCEPT !.st = "gone"].st = "gone"
  BY DEF NewCheck, CheckDoc, CheckStatus, Compared
<1>2. check \in [Check -> CheckDoc]
  BY DEF TypeOK
<1>3. QED
  BY <1>1, <1>2 DEF Deleted

\* The status of a check is written.
LEMMA StatusWritten ==
  ASSUME TypeOK, NEW k \in Check, NEW s \in CheckStatus,
         check' = [check EXCEPT ![k].status = s]
  PROVE  /\ check' \in [Check -> CheckDoc] /\ OtherChecks(k)
         /\ check'[k].st = check[k].st /\ check'[k].test = check[k].test
         /\ check'[k].status = s
<1>1. check \in [Check -> CheckDoc] /\ check[k] \in CheckDoc
  BY DEF TypeOK
<1>2. check' = [check EXCEPT ![k] = [check[k] EXCEPT !.status = s]]
  BY <1>1
<1> DEFINE d == [check[k] EXCEPT !.status = s]
<1>3. d \in CheckDoc /\ d.st = check[k].st /\ d.test = check[k].test /\ d.status = s
  BY <1>1 DEF CheckDoc
<1> HIDE DEF d
<1>4. check'[k] = d /\ OtherChecks(k) /\ check' \in [Check -> CheckDoc]
  BY <1>1, <1>2, <1>3 DEF OtherChecks, d
<1>5. QED
  BY <1>3, <1>4

\* A field of p's locals is written.
LEMMA EndReadDoes ==
  ASSUME TypeOK, NEW p \in Request, EndRead(p)
  PROVE  /\ Calls /\ Others(p) /\ Moves(p, "eUpdate")
         /\ loc'[p].status = StatusAtEnd(loc[p].test)
         /\ loc'[p].check = loc[p].check /\ loc'[p].rest = loc[p].rest
         /\ loc'[p].dirty = loc[p].dirty
<1> DEFINE s == StatusAtEnd(loc[p].test)
           l == [loc[p] EXCEPT !.status = s]
<1>1. s \in TestStatus
  BY DEF StatusAtEnd, TestStatus
<1>2. loc[p] \in Locals /\ loc \in [Request -> Locals]
  BY DEF TypeOK
<1>3. loc' = [loc EXCEPT ![p] = l] /\ Goto(p, "eUpdate") /\ "eUpdate" \in Steps
  BY <1>2, StepNames DEF EndRead
<1> HIDE DEF s
<1>4. /\ l \in Locals /\ l.kind = loc[p].kind /\ l.test = loc[p].test /\ l.status = s
      /\ l.check = loc[p].check /\ l.rest = loc[p].rest /\ l.dirty = loc[p].dirty
  BY <1>1, <1>2 DEF Locals
<1> HIDE DEF l
<1>5. Calls /\ Others(p) /\ pc'[p] = "eUpdate" /\ loc'[p] = l
  BY <1>3, <1>4, StepDoes
<1>6. QED
  BY <1>4, <1>5 DEF Moves, s

LEMMA EndUpdateDoes ==
  ASSUME TypeOK, NEW p \in Request, EndUpdate(p), loc[p].test \in Test
  PROVE  LET t == loc[p].test
         IN  /\ Calls /\ Others(p)
             /\ \/ /\ test[t].st = "live" /\ ~Locked(t) /\ Moves(p, "eCount")
                   /\ loc'[p].check = loc[p].check /\ loc'[p].rest = loc[p].rest
                   /\ loc'[p].dirty = loc[p].dirty
                   /\ test' \in [Test -> TestDoc] /\ OtherTests(t)
                   /\ test'[t].st = test[t].st /\ test'[t].checks = test[t].checks
                   /\ test'[t].status = loc[p].status /\ test'[t].ended
                \/ test[t].st # "live" /\ Ends(p) /\ test' = test
<1> DEFINE t == loc[p].test
<1>1. CASE test[t].st # "live"
  BY <1>1, FinishDoes DEF EndUpdate
<1>2. CASE test[t].st = "live"
  <2>1. /\ ~Locked(t) /\ Goto(p, "eCount") /\ "eCount" \in Steps
        /\ test' = [test EXCEPT ![t].status = loc[p].status, ![t].ended = TRUE]
        /\ loc' = [MarkStale(t, loc) EXCEPT ![p].status = "Running"]
    BY <1>2, StepNames DEF EndUpdate
  <2>2. /\ loc \in [Request -> Locals] /\ loc[p] \in Locals /\ loc[p].status \in TestStatus
        /\ test \in [Test -> TestDoc] /\ test[t] \in TestDoc
    BY LocalFields DEF TypeOK
  <2> DEFINE m == MarkStale(t, loc)[p]
             l == [m EXCEPT !.status = "Running"]
             d == [test[t] EXCEPT !.status = loc[p].status, !.ended = TRUE]
  <2>3. /\ MarkStale(t, loc) \in [Request -> Locals] /\ m \in Locals
        /\ m.kind = loc[p].kind /\ m.test = loc[p].test /\ m.check = loc[p].check
        /\ m.rest = loc[p].rest /\ m.dirty = loc[p].dirty
    BY <2>2, MarkStaleKeeps
  <2>4. loc' = [MarkStale(t, loc) EXCEPT ![p] = l]
    BY <2>1, <2>3
  <2>5. test' = [test EXCEPT ![t] = d]
    BY <2>1, <2>2
  <2>6. /\ d \in TestDoc /\ d.st = test[t].st /\ d.checks = test[t].checks
        /\ d.status = loc[p].status /\ d.ended
    BY <2>2 DEF TestDoc
  <2> HIDE DEF m, d
  <2>7. /\ l \in Locals /\ l.kind = m.kind /\ l.test = m.test /\ l.check = m.check
        /\ l.rest = m.rest /\ l.dirty = m.dirty
    BY <2>3 DEF Locals, TestStatus
  <2> HIDE DEF l
  <2>8. Calls /\ Others(p) /\ pc'[p] = "eCount" /\ loc'[p] = l
    BY <2>1, <2>4, <2>7, WriteDoes
  <2>9. test' \in [Test -> TestDoc] /\ test'[t] = d /\ OtherTests(t)
    BY <2>2, <2>5, <2>6 DEF OtherTests
  <2>10. QED
    BY <1>2, <2>1, <2>3, <2>6, <2>7, <2>8, <2>9 DEF Moves
<1>3. QED
  BY <1>1, <1>2

LEMMA CreateBeginDoes ==
  ASSUME TypeOK, NEW p \in Request, CreateBegin(p)
  PROVE  /\ Calls /\ Others(p) /\ Moves(p, "cInsert")
         /\ loc'[p].check = loc[p].check /\ loc'[p].rest = loc[p].rest
         /\ loc'[p].status = loc[p].status /\ loc'[p].dirty = loc[p].dirty
<1> DEFINE f == IF loc[p].first THEN MarkStale(loc[p].test, loc) ELSE loc
<1>1. loc \in [Request -> Locals] /\ pc \in [Request -> Steps]
  BY DEF TypeOK
<1>2. /\ f \in [Request -> Locals]
      /\ \A q \in Request :
           /\ f[q].kind = loc[q].kind /\ f[q].test = loc[q].test
           /\ f[q].check = loc[q].check /\ f[q].status = loc[q].status
           /\ f[q].dirty = loc[q].dirty /\ f[q].to = loc[q].to /\ f[q].rest = loc[q].rest
  BY <1>1, MarkStaleKeeps
<1>3. loc' = [f EXCEPT ![p].stale = FALSE] /\ Goto(p, "cInsert") /\ "cInsert" \in Steps
  BY StepNames DEF CreateBegin
<1> HIDE DEF f
<1> DEFINE l == [f[p] EXCEPT !.stale = FALSE]
<1>4. /\ l \in Locals /\ l.kind = f[p].kind /\ l.test = f[p].test /\ l.check = f[p].check
      /\ l.rest = f[p].rest /\ l.status = f[p].status /\ l.dirty = f[p].dirty
  BY <1>2 DEF Locals
<1>5. loc' = [f EXCEPT ![p] = l]
  BY <1>2, <1>3
<1> HIDE DEF l
<1>6. loc' \in [Request -> Locals] /\ loc'[p] = l /\ \A q \in Request : q # p => loc'[q] = f[q]
  BY <1>2, <1>4, <1>5
<1>7. pc' \in [Request -> Steps] /\ pc'[p] = "cInsert" /\ \A q \in Request : q # p => pc'[q] = pc[q]
  BY <1>1, <1>3 DEF Goto
<1>8. Others(p)
  BY <1>2, <1>6, <1>7 DEF Others, Kept
<1>9. QED
  BY <1>2, <1>4, <1>6, <1>7, <1>8 DEF Calls, Moves

LEMMA CreateInsertDoes ==
  ASSUME TypeOK, NEW p \in Request, CreateInsert(p), loc[p].test \in Test
  PROVE  \E c \in Check :
           /\ Calls /\ Others(p) /\ Moves(p, "cSave")
           /\ loc'[p].check = c /\ loc'[p].rest = loc[p].rest
           /\ loc'[p].status = loc[p].status /\ loc'[p].dirty = loc[p].dirty
           /\ check[c].st = "free"
           /\ check' \in [Check -> CheckDoc] /\ OtherChecks(c)
           /\ check'[c].st = "tx" /\ check'[c].test = loc[p].test
           /\ check'[c].status \in Compared
<1>1. PICK c \in Check, s \in Compared :
        /\ check[c].st = "free"
        /\ check' = [check EXCEPT ![c] = [st |-> "tx", test |-> loc[p].test, status |-> s]]
        /\ loc' = [loc EXCEPT ![p].check = c]
  BY DEF CreateInsert
<1>2. loc[p] \in Locals /\ loc \in [Request -> Locals] /\ check \in [Check -> CheckDoc]
  BY DEF TypeOK
<1>3. [st |-> "tx", test |-> loc[p].test, status |-> s] \in CheckDoc
  BY <1>2 DEF CheckDoc, Locals, CheckStatus
<1>4. /\ check' \in [Check -> CheckDoc] /\ OtherChecks(c)
      /\ check'[c].st = "tx" /\ check'[c].test = loc[p].test
      /\ check'[c].status \in Compared
  BY <1>1, <1>2, <1>3 DEF OtherChecks
<1> DEFINE l == [loc[p] EXCEPT !.check = c]
<1>5. /\ l \in Locals /\ l.kind = loc[p].kind /\ l.test = loc[p].test /\ l.check = c
      /\ l.rest = loc[p].rest /\ l.status = loc[p].status /\ l.dirty = loc[p].dirty
  BY <1>2 DEF Locals
<1>6. loc' = [loc EXCEPT ![p] = l] /\ Goto(p, "cSave") /\ "cSave" \in Steps
  BY <1>1, <1>2, StepNames DEF CreateInsert
<1> HIDE DEF l
<1>7. Calls /\ Others(p) /\ pc'[p] = "cSave" /\ loc'[p] = l
  BY <1>5, <1>6, StepDoes
<1>8. QED
  BY <1>1, <1>4, <1>5, <1>7 DEF Moves

LEMMA CreateSaveDoes ==
  ASSUME TypeOK, NEW p \in Request, CreateSave(p)
  PROVE  Calls /\ Others(p) /\ Moves(p, "cCommit") /\ loc' = loc
BY StepNames DEF CreateSave, Goto, TypeOK, Calls, Others, Kept, Moves

LEMMA CreateCommitDoes ==
  ASSUME TypeOK, NEW p \in Request, CreateCommit(p),
         loc[p].test \in Test, loc[p].check \in Check
  PROVE  LET t == loc[p].test
             k == loc[p].check
         IN  /\ Calls /\ Others(p) /\ Ends(p)
             /\ check' \in [Check -> CheckDoc] /\ OtherChecks(k)
             /\ check'[k].st = "live" /\ check'[k].test = check[k].test
             /\ test' \in [Test -> TestDoc] /\ OtherTests(t)
             /\ test'[t].st = test[t].st /\ test'[t].status = test[t].status
             /\ test'[t].ended = test[t].ended
             /\ test'[t].checks = test[t].checks \cup {k}
<1> DEFINE t == loc[p].test
           k == loc[p].check
           d == [test[t] EXCEPT !.checks = @ \cup {k}]
           e == [check[k] EXCEPT !.st = "live"]
<1>1. /\ test \in [Test -> TestDoc] /\ test[t] \in TestDoc
      /\ check \in [Check -> CheckDoc] /\ check[k] \in CheckDoc
  BY DEF TypeOK
<1>2. /\ d \in TestDoc /\ d.st = test[t].st /\ d.status = test[t].status
      /\ d.ended = test[t].ended /\ d.checks = test[t].checks \cup {k}
  BY <1>1 DEF TestDoc
<1>3. e \in CheckDoc /\ e.st = "live" /\ e.test = check[k].test
  BY <1>1 DEF CheckDoc
<1>4. test' = [test EXCEPT ![t] = d] /\ check' = [check EXCEPT ![k] = e]
  BY <1>1 DEF CreateCommit
<1>5. /\ Goto(p, "idle") /\ "idle" \in Steps
      /\ loc' = [MarkStale(t, loc) EXCEPT ![p] = Blank]
  BY StepNames DEF CreateCommit
<1> HIDE DEF d, e
<1>6. Calls /\ Others(p) /\ Ends(p)
  BY <1>5, BlankTyped, WriteDoes DEF Ends
<1>7. check' \in [Check -> CheckDoc] /\ OtherChecks(k) /\ check'[k] = e
  BY <1>1, <1>3, <1>4 DEF OtherChecks
<1>8. test' \in [Test -> TestDoc] /\ OtherTests(t) /\ test'[t] = d
  BY <1>1, <1>2, <1>4 DEF OtherTests
<1>9. QED
  BY <1>2, <1>3, <1>6, <1>7, <1>8

\* AcceptCheck and ChangeCheck.
LEMMA CheckWriteDoes ==
  ASSUME TypeOK, NEW p \in Request, NEW step \in Steps, loc[p].check \in Check,
         check' = [check EXCEPT ![loc[p].check].status = loc[p].to],
         loc' = [loc EXCEPT ![p].check = None, ![p].to = "new"], Goto(p, step)
  PROVE  LET k == loc[p].check
         IN  /\ Calls /\ Others(p) /\ Moves(p, step)
             /\ loc'[p].check = None /\ loc'[p].rest = loc[p].rest
             /\ loc'[p].status = loc[p].status /\ loc'[p].dirty = loc[p].dirty
             /\ check' \in [Check -> CheckDoc] /\ OtherChecks(k)
             /\ check'[k].st = check[k].st /\ check'[k].test = check[k].test
             /\ check'[k].status = loc[p].to
<1> DEFINE l == [loc[p] EXCEPT !.check = None, !.to = "new"]
<1>1. loc[p] \in Locals /\ loc \in [Request -> Locals] /\ loc[p].to \in CheckStatus
  BY LocalFields DEF TypeOK
<1>2. /\ l \in Locals /\ l.kind = loc[p].kind /\ l.test = loc[p].test /\ l.check = None
      /\ l.rest = loc[p].rest /\ l.status = loc[p].status /\ l.dirty = loc[p].dirty
  BY <1>1 DEF Locals, CheckStatus, Compared
<1>3. loc' = [loc EXCEPT ![p] = l]
  BY <1>1
<1> HIDE DEF l
<1>4. Calls /\ Others(p) /\ pc'[p] = step /\ loc'[p] = l
  BY <1>2, <1>3, StepDoes
<1>5. QED
  BY <1>1, <1>2, <1>4, StatusWritten DEF Moves

LEMMA LoadTestDoes ==
  ASSUME TypeOK, NEW p \in Request, LoadTest(p), loc[p].test \in Test
  PROVE  /\ Calls /\ Others(p) /\ Moves(p, "tStatus")
         /\ loc'[p].check = loc[p].check /\ loc'[p].rest = loc[p].rest
         /\ loc'[p].status = test[loc[p].test].status /\ ~loc'[p].dirty
<1> DEFINE l == Loaded(loc[p].test, loc[p])
<1>1. /\ loc[p] \in Locals /\ loc \in [Request -> Locals]
      /\ test[loc[p].test].status \in TestStatus
  BY Parts, TestFields DEF TypeOK
<1>2. /\ l \in Locals /\ l.kind = loc[p].kind /\ l.test = loc[p].test
      /\ l.check = loc[p].check /\ l.rest = loc[p].rest
      /\ l.status = test[loc[p].test].status /\ ~l.dirty
  BY <1>1 DEF Locals, Loaded
<1>3. loc' = [loc EXCEPT ![p] = l] /\ Goto(p, "tStatus") /\ "tStatus" \in Steps
  BY StepNames DEF LoadTest
<1> HIDE DEF l
<1>4. Calls /\ Others(p) /\ pc'[p] = "tStatus" /\ loc'[p] = l
  BY <1>2, <1>3, StepDoes
<1>5. QED
  BY <1>2, <1>4 DEF Moves

LEMMA StatusDoes ==
  ASSUME TypeOK, NEW p \in Request, Status(p)
  PROVE  LET s == StatusOnReview(loc[p].test)
         IN  /\ Calls /\ Others(p) /\ Moves(p, "tSave")
             /\ loc'[p].check = loc[p].check /\ loc'[p].rest = loc[p].rest
             /\ loc'[p].status = s /\ loc'[p].dirty = (s # loc[p].status)
<1> DEFINE s == StatusOnReview(loc[p].test)
           dirty == s # loc[p].status
           l == [loc[p] EXCEPT !.status = s, !.dirty = dirty]
<1>1. loc[p] \in Locals /\ loc \in [Request -> Locals] /\ s \in TestStatus /\ dirty \in BOOLEAN
  BY DEF TypeOK, StatusOnReview, TestStatus
<1>2. loc' = [loc EXCEPT ![p] = l] /\ Goto(p, "tSave") /\ "tSave" \in Steps
  BY <1>1, StepNames DEF Status
<1> HIDE DEF s, dirty
<1>3. /\ l \in Locals /\ l.kind = loc[p].kind /\ l.test = loc[p].test
      /\ l.check = loc[p].check /\ l.rest = loc[p].rest /\ l.status = s /\ l.dirty = dirty
  BY <1>1 DEF Locals
<1> HIDE DEF l
<1>4. Calls /\ Others(p) /\ pc'[p] = "tSave" /\ loc'[p] = l
  BY <1>2, <1>3, StepDoes
<1>5. QED
  BY <1>3, <1>4 DEF Moves, s, dirty

LEMMA SaveTestDoes ==
  ASSUME TypeOK, NEW p \in Request, SaveTest(p), loc[p].test \in Test
  PROVE  LET t == loc[p].test
         IN  /\ Calls /\ Others(p)
             /\ IF loc[p].kind = "removeTest"
                  THEN /\ Moves(p, "xNext") /\ loc'[p].check = loc[p].check
                       /\ loc'[p].rest = loc[p].rest /\ ~loc'[p].dirty
                  ELSE Ends(p)
             /\ test[t].st = "live" /\ ~Locked(t)
             /\ test' \in [Test -> TestDoc] /\ OtherTests(t)
             /\ test'[t].st = test[t].st /\ test'[t].checks = test[t].checks
             /\ test'[t].ended = test[t].ended
             /\ test'[t].status = IF loc[p].dirty THEN loc[p].status ELSE test[t].status
<1> DEFINE t == loc[p].test
           s == IF loc[p].dirty THEN loc[p].status ELSE test[t].status
           d == [test[t] EXCEPT !.status = s]
<1>1. /\ test \in [Test -> TestDoc] /\ test[t] \in TestDoc
      /\ loc \in [Request -> Locals] /\ loc[p] \in Locals
  BY DEF TypeOK
<1>2. s \in TestStatus
  BY <1>1, LocalFields, TestFields
<1>3. /\ test[t].st = "live" /\ ~Locked(t)
      /\ test' = [test EXCEPT ![t] = d]
  BY <1>1 DEF SaveTest
<1> HIDE DEF s
<1>4. /\ d \in TestDoc /\ d.st = test[t].st /\ d.checks = test[t].checks
      /\ d.ended = test[t].ended /\ d.status = s
  BY <1>1, <1>2 DEF TestDoc
<1> HIDE DEF d
<1>5. test' \in [Test -> TestDoc] /\ test'[t] = d /\ OtherTests(t)
  BY <1>1, <1>3, <1>4 DEF OtherTests
<1>6. CASE loc[p].kind = "removeTest"
  <2> DEFINE m == MarkStale(t, loc)[p]
             l == [m EXCEPT !.status = "Running", !.dirty = FALSE]
  <2>1. /\ MarkStale(t, loc) \in [Request -> Locals] /\ m \in Locals
        /\ m.kind = loc[p].kind /\ m.test = loc[p].test /\ m.check = loc[p].check
        /\ m.rest = loc[p].rest
    BY <1>1, MarkStaleKeeps
  <2>2. Goto(p, "xNext") /\ "xNext" \in Steps
    BY <1>6, StepNames DEF SaveTest
  <2>3. loc' = [MarkStale(t, loc) EXCEPT ![p] = l]
    <3>1. loc' = [MarkStale(t, loc) EXCEPT ![p].status = "Running", ![p].dirty = FALSE]
      BY <1>6 DEF SaveTest
    <3>2. QED
      BY <2>1, <3>1
  <2> HIDE DEF m
  <2>4. /\ l \in Locals /\ l.kind = m.kind /\ l.test = m.test /\ l.check = m.check
        /\ l.rest = m.rest /\ ~l.dirty
    BY <2>1 DEF Locals, TestStatus
  <2> HIDE DEF l
  <2>5. Calls /\ Others(p) /\ pc'[p] = "xNext" /\ loc'[p] = l
    BY <2>2, <2>3, <2>4, WriteDoes
  <2>6. QED
    BY <1>3, <1>4, <1>5, <1>6, <2>1, <2>4, <2>5 DEF Moves, s
<1>7. CASE loc[p].kind # "removeTest"
  <2>1. Goto(p, "idle") /\ "idle" \in Steps /\ loc' = [MarkStale(t, loc) EXCEPT ![p] = Blank]
    BY <1>7, StepNames DEF SaveTest
  <2>2. Calls /\ Others(p) /\ Ends(p)
    BY <2>1, BlankTyped, WriteDoes DEF Ends
  <2>3. QED
    BY <1>3, <1>4, <1>5, <1>7, <2>2 DEF s
<1>8. QED
  BY <1>6, <1>7

LEMMA RemoveNextDoes ==
  ASSUME TypeOK, NEW p \in Request, RemoveNext(p)
  PROVE  /\ Calls /\ Others(p)
         /\ loc'[p].check = loc[p].check
         /\ \/ \E c \in loc[p].rest \cap Check :
                 /\ check[c].st = "live" /\ check' = Deleted({c})
                 /\ Moves(p, "dLoad") /\ loc'[p].rest = loc[p].rest \ {c}
            \/ /\ loc[p].rest = {} /\ check' = check /\ Moves(p, "xTest")
               /\ loc'[p].rest = {}
<1>1. loc[p] \in Locals /\ loc \in [Request -> Locals] /\ loc[p].rest \in SUBSET Check
  BY LocalFields DEF TypeOK
<1>2. ASSUME NEW c \in loc[p].rest,
             check[c].st = "live", check' = Deleted({c}),
             loc' = [loc EXCEPT ![p].rest = @ \ {c}], Goto(p, "dLoad")
      PROVE  /\ Calls /\ Others(p) /\ loc'[p].check = loc[p].check
             /\ Moves(p, "dLoad") /\ loc'[p].rest = loc[p].rest \ {c}
  <2> DEFINE l == [loc[p] EXCEPT !.rest = @ \ {c}]
  <2>1. /\ l \in Locals /\ l.kind = loc[p].kind /\ l.test = loc[p].test
        /\ l.check = loc[p].check /\ l.rest = loc[p].rest \ {c}
    BY <1>1 DEF Locals
  <2>2. loc' = [loc EXCEPT ![p] = l] /\ "dLoad" \in Steps
    BY <1>1, <1>2, StepNames
  <2> HIDE DEF l
  <2>3. Calls /\ Others(p) /\ pc'[p] = "dLoad" /\ loc'[p] = l
    BY <1>2, <2>1, <2>2, StepDoes
  <2>4. QED
    BY <2>1, <2>3 DEF Moves
<1>3. CASE loc[p].rest = {} /\ Goto(p, "xTest") /\ UNCHANGED <<check, loc>>
  <2>1. Calls /\ Others(p) /\ Moves(p, "xTest") /\ loc' = loc
    BY <1>3, StepNames DEF Goto, TypeOK, Calls, Others, Kept, Moves
  <2>2. QED
    BY <1>3, <2>1
<1>4. QED
  BY <1>1, <1>2, <1>3 DEF RemoveNext

LEMMA RemoveLastDoes ==
  ASSUME TypeOK, NEW p \in Request, RemoveLast(p), loc[p].test \in Test
  PROVE  LET t == loc[p].test
         IN  /\ Calls /\ Others(p) /\ Ends(p) /\ ~Locked(t)
             /\ test' \in [Test -> TestDoc] /\ OtherTests(t)
             /\ test'[t].st = "gone" /\ test'[t].checks = {}
             /\ test'[t].ended = test[t].ended
<1> DEFINE t == loc[p].test
           d == [NewTest EXCEPT !.st = "gone", !.ended = test[t].ended]
<1>1. test \in [Test -> TestDoc] /\ test[t].ended \in BOOLEAN
  BY Parts, TestFields DEF TypeOK
<1>2. d \in TestDoc /\ d.st = "gone" /\ d.checks = {} /\ d.ended = test[t].ended
  BY <1>1 DEF NewTest, TestDoc, TestStatus
<1>3. /\ ~Locked(t) /\ test' = [test EXCEPT ![t] = d]
      /\ loc' = [MarkStale(t, loc) EXCEPT ![p] = Blank]
      /\ Goto(p, "idle") /\ "idle" \in Steps
  BY StepNames DEF RemoveLast
<1> HIDE DEF d
<1>4. Calls /\ Others(p) /\ Ends(p)
  BY <1>3, BlankTyped, WriteDoes DEF Ends
<1>5. QED
  BY <1>1, <1>2, <1>3, <1>4 DEF OtherTests

LEMMA DieDoes ==
  ASSUME TypeOK, NEW p \in Request, Die(p)
  PROVE  /\ Calls /\ Others(p) /\ Ends(p)
         /\ check' \in [Check -> CheckDoc]
         /\ \A c \in Check : IF c = loc[p].check /\ check[c].st = "tx"
                             THEN check'[c].st = "void" ELSE check'[c] = check[c]
<1>1. [NewCheck EXCEPT !.st = "void"] \in CheckDoc /\ [NewCheck EXCEPT !.st = "void"].st = "void"
  BY DEF NewCheck, CheckDoc, CheckStatus, Compared
<1>2. check \in [Check -> CheckDoc]
  BY DEF TypeOK
<1>3. check' = [c \in Check |-> IF c = loc[p].check /\ check[c].st = "tx"
                               THEN [NewCheck EXCEPT !.st = "void"] ELSE check[c]]
  BY DEF Die
<1>4. /\ check' \in [Check -> CheckDoc]
      /\ \A c \in Check : IF c = loc[p].check /\ check[c].st = "tx"
                          THEN check'[c].st = "void" ELSE check'[c] = check[c]
  BY <1>1, <1>2, <1>3
<1>5. QED
  BY <1>4, FinishDoes DEF Die

-----------------------------------------------------------------------------
(* Every state is of the types, every request is at a step of its kind, on a *)
(* test that has been created, and a check that is being created belongs to  *)
(* one transaction.                                                          *)

Stage(kind, step) ==
  \/ kind = "none" /\ step = "idle"
  \/ kind = "create" /\ step \in {"cBegin", "cInsert", "cSave", "cCommit"}
  \/ kind = "end" /\ step \in {"eRead", "eUpdate", "eCount"}
  \/ kind = "accept" /\ step \in {"aCheck", "tStatus", "tSave"}
  \/ kind = "change" /\ step \in {"uCheck", "dLoad", "tStatus", "tSave"}
  \/ kind = "remove" /\ step \in {"dLoad", "tStatus", "tSave"}
  \/ kind = "removeTest" /\ step \in {"xNext", "xTest", "dLoad", "tStatus", "tSave"}

Placed ==
  \A p \in Request :
    /\ Stage(loc[p].kind, pc[p])
    /\ pc[p] = "idle" => loc[p].test = None
    /\ pc[p] # "idle" => loc[p].test \in Test /\ test[loc[p].test].st # "free"
    /\ pc[p] = "cCommit" => test[loc[p].test].st = "live"

Homes ==
  \A c \in Check : check[c].st \in {"live", "tx"} =>
    check[c].test \in Test /\ test[check[c].test].st # "free"

Creates(p) == pc[p] \in {"cSave", "cCommit"}
Writes(p) == pc[p] \in {"aCheck", "uCheck"}

Named ==
  \A p \in Request :
    LET k == loc[p].check
    IN  /\ Creates(p) => k \in Check /\ check[k].st = "tx" /\ check[k].test = loc[p].test
        /\ Writes(p) => /\ k \in Check /\ check[k].st \in {"live", "gone"}
                        /\ check[k].st = "live" => check[k].test = loc[p].test
        /\ ~Creates(p) /\ ~Writes(p) => k = None

Owned ==
  \A p, q \in Request : Creates(p) /\ Creates(q) /\ loc[p].check = loc[q].check => p = q

Typed == TypeOK /\ Placed /\ Homes /\ Named /\ Owned

\* What a step may do to the states of tests and of checks.
TestsGo ==
  \A t \in Test :
    /\ test[t].st # "free" => test'[t].st # "free"
    /\ test[t].st = "live" => test'[t].st = "live" \/ ~Locked(t)

CheckGoes(p, c) ==
  \/ check'[c].st = check[c].st /\ check'[c].test = check[c].test
  \/ check[c].st = "live" /\ check'[c].st = "gone"
  \/ /\ check[c].st = "free" /\ check'[c].st = "tx" /\ check'[c].test = loc[p].test
     /\ pc[p] # "idle"
  \/ /\ check[c].st = "tx" /\ c = loc[p].check
     /\ check'[c].st = "live" => check'[c].test = check[c].test
     /\ check'[c].st \in {"live", "void"}

\* Where p goes.
PlacedAt(p) ==
  /\ Stage(loc'[p].kind, pc'[p])
  /\ pc'[p] = "idle" => loc'[p].test = None
  /\ pc'[p] # "idle" => loc'[p].test \in Test /\ test'[loc'[p].test].st # "free"
  /\ pc'[p] = "cCommit" => test'[loc'[p].test].st = "live"

NamedAt(p) ==
  LET k == loc'[p].check
  IN  /\ pc'[p] \in {"cSave", "cCommit"} =>
           /\ k \in Check /\ check'[k].st = "tx" /\ check'[k].test = loc'[p].test
           /\ check[k].st = "free" \/ (Creates(p) /\ loc[p].check = k)
      /\ pc'[p] \in {"aCheck", "uCheck"} =>
           /\ k \in Check /\ check'[k].st \in {"live", "gone"}
           /\ check'[k].st = "live" => check'[k].test = loc'[p].test
      /\ pc'[p] \notin {"cSave", "cCommit", "aCheck", "uCheck"} => k = None

LEMMA NoneIsNoCheck == None \notin Test /\ None \notin Check
  BY TestRunAssumption

LEMMA TypedStep ==
  ASSUME Typed, TypeOK', NEW p \in Request, Others(p), TestsGo,
         \A c \in Check : CheckGoes(p, c), PlacedAt(p), NamedAt(p)
  PROVE  Typed'
<1>1. \A q \in Request : q # p =>
        /\ pc'[q] = pc[q] /\ loc'[q].kind = loc[q].kind /\ loc'[q].test = loc[q].test
        /\ loc'[q].check = loc[q].check
  BY DEF Others, Kept
<1>2. Placed'
  <2>1. SUFFICES ASSUME NEW q \in Request, q # p
                 PROVE  /\ Stage(loc[q].kind, pc[q])'
                        /\ pc'[q] = "idle" => loc'[q].test = None
                        /\ pc'[q] # "idle" => loc'[q].test \in Test /\ test'[loc'[q].test].st # "free"
                        /\ pc'[q] = "cCommit" => test'[loc'[q].test].st = "live"
    BY DEF Placed, PlacedAt, Stage
  <2>2. /\ Stage(loc[q].kind, pc[q])
        /\ pc[q] = "idle" => loc[q].test = None
        /\ pc[q] # "idle" => loc[q].test \in Test /\ test[loc[q].test].st # "free"
        /\ pc[q] = "cCommit" => test[loc[q].test].st = "live" /\ Locked(loc[q].test)
    BY DEF Typed, Placed, Locked
  <2>3. Stage(loc[q].kind, pc[q])'
    BY <1>1, <2>1, <2>2 DEF Stage
  <2>4. QED
    BY <1>1, <2>1, <2>2, <2>3 DEF TestsGo
<1>3. Homes'
  <2>1. SUFFICES ASSUME NEW c \in Check, check'[c].st \in {"live", "tx"}
                 PROVE  check'[c].test \in Test /\ test'[check'[c].test].st # "free"
    BY DEF Homes
  <2>2. CheckGoes(p, c)
    OBVIOUS
  <2>3. check'[c].test \in Test /\ test[check'[c].test].st # "free"
    BY <2>1, <2>2 DEF CheckGoes, Typed, Homes, Placed
  <2>4. QED
    BY <2>3 DEF TestsGo
<1>4. Named'
  <2>1. SUFFICES ASSUME NEW q \in Request, q # p
                 PROVE  LET k == loc'[q].check
                        IN  /\ Creates(q)' => /\ k \in Check /\ check'[k].st = "tx"
                                              /\ check'[k].test = loc'[q].test
                            /\ Writes(q)' => /\ k \in Check /\ check'[k].st \in {"live", "gone"}
                                             /\ check'[k].st = "live" => check'[k].test = loc'[q].test
                            /\ ~Creates(q)' /\ ~Writes(q)' => k = None
    BY DEF Named, NamedAt, Creates, Writes
  <2> DEFINE k == loc[q].check
  <2>2. loc'[q].check = k /\ pc'[q] = pc[q] /\ loc'[q].test = loc[q].test
    BY <1>1, <2>1
  <2>3. CASE Creates(q)
    <3>1. k \in Check /\ check[k].st = "tx" /\ check[k].test = loc[q].test
      BY <2>3 DEF Typed, Named
    <3>2. k = loc[p].check => FALSE
      <4>1. SUFFICES ASSUME k = loc[p].check
                     PROVE  FALSE
        OBVIOUS
      <4>2. ~Creates(p)
        BY <2>1, <2>3, <4>1 DEF Typed, Owned
      <4>3. ~Writes(p)
        BY <3>1, <4>1 DEF Typed, Named
      <4>4. QED
        BY <3>1, <4>1, <4>2, <4>3, NoneIsNoCheck DEF Typed, Named
    <3>3. check'[k].st = "tx" /\ check'[k].test = loc[q].test
      BY <3>1, <3>2 DEF CheckGoes
    <3>4. QED
      BY <2>2, <2>3, <3>1, <3>3 DEF Creates, Writes
  <2>4. CASE Writes(q)
    <3>1. /\ k \in Check /\ check[k].st \in {"live", "gone"}
          /\ check[k].st = "live" => check[k].test = loc[q].test
      BY <2>4 DEF Typed, Named
    <3>2. CheckGoes(p, k)
      BY <3>1
    <3>3. /\ check'[k].st \in {"live", "gone"}
          /\ check'[k].st = "live" => check'[k].test = loc[q].test
      BY <3>1, <3>2 DEF CheckGoes
    <3>4. QED
      BY <2>2, <2>4, <3>1, <3>3 DEF Creates, Writes
  <2>5. CASE ~Creates(q) /\ ~Writes(q)
    BY <2>2, <2>5 DEF Creates, Writes, Typed, Named
  <2>6. QED
    BY <2>3, <2>4, <2>5
<1>5. Owned'
  <2>1. \A q \in Request : q # p /\ Creates(q) =>
          /\ loc[q].check \in Check /\ check[loc[q].check].st = "tx"
          /\ Creates(p) => loc[q].check # loc[p].check
    BY DEF Typed, Named, Owned
  <2>2. \A q \in Request : q # p /\ Creates(q)' /\ Creates(p)' => loc'[q].check # loc'[p].check
    BY <1>1, <2>1 DEF Creates, NamedAt
  <2>3. \A q, r \in Request : q # p /\ r # p /\ Creates(q)' /\ Creates(r)'
                              /\ loc'[q].check = loc'[r].check => q = r
    BY <1>1 DEF Creates, Typed, Owned
  <2>4. QED
    BY <2>2, <2>3 DEF Owned
<1>6. QED
  BY <1>2, <1>3, <1>4, <1>5 DEF Typed

\* Steps that leave the documents, or the tests, alone.
LEMMA SameChecks ==
  ASSUME check' = check, NEW p, NEW c \in Check
  PROVE  CheckGoes(p, c)
  BY DEF CheckGoes

LEMMA SameTests ==
  ASSUME test' = test
  PROVE  TestsGo
  BY DEF TestsGo

LEMMA DeletedGoes ==
  ASSUME TypeOK, NEW d \in Check, check[d].st = "live", check' = Deleted({d}),
         NEW p, NEW c \in Check
  PROVE  CheckGoes(p, c)
  BY DeletedDoes DEF CheckGoes

LEMMA StartTyped ==
  ASSUME Typed, NEW p \in Request,
         EndSession(p) \/ CreateCheck(p) \/ Accept(p) \/ Change(p) \/ Remove(p) \/ RemoveTest(p)
  PROVE  Typed'
<1>1. test' = test /\ finished' = finished /\ cut' = cut
  BY DEF EndSession, CreateCheck, Accept, Change, Remove, RemoveTest, docVars, sentVars
<1>2. \A c \in Check : check[c].st = "live" => check[c].test \in Test
                                              /\ test[check[c].test].st # "free"
  BY DEF Typed, Homes
<1>3. \A t \in Open : t \in Test /\ test[t].st = "live"
  BY DEF Open, LiveTests
<1>4. ASSUME NEW kind, NEW step, NEW t \in Test, test[t].st # "free",
             Begins(p, kind, step, t), Stage(kind, step), step \notin {"idle", "cCommit"},
             check' \in [Check -> CheckDoc], \A c \in Check : CheckGoes(p, c),
             NamedAt(p)
      PROVE  Typed'
  <2>1. Calls /\ Others(p) /\ pc'[p] = step /\ loc'[p].kind = kind /\ loc'[p].test = t
        /\ mixed' \subseteq Test
    BY <1>4 DEF Begins, Typed, TypeOK
  <2>2. TypeOK'
    BY <1>1, <1>4, <2>1 DEF Typed, TypeOK, Calls
  <2>3. PlacedAt(p)
    BY <1>1, <1>4, <2>1 DEF PlacedAt
  <2>4. QED
    BY <1>1, <1>4, <2>1, <2>2, <2>3, SameTests, TypedStep
<1>5. check \in [Check -> CheckDoc]
  BY DEF Typed, TypeOK
<1>6. CASE EndSession(p)
  <2>1. PICK t \in Open : Begins(p, "end", "eRead", t) /\ loc'[p].check = None
    BY <1>6, EndSessionDoes DEF Typed
  <2>2. check' = check /\ pc'[p] = "eRead"
    BY <1>6, <2>1 DEF EndSession, docVars, Begins
  <2>3. Stage("end", "eRead") /\ NamedAt(p)
    BY <2>1, <2>2 DEF Stage, NamedAt
  <2>4. QED
    BY <1>3, <1>4, <1>5, <2>1, <2>2, <2>3, SameChecks
<1>7. CASE CreateCheck(p)
  <2>1. PICK t \in Open : Begins(p, "create", "cBegin", t) /\ loc'[p].check = None
    BY <1>7, CreateCheckDoes DEF Typed
  <2>2. check' = check /\ pc'[p] = "cBegin"
    BY <1>7, <2>1 DEF CreateCheck, docVars, Begins
  <2>3. Stage("create", "cBegin") /\ NamedAt(p)
    BY <2>1, <2>2 DEF Stage, NamedAt
  <2>4. QED
    BY <1>3, <1>4, <1>5, <2>1, <2>2, <2>3, SameChecks
<1>8. CASE Accept(p)
  <2>1. PICK c \in Check : /\ check[c].st = "live"
                           /\ Begins(p, "accept", "aCheck", check[c].test)
                           /\ loc'[p].check = c
    BY <1>2, <1>8, AcceptDoes DEF Typed
  <2>2. check' = check /\ pc'[p] = "aCheck" /\ loc'[p].test = check[c].test
    BY <1>8, <2>1 DEF Accept, docVars, Begins
  <2>3. Stage("accept", "aCheck") /\ NamedAt(p)
    BY <2>1, <2>2 DEF Stage, NamedAt
  <2>4. QED
    BY <1>2, <1>4, <1>5, <2>1, <2>2, <2>3, SameChecks
<1>9. CASE Change(p)
  <2>1. PICK c \in Check : /\ check[c].st = "live"
                           /\ Begins(p, "change", "uCheck", check[c].test)
                           /\ loc'[p].check = c
    BY <1>2, <1>9, ChangeDoes DEF Typed
  <2>2. check' = check /\ pc'[p] = "uCheck" /\ loc'[p].test = check[c].test
    BY <1>9, <2>1 DEF Change, docVars, Begins
  <2>3. Stage("change", "uCheck") /\ NamedAt(p)
    BY <2>1, <2>2 DEF Stage, NamedAt
  <2>4. QED
    BY <1>2, <1>4, <1>5, <2>1, <2>2, <2>3, SameChecks
<1>10. CASE Remove(p)
  <2>1. PICK c \in Check : /\ check[c].st = "live" /\ check' = Deleted({c})
                           /\ Begins(p, "remove", "dLoad", check[c].test)
                           /\ loc'[p].check = None
    BY <1>2, <1>10, RemoveDoes DEF Typed
  <2>2. pc'[p] = "dLoad"
    BY <2>1 DEF Begins
  <2>3. Stage("remove", "dLoad") /\ NamedAt(p)
    BY <2>1, <2>2 DEF Stage, NamedAt
  <2>4. \A d \in Check : CheckGoes(p, d)
    BY <2>1, DeletedGoes DEF Typed
  <2>5. check' \in [Check -> CheckDoc]
    BY <2>1, DeletedDoes DEF Typed
  <2>6. QED
    BY <1>2, <1>4, <2>1, <2>3, <2>4, <2>5
<1>11. CASE RemoveTest(p)
  <2>1. PICK t \in LiveTests : Begins(p, "removeTest", "xNext", t) /\ loc'[p].check = None
    BY <1>11, RemoveTestDoes DEF Typed
  <2>2. check' = check /\ pc'[p] = "xNext"
    BY <1>11, <2>1 DEF RemoveTest, docVars, Begins
  <2>3. Stage("removeTest", "xNext") /\ NamedAt(p) /\ t \in Test /\ test[t].st # "free"
    BY <2>1, <2>2 DEF Stage, NamedAt, LiveTests
  <2>4. QED
    BY <1>4, <1>5, <2>1, <2>2, <2>3, SameChecks
<1>12. QED
  BY <1>6, <1>7, <1>8, <1>9, <1>10, <1>11

\* A request that goes on with its test: what is left to show.
LEMMA MovesTyped ==
  ASSUME Typed, NEW p \in Request, NEW step, pc[p] # "idle", Calls, Others(p),
         Moves(p, step), Stage(loc[p].kind, step), step # "idle",
         step = "cCommit" => test[loc[p].test].st = "live" /\ test' = test,
         TestsGo, \A c \in Check : CheckGoes(p, c), NamedAt(p),
         test' \in [Test -> TestDoc], check' \in [Check -> CheckDoc],
         finished' \in BOOLEAN, mixed' = mixed, cut' = cut
  PROVE  Typed'
<1>1. TypeOK'
  BY DEF Typed, TypeOK, Calls
<1>2. loc[p].test \in Test /\ test[loc[p].test].st # "free"
  BY DEF Typed, Placed
<1>3. test'[loc[p].test].st # "free"
  BY <1>2 DEF TestsGo
<1>4. PlacedAt(p)
  BY <1>2, <1>3 DEF Moves, PlacedAt
<1>5. QED
  BY <1>1, <1>4, TypedStep

LEMMA EndsTyped ==
  ASSUME Typed, NEW p \in Request, Calls, Others(p), Ends(p),
         TestsGo, \A c \in Check : CheckGoes(p, c),
         test' \in [Test -> TestDoc], check' \in [Check -> CheckDoc],
         finished' \in BOOLEAN, mixed' = mixed, cut' \subseteq Test
  PROVE  Typed'
<1>1. TypeOK'
  BY DEF Typed, TypeOK, Calls
<1>2. PlacedAt(p) /\ NamedAt(p)
  BY BlankTyped DEF Ends, PlacedAt, NamedAt, Stage
<1>3. QED
  BY <1>1, <1>2, TypedStep

\* The facts about p that its steps start from.
LEMMA Here ==
  ASSUME Typed, NEW p \in Request, pc[p] # "idle"
  PROVE  /\ TypeOK /\ loc[p].test \in Test /\ test[loc[p].test].st # "free"
         /\ Stage(loc[p].kind, pc[p])
         /\ test \in [Test -> TestDoc] /\ check \in [Check -> CheckDoc]
         /\ finished \in BOOLEAN /\ cut \subseteq Test
BY DEF Typed, TypeOK, Placed

LEMMA StartSessionTyped ==
  ASSUME Typed, NEW t \in Test, StartSession(t)
  PROVE  Typed'
<1>1. /\ test[t].st = "free" /\ test' = [test EXCEPT ![t] = NewTest]
      /\ check' = check /\ pc' = pc /\ loc' = loc /\ mixed' = mixed /\ cut' = cut
      /\ finished' = FALSE
  BY DEF StartSession, reqVars
<1>2. NewTest \in TestDoc /\ NewTest.st = "live" /\ test \in [Test -> TestDoc]
  BY DEF NewTest, TestDoc, TestStatus, Typed, TypeOK
<1>3. /\ test' \in [Test -> TestDoc] /\ test'[t].st = "live"
      /\ \A u \in Test : u # t => test'[u] = test[u]
  BY <1>1, <1>2
<1>4. TypeOK'
  BY <1>1, <1>3 DEF Typed, TypeOK
<1>5. \A u \in Test : test[u].st # "free" => test'[u] = test[u]
  BY <1>1, <1>3
<1>6. Placed'
  BY <1>1, <1>5 DEF Typed, Placed, Stage
<1>7. Homes'
  BY <1>1, <1>5 DEF Typed, Homes
<1>8. Named' /\ Owned'
  BY <1>1 DEF Typed, Named, Owned, Creates, Writes
<1>9. QED
  BY <1>4, <1>6, <1>7, <1>8 DEF Typed

LEMMA EndTyped ==
  ASSUME Typed, NEW p \in Request, EndRead(p) \/ EndUpdate(p) \/ EndCount(p)
  PROVE  Typed'
<1>1. pc[p] \in {"eRead", "eUpdate", "eCount"} /\ check' = check /\ mixed' = mixed /\ cut' = cut
  BY DEF EndRead, EndUpdate, EndCount, docVars, sentVars
<1>2. /\ TypeOK /\ loc[p].test \in Test /\ Stage(loc[p].kind, pc[p])
      /\ test \in [Test -> TestDoc] /\ check \in [Check -> CheckDoc]
      /\ finished \in BOOLEAN /\ cut \subseteq Test
  BY <1>1, Here
<1>3. loc[p].kind = "end" /\ loc[p].check = None
  BY <1>1, <1>2 DEF Stage, Typed, Named, Creates, Writes
<1>4. \A c \in Check : CheckGoes(p, c)
  BY <1>1, SameChecks
<1>5. CASE EndRead(p)
  <2>1. Calls /\ Others(p) /\ Moves(p, "eUpdate") /\ loc'[p].check = None
    BY <1>2, <1>3, <1>5, EndReadDoes
  <2>2. test' = test /\ finished' = finished
    BY <1>5 DEF EndRead, docVars, sentVars
  <2>3. NamedAt(p) /\ Stage(loc[p].kind, "eUpdate") /\ TestsGo
    BY <1>3, <2>1, <2>2, SameTests DEF NamedAt, Stage, Moves
  <2>4. QED
    BY <1>1, <1>2, <1>4, <2>1, <2>2, <2>3, MovesTyped
<1>6. CASE EndUpdate(p)
  <2>1. finished' = finished
    BY <1>6 DEF EndUpdate
  <2>2. CASE /\ Moves(p, "eCount") /\ loc'[p].check = loc[p].check
             /\ Calls /\ Others(p)
             /\ test' \in [Test -> TestDoc] /\ OtherTests(loc[p].test)
             /\ test'[loc[p].test].st = test[loc[p].test].st
    <3>1. TestsGo
      BY <2>2 DEF TestsGo, OtherTests
    <3>2. NamedAt(p) /\ Stage(loc[p].kind, "eCount")
      BY <1>3, <2>2 DEF NamedAt, Stage, Moves
    <3>3. QED
      BY <1>1, <1>2, <1>4, <2>1, <2>2, <3>1, <3>2, MovesTyped
  <2>3. CASE Ends(p) /\ Calls /\ Others(p) /\ test' = test
    BY <1>1, <1>2, <1>4, <2>1, <2>3, SameTests, EndsTyped
  <2>4. QED
    BY <1>2, <1>6, <2>2, <2>3, EndUpdateDoes
<1>7. CASE EndCount(p)
  <2>1. Calls /\ Others(p) /\ Ends(p) /\ test' = test
    BY <1>2, <1>7, FinishDoes DEF EndCount, docVars
  <2>2. finished' \in BOOLEAN
    BY <1>2, <1>7 DEF EndCount
  <2>3. QED
    BY <1>1, <1>2, <1>4, <2>1, <2>2, SameTests, EndsTyped
<1>8. QED
  BY <1>5, <1>6, <1>7

LEMMA CreateTyped ==
  ASSUME Typed, NEW p \in Request,
         CreateBegin(p) \/ CreateInsert(p) \/ CreateSave(p) \/ CreateCommit(p)
  PROVE  Typed'
<1>1. /\ pc[p] \in {"cBegin", "cInsert", "cSave", "cCommit"}
      /\ finished' = finished /\ mixed' = mixed /\ cut' = cut
  BY DEF CreateBegin, CreateInsert, CreateSave, CreateCommit, sentVars, Typed, Placed, Stage
<1>2. /\ TypeOK /\ loc[p].test \in Test /\ Stage(loc[p].kind, pc[p])
      /\ test \in [Test -> TestDoc] /\ check \in [Check -> CheckDoc]
      /\ finished \in BOOLEAN /\ cut \subseteq Test
  BY <1>1, Here
<1>3. loc[p].kind = "create"
  BY <1>1, <1>2 DEF Stage
<1>4. CASE CreateBegin(p)
  <2>1. /\ Calls /\ Others(p) /\ Moves(p, "cInsert") /\ loc'[p].check = loc[p].check
        /\ pc[p] = "cBegin" /\ test' = test /\ check' = check
    BY <1>2, <1>4, CreateBeginDoes DEF CreateBegin, docVars
  <2>2. loc[p].check = None
    BY <2>1 DEF Typed, Named, Creates, Writes
  <2>3. NamedAt(p) /\ Stage(loc[p].kind, "cInsert") /\ TestsGo
    BY <1>3, <2>1, <2>2, SameTests DEF NamedAt, Stage, Moves
  <2>4. QED
    BY <1>1, <1>2, <2>1, <2>3, SameChecks, MovesTyped
<1>5. CASE CreateInsert(p)
  <2>1. PICK c \in Check :
           /\ Calls /\ Others(p) /\ Moves(p, "cSave") /\ loc'[p].check = c
           /\ check[c].st = "free" /\ check' \in [Check -> CheckDoc] /\ OtherChecks(c)
           /\ check'[c].st = "tx" /\ check'[c].test = loc[p].test
    BY <1>2, <1>5, CreateInsertDoes
  <2>2. test' = test
    BY <1>5 DEF CreateInsert
  <2>3. \A d \in Check : CheckGoes(p, d)
    BY <1>1, <2>1 DEF OtherChecks, CheckGoes
  <2>4. NamedAt(p) /\ Stage(loc[p].kind, "cSave")
    BY <1>3, <2>1 DEF NamedAt, Stage, Moves
  <2>5. QED
    BY <1>1, <1>2, <2>1, <2>2, <2>3, <2>4, SameTests, MovesTyped
<1>6. CASE CreateSave(p)
  <2>1. /\ Calls /\ Others(p) /\ Moves(p, "cCommit") /\ loc' = loc /\ pc[p] = "cSave"
        /\ test' = test /\ check' = check /\ test[loc[p].test].st = "live"
    BY <1>2, <1>6, CreateSaveDoes DEF CreateSave, docVars
  <2>2. Creates(p)
    BY <2>1 DEF Creates
  <2>3. NamedAt(p) /\ Stage(loc[p].kind, "cCommit")
    BY <1>3, <2>1, <2>2 DEF NamedAt, Stage, Moves, Typed, Named
  <2>4. QED
    BY <1>1, <1>2, <2>1, <2>3, SameTests, SameChecks, MovesTyped
<1>7. CASE CreateCommit(p)
  <2> DEFINE t == loc[p].test
             k == loc[p].check
  <2>1. k \in Check /\ check[k].st = "tx" /\ pc[p] = "cCommit"
    BY <1>7 DEF CreateCommit, Typed, Named, Creates
  <2>2. /\ Calls /\ Others(p) /\ Ends(p)
        /\ check' \in [Check -> CheckDoc] /\ OtherChecks(k)
        /\ check'[k].st = "live" /\ check'[k].test = check[k].test
        /\ test' \in [Test -> TestDoc] /\ OtherTests(t)
        /\ test'[t].st = test[t].st
    BY <1>2, <1>7, <2>1, CreateCommitDoes
  <2>3. TestsGo
    BY <2>2 DEF TestsGo, OtherTests
  <2>4. \A c \in Check : CheckGoes(p, c)
    BY <2>1, <2>2 DEF OtherChecks, CheckGoes
  <2>5. QED
    BY <1>1, <1>2, <2>2, <2>3, <2>4, EndsTyped
<1>8. QED
  BY <1>4, <1>5, <1>6, <1>7

LEMMA ReviewTyped ==
  ASSUME Typed, NEW p \in Request,
         AcceptCheck(p) \/ ChangeCheck(p) \/ LoadTest(p) \/ Status(p) \/ SaveTest(p)
  PROVE  Typed'
<1>1. /\ pc[p] \in {"aCheck", "uCheck", "dLoad", "tStatus", "tSave"}
      /\ finished' = finished /\ mixed' = mixed /\ cut' = cut
  BY DEF AcceptCheck, ChangeCheck, LoadTest, Status, SaveTest, sentVars
<1>2. /\ TypeOK /\ loc[p].test \in Test /\ Stage(loc[p].kind, pc[p])
      /\ test \in [Test -> TestDoc] /\ check \in [Check -> CheckDoc]
      /\ finished \in BOOLEAN /\ cut \subseteq Test
  BY <1>1, Here
<1>3. ASSUME NEW step \in {"tStatus", "dLoad"}, Stage(loc[p].kind, step), Writes(p),
             check' = [check EXCEPT ![loc[p].check].status = loc[p].to],
             loc' = [loc EXCEPT ![p].check = None, ![p].to = "new"], Goto(p, step),
             test' = test
      PROVE  Typed'
  <2> DEFINE k == loc[p].check
  <2>1. k \in Check /\ step \in Steps
    BY <1>3, StepNames DEF Typed, Named
  <2>2. /\ Calls /\ Others(p) /\ Moves(p, step) /\ loc'[p].check = None
        /\ check' \in [Check -> CheckDoc] /\ OtherChecks(k)
        /\ check'[k].st = check[k].st /\ check'[k].test = check[k].test
    BY <1>2, <1>3, <2>1, CheckWriteDoes
  <2>3. \A c \in Check : CheckGoes(p, c)
    BY <2>2 DEF OtherChecks, CheckGoes
  <2>4. NamedAt(p)
    BY <1>3, <2>2 DEF NamedAt, Moves
  <2>5. QED
    BY <1>1, <1>2, <1>3, <2>2, <2>3, <2>4, SameTests, MovesTyped
<1>4. CASE AcceptCheck(p)
  <2>1. pc[p] = "aCheck" /\ test' = test
    BY <1>4 DEF AcceptCheck
  <2>2. Writes(p) /\ Stage(loc[p].kind, "tStatus")
    BY <1>2, <2>1 DEF Writes, Stage
  <2>3. QED
    BY <1>3, <1>4, <2>1, <2>2 DEF AcceptCheck
<1>5. CASE ChangeCheck(p)
  <2>1. pc[p] = "uCheck" /\ test' = test
    BY <1>5 DEF ChangeCheck
  <2>2. Writes(p) /\ Stage(loc[p].kind, "dLoad")
    BY <1>2, <2>1 DEF Writes, Stage
  <2>3. QED
    BY <1>3, <1>5, <2>1, <2>2 DEF ChangeCheck
<1>6. CASE LoadTest(p)
  <2>1. /\ Calls /\ Others(p) /\ Moves(p, "tStatus") /\ loc'[p].check = loc[p].check
        /\ pc[p] = "dLoad" /\ test' = test /\ check' = check
    BY <1>2, <1>6, LoadTestDoes DEF LoadTest, docVars
  <2>2. loc[p].check = None
    BY <2>1 DEF Typed, Named, Creates, Writes
  <2>3. NamedAt(p) /\ Stage(loc[p].kind, "tStatus")
    BY <1>2, <2>1, <2>2 DEF NamedAt, Stage, Moves
  <2>4. QED
    BY <1>1, <1>2, <2>1, <2>3, SameTests, SameChecks, MovesTyped
<1>7. CASE Status(p)
  <2>1. /\ Calls /\ Others(p) /\ Moves(p, "tSave") /\ loc'[p].check = loc[p].check
        /\ pc[p] = "tStatus" /\ test' = test /\ check' = check
    BY <1>2, <1>7, StatusDoes DEF Status, docVars
  <2>2. loc[p].check = None
    BY <2>1 DEF Typed, Named, Creates, Writes
  <2>3. NamedAt(p) /\ Stage(loc[p].kind, "tSave")
    BY <1>2, <2>1, <2>2 DEF NamedAt, Stage, Moves
  <2>4. QED
    BY <1>1, <1>2, <2>1, <2>3, SameTests, SameChecks, MovesTyped
<1>8. CASE SaveTest(p)
  <2> DEFINE t == loc[p].test
  <2>1. /\ Calls /\ Others(p)
        /\ IF loc[p].kind = "removeTest"
             THEN Moves(p, "xNext") /\ loc'[p].check = loc[p].check
             ELSE Ends(p)
        /\ test' \in [Test -> TestDoc] /\ OtherTests(t) /\ test'[t].st = test[t].st
    BY <1>2, <1>8, SaveTestDoes
  <2>2. check' = check /\ pc[p] = "tSave"
    BY <1>8 DEF SaveTest
  <2>3. TestsGo
    BY <2>1 DEF TestsGo, OtherTests
  <2>4. CASE loc[p].kind = "removeTest"
    <3>1. loc[p].check = None
      BY <2>2 DEF Typed, Named, Creates, Writes
    <3>2. NamedAt(p) /\ Stage(loc[p].kind, "xNext")
      BY <2>1, <2>4, <3>1 DEF NamedAt, Stage, Moves
    <3>3. QED
      BY <1>1, <1>2, <2>1, <2>2, <2>3, <2>4, <3>2, SameChecks, MovesTyped
  <2>5. CASE loc[p].kind # "removeTest"
    BY <1>1, <1>2, <2>1, <2>2, <2>3, <2>5, SameChecks, EndsTyped
  <2>6. QED
    BY <2>4, <2>5
<1>9. QED
  BY <1>4, <1>5, <1>6, <1>7, <1>8

LEMMA RemovalTyped ==
  ASSUME Typed, NEW p \in Request, RemoveNext(p) \/ RemoveLast(p) \/ Die(p)
  PROVE  Typed'
<1>1. pc[p] # "idle" /\ finished' = finished /\ mixed' = mixed
  BY DEF RemoveNext, RemoveLast, Die, sentVars
<1>2. /\ TypeOK /\ loc[p].test \in Test /\ Stage(loc[p].kind, pc[p])
      /\ test \in [Test -> TestDoc] /\ check \in [Check -> CheckDoc]
      /\ finished \in BOOLEAN /\ cut \subseteq Test
  BY <1>1, Here
<1>3. CASE RemoveNext(p)
  <2>1. pc[p] = "xNext" /\ test' = test /\ cut' = cut
    BY <1>3 DEF RemoveNext, sentVars
  <2>2. loc[p].check = None
    BY <2>1 DEF Typed, Named, Creates, Writes
  <2>3. Stage(loc[p].kind, "dLoad") /\ Stage(loc[p].kind, "xTest")
    BY <1>2, <2>1 DEF Stage
  <2>4. ASSUME NEW c \in loc[p].rest \cap Check, check[c].st = "live", check' = Deleted({c}),
               Moves(p, "dLoad")
        PROVE  Typed'
    <3>1. Calls /\ Others(p) /\ loc'[p].check = loc[p].check
      BY <1>2, <1>3, RemoveNextDoes
    <3>2. NamedAt(p)
      BY <2>2, <2>4, <3>1 DEF NamedAt, Moves
    <3>3. check' \in [Check -> CheckDoc] /\ \A d \in Check : CheckGoes(p, d)
      BY <1>2, <2>4, DeletedDoes, DeletedGoes
    <3>4. QED
      BY <1>1, <1>2, <2>1, <2>3, <2>4, <3>1, <3>2, <3>3, SameTests, MovesTyped
  <2>5. CASE Moves(p, "xTest") /\ check' = check
    <3>1. Calls /\ Others(p) /\ loc'[p].check = loc[p].check
      BY <1>2, <1>3, RemoveNextDoes
    <3>2. NamedAt(p)
      BY <2>2, <2>5, <3>1 DEF NamedAt, Moves
    <3>3. QED
      BY <1>1, <1>2, <2>1, <2>3, <2>5, <3>1, <3>2, SameTests, SameChecks, MovesTyped
  <2>6. QED
    BY <1>2, <1>3, <2>4, <2>5, RemoveNextDoes
<1>4. CASE RemoveLast(p)
  <2>1. /\ Calls /\ Others(p) /\ Ends(p) /\ ~Locked(loc[p].test)
        /\ test' \in [Test -> TestDoc] /\ OtherTests(loc[p].test)
        /\ test'[loc[p].test].st = "gone"
    BY <1>2, <1>4, RemoveLastDoes
  <2>2. check' = check /\ cut' = cut
    BY <1>4 DEF RemoveLast, sentVars
  <2>3. TestsGo
    BY <2>1 DEF TestsGo, OtherTests
  <2>4. QED
    BY <1>1, <1>2, <2>1, <2>2, <2>3, SameChecks, EndsTyped
<1>5. CASE Die(p)
  <2>1. /\ Calls /\ Others(p) /\ Ends(p)
        /\ check' \in [Check -> CheckDoc]
        /\ \A c \in Check : IF c = loc[p].check /\ check[c].st = "tx"
                            THEN check'[c].st = "void" ELSE check'[c] = check[c]
    BY <1>2, <1>5, DieDoes
  <2>2. test' = test /\ cut' \subseteq Test
    BY <1>2, <1>5 DEF Die
  <2>3. \A c \in Check : CheckGoes(p, c)
    BY <2>1 DEF CheckGoes
  <2>4. QED
    BY <1>1, <1>2, <2>1, <2>2, <2>3, SameTests, EndsTyped
<1>6. QED
  BY <1>3, <1>4, <1>5

\* The steps, in the order in which the proofs take them.
Starting(p) ==
  EndSession(p) \/ CreateCheck(p) \/ Accept(p) \/ Change(p) \/ Remove(p) \/ RemoveTest(p)
Ending(p) == EndRead(p) \/ EndUpdate(p) \/ EndCount(p)
Creating(p) == CreateBegin(p) \/ CreateInsert(p) \/ CreateSave(p) \/ CreateCommit(p)
Reviewing(p) ==
  AcceptCheck(p) \/ ChangeCheck(p) \/ LoadTest(p) \/ Status(p) \/ SaveTest(p)
Removing(p) == RemoveNext(p) \/ RemoveLast(p) \/ Die(p)

LEMMA NextSteps ==
  ASSUME [Next]_vars
  PROVE  \/ \E t \in Test : StartSession(t)
         \/ \E p \in Request : Starting(p) \/ Ending(p) \/ Creating(p)
                               \/ Reviewing(p) \/ Removing(p)
         \/ UNCHANGED vars
BY DEF Next, SessionStep, ReviewStep, Starting, Ending, Creating, Reviewing, Removing

LEMMA TypedHolds == Spec => []Typed
<1>1. Init => Typed
  <2>1. SUFFICES ASSUME Init
                 PROVE  Typed
    OBVIOUS
  <2>2. /\ test = [t \in Test |-> [NewTest EXCEPT !.st = "free"]]
        /\ check = [c \in Check |-> NewCheck]
        /\ pc = [p \in Request |-> "idle"] /\ loc = [p \in Request |-> Blank]
        /\ finished = FALSE /\ mixed = {} /\ cut = {}
    BY <2>1 DEF Init
  <2>3. [NewTest EXCEPT !.st = "free"] \in TestDoc
    BY DEF NewTest, TestDoc, TestStatus
  <2>4. NewCheck \in CheckDoc /\ NewCheck.st = "free"
    BY DEF NewCheck, CheckDoc, CheckStatus, Compared
  <2>5. TypeOK
    BY <2>2, <2>3, <2>4, BlankTyped, StepNames DEF TypeOK
  <2>6. \A p \in Request : pc[p] = "idle" /\ loc[p] = Blank
    BY <2>2
  <2>7. Placed /\ Named /\ Owned
    BY <2>6, BlankTyped DEF Placed, Named, Owned, Stage, Creates, Writes
  <2>8. Homes
    BY <2>2, <2>4 DEF Homes
  <2>9. QED
    BY <2>5, <2>7, <2>8 DEF Typed
<1>2. Typed /\ [Next]_vars => Typed'
  <2>1. SUFFICES ASSUME Typed, [Next]_vars
                 PROVE  Typed'
    OBVIOUS
  <2>2. ASSUME NEW t \in Test, StartSession(t)
        PROVE  Typed'
    BY <2>1, <2>2, StartSessionTyped
  <2>3. ASSUME NEW p \in Request,
               Starting(p) \/ Ending(p) \/ Creating(p) \/ Reviewing(p) \/ Removing(p)
        PROVE  Typed'
    BY <2>1, <2>3, StartTyped, EndTyped, CreateTyped, ReviewTyped, RemovalTyped
       DEF Starting, Ending, Creating, Reviewing, Removing
  <2>4. CASE UNCHANGED vars
    BY <2>1, <2>4 DEF vars, Typed, TypeOK, Placed, Stage, Homes, Named, Owned, Creates, Writes
  <2>5. QED
    BY <2>1, <2>2, <2>3, <2>4, NextSteps
<1>3. QED
  BY <1>1, <1>2, PTL DEF Spec

\* Every state is of the types: a test lists checks only, and whatever a request
\* loads, computes and saves is a status.
THEOREM TestRunTypes == Spec => []TypeOK
  BY TypedHolds, PTL DEF Typed

-----------------------------------------------------------------------------
(* The list of checks in a test is complete, and lists no check whose        *)
(* creation was rolled back.                                                 *)

Listed ==
  \A t \in Test : test[t].st # "gone" =>
    /\ ChecksOf(t) \subseteq test[t].checks
    /\ \A c \in test[t].checks : check[c].st \in {"live", "gone"}

\* A step that brings no check to life and does not shorten a list.
LEMMA ListedStep ==
  ASSUME Typed, Listed,
         \A t \in Test : test'[t].st # "gone" =>
           test[t].st # "gone" /\ test'[t].checks = test[t].checks,
         \A c \in Check :
           /\ check[c].st \in {"live", "gone"} => check'[c].st \in {"live", "gone"}
           /\ check'[c].st = "live" => check[c].st = "live" /\ check'[c].test = check[c].test
  PROVE  Listed'
<1>1. \A t \in Test : test[t].checks \in SUBSET Check
  BY Parts, TestFields DEF Typed
<1>2. SUFFICES ASSUME NEW t \in Test, test'[t].st # "gone"
               PROVE  /\ ChecksOf(t)' \subseteq test'[t].checks
                      /\ \A c \in test'[t].checks : check'[c].st \in {"live", "gone"}
  BY DEF Listed
<1>3. test[t].st # "gone" /\ test'[t].checks = test[t].checks
  BY <1>2
<1>4. ChecksOf(t) \subseteq test[t].checks /\ \A c \in test[t].checks : check[c].st \in {"live", "gone"}
  BY <1>3 DEF Listed
<1>5. ChecksOf(t)' \subseteq ChecksOf(t)
  BY DEF ChecksOf
<1>6. QED
  BY <1>1, <1>3, <1>4, <1>5

\* A check is deleted, or its status is written.
LEMMA DeletedKeeps ==
  ASSUME TypeOK, NEW d, check' = Deleted({d}), NEW c \in Check,
         d \in Check => check[d].st = "live"
  PROVE  /\ check[c].st \in {"live", "gone"} => check'[c].st \in {"live", "gone"}
         /\ check'[c].st = "live" => check'[c] = check[c]
         /\ check'[c].st = "live" <=> check[c].st = "live" /\ c # d
  BY DeletedDoes

LEMMA StartListed ==
  ASSUME Typed, Listed, NEW p \in Request, Starting(p)
  PROVE  Listed'
<1>1. test' = test /\ TypeOK
  BY DEF Starting, EndSession, CreateCheck, Accept, Change, Remove, RemoveTest, docVars, Typed
<1>2. check' = check \/ \E c \in Check : check[c].st = "live" /\ check' = Deleted({c})
  BY DEF Starting, EndSession, CreateCheck, Accept, Change, Remove, RemoveTest, docVars
<1>3. \A c \in Check :
        /\ check[c].st \in {"live", "gone"} => check'[c].st \in {"live", "gone"}
        /\ check'[c].st = "live" => check[c].st = "live" /\ check'[c].test = check[c].test
  BY <1>1, <1>2, DeletedKeeps
<1>4. QED
  BY <1>1, <1>3, ListedStep

LEMMA EndListed ==
  ASSUME Typed, Listed, NEW p \in Request, Ending(p)
  PROVE  Listed'
<1>1. pc[p] # "idle" /\ check' = check
  BY DEF Ending, EndRead, EndUpdate, EndCount, docVars
<1>2. TypeOK /\ loc[p].test \in Test
  BY <1>1, Here
<1>3. \A t \in Test : test'[t].st = test[t].st /\ test'[t].checks = test[t].checks
  <2>1. CASE EndUpdate(p)
    BY <1>2, <2>1, EndUpdateDoes DEF OtherTests
  <2>2. CASE EndRead(p) \/ EndCount(p)
    BY <2>2 DEF EndRead, EndCount, docVars
  <2>3. QED
    BY <2>1, <2>2 DEF Ending
<1>4. QED
  BY <1>1, <1>3, ListedStep

LEMMA CreateListed ==
  ASSUME Typed, Listed, NEW p \in Request, Creating(p)
  PROVE  Listed'
<1>1. pc[p] # "idle"
  BY DEF Creating, CreateBegin, CreateInsert, CreateSave, CreateCommit, Typed, Placed, Stage
<1>2. TypeOK /\ loc[p].test \in Test
  BY <1>1, Here
<1>3. CASE CreateBegin(p) \/ CreateSave(p)
  <2>1. test' = test /\ check' = check
    BY <1>3 DEF CreateBegin, CreateSave, docVars
  <2>2. QED
    BY <2>1, ListedStep
<1>4. CASE CreateInsert(p)
  <2>1. PICK c \in Check : check[c].st = "free" /\ OtherChecks(c) /\ check'[c].st = "tx"
    BY <1>2, <1>4, CreateInsertDoes
  <2>2. test' = test
    BY <1>4 DEF CreateInsert
  <2>3. QED
    BY <2>1, <2>2, ListedStep DEF OtherChecks
<1>5. CASE CreateCommit(p)
  <2> DEFINE t == loc[p].test
             k == loc[p].check
  <2>1. /\ k \in Check /\ check[k].st = "tx" /\ check[k].test = t /\ test[t].st = "live"
    BY <1>5 DEF CreateCommit, Typed, Named, Creates, Placed
  <2>2. /\ OtherChecks(k) /\ check'[k].st = "live" /\ check'[k].test = check[k].test
        /\ OtherTests(t) /\ test'[t].st = test[t].st /\ test'[t].checks = test[t].checks \cup {k}
    BY <1>2, <1>5, <2>1, CreateCommitDoes
  <2>3. SUFFICES ASSUME NEW u \in Test, test'[u].st # "gone"
                 PROVE  /\ ChecksOf(u)' \subseteq test'[u].checks
                        /\ \A c \in test'[u].checks : check'[c].st \in {"live", "gone"}
    BY DEF Listed
  <2>4. test[u].checks \subseteq Check /\ test[u].st # "gone"
    BY <1>2, <2>2, <2>3, Parts, TestFields DEF OtherTests
  <2>5. ChecksOf(u) \subseteq test[u].checks /\ \A c \in test[u].checks : check[c].st \in {"live", "gone"}
    BY <2>4 DEF Listed
  <2>6. ChecksOf(u)' \subseteq IF u = t THEN ChecksOf(u) \cup {k} ELSE ChecksOf(u)
    BY <2>1, <2>2 DEF ChecksOf, OtherChecks
  <2>7. test'[u].checks = IF u = t THEN test[u].checks \cup {k} ELSE test[u].checks
    BY <2>2 DEF OtherTests
  <2>8. \A c \in test'[u].checks : check'[c].st \in {"live", "gone"}
    BY <2>1, <2>2, <2>4, <2>5, <2>7 DEF OtherChecks
  <2>9. QED
    BY <2>5, <2>6, <2>7, <2>8
<1>6. QED
  BY <1>3, <1>4, <1>5 DEF Creating

LEMMA ReviewListed ==
  ASSUME Typed, Listed, NEW p \in Request, Reviewing(p)
  PROVE  Listed'
<1>1. pc[p] # "idle"
  BY DEF Reviewing, AcceptCheck, ChangeCheck, LoadTest, Status, SaveTest
<1>2. TypeOK /\ loc[p].test \in Test
  BY <1>1, Here
<1>3. CASE AcceptCheck(p) \/ ChangeCheck(p)
  <2>1. /\ test' = test /\ Writes(p)
        /\ check' = [check EXCEPT ![loc[p].check].status = loc[p].to]
    BY <1>3 DEF AcceptCheck, ChangeCheck, Writes
  <2>2. loc[p].check \in Check /\ loc[p].to \in CheckStatus
    BY <1>2, <2>1, Parts, LocalFields DEF Typed, Named
  <2>3. \A c \in Check : check'[c].st = check[c].st /\ check'[c].test = check[c].test
    BY <1>2, <2>1, <2>2, StatusWritten DEF OtherChecks
  <2>4. QED
    BY <2>1, <2>3, ListedStep
<1>4. CASE LoadTest(p) \/ Status(p)
  <2>1. test' = test /\ check' = check
    BY <1>4 DEF LoadTest, Status, docVars
  <2>2. QED
    BY <2>1, ListedStep
<1>5. CASE SaveTest(p)
  <2>1. \A t \in Test : test'[t].st = test[t].st /\ test'[t].checks = test[t].checks
    BY <1>2, <1>5, SaveTestDoes DEF OtherTests
  <2>2. check' = check
    BY <1>5 DEF SaveTest
  <2>3. QED
    BY <2>1, <2>2, ListedStep
<1>6. QED
  BY <1>3, <1>4, <1>5 DEF Reviewing

LEMMA RemovalListed ==
  ASSUME Typed, Listed, NEW p \in Request, Removing(p)
  PROVE  Listed'
<1>1. pc[p] # "idle"
  BY DEF Removing, RemoveNext, RemoveLast, Die
<1>2. TypeOK /\ loc[p].test \in Test
  BY <1>1, Here
<1>3. CASE RemoveNext(p)
  <2>1. test' = test
    BY <1>3 DEF RemoveNext
  <2>2. check' = check \/ \E c \in Check : check[c].st = "live" /\ check' = Deleted({c})
    BY <1>2, <1>3, RemoveNextDoes
  <2>3. \A c \in Check :
          /\ check[c].st \in {"live", "gone"} => check'[c].st \in {"live", "gone"}
          /\ check'[c].st = "live" => check[c].st = "live" /\ check'[c].test = check[c].test
    BY <1>2, <2>2, DeletedKeeps
  <2>4. QED
    BY <2>1, <2>3, ListedStep
<1>4. CASE RemoveLast(p)
  <2>1. OtherTests(loc[p].test) /\ test'[loc[p].test].st = "gone" /\ check' = check
    BY <1>2, <1>4, RemoveLastDoes DEF RemoveLast
  <2>2. \A t \in Test : test'[t].st # "gone" => test'[t] = test[t]
    BY <2>1 DEF OtherTests
  <2>3. QED
    BY <2>1, <2>2, ListedStep
<1>5. CASE Die(p)
  <2>1. test' = test
    BY <1>5 DEF Die
  <2>2. \A c \in Check : IF c = loc[p].check /\ check[c].st = "tx"
                         THEN check'[c].st = "void" ELSE check'[c] = check[c]
    BY <1>2, <1>5, DieDoes
  <2>3. QED
    BY <2>1, <2>2, ListedStep
<1>6. QED
  BY <1>3, <1>4, <1>5 DEF Removing

LEMMA StartSessionListed ==
  ASSUME Typed, Listed, NEW t \in Test, StartSession(t)
  PROVE  Listed'
<1>1. /\ test[t].st = "free" /\ test' = [test EXCEPT ![t] = NewTest] /\ check' = check
      /\ test \in [Test -> TestDoc]
  BY DEF StartSession, Typed, TypeOK
<1>2. NewTest.checks = {}
  BY DEF NewTest
<1>3. test'[t].checks = {} /\ \A u \in Test : u # t => test'[u] = test[u]
  BY <1>1, <1>2
<1>4. ChecksOf(t) = {}
  BY <1>1 DEF ChecksOf, Typed, Homes
<1>5. \A u \in Test : ChecksOf(u)' = ChecksOf(u)
  BY <1>1 DEF ChecksOf
<1>6. QED
  BY <1>1, <1>3, <1>4, <1>5 DEF Listed

LEMMA ListedHolds == Spec => []Listed
<1>1. Init => Listed
  BY DEF Init, Listed, ChecksOf, NewTest, NewCheck
<1>2. Typed /\ Listed /\ [Next]_vars => Listed'
  <2>1. SUFFICES ASSUME Typed, Listed, [Next]_vars
                 PROVE  Listed'
    OBVIOUS
  <2>2. ASSUME NEW p \in Request,
               Starting(p) \/ Ending(p) \/ Creating(p) \/ Reviewing(p) \/ Removing(p)
        PROVE  Listed'
    BY <2>1, <2>2, StartListed, EndListed, CreateListed, ReviewListed, RemovalListed
  <2>3. ASSUME NEW t \in Test, StartSession(t)
        PROVE  Listed'
    BY <2>1, <2>3, StartSessionListed
  <2>4. CASE UNCHANGED vars
    BY <2>1, <2>4 DEF vars, Listed, ChecksOf
  <2>5. QED
    BY <2>1, <2>2, <2>3, <2>4, NextSteps
<1>3. QED
  BY <1>1, <1>2, TypedHolds, PTL DEF Spec

-----------------------------------------------------------------------------
(* Requests on one test.  Those on a test that is not mixed do not overlap,  *)
(* but for acceptances and for creations; checks are created, and sessions   *)
(* ended, before the test has ended, and reviews begin after that.           *)

On(p, t) == pc[p] # "idle" /\ loc[p].test = t

Apart ==
  \A p, q \in Request : \A t \in Test \ mixed : p # q /\ On(p, t) /\ On(q, t) =>
    loc[p].kind = loc[q].kind /\ loc[p].kind \in {"accept", "create"}

Early(p) == loc[p].kind = "create" \/ pc[p] \in {"eRead", "eUpdate"}

InTime ==
  \A p \in Request : \A t \in Test \ mixed : On(p, t) => (test[t].ended <=> ~Early(p))

Orderly == Typed /\ Apart /\ InTime

\* A request that is under way goes on or ends.
GoesOn(p) ==
  /\ pc[p] # "idle" /\ Others(p) /\ mixed' = mixed
  /\ Ends(p) \/ \E step \in Steps : step # "idle" /\ Moves(p, step)

LEMMA UnderWay ==
  ASSUME Typed, NEW p \in Request, Ending(p) \/ Creating(p) \/ Reviewing(p) \/ Removing(p)
  PROVE  GoesOn(p)
<1>1. pc[p] # "idle" /\ mixed' = mixed
  BY DEF Ending, EndRead, EndUpdate, EndCount,
         Creating, CreateBegin, CreateInsert, CreateSave, CreateCommit,
         Reviewing, AcceptCheck, ChangeCheck, LoadTest, Status, SaveTest,
         Removing, RemoveNext, RemoveLast, Die, Typed, Placed, Stage
<1>2. TypeOK /\ loc[p].test \in Test
  BY <1>1, Here
<1>3. CASE Ending(p)
  <2>1. CASE EndRead(p)
    BY <1>1, <1>2, <2>1, EndReadDoes, StepNames DEF GoesOn
  <2>2. CASE EndUpdate(p)
    BY <1>1, <1>2, <2>2, EndUpdateDoes, StepNames DEF GoesOn
  <2>3. CASE EndCount(p)
    BY <1>1, <1>2, <2>3, FinishDoes DEF GoesOn, EndCount
  <2>4. QED
    BY <1>3, <2>1, <2>2, <2>3 DEF Ending
<1>4. CASE Creating(p)
  <2>1. CASE CreateBegin(p)
    BY <1>1, <1>2, <2>1, CreateBeginDoes, StepNames DEF GoesOn
  <2>2. CASE CreateInsert(p)
    BY <1>1, <1>2, <2>2, CreateInsertDoes, StepNames DEF GoesOn
  <2>3. CASE CreateSave(p)
    BY <1>1, <1>2, <2>3, CreateSaveDoes, StepNames DEF GoesOn
  <2>4. CASE CreateCommit(p)
    <3>1. loc[p].check \in Check
      BY <2>4 DEF CreateCommit, Typed, Named, Creates
    <3>2. QED
      BY <1>1, <1>2, <2>4, <3>1, CreateCommitDoes DEF GoesOn
  <2>5. QED
    BY <1>4, <2>1, <2>2, <2>3, <2>4 DEF Creating
<1>5. CASE Reviewing(p)
  <2>1. CASE AcceptCheck(p) \/ ChangeCheck(p)
    <3>1. loc[p].check \in Check
      BY <2>1 DEF AcceptCheck, ChangeCheck, Typed, Named, Writes
    <3>2. \E step \in {"tStatus", "dLoad"} : step \in Steps /\ Others(p) /\ Moves(p, step)
      BY <1>2, <2>1, <3>1, CheckWriteDoes, StepNames DEF AcceptCheck, ChangeCheck
    <3>3. QED
      BY <1>1, <3>2 DEF GoesOn
  <2>2. CASE LoadTest(p)
    BY <1>1, <1>2, <2>2, LoadTestDoes, StepNames DEF GoesOn
  <2>3. CASE Status(p)
    BY <1>1, <1>2, <2>3, StatusDoes, StepNames DEF GoesOn
  <2>4. CASE SaveTest(p)
    BY <1>1, <1>2, <2>4, SaveTestDoes, StepNames DEF GoesOn
  <2>5. QED
    BY <1>5, <2>1, <2>2, <2>3, <2>4 DEF Reviewing
<1>6. CASE Removing(p)
  <2>1. CASE RemoveNext(p)
    BY <1>1, <1>2, <2>1, RemoveNextDoes, StepNames DEF GoesOn
  <2>2. CASE RemoveLast(p)
    BY <1>1, <1>2, <2>2, RemoveLastDoes DEF GoesOn
  <2>3. CASE Die(p)
    BY <1>1, <1>2, <2>3, DieDoes DEF GoesOn
  <2>4. QED
    BY <1>6, <2>1, <2>2, <2>3 DEF Removing
<1>7. QED
  BY <1>3, <1>4, <1>5, <1>6

\* A request that begins is on a test that has been created.
LEMMA Beginning ==
  ASSUME Typed, NEW p \in Request, Starting(p)
  PROVE  \E t \in Test, kind \in Kinds, step \in Steps :
           /\ Begins(p, kind, step, t) /\ step # "idle" /\ step # "eUpdate"
           /\ kind \in {"create", "end"} <=> (kind = "create" \/ step = "eRead")
           /\ kind \in {"create", "end"} => ~test[t].ended
           /\ test[t].st # "free"
<1>1. \A c \in Check : check[c].st = "live" => check[c].test \in Test
                                              /\ test[check[c].test].st # "free"
  BY DEF Typed, Homes
<1>2. \A t \in Open : t \in Test /\ test[t].st = "live" /\ ~test[t].ended
  BY DEF Open, LiveTests
<1>3. \A t \in LiveTests : t \in Test /\ test[t].st = "live"
  BY DEF LiveTests
<1>4. \A k \in {"create", "end", "accept", "change", "remove", "removeTest"} : k \in Kinds
  BY DEF Kinds
<1>5. TypeOK
  BY DEF Typed
<1>6. CASE EndSession(p)
  BY <1>2, <1>4, <1>5, <1>6, EndSessionDoes, StepNames
<1>7. CASE CreateCheck(p)
  BY <1>2, <1>4, <1>5, <1>7, CreateCheckDoes, StepNames
<1>8. CASE Accept(p)
  BY <1>1, <1>4, <1>5, <1>8, AcceptDoes, StepNames
<1>9. CASE Change(p)
  BY <1>1, <1>4, <1>5, <1>9, ChangeDoes, StepNames
<1>10. CASE Remove(p)
  BY <1>1, <1>4, <1>5, <1>10, RemoveDoes, StepNames
<1>11. CASE RemoveTest(p)
  BY <1>3, <1>4, <1>5, <1>11, RemoveTestDoes, StepNames
<1>12. QED
  BY <1>6, <1>7, <1>8, <1>9, <1>10, <1>11 DEF Starting

\* The ends of sessions, and what the other steps keep of them.
LEMMA EndedStays ==
  ASSUME Typed, NEW p \in Request, Ending(p) \/ Creating(p) \/ Reviewing(p) \/ Removing(p)
  PROVE  \/ /\ \A t \in Test : test'[t].ended = test[t].ended
            /\ pc'[p] = "eCount" => pc[p] = "eCount"
            /\ pc'[p] = "eUpdate" => pc[p] = "eRead"
         \/ /\ pc[p] = "eUpdate" /\ pc'[p] = "eCount" /\ test'[loc[p].test].ended
            /\ \A t \in Test : t # loc[p].test => test'[t].ended = test[t].ended
<1>1. pc[p] # "idle"
  BY UnderWay DEF GoesOn
<1>2. TypeOK /\ loc[p].test \in Test
  BY <1>1, Here
<1>3. CASE EndUpdate(p)
  <2>1. pc[p] = "eUpdate"
    BY <1>3 DEF EndUpdate
  <2>2. QED
    BY <1>2, <1>3, <2>1, EndUpdateDoes DEF Moves, Ends, OtherTests
<1>4. CASE EndRead(p) \/ EndCount(p)
  BY <1>2, <1>4, EndReadDoes, FinishDoes DEF EndRead, EndCount, docVars, Moves, Ends
<1>5. CASE Creating(p)
  <2>1. CASE CreateCommit(p)
    <3>1. loc[p].check \in Check
      BY <2>1 DEF CreateCommit, Typed, Named, Creates
    <3>2. QED
      BY <1>2, <2>1, <3>1, CreateCommitDoes DEF Ends, OtherTests
  <2>2. CASE CreateBegin(p) \/ CreateInsert(p) \/ CreateSave(p)
    <3>1. test' = test
      BY <2>2 DEF CreateBegin, CreateInsert, CreateSave, docVars
    <3>2. pc'[p] \in {"cInsert", "cSave", "cCommit"}
      BY <1>2, <2>2, CreateBeginDoes, CreateInsertDoes, CreateSaveDoes DEF Moves
    <3>3. QED
      BY <3>1, <3>2
  <2>3. QED
    BY <1>5, <2>1, <2>2 DEF Creating
<1>6. CASE Reviewing(p)
  <2>1. CASE SaveTest(p)
    BY <1>2, <2>1, SaveTestDoes DEF Moves, Ends, OtherTests
  <2>2. CASE AcceptCheck(p) \/ ChangeCheck(p) \/ LoadTest(p) \/ Status(p)
    <3>1. test' = test
      BY <2>2 DEF AcceptCheck, ChangeCheck, LoadTest, Status, docVars
    <3>2. pc'[p] \in {"tStatus", "dLoad", "tSave"}
      BY <1>2, <2>2 DEF AcceptCheck, ChangeCheck, LoadTest, Status, Goto, TypeOK
    <3>3. QED
      BY <3>1, <3>2
  <2>3. QED
    BY <1>6, <2>1, <2>2 DEF Reviewing
<1>7. CASE Removing(p)
  <2>1. CASE RemoveNext(p)
    BY <1>2, <2>1, RemoveNextDoes DEF Moves, RemoveNext
  <2>2. CASE RemoveLast(p)
    BY <1>2, <2>2, RemoveLastDoes DEF Ends, OtherTests
  <2>3. CASE Die(p)
    BY <1>2, <2>3, DieDoes DEF Ends, Die
  <2>4. QED
    BY <1>7, <2>1, <2>2, <2>3 DEF Removing
<1>8. QED
  BY <1>3, <1>4, <1>5, <1>6, <1>7 DEF Ending

LEMMA StartInOrder ==
  ASSUME Orderly, NEW p \in Request, Starting(p)
  PROVE  Apart' /\ InTime'
<1>1. PICK t \in Test, kind \in Kinds, step \in Steps :
        /\ Begins(p, kind, step, t) /\ step # "idle" /\ step # "eUpdate"
        /\ kind \in {"create", "end"} <=> (kind = "create" \/ step = "eRead")
        /\ kind \in {"create", "end"} => ~test[t].ended
        /\ test[t].st # "free"
  BY Beginning DEF Orderly
<1>2. test' = test
  BY DEF Starting, EndSession, CreateCheck, Accept, Change, Remove, RemoveTest, docVars
<1>3. /\ pc'[p] = step /\ loc'[p].kind = kind /\ loc'[p].test = t
      /\ mixed \subseteq mixed' /\ (t \notin mixed' => ~Overlap(p, t, kind))
  BY <1>1 DEF Begins
<1>4. \A q \in Request : q # p =>
        pc'[q] = pc[q] /\ loc'[q].kind = loc[q].kind /\ loc'[q].test = loc[q].test
  BY <1>1 DEF Begins, Others, Kept
<1>5. Apart'
  <2>1. SUFFICES ASSUME NEW q \in Request, NEW r \in Request, NEW u \in Test \ mixed',
                        q # r, On(q, u)', On(r, u)'
                 PROVE  loc'[q].kind = loc'[r].kind /\ loc'[q].kind \in {"accept", "create"}
    BY DEF Apart
  <2>2. CASE q # p /\ r # p
    BY <1>3, <1>4, <2>1, <2>2 DEF Orderly, Apart, On
  <2>3. CASE q = p
    <3>1. u = t /\ pc[r] # "idle" /\ loc[r].test = t
      BY <1>3, <1>4, <2>1, <2>3 DEF On
    <3>2. loc[r].kind = kind /\ kind \in {"accept", "create"}
      BY <1>3, <2>1, <2>3, <3>1 DEF Overlap
    <3>3. QED
      BY <1>3, <1>4, <2>1, <2>3, <3>2
  <2>4. CASE r = p
    <3>1. u = t /\ pc[q] # "idle" /\ loc[q].test = t
      BY <1>3, <1>4, <2>1, <2>4 DEF On
    <3>2. loc[q].kind = kind /\ kind \in {"accept", "create"}
      BY <1>3, <2>1, <2>4, <3>1 DEF Overlap
    <3>3. QED
      BY <1>3, <1>4, <2>1, <2>4, <3>2
  <2>5. QED
    BY <2>2, <2>3, <2>4
<1>6. InTime'
  <2>1. SUFFICES ASSUME NEW q \in Request, NEW u \in Test \ mixed', On(q, u)'
                 PROVE  test[u].ended <=> ~Early(q)'
    BY <1>2 DEF InTime
  <2>2. CASE q # p
    BY <1>3, <1>4, <2>1, <2>2 DEF Orderly, InTime, On, Early
  <2>3. CASE q = p
    <3>1. u = t /\ ~Overlap(p, t, kind)
      BY <1>3, <2>1, <2>3 DEF On
    <3>2. kind \notin {"create", "end"} => test[t].ended
      BY <3>1 DEF Overlap
    <3>3. Early(p)' <=> kind \in {"create", "end"}
      BY <1>1, <1>3 DEF Early
    <3>4. QED
      BY <1>1, <2>3, <3>1, <3>2, <3>3
  <2>4. QED
    BY <2>2, <2>3
<1>7. QED
  BY <1>5, <1>6

LEMMA TypedNext ==
  ASSUME Typed, NEW p \in Request,
         Starting(p) \/ Ending(p) \/ Creating(p) \/ Reviewing(p) \/ Removing(p)
  PROVE  Typed'
  BY StartTyped, EndTyped, CreateTyped, ReviewTyped, RemovalTyped
     DEF Starting, Ending, Creating, Reviewing, Removing

\* No request reads again the checks of a session that it has begun to end.
LEMMA NeverBack ==
  ASSUME Typed, NEW p \in Request,
         Ending(p) \/ Creating(p) \/ Reviewing(p) \/ Removing(p)
  PROVE  pc'[p] # "eRead"
<1>1. pc \in [Request -> Steps]
  BY DEF Typed, TypeOK
<1>2. QED
  BY <1>1 DEF Ending, EndRead, EndUpdate, EndCount,
       Creating, CreateBegin, CreateInsert, CreateSave, CreateCommit,
       Reviewing, AcceptCheck, ChangeCheck, LoadTest, Status, SaveTest,
       Removing, RemoveNext, RemoveLast, Die, Goto, Finish

LEMMA GoesOnInOrder ==
  ASSUME Orderly, NEW p \in Request,
         Ending(p) \/ Creating(p) \/ Reviewing(p) \/ Removing(p)
  PROVE  Apart' /\ InTime'
<1>1. GoesOn(p)
  BY UnderWay DEF Orderly
<1>2. \A q \in Request : q # p =>
        pc'[q] = pc[q] /\ loc'[q].kind = loc[q].kind /\ loc'[q].test = loc[q].test
  BY <1>1 DEF GoesOn, Others, Kept
<1>3. pc'[p] # "idle" => loc'[p].kind = loc[p].kind /\ loc'[p].test = loc[p].test
  BY <1>1 DEF GoesOn, Ends, Moves
<1>4. pc[p] # "idle" /\ mixed' = mixed
  BY <1>1 DEF GoesOn
<1>5. \A q \in Request : \A t \in Test :
        On(q, t)' => On(q, t) /\ loc'[q].kind = loc[q].kind
  BY <1>2, <1>3, <1>4 DEF On
<1>6. Apart'
  BY <1>4, <1>5 DEF Orderly, Apart
<1>7. InTime'
  <2>1. SUFFICES ASSUME NEW q \in Request, NEW t \in Test \ mixed, On(q, t)'
                 PROVE  test'[t].ended <=> ~Early(q)'
    BY <1>4 DEF InTime
  <2>2. On(q, t) /\ loc'[q].kind = loc[q].kind
    BY <1>5, <2>1
  <2>3. test[t].ended <=> ~Early(q)
    BY <2>1, <2>2 DEF Orderly, InTime
  <2>4. CASE /\ \A u \in Test : test'[u].ended = test[u].ended
             /\ pc'[p] = "eCount" => pc[p] = "eCount"
             /\ pc'[p] = "eUpdate" => pc[p] = "eRead"
    <3>1. Early(q)' <=> Early(q)
      <4>1. CASE q # p
        BY <1>2, <4>1 DEF Early
      <4>2. CASE q = p
        <5>1. Stage(loc[p].kind, pc[p]) /\ Stage(loc'[p].kind, pc'[p])
          BY TypedNext DEF Orderly, Typed, Placed
        <5>2. pc'[p] = "eRead" => pc[p] = "eRead"
          BY NeverBack DEF Orderly
        <5>3. QED
          BY <1>3, <2>2, <2>4, <4>2, <5>1, <5>2 DEF Early, Stage
      <4>3. QED
        BY <4>1, <4>2
    <3>2. QED
      BY <2>1, <2>3, <2>4, <3>1
  <2>5. CASE /\ pc[p] = "eUpdate" /\ pc'[p] = "eCount" /\ test'[loc[p].test].ended
             /\ \A u \in Test : u # loc[p].test => test'[u].ended = test[u].ended
    <3>1. loc[p].kind = "end"
      BY <2>5 DEF Orderly, Typed, Placed, Stage
    <3>2. CASE q = p
      BY <1>3, <2>1, <2>5, <3>1, <3>2 DEF On, Early
    <3>3. CASE q # p
      <4>1. loc[p].test # t
        BY <1>4, <2>1, <2>2, <3>1, <3>3 DEF Orderly, Apart, On
      <4>2. QED
        BY <1>2, <2>1, <2>3, <2>5, <3>3, <4>1 DEF Early
    <3>4. QED
      BY <3>2, <3>3
  <2>6. QED
    BY <2>4, <2>5, EndedStays DEF Orderly
<1>8. QED
  BY <1>6, <1>7

LEMMA StartSessionInOrder ==
  ASSUME Orderly, NEW t \in Test, StartSession(t)
  PROVE  Apart' /\ InTime'
<1>1. /\ test[t].st = "free" /\ pc' = pc /\ loc' = loc /\ mixed' = mixed
      /\ \A u \in Test : u # t => test'[u] = test[u]
  BY DEF StartSession, reqVars, Orderly, Typed, TypeOK
<1>2. \A p \in Request : \A u \in Test : On(p, u) => u # t
  BY <1>1 DEF On, Orderly, Typed, Placed
<1>3. Apart'
  BY <1>1 DEF Apart, On, Orderly
<1>4. InTime'
  BY <1>1, <1>2 DEF InTime, On, Early, Orderly
<1>5. QED
  BY <1>3, <1>4

LEMMA OrderlyHolds == Spec => []Orderly
<1>1. Init => Apart /\ InTime
  BY DEF Init, Apart, InTime, On
<1>2. Orderly /\ [Next]_vars => Apart' /\ InTime'
  <2>1. SUFFICES ASSUME Orderly, [Next]_vars
                 PROVE  Apart' /\ InTime'
    OBVIOUS
  <2>2. ASSUME NEW p \in Request,
               Starting(p) \/ Ending(p) \/ Creating(p) \/ Reviewing(p) \/ Removing(p)
        PROVE  Apart' /\ InTime'
    BY <2>1, <2>2, StartInOrder, GoesOnInOrder
  <2>3. ASSUME NEW t \in Test, StartSession(t)
        PROVE  Apart' /\ InTime'
    BY <2>1, <2>3, StartSessionInOrder
  <2>4. CASE UNCHANGED vars
    BY <2>1, <2>4 DEF vars, Orderly, Apart, InTime, On, Early
  <2>5. QED
    BY <2>2, <2>3, <2>4, <2>1, NextSteps
<1>3. Spec => [](Typed /\ Apart /\ InTime)
  <2>1. Typed /\ Apart /\ InTime <=> Orderly
    BY DEF Orderly
  <2>2. QED
    BY <1>1, <1>2, <2>1, TypedHolds, PTL DEF Spec
<1>4. QED
  BY <1>3, PTL DEF Orderly

-----------------------------------------------------------------------------
(* A check that is live has its test.  A request that removes a test has, on *)
(* a test that is not mixed, every check of it on its list, since no check   *)
(* is created after the session has ended.                                   *)

RestKnown ==
  \A p \in Request : \A c \in loc[p].rest :
    /\ check[c].st \in {"live", "gone"}
    /\ check[c].st = "live" => check[c].test = loc[p].test

RestWhole ==
  \A p \in Request : \A t \in Test \ mixed : On(p, t) /\ loc[p].kind = "removeTest" =>
    /\ ChecksOf(t) \subseteq loc[p].rest
    /\ pc[p] = "xTest" => loc[p].rest = {}

Whole == RestKnown /\ RestWhole /\ CheckHasTest

\* What a step of p does to checks and tests, and where it leaves p's list.
ChecksKeep(p) ==
  \A c \in Check :
    /\ check[c].st \in {"live", "gone"} => check'[c].st \in {"live", "gone"}
    /\ check'[c].st = "live" =>
         /\ check'[c].test = check[c].test
         /\ \/ check[c].st = "live"
            \/ check[c].st = "tx" /\ pc[p] = "cCommit" /\ check[c].test = loc[p].test

TestsKeep(p) ==
  \A t \in Test : test[t].st = "live" =>
    test'[t].st = "live" \/ (pc[p] = "xTest" /\ loc[p].test = t)

RestAt(p) ==
  /\ \A c \in loc'[p].rest : /\ check'[c].st \in {"live", "gone"}
                             /\ check'[c].st = "live" => check'[c].test = loc'[p].test
  /\ \A t \in Test \ mixed' : On(p, t)' /\ loc'[p].kind = "removeTest" =>
       ChecksOf(t)' \subseteq loc'[p].rest /\ (pc'[p] = "xTest" => loc'[p].rest = {})

LEMMA RestInChecks ==
  ASSUME TypeOK, NEW p \in Request
  PROVE  loc[p].rest \in SUBSET Check
  BY Parts, LocalFields

LEMMA WholeStep ==
  ASSUME Orderly, Whole, NEW p \in Request, Others(p), mixed \subseteq mixed',
         ChecksKeep(p), TestsKeep(p), RestAt(p)
  PROVE  Whole'
<1>1. \A q \in Request : q # p =>
        /\ pc'[q] = pc[q] /\ loc'[q].kind = loc[q].kind /\ loc'[q].test = loc[q].test
        /\ loc'[q].rest = loc[q].rest
  BY DEF Others, Kept
<1>2. \A q \in Request : loc[q].rest \in SUBSET Check
  BY RestInChecks DEF Orderly, Typed
<1>3. RestKnown'
  <2>1. SUFFICES ASSUME NEW q \in Request, q # p, NEW c \in loc[q].rest
                 PROVE  /\ check'[c].st \in {"live", "gone"}
                        /\ check'[c].st = "live" => check'[c].test = loc[q].test
    BY <1>1 DEF RestKnown, RestAt
  <2>2. c \in Check /\ check[c].st \in {"live", "gone"}
        /\ (check[c].st = "live" => check[c].test = loc[q].test)
    BY <1>2, <2>1 DEF Whole, RestKnown
  <2>3. QED
    BY <2>2 DEF ChecksKeep
<1>4. RestWhole'
  <2>1. SUFFICES ASSUME NEW q \in Request, q # p, NEW t \in Test \ mixed', On(q, t),
                        loc[q].kind = "removeTest"
                 PROVE  /\ ChecksOf(t)' \subseteq loc[q].rest
                        /\ pc[q] = "xTest" => loc[q].rest = {}
    BY <1>1 DEF RestWhole, RestAt, On
  <2>2. /\ ChecksOf(t) \subseteq loc[q].rest
        /\ pc[q] = "xTest" => loc[q].rest = {}
    BY <2>1 DEF Whole, RestWhole
  <2>3. ~(pc[p] = "cCommit" /\ loc[p].test = t)
    BY <2>1 DEF Orderly, Apart, On
  <2>4. ChecksOf(t)' \subseteq ChecksOf(t)
    BY <2>3 DEF ChecksKeep, ChecksOf
  <2>5. QED
    BY <2>2, <2>4
<1>5. CheckHasTest'
  <2>1. SUFFICES ASSUME NEW c \in Check, check'[c].st = "live", check'[c].test \notin mixed'
                 PROVE  test'[check'[c].test].st = "live"
    BY DEF CheckHasTest
  <2> DEFINE t == check[c].test
  <2>2. check'[c].test = t /\ t \notin mixed /\ t \in Test
    BY <2>1 DEF ChecksKeep, Orderly, Typed, Homes
  <2>3. test[t].st = "live"
    BY <2>1, <2>2 DEF ChecksKeep, Whole, CheckHasTest, Orderly, Typed, Placed
  <2>4. ~(pc[p] = "xTest" /\ loc[p].test = t)
    <3>1. SUFFICES ASSUME pc[p] = "xTest", loc[p].test = t
                   PROVE  FALSE
      OBVIOUS
    <3>2. loc[p].kind = "removeTest" /\ On(p, t)
      BY <3>1 DEF Orderly, Typed, Placed, Stage, On
    <3>3. ChecksOf(t) = {}
      BY <2>2, <3>1, <3>2 DEF Whole, RestWhole
    <3>4. check[c].st = "live"
      BY <2>1, <3>1 DEF ChecksKeep
    <3>5. QED
      BY <3>3, <3>4 DEF ChecksOf
  <2>5. QED
    BY <2>2, <2>3, <2>4 DEF TestsKeep
<1>6. QED
  BY <1>3, <1>4, <1>5 DEF Whole

LEMMA StartKeeps ==
  ASSUME Typed, NEW p \in Request, Starting(p)
  PROVE  ChecksKeep(p) /\ TestsKeep(p)
<1>1. test' = test /\ TypeOK
  BY DEF Starting, EndSession, CreateCheck, Accept, Change, Remove, RemoveTest, docVars, Typed
<1>2. check' = check \/ \E c \in Check : check[c].st = "live" /\ check' = Deleted({c})
  BY DEF Starting, EndSession, CreateCheck, Accept, Change, Remove, RemoveTest, docVars
<1>3. \A c \in Check :
        /\ check[c].st \in {"live", "gone"} => check'[c].st \in {"live", "gone"}
        /\ check'[c].st = "live" => check[c].st = "live" /\ check'[c].test = check[c].test
  BY <1>1, <1>2, DeletedKeeps
<1>4. QED
  BY <1>1, <1>3 DEF ChecksKeep, TestsKeep

LEMMA StepKeeps ==
  ASSUME Typed, NEW p \in Request, Ending(p) \/ Creating(p) \/ Reviewing(p) \/ Removing(p)
  PROVE  ChecksKeep(p) /\ TestsKeep(p)
<1>1. pc[p] # "idle"
  BY UnderWay DEF GoesOn
<1>2. TypeOK /\ loc[p].test \in Test
  BY <1>1, Here
<1>3. ASSUME check' = check
      PROVE  ChecksKeep(p)
  BY <1>3 DEF ChecksKeep
<1>4. ASSUME test' = test
      PROVE  TestsKeep(p)
  BY <1>4 DEF TestsKeep
<1>5. CASE EndRead(p) \/ EndCount(p) \/ CreateBegin(p) \/ CreateSave(p) \/ LoadTest(p) \/ Status(p)
  BY <1>3, <1>4, <1>5 DEF EndRead, EndCount, CreateBegin, CreateSave, LoadTest, Status, docVars
<1>6. CASE EndUpdate(p)
  BY <1>2, <1>3, <1>6, EndUpdateDoes DEF EndUpdate, OtherTests, TestsKeep
<1>7. CASE CreateInsert(p)
  <2>1. PICK c \in Check : check[c].st = "free" /\ OtherChecks(c) /\ check'[c].st = "tx"
    BY <1>2, <1>7, CreateInsertDoes
  <2>2. test' = test
    BY <1>7 DEF CreateInsert
  <2>3. QED
    BY <1>4, <2>1, <2>2 DEF OtherChecks, ChecksKeep
<1>8. CASE CreateCommit(p)
  <2> DEFINE k == loc[p].check
  <2>1. k \in Check /\ check[k].st = "tx" /\ check[k].test = loc[p].test /\ pc[p] = "cCommit"
    BY <1>8 DEF CreateCommit, Typed, Named, Creates
  <2>2. /\ OtherChecks(k) /\ check'[k].st = "live" /\ check'[k].test = check[k].test
        /\ OtherTests(loc[p].test) /\ test'[loc[p].test].st = test[loc[p].test].st
    BY <1>2, <1>8, <2>1, CreateCommitDoes
  <2>3. QED
    BY <2>1, <2>2 DEF OtherChecks, OtherTests, ChecksKeep, TestsKeep
<1>9. CASE AcceptCheck(p) \/ ChangeCheck(p)
  <2>1. /\ test' = test /\ Writes(p)
        /\ check' = [check EXCEPT ![loc[p].check].status = loc[p].to]
    BY <1>9 DEF AcceptCheck, ChangeCheck, Writes
  <2>2. loc[p].check \in Check /\ loc[p].to \in CheckStatus
    BY <1>2, <2>1, Parts, LocalFields DEF Typed, Named
  <2>3. \A c \in Check : check'[c].st = check[c].st /\ check'[c].test = check[c].test
    BY <1>2, <2>1, <2>2, StatusWritten DEF OtherChecks
  <2>4. QED
    BY <1>4, <2>1, <2>3 DEF ChecksKeep
<1>10. CASE SaveTest(p)
  BY <1>2, <1>3, <1>10, SaveTestDoes DEF SaveTest, OtherTests, TestsKeep
<1>11. CASE RemoveNext(p)
  <2>1. test' = test
    BY <1>11 DEF RemoveNext
  <2>2. check' = check \/ \E c \in Check : check[c].st = "live" /\ check' = Deleted({c})
    BY <1>2, <1>11, RemoveNextDoes
  <2>3. QED
    BY <1>2, <1>4, <2>1, <2>2, DeletedKeeps DEF ChecksKeep
<1>12. CASE RemoveLast(p)
  BY <1>2, <1>3, <1>12, RemoveLastDoes DEF RemoveLast, OtherTests, TestsKeep
<1>13. CASE Die(p)
  BY <1>2, <1>4, <1>13, DieDoes DEF Die, ChecksKeep
<1>14. QED
  BY <1>5, <1>6, <1>7, <1>8, <1>9, <1>10, <1>11, <1>12, <1>13
     DEF Ending, Creating, Reviewing, Removing

LEMMA StartWhole ==
  ASSUME Orderly, Whole, NEW p \in Request, Starting(p)
  PROVE  Whole'
<1>1. ChecksKeep(p) /\ TestsKeep(p) /\ TypeOK
  BY StartKeeps DEF Orderly, Typed
<1>2. \A c \in Check : check[c].st = "live" => check[c].test \in Test
  BY DEF Orderly, Typed, Homes
<1>3. ASSUME NEW kind, NEW step, NEW t, Begins(p, kind, step, t), loc'[p].rest = {},
             kind # "removeTest"
      PROVE  Whole'
  <2>1. Others(p) /\ mixed \subseteq mixed' /\ RestAt(p)
    BY <1>3 DEF Begins, RestAt
  <2>2. QED
    BY <1>1, <2>1, WholeStep
<1>4. CASE EndSession(p)
  BY <1>1, <1>3, <1>4, EndSessionDoes
<1>5. CASE CreateCheck(p)
  BY <1>1, <1>3, <1>5, CreateCheckDoes
<1>6. CASE Accept(p)
  BY <1>1, <1>2, <1>3, <1>6, AcceptDoes
<1>7. CASE Change(p)
  BY <1>1, <1>2, <1>3, <1>7, ChangeDoes
<1>8. CASE Remove(p)
  BY <1>1, <1>2, <1>3, <1>8, RemoveDoes
<1>9. CASE RemoveTest(p)
  <2>1. PICK t \in LiveTests : /\ Begins(p, "removeTest", "xNext", t)
                               /\ loc'[p].rest = ChecksOf(t)
    BY <1>1, <1>9, RemoveTestDoes
  <2>2. check' = check /\ t \in Test
    BY <1>9 DEF RemoveTest, docVars, LiveTests
  <2>3. /\ Others(p) /\ mixed \subseteq mixed' /\ pc'[p] = "xNext" /\ loc'[p].test = t
    BY <2>1 DEF Begins
  <2>4. RestAt(p)
    BY <2>1, <2>2, <2>3 DEF RestAt, ChecksOf, On
  <2>5. QED
    BY <1>1, <2>3, <2>4, WholeStep
<1>10. QED
  BY <1>4, <1>5, <1>6, <1>7, <1>8, <1>9 DEF Starting

\* A request that is under way keeps its list, but for the check it deletes.
LEMMA StepWhole ==
  ASSUME Orderly, Whole, NEW p \in Request,
         Ending(p) \/ Creating(p) \/ Reviewing(p) \/ Removing(p)
  PROVE  Whole'
<1>1. ChecksKeep(p) /\ TestsKeep(p) /\ GoesOn(p)
  BY StepKeeps, UnderWay DEF Orderly
<1>2. TypeOK /\ loc[p].test \in Test /\ Stage(loc[p].kind, pc[p])
  BY <1>1, Here DEF GoesOn, Orderly
<1>3. Others(p) /\ mixed' = mixed /\ pc[p] # "idle"
  BY <1>1 DEF GoesOn
<1>4. /\ loc[p].rest \in SUBSET Check
      /\ \A c \in loc[p].rest : /\ check[c].st \in {"live", "gone"}
                                /\ check[c].st = "live" => check[c].test = loc[p].test
  BY <1>2, RestInChecks DEF Whole, RestKnown
<1>5. \A c \in loc[p].rest : /\ check'[c].st \in {"live", "gone"}
                             /\ check'[c].st = "live" => check'[c].test = loc[p].test
  BY <1>1, <1>4 DEF ChecksKeep
<1>6. ASSUME NEW t \in Test \ mixed, On(p, t), loc[p].kind = "removeTest"
      PROVE  ChecksOf(t)' \subseteq ChecksOf(t) /\ ChecksOf(t) \subseteq loc[p].rest
  <2>1. pc[p] # "cCommit"
    BY <1>2, <1>6 DEF Stage
  <2>2. ChecksOf(t)' \subseteq ChecksOf(t)
    BY <1>1, <2>1 DEF ChecksKeep, ChecksOf
  <2>3. QED
    BY <1>6, <2>2 DEF Whole, RestWhole
<1>7. CASE Ends(p)
  <2>1. RestAt(p)
    BY <1>7, BlankTyped DEF Ends, RestAt, On
  <2>2. QED
    BY <1>1, <1>3, <2>1, WholeStep
<1>8. CASE RemoveNext(p)
  <2>1. CASE /\ loc[p].rest = {} /\ check' = check /\ Moves(p, "xTest") /\ loc'[p].rest = {}
    <3>1. RestAt(p)
      BY <1>3, <1>6, <2>1 DEF RestAt, Moves, On
    <3>2. QED
      BY <1>1, <1>3, <3>1, WholeStep
  <2>2. CASE \E c \in loc[p].rest \cap Check :
                 /\ check[c].st = "live" /\ check' = Deleted({c})
                 /\ Moves(p, "dLoad") /\ loc'[p].rest = loc[p].rest \ {c}
    <3>1. PICK c \in loc[p].rest \cap Check :
                 /\ check[c].st = "live" /\ check' = Deleted({c})
                 /\ Moves(p, "dLoad") /\ loc'[p].rest = loc[p].rest \ {c}
      BY <2>2
    <3>2. check'[c].st = "gone"
      BY <1>2, <3>1, DeletedDoes
    <3>3. \A t \in Test : c \notin ChecksOf(t)'
      BY <3>2 DEF ChecksOf
    <3>4. RestAt(p)
      BY <1>3, <1>5, <1>6, <3>1, <3>3 DEF RestAt, Moves, On
    <3>5. QED
      BY <1>1, <1>3, <3>4, WholeStep
  <2>3. QED
    BY <1>2, <1>8, <2>1, <2>2, RemoveNextDoes
<1>9. ASSUME NEW step, Moves(p, step), step # "xTest", loc'[p].rest = loc[p].rest
      PROVE  Whole'
  <2>1. RestAt(p)
    BY <1>3, <1>5, <1>6, <1>9 DEF RestAt, Moves, On
  <2>2. QED
    BY <1>1, <1>3, <2>1, WholeStep
<1>10. CASE Ending(p)
  BY <1>2, <1>7, <1>9, <1>10, EndReadDoes, EndUpdateDoes, FinishDoes DEF Ending, EndCount
<1>11. CASE Creating(p)
  <2>1. CASE CreateBegin(p) \/ CreateInsert(p)
    BY <1>2, <1>9, <2>1, CreateBeginDoes, CreateInsertDoes
  <2>2. CASE CreateSave(p)
    BY <1>2, <1>9, <2>2, CreateSaveDoes
  <2>3. CASE CreateCommit(p)
    <3>1. loc[p].check \in Check
      BY <2>3 DEF CreateCommit, Orderly, Typed, Named, Creates
    <3>2. QED
      BY <1>2, <1>7, <2>3, <3>1, CreateCommitDoes
  <2>4. QED
    BY <1>11, <2>1, <2>2, <2>3 DEF Creating
<1>12. CASE Reviewing(p)
  <2>1. CASE AcceptCheck(p) \/ ChangeCheck(p)
    <3>1. loc[p].check \in Check
      BY <2>1 DEF AcceptCheck, ChangeCheck, Orderly, Typed, Named, Writes
    <3>2. \E step \in {"tStatus", "dLoad"} : Moves(p, step) /\ loc'[p].rest = loc[p].rest
      BY <1>2, <2>1, <3>1, CheckWriteDoes, StepNames DEF AcceptCheck, ChangeCheck
    <3>3. QED
      BY <1>9, <3>2
  <2>2. CASE LoadTest(p) \/ Status(p)
    BY <1>2, <1>9, <2>2, LoadTestDoes, StatusDoes
  <2>3. CASE SaveTest(p)
    BY <1>2, <1>7, <1>9, <2>3, SaveTestDoes
  <2>4. QED
    BY <1>12, <2>1, <2>2, <2>3 DEF Reviewing
<1>13. CASE RemoveLast(p) \/ Die(p)
  BY <1>2, <1>7, <1>13, RemoveLastDoes, DieDoes
<1>14. QED
  BY <1>8, <1>10, <1>11, <1>12, <1>13 DEF Removing

LEMMA WholeHolds == Spec => []Whole
<1>1. Init => Whole
  <2>1. SUFFICES ASSUME Init
                 PROVE  Whole
    OBVIOUS
  <2>2. \A p \in Request : pc[p] = "idle" /\ loc[p].rest = {}
    BY <2>1, BlankTyped DEF Init
  <2>3. \A c \in Check : check[c].st = "free"
    BY <2>1 DEF Init, NewCheck
  <2>4. QED
    BY <2>2, <2>3 DEF Whole, RestKnown, RestWhole, CheckHasTest, On
<1>2. Orderly /\ Whole /\ [Next]_vars => Whole'
  <2>1. SUFFICES ASSUME Orderly, Whole, [Next]_vars
                 PROVE  Whole'
    OBVIOUS
  <2>2. ASSUME NEW p \in Request,
               Starting(p) \/ Ending(p) \/ Creating(p) \/ Reviewing(p) \/ Removing(p)
        PROVE  Whole'
    BY <2>1, <2>2, StartWhole, StepWhole
  <2>3. ASSUME NEW t \in Test, StartSession(t)
        PROVE  Whole'
    <3>1. /\ test[t].st = "free" /\ pc' = pc /\ loc' = loc /\ mixed' = mixed /\ check' = check
          /\ \A u \in Test : u # t => test'[u] = test[u]
      BY <2>1, <2>3 DEF StartSession, reqVars, Orderly, Typed, TypeOK
    <3>2. \A c \in Check : check[c].st = "live" => check[c].test \in Test /\ check[c].test # t
      BY <2>1, <3>1 DEF Orderly, Typed, Homes
    <3>3. QED
      BY <2>1, <3>1, <3>2 DEF Whole, RestKnown, RestWhole, CheckHasTest, On, ChecksOf
  <2>4. CASE UNCHANGED vars
    BY <2>1, <2>4 DEF vars, Whole, RestKnown, RestWhole, CheckHasTest, On, ChecksOf
  <2>5. QED
    BY <2>1, <2>2, <2>3, <2>4, NextSteps
<1>3. QED
  BY <1>1, <1>2, OrderlyHolds, PTL DEF Spec

\* A test and its checks find each other: the list in a test is complete and
\* lists no check whose creation was rolled back, and a check that is live has its
\* test, however creations, removals and crashes interleave.
THEOREM TestsAndChecksMeet == Spec => []ChecksAndTests
<1>1. Typed /\ Listed /\ Whole => ChecksAndTests
  BY DEF Listed, Whole, ChecksAndTests, ChecksListed, LiveTests
<1>2. QED
  BY <1>1, TypedHolds, ListedHolds, WholeHolds, PTL

-----------------------------------------------------------------------------
(* The end of a run.  A test shows Running until its session has ended, and  *)
(* no longer; when every session has ended, a request that will look at the  *)
(* whole run is still under way, or has reported it.                         *)

Started == {t \in Test : test[t].st # "free"}

Shown ==
  /\ \A t \in Test : test[t].st = "free" => ~test[t].ended
  /\ \A t \in LiveTests : test[t].ended => test[t].status # "Running"
  /\ \A t \in LiveTests \ mixed : ~test[t].ended => test[t].status = "Running"

Computed ==
  \A p \in Request :
    pc[p] = "eUpdate" \/ (pc[p] = "tSave" /\ loc[p].dirty) => loc[p].status # "Running"

Reported ==
  /\ finished => \A t \in LiveTests \ mixed : test[t].ended
  /\ ~finished /\ cut = {} /\ Started # {} /\ (\A t \in Started : test[t].ended)
       => \E p \in Request : pc[p] = "eCount"

Told == Shown /\ Computed /\ Reported

\* What p, which is under way, writes to the tests.
TestsWritten(p) ==
  \A t \in Test :
    /\ test'[t].st = "free" <=> test[t].st = "free"
    /\ test'[t].st = "live" => test[t].st = "live"
    /\ test[t].ended => test'[t].ended
    /\ test[t].st = "free" => test'[t].ended = test[t].ended
    /\ test'[t].st = "live" =>
         \/ test'[t].status = test[t].status /\ test'[t].ended = test[t].ended
         \/ /\ pc[p] = "eUpdate" /\ loc[p].test = t
            /\ test'[t].status = loc[p].status /\ test'[t].ended
         \/ /\ pc[p] = "tSave" /\ loc[p].test = t /\ loc[p].dirty
            /\ test'[t].status = loc[p].status /\ test'[t].ended = test[t].ended

LEMMA StepWrites ==
  ASSUME Typed, NEW p \in Request, Ending(p) \/ Creating(p) \/ Reviewing(p) \/ Removing(p)
  PROVE  TestsWritten(p)
<1>1. pc[p] # "idle"
  BY UnderWay DEF GoesOn
<1>2. TypeOK /\ loc[p].test \in Test /\ test[loc[p].test].st # "free"
  BY <1>1, Here
<1>3. ASSUME test' = test
      PROVE  TestsWritten(p)
  BY <1>3 DEF TestsWritten
<1>4. CASE EndRead(p) \/ EndCount(p) \/ CreateBegin(p) \/ CreateInsert(p) \/ CreateSave(p)
           \/ AcceptCheck(p) \/ ChangeCheck(p) \/ LoadTest(p) \/ Status(p)
           \/ RemoveNext(p) \/ Die(p)
  BY <1>3, <1>4 DEF EndRead, EndCount, CreateBegin, CreateInsert, CreateSave, AcceptCheck,
                    ChangeCheck, LoadTest, Status, RemoveNext, Die, docVars
<1>5. CASE EndUpdate(p)
  <2>1. pc[p] = "eUpdate"
    BY <1>5 DEF EndUpdate
  <2>2. QED
    BY <1>2, <1>3, <1>5, <2>1, EndUpdateDoes DEF OtherTests, TestsWritten
<1>6. CASE CreateCommit(p)
  <2>1. loc[p].check \in Check
    BY <1>6 DEF CreateCommit, Typed, Named, Creates
  <2>2. QED
    BY <1>2, <1>6, <2>1, CreateCommitDoes DEF OtherTests, TestsWritten
<1>7. CASE SaveTest(p)
  <2>1. pc[p] = "tSave"
    BY <1>7 DEF SaveTest
  <2>2. QED
    BY <1>2, <1>7, <2>1, SaveTestDoes DEF OtherTests, TestsWritten
<1>8. CASE RemoveLast(p)
  BY <1>2, <1>8, RemoveLastDoes DEF OtherTests, TestsWritten
<1>9. QED
  BY <1>4, <1>5, <1>6, <1>7, <1>8 DEF Ending, Creating, Reviewing, Removing

\* What is about to be written to a test has been computed from checks.
LEMMA StepComputes ==
  ASSUME Typed, Computed, NEW p \in Request,
         Ending(p) \/ Creating(p) \/ Reviewing(p) \/ Removing(p)
  PROVE  Computed'
<1>1. GoesOn(p) /\ pc \in [Request -> Steps]
  BY UnderWay DEF Typed, TypeOK
<1>2. \A q \in Request : q # p => /\ pc'[q] = pc[q] /\ loc'[q].status = loc[q].status
                                  /\ loc'[q].dirty = loc[q].dirty
  BY <1>1 DEF GoesOn, Others, Kept
<1>3. TypeOK /\ loc[p].test \in Test
  BY <1>1, Here DEF GoesOn
<1>4. SUFFICES pc'[p] = "eUpdate" \/ (pc'[p] = "tSave" /\ loc'[p].dirty) => loc'[p].status # "Running"
  BY <1>2 DEF Computed
<1>5. CASE EndRead(p)
  BY <1>3, <1>5, EndReadDoes DEF StatusAtEnd, Moves
<1>6. CASE Status(p)
  BY <1>3, <1>6, StatusDoes DEF StatusOnReview, Moves
<1>7. CASE ~EndRead(p) /\ ~Status(p)
  <2>1. pc'[p] \notin {"eUpdate", "tSave"}
    BY <1>1, <1>7 DEF Ending, EndUpdate, EndCount,
       Creating, CreateBegin, CreateInsert, CreateSave, CreateCommit,
       Reviewing, AcceptCheck, ChangeCheck, LoadTest, SaveTest,
       Removing, RemoveNext, RemoveLast, Die, Goto, Finish
  <2>2. QED
    BY <2>1
<1>8. QED
  BY <1>5, <1>6, <1>7

\* Only EndCount sends run.finished; a request dies before it only with a cut.
LEMMA StepReports ==
  ASSUME Typed, NEW p \in Request, Ending(p) \/ Creating(p) \/ Reviewing(p) \/ Removing(p)
  PROVE  /\ EndCount(p) \/ finished' = finished
         /\ pc[p] = "eCount" => EndCount(p) \/ (Die(p) /\ cut' # {})
         /\ cut' = {} => cut = {}
<1>1. EndCount(p) \/ finished' = finished
  BY DEF Ending, EndRead, EndUpdate,
       Creating, CreateBegin, CreateInsert, CreateSave, CreateCommit,
       Reviewing, AcceptCheck, ChangeCheck, LoadTest, Status, SaveTest,
       Removing, RemoveNext, RemoveLast, Die, sentVars
<1>2. pc[p] = "eCount" => EndCount(p) \/ Die(p)
  BY DEF Ending, EndRead, EndUpdate,
       Creating, CreateBegin, CreateInsert, CreateSave, CreateCommit,
       Reviewing, AcceptCheck, ChangeCheck, LoadTest, Status, SaveTest,
       Removing, RemoveNext, RemoveLast
<1>3. pc[p] = "eCount" /\ Die(p) => cut' # {}
  BY DEF Die, Unwritten, CreateSteps
<1>4. cut' = {} => cut = {}
  BY DEF Ending, EndRead, EndUpdate, EndCount,
       Creating, CreateBegin, CreateInsert, CreateSave, CreateCommit,
       Reviewing, AcceptCheck, ChangeCheck, LoadTest, Status, SaveTest,
       Removing, RemoveNext, RemoveLast, Die, sentVars
<1>5. QED
  BY <1>1, <1>2, <1>3, <1>4

LEMMA StepTold ==
  ASSUME Orderly, Told, NEW p \in Request,
         Ending(p) \/ Creating(p) \/ Reviewing(p) \/ Removing(p)
  PROVE  Told'
<1>1. GoesOn(p) /\ TestsWritten(p) /\ Computed'
  BY UnderWay, StepWrites, StepComputes DEF Orderly, Told
<1>2. mixed' = mixed /\ pc[p] # "idle" /\ \A q \in Request : q # p => pc'[q] = pc[q]
  BY <1>1 DEF GoesOn, Others, Kept
<1>3. Shown'
  <2>1. \A t \in Test : test'[t].st = "free" => ~test'[t].ended
    BY <1>1 DEF TestsWritten, Told, Shown
  <2>2. ASSUME NEW t \in Test, test'[t].st = "live", test'[t].ended
        PROVE  test'[t].status # "Running"
    BY <1>1, <2>2 DEF TestsWritten, Told, Shown, Computed, LiveTests
  <2>3. ASSUME NEW t \in Test \ mixed, test'[t].st = "live", ~test'[t].ended
        PROVE  test'[t].status = "Running"
    <3>1. ~(pc[p] = "tSave" /\ loc[p].test = t /\ test'[t].ended = test[t].ended)
      BY <2>3 DEF Orderly, Typed, Placed, Stage, InTime, Early, On
    <3>2. QED
      BY <1>1, <2>3, <3>1 DEF TestsWritten, Told, Shown, LiveTests
  <2>4. QED
    BY <1>2, <2>1, <2>2, <2>3 DEF Shown, LiveTests
<1>4. Reported'
  <2>1. /\ EndCount(p) \/ finished' = finished
        /\ pc[p] = "eCount" => EndCount(p) \/ (Die(p) /\ cut' # {})
        /\ cut' = {} => cut = {}
    BY StepReports DEF Orderly
  <2>2. EndCount(p) => /\ finished' = (finished \/ \A t \in LiveTests : test[t].status # "Running")
                       /\ test' = test
    BY DEF EndCount, docVars
  <2>3. ASSUME finished', NEW t \in Test \ mixed, test'[t].st = "live"
        PROVE  test'[t].ended
    <3>1. test[t].st = "live"
      BY <1>1, <2>3 DEF TestsWritten
    <3>2. test[t].ended
      BY <2>1, <2>2, <2>3, <3>1 DEF Told, Reported, Shown, LiveTests
    <3>3. QED
      BY <1>1, <3>2 DEF TestsWritten
  <2>4. ASSUME ~finished', cut' = {}, Started' # {}, \A t \in Started' : test'[t].ended
        PROVE  \E q \in Request : pc'[q] = "eCount"
    <3>1. Started' = Started
      BY <1>1 DEF Started, TestsWritten
    <3>2. CASE /\ \A t \in Test : test'[t].ended = test[t].ended
      <4>1. ~EndCount(p)
        <5>1. SUFFICES ASSUME EndCount(p)
                       PROVE  FALSE
          OBVIOUS
        <5>2. PICK t \in LiveTests : test[t].status = "Running"
          BY <2>2, <2>4, <5>1
        <5>3. t \in Started' /\ test'[t] = test[t]
          BY <2>2, <3>1, <5>1, <5>2 DEF Started, LiveTests
        <5>4. test[t].ended
          BY <2>4, <5>3
        <5>5. QED
          BY <5>2, <5>4 DEF Told, Shown
      <4>2. ~finished /\ cut = {} /\ Started # {}
        BY <2>1, <2>4, <3>1, <4>1
      <4>3. \A t \in Started : test[t].ended
        BY <2>4, <3>1, <3>2 DEF Started
      <4>4. PICK q \in Request : pc[q] = "eCount"
        BY <4>2, <4>3 DEF Told, Reported
      <4>5. q # p
        BY <2>1, <2>4, <4>1, <4>4
      <4>6. QED
        BY <1>2, <4>4, <4>5
    <3>3. CASE pc'[p] = "eCount"
      BY <3>3
    <3>4. QED
      BY <3>2, <3>3, EndedStays DEF Orderly
  <2>5. QED
    BY <1>2, <2>3, <2>4 DEF Reported, LiveTests
<1>5. QED
  BY <1>1, <1>3, <1>4 DEF Told

LEMMA StartTold ==
  ASSUME Orderly, Told, NEW p \in Request, Starting(p)
  PROVE  Told'
<1>1. /\ test' = test /\ finished' = finished /\ cut' = cut
  BY DEF Starting, EndSession, CreateCheck, Accept, Change, Remove, RemoveTest, docVars, sentVars
<1>2. PICK t \in Test, kind \in Kinds, step \in Steps : Begins(p, kind, step, t)
  BY Beginning DEF Orderly
<1>3. /\ pc[p] = "idle" /\ mixed \subseteq mixed'
      /\ \A q \in Request : q # p => /\ pc'[q] = pc[q] /\ loc'[q].status = loc[q].status
                                     /\ loc'[q].dirty = loc[q].dirty
  BY <1>2 DEF Begins, Others, Kept
<1>4. pc'[p] \notin {"eUpdate", "tSave"}
  <2>1. pc \in [Request -> Steps]
    BY DEF Orderly, Typed, TypeOK
  <2>2. QED
    BY <2>1 DEF Starting, EndSession, CreateCheck, Accept, Change, Remove, RemoveTest, Start, Goto
<1>5. Shown'
  BY <1>1, <1>3 DEF Told, Shown, LiveTests
<1>6. Computed'
  BY <1>3, <1>4 DEF Told, Computed
<1>7. Reported'
  <2>1. \A q \in Request : pc[q] = "eCount" => pc'[q] = "eCount"
    BY <1>3
  <2>2. Started' = Started
    BY <1>1 DEF Started
  <2>3. QED
    BY <1>1, <1>3, <2>1, <2>2 DEF Told, Reported, LiveTests, Started
<1>8. QED
  BY <1>5, <1>6, <1>7 DEF Told

LEMMA StartSessionTold ==
  ASSUME Orderly, Told, NEW t \in Test, StartSession(t)
  PROVE  Told'
<1>1. /\ test[t].st = "free" /\ test' = [test EXCEPT ![t] = NewTest]
      /\ pc' = pc /\ loc' = loc /\ mixed' = mixed /\ ~finished'
  BY DEF StartSession, reqVars
<1>2. /\ NewTest.st = "live" /\ NewTest.status = "Running" /\ ~NewTest.ended
      /\ test \in [Test -> TestDoc]
  BY DEF NewTest, Orderly, Typed, TypeOK
<1>3. /\ test'[t].st = "live" /\ test'[t].status = "Running" /\ ~test'[t].ended
      /\ \A u \in Test : u # t => test'[u] = test[u]
  BY <1>1, <1>2
<1>4. Shown'
  BY <1>1, <1>3 DEF Told, Shown, LiveTests
<1>5. Computed'
  BY <1>1 DEF Told, Computed
<1>6. t \in Started'
  BY <1>3 DEF Started
<1>7. Reported'
  BY <1>1, <1>3, <1>6 DEF Reported
<1>8. QED
  BY <1>4, <1>5, <1>7 DEF Told

LEMMA ToldHolds == Spec => []Told
<1>1. Init => Told
  <2>1. SUFFICES ASSUME Init
                 PROVE  Told
    OBVIOUS
  <2>2. \A t \in Test : test[t].st = "free" /\ ~test[t].ended
    BY <2>1 DEF Init, NewTest
  <2>3. \A p \in Request : pc[p] = "idle"
    BY <2>1 DEF Init
  <2>4. ~finished
    BY <2>1 DEF Init
  <2>5. QED
    BY <2>2, <2>3, <2>4 DEF Told, Shown, Computed, Reported, LiveTests, Started
<1>2. Orderly /\ Told /\ [Next]_vars => Told'
  <2>1. SUFFICES ASSUME Orderly, Told, [Next]_vars
                 PROVE  Told'
    OBVIOUS
  <2>2. ASSUME NEW p \in Request,
               Starting(p) \/ Ending(p) \/ Creating(p) \/ Reviewing(p) \/ Removing(p)
        PROVE  Told'
    BY <2>1, <2>2, StartTold, StepTold
  <2>3. ASSUME NEW t \in Test, StartSession(t)
        PROVE  Told'
    BY <2>1, <2>3, StartSessionTold
  <2>4. CASE UNCHANGED vars
    BY <2>1, <2>4 DEF vars, Told, Shown, Computed, Reported, LiveTests, Started
  <2>5. QED
    BY <2>1, <2>2, <2>3, <2>4, NextSteps
<1>3. QED
  BY <1>1, <1>2, OrderlyHolds, PTL DEF Spec

\* "fired once a run's last test finishes": when every session has ended, run.finished
\* has been sent, and it was not sent while a session ran, however many sessions
\* end at the same time.
THEOREM EndsAreReported == Spec => []FinishedReported
<1>1. Told => FinishedReported
  <2>1. SUFFICES ASSUME Told
                 PROVE  FinishedReported
    OBVIOUS
  <2>2. ASSUME \A p \in Request : pc[p] = "idle", cut = {}, Started # {},
               \A t \in Started : test[t].ended
        PROVE  finished
    BY <2>1, <2>2 DEF Told, Reported
  <2>3. finished => \A t \in LiveTests \ mixed : test[t].ended
    BY <2>1 DEF Told, Reported
  <2>4. QED
    BY <2>2, <2>3 DEF FinishedReported, Started
<1>2. QED
  BY <1>1, ToldHolds, PTL

-----------------------------------------------------------------------------
(* A test that has ended shows the status of its checks, or a request that   *)
(* is on it will write it.  Acceptances of its checks may overlap: each only *)
(* turns a failed check into one that passed, so that the status to be       *)
(* written is Passed, and an acceptance that loaded Failed writes it.        *)

Actual(t) == StatusOnReview(t)

\* A request other than an acceptance, alone on a test that has ended.
WrittenBy(p, t) ==
  \/ pc[p] \in {"eCount", "uCheck", "xNext", "xTest"} /\ test[t].status = Actual(t)
  \/ pc[p] = "dLoad"
  \/ pc[p] = "tStatus" /\ loc[p].status = test[t].status
  \/ /\ pc[p] = "tSave" /\ loc[p].status = Actual(t)
     /\ loc[p].dirty <=> test[t].status # Actual(t)

Accepting(p, t) ==
  /\ pc[p] \in {"aCheck", "tStatus"} =>
       \/ loc[p].status = test[t].status
       \/ loc[p].status = "Failed" /\ test[t].status = "Passed"
  /\ pc[p] = "aCheck" =>
       LET k == loc[p].check
       IN  check[k].st = "live" =>
             loc[p].to = IF check[k].status = "new" THEN "new" ELSE "passed"
  /\ pc[p] = "tSave" /\ loc[p].dirty => loc[p].status = "Passed" /\ Actual(t) = "Passed"

\* An acceptance that will write Passed.
Due(p) ==
  \/ pc[p] = "tStatus" /\ loc[p].status = "Failed"
  \/ pc[p] = "tSave" /\ loc[p].dirty /\ loc[p].status = "Passed"

Catches(t) ==
  \/ test[t].status = Actual(t)
  \/ /\ test[t].status = "Failed" /\ Actual(t) = "Passed"
     /\ \E p \in Request : On(p, t) /\ Due(p)

Agrees(t) ==
  /\ \A p \in Request : On(p, t) /\ pc[p] = "eUpdate" => loc[p].status = Actual(t)
  /\ test[t].ended =>
       /\ \A p \in Request : On(p, t) => IF loc[p].kind = "accept" THEN Accepting(p, t)
                                                                  ELSE WrittenBy(p, t)
       /\ (\A p \in Request : On(p, t) => loc[p].kind = "accept") => Catches(t)

Agreed == \A t \in LiveTests \ (mixed \cup cut) : Agrees(t)

\* The two functions called calculateTestStatus agree on checks that were compared.
LEMMA OneStatus ==
  ASSUME NEW t, Statuses(t) \subseteq Compared
  PROVE  StatusAtEnd(t) = Actual(t)
BY DEF StatusAtEnd, StatusOnReview, Actual, Compared

\* Until its session ends a test has such checks only.
Compares ==
  \A c \in Check : check[c].st \in {"live", "tx"} /\ check[c].test \notin mixed =>
    check[c].status \in Compared \/ test[check[c].test].ended

\* What a step of p does to the status of a check.
StatusGoes(p, c) ==
  check'[c].st \in {"live", "tx"} =>
    \/ check'[c].status \in Compared
    \/ /\ check'[c].status = check[c].status /\ check'[c].test = check[c].test
       /\ check[c].st \in {"live", "tx"}
    \/ Writes(p) /\ check'[c].test = loc[p].test

LEMMA StartStatusGoes ==
  ASSUME Typed, NEW p \in Request, Starting(p), NEW c \in Check
  PROVE  StatusGoes(p, c)
<1>1. check' = check \/ \E d \in Check : check' = Deleted({d})
  BY DEF Starting, EndSession, CreateCheck, Accept, Change, Remove, RemoveTest, docVars
<1>2. QED
  BY <1>1, DeletedDoes DEF Typed, StatusGoes

LEMMA StepStatusGoes ==
  ASSUME Typed, NEW p \in Request, NEW c \in Check,
         Ending(p) \/ Creating(p) \/ Reviewing(p) \/ Removing(p)
  PROVE  StatusGoes(p, c)
<1>1. /\ TypeOK /\ check \in [Check -> CheckDoc] /\ check[c] \in CheckDoc
      /\ loc[p].test \in Test
  BY UnderWay, Here DEF Typed, TypeOK, GoesOn
<1>2. CASE EndRead(p) \/ EndUpdate(p) \/ EndCount(p) \/ CreateBegin(p) \/ CreateSave(p)
           \/ LoadTest(p) \/ Status(p) \/ SaveTest(p) \/ RemoveLast(p)
  BY <1>2 DEF EndRead, EndUpdate, EndCount, CreateBegin, CreateSave, LoadTest, Status,
              SaveTest, RemoveLast, docVars, StatusGoes
<1>3. CASE CreateInsert(p)
  BY <1>1, <1>3, CreateInsertDoes DEF OtherChecks, StatusGoes
<1>4. CASE CreateCommit(p)
  <2> DEFINE k == loc[p].check
  <2>1. /\ k \in Check /\ check[k].st = "tx"
        /\ check' = [check EXCEPT ![k].st = "live"]
    BY <1>4 DEF CreateCommit, Typed, Named, Creates
  <2>2. check[k] \in CheckDoc
    BY <1>1, <2>1
  <2>3. check'[k].status = check[k].status /\ check'[k].test = check[k].test
    BY <1>1, <2>1, <2>2 DEF CheckDoc
  <2>4. c # k => check'[c] = check[c]
    BY <1>1, <2>1
  <2>5. QED
    BY <2>1, <2>3, <2>4 DEF StatusGoes
<1>5. CASE AcceptCheck(p) \/ ChangeCheck(p)
  <2> DEFINE k == loc[p].check
  <2>1. /\ Writes(p) /\ check[k].st = "live"
        /\ check' = [check EXCEPT ![k].status = loc[p].to]
    BY <1>5 DEF AcceptCheck, ChangeCheck, Writes
  <2>2. k \in Check /\ loc[p].to \in CheckStatus /\ check[k].test = loc[p].test
    BY <1>1, <2>1, Parts, LocalFields DEF Typed, Named
  <2>3. OtherChecks(k) /\ check'[k].test = check[k].test
    BY <1>1, <2>1, <2>2, StatusWritten
  <2>4. QED
    BY <2>1, <2>2, <2>3 DEF OtherChecks, StatusGoes
<1>6. CASE RemoveNext(p)
  <2>1. check' = check \/ \E d \in Check : check' = Deleted({d})
    BY <1>1, <1>6, RemoveNextDoes
  <2>2. QED
    BY <1>1, <2>1, DeletedDoes DEF StatusGoes
<1>7. CASE Die(p)
  BY <1>1, <1>7, DieDoes DEF StatusGoes
<1>8. QED
  BY <1>2, <1>3, <1>4, <1>5, <1>6, <1>7 DEF Ending, Creating, Reviewing, Removing

\* A request that gives a check another status is on a test that has ended.
LEMMA ComparesStep ==
  ASSUME Orderly, Compares, NEW p \in Request, mixed \subseteq mixed', Typed',
         \A c \in Check : StatusGoes(p, c),
         \A t \in Test : test[t].ended => test'[t].ended
  PROVE  Compares'
<1>1. SUFFICES ASSUME NEW c \in Check, check'[c].st \in {"live", "tx"},
                      check'[c].test \notin mixed', check'[c].status \notin Compared
               PROVE  test'[check'[c].test].ended
  BY DEF Compares
<1>2. check'[c].test \in Test /\ check'[c].test \notin mixed
  BY <1>1 DEF Typed, Homes
<1>3. CASE /\ check'[c].status = check[c].status /\ check'[c].test = check[c].test
           /\ check[c].st \in {"live", "tx"}
  BY <1>1, <1>2, <1>3 DEF Compares
<1>4. CASE Writes(p) /\ check'[c].test = loc[p].test
  <2>1. On(p, check'[c].test) /\ ~Early(p)
    BY <1>4 DEF Orderly, Typed, Placed, Stage, Writes, On, Early
  <2>2. test[check'[c].test].ended
    BY <1>2, <2>1 DEF Orderly, InTime
  <2>3. QED
    BY <1>2, <2>2
<1>5. QED
  BY <1>1, <1>3, <1>4 DEF StatusGoes

LEMMA ComparesHolds == Spec => []Compares
<1>1. Init => Compares
  BY DEF Init, Compares, NewCheck
<1>2. Orderly /\ Compares /\ [Next]_vars => Compares'
  <2>1. SUFFICES ASSUME Orderly, Compares, [Next]_vars
                 PROVE  Compares'
    OBVIOUS
  <2>2. ASSUME NEW p \in Request, Starting(p)
        PROVE  Compares'
    <3>1. test' = test /\ mixed \subseteq mixed' /\ Typed'
      BY <2>1, <2>2, Beginning, TypedNext
         DEF Orderly, Begins, docVars, Starting, EndSession, CreateCheck, Accept, Change,
             Remove, RemoveTest
    <3>2. QED
      BY <2>1, <2>2, <3>1, StartStatusGoes, ComparesStep DEF Orderly
  <2>3. ASSUME NEW p \in Request, Ending(p) \/ Creating(p) \/ Reviewing(p) \/ Removing(p)
        PROVE  Compares'
    <3>1. mixed' = mixed /\ Typed'
      BY <2>1, <2>3, UnderWay, TypedNext DEF Orderly, GoesOn
    <3>2. \A t \in Test : test[t].ended => test'[t].ended
      BY <2>1, <2>3, EndedStays DEF Orderly
    <3>3. QED
      BY <2>1, <2>3, <3>1, <3>2, StepStatusGoes, ComparesStep DEF Orderly
  <2>4. ASSUME NEW t \in Test, StartSession(t)
        PROVE  Compares'
    <3>1. /\ test[t].st = "free" /\ check' = check /\ mixed' = mixed
          /\ \A u \in Test : u # t => test'[u] = test[u]
      BY <2>1, <2>4 DEF StartSession, Orderly, Typed, TypeOK
    <3>2. QED
      BY <2>1, <3>1 DEF Compares, Orderly, Typed, Homes
  <2>5. CASE UNCHANGED vars
    BY <2>1, <2>5 DEF vars, Compares
  <2>6. QED
    BY <2>1, <2>2, <2>3, <2>4, <2>5, NextSteps
<1>3. QED
  BY <1>1, <1>2, OrderlyHolds, PTL DEF Spec

\* The checks of one test at most are brought to life, deleted or given a status.
OnlyChecksOf(u) ==
  \A c \in Check :
    \/ check'[c] = check[c]
    \/ check[c].test = u /\ (check'[c].st = "live" => check'[c].test = u)
    \/ check[c].st # "live" /\ check'[c].st # "live"

LEMMA SameStatuses ==
  ASSUME NEW u, NEW t, t # u, OnlyChecksOf(u)
  PROVE  Actual(t)' = Actual(t)
<1>1. ChecksOf(t)' = ChecksOf(t)
  BY DEF OnlyChecksOf, ChecksOf
<1>2. \A c \in ChecksOf(t) : check'[c].status = check[c].status
  BY DEF OnlyChecksOf, ChecksOf
<1>3. Statuses(t)' = Statuses(t)
  BY <1>1, <1>2 DEF Statuses
<1>4. QED
  BY <1>3 DEF Actual, StatusOnReview

LEMMA ChecksLeft ==
  ASSUME check' = check, NEW t
  PROVE  Actual(t)' = Actual(t)
  BY DEF Actual, StatusOnReview, Statuses, ChecksOf

LEMMA StepOnlyChecksOf ==
  ASSUME Typed, RestKnown, NEW p \in Request,
         Ending(p) \/ Creating(p) \/ Reviewing(p) \/ Removing(p)
  PROVE  OnlyChecksOf(loc[p].test)
<1>1. pc[p] # "idle"
  BY UnderWay DEF GoesOn
<1>2. TypeOK /\ loc[p].test \in Test
  BY <1>1, Here
<1>3. CASE EndRead(p) \/ EndUpdate(p) \/ EndCount(p) \/ CreateBegin(p) \/ CreateSave(p)
           \/ LoadTest(p) \/ Status(p) \/ SaveTest(p) \/ RemoveLast(p)
  BY <1>3 DEF EndRead, EndUpdate, EndCount, CreateBegin, CreateSave, LoadTest, Status,
              SaveTest, RemoveLast, docVars, OnlyChecksOf
<1>4. CASE CreateInsert(p)
  BY <1>2, <1>4, CreateInsertDoes DEF OtherChecks, OnlyChecksOf
<1>5. CASE CreateCommit(p)
  <2>1. loc[p].check \in Check /\ check[loc[p].check].test = loc[p].test
    BY <1>5 DEF CreateCommit, Typed, Named, Creates
  <2>2. QED
    BY <1>2, <1>5, <2>1, CreateCommitDoes DEF OtherChecks, OnlyChecksOf
<1>6. CASE AcceptCheck(p) \/ ChangeCheck(p)
  <2> DEFINE k == loc[p].check
  <2>1. /\ Writes(p) /\ check[k].st = "live"
        /\ check' = [check EXCEPT ![k].status = loc[p].to]
    BY <1>6 DEF AcceptCheck, ChangeCheck, Writes
  <2>2. k \in Check /\ loc[p].to \in CheckStatus /\ check[k].test = loc[p].test
    BY <1>2, <2>1, Parts, LocalFields DEF Typed, Named
  <2>3. OtherChecks(k) /\ check'[k].test = check[k].test
    BY <1>2, <2>1, <2>2, StatusWritten
  <2>4. QED
    BY <2>2, <2>3 DEF OtherChecks, OnlyChecksOf
<1>7. CASE RemoveNext(p)
  <2>1. check' = check \/ \E c \in loc[p].rest \cap Check : check[c].st = "live" /\ check' = Deleted({c})
    BY <1>2, <1>7, RemoveNextDoes
  <2>2. ASSUME NEW c \in loc[p].rest \cap Check, check[c].st = "live", check' = Deleted({c})
        PROVE  OnlyChecksOf(loc[p].test)
    <3>1. check[c].test = loc[p].test
      BY <2>2 DEF RestKnown
    <3>2. QED
      BY <1>2, <2>2, <3>1, DeletedDoes DEF OnlyChecksOf
  <2>3. QED
    BY <2>1, <2>2 DEF OnlyChecksOf
<1>8. CASE Die(p)
  BY <1>2, <1>8, DieDoes DEF OnlyChecksOf
<1>9. QED
  BY <1>3, <1>4, <1>5, <1>6, <1>7, <1>8 DEF Ending, Creating, Reviewing, Removing

\* A step that is not about t.
LEMMA AgreesElsewhere ==
  ASSUME Typed, NEW t \in Test, NEW u, t # u, OnlyChecksOf(u), NEW r, ChecksKeep(r),
         \A q \in Request : On(q, t)' => On(q, t) /\ Kept(q),
         \A q \in Request : On(q, t) => On(q, t)' /\ Kept(q),
         test'[t].status = test[t].status, test'[t].ended = test[t].ended,
         Agrees(t)
  PROVE  Agrees(t)'
<1>1. Actual(t)' = Actual(t)
  BY SameStatuses
<1>2. \A q \in Request : On(q, t) =>
        /\ pc'[q] = pc[q] /\ loc'[q].kind = loc[q].kind /\ loc'[q].check = loc[q].check
        /\ loc'[q].status = loc[q].status /\ loc'[q].dirty = loc[q].dirty
        /\ loc'[q].to = loc[q].to
  BY DEF Kept
<1>3. ASSUME NEW q \in Request, On(q, t)', pc'[q] = "eUpdate"
      PROVE  loc'[q].status = Actual(t)'
  BY <1>1, <1>2, <1>3 DEF Agrees
<1>4. ASSUME NEW q \in Request, On(q, t)', loc'[q].kind = "accept", test[t].ended
      PROVE  Accepting(q, t)'
  <2>1. On(q, t) /\ loc[q].kind = "accept"
    BY <1>2, <1>4
  <2>2. Accepting(q, t)
    BY <1>4, <2>1 DEF Agrees
  <2>3. ASSUME pc[q] = "aCheck", check'[loc[q].check].st = "live"
        PROVE  check[loc[q].check].st = "live" /\ check'[loc[q].check] = check[loc[q].check]
    <3>1. /\ loc[q].check \in Check /\ check[loc[q].check].st \in {"live", "gone"}
          /\ check[loc[q].check].st = "live" => check[loc[q].check].test = t
      BY <2>1, <2>3 DEF Typed, Named, Writes, On
    <3>2. check[loc[q].check].st = "live"
      BY <2>3, <3>1 DEF ChecksKeep
    <3>3. QED
      BY <2>3, <3>1, <3>2 DEF OnlyChecksOf
  <2>4. QED
    BY <1>1, <1>2, <2>1, <2>2, <2>3 DEF Accepting
<1>5. ASSUME NEW q \in Request, On(q, t)', loc'[q].kind # "accept", test[t].ended
      PROVE  WrittenBy(q, t)'
  <2>1. On(q, t) /\ WrittenBy(q, t)
    BY <1>2, <1>5 DEF Agrees
  <2>2. QED
    BY <1>1, <1>2, <2>1 DEF WrittenBy
<1>6. ASSUME test[t].ended, \A q \in Request : On(q, t)' => loc'[q].kind = "accept"
      PROVE  Catches(t)'
  <2>1. Catches(t)
    BY <1>2, <1>6 DEF Agrees
  <2>2. \A q \in Request : On(q, t) /\ Due(q) => On(q, t)' /\ Due(q)'
    BY <1>2 DEF Due
  <2>3. QED
    BY <1>1, <2>1, <2>2 DEF Catches
<1>7. QED
  BY <1>3, <1>4, <1>5, <1>6 DEF Agrees

\* p is alone on t and does not accept, or nobody is on t.
LEMMA AgreesAlone ==
  ASSUME NEW t \in Test, NEW p \in Request, \A q \in Request : q # p => ~On(q, t)',
         On(p, t)' => /\ loc'[p].kind # "accept"
                      /\ pc'[p] = "eUpdate" => loc'[p].status = Actual(t)'
                      /\ test'[t].ended => WrittenBy(p, t)',
         ~On(p, t)' /\ test'[t].ended => test'[t].status = Actual(t)'
  PROVE  Agrees(t)'
BY DEF Agrees, Catches

\* The session of t runs.
LEMMA AgreesRunning ==
  ASSUME NEW t \in Test, ~test'[t].ended,
         \A q \in Request : On(q, t)' => pc'[q] # "eUpdate"
  PROVE  Agrees(t)'
BY DEF Agrees

\* Only acceptances are on t.
LEMMA AgreesAccepting ==
  ASSUME NEW t \in Test, Typed',
         \A q \in Request : On(q, t)' => loc'[q].kind = "accept" /\ Accepting(q, t)',
         Catches(t)'
  PROVE  Agrees(t)'
<1>1. \A q \in Request : On(q, t)' => pc'[q] # "eUpdate"
  BY DEF Typed, Placed, Stage
<1>2. QED
  BY <1>1 DEF Agrees

\* An accepted check has passed, unless it has no baseline to differ from.
LEMMA AcceptedStatus ==
  ASSUME TypeOK, NEW t, NEW k \in Check, OtherChecks(k),
         check[k].st = "live", check[k].test = t,
         check'[k].st = "live", check'[k].test = t,
         check'[k].status = IF check[k].status = "new" THEN "new" ELSE "passed"
  PROVE  Actual(t)' = Actual(t) \/ (Actual(t) = "Failed" /\ Actual(t)' = "Passed")
<1>1. ChecksOf(t)' = ChecksOf(t) /\ k \in ChecksOf(t)
  BY DEF ChecksOf, OtherChecks
<1>2. \A c \in ChecksOf(t) : c # k => check'[c].status = check[c].status
  BY DEF ChecksOf, OtherChecks
<1>3. CASE check[k].status = "new"
  <2>1. \A c \in ChecksOf(t) : check'[c].status = check[c].status
    BY <1>2, <1>3
  <2>2. Statuses(t)' = Statuses(t)
    BY <1>1, <2>1 DEF Statuses
  <2>3. QED
    BY <2>2 DEF Actual, StatusOnReview
<1>4. CASE check[k].status # "new"
  <2>1. "passed" \in Statuses(t)'
    BY <1>1, <1>4 DEF Statuses
  <2>2. Statuses(t)' \subseteq Statuses(t) \cup {"passed"}
    BY <1>1, <1>2, <1>4 DEF Statuses
  <2>3. check[k].status \in Statuses(t)
    BY <1>1 DEF Statuses
  <2>4. QED
    BY <1>4, <2>1, <2>2, <2>3 DEF Actual, StatusOnReview
<1>5. QED
  BY <1>3, <1>4

\* The requests on t are acceptances, p is one of them, and t has ended.
AcceptsOn(p, t) ==
  /\ On(p, t) /\ test[t].ended /\ test[t].st = "live"
  /\ \A q \in Request : On(q, t) => loc[q].kind = "accept" /\ Accepting(q, t)
  /\ Catches(t)

LEMMA AcceptCheckAgrees ==
  ASSUME Typed, Typed', NEW p \in Request, NEW t \in Test, AcceptCheck(p), AcceptsOn(p, t)
  PROVE  Agrees(t)'
<1> DEFINE k == loc[p].check
<1>1. /\ check[k].st = "live" /\ test' = test /\ pc[p] = "aCheck" /\ Goto(p, "tStatus")
      /\ check' = [check EXCEPT ![k].status = loc[p].to]
      /\ loc' = [loc EXCEPT ![p].check = None, ![p].to = "new"]
  BY DEF AcceptCheck
<1>2. k \in Check /\ check[k].test = t /\ TypeOK
  BY <1>1 DEF Typed, Named, Writes, AcceptsOn, On
<1>3. /\ Others(p) /\ pc'[p] = "tStatus" /\ loc'[p].kind = loc[p].kind
      /\ loc'[p].test = loc[p].test /\ loc'[p].status = loc[p].status
      /\ OtherChecks(k) /\ check'[k].st = check[k].st /\ check'[k].test = check[k].test
      /\ check'[k].status = loc[p].to
  BY <1>1, <1>2, CheckWriteDoes, StepNames DEF Moves
<1>4. Accepting(p, t) /\ loc[p].kind = "accept"
  BY DEF AcceptsOn
<1>5. check'[k].status = IF check[k].status = "new" THEN "new" ELSE "passed"
  BY <1>1, <1>3, <1>4 DEF Accepting
<1>6. Actual(t)' = Actual(t) \/ (Actual(t) = "Failed" /\ Actual(t)' = "Passed")
  BY <1>1, <1>2, <1>3, <1>5, AcceptedStatus
<1>7. \A q \in Request : q # p => Kept(q)
  BY <1>3 DEF Others
<1>8. On(p, t)' /\ Accepting(p, t)'
  BY <1>1, <1>3, <1>4 DEF AcceptsOn, Accepting, On
<1>9. ASSUME NEW q \in Request, q # p, On(q, t)'
      PROVE  loc'[q].kind = "accept" /\ Accepting(q, t)'
  <2>1. On(q, t) /\ loc[q].kind = "accept" /\ Accepting(q, t) /\ Kept(q)
    BY <1>7, <1>9 DEF AcceptsOn, On, Kept
  <2>2. /\ pc'[q] = pc[q] /\ loc'[q].kind = "accept" /\ loc'[q].check = loc[q].check
        /\ loc'[q].status = loc[q].status /\ loc'[q].dirty = loc[q].dirty
        /\ loc'[q].to = loc[q].to
    BY <2>1 DEF Kept
  <2>3. ASSUME pc[q] = "aCheck", check'[loc[q].check].st = "live"
        PROVE  loc[q].to = IF check'[loc[q].check].status = "new" THEN "new" ELSE "passed"
    <3>1. loc[q].check \in Check
      BY <2>1, <2>3 DEF Typed, Named, Writes
    <3>2. CASE loc[q].check = k
      BY <1>1, <1>5, <2>1, <2>3, <3>2 DEF Accepting
    <3>3. CASE loc[q].check # k
      BY <1>3, <2>1, <2>3, <3>1, <3>3 DEF Accepting, OtherChecks
    <3>4. QED
      BY <3>2, <3>3
  <2>4. Accepting(q, t)'
    BY <1>1, <1>6, <2>1, <2>2, <2>3 DEF Accepting
  <2>5. QED
    BY <2>2, <2>4
<1>10. Catches(t)'
  <2>1. CASE test[t].status = Actual(t)
    <3>1. CASE Actual(t)' = Actual(t)
      BY <1>1, <2>1, <3>1 DEF Catches
    <3>2. CASE Actual(t) = "Failed" /\ Actual(t)' = "Passed"
      <4>1. loc[p].status = "Failed"
        BY <1>1, <1>4, <2>1, <3>2 DEF Accepting
      <4>2. Due(p)'
        BY <1>3, <4>1 DEF Due
      <4>3. QED
        BY <1>1, <1>8, <2>1, <3>2, <4>2 DEF Catches
    <3>3. QED
      BY <1>6, <3>1, <3>2
  <2>2. CASE /\ test[t].status = "Failed" /\ Actual(t) = "Passed"
             /\ \E q \in Request : On(q, t) /\ Due(q)
    <3>1. PICK q \in Request : On(q, t) /\ Due(q)
      BY <2>2
    <3>2. q # p
      BY <1>1, <3>1 DEF Due
    <3>3. On(q, t)' /\ Due(q)'
      BY <1>7, <3>1, <3>2 DEF On, Due, Kept
    <3>4. QED
      BY <1>1, <1>6, <2>2, <3>3 DEF Catches
  <2>3. QED
    BY <2>1, <2>2 DEF AcceptsOn, Catches
<1>11. QED
  BY <1>3, <1>4, <1>8, <1>9, <1>10, AgreesAccepting

LEMMA StatusAgrees ==
  ASSUME Typed, Typed', NEW p \in Request, NEW t \in Test, Status(p), AcceptsOn(p, t)
  PROVE  Agrees(t)'
<1>1. pc[p] = "tStatus" /\ test' = test /\ check' = check /\ loc[p].test = t
  BY DEF Status, docVars, AcceptsOn, On
<1>2. /\ Others(p) /\ pc'[p] = "tSave" /\ loc'[p].kind = loc[p].kind
      /\ loc'[p].test = loc[p].test /\ loc'[p].status = Actual(t)
      /\ loc'[p].dirty = (Actual(t) # loc[p].status)
  BY <1>1, StatusDoes DEF Typed, Moves, Actual
<1>3. Actual(t)' = Actual(t)
  BY <1>1, ChecksLeft
<1>4. Accepting(p, t) /\ loc[p].kind = "accept" /\ On(p, t) /\ Catches(t)
  BY DEF AcceptsOn
<1>5. loc'[p].dirty => Actual(t) = "Passed"
  BY <1>1, <1>2, <1>4 DEF Accepting, Catches
<1>6. On(p, t)' /\ Accepting(p, t)'
  BY <1>1, <1>2, <1>3, <1>4, <1>5 DEF On, Accepting
<1>7. \A q \in Request : q # p =>
        /\ pc'[q] = pc[q] /\ loc'[q].kind = loc[q].kind /\ loc'[q].check = loc[q].check
        /\ loc'[q].status = loc[q].status /\ loc'[q].dirty = loc[q].dirty
        /\ loc'[q].to = loc[q].to /\ loc'[q].test = loc[q].test
  BY <1>2 DEF Others, Kept
<1>8. \A q \in Request : q # p /\ On(q, t)' => loc'[q].kind = "accept" /\ Accepting(q, t)'
  BY <1>1, <1>3, <1>7 DEF AcceptsOn, On, Accepting
<1>9. Catches(t)'
  <2>1. \A q \in Request : On(q, t) /\ Due(q) => On(q, t)'
    BY <1>6, <1>7 DEF On
  <2>2. \A q \in Request : q # p /\ Due(q) => Due(q)'
    BY <1>7 DEF Due
  <2>3. Due(p) /\ Actual(t) = "Passed" => Due(p)'
    BY <1>1, <1>2 DEF Due
  <2>4. QED
    BY <1>1, <1>3, <1>4, <2>1, <2>2, <2>3 DEF Catches
<1>10. QED
  BY <1>2, <1>4, <1>6, <1>8, <1>9, AgreesAccepting

LEMMA SaveAgrees ==
  ASSUME Typed, Typed', NEW p \in Request, NEW t \in Test, SaveTest(p), AcceptsOn(p, t)
  PROVE  Agrees(t)'
<1>1. pc[p] = "tSave" /\ check' = check /\ loc[p].test = t
  BY DEF SaveTest, AcceptsOn, On
<1>2. Accepting(p, t) /\ loc[p].kind = "accept" /\ On(p, t) /\ Catches(t)
  BY DEF AcceptsOn
<1>3. /\ Others(p) /\ Ends(p)
      /\ test'[t].status = IF loc[p].dirty THEN loc[p].status ELSE test[t].status
  BY <1>1, <1>2, SaveTestDoes DEF Typed
<1>4. Actual(t)' = Actual(t)
  BY <1>1, ChecksLeft
<1>5. ~On(p, t)'
  BY <1>3 DEF On, Ends
<1>6. \A q \in Request : q # p =>
        /\ pc'[q] = pc[q] /\ loc'[q].kind = loc[q].kind /\ loc'[q].check = loc[q].check
        /\ loc'[q].status = loc[q].status /\ loc'[q].dirty = loc[q].dirty
        /\ loc'[q].to = loc[q].to /\ loc'[q].test = loc[q].test
  BY <1>3 DEF Others, Kept
<1>7. test'[t].status = test[t].status
      \/ (test'[t].status = "Passed" /\ Actual(t) = "Passed" /\ test[t].status \in {"Passed", "Failed"})
  BY <1>1, <1>2, <1>3 DEF Accepting, Catches
<1>8. ASSUME NEW q \in Request, On(q, t)'
      PROVE  loc'[q].kind = "accept" /\ Accepting(q, t)'
  <2>1. q # p /\ On(q, t) /\ loc[q].kind = "accept" /\ Accepting(q, t)
    BY <1>5, <1>6, <1>8 DEF AcceptsOn, On
  <2>2. QED
    BY <1>1, <1>4, <1>6, <1>7, <2>1 DEF Accepting
<1>9. Catches(t)'
  <2>1. CASE loc[p].dirty
    BY <1>1, <1>2, <1>3, <1>4, <2>1 DEF Accepting, Catches
  <2>2. CASE ~loc[p].dirty
    <3>1. ~Due(p)
      BY <1>1, <2>2 DEF Due
    <3>2. \A q \in Request : On(q, t) /\ Due(q) => On(q, t)' /\ Due(q)'
      BY <1>6, <3>1 DEF On, Due
    <3>3. QED
      BY <1>2, <1>3, <1>4, <2>2, <3>2 DEF Catches
  <2>3. QED
    BY <2>1, <2>2
<1>10. QED
  BY <1>8, <1>9, AgreesAccepting

\* An acceptance that dies before it has written has nothing due.
LEMMA DieAgrees ==
  ASSUME Typed, Typed', NEW p \in Request, NEW t \in Test, Die(p), AcceptsOn(p, t), t \notin cut'
  PROVE  Agrees(t)'
<1>1. Accepting(p, t) /\ loc[p].kind = "accept" /\ On(p, t) /\ Catches(t) /\ loc[p].test = t
  BY DEF AcceptsOn, On
<1>2. pc[p] = "aCheck"
  BY <1>1 DEF Die, Unwritten, CreateSteps, Typed, Placed, Stage
<1>3. /\ Others(p) /\ Ends(p) /\ test' = test
      /\ \A c \in Check : IF c = loc[p].check /\ check[c].st = "tx"
                          THEN check'[c].st = "void" ELSE check'[c] = check[c]
  BY DieDoes DEF Typed, Die
<1>4. loc[p].check \in Check /\ check[loc[p].check].st # "tx"
  BY <1>2 DEF Typed, Named, Writes
<1>5. \A c \in Check : check'[c] = check[c]
  BY <1>3, <1>4
<1>6. Actual(t)' = Actual(t)
  BY <1>5 DEF Actual, StatusOnReview, Statuses, ChecksOf
<1>7. ~On(p, t)' /\ ~Due(p)
  BY <1>2, <1>3 DEF On, Ends, Due
<1>8. \A q \in Request : q # p =>
        /\ pc'[q] = pc[q] /\ loc'[q].kind = loc[q].kind /\ loc'[q].check = loc[q].check
        /\ loc'[q].status = loc[q].status /\ loc'[q].dirty = loc[q].dirty
        /\ loc'[q].to = loc[q].to /\ loc'[q].test = loc[q].test
  BY <1>3 DEF Others, Kept
<1>9. ASSUME NEW q \in Request, On(q, t)'
      PROVE  loc'[q].kind = "accept" /\ Accepting(q, t)'
  <2>1. q # p /\ On(q, t) /\ loc[q].kind = "accept" /\ Accepting(q, t)
    BY <1>7, <1>8, <1>9 DEF AcceptsOn, On
  <2>2. pc[q] = "aCheck" => loc[q].check \in Check
    BY <2>1 DEF Typed, Named, Writes
  <2>3. QED
    BY <1>3, <1>5, <1>6, <1>8, <2>1, <2>2 DEF Accepting
<1>10. Catches(t)'
  <2>1. \A q \in Request : On(q, t) /\ Due(q) => On(q, t)' /\ Due(q)'
    BY <1>7, <1>8 DEF On, Due
  <2>2. QED
    BY <1>1, <1>3, <1>6, <2>1 DEF Catches
<1>11. QED
  BY <1>9, <1>10, AgreesAccepting

\* A request other than an acceptance or a creation is alone on t.
AloneOn(p, t) ==
  /\ On(p, t) /\ loc[p].kind \notin {"accept", "create"} /\ Agrees(t)
  /\ \A q \in Request : q # p => ~On(q, t)
  /\ test[t].ended <=> ~Early(p)
  /\ ~test[t].ended => Statuses(t) \subseteq Compared

LEMMA AloneAgrees ==
  ASSUME Typed, NEW p \in Request, NEW t \in Test, AloneOn(p, t), t \notin cut',
         test'[t].st = "live",
         Ending(p) \/ Creating(p) \/ Reviewing(p) \/ Removing(p)
  PROVE  Agrees(t)'
<1>1. GoesOn(p) /\ TypeOK /\ loc[p].test = t /\ pc[p] # "idle"
  BY UnderWay DEF Typed, AloneOn, On
<1>2. Stage(loc[p].kind, pc[p]) /\ loc[p].kind \notin {"accept", "create"}
  BY DEF Typed, Placed, AloneOn
<1>3. \A q \in Request : q # p => ~On(q, t)'
  BY <1>1 DEF GoesOn, Others, Kept, AloneOn, On
<1>4. pc[p] = "eUpdate" => loc[p].status = Actual(t)
  BY DEF AloneOn, Agrees
<1>5. test[t].ended => WrittenBy(p, t)
  BY DEF AloneOn, Agrees
<1>6. test[t].ended <=> pc[p] \notin {"eRead", "eUpdate"}
  BY <1>2 DEF AloneOn, Early
<1>7. ASSUME NEW step, Moves(p, step), step # "eUpdate", WrittenBy(p, t)'
      PROVE  Agrees(t)'
  <2>1. On(p, t)' => loc'[p].kind # "accept" /\ pc'[p] # "eUpdate"
    BY <1>2, <1>7 DEF Moves
  <2>2. On(p, t)' \/ pc'[p] = "idle"
    BY <1>1, <1>7 DEF Moves, On
  <2>3. pc'[p] # "idle"
    BY <1>7 DEF WrittenBy
  <2>4. QED
    BY <1>3, <1>7, <2>1, <2>2, <2>3, AgreesAlone
<1>8. ASSUME Ends(p), test'[t].ended => test'[t].status = Actual(t)'
      PROVE  Agrees(t)'
  <2>1. ~On(p, t)'
    BY <1>8 DEF Ends, On
  <2>2. QED
    BY <1>3, <1>8, <2>1, AgreesAlone
<1>9. CASE EndRead(p)
  <2>1. /\ pc[p] = "eRead" /\ test' = test /\ check' = check
    BY <1>9 DEF EndRead, docVars
  <2>2. Moves(p, "eUpdate") /\ loc'[p].status = Actual(t)
    <3>1. Statuses(t) \subseteq Compared
      BY <1>6, <2>1 DEF AloneOn
    <3>2. QED
      BY <1>1, <1>9, <3>1, EndReadDoes, OneStatus
  <2>3. Actual(t)' = Actual(t) /\ ~test'[t].ended /\ loc'[p].kind # "accept"
    BY <1>2, <1>6, <2>1, <2>2, ChecksLeft DEF Moves
  <2>4. QED
    BY <1>3, <2>2, <2>3, AgreesAlone
<1>10. CASE EndUpdate(p)
  <2>1. pc[p] = "eUpdate" /\ check' = check
    BY <1>10 DEF EndUpdate
  <2>2. Actual(t)' = Actual(t)
    BY <2>1, ChecksLeft
  <2>3. CASE Moves(p, "eCount") /\ test'[t].status = loc[p].status
    <3>1. WrittenBy(p, t)'
      BY <1>4, <2>1, <2>2, <2>3 DEF WrittenBy, Moves
    <3>2. QED
      BY <1>7, <2>3, <3>1
  <2>4. CASE Ends(p) /\ test' = test
    BY <1>6, <1>8, <2>1, <2>4
  <2>5. QED
    BY <1>1, <1>10, <2>3, <2>4, EndUpdateDoes
<1>11. CASE EndCount(p)
  <2>1. pc[p] = "eCount" /\ check' = check /\ test' = test /\ Ends(p)
    BY <1>1, <1>11, FinishDoes DEF EndCount, docVars
  <2>2. Actual(t)' = Actual(t) /\ test[t].status = Actual(t)
    BY <1>5, <1>6, <2>1, ChecksLeft DEF WrittenBy
  <2>3. QED
    BY <1>8, <2>1, <2>2
<1>12. CASE Creating(p) \/ AcceptCheck(p)
  BY <1>2, <1>12 DEF Creating, CreateBegin, CreateInsert, CreateSave, CreateCommit,
                     AcceptCheck, Stage
<1>13. CASE ChangeCheck(p)
  <2>1. loc[p].check \in Check
    BY <1>13 DEF ChangeCheck, Typed, Named, Writes
  <2>2. Moves(p, "dLoad")
    BY <1>1, <1>13, <2>1, CheckWriteDoes, StepNames DEF ChangeCheck
  <2>3. QED
    BY <1>7, <2>2 DEF WrittenBy, Moves
<1>14. CASE LoadTest(p)
  <2>1. test' = test /\ Moves(p, "tStatus") /\ loc'[p].status = test[t].status
    BY <1>1, <1>14, LoadTestDoes DEF LoadTest, docVars
  <2>2. WrittenBy(p, t)'
    BY <2>1 DEF WrittenBy, Moves
  <2>3. QED
    BY <1>7, <2>1, <2>2
<1>15. CASE Status(p)
  <2>1. pc[p] = "tStatus" /\ test' = test /\ check' = check
    BY <1>15 DEF Status, docVars
  <2>2. /\ Moves(p, "tSave") /\ loc'[p].status = Actual(t)
        /\ loc'[p].dirty = (Actual(t) # loc[p].status)
    BY <1>1, <1>15, StatusDoes DEF Actual
  <2>3. loc[p].status = test[t].status /\ Actual(t)' = Actual(t)
    BY <1>5, <1>6, <2>1, ChecksLeft DEF WrittenBy
  <2>4. WrittenBy(p, t)'
    BY <2>1, <2>2, <2>3 DEF WrittenBy, Moves
  <2>5. QED
    BY <1>7, <2>2, <2>4
<1>16. CASE SaveTest(p)
  <2>1. pc[p] = "tSave" /\ check' = check
    BY <1>16 DEF SaveTest
  <2>2. /\ Moves(p, "xNext") \/ Ends(p)
        /\ test'[t].status = IF loc[p].dirty THEN loc[p].status ELSE test[t].status
    BY <1>1, <1>16, SaveTestDoes
  <2>3. Actual(t)' = Actual(t) /\ test'[t].status = Actual(t)
    BY <1>5, <1>6, <2>1, <2>2, ChecksLeft DEF WrittenBy
  <2>4. Moves(p, "xNext") => WrittenBy(p, t)'
    BY <2>3 DEF WrittenBy, Moves
  <2>5. QED
    BY <1>7, <1>8, <2>2, <2>3, <2>4
<1>17. CASE RemoveNext(p)
  <2>1. pc[p] = "xNext" /\ test' = test
    BY <1>17 DEF RemoveNext
  <2>2. CASE Moves(p, "dLoad")
    BY <1>7, <2>2 DEF WrittenBy, Moves
  <2>3. CASE Moves(p, "xTest") /\ check' = check
    <3>1. Actual(t)' = Actual(t) /\ test[t].status = Actual(t)
      BY <1>5, <1>6, <2>1, <2>3, ChecksLeft DEF WrittenBy
    <3>2. WrittenBy(p, t)'
      BY <2>1, <2>3, <3>1 DEF WrittenBy, Moves
    <3>3. QED
      BY <1>7, <2>3, <3>2
  <2>4. QED
    BY <1>1, <1>17, <2>2, <2>3, RemoveNextDoes
<1>18. CASE RemoveLast(p)
  <2>1. test'[t].st = "gone"
    BY <1>1, <1>18, RemoveLastDoes
  <2>2. QED
    BY <2>1
<1>19. CASE Die(p)
  <2>1. pc[p] \in {"eRead", "eUpdate", "uCheck"}
    BY <1>1, <1>2, <1>19 DEF Die, Unwritten, CreateSteps, Stage
  <2>2. /\ Ends(p) /\ test' = test
        /\ \A c \in Check : IF c = loc[p].check /\ check[c].st = "tx"
                            THEN check'[c].st = "void" ELSE check'[c] = check[c]
    BY <1>1, <1>19, DieDoes DEF Die
  <2>3. loc[p].check \in Check => check[loc[p].check].st # "tx"
    BY <2>1, NoneIsNoCheck DEF Typed, Named, Writes, Creates
  <2>4. \A c \in Check : check'[c] = check[c]
    BY <2>2, <2>3
  <2>5. Actual(t)' = Actual(t)
    BY <2>4 DEF Actual, StatusOnReview, Statuses, ChecksOf
  <2>6. QED
    BY <1>5, <1>6, <1>8, <2>1, <2>2, <2>5 DEF WrittenBy
<1>20. QED
  BY <1>9, <1>10, <1>11, <1>12, <1>13, <1>14, <1>15, <1>16, <1>17, <1>18, <1>19
     DEF Ending, Reviewing, Removing

\* A step of a request that is under way.
LEMMA StepAgrees ==
  ASSUME Orderly, Whole, Compares, Agreed, NEW p \in Request,
         Ending(p) \/ Creating(p) \/ Reviewing(p) \/ Removing(p)
  PROVE  Agreed'
<1>1. GoesOn(p) /\ TestsWritten(p) /\ ChecksKeep(p) /\ OnlyChecksOf(loc[p].test) /\ Typed'
  BY UnderWay, StepWrites, StepKeeps, StepOnlyChecksOf, TypedNext DEF Orderly, Whole
<1>2. pc[p] # "idle" /\ mixed' = mixed /\ Others(p)
  BY <1>1 DEF GoesOn
<1>3. cut \subseteq cut'
  BY DEF Ending, EndRead, EndUpdate, EndCount,
       Creating, CreateBegin, CreateInsert, CreateSave, CreateCommit,
       Reviewing, AcceptCheck, ChangeCheck, LoadTest, Status, SaveTest,
       Removing, RemoveNext, RemoveLast, Die, sentVars
<1>4. SUFFICES ASSUME NEW t \in Test, t \notin mixed, t \notin cut', test'[t].st = "live"
               PROVE  Agrees(t)'
  BY <1>2 DEF Agreed, LiveTests
<1>5. test[t].st = "live" /\ Agrees(t)
  BY <1>1, <1>3, <1>4 DEF TestsWritten, Agreed, LiveTests
<1>6. \A q \in Request : q # p => (On(q, t)' <=> On(q, t)) /\ Kept(q)
  BY <1>2 DEF Others, Kept, On
<1>7. On(p, t)' => On(p, t)
  BY <1>1, <1>2 DEF GoesOn, Ends, Moves, On
<1>8. CASE ~On(p, t)
  <2>1. loc[p].test # t
    BY <1>2, <1>8 DEF On
  <2>2. test'[t].status = test[t].status /\ test'[t].ended = test[t].ended
    BY <1>1, <1>4, <2>1 DEF TestsWritten
  <2>3. /\ \A q \in Request : On(q, t)' => On(q, t) /\ Kept(q)
        /\ \A q \in Request : On(q, t) => On(q, t)' /\ Kept(q)
    BY <1>6, <1>7, <1>8
  <2>4. Typed
    BY DEF Orderly
  <2>5. QED
    BY <1>1, <1>5, <2>1, <2>2, <2>3, <2>4, AgreesElsewhere
<1>9. CASE On(p, t)
  <2>1. \A q \in Request : q # p /\ On(q, t) =>
          loc[q].kind = loc[p].kind /\ loc[p].kind \in {"accept", "create"}
    BY <1>4, <1>9 DEF Orderly, Apart
  <2>2. test[t].ended <=> ~Early(p)
    BY <1>4, <1>9 DEF Orderly, InTime
  <2>3. Typed
    BY DEF Orderly
  <2>4. CASE loc[p].kind = "create"
    <3>1. ~test[t].ended /\ pc[p] # "eUpdate"
      BY <2>2, <2>3, <2>4 DEF Early, Typed, Placed, Stage
    <3>2. ~test'[t].ended
      BY <2>3, <3>1, EndedStays
    <3>3. \A q \in Request : On(q, t)' => loc'[q].kind = "create"
      BY <1>1, <1>6, <1>7, <2>1, <2>4 DEF GoesOn, Kept, Moves, Ends, On
    <3>4. \A q \in Request : On(q, t)' => pc'[q] # "eUpdate"
      BY <1>1, <3>3 DEF Typed, Placed, Stage
    <3>5. QED
      BY <3>2, <3>4, AgreesRunning
  <2>5. CASE loc[p].kind = "accept"
    <3>1. \A q \in Request : On(q, t) => loc[q].kind = "accept"
      BY <2>1, <2>5
    <3>2. test[t].ended
      BY <2>2, <2>3, <2>5 DEF Early, Typed, Placed, Stage
    <3>3. AcceptsOn(p, t)
      BY <1>5, <1>9, <3>1, <3>2 DEF AcceptsOn, Agrees
    <3>4. AcceptCheck(p) \/ Status(p) \/ SaveTest(p) \/ Die(p)
      BY <2>3, <2>5 DEF Typed, Placed, Stage, Ending, EndRead, EndUpdate, EndCount,
           Creating, CreateBegin, CreateInsert, CreateSave, CreateCommit,
           Reviewing, ChangeCheck, LoadTest, Removing, RemoveNext, RemoveLast
    <3>5. QED
      BY <1>1, <1>4, <2>3, <3>3, <3>4, AcceptCheckAgrees, StatusAgrees, SaveAgrees, DieAgrees
  <2>6. CASE loc[p].kind \notin {"create", "accept"}
    <3>1. ~test[t].ended => Statuses(t) \subseteq Compared
      BY <1>4 DEF Compares, Statuses, ChecksOf
    <3>2. AloneOn(p, t)
      BY <1>5, <1>9, <2>1, <2>2, <2>6, <3>1 DEF AloneOn
    <3>3. QED
      BY <1>4, <2>3, <3>2, AloneAgrees
  <2>7. QED
    BY <2>4, <2>5, <2>6
<1>10. QED
  BY <1>8, <1>9

\* A request begins on u; if u is not mixed, the other requests on it are
\* acceptances, as it is, or creations, as it is.
LEMMA StartAgrees ==
  ASSUME Orderly, Agreed, NEW p \in Request, Starting(p)
  PROVE  Agreed'
<1>1. /\ test' = test /\ cut' = cut /\ TypeOK /\ Typed'
      /\ \A c \in Check : check[c].st = "live" => check[c].test \in Test
  BY TypedNext DEF Orderly, Typed, Homes, Starting, EndSession, CreateCheck, Accept, Change,
                   Remove, RemoveTest, docVars, sentVars
<1>2. ChecksKeep(p)
  BY StartKeeps DEF Orderly
<1>3. ASSUME NEW u \in Test, NEW kind \in Kinds, NEW step, Begins(p, kind, step, u), step # "idle",
             step # "eUpdate", OnlyChecksOf(u),
             kind \in {"create", "end"} => ~test[u].ended,
             ASSUME test[u].st = "live", u \notin mixed', kind \notin {"create", "end"},
                    test[u].ended, Agrees(u),
                    \A q \in Request : q # p /\ On(q, u)
                                       => loc[q].kind = "accept" /\ kind = "accept"
             PROVE  Agrees(u)'
      PROVE  Agreed'
  <2>1. SUFFICES ASSUME NEW t \in Test, t \notin mixed', t \notin cut, test[t].st = "live"
                 PROVE  Agrees(t)'
    BY <1>1 DEF Agreed, LiveTests
  <2>2. /\ Others(p) /\ pc[p] = "idle" /\ pc'[p] = step /\ loc'[p].kind = kind
        /\ loc'[p].test = u /\ mixed \subseteq mixed'
        /\ u \notin mixed' => ~Overlap(p, u, kind)
    BY <1>3 DEF Begins
  <2>3. Agrees(t)
    BY <2>1, <2>2 DEF Agreed, LiveTests
  <2>4. \A q \in Request : q # p => (On(q, t)' <=> On(q, t)) /\ Kept(q)
    BY <2>2 DEF Others, Kept, On
  <2>5. CASE t # u
    <3>1. ~On(p, t)' /\ ~On(p, t)
      BY <2>2, <2>5 DEF On
    <3>2. /\ \A q \in Request : On(q, t)' => On(q, t) /\ Kept(q)
          /\ \A q \in Request : On(q, t) => On(q, t)' /\ Kept(q)
      BY <2>4, <3>1
    <3>3. test'[t].status = test[t].status /\ test'[t].ended = test[t].ended /\ Typed
      BY <1>1 DEF Orderly
    <3>4. QED
      BY <1>2, <1>3, <2>3, <2>5, <3>2, <3>3, AgreesElsewhere
  <2>6. CASE t = u
    <3>1. /\ \A q \in Request : q # p /\ On(q, t) =>
               loc[q].kind = kind /\ kind \in {"accept", "create"}
          /\ kind \in {"create", "end"} \/ test[t].ended
      BY <2>1, <2>2, <2>6 DEF Overlap, On
    <3>2. CASE kind \in {"create", "end"}
      <4>1. ~test'[t].ended
        BY <1>1, <1>3, <2>6, <3>2
      <4>2. \A q \in Request : On(q, t)' /\ q # p => loc'[q].kind = "create"
        BY <2>4, <3>1, <3>2 DEF Kept
      <4>3. \A q \in Request : On(q, t)' => pc'[q] # "eUpdate"
        BY <1>1, <1>3, <2>2, <4>2 DEF Typed, Placed, Stage
      <4>4. QED
        BY <4>1, <4>3, AgreesRunning
    <3>3. CASE kind \notin {"create", "end"}
      <4>1. \A q \in Request : q # p /\ On(q, u) => loc[q].kind = "accept" /\ kind = "accept"
        BY <2>6, <3>1, <3>3
      <4>2. test[u].st = "live" /\ u \notin mixed' /\ test[u].ended /\ Agrees(u)
        BY <2>1, <2>3, <2>6, <3>1, <3>3
      <4>3. Agrees(u)'
        BY <1>3, <3>3, <4>1, <4>2
      <4>4. QED
        BY <2>6, <4>3
    <3>4. QED
      BY <3>2, <3>3
  <2>7. QED
    BY <2>5, <2>6
<1>4. \A u : check' = check => OnlyChecksOf(u) /\ Actual(u)' = Actual(u)
  BY ChecksLeft DEF OnlyChecksOf
<1>5. \A k \in {"create", "end", "accept", "change", "remove", "removeTest"} : k \in Kinds
  BY DEF Kinds
<1>6. \A t \in Open : t \in Test /\ ~test[t].ended
  BY DEF Open, LiveTests
<1>7. CASE EndSession(p)
  BY <1>1, <1>3, <1>4, <1>5, <1>6, <1>7, EndSessionDoes DEF EndSession, docVars
<1>8. CASE CreateCheck(p)
  BY <1>1, <1>3, <1>4, <1>5, <1>6, <1>8, CreateCheckDoes DEF CreateCheck, docVars
<1>9. CASE Accept(p)
  <2>1. PICK c \in Check :
           /\ check[c].st = "live" /\ Begins(p, "accept", "aCheck", check[c].test)
           /\ loc'[p].check = c /\ loc'[p].status = test[check[c].test].status
           /\ loc'[p].to = IF check[c].status = "new" THEN "new" ELSE "passed"
    BY <1>1, <1>9, AcceptDoes
  <2>2. PICK u \in Test : u = check[c].test
    BY <1>1, <2>1
  <2>3. check' = check /\ OnlyChecksOf(u) /\ Actual(u)' = Actual(u)
    BY <1>4, <1>9 DEF Accept, docVars
  <2>4. /\ Begins(p, "accept", "aCheck", u) /\ pc[p] = "idle" /\ pc'[p] = "aCheck"
        /\ loc'[p].kind = "accept" /\ Others(p) /\ loc'[p].test = u
        /\ loc'[p].status = test[u].status
    BY <2>1, <2>2 DEF Begins
  <2>5. ASSUME test[u].ended, Agrees(u),
               \A q \in Request : q # p /\ On(q, u) => loc[q].kind = "accept"
        PROVE  Agrees(u)'
    <3>1. \A q \in Request : On(q, u) => loc[q].kind = "accept" /\ Accepting(q, u) /\ q # p
      BY <2>4, <2>5 DEF On, Agrees
    <3>2. Catches(u)
      BY <2>5, <3>1 DEF Agrees
    <3>3. Accepting(p, u)'
      BY <1>1, <2>1, <2>3, <2>4 DEF Accepting
    <3>4. \A q \in Request : q # p =>
        /\ pc'[q] = pc[q] /\ loc'[q].kind = loc[q].kind /\ loc'[q].check = loc[q].check
        /\ loc'[q].status = loc[q].status /\ loc'[q].dirty = loc[q].dirty
        /\ loc'[q].to = loc[q].to /\ loc'[q].test = loc[q].test
      BY <2>4 DEF Others, Kept
    <3>5. \A q \in Request : On(q, u)' => loc'[q].kind = "accept" /\ Accepting(q, u)'
      BY <1>1, <2>3, <2>4, <3>1, <3>3, <3>4 DEF On, Accepting
    <3>6. \A q \in Request : On(q, u) /\ Due(q) => On(q, u)' /\ Due(q)'
      BY <3>1, <3>4 DEF On, Due
    <3>7. Catches(u)'
      BY <1>1, <2>3, <3>2, <3>6 DEF Catches
    <3>8. QED
      BY <1>1, <3>5, <3>7, AgreesAccepting
  <2>6. QED
    BY <1>3, <1>5, <2>3, <2>4, <2>5
<1>10. ASSUME NEW u \in Test, NEW kind, NEW step, Begins(p, kind, step, u), step # "eUpdate",
              kind # "accept", test[u].ended, Agrees(u),
              \A q \in Request : q # p => ~On(q, u),
              \/ step = "dLoad"
              \/ step \in {"uCheck", "xNext"} /\ Actual(u)' = Actual(u)
       PROVE  Agrees(u)'
  <2>1. Others(p) /\ pc[p] = "idle" /\ pc'[p] = step /\ loc'[p].kind = kind /\ loc'[p].test = u
    BY <1>10 DEF Begins
  <2>2. \A q \in Request : ~On(q, u)
    BY <1>10, <2>1 DEF On
  <2>3. test[u].status = Actual(u)
    BY <1>10, <2>2 DEF Agrees, Catches
  <2>4. \A q \in Request : q # p => ~On(q, u)'
    BY <1>10, <2>1 DEF Others, Kept, On
  <2>5. WrittenBy(p, u)' /\ On(p, u)'
    BY <1>1, <1>10, <2>1, <2>3 DEF WrittenBy, On
  <2>6. QED
    BY <1>10, <2>1, <2>4, <2>5, AgreesAlone
<1>11. CASE Change(p)
  <2>1. PICK c \in Check : check[c].st = "live" /\ Begins(p, "change", "uCheck", check[c].test)
    BY <1>1, <1>11, ChangeDoes
  <2>2. PICK u \in Test : u = check[c].test
    BY <1>1, <2>1
  <2>3. check' = check /\ OnlyChecksOf(u) /\ Actual(u)' = Actual(u)
    BY <1>4, <1>11 DEF Change, docVars
  <2>4. Begins(p, "change", "uCheck", u)
    BY <2>1, <2>2
  <2>5. QED
    BY <1>3, <1>5, <1>10, <2>3, <2>4
<1>12. CASE Remove(p)
  <2>1. PICK c \in Check : /\ check[c].st = "live" /\ check' = Deleted({c})
                           /\ Begins(p, "remove", "dLoad", check[c].test)
    BY <1>1, <1>12, RemoveDoes
  <2>2. PICK u \in Test : u = check[c].test
    BY <1>1, <2>1
  <2>3. check'[c].st = "gone" /\ \A d \in Check : d # c => check'[d] = check[d]
    BY <1>1, <2>1, DeletedDoes
  <2>4. OnlyChecksOf(u)
    BY <2>2, <2>3 DEF OnlyChecksOf
  <2>5. Begins(p, "remove", "dLoad", u)
    BY <2>1, <2>2
  <2>6. QED
    BY <1>3, <1>5, <1>10, <2>4, <2>5
<1>13. CASE RemoveTest(p)
  <2>1. PICK u \in LiveTests : Begins(p, "removeTest", "xNext", u)
    BY <1>1, <1>13, RemoveTestDoes
  <2>2. check' = check /\ OnlyChecksOf(u) /\ Actual(u)' = Actual(u) /\ u \in Test
    BY <1>4, <1>13 DEF RemoveTest, docVars, LiveTests
  <2>3. QED
    BY <1>3, <1>5, <1>10, <2>1, <2>2
<1>14. QED
  BY <1>7, <1>8, <1>9, <1>11, <1>12, <1>13 DEF Starting

LEMMA AgreesUntouched ==
  ASSUME Typed, NEW t \in Test, check' = check, pc' = pc, loc' = loc, test'[t] = test[t],
         Agrees(t)
  PROVE  Agrees(t)'
<1>1. OnlyChecksOf(None) /\ ChecksKeep(None) /\ t # None
  BY NoneIsNoCheck DEF OnlyChecksOf, ChecksKeep
<1>2. \A q \in Request : (On(q, t)' <=> On(q, t)) /\ Kept(q)
  BY DEF On, Kept
<1>3. QED
  BY <1>1, <1>2, AgreesElsewhere

LEMMA StartSessionAgrees ==
  ASSUME Orderly, Agreed, NEW t \in Test, StartSession(t)
  PROVE  Agreed'
<1>1. /\ test[t].st = "free" /\ test' = [test EXCEPT ![t] = NewTest] /\ check' = check
      /\ pc' = pc /\ loc' = loc /\ mixed' = mixed /\ cut' = cut
  BY DEF StartSession, reqVars
<1>2. ~NewTest.ended /\ test \in [Test -> TestDoc]
  BY DEF NewTest, Orderly, Typed, TypeOK
<1>3. ~test'[t].ended /\ \A u \in Test : u # t => test'[u] = test[u]
  BY <1>1, <1>2
<1>4. \A q \in Request : ~On(q, t)'
  BY <1>1 DEF On, Orderly, Typed, Placed
<1>5. Agrees(t)'
  BY <1>3, <1>4, AgreesRunning
<1>6. ASSUME NEW u \in Test, u # t, Agrees(u)
      PROVE  Agrees(u)'
  BY <1>1, <1>3, <1>6, AgreesUntouched DEF Orderly
<1>7. QED
  BY <1>1, <1>3, <1>5, <1>6 DEF Agreed, LiveTests

LEMMA AgreedHolds == Spec => []Agreed
<1>1. Init => Agreed
  BY DEF Init, Agreed, LiveTests, NewTest
<1>2. Orderly /\ Whole /\ Compares /\ Agreed /\ [Next]_vars => Agreed'
  <2>1. SUFFICES ASSUME Orderly, Whole, Compares, Agreed, [Next]_vars
                 PROVE  Agreed'
    OBVIOUS
  <2>2. ASSUME NEW p \in Request,
               Starting(p) \/ Ending(p) \/ Creating(p) \/ Reviewing(p) \/ Removing(p)
        PROVE  Agreed'
    BY <2>1, <2>2, StartAgrees, StepAgrees
  <2>3. ASSUME NEW t \in Test, StartSession(t)
        PROVE  Agreed'
    BY <2>1, <2>3, StartSessionAgrees
  <2>4. CASE UNCHANGED vars
    BY <2>1, <2>4, AgreesUntouched DEF vars, Agreed, LiveTests, Orderly
  <2>5. QED
    BY <2>1, <2>2, <2>3, <2>4, NextSteps
<1>3. QED
  BY <1>1, <1>2, OrderlyHolds, WholeHolds, ComparesHolds, PTL DEF Spec

\* A test at rest whose session has ended shows the status of its checks, although
\* any number of acceptances may have computed and written it concurrently, the
\* slower one last; the calculateTestStatus of endSession agrees with that of
\* check.service where all checks have statuses of comparisons.
THEOREM TestsShowTheirChecks == Spec => []StatusAtRest
<1>1. Agreed => StatusAtRest
  <2>1. SUFFICES ASSUME Agreed, NEW t \in LiveTests \ (mixed \cup cut),
                        test[t].ended, ~Busy(t)
                 PROVE  /\ test[t].status = StatusOnReview(t)
                        /\ Statuses(t) \subseteq Compared => test[t].status = StatusAtEnd(t)
    BY DEF StatusAtRest
  <2>2. \A p \in Request : ~On(p, t)
    BY <2>1 DEF Busy, On
  <2>3. test[t].status = Actual(t)
    BY <2>1, <2>2 DEF Agreed, Agrees, Catches
  <2>4. QED
    BY <2>3, OneStatus DEF Actual
<1>2. QED
  BY <1>1, AgreedHolds, PTL
=============================================================================
