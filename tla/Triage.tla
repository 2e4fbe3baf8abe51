------------------------------- MODULE Triage -------------------------------
(***************************************************************************)
(* AI triage (services/triage, lib/schedulers/triageScheduler).  Checks    *)
(* that failed with a diff wait in the database for a verdict.  Every      *)
(* server instance polls: it claims a batch of them, one findOneAndUpdate  *)
(* each, which stamps a lease, and then classifies the batch one by one    *)
(* with a slow provider.  Users meanwhile cancel, restart or re-run the    *)
(* analysis, review checks and switch triage off.  Instances crash.        *)
(*                                                                         *)
(* Time is counted in units; a claim carries its age.  A lease may run out  *)
(* while its holder is still at work: a batch of 10 at 2 minutes each lasts *)
(* longer than the 10 minutes of CLAIM_TTL_MS.  One project, one test that  *)
(* all checks belong to.  Each step is one database call.                  *)
(***************************************************************************)
EXTENDS Naturals, FiniteSets, Sequences

CONSTANTS
  Checks, Instances, Requests,
  InsertedAs,      \* how an insert leaves a check: open on a replica set,
                   \* failed (at once visible) on a standalone database
  Verdicts,        \* verdicts of the project
  Fallback,        \* fallbackVerdict(verdicts), an element of Verdicts
  AutoAcceptable,  \* those that its policy accepts by itself
  Severity,        \* severity of each verdict
  Masking,         \* whether the project has set a confidence threshold
  Batch,           \* SYNGRISI_AI_TRIAGE_BATCH_SIZE
  MaxAttempts,     \* SYNGRISI_AI_TRIAGE_MAX_ATTEMPTS
  TTL,             \* CLAIM_TTL_MS
  Slow,            \* the longest classification (timeoutMs of the provider)
  MaxCrashes,      \* bound on crashes
  MaxToggles,      \* bound on changes of the triage settings
  MaxReviews       \* bound on reviews of checks

\* Reserved verdicts; "none": the field does not exist.
Reserved == {"unknown", "cancelled"}

ASSUME TriageAssumption ==
  /\ InsertedAs \subseteq {"open", "failed"}
  /\ IsFiniteSet(Checks) /\ Instances \cap Requests = {}
  /\ Fallback \in Verdicts /\ AutoAcceptable \subseteq Verdicts
  /\ Verdicts \cap (Reserved \cup {"none"}) = {}
  /\ Severity \in [Verdicts -> Nat]
  /\ Masking \in BOOLEAN
  /\ Batch \in Nat \ {0} /\ MaxAttempts \in Nat \ {0}
  /\ TTL \in Nat /\ Slow \in Nat
  /\ MaxCrashes \in Nat /\ MaxToggles \in Nat /\ MaxReviews \in Nat

VARIABLES
  status,    \* absent, open (inserted by a transaction that has not ended
             \* yet: nobody sees it), failed (with a diff), passed, or gone
  triage,    \* the triage subdocument of each check
  unmarked,  \* checks inserted and not yet marked as pending
  worst,     \* worstTriageVerdict of the test
  globalOn,  \* ai_triage_enabled
  appOn,     \* triageEnabled of the project
  pc, job,   \* instances and requests: next step, local variables
  batch,     \* claimed checks an instance has not come to yet
  elapsed,   \* how long the classification of an instance has run
  crashes, toggles, reviews,
  \* history variables
  asked,     \* what users last did about a check: nothing, cancel, again
  overdue,   \* checks whose lease ran out under an instance that holds them
  fails,     \* failed classifications of a check, while it is protected
  accepts,   \* acceptances of a check by triage, while it is protected
  blurred    \* a change that no recomputation of worst will see

docs == <<status, triage, unmarked, worst, globalOn, appOn>>
local == <<pc, job, batch, elapsed>>
bounds == <<crashes, toggles, reviews>>
history == <<asked, overdue, fails, accepts, blurred>>
vars == <<docs, local, bounds, history>>

-----------------------------------------------------------------------------
(* Types and initial state *)

Worker == Instances \cup Requests
Shown == Verdicts \cup Reserved
Unclaimed == TTL + 2
Age == 0 .. Unclaimed      \* TTL + 1 stands for every expired claim

Triaged == [verdict : Shown \cup {"none"}, pending : BOOLEAN, failed : BOOLEAN,
            attempts : Nat, claim : Age]
NoTriage == [verdict |-> "none", pending |-> FALSE, failed |-> FALSE,
             attempts |-> 0, claim |-> Unclaimed]

\* attempts: as read, then as the step at hand will write it.
Job == [check : Checks \cup {"none"}, attempts : Nat, app : BOOLEAN,
        verdict : Shown \cup {"none"}, failed : BOOLEAN]
NoJob == [check |-> "none", attempts |-> 0, app |-> FALSE,
          verdict |-> "none", failed |-> FALSE]

Step == {"idle", "claim", "next", "classify", "accept", "write",
         "requeue", "cancel", "worst", "store", "done"}

TypeOK ==
  /\ status \in [Checks -> {"absent", "open", "failed", "passed", "gone"}]
  /\ triage \in [Checks -> Triaged]
  /\ unmarked \subseteq Checks
  /\ worst \in Shown \cup {"none"}
  /\ globalOn \in BOOLEAN /\ appOn \in BOOLEAN
  /\ pc \in [Worker -> Step] /\ job \in [Worker -> Job]
  /\ batch \in [Instances -> Seq(Checks)]
  /\ \A i \in Instances : Len(batch[i]) <= Batch
  /\ elapsed \in [Instances -> 0 .. Slow]
  /\ crashes \in Nat /\ toggles \in Nat /\ reviews \in Nat
  /\ asked \in [Checks -> {"nothing", "cancel", "again"}]
  /\ overdue \subseteq Checks
  /\ fails \in [Checks -> Nat] /\ accepts \in [Checks -> Nat]
  /\ blurred \in BOOLEAN

Init ==
  /\ status = [c \in Checks |-> "absent"]
  /\ triage = [c \in Checks |-> NoTriage]
  /\ unmarked = {} /\ worst = "none"
  /\ globalOn = TRUE /\ appOn = TRUE
  /\ pc = [w \in Worker |-> "idle"] /\ job = [w \in Worker |-> NoJob]
  /\ batch = [i \in Instances |-> <<>>] /\ elapsed = [i \in Instances |-> 0]
  /\ crashes = 0 /\ toggles = 0 /\ reviews = 0
  /\ asked = [c \in Checks |-> "nothing"] /\ overdue = {} /\ blurred = FALSE
  /\ fails = [c \in Checks |-> 0] /\ accepts = [c \in Checks |-> 0]

-----------------------------------------------------------------------------
(* Checks, their review, and the settings *)

\* Checks that users left alone and whose lease never ran out under a holder:
\* the ones that the comment of findUntriagedCheckIds is right about.
Protected == {c \in Checks : asked[c] = "nothing"} \ overdue

\* Only what happens to those is counted.
Count(f, c) == IF c \in Protected THEN [f EXCEPT ![c] = @ + 1] ELSE f

Exists(c) == status[c] \in {"failed", "passed"}

\* Check.create of createCheckDocument, for a check that failed with a diff:
\* in the transaction of createCheck on a replica set, at once otherwise.
Insert(c) ==
  /\ status[c] = "absent"
  /\ \E s \in InsertedAs : status' = [status EXCEPT ![c] = s]
  /\ unmarked' = unmarked \cup {c}
  /\ UNCHANGED <<triage, worst, globalOn, appOn, local, bounds, history>>

\* The updateOne after it has no session: it does not find the check of an
\* open transaction.  The kick that follows enables nothing new.
MarkPending(c) ==
  /\ c \in unmarked
  /\ unmarked' = unmarked \ {c}
  /\ triage' = IF appOn /\ Exists(c)
                 THEN [triage EXCEPT ![c].pending = TRUE] ELSE triage
  /\ UNCHANGED <<status, worst, globalOn, appOn, local, bounds, history>>

\* The transaction of createCheck commits, or is rolled back.
Commit(c) ==
  /\ status[c] = "open" /\ c \notin unmarked
  /\ \E s \in {"failed", "gone"} : status' = [status EXCEPT ![c] = s]
  /\ UNCHANGED <<triage, unmarked, worst, globalOn, appOn, local, bounds, history>>

\* A user accepts or removes a check.  Removal does not refresh the test.
Review(c) ==
  /\ Exists(c) /\ reviews < MaxReviews
  /\ reviews' = reviews + 1
  /\ \E s \in {"passed", "gone"} :
       /\ status' = [status EXCEPT ![c] = s]
       /\ triage' = IF s = "gone" THEN [triage EXCEPT ![c] = NoTriage] ELSE triage
       /\ blurred' = (blurred \/ s = "gone")
  /\ UNCHANGED <<unmarked, worst, globalOn, appOn, local, crashes, toggles,
                 asked, overdue, fails, accepts>>

\* recompare: a check may fail that had passed; its triage stays.
Recompare(c) ==
  /\ Exists(c) /\ reviews < MaxReviews
  /\ reviews' = reviews + 1
  /\ \E s \in {"passed", "failed"} : status' = [status EXCEPT ![c] = s]
  /\ asked' = [asked EXCEPT ![c] = "again"]
  /\ UNCHANGED <<triage, unmarked, worst, globalOn, appOn, local, crashes,
                 toggles, overdue, fails, accepts, blurred>>

Toggle ==
  /\ toggles < MaxToggles
  /\ toggles' = toggles + 1
  /\ \/ globalOn' = ~globalOn /\ UNCHANGED appOn
     \/ appOn' = ~appOn /\ UNCHANGED globalOn
  /\ UNCHANGED <<status, triage, unmarked, worst, local, crashes, reviews, history>>

-----------------------------------------------------------------------------
(* The scheduler of an instance *)

Goto(w, step) == pc' = [pc EXCEPT ![w] = step]

\* Mutant: a lease is over one unit early.
MutStale(c) == triage[c].claim \in TTL .. TTL + 1
\* Mutant: a lease never expires.
MutNeverStale(c) == FALSE
Stale(c) == triage[c].claim = TTL + 1
\* Mutant: the filter does not mention the status.
MutAnyStatus(c) ==
  triage[c].verdict = "none" /\ (triage[c].claim = Unclaimed \/ Stale(c))
\* Mutant: the filter asks for checks that are marked as pending.
MutMarked(c) ==
  /\ status[c] = "failed" /\ triage[c].pending
  /\ triage[c].verdict = "none" /\ (triage[c].claim = Unclaimed \/ Stale(c))
\* Mutant: the filter does not mention the verdict.
MutAnyVerdict(c) ==
  status[c] = "failed" /\ (triage[c].claim = Unclaimed \/ Stale(c))
Claimable(c) ==
  /\ status[c] = "failed"
  /\ triage[c].verdict = "none"
  /\ triage[c].claim = Unclaimed \/ Stale(c)

\* tick, from the timer or a kick, with the reads of the settings and of the
\* projects that have triage on.  The running flag keeps it from overlapping.
\* A poll that would find nothing to claim is left out: it changes nothing.
Tick(i) ==
  /\ pc[i] = "idle" /\ globalOn /\ appOn
  /\ \E c \in Checks : Claimable(c)
  /\ Goto(i, "claim")
  /\ UNCHANGED <<docs, job, batch, elapsed, bounds, history>>

\* Mutant: find and update are two calls, and the second stamps nothing.
MutClaim(i, c) ==
  /\ pc[i] = "claim" /\ Len(batch[i]) < Batch /\ Claimable(c)
  /\ c \notin {batch[i][k] : k \in 1 .. Len(batch[i])}
  /\ batch' = [batch EXCEPT ![i] = Append(@, c)]
  /\ UNCHANGED <<docs, pc, job, elapsed, bounds, history>>

\* findOneAndUpdate, which stamps claimedAt and leaves the other fields.
Claim(i, c) ==
  /\ pc[i] = "claim" /\ Len(batch[i]) < Batch
  /\ Claimable(c)
  /\ triage' = [triage EXCEPT ![c].claim = 0]
  /\ batch' = [batch EXCEPT ![i] = Append(@, c)]
  /\ UNCHANGED <<status, unmarked, worst, globalOn, appOn, pc, job, elapsed,
                 bounds, history>>

EndClaim(i) ==
  /\ pc[i] = "claim"
  /\ Len(batch[i]) = Batch \/ \A c \in Checks : ~Claimable(c)
  /\ Goto(i, "next")
  /\ UNCHANGED <<docs, job, batch, elapsed, bounds, history>>

\* What triageCheck reads of a check before it asks the provider.
Reading(c) == [NoJob EXCEPT !.check = c, !.attempts = triage[c].attempts, !.app = appOn]

\* The next triageCheck of the batch.  Whatever the check has become since it
\* was claimed is not looked at; if it is gone the tick ends with an error.
TakeNext(i) ==
  /\ pc[i] = "next" /\ batch[i] # <<>>
  /\ IF Exists(Head(batch[i]))
       THEN /\ batch' = [batch EXCEPT ![i] = Tail(@)]
            /\ job' = [job EXCEPT ![i] = Reading(Head(batch[i]))]
            /\ Goto(i, "classify")
       ELSE /\ batch' = [batch EXCEPT ![i] = <<>>]
            /\ Goto(i, "idle")
            /\ UNCHANGED job
  /\ UNCHANGED <<docs, elapsed, bounds, history>>

EndTick(i) ==
  /\ pc[i] = "next" /\ batch[i] = <<>>
  /\ Goto(i, "idle")
  /\ UNCHANGED <<docs, job, batch, elapsed, bounds, history>>

-----------------------------------------------------------------------------
(* triageCheck, in a scheduler or in the request of a user *)

\* The end of an operation on a check: the next of the batch, or the answer.
Rest(w) == IF w \in Instances THEN "next" ELSE "done"

Answered(w) ==
  /\ pc[w] = "classify"
  /\ elapsed' = IF w \in Instances THEN [elapsed EXCEPT ![w] = 0] ELSE elapsed

\* The provider answers.  Below a threshold that is set the verdict is masked;
\* it is accepted by policy when it is confident and the policy lists it.
Classify(w) ==
  /\ Answered(w)
  /\ \E v \in Verdicts, confident \in BOOLEAN :
       /\ job' = [job EXCEPT ![w].verdict = IF Masking /\ ~confident THEN "unknown" ELSE v,
                             ![w].attempts = 0, ![w].app = FALSE]
       /\ Goto(w, IF confident /\ v \in AutoAcceptable THEN "accept" ELSE "write")
  /\ UNCHANGED <<docs, batch, bounds, history>>

\* shouldRetryTriage, where attempt n has failed.
ShouldRetry(n) == n < MaxAttempts

\* The provider fails: try again later while attempts remain and a scheduler
\* will pick the check up, otherwise give up with the fallback verdict.
ProviderFails(w) ==
  /\ Answered(w)
  /\ LET n == job[w].attempts + 1
         again == ShouldRetry(n) /\ globalOn /\ job[w].app IN
       /\ job' = [job EXCEPT ![w].attempts = n, ![w].app = FALSE,
                             ![w].verdict = IF again THEN "none" ELSE Fallback,
                             ![w].failed = ~again]
       /\ Goto(w, IF again THEN "requeue" ELSE "write")
  /\ fails' = Count(fails, job[w].check)
  /\ UNCHANGED <<docs, batch, bounds, asked, overdue, accepts, blurred>>

\* accept() of the check service; its rejection (the check is gone) is caught.
Accept(w) ==
  LET c == job[w].check IN
  /\ pc[w] = "accept"
  /\ IF Exists(c)
       THEN /\ status' = [status EXCEPT ![c] = "passed"]
            /\ accepts' = Count(accepts, c)
       ELSE UNCHANGED <<status, accepts>>
  /\ Goto(w, "write")
  /\ UNCHANGED <<triage, unmarked, worst, globalOn, appOn, job, batch, elapsed,
                 bounds, asked, overdue, fails, blurred>>

\* Some worker has read the verdicts of the test and not yet stored the worst.
Overtakes(w) == \E x \in Worker \ {w} : pc[x] = "store"

\* Mutant: the worst verdict of the test is not refreshed.
MutOverwrite(w, t) ==
  /\ triage' = [triage EXCEPT ![job[w].check] = t]
  /\ blurred' = (blurred \/ Overtakes(w))
  /\ Goto(w, Rest(w))
  /\ UNCHANGED <<status, unmarked, worst, globalOn, appOn, job, batch, elapsed,
                 bounds, overdue, fails, accepts>>
\* Overwrite the whole subdocument, which also drops the claim.
Overwrite(w, t) ==
  /\ triage' = [triage EXCEPT ![job[w].check] = t]
  /\ blurred' = (blurred \/ Overtakes(w))
  /\ Goto(w, "worst")
  /\ UNCHANGED <<status, unmarked, worst, globalOn, appOn, job, batch, elapsed,
                 bounds, overdue, fails, accepts>>

\* findByIdAndUpdate of a check that is gone changes nothing.
Missing(w) ==
  /\ ~Exists(job[w].check)
  /\ Goto(w, "worst")
  /\ UNCHANGED <<docs, job, batch, elapsed, bounds, history>>

WriteVerdict(w) ==
  /\ pc[w] = "write"
  /\ \/ /\ Exists(job[w].check)
        /\ Overwrite(w, [NoTriage EXCEPT !.verdict = job[w].verdict,
                                         !.failed = job[w].failed,
                                         !.attempts = job[w].attempts])
        /\ UNCHANGED asked
     \/ Missing(w)

Cancel(w) ==
  /\ pc[w] = "cancel"
  /\ \/ /\ Exists(job[w].check)
        /\ Overwrite(w, [NoTriage EXCEPT !.verdict = "cancelled"])
        /\ asked' = [asked EXCEPT ![job[w].check] = "cancel"]
     \/ Missing(w)

\* requeueCheck throws when the check is gone: that ends the tick.
Requeue(w) ==
  /\ pc[w] = "requeue"
  /\ IF Exists(job[w].check)
       THEN /\ Overwrite(w, [NoTriage EXCEPT !.pending = TRUE,
                                             !.attempts = job[w].attempts])
            /\ UNCHANGED asked
       ELSE /\ job' = [job EXCEPT ![w] = NoJob]
            /\ Goto(w, IF w \in Instances THEN "idle" ELSE "done")
            /\ batch' = IF w \in Instances THEN [batch EXCEPT ![w] = <<>>] ELSE batch
            /\ UNCHANGED <<docs, elapsed, bounds, history>>

\* The verdicts of the checks of the test, and the worst of them; a verdict
\* the project does not define has rank zero.
Given == {triage[c].verdict : c \in Checks} \ {"none"}
Rank(v) == IF v \in Verdicts THEN Severity[v] ELSE 0
WorstGiven == {v \in Given : \A u \in Given : Rank(u) <= Rank(v)}

\* updateTestWorstVerdict reads; then it writes, unless there is no verdict:
\* an undefined value is dropped from the update and the old one stays.
ReadWorst(w) ==
  /\ pc[w] = "worst"
  /\ \E v \in IF Given = {} THEN {"none"} ELSE WorstGiven :
       job' = [job EXCEPT ![w] = [NoJob EXCEPT !.verdict = v]]
  /\ Goto(w, "store")
  /\ UNCHANGED <<docs, batch, elapsed, bounds, history>>

StoreWorst(w) ==
  /\ pc[w] = "store"
  /\ worst' = IF job[w].verdict = "none" THEN worst ELSE job[w].verdict
  /\ job' = [job EXCEPT ![w] = NoJob]
  /\ Goto(w, Rest(w))
  /\ UNCHANGED <<status, triage, unmarked, globalOn, appOn, batch, elapsed,
                 bounds, history>>

-----------------------------------------------------------------------------
(* Requests of users, crashes, time *)

\* cancelCheck, requeueCheck (restart) and triageCheck (re-run) by a user.
Ask(r, c) ==
  /\ pc[r] = "idle" /\ Exists(c)
  /\ \/ /\ Goto(r, "cancel")
        /\ job' = [job EXCEPT ![r].check = c]
        /\ UNCHANGED asked
     \/ /\ Goto(r, "requeue")
        /\ job' = [job EXCEPT ![r].check = c]
        /\ asked' = [asked EXCEPT ![c] = "again"]
     \/ /\ Goto(r, "classify")
        /\ job' = [job EXCEPT ![r] = Reading(c)]
        /\ asked' = [asked EXCEPT ![c] = "again"]
  /\ UNCHANGED <<docs, batch, elapsed, bounds, overdue, fails, accepts, blurred>>

\* A worker dies with its server, between any two steps.
Crash(w) ==
  /\ pc[w] \notin {"idle", "done"} /\ crashes < MaxCrashes
  /\ crashes' = crashes + 1
  /\ blurred' = (blurred \/ pc[w] \in {"worst", "store"})
  /\ job' = [job EXCEPT ![w] = NoJob]
  /\ Goto(w, IF w \in Instances THEN "idle" ELSE "done")
  /\ batch' = IF w \in Instances THEN [batch EXCEPT ![w] = <<>>] ELSE batch
  /\ elapsed' = IF w \in Instances THEN [elapsed EXCEPT ![w] = 0] ELSE elapsed
  /\ UNCHANGED <<docs, toggles, reviews, asked, overdue, fails, accepts>>

Older(a) == IF a \in {TTL + 1, Unclaimed} THEN a ELSE a + 1

\* Mutant: the call to the provider has no timeout.
MutInTime(i) == TRUE
\* The call to the provider is aborted when it has lasted Slow.
InTime(i) == pc[i] = "classify" => elapsed[i] < Slow

\* The checks an instance works on or is going to.
Holds(i) ==
  {batch[i][k] : k \in 1 .. Len(batch[i])} \cup
  (IF pc[i] \in {"classify", "accept", "write", "requeue"} THEN {job[i].check} ELSE {})

\* Leases that the next unit of time ends while somebody holds the check.
RunningOut == {c \in Checks : triage[c].claim = TTL /\ \E i \in Instances : c \in Holds(i)}

\* Only classifications take time.
Pass ==
  /\ \A w \in Worker : pc[w] \in {"idle", "done", "classify"}
  /\ \A i \in Instances : InTime(i)
  /\ triage' = [c \in Checks |-> [triage[c] EXCEPT !.claim = Older(@)]]
  /\ elapsed' = [i \in Instances |->
                   IF pc[i] = "classify" THEN elapsed[i] + 1 ELSE elapsed[i]]
  /\ overdue' = overdue \cup RunningOut
  /\ UNCHANGED <<status, unmarked, worst, globalOn, appOn, pc, job, batch,
                 bounds, asked, fails, accepts, blurred>>

-----------------------------------------------------------------------------
(* Specification *)

OfCheck(w) ==
  \/ Classify(w) \/ ProviderFails(w) \/ Accept(w) \/ WriteVerdict(w) \/ Cancel(w)
  \/ Requeue(w) \/ ReadWorst(w) \/ StoreWorst(w)
OfBatch(i) ==
  \/ Tick(i) \/ EndClaim(i) \/ TakeNext(i) \/ EndTick(i)
  \/ \E c \in Checks : Claim(i, c)

Next ==
  \/ \E c \in Checks :
       Insert(c) \/ MarkPending(c) \/ Commit(c) \/ Review(c) \/ Recompare(c)
  \/ \E i \in Instances : OfBatch(i)
  \/ \E w \in Worker : OfCheck(w) \/ Crash(w)
  \/ \E r \in Requests, c \in Checks : Ask(r, c)
  \/ Toggle
  \/ Pass

Spec == Init /\ [][Next]_vars

\* Timers fire, awaited calls settle and time passes.
Fairness ==
  /\ \A i \in Instances : WF_vars(OfBatch(i))
  /\ \A w \in Worker : WF_vars(OfCheck(w))
  /\ WF_vars(Pass)

FairSpec == Spec /\ Fairness

-----------------------------------------------------------------------------
(* Properties *)

\* Two instances work on the same check only after a user asked about it, or a
\* lease ran out while its holder was still at its batch: nothing else hands a
\* check out twice, neither a crash nor a requeue nor a takeover.
LeaseExclusive ==
  \A i, j \in Instances : i # j => Holds(i) \cap Holds(j) \cap Protected = {}

\* The background analysis decides once: a verdict is replaced for a user, or
\* by the late holder of a lease that ran out.
VerdictStays ==
  [][\A c \in Protected : \/ triage[c].verdict \in {"none", triage'[c].verdict}
                          \/ asked'[c] # "nothing" \/ status'[c] = "gone"]_vars

\* A provider that is down is asked MaxAttempts times for a check, whatever
\* other instances and leases are involved (a crash can forget one failure),
\* and a check is given up no earlier while triage stays on.
BoundedAttempts ==
  \A c \in Protected :
    /\ fails[c] <= MaxAttempts + crashes
    /\ triage[c].failed /\ toggles = 0 => fails[c] >= MaxAttempts

\* Triage accepts a check at most once, even if the instance dies between the
\* acceptance and the verdict: an accepted check is not claimed again.
AcceptedOnce == \A c \in Protected : accepts[c] <= 1

\* What the background analysis does for a check outside its document, requests
\* to the provider and acceptances, stays bounded through crashes and takeovers.
EffectsBounded == BoundedAttempts /\ AcceptedOnce

\* The verdict shown for a test is the worst of its checks when every worker
\* has refreshed it and none overtook another; with no verdict left it is stale.
WorstFollows ==
  ~blurred /\ Given # {} /\ (\A w \in Worker : pc[w] \notin {"worst", "store"})
    => worst \in WorstGiven

\* A check that waits while triage is on gets a verdict, is put aside by a
\* review, or triage is switched off: no crash, error or expired claim
\* strands it.
Drained ==
  \A c \in Checks :
    (status[c] = "failed" /\ triage[c].verdict = "none" /\ globalOn /\ appOn)
      ~> (status[c] # "failed" \/ triage[c].verdict # "none" \/ ~globalOn \/ ~appOn)

\* The abstract queue: who waits, and who works on what.
Queue == INSTANCE LeaseQueue WITH
  waiting <- {c \in Checks : status[c] = "failed" /\ triage[c].verdict = "none"},
  owners <- [c \in Checks |-> {i \in Instances : c \in Holds(i)}],
  reissued <- Checks \ Protected

\* Triage implements the abstract queue.
ImplementsQueue == Queue!QueueSpec
=============================================================================
