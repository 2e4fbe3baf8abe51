---------------------------- MODULE TriageProofs ----------------------------
(* Theorems about Triage, for any number of checks, instances and requests. *)
EXTENDS Triage, SequenceTheorems, TLAPS

-----------------------------------------------------------------------------
(* Types *)

\* The numbers among the constants.
LEMMA Numbers ==
  /\ Batch \in Nat \ {0} /\ MaxAttempts \in Nat \ {0}
  /\ TTL \in Nat /\ Slow \in Nat
BY TriageAssumption

\* A job and a triage subdocument that the steps build are well-typed.
LEMMA NoJobType == NoJob \in Job
BY DEF NoJob, Job, Shown, Reserved

LEMMA NoTriageType == NoTriage \in Triaged
BY Numbers DEF NoTriage, Triaged, Shown, Reserved, Age, Unclaimed

LEMMA ReadingType ==
  ASSUME TypeOK, NEW c \in Checks
  PROVE  /\ Reading(c) \in Job /\ Reading(c).check = c
         /\ Reading(c).attempts = triage[c].attempts
         /\ Reading(c).app = appOn /\ Reading(c).failed = FALSE
<1>1. triage[c].attempts \in Nat /\ appOn \in BOOLEAN
  BY DEF TypeOK, Triaged
<1>2. NoJob.failed = FALSE
  BY DEF NoJob
<1>3. QED
  BY <1>1, <1>2, NoJobType DEF Reading, Job

\* Assignments to the fields of a job.
LEMMA SetNumbers ==
  ASSUME NEW r \in Job, NEW n \in Nat, NEW a \in BOOLEAN
  PROVE  [r EXCEPT !.attempts = n, !.app = a] \in Job
BY DEF Job

LEMMA SetOutcome ==
  ASSUME NEW r \in Job, NEW v \in Shown \cup {"none"}, NEW f \in BOOLEAN
  PROVE  [r EXCEPT !.verdict = v, !.failed = f] \in Job
BY DEF Job

LEMMA SetVerdict ==
  ASSUME NEW r \in Job, NEW v \in Shown \cup {"none"}
  PROVE  [r EXCEPT !.verdict = v] \in Job
BY DEF Job

\* Counting keeps a count a number, and counts for protected checks only.
LEMMA CountType ==
  ASSUME NEW f \in [Checks -> Nat], NEW c
  PROVE  /\ Count(f, c) \in [Checks -> Nat]
         /\ \A d \in Checks :
              Count(f, c)[d] = IF d = c /\ c \in Protected THEN f[d] + 1 ELSE f[d]
<1>1. CASE c \in Protected
  <2>1. c \in Checks /\ Count(f, c) = [f EXCEPT ![c] = @ + 1]
    BY <1>1 DEF Protected, Count
  <2>2. QED
    BY <1>1, <2>1
<1>2. CASE c \notin Protected
  BY <1>2 DEF Count
<1>3. QED
  BY <1>1, <1>2

\* The claim of a check grows older within its range.
LEMMA OlderType ==
  ASSUME NEW a \in Age
  PROVE  Older(a) \in Age
BY Numbers DEF Age, Older, Unclaimed

LEMMA InitType == Init => TypeOK
<1> SUFFICES ASSUME Init PROVE TypeOK
  OBVIOUS
<1>1. <<>> \in Seq(Checks) /\ Len(<<>>) = 0
  BY EmptySeq
<1>2. batch \in [Instances -> Seq(Checks)] /\ \A i \in Instances : Len(batch[i]) <= Batch
  BY <1>1, Numbers DEF Init
<1>3. triage \in [Checks -> Triaged] /\ job \in [Worker -> Job]
  BY NoJobType, NoTriageType DEF Init
<1>4. elapsed \in [Instances -> 0 .. Slow]
  BY Numbers DEF Init
<1>5. QED
  BY <1>2, <1>3, <1>4 DEF Init, TypeOK, Shown, Reserved, Step

\* One lemma per action.
LEMMA InsertType == ASSUME TypeOK, NEW c \in Checks, Insert(c) PROVE TypeOK'
<1>1. PICK s \in InsertedAs : status' = [status EXCEPT ![c] = s]
  BY DEF Insert
<1>2. s \in {"open", "failed"}
  BY TriageAssumption
<1>3. QED
  BY <1>1, <1>2 DEF TypeOK, Insert, local, bounds, history

LEMMA CommitType == ASSUME TypeOK, NEW c \in Checks, Commit(c) PROVE TypeOK'
BY DEF TypeOK, Commit, local, bounds, history

LEMMA MarkPendingType == ASSUME TypeOK, NEW c \in Checks, MarkPending(c) PROVE TypeOK'
<1>1. [triage EXCEPT ![c].pending = TRUE] \in [Checks -> Triaged]
  BY DEF TypeOK, Triaged
<1>2. QED
  BY <1>1 DEF TypeOK, MarkPending, local, bounds, history

LEMMA ReviewType == ASSUME TypeOK, NEW c \in Checks, Review(c) PROVE TypeOK'
<1>1. [triage EXCEPT ![c] = NoTriage] \in [Checks -> Triaged]
  BY NoTriageType DEF TypeOK
<1>2. QED
  BY <1>1 DEF TypeOK, Review, local

LEMMA RecompareType == ASSUME TypeOK, NEW c \in Checks, Recompare(c) PROVE TypeOK'
BY DEF TypeOK, Recompare, local

LEMMA ToggleType == ASSUME TypeOK, Toggle PROVE TypeOK'
<1>1. globalOn \in BOOLEAN /\ appOn \in BOOLEAN
  BY DEF TypeOK
<1>2. globalOn' \in BOOLEAN /\ appOn' \in BOOLEAN
  BY <1>1, Zenon DEF Toggle
<1>3. QED
  BY <1>2 DEF TypeOK, Toggle, local, history

LEMMA TickType == ASSUME TypeOK, NEW i \in Instances, Tick(i) PROVE TypeOK'
BY DEF TypeOK, Tick, Goto, docs, bounds, history, Worker, Step

LEMMA ClaimType ==
  ASSUME TypeOK, NEW i \in Instances, NEW c \in Checks, Claim(i, c)
  PROVE  TypeOK'
<1>1. [triage EXCEPT ![c].claim = 0] \in [Checks -> Triaged]
  <2>1. 0 \in Age
    BY Numbers DEF Age, Unclaimed
  <2>2. QED
    BY <2>1 DEF TypeOK, Triaged
<1>2. batch[i] \in Seq(Checks) /\ Len(batch[i]) \in Nat
  BY LenProperties DEF TypeOK
<1>3. Append(batch[i], c) \in Seq(Checks) /\ Len(Append(batch[i], c)) = Len(batch[i]) + 1
  BY <1>2, AppendProperties
<1>4. batch' \in [Instances -> Seq(Checks)]
      /\ \A j \in Instances : Len(batch'[j]) <= Batch
  BY <1>2, <1>3, Numbers DEF Claim, TypeOK
<1>5. QED
  BY <1>1, <1>4 DEF TypeOK, Claim, bounds, history

LEMMA EndClaimType == ASSUME TypeOK, NEW i \in Instances, EndClaim(i) PROVE TypeOK'
BY DEF TypeOK, EndClaim, Goto, docs, bounds, history, Worker, Step

LEMMA TakeNextType == ASSUME TypeOK, NEW i \in Instances, TakeNext(i) PROVE TypeOK'
<1>1. batch[i] \in Seq(Checks) /\ batch[i] # <<>>
  BY DEF TakeNext, TypeOK
<1>2. /\ Head(batch[i]) \in Checks /\ Tail(batch[i]) \in Seq(Checks)
      /\ Len(Tail(batch[i])) = Len(batch[i]) - 1
  BY <1>1, HeadTailProperties
<1>3. Len(batch[i]) \in Nat /\ <<>> \in Seq(Checks) /\ Len(<<>>) = 0
  BY <1>1, LenProperties, EmptySeq
<1>4. batch' \in [Instances -> Seq(Checks)]
      /\ \A j \in Instances : Len(batch'[j]) <= Batch
  <2>1. batch' = [batch EXCEPT ![i] = Tail(batch[i])] \/ batch' = [batch EXCEPT ![i] = <<>>]
    BY DEF TakeNext
  <2>2. /\ batch \in [Instances -> Seq(Checks)]
        /\ \A j \in Instances : Len(batch[j]) <= Batch
    BY DEF TypeOK
  <2>3. Len(Tail(batch[i])) <= Batch /\ Len(<<>>) <= Batch
    BY <1>2, <1>3, <2>2, Numbers
  <2>4. QED
    BY <1>2, <1>3, <2>1, <2>2, <2>3
<1>5. Reading(Head(batch[i])) \in Job
  BY <1>2, ReadingType
<1>6. job' \in [Worker -> Job]
  BY <1>5 DEF TakeNext, TypeOK
<1>7. pc' \in [Worker -> Step]
  BY DEF TakeNext, Goto, TypeOK, Worker, Step
<1>8. QED
  BY <1>4, <1>6, <1>7 DEF TypeOK, TakeNext, docs, bounds, history

LEMMA EndTickType == ASSUME TypeOK, NEW i \in Instances, EndTick(i) PROVE TypeOK'
BY DEF TypeOK, EndTick, Goto, docs, bounds, history, Worker, Step

\* What an answer of the provider resets.
LEMMA AnsweredType ==
  ASSUME TypeOK, NEW w \in Worker, Answered(w)
  PROVE  elapsed' \in [Instances -> 0 .. Slow]
BY Numbers DEF TypeOK, Answered

\* What an answer, or its absence, leaves in the locals of a worker.
LEMMA ClassifyJob ==
  ASSUME TypeOK, NEW w \in Worker, Classify(w)
  PROVE  /\ job' \in [Worker -> Job]
         /\ job'[w].check = job[w].check /\ job'[w].verdict \in Shown
         /\ job'[w].attempts = 0 /\ job'[w].failed = job[w].failed
         /\ \A x \in Worker \ {w} : job'[x] = job[x]
         /\ pc' \in [Worker -> Step] /\ pc'[w] \in {"accept", "write"}
         /\ \A x \in Worker \ {w} : pc'[x] = pc[x]
<1>1. PICK v \in Verdicts, confident \in BOOLEAN :
        /\ job' = [job EXCEPT ![w].verdict = IF Masking /\ ~confident THEN "unknown" ELSE v,
                              ![w].attempts = 0, ![w].app = FALSE]
        /\ Goto(w, IF confident /\ v \in AutoAcceptable THEN "accept" ELSE "write")
  BY DEF Classify
<1> DEFINE u == IF Masking /\ ~confident THEN "unknown" ELSE v
<1>2. u \in Shown
  BY DEF Shown, Reserved
<1>3. job' = [job EXCEPT ![w].verdict = u, ![w].attempts = 0, ![w].app = FALSE]
  BY <1>1
<1> HIDE DEF u
<1>4. job \in [Worker -> Job] /\ pc \in [Worker -> Step]
  BY DEF TypeOK
<1>5. job' = [job EXCEPT ![w] = [[job[w] EXCEPT !.verdict = u] EXCEPT !.attempts = 0, !.app = FALSE]]
  BY <1>3, <1>4 DEF Job
<1>6. job' \in [Worker -> Job]
  BY <1>2, <1>4, <1>5, SetNumbers, SetVerdict
<1>7. /\ job'[w].check = job[w].check /\ job'[w].verdict = u
      /\ job'[w].attempts = 0 /\ job'[w].failed = job[w].failed
      /\ \A x \in Worker \ {w} : job'[x] = job[x]
  BY <1>3, <1>4 DEF Job
<1>8. QED
  BY <1>1, <1>2, <1>4, <1>6, <1>7 DEF Goto, Step

LEMMA ProviderFailsJob ==
  ASSUME TypeOK, NEW w \in Worker, ProviderFails(w)
  PROVE  /\ job' \in [Worker -> Job]
         /\ job'[w].check = job[w].check
         /\ job'[w].attempts = job[w].attempts + 1
         /\ \A x \in Worker \ {w} : job'[x] = job[x]
         /\ pc' \in [Worker -> Step]
         /\ \A x \in Worker \ {w} : pc'[x] = pc[x]
         /\ \/ /\ pc'[w] = "requeue"
               /\ job[w].attempts + 1 < MaxAttempts
            \/ /\ pc'[w] = "write" /\ job'[w].verdict = Fallback
               /\ job[w].attempts + 1 < MaxAttempts => ~globalOn \/ ~job[w].app
<1> DEFINE n == job[w].attempts + 1
           again == ShouldRetry(n) /\ globalOn /\ job[w].app
           u == IF again THEN "none" ELSE Fallback
<1>1. /\ job' = [job EXCEPT ![w].attempts = n, ![w].app = FALSE,
                            ![w].verdict = u, ![w].failed = ~again]
      /\ Goto(w, IF again THEN "requeue" ELSE "write")
  BY DEF ProviderFails
<1>2. n \in Nat /\ again \in BOOLEAN /\ u \in Shown \cup {"none"}
  BY TriageAssumption DEF TypeOK, Job, ShouldRetry, Shown
<1>3. /\ again => n < MaxAttempts
      /\ ~again => (n < MaxAttempts => ~globalOn \/ ~job[w].app) /\ u = Fallback
  BY DEF ShouldRetry
<1>4. job \in [Worker -> Job] /\ pc \in [Worker -> Step]
  BY DEF TypeOK
<1> HIDE DEF again, u
<1>5. job' = [job EXCEPT ![w] = [[job[w] EXCEPT !.attempts = n, !.app = FALSE]
                                   EXCEPT !.verdict = u, !.failed = ~again]]
  BY <1>1, <1>4 DEF Job
<1>6. job' \in [Worker -> Job]
  BY <1>2, <1>4, <1>5, SetNumbers, SetOutcome
<1>7. /\ job'[w].check = job[w].check /\ job'[w].attempts = n /\ job'[w].verdict = u
      /\ \A x \in Worker \ {w} : job'[x] = job[x]
  BY <1>1, <1>2, <1>4 DEF Job
<1>8. QED
  BY <1>1, <1>3, <1>4, <1>6, <1>7 DEF Goto, Step

LEMMA ClassifyType == ASSUME TypeOK, NEW w \in Worker, Classify(w) PROVE TypeOK'
<1>1. elapsed' \in [Instances -> 0 .. Slow]
  BY AnsweredType DEF Classify
<1>2. QED
  BY <1>1, ClassifyJob DEF TypeOK, Classify, docs, bounds, history

LEMMA ProviderFailsType == ASSUME TypeOK, NEW w \in Worker, ProviderFails(w) PROVE TypeOK'
<1>1. elapsed' \in [Instances -> 0 .. Slow]
  BY AnsweredType DEF ProviderFails
<1>2. fails \in [Checks -> Nat] /\ fails' = Count(fails, job[w].check)
  BY DEF ProviderFails, TypeOK
<1>3. fails' \in [Checks -> Nat]
  BY <1>2, CountType
<1>4. QED
  BY <1>1, <1>3, ProviderFailsJob DEF TypeOK, ProviderFails, docs, bounds

LEMMA AcceptType == ASSUME TypeOK, NEW w \in Worker, Accept(w) PROVE TypeOK'
<1>1. accepts \in [Checks -> Nat]
      /\ (accepts' = accepts \/ accepts' = Count(accepts, job[w].check))
  BY DEF Accept, TypeOK
<1>2. accepts' \in [Checks -> Nat]
  BY <1>1, CountType
<1>3. pc' \in [Worker -> Step]
  BY DEF Accept, Goto, TypeOK, Step
<1>4. status' \in [Checks -> {"absent", "open", "failed", "passed", "gone"}]
  BY DEF Accept, TypeOK
<1>5. QED
  BY <1>2, <1>3, <1>4 DEF TypeOK, Accept, bounds

LEMMA OverwriteType ==
  ASSUME TypeOK, NEW w \in Worker, NEW t \in Triaged, Overwrite(w, t),
         asked' \in [Checks -> {"nothing", "cancel", "again"}]
  PROVE  TypeOK'
BY DEF TypeOK, Overwrite, Goto, Step, bounds

LEMMA MissingType == ASSUME TypeOK, NEW w \in Worker, Missing(w) PROVE TypeOK'
BY DEF TypeOK, Missing, Goto, Step, docs, bounds, history

\* The subdocuments that are written.
LEMMA WrittenType ==
  ASSUME NEW v \in Shown \cup {"none"}, NEW f \in BOOLEAN, NEW n \in Nat
  PROVE  /\ [NoTriage EXCEPT !.verdict = v, !.failed = f, !.attempts = n] \in Triaged
         /\ [NoTriage EXCEPT !.pending = TRUE, !.attempts = n] \in Triaged
         /\ [NoTriage EXCEPT !.verdict = v] \in Triaged
BY NoTriageType DEF Triaged

\* A worker that gives up what it does, by a crash or an error.
LEMMA DroppedType ==
  ASSUME TypeOK, NEW w \in Worker, job' = [job EXCEPT ![w] = NoJob],
         Goto(w, IF w \in Instances THEN "idle" ELSE "done"),
         batch' = IF w \in Instances THEN [batch EXCEPT ![w] = <<>>] ELSE batch
  PROVE  /\ job' \in [Worker -> Job] /\ pc' \in [Worker -> Step]
         /\ batch' \in [Instances -> Seq(Checks)]
         /\ \A i \in Instances : Len(batch'[i]) <= Batch
<1>1. job' \in [Worker -> Job]
  BY NoJobType DEF TypeOK
<1>2. pc' \in [Worker -> Step]
  BY DEF TypeOK, Goto, Step
<1>3. <<>> \in Seq(Checks) /\ Len(<<>>) <= Batch
  BY EmptySeq, Numbers
<1>4. /\ batch' \in [Instances -> Seq(Checks)]
      /\ \A i \in Instances : Len(batch'[i]) <= Batch
  BY <1>3 DEF TypeOK
<1>5. QED
  BY <1>1, <1>2, <1>4

LEMMA WriteVerdictType == ASSUME TypeOK, NEW w \in Worker, WriteVerdict(w) PROVE TypeOK'
<1> DEFINE t == [NoTriage EXCEPT !.verdict = job[w].verdict, !.failed = job[w].failed,
                                 !.attempts = job[w].attempts]
<1>1. CASE Overwrite(w, t) /\ UNCHANGED asked
  <2>1. t \in Triaged
    BY WrittenType DEF TypeOK, Job
  <2>2. asked' \in [Checks -> {"nothing", "cancel", "again"}]
    BY <1>1 DEF TypeOK
  <2>3. QED
    BY <1>1, <2>1, <2>2, OverwriteType
<1>2. CASE Missing(w)
  BY <1>2, MissingType
<1>3. QED
  BY <1>1, <1>2 DEF WriteVerdict

LEMMA CancelType == ASSUME TypeOK, NEW w \in Worker, Cancel(w) PROVE TypeOK'
<1> DEFINE t == [NoTriage EXCEPT !.verdict = "cancelled"]
<1>1. CASE Overwrite(w, t) /\ asked' = [asked EXCEPT ![job[w].check] = "cancel"]
  <2>1. t \in Triaged
    BY WrittenType DEF Shown, Reserved
  <2>2. asked' \in [Checks -> {"nothing", "cancel", "again"}]
    BY <1>1 DEF TypeOK
  <2>3. QED
    BY <1>1, <2>1, <2>2, OverwriteType
<1>2. CASE Missing(w)
  BY <1>2, MissingType
<1>3. QED
  BY <1>1, <1>2 DEF Cancel

LEMMA RequeueType == ASSUME TypeOK, NEW w \in Worker, Requeue(w) PROVE TypeOK'
<1> DEFINE t == [NoTriage EXCEPT !.pending = TRUE, !.attempts = job[w].attempts]
<1>1. CASE Overwrite(w, t) /\ UNCHANGED asked
  <2>1. t \in Triaged
    BY WrittenType DEF TypeOK, Job
  <2>2. asked' \in [Checks -> {"nothing", "cancel", "again"}]
    BY <1>1 DEF TypeOK
  <2>3. QED
    BY <1>1, <2>1, <2>2, OverwriteType
<1>2. CASE /\ job' = [job EXCEPT ![w] = NoJob]
           /\ Goto(w, IF w \in Instances THEN "idle" ELSE "done")
           /\ batch' = IF w \in Instances THEN [batch EXCEPT ![w] = <<>>] ELSE batch
           /\ UNCHANGED <<docs, elapsed, bounds, history>>
  BY <1>2, DroppedType DEF TypeOK, docs, bounds, history
<1>3. QED
  BY <1>1, <1>2 DEF Requeue

LEMMA ReadWorstType == ASSUME TypeOK, NEW w \in Worker, ReadWorst(w) PROVE TypeOK'
<1>1. PICK v \in IF Given = {} THEN {"none"} ELSE WorstGiven :
        job' = [job EXCEPT ![w] = [NoJob EXCEPT !.verdict = v]]
  BY DEF ReadWorst
<1>2. v \in Shown \cup {"none"}
  BY DEF TypeOK, Triaged, WorstGiven, Given
<1>3. job' \in [Worker -> Job]
  BY <1>1, <1>2, NoJobType, SetVerdict DEF TypeOK
<1>4. pc' \in [Worker -> Step]
  BY DEF ReadWorst, Goto, TypeOK, Step
<1>5. QED
  BY <1>3, <1>4 DEF TypeOK, ReadWorst, docs, bounds, history

LEMMA StoreWorstType == ASSUME TypeOK, NEW w \in Worker, StoreWorst(w) PROVE TypeOK'
<1>1. worst' \in Shown \cup {"none"}
  BY DEF StoreWorst, TypeOK, Job
<1>2. pc' \in [Worker -> Step]
  BY DEF StoreWorst, Goto, Rest, TypeOK, Step
<1>3. job' \in [Worker -> Job]
  BY NoJobType DEF StoreWorst, TypeOK
<1>4. QED
  BY <1>1, <1>2, <1>3 DEF TypeOK, StoreWorst, bounds, history

LEMMA AskType ==
  ASSUME TypeOK, NEW r \in Requests, NEW c \in Checks, Ask(r, c)
  PROVE  TypeOK'
<1>1. r \in Worker
  BY DEF Worker
<1>2. job' \in [Worker -> Job]
  <2>1. job \in [Worker -> Job]
    BY DEF TypeOK
  <2>2. [job[r] EXCEPT !.check = c] \in Job
    BY <1>1, <2>1 DEF Job
  <2>3. \/ job' = [job EXCEPT ![r] = [job[r] EXCEPT !.check = c]]
        \/ job' = [job EXCEPT ![r] = Reading(c)]
    BY DEF Ask
  <2>4. QED
    BY <2>1, <2>2, <2>3, ReadingType
<1>3. pc' \in [Worker -> Step]
  BY <1>1 DEF Ask, Goto, TypeOK, Step
<1>4. asked' \in [Checks -> {"nothing", "cancel", "again"}]
  BY DEF Ask, TypeOK
<1>5. QED
  BY <1>2, <1>3, <1>4 DEF TypeOK, Ask, docs, bounds

LEMMA CrashType == ASSUME TypeOK, NEW w \in Worker, Crash(w) PROVE TypeOK'
<1>1. elapsed' \in [Instances -> 0 .. Slow]
  BY Numbers DEF Crash, TypeOK
<1>2. crashes' \in Nat /\ blurred' \in BOOLEAN
  BY DEF Crash, TypeOK
<1>3. QED
  BY <1>1, <1>2, DroppedType DEF TypeOK, Crash, docs

LEMMA PassType == ASSUME TypeOK, Pass PROVE TypeOK'
<1>1. ASSUME NEW c \in Checks
      PROVE  [triage[c] EXCEPT !.claim = Older(@)] \in Triaged
  <2>1. triage[c].claim \in Age
    BY DEF TypeOK, Triaged
  <2>2. Older(triage[c].claim) \in Age
    BY <2>1, OlderType
  <2>3. QED
    BY <2>2 DEF TypeOK, Triaged
<1>2. triage' \in [Checks -> Triaged]
  BY <1>1 DEF Pass
<1>3. ASSUME NEW i \in Instances
      PROVE  elapsed'[i] \in 0 .. Slow
  <2>1. elapsed[i] \in 0 .. Slow
    BY DEF TypeOK
  <2>2. elapsed'[i] = (IF pc[i] = "classify" THEN elapsed[i] + 1 ELSE elapsed[i])
        /\ (pc[i] = "classify" => elapsed[i] < Slow)
    BY DEF Pass, InTime
  <2>3. QED
    BY <2>1, <2>2, Numbers
<1>4. elapsed' \in [Instances -> 0 .. Slow]
  BY <1>3 DEF Pass
<1>5. overdue' \subseteq Checks
  BY DEF Pass, RunningOut, TypeOK
<1>6. QED
  BY <1>2, <1>4, <1>5 DEF TypeOK, Pass, bounds

LEMMA NextType == TypeOK /\ [Next]_vars => TypeOK'
<1> SUFFICES ASSUME TypeOK, [Next]_vars PROVE TypeOK'
  OBVIOUS
<1>1. CASE UNCHANGED vars
  BY <1>1 DEF vars, docs, local, bounds, history, TypeOK
<1>2. ASSUME NEW c \in Checks,
             Insert(c) \/ MarkPending(c) \/ Commit(c) \/ Review(c) \/ Recompare(c)
      PROVE  TypeOK'
  BY <1>2, InsertType, MarkPendingType, CommitType, ReviewType, RecompareType
<1>3. ASSUME NEW i \in Instances, OfBatch(i) PROVE TypeOK'
  BY <1>3, TickType, EndClaimType, TakeNextType, EndTickType, ClaimType DEF OfBatch
<1>4. ASSUME NEW w \in Worker, OfCheck(w) \/ Crash(w) PROVE TypeOK'
  BY <1>4, ClassifyType, ProviderFailsType, AcceptType, WriteVerdictType, CancelType,
     RequeueType, ReadWorstType, StoreWorstType, CrashType DEF OfCheck
<1>5. ASSUME NEW r \in Requests, NEW c \in Checks, Ask(r, c) PROVE TypeOK'
  BY <1>5, AskType
<1>6. QED
  BY <1>1, <1>2, <1>3, <1>4, <1>5, ToggleType, PassType DEF Next

\* The verdicts, claims and counts of checks and the batches of instances keep
\* their types: a batch never grows beyond its size.
THEOREM TriageTypes == Spec => []TypeOK
BY InitType, NextType, PTL DEF Spec

-----------------------------------------------------------------------------
(* The lease invariant.  Every check that an instance works on, or is going   *)
(* to, has a place: 0 for the one at hand, k for the k-th of the rest of its  *)
(* batch.  While its lease protects it the check is in one place only, and its *)
(* claim has not run out.                                                     *)

Busy(w) == pc[w] \in {"classify", "accept", "write", "requeue"}

At(i, k, c) ==
  \/ k = 0 /\ Busy(i) /\ job[i].check = c
  \/ k \in 1 .. Len(batch[i]) /\ batch[i][k] = c

\* How the step of a worker and its locals fit together.
Fits(w) ==
  /\ w \in Instances =>
       /\ pc[w] \notin {"cancel", "done"}
       /\ pc[w] = "idle" => batch[w] = <<>>
       /\ pc[w] # "classify" => elapsed[w] = 0
  /\ Busy(w) \/ pc[w] = "cancel" => job[w].check \in Checks
  /\ pc[w] \in {"accept", "write"} => job[w].verdict # "none"
  /\ w \in Requests /\ Busy(w) => job[w].check \notin Protected

Shape == \A w \in Worker : Fits(w)

Once ==
  \A i, j \in Instances, k, l \in 0 .. Batch, c \in Protected :
    At(i, k, c) /\ At(j, l, c) => i = j /\ k = l

Covered ==
  \A i \in Instances, k \in 0 .. Batch, c \in Protected : At(i, k, c) =>
    \/ status[c] = "gone"
    \/ triage[c].verdict = "none" /\ triage[c].claim <= TTL

LeaseInv == Shape /\ Once /\ Covered

\* Places are what Holds is about.
LEMMA HoldsAt ==
  ASSUME TypeOK, NEW i \in Instances, NEW c
  PROVE  c \in Holds(i) <=> \E k \in 0 .. Batch : At(i, k, c)
<1>1. Len(batch[i]) \in Nat /\ Len(batch[i]) <= Batch
  BY LenProperties DEF TypeOK
<1>2. 0 \in 0 .. Batch /\ 1 .. Len(batch[i]) \subseteq 0 .. Batch
  BY <1>1, Numbers
<1>3. c \in Holds(i) <=> \/ \E k \in 1 .. Len(batch[i]) : batch[i][k] = c
                         \/ Busy(i) /\ job[i].check = c
  BY DEF Holds, Busy
<1>4. QED
  BY <1>2, <1>3 DEF At

-----------------------------------------------------------------------------
(* What a step does to places *)

\* No place is added.
Shrinks == \A i \in Instances, k \in 0 .. Batch, c \in Checks : At(i, k, c)' => At(i, k, c)

\* Nothing but its removal happens to a check.
Undisturbed(c) ==
  /\ status[c] = "gone" => status'[c] = "gone"
  /\ \/ status'[c] = "gone"
     \/ triage'[c].verdict = triage[c].verdict /\ triage'[c].claim = triage[c].claim

LEMMA ShrinkStep ==
  ASSUME TypeOK, TypeOK', Once, Covered, Shrinks, Protected' \subseteq Protected,
         \A i \in Instances, k \in 0 .. Batch, c \in Protected' :
           At(i, k, c)' => Undisturbed(c)
  PROVE  Once' /\ Covered'
<1>1. Protected \subseteq Checks /\ Protected' \subseteq Checks
  BY DEF Protected
<1>2. Once'
  BY <1>1 DEF Once, Shrinks
<1>3. ASSUME NEW i \in Instances, NEW k \in 0 .. Batch, NEW c \in Protected', At(i, k, c)'
      PROVE  \/ status'[c] = "gone"
             \/ triage'[c].verdict = "none" /\ triage'[c].claim <= TTL
  <2>1. At(i, k, c) /\ c \in Protected
    BY <1>1, <1>3 DEF Shrinks
  <2>2. Undisturbed(c)
    BY <1>3
  <2>3. QED
    BY <2>1, <2>2 DEF Covered, Undisturbed
<1>4. QED
  BY <1>2, <1>3 DEF Covered

\* The locals of the other workers stay.
OnlyBy(w) ==
  /\ \A x \in Worker \ {w} : pc'[x] = pc[x] /\ job'[x] = job[x]
  /\ \A i \in Instances \ {w} : batch'[i] = batch[i] /\ elapsed'[i] = elapsed[i]

LEMMA WorkerShrinks ==
  ASSUME NEW w \in Worker, OnlyBy(w),
         w \in Instances =>
           /\ batch'[w] \in {batch[w], <<>>}
           /\ Busy(w)' => Busy(w) /\ job'[w].check = job[w].check
  PROVE  Shrinks
<1> SUFFICES ASSUME NEW i \in Instances, NEW k \in 0 .. Batch, NEW c \in Checks, At(i, k, c)'
             PROVE  At(i, k, c)
  BY DEF Shrinks
<1>1. CASE i # w
  <2>1. pc'[i] = pc[i] /\ job'[i] = job[i] /\ batch'[i] = batch[i]
    BY <1>1 DEF OnlyBy, Worker
  <2>2. QED
    BY <2>1 DEF At, Busy
<1>2. CASE i = w
  <2>1. Len(<<>>) = 0
    BY EmptySeq
  <2>2. QED
    BY <1>2, <2>1 DEF At
<1>3. QED
  BY <1>1, <1>2

LEMMA LocalShrinks ==
  ASSUME UNCHANGED local
  PROVE  Shrinks
BY DEF Shrinks, At, Busy, local

LEMMA ShapeStep ==
  ASSUME Shape, NEW w \in Worker, OnlyBy(w), Fits(w)', Protected' \subseteq Protected
  PROVE  Shape'
<1> SUFFICES ASSUME NEW x \in Worker, x # w PROVE Fits(x)'
  BY DEF Shape
<1>1. pc'[x] = pc[x] /\ job'[x] = job[x]
      /\ (x \in Instances => batch'[x] = batch[x] /\ elapsed'[x] = elapsed[x])
  BY DEF OnlyBy
<1>2. Fits(x)
  BY DEF Shape
<1>3. QED
  BY <1>1, <1>2 DEF Fits, Busy

LEMMA ShapeStays ==
  ASSUME Shape, UNCHANGED local, Protected' \subseteq Protected
  PROVE  Shape'
BY DEF Shape, Fits, Busy, local

\* A step on the documents that keeps their verdicts and claims.
LEMMA DocumentStep ==
  ASSUME TypeOK, TypeOK', LeaseInv, UNCHANGED local, Protected' \subseteq Protected,
         \A c \in Protected' : Undisturbed(c)
  PROVE  LeaseInv'
<1>1. Shrinks
  BY LocalShrinks
<1>2. Shape'
  BY ShapeStays DEF LeaseInv
<1>3. QED
  BY <1>1, <1>2, ShrinkStep DEF LeaseInv

-----------------------------------------------------------------------------
(* The lease invariant, step by step *)

\* A check that is no longer protected stays so.
LEMMA AskedStays ==
  ASSUME TypeOK, overdue' = overdue, NEW c,
         \/ asked' = asked
         \/ asked' = [asked EXCEPT ![c] = "cancel"]
         \/ asked' = [asked EXCEPT ![c] = "again"]
  PROVE  Protected' \subseteq Protected
BY DEF Protected, TypeOK

LEMMA InsertLease ==
  ASSUME TypeOK, TypeOK', LeaseInv, NEW c \in Checks, Insert(c)
  PROVE  LeaseInv'
<1>1. UNCHANGED local /\ asked' = asked /\ overdue' = overdue
  BY DEF Insert, history
<1>2. \A d \in Protected' : Undisturbed(d)
  BY DEF Insert, Undisturbed, Protected, TypeOK
<1>3. QED
  BY <1>1, <1>2, AskedStays, DocumentStep

LEMMA MarkPendingLease ==
  ASSUME TypeOK, TypeOK', LeaseInv, NEW c \in Checks, MarkPending(c)
  PROVE  LeaseInv'
<1>1. UNCHANGED local /\ asked' = asked /\ overdue' = overdue /\ status' = status
  BY DEF MarkPending, history
<1>2. triage \in [Checks -> Triaged]
      /\ (triage' = triage \/ triage' = [triage EXCEPT ![c].pending = TRUE])
  BY DEF MarkPending, TypeOK
<1>3. \A d \in Checks : triage'[d].verdict = triage[d].verdict /\ triage'[d].claim = triage[d].claim
  BY <1>2 DEF Triaged
<1>4. \A d \in Protected' : Undisturbed(d)
  BY <1>1, <1>3 DEF Undisturbed, Protected
<1>5. QED
  BY <1>1, <1>4, AskedStays, DocumentStep

LEMMA CommitLease ==
  ASSUME TypeOK, TypeOK', LeaseInv, NEW c \in Checks, Commit(c)
  PROVE  LeaseInv'
<1>1. UNCHANGED local /\ asked' = asked /\ overdue' = overdue
  BY DEF Commit, history
<1>2. \A d \in Protected' : Undisturbed(d)
  BY DEF Commit, Undisturbed, Protected, TypeOK
<1>3. QED
  BY <1>1, <1>2, AskedStays, DocumentStep

LEMMA ReviewLease ==
  ASSUME TypeOK, TypeOK', LeaseInv, NEW c \in Checks, Review(c)
  PROVE  LeaseInv'
<1>1. UNCHANGED local /\ asked' = asked /\ overdue' = overdue
  BY DEF Review
<1>2. \A d \in Protected' : Undisturbed(d)
  BY DEF Review, Exists, Undisturbed, Protected, TypeOK
<1>3. QED
  BY <1>1, <1>2, AskedStays, DocumentStep

LEMMA RecompareLease ==
  ASSUME TypeOK, TypeOK', LeaseInv, NEW c \in Checks, Recompare(c)
  PROVE  LeaseInv'
<1>1. UNCHANGED local /\ overdue' = overdue /\ asked' = [asked EXCEPT ![c] = "again"]
  BY DEF Recompare
<1>2. \A d \in Protected' : Undisturbed(d)
  BY DEF Recompare, Exists, Undisturbed, Protected, TypeOK
<1>3. QED
  BY <1>1, <1>2, AskedStays, DocumentStep

LEMMA ToggleLease ==
  ASSUME TypeOK, TypeOK', LeaseInv, Toggle
  PROVE  LeaseInv'
<1>1. UNCHANGED local /\ asked' = asked /\ overdue' = overdue /\ status' = status /\ triage' = triage
  BY DEF Toggle, history
<1>2. \A d \in Protected' : Undisturbed(d)
  BY <1>1 DEF Undisturbed
<1>3. QED
  BY <1>1, <1>2, AskedStays, DocumentStep

\* A step of a worker that takes nothing on and disturbs no check it leaves.
LEMMA WorkerStep ==
  ASSUME TypeOK, TypeOK', LeaseInv, NEW w \in Worker, OnlyBy(w),
         w \in Instances =>
           /\ batch'[w] \in {batch[w], <<>>}
           /\ Busy(w)' => Busy(w) /\ job'[w].check = job[w].check,
         Fits(w)', Protected' \subseteq Protected,
         \A i \in Instances, k \in 0 .. Batch, c \in Protected' :
           At(i, k, c)' => Undisturbed(c)
  PROVE  LeaseInv'
<1>1. Shrinks
  BY WorkerShrinks
<1>2. Shape'
  BY ShapeStep DEF LeaseInv
<1>3. QED
  BY <1>1, <1>2, ShrinkStep DEF LeaseInv

\* The same when no verdict and no claim changes.
LEMMA QuietStep ==
  ASSUME TypeOK, TypeOK', LeaseInv, NEW w \in Worker, OnlyBy(w),
         w \in Instances =>
           /\ batch'[w] \in {batch[w], <<>>}
           /\ Busy(w)' => Busy(w) /\ job'[w].check = job[w].check,
         Fits(w)', asked' = asked, overdue' = overdue, triage' = triage,
         \A c \in Checks : status[c] = "gone" => status'[c] = "gone"
  PROVE  LeaseInv'
<1>1. Protected' \subseteq Protected
  BY DEF Protected
<1>2. \A c \in Protected' : Undisturbed(c)
  BY DEF Undisturbed, Protected
<1>3. QED
  BY <1>1, <1>2, WorkerStep

\* Where an instance fits, its classification is over and its step not idle,
\* it fits whatever its next step is, if that one needs nothing of its job.
LEMMA OnlyPc ==
  ASSUME TypeOK, NEW w \in Worker, NEW s \in Step, Goto(w, s), UNCHANGED <<job, batch, elapsed>>
  PROVE  /\ OnlyBy(w) /\ pc'[w] = s /\ job'[w] = job[w]
         /\ w \in Instances => batch'[w] = batch[w] /\ elapsed'[w] = elapsed[w]
BY DEF OnlyBy, Goto, TypeOK

LEMMA TickLease ==
  ASSUME TypeOK, TypeOK', LeaseInv, NEW i \in Instances, Tick(i)
  PROVE  LeaseInv'
<1>1. i \in Worker /\ i \notin Requests
  BY TriageAssumption DEF Worker
<1>2. OnlyBy(i) /\ pc'[i] = "claim" /\ batch'[i] = batch[i] /\ elapsed'[i] = elapsed[i]
  BY <1>1, OnlyPc DEF Tick, Step
<1>3. Fits(i)'
  BY <1>1, <1>2 DEF LeaseInv, Shape, Fits, Busy, Tick
<1>4. asked' = asked /\ overdue' = overdue /\ triage' = triage /\ status' = status
  BY DEF Tick, docs, history
<1>5. QED
  BY <1>1, <1>2, <1>3, <1>4, QuietStep DEF Busy

LEMMA EndClaimLease ==
  ASSUME TypeOK, TypeOK', LeaseInv, NEW i \in Instances, EndClaim(i)
  PROVE  LeaseInv'
<1>1. i \in Worker /\ i \notin Requests
  BY TriageAssumption DEF Worker
<1>2. OnlyBy(i) /\ pc'[i] = "next" /\ batch'[i] = batch[i] /\ elapsed'[i] = elapsed[i]
  BY <1>1, OnlyPc DEF EndClaim, Step
<1>3. Fits(i)'
  BY <1>1, <1>2 DEF LeaseInv, Shape, Fits, Busy, EndClaim
<1>4. asked' = asked /\ overdue' = overdue /\ triage' = triage /\ status' = status
  BY DEF EndClaim, docs, history
<1>5. QED
  BY <1>1, <1>2, <1>3, <1>4, QuietStep DEF Busy

LEMMA EndTickLease ==
  ASSUME TypeOK, TypeOK', LeaseInv, NEW i \in Instances, EndTick(i)
  PROVE  LeaseInv'
<1>1. i \in Worker /\ i \notin Requests
  BY TriageAssumption DEF Worker
<1>2. OnlyBy(i) /\ pc'[i] = "idle" /\ batch'[i] = batch[i] /\ elapsed'[i] = elapsed[i]
  BY <1>1, OnlyPc DEF EndTick, Step
<1>3. Fits(i)'
  BY <1>1, <1>2 DEF LeaseInv, Shape, Fits, Busy, EndTick
<1>4. asked' = asked /\ overdue' = overdue /\ triage' = triage /\ status' = status
  BY DEF EndTick, docs, history
<1>5. QED
  BY <1>1, <1>2, <1>3, <1>4, QuietStep DEF Busy

\* An answer ends the time of a classification.
LEMMA AnsweredElapsed ==
  ASSUME TypeOK, NEW w \in Worker, Answered(w)
  PROVE  /\ \A i \in Instances \ {w} : elapsed'[i] = elapsed[i]
         /\ w \in Instances => elapsed'[w] = 0
BY DEF Answered, TypeOK

LEMMA ClassifyLease ==
  ASSUME TypeOK, TypeOK', LeaseInv, NEW w \in Worker, Classify(w)
  PROVE  LeaseInv'
<1>1. OnlyBy(w) /\ (w \in Instances => batch'[w] = batch[w] /\ elapsed'[w] = 0)
  BY ClassifyJob, AnsweredElapsed DEF OnlyBy, Classify
<1>2. /\ pc'[w] \in {"accept", "write"} /\ pc[w] = "classify"
      /\ job'[w].check = job[w].check /\ job'[w].verdict # "none"
  BY ClassifyJob, TriageAssumption DEF Classify, Answered, Shown, Reserved
<1>3. asked' = asked /\ overdue' = overdue /\ triage' = triage /\ status' = status
  BY DEF Classify, docs, history
<1>4. Fits(w)'
  BY <1>1, <1>2, <1>3 DEF LeaseInv, Shape, Fits, Busy, Protected
<1>5. QED
  BY <1>1, <1>2, <1>3, <1>4, QuietStep DEF Busy

LEMMA ProviderFailsLease ==
  ASSUME TypeOK, TypeOK', LeaseInv, NEW w \in Worker, ProviderFails(w)
  PROVE  LeaseInv'
<1>1. OnlyBy(w) /\ (w \in Instances => batch'[w] = batch[w] /\ elapsed'[w] = 0)
  BY ProviderFailsJob, AnsweredElapsed DEF OnlyBy, ProviderFails
<1>2. /\ pc'[w] \in {"requeue", "write"} /\ pc[w] = "classify"
      /\ job'[w].check = job[w].check
      /\ pc'[w] = "write" => job'[w].verdict # "none"
  <2>1. Fallback # "none"
    BY TriageAssumption
  <2>2. pc[w] = "classify"
    BY DEF ProviderFails, Answered
  <2>3. QED
    BY <2>1, <2>2, ProviderFailsJob
<1>3. asked' = asked /\ overdue' = overdue /\ triage' = triage /\ status' = status
  BY DEF ProviderFails, docs
<1>4. Fits(w)'
  BY <1>1, <1>2, <1>3 DEF LeaseInv, Shape, Fits, Busy, Protected
<1>5. QED
  BY <1>1, <1>2, <1>3, <1>4, QuietStep DEF Busy

LEMMA AcceptLease ==
  ASSUME TypeOK, TypeOK', LeaseInv, NEW w \in Worker, Accept(w)
  PROVE  LeaseInv'
<1>1. /\ OnlyBy(w) /\ pc'[w] = "write" /\ job'[w] = job[w]
      /\ w \in Instances => batch'[w] = batch[w] /\ elapsed'[w] = elapsed[w]
  BY OnlyPc DEF Accept, Step
<1>2. asked' = asked /\ overdue' = overdue /\ triage' = triage /\ pc[w] = "accept"
  BY DEF Accept
<1>3. Fits(w)'
  BY <1>1, <1>2 DEF LeaseInv, Shape, Fits, Busy, Protected
<1>4. \A c \in Checks : status[c] = "gone" => status'[c] = "gone"
  BY DEF Accept, Exists, TypeOK
<1>5. QED
  BY <1>1, <1>2, <1>3, <1>4, QuietStep DEF Busy

\* A worker about to overwrite a protected check is an instance,
\* and after that no place is left for the check.
LEMMA Freed ==
  ASSUME TypeOK, TypeOK', LeaseInv, NEW w \in Worker, Busy(w), OnlyBy(w), ~Busy(w)',
         Protected' \subseteq Protected, NEW c \in Protected', job[w].check = c,
         w \in Instances => batch'[w] \in {batch[w], <<>>}
  PROVE  \A i \in Instances, k \in 0 .. Batch : ~At(i, k, c)'
<1>1. w \in Instances /\ c \in Checks
  BY DEF LeaseInv, Shape, Fits, Worker, Protected
<1>2. 0 \in 0 .. Batch /\ At(w, 0, c)
  BY Numbers DEF At
<1>3. pc'[w] # "classify"
  BY DEF Busy
<1>4. Shrinks
  BY <1>1, <1>3, WorkerShrinks
<1>5. ASSUME NEW i \in Instances, NEW k \in 0 .. Batch, At(i, k, c)'
      PROVE  FALSE
  <2>1. At(i, k, c)
    BY <1>1, <1>4, <1>5 DEF Shrinks
  <2>2. i = w /\ k = 0
    BY <1>1, <1>2, <2>1 DEF LeaseInv, Once
  <2>3. QED
    BY <1>5, <2>2 DEF At
<1>6. QED
  BY <1>5

LEMMA OverwriteLease ==
  ASSUME TypeOK, TypeOK', LeaseInv, NEW w \in Worker, NEW t, Overwrite(w, t),
         \/ pc[w] \in {"write", "requeue"} /\ asked' = asked
         \/ pc[w] = "cancel" /\ asked' = [asked EXCEPT ![job[w].check] = "cancel"]
  PROVE  LeaseInv'
<1> PICK c \in Checks : job[w].check = c
  BY DEF LeaseInv, Shape, Fits, Busy
<1>1. /\ OnlyBy(w) /\ pc'[w] = "worst" /\ job'[w] = job[w]
      /\ w \in Instances => batch'[w] = batch[w] /\ elapsed'[w] = elapsed[w]
  BY OnlyPc DEF Overwrite, Step
<1>2. ~Busy(w)' /\ pc[w] # "classify" /\ Protected' \subseteq Protected
  <2>1. overdue' = overdue
    BY DEF Overwrite
  <2>2. QED
    BY <1>1, <2>1, AskedStays DEF Busy
<1>3. Fits(w)'
  BY <1>1, <1>2 DEF LeaseInv, Shape, Fits, Busy
<1>4. \A i \in Instances, k \in 0 .. Batch : c \in Protected' => ~At(i, k, c)'
  <2>1. CASE pc[w] = "cancel"
    BY <2>1 DEF Protected, TypeOK
  <2>2. CASE Busy(w)
    BY <1>1, <1>2, <2>2, Freed
  <2>3. QED
    BY <2>1, <2>2 DEF Busy
<1>5. status' = status /\ \A d \in Checks \ {c} : triage'[d] = triage[d]
  BY DEF Overwrite, TypeOK
<1>6. \A i \in Instances, k \in 0 .. Batch, d \in Protected' : At(i, k, d)' => Undisturbed(d)
  BY <1>4, <1>5 DEF Undisturbed, Protected
<1>7. QED
  BY <1>1, <1>2, <1>3, <1>6, WorkerStep

LEMMA MissingLease ==
  ASSUME TypeOK, TypeOK', LeaseInv, NEW w \in Worker, Missing(w), pc[w] \in {"write", "cancel"}
  PROVE  LeaseInv'
<1>1. /\ OnlyBy(w) /\ pc'[w] = "worst" /\ job'[w] = job[w]
      /\ w \in Instances => batch'[w] = batch[w] /\ elapsed'[w] = elapsed[w]
  BY OnlyPc DEF Missing, Step
<1>2. Fits(w)'
  BY <1>1 DEF LeaseInv, Shape, Fits, Busy
<1>3. asked' = asked /\ overdue' = overdue /\ triage' = triage /\ status' = status
  BY DEF Missing, docs, history
<1>4. QED
  BY <1>1, <1>2, <1>3, QuietStep DEF Busy

LEMMA WriteVerdictLease ==
  ASSUME TypeOK, TypeOK', LeaseInv, NEW w \in Worker, WriteVerdict(w)
  PROVE  LeaseInv'
BY OverwriteLease, MissingLease DEF WriteVerdict

LEMMA CancelLease ==
  ASSUME TypeOK, TypeOK', LeaseInv, NEW w \in Worker, Cancel(w)
  PROVE  LeaseInv'
BY OverwriteLease, MissingLease DEF Cancel

\* What a worker that gives up leaves behind.
LEMMA DroppedStep ==
  ASSUME TypeOK, TypeOK', LeaseInv, NEW w \in Worker, job' = [job EXCEPT ![w] = NoJob],
         Goto(w, IF w \in Instances THEN "idle" ELSE "done"),
         batch' = (IF w \in Instances THEN [batch EXCEPT ![w] = <<>>] ELSE batch),
         elapsed' = (IF w \in Instances THEN [elapsed EXCEPT ![w] = 0] ELSE elapsed),
         UNCHANGED <<docs, asked, overdue>>
  PROVE  LeaseInv'
<1>1. /\ OnlyBy(w) /\ pc'[w] \in {"idle", "done"}
      /\ w \in Instances => pc'[w] = "idle" /\ batch'[w] = <<>> /\ elapsed'[w] = 0
  BY DEF OnlyBy, Goto, TypeOK
<1>2. Fits(w)'
  BY <1>1 DEF Fits, Busy
<1>3. asked' = asked /\ overdue' = overdue /\ triage' = triage /\ status' = status
  BY DEF docs
<1>4. QED
  BY <1>1, <1>2, <1>3, QuietStep DEF Busy

LEMMA CrashLease ==
  ASSUME TypeOK, TypeOK', LeaseInv, NEW w \in Worker, Crash(w)
  PROVE  LeaseInv'
BY DroppedStep DEF Crash

LEMMA RequeueLease ==
  ASSUME TypeOK, TypeOK', LeaseInv, NEW w \in Worker, Requeue(w)
  PROVE  LeaseInv'
<1>1. CASE Exists(job[w].check)
  BY <1>1, OverwriteLease DEF Requeue
<1>2. CASE ~Exists(job[w].check)
  <2>1. w \in Instances => elapsed[w] = 0
    BY DEF Requeue, LeaseInv, Shape, Fits
  <2>2. elapsed' = IF w \in Instances THEN [elapsed EXCEPT ![w] = 0] ELSE elapsed
    BY <1>2, <2>1 DEF Requeue, TypeOK
  <2>3. QED
    BY <1>2, <2>2, DroppedStep DEF Requeue, history
<1>3. QED
  BY <1>1, <1>2

LEMMA ReadWorstLease ==
  ASSUME TypeOK, TypeOK', LeaseInv, NEW w \in Worker, ReadWorst(w)
  PROVE  LeaseInv'
<1>1. /\ OnlyBy(w) /\ pc'[w] = "store" /\ pc[w] = "worst"
      /\ w \in Instances => batch'[w] = batch[w] /\ elapsed'[w] = elapsed[w]
  BY DEF ReadWorst, OnlyBy, Goto, TypeOK
<1>2. Fits(w)'
  BY <1>1 DEF LeaseInv, Shape, Fits, Busy
<1>3. asked' = asked /\ overdue' = overdue /\ triage' = triage /\ status' = status
  BY DEF ReadWorst, docs, history
<1>4. QED
  BY <1>1, <1>2, <1>3, QuietStep DEF Busy

LEMMA StoreWorstLease ==
  ASSUME TypeOK, TypeOK', LeaseInv, NEW w \in Worker, StoreWorst(w)
  PROVE  LeaseInv'
<1>1. /\ OnlyBy(w) /\ pc'[w] = Rest(w) /\ pc[w] = "store"
      /\ w \in Instances => batch'[w] = batch[w] /\ elapsed'[w] = elapsed[w]
  BY DEF StoreWorst, OnlyBy, Goto, TypeOK
<1>2. Fits(w)'
  BY <1>1 DEF LeaseInv, Shape, Fits, Busy, Rest
<1>3. asked' = asked /\ overdue' = overdue /\ triage' = triage /\ status' = status
  BY DEF StoreWorst, history
<1>4. QED
  BY <1>1, <1>2, <1>3, QuietStep DEF Busy, Rest

LEMMA AskLease ==
  ASSUME TypeOK, TypeOK', LeaseInv, NEW r \in Requests, NEW c \in Checks, Ask(r, c)
  PROVE  LeaseInv'
<1>1. r \in Worker /\ r \notin Instances
  BY TriageAssumption DEF Worker
<1>2. OnlyBy(r) /\ job'[r].check = c /\ pc'[r] \in {"cancel", "requeue", "classify"}
  <2>1. job'[r].check = c
    <3>1. job \in [Worker -> Job] /\ Reading(c).check = c
      BY ReadingType DEF TypeOK
    <3>2. \/ job' = [job EXCEPT ![r].check = c]
          \/ job' = [job EXCEPT ![r] = Reading(c)]
      BY DEF Ask
    <3>3. QED
      BY <1>1, <3>1, <3>2 DEF Job
  <2>2. OnlyBy(r)
    BY <1>1 DEF Ask, OnlyBy, Goto, TypeOK
  <2>3. QED
    BY <1>1, <2>1, <2>2 DEF Ask, Goto, TypeOK
<1>3. Protected' \subseteq Protected
  BY AskedStays DEF Ask
<1>4. Busy(r)' => c \notin Protected'
  BY <1>1 DEF Ask, Busy, Goto, Protected, TypeOK
<1>5. Fits(r)'
  BY <1>1, <1>2, <1>4 DEF Fits
<1>6. \A d \in Protected' : Undisturbed(d)
  BY DEF Ask, docs, Undisturbed
<1>7. QED
  BY <1>1, <1>2, <1>3, <1>5, <1>6, WorkerStep

\* Taking the next check of the batch moves every place one up.
LEMMA TakeNextLease ==
  ASSUME TypeOK, TypeOK', LeaseInv, NEW i \in Instances, TakeNext(i)
  PROVE  LeaseInv'
<1>1. i \in Worker /\ i \notin Requests
  BY TriageAssumption DEF Worker
<1> PICK h \in Checks : h = Head(batch[i])
  BY HeadTailProperties DEF TakeNext, TypeOK
<1>2. asked' = asked /\ overdue' = overdue /\ triage' = triage /\ status' = status /\ elapsed' = elapsed
  BY DEF TakeNext, docs, history
<1>3. elapsed[i] = 0 /\ pc[i] = "next"
  BY <1>1 DEF TakeNext, LeaseInv, Shape, Fits
<1>4. CASE ~Exists(h)
  <2>1. OnlyBy(i) /\ pc'[i] = "idle" /\ batch'[i] = <<>> /\ elapsed'[i] = elapsed[i]
    BY <1>1, <1>2, <1>4 DEF TakeNext, OnlyBy, Goto, TypeOK
  <2>2. Fits(i)'
    BY <1>1, <1>3, <2>1 DEF Fits, Busy
  <2>3. QED
    BY <1>1, <1>2, <2>1, <2>2, QuietStep DEF Busy
<1>5. CASE Exists(h)
  <2>1. /\ OnlyBy(i) /\ pc'[i] = "classify" /\ elapsed'[i] = 0
        /\ batch'[i] = Tail(batch[i]) /\ job'[i] = Reading(h)
    BY <1>1, <1>2, <1>3, <1>5 DEF TakeNext, OnlyBy, Goto, TypeOK
  <2>2. job'[i].check = h
    BY <2>1, ReadingType
  <2>3. /\ Len(batch[i]) \in Nat \ {0} /\ Len(batch[i]) <= Batch
        /\ batch[i][1] = h /\ Len(batch'[i]) = Len(batch[i]) - 1
        /\ \A k \in 1 .. Len(batch'[i]) : batch'[i][k] = batch[i][k + 1]
    BY <2>1, HeadTailProperties, LenProperties DEF TakeNext, TypeOK
  <2>4. ASSUME NEW k \in 0 .. Batch, NEW c \in Checks, At(i, k, c)'
        PROVE  k + 1 \in 0 .. Batch /\ At(i, k + 1, c)
    <3>1. k + 1 \in 1 .. Len(batch[i]) /\ batch[i][k + 1] = c
      BY <2>2, <2>3, <2>4 DEF At
    <3>2. QED
      BY <2>3, <3>1, Numbers DEF At
  <2>5. ASSUME NEW j \in Instances \ {i}, NEW k \in 0 .. Batch, NEW c \in Checks, At(j, k, c)'
        PROVE  At(j, k, c)
    <3>1. j \in Worker
      BY DEF Worker
    <3>2. pc'[j] = pc[j] /\ job'[j] = job[j] /\ batch'[j] = batch[j] /\ elapsed'[j] = elapsed[j]
      BY <2>1, <3>1 DEF OnlyBy
    <3>3. QED
      BY <2>5, <3>2 DEF At, Busy
  <2>6. Protected' = Protected /\ Protected \subseteq Checks
    BY <1>2 DEF Protected
  <2>7. Shape'
    <3>1. Fits(i)'
      BY <1>1, <2>1, <2>2 DEF Fits, Busy
    <3>2. QED
      BY <1>1, <2>1, <2>6, <3>1, ShapeStep DEF LeaseInv
  <2>8. Once'
    <3> SUFFICES ASSUME NEW j \in Instances, NEW m \in Instances, NEW k \in 0 .. Batch,
                        NEW l \in 0 .. Batch, NEW c \in Protected, At(j, k, c)', At(m, l, c)'
                 PROVE  j = m /\ k = l
      BY <2>6 DEF Once
    <3>1. \A b \in Instances, n \in 0 .. Batch :
            At(b, n, c)' => IF b = i THEN n + 1 \in 0 .. Batch /\ At(i, n + 1, c)
                                     ELSE At(b, n, c)
      BY <2>4, <2>5, <2>6
    <3>2. QED
      BY <3>1 DEF LeaseInv, Once
  <2>9. Covered'
    <3> SUFFICES ASSUME NEW j \in Instances, NEW k \in 0 .. Batch, NEW c \in Protected,
                        At(j, k, c)'
                 PROVE  \/ status[c] = "gone"
                        \/ triage[c].verdict = "none" /\ triage[c].claim <= TTL
      BY <1>2, <2>6 DEF Covered
    <3>1. CASE j = i
      BY <2>4, <2>6, <3>1 DEF LeaseInv, Covered
    <3>2. CASE j # i
      BY <2>5, <2>6, <3>2 DEF LeaseInv, Covered
    <3>3. QED
      BY <3>1, <3>2
  <2>10. QED
    BY <2>7, <2>8, <2>9 DEF LeaseInv
<1>6. QED
  BY <1>4, <1>5

\* A claimable check has no place, and its new place is covered by the lease.
LEMMA ClaimLease ==
  ASSUME TypeOK, TypeOK', LeaseInv,
         NEW i \in Instances, NEW c \in Checks, Claim(i, c)
  PROVE  LeaseInv'
<1>1. i \in Worker /\ i \notin Requests
  BY TriageAssumption DEF Worker
<1>2. asked' = asked /\ overdue' = overdue /\ status' = status /\ pc' = pc /\ job' = job /\ elapsed' = elapsed
  BY DEF Claim, history
<1>3. Protected' = Protected /\ Protected \subseteq Checks
  BY <1>2 DEF Protected
<1>4. \A j \in Instances, k \in 0 .. Batch : c \in Protected => ~At(j, k, c)
  <2> SUFFICES ASSUME NEW j \in Instances, NEW k \in 0 .. Batch, c \in Protected, At(j, k, c)
               PROVE  FALSE
    OBVIOUS
  <2>1. status[c] = "failed" /\ triage[c].claim \in {TTL + 1, TTL + 2}
    BY DEF Claim, Claimable, Stale, Unclaimed
  <2>2. triage[c].claim <= TTL
    BY <2>1 DEF LeaseInv, Covered
  <2>3. QED
    BY <2>1, <2>2, Numbers
<1> DEFINE n == Len(batch[i]) + 1
<1>5. /\ n \in 1 .. Batch /\ Len(batch'[i]) = n /\ batch'[i][n] = c
      /\ \A k \in 1 .. Len(batch[i]) : batch'[i][k] = batch[i][k]
      /\ \A j \in Instances \ {i} : batch'[j] = batch[j]
      /\ Len(batch[i]) \in Nat
  <2>1. batch[i] \in Seq(Checks) /\ Len(batch[i]) \in Nat /\ Len(batch[i]) < Batch
    BY LenProperties DEF TypeOK, Claim
  <2>2. batch'[i] = Append(batch[i], c) /\ \A j \in Instances \ {i} : batch'[j] = batch[j]
    BY DEF Claim, TypeOK
  <2>3. QED
    BY <2>1, <2>2, AppendProperties, Numbers
<1> HIDE DEF n
<1>6. \A j \in Instances, k \in 0 .. Batch, d \in Checks :
        At(j, k, d)' => At(j, k, d) \/ (j = i /\ k = n /\ d = c)
  <2> SUFFICES ASSUME NEW j \in Instances, NEW k \in 0 .. Batch, NEW d \in Checks,
                      At(j, k, d)', ~At(j, k, d)
               PROVE  j = i /\ k = n /\ d = c
    OBVIOUS
  <2>1. k \in 1 .. Len(batch'[j]) /\ batch'[j][k] = d
    BY <1>2 DEF At, Busy
  <2>2. j = i
    BY <1>5, <2>1 DEF At
  <2>3. k \notin 1 .. Len(batch[i])
    BY <1>5, <2>1, <2>2 DEF At
  <2>4. k = n
    BY <1>5, <2>1, <2>2, <2>3 DEF n
  <2>5. QED
    BY <1>5, <2>1, <2>2, <2>4
<1>8. /\ triage'[c].claim = 0 /\ triage'[c].verdict = triage[c].verdict
      /\ \A d \in Checks \ {c} : triage'[d] = triage[d]
  BY DEF Claim, TypeOK, Triaged
<1>9. pc[i] = "claim" /\ triage[c].verdict = "none"
  BY DEF Claim, Claimable
<1>10. Shape'
  <2>1. Fits(i)'
    BY <1>1, <1>2, <1>9 DEF LeaseInv, Shape, Fits, Busy
  <2>2. OnlyBy(i)
    BY <1>2, <1>5 DEF OnlyBy
  <2>3. QED
    BY <1>1, <1>3, <2>1, <2>2, ShapeStep DEF LeaseInv
<1>11. Once'
  BY <1>3, <1>4, <1>6 DEF LeaseInv, Once
<1>13. Covered'
  <2> SUFFICES ASSUME NEW j \in Instances, NEW k \in 0 .. Batch, NEW d \in Protected,
                      At(j, k, d)'
               PROVE  \/ status[d] = "gone"
                      \/ triage'[d].verdict = "none" /\ triage'[d].claim <= TTL
    BY <1>2, <1>3 DEF Covered
  <2>1. CASE d = c
    <3>1. j = i /\ k = n
      BY <1>3, <1>4, <1>6, <2>1
    <3>2. QED
      BY <1>8, <1>9, <2>1, <3>1, Numbers
  <2>2. CASE d # c
    <3>1. At(j, k, d) /\ triage'[d] = triage[d]
      BY <1>3, <1>6, <1>8, <2>2
    <3>2. QED
      BY <3>1 DEF LeaseInv, Covered
  <2>3. QED
    BY <2>1, <2>2
<1>14. QED
  BY <1>10, <1>11, <1>13 DEF LeaseInv

\* A claim that runs out under its holder no longer protects its check.
LEMMA PassLease ==
  ASSUME TypeOK, TypeOK', LeaseInv, Pass
  PROVE  LeaseInv'
<1>1. /\ asked' = asked /\ status' = status /\ pc' = pc /\ job' = job /\ batch' = batch
      /\ triage' = [c \in Checks |-> [triage[c] EXCEPT !.claim = Older(@)]]
      /\ overdue' = overdue \cup RunningOut
  BY DEF Pass
<1>2. Protected' \subseteq Protected \ RunningOut /\ Protected \subseteq Checks
  BY <1>1 DEF Protected
<1>3. \A i \in Instances, k \in 0 .. Batch, c \in Checks : At(i, k, c)' => At(i, k, c)
  BY <1>1 DEF At, Busy
<1>4. ASSUME NEW i \in Instances
      PROVE  elapsed'[i] = IF pc[i] = "classify" THEN elapsed[i] + 1 ELSE elapsed[i]
  BY DEF Pass
<1>5. Shape'
  <2> SUFFICES ASSUME NEW w \in Worker PROVE Fits(w)'
    BY DEF Shape
  <2>1. Fits(w)
    BY DEF LeaseInv, Shape
  <2>2. w \in Instances => (pc[w] # "classify" => elapsed'[w] = elapsed[w])
    BY <1>4
  <2>3. QED
    BY <1>1, <1>2, <2>1, <2>2 DEF Fits, Busy
<1>6. Once'
  BY <1>2, <1>3 DEF LeaseInv, Once
<1>7. Covered'
  <2> SUFFICES ASSUME NEW i \in Instances, NEW k \in 0 .. Batch, NEW c \in Protected',
                      At(i, k, c)', status[c] # "gone"
               PROVE  triage'[c].verdict = "none" /\ triage'[c].claim <= TTL
    BY <1>1 DEF Covered
  <2>1. At(i, k, c) /\ c \in Checks /\ c \in Protected /\ c \notin RunningOut
    BY <1>2, <1>3
  <2>2. triage[c].verdict = "none" /\ triage[c].claim <= TTL
    BY <2>1 DEF LeaseInv, Covered
  <2>3. triage[c].claim # TTL
    BY <2>1, HoldsAt DEF RunningOut
  <2>4. triage[c] \in Triaged /\ triage[c].claim \in Nat
    BY <2>1, Numbers DEF TypeOK, Triaged, Age, Unclaimed
  <2>5. triage'[c].verdict = triage[c].verdict /\ triage'[c].claim = Older(triage[c].claim)
    BY <1>1, <2>1, <2>4 DEF Triaged
  <2>6. Older(triage[c].claim) = triage[c].claim + 1
    BY <2>2, <2>4, Numbers DEF Older, Unclaimed
  <2>7. QED
    BY <2>2, <2>3, <2>4, <2>5, <2>6, Numbers
<1>8. QED
  BY <1>5, <1>6, <1>7 DEF LeaseInv

LEMMA InitLease == Init => LeaseInv
<1> SUFFICES ASSUME Init PROVE LeaseInv
  OBVIOUS
<1>1. \A i \in Instances, k \in 0 .. Batch, c \in Protected : ~At(i, k, c)
  <2>1. Len(<<>>) = 0
    BY EmptySeq
  <2>2. QED
    BY <2>1 DEF At, Busy, Init, Worker
<1>2. Shape
  BY DEF Shape, Fits, Busy, Init, Worker
<1>3. QED
  BY <1>1, <1>2 DEF LeaseInv, Once, Covered

LEMMA NextLease ==
  TypeOK /\ LeaseInv /\ [Next]_vars => TypeOK' /\ LeaseInv'
<1> SUFFICES ASSUME TypeOK, LeaseInv, [Next]_vars PROVE TypeOK' /\ LeaseInv'
  OBVIOUS
<1>1. TypeOK'
  BY NextType
<1>2. CASE UNCHANGED vars
  <2>1. UNCHANGED local /\ status' = status /\ triage' = triage /\ asked' = asked /\ overdue' = overdue
    BY <1>2 DEF vars, docs, history
  <2>2. \A c \in Protected' : Undisturbed(c)
    BY <2>1 DEF Undisturbed
  <2>3. QED
    BY <1>1, <2>1, <2>2, AskedStays, DocumentStep
<1>3. ASSUME NEW c \in Checks,
             Insert(c) \/ MarkPending(c) \/ Commit(c) \/ Review(c) \/ Recompare(c)
      PROVE  LeaseInv'
  BY <1>1, <1>3, InsertLease, MarkPendingLease, CommitLease, ReviewLease, RecompareLease
<1>4. ASSUME NEW i \in Instances, OfBatch(i) PROVE LeaseInv'
  BY <1>1, <1>4, TickLease, EndClaimLease, TakeNextLease, EndTickLease, ClaimLease DEF OfBatch
<1>5. ASSUME NEW w \in Worker, OfCheck(w) \/ Crash(w) PROVE LeaseInv'
  BY <1>1, <1>5, ClassifyLease, ProviderFailsLease, AcceptLease, WriteVerdictLease,
     CancelLease, RequeueLease, ReadWorstLease, StoreWorstLease, CrashLease DEF OfCheck
<1>6. ASSUME NEW r \in Requests, NEW c \in Checks, Ask(r, c) PROVE LeaseInv'
  BY <1>1, <1>6, AskLease
<1>7. LeaseInv'
  BY <1>1, <1>2, <1>3, <1>4, <1>5, <1>6, ToggleLease, PassLease DEF Next
<1>8. QED
  BY <1>1, <1>7

\* The invariant that the properties of triage follow from.
LEMMA LeaseKept ==
  Spec => [](TypeOK /\ LeaseInv)
<1>1. Init => TypeOK /\ LeaseInv
  BY InitType, InitLease
<1>2. TypeOK /\ LeaseInv /\ [Next]_vars => (TypeOK /\ LeaseInv)'
  BY NextLease
<1>3. QED
  BY <1>1, <1>2, PTL DEF Spec

LEMMA LeaseSafe == TypeOK /\ LeaseInv => LeaseExclusive
<1> SUFFICES ASSUME TypeOK, LeaseInv, NEW i \in Instances, NEW j \in Instances, i # j,
                    NEW c \in Holds(i) \cap Holds(j) \cap Protected
             PROVE  FALSE
  BY DEF LeaseExclusive
<1>1. PICK k \in 0 .. Batch : At(i, k, c)
  BY HoldsAt
<1>2. PICK l \in 0 .. Batch : At(j, l, c)
  BY HoldsAt
<1>3. QED
  BY <1>1, <1>2 DEF LeaseInv, Once

\* However long classifications take and leases last, and however many instances
\* poll, crash and take over what a crashed one had claimed: two instances work
\* on one check only if a user asked about it or its lease ran out under one.
THEOREM LeasesExclude ==
  Spec => []LeaseExclusive
<1>1. Spec => [](TypeOK /\ LeaseInv)
  BY LeaseKept
<1>2. TypeOK /\ LeaseInv => LeaseExclusive
  BY LeaseSafe
<1>3. QED
  BY <1>1, <1>2, PTL

-----------------------------------------------------------------------------
(* Verdicts *)

\* A step other than the writing of a verdict or a removal keeps verdicts.
KeepsVerdicts == \A c \in Checks : triage'[c].verdict = triage[c].verdict

\* A worker that writes to a protected check finds no verdict.
LEMMA WriterFindsNone ==
  ASSUME LeaseInv, NEW w \in Worker, Busy(w), Exists(job[w].check),
         job[w].check \in Protected
  PROVE  triage[job[w].check].verdict = "none"
<1>1. w \in Instances
  BY DEF LeaseInv, Shape, Fits, Worker
<1>2. 0 \in 0 .. Batch /\ At(w, 0, job[w].check)
  BY Numbers DEF At
<1>3. QED
  BY <1>1, <1>2 DEF LeaseInv, Covered, Exists

LEMMA VerdictStep ==
  ASSUME TypeOK, LeaseInv, [Next]_vars, NEW c \in Protected
  PROVE  \/ triage[c].verdict \in {"none", triage'[c].verdict}
         \/ asked'[c] # "nothing" \/ status'[c] = "gone"
<1>1. c \in Checks /\ triage \in [Checks -> Triaged]
  BY DEF Protected, TypeOK
<1>2. KeepsVerdicts => triage[c].verdict \in {"none", triage'[c].verdict}
  BY <1>1 DEF KeepsVerdicts
<1>3. triage' = triage => triage[c].verdict \in {"none", triage'[c].verdict}
  OBVIOUS
<1>4. ASSUME NEW d \in Checks, MarkPending(d) PROVE KeepsVerdicts
  <2>1. triage' = triage \/ triage' = [triage EXCEPT ![d].pending = TRUE]
    BY <1>4 DEF MarkPending
  <2>2. QED
    BY <1>1, <2>1 DEF KeepsVerdicts, Triaged
<1>5. ASSUME NEW i \in Instances, NEW d \in Checks, Claim(i, d) PROVE KeepsVerdicts
  BY <1>1, <1>5 DEF Claim, KeepsVerdicts, Triaged
<1>6. CASE Pass
  <2>1. \A d \in Checks : triage'[d] = [triage[d] EXCEPT !.claim = Older(@)]
    BY <1>6 DEF Pass
  <2>2. KeepsVerdicts
    BY <1>1, <2>1 DEF KeepsVerdicts, Triaged
  <2>3. QED
    BY <1>2, <2>2
<1>7. ASSUME NEW d \in Checks, Review(d)
      PROVE  triage'[c].verdict = triage[c].verdict \/ status'[c] = "gone"
  BY <1>1, <1>7 DEF Review, TypeOK
<1>8. ASSUME NEW w \in Worker, NEW t, Overwrite(w, t), Exists(job[w].check),
             \/ pc[w] \in {"write", "requeue"}
             \/ asked' = [asked EXCEPT ![job[w].check] = "cancel"]
      PROVE  triage[c].verdict \in {"none", triage'[c].verdict} \/ asked'[c] # "nothing"
  <2>1. CASE job[w].check # c
    BY <1>1, <1>8, <2>1 DEF Overwrite
  <2>2. CASE job[w].check = c /\ pc[w] \in {"write", "requeue"}
    BY <1>8, <2>2, WriterFindsNone DEF Busy
  <2>3. CASE job[w].check = c /\ asked' = [asked EXCEPT ![job[w].check] = "cancel"]
    BY <1>1, <2>3 DEF TypeOK
  <2>4. QED
    BY <1>8, <2>1, <2>2, <2>3
<1>9. ASSUME NEW d \in Checks,
             Insert(d) \/ MarkPending(d) \/ Commit(d) \/ Review(d) \/ Recompare(d)
      PROVE  \/ triage[c].verdict \in {"none", triage'[c].verdict}
             \/ status'[c] = "gone"
  BY <1>2, <1>3, <1>4, <1>7, <1>9 DEF Insert, Commit, Recompare
<1>10. ASSUME NEW i \in Instances, OfBatch(i)
       PROVE  triage[c].verdict \in {"none", triage'[c].verdict}
  BY <1>2, <1>3, <1>5, <1>10 DEF OfBatch, Tick, EndClaim, TakeNext, EndTick, docs
<1>11. ASSUME NEW w \in Worker, OfCheck(w) \/ Crash(w)
       PROVE  triage[c].verdict \in {"none", triage'[c].verdict} \/ asked'[c] # "nothing"
  <2>1. CASE WriteVerdict(w)
    BY <1>3, <1>8, <2>1 DEF WriteVerdict, Missing, docs
  <2>2. CASE Cancel(w)
    BY <1>3, <1>8, <2>2 DEF Cancel, Missing, docs
  <2>3. CASE Requeue(w)
    BY <1>3, <1>8, <2>3 DEF Requeue, docs
  <2>4. QED
    BY <1>3, <1>11, <2>1, <2>2, <2>3
    DEF OfCheck, Classify, ProviderFails, Accept, ReadWorst, StoreWorst, Crash, docs
<1>12. CASE UNCHANGED vars
  BY <1>3, <1>12 DEF vars, docs
<1>13. QED
  BY <1>3, <1>6, <1>9, <1>10, <1>11, <1>12 DEF Next, Ask, Toggle, docs

\* Whatever the length of leases and classifications, the background analysis
\* decides once: it replaces a verdict, also its own after a takeover, only for
\* a user, or after a lease ran out while its holder was still at work.
THEOREM VerdictsStay ==
  Spec => VerdictStays
<1>1. TypeOK /\ LeaseInv /\ [Next]_vars =>
        [\A c \in Protected : \/ triage[c].verdict \in {"none", triage'[c].verdict}
                              \/ asked'[c] # "nothing" \/ status'[c] = "gone"]_vars
  BY VerdictStep
<1>2. QED
  BY <1>1, LeaseKept, PTL DEF Spec, VerdictStays

-----------------------------------------------------------------------------
(* Effects: what is counted for a check in its document and in the locals of  *)
(* its worker agrees with what really happened, up to one failure per crash.  *)

\* The last failure of a check is not in its document yet.
Ending(c) == \E i \in Instances : pc[i] \in {"write", "requeue"} /\ job[i].check = c

\* Nobody has seen the check, so nobody works on it.
Unseen(c) == status[c] \in {"absent", "open"}

CheckFits(c) ==
  /\ accepts[c] <= 1
  /\ Unseen(c) \/ status[c] = "failed" => accepts[c] = 0
  /\ fails[c] <= MaxAttempts + crashes
  /\ triage[c].attempts <= fails[c]
  /\ status[c] # "gone" /\ triage[c].verdict = "none" =>
       /\ triage[c].attempts < MaxAttempts
       /\ fails[c] <= triage[c].attempts + crashes + 1
       /\ ~Ending(c) => fails[c] <= triage[c].attempts + crashes
  /\ triage[c].failed /\ toggles = 0 => fails[c] >= MaxAttempts

WorkFits(i, c) ==
  /\ Busy(i) => ~Unseen(c)
  /\ pc[i] = "classify" =>
       /\ job[i].attempts < MaxAttempts
       /\ job[i].attempts <= fails[c] /\ fails[c] <= job[i].attempts + crashes
       /\ toggles = 0 => job[i].app
  /\ pc[i] \in {"classify", "accept"} => accepts[c] = 0 /\ ~job[i].failed
  /\ pc[i] \in {"accept", "write", "requeue"} => job[i].attempts <= fails[c]
  /\ pc[i] = "requeue" => job[i].attempts < MaxAttempts /\ fails[c] <= job[i].attempts + crashes
  /\ pc[i] = "write" /\ job[i].failed /\ toggles = 0 => fails[c] >= MaxAttempts

BatchFits(i, c) == (\E k \in 1 .. Len(batch[i]) : batch[i][k] = c) => accepts[c] = 0

Switched == toggles = 0 => globalOn /\ appOn

EffectsInv ==
  /\ Switched
  /\ \A c \in Protected : CheckFits(c)
  /\ \A i \in Instances, c \in Protected : BatchFits(i, c) /\ (job[i].check = c => WorkFits(i, c))

\* Counts and bounds only grow.
Grows ==
  /\ crashes <= crashes' /\ (toggles' = 0 => toggles = 0)
  /\ Protected' \subseteq Protected
  /\ \A c \in Checks : Unseen(c)' => Unseen(c)

\* What did not happen to a check.
Uncounted(c) == fails'[c] = fails[c] /\ accepts'[c] = accepts[c]

LEMMA CountTypes ==
  ASSUME TypeOK, NEW c \in Protected
  PROVE  /\ c \in Checks /\ fails[c] \in Nat /\ accepts[c] \in Nat
         /\ crashes \in Nat /\ toggles \in Nat
         /\ triage[c] \in Triaged /\ triage[c].attempts \in Nat
BY DEF TypeOK, Protected, Triaged

LEMMA WorkStays ==
  ASSUME TypeOK, TypeOK', EffectsInv, Grows, NEW i \in Instances, NEW c \in Protected',
         pc'[i] = pc[i], job'[i] = job[i], Uncounted(c)
  PROVE  (job'[i].check = c => WorkFits(i, c)')
<1>1. c \in Protected
  BY DEF Grows
<1>2. job[i] \in Job /\ job[i].attempts \in Nat
  BY DEF TypeOK, Job, Worker
<1>3. /\ crashes \in Nat /\ crashes' \in Nat /\ fails[c] \in Nat
      /\ crashes <= crashes' /\ (toggles' = 0 => toggles = 0)
  BY <1>1, CountTypes DEF TypeOK, Grows
<1>4. job[i].check = c => WorkFits(i, c)
  BY <1>1 DEF EffectsInv
<1>5. QED
  BY <1>1, <1>2, <1>3, <1>4, CountTypes, Numbers DEF WorkFits, Uncounted, Busy, Grows

LEMMA BatchStays ==
  ASSUME EffectsInv, Grows, NEW i \in Instances, NEW c \in Protected',
         batch'[i] = batch[i] \/ batch'[i] = <<>>, Uncounted(c)
  PROVE  BatchFits(i, c)'
<1>1. Len(<<>>) = 0 /\ c \in Protected
  BY EmptySeq DEF Grows
<1>2. BatchFits(i, c)
  BY <1>1 DEF EffectsInv
<1>3. QED
  BY <1>1, <1>2 DEF BatchFits, Uncounted

LEMMA CheckStays ==
  ASSUME TypeOK, TypeOK', EffectsInv, Grows, NEW c \in Protected', Uncounted(c),
         triage'[c].attempts = triage[c].attempts, triage'[c].failed = triage[c].failed,
         triage'[c].verdict = triage[c].verdict,
         Unseen(c)' \/ status'[c] = "failed" => Unseen(c) \/ status[c] = "failed",
         status[c] = "gone" => status'[c] = "gone",
         \/ Ending(c) => Ending(c)'
         \/ crashes' > crashes \/ status'[c] = "gone"
  PROVE  CheckFits(c)'
<1>1. c \in Protected
  BY DEF Grows
<1>2. CheckFits(c)
  BY <1>1 DEF EffectsInv
<1>3. /\ crashes \in Nat /\ crashes' \in Nat /\ fails[c] \in Nat /\ accepts[c] \in Nat
      /\ triage[c].attempts \in Nat /\ crashes <= crashes' /\ (toggles' = 0 => toggles = 0)
  BY <1>1, CountTypes DEF TypeOK, Grows
<1>4. QED
  BY <1>2, <1>3, Numbers DEF CheckFits, Uncounted

\* What the other instances know stays right.
LEMMA OthersFit ==
  ASSUME TypeOK, TypeOK', LeaseInv, EffectsInv, Grows, NEW w \in Worker, OnlyBy(w),
         NEW i \in Instances \ {w}, NEW c \in Protected',
         Uncounted(c) \/ (w \in Instances /\ Busy(w) /\ job[w].check = c)
  PROVE  BatchFits(i, c)' /\ (job'[i].check = c => WorkFits(i, c)')
<1>1. pc'[i] = pc[i] /\ job'[i] = job[i] /\ batch'[i] = batch[i]
  BY DEF OnlyBy, Worker
<1>2. CASE Uncounted(c)
  BY <1>1, <1>2, WorkStays, BatchStays
<1>3. CASE w \in Instances /\ Busy(w) /\ job[w].check = c
  <2>1. c \in Protected /\ 0 \in 0 .. Batch /\ At(w, 0, c)
    BY <1>3, Numbers DEF Grows, At
  <2>2. \A k \in 0 .. Batch : ~At(i, k, c)
    BY <1>3, <2>1 DEF LeaseInv, Once
  <2>3. c \notin Holds(i)
    BY <2>2, HoldsAt
  <2>4. QED
    BY <1>1, <2>3 DEF Holds, BatchFits, WorkFits, Busy
<1>4. QED
  BY <1>2, <1>3

LEMMA EffectStep ==
  ASSUME TypeOK, TypeOK', LeaseInv, EffectsInv, Grows, NEW w \in Worker, OnlyBy(w), Switched',
         \A c \in Protected' :
           /\ CheckFits(c)'
           /\ Uncounted(c) \/ (w \in Instances /\ Busy(w) /\ job[w].check = c)
           /\ w \in Instances => BatchFits(w, c)' /\ (job'[w].check = c => WorkFits(w, c)')
  PROVE  EffectsInv'
<1>1. ASSUME NEW i \in Instances, NEW c \in Protected'
      PROVE  BatchFits(i, c)' /\ (job'[i].check = c => WorkFits(i, c)')
  <2>1. CASE i = w
    BY <2>1
  <2>2. CASE i # w
    BY <2>2, OthersFit
  <2>3. QED
    BY <2>1, <2>2
<1>2. QED
  BY <1>1 DEF EffectsInv

\* A step on the documents.
LEMMA EffectDocuments ==
  ASSUME TypeOK, TypeOK', EffectsInv, Grows, UNCHANGED <<pc, job, batch, fails, accepts>>, Switched',
         \A c \in Protected' : CheckFits(c)'
  PROVE  EffectsInv'
<1>1. ASSUME NEW i \in Instances, NEW c \in Protected'
      PROVE  BatchFits(i, c)' /\ (job'[i].check = c => WorkFits(i, c)')
  BY WorkStays, BatchStays DEF Uncounted
<1>2. QED
  BY <1>1 DEF EffectsInv

\* A worker goes on to a step that works on no check, and writes nothing: if
\* it leaves a failure uncounted, it crashes or the check is gone.
LEMMA EffectIdle ==
  ASSUME TypeOK, TypeOK', LeaseInv, EffectsInv, Grows, NEW w \in Worker, OnlyBy(w),
         w \in Instances => ~Busy(w)' /\ batch'[w] \in {batch[w], <<>>},
         UNCHANGED <<status, triage, fails, accepts, globalOn, appOn, toggles>>,
         w \in Instances /\ pc[w] \in {"write", "requeue"} =>
           crashes' > crashes \/ ~Exists(job[w].check)
  PROVE  EffectsInv'
<1>1. Switched'
  BY DEF EffectsInv, Switched
<1>2. ASSUME NEW c \in Protected'
      PROVE  CheckFits(c)'
  <2>1. \/ Ending(c) => Ending(c)'
        \/ w \in Instances /\ pc[w] \in {"write", "requeue"} /\ job[w].check = c
    BY DEF Ending, OnlyBy, Worker
  <2>2. w \in Instances /\ pc[w] \in {"write", "requeue"} /\ job[w].check = c =>
          crashes' > crashes \/ status'[c] = "gone"
    <3> HAVE w \in Instances /\ pc[w] \in {"write", "requeue"} /\ job[w].check = c
    <3>1. c \in Protected /\ c \in Checks
      BY DEF Grows, Protected
    <3>2. ~Unseen(c)
      BY <3>1 DEF EffectsInv, WorkFits, Busy
    <3>3. QED
      BY <3>1, <3>2 DEF Exists, Unseen, TypeOK
  <2>3. QED
    BY <2>1, <2>2, CheckStays DEF Unseen, Uncounted
<1>3. ASSUME NEW c \in Protected'
      PROVE  /\ Uncounted(c)
             /\ w \in Instances => BatchFits(w, c)' /\ (job'[w].check = c => WorkFits(w, c)')
  <2>1. Uncounted(c)
    BY DEF Uncounted
  <2>2. w \in Instances => BatchFits(w, c)'
    BY <2>1, BatchStays
  <2>3. w \in Instances => WorkFits(w, c)'
    BY DEF Busy, WorkFits
  <2>4. QED
    BY <2>1, <2>2, <2>3
<1>4. QED
  BY <1>1, <1>2, <1>3, EffectStep

\* One lemma per action.
LEMMA InsertEffect ==
  ASSUME TypeOK, TypeOK', EffectsInv, NEW c \in Checks, Insert(c)
  PROVE  EffectsInv'
<1>1. UNCHANGED <<local, bounds, history, triage, globalOn, appOn>>
  BY DEF Insert
<1>2. Grows /\ Switched'
  BY <1>1 DEF Grows, Unseen, Insert, bounds, history, TypeOK, Protected, EffectsInv, Switched
<1>3. ASSUME NEW d \in Protected' PROVE CheckFits(d)'
  <2>1. /\ Unseen(d)' \/ status'[d] = "failed" => Unseen(d) \/ status[d] = "failed"
        /\ status[d] = "gone" => status'[d] = "gone"
        /\ Ending(d) => Ending(d)'
    BY <1>1 DEF Insert, Unseen, Ending, local, Protected, TypeOK
  <2>2. QED
    BY <1>1, <1>2, <2>1, CheckStays DEF Uncounted, history
<1>4. QED
  BY <1>1, <1>2, <1>3, EffectDocuments DEF local, history

LEMMA CommitEffect ==
  ASSUME TypeOK, TypeOK', EffectsInv, NEW c \in Checks, Commit(c)
  PROVE  EffectsInv'
<1>1. UNCHANGED <<local, bounds, history, triage, globalOn, appOn>>
  BY DEF Commit
<1>2. Grows /\ Switched'
  BY <1>1 DEF Grows, Unseen, Commit, bounds, history, TypeOK, Protected, EffectsInv, Switched
<1>3. ASSUME NEW d \in Protected' PROVE CheckFits(d)'
  <2>1. /\ Unseen(d)' \/ status'[d] = "failed" => Unseen(d) \/ status[d] = "failed"
        /\ status[d] = "gone" => status'[d] = "gone"
        /\ Ending(d) => Ending(d)'
    BY <1>1 DEF Commit, Unseen, Ending, local, Protected, TypeOK
  <2>2. QED
    BY <1>1, <1>2, <2>1, CheckStays DEF Uncounted, history
<1>4. QED
  BY <1>1, <1>2, <1>3, EffectDocuments DEF local, history

LEMMA MarkPendingEffect ==
  ASSUME TypeOK, TypeOK', EffectsInv, NEW c \in Checks, MarkPending(c)
  PROVE  EffectsInv'
<1>1. UNCHANGED <<local, bounds, history, status, globalOn, appOn>>
  BY DEF MarkPending
<1>2. Grows /\ Switched'
  BY <1>1 DEF Grows, Unseen, bounds, history, TypeOK, Protected, EffectsInv, Switched
<1>3. triage \in [Checks -> Triaged]
      /\ (triage' = triage \/ triage' = [triage EXCEPT ![c].pending = TRUE])
  BY DEF MarkPending, TypeOK
<1>4. ASSUME NEW d \in Protected' PROVE CheckFits(d)'
  <2>1. /\ triage'[d].attempts = triage[d].attempts /\ triage'[d].failed = triage[d].failed
        /\ triage'[d].verdict = triage[d].verdict
    BY <1>3 DEF Protected, Triaged
  <2>2. Ending(d) => Ending(d)'
    BY <1>1 DEF Ending, local
  <2>3. QED
    BY <1>1, <1>2, <2>1, <2>2, CheckStays DEF Unseen, Uncounted, history
<1>5. QED
  BY <1>1, <1>2, <1>4, EffectDocuments DEF local, history

LEMMA ReviewEffect ==
  ASSUME TypeOK, TypeOK', EffectsInv, NEW c \in Checks, Review(c)
  PROVE  EffectsInv'
<1>1. UNCHANGED <<local, crashes, toggles, asked, overdue, fails, accepts, globalOn, appOn>>
  BY DEF Review
<1>2. PICK s \in {"passed", "gone"} :
        /\ status' = [status EXCEPT ![c] = s]
        /\ triage' = IF s = "gone" THEN [triage EXCEPT ![c] = NoTriage] ELSE triage
  BY DEF Review
<1>3. Exists(c)
  BY DEF Review
<1>4. Grows /\ Switched'
  BY <1>1, <1>2 DEF Grows, Unseen, TypeOK, Protected, EffectsInv, Switched
<1>5. ASSUME NEW d \in Protected' PROVE CheckFits(d)'
  <2>1. d \in Checks /\ d \in Protected /\ Uncounted(d)
    BY <1>1, <1>4 DEF Protected, Grows, Uncounted
  <2>2. CASE d = c /\ s = "gone"
    <3>1. status'[d] = "gone" /\ triage'[d] = NoTriage
      BY <1>2, <2>1, <2>2 DEF TypeOK
    <3>2. NoTriage.attempts = 0 /\ ~NoTriage.failed
      BY DEF NoTriage
    <3>3. CheckFits(d)
      BY <2>1 DEF EffectsInv
    <3>4. QED
      BY <1>1, <2>1, <3>1, <3>2, <3>3, CountTypes, Numbers DEF CheckFits, Unseen, Uncounted
  <2>3. CASE d # c \/ s = "passed"
    <3>1. triage'[d] = triage[d] /\ status'[d] \in {status[d], "passed"}
      BY <1>2, <2>1, <2>3 DEF TypeOK
    <3>2. status[d] = "gone" => status'[d] = "gone"
      BY <1>2, <1>3, <2>1, <2>3 DEF Exists, TypeOK
    <3>3. Ending(d) => Ending(d)'
      BY <1>1 DEF Ending, local
    <3>4. QED
      BY <1>1, <1>4, <2>1, <3>1, <3>2, <3>3, CheckStays DEF Unseen
  <2>4. QED
    BY <2>2, <2>3
<1>6. QED
  BY <1>1, <1>4, <1>5, EffectDocuments DEF local

LEMMA RecompareEffect ==
  ASSUME TypeOK, TypeOK', EffectsInv, NEW c \in Checks, Recompare(c)
  PROVE  EffectsInv'
<1>1. UNCHANGED <<local, crashes, toggles, overdue, fails, accepts, triage, globalOn, appOn>>
  BY DEF Recompare
<1>2. Grows /\ Switched'
  BY <1>1 DEF Grows, Unseen, Recompare, Exists, TypeOK, Protected, EffectsInv, Switched
<1>3. ASSUME NEW d \in Protected' PROVE CheckFits(d)'
  <2>1. d # c /\ status'[d] = status[d]
    BY DEF Protected, Recompare, TypeOK
  <2>2. Ending(d) => Ending(d)'
    BY <1>1 DEF Ending, local
  <2>3. QED
    BY <1>1, <1>2, <2>1, <2>2, CheckStays DEF Uncounted, Unseen
<1>4. QED
  BY <1>1, <1>2, <1>3, EffectDocuments DEF local

LEMMA ToggleEffect ==
  ASSUME TypeOK, TypeOK', EffectsInv, Toggle
  PROVE  EffectsInv'
<1>1. UNCHANGED <<local, history, status, triage, crashes>> /\ toggles' # 0
  BY DEF Toggle, TypeOK
<1>2. Grows /\ Switched'
  BY <1>1 DEF Grows, Unseen, history, TypeOK, Protected, Switched
<1>3. ASSUME NEW d \in Protected' PROVE CheckFits(d)'
  <2>1. Ending(d) => Ending(d)'
    BY <1>1 DEF Ending, local
  <2>2. QED
    BY <1>1, <1>2, <2>1, CheckStays DEF Uncounted, Unseen, history
<1>4. QED
  BY <1>1, <1>2, <1>3, EffectDocuments DEF local, history

LEMMA PassEffect ==
  ASSUME TypeOK, TypeOK', EffectsInv, Pass
  PROVE  EffectsInv'
<1>1. /\ UNCHANGED <<pc, job, batch, bounds, asked, fails, accepts, status, globalOn, appOn>>
      /\ overdue' = overdue \cup RunningOut
  BY DEF Pass
<1>2. Grows /\ Switched'
  BY <1>1 DEF Grows, Unseen, bounds, TypeOK, Protected, EffectsInv, Switched
<1>3. ASSUME NEW d \in Protected' PROVE CheckFits(d)'
  <2>1. d \in Checks /\ triage'[d] = [triage[d] EXCEPT !.claim = Older(@)] /\ triage[d] \in Triaged
    BY DEF Protected, Pass, TypeOK
  <2>2. /\ triage'[d].attempts = triage[d].attempts /\ triage'[d].failed = triage[d].failed
        /\ triage'[d].verdict = triage[d].verdict
    BY <2>1 DEF Triaged
  <2>3. Ending(d) => Ending(d)'
    BY <1>1 DEF Ending
  <2>4. QED
    BY <1>1, <1>2, <2>2, <2>3, CheckStays DEF Uncounted, Unseen
<1>4. QED
  BY <1>1, <1>2, <1>3, EffectDocuments

\* What most steps of workers leave alone.
LEMMA GrowsSame ==
  ASSUME TypeOK, UNCHANGED <<status, crashes, toggles, asked, overdue>>
  PROVE  Grows
BY DEF Grows, Unseen, TypeOK, Protected

LEMMA BatchStepsEffect ==
  ASSUME TypeOK, TypeOK', LeaseInv, EffectsInv, NEW i \in Instances,
         Tick(i) \/ EndClaim(i) \/ EndTick(i)
  PROVE  EffectsInv'
<1>1. i \in Worker
  BY DEF Worker
<1>2. /\ UNCHANGED <<docs, bounds, history, job, batch, elapsed>>
      /\ pc[i] \in {"idle", "claim", "next"}
      /\ Goto(i, "claim") \/ Goto(i, "next") \/ Goto(i, "idle")
  BY DEF Tick, EndClaim, EndTick
<1>3. OnlyBy(i) /\ pc'[i] \in {"claim", "next", "idle"}
  BY <1>1, <1>2 DEF OnlyBy, Goto, TypeOK
<1>4. Grows
  BY <1>2, GrowsSame DEF docs, bounds, history
<1>5. QED
  BY <1>1, <1>2, <1>3, <1>4, EffectIdle DEF docs, bounds, history, Busy

LEMMA WorstEffect ==
  ASSUME TypeOK, TypeOK', LeaseInv, EffectsInv, NEW w \in Worker, ReadWorst(w) \/ StoreWorst(w)
  PROVE  EffectsInv'
<1>1. /\ UNCHANGED <<status, triage, globalOn, appOn, bounds, history, batch, elapsed>>
      /\ pc[w] \in {"worst", "store"}
  BY DEF ReadWorst, StoreWorst, docs
<1>2. OnlyBy(w) /\ pc'[w] \in {"store", "next", "done"}
  BY <1>1 DEF OnlyBy, Goto, TypeOK, ReadWorst, StoreWorst, Rest
<1>3. Grows
  BY <1>1, GrowsSame DEF bounds, history
<1>4. QED
  BY <1>1, <1>2, <1>3, EffectIdle DEF bounds, history, Busy

LEMMA AskEffect ==
  ASSUME TypeOK, TypeOK', LeaseInv, EffectsInv, NEW r \in Requests, NEW c \in Checks, Ask(r, c)
  PROVE  EffectsInv'
<1>1. r \in Worker /\ r \notin Instances
  BY TriageAssumption DEF Worker
<1>2. UNCHANGED <<docs, bounds, batch, elapsed, fails, accepts>>
  BY DEF Ask
<1>3. OnlyBy(r)
  BY <1>1, <1>2 DEF OnlyBy, Goto, TypeOK, Ask
<1>4. Protected' \subseteq Protected
  BY AskedStays DEF Ask
<1>5. Grows
  BY <1>2, <1>4 DEF Grows, Unseen, docs, bounds, TypeOK
<1>6. QED
  BY <1>1, <1>2, <1>3, <1>5, EffectIdle DEF docs, bounds

LEMMA MissingEffect ==
  ASSUME TypeOK, TypeOK', LeaseInv, EffectsInv, NEW w \in Worker, Missing(w)
  PROVE  EffectsInv'
<1>1. UNCHANGED <<docs, bounds, history, job, batch, elapsed>> /\ ~Exists(job[w].check)
  BY DEF Missing
<1>2. OnlyBy(w) /\ pc'[w] = "worst"
  BY <1>1, OnlyPc DEF Missing, Step
<1>3. Grows
  BY <1>1, GrowsSame DEF docs, bounds, history
<1>4. QED
  BY <1>1, <1>2, <1>3, EffectIdle DEF docs, bounds, history, Busy

\* A crash forgets at most the failure it interrupts.
LEMMA CrashEffect ==
  ASSUME TypeOK, TypeOK', LeaseInv, EffectsInv, NEW w \in Worker, Crash(w)
  PROVE  EffectsInv'
<1>1. /\ UNCHANGED <<docs, toggles, asked, overdue, fails, accepts>>
      /\ crashes' = crashes + 1 /\ crashes \in Nat
  BY DEF Crash, TypeOK
<1>2. /\ OnlyBy(w) /\ pc'[w] \in {"idle", "done"}
      /\ w \in Instances => batch'[w] = <<>>
  BY DEF OnlyBy, Goto, TypeOK, Crash
<1>3. Grows
  BY <1>1 DEF Grows, Unseen, docs, Protected
<1>4. QED
  BY <1>1, <1>2, <1>3, EffectIdle DEF docs, Busy

LEMMA ClaimEffect ==
  ASSUME TypeOK, TypeOK', LeaseInv, EffectsInv, NEW i \in Instances, NEW c \in Checks, Claim(i, c)
  PROVE  EffectsInv'
<1>1. i \in Worker
  BY DEF Worker
<1>2. UNCHANGED <<status, globalOn, appOn, pc, job, elapsed, bounds, history>>
  BY DEF Claim
<1>3. Grows /\ Switched'
  BY <1>2, GrowsSame DEF bounds, history, EffectsInv, Switched
<1>4. /\ batch[i] \in Seq(Checks) /\ batch'[i] = Append(batch[i], c)
      /\ \A j \in Instances \ {i} : batch'[j] = batch[j]
  BY DEF Claim, TypeOK
<1>5. OnlyBy(i) /\ pc[i] = "claim"
  BY <1>2, <1>4 DEF OnlyBy, Claim
<1>6. ASSUME NEW d \in Protected'
      PROVE  CheckFits(d)' /\ Uncounted(d) /\ BatchFits(i, d)' /\ WorkFits(i, d)'
  <2>1. d \in Checks /\ d \in Protected /\ Uncounted(d)
    BY <1>2, <1>3 DEF Protected, Grows, Uncounted, history
  <2>2. CheckFits(d)'
    <3>1. /\ triage'[d].attempts = triage[d].attempts /\ triage'[d].failed = triage[d].failed
          /\ triage'[d].verdict = triage[d].verdict
      BY <2>1 DEF Claim, TypeOK, Triaged
    <3>2. Ending(d) => Ending(d)'
      BY <1>2 DEF Ending
    <3>3. QED
      BY <1>2, <1>3, <2>1, <3>1, <3>2, CheckStays DEF Unseen
  <2>3. BatchFits(i, d)'
    <3>1. ASSUME NEW k \in 1 .. Len(batch'[i]), batch'[i][k] = d
          PROVE  d = c \/ \E l \in 1 .. Len(batch[i]) : batch[i][l] = d
      BY <1>4, <3>1, AppendProperties, LenProperties
    <3>2. d = c => accepts[d] = 0
      BY <2>1 DEF Claim, Claimable, EffectsInv, CheckFits
    <3>3. BatchFits(i, d)
      BY <2>1 DEF EffectsInv
    <3>4. QED
      BY <2>1, <3>1, <3>2, <3>3 DEF BatchFits, Uncounted
  <2>4. WorkFits(i, d)'
    BY <1>2, <1>5 DEF WorkFits, Busy
  <2>5. QED
    BY <2>1, <2>2, <2>3, <2>4
<1>7. QED
  BY <1>1, <1>3, <1>5, <1>6, EffectStep

LEMMA TakeNextEffect ==
  ASSUME TypeOK, TypeOK', LeaseInv, EffectsInv, NEW i \in Instances, TakeNext(i)
  PROVE  EffectsInv'
<1>1. i \in Worker
  BY DEF Worker
<1>2. UNCHANGED <<docs, elapsed, bounds, history>> /\ pc[i] = "next"
  BY DEF TakeNext
<1>3. Grows /\ Switched'
  BY <1>2, GrowsSame DEF docs, bounds, history, EffectsInv, Switched
<1> PICK h \in Checks : h = Head(batch[i])
  BY HeadTailProperties DEF TakeNext, TypeOK
<1>4. CASE ~Exists(h)
  <2>1. OnlyBy(i) /\ pc'[i] = "idle" /\ batch'[i] = <<>>
    BY <1>1, <1>2, <1>4 DEF TakeNext, OnlyBy, Goto, TypeOK
  <2>2. QED
    BY <1>1, <1>2, <1>3, <2>1, EffectIdle DEF docs, bounds, history, Busy
<1>5. CASE Exists(h)
  <2>1. /\ OnlyBy(i) /\ pc'[i] = "classify"
        /\ batch'[i] = Tail(batch[i]) /\ job'[i] = Reading(h)
    BY <1>1, <1>2, <1>5 DEF TakeNext, OnlyBy, Goto, TypeOK
  <2>2. /\ Len(batch[i]) \in Nat \ {0} /\ Len(batch[i]) <= Batch
        /\ batch[i][1] = h /\ Len(batch'[i]) = Len(batch[i]) - 1
        /\ \A k \in 1 .. Len(batch'[i]) : batch'[i][k] = batch[i][k + 1]
    BY <2>1, HeadTailProperties, LenProperties DEF TakeNext, TypeOK
  <2>3. At(i, 1, h) /\ 1 \in 0 .. Batch /\ 0 \in 0 .. Batch
    BY <2>2, Numbers DEF At
  <2>4. ASSUME NEW d \in Protected'
        PROVE  CheckFits(d)' /\ Uncounted(d) /\ BatchFits(i, d)'
    <3>1. d \in Checks /\ d \in Protected /\ Uncounted(d)
      BY <1>2, <1>3 DEF Protected, Grows, Uncounted, history
    <3>2. Ending(d) => Ending(d)'
      BY <1>1, <1>2, <2>1 DEF Ending, OnlyBy, Worker
    <3>3. CheckFits(d)'
      BY <1>2, <1>3, <3>1, <3>2, CheckStays DEF Unseen, docs
    <3>4. BatchFits(i, d)
      BY <3>1 DEF EffectsInv
    <3>5. BatchFits(i, d)'
      BY <2>2, <3>1, <3>4 DEF BatchFits, Uncounted
    <3>6. QED
      BY <3>1, <3>3, <3>5
  <2>5. ASSUME h \in Protected'
        PROVE  WorkFits(i, h)'
    <3>1. h \in Protected /\ Uncounted(h) /\ crashes' = crashes /\ toggles' = toggles
          /\ status' = status
      BY <1>2, <2>4, <2>5 DEF Protected, history, bounds, docs
    <3>2. ~Ending(h)
      <4> SUFFICES ASSUME NEW j \in Instances, pc[j] \in {"write", "requeue"}, job[j].check = h
                   PROVE  FALSE
        BY DEF Ending
      <4>1. At(j, 0, h)
        BY DEF At, Busy
      <4>2. QED
        BY <2>3, <3>1, <4>1 DEF LeaseInv, Once
    <3>3. triage[h].verdict = "none"
      BY <1>5, <2>3, <3>1 DEF LeaseInv, Covered, Exists
    <3>4. /\ triage[h].attempts < MaxAttempts /\ triage[h].attempts <= fails[h]
          /\ fails[h] <= triage[h].attempts + crashes
      BY <1>5, <3>1, <3>2, <3>3 DEF EffectsInv, CheckFits, Exists
    <3>5. accepts[h] = 0
      BY <2>2, <3>1 DEF EffectsInv, BatchFits
    <3>6. toggles = 0 => appOn
      BY DEF EffectsInv, Switched
    <3>7. QED
      BY <1>5, <2>1, <3>1, <3>4, <3>5, <3>6, ReadingType DEF WorkFits, Unseen, Uncounted, Exists
  <2>6. job'[i].check = h
    BY <2>1, ReadingType
  <2>7. QED
    BY <1>1, <1>3, <2>1, <2>4, <2>5, <2>6, EffectStep
<1>6. QED
  BY <1>4, <1>5

LEMMA ClassifyEffect ==
  ASSUME TypeOK, TypeOK', LeaseInv, EffectsInv, NEW w \in Worker, Classify(w)
  PROVE  EffectsInv'
<1>1. UNCHANGED <<docs, batch, bounds, history>> /\ pc[w] = "classify"
  BY DEF Classify, Answered
<1>2. OnlyBy(w)
  BY ClassifyJob, AnsweredElapsed DEF OnlyBy, Classify
<1>3. Grows /\ Switched'
  BY <1>1, GrowsSame DEF docs, bounds, history, EffectsInv, Switched
<1>4. /\ pc'[w] \in {"accept", "write"} /\ job'[w].check = job[w].check
      /\ job'[w].attempts = 0 /\ job'[w].failed = job[w].failed
  BY ClassifyJob
<1>5. ASSUME NEW c \in Protected'
      PROVE  /\ CheckFits(c)' /\ Uncounted(c)
             /\ w \in Instances => BatchFits(w, c)' /\ (job'[w].check = c => WorkFits(w, c)')
  <2>1. c \in Checks /\ c \in Protected /\ Uncounted(c)
    BY <1>1, <1>3 DEF Protected, Grows, Uncounted, history
  <2>2. Ending(c) => Ending(c)'
    BY <1>1, <1>2 DEF Ending, OnlyBy, Worker
  <2>3. CheckFits(c)'
    BY <1>1, <1>3, <2>1, <2>2, CheckStays DEF Unseen, docs
  <2>4. w \in Instances => BatchFits(w, c)'
    BY <1>1, <1>3, <2>1, BatchStays
  <2>5. w \in Instances /\ job'[w].check = c => WorkFits(w, c)'
    <3> HAVE w \in Instances /\ job'[w].check = c
    <3>1. WorkFits(w, c)
      BY <1>4, <2>1 DEF EffectsInv
    <3>2. fails[c] \in Nat
      BY <2>1, CountTypes
    <3>3. QED
      BY <1>1, <1>4, <2>1, <3>1, <3>2 DEF WorkFits, Unseen, Uncounted, docs, Busy
  <2>6. QED
    BY <2>1, <2>3, <2>4, <2>5
<1>6. QED
  BY <1>2, <1>3, <1>5, EffectStep

\* A request is about a check that its user has asked about.
LEMMA ProtectedByRequests ==
  ASSUME LeaseInv, NEW w \in Worker, Busy(w), job[w].check \in Protected
  PROVE  /\ w \in Instances /\ 0 \in 0 .. Batch
         /\ At(w, 0, job[w].check)
BY Numbers DEF LeaseInv, Shape, Fits, Worker, At

\* A protected check at hand is in no other place.
LEMMA AtHandOnly ==
  ASSUME TypeOK, LeaseInv, NEW w \in Worker, Busy(w), NEW c \in Protected, job[w].check = c
  PROVE  /\ \A i \in Instances \ {w} : ~(Busy(i) /\ job[i].check = c)
         /\ \A i \in Instances : \A k \in 1 .. Len(batch[i]) : batch[i][k] # c
<1>1. w \in Instances /\ 0 \in 0 .. Batch /\ At(w, 0, c)
  BY ProtectedByRequests
<1>2. ASSUME NEW i \in Instances \ {w}, Busy(i) /\ job[i].check = c PROVE FALSE
  <2>1. At(i, 0, c)
    BY <1>2 DEF At
  <2>2. QED
    BY <1>1, <2>1 DEF LeaseInv, Once
<1>3. ASSUME NEW i \in Instances, NEW k \in 1 .. Len(batch[i]), batch[i][k] = c PROVE FALSE
  <2>1. At(i, k, c)
    BY <1>3 DEF At
  <2>2. k \in 0 .. Batch /\ k # 0
    BY LenProperties, Numbers DEF TypeOK
  <2>3. QED
    BY <1>1, <2>1, <2>2 DEF LeaseInv, Once
<1>4. QED
  BY <1>2, <1>3

LEMMA ProviderFailsEffect ==
  ASSUME TypeOK, TypeOK', LeaseInv, EffectsInv, NEW w \in Worker, ProviderFails(w)
  PROVE  EffectsInv'
<1>1. UNCHANGED <<docs, batch, bounds, asked, overdue, accepts>> /\ pc[w] = "classify" /\ Busy(w)
  BY DEF ProviderFails, Answered, Busy
<1>2. OnlyBy(w)
  BY ProviderFailsJob, AnsweredElapsed DEF OnlyBy, ProviderFails
<1>3. Grows /\ Switched'
  BY <1>1, GrowsSame DEF docs, bounds, EffectsInv, Switched
<1>4. /\ job'[w].check = job[w].check /\ job'[w].attempts = job[w].attempts + 1
      /\ \/ pc'[w] = "requeue" /\ job[w].attempts + 1 < MaxAttempts
         \/ /\ pc'[w] = "write"
            /\ job[w].attempts + 1 < MaxAttempts => ~globalOn \/ ~job[w].app
  BY ProviderFailsJob
<1>5. \A c \in Checks : fails'[c] = IF c = job[w].check /\ job[w].check \in Protected
                                     THEN fails[c] + 1 ELSE fails[c]
  <2>1. fails' = Count(fails, job[w].check) /\ fails \in [Checks -> Nat]
    BY DEF ProviderFails, TypeOK
  <2>2. QED
    BY <2>1, CountType
<1>6. ASSUME NEW c \in Protected', job[w].check # c
      PROVE  /\ CheckFits(c)' /\ Uncounted(c)
             /\ w \in Instances => BatchFits(w, c)'
  <2>1. c \in Checks /\ c \in Protected
    BY <1>3 DEF Protected, Grows
  <2>2. Uncounted(c)
    BY <1>1, <1>5, <1>6, <2>1 DEF Uncounted
  <2>3. Ending(c) => Ending(c)'
    BY <1>1, <1>2 DEF Ending, OnlyBy, Worker
  <2>4. CheckFits(c)'
    BY <1>1, <1>3, <2>2, <2>3, CheckStays DEF Unseen, docs
  <2>5. QED
    BY <1>1, <1>3, <2>2, <2>4, BatchStays
<1>7. ASSUME NEW c \in Protected', job[w].check = c
      PROVE  /\ w \in Instances
             /\ CheckFits(c)' /\ BatchFits(w, c)' /\ WorkFits(w, c)'
  <2>1. c \in Checks /\ c \in Protected /\ w \in Instances
    BY <1>1, <1>3, <1>7, ProtectedByRequests DEF Protected, Grows
  <2>2. /\ CheckFits(c) /\ WorkFits(w, c)
    BY <1>7, <2>1 DEF EffectsInv
  <2>3. fails'[c] = fails[c] + 1 /\ accepts' = accepts /\ crashes' = crashes /\ toggles' = toggles
        /\ status' = status /\ triage' = triage
    BY <1>1, <1>5, <1>7, <2>1 DEF docs, bounds
  <2>4. /\ fails[c] \in Nat /\ crashes \in Nat /\ triage[c].attempts \in Nat
        /\ job[w].attempts \in Nat
    BY <2>1, CountTypes DEF TypeOK, Job
  <2>5. ~Ending(c) /\ BatchFits(w, c)'
    BY <1>1, <1>7, <2>1, AtHandOnly DEF Ending, Busy, BatchFits
  <2>6. Ending(c)'
    BY <1>4, <1>7, <2>1 DEF Ending
  <2>7. CheckFits(c)'
    BY <1>1, <2>2, <2>3, <2>4, <2>5, <2>6, Numbers DEF CheckFits, WorkFits
  <2>8. WorkFits(w, c)'
    <3>1. toggles = 0 => globalOn /\ job[w].app
      BY <1>1, <2>2 DEF EffectsInv, Switched, WorkFits
    <3>2. pc'[w] = "write" /\ toggles = 0 => fails[c] + 1 >= MaxAttempts
      BY <1>1, <1>4, <2>2, <2>4, <3>1, Numbers DEF WorkFits
    <3>3. QED
      BY <1>1, <1>4, <2>2, <2>3, <2>4, <3>2, Numbers DEF WorkFits, Unseen, Busy
  <2>9. QED
    BY <2>1, <2>5, <2>7, <2>8
<1>8. QED
  BY <1>1, <1>2, <1>3, <1>4, <1>6, <1>7, EffectStep

\* An acceptance is the first one, and the check cannot be claimed after it.
LEMMA AcceptEffect ==
  ASSUME TypeOK, TypeOK', LeaseInv, EffectsInv, NEW w \in Worker, Accept(w)
  PROVE  EffectsInv'
<1>1. /\ UNCHANGED <<triage, globalOn, appOn, job, batch, elapsed, bounds, asked, overdue, fails>>
      /\ pc[w] = "accept" /\ Busy(w)
  BY DEF Accept, Busy
<1>2. OnlyBy(w) /\ pc'[w] = "write"
  BY <1>1, OnlyPc DEF Accept, Step
<1>3. \A c \in Checks : /\ status'[c] # "passed" => status'[c] = status[c]
                        /\ status[c] = "gone" => status'[c] = "gone"
  BY DEF Accept, Exists, TypeOK
<1>4. Grows /\ Switched'
  BY <1>1, <1>3 DEF bounds, EffectsInv, Switched, Grows, Unseen, Protected, TypeOK
<1>5. \A c \in Checks : Ending(c) => Ending(c)'
  BY <1>1, <1>2 DEF Ending, OnlyBy, Worker
<1>6. ASSUME NEW c \in Protected', job[w].check # c
      PROVE  /\ CheckFits(c)' /\ Uncounted(c)
             /\ w \in Instances => BatchFits(w, c)'
  <2>1. c \in Checks /\ c \in Protected
    BY <1>4 DEF Protected, Grows
  <2>2. Uncounted(c)
    <3>1. accepts \in [Checks -> Nat]
          /\ (accepts' = accepts \/ accepts' = Count(accepts, job[w].check))
      BY DEF Accept, TypeOK
    <3>2. accepts'[c] = accepts[c]
      BY <1>6, <2>1, <3>1, CountType
    <3>3. QED
      BY <1>1, <3>2 DEF Uncounted
  <2>3. CheckFits(c)'
    BY <1>1, <1>3, <1>4, <1>5, <2>1, <2>2, CheckStays DEF Unseen
  <2>4. QED
    BY <1>1, <1>4, <2>2, <2>3, BatchStays
<1>7. ASSUME NEW c \in Protected', job[w].check = c
      PROVE  /\ w \in Instances
             /\ CheckFits(c)' /\ BatchFits(w, c)' /\ WorkFits(w, c)'
  <2>1. c \in Checks /\ c \in Protected /\ w \in Instances
    BY <1>1, <1>4, <1>7, ProtectedByRequests DEF Protected, Grows
  <2>2. /\ CheckFits(c) /\ WorkFits(w, c)
    BY <1>7, <2>1 DEF EffectsInv
  <2>3. accepts[c] = 0 /\ ~job[w].failed /\ job[w].attempts <= fails[c] /\ ~Unseen(c)
    BY <1>1, <2>2 DEF WorkFits
  <2>4. \/ status'[c] = "passed" /\ accepts'[c] = 1 /\ status[c] # "gone"
        \/ status'[c] = status[c] /\ accepts'[c] = 0 /\ status[c] = "gone"
    <3>1. /\ status \in [Checks -> {"absent", "open", "failed", "passed", "gone"}]
          /\ Count(accepts, c)[c] = accepts[c] + 1
      BY <2>1, CountType DEF TypeOK
    <3>2. QED
      BY <1>7, <2>1, <2>3, <3>1 DEF Accept, Exists, Unseen
  <2>5. BatchFits(w, c)'
    BY <1>1, <1>7, <2>1, AtHandOnly DEF BatchFits
  <2>6. CheckFits(c)'
    BY <1>1, <1>5, <2>1, <2>2, <2>4 DEF CheckFits, Unseen, bounds
  <2>7. WorkFits(w, c)'
    BY <1>1, <1>2, <2>3, <2>4 DEF WorkFits, Unseen, Busy
  <2>8. QED
    BY <2>1, <2>5, <2>6, <2>7
<1>8. QED
  BY <1>1, <1>2, <1>4, <1>6, <1>7, EffectStep

\* What the subdocuments that are written say.
LEMMA WrittenFields ==
  ASSUME NEW v, NEW f, NEW n
  PROVE  /\ LET t == [NoTriage EXCEPT !.verdict = v, !.failed = f, !.attempts = n]
            IN  t.verdict = v /\ t.failed = f /\ t.attempts = n
         /\ LET t == [NoTriage EXCEPT !.pending = TRUE, !.attempts = n]
            IN  ~t.failed /\ t.attempts = n
BY DEF NoTriage

\* An overwrite settles what the worker knows about the check.
LEMMA OverwriteEffect ==
  ASSUME TypeOK, TypeOK', LeaseInv, EffectsInv, NEW w \in Worker, NEW t, Overwrite(w, t),
         Protected' \subseteq Protected, job[w].check \in Checks,
         \A c \in Protected' : job[w].check = c =>
           /\ w \in Instances /\ Busy(w) /\ t.attempts <= fails[c]
           /\ t.verdict = "none" => /\ t.attempts < MaxAttempts
                                    /\ fails[c] <= t.attempts + crashes
           /\ t.failed /\ toggles = 0 => fails[c] >= MaxAttempts
  PROVE  EffectsInv'
<1>1. UNCHANGED <<status, globalOn, appOn, job, batch, elapsed, bounds, overdue, fails, accepts>>
  BY DEF Overwrite
<1>2. OnlyBy(w) /\ pc'[w] = "worst"
  BY <1>1, OnlyPc DEF Overwrite, Step
<1>3. Grows /\ Switched'
  BY <1>1 DEF bounds, EffectsInv, Switched, Grows, Unseen, TypeOK
<1>4. ASSUME NEW c \in Protected'
      PROVE  /\ CheckFits(c)' /\ Uncounted(c)
             /\ w \in Instances => BatchFits(w, c)' /\ WorkFits(w, c)'
  <2>1. c \in Checks /\ c \in Protected /\ Uncounted(c)
    BY <1>1, <1>3 DEF Protected, Grows, Uncounted
  <2>2. CASE job[w].check = c
    <3>1. triage'[c] = t
      BY <2>1, <2>2 DEF Overwrite, TypeOK
    <3>2. ~Ending(c)' /\ CheckFits(c)
      <4>1. \A i \in Instances \ {w} : ~(Busy(i) /\ job[i].check = c)
        BY <2>1, <2>2, <1>4, AtHandOnly
      <4>2. QED
        BY <1>1, <1>2, <2>1, <4>1 DEF Ending, Busy, OnlyBy, Worker, EffectsInv
    <3>3. t.attempts \in Nat
      BY <2>1, <3>1 DEF TypeOK, Triaged
    <3>4. CheckFits(c)'
      BY <1>1, <1>4, <2>1, <2>2, <3>1, <3>2, <3>3, CountTypes, Numbers DEF CheckFits, Unseen, bounds
    <3>5. QED
      BY <1>1, <1>2, <1>3, <2>1, <3>4, BatchStays DEF WorkFits, Busy
  <2>3. CASE job[w].check # c
    <3>1. triage'[c] = triage[c]
      BY <2>1, <2>3 DEF Overwrite, TypeOK
    <3>2. Ending(c) => Ending(c)'
      BY <1>1, <1>2, <2>3 DEF Ending, OnlyBy, Worker
    <3>3. CheckFits(c)'
      BY <1>1, <1>3, <2>1, <3>1, <3>2, CheckStays DEF Unseen
    <3>4. QED
      BY <1>1, <1>2, <1>3, <2>1, <3>3, BatchStays DEF WorkFits, Busy
  <2>4. QED
    BY <2>2, <2>3
<1>5. QED
  BY <1>2, <1>3, <1>4, EffectStep

LEMMA WriteVerdictEffect ==
  ASSUME TypeOK, TypeOK', LeaseInv, EffectsInv, NEW w \in Worker, WriteVerdict(w)
  PROVE  EffectsInv'
<1> DEFINE t == [NoTriage EXCEPT !.verdict = job[w].verdict, !.failed = job[w].failed,
                                 !.attempts = job[w].attempts]
<1>1. CASE Overwrite(w, t) /\ UNCHANGED asked
  <2>1. /\ t.verdict = job[w].verdict /\ t.failed = job[w].failed
        /\ t.attempts = job[w].attempts
    BY WrittenFields
  <2>2. Protected' \subseteq Protected /\ pc[w] = "write" /\ Busy(w) /\ job[w].check \in Checks
        /\ job[w].verdict # "none"
    BY <1>1 DEF Overwrite, Protected, WriteVerdict, Busy, LeaseInv, Shape, Fits
  <2>3. ASSUME NEW c \in Protected', job[w].check = c
        PROVE  /\ w \in Instances /\ t.attempts <= fails[c]
               /\ t.failed /\ toggles = 0 => fails[c] >= MaxAttempts
    <3>1. w \in Instances /\ WorkFits(w, c)
      BY <2>2, <2>3, ProtectedByRequests DEF EffectsInv
    <3>2. QED
      BY <2>1, <2>2, <3>1 DEF WorkFits
  <2> HIDE DEF t
  <2>4. QED
    BY <1>1, <2>1, <2>2, <2>3, OverwriteEffect
<1>2. CASE Missing(w)
  BY <1>2, MissingEffect
<1>3. QED
  BY <1>1, <1>2 DEF WriteVerdict

LEMMA CancelEffect ==
  ASSUME TypeOK, TypeOK', LeaseInv, EffectsInv, NEW w \in Worker, Cancel(w)
  PROVE  EffectsInv'
<1> DEFINE t == [NoTriage EXCEPT !.verdict = "cancelled"]
<1>1. CASE Overwrite(w, t) /\ asked' = [asked EXCEPT ![job[w].check] = "cancel"]
  <2>1. Protected' \subseteq Protected /\ job[w].check \in Checks
    BY <1>1, AskedStays DEF Cancel, Overwrite, LeaseInv, Shape, Fits
  <2>2. job[w].check \notin Protected'
    BY <1>1, <2>1 DEF Protected, TypeOK
  <2> HIDE DEF t
  <2>3. QED
    BY <1>1, <2>1, <2>2, OverwriteEffect
<1>2. CASE Missing(w)
  BY <1>2, MissingEffect
<1>3. QED
  BY <1>1, <1>2 DEF Cancel

LEMMA RequeueEffect ==
  ASSUME TypeOK, TypeOK', LeaseInv, EffectsInv, NEW w \in Worker, Requeue(w)
  PROVE  EffectsInv'
<1> DEFINE t == [NoTriage EXCEPT !.pending = TRUE, !.attempts = job[w].attempts]
<1>1. CASE Overwrite(w, t) /\ UNCHANGED asked
  <2>1. ~t.failed /\ t.attempts = job[w].attempts
    BY WrittenFields
  <2>2. /\ Protected' \subseteq Protected /\ pc[w] = "requeue" /\ Busy(w)
        /\ job[w].check \in Checks
    BY <1>1 DEF Overwrite, Protected, Requeue, Busy, LeaseInv, Shape, Fits
  <2>3. ASSUME NEW c \in Protected', job[w].check = c
        PROVE  /\ w \in Instances /\ t.attempts <= fails[c]
               /\ t.attempts < MaxAttempts /\ fails[c] <= t.attempts + crashes
    <3>1. w \in Instances /\ WorkFits(w, c)
      BY <2>2, <2>3, ProtectedByRequests DEF EffectsInv
    <3>2. QED
      BY <2>1, <2>2, <3>1 DEF WorkFits
  <2> HIDE DEF t
  <2>4. QED
    BY <1>1, <2>1, <2>2, <2>3, OverwriteEffect
<1>2. CASE /\ ~Exists(job[w].check)
           /\ job' = [job EXCEPT ![w] = NoJob]
           /\ Goto(w, IF w \in Instances THEN "idle" ELSE "done")
           /\ batch' = IF w \in Instances THEN [batch EXCEPT ![w] = <<>>] ELSE batch
           /\ UNCHANGED <<docs, elapsed, bounds, history>>
  <2>1. /\ OnlyBy(w) /\ pc'[w] \in {"idle", "done"}
        /\ w \in Instances => batch'[w] = <<>>
    BY <1>2 DEF OnlyBy, Goto, TypeOK
  <2>2. Grows
    BY <1>2, GrowsSame DEF docs, bounds, history
  <2>3. QED
    BY <1>2, <2>1, <2>2, EffectIdle DEF docs, bounds, history, Busy
<1>3. QED
  BY <1>1, <1>2 DEF Requeue

LEMMA InitEffect == Init => EffectsInv
<1> SUFFICES ASSUME Init PROVE EffectsInv
  OBVIOUS
<1>1. Len(<<>>) = 0 /\ NoTriage.attempts = 0 /\ ~NoTriage.failed
  BY EmptySeq DEF NoTriage
<1>2. \A c \in Protected : CheckFits(c)
  BY <1>1, Numbers DEF CheckFits, Unseen, Init, Protected
<1>3. \A i \in Instances, c \in Protected : BatchFits(i, c) /\ WorkFits(i, c)
  BY <1>1 DEF BatchFits, WorkFits, Busy, Init, Worker
<1>4. QED
  BY <1>2, <1>3 DEF EffectsInv, Switched, Init

LEMMA NextEffect ==
  ASSUME TypeOK, TypeOK', LeaseInv, EffectsInv, [Next]_vars
  PROVE  EffectsInv'
<1>1. CASE UNCHANGED vars
  BY <1>1 DEF vars, docs, local, bounds, history, EffectsInv, Switched, CheckFits,
     WorkFits, BatchFits, Ending, Busy, Unseen, Protected
<1>2. ASSUME NEW c \in Checks,
             Insert(c) \/ MarkPending(c) \/ Commit(c) \/ Review(c) \/ Recompare(c)
      PROVE  EffectsInv'
  BY <1>2, InsertEffect, MarkPendingEffect, CommitEffect, ReviewEffect, RecompareEffect
<1>3. ASSUME NEW i \in Instances, OfBatch(i) PROVE EffectsInv'
  BY <1>3, BatchStepsEffect, TakeNextEffect, ClaimEffect DEF OfBatch
<1>4. ASSUME NEW w \in Worker, OfCheck(w) \/ Crash(w) PROVE EffectsInv'
  BY <1>4, ClassifyEffect, ProviderFailsEffect, AcceptEffect, WriteVerdictEffect,
     CancelEffect, RequeueEffect, WorstEffect, CrashEffect DEF OfCheck
<1>5. ASSUME NEW r \in Requests, NEW c \in Checks, Ask(r, c) PROVE EffectsInv'
  BY <1>5, AskEffect
<1>6. QED
  BY <1>1, <1>2, <1>3, <1>4, <1>5, ToggleEffect, PassEffect DEF Next

\* Whatever crashes, takeovers and lengths of leases: for a check, as long as
\* users left it alone and its lease did not run out under a holder, the provider
\* is asked at most MaxAttempts times and once more per crash, the check is given
\* up no earlier than that while triage stays on, and triage accepts it at most
\* once.
THEOREM EffectsStayBounded ==
  Spec => []EffectsBounded
<1>1. Init => EffectsInv
  BY InitEffect
<1>2. TypeOK /\ TypeOK' /\ LeaseInv /\ EffectsInv /\ [Next]_vars => EffectsInv'
  BY NextEffect
<1>3. EffectsInv => EffectsBounded
  BY DEF EffectsInv, EffectsBounded, BoundedAttempts, AcceptedOnce, CheckFits
<1>4. QED
  BY <1>1, <1>2, <1>3, LeaseKept, PTL DEF Spec

-----------------------------------------------------------------------------
(* The verdict of the test *)

\* What a refresh that reads now stores.
Fresh == IF Given = {} THEN {"none"} ELSE WorstGiven

\* Unless something escaped every refresh: what a worker is about to store is
\* fresh, and when none is on its way the stored verdict is.
FreshInv ==
  ~blurred =>
    /\ \A w \in Worker : pc[w] = "store" => job[w].verdict \in Fresh
    /\ Given # {} /\ (\A w \in Worker : pc[w] \notin {"worst", "store"}) => worst \in WorstGiven

LEMMA FreshSame ==
  ASSUME KeepsVerdicts
  PROVE  Given' = Given /\ WorstGiven' = WorstGiven /\ Fresh' = Fresh
<1>1. Given' = Given
  BY DEF KeepsVerdicts, Given
<1>2. WorstGiven' = WorstGiven
  BY <1>1 DEF WorstGiven, Rank
<1>3. QED
  BY <1>1, <1>2 DEF Fresh

\* A step that leaves verdicts, the refreshes on their way and the test alone.
LEMMA FreshStays ==
  ASSUME TypeOK, FreshInv, KeepsVerdicts, worst' = worst, blurred => blurred',
         \A w \in Worker : /\ pc[w] \in {"worst", "store"} => pc'[w] = pc[w]
                           /\ pc'[w] = "store" => pc[w] = "store" /\ job'[w] = job[w]
  PROVE  FreshInv'
<1>1. Given' = Given /\ WorstGiven' = WorstGiven /\ Fresh' = Fresh
  BY FreshSame
<1>2. QED
  BY <1>1 DEF FreshInv

\* A change that no refresh on its way has seen.
LEMMA FreshOverwrite ==
  ASSUME TypeOK, FreshInv, NEW w \in Worker, NEW t, Overwrite(w, t)
  PROVE  FreshInv'
<1> SUFFICES ASSUME ~blurred' PROVE FreshInv'
  BY DEF FreshInv
<1>1. \A x \in Worker \ {w} : pc[x] # "store"
  BY DEF Overwrite, Overtakes
<1>2. pc'[w] = "worst" /\ \A x \in Worker \ {w} : pc'[x] = pc[x]
  BY DEF Overwrite, Goto, TypeOK
<1>3. QED
  BY <1>1, <1>2 DEF FreshInv

LEMMA FreshRead ==
  ASSUME TypeOK, FreshInv, NEW w \in Worker, ReadWorst(w)
  PROVE  FreshInv'
<1>1. KeepsVerdicts /\ worst' = worst /\ blurred' = blurred
  BY DEF ReadWorst, KeepsVerdicts, docs, history
<1>2. Given' = Given /\ WorstGiven' = WorstGiven /\ Fresh' = Fresh
  BY <1>1, FreshSame
<1>3. PICK v \in Fresh : job' = [job EXCEPT ![w] = [NoJob EXCEPT !.verdict = v]]
  BY DEF ReadWorst, Fresh
<1>4. job'[w].verdict = v /\ \A x \in Worker \ {w} : job'[x] = job[x]
  BY <1>3 DEF TypeOK, NoJob
<1>5. pc'[w] = "store" /\ \A x \in Worker \ {w} : pc'[x] = pc[x]
  BY DEF ReadWorst, Goto, TypeOK
<1>6. QED
  BY <1>1, <1>2, <1>4, <1>5 DEF FreshInv

LEMMA FreshStore ==
  ASSUME TypeOK, FreshInv, NEW w \in Worker, StoreWorst(w)
  PROVE  FreshInv'
<1>1. KeepsVerdicts /\ blurred' = blurred /\ pc[w] = "store"
  BY DEF StoreWorst, KeepsVerdicts, history
<1>2. Given' = Given /\ WorstGiven' = WorstGiven /\ Fresh' = Fresh
  BY <1>1, FreshSame
<1>3. /\ pc'[w] \in {"next", "done"}
      /\ \A x \in Worker \ {w} : pc'[x] = pc[x] /\ job'[x] = job[x]
  BY DEF StoreWorst, Goto, Rest, TypeOK
<1>4. ~blurred /\ Given # {} => worst' \in WorstGiven
  <2> HAVE ~blurred /\ Given # {}
  <2>1. job[w].verdict \in WorstGiven
    BY <1>1 DEF FreshInv, Fresh
  <2>2. job[w].verdict # "none"
    BY <2>1 DEF WorstGiven, Given
  <2>3. QED
    BY <2>1, <2>2 DEF StoreWorst
<1>5. QED
  BY <1>1, <1>2, <1>3, <1>4 DEF FreshInv

LEMMA FreshCrash ==
  ASSUME TypeOK, FreshInv, NEW w \in Worker, Crash(w)
  PROVE  FreshInv'
<1>1. KeepsVerdicts /\ worst' = worst
  BY DEF Crash, KeepsVerdicts, docs
<1>2. /\ pc'[w] \in {"idle", "done"} /\ \A x \in Worker \ {w} : pc'[x] = pc[x] /\ job'[x] = job[x]
      /\ blurred' = (blurred \/ pc[w] \in {"worst", "store"})
  BY DEF Crash, Goto, TypeOK
<1>3. CASE blurred'
  BY <1>3 DEF FreshInv
<1>4. CASE ~blurred'
  <2>1. /\ blurred => blurred'
        /\ \A x \in Worker : /\ pc[x] \in {"worst", "store"} => pc'[x] = pc[x]
                             /\ pc'[x] = "store" => pc[x] = "store" /\ job'[x] = job[x]
    BY <1>2, <1>4
  <2>2. QED
    BY <1>1, <2>1, FreshStays
<1>5. QED
  BY <1>3, <1>4

\* The steps of workers that leave the verdicts alone.
LEMMA FreshWorker ==
  ASSUME TypeOK, FreshInv, NEW w \in Worker, UNCHANGED <<triage, worst, blurred>>,
         pc[w] \notin {"worst", "store"}, NEW s \in Step \ {"store"}, Goto(w, s),
         \A x \in Worker \ {w} : job'[x] = job[x]
  PROVE  FreshInv'
<1>1. KeepsVerdicts
  BY DEF KeepsVerdicts
<1>2. pc'[w] = s /\ \A x \in Worker \ {w} : pc'[x] = pc[x]
  BY DEF Goto, TypeOK
<1>3. QED
  BY <1>1, <1>2, FreshStays

LEMMA FreshInit == Init => FreshInv
<1> SUFFICES ASSUME Init PROVE FreshInv
  OBVIOUS
<1>1. Given = {}
  BY DEF Init, Given, NoTriage
<1>2. QED
  BY <1>1 DEF Init, FreshInv

LEMMA FreshNext ==
  ASSUME TypeOK, FreshInv, [Next]_vars
  PROVE  FreshInv'
<1>1. CASE UNCHANGED vars
  BY <1>1, FreshStays DEF vars, docs, local, history, KeepsVerdicts
<1>2. ASSUME NEW c \in Checks, Insert(c) \/ Commit(c) \/ Recompare(c) PROVE FreshInv'
  BY <1>2, FreshStays DEF Insert, Commit, Recompare, local, history, KeepsVerdicts
<1>3. ASSUME NEW c \in Checks, MarkPending(c) PROVE FreshInv'
  <2>1. triage \in [Checks -> Triaged]
        /\ (triage' = triage \/ triage' = [triage EXCEPT ![c].pending = TRUE])
    BY <1>3 DEF MarkPending, TypeOK
  <2>2. KeepsVerdicts
    BY <2>1 DEF KeepsVerdicts, Triaged
  <2>3. QED
    BY <1>3, <2>2, FreshStays DEF MarkPending, local, history
<1>4. ASSUME NEW c \in Checks, Review(c) PROVE FreshInv'
  <2>1. CASE blurred'
    BY <2>1 DEF FreshInv
  <2>2. CASE ~blurred'
    <3>1. triage' = triage /\ worst' = worst /\ pc' = pc /\ job' = job /\ (blurred => blurred')
      BY <1>4, <2>2 DEF Review, local
    <3>2. QED
      BY <3>1, FreshStays DEF KeepsVerdicts
  <2>3. QED
    BY <2>1, <2>2
<1>5. CASE Toggle
  BY <1>5, FreshStays DEF Toggle, local, history, KeepsVerdicts
<1>6. ASSUME NEW i \in Instances, Tick(i) \/ EndClaim(i) \/ TakeNext(i) \/ EndTick(i)
      PROVE  FreshInv'
  <2>1. i \in Worker /\ UNCHANGED <<triage, worst, blurred>>
    BY <1>6 DEF Worker, Tick, EndClaim, TakeNext, EndTick, docs, history
  <2>2. pc[i] \notin {"worst", "store"} /\ \A x \in Worker \ {i} : job'[x] = job[x]
    BY <1>6, <2>1 DEF Tick, EndClaim, TakeNext, EndTick, TypeOK
  <2>3. \E s \in Step \ {"store"} : Goto(i, s)
    BY <1>6 DEF Tick, EndClaim, TakeNext, EndTick, Step
  <2>4. QED
    BY <2>1, <2>2, <2>3, FreshWorker
<1>7. ASSUME NEW i \in Instances, NEW c \in Checks, Claim(i, c) PROVE FreshInv'
  <2>1. KeepsVerdicts
    BY <1>7 DEF Claim, KeepsVerdicts, TypeOK, Triaged
  <2>2. QED
    BY <1>7, <2>1, FreshStays DEF Claim, history
<1>8. ASSUME NEW w \in Worker, Classify(w) \/ ProviderFails(w) \/ Accept(w) \/ Missing(w)
      PROVE  pc[w] \notin {"worst", "store"} => FreshInv'
  <2>1. UNCHANGED <<triage, worst, blurred>>
    BY <1>8 DEF Classify, ProviderFails, Accept, Missing, docs, history
  <2>2. \A x \in Worker \ {w} : job'[x] = job[x]
    BY <1>8, ClassifyJob, ProviderFailsJob DEF Accept, Missing
  <2>3. \E s \in Step \ {"store"} : Goto(w, s)
    BY <1>8 DEF Classify, ProviderFails, Accept, Missing, Step
  <2>4. QED
    BY <2>1, <2>2, <2>3, FreshWorker
<1>9. ASSUME NEW w \in Worker, OfCheck(w) PROVE FreshInv'
  <2>1. CASE Classify(w) \/ ProviderFails(w) \/ Accept(w)
    BY <1>8, <2>1 DEF Classify, ProviderFails, Accept, Answered
  <2>2. CASE WriteVerdict(w)
    BY <1>8, <2>2, FreshOverwrite DEF WriteVerdict
  <2>3. CASE Cancel(w)
    BY <1>8, <2>3, FreshOverwrite DEF Cancel
  <2>4. CASE Requeue(w)
    <3>1. CASE Exists(job[w].check)
      BY <2>4, <3>1, FreshOverwrite DEF Requeue
    <3>2. CASE ~Exists(job[w].check)
      <4>1. /\ UNCHANGED <<triage, worst, blurred>> /\ pc[w] = "requeue"
            /\ \A x \in Worker \ {w} : job'[x] = job[x]
        BY <2>4, <3>2 DEF Requeue, docs, history, TypeOK
      <4>2. \E s \in Step \ {"store"} : Goto(w, s)
        BY <2>4, <3>2 DEF Requeue, Step
      <4>3. QED
        BY <4>1, <4>2, FreshWorker
    <3>3. QED
      BY <3>1, <3>2
  <2>5. QED
    BY <1>9, <2>1, <2>2, <2>3, <2>4, FreshRead, FreshStore DEF OfCheck
<1>10. ASSUME NEW r \in Requests, NEW c \in Checks, Ask(r, c) PROVE FreshInv'
  <2>1. r \in Worker /\ UNCHANGED <<triage, worst, blurred>> /\ pc[r] = "idle"
    BY <1>10 DEF Worker, Ask, docs
  <2>2. \A x \in Worker \ {r} : job'[x] = job[x]
    BY <1>10, <2>1 DEF Ask, TypeOK
  <2>3. \E s \in Step \ {"store"} : Goto(r, s)
    BY <1>10 DEF Ask, Step
  <2>4. QED
    BY <2>1, <2>2, <2>3, FreshWorker
<1>11. CASE Pass
  <2>1. ASSUME NEW c \in Checks PROVE triage'[c].verdict = triage[c].verdict
    <3>1. triage'[c] = [triage[c] EXCEPT !.claim = Older(@)] /\ triage[c] \in Triaged
      BY <1>11 DEF Pass, TypeOK
    <3>2. QED
      BY <3>1 DEF Triaged
  <2>2. QED
    BY <1>11, <2>1, FreshStays DEF Pass, KeepsVerdicts
<1>12. QED
  BY <1>1, <1>2, <1>3, <1>4, <1>5, <1>6, <1>7, <1>9, <1>10, <1>11, FreshCrash
  DEF Next, OfBatch

\* The verdict of a test is the worst of its checks once every refresh is over,
\* if none overtook another or died, and no check with a verdict was removed.
THEOREM WorstIsFresh == Spec => []WorstFollows
<1>1. Init => TypeOK /\ FreshInv
  BY InitType, FreshInit
<1>2. TypeOK /\ FreshInv /\ [Next]_vars => (TypeOK /\ FreshInv)'
  BY NextType, FreshNext
<1>3. FreshInv => WorstFollows
  BY DEF FreshInv, WorstFollows
<1>4. QED
  BY <1>1, <1>2, <1>3, PTL DEF Spec

-----------------------------------------------------------------------------
(* The abstract queue, step by step *)

\* The three parts of its state.
Waits(c) == status[c] = "failed" /\ triage[c].verdict = "none"
Waiting == {c \in Checks : status[c] = "failed" /\ triage[c].verdict = "none"}
Owners == [c \in Checks |-> {i \in Instances : c \in Holds(i)}]
Reissued == Checks \ Protected

LEMMA QueueWait ==
  ASSUME NEW c \in Checks, Waiting' = Waiting \cup {c}, Owners' = Owners,
         Reissued' = Reissued
  PROVE  Queue!QueueNext
BY DEF Queue!QueueNext, Queue!Wait, Waiting, Owners, Reissued

LEMMA QueueLeave ==
  ASSUME NEW c \in Checks, Waiting' = Waiting \ {c}, Owners' = Owners,
         Reissued' = Reissued
  PROVE  Queue!QueueNext
BY DEF Queue!QueueNext, Queue!Leave, Waiting, Owners, Reissued

LEMMA QueueReissue ==
  ASSUME NEW c \in Checks, Waiting' \in {Waiting \cup {c}, Waiting \ {c}, Waiting},
         Owners' = Owners, Reissued' = Reissued \cup {c}
  PROVE  Queue!QueueNext
BY DEF Queue!QueueNext, Queue!Reissue, Waiting, Owners, Reissued

LEMMA QueueRunOut ==
  ASSUME NEW C \in SUBSET Checks, \A c \in C : Owners[c] # {}, Waiting' = Waiting,
         Owners' = Owners, Reissued' = Reissued \cup C
  PROVE  Queue!QueueNext
BY DEF Queue!QueueNext, Queue!RunOut, Waiting, Owners, Reissued

LEMMA QueueOwn ==
  ASSUME NEW i \in Instances, NEW c \in Waiting, Owners[c] = {} \/ c \in Reissued,
         Owners' = [Owners EXCEPT ![c] = @ \cup {i}], Waiting' = Waiting,
         Reissued' = Reissued
  PROVE  Queue!QueueNext
<1>1. c \in Checks
  BY DEF Waiting
<1>2. Queue!Own(i, c)
  BY DEF Queue!Own, Waiting, Owners, Reissued
<1>3. QED
  BY <1>1, <1>2 DEF Queue!QueueNext

LEMMA QueueSettle ==
  ASSUME NEW i \in Instances, NEW c \in Checks, i \in Owners[c],
         Owners' = [Owners EXCEPT ![c] = @ \ {i}],
         Waiting' \in {Waiting \ {c}, Waiting \cup {c}}, Reissued' = Reissued
  PROVE  Queue!QueueNext
<1>1. Queue!Settle(i, c) \/ Queue!PutBack(i, c)
  BY DEF Queue!Settle, Queue!PutBack, Waiting, Owners, Reissued
<1>2. QED
  BY <1>1 DEF Queue!QueueNext

LEMMA QueueAbandon ==
  ASSUME NEW i \in Instances, Owners' = [c \in Checks |-> Owners[c] \ {i}],
         Waiting' = Waiting, Reissued' = Reissued
  PROVE  Queue!QueueNext
<1>1. Queue!Abandon(i)
  BY DEF Queue!Abandon, Waiting, Owners, Reissued
<1>2. QED
  BY <1>1 DEF Queue!QueueNext

LEMMA QueueStutter ==
  ASSUME Waiting' = Waiting, Owners' = Owners, Reissued' = Reissued
  PROVE  UNCHANGED Queue!queue
BY DEF Queue!queue, Waiting, Owners, Reissued

\* A step that touches one check has it wait or not.
LEMMA OneWaits ==
  ASSUME NEW c \in Checks,
         \A d \in Checks \ {c} : Waits(d)' <=> Waits(d)
  PROVE  /\ Waits(c)' => Waiting' = Waiting \cup {c}
         /\ ~Waits(c)' => Waiting' = Waiting \ {c}
BY DEF Waiting, Waits

LEMMA SameWaits ==
  ASSUME \A d \in Checks : Waits(d)' <=> Waits(d)
  PROVE  Waiting' = Waiting
BY DEF Waiting, Waits

\* What the locals say of owners.
LEMMA SameOwners ==
  ASSUME \A i \in Instances : Holds(i)' = Holds(i)
  PROVE  Owners' = Owners
BY DEF Owners

LEMMA LocalHolds ==
  ASSUME UNCHANGED local
  PROVE  Owners' = Owners
<1>1. \A i \in Instances : Holds(i)' = Holds(i)
  BY DEF local, Holds
<1>2. QED
  BY <1>1, SameOwners

LEMMA OthersHold ==
  ASSUME NEW w \in Worker, OnlyBy(w), NEW i \in Instances \ {w}
  PROVE  Holds(i)' = Holds(i)
<1>1. i \in Worker /\ i \in Instances /\ i # w
  BY DEF Worker
<1>2. pc'[i] = pc[i] /\ job'[i] = job[i] /\ batch'[i] = batch[i]
  BY <1>1 DEF OnlyBy
<1>3. QED
  BY <1>2 DEF Holds

LEMMA WorkerHolds ==
  ASSUME NEW w \in Worker, OnlyBy(w), w \in Instances => Holds(w)' = Holds(w)
  PROVE  Owners' = Owners
<1>1. \A i \in Instances : Holds(i)' = Holds(i)
  BY OthersHold
<1>2. QED
  BY <1>1, SameOwners

\* An instance that holds c no more, or nothing.
LEMMA OwnersWithout ==
  ASSUME NEW i \in Instances, OnlyBy(i), NEW c \in Checks,
         Holds(i)' = Holds(i) \ {c}
  PROVE  Owners' = [Owners EXCEPT ![c] = @ \ {i}]
<1>1. i \in Worker
  BY DEF Worker
<1>2. \A d \in Checks : {j \in Instances : d \in Holds(j)'} =
        IF d = c THEN {j \in Instances : d \in Holds(j)} \ {i}
        ELSE {j \in Instances : d \in Holds(j)}
  BY <1>1, OthersHold
<1>3. QED
  BY <1>2 DEF Owners

LEMMA OwnersWith ==
  ASSUME NEW i \in Instances, OnlyBy(i), NEW c \in Checks,
         Holds(i)' = Holds(i) \cup {c}
  PROVE  Owners' = [Owners EXCEPT ![c] = @ \cup {i}]
<1>1. i \in Worker
  BY DEF Worker
<1>2. \A d \in Checks : {j \in Instances : d \in Holds(j)'} =
        IF d = c THEN {j \in Instances : d \in Holds(j)} \cup {i}
        ELSE {j \in Instances : d \in Holds(j)}
  BY <1>1, OthersHold
<1>3. QED
  BY <1>2 DEF Owners

LEMMA OwnersDropped ==
  ASSUME NEW i \in Instances, OnlyBy(i), Holds(i)' = {}
  PROVE  Owners' = [c \in Checks |-> Owners[c] \ {i}]
<1>1. i \in Worker
  BY DEF Worker
<1>2. \A d \in Checks : {j \in Instances : d \in Holds(j)'} =
        {j \in Instances : d \in Holds(j)} \ {i}
  BY <1>1, OthersHold
<1>3. QED
  BY <1>2 DEF Owners

-----------------------------------------------------------------------------
(* The queue step of each step *)

QueueStep == Queue!QueueNext \/ UNCHANGED Queue!queue

LEMMA InsertQueue ==
  ASSUME TypeOK, NEW c \in Checks, Insert(c)
  PROVE  QueueStep
<1>1. Owners' = Owners /\ Reissued' = Reissued
  BY LocalHolds DEF Insert, history, Reissued, Protected
<1>2. \A d \in Checks \ {c} : Waits(d)' <=> Waits(d)
  BY DEF Insert, TypeOK, Waits
<1>3. Waiting' = Waiting \cup {c} \/ Waiting' = Waiting \ {c}
  BY <1>2, OneWaits
<1>4. QED
  BY <1>1, <1>3, QueueWait, QueueLeave DEF QueueStep

LEMMA MarkPendingQueue ==
  ASSUME TypeOK, NEW c \in Checks, MarkPending(c)
  PROVE  QueueStep
<1>1. Owners' = Owners /\ Reissued' = Reissued
  BY LocalHolds DEF MarkPending, history, Reissued, Protected
<1>2. triage' = triage \/ triage' = [triage EXCEPT ![c].pending = TRUE]
  BY DEF MarkPending
<1>3. triage \in [Checks -> Triaged]
  BY DEF TypeOK
<1>4. \A d \in Checks : triage'[d].verdict = triage[d].verdict
  BY <1>2, <1>3 DEF Triaged
<1>5. \A d \in Checks : Waits(d)' <=> Waits(d)
  BY <1>4 DEF MarkPending, Waits
<1>6. QED
  BY <1>1, <1>5, SameWaits, QueueStutter DEF QueueStep

LEMMA CommitQueue ==
  ASSUME TypeOK, NEW c \in Checks, Commit(c)
  PROVE  QueueStep
<1>1. Owners' = Owners /\ Reissued' = Reissued
  BY LocalHolds DEF Commit, history, Reissued, Protected
<1>2. \A d \in Checks \ {c} : Waits(d)' <=> Waits(d)
  BY DEF Commit, TypeOK, Waits
<1>3. Waiting' = Waiting \cup {c} \/ Waiting' = Waiting \ {c}
  BY <1>2, OneWaits
<1>4. QED
  BY <1>1, <1>3, QueueWait, QueueLeave DEF QueueStep

LEMMA ReviewQueue ==
  ASSUME TypeOK, NEW c \in Checks, Review(c)
  PROVE  QueueStep
<1>1. Owners' = Owners /\ Reissued' = Reissued
  BY LocalHolds DEF Review, Reissued, Protected
<1>2. \A d \in Checks \ {c} : Waits(d)' <=> Waits(d)
  BY DEF Review, TypeOK, Waits
<1>3. ~Waits(c)'
  BY DEF Review, TypeOK, Waits
<1>4. QED
  BY <1>1, <1>2, <1>3, OneWaits, QueueLeave DEF QueueStep

LEMMA RecompareQueue ==
  ASSUME TypeOK, NEW c \in Checks, Recompare(c)
  PROVE  QueueStep
<1>1. Owners' = Owners
  BY LocalHolds DEF Recompare
<1>2. Reissued' = Reissued \cup {c}
  BY DEF Recompare, Reissued, Protected, TypeOK
<1>3. \A d \in Checks \ {c} : Waits(d)' <=> Waits(d)
  BY DEF Recompare, TypeOK, Waits
<1>4. QED
  BY <1>1, <1>2, <1>3, OneWaits, QueueReissue DEF QueueStep

LEMMA ToggleQueue ==
  ASSUME Toggle
  PROVE  QueueStep
<1>1. Owners' = Owners /\ Reissued' = Reissued
  BY LocalHolds DEF Toggle, history, Reissued, Protected
<1>2. \A d \in Checks : Waits(d)' <=> Waits(d)
  BY DEF Toggle, Waits
<1>3. QED
  BY <1>1, <1>2, SameWaits, QueueStutter DEF QueueStep

LEMMA PassQueue ==
  ASSUME TypeOK, Pass
  PROVE  QueueStep
<1>1. \A i \in Instances : Holds(i)' = Holds(i)
  BY DEF Pass, Holds
<1>2. \A d \in Checks : triage'[d] = [triage[d] EXCEPT !.claim = Older(@)]
  BY DEF Pass
<1>3. \A d \in Checks : triage'[d].verdict = triage[d].verdict
  BY <1>2 DEF TypeOK, Triaged
<1>4. \A d \in Checks : Waits(d)' <=> Waits(d)
  BY <1>3 DEF Pass, Waits
<1>5. RunningOut \in SUBSET Checks /\ Reissued' = Reissued \cup RunningOut
  BY DEF Pass, RunningOut, Reissued, Protected
<1>6. \A c \in RunningOut : Owners[c] # {}
  BY DEF RunningOut, Owners
<1>7. QED
  BY <1>1, <1>4, <1>5, <1>6, SameWaits, SameOwners, QueueRunOut DEF QueueStep

\* A step of a worker that moves nothing.
LEMMA IdleQueue ==
  ASSUME NEW w \in Worker, OnlyBy(w), w \in Instances => Holds(w)' = Holds(w),
         UNCHANGED <<status, triage, asked, overdue>>
  PROVE  QueueStep
<1>1. \A d \in Checks : Waits(d)' <=> Waits(d)
  BY DEF Waits
<1>2. Reissued' = Reissued
  BY DEF Reissued, Protected
<1>3. QED
  BY <1>1, <1>2, SameWaits, WorkerHolds, QueueStutter DEF QueueStep

LEMMA BatchStepsQueue ==
  ASSUME TypeOK, NEW i \in Instances, Tick(i) \/ EndClaim(i) \/ EndTick(i)
  PROVE  QueueStep
<1>1. i \in Worker
  BY DEF Worker
<1>2. OnlyBy(i) /\ pc[i] \in {"idle", "claim", "next"} /\ pc'[i] \in {"idle", "claim", "next"}
  BY <1>1 DEF Tick, EndClaim, EndTick, Goto, OnlyBy, TypeOK
<1>3. batch' = batch /\ UNCHANGED <<status, triage, asked, overdue>>
  BY DEF Tick, EndClaim, EndTick, docs, history
<1>4. Holds(i)' = Holds(i)
  BY <1>2, <1>3 DEF Holds
<1>5. QED
  BY <1>1, <1>2, <1>3, <1>4, IdleQueue

LEMMA WorstQueue ==
  ASSUME TypeOK, NEW w \in Worker, ReadWorst(w) \/ StoreWorst(w)
  PROVE  QueueStep
<1>1. OnlyBy(w) /\ pc[w] \in {"worst", "store"} /\ pc'[w] \in {"store", "next", "done"}
  BY DEF ReadWorst, StoreWorst, Goto, Rest, OnlyBy, TypeOK
<1>2. batch' = batch /\ UNCHANGED <<status, triage, asked, overdue>>
  BY DEF ReadWorst, StoreWorst, docs, history
<1>3. Holds(w)' = Holds(w)
  BY <1>1, <1>2 DEF Holds
<1>4. QED
  BY <1>1, <1>2, <1>3, IdleQueue

LEMMA AnsweredQueue ==
  ASSUME TypeOK, NEW w \in Worker, Classify(w) \/ ProviderFails(w)
  PROVE  QueueStep
<1>1. OnlyBy(w) /\ pc[w] = "classify" /\ pc'[w] \in {"accept", "write", "requeue"}
  BY DEF Classify, ProviderFails, Answered, Goto, OnlyBy, TypeOK
<1>2. job'[w].check = job[w].check
  BY ClassifyJob, ProviderFailsJob
<1>3. batch' = batch /\ UNCHANGED <<status, triage, asked, overdue>>
  BY DEF Classify, ProviderFails, docs, history
<1>4. Holds(w)' = Holds(w)
  BY <1>1, <1>2, <1>3 DEF Holds
<1>5. QED
  BY <1>1, <1>3, <1>4, IdleQueue

LEMMA AcceptQueue ==
  ASSUME TypeOK, LeaseInv, NEW w \in Worker, Accept(w)
  PROVE  QueueStep
<1>1. OnlyBy(w) /\ pc[w] = "accept" /\ pc'[w] = "write"
  BY DEF Accept, Goto, OnlyBy, TypeOK
<1>2. job' = job /\ batch' = batch /\ triage' = triage /\ asked' = asked /\ overdue' = overdue
  BY DEF Accept
<1>3. Holds(w)' = Holds(w)
  BY <1>1, <1>2 DEF Holds
<1>4. CASE Exists(job[w].check)
  <2>1. job[w].check \in Checks
    BY <1>1 DEF LeaseInv, Shape, Fits, Busy
  <2>2. status' = [status EXCEPT ![job[w].check] = "passed"]
    BY <1>4 DEF Accept
  <2>3. \A d \in Checks \ {job[w].check} : Waits(d)' <=> Waits(d)
    BY <1>2, <2>2 DEF Waits, TypeOK
  <2>4. ~Waits(job[w].check)'
    <3>1. status'[job[w].check] = "passed"
      BY <2>1, <2>2 DEF TypeOK
    <3>2. QED
      BY <1>2, <3>1 DEF Waits
  <2>5. Reissued' = Reissued
    BY <1>2 DEF Reissued, Protected
  <2>6. Waiting' = Waiting \ {job[w].check}
    BY <1>2, <2>1, <2>3, <2>4, OneWaits
  <2>7. QED
    BY <1>1, <1>3, <2>1, <2>5, <2>6, WorkerHolds, QueueLeave DEF QueueStep
<1>5. CASE ~Exists(job[w].check)
  <2>1. status' = status
    BY <1>5 DEF Accept
  <2>2. QED
    BY <1>1, <1>2, <1>3, <2>1, IdleQueue
<1>6. QED
  BY <1>4, <1>5

\* A worker whose work on its check ends keeps the rest of its batch.
LEMMA WrittenOwners ==
  ASSUME NEW w \in Worker, Busy(w), OnlyBy(w), ~Busy(w)', job[w].check \in Checks,
         w \in Instances => batch'[w] = batch[w]
  PROVE  \/ Owners' = Owners
         \/ /\ w \in Instances /\ w \in Owners[job[w].check]
            /\ Owners' = [Owners EXCEPT ![job[w].check] = @ \ {w}]
<1> DEFINE c == job[w].check
           rest == {batch[w][k] : k \in 1 .. Len(batch[w])}
<1>1. CASE w \notin Instances
  BY <1>1, WorkerHolds
<1>2. CASE w \in Instances
  <2>1. Holds(w) = rest \cup {c} /\ Holds(w)' = rest
    BY <1>2 DEF Holds, Busy
  <2>2. w \in Owners[c]
    BY <1>2, <2>1 DEF Owners
  <2>3. CASE c \in rest
    <3>1. Holds(w)' = Holds(w)
      BY <2>1, <2>3
    <3>2. QED
      BY <3>1, WorkerHolds
  <2>4. CASE c \notin rest
    <3>1. Holds(w)' = Holds(w) \ {c}
      BY <2>1, <2>4
    <3>2. QED
      BY <1>2, <2>2, <3>1, OwnersWithout
  <2>5. QED
    BY <2>3, <2>4
<1>3. QED
  BY <1>1, <1>2

LEMMA OverwriteQueue ==
  ASSUME TypeOK, LeaseInv, NEW w \in Worker, NEW t, Overwrite(w, t),
         pc[w] \in {"write", "requeue"}, asked' = asked
  PROVE  QueueStep
<1>1. /\ OnlyBy(w) /\ pc'[w] = "worst" /\ job'[w] = job[w]
      /\ w \in Instances => batch'[w] = batch[w] /\ elapsed'[w] = elapsed[w]
  BY OnlyPc DEF Overwrite, Step
<1>2. PICK c \in Checks : job[w].check = c
  BY DEF LeaseInv, Shape, Fits, Busy
<1>3. \/ Owners' = Owners
      \/ /\ w \in Instances /\ w \in Owners[c]
         /\ Owners' = [Owners EXCEPT ![c] = @ \ {w}]
  BY <1>1, <1>2, WrittenOwners DEF Busy
<1>4. \A d \in Checks \ {c} : Waits(d)' <=> Waits(d)
  BY <1>2 DEF Overwrite, Waits, TypeOK
<1>5. Waiting' \in {Waiting \ {c}, Waiting \cup {c}}
  BY <1>4, OneWaits
<1>6. Reissued' = Reissued
  BY DEF Overwrite, Reissued, Protected
<1>7. QED
  BY <1>3, <1>5, <1>6, QueueWait, QueueLeave, QueueSettle DEF QueueStep

LEMMA WriteVerdictQueue ==
  ASSUME TypeOK, LeaseInv, NEW w \in Worker, WriteVerdict(w)
  PROVE  QueueStep
<1>1. CASE Missing(w)
  <2>1. /\ OnlyBy(w) /\ pc'[w] = "worst"
        /\ w \in Instances => batch'[w] = batch[w] /\ elapsed'[w] = elapsed[w]
    BY <1>1, OnlyPc DEF Missing, Step
  <2>2. PICK c \in Checks : job[w].check = c
    BY DEF WriteVerdict, LeaseInv, Shape, Fits, Busy
  <2>3. \/ Owners' = Owners
        \/ /\ w \in Instances /\ w \in Owners[c]
           /\ Owners' = [Owners EXCEPT ![c] = @ \ {w}]
    BY <2>1, <2>2, WrittenOwners DEF WriteVerdict, Busy
  <2>4. \A d \in Checks : Waits(d)' <=> Waits(d)
    BY <1>1 DEF Missing, docs, Waits
  <2>5. ~Waits(c)
    BY <1>1, <2>2 DEF Missing, Exists, Waits
  <2>6. Waiting' = Waiting \ {c}
    BY <2>4, <2>5, OneWaits
  <2>7. Reissued' = Reissued
    BY <1>1 DEF Missing, history, Reissued, Protected
  <2>8. QED
    BY <2>3, <2>6, <2>7, QueueLeave, QueueSettle DEF QueueStep
<1>2. QED
  BY <1>1, OverwriteQueue DEF WriteVerdict

\* Users cancel in requests, which own nothing.
LEMMA CancelQueue ==
  ASSUME TypeOK, LeaseInv, NEW w \in Worker, Cancel(w)
  PROVE  QueueStep
<1>1. w \notin Instances /\ pc[w] = "cancel"
  BY DEF Cancel, LeaseInv, Shape, Fits
<1>2. OnlyBy(w)
  BY OnlyPc DEF Cancel, Overwrite, Missing, Step
<1>3. CASE Missing(w)
  BY <1>1, <1>2, <1>3, IdleQueue DEF Missing, docs, history
<1>4. CASE ~Missing(w)
  <2>1. PICK c \in Checks : job[w].check = c
    BY <1>1 DEF LeaseInv, Shape, Fits
  <2>2. /\ asked' = [asked EXCEPT ![c] = "cancel"] /\ overdue' = overdue
        /\ status' = status /\ \A d \in Checks \ {c} : triage'[d] = triage[d]
    BY <1>4, <2>1 DEF Cancel, Overwrite, TypeOK
  <2>3. Reissued' = Reissued \cup {c}
    BY <2>2 DEF Reissued, Protected, TypeOK
  <2>4. Waiting' \in {Waiting \ {c}, Waiting \cup {c}}
    BY <2>2, OneWaits DEF Waits
  <2>5. QED
    BY <1>1, <1>2, <2>3, <2>4, WorkerHolds, QueueReissue DEF QueueStep
<1>5. QED
  BY <1>3, <1>4

\* A worker that gives up abandons all it has taken.
LEMMA DroppedQueue ==
  ASSUME TypeOK, NEW w \in Worker, job' = [job EXCEPT ![w] = NoJob],
         Goto(w, IF w \in Instances THEN "idle" ELSE "done"),
         batch' = (IF w \in Instances THEN [batch EXCEPT ![w] = <<>>] ELSE batch),
         \/ elapsed' = elapsed
         \/ elapsed' = (IF w \in Instances THEN [elapsed EXCEPT ![w] = 0] ELSE elapsed),
         UNCHANGED <<docs, asked, overdue>>
  PROVE  QueueStep
<1>1. OnlyBy(w) /\ pc'[w] \in {"idle", "done"}
  BY DEF OnlyBy, Goto, TypeOK
<1>2. UNCHANGED <<status, triage, asked, overdue>>
  BY DEF docs
<1>3. CASE w \notin Instances
  BY <1>1, <1>2, <1>3, IdleQueue
<1>4. CASE w \in Instances
  <2>1. batch'[w] = <<>> /\ Len(<<>>) = 0
    BY <1>4, EmptySeq DEF TypeOK
  <2>2. Holds(w)' = {}
    BY <1>1, <2>1 DEF Holds
  <2>3. Waiting' = Waiting /\ Reissued' = Reissued
    BY <1>2, SameWaits DEF Waits, Reissued, Protected
  <2>4. QED
    BY <1>1, <1>4, <2>2, <2>3, OwnersDropped, QueueAbandon DEF QueueStep
<1>5. QED
  BY <1>3, <1>4

LEMMA CrashQueue ==
  ASSUME TypeOK, NEW w \in Worker, Crash(w)
  PROVE  QueueStep
BY DroppedQueue DEF Crash

LEMMA RequeueQueue ==
  ASSUME TypeOK, LeaseInv, NEW w \in Worker, Requeue(w)
  PROVE  QueueStep
<1>1. CASE Exists(job[w].check)
  BY <1>1, OverwriteQueue DEF Requeue
<1>2. CASE ~Exists(job[w].check)
  BY <1>2, DroppedQueue DEF Requeue, history
<1>3. QED
  BY <1>1, <1>2

LEMMA AskQueue ==
  ASSUME TypeOK, NEW r \in Requests, NEW c \in Checks, Ask(r, c)
  PROVE  QueueStep
<1>1. r \in Worker /\ r \notin Instances
  BY TriageAssumption DEF Worker
<1>2. OnlyBy(r)
  BY <1>1 DEF Ask, OnlyBy, Goto, TypeOK
<1>3. Owners' = Owners
  BY <1>1, <1>2, WorkerHolds
<1>4. Waiting' = Waiting
  BY SameWaits DEF Ask, docs, Waits
<1>5. (asked' = asked \/ asked' = [asked EXCEPT ![c] = "again"]) /\ overdue' = overdue
  BY DEF Ask
<1>6. Reissued' = Reissued \/ Reissued' = Reissued \cup {c}
  BY <1>5 DEF Reissued, Protected, TypeOK
<1>7. QED
  BY <1>3, <1>4, <1>6, QueueStutter, QueueReissue DEF QueueStep

\* The next check of the batch moves to the job; a missing one ends the tick.
LEMMA TakeNextQueue ==
  ASSUME TypeOK, NEW i \in Instances, TakeNext(i)
  PROVE  QueueStep
<1>1. i \in Worker
  BY DEF Worker
<1>2. batch[i] \in Seq(Checks) /\ batch[i] # <<>> /\ pc[i] = "next"
  BY DEF TakeNext, TypeOK
<1> DEFINE b == batch[i]
<1>3. CASE Exists(Head(b))
  <2>1. OnlyBy(i) /\ pc'[i] = "classify"
    BY <1>1, <1>3 DEF TakeNext, OnlyBy, Goto, TypeOK
  <2>2. batch'[i] = Tail(b) /\ job'[i] = Reading(Head(b))
    BY <1>1, <1>3 DEF TakeNext, TypeOK
  <2>3. Head(b) \in Checks
    BY <1>2, HeadTailProperties
  <2>4. job'[i].check = Head(b)
    BY <2>2, <2>3, ReadingType
  <2>5. {b[k] : k \in 1 .. Len(b)} =
          {Tail(b)[k] : k \in 1 .. Len(Tail(b))} \cup {Head(b)}
    <3>1. /\ Len(b) \in Nat /\ Len(b) > 0 /\ Len(Tail(b)) = Len(b) - 1
          /\ Head(b) = b[1] /\ \A k \in 1 .. Len(Tail(b)) : Tail(b)[k] = b[k + 1]
      BY <1>2
    <3>2. ASSUME NEW k \in 1 .. Len(b)
          PROVE  b[k] = Head(b) \/ \E l \in 1 .. Len(Tail(b)) : b[k] = Tail(b)[l]
      <4>1. CASE k = 1
        BY <3>1, <4>1
      <4>2. CASE k # 1
        <5>1. k - 1 \in 1 .. Len(Tail(b)) /\ (k - 1) + 1 = k
          BY <3>1, <4>2
        <5>2. Tail(b)[k - 1] = b[k]
          BY <3>1, <5>1
        <5>3. QED
          BY <5>1, <5>2
      <4>3. QED
        BY <4>1, <4>2
    <3>3. ASSUME NEW k \in 1 .. Len(Tail(b))
          PROVE  \E l \in 1 .. Len(b) : Tail(b)[k] = b[l]
      <4>1. k + 1 \in 1 .. Len(b) /\ Tail(b)[k] = b[k + 1]
        BY <3>1
      <4>2. QED
        BY <4>1
    <3>4. \E l \in 1 .. Len(b) : Head(b) = b[l]
      <4>1. 1 \in 1 .. Len(b)
        BY <3>1
      <4>2. QED
        BY <3>1, <4>1
    <3>5. QED
      BY <3>2, <3>3, <3>4
  <2>6. Holds(i)' = Holds(i)
    BY <1>2, <2>1, <2>2, <2>4, <2>5 DEF Holds
  <2>7. QED
    BY <1>1, <2>1, <2>6, IdleQueue DEF TakeNext, docs, history
<1>4. CASE ~Exists(Head(b))
  <2>1. OnlyBy(i) /\ pc'[i] = "idle" /\ batch'[i] = <<>>
    BY <1>1, <1>4 DEF TakeNext, OnlyBy, Goto, TypeOK
  <2>2. Len(<<>>) = 0
    BY EmptySeq
  <2>3. Holds(i)' = {}
    BY <2>1, <2>2 DEF Holds
  <2>4. Waiting' = Waiting /\ Reissued' = Reissued
    BY SameWaits DEF TakeNext, docs, history, Waits, Reissued, Protected
  <2>5. QED
    BY <2>1, <2>3, <2>4, OwnersDropped, QueueAbandon DEF QueueStep
<1>5. QED
  BY <1>3, <1>4

\* What an instance claims waits, and nobody owns it if it is protected: its
\* claim would not be free then.
LEMMA ClaimQueue ==
  ASSUME TypeOK, LeaseInv, NEW i \in Instances, NEW c \in Checks, Claim(i, c)
  PROVE  QueueStep
<1>1. i \in Worker
  BY DEF Worker
<1>2. OnlyBy(i) /\ pc[i] = "claim" /\ pc' = pc /\ job' = job
  BY <1>1 DEF Claim, OnlyBy, TypeOK
<1>3. batch[i] \in Seq(Checks) /\ batch'[i] = Append(batch[i], c)
  BY DEF Claim, TypeOK
<1> DEFINE b == batch[i]
           b2 == Append(b, c)
<1>4. {b2[k] : k \in 1 .. Len(b2)} = {b[k] : k \in 1 .. Len(b)} \cup {c}
  <2>1. /\ Len(b) \in Nat /\ Len(b2) = Len(b) + 1 /\ b2[Len(b) + 1] = c
        /\ \A k \in 1 .. Len(b) : b2[k] = b[k]
    BY <1>3
  <2>2. /\ \A k \in 1 .. Len(b2) : k \in 1 .. Len(b) \/ k = Len(b) + 1
        /\ 1 .. Len(b) \subseteq 1 .. Len(b2) /\ Len(b) + 1 \in 1 .. Len(b2)
    BY <2>1
  <2>3. QED
    BY <2>1, <2>2
<1>5. Holds(i)' = Holds(i) \cup {c}
  BY <1>2, <1>3, <1>4 DEF Holds
<1>6. c \in Waiting
  BY DEF Claim, Claimable, Waiting
<1>7. Owners[c] = {} \/ c \in Reissued
  <2> SUFFICES ASSUME c \in Protected, NEW j \in Instances, c \in Holds(j)
               PROVE  FALSE
    BY DEF Owners, Reissued
  <2>1. PICK k \in 0 .. Batch : At(j, k, c)
    BY HoldsAt
  <2>2. status[c] # "gone" /\ triage[c].claim \in {TTL + 2, TTL + 1}
    BY DEF Claim, Claimable, Stale, Unclaimed
  <2>3. triage[c].claim <= TTL
    BY <2>1, <2>2 DEF LeaseInv, Covered
  <2>4. QED
    BY <2>2, <2>3, Numbers
<1>8. Waiting' = Waiting /\ Reissued' = Reissued
  <2>1. \A d \in Checks : triage'[d].verdict = triage[d].verdict
    <3>1. triage \in [Checks -> Triaged] /\ triage' = [triage EXCEPT ![c].claim = 0]
      BY DEF Claim, TypeOK
    <3>2. QED
      BY <3>1 DEF Triaged
  <2>2. \A d \in Checks : Waits(d)' <=> Waits(d)
    BY <2>1 DEF Claim, Waits
  <2>3. QED
    BY <2>2, SameWaits DEF Claim, history, Reissued, Protected
<1>9. QED
  BY <1>2, <1>5, <1>6, <1>7, <1>8, OwnersWith, QueueOwn DEF QueueStep

LEMMA NextQueue ==
  ASSUME TypeOK, LeaseInv, [Next]_vars
  PROVE  QueueStep
<1>1. CASE UNCHANGED vars
  BY <1>1, LocalHolds, SameWaits, QueueStutter
  DEF vars, docs, history, Waits, Reissued, Protected, QueueStep
<1>2. ASSUME NEW i \in Instances, OfBatch(i) PROVE QueueStep
  BY <1>2, BatchStepsQueue, TakeNextQueue, ClaimQueue DEF OfBatch
<1>3. ASSUME NEW w \in Worker, OfCheck(w) \/ Crash(w) PROVE QueueStep
  BY <1>3, AnsweredQueue, AcceptQueue, WriteVerdictQueue, CancelQueue, RequeueQueue,
     WorstQueue, CrashQueue
  DEF OfCheck
<1>4. QED
  BY <1>1, <1>2, <1>3, InsertQueue, MarkPendingQueue, CommitQueue, ReviewQueue, RecompareQueue,
     ToggleQueue, PassQueue, AskQueue
  DEF Next

LEMMA InitQueue == Init => Queue!QueueInit
<1> SUFFICES ASSUME Init PROVE Queue!QueueInit
  OBVIOUS
<1>1. \A i \in Instances : Holds(i) = {}
  BY EmptySeq DEF Init, Holds, Worker
<1>2. Waiting = {}
  BY DEF Init, Waiting
<1>3. Reissued = {}
  BY DEF Init, Reissued, Protected
<1>4. Owners = [c \in Checks |-> {}]
  BY <1>1 DEF Owners
<1>5. QED
  BY <1>2, <1>3, <1>4 DEF Queue!QueueInit, Waiting, Reissued, Owners

\* Whatever the length of leases and classifications, triage is a queue of checks
\* in which an instance takes only what waits and nobody works on, unless users
\* asked for it again or a lease ran out under its holder: claims, expired leases,
\* takeovers, retries and crashes all map to steps of the queue.
THEOREM TriageIsAQueue ==
  Spec => ImplementsQueue
<1>1. Init => Queue!QueueInit
  BY InitQueue
<1>2. TypeOK /\ LeaseInv /\ [Next]_vars => [Queue!QueueNext]_(Queue!queue)
  BY NextQueue DEF QueueStep
<1>3. Spec => [](TypeOK /\ LeaseInv)
  BY LeaseKept
<1>4. QED
  BY <1>1, <1>2, <1>3, PTL DEF Spec, ImplementsQueue, Queue!QueueSpec
=============================================================================
