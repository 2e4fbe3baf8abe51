---------------------------- MODULE ClientProofs ----------------------------
(***************************************************************************)
(* Proofs about Client: every state is of the types, a call leaves at most *)
(* one document however often its request was sent (AtMostOnce), checks    *)
(* stay with the session in which they were taken (SessionKept), and an    *)
(* acceptance is kept and not undone by its retries (AcceptanceKept), for  *)
(* any number of drivers, screenshots, attempts, calls and late requests.  *)
(***************************************************************************)
EXTENDS Client, SequenceTheorems, FiniteSetTheorems, TLAPS

-----------------------------------------------------------------------------
(* Every request and every document belongs to a call that has been made; a  *)
(* call leaves one document, because the only request that could make it is  *)
(* gone when the driver sends another one.                                   *)

\* The requests that show a screenshot.
Shows(op) == op \in {"hash", "file", "accept"}

\* A request that no server has begun with.
Fresh(r) == r.step = "sent" /\ ~r.raced

\* Only an accept has an upsert.
Upserting(r) == r.step \in {"upsert", "collided"} => r.op = "accept"

\* The driver will send a request again, or goes on to the file.
Unsent(d) ==
  /\ drv[d].req.op # "accept"
  /\ drv[d].pc = "pause" \/ (drv[d].pc = "sent" /\ drv[d].reply # None /\ drv[d].reply.needFile)

DriversNumbered ==
  /\ \A d \in Driver :
       /\ drv[d].pc # "idle" => drv[d].req.call \in 1..calls
       /\ drv[d].pc # "sent" => drv[d].reply = None
       /\ drv[d].session \in 0..calls
       /\ drv[d].pc # "idle" /\ Shows(drv[d].req.op) => drv[d].req.image \in Image
       /\ drv[d].pc # "idle" => Fresh(drv[d].req)
  /\ \A d, e \in Driver : d # e /\ drv[d].pc # "idle" /\ drv[e].pc # "idle"
       => drv[d].req.call # drv[e].req.call

RequestsNumbered ==
  \A r \in net : r.call \in 1..calls /\ (Shows(r.op) => r.image \in Image) /\ Upserting(r)

DocsNumbered ==
  /\ \A t \in DOMAIN test : test[t].call \in 1..calls
  /\ \A c \in DOMAIN check : check[c].call \in 1..calls

\* Nothing has been made yet for the call k by a request of this kind.
Unmade(k, op) ==
  /\ op = "start" => \A t \in DOMAIN test : test[t].call # k
  /\ op \in {"hash", "file"} => \A c \in DOMAIN check : check[c].call # k

\* One request of a call is in net that could make something.
OneMaker ==
  /\ \A r, s \in net : r.call = s.call /\ r.op # "accept" /\ s.op # "accept" => r = s
  /\ \A d \in Driver : Unsent(d) =>
       \A r \in net : r.op # "accept" => r.call # drv[d].req.call

NotYet ==
  /\ \A r \in net : Unmade(r.call, r.op)
  /\ \A d \in Driver : Unsent(d) => Unmade(drv[d].req.call, drv[d].req.op)

\* The checks that requests name exist.
Refers ==
  /\ \A r \in net : r.op = "accept" => r.check \in DOMAIN check
  /\ \A d \in Driver :
       /\ drv[d].pc # "idle" /\ drv[d].req.op = "accept" => drv[d].req.check \in DOMAIN check
       /\ drv[d].reply # None /\ drv[d].reply.ok /\ ~drv[d].reply.needFile
            /\ drv[d].req.op \in {"hash", "file"} => drv[d].reply.id \in DOMAIN check

Base == /\ TypeOK /\ DriversNumbered /\ RequestsNumbered /\ DocsNumbered
        /\ OneMaker /\ NotYet /\ Refers /\ AtMostOnce

-----------------------------------------------------------------------------
(* Records *)

LEMMA DriverFields ==
  ASSUME NEW x \in DriverState
  PROVE  /\ x.pc \in {"idle", "sent", "pause"} /\ x.testId \in Calls /\ x.session \in Calls
         /\ x.req \in Request /\ x.reply \in Reply \cup {None}
BY DEF DriverState

LEMMA RequestFields ==
  ASSUME NEW r \in Request
  PROVE  /\ r.call \in Calls /\ r.attempt \in 1..MaxAttempts /\ r.op \in Ops
         /\ r.session \in Calls /\ r.test \in Calls /\ r.check \in Calls
         /\ r.image \in Image \cup {None}
         /\ r.step \in {"sent", "upsert", "collided", "begun"}
         /\ r.new \in BOOLEAN /\ r.raced \in BOOLEAN /\ r.met \in BOOLEAN
BY DEF Request

LEMMA ReplyFields ==
  ASSUME NEW a \in Reply
  PROVE  a.ok \in BOOLEAN /\ a.again \in BOOLEAN /\ a.needFile \in BOOLEAN /\ a.id \in Calls /\ a.new \in BOOLEAN
BY DEF Reply

LEMMA Parts ==
  ASSUME TypeOK
  PROVE  /\ \A d \in Driver : drv[d] \in DriverState
         /\ \A r \in net : r \in Request
         /\ DOMAIN test = 1..Len(test) /\ Len(test) \in Nat
         /\ DOMAIN check = 1..Len(check) /\ Len(check) \in Nat
         /\ DOMAIN rows = 1..Len(rows) /\ Len(rows) \in Nat
         /\ \A t \in DOMAIN test : test[t] \in TestDoc
         /\ \A c \in DOMAIN check : check[c] \in CheckDoc
         /\ \A k \in DOMAIN rows : rows[k] \in Image
         /\ calls \in Calls /\ calls \in Nat /\ MaxCalls \in Nat /\ calls <= MaxCalls
<1>1. drv \in [Driver -> DriverState] /\ net \subseteq Request /\ test \in Seq(TestDoc)
      /\ check \in Seq(CheckDoc) /\ rows \in Seq(Image) /\ calls \in Calls
  BY DEF TypeOK
<1>2. MaxCalls \in Nat
  BY ClientAssumption
<1>3. calls \in Nat /\ calls <= MaxCalls
  BY <1>1, <1>2 DEF Calls
<1> QED
  BY <1>1, <1>2, <1>3, LenProperties, ElementOfSeq

LEMMA NoneIsCall == 0 \in Calls
BY ClientAssumption DEF Calls

LEMMA NoRequestTyped ==
  /\ NoRequest \in Request
  /\ NoRequest.call = 0 /\ NoRequest.op = "start" /\ NoRequest.test = 0
  /\ Fresh(NoRequest)
<1>1. MaxAttempts \in Nat \ {0} /\ MaxCalls \in Nat
  BY ClientAssumption
<1>2. 0 \in Calls /\ 1 \in 1..MaxAttempts
  BY <1>1 DEF Calls
<1> QED
  BY <1>2 DEF NoRequest, Request, Ops, Fresh

LEMMA RepliesTyped ==
  ASSUME NEW n \in Calls, NEW b \in BOOLEAN
  PROVE  /\ Success(n, b) \in Reply /\ Success(n, b).ok /\ ~Success(n, b).needFile
         /\ Success(n, b).id = n
         /\ Error(b) \in Reply /\ ~Error(b).ok /\ ~Error(b).needFile
         /\ NeedFile \in Reply /\ NeedFile.ok /\ NeedFile.needFile
<1>1. MaxCalls \in Nat
  BY ClientAssumption
<1>2. 0 \in Calls
  BY <1>1 DEF Calls
<1> QED
  BY <1>2 DEF Success, Error, NeedFile, Reply

\* n calls that differ, of at most m.
LEMMA Fits ==
  ASSUME NEW n \in Nat, NEW m \in Nat, NEW f,
         \A i \in 1..n : f[i] \in 1..m,
         \A i, j \in 1..n : f[i] = f[j] => i = j
  PROVE  n <= m
<1> DEFINE g == [i \in 1..n |-> f[i]]
<1>1. g \in Injection(1..n, 1..m)
  BY DEF Injection, IsInjective
<1>2. IsFiniteSet(1..m) /\ Cardinality(1..m) = m /\ Cardinality(1..n) = n
  BY FS_Interval
<1>3. Cardinality(1..n) <= Cardinality(1..m)
  BY <1>1, <1>2, FS_Injection
<1> QED
  BY <1>2, <1>3

\* n calls that differ, and one more: there is room for one more document.
LEMMA Room ==
  ASSUME NEW n \in Nat, NEW m \in Nat, NEW f, NEW k \in 1..m,
         \A i \in 1..n : f[i] \in 1..m /\ f[i] # k,
         \A i, j \in 1..n : f[i] = f[j] => i = j
  PROVE  n + 1 <= m
<1> DEFINE g == [i \in 1..(n + 1) |-> IF i = n + 1 THEN k ELSE f[i]]
<1>1. \A i \in 1..(n + 1) : g[i] \in 1..m
  OBVIOUS
<1>2. \A i, j \in 1..(n + 1) : g[i] = g[j] => i = j
  OBVIOUS
<1> HIDE DEF g
<1>3. n + 1 \in Nat
  OBVIOUS
<1> QED
  BY <1>1, <1>2, <1>3, Fits

-----------------------------------------------------------------------------
(* What the steps of a driver do *)

\* Only the driver d takes a step.
Alone(d) ==
  /\ drv' \in [Driver -> DriverState]
  /\ \A e \in Driver : e # d => drv'[e] = drv[e]
  /\ UNCHANGED serverVars

Keeps(d) == drv'[d].testId = drv[d].testId /\ drv'[d].session = drv[d].session

Sends(d, r) ==
  /\ Alone(d)
  /\ drv'[d].pc = "sent" /\ drv'[d].req = r /\ drv'[d].reply = None
  /\ r \in Request /\ net' = net \cup {r}

\* A new call; its request is for the test of the session, or leaves it.
Opens(d, r) ==
  \/ r.op = "start" /\ drv'[d].session = calls + 1 /\ drv'[d].testId = 0
  \/ /\ r.op = "stop" /\ drv'[d].session = drv[d].session /\ drv'[d].testId = 0
     /\ r.test = drv[d].testId
  \/ /\ r.op = "hash" /\ Keeps(d) /\ drv[d].testId # 0 /\ r.test = drv[d].testId
     /\ r.session = drv[d].session /\ r.image \in Image

Calling(d, r) ==
  /\ drv[d].pc = "idle" /\ Sends(d, r) /\ Opens(d, r)
  /\ r.call = calls + 1 /\ calls' = calls + 1 /\ calls' \in Calls
  /\ Fresh(r) /\ UNCHANGED told

\* A call that ends at once, in the session before or with none.
Throws(d) ==
  /\ drv[d].pc = "idle" /\ Alone(d)
  /\ drv'[d].pc = "idle" /\ drv'[d].reply = drv[d].reply
  /\ Keeps(d) \/ (drv'[d].session = calls + 1 /\ drv'[d].testId = 0)
  /\ calls' = calls + 1 /\ calls' \in Calls /\ UNCHANGED <<net, told>>

Resumes(d) ==
  /\ drv[d].pc = "pause" /\ Sends(d, drv[d].req) /\ Keeps(d)
  /\ UNCHANGED <<calls, told>>

\* The same call, with the file or the acceptance.
GoesOn(d, r) ==
  /\ drv[d].pc = "sent" /\ drv[d].reply # None /\ drv[d].reply.ok
  /\ drv[d].req.op \in {"hash", "file"}
  /\ Sends(d, r) /\ Keeps(d)
  /\ r.call = drv[d].req.call /\ r.image = drv[d].req.image
  /\ r.test = drv[d].req.test /\ r.session = drv[d].req.session
  /\ \/ r.op = "file" /\ drv[d].reply.needFile
     \/ r.op = "accept" /\ ~drv[d].reply.needFile /\ r.check = drv[d].reply.id
  /\ (Fresh(drv[d].req) => Fresh(r)) /\ UNCHANGED <<calls, told>>

\* The call ends, with a session, an acceptance or neither.
Takes(d) ==
  \/ drv'[d].testId = drv[d].testId /\ told' = told
  \/ /\ drv[d].req.op = "start" /\ drv[d].reply # None
     /\ drv'[d].testId = drv[d].reply.id /\ told' = told
  \/ /\ drv[d].req.op = "accept" /\ drv[d].reply # None /\ drv[d].reply.ok
     /\ drv'[d].testId = drv[d].testId /\ told' = told \cup {drv[d].req.check}

Returns(d) ==
  /\ drv[d].pc = "sent" /\ Alone(d)
  /\ drv'[d].pc = "idle" /\ drv'[d].reply = None /\ drv'[d].session = drv[d].session
  /\ net' \subseteq net /\ Takes(d) /\ calls' = calls

\* An accept, or a request refused before it was served, will be sent again.
Pauses(d) ==
  /\ drv[d].pc = "sent" /\ Alone(d) /\ Keeps(d)
  /\ drv'[d].pc = "pause" /\ drv'[d].reply = None
  /\ drv'[d].req.call = drv[d].req.call /\ drv'[d].req.op = drv[d].req.op
  /\ drv'[d].req.session = drv[d].req.session /\ drv'[d].req.test = drv[d].req.test
  /\ drv'[d].req.check = drv[d].req.check /\ drv'[d].req.image = drv[d].req.image
  /\ (Fresh(drv[d].req) => Fresh(drv'[d].req)) /\ net' \subseteq net
  /\ drv[d].req.op # "accept" => \E r \in net : Awaited(d, r) /\ net' = net \ {r}
  /\ UNCHANGED <<calls, told>>

LEMMA SendDoes ==
  ASSUME TypeOK, NEW d \in Driver, NEW st \in DriverState, NEW r \in Request,
         Send(d, st, r), UNCHANGED serverVars
  PROVE  Sends(d, r) /\ drv'[d].testId = st.testId /\ drv'[d].session = st.session
<1> DEFINE x == [st EXCEPT !.pc = "sent", !.req = r, !.reply = None]
<1>1. x \in DriverState /\ x.pc = "sent" /\ x.req = r /\ x.reply = None
      /\ x.testId = st.testId /\ x.session = st.session
  BY DEF DriverState
<1>2. drv' = [drv EXCEPT ![d] = x] /\ net' = net \cup {r}
  BY DEF Send
<1> HIDE DEF x
<1>3. drv \in [Driver -> DriverState]
  BY DEF TypeOK
<1>4. drv' \in [Driver -> DriverState] /\ drv'[d] = x /\ \A e \in Driver : e # d => drv'[e] = drv[e]
  BY <1>1, <1>2, <1>3
<1> QED
  BY <1>1, <1>2, <1>4 DEF Sends, Alone

LEMMA ReturnDoes ==
  ASSUME TypeOK, NEW d \in Driver, Return(d), UNCHANGED serverVars
  PROVE  /\ Alone(d) /\ Keeps(d) /\ drv'[d].pc = "idle" /\ drv'[d].reply = None
<1> DEFINE x == [drv[d] EXCEPT !.pc = "idle", !.req = NoRequest, !.reply = None]
<1>1. drv \in [Driver -> DriverState] /\ drv[d] \in DriverState
  BY DEF TypeOK
<1>2. x \in DriverState /\ x.pc = "idle" /\ x.reply = None
      /\ x.testId = drv[d].testId /\ x.session = drv[d].session
  BY <1>1, NoRequestTyped DEF DriverState
<1>3. drv' = [drv EXCEPT ![d] = x]
  BY <1>1 DEF Return, DriverState
<1> HIDE DEF x
<1>4. drv' \in [Driver -> DriverState] /\ drv'[d] = x /\ \A e \in Driver : e # d => drv'[e] = drv[e]
  BY <1>1, <1>2, <1>3
<1> QED
  BY <1>2, <1>4 DEF Alone, Keeps

LEMMA FailedDoes ==
  ASSUME TypeOK, NEW d \in Driver, drv[d].pc = "sent", NEW b, Failed(d, b),
         UNCHANGED <<serverVars, calls>>, net' \subseteq net,
         b = "401" => \E r \in net : Awaited(d, r) /\ net' = net \ {r}
  PROVE  Returns(d) \/ Pauses(d)
<1>1. drv \in [Driver -> DriverState] /\ drv[d] \in DriverState
  BY DEF TypeOK
<1>2. drv[d].req \in Request
  BY <1>1, DriverFields
<1>3. CASE /\ Repeated(drv[d].req.op, b)
           /\ drv[d].req.attempt < MaxAttempts
  <2> DEFINE q == [drv[d].req EXCEPT !.attempt = NextAttempt(@, b)]
             x == [drv[d] EXCEPT !.pc = "pause", !.reply = None, !.req = q]
  <2>1. drv[d].req.attempt + 1 \in 1..MaxAttempts
    BY <1>2, <1>3, RequestFields, ClientAssumption
  <2>2. q \in Request /\ q.call = drv[d].req.call /\ q.op = drv[d].req.op
        /\ q.session = drv[d].req.session /\ q.test = drv[d].req.test
        /\ q.check = drv[d].req.check /\ q.image = drv[d].req.image
        /\ (Fresh(drv[d].req) => Fresh(q))
    BY <1>2, <2>1 DEF Request, NextAttempt, Fresh
  <2> HIDE DEF q
  <2>3. x \in DriverState /\ x.pc = "pause" /\ x.reply = None /\ x.req = q
        /\ x.testId = drv[d].testId /\ x.session = drv[d].session
    BY <1>1, <2>2 DEF DriverState
  <2>4. drv' = [drv EXCEPT ![d].pc = "pause", ![d].reply = None,
                           ![d].req.attempt = NextAttempt(@, b)] /\ UNCHANGED told
    BY <1>3 DEF Failed
  <2>5. drv' = [drv EXCEPT ![d] = x]
    BY <1>1, <2>4 DEF q, DriverState
  <2> HIDE DEF x
  <2>6. drv' \in [Driver -> DriverState] /\ drv'[d] = x /\ \A e \in Driver : e # d => drv'[e] = drv[e]
    BY <1>1, <2>3, <2>5
  <2>7. drv[d].req.op # "accept" => b = "401"
    BY <1>3 DEF Repeated, Idempotent
  <2> QED
    BY <2>2, <2>3, <2>4, <2>6, <2>7 DEF Pauses, Alone, Keeps
<1>4. CASE ~(/\ Repeated(drv[d].req.op, b)
             /\ drv[d].req.attempt < MaxAttempts)
  <2>1. Return(d) /\ UNCHANGED told
    BY <1>4 DEF Failed, GiveUp
  <2> QED
    BY <2>1, ReturnDoes DEF Returns, Takes, Keeps
<1> QED
  BY <1>3, <1>4

LEMMA CallDoes ==
  ASSUME TypeOK, NEW d \in Driver, Begin(d), UNCHANGED <<serverVars, told>>
  PROVE  /\ drv[d].pc = "idle" /\ calls + 1 \in Calls /\ calls' = calls + 1
         /\ drv[d] \in DriverState
         /\ drv[d].testId \in Calls /\ drv[d].session \in Calls
<1>1. drv[d] \in DriverState /\ calls \in Nat /\ MaxCalls \in Nat
  BY Parts
<1> QED
  BY <1>1, DriverFields DEF Begin, Count, Calls

LEMMA ThrowThrows ==
  ASSUME TypeOK, NEW d \in Driver, ThrowAtOnce(d)
  PROVE  Throws(d)
<1>1. Begin(d) /\ UNCHANGED <<serverVars, told>> /\ net' = net
      /\ (drv' = drv \/ drv' = [drv EXCEPT ![d] = StartState(d)])
  BY DEF ThrowAtOnce
<1>2. /\ drv[d].pc = "idle" /\ calls + 1 \in Calls /\ calls' = calls + 1
      /\ drv[d] \in DriverState /\ drv \in [Driver -> DriverState]
  BY <1>1, CallDoes DEF TypeOK
<1>3. CASE drv' = drv
  BY <1>1, <1>2, <1>3 DEF Throws, Alone, Keeps
<1>4. CASE drv' = [drv EXCEPT ![d] = StartState(d)]
  <2> DEFINE x == StartState(d)
  <2>1. /\ x \in DriverState /\ x.session = calls + 1 /\ x.testId = 0
        /\ x.pc = drv[d].pc /\ x.reply = drv[d].reply
    BY <1>2, NoneIsCall DEF StartState, DriverState
  <2> HIDE DEF x
  <2>2. drv' \in [Driver -> DriverState] /\ drv'[d] = x /\ \A e \in Driver : e # d => drv'[e] = drv[e]
    BY <1>2, <1>4, <2>1 DEF x
  <2> QED
    BY <1>1, <1>2, <2>1, <2>2 DEF Throws, Alone
<1> QED
  BY <1>1, <1>3, <1>4

LEMMA StartCalls ==
  ASSUME TypeOK, NEW d \in Driver, Start(d)
  PROVE  \E r \in Request : Calling(d, r)
<1> DEFINE r == [NoRequest EXCEPT !.call = calls + 1]
<1>1. Begin(d) /\ Send(d, StartState(d), r) /\ UNCHANGED <<serverVars, told>>
  BY DEF Start
<1>2. /\ drv[d].pc = "idle" /\ calls + 1 \in Calls /\ calls' = calls + 1
      /\ drv[d] \in DriverState
  BY <1>1, CallDoes
<1>3. r \in Request /\ Fresh(r) /\ r.call = calls + 1 /\ r.op = "start"
  BY <1>2, NoRequestTyped DEF Request, Fresh
<1>4. StartState(d) \in DriverState /\ StartState(d).session = calls + 1 /\ StartState(d).testId = 0
  BY <1>2, NoneIsCall DEF StartState, DriverState
<1> HIDE DEF r
<1>5. Sends(d, r) /\ drv'[d].testId = 0 /\ drv'[d].session = calls + 1
  BY <1>1, <1>3, <1>4, SendDoes
<1> QED
  BY <1>1, <1>2, <1>3, <1>5 DEF Calling, Opens

LEMMA StopCalls ==
  ASSUME TypeOK, NEW d \in Driver, Stop(d)
  PROVE  \E r \in Request : Calling(d, r)
<1> DEFINE r == [NoRequest EXCEPT !.call = calls + 1, !.op = "stop", !.test = drv[d].testId]
<1>1. Begin(d) /\ Send(d, StopState(d), r) /\ UNCHANGED <<serverVars, told>>
  BY DEF Stop
<1>2. /\ drv[d].pc = "idle" /\ calls + 1 \in Calls /\ calls' = calls + 1
      /\ drv[d] \in DriverState /\ drv[d].testId \in Calls
  BY <1>1, CallDoes
<1>3. r \in Request /\ Fresh(r) /\ r.call = calls + 1 /\ r.op = "stop" /\ r.test = drv[d].testId
  BY <1>2, NoRequestTyped DEF Request, Fresh, Ops
<1>4. StopState(d) \in DriverState /\ StopState(d).session = drv[d].session /\ StopState(d).testId = 0
  BY <1>2, NoneIsCall DEF StopState, DriverState
<1> HIDE DEF r
<1>5. Sends(d, r) /\ drv'[d].testId = 0 /\ drv'[d].session = drv[d].session
  BY <1>1, <1>3, <1>4, SendDoes
<1> QED
  BY <1>1, <1>2, <1>3, <1>5 DEF Calling, Opens

LEMMA CheckCalls ==
  ASSUME TypeOK, NEW d \in Driver, NEW i \in Image, CheckImage(d, i)
  PROVE  \E r \in Request : Calling(d, r)
<1> DEFINE r == [NoRequest EXCEPT !.call = calls + 1, !.op = "hash", !.image = i,
                                  !.test = drv[d].testId, !.session = drv[d].session]
<1>1. /\ Begin(d) /\ drv[d].testId # 0 /\ Send(d, drv[d], r) /\ UNCHANGED <<serverVars, told>>
  BY DEF CheckImage
<1>2. /\ drv[d].pc = "idle" /\ calls + 1 \in Calls /\ calls' = calls + 1
      /\ drv[d] \in DriverState /\ drv[d].testId \in Calls /\ drv[d].session \in Calls
  BY <1>1, CallDoes
<1>3. r \in Request /\ Fresh(r) /\ r.call = calls + 1 /\ r.op = "hash" /\ r.test = drv[d].testId
      /\ r.session = drv[d].session /\ r.image = i
  BY <1>2, NoRequestTyped DEF Request, Fresh, Ops
<1> HIDE DEF r
<1>4. Sends(d, r) /\ Keeps(d)
  BY <1>1, <1>2, <1>3, SendDoes DEF Keeps
<1> QED
  BY <1>1, <1>2, <1>3, <1>4 DEF Calling, Opens

LEMMA ResumeResumes ==
  ASSUME TypeOK, NEW d \in Driver, Resume(d)
  PROVE  Resumes(d)
<1>1. drv[d] \in DriverState
  BY Parts
<1>2. drv[d].req \in Request
  BY <1>1, DriverFields
<1>3. drv[d].pc = "pause" /\ Send(d, drv[d], drv[d].req) /\ UNCHANGED <<serverVars, calls, told>>
  BY DEF Resume
<1>4. Sends(d, drv[d].req) /\ Keeps(d)
  BY <1>1, <1>2, <1>3, SendDoes DEF Keeps
<1> QED
  BY <1>3, <1>4 DEF Resumes

LEMMA AnsweredDoes ==
  ASSUME TypeOK, NEW d \in Driver, Answered(d)
  PROVE  Returns(d) \/ Pauses(d) \/ \E r \in Request : GoesOn(d, r)
<1> DEFINE r == drv[d].req  a == drv[d].reply
<1>1. drv \in [Driver -> DriverState] /\ drv[d] \in DriverState
  BY DEF TypeOK
<1>2. /\ drv[d].pc = "sent" /\ a # None /\ UNCHANGED <<serverVars, calls>>
      /\ \/ a.ok /\ Proceed(d)
         \/ ~a.ok /\ Failed(d, IF a.again THEN "transient" ELSE "final") /\ UNCHANGED net
  BY DEF Answered
<1>3. a \in Reply /\ r \in Request
  BY <1>1, <1>2, DriverFields
<1>4. CASE ~a.ok
  <2>1. PICK b \in {"transient", "final"} : Failed(d, b) /\ UNCHANGED net
    BY <1>2, <1>4
  <2>2. b # "401"
    BY <2>1
  <2> QED
    BY <1>2, <2>1, <2>2, FailedDoes
<1>5. ASSUME a.ok, r.op = "start",
             drv' = [drv EXCEPT ![d].pc = "idle", ![d].testId = a.id,
                                ![d].req = NoRequest, ![d].reply = None],
             UNCHANGED <<net, told>>
      PROVE  Returns(d)
  <2> DEFINE x == [drv[d] EXCEPT !.pc = "idle", !.testId = a.id, !.req = NoRequest, !.reply = None]
  <2>1. x \in DriverState /\ x.pc = "idle" /\ x.reply = None
        /\ x.testId = a.id /\ x.session = drv[d].session
    BY <1>1, <1>3, NoRequestTyped, ReplyFields DEF DriverState
  <2>2. drv' = [drv EXCEPT ![d] = x]
    BY <1>1, <1>5 DEF DriverState
  <2> HIDE DEF x
  <2>3. drv' \in [Driver -> DriverState] /\ drv'[d] = x /\ \A e \in Driver : e # d => drv'[e] = drv[e]
    BY <1>1, <2>1, <2>2
  <2> QED
    BY <1>2, <1>5, <2>1, <2>3 DEF Returns, Takes, Alone
<1>6. ASSUME Return(d), UNCHANGED <<net, told>>
      PROVE  Returns(d)
  BY <1>2, <1>6, ReturnDoes DEF Returns, Takes, Keeps
<1>7. ASSUME a.ok, r.op = "accept", Return(d), told' = told \cup {r.check}, UNCHANGED net
      PROVE  Returns(d)
  BY <1>2, <1>7, ReturnDoes DEF Returns, Takes, Keeps
<1>8. ASSUME a.ok, r.op = "hash", a.needFile, UNCHANGED told,
             Send(d, drv[d], [r EXCEPT !.op = "file", !.attempt = 1])
      PROVE  \E q \in Request : GoesOn(d, q)
  <2> DEFINE q == [r EXCEPT !.op = "file", !.attempt = 1]
  <2>1. 1 \in 1..MaxAttempts
    BY ClientAssumption
  <2>2. q \in Request /\ q.call = r.call /\ q.image = r.image /\ q.test = r.test
        /\ q.session = r.session /\ (Fresh(r) => Fresh(q)) /\ q.op = "file"
    BY <1>3, <2>1 DEF Request, Ops, Fresh
  <2>3. Send(d, drv[d], q)
    BY <1>8
  <2> HIDE DEF q
  <2>4. Sends(d, q) /\ Keeps(d)
    BY <1>1, <1>2, <2>2, <2>3, SendDoes DEF Keeps
  <2> QED
    BY <1>2, <1>8, <2>2, <2>4 DEF GoesOn
<1>9. ASSUME a.ok, r.op \in {"hash", "file"}, ~a.needFile, UNCHANGED told,
             Send(d, drv[d], [r EXCEPT !.op = "accept", !.attempt = 1, !.check = a.id])
      PROVE  \E q \in Request : GoesOn(d, q)
  <2> DEFINE q == [r EXCEPT !.op = "accept", !.attempt = 1, !.check = a.id]
  <2>1. 1 \in 1..MaxAttempts /\ a.id \in Calls
    BY <1>3, ClientAssumption, ReplyFields
  <2>2. q \in Request /\ q.call = r.call /\ q.image = r.image /\ q.test = r.test
        /\ q.session = r.session /\ (Fresh(r) => Fresh(q)) /\ q.op = "accept" /\ q.check = a.id
    BY <1>3, <2>1 DEF Request, Ops, Fresh
  <2>3. Send(d, drv[d], q)
    BY <1>9
  <2> HIDE DEF q
  <2>4. Sends(d, q) /\ Keeps(d)
    BY <1>1, <1>2, <2>2, <2>3, SendDoes DEF Keeps
  <2> QED
    BY <1>2, <1>9, <2>2, <2>4 DEF GoesOn
<1>10. CASE a.ok
  <2>1. Proceed(d)
    BY <1>2, <1>10
  <2> QED
    BY <2>1, <1>5, <1>6, <1>7, <1>8, <1>9, <1>10 DEF Proceed
<1> QED
  BY <1>3, <1>4, <1>10, ReplyFields

LEMMA BreakDoes ==
  ASSUME TypeOK, NEW d \in Driver, Break(d)
  PROVE  Returns(d) \/ Pauses(d)
<1>1. PICK b \in {"transient", "final"} : Failed(d, b)
  BY DEF Break
<1>2. drv[d].pc = "sent" /\ UNCHANGED <<serverVars, calls>> /\ net' \subseteq net
  BY DEF Break
<1>3. b # "401"
  BY <1>1
<1> QED
  BY <1>1, <1>2, <1>3, FailedDoes

LEMMA RefuseDoes ==
  ASSUME TypeOK, NEW d \in Driver, NEW r \in net, Refuse(d, r)
  PROVE  Returns(d) \/ Pauses(d)
<1>1. Awaited(d, r) /\ net' = net \ {r} /\ Failed(d, "401") /\ UNCHANGED <<serverVars, calls>>
  BY DEF Refuse
<1>2. drv[d].pc = "sent"
  BY <1>1 DEF Awaited, Live
<1> QED
  BY <1>1, <1>2, FailedDoes

\* The steps of a driver are of six kinds.
LEMMA DriveDoes ==
  ASSUME TypeOK, NEW d \in Driver, Drive(d)
  PROVE  \/ \E r \in Request : Calling(d, r)
         \/ Throws(d)
         \/ Resumes(d)
         \/ \E r \in Request : GoesOn(d, r)
         \/ Returns(d)
         \/ Pauses(d)
BY ThrowThrows, StartCalls, StopCalls, CheckCalls, ResumeResumes, AnsweredDoes, BreakDoes, RefuseDoes DEF Drive

-----------------------------------------------------------------------------
(* What the steps of the server and of people do *)

\* r is answered with a: the driver gets it if it still waits for r.
Answers(r, a) ==
  /\ net' = net \ {r}
  /\ drv' \in [Driver -> DriverState]
  /\ \A d \in Driver :
       /\ drv'[d].pc = drv[d].pc /\ drv'[d].req = drv[d].req
       /\ drv'[d].testId = drv[d].testId /\ drv'[d].session = drv[d].session
       /\ \/ Awaited(d, r) /\ drv'[d].reply = a
          \/ ~Awaited(d, r) /\ drv'[d].reply = drv[d].reply
  /\ UNCHANGED <<calls, told>>

Like(s, r) ==
  /\ s.call = r.call /\ s.op = r.op /\ s.session = r.session /\ s.test = r.test
  /\ s.check = r.check /\ s.image = r.image

\* The server goes on with r, and marks other requests to accept.
Reads(r) ==
  /\ \E s \in Request : Like(s, r) /\ Upserting(s) /\ \A q \in net' :
       \/ q = s
       \/ q \in net /\ q # r
       \/ q \in Request /\ q.op = "accept" /\ \E p \in net : Like(q, p)
  /\ UNCHANGED <<drv, test, check, calls, told>>

AddsTest(k) ==
  /\ test' \in Seq(TestDoc) /\ DOMAIN test' = DOMAIN test \cup {Len(test) + 1}
  /\ \A t \in DOMAIN test : test'[t] = test[t]
  /\ test'[Len(test) + 1].call = k /\ test'[Len(test) + 1].running
  /\ UNCHANGED <<check, rows, landed>>

\* At most u is ended.
EndsTest(u) ==
  /\ test' \in Seq(TestDoc) /\ DOMAIN test' = DOMAIN test
  /\ \A t \in DOMAIN test : /\ test'[t].call = test[t].call
                            /\ t # u => test'[t] = test[t]
  /\ UNCHANGED <<check, rows, landed>>

AddsCheck(r) ==
  /\ check' \in Seq(CheckDoc) /\ DOMAIN check' = DOMAIN check \cup {Len(check) + 1}
  /\ \A c \in DOMAIN check : check'[c] = check[c]
  /\ check'[Len(check) + 1].call = r.call /\ check'[Len(check) + 1].session = r.session
  /\ check'[Len(check) + 1].test = r.test /\ check'[Len(check) + 1].image = r.image
  /\ UNCHANGED <<test, rows, landed>>

\* c is accepted; the other fields of a check that matter stay.
Accepts(c) ==
  /\ check' \in Seq(CheckDoc) /\ DOMAIN check' = DOMAIN check
  /\ \A e \in DOMAIN check :
       /\ check'[e].call = check[e].call /\ check'[e].session = check[e].session
       /\ check'[e].test = check[e].test /\ check'[e].image = check[e].image
       /\ check[e].accepted => check'[e].accepted
  /\ c \in DOMAIN check => check'[c].accepted

\* i has a row, which is the newest one if there was none.
Puts(i) ==
  /\ rows' \in Seq(Image) /\ IsInjective(rows')
  /\ DOMAIN rows \subseteq DOMAIN rows'
  /\ \A k \in DOMAIN rows : rows'[k] = rows[k]
  /\ \A k \in DOMAIN rows' : k \in DOMAIN rows \/ rows'[k] = i
  /\ \E k \in DOMAIN rows' : rows'[k] = i
  /\ rows' = rows \/ \A k \in DOMAIN rows : rows[k] # i

\* The rows are in another order.
Reorders ==
  /\ rows' \in Seq(Image) /\ IsInjective(rows')
  /\ \A k \in DOMAIN rows : \E l \in DOMAIN rows' : rows'[l] = rows[k]
  /\ \A l \in DOMAIN rows' : \E k \in DOMAIN rows : rows'[l] = rows[k]

\* The row at j goes, the others stay.
Drops(j) ==
  /\ rows' \in Seq(Image) /\ IsInjective(rows')
  /\ \A k \in DOMAIN rows : k # j => \E l \in DOMAIN rows' : rows'[l] = rows[k]
  /\ \A l \in DOMAIN rows' : \E k \in DOMAIN rows : k # j /\ rows'[l] = rows[k]

LEMMA Appended ==
  ASSUME NEW S, NEW s \in Seq(S), NEW x \in S
  PROVE  /\ Append(s, x) \in Seq(S) /\ Append(s, x)[Len(s) + 1] = x
         /\ DOMAIN Append(s, x) = DOMAIN s \cup {Len(s) + 1}
         /\ \A k \in DOMAIN s : Append(s, x)[k] = s[k]
         /\ Len(s) + 1 \notin DOMAIN s
<1>1. /\ Append(s, x) \in Seq(S) /\ Append(s, x)[Len(s) + 1] = x
      /\ Len(Append(s, x)) = Len(s) + 1
      /\ \A k \in 1..Len(s) : Append(s, x)[k] = s[k]
  BY AppendProperties
<1>2. DOMAIN s = 1..Len(s) /\ Len(s) \in Nat
      /\ DOMAIN Append(s, x) = 1..Len(Append(s, x))
  BY <1>1, LenProperties
<1>3. 1..(Len(s) + 1) = 1..Len(s) \cup {Len(s) + 1}
  BY <1>2
<1> QED
  BY <1>1, <1>2, <1>3

LEMMA Updated ==
  ASSUME NEW S, NEW s \in Seq(S), NEW k, NEW x, k \in DOMAIN s => x \in S
  PROVE  /\ [s EXCEPT ![k] = x] \in Seq(S) /\ DOMAIN [s EXCEPT ![k] = x] = DOMAIN s
         /\ \A j \in DOMAIN s : j # k => [s EXCEPT ![k] = x][j] = s[j]
         /\ k \in DOMAIN s => [s EXCEPT ![k] = x][k] = x
<1>1. s \in [1..Len(s) -> S] /\ Len(s) \in Nat /\ DOMAIN s = 1..Len(s)
  BY LenProperties
<1>2. [s EXCEPT ![k] = x] \in [1..Len(s) -> S]
  BY <1>1
<1>3. [s EXCEPT ![k] = x] \in Seq(S)
  BY <1>1, <1>2, SeqDef
<1> QED
  BY <1>1, <1>3

LEMMA DoneDoes ==
  ASSUME TypeOK, NEW r \in net, NEW a \in Reply, Done(r, a)
  PROVE  Answers(r, a)
<1>1. drv \in [Driver -> DriverState]
  BY DEF TypeOK
<1>2. /\ net' = net \ {r} /\ UNCHANGED <<calls, told>>
      /\ drv' = [d \in Driver |-> IF Awaited(d, r) THEN [drv[d] EXCEPT !.reply = a] ELSE drv[d]]
  BY DEF Done, Answer
<1>3. ASSUME NEW d \in Driver
      PROVE  /\ drv'[d] \in DriverState
             /\ drv'[d].pc = drv[d].pc /\ drv'[d].req = drv[d].req
             /\ drv'[d].testId = drv[d].testId /\ drv'[d].session = drv[d].session
             /\ \/ Awaited(d, r) /\ drv'[d].reply = a
                \/ ~Awaited(d, r) /\ drv'[d].reply = drv[d].reply
  <2> DEFINE x == [drv[d] EXCEPT !.reply = a]
  <2>1. drv[d] \in DriverState
    BY <1>1
  <2>2. x \in DriverState /\ x.pc = drv[d].pc /\ x.req = drv[d].req
        /\ x.testId = drv[d].testId /\ x.session = drv[d].session /\ x.reply = a
    BY <2>1 DEF DriverState
  <2>3. drv'[d] = IF Awaited(d, r) THEN x ELSE drv[d]
    BY <1>2
  <2> QED
    BY <2>1, <2>2, <2>3
<1>4. drv' \in [Driver -> DriverState]
  <2>1. DOMAIN drv' = Driver /\ drv' = [d \in Driver |-> drv'[d]]
    BY <1>2
  <2> QED
    BY <1>3, <2>1
<1> QED
  BY <1>2, <1>3, <1>4 DEF Answers

LEMMA UpsertPuts ==
  ASSUME TypeOK, NEW i \in Image, Upsert(i)
  PROVE  Puts(i)
<1>1. rows \in Seq(Image) /\ IsInjective(rows) /\ DOMAIN rows = 1..Len(rows)
  BY LenProperties DEF TypeOK
<1>2. CASE Contains(rows, i)
  BY <1>1, <1>2 DEF Upsert, Contains, Puts
<1>3. CASE ~Contains(rows, i)
  <2>1. rows' = Append(rows, i) /\ \A k \in DOMAIN rows : rows[k] # i
    BY <1>1, <1>3 DEF Upsert, Contains
  <2>2. /\ rows' \in Seq(Image) /\ rows'[Len(rows) + 1] = i
        /\ DOMAIN rows' = DOMAIN rows \cup {Len(rows) + 1}
        /\ \A k \in DOMAIN rows : rows'[k] = rows[k]
    BY <1>1, <2>1, Appended
  <2>3. IsInjective(rows')
    BY <1>1, <2>1, <2>2 DEF IsInjective
  <2> QED
    BY <2>1, <2>2, <2>3 DEF Puts
<1> QED
  BY <1>2, <1>3

LEMMA Removed ==
  ASSUME NEW s \in Seq(Image), IsInjective(s), NEW j \in DOMAIN s, NEW t, t = RemoveAt(s, j)
  PROVE  /\ t \in Seq(Image) /\ IsInjective(t)
         /\ \A k \in DOMAIN s : k # j => \E l \in DOMAIN t : t[l] = s[k]
         /\ \A l \in DOMAIN t : \E k \in DOMAIN s : k # j /\ t[l] = s[k]
<1>1. s \in Seq(Image) /\ IsInjective(s) /\ DOMAIN s = 1..Len(s) /\ Len(s) \in Nat
      /\ \A k \in 1..Len(s) : s[k] \in Image
  BY LenProperties, ElementOfSeq
<1>2. j \in Nat /\ 1 <= j /\ j <= Len(s)
  BY <1>1
<1> DEFINE n == Len(s)  A == SubSeq(s, 1, j - 1)  B == SubSeq(s, j + 1, n)
<1>3. A \in Seq(Image) /\ Len(A) = j - 1 /\ \A k \in 1..(j - 1) : A[k] = s[k]
  <2>1. \A k \in 1..(j - 1) : s[k] \in Image
    BY <1>1, <1>2
  <2>2. 1 \in Int /\ j - 1 \in Int
    BY <1>2
  <2>3. /\ A \in Seq(Image) /\ Len(A) = IF 1 <= j - 1 THEN (j - 1) - 1 + 1 ELSE 0
        /\ \A k \in 1..((j - 1) - 1 + 1) : A[k] = s[1 + k - 1]
    BY <2>1, <2>2, SubSeqProperties
  <2> QED
    BY <1>2, <2>3
<1>4. B \in Seq(Image) /\ Len(B) = n - j /\ \A k \in 1..(n - j) : B[k] = s[j + k]
  <2>1. \A k \in (j + 1)..n : s[k] \in Image
    BY <1>1, <1>2
  <2>2. j + 1 \in Int /\ n \in Int
    BY <1>1, <1>2
  <2>3. /\ B \in Seq(Image) /\ Len(B) = IF j + 1 <= n THEN n - (j + 1) + 1 ELSE 0
        /\ \A k \in 1..(n - (j + 1) + 1) : B[k] = s[(j + 1) + k - 1]
    BY <2>1, <2>2, SubSeqProperties
  <2> QED
    BY <1>1, <1>2, <2>3
<1>5. t = A \o B
  BY DEF RemoveAt
<1> HIDE DEF A, B
<1>6. /\ t \in Seq(Image) /\ Len(t) = Len(A) + Len(B)
      /\ \A k \in 1..(Len(A) + Len(B)) : t[k] = IF k <= Len(A) THEN A[k] ELSE B[k - Len(A)]
  <2>1. A \in Seq(Image) /\ B \in Seq(Image)
    BY <1>3, <1>4
  <2> QED
    BY <1>5, <2>1, ConcatProperties
<1>7. Len(t) = n - 1 /\ DOMAIN t = 1..(n - 1)
  <2>1. Len(t) = n - 1
    BY <1>1, <1>2, <1>3, <1>4, <1>6
  <2> QED
    BY <1>6, <2>1, LenProperties
<1>8. \A k \in 1..(n - 1) : t[k] = IF k < j THEN s[k] ELSE s[k + 1]
  <2> TAKE k \in 1..(n - 1)
  <2>1. t[k] = IF k <= j - 1 THEN A[k] ELSE B[k - (j - 1)]
    BY <1>1, <1>2, <1>3, <1>4, <1>6
  <2>2. CASE k < j
    BY <1>2, <1>3, <2>1, <2>2
  <2>3. CASE k >= j
    <3>1. k - (j - 1) \in 1..(n - j) /\ j + (k - (j - 1)) = k + 1
      BY <1>1, <1>2, <2>3
    <3>2. B[k - (j - 1)] = s[k + 1]
      BY <1>4, <3>1
    <3> QED
      BY <1>2, <2>1, <2>3, <3>2
  <2> QED
    BY <1>2, <2>2, <2>3
<1>9. \A k \in 1..n : k # j => \E l \in 1..(n - 1) : t[l] = s[k]
  <2> SUFFICES ASSUME NEW k \in 1..n, k # j PROVE \E l \in 1..(n - 1) : t[l] = s[k]
    OBVIOUS
  <2>1. CASE k < j
    <3>1. k \in 1..(n - 1)
      BY <1>1, <1>2, <2>1
    <3> QED
      BY <1>8, <2>1, <3>1
  <2>2. CASE k > j
    <3>1. k - 1 \in 1..(n - 1) /\ ~(k - 1 < j) /\ (k - 1) + 1 = k
      BY <1>1, <1>2, <2>2
    <3> QED
      BY <1>8, <3>1
  <2> QED
    BY <1>2, <2>1, <2>2
<1>10. \A l \in 1..(n - 1) : \E k \in 1..n : k # j /\ t[l] = s[k]
  <2> TAKE l \in 1..(n - 1)
  <2>1. CASE l < j
    BY <1>1, <1>2, <1>8, <2>1
  <2>2. CASE ~(l < j)
    <3>1. l + 1 \in 1..n /\ l + 1 # j
      BY <1>1, <1>2, <2>2
    <3> QED
      BY <1>8, <2>2, <3>1
  <2> QED
    BY <2>1, <2>2
<1>11. IsInjective(t)
  <2> SUFFICES ASSUME NEW k \in 1..(n - 1), NEW l \in 1..(n - 1), t[k] = t[l] PROVE k = l
    BY <1>7 DEF IsInjective
  <2>1. \A x, y \in 1..n : s[x] = s[y] => x = y
    BY <1>1 DEF IsInjective
  <2>2. k \in 1..n /\ l \in 1..n /\ k + 1 \in 1..n /\ l + 1 \in 1..n
    BY <1>1
  <2>3. CASE k < j /\ l < j
    BY <1>8, <2>1, <2>2, <2>3
  <2>4. CASE ~(k < j) /\ ~(l < j)
    <3>1. k + 1 = l + 1
      BY <1>8, <2>1, <2>2, <2>4
    <3> QED
      BY <3>1
  <2>5. CASE k < j /\ ~(l < j)
    <3>1. k = l + 1
      BY <1>8, <2>1, <2>2, <2>5
    <3> QED
      BY <1>2, <2>5, <3>1
  <2>6. CASE ~(k < j) /\ l < j
    <3>1. k + 1 = l
      BY <1>8, <2>1, <2>2, <2>6
    <3> QED
      BY <1>2, <2>6, <3>1
  <2> QED
    BY <2>3, <2>4, <2>5, <2>6
<1> QED
  BY <1>1, <1>6, <1>7, <1>9, <1>10, <1>11

LEMMA RemoveDrops ==
  ASSUME TypeOK, NEW j \in DOMAIN rows, RemoveRow(j)
  PROVE  Drops(j)
<1>1. rows \in Seq(Image) /\ IsInjective(rows) /\ rows' = RemoveAt(rows, j)
  BY DEF TypeOK, RemoveRow
<1> QED
  BY <1>1, Removed DEF Drops

LEMMA RestampDoes ==
  ASSUME TypeOK, NEW i, Restamp(i)
  PROVE  Reorders /\ \E k \in DOMAIN rows : rows[k] = i
<1>1. rows \in Seq(Image) /\ IsInjective(rows) /\ DOMAIN rows = 1..Len(rows)
  BY LenProperties DEF TypeOK
<1>2. PICK j \in DOMAIN rows : rows[j] = i /\ rows' = Append(RemoveAt(rows, j), i)
  BY DEF Restamp
<1>3. i \in Image
  BY <1>1, <1>2, ElementOfSeq
<1>4. PICK t : t = RemoveAt(rows, j) /\ IsInjective(rows) /\ rows \in Seq(Image)
  BY <1>1
<1>5. /\ t \in Seq(Image) /\ IsInjective(t)
      /\ \A k \in DOMAIN rows : k # j => \E l \in DOMAIN t : t[l] = rows[k]
      /\ \A l \in DOMAIN t : \E k \in DOMAIN rows : k # j /\ t[l] = rows[k]
  BY ONLY <1>4, j \in DOMAIN rows, Removed
<1>6. /\ rows' \in Seq(Image) /\ rows'[Len(t) + 1] = i
      /\ DOMAIN rows' = DOMAIN t \cup {Len(t) + 1}
      /\ \A k \in DOMAIN t : rows'[k] = t[k]
  BY <1>2, <1>3, <1>4, <1>5, Appended
<1>7. \A l \in DOMAIN t : t[l] # i
  BY <1>1, <1>2, <1>5 DEF IsInjective
<1>8. IsInjective(rows')
  BY <1>5, <1>6, <1>7 DEF IsInjective
<1>9. \A k \in DOMAIN rows : \E l \in DOMAIN rows' : rows'[l] = rows[k]
  BY <1>2, <1>5, <1>6
<1>10. \A l \in DOMAIN rows' : \E k \in DOMAIN rows : rows'[l] = rows[k]
  BY <1>2, <1>5, <1>6
<1> QED
  BY <1>2, <1>6, <1>8, <1>9, <1>10 DEF Reorders

\* There is room for the document of a call that has made none.
LEMMA RoomForMore ==
  ASSUME Base, NEW r \in net
  PROVE  /\ r.op = "start" => Len(test) + 1 \in Calls
         /\ r.op \in {"hash", "file"} => Len(check) + 1 \in Calls
<1>1. /\ r.call \in 1..calls /\ Unmade(r.call, r.op) /\ AtMostOnce /\ DocsNumbered
  BY DEF Base, RequestsNumbered, NotYet
<1>2. /\ DOMAIN test = 1..Len(test) /\ Len(test) \in Nat
      /\ DOMAIN check = 1..Len(check) /\ Len(check) \in Nat
      /\ calls \in Nat /\ MaxCalls \in Nat /\ calls <= MaxCalls
  BY Parts DEF Base
<1>3. ASSUME r.op = "start" PROVE Len(test) + 1 \in Calls
  <2> DEFINE f == [t \in 1..Len(test) |-> test[t].call]
  <2>1. /\ \A t \in 1..Len(test) : f[t] \in 1..calls /\ f[t] # r.call
        /\ \A t, u \in 1..Len(test) : f[t] = f[u] => t = u
    BY <1>1, <1>2, <1>3 DEF DocsNumbered, Unmade, AtMostOnce
  <2> HIDE DEF f
  <2>2. Len(test) + 1 <= calls
    BY <1>1, <1>2, <2>1, Room
  <2> QED
    BY <1>2, <2>2 DEF Calls
<1>4. ASSUME r.op \in {"hash", "file"} PROVE Len(check) + 1 \in Calls
  <2> DEFINE f == [c \in 1..Len(check) |-> check[c].call]
  <2>1. /\ \A c \in 1..Len(check) : f[c] \in 1..calls /\ f[c] # r.call
        /\ \A c, e \in 1..Len(check) : f[c] = f[e] => c = e
    BY <1>1, <1>2, <1>4 DEF DocsNumbered, Unmade, AtMostOnce
  <2> HIDE DEF f
  <2>2. Len(check) + 1 <= calls
    BY <1>1, <1>2, <2>1, Room
  <2> QED
    BY <1>2, <2>2 DEF Calls
<1> QED
  BY <1>3, <1>4


\* The checks are fewer than the calls.
LEMMA ChecksCounted ==
  ASSUME Base, NEW c \in DOMAIN check
  PROVE  c \in Calls
<1>1. /\ DOMAIN check = 1..Len(check) /\ Len(check) \in Nat
      /\ calls \in Nat /\ MaxCalls \in Nat /\ calls <= MaxCalls
  BY Parts DEF Base
<1>2. /\ \A e \in 1..Len(check) : check[e].call \in 1..calls
      /\ \A e, f \in 1..Len(check) : check[e].call = check[f].call => e = f
  BY <1>1 DEF Base, DocsNumbered, AtMostOnce
<1> DEFINE f == [e \in 1..Len(check) |-> check[e].call]
<1>3. /\ \A e \in 1..Len(check) : f[e] \in 1..calls
      /\ \A e, g \in 1..Len(check) : f[e] = f[g] => e = g
  BY <1>2
<1> HIDE DEF f
<1>4. Len(check) <= calls
  BY <1>1, <1>3, Fits
<1> QED
  BY <1>1, <1>4 DEF Calls

LEMMA StartSessionDoes ==
  ASSUME Base, NEW r \in net, StartSession(r)
  PROVE  \E a \in Reply : /\ Answers(r, a) /\ a.ok /\ ~a.needFile /\ a.id = Len(test) + 1
                          /\ r.op = "start" /\ AddsTest(r.call)
<1> DEFINE a == Success(Len(test) + 1, FALSE)
           x == [call |-> r.call, running |-> TRUE]
<1>1. TypeOK /\ r.op = "start" /\ Done(r, a) /\ test' = Append(test, x) /\ UNCHANGED <<check, rows, landed>>
  BY DEF StartSession, Base
<1>2. Len(test) + 1 \in Calls /\ r.call \in Calls /\ test \in Seq(TestDoc)
  BY <1>1, RoomForMore, Parts, RequestFields DEF TypeOK
<1>3. a \in Reply /\ a.ok /\ ~a.needFile /\ a.id = Len(test) + 1
  BY <1>2, RepliesTyped
<1>4. x \in TestDoc /\ x.call = r.call /\ x.running
  BY <1>2 DEF TestDoc
<1> HIDE DEF a, x
<1>5. Answers(r, a)
  BY <1>1, <1>3, DoneDoes
<1>6. /\ test' \in Seq(TestDoc) /\ DOMAIN test' = DOMAIN test \cup {Len(test) + 1}
      /\ \A t \in DOMAIN test : test'[t] = test[t]
      /\ test'[Len(test) + 1] = x
  BY <1>1, <1>2, <1>4, Appended
<1> QED
  BY <1>1, <1>3, <1>4, <1>5, <1>6 DEF AddsTest

LEMMA EndSessionDoes ==
  ASSUME Base, NEW r \in net, EndSession(r)
  PROVE  /\ r.op = "stop" /\ EndsTest(r.test) /\ (r.test = 0 => UNCHANGED test)
         /\ \E a \in Reply : Answers(r, a) /\ ~a.needFile
<1>1. TypeOK /\ r.op = "stop" /\ UNCHANGED <<check, rows, landed>>
  BY DEF EndSession, Base
<1>2. test \in Seq(TestDoc) /\ r.test \in Calls
  BY <1>1, Parts, RequestFields DEF TypeOK
<1>3. CASE r.test = 0
  <2>1. Done(r, Error(FALSE)) /\ UNCHANGED test
    BY <1>3 DEF EndSession
  <2>2. Answers(r, Error(FALSE)) /\ Error(FALSE) \in Reply /\ ~Error(FALSE).needFile
    BY <1>1, <1>2, <2>1, DoneDoes, RepliesTyped
  <2> QED
    BY <1>1, <1>2, <2>1, <2>2 DEF EndsTest
<1>4. CASE r.test # 0
  <2> DEFINE a == Success(r.test, FALSE)
             x == [test[r.test] EXCEPT !.running = FALSE]
  <2>1. Done(r, a) /\ test' = [test EXCEPT ![r.test] = x]
    BY <1>4 DEF EndSession
  <2>2. a \in Reply /\ ~a.needFile
    BY <1>2, RepliesTyped
  <2>3. r.test \in DOMAIN test => x \in TestDoc /\ x.call = test[r.test].call
    BY <1>1, Parts DEF TestDoc
  <2> HIDE DEF a, x
  <2>4. Answers(r, a)
    BY <1>1, <2>1, <2>2, DoneDoes
  <2>5. /\ test' \in Seq(TestDoc) /\ DOMAIN test' = DOMAIN test
        /\ \A t \in DOMAIN test : t # r.test => test'[t] = test[t]
        /\ r.test \in DOMAIN test => test'[r.test] = x
    BY <1>2, <2>1, <2>3, Updated
  <2> QED
    BY <1>1, <1>4, <2>2, <2>3, <2>4, <2>5 DEF EndsTest
<1> QED
  BY <1>3, <1>4

LEMMA AskFileDoes ==
  ASSUME Base, NEW r \in net, AskFile(r)
  PROVE  /\ r.op = "hash" /\ UNCHANGED serverVars
         /\ \E a \in Reply : Answers(r, a) /\ a.needFile
<1>1. TypeOK /\ r.op = "hash" /\ Done(r, NeedFile) /\ UNCHANGED serverVars
  BY DEF AskFile, Base
<1>2. NeedFile \in Reply /\ NeedFile.needFile
  BY NoneIsCall, RepliesTyped
<1> QED
  BY <1>1, <1>2, DoneDoes

LEMMA CreateCheckDoes ==
  ASSUME Base, NEW r \in net, CreateCheck(r)
  PROVE  /\ r.op \in {"hash", "file"} /\ AddsCheck(r)
         /\ \E a \in Reply : Answers(r, a) /\ a.ok /\ ~a.needFile /\ a.id = Len(check) + 1
<1> DEFINE a == Success(Len(check) + 1, r.new)
           x == [call |-> r.call, session |-> r.session, test |-> r.test,
                 image |-> r.image, accepted |-> FALSE]
<1>1. TypeOK /\ r.op \in {"hash", "file"} /\ Done(r, a) /\ check' = Append(check, x)
      /\ UNCHANGED <<test, rows, landed>>
  BY DEF CreateCheck, Base
<1>2. Len(check) + 1 \in Calls /\ check \in Seq(CheckDoc)
  BY <1>1, RoomForMore DEF TypeOK
<1>3. r \in Request /\ r.image \in Image
  BY <1>1, Parts DEF Base, RequestsNumbered, Shows
<1>4. a \in Reply /\ a.ok /\ ~a.needFile /\ a.id = Len(check) + 1
  BY <1>2, <1>3, RepliesTyped, RequestFields
<1>5. x \in CheckDoc /\ x.call = r.call /\ x.session = r.session /\ x.test = r.test /\ x.image = r.image
  BY <1>3, RequestFields DEF CheckDoc
<1> HIDE DEF a, x
<1>6. Answers(r, a)
  BY <1>1, <1>4, DoneDoes
<1>7. /\ check' \in Seq(CheckDoc) /\ DOMAIN check' = DOMAIN check \cup {Len(check) + 1}
      /\ \A c \in DOMAIN check : check'[c] = check[c]
      /\ check'[Len(check) + 1] = x
  BY <1>1, <1>2, <1>5, Appended
<1> QED
  BY <1>1, <1>4, <1>5, <1>6, <1>7 DEF AddsCheck

LEMMA AcceptedDoes ==
  ASSUME TypeOK, NEW c, Accepted(c)
  PROVE  Accepts(c)
<1> DEFINE x == [check[c] EXCEPT !.accepted = TRUE]
<1>1. check \in Seq(CheckDoc) /\ \A e \in DOMAIN check : check[e] \in CheckDoc
  BY Parts DEF TypeOK
<1>2. ASSUME c \in DOMAIN check
      PROVE  /\ x \in CheckDoc /\ x.call = check[c].call /\ x.session = check[c].session
             /\ x.test = check[c].test /\ x.image = check[c].image /\ x.accepted
  <2>1. check[c] \in CheckDoc
    BY <1>1, <1>2
  <2> QED
    BY <2>1 DEF CheckDoc
<1>3. check' = [check EXCEPT ![c] = x]
  BY <1>1 DEF Accepted, CheckDoc
<1> HIDE DEF x
<1>4. /\ check' \in Seq(CheckDoc) /\ DOMAIN check' = DOMAIN check
      /\ \A e \in DOMAIN check : e # c => check'[e] = check[e]
      /\ c \in DOMAIN check => check'[c] = x
  BY <1>1, <1>2, <1>3, Updated
<1> QED
  BY <1>2, <1>4 DEF Accepts

LEMMA AcceptSaveDoes ==
  ASSUME Base, NEW r \in net, AcceptSave(r)
  PROVE  /\ r.op = "accept" /\ Accepts(r.check) /\ UNCHANGED <<test, rows, landed>>
         /\ \E a \in Reply : Answers(r, a) /\ ~a.needFile
<1>1. TypeOK /\ r.op = "accept" /\ Accepted(r.check) /\ Done(r, Success(r.check, FALSE))
      /\ UNCHANGED <<test, rows, landed>>
  BY DEF AcceptSave, Base
<1>2. r.check \in Calls
  BY <1>1, Parts, RequestFields
<1>3. Success(r.check, FALSE) \in Reply /\ ~Success(r.check, FALSE).needFile
  BY <1>2, RepliesTyped
<1> QED
  BY <1>1, <1>3, DoneDoes, AcceptedDoes

LEMMA InspectDoes ==
  ASSUME Base, NEW r \in net, Inspect(r)
  PROVE  Reads(r) /\ UNCHANGED serverVars
<1>1. TypeOK /\ UNCHANGED <<drv, serverVars, calls, told>>
  BY DEF Inspect, Base
<1> DEFINE q == [r EXCEPT !.step = "begun", !.new = IsNew]
<1>2. net' = (net \ {r}) \cup {q}
  BY DEF Inspect
<1>3. r \in Request /\ IsNew \in BOOLEAN
  BY <1>1, Parts DEF IsNew
<1>4. q \in Request /\ Like(q, r) /\ Upserting(q)
  BY <1>3 DEF Request, Like, Upserting
<1> HIDE DEF q
<1> QED
  BY <1>1, <1>2, <1>4 DEF Reads, serverVars

\* A mark leaves a request what it is.
LEMMA MarkedLike ==
  ASSUME NEW q \in Request
  PROVE  /\ [q EXCEPT !.met = TRUE] \in Request /\ Like([q EXCEPT !.met = TRUE], q)
         /\ [q EXCEPT !.raced = TRUE] \in Request /\ Like([q EXCEPT !.raced = TRUE], q)
         /\ Written(q) \in Request /\ Like(Written(q), q) /\ Upserting(Written(q))
BY DEF Request, Like, Written, Upserting

LEMMA SendUpsertDoes ==
  ASSUME Base, NEW r \in net, SendUpsert(r)
  PROVE  r.op = "accept" /\ Reads(r) /\ UNCHANGED serverVars
<1>1. /\ TypeOK /\ r.op = "accept" /\ UNCHANGED <<drv, serverVars, calls, told>>
  BY DEF SendUpsert, Base
<1> DEFINE others == InFlight(r.image)
           s == [r EXCEPT !.step = "upsert", !.met = others # {}]
<1>2. net' = (net \ ({r} \cup others)) \cup {[q EXCEPT !.met = TRUE] : q \in others} \cup {s}
  BY DEF SendUpsert
<1>3. \A q \in net : q \in Request
  BY <1>1, Parts
<1>4. s \in Request /\ Like(s, r) /\ Upserting(s)
  BY <1>1, <1>3 DEF Request, Like, Upserting
<1>5. others \subseteq net /\ \A q \in others : q.op = "accept"
  BY DEF InFlight, Base, RequestsNumbered, Upserting
<1> HIDE DEF others, s
<1>6. ASSUME NEW q \in net'
      PROVE  \/ q = s
             \/ q \in net /\ q # r
             \/ q \in Request /\ q.op = "accept" /\ \E p \in net : Like(q, p)
  <2>1. CASE \E p \in others : q = [p EXCEPT !.met = TRUE]
    <3>1. PICK p \in others : q = [p EXCEPT !.met = TRUE]
      BY <2>1
    <3>2. q \in Request /\ Like(q, p)
      BY <1>3, <1>5, <3>1, MarkedLike
    <3> QED
      BY <1>5, <3>2 DEF Like
  <2> QED
    BY <1>2, <2>1
<1> QED
  BY <1>1, <1>4, <1>6 DEF Reads, serverVars

\* The row is written, or in the way.
LEMMA AcceptRowDoes ==
  ASSUME Base, NEW r \in net, AcceptRow(r)
  PROVE  /\ r.op = "accept" /\ Reads(r)
         /\ \/ Puts(r.image) /\ landed' = landed \cup {r.check}
            \/ UNCHANGED <<rows, landed>>
<1>1. /\ TypeOK /\ r.op = "accept" /\ UNCHANGED <<drv, test, check, calls, told>>
  BY DEF AcceptRow, Base
<1>2. \A q \in net : q \in Request
  BY <1>1, Parts
<1>3. r.image \in Image
  BY <1>1 DEF Base, RequestsNumbered, Shows
<1> DEFINE others == IF Contains(rows, r.image) THEN {} ELSE InFlight(r.image) \ {r}
<1>4. others \subseteq net /\ \A q \in others : q.op = "accept"
  BY DEF InFlight, Base, RequestsNumbered, Upserting
<1>5. ASSUME Upsert(r.image), landed' = landed \cup {r.check},
             net' = (net \ ({r} \cup others)) \cup {[q EXCEPT !.raced = TRUE] : q \in others}
                      \cup {Written(r)}
      PROVE  Reads(r) /\ Puts(r.image)
  <2> HIDE DEF others
  <2>1. Written(r) \in Request /\ Like(Written(r), r) /\ Upserting(Written(r))
    BY <1>2, MarkedLike
  <2>2. ASSUME NEW q \in net'
        PROVE  \/ q = Written(r)
               \/ q \in net /\ q # r
               \/ q \in Request /\ q.op = "accept" /\ \E p \in net : Like(q, p)
    <3>1. CASE \E p \in others : q = [p EXCEPT !.raced = TRUE]
      <4>1. PICK p \in others : q = [p EXCEPT !.raced = TRUE]
        BY <3>1
      <4>2. q \in Request /\ Like(q, p)
        BY <1>2, <1>4, <4>1, MarkedLike
      <4> QED
        BY <1>4, <4>2 DEF Like
    <3> QED
      BY <1>5, <3>1
  <2> QED
    BY <1>1, <1>3, <1>5, <2>1, <2>2, UpsertPuts DEF Reads
<1>6. ASSUME net' = (net \ {r}) \cup {[r EXCEPT !.step = "collided"]}
      PROVE  Reads(r)
  <2> DEFINE s == [r EXCEPT !.step = "collided"]
  <2>1. s \in Request /\ Like(s, r) /\ Upserting(s)
    BY <1>1, <1>2 DEF Request, Like, Upserting
  <2> HIDE DEF s
  <2>2. net' = (net \ {r}) \cup {s}
    BY <1>6 DEF s
  <2> QED
    BY <1>1, <2>1, <2>2 DEF Reads
<1> QED
  BY <1>1, <1>5, <1>6 DEF AcceptRow

\* The row is written again, or has gone.
LEMMA AcceptAgainDoes ==
  ASSUME Base, NEW r \in net, AcceptAgain(r)
  PROVE  /\ r.op = "accept" /\ r.step = "collided"
         /\ \/ /\ Reads(r) /\ Restamp(r.image) /\ Reorders
               /\ \E k \in DOMAIN rows : rows[k] = r.image
               /\ landed' = landed \cup {r.check}
            \/ /\ \E a \in Reply : Answers(r, a) /\ ~a.ok /\ ~a.needFile
               /\ UNCHANGED serverVars
<1>1. TypeOK /\ r.op = "accept" /\ r.step = "collided" /\ UNCHANGED <<test, check>>
  BY DEF AcceptAgain, Base
<1>2. r \in Request
  BY <1>1, Parts
<1>3. CASE /\ Restamp(r.image) /\ landed' = landed \cup {r.check}
           /\ net' = (net \ {r}) \cup {Written(r)} /\ UNCHANGED <<drv, calls, told>>
  <2>1. Written(r) \in Request /\ Like(Written(r), r) /\ Upserting(Written(r))
    BY <1>2, MarkedLike
  <2> QED
    BY <1>1, <1>3, <2>1, RestampDoes DEF Reads
<1>4. CASE Done(r, Error(TRUE)) /\ UNCHANGED <<rows, landed>>
  <2>1. Error(TRUE) \in Reply /\ ~Error(TRUE).ok /\ ~Error(TRUE).needFile
    BY NoneIsCall, RepliesTyped
  <2> QED
    BY <1>1, <1>4, <2>1, DoneDoes DEF serverVars
<1> QED
  BY <1>1, <1>3, <1>4 DEF AcceptAgain

LEMMA ReviewDoes ==
  ASSUME Base, NEW c \in DOMAIN check, Review(c)
  PROVE  \E r \in Request :
           /\ r.op = "accept" /\ r.call = calls + 1 /\ r.check = c /\ r.image = check[c].image
           /\ r.image \in Image /\ Fresh(r) /\ net' = net \cup {r}
           /\ calls' = calls + 1 /\ calls' \in Calls /\ UNCHANGED <<drv, serverVars, told>>
<1>1. /\ check[c] \in CheckDoc /\ calls \in Nat /\ MaxCalls \in Nat
      /\ DOMAIN check = 1..Len(check) /\ Len(check) \in Nat
  BY Parts DEF Base
<1> DEFINE r == [NoRequest EXCEPT !.call = calls + 1, !.op = "accept",
                                  !.check = c, !.image = check[c].image]
<1>2. /\ net' = net \cup {r} /\ calls' = calls + 1 /\ calls < MaxCalls
      /\ UNCHANGED <<drv, serverVars, told>>
  BY DEF Review, Count
<1>3. check[c].image \in Image /\ calls + 1 \in Calls /\ c \in Calls
  BY <1>1, <1>2, ChecksCounted DEF CheckDoc, Calls
<1>4. /\ r \in Request /\ r.op = "accept" /\ r.call = calls + 1 /\ r.check = c
      /\ r.image = check[c].image /\ Fresh(r)
  BY <1>3, NoRequestTyped DEF Request, Ops, Fresh
<1> HIDE DEF r
<1> QED
  BY <1>2, <1>3, <1>4

-----------------------------------------------------------------------------
(* Base is inductive *)

LEMMA InitBase == Init => Base
<1> SUFFICES ASSUME Init PROVE Base
  OBVIOUS
<1>1. /\ drv = [d \in Driver |-> [pc |-> "idle", testId |-> 0, session |-> 0,
                                  req |-> NoRequest, reply |-> None]]
      /\ net = {} /\ test = <<>> /\ check = <<>> /\ rows = <<>>
      /\ calls = 0 /\ landed = {} /\ told = {}
  BY DEF Init
<1>2. \A d \in Driver : /\ drv[d] \in DriverState /\ drv[d].pc = "idle" /\ drv[d].session = 0
                        /\ drv[d].reply = None
  BY <1>1, NoRequestTyped, NoneIsCall DEF DriverState
<1>3. /\ test \in Seq(TestDoc) /\ check \in Seq(CheckDoc) /\ rows \in Seq(Image)
      /\ DOMAIN test = {} /\ DOMAIN check = {} /\ DOMAIN rows = {}
  BY <1>1
<1>4. TypeOK
  BY <1>1, <1>2, <1>3, NoneIsCall DEF TypeOK, IsInjective
<1>5. DriversNumbered /\ RequestsNumbered /\ DocsNumbered
  BY <1>1, <1>2, <1>3 DEF DriversNumbered, RequestsNumbered, DocsNumbered
<1>6. OneMaker /\ NotYet /\ Refers /\ AtMostOnce
  BY <1>1, <1>2, <1>3 DEF OneMaker, NotYet, Refers, AtMostOnce, Unsent
<1> QED
  BY <1>4, <1>5, <1>6 DEF Base

\* What the numbers say, in integers.
LEMMA Bounds ==
  ASSUME Base
  PROVE  /\ calls \in Nat
         /\ \A d \in Driver : drv[d].pc # "idle" => drv[d].req.call \in Nat /\ drv[d].req.call <= calls
         /\ \A r \in net : r.call \in Nat /\ r.call <= calls
         /\ \A t \in DOMAIN test : test[t].call \in Nat /\ test[t].call <= calls
         /\ \A c \in DOMAIN check : check[c].call \in Nat /\ check[c].call <= calls
         /\ \A d \in Driver : drv[d].session \in Nat /\ drv[d].session <= calls
<1>1. calls \in Nat
  BY Parts DEF Base
<1> QED
  BY <1>1 DEF Base, DriversNumbered, RequestsNumbered, DocsNumbered

\* A request awaited by d serves the call that d is in.
LEMMA AwaitedIs ==
  ASSUME NEW d, NEW r, Awaited(d, r)
  PROVE  /\ drv[d].pc = "sent" /\ drv[d].reply = None
         /\ drv[d].req.call = r.call /\ drv[d].req.op = r.op
BY DEF Awaited, Live

LEMMA CallingBase ==
  ASSUME Base, NEW d \in Driver, NEW r \in Request, Calling(d, r)
  PROVE  Base'
<1>1. /\ drv' \in [Driver -> DriverState] /\ \A e \in Driver : e # d => drv'[e] = drv[e]
      /\ UNCHANGED serverVars
      /\ drv'[d].pc = "sent" /\ drv'[d].req = r /\ drv'[d].reply = None
      /\ net' = net \cup {r} /\ r.call = calls + 1 /\ calls' = calls + 1 /\ calls' \in Calls
      /\ UNCHANGED told /\ drv[d].pc = "idle" /\ Fresh(r)
  BY DEF Calling, Sends, Alone
<1>2. /\ r.op \in {"start", "stop", "hash"}
      /\ r.op = "hash" => r.image \in Image
      /\ drv'[d].session = calls + 1 \/ drv'[d].session = drv[d].session
  BY DEF Calling, Opens, Keeps
<1>3. TypeOK'
  BY <1>1 DEF Base, TypeOK, serverVars
<1>4. DriversNumbered'
  <2>1. ASSUME NEW e \in Driver
        PROVE  /\ drv'[e].pc # "idle" => drv'[e].req.call \in 1..(calls + 1)
               /\ drv'[e].pc # "sent" => drv'[e].reply = None
               /\ drv'[e].session \in 0..(calls + 1)
               /\ drv'[e].pc # "idle" /\ Shows(drv'[e].req.op) => drv'[e].req.image \in Image
               /\ drv'[e].pc # "idle" => Fresh(drv'[e].req)
    BY <1>1, <1>2, Bounds DEF Base, DriversNumbered, Shows
  <2>2. ASSUME NEW e \in Driver, NEW f \in Driver, e # f, drv'[e].pc # "idle", drv'[f].pc # "idle"
        PROVE  drv'[e].req.call # drv'[f].req.call
    BY <1>1, <2>2, Bounds DEF Base, DriversNumbered
  <2> QED
    BY <1>1, <2>1, <2>2 DEF DriversNumbered
<1>5. RequestsNumbered'
  BY <1>1, <1>2, Bounds DEF Base, RequestsNumbered, Shows, Upserting, Fresh
<1>6. DocsNumbered'
  BY <1>1, Bounds DEF Base, DocsNumbered, serverVars
<1>7. OneMaker'
  <2>1. ASSUME NEW s \in net', NEW q \in net', s.call = q.call, s.op # "accept", q.op # "accept"
        PROVE  s = q
    BY <1>1, <2>1, Bounds DEF Base, OneMaker
  <2>2. ASSUME NEW e \in Driver, Unsent(e)', NEW s \in net', s.op # "accept"
        PROVE  s.call # drv'[e].req.call
    BY <1>1, <2>2, Bounds DEF Base, OneMaker, Unsent
  <2> QED
    BY <2>1, <2>2 DEF OneMaker
<1>8. NotYet'
  <2>1. ASSUME NEW s \in net' PROVE Unmade(s.call, s.op)'
    BY <1>1, Bounds DEF Base, NotYet, Unmade, serverVars
  <2>2. ASSUME NEW e \in Driver, Unsent(e)' PROVE Unmade(drv[e].req.call, drv[e].req.op)'
    BY <1>1, <2>2 DEF Base, NotYet, Unmade, Unsent, serverVars
  <2> QED
    BY <2>1, <2>2 DEF NotYet
<1>9. Refers'
  BY <1>1, <1>2 DEF Base, Refers, serverVars
<1>10. AtMostOnce'
  BY <1>1 DEF Base, AtMostOnce, serverVars
<1> QED
  BY <1>3, <1>4, <1>5, <1>6, <1>7, <1>8, <1>9, <1>10 DEF Base

LEMMA ThrowsBase ==
  ASSUME Base, NEW d \in Driver, Throws(d)
  PROVE  Base'
<1>1. /\ drv' \in [Driver -> DriverState] /\ \A e \in Driver : e # d => drv'[e] = drv[e]
      /\ UNCHANGED serverVars
      /\ drv[d].pc = "idle" /\ drv'[d].pc = "idle" /\ drv'[d].reply = drv[d].reply
      /\ drv'[d].session = drv[d].session \/ drv'[d].session = calls + 1
      /\ calls' = calls + 1 /\ calls' \in Calls /\ UNCHANGED <<net, told>>
  BY DEF Throws, Alone, Keeps
<1>2. calls \in Nat
  BY Bounds
<1>3. TypeOK'
  BY <1>1 DEF Base, TypeOK, serverVars
<1>4. DriversNumbered'
  <2>1. ASSUME NEW e \in Driver
        PROVE  /\ drv'[e].pc # "idle" => drv'[e].req.call \in 1..(calls + 1)
               /\ drv'[e].pc # "sent" => drv'[e].reply = None
               /\ drv'[e].session \in 0..(calls + 1)
               /\ drv'[e].pc # "idle" /\ Shows(drv'[e].req.op) => drv'[e].req.image \in Image
               /\ drv'[e].pc # "idle" => Fresh(drv'[e].req)
    BY <1>1, <1>2, Bounds DEF Base, DriversNumbered
  <2>2. ASSUME NEW e \in Driver, NEW f \in Driver, e # f, drv'[e].pc # "idle", drv'[f].pc # "idle"
        PROVE  drv'[e].req.call # drv'[f].req.call
    BY <1>1, <2>2 DEF Base, DriversNumbered
  <2> QED
    BY <1>1, <2>1, <2>2 DEF DriversNumbered
<1>5. RequestsNumbered' /\ DocsNumbered'
  BY <1>1, <1>2 DEF Base, RequestsNumbered, DocsNumbered, serverVars
<1>6. OneMaker'
  BY <1>1 DEF Base, OneMaker, Unsent
<1>7. NotYet'
  BY <1>1 DEF Base, NotYet, Unmade, Unsent, serverVars
<1>8. Refers' /\ AtMostOnce'
  BY <1>1 DEF Base, DriversNumbered, Refers, AtMostOnce, serverVars
<1> QED
  BY <1>3, <1>4, <1>5, <1>6, <1>7, <1>8 DEF Base

LEMMA ResumesBase ==
  ASSUME Base, NEW d \in Driver, Resumes(d)
  PROVE  Base'
<1> DEFINE r == drv[d].req
<1>1. /\ drv' \in [Driver -> DriverState] /\ \A e \in Driver : e # d => drv'[e] = drv[e]
      /\ UNCHANGED serverVars
      /\ drv'[d].pc = "sent" /\ drv'[d].req = drv[d].req /\ drv'[d].reply = None
      /\ r \in Request /\ net' = net \cup {r}
      /\ UNCHANGED <<calls, told>> /\ drv[d].pc = "pause" /\ drv'[d].session = drv[d].session
  BY DEF Resumes, Sends, Alone, Keeps
<1>2. r.op # "accept" => /\ Unmade(r.call, r.op)
                         /\ \A s \in net : s.op # "accept" => s.call # r.call
  BY <1>1 DEF Base, OneMaker, NotYet, Unsent
<1>3. r.op = "accept" => Unmade(r.call, r.op) /\ r.check \in DOMAIN check
  BY <1>1 DEF Base, Refers, Unmade
<1>4. TypeOK'
  BY <1>1 DEF Base, TypeOK, serverVars
<1>5. DriversNumbered'
  BY <1>1 DEF Base, DriversNumbered
<1>6. RequestsNumbered'
  BY <1>1 DEF Base, RequestsNumbered, DriversNumbered, Upserting, Fresh
<1>7. DocsNumbered'
  BY <1>1 DEF Base, DocsNumbered, serverVars
<1>8. OneMaker'
  <2>1. ASSUME NEW s \in net', NEW q \in net', s.call = q.call, s.op # "accept", q.op # "accept"
        PROVE  s = q
    BY <1>1, <1>2, <2>1 DEF Base, OneMaker
  <2>2. ASSUME NEW e \in Driver, Unsent(e)', NEW s \in net', s.op # "accept"
        PROVE  s.call # drv'[e].req.call
    <3>1. e # d /\ Unsent(e) /\ drv'[e] = drv[e]
      BY <1>1, <2>2 DEF Unsent
    <3>2. CASE s \in net
      BY <2>2, <3>1, <3>2 DEF Base, OneMaker
    <3>3. CASE s = r
      BY <1>1, <1>2, <3>1, <3>3 DEF Base, DriversNumbered, Unsent
    <3> QED
      BY <1>1, <3>2, <3>3
  <2> QED
    BY <2>1, <2>2 DEF OneMaker
<1>9. NotYet'
  <2>1. ASSUME NEW s \in net' PROVE Unmade(s.call, s.op)'
    BY <1>1, <1>2, <1>3 DEF Base, NotYet, Unmade, serverVars
  <2>2. ASSUME NEW e \in Driver, Unsent(e)' PROVE Unmade(drv[e].req.call, drv[e].req.op)'
    BY <1>1, <2>2 DEF Base, NotYet, Unmade, Unsent, serverVars
  <2> QED
    BY <2>1, <2>2 DEF NotYet
<1>10. Refers'
  BY <1>1, <1>3 DEF Base, Refers, serverVars
<1>11. AtMostOnce'
  BY <1>1 DEF Base, AtMostOnce, serverVars
<1> QED
  BY <1>4, <1>5, <1>6, <1>7, <1>8, <1>9, <1>10, <1>11 DEF Base

LEMMA GoesOnBase ==
  ASSUME Base, NEW d \in Driver, NEW r \in Request, GoesOn(d, r)
  PROVE  Base'
<1>1. /\ drv' \in [Driver -> DriverState] /\ \A e \in Driver : e # d => drv'[e] = drv[e]
      /\ UNCHANGED serverVars
      /\ drv'[d].pc = "sent" /\ drv'[d].req = r /\ drv'[d].reply = None
      /\ net' = net \cup {r} /\ drv'[d].session = drv[d].session
      /\ UNCHANGED <<calls, told>>
  BY DEF GoesOn, Sends, Alone, Keeps
<1>2. /\ drv[d].pc = "sent" /\ drv[d].reply # None /\ drv[d].reply.ok
      /\ drv[d].req.op \in {"hash", "file"} /\ Shows(drv[d].req.op)
      /\ r.call = drv[d].req.call /\ r.image = drv[d].req.image
      /\ \/ r.op = "file" /\ drv[d].reply.needFile
         \/ r.op = "accept" /\ ~drv[d].reply.needFile /\ r.check = drv[d].reply.id
  BY DEF GoesOn, Shows
<1>3. r.op # "accept" => /\ Unmade(r.call, r.op)
                         /\ \A s \in net : s.op # "accept" => s.call # r.call
  BY <1>2 DEF Base, OneMaker, NotYet, Unsent, Unmade
<1>4. r.op = "accept" => Unmade(r.call, r.op) /\ r.check \in DOMAIN check
  BY <1>2 DEF Base, Refers, Unmade
<1>5. r.call \in 1..calls /\ r.image \in Image /\ Fresh(r)
  BY <1>2 DEF Base, DriversNumbered, GoesOn
<1>6. TypeOK'
  BY <1>1 DEF Base, TypeOK, serverVars
<1>7. DriversNumbered'
  BY <1>1, <1>2, <1>5 DEF Base, DriversNumbered
<1>8. RequestsNumbered'
  BY <1>1, <1>5 DEF Base, RequestsNumbered, Upserting, Fresh
<1>9. DocsNumbered'
  BY <1>1 DEF Base, DocsNumbered, serverVars
<1>10. OneMaker'
  <2>1. ASSUME NEW s \in net', NEW q \in net', s.call = q.call, s.op # "accept", q.op # "accept"
        PROVE  s = q
    BY <1>1, <1>3, <2>1 DEF Base, OneMaker
  <2>2. ASSUME NEW e \in Driver, Unsent(e)', NEW s \in net', s.op # "accept"
        PROVE  s.call # drv'[e].req.call
    <3>1. e # d /\ Unsent(e) /\ drv'[e] = drv[e]
      BY <1>1, <2>2 DEF Unsent
    <3>2. CASE s \in net
      BY <2>2, <3>1, <3>2 DEF Base, OneMaker
    <3>3. CASE s = r
      BY <1>1, <1>2, <3>1, <3>3 DEF Base, DriversNumbered, Unsent
    <3> QED
      BY <1>1, <3>2, <3>3
  <2> QED
    BY <2>1, <2>2 DEF OneMaker
<1>11. NotYet'
  <2>1. ASSUME NEW s \in net' PROVE Unmade(s.call, s.op)'
    BY <1>1, <1>3, <1>4 DEF Base, NotYet, Unmade, serverVars
  <2>2. ASSUME NEW e \in Driver, Unsent(e)' PROVE Unmade(drv[e].req.call, drv[e].req.op)'
    BY <1>1, <2>2 DEF Base, NotYet, Unmade, Unsent, serverVars
  <2> QED
    BY <2>1, <2>2 DEF NotYet
<1>12. Refers'
  BY <1>1, <1>4 DEF Base, Refers, serverVars
<1>13. AtMostOnce'
  BY <1>1 DEF Base, AtMostOnce, serverVars
<1> QED
  BY <1>6, <1>7, <1>8, <1>9, <1>10, <1>11, <1>12, <1>13 DEF Base

LEMMA ReturnsBase ==
  ASSUME Base, NEW d \in Driver, Returns(d)
  PROVE  Base'
<1>1. /\ drv' \in [Driver -> DriverState] /\ \A e \in Driver : e # d => drv'[e] = drv[e]
      /\ UNCHANGED serverVars
      /\ drv'[d].pc = "idle" /\ drv'[d].reply = None /\ drv'[d].session = drv[d].session
      /\ net' \subseteq net /\ calls' = calls /\ drv[d].pc = "sent"
  BY DEF Returns, Alone
<1>2. told' \subseteq DOMAIN check
  BY <1>1 DEF Returns, Takes, Base, TypeOK, Refers
<1>3. TypeOK'
  BY <1>1, <1>2 DEF Base, TypeOK, serverVars
<1>4. DriversNumbered' /\ RequestsNumbered' /\ DocsNumbered'
  BY <1>1 DEF Base, DriversNumbered, RequestsNumbered, DocsNumbered, serverVars
<1>5. OneMaker'
  BY <1>1 DEF Base, OneMaker, Unsent
<1>6. NotYet'
  BY <1>1 DEF Base, NotYet, Unmade, Unsent, serverVars
<1>7. Refers' /\ AtMostOnce'
  BY <1>1 DEF Base, Refers, AtMostOnce, serverVars
<1> QED
  BY <1>3, <1>4, <1>5, <1>6, <1>7 DEF Base

LEMMA PausesBase ==
  ASSUME Base, NEW d \in Driver, Pauses(d)
  PROVE  Base'
<1>1. /\ drv' \in [Driver -> DriverState] /\ \A e \in Driver : e # d => drv'[e] = drv[e]
      /\ UNCHANGED serverVars
      /\ drv'[d].pc = "pause" /\ drv'[d].reply = None /\ drv'[d].session = drv[d].session
      /\ drv'[d].req.call = drv[d].req.call /\ drv'[d].req.op = drv[d].req.op
      /\ drv'[d].req.check = drv[d].req.check /\ drv'[d].req.image = drv[d].req.image
      /\ net' \subseteq net /\ UNCHANGED <<calls, told>> /\ drv[d].pc = "sent"
      /\ (Fresh(drv[d].req) => Fresh(drv'[d].req))
  BY DEF Pauses, Alone, Keeps
<1>2. drv[d].req.op # "accept" =>
        /\ Unmade(drv[d].req.call, drv[d].req.op)
        /\ \A s \in net' : s.op # "accept" => s.call # drv[d].req.call
  <2> SUFFICES ASSUME drv[d].req.op # "accept"
               PROVE  /\ Unmade(drv[d].req.call, drv[d].req.op)
                      /\ \A s \in net' : s.op # "accept" => s.call # drv[d].req.call
    OBVIOUS
  <2>1. PICK r \in net : Awaited(d, r) /\ net' = net \ {r}
    BY DEF Pauses
  <2> QED
    BY <2>1, AwaitedIs DEF Base, OneMaker, NotYet
<1>3. TypeOK'
  BY <1>1 DEF Base, TypeOK, serverVars
<1>4. DriversNumbered' /\ RequestsNumbered' /\ DocsNumbered'
  BY <1>1 DEF Base, DriversNumbered, RequestsNumbered, DocsNumbered, serverVars
<1>5. OneMaker'
  BY <1>1, <1>2 DEF Base, OneMaker, Unsent
<1>6. NotYet'
  BY <1>1, <1>2 DEF Base, NotYet, Unmade, Unsent, serverVars
<1>7. Refers' /\ AtMostOnce'
  BY <1>1 DEF Base, Refers, AtMostOnce, serverVars
<1> QED
  BY <1>3, <1>4, <1>5, <1>6, <1>7 DEF Base

\* What an answered request may have made.
Makes(r, a) ==
  /\ test' \in Seq(TestDoc) /\ check' \in Seq(CheckDoc)
  /\ \A t \in DOMAIN test' :
       \/ t \in DOMAIN test /\ test'[t].call = test[t].call
       \/ t = Len(test) + 1 /\ test'[t].call = r.call /\ r.op = "start" /\ ~a.needFile
  /\ \A c \in DOMAIN check' :
       \/ c \in DOMAIN check /\ check'[c].call = check[c].call
       \/ /\ c = Len(check) + 1 /\ check'[c].call = r.call /\ ~a.needFile
          /\ r.op \in {"hash", "file"}
  /\ DOMAIN check \subseteq DOMAIN check'
  /\ a.needFile => r.op = "hash"
  /\ ~a.needFile /\ a.ok /\ r.op \in {"hash", "file"} => a.id \in DOMAIN check'

LEMMA AnswersBase ==
  ASSUME Base, NEW r \in net, NEW a \in Reply, Answers(r, a), Makes(r, a),
         UNCHANGED <<rows, landed>>
  PROVE  Base'
<1>1. /\ net' = net \ {r} /\ drv' \in [Driver -> DriverState] /\ UNCHANGED <<calls, told>>
      /\ \A d \in Driver :
           /\ drv'[d].pc = drv[d].pc /\ drv'[d].req = drv[d].req
           /\ drv'[d].session = drv[d].session
           /\ \/ Awaited(d, r) /\ drv'[d].reply = a
              \/ ~Awaited(d, r) /\ drv'[d].reply = drv[d].reply
  BY DEF Answers
<1>2. TypeOK'
  BY <1>1 DEF Base, TypeOK, Makes
<1>3. DriversNumbered'
  <2>1. ASSUME NEW d \in Driver PROVE drv'[d].pc # "sent" => drv'[d].reply = None
    BY <1>1, AwaitedIs DEF Base, DriversNumbered
  <2> QED
    BY <1>1, <2>1 DEF Base, DriversNumbered
<1>4. RequestsNumbered'
  BY <1>1 DEF Base, RequestsNumbered
<1>5. DocsNumbered'
  BY <1>1 DEF Base, DocsNumbered, RequestsNumbered, Makes
\* A driver that now has to go on waited for r.
<1>6. ASSUME NEW d \in Driver, Unsent(d)'
      PROVE  /\ drv'[d].req = drv[d].req /\ drv[d].req.op # "accept"
             /\ \/ Unsent(d)
                \/ drv[d].req.call = r.call /\ drv[d].req.op = r.op /\ a.needFile
  BY <1>1, <1>6, AwaitedIs DEF Unsent
<1>7. OneMaker'
  <2>1. ASSUME NEW s \in net', NEW q \in net', s.call = q.call, s.op # "accept", q.op # "accept"
        PROVE  s = q
    BY <1>1, <2>1 DEF Base, OneMaker
  <2>2. ASSUME NEW d \in Driver, Unsent(d)', NEW s \in net', s.op # "accept"
        PROVE  s.call # drv'[d].req.call
    BY <1>1, <1>6, <2>2 DEF Base, OneMaker
  <2> QED
    BY <2>1, <2>2 DEF OneMaker
\* What r has made is of its own call.
<1>8. ASSUME NEW k, NEW op, Unmade(k, op),
             op # "accept" => k # r.call \/ a.needFile
      PROVE  Unmade(k, op)'
  BY <1>8 DEF Unmade, Makes
<1>9. NotYet'
  <2>1. ASSUME NEW s \in net' PROVE Unmade(s.call, s.op)'
    <3>1. s \in net /\ s # r /\ Unmade(s.call, s.op)
      BY <1>1 DEF Base, NotYet
    <3>2. CASE r.op \in {"start", "hash", "file"}
      BY <1>8, <3>1, <3>2 DEF Base, OneMaker
    <3>3. CASE r.op \notin {"start", "hash", "file"}
      BY <3>1, <3>3 DEF Unmade, Makes
    <3> QED
      BY <3>2, <3>3
  <2>2. ASSUME NEW d \in Driver, Unsent(d)' PROVE Unmade(drv[d].req.call, drv[d].req.op)'
    <3>1. drv'[d].req = drv[d].req /\ drv[d].req.op # "accept"
          /\ \/ Unsent(d)
             \/ drv[d].req.call = r.call /\ drv[d].req.op = r.op /\ a.needFile
      BY <1>6, <2>2
    <3>2. PICK k, op : k = drv[d].req.call /\ op = drv[d].req.op
      OBVIOUS
    <3>3. Unmade(k, op)
      BY <3>1, <3>2 DEF Base, NotYet
    <3>4. CASE r.op \in {"start", "hash", "file"}
      <4>1. k # r.call \/ a.needFile
        BY <3>1, <3>2, <3>4 DEF Base, OneMaker
      <4> QED
        BY <1>8, <3>1, <3>2, <3>3, <4>1
    <3>5. CASE r.op \notin {"start", "hash", "file"}
      BY <3>1, <3>2, <3>3, <3>5 DEF Unmade, Makes
    <3> QED
      BY <3>4, <3>5
  <2> QED
    BY <2>1, <2>2 DEF NotYet
<1>10. Refers'
  <2>1. \A s \in net' : s.op = "accept" => s.check \in DOMAIN check'
    BY <1>1 DEF Base, Refers, Makes
  <2>2. ASSUME NEW d \in Driver
        PROVE  /\ drv'[d].pc # "idle" /\ drv'[d].req.op = "accept" => drv'[d].req.check \in DOMAIN check'
               /\ drv'[d].reply # None /\ drv'[d].reply.ok /\ ~drv'[d].reply.needFile
                    /\ drv'[d].req.op \in {"hash", "file"} => drv'[d].reply.id \in DOMAIN check'
    <3>1. drv'[d].pc # "idle" /\ drv'[d].req.op = "accept" => drv'[d].req.check \in DOMAIN check'
      BY <1>1 DEF Base, Refers, Makes
    <3>2. CASE Awaited(d, r)
      BY <1>1, <3>1, <3>2, AwaitedIs DEF Makes
    <3>3. CASE ~Awaited(d, r)
      BY <1>1, <3>1, <3>3 DEF Base, Refers, Makes
    <3> QED
      BY <3>2, <3>3
  <2> QED
    BY <2>1, <2>2 DEF Refers
<1>11. AtMostOnce'
  <2>1. r.op = "start" => \A t \in DOMAIN test : test[t].call # r.call
    BY DEF Base, NotYet, Unmade
  <2>2. r.op \in {"hash", "file"} => \A c \in DOMAIN check : check[c].call # r.call
    BY DEF Base, NotYet, Unmade
  <2>3. \A t, u \in DOMAIN test' : test'[t].call = test'[u].call => t = u
    BY <2>1 DEF Base, AtMostOnce, Makes
  <2>4. \A c, e \in DOMAIN check' : check'[c].call = check'[e].call => c = e
    BY <2>2 DEF Base, AtMostOnce, Makes
  <2> QED
    BY <2>3, <2>4 DEF AtMostOnce
<1> QED
  BY <1>2, <1>3, <1>4, <1>5, <1>7, <1>9, <1>10, <1>11 DEF Base

LEMMA ReadsBase ==
  ASSUME Base, NEW r \in net, Reads(r),
         rows' \in Seq(Image) /\ IsInjective(rows'), landed' \subseteq DOMAIN check
  PROVE  Base'
<1>1. UNCHANGED <<drv, test, check, calls, told>>
  BY DEF Reads
<1>2. PICK s \in Request : /\ Like(s, r) /\ Upserting(s)
                           /\ \A q \in net' :
                                \/ q = s
                                \/ q \in net /\ q # r
                                \/ q \in Request /\ q.op = "accept" /\ \E p \in net : Like(q, p)
  BY DEF Reads
<1>3. \A q \in net' : /\ q \in Request /\ Upserting(q)
                      /\ \E p \in net : Like(q, p)
                      /\ q.op # "accept" => q = s \/ (q \in net /\ q # r)
  BY <1>2, Parts DEF Base, RequestsNumbered, Upserting, Like
<1>4. TypeOK'
  BY <1>1, <1>3 DEF Base, TypeOK
<1>5. DriversNumbered' /\ DocsNumbered' /\ AtMostOnce'
  BY <1>1 DEF Base, DriversNumbered, DocsNumbered, AtMostOnce
<1>6. RequestsNumbered'
  BY <1>1, <1>3 DEF Base, RequestsNumbered, Like
<1>7. OneMaker'
  <2>1. ASSUME NEW p \in net', NEW q \in net', p.call = q.call, p.op # "accept", q.op # "accept"
        PROVE  p = q
    <3>1. s.call = r.call /\ s.op = r.op
      BY <1>2 DEF Like
    <3>2. (p = s \/ (p \in net /\ p # r)) /\ (q = s \/ (q \in net /\ q # r))
      BY <1>3, <2>1
    <3> QED
      BY <2>1, <3>1, <3>2 DEF Base, OneMaker
  <2>2. ASSUME NEW d \in Driver, Unsent(d)', NEW q \in net', q.op # "accept"
        PROVE  q.call # drv'[d].req.call
    <3>1. PICK p \in net : Like(q, p)
      BY <1>3
    <3> QED
      BY <1>1, <2>2, <3>1 DEF Base, OneMaker, Unsent, Like
  <2> QED
    BY <2>1, <2>2 DEF OneMaker
<1>8. NotYet'
  BY <1>1, <1>3 DEF Base, NotYet, Unmade, Unsent, Like
<1>9. Refers'
  BY <1>1, <1>3 DEF Base, Refers, Like
<1> QED
  BY <1>4, <1>5, <1>6, <1>7, <1>8, <1>9 DEF Base

LEMMA ReviewBase ==
  ASSUME Base, NEW c \in DOMAIN check, Review(c)
  PROVE  Base'
<1>1. PICK r \in Request :
           /\ r.op = "accept" /\ r.call = calls + 1 /\ r.check = c
           /\ r.image \in Image /\ Fresh(r) /\ net' = net \cup {r}
           /\ calls' = calls + 1 /\ calls' \in Calls /\ UNCHANGED <<drv, serverVars, told>>
  BY ReviewDoes
<1>2. calls \in Nat
  BY Bounds
<1>3. TypeOK'
  BY <1>1 DEF Base, TypeOK, serverVars
<1>4. DriversNumbered' /\ DocsNumbered'
  BY <1>1, <1>2 DEF Base, DriversNumbered, DocsNumbered, serverVars
<1>5. RequestsNumbered'
  BY <1>1, <1>2 DEF Base, RequestsNumbered, Upserting, Fresh
<1>6. OneMaker'
  BY <1>1 DEF Base, OneMaker, Unsent
<1>7. NotYet'
  BY <1>1 DEF Base, NotYet, Unmade, Unsent, serverVars
<1>8. Refers' /\ AtMostOnce'
  BY <1>1 DEF Base, Refers, AtMostOnce, serverVars
<1> QED
  BY <1>3, <1>4, <1>5, <1>6, <1>7, <1>8 DEF Base

\* A row is removed, or nothing happens.
LEMMA RowsBase ==
  ASSUME Base, UNCHANGED <<drv, net, test, check, told>>,
         calls' = calls \/ (calls' = calls + 1 /\ calls' \in Calls),
         rows' \in Seq(Image) /\ IsInjective(rows'), landed' \subseteq DOMAIN check
  PROVE  Base'
<1>1. TypeOK'
  BY DEF Base, TypeOK
<1>2. DriversNumbered' /\ RequestsNumbered' /\ DocsNumbered'
  BY Bounds DEF Base, DriversNumbered, RequestsNumbered, DocsNumbered
<1>3. OneMaker' /\ NotYet'
  BY DEF Base, OneMaker, NotYet, Unmade, Unsent
<1>4. Refers' /\ AtMostOnce'
  BY DEF Base, Refers, AtMostOnce
<1> QED
  BY <1>1, <1>2, <1>3, <1>4 DEF Base

LEMMA ServeBase ==
  ASSUME Base, NEW r \in net, Serve(r)
  PROVE  Base'
<1>1. TypeOK
  BY DEF Base
<1>2. test \in Seq(TestDoc) /\ check \in Seq(CheckDoc)
      /\ rows \in Seq(Image) /\ IsInjective(rows) /\ landed \subseteq DOMAIN check
  BY <1>1 DEF TypeOK
<1>3. CASE StartSession(r)
  <2>1. PICK a \in Reply : /\ Answers(r, a) /\ a.ok /\ ~a.needFile /\ a.id = Len(test) + 1
                           /\ r.op = "start" /\ AddsTest(r.call)
    BY <1>3, StartSessionDoes
  <2>2. Makes(r, a)
    BY <1>2, <2>1 DEF Makes, AddsTest
  <2> QED
    BY <2>1, <2>2, AnswersBase DEF AddsTest
<1>4. CASE EndSession(r)
  <2>1. r.op = "stop" /\ EndsTest(r.test)
    BY <1>4, EndSessionDoes
  <2>2. PICK a \in Reply : Answers(r, a) /\ ~a.needFile
    BY <1>4, EndSessionDoes
  <2>3. Makes(r, a)
    BY <1>2, <2>1, <2>2 DEF Makes, EndsTest
  <2> QED
    BY <2>1, <2>2, <2>3, AnswersBase DEF EndsTest
<1>5. CASE AskFile(r)
  <2>1. r.op = "hash" /\ UNCHANGED serverVars
    BY <1>5, AskFileDoes
  <2>2. PICK a \in Reply : Answers(r, a) /\ a.needFile
    BY <1>5, AskFileDoes
  <2>3. Makes(r, a)
    BY <1>2, <2>1, <2>2 DEF Makes, serverVars
  <2> QED
    BY <2>1, <2>2, <2>3, AnswersBase DEF serverVars
<1>6. CASE Inspect(r)
  BY <1>2, <1>6, InspectDoes, ReadsBase DEF serverVars
<1>7. CASE CreateCheck(r)
  <2>1. r.op \in {"hash", "file"} /\ AddsCheck(r)
    BY <1>7, CreateCheckDoes
  <2>2. PICK a \in Reply : Answers(r, a) /\ a.ok /\ ~a.needFile /\ a.id = Len(check) + 1
    BY <1>7, CreateCheckDoes
  <2>3. Makes(r, a)
    BY <1>2, <2>1, <2>2 DEF Makes, AddsCheck
  <2> QED
    BY <2>1, <2>2, <2>3, AnswersBase DEF AddsCheck
<1>8. CASE SendUpsert(r)
  BY <1>2, <1>8, SendUpsertDoes, ReadsBase DEF serverVars
<1>9. CASE AcceptRow(r)
  <2>1. /\ r.op = "accept" /\ Reads(r)
        /\ \/ Puts(r.image) /\ landed' = landed \cup {r.check}
           \/ UNCHANGED <<rows, landed>>
    BY <1>9, AcceptRowDoes
  <2>2. r.check \in DOMAIN check
    BY <2>1 DEF Base, Refers
  <2> QED
    BY <1>2, <2>1, <2>2, ReadsBase DEF Puts
<1>10. CASE AcceptAgain(r)
  <2>1. r.op = "accept" /\ r.check \in DOMAIN check
    BY <1>10, AcceptAgainDoes DEF Base, Refers
  <2>2. CASE Reads(r) /\ Reorders /\ landed' = landed \cup {r.check}
    BY <1>2, <2>1, <2>2, ReadsBase DEF Reorders
  <2>3. CASE (\E a \in Reply : Answers(r, a) /\ ~a.ok /\ ~a.needFile) /\ UNCHANGED serverVars
    <3>1. PICK a \in Reply : Answers(r, a) /\ ~a.ok /\ ~a.needFile
      BY <2>3
    <3>2. Makes(r, a)
      BY <1>2, <2>1, <2>3, <3>1 DEF Makes, serverVars
    <3> QED
      BY <2>3, <3>1, <3>2, AnswersBase DEF serverVars
  <2> QED
    BY <1>10, <2>2, <2>3, AcceptAgainDoes
<1>11. CASE AcceptSave(r)
  <2>1. r.op = "accept" /\ Accepts(r.check) /\ UNCHANGED <<test, rows, landed>>
    BY <1>11, AcceptSaveDoes
  <2>2. PICK a \in Reply : Answers(r, a) /\ ~a.needFile
    BY <1>11, AcceptSaveDoes
  <2>3. Makes(r, a)
    BY <1>2, <2>1, <2>2 DEF Makes, Accepts
  <2> QED
    BY <2>1, <2>2, <2>3, AnswersBase
<1> QED
  BY <1>3, <1>4, <1>5, <1>6, <1>7, <1>8, <1>9, <1>10, <1>11 DEF Serve

LEMMA StepBase == Base /\ [Next]_vars => Base'
<1> SUFFICES ASSUME Base, [Next]_vars PROVE Base'
  OBVIOUS
<1>1. TypeOK /\ landed \subseteq DOMAIN check /\ calls \in Nat /\ MaxCalls \in Nat
  BY Parts DEF Base, TypeOK
<1>2. ASSUME NEW d \in Driver, Drive(d) PROVE Base'
  BY <1>1, <1>2, DriveDoes, CallingBase, ThrowsBase, ResumesBase, GoesOnBase, ReturnsBase,
     PausesBase
<1>3. ASSUME NEW r \in net, Serve(r) PROVE Base'
  BY <1>3, ServeBase
<1>4. ASSUME NEW c \in DOMAIN check, Review(c) PROVE Base'
  BY <1>4, ReviewBase
<1>5. ASSUME NEW j \in DOMAIN rows, RemoveRow(j) PROVE Base'
  <2>1. /\ Drops(j) /\ UNCHANGED <<drv, net, test, check, told>> /\ landed' \subseteq landed
        /\ calls' = calls + 1 /\ calls' \in Calls
    BY <1>1, <1>5, RemoveDrops DEF RemoveRow, Count, Calls
  <2> QED
    BY <1>1, <2>1, RowsBase DEF Drops
<1>6. CASE UNCHANGED vars
  BY <1>1, <1>6, RowsBase DEF vars, serverVars, Base, TypeOK
<1> QED
  BY <1>2, <1>3, <1>4, <1>5, <1>6 DEF Next

-----------------------------------------------------------------------------
(* Sessions: a driver adds checks to the test of the session it has asked for *)
(* last; a request to stop is for a test that no driver adds checks to, so it *)
(* may come as late as it likes.                                              *)

\* t is the test of the session of d, and runs.
OpenFor(d, t) ==
  t \in DOMAIN test /\ test[t].running /\ test[t].call = drv[d].session

Answering(d) == drv[d].pc = "sent" /\ drv[d].req.op = "start" /\ drv[d].reply # None

\* No driver adds checks to t, or is about to.
Closed(t) ==
  t # 0 =>
    /\ t \in DOMAIN test
    /\ \A d \in Driver : drv[d].testId # t /\ (Answering(d) => drv[d].reply.id # t)

\* A request of a check is for the test of its session; a request to stop is for
\* a test that its driver has left.
Directed(r) ==
  /\ r.op = "stop" => Closed(r.test)
  /\ r.op \in {"hash", "file"} => r.test \in DOMAIN test /\ test[r.test].call = r.session

Apart ==
  \A d, e \in Driver : d # e /\ drv[d].session = drv[e].session => drv[d].session = 0

InSession(d) ==
  /\ drv[d].testId # 0 => OpenFor(d, drv[d].testId)
  /\ Answering(d) => drv[d].reply.ok /\ OpenFor(d, drv[d].reply.id)
  /\ drv[d].pc # "idle" /\ drv[d].req.op = "start" => drv[d].req.call = drv[d].session
  /\ drv[d].pc # "idle" => Directed(drv[d].req)

ChecksDirected ==
  \A c \in DOMAIN check :
    check[c].test \in DOMAIN test /\ test[check[c].test].call = check[c].session

Sessions ==
  /\ Apart /\ ChecksDirected
  /\ \A d \in Driver : InSession(d)
  /\ \A r \in net : Directed(r)

\* A test that has been left is not taken up again.
LEMMA ClosedStays ==
  ASSUME NEW t, Closed(t), DOMAIN test \subseteq DOMAIN test',
         \A d \in Driver :
           /\ \/ drv'[d].testId \in {0, drv[d].testId}
              \/ Answering(d) /\ drv'[d].testId = drv[d].reply.id
           /\ Answering(d)' => \/ Answering(d) /\ drv'[d].reply.id = drv[d].reply.id
                               \/ drv'[d].reply.id \notin DOMAIN test
  PROVE  Closed(t)'
BY DEF Closed

LEMMA DirectedStays ==
  ASSUME NEW r, Directed(r), \A t : Closed(t) => Closed(t)',
         \A t \in DOMAIN test : t \in DOMAIN test' /\ test'[t].call = test[t].call
  PROVE  Directed(r)'
BY DEF Directed

\* A step of one driver: it may leave its session, or take it up once the answer
\* has come, and sends requests that are directed.
LEMMA DriverSessions ==
  ASSUME Base, Sessions, NEW d \in Driver, Alone(d), NEW r,
         \/ drv'[d].session = drv[d].session
         \/ drv'[d].testId = 0 /\ \A e \in Driver : drv[e].session # drv'[d].session,
         \/ drv'[d].testId \in {0, drv[d].testId}
         \/ Answering(d) /\ drv'[d].testId = drv[d].reply.id,
         drv'[d].reply = None,
         drv'[d].pc # "idle" => /\ drv'[d].req = r /\ Directed(r)'
                                /\ r.op = "start" => r.call = drv'[d].session,
         \A q \in net' : q \in net \/ (drv'[d].pc # "idle" /\ q = r)
  PROVE  Sessions'
<1>1. /\ \A e \in Driver : e # d => drv'[e] = drv[e]
      /\ UNCHANGED <<test, check, rows, landed>>
  BY DEF Alone, serverVars
<1>2. \A e \in Driver : Answering(e)' => e # d /\ Answering(e)
  BY <1>1 DEF Answering
<1>3. ASSUME NEW t, Closed(t) PROVE Closed(t)'
  <2>1. \A e \in Driver :
           /\ \/ drv'[e].testId \in {0, drv[e].testId}
              \/ Answering(e) /\ drv'[e].testId = drv[e].reply.id
           /\ Answering(e)' => \/ Answering(e) /\ drv'[e].reply.id = drv[e].reply.id
                               \/ drv'[e].reply.id \notin DOMAIN test
    BY <1>1, <1>2
  <2> QED
    BY <1>1, <1>3, <2>1, ClosedStays
<1>4. ASSUME NEW q, Directed(q) PROVE Directed(q)'
  BY <1>1, <1>3, <1>4, DirectedStays
<1>5. Apart'
  BY <1>1 DEF Sessions, Apart
<1>6. ChecksDirected'
  BY <1>1 DEF Sessions, ChecksDirected
<1>7. ASSUME NEW e \in Driver PROVE InSession(e)'
  <2>1. CASE e # d
    <3>1. drv'[e] = drv[e] /\ InSession(e)
      BY <1>1, <2>1 DEF Sessions
    <3>2. drv[e].pc # "idle" => Directed(drv[e].req)'
      <4>1. PICK q : q = drv[e].req
        OBVIOUS
      <4>2. drv[e].pc # "idle" => Directed(q)'
        BY <1>4, <3>1, <4>1 DEF InSession
      <4> QED
        BY <1>1, <3>1, <4>1, <4>2
    <3> QED
      BY <1>1, <1>2, <3>1, <3>2 DEF InSession, OpenFor
  <2>2. CASE e = d
    <3>1. drv'[d].testId # 0 => OpenFor(d, drv[d].testId)'
      BY <1>1 DEF Sessions, InSession, OpenFor
    <3>2. ~Answering(d)'
      BY <1>2
    <3>3. drv'[d].pc # "idle" => Directed(drv[d].req)'
      OBVIOUS
    <3> QED
      BY <2>2, <3>1, <3>2, <3>3 DEF InSession
  <2> QED
    BY <2>1, <2>2
<1>8. ASSUME NEW q \in net' PROVE Directed(q)'
  <2>1. CASE q \in net
    BY <1>4, <2>1 DEF Sessions
  <2>2. CASE drv'[d].pc # "idle" /\ q = r
    BY <2>2
  <2> QED
    BY <2>1, <2>2
<1> QED
  BY <1>5, <1>6, <1>7, <1>8 DEF Sessions

\* A driver that stays with its session, or leaves it.
LEMMA DirectedKept ==
  ASSUME Base, Sessions, NEW d \in Driver, Alone(d), NEW r, Directed(r),
         \/ drv'[d].testId \in {0, drv[d].testId}
         \/ Answering(d) /\ drv'[d].testId = drv[d].reply.id,
         drv'[d].reply = None
  PROVE  Directed(r)'
<1>1. /\ \A e \in Driver : e # d => drv'[e] = drv[e]
      /\ UNCHANGED test
  BY DEF Alone, serverVars
<1>2. \A e \in Driver : Answering(e)' => e # d /\ Answering(e)
  BY <1>1 DEF Answering
<1>3. ASSUME NEW t, Closed(t) PROVE Closed(t)'
  <2>1. \A e \in Driver :
           /\ \/ drv'[e].testId \in {0, drv[e].testId}
              \/ Answering(e) /\ drv'[e].testId = drv[e].reply.id
           /\ Answering(e)' => \/ Answering(e) /\ drv'[e].reply.id = drv[e].reply.id
                               \/ drv'[e].reply.id \notin DOMAIN test
    BY <1>1, <1>2
  <2> QED
    BY <1>1, <1>3, <2>1, ClosedStays
<1> QED
  BY <1>1, <1>3, DirectedStays

LEMMA CallingSessions ==
  ASSUME Base, Sessions, NEW d \in Driver, NEW r \in Request, Calling(d, r)
  PROVE  Sessions'
<1>1. /\ Alone(d) /\ \A e \in Driver : e # d => drv'[e] = drv[e]
      /\ UNCHANGED <<test, check, rows, landed>>
      /\ drv'[d].pc = "sent" /\ drv'[d].req = r /\ drv'[d].reply = None
      /\ net' = net \cup {r} /\ r.call = calls + 1
  BY DEF Calling, Sends, Alone, serverVars
<1>2. \A e \in Driver : drv[e].session # calls + 1
  BY Bounds
<1>3. CASE r.op = "start" /\ drv'[d].session = calls + 1 /\ drv'[d].testId = 0
  <2>1. Directed(r)'
    BY <1>3 DEF Directed
  <2> QED
    BY <1>1, <1>2, <1>3, <2>1, DriverSessions
<1>4. CASE r.op = "stop" /\ drv'[d].session = drv[d].session /\ drv'[d].testId = 0
           /\ r.test = drv[d].testId
  <2>1. ASSUME r.test # 0
        PROVE  /\ r.test \in DOMAIN test /\ test[r.test].call = drv[d].session
               /\ drv[d].session # 0
    <3>1. r.test \in DOMAIN test /\ test[r.test].call = drv[d].session
      BY <1>4, <2>1 DEF Sessions, InSession, OpenFor
    <3>2. test[r.test].call \in 1..calls
      BY <3>1 DEF Base, DocsNumbered
    <3> QED
      BY <3>1, <3>2
  <2>2. ASSUME r.test # 0, NEW e \in Driver
        PROVE  drv'[e].testId # r.test /\ (Answering(e)' => drv'[e].reply.id # r.test)
    <3>1. CASE e = d
      BY <1>1, <1>4, <2>2, <3>1 DEF Answering
    <3>2. CASE e # d
      <4>1. drv[e].session # drv[d].session
        BY <2>1, <2>2, <3>2 DEF Sessions, Apart
      <4>2. /\ drv[e].testId # 0 => test[drv[e].testId].call = drv[e].session
            /\ Answering(e) => test[drv[e].reply.id].call = drv[e].session
        BY DEF Sessions, InSession, OpenFor
      <4> QED
        BY <1>1, <2>1, <2>2, <3>2, <4>1, <4>2 DEF Answering
    <3> QED
      BY <3>1, <3>2
  <2>3. Directed(r)'
    BY <1>1, <1>4, <2>1, <2>2 DEF Directed, Closed
  <2> QED
    BY <1>1, <1>4, <2>3, DriverSessions
<1>5. CASE /\ r.op = "hash" /\ Keeps(d) /\ drv[d].testId # 0 /\ r.test = drv[d].testId
           /\ r.session = drv[d].session
  <2>1. Directed(r)'
    BY <1>1, <1>5 DEF Directed, Sessions, InSession, OpenFor
  <2> QED
    BY <1>1, <1>5, <2>1, DriverSessions DEF Keeps
<1> QED
  BY <1>3, <1>4, <1>5 DEF Calling, Opens

LEMMA ThrowsSessions ==
  ASSUME Base, Sessions, NEW d \in Driver, Throws(d)
  PROVE  Sessions'
<1>1. /\ Alone(d) /\ drv[d].pc = "idle" /\ drv'[d].pc = "idle" /\ net' = net
      /\ drv'[d].reply = drv[d].reply
      /\ Keeps(d) \/ (drv'[d].session = calls + 1 /\ drv'[d].testId = 0)
  BY DEF Throws
<1>2. drv'[d].reply = None
  BY <1>1 DEF Base, DriversNumbered
<1>3. \A e \in Driver : drv[e].session # calls + 1
  BY Bounds
<1> QED
  BY <1>1, <1>2, <1>3, DriverSessions DEF Keeps

LEMMA ResumesSessions ==
  ASSUME Base, Sessions, NEW d \in Driver, Resumes(d)
  PROVE  Sessions'
<1>1. PICK r : r = drv[d].req
  OBVIOUS
<1>2. /\ Alone(d) /\ drv[d].pc = "pause"
      /\ drv'[d].pc = "sent" /\ drv'[d].req = r /\ drv'[d].reply = None
      /\ net' = net \cup {r} /\ drv'[d].testId = drv[d].testId
      /\ drv'[d].session = drv[d].session
  BY <1>1 DEF Resumes, Sends, Keeps
<1>3. Directed(r) /\ (r.op = "start" => r.call = drv[d].session)
  BY <1>1, <1>2 DEF Sessions, InSession
<1>4. Directed(r)'
  BY <1>2, <1>3, DirectedKept
<1> QED
  BY <1>2, <1>3, <1>4, DriverSessions

LEMMA GoesOnSessions ==
  ASSUME Base, Sessions, NEW d \in Driver, NEW r \in Request, GoesOn(d, r)
  PROVE  Sessions'
<1>1. /\ Alone(d) /\ drv[d].pc = "sent"
      /\ drv'[d].pc = "sent" /\ drv'[d].req = r /\ drv'[d].reply = None
      /\ net' = net \cup {r} /\ drv'[d].testId = drv[d].testId
      /\ drv'[d].session = drv[d].session /\ r.op \in {"file", "accept"}
      /\ drv[d].req.op \in {"hash", "file"}
      /\ r.test = drv[d].req.test /\ r.session = drv[d].req.session
  BY DEF GoesOn, Sends, Keeps
<1>2. Directed(r)
  BY <1>1 DEF Sessions, InSession, Directed
<1>3. Directed(r)'
  BY <1>1, <1>2, DirectedKept
<1> QED
  BY <1>1, <1>3, DriverSessions

LEMMA ReturnsSessions ==
  ASSUME Base, Sessions, NEW d \in Driver, Returns(d)
  PROVE  Sessions'
<1>1. /\ Alone(d) /\ drv[d].pc = "sent" /\ drv'[d].pc = "idle" /\ drv'[d].reply = None
      /\ drv'[d].session = drv[d].session /\ net' \subseteq net
      /\ \/ drv'[d].testId = drv[d].testId
         \/ drv[d].req.op = "start" /\ drv[d].reply # None /\ drv'[d].testId = drv[d].reply.id
  BY DEF Returns, Takes
<1>2. \/ drv'[d].testId \in {0, drv[d].testId}
      \/ Answering(d) /\ drv'[d].testId = drv[d].reply.id
  BY <1>1 DEF Answering
<1> QED
  BY <1>1, <1>2, DriverSessions

LEMMA PausesSessions ==
  ASSUME Base, Sessions, NEW d \in Driver, Pauses(d)
  PROVE  Sessions'
<1>1. PICK r : r = drv'[d].req
  OBVIOUS
<1>2. /\ Alone(d) /\ drv[d].pc = "sent" /\ drv'[d].pc = "pause" /\ drv'[d].reply = None
      /\ drv'[d].session = drv[d].session /\ net' \subseteq net
      /\ drv'[d].testId = drv[d].testId
      /\ r.call = drv[d].req.call /\ r.op = drv[d].req.op
      /\ r.session = drv[d].req.session /\ r.test = drv[d].req.test
  BY <1>1 DEF Pauses, Keeps
<1>3. Directed(r) /\ (r.op = "start" => r.call = drv[d].session)
  BY <1>2 DEF Sessions, InSession, Directed
<1>4. Directed(r)'
  BY <1>2, <1>3, DirectedKept
<1> QED
  BY <1>1, <1>2, <1>3, <1>4, DriverSessions

LEMMA InitSessions == Init => Sessions
<1> SUFFICES ASSUME Init PROVE Sessions
  OBVIOUS
<1>1. /\ net = {} /\ check = <<>>
      /\ \A d \in Driver : /\ drv[d].pc = "idle" /\ drv[d].session = 0 /\ drv[d].testId = 0
  BY DEF Init
<1>2. DOMAIN check = {}
  BY <1>1
<1> QED
  BY <1>1, <1>2 DEF Sessions, Apart, ChecksDirected, InSession, Answering

\* The server starts the test of a session that its driver may have given up, ends
\* only tests that have been left, and adds checks to the test of their session.
LEMMA AnswersSessions ==
  ASSUME Base, Sessions, NEW r \in net, NEW a \in Reply, Answers(r, a),
         \A t \in DOMAIN test :
           /\ t \in DOMAIN test' /\ test'[t].call = test[t].call
           /\ test'[t].running = test[t].running \/ Closed(t),
         r.op = "start" =>
           /\ a.ok /\ a.id # 0 /\ a.id \notin DOMAIN test
           /\ a.id \in DOMAIN test' /\ test'[a.id].running /\ test'[a.id].call = r.call,
         \A c \in DOMAIN check' :
           \/ /\ c \in DOMAIN check /\ check'[c].test = check[c].test
              /\ check'[c].session = check[c].session
           \/ /\ r.op \in {"hash", "file"} /\ check'[c].test = r.test
              /\ check'[c].session = r.session
  PROVE  Sessions'
<1>1. /\ net' = net \ {r}
      /\ \A d \in Driver :
           /\ drv'[d].pc = drv[d].pc /\ drv'[d].req = drv[d].req
           /\ drv'[d].testId = drv[d].testId /\ drv'[d].session = drv[d].session
           /\ \/ Awaited(d, r) /\ drv'[d].reply = a
              \/ ~Awaited(d, r) /\ drv'[d].reply = drv[d].reply
  BY DEF Answers
<1>2. \A d \in Driver : Answering(d)' => \/ Answering(d) /\ drv'[d].reply = drv[d].reply
                                         \/ /\ r.op = "start" /\ drv'[d].reply = a
                                            /\ drv[d].req.op = "start" /\ drv[d].pc = "sent"
                                            /\ drv[d].req.call = r.call
  BY <1>1, AwaitedIs DEF Answering
<1>3. ASSUME NEW t, Closed(t) PROVE Closed(t)'
  <2>1. \A d \in Driver :
           /\ \/ drv'[d].testId \in {0, drv[d].testId}
              \/ Answering(d) /\ drv'[d].testId = drv[d].reply.id
           /\ Answering(d)' => \/ Answering(d) /\ drv'[d].reply.id = drv[d].reply.id
                               \/ drv'[d].reply.id \notin DOMAIN test
    BY <1>1, <1>2
  <2> QED
    BY <1>3, <2>1, ClosedStays
<1>4. ASSUME NEW q, Directed(q) PROVE Directed(q)'
  BY <1>3, <1>4, DirectedStays
<1>5. Apart'
  BY <1>1 DEF Sessions, Apart
<1>6. ChecksDirected'
  <2> SUFFICES ASSUME NEW c \in DOMAIN check'
               PROVE  /\ check'[c].test \in DOMAIN test'
                      /\ test'[check'[c].test].call = check'[c].session
    BY DEF ChecksDirected
  <2>1. CASE /\ c \in DOMAIN check /\ check'[c].test = check[c].test
             /\ check'[c].session = check[c].session
    BY <2>1 DEF Sessions, ChecksDirected
  <2>2. CASE /\ r.op \in {"hash", "file"} /\ check'[c].test = r.test
             /\ check'[c].session = r.session
    BY <2>2 DEF Sessions, Directed
  <2> QED
    BY <2>1, <2>2
\* A test that a driver uses, or is about to, is not closed and runs on.
<1>7. ASSUME NEW d \in Driver, NEW t, t # 0, OpenFor(d, t),
             drv[d].testId = t \/ (Answering(d) /\ drv[d].reply.id = t)
      PROVE  OpenFor(d, t)'
  <2>1. ~Closed(t)
    BY <1>7 DEF Closed
  <2> QED
    BY <1>1, <1>7, <2>1 DEF OpenFor
<1>8. 0 \notin DOMAIN test
  BY Parts DEF Base
<1>9. ASSUME NEW d \in Driver PROVE InSession(d)'
  <2>1. InSession(d)
    BY DEF Sessions
  <2>2. PICK t, q : t = drv[d].testId /\ q = drv[d].req
    OBVIOUS
  <2>3. drv'[d].testId # 0 => OpenFor(d, drv[d].testId)'
    <3>1. t # 0 => OpenFor(d, t)'
      BY <1>7, <2>1, <2>2 DEF InSession
    <3> QED
      BY <1>1, <2>2, <3>1
  <2>4. ASSUME Answering(d)' PROVE drv'[d].reply.ok /\ OpenFor(d, drv[d].reply.id)'
    <3>1. CASE Answering(d) /\ drv'[d].reply = drv[d].reply
      <4>1. PICK u : u = drv[d].reply.id
        OBVIOUS
      <4>2. drv[d].reply.ok /\ OpenFor(d, u) /\ u # 0
        BY <1>8, <2>1, <3>1, <4>1 DEF InSession, OpenFor
      <4>3. OpenFor(d, u)'
        BY <1>7, <3>1, <4>1, <4>2
      <4> QED
        BY <3>1, <4>1, <4>2, <4>3
    <3>2. CASE /\ r.op = "start" /\ drv'[d].reply = a
               /\ drv[d].req.op = "start" /\ drv[d].pc = "sent" /\ drv[d].req.call = r.call
      <4>1. drv[d].req.call = drv[d].session
        BY <2>1, <3>2 DEF InSession
      <4> QED
        BY <1>1, <3>2, <4>1 DEF OpenFor
    <3> QED
      BY <1>2, <2>4, <3>1, <3>2
  <2>5. drv'[d].pc # "idle" => Directed(drv[d].req)'
    <3>1. drv[d].pc # "idle" => Directed(q)'
      BY <1>4, <2>1, <2>2 DEF InSession
    <3> QED
      BY <1>1, <2>2, <3>1
  <2> QED
    BY <1>1, <2>1, <2>3, <2>4, <2>5 DEF InSession
<1>10. \A q \in net' : Directed(q)'
  BY <1>1, <1>4 DEF Sessions
<1> QED
  BY <1>5, <1>6, <1>9, <1>10 DEF Sessions

\* Nothing happens to drivers, tests and the sessions of checks.
LEMMA OthersSessions ==
  ASSUME Base, Sessions, UNCHANGED <<drv, test>>, DOMAIN check' = DOMAIN check,
         \A c \in DOMAIN check : check'[c].test = check[c].test /\ check'[c].session = check[c].session,
         \A q \in net' : q \in net \/ q.op = "accept" \/ \E r \in net : Like(q, r)
  PROVE  Sessions'
<1>1. \A t : Closed(t) => Closed(t)'
  BY DEF Closed, Answering
<1>2. \A q : Directed(q) => Directed(q)'
  BY <1>1, DirectedStays
<1>3. Apart' /\ ChecksDirected'
  BY DEF Sessions, Apart, ChecksDirected
<1>4. ASSUME NEW d \in Driver PROVE InSession(d)'
  <2>1. PICK q : q = drv[d].req
    OBVIOUS
  <2>2. drv[d].pc # "idle" => Directed(q)'
    BY <1>2, <2>1 DEF Sessions, InSession
  <2>3. drv'[d].pc # "idle" => Directed(drv[d].req)'
    BY <2>1, <2>2
  <2>4. InSession(d)
    BY DEF Sessions
  <2>5. /\ drv'[d].testId # 0 => OpenFor(d, drv[d].testId)'
        /\ Answering(d)' => drv'[d].reply.ok /\ OpenFor(d, drv[d].reply.id)'
        /\ drv'[d].pc # "idle" /\ drv'[d].req.op = "start" => drv'[d].req.call = drv'[d].session
    BY <2>4 DEF InSession, OpenFor, Answering
  <2> QED
    BY <2>3, <2>5 DEF InSession
<1>5. ASSUME NEW q \in net' PROVE Directed(q)'
  <2>1. Directed(q)
    BY DEF Sessions, Directed, Like
  <2> QED
    BY <1>2, <2>1
<1> QED
  BY <1>3, <1>4, <1>5 DEF Sessions

LEMMA ServeSessions ==
  ASSUME Base, Sessions, NEW r \in net, Serve(r)
  PROVE  Sessions'
<1>1. DOMAIN test = 1..Len(test) /\ Len(test) \in Nat
  BY Parts DEF Base
<1>2. CASE StartSession(r)
  <2>1. PICK a \in Reply : /\ Answers(r, a) /\ a.ok /\ ~a.needFile /\ a.id = Len(test) + 1
                           /\ r.op = "start" /\ AddsTest(r.call)
    BY <1>2, StartSessionDoes
  <2>2. Len(test) + 1 # 0 /\ Len(test) + 1 \notin DOMAIN test
    BY <1>1
  <2> QED
    BY <2>1, <2>2, AnswersSessions DEF AddsTest
<1>3. CASE EndSession(r)
  <2>1. r.op = "stop" /\ EndsTest(r.test) /\ (r.test = 0 => UNCHANGED test)
    BY <1>3, EndSessionDoes
  <2>2. PICK a \in Reply : Answers(r, a) /\ ~a.needFile
    BY <1>3, EndSessionDoes
  <2>3. Closed(r.test)
    BY <2>1 DEF Sessions, Directed
  <2> QED
    BY <2>1, <2>2, <2>3, AnswersSessions DEF EndsTest
<1>4. CASE AskFile(r)
  <2>1. r.op = "hash" /\ UNCHANGED serverVars
    BY <1>4, AskFileDoes
  <2>2. PICK a \in Reply : Answers(r, a) /\ a.needFile
    BY <1>4, AskFileDoes
  <2> QED
    BY <2>1, <2>2, AnswersSessions DEF serverVars
<1>5. CASE Inspect(r)
  <2>1. Reads(r) /\ UNCHANGED serverVars
    BY <1>5, InspectDoes
  <2> QED
    BY <2>1, OthersSessions DEF Reads, serverVars
<1>6. CASE CreateCheck(r)
  <2>1. r.op \in {"hash", "file"} /\ AddsCheck(r)
    BY <1>6, CreateCheckDoes
  <2>2. PICK a \in Reply : Answers(r, a) /\ a.ok /\ ~a.needFile /\ a.id = Len(check) + 1
    BY <1>6, CreateCheckDoes
  <2> QED
    BY <2>1, <2>2, AnswersSessions DEF AddsCheck
<1>7. CASE SendUpsert(r) \/ AcceptRow(r)
  <2>1. Reads(r)
    BY <1>7, SendUpsertDoes, AcceptRowDoes
  <2> QED
    BY <2>1, OthersSessions DEF Reads
<1>8. CASE AcceptAgain(r)
  <2>1. CASE Reads(r)
    BY <2>1, OthersSessions DEF Reads
  <2>2. CASE (\E a \in Reply : Answers(r, a) /\ ~a.ok /\ ~a.needFile) /\ UNCHANGED serverVars
    <3>1. PICK a \in Reply : Answers(r, a)
      BY <2>2
    <3>2. r.op = "accept"
      BY <1>8, AcceptAgainDoes
    <3> QED
      BY <2>2, <3>1, <3>2, AnswersSessions DEF serverVars
  <2> QED
    BY <1>8, <2>1, <2>2, AcceptAgainDoes
<1>9. CASE AcceptSave(r)
  <2>1. r.op = "accept" /\ Accepts(r.check) /\ UNCHANGED <<test, rows, landed>>
    BY <1>9, AcceptSaveDoes
  <2>2. PICK a \in Reply : Answers(r, a) /\ ~a.needFile
    BY <1>9, AcceptSaveDoes
  <2> QED
    BY <2>1, <2>2, AnswersSessions DEF Accepts
<1> QED
  BY <1>2, <1>3, <1>4, <1>5, <1>6, <1>7, <1>8, <1>9 DEF Serve

LEMMA StepSessions == Base /\ Sessions /\ [Next]_vars => Sessions'
<1> SUFFICES ASSUME Base, Sessions, [Next]_vars PROVE Sessions'
  OBVIOUS
<1>1. TypeOK
  BY DEF Base
<1>2. ASSUME NEW d \in Driver, Drive(d) PROVE Sessions'
  BY <1>1, <1>2, DriveDoes, CallingSessions, ThrowsSessions, ResumesSessions, GoesOnSessions,
     ReturnsSessions, PausesSessions
<1>3. ASSUME NEW r \in net, Serve(r) PROVE Sessions'
  BY <1>3, ServeSessions
<1>4. ASSUME NEW c \in DOMAIN check, Review(c) PROVE Sessions'
  <2>1. PICK r \in Request : r.op = "accept" /\ net' = net \cup {r} /\ UNCHANGED <<drv, serverVars>>
    BY <1>4, ReviewDoes
  <2> QED
    BY <2>1, OthersSessions DEF serverVars
<1>5. ASSUME NEW j \in DOMAIN rows, RemoveRow(j) PROVE Sessions'
  BY <1>5, OthersSessions DEF RemoveRow
<1>6. CASE UNCHANGED vars
  BY <1>6, OthersSessions DEF vars, serverVars
<1> QED
  BY <1>2, <1>3, <1>4, <1>5, <1>6 DEF Next

-----------------------------------------------------------------------------
(* Acceptances: the rows are the images of the checks whose row was written;  *)
(* a request to accept names the image of its check, and all requests of a    *)
(* call are for the same image and check.                                     *)

Names(r) == r.op = "accept" => check[r.check].image = r.image

Rowed ==
  /\ \A c \in landed : \E k \in DOMAIN rows : rows[k] = check[c].image
  /\ \A k \in DOMAIN rows : \E c \in landed : rows[k] = check[c].image

Replied(d) ==
  drv[d].reply # None /\ drv[d].reply.ok =>
    /\ drv[d].req.op = "accept" => check[drv[d].req.check].accepted
    /\ drv[d].req.op \in {"hash", "file"} /\ ~drv[d].reply.needFile
         => check[drv[d].reply.id].image = drv[d].req.image

\* An earlier request of a call, q, and the one that its driver is at.
Match(q, r) ==
  q.call = r.call =>
    q.image = r.image /\ (q.op = "accept" => r.op = "accept" /\ q.check = r.check)

Acceptances ==
  /\ Rowed /\ AcceptedHolds
  /\ \A r \in net : Names(r)
  /\ \A d \in Driver : Replied(d) /\ (drv[d].pc # "idle" => Names(drv[d].req))
  /\ \A r \in net : \A d \in Driver : drv[d].pc # "idle" => Match(r, drv[d].req)

LEMMA InitAcceptances == Init => Acceptances
<1> SUFFICES ASSUME Init PROVE Acceptances
  OBVIOUS
<1>1. /\ net = {} /\ rows = <<>> /\ landed = {} /\ told = {}
      /\ \A d \in Driver : drv[d].pc = "idle" /\ drv[d].reply = None
  BY DEF Init
<1>2. DOMAIN rows = {}
  BY <1>1
<1> QED
  BY <1>1, <1>2 DEF Acceptances, Rowed, AcceptedHolds, Replied

\* A step of one driver, which is at r after it.
LEMMA DriverAcceptances ==
  ASSUME Base, Acceptances, NEW d \in Driver, Alone(d), NEW r,
         drv'[d].reply = None,
         drv'[d].pc # "idle" =>
           /\ drv'[d].req = r /\ Names(r)
           /\ \A q \in net : Match(q, r)
           /\ \A e \in Driver : e # d /\ drv[e].pc # "idle" => drv[e].req.call # r.call,
         \A q \in net' : q \in net \/ (drv'[d].pc # "idle" /\ q = r),
         \A c \in told' : check[c].accepted
  PROVE  Acceptances'
<1>1. /\ \A e \in Driver : e # d => drv'[e] = drv[e]
      /\ UNCHANGED <<test, check, rows, landed>>
  BY DEF Alone, serverVars
<1>2. Rowed' /\ AcceptedHolds'
  BY <1>1 DEF Acceptances, Rowed, AcceptedHolds
<1>3. ASSUME NEW q \in net' PROVE Names(q)'
  BY <1>1 DEF Acceptances, Names
<1>4. ASSUME NEW e \in Driver PROVE Replied(e)' /\ (drv'[e].pc # "idle" => Names(drv[e].req)')
  <2>1. CASE e = d
    BY <1>1, <2>1 DEF Replied, Names
  <2>2. CASE e # d
    BY <1>1, <2>2 DEF Acceptances, Replied, Names
  <2> QED
    BY <2>1, <2>2
<1>5. ASSUME NEW q \in net', NEW e \in Driver, drv'[e].pc # "idle"
      PROVE  Match(q, drv[e].req)'
  <2>1. CASE e = d
    BY <1>5, <2>1 DEF Match
  <2>2. CASE e # d
    <3>1. drv'[e] = drv[e] /\ drv[e].pc # "idle"
      BY <1>1, <1>5, <2>2
    <3>2. CASE q \in net
      BY <3>1, <3>2 DEF Acceptances, Match
    <3>3. CASE q = r /\ drv'[d].pc # "idle"
      BY <2>2, <3>1, <3>3 DEF Match
    <3> QED
      BY <3>2, <3>3
  <2> QED
    BY <2>1, <2>2
<1> QED
  BY <1>2, <1>3, <1>4, <1>5 DEF Acceptances

LEMMA CallingAcceptances ==
  ASSUME Base, Acceptances, NEW d \in Driver, NEW r \in Request, Calling(d, r)
  PROVE  Acceptances'
<1>1. /\ Alone(d) /\ drv'[d].pc = "sent" /\ drv'[d].req = r /\ drv'[d].reply = None
      /\ net' = net \cup {r} /\ r.call = calls + 1 /\ told' = told /\ r.op # "accept"
  BY DEF Calling, Sends, Opens
<1>2. Names(r) /\ \A q \in net : Match(q, r)
  BY <1>1, Bounds DEF Names, Match
<1>3. \A e \in Driver : e # d /\ drv[e].pc # "idle" => drv[e].req.call # r.call
  BY <1>1, Bounds
<1> QED
  BY <1>1, <1>2, <1>3, DriverAcceptances DEF Acceptances, AcceptedHolds

LEMMA ThrowsAcceptances ==
  ASSUME Base, Acceptances, NEW d \in Driver, Throws(d)
  PROVE  Acceptances'
<1>1. /\ Alone(d) /\ drv[d].pc = "idle" /\ drv'[d].pc = "idle" /\ UNCHANGED <<net, told>>
      /\ drv'[d].reply = drv[d].reply
  BY DEF Throws
<1>2. drv'[d].reply = None
  BY <1>1 DEF Base, DriversNumbered
<1> QED
  BY <1>1, <1>2, DriverAcceptances DEF Acceptances, AcceptedHolds

LEMMA ResumesAcceptances ==
  ASSUME Base, Acceptances, NEW d \in Driver, Resumes(d)
  PROVE  Acceptances'
<1>1. PICK r : r = drv[d].req
  OBVIOUS
<1>2. /\ Alone(d) /\ drv[d].pc = "pause"
      /\ drv'[d].pc = "sent" /\ drv'[d].req = r /\ drv'[d].reply = None
      /\ net' = net \cup {r} /\ told' = told
  BY <1>1 DEF Resumes, Sends
<1>3. Names(r) /\ \A q \in net : Match(q, r)
  BY <1>1, <1>2 DEF Acceptances
<1>4. \A e \in Driver : e # d /\ drv[e].pc # "idle" => drv[e].req.call # r.call
  BY <1>1, <1>2 DEF Base, DriversNumbered
<1> QED
  BY <1>2, <1>3, <1>4, DriverAcceptances DEF Acceptances, AcceptedHolds

LEMMA GoesOnAcceptances ==
  ASSUME Base, Acceptances, NEW d \in Driver, NEW r \in Request, GoesOn(d, r)
  PROVE  Acceptances'
<1>1. /\ Alone(d) /\ drv[d].pc = "sent"
      /\ drv'[d].pc = "sent" /\ drv'[d].req = r /\ drv'[d].reply = None
      /\ net' = net \cup {r} /\ told' = told
  BY DEF GoesOn, Sends
<1>2. /\ drv[d].reply # None /\ drv[d].reply.ok
      /\ drv[d].req.op \in {"hash", "file"}
      /\ r.call = drv[d].req.call /\ r.image = drv[d].req.image
      /\ \/ r.op = "file"
         \/ r.op = "accept" /\ ~drv[d].reply.needFile /\ r.check = drv[d].reply.id
  BY DEF GoesOn
<1>3. Names(r)
  BY <1>2 DEF Acceptances, Replied, Names
<1>4. \A q \in net : Match(q, r)
  BY <1>1, <1>2 DEF Acceptances, Match
<1>5. \A e \in Driver : e # d /\ drv[e].pc # "idle" => drv[e].req.call # r.call
  BY <1>1, <1>2 DEF Base, DriversNumbered
<1> QED
  BY <1>1, <1>3, <1>4, <1>5, DriverAcceptances DEF Acceptances, AcceptedHolds

LEMMA ReturnsAcceptances ==
  ASSUME Base, Acceptances, NEW d \in Driver, Returns(d)
  PROVE  Acceptances'
<1>1. /\ Alone(d) /\ drv'[d].pc = "idle" /\ drv'[d].reply = None /\ net' \subseteq net
      /\ \/ told' = told
         \/ /\ drv[d].req.op = "accept" /\ drv[d].reply # None /\ drv[d].reply.ok
            /\ told' = told \cup {drv[d].req.check}
  BY DEF Returns, Takes
<1>2. \A c \in told' : check[c].accepted
  BY <1>1 DEF Acceptances, AcceptedHolds, Replied
<1> QED
  BY <1>1, <1>2, DriverAcceptances

LEMMA PausesAcceptances ==
  ASSUME Base, Acceptances, NEW d \in Driver, Pauses(d)
  PROVE  Acceptances'
<1>1. PICK r : r = drv'[d].req
  OBVIOUS
<1>2. /\ Alone(d) /\ drv[d].pc = "sent" /\ drv'[d].pc = "pause" /\ drv'[d].reply = None
      /\ net' \subseteq net /\ told' = told
      /\ r.call = drv[d].req.call /\ r.op = drv[d].req.op
      /\ r.check = drv[d].req.check /\ r.image = drv[d].req.image
  BY <1>1 DEF Pauses
<1>3. Names(r) /\ \A q \in net : Match(q, r)
  BY <1>2 DEF Acceptances, Names, Match
<1>4. \A e \in Driver : e # d /\ drv[e].pc # "idle" => drv[e].req.call # r.call
  BY <1>2 DEF Base, DriversNumbered
<1> QED
  BY <1>1, <1>2, <1>3, <1>4, DriverAcceptances DEF Acceptances, AcceptedHolds

\* Checks stay what they show, and accepted.
ChecksKeep ==
  /\ DOMAIN check \subseteq DOMAIN check'
  /\ \A c \in DOMAIN check : /\ check'[c].image = check[c].image
                             /\ check[c].accepted => check'[c].accepted

LEMMA AnswersAcceptances ==
  ASSUME Base, Acceptances, NEW r \in net, NEW a \in Reply, Answers(r, a), ChecksKeep,
         UNCHANGED <<rows, landed>>,
         a.ok /\ r.op = "accept" => check'[r.check].accepted,
         a.ok /\ ~a.needFile /\ r.op \in {"hash", "file"} => check'[a.id].image = r.image
  PROVE  Acceptances'
<1>1. /\ net' = net \ {r} /\ UNCHANGED told
      /\ \A d \in Driver :
           /\ drv'[d].pc = drv[d].pc /\ drv'[d].req = drv[d].req
           /\ \/ Awaited(d, r) /\ drv'[d].reply = a
              \/ ~Awaited(d, r) /\ drv'[d].reply = drv[d].reply
  BY DEF Answers
<1>2. landed \subseteq DOMAIN check /\ told \subseteq DOMAIN check
  BY DEF Base, TypeOK
<1>3. Rowed' /\ AcceptedHolds'
  BY <1>1, <1>2 DEF Acceptances, Rowed, AcceptedHolds, ChecksKeep
<1>4. ASSUME NEW q \in net' PROVE Names(q)'
  BY <1>1 DEF Acceptances, Names, ChecksKeep, Base, Refers
<1>5. ASSUME NEW d \in Driver PROVE drv'[d].pc # "idle" => Names(drv[d].req)'
  BY <1>1 DEF Acceptances, Names, ChecksKeep, Base, Refers
<1>6. ASSUME NEW d \in Driver PROVE Replied(d)'
  <2>1. CASE Awaited(d, r)
    <3>1. /\ drv[d].pc = "sent" /\ drv[d].req.call = r.call /\ drv[d].req.op = r.op
          /\ drv'[d].reply = a /\ drv'[d].req = drv[d].req
      BY <1>1, <2>1, AwaitedIs
    <3>2. r.image = drv[d].req.image /\ (r.op = "accept" => r.check = drv[d].req.check)
      BY <3>1 DEF Acceptances, Match
    <3> QED
      BY <3>1, <3>2 DEF Replied
  <2>2. CASE ~Awaited(d, r)
    <3>1. drv'[d].reply = drv[d].reply /\ drv'[d].req = drv[d].req /\ Replied(d)
      BY <1>1, <2>2 DEF Acceptances
    <3>2. drv[d].reply # None => drv[d].pc # "idle"
      BY DEF Base, DriversNumbered
    <3>3. drv[d].reply # None /\ drv[d].req.op = "accept" => drv[d].req.check \in DOMAIN check
      BY <3>2 DEF Base, Refers
    <3>4. drv[d].reply # None /\ drv[d].reply.ok /\ ~drv[d].reply.needFile
            /\ drv[d].req.op \in {"hash", "file"} => drv[d].reply.id \in DOMAIN check
      BY DEF Base, Refers
    <3> QED
      BY <3>1, <3>3, <3>4 DEF Replied, ChecksKeep
  <2> QED
    BY <2>1, <2>2
<1>7. \A q \in net' : \A d \in Driver : drv'[d].pc # "idle" => Match(q, drv[d].req)'
  BY <1>1 DEF Acceptances, Match
<1> QED
  BY <1>3, <1>4, <1>5, <1>6, <1>7 DEF Acceptances

LEMMA OthersAcceptances ==
  ASSUME Base, Acceptances, UNCHANGED <<drv, told>>, ChecksKeep, Rowed',
         \A q \in net' : \/ q \in net \/ \E r \in net : Like(q, r)
                         \/ /\ q.op = "accept" /\ q.call = calls + 1 /\ q.check \in DOMAIN check
                            /\ check[q.check].image = q.image
  PROVE  Acceptances'
<1>1. told \subseteq DOMAIN check
  BY DEF Base, TypeOK
<1>2. AcceptedHolds'
  BY <1>1 DEF Acceptances, AcceptedHolds, ChecksKeep
<1>3. ASSUME NEW q \in net' PROVE Names(q)'
  BY DEF Acceptances, Names, ChecksKeep, Base, Refers, Like
<1>4. ASSUME NEW d \in Driver PROVE drv'[d].pc # "idle" => Names(drv[d].req)'
  BY DEF Acceptances, Names, ChecksKeep, Base, Refers
<1>5. ASSUME NEW d \in Driver PROVE Replied(d)'
  <2>1. Replied(d)
    BY DEF Acceptances
  <2>2. drv[d].reply # None => drv[d].pc # "idle"
    BY DEF Base, DriversNumbered
  <2>3. drv[d].reply # None /\ drv[d].req.op = "accept" => drv[d].req.check \in DOMAIN check
    BY <2>2 DEF Base, Refers
  <2>4. drv[d].reply # None /\ drv[d].reply.ok /\ ~drv[d].reply.needFile
          /\ drv[d].req.op \in {"hash", "file"} => drv[d].reply.id \in DOMAIN check
    BY DEF Base, Refers
  <2> QED
    BY <2>1, <2>3, <2>4 DEF Replied, ChecksKeep
<1>6. ASSUME NEW q \in net', NEW d \in Driver, drv'[d].pc # "idle"
      PROVE  Match(q, drv[d].req)'
  <2>1. CASE q.call = calls + 1
    BY <1>6, <2>1, Bounds DEF Match
  <2>2. CASE q \in net \/ \E r \in net : Like(q, r)
    BY <1>6, <2>2 DEF Acceptances, Match, Like
  <2> QED
    BY <2>1, <2>2
<1> QED
  BY <1>2, <1>3, <1>4, <1>5, <1>6 DEF Acceptances

\* A row is written for a check that shows its image.
LEMMA PutsRowed ==
  ASSUME Base, Rowed, NEW c \in DOMAIN check, Puts(check[c].image),
         landed' = landed \cup {c}, ChecksKeep
  PROVE  Rowed'
<1>1. landed \subseteq DOMAIN check
  BY DEF Base, TypeOK
<1>2. ASSUME NEW e \in landed' PROVE \E k \in DOMAIN rows' : rows'[k] = check'[e].image
  BY <1>1 DEF Rowed, Puts, ChecksKeep
<1>3. ASSUME NEW k \in DOMAIN rows' PROVE \E e \in landed' : rows'[k] = check'[e].image
  <2>1. CASE k \in DOMAIN rows
    <3>1. PICK e \in landed : rows[k] = check[e].image
      BY <2>1 DEF Rowed
    <3> QED
      BY <1>1, <2>1, <3>1 DEF Puts, ChecksKeep
  <2>2. CASE rows'[k] = check[c].image
    BY <2>2 DEF ChecksKeep
  <2> QED
    BY <2>1, <2>2 DEF Puts
<1> QED
  BY <1>2, <1>3 DEF Rowed

\* The row of a check is written again.
LEMMA ReordersRowed ==
  ASSUME Base, Rowed, NEW c \in DOMAIN check, Reorders,
         \E k \in DOMAIN rows : rows[k] = check[c].image,
         landed' = landed \cup {c}, check' = check
  PROVE  Rowed'
<1>1. ASSUME NEW e \in landed' PROVE \E l \in DOMAIN rows' : rows'[l] = check'[e].image
  <2>1. PICK k \in DOMAIN rows : rows[k] = check[e].image
    BY DEF Rowed
  <2> QED
    BY <2>1 DEF Reorders
<1>2. ASSUME NEW l \in DOMAIN rows' PROVE \E e \in landed' : rows'[l] = check'[e].image
  <2>1. PICK k \in DOMAIN rows : rows'[l] = rows[k]
    BY DEF Reorders
  <2>2. PICK e \in landed : rows[k] = check[e].image
    BY DEF Rowed
  <2> QED
    BY <2>1, <2>2
<1> QED
  BY <1>1, <1>2 DEF Rowed

\* A row is removed, and with it what was known of its checks.
LEMMA RemoveRowed ==
  ASSUME Base, Rowed, NEW j \in DOMAIN rows, RemoveRow(j)
  PROVE  Rowed'
<1>1. Drops(j) /\ landed' = {c \in landed : check[c].image # rows[j]} /\ check' = check
  BY RemoveDrops DEF RemoveRow, Base
<1>2. IsInjective(rows)
  BY DEF Base, TypeOK
<1>3. ASSUME NEW c \in landed' PROVE \E l \in DOMAIN rows' : rows'[l] = check'[c].image
  <2>1. PICK k \in DOMAIN rows : rows[k] = check[c].image
    BY <1>1 DEF Rowed
  <2>2. k # j
    BY <1>1, <2>1
  <2> QED
    BY <1>1, <2>1, <2>2 DEF Drops
<1>4. ASSUME NEW l \in DOMAIN rows' PROVE \E c \in landed' : rows'[l] = check'[c].image
  <2>1. PICK k \in DOMAIN rows : k # j /\ rows'[l] = rows[k]
    BY <1>1 DEF Drops
  <2>2. PICK c \in landed : rows[k] = check[c].image
    BY DEF Rowed
  <2>3. rows[k] # rows[j]
    BY <1>2, <2>1 DEF IsInjective
  <2> QED
    BY <1>1, <2>1, <2>2, <2>3
<1> QED
  BY <1>3, <1>4 DEF Rowed

LEMMA ServeAcceptances ==
  ASSUME Base, Acceptances, NEW r \in net, Serve(r)
  PROVE  Acceptances'
<1>1. CASE StartSession(r)
  <2>1. PICK a \in Reply : /\ Answers(r, a) /\ a.ok /\ ~a.needFile /\ a.id = Len(test) + 1
                           /\ r.op = "start" /\ AddsTest(r.call)
    BY <1>1, StartSessionDoes
  <2> QED
    BY <2>1, AnswersAcceptances DEF AddsTest, ChecksKeep
<1>2. CASE EndSession(r)
  <2>1. r.op = "stop" /\ EndsTest(r.test)
    BY <1>2, EndSessionDoes
  <2>2. PICK a \in Reply : Answers(r, a) /\ ~a.needFile
    BY <1>2, EndSessionDoes
  <2> QED
    BY <2>1, <2>2, AnswersAcceptances DEF EndsTest, ChecksKeep
<1>3. CASE AskFile(r)
  <2>1. r.op = "hash" /\ UNCHANGED serverVars
    BY <1>3, AskFileDoes
  <2>2. PICK a \in Reply : Answers(r, a) /\ a.needFile
    BY <1>3, AskFileDoes
  <2> QED
    BY <2>1, <2>2, AnswersAcceptances DEF serverVars, ChecksKeep
<1>4. CASE Inspect(r)
  <2>1. Reads(r) /\ UNCHANGED serverVars
    BY <1>4, InspectDoes
  <2>2. Rowed'
    BY <2>1 DEF Acceptances, Rowed, serverVars
  <2> QED
    BY <2>1, <2>2, OthersAcceptances DEF Reads, serverVars, ChecksKeep
<1>5. CASE CreateCheck(r)
  <2>1. r.op \in {"hash", "file"} /\ AddsCheck(r)
    BY <1>5, CreateCheckDoes
  <2>2. PICK a \in Reply : Answers(r, a) /\ a.ok /\ ~a.needFile /\ a.id = Len(check) + 1
    BY <1>5, CreateCheckDoes
  <2> QED
    BY <2>1, <2>2, AnswersAcceptances DEF AddsCheck, ChecksKeep
<1>6. CASE SendUpsert(r)
  <2>1. Reads(r) /\ UNCHANGED serverVars
    BY <1>6, SendUpsertDoes
  <2>2. Rowed'
    BY <2>1 DEF Acceptances, Rowed, serverVars
  <2> QED
    BY <2>1, <2>2, OthersAcceptances DEF Reads, serverVars, ChecksKeep
<1>7. CASE AcceptRow(r)
  <2>1. /\ r.op = "accept" /\ Reads(r)
        /\ \/ Puts(r.image) /\ landed' = landed \cup {r.check}
           \/ UNCHANGED <<rows, landed>>
    BY <1>7, AcceptRowDoes
  <2>2. r.check \in DOMAIN check /\ check[r.check].image = r.image
    BY <2>1 DEF Base, Refers, Acceptances, Names
  <2>3. ChecksKeep /\ check' = check
    BY <2>1 DEF Reads, ChecksKeep
  <2>4. Rowed'
    BY <2>1, <2>2, <2>3, PutsRowed DEF Acceptances, Rowed
  <2> QED
    BY <2>1, <2>3, <2>4, OthersAcceptances DEF Reads
<1>8. CASE AcceptAgain(r)
  <2>1. r.op = "accept" /\ r.check \in DOMAIN check /\ check[r.check].image = r.image
    BY <1>8, AcceptAgainDoes DEF Base, Refers, Acceptances, Names
  <2>2. CASE /\ Reads(r) /\ Reorders /\ \E k \in DOMAIN rows : rows[k] = r.image
             /\ landed' = landed \cup {r.check}
    <3>1. ChecksKeep /\ check' = check
      BY <2>2 DEF Reads, ChecksKeep
    <3>2. Rowed'
      BY <2>1, <2>2, <3>1, ReordersRowed DEF Acceptances
    <3> QED
      BY <2>2, <3>1, <3>2, OthersAcceptances DEF Reads
  <2>3. CASE (\E a \in Reply : Answers(r, a) /\ ~a.ok /\ ~a.needFile) /\ UNCHANGED serverVars
    <3>1. PICK a \in Reply : Answers(r, a) /\ ~a.ok
      BY <2>3
    <3> QED
      BY <2>3, <3>1, AnswersAcceptances DEF serverVars, ChecksKeep
  <2> QED
    BY <1>8, <2>2, <2>3, AcceptAgainDoes
<1>9. CASE AcceptSave(r)
  <2>1. r.op = "accept" /\ Accepts(r.check) /\ UNCHANGED <<test, rows, landed>>
    BY <1>9, AcceptSaveDoes
  <2>2. PICK a \in Reply : Answers(r, a) /\ ~a.needFile
    BY <1>9, AcceptSaveDoes
  <2>3. r.check \in DOMAIN check
    BY <2>1 DEF Base, Refers
  <2> QED
    BY <2>1, <2>2, <2>3, AnswersAcceptances DEF Accepts, ChecksKeep
<1> QED
  BY <1>1, <1>2, <1>3, <1>4, <1>5, <1>6, <1>7, <1>8, <1>9 DEF Serve

LEMMA StepAcceptances == Base /\ Acceptances /\ [Next]_vars => Acceptances'
<1> SUFFICES ASSUME Base, Acceptances, [Next]_vars PROVE Acceptances'
  OBVIOUS
<1>1. TypeOK /\ Rowed
  BY DEF Base, Acceptances
<1>2. ASSUME NEW d \in Driver, Drive(d) PROVE Acceptances'
  BY <1>1, <1>2, DriveDoes, CallingAcceptances, ThrowsAcceptances, ResumesAcceptances,
     GoesOnAcceptances, ReturnsAcceptances, PausesAcceptances
<1>3. ASSUME NEW r \in net, Serve(r) PROVE Acceptances'
  BY <1>3, ServeAcceptances
<1>4. ASSUME NEW c \in DOMAIN check, Review(c) PROVE Acceptances'
  <2>1. PICK r \in Request :
             /\ r.op = "accept" /\ r.call = calls + 1 /\ r.check = c /\ r.image = check[c].image
             /\ net' = net \cup {r} /\ UNCHANGED <<drv, serverVars, told>>
    BY <1>4, ReviewDoes
  <2>2. ChecksKeep /\ Rowed'
    BY <1>1, <2>1 DEF ChecksKeep, Rowed, serverVars
  <2> QED
    BY <2>1, <2>2, OthersAcceptances
<1>5. ASSUME NEW j \in DOMAIN rows, RemoveRow(j) PROVE Acceptances'
  <2>1. UNCHANGED <<drv, net, check, told>> /\ Rowed'
    BY <1>1, <1>5, RemoveRowed DEF RemoveRow
  <2> QED
    BY <2>1, OthersAcceptances DEF ChecksKeep
<1>6. CASE UNCHANGED vars
  <2>1. UNCHANGED <<drv, net, check, told, rows, landed>>
    BY <1>6 DEF vars, serverVars
  <2>2. Rowed'
    BY <1>1, <2>1 DEF Rowed
  <2> QED
    BY <2>1, <2>2, OthersAcceptances DEF ChecksKeep
<1> QED
  BY <1>2, <1>3, <1>4, <1>5, <1>6 DEF Next

-----------------------------------------------------------------------------
(* Races: an upsert fails because of another one that was in flight with it.  *)

Marked(r) ==
  /\ r.step = "sent" => ~r.raced
  /\ r.raced \/ r.step = "collided" => r.met

Races ==
  /\ \A r \in net : Marked(r)
  /\ \A q, r \in net :
       q # r /\ q.step = "upsert" /\ r.step = "upsert" /\ q.image = r.image => q.met

LEMMA InitRaces == Init => Races
BY DEF Init, Races

\* Requests that have no upsert in flight come and go.
Still(r) == r.step \in {"sent", "begun"} /\ ~r.raced

LEMMA RacesKept ==
  ASSUME Races, \A r \in net' : r \in net \/ Still(r)
  PROVE  Races'
<1>1. \A r \in net' : Marked(r)
  BY DEF Races, Still, Marked
<1>2. \A r \in net' : Marked(r)'
  BY <1>1 DEF Marked
<1>3. \A r \in net' : r.step = "upsert" => r \in net
  BY DEF Still
<1> QED
  BY <1>2, <1>3 DEF Races

LEMMA DriveRaces ==
  ASSUME Base, Races, NEW d \in Driver, Drive(d)
  PROVE  Races'
<1>1. TypeOK /\ (drv[d].pc # "idle" => Fresh(drv[d].req))
  BY DEF Base, DriversNumbered
<1>2. ASSUME NEW r \in net' PROVE r \in net \/ Fresh(r)
  BY <1>1, <1>2, DriveDoes DEF Calling, Throws, Resumes, GoesOn, Returns, Pauses, Sends
<1> QED
  BY <1>2, RacesKept DEF Fresh, Still

LEMMA SendUpsertRaces ==
  ASSUME Base, Races, NEW r \in net, SendUpsert(r)
  PROVE  Races'
<1> DEFINE others == InFlight(r.image)
           s == [r EXCEPT !.step = "upsert", !.met = others # {}]
<1>1. r.step = "sent" /\ net' = (net \ ({r} \cup others)) \cup {[q EXCEPT !.met = TRUE] : q \in others} \cup {s}
  BY DEF SendUpsert
<1>2. \A q \in net : q \in Request /\ Marked(q)
  BY Parts DEF Base, Races
<1>3. \A q : q \in others <=> q \in net /\ q.step = "upsert" /\ q.image = r.image
  BY DEF InFlight
<1>4. /\ s.step = "upsert" /\ s.image = r.image /\ ~s.raced /\ (others # {} => s.met)
  BY <1>1, <1>2 DEF Request, Marked
<1>5. \A q \in others : LET m == [q EXCEPT !.met = TRUE] IN m.met /\ m.step = q.step /\ m.image = q.image
  BY <1>2, <1>3 DEF Request
<1> HIDE DEF others, s
<1>6. ASSUME NEW q \in net' PROVE Marked(q)
  BY <1>1, <1>2, <1>4, <1>5, <1>3 DEF Marked
\* A request whose upsert is in flight is r, another one for the row, or was so before.
<1>7. ASSUME NEW q \in net', q.step = "upsert"
      PROVE  \/ q = s
             \/ q.met /\ q.image = r.image /\ others # {}
             \/ q \in net /\ q.image # r.image
  BY <1>1, <1>3, <1>5, <1>7
<1>8. ASSUME NEW p \in net', NEW q \in net', p # q, p.step = "upsert", q.step = "upsert",
             p.image = q.image
      PROVE  p.met
  BY <1>4, <1>7, <1>8 DEF Races
<1> QED
  BY <1>6, <1>8 DEF Races, Marked

LEMMA AcceptRowRaces ==
  ASSUME Base, Races, NEW r \in net, AcceptRow(r)
  PROVE  Races'
<1> DEFINE others == IF Contains(rows, r.image) THEN {} ELSE InFlight(r.image) \ {r}
<1>1. r.step = "upsert" /\ r \in Request
  BY Parts DEF AcceptRow, Base
<1>2. \A q \in net : q \in Request /\ Marked(q)
  BY Parts DEF Base, Races
<1>3. \A q \in others : q \in net /\ q # r /\ q.step = "upsert" /\ q.image = r.image /\ q.met
  BY <1>1 DEF InFlight, Races
<1>4. ASSUME net' = (net \ ({r} \cup others)) \cup {[q EXCEPT !.raced = TRUE] : q \in others}
                      \cup {Written(r)}
      PROVE  Races'
  <2> HIDE DEF others
  <2>1. Written(r).step = "begun" /\ ~Written(r).raced
    BY <1>1 DEF Written, Request
  <2>2. \A q \in others : LET m == [q EXCEPT !.raced = TRUE] IN
                            m.met /\ m.step = q.step /\ m.image = q.image
    BY <1>2, <1>3 DEF Request
  <2>3. ASSUME NEW q \in net' PROVE Marked(q)
    BY <1>2, <1>3, <1>4, <2>1, <2>2 DEF Marked
  <2>4. ASSUME NEW p \in net', NEW q \in net', p # q, p.step = "upsert", q.step = "upsert",
               p.image = q.image
        PROVE  p.met
    <3>1. p.met \/ p \in net \ ({r} \cup others)
      BY <1>4, <2>1, <2>2, <2>4
    <3>2. ASSUME p \in net \ ({r} \cup others) PROVE p.met
      <4>1. \/ q \in net
            \/ \E o \in others : q.image = o.image
        BY <1>4, <2>1, <2>2, <2>4
      <4>2. CASE q \in net
        BY <2>4, <3>2, <4>2 DEF Races
      <4>3. CASE \E o \in others : q.image = o.image
        <5>1. PICK o \in others : q.image = o.image
          BY <4>3
        <5> QED
          BY <1>3, <2>4, <3>2, <5>1 DEF Races
      <4> QED
        BY <4>1, <4>2, <4>3
    <3> QED
      BY <3>1, <3>2
  <2> QED
    BY <2>3, <2>4 DEF Races, Marked
<1>5. ASSUME r.raced, net' = (net \ {r}) \cup {[r EXCEPT !.step = "collided"]}
      PROVE  Races'
  <2> DEFINE s == [r EXCEPT !.step = "collided"]
  <2>1. s.step = "collided" /\ s.met
    BY <1>1, <1>2, <1>5 DEF Request, Marked
  <2> HIDE DEF s
  <2>2. net' = (net \ {r}) \cup {s}
    BY <1>5 DEF s
  <2>3. ASSUME NEW q \in net' PROVE Marked(q)
    BY <1>2, <2>1, <2>2 DEF Marked
  <2>4. \A q \in net' : q.step = "upsert" => q \in net
    BY <2>1, <2>2
  <2> QED
    BY <2>3, <2>4 DEF Races, Marked
<1> QED
  BY <1>4, <1>5 DEF AcceptRow

LEMMA ServeRaces ==
  ASSUME Base, Races, NEW r \in net, Serve(r)
  PROVE  Races'
<1>1. r \in Request /\ Marked(r)
  BY Parts DEF Base, Races
<1>2. CASE \E a : Done(r, a)
  BY <1>2, RacesKept DEF Done
<1>3. CASE Inspect(r)
  <2> DEFINE q == [r EXCEPT !.step = "begun", !.new = IsNew]
  <2>1. net' = (net \ {r}) \cup {q} /\ r.step = "sent"
    BY <1>3 DEF Inspect
  <2>2. Still(q)
    BY <1>1, <2>1 DEF Request, Still, Marked
  <2> HIDE DEF q
  <2> QED
    BY <2>1, <2>2, RacesKept
<1>4. CASE net' = (net \ {r}) \cup {Written(r)}
  <2>1. Still(Written(r))
    BY <1>1 DEF Request, Still, Written
  <2> QED
    BY <1>4, <2>1, RacesKept
<1>5. CASE SendUpsert(r)
  BY <1>5, SendUpsertRaces
<1>6. CASE AcceptRow(r)
  BY <1>6, AcceptRowRaces
<1>7. CASE StartSession(r) \/ EndSession(r) \/ AskFile(r) \/ CreateCheck(r) \/ AcceptSave(r)
  BY <1>2, <1>7 DEF StartSession, EndSession, AskFile, CreateCheck, AcceptSave
<1>8. CASE AcceptAgain(r)
  BY <1>2, <1>4, <1>8 DEF AcceptAgain
<1> QED
  BY <1>3, <1>5, <1>6, <1>7, <1>8 DEF Serve

LEMMA StepRaces == Base /\ Races /\ [Next]_vars => Races'
<1> SUFFICES ASSUME Base, Races, [Next]_vars PROVE Races'
  OBVIOUS
<1>1. ASSUME NEW d \in Driver, Drive(d) PROVE Races'
  BY <1>1, DriveRaces
<1>2. ASSUME NEW r \in net, Serve(r) PROVE Races'
  BY <1>2, ServeRaces
<1>3. ASSUME NEW c \in DOMAIN check, Review(c) PROVE Races'
  <2>1. PICK r : Fresh(r) /\ net' = net \cup {r}
    BY <1>3, ReviewDoes
  <2> QED
    BY <2>1, RacesKept DEF Fresh, Still
<1>4. ASSUME NEW j \in DOMAIN rows, RemoveRow(j) PROVE Races'
  BY <1>4, RacesKept DEF RemoveRow
<1>5. CASE UNCHANGED vars
  BY <1>5, RacesKept DEF vars
<1> QED
  BY <1>1, <1>2, <1>3, <1>4, <1>5 DEF Next

\* The rows change when a row is written for a check for the first time, or goes, or
\* is written again by an upsert that another one has met.
Moves == rows' = rows \/ landed' # landed \/ \E r \in net : r.met /\ Restamp(r.image)

LEMMA RowsMove ==
  ASSUME Base, Acceptances, Races, [Next]_vars
  PROVE  Moves
<1>1. TypeOK
  BY DEF Base
<1>2. ASSUME NEW d \in Driver, Drive(d) PROVE rows' = rows
  <2>1. Alone(d)
    BY <1>1, <1>2, DriveDoes DEF Calling, Throws, Resumes, GoesOn, Returns, Pauses, Sends
  <2> QED
    BY <2>1 DEF Alone, serverVars
\* A row that is written is not that of a check that had one.
<1>3. ASSUME NEW r \in net, AcceptRow(r) PROVE rows' = rows \/ landed' # landed
  <2>1. r.op = "accept" /\ ((Puts(r.image) /\ landed' = landed \cup {r.check}) \/ rows' = rows)
    BY <1>3, AcceptRowDoes
  <2>2. r.check \in DOMAIN check /\ check[r.check].image = r.image
    BY <2>1 DEF Base, Refers, Acceptances, Names
  <2>3. ASSUME Puts(r.image), landed' = landed \cup {r.check}, rows' # rows PROVE landed' # landed
    <3>1. \A k \in DOMAIN rows : rows[k] # check[r.check].image
      BY <2>2, <2>3 DEF Puts
    <3>2. r.check \notin landed
      BY <3>1 DEF Acceptances, Rowed
    <3> QED
      BY <2>3, <3>2
  <2> QED
    BY <2>1, <2>3
<1>4. ASSUME NEW r \in net, AcceptAgain(r) PROVE rows' = rows \/ (r.met /\ Restamp(r.image))
  BY <1>4, AcceptAgainDoes DEF Races, Marked, serverVars
<1>5. ASSUME NEW r \in net, Serve(r) PROVE Moves
  BY <1>3, <1>4, <1>5 DEF Moves, Serve, StartSession, EndSession, AskFile, Inspect, CreateCheck,
     SendUpsert, AcceptSave, serverVars
<1>6. ASSUME NEW c \in DOMAIN check, Review(c) PROVE rows' = rows
  BY <1>6 DEF Review, serverVars
<1>7. ASSUME NEW j \in DOMAIN rows, RemoveRow(j) PROVE landed' # landed
  <2>1. PICK c \in landed : rows[j] = check[c].image
    BY DEF Acceptances, Rowed
  <2> QED
    BY <1>7, <2>1 DEF RemoveRow
<1> QED
  BY <1>2, <1>5, <1>6, <1>7 DEF Next, vars, serverVars, Moves

-----------------------------------------------------------------------------
(* Theorems *)

\* Every state is of the types: no document gets an id that no call is left for.
THEOREM ClientTypes == Spec => []TypeOK
<1>1. Base => TypeOK
  BY DEF Base
<1> QED
  BY <1>1, InitBase, StepBase, PTL DEF Spec

\* requestWithRetry: however often and however late the requests of a call are
\* served, it leaves at most one test or check.
THEOREM CallsLeaveOne == Spec => []AtMostOnce
<1>1. Base => AtMostOnce
  BY DEF Base
<1> QED
  BY <1>1, InitBase, StepBase, PTL DEF Spec

\* startTestSession, check, stopTestSession: a check is in the test of the session
\* it was taken in, and the test that a driver adds checks to has not been ended.
THEOREM SessionsStay == Spec => []SessionKept
<1>1. Init => Base /\ Sessions
  BY InitBase, InitSessions
<1>2. Base /\ Sessions /\ [Next]_vars => (Base /\ Sessions)'
  BY StepBase, StepSessions
<1>3. Sessions => SessionKept
  BY DEF Sessions, ChecksDirected, InSession, OpenFor, SessionKept, ChecksInOwnTest, SessionOpen
<1> QED
  BY <1>1, <1>2, <1>3, PTL DEF Spec

\* acceptBaseline and createNewBaseline: what a driver reports as accepted is accepted,
\* and a repeated or late request to accept does not bring an older baseline back, other
\* than one whose upsert was in flight together with another one for the same image.
THEOREM AcceptancesStay == Spec => AcceptanceKept
<1>1. Init => Base /\ Acceptances /\ Races
  BY InitBase, InitAcceptances, InitRaces
<1>2. Base /\ Acceptances /\ Races /\ [Next]_vars => (Base /\ Acceptances /\ Races)'
  BY StepBase, StepAcceptances, StepRaces
<1>3. Acceptances => AcceptedHolds
  BY DEF Acceptances
<1>4. Base /\ Acceptances /\ Races /\ [Next]_vars => [Moves]_vars
  BY RowsMove
<1>5. Spec => []AcceptedHolds
  BY <1>1, <1>2, <1>3, PTL DEF Spec
<1>6. Spec => [][Moves]_vars
  BY <1>1, <1>2, <1>4, PTL DEF Spec
<1> QED
  BY <1>5, <1>6 DEF AcceptanceKept, RetryKeepsNewer, Moves

=============================================================================
