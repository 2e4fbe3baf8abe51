--------------------------- MODULE CleanupProofs ---------------------------
(***************************************************************************)
(* Proofs about Cleanup: every state is of the types, what an              *)
(* administrator has set stays set (EditSurvives), and a sweep that should *)
(* not begin does so only on a cache that has missed a write of the last   *)
(* moments (NoStaleSweep), for any number of servers and administrators.   *)
(***************************************************************************)
EXTENDS Cleanup, TLAPS

-----------------------------------------------------------------------------
(* Ages *)

LEMMA Ages == TTL \in Nat /\ MinInterval \in Nat
  BY CleanupAssumption

LEMMA Bounds == MaxEdits \in Nat /\ MaxCrashes \in Nat
  BY CleanupAssumption

\* Two ages that grow together stay in their order.
LEMMA AgesGrow ==
  ASSUME NEW n \in Nat, NEW a \in 0 .. n, NEW b \in 0 .. n
  PROVE  /\ UpTo(n, a) \in 0 .. n
         /\ a <= b => UpTo(n, a) <= UpTo(n, b)
         /\ UpTo(n, a) < UpTo(n, b) => a < b
  BY DEF UpTo

LEMMA OlderValue ==
  ASSUME NEW v \in Value
  PROVE  /\ Older(v) \in Value
         /\ Older(v).conf = v.conf
         /\ Older(v).last = UpTo(MinInterval, v.last)
  BY Ages DEF Older, UpTo, Value

LEMMA EffectiveTwice ==
  ASSUME NEW c \in Conf \cup {Default}
  PROVE  /\ Effective(c) \in Conf \cup {Default}
         /\ Effective(Effective(c)) = Effective(c)
  BY DEF Effective

-----------------------------------------------------------------------------
(* Types.  What an administrator sends has been entered; a server acts on    *)
(* itself, a request on the server that has got it; an answer of the         *)
(* database is awaited, and a refreshed cache is fresh as long as the call   *)
(* that has refreshed it lasts.                                              *)

Entered == \A a \in Admin : pc[a] = "set" => loc[a].value.conf \in Conf

Placed ==
  /\ \A x \in Actor : pc[x] # "idle" => loc[x].on \in Server
  /\ \A s \in Server : pc[s] # "idle" => loc[s].on = s

Awaited ==
  \A x \in Actor :
    /\ loc[x].read # None => pc[x] \in {"get", "set", "flag"}
    /\ loc[x].ready => pc[x] \in {"get", "set", "flag"} /\ at[loc[x].on] = 0

Typed == TypeOK /\ Entered /\ Placed /\ Awaited

\* What a step of a call does to the one that takes it.
LEMMA GotoSets ==
  ASSUME TypeOK, NEW x \in Actor, NEW step \in Steps, NEW l \in Locals, Goto(x, step, l)
  PROVE  /\ pc' \in [Actor -> Steps] /\ loc' \in [Actor -> Locals]
         /\ pc'[x] = step
         /\ loc'[x].on = l.on /\ loc'[x].value = l.value
         /\ loc'[x].enabled = l.enabled /\ loc'[x].read = l.read /\ ~loc'[x].ready
         /\ \A y \in Actor : y # x => pc'[y] = pc[y] /\ loc'[y] = loc[y]
<1>1. [l EXCEPT !.ready = FALSE] \in Locals
  BY DEF Locals
<1>2. pc \in [Actor -> Steps] /\ loc \in [Actor -> Locals]
  BY DEF TypeOK
<1>3. pc'[x] = step /\ loc'[x] = [l EXCEPT !.ready = FALSE]
  BY <1>2 DEF Goto
<1>4. pc' \in [Actor -> Steps] /\ loc' \in [Actor -> Locals]
  BY <1>1, <1>2 DEF Goto
<1>5. \A y \in Actor : y # x => pc'[y] = pc[y] /\ loc'[y] = loc[y]
  BY <1>2 DEF Goto
<1>6. /\ loc'[x].on = l.on /\ loc'[x].value = l.value
      /\ loc'[x].enabled = l.enabled /\ loc'[x].read = l.read /\ ~loc'[x].ready
  BY <1>3 DEF Locals
<1>7. QED
  BY <1>3, <1>4, <1>5, <1>6

LEMMA BlankTyped ==
  /\ Blank \in Locals /\ Fresh \in Value
  /\ Blank.on = None /\ Blank.read = None /\ ~Blank.ready
BY Ages DEF Blank, Locals, Fresh, Value

LEMMA FinishSets ==
  ASSUME TypeOK, NEW x \in Actor, Finish(x)
  PROVE  /\ pc' \in [Actor -> Steps] /\ loc' \in [Actor -> Locals]
         /\ pc'[x] = "idle" /\ loc'[x].read = None /\ ~loc'[x].ready
         /\ \A y \in Actor : y # x => pc'[y] = pc[y] /\ loc'[y] = loc[y]
<1>1. "idle" \in Steps
  BY DEF Steps
<1>2. Goto(x, "idle", Blank)
  BY DEF Finish
<1>3. Blank \in Locals /\ Blank.read = None
  BY BlankTyped
<1>4. QED
  BY <1>1, <1>2, <1>3, GotoSets

\* The parts of the state, one at a time.
LEMMA Parts ==
  ASSUME TypeOK
  PROVE  /\ db \in Setting /\ db.value \in Value /\ db.enabled \in BOOLEAN
         /\ \A s \in Server : /\ cache[s] \in Setting /\ cache[s].value \in Value
                              /\ cache[s].enabled \in BOOLEAN
                              /\ at[s] \in 0 .. TTL + 1
         /\ \A x \in Actor : /\ pc[x] \in Steps /\ loc[x] \in Locals
                             /\ loc[x].value \in Value /\ loc[x].enabled \in BOOLEAN
                             /\ loc[x].read # None =>
                                  /\ loc[x].read \in Setting
                                  /\ loc[x].read.value \in Value
                                  /\ loc[x].read.enabled \in BOOLEAN
<1>1. db \in Setting /\ cache \in [Server -> Setting] /\ at \in [Server -> 0 .. TTL + 1]
      /\ pc \in [Actor -> Steps] /\ loc \in [Actor -> Locals]
  BY DEF TypeOK
<1>2. \A v \in Setting : v.value \in Value /\ v.enabled \in BOOLEAN
  BY DEF Setting
<1>3. \A l \in Locals : /\ l.value \in Value /\ l.enabled \in BOOLEAN
                        /\ l.read # None => l.read \in Setting
  BY DEF Locals
<1>4. QED
  BY <1>1, <1>2, <1>3

LEMMA ServersAct == Server \subseteq Actor /\ Admin \subseteq Actor
  BY DEF Actor

\* Where the calls are, and what a step that only moves one of them leaves.
LEMMA SomeSteps ==
  /\ \A step \in {"idle", "form", "sweep", "get", "set", "setCache", "flag", "flagCache"} :
       step \in Steps
BY DEF Steps, Awaits

-----------------------------------------------------------------------------
(* What each step does, field by field *)

\* A step of x leaves the other calls alone.
Alone(x) == \A y \in Actor : y # x => pc'[y] = pc[y] /\ loc'[y] = loc[y]

\* It moves nothing but what x remembers of an answer.
Same(x) ==
  /\ pc'[x] = pc[x]
  /\ loc'[x].on = loc[x].on /\ loc'[x].value = loc[x].value
  /\ loc'[x].enabled = loc[x].enabled

\* It takes x to a next step with nothing in flight.
Moves(x, step) ==
  /\ pc'[x] = step /\ loc'[x].on = loc[x].on
  /\ loc'[x].read = loc[x].read /\ ~loc'[x].ready

Calls == pc' \in [Actor -> Steps] /\ loc' \in [Actor -> Locals]

LEMMA ReadDoes ==
  ASSUME TypeOK, NEW x \in Actor, Read(x)
  PROVE  /\ Calls /\ Alone(x) /\ Same(x)
         /\ loc'[x].read = db /\ loc'[x].ready = loc[x].ready
<1>1. loc \in [Actor -> Locals] /\ db \in Setting /\ loc[x] \in Locals
  BY DEF TypeOK
<1>2. [loc[x] EXCEPT !.read = db] \in Locals
  BY <1>1 DEF Locals
<1>3. loc' = [loc EXCEPT ![x] = [loc[x] EXCEPT !.read = db]] /\ pc' = pc
  BY <1>1 DEF Read
<1>4. loc'[x] = [loc[x] EXCEPT !.read = db]
  BY <1>1, <1>3
<1>5. Calls
  BY <1>1, <1>2, <1>3 DEF Calls, TypeOK
<1>6. Alone(x)
  BY <1>1, <1>3 DEF Alone
<1>7. Same(x) /\ loc'[x].read = db /\ loc'[x].ready = loc[x].ready
  BY <1>1, <1>3, <1>4 DEF Same, Locals
<1>8. QED
  BY <1>5, <1>6, <1>7

LEMMA LandDoes ==
  ASSUME TypeOK, NEW x \in Actor, Land(x)
  PROVE  /\ Calls /\ Alone(x) /\ Same(x)
         /\ loc'[x].read = None /\ loc'[x].ready
         /\ cache' \in [Server -> Setting] /\ at' \in [Server -> 0 .. TTL + 1]
         /\ \A s \in Server : IF s = loc[x].on THEN cache'[s] = loc[x].read /\ at'[s] = 0
                                               ELSE cache'[s] = cache[s] /\ at'[s] = at[s]
<1>1. loc \in [Actor -> Locals] /\ loc[x] \in Locals /\ loc[x].read \in Setting
  BY Parts DEF TypeOK, Land
<1>2. [loc[x] EXCEPT !.read = None, !.ready = TRUE] \in Locals
  BY <1>1 DEF Locals
<1>3. loc' = [loc EXCEPT ![x] = [loc[x] EXCEPT !.read = None, !.ready = TRUE]] /\ pc' = pc
  BY <1>1 DEF Land
<1>4. loc'[x] = [loc[x] EXCEPT !.read = None, !.ready = TRUE]
  BY <1>1, <1>3
<1>5. Calls
  BY <1>1, <1>2, <1>3 DEF Calls, TypeOK
<1>6. Alone(x)
  BY <1>1, <1>3 DEF Alone
<1>7. Same(x) /\ loc'[x].read = None /\ loc'[x].ready
  BY <1>1, <1>3, <1>4 DEF Same, Locals
<1>8. cache' \in [Server -> Setting] /\ at' \in [Server -> 0 .. TTL + 1]
  <2>1. 0 \in 0 .. TTL + 1
    BY Ages
  <2>2. at' \in [Server -> 0 .. TTL + 1]
    BY <2>1 DEF Land, TypeOK
  <2>3. cache' \in [Server -> Setting]
    BY <1>1 DEF Land, TypeOK
  <2>4. QED
    BY <2>2, <2>3
<1>9. \A s \in Server : IF s = loc[x].on THEN cache'[s] = loc[x].read /\ at'[s] = 0
                                         ELSE cache'[s] = cache[s] /\ at'[s] = at[s]
  BY DEF Land, TypeOK
<1>10. QED
  BY <1>5, <1>6, <1>7, <1>8, <1>9

LEMMA SetDoes ==
  ASSUME TypeOK, NEW x \in Actor, Set(x)
  PROVE  /\ Calls /\ Alone(x) /\ Moves(x, "setCache")
         /\ loc'[x].value = loc[x].value
         /\ db' \in Setting /\ db'.value = loc[x].value /\ db'.enabled = db.enabled
<1>1. loc[x] \in Locals /\ db \in Setting /\ loc[x].value \in Value
  BY Parts
<1>2. Goto(x, "setCache", loc[x])
  BY DEF Set
<1>3. Calls /\ Alone(x) /\ Moves(x, "setCache") /\ loc'[x].value = loc[x].value
  BY <1>1, <1>2, GotoSets, SomeSteps DEF Calls, Alone, Moves
<1>4. db' \in Setting /\ db'.value = loc[x].value /\ db'.enabled = db.enabled
  BY <1>1 DEF Set, Setting
<1>5. QED
  BY <1>3, <1>4

\* SetCache and FlagCache: one field of the copy of the own server.
LEMMA CopyOfValue ==
  ASSUME TypeOK, NEW x \in Actor,
         cache' = [cache EXCEPT ![loc[x].on].value = loc[x].value]
  PROVE  /\ cache' \in [Server -> Setting]
         /\ \A s \in Server :
              /\ cache'[s].enabled = cache[s].enabled
              /\ cache'[s].value = IF s = loc[x].on THEN loc[x].value ELSE cache[s].value
<1>1. loc[x].value \in Value /\ cache \in [Server -> Setting]
  BY Parts DEF TypeOK
<1>2. \A s \in Server : cache'[s] = IF s = loc[x].on
                                    THEN [cache[s] EXCEPT !.value = loc[x].value]
                                    ELSE cache[s]
  BY <1>1
<1>3. \A v \in Setting : /\ [v EXCEPT !.value = loc[x].value] \in Setting
                         /\ [v EXCEPT !.value = loc[x].value].value = loc[x].value
                         /\ [v EXCEPT !.value = loc[x].value].enabled = v.enabled
  BY <1>1 DEF Setting
<1>4. cache' \in [Server -> Setting]
  BY <1>1, <1>3
<1>5. QED
  BY <1>1, <1>2, <1>3, <1>4

LEMMA CopyOfFlag ==
  ASSUME TypeOK, NEW x \in Actor,
         cache' = [cache EXCEPT ![loc[x].on].enabled = loc[x].enabled]
  PROVE  /\ cache' \in [Server -> Setting]
         /\ \A s \in Server :
              /\ cache'[s].value = cache[s].value
              /\ cache'[s].enabled = IF s = loc[x].on THEN loc[x].enabled
                                                      ELSE cache[s].enabled
<1>1. loc[x].enabled \in BOOLEAN /\ cache \in [Server -> Setting]
  BY Parts DEF TypeOK
<1>2. \A s \in Server : cache'[s] = IF s = loc[x].on
                                    THEN [cache[s] EXCEPT !.enabled = loc[x].enabled]
                                    ELSE cache[s]
  BY <1>1
<1>3. \A v \in Setting : /\ [v EXCEPT !.enabled = loc[x].enabled] \in Setting
                         /\ [v EXCEPT !.enabled = loc[x].enabled].enabled = loc[x].enabled
                         /\ [v EXCEPT !.enabled = loc[x].enabled].value = v.value
  BY <1>1 DEF Setting
<1>4. cache' \in [Server -> Setting]
  BY <1>1, <1>3
<1>5. QED
  BY <1>1, <1>2, <1>3, <1>4

LEMMA SetCacheDoes ==
  ASSUME TypeOK, NEW x \in Actor, SetCache(x)
  PROVE  /\ Calls /\ Alone(x)
         /\ \/ x \in Admin /\ Moves(x, "flag") /\ loc'[x].read = loc[x].read
            \/ x \notin Admin /\ pc'[x] = "idle" /\ loc'[x].read = None
         /\ ~loc'[x].ready
         /\ cache' \in [Server -> Setting]
         /\ \A s \in Server :
              /\ cache'[s].enabled = cache[s].enabled
              /\ cache'[s].value = IF s = loc[x].on THEN loc[x].value ELSE cache[s].value
<1>1. loc[x] \in Locals /\ loc[x].value \in Value /\ cache \in [Server -> Setting]
  BY Parts DEF TypeOK
<1>2. CASE x \in Admin
  <2>1. Goto(x, "flag", loc[x])
    BY <1>2 DEF SetCache
  <2>2. "flag" \in Steps
    BY SomeSteps
  <2>3. Calls /\ Alone(x) /\ Moves(x, "flag")
    BY <1>1, <2>1, <2>2, GotoSets DEF Calls, Alone, Moves
  <2>4. QED
    BY <1>2, <2>3, CopyOfValue DEF Moves, SetCache
<1>3. CASE x \notin Admin
  <2>1. Finish(x)
    BY <1>3 DEF SetCache
  <2>2. Calls /\ Alone(x) /\ pc'[x] = "idle" /\ loc'[x].read = None /\ ~loc'[x].ready
    BY <2>1, FinishSets DEF Calls, Alone
  <2>3. QED
    BY <1>3, <2>2, CopyOfValue DEF SetCache
<1>4. QED
  BY <1>2, <1>3

LEMMA FlagDoes ==
  ASSUME TypeOK, NEW x \in Actor, Flag(x)
  PROVE  /\ Calls /\ Alone(x) /\ Moves(x, "flagCache")
         /\ loc'[x].enabled = loc[x].enabled
         /\ db' \in Setting /\ db'.value = db.value /\ db'.enabled = loc[x].enabled
<1>1. loc[x] \in Locals /\ db \in Setting /\ loc[x].enabled \in BOOLEAN
  BY Parts
<1>2. Goto(x, "flagCache", loc[x]) /\ "flagCache" \in Steps
  BY SomeSteps DEF Flag
<1>3. Calls /\ Alone(x) /\ Moves(x, "flagCache") /\ loc'[x].enabled = loc[x].enabled
  BY <1>1, <1>2, GotoSets DEF Calls, Alone, Moves
<1>4. db' \in Setting /\ db'.value = db.value /\ db'.enabled = loc[x].enabled
  BY <1>1 DEF Flag, Setting
<1>5. QED
  BY <1>3, <1>4

LEMMA FlagCacheDoes ==
  ASSUME TypeOK, NEW x \in Actor, FlagCache(x)
  PROVE  /\ Calls /\ Alone(x) /\ pc'[x] = "idle" /\ loc'[x].read = None /\ ~loc'[x].ready
         /\ cache' \in [Server -> Setting]
         /\ \A s \in Server :
              /\ cache'[s].value = cache[s].value
              /\ cache'[s].enabled = IF s = loc[x].on THEN loc[x].enabled
                                                      ELSE cache[s].enabled
<1>1. Finish(x) /\ cache' = [cache EXCEPT ![loc[x].on].enabled = loc[x].enabled]
  BY DEF FlagCache
<1>2. Calls /\ Alone(x) /\ pc'[x] = "idle" /\ loc'[x].read = None /\ ~loc'[x].ready
  BY <1>1, FinishSets DEF Calls, Alone
<1>3. QED
  BY <1>1, <1>2, CopyOfFlag

LEMMA OpenFormDoes ==
  ASSUME TypeOK, NEW a \in Admin, NEW s \in Server, OpenForm(a, s)
  PROVE  /\ Calls /\ Alone(a) /\ pc'[a] = "form" /\ loc'[a].on = s
         /\ loc'[a].read = None /\ ~loc'[a].ready
<1> DEFINE l == [Blank EXCEPT !.on = s, !.value = cache[s].value]
<1>1. cache[s].value \in Value /\ a \in Actor
  BY Parts, ServersAct
<1>2. l \in Locals /\ l.on = s /\ l.read = None
  BY <1>1, BlankTyped DEF Locals
<1>3. Goto(a, "form", l) /\ "form" \in Steps
  BY SomeSteps DEF OpenForm
<1> HIDE DEF l
<1>4. /\ pc' \in [Actor -> Steps] /\ loc' \in [Actor -> Locals]
      /\ pc'[a] = "form" /\ loc'[a].on = l.on /\ loc'[a].read = l.read /\ ~loc'[a].ready
      /\ \A y \in Actor : y # a => pc'[y] = pc[y] /\ loc'[y] = loc[y]
  BY <1>1, <1>2, <1>3, GotoSets
<1>5. QED
  BY <1>2, <1>4 DEF Calls, Alone

LEMMA SubmitDoes ==
  ASSUME TypeOK, NEW a \in Admin, Submit(a)
  PROVE  /\ Calls /\ Alone(a) /\ Moves(a, "set") /\ loc'[a].value.conf \in Conf
<1>1. a \in Actor /\ loc[a] \in Locals /\ loc[a].value \in Value
  BY Parts, ServersAct
<1>2. PICK c \in Conf, on \in BOOLEAN :
        Goto(a, "set", [loc[a] EXCEPT !.value.conf = c, !.enabled = on])
  BY DEF Submit
<1> DEFINE l == [loc[a] EXCEPT !.value.conf = c, !.enabled = on]
<1> DEFINE v == [loc[a].value EXCEPT !.conf = c]
<1>3. v \in Value /\ v.conf = c
  BY <1>1 DEF Value
<1>4. l = [loc[a] EXCEPT !.value = v, !.enabled = on]
  BY <1>1 DEF Locals
<1> HIDE DEF v
<1>5. l \in Locals /\ l.on = loc[a].on /\ l.read = loc[a].read /\ l.value = v
  BY <1>1, <1>3, <1>4 DEF Locals
<1>6. Goto(a, "set", l) /\ "set" \in Steps
  BY <1>2, SomeSteps
<1> HIDE DEF l
<1>7. QED
  BY <1>1, <1>3, <1>5, <1>6, GotoSets DEF Calls, Alone, Moves

LEMMA SkipDoes ==
  ASSUME TypeOK, NEW s \in Server, Skip(s)
  PROVE  /\ Calls /\ Alone(s) /\ pc'[s] = "idle" /\ loc'[s].read = None /\ ~loc'[s].ready
BY ServersAct, FinishSets DEF Skip, Calls, Alone

LEMMA SweepFailsDoes ==
  ASSUME TypeOK, NEW s \in Server, SweepFails(s)
  PROVE  /\ Calls /\ Alone(s) /\ pc'[s] = "idle" /\ loc'[s].read = None /\ ~loc'[s].ready
BY ServersAct, FinishSets DEF SweepFails, Calls, Alone

LEMMA SweptDoes ==
  ASSUME TypeOK, NEW s \in Server, Swept(s)
  PROVE  /\ Calls /\ Alone(s) /\ Moves(s, "set") /\ loc'[s].value = loc[s].value
<1>1. s \in Actor /\ loc[s] \in Locals
  BY Parts, ServersAct
<1>2. Goto(s, "set", loc[s]) /\ "set" \in Steps
  BY SomeSteps DEF Swept
<1>3. QED
  BY <1>1, <1>2, GotoSets DEF Calls, Alone, Moves

LEMMA SweepDoes ==
  ASSUME TypeOK, NEW s \in Server, Sweep(s)
  PROVE  /\ Calls /\ Alone(s) /\ Moves(s, "sweep")
         /\ loc'[s].value.conf = Effective(cache[s].value.conf)
<1> DEFINE v == [conf |-> Effective(cache[s].value.conf), last |-> 0]
<1> DEFINE l == [loc[s] EXCEPT !.value = v]
<1>1. s \in Actor /\ loc[s] \in Locals /\ cache[s].value \in Value
  BY Parts, ServersAct
<1>2. cache[s].value.conf \in Conf \cup {Default}
  BY <1>1 DEF Value
<1>3. v \in Value /\ v.conf = Effective(cache[s].value.conf)
  BY <1>2, EffectiveTwice, Ages DEF Value
<1>4. Goto(s, "sweep", l) /\ "sweep" \in Steps
  BY SomeSteps DEF Sweep
<1> HIDE DEF v
<1>5. l \in Locals /\ l.on = loc[s].on /\ l.read = loc[s].read /\ l.value = v
  BY <1>1, <1>3 DEF Locals
<1> HIDE DEF l
<1>6. QED
  BY <1>1, <1>3, <1>4, <1>5, GotoSets DEF Calls, Alone, Moves

LEMMA TickDoes ==
  ASSUME TypeOK, Tick
  PROVE  /\ Calls
         /\ \A x \in Actor : /\ loc[x].read = None /\ pc[x] \in {"idle", "form", "sweep"}
                             /\ loc'[x].read = None
                             /\ loc'[x].ready => loc[x].ready
                             /\ \/ /\ x \in Server /\ pc'[x] = "get" /\ loc'[x].on = x
                                   /\ ~loc'[x].ready
                                \/ /\ pc'[x] = pc[x] /\ loc'[x].on = loc[x].on
                                   /\ loc'[x].value.conf = loc[x].value.conf
         /\ db' \in Setting
         /\ db'.enabled = db.enabled /\ db'.value.conf = db.value.conf
         /\ db'.value.last = UpTo(MinInterval, db.value.last)
         /\ cache' \in [Server -> Setting] /\ at' \in [Server -> 0 .. TTL + 1]
         /\ \A s \in Server : /\ cache'[s].enabled = cache[s].enabled
                              /\ cache'[s].value.conf = cache[s].value.conf
                              /\ cache'[s].value.last = UpTo(MinInterval, cache[s].value.last)
                              /\ at'[s] = UpTo(TTL + 1, at[s])
<1>1. \A x \in Actor : loc[x].read = None /\ pc[x] \in {"idle", "form", "sweep"}
  BY Parts DEF Tick, Waiting, Steps, Awaits
<1>2. \A v \in Setting : LET w == [v EXCEPT !.value = Older(@)]
                         IN  /\ w \in Setting /\ w.enabled = v.enabled
                             /\ w.value.conf = v.value.conf
                             /\ w.value.last = UpTo(MinInterval, v.value.last)
  <2>1. SUFFICES ASSUME NEW v \in Setting
                 PROVE  LET w == [v EXCEPT !.value = Older(@)]
                        IN  /\ w \in Setting /\ w.enabled = v.enabled
                            /\ w.value.conf = v.value.conf
                            /\ w.value.last = UpTo(MinInterval, v.value.last)
    OBVIOUS
  <2>2. v.value \in Value
    BY DEF Setting
  <2>3. /\ Older(v.value) \in Value /\ Older(v.value).conf = v.value.conf
        /\ Older(v.value).last = UpTo(MinInterval, v.value.last)
    BY <2>2, OlderValue
  <2>4. QED
    BY <2>3 DEF Setting
<1>3. \A l \in Locals : LET m == [l EXCEPT !.value = Older(@)]
                        IN  /\ m \in Locals /\ m.on = l.on /\ m.read = l.read
                            /\ m.ready = l.ready /\ m.value.conf = l.value.conf
  <2>1. SUFFICES ASSUME NEW l \in Locals
                 PROVE  LET m == [l EXCEPT !.value = Older(@)]
                        IN  /\ m \in Locals /\ m.on = l.on /\ m.read = l.read
                            /\ m.ready = l.ready /\ m.value.conf = l.value.conf
    OBVIOUS
  <2>2. l.value \in Value
    BY DEF Locals
  <2>3. Older(l.value) \in Value /\ Older(l.value).conf = l.value.conf
    BY <2>2, OlderValue
  <2>4. QED
    BY <2>3 DEF Locals
<1>4. \A s \in Server : LET m == [Blank EXCEPT !.on = s]
                        IN  m \in Locals /\ m.on = s /\ m.read = None /\ ~m.ready
  BY BlankTyped DEF Locals
<1>5. /\ db' \in Setting /\ db'.enabled = db.enabled /\ db'.value.conf = db.value.conf
      /\ db'.value.last = UpTo(MinInterval, db.value.last)
  BY <1>2 DEF Tick, TypeOK
<1>6. cache' = [s \in Server |-> [cache[s] EXCEPT !.value = Older(@)]]
  BY DEF Tick
<1>7. /\ cache' \in [Server -> Setting]
      /\ \A s \in Server : /\ cache'[s].enabled = cache[s].enabled
                           /\ cache'[s].value.conf = cache[s].value.conf
                           /\ cache'[s].value.last = UpTo(MinInterval, cache[s].value.last)
  BY <1>2, <1>6, Parts
<1>8. /\ at' \in [Server -> 0 .. TTL + 1]
      /\ \A s \in Server : at'[s] = UpTo(TTL + 1, at[s])
  <2>1. TTL + 1 \in Nat
    BY Ages
  <2>2. QED
    BY <2>1, Parts, AgesGrow DEF Tick
<1>9. \A x \in Actor : /\ pc'[x] = IF x \in Server /\ pc[x] = "idle" THEN "get" ELSE pc[x]
                       /\ loc'[x] = IF x \in Server /\ pc[x] = "idle"
                                    THEN [Blank EXCEPT !.on = x]
                                    ELSE IF pc[x] = "idle" THEN loc[x]
                                    ELSE [loc[x] EXCEPT !.value = Older(@)]
  BY DEF Tick, Polls
<1>10. \A x \in Actor : pc'[x] \in Steps /\ loc'[x] \in Locals
  BY <1>3, <1>4, <1>9, Parts, SomeSteps
<1>11. Calls
  BY <1>10 DEF Calls, Tick
<1>12. ASSUME NEW x \in Actor
       PROVE  /\ loc'[x].read = None /\ (loc'[x].ready => loc[x].ready)
              /\ \/ /\ x \in Server /\ pc'[x] = "get" /\ loc'[x].on = x
                    /\ ~loc'[x].ready
                 \/ /\ pc'[x] = pc[x] /\ loc'[x].on = loc[x].on
                    /\ loc'[x].value.conf = loc[x].value.conf
  <2>1. CASE x \in Server /\ pc[x] = "idle"
    BY <2>1, <1>4, <1>9
  <2>2. CASE ~(x \in Server /\ pc[x] = "idle") /\ pc[x] = "idle"
    BY <2>2, <1>1, <1>9
  <2>3. CASE pc[x] # "idle"
    BY <2>3, <1>1, <1>3, <1>9, Parts
  <2>4. QED
    BY <2>1, <2>2, <2>3
<1>13. QED
  BY <1>1, <1>5, <1>7, <1>8, <1>11, <1>12

LEMMA CrashDoes ==
  ASSUME TypeOK, NEW s \in Server, Crash(s)
  PROVE  /\ Calls
         /\ \A x \in Actor :
              \/ x = s /\ pc'[x] = "get" /\ loc'[x].on = s /\ loc'[x].read = None /\ ~loc'[x].ready
              \/ pc'[x] = "idle" /\ loc'[x].read = None /\ ~loc'[x].ready
              \/ loc[x].on # s /\ pc'[x] = pc[x] /\ loc'[x] = loc[x]
         /\ cache' \in [Server -> Setting] /\ at' \in [Server -> 0 .. TTL + 1]
         /\ cache'[s] = db /\ at'[s] = 0
         /\ \A r \in Server : r # s => cache'[r] = cache[r] /\ at'[r] = at[r]
<1>1. 0 \in 0 .. TTL + 1
  BY Ages
<1>2. /\ cache' \in [Server -> Setting] /\ at' \in [Server -> 0 .. TTL + 1]
      /\ cache'[s] = db /\ at'[s] = 0
      /\ \A r \in Server : r # s => cache'[r] = cache[r] /\ at'[r] = at[r]
  BY <1>1 DEF Crash, TypeOK
<1> DEFINE l == [Blank EXCEPT !.on = s]
<1>3. l \in Locals /\ l.on = s /\ l.read = None /\ ~l.ready
  BY BlankTyped DEF Locals
<1>4. \A x \in Actor :
        /\ pc'[x] = IF x = s THEN "get" ELSE IF loc[x].on = s THEN "idle" ELSE pc[x]
        /\ loc'[x] = IF x = s THEN l ELSE IF loc[x].on = s THEN Blank ELSE loc[x]
  BY DEF Crash
<1>5. \A x \in Actor : pc'[x] \in Steps /\ loc'[x] \in Locals
  BY <1>3, <1>4, BlankTyped, Parts, SomeSteps
<1>6. Calls
  BY <1>5 DEF Calls, Crash
<1> HIDE DEF l
<1>7. \A x \in Actor :
         \/ x = s /\ pc'[x] = "get" /\ loc'[x].on = s /\ loc'[x].read = None /\ ~loc'[x].ready
         \/ pc'[x] = "idle" /\ loc'[x].read = None /\ ~loc'[x].ready
         \/ loc[x].on # s /\ pc'[x] = pc[x] /\ loc'[x] = loc[x]
  BY <1>3, <1>4, BlankTyped
<1>8. QED
  BY <1>2, <1>6, <1>7

-----------------------------------------------------------------------------
(* Every state is of the types *)

\* What a step of one call leaves of the typing of the others.
LEMMA OthersTyped ==
  ASSUME Typed, NEW x \in Actor, Alone(x), at' = at,
         x \in Admin /\ pc'[x] = "set" => loc'[x].value.conf \in Conf,
         pc'[x] # "idle" => loc'[x].on \in Server,
         x \in Server /\ pc'[x] # "idle" => loc'[x].on = x,
         loc'[x].read # None => pc'[x] \in {"get", "set", "flag"},
         loc'[x].ready => pc'[x] \in {"get", "set", "flag"} /\ at[loc'[x].on] = 0
  PROVE  Entered' /\ Placed' /\ Awaited'
<1>1. \A y \in Actor : y # x => pc'[y] = pc[y] /\ loc'[y] = loc[y]
  BY DEF Alone
<1>2. Entered'
  BY <1>1, ServersAct DEF Typed, Entered
<1>3. Placed'
  BY <1>1, ServersAct DEF Typed, Placed
<1>4. Awaited'
  BY <1>1 DEF Typed, Awaited
<1>5. QED
  BY <1>2, <1>3, <1>4

LEMMA ReadTyped ==
  ASSUME Typed, NEW x \in Actor, Read(x)
  PROVE  Typed'
<1>1. /\ Calls /\ Alone(x) /\ Same(x)
      /\ loc'[x].read = db /\ loc'[x].ready = loc[x].ready
  BY ReadDoes DEF Typed
<1>2. TypeOK'
  BY <1>1 DEF Typed, TypeOK, Calls, Read, settingVars, historyVars
<1>3. at' = at /\ pc[x] \in {"get", "set", "flag"} /\ ~loc[x].ready
  BY DEF Read, settingVars
<1>4. Entered' /\ Placed' /\ Awaited'
  <2>1. x \in Admin /\ pc[x] = "set" => loc[x].value.conf \in Conf
    BY DEF Typed, Entered
  <2>2. loc[x].on \in Server /\ (x \in Server => loc[x].on = x)
    BY <1>3 DEF Typed, Placed
  <2>3. QED
    BY <1>1, <1>3, <2>1, <2>2, OthersTyped DEF Same
<1>5. QED
  BY <1>2, <1>4 DEF Typed

LEMMA LandTyped ==
  ASSUME Typed, NEW x \in Actor, Land(x)
  PROVE  Typed'
<1>1. /\ Calls /\ Alone(x) /\ Same(x)
      /\ loc'[x].read = None /\ loc'[x].ready
      /\ cache' \in [Server -> Setting] /\ at' \in [Server -> 0 .. TTL + 1]
      /\ \A s \in Server : IF s = loc[x].on THEN cache'[s] = loc[x].read /\ at'[s] = 0
                                            ELSE cache'[s] = cache[s] /\ at'[s] = at[s]
  BY LandDoes DEF Typed
<1>2. TypeOK'
  BY <1>1 DEF Typed, TypeOK, Calls, Land, historyVars
<1>3. pc[x] \in {"get", "set", "flag"}
  BY DEF Typed, Awaited, Land
<1>4. loc[x].on \in Server /\ at'[loc[x].on] = 0
  BY <1>1, <1>3 DEF Typed, Placed
<1>5. \A y \in Actor : y # x => pc'[y] = pc[y] /\ loc'[y] = loc[y]
  BY <1>1 DEF Alone
<1>6. Entered'
  BY <1>1, <1>5, ServersAct DEF Typed, Entered, Same
<1>7. Placed'
  BY <1>1, <1>5, ServersAct DEF Typed, Placed, Same
<1>8. \A y \in Actor : y # x /\ loc[y].ready => at'[loc[y].on] = 0
  <2>1. SUFFICES ASSUME NEW y \in Actor, y # x, loc[y].ready
                 PROVE  at'[loc[y].on] = 0
    OBVIOUS
  <2>2. at[loc[y].on] = 0 /\ loc[y].on \in Server
    BY <2>1 DEF Typed, Awaited, Placed
  <2>3. QED
    BY <2>2, <1>1
<1>9. Awaited'
  BY <1>1, <1>3, <1>4, <1>5, <1>8 DEF Typed, Awaited, Same
<1>10. QED
  BY <1>2, <1>6, <1>7, <1>9 DEF Typed

LEMMA SetTyped ==
  ASSUME Typed, NEW x \in Actor, Set(x)
  PROVE  Typed'
<1>1. /\ Calls /\ Alone(x) /\ Moves(x, "setCache")
      /\ loc'[x].value = loc[x].value
      /\ db' \in Setting /\ db'.value = loc[x].value /\ db'.enabled = db.enabled
  BY SetDoes DEF Typed
<1>2. x \in Admin => loc[x].value.conf \in Conf
  BY DEF Typed, Entered, Set
<1>3. 0 \in 0 .. TTL + 1
  BY Ages
<1>4. wanted' \in Conf \cup {None} /\ edited' \in 0 .. TTL + 1
  BY <1>2, <1>3 DEF Typed, TypeOK, Set
<1>5. TypeOK'
  BY <1>1, <1>3, <1>4 DEF Typed, TypeOK, Calls, Set
<1>6. /\ at' = at /\ pc[x] = "set" /\ loc[x].read = None
  BY DEF Set, Ready
<1>7. loc[x].on \in Server /\ (x \in Server => loc[x].on = x)
  BY <1>6 DEF Typed, Placed
<1>8. Entered' /\ Placed' /\ Awaited'
  BY <1>1, <1>6, <1>7, OthersTyped DEF Moves
<1>9. QED
  BY <1>5, <1>8 DEF Typed

LEMMA SetCacheTyped ==
  ASSUME Typed, NEW x \in Actor, SetCache(x)
  PROVE  Typed'
<1>1. /\ Calls /\ Alone(x)
      /\ \/ x \in Admin /\ Moves(x, "flag") /\ loc'[x].read = loc[x].read
         \/ x \notin Admin /\ pc'[x] = "idle" /\ loc'[x].read = None
      /\ ~loc'[x].ready /\ cache' \in [Server -> Setting]
  BY SetCacheDoes DEF Typed
<1>2. TypeOK'
  BY <1>1 DEF Typed, TypeOK, Calls, SetCache, historyVars
<1>3. at' = at /\ pc[x] = "setCache"
  BY DEF SetCache
<1>4. loc[x].on \in Server /\ (x \in Server => loc[x].on = x)
  BY <1>3 DEF Typed, Placed
<1>5. Entered' /\ Placed' /\ Awaited'
  BY <1>1, <1>3, <1>4, OthersTyped DEF Moves
<1>6. QED
  BY <1>2, <1>5 DEF Typed

LEMMA FlagTyped ==
  ASSUME Typed, NEW x \in Actor, Flag(x)
  PROVE  Typed'
<1>1. /\ Calls /\ Alone(x) /\ Moves(x, "flagCache")
      /\ loc'[x].enabled = loc[x].enabled
      /\ db' \in Setting /\ db'.value = db.value /\ db'.enabled = loc[x].enabled
  BY FlagDoes DEF Typed
<1>2. 0 \in 0 .. TTL + 1
  BY Ages
<1>3. TypeOK'
  BY <1>1, <1>2 DEF Typed, TypeOK, Calls, Flag
<1>4. at' = at /\ pc[x] = "flag" /\ loc[x].read = None
  BY DEF Flag, Ready
<1>5. loc[x].on \in Server /\ (x \in Server => loc[x].on = x)
  BY <1>4 DEF Typed, Placed
<1>6. Entered' /\ Placed' /\ Awaited'
  BY <1>1, <1>4, <1>5, OthersTyped DEF Moves
<1>7. QED
  BY <1>3, <1>6 DEF Typed

LEMMA FlagCacheTyped ==
  ASSUME Typed, NEW x \in Actor, FlagCache(x)
  PROVE  Typed'
<1>1. /\ Calls /\ Alone(x) /\ pc'[x] = "idle" /\ loc'[x].read = None /\ ~loc'[x].ready
      /\ cache' \in [Server -> Setting] /\ at' = at
  BY FlagCacheDoes DEF Typed, FlagCache
<1>2. TypeOK'
  BY <1>1 DEF Typed, TypeOK, Calls, FlagCache, historyVars
<1>3. Entered' /\ Placed' /\ Awaited'
  BY <1>1, OthersTyped
<1>4. QED
  BY <1>2, <1>3 DEF Typed

LEMMA EditTyped ==
  ASSUME Typed, NEW a \in Admin, Edit(a)
  PROVE  Typed'
<1>1. a \in Actor /\ a \notin Server
  BY ServersAct, CleanupAssumption
<1>2. ASSUME NEW s \in Server, OpenForm(a, s)
      PROVE  Typed'
  <2>1. /\ Calls /\ Alone(a) /\ pc'[a] = "form" /\ loc'[a].on = s
        /\ loc'[a].read = None /\ ~loc'[a].ready
    BY <1>2, OpenFormDoes DEF Typed
  <2>2. edits' \in 0 .. MaxEdits
    BY <1>2, Bounds DEF OpenForm, Typed, TypeOK
  <2>3. TypeOK' /\ at' = at
    BY <1>2, <2>1, <2>2 DEF Typed, TypeOK, Calls, OpenForm, settingVars, historyVars
  <2>4. Entered' /\ Placed' /\ Awaited'
    BY <1>1, <2>1, <2>3, OthersTyped
  <2>5. QED
    BY <2>3, <2>4 DEF Typed
<1>3. CASE Submit(a)
  <2>1. Calls /\ Alone(a) /\ Moves(a, "set") /\ loc'[a].value.conf \in Conf
    BY <1>3, SubmitDoes DEF Typed
  <2>2. TypeOK' /\ at' = at /\ pc[a] = "form"
    BY <1>3, <2>1 DEF Typed, TypeOK, Calls, Submit, settingVars, historyVars
  <2>3. loc[a].on \in Server
    BY <1>1, <2>2 DEF Typed, Placed
  <2>4. Entered' /\ Placed' /\ Awaited'
    BY <1>1, <2>1, <2>2, <2>3, OthersTyped DEF Moves
  <2>5. QED
    BY <2>2, <2>4 DEF Typed
<1>4. QED
  BY <1>2, <1>3 DEF Edit

LEMMA ScheduleTyped ==
  ASSUME Typed, NEW s \in Server, Schedule(s)
  PROVE  Typed'
<1>1. s \in Actor /\ s \notin Admin
  BY ServersAct, CleanupAssumption
<1>2. CASE Skip(s)
  <2>1. TypeOK' /\ at' = at
    BY <1>2, SkipDoes DEF Typed, TypeOK, Calls, Skip, settingVars, historyVars
  <2>2. QED
    BY <1>1, <1>2, <2>1, SkipDoes, OthersTyped DEF Typed
<1>3. CASE SweepFails(s)
  <2>1. TypeOK' /\ at' = at
    BY <1>3, SweepFailsDoes DEF Typed, TypeOK, Calls, SweepFails, settingVars, historyVars
  <2>2. QED
    BY <1>1, <1>3, <2>1, SweepFailsDoes, OthersTyped DEF Typed
<1>4. CASE Swept(s)
  <2>1. TypeOK' /\ at' = at /\ pc[s] = "sweep"
    BY <1>4, SweptDoes DEF Typed, TypeOK, Calls, Swept, settingVars, historyVars
  <2>2. Moves(s, "set") /\ Alone(s)
    BY <1>4, SweptDoes DEF Typed
  <2>3. loc[s].on = s
    BY <2>1 DEF Typed, Placed
  <2>4. Entered' /\ Placed' /\ Awaited'
    <3>1. loc[s].read = None
      BY <1>1, <2>1 DEF Typed, Awaited
    <3>2. QED
      BY <1>1, <2>1, <2>2, <2>3, <3>1, OthersTyped DEF Moves
  <2>5. QED
    BY <2>1, <2>4 DEF Typed
<1>5. CASE Sweep(s)
  <2>1. Calls /\ Moves(s, "sweep") /\ Alone(s)
    BY <1>5, SweepDoes DEF Typed
  <2>2. wanted' \in Conf \cup {None}
    BY <1>5 DEF Sweep, Typed, TypeOK
  <2>3. TypeOK' /\ at' = at /\ pc[s] = "get" /\ loc[s].read = None
    BY <1>5, <2>1, <2>2 DEF Typed, TypeOK, Calls, Sweep, Ready, settingVars
  <2>4. loc[s].on = s
    BY <2>3 DEF Typed, Placed
  <2>5. Entered' /\ Placed' /\ Awaited'
    BY <1>1, <2>1, <2>3, <2>4, OthersTyped DEF Moves
  <2>6. QED
    BY <2>3, <2>5 DEF Typed
<1>6. QED
  BY <1>2, <1>3, <1>4, <1>5 DEF Schedule

LEMMA CrashTyped ==
  ASSUME Typed, NEW s \in Server, Crash(s)
  PROVE  Typed'
<1>1. /\ Calls
      /\ \A x \in Actor :
           \/ x = s /\ pc'[x] = "get" /\ loc'[x].on = s /\ loc'[x].read = None /\ ~loc'[x].ready
           \/ pc'[x] = "idle" /\ loc'[x].read = None /\ ~loc'[x].ready
           \/ loc[x].on # s /\ pc'[x] = pc[x] /\ loc'[x] = loc[x]
      /\ cache' \in [Server -> Setting] /\ at' \in [Server -> 0 .. TTL + 1]
      /\ at'[s] = 0
      /\ \A r \in Server : r # s => at'[r] = at[r]
  BY CrashDoes DEF Typed
<1>2. crashes' \in 0 .. MaxCrashes
  BY Bounds DEF Crash, Typed, TypeOK
<1>3. TypeOK'
  BY <1>1, <1>2 DEF Typed, TypeOK, Calls, Crash, historyVars
<1>4. s \in Actor /\ s \notin Admin
  BY ServersAct, CleanupAssumption
<1>5. Entered'
  BY <1>1, <1>4, ServersAct DEF Typed, Entered
<1>6. Placed'
  BY <1>1, <1>4, ServersAct DEF Typed, Placed
<1>7. \A x \in Actor : loc'[x].ready => at'[loc'[x].on] = 0
  BY <1>1 DEF Typed, Awaited, Placed
<1>8. Awaited'
  BY <1>1, <1>7 DEF Typed, Awaited
<1>9. QED
  BY <1>3, <1>5, <1>6, <1>8 DEF Typed

LEMMA TickTyped ==
  ASSUME Typed, Tick
  PROVE  Typed'
<1>1. /\ Calls
      /\ \A x \in Actor : /\ pc[x] \in {"idle", "form", "sweep"}
                          /\ loc'[x].read = None
                          /\ loc'[x].ready => loc[x].ready
                          /\ \/ x \in Server /\ pc'[x] = "get" /\ loc'[x].on = x
                             \/ pc'[x] = pc[x] /\ loc'[x].on = loc[x].on
      /\ db' \in Setting
      /\ cache' \in [Server -> Setting] /\ at' \in [Server -> 0 .. TTL + 1]
  BY TickDoes DEF Typed
<1>2. /\ TTL + 1 \in Nat /\ 0 \in 0 .. TTL + 1 /\ TTL + 1 \in 0 .. TTL + 1
      /\ off \in 0 .. TTL + 1 /\ written \in 0 .. TTL + 1 /\ edited \in 0 .. TTL + 1
  BY Ages DEF Typed, TypeOK
<1>3. off' \in 0 .. TTL + 1 /\ written' \in 0 .. TTL + 1 /\ edited' \in 0 .. TTL + 1
  BY <1>2, AgesGrow DEF Tick
<1>4. TypeOK'
  BY <1>1, <1>3 DEF Typed, TypeOK, Calls, Tick
<1>5. \A x \in Actor : ~loc[x].ready
  BY <1>1 DEF Typed, Awaited
<1>6. Awaited'
  BY <1>1, <1>5 DEF Awaited
<1>7. Entered'
  BY <1>1, ServersAct, CleanupAssumption DEF Entered
<1>8. Placed'
  BY <1>1, ServersAct DEF Typed, Placed
<1>9. QED
  BY <1>4, <1>6, <1>7, <1>8 DEF Typed

LEMMA TypedHolds == Spec => []Typed
<1>1. Init => Typed
  <2>1. SUFFICES ASSUME Init
                 PROVE  Typed
    OBVIOUS
  <2>2. db \in Setting /\ db.value.conf \in Conf
    <3>1. db \in [value : [conf : Conf, last : {MinInterval}], enabled : {TRUE}]
      BY <2>1 DEF Init
    <3>2. \A v \in [conf : Conf, last : {MinInterval}] : v \in Value /\ v.conf \in Conf
      BY Ages DEF Value
    <3>3. QED
      BY <3>1, <3>2 DEF Setting
  <2>3. /\ 0 \in 0 .. TTL + 1 /\ TTL + 1 \in 0 .. TTL + 1
        /\ 0 \in 0 .. MaxEdits /\ 0 \in 0 .. MaxCrashes
    BY Ages, Bounds
  <2>4. /\ pc = [x \in Actor |-> "idle"] /\ loc = [x \in Actor |-> Blank]
        /\ cache = [s \in Server |-> db] /\ at = [s \in Server |-> 0]
        /\ off = 0 /\ written = TTL + 1 /\ edited = TTL + 1 /\ wanted = db.value.conf
        /\ edits = 0 /\ crashes = 0
    BY <2>1 DEF Init
  <2>7. TypeOK
    BY <2>2, <2>3, <2>4, BlankTyped, SomeSteps DEF TypeOK
  <2>5. \A x \in Actor : pc[x] = "idle" /\ loc[x].read = None /\ ~loc[x].ready
    BY <2>4, BlankTyped
  <2>6. QED
    BY <2>7, <2>5, ServersAct DEF Typed, Entered, Placed, Awaited
<1>2. Typed /\ [Next]_vars => Typed'
  <2>1. SUFFICES ASSUME Typed, [Next]_vars
                 PROVE  Typed'
    OBVIOUS
  <2>2. ASSUME NEW x \in Actor, Call(x)
        PROVE  Typed'
    BY <2>1, <2>2, ReadTyped, LandTyped, SetTyped, SetCacheTyped, FlagTyped,
       FlagCacheTyped DEF Call
  <2>3. ASSUME NEW s \in Server, Schedule(s) \/ Crash(s)
        PROVE  Typed'
    BY <2>1, <2>3, ScheduleTyped, CrashTyped
  <2>4. ASSUME NEW a \in Admin, Edit(a)
        PROVE  Typed'
    BY <2>1, <2>4, EditTyped
  <2>5. CASE Tick
    BY <2>1, <2>5, TickTyped
  <2>6. CASE UNCHANGED vars
    BY <2>1, <2>6 DEF vars, settingVars, historyVars, Typed, TypeOK, Entered, Placed,
                      Awaited
  <2>7. QED
    BY <2>1, <2>2, <2>3, <2>4, <2>5, <2>6 DEF Next
<1>3. QED
  BY <1>1, <1>2, PTL DEF Spec

\* Every state is of the types: what a sweep or a form of the settings page writes
\* back is a whole value, never that of a read that has not been answered.
THEOREM CleanupTypes == Spec => []TypeOK
  BY TypedHolds, PTL DEF Typed

\* Steps of the calls and of the scheduler, of the administrators, of time and
\* of crashes, as the proofs below take them one after the other.
LEMMA NextSteps ==
  ASSUME [Next]_vars
  PROVE  \/ \E x \in Actor : \/ Read(x) \/ Land(x) \/ Set(x) \/ SetCache(x)
                             \/ Flag(x) \/ FlagCache(x)
         \/ \E s \in Server : Skip(s) \/ Sweep(s) \/ Swept(s) \/ SweepFails(s) \/ Crash(s)
         \/ \E a \in Admin : (\E s \in Server : OpenForm(a, s)) \/ Submit(a)
         \/ Tick
         \/ UNCHANGED vars
BY DEF Next, Call, Schedule, Edit

-----------------------------------------------------------------------------
(* What an administrator has set stays set.  While something is expected of  *)
(* the value, wherever the value goes next it is what was set or what the    *)
(* scheduler takes for that: in the database, in an answer of it, in a sweep *)
(* and in what is about to be put into a cache.  A cache may still be older  *)
(* than the write: then its age says so, and no sweep begins by it.          *)

Good(c) == c \in {wanted, Effective(wanted)}

GoodCaches == \A s \in Server : at[s] < edited => Good(cache[s].value.conf)
GoodAnswers ==
  \A x \in Actor : loc[x].read # None => edited = 0 \/ Good(loc[x].read.value.conf)
GoodSweeps == \A s \in Server : pc[s] \in {"sweep", "set"} => Good(loc[s].value.conf)
GoodWrites == \A x \in Actor : pc[x] = "setCache" => edited = 0 \/ Good(loc[x].value.conf)

Kept ==
  wanted # None =>
    Good(db.value.conf) /\ GoodCaches /\ GoodAnswers /\ GoodSweeps /\ GoodWrites

\* A good value is still good after the scheduler has read it.
LEMMA GoodStays ==
  ASSUME TypeOK, wanted # None, NEW c, Good(c)
  PROVE  Good(Effective(c))
  BY EffectiveTwice DEF TypeOK, Good

\* A step of x that neither writes the value nor moves the clock.
LEMMA KeptByOthers ==
  ASSUME Typed, Kept, NEW x \in Actor, Alone(x), at' = at, db'.value = db.value,
         edited' = edited, wanted' = wanted, wanted # None,
         \A s \in Server : \/ cache'[s].value = cache[s].value
                           \/ at[s] < edited => Good(cache'[s].value.conf),
         loc'[x].read # None => edited = 0 \/ Good(loc'[x].read.value.conf),
         x \in Server /\ pc'[x] \in {"sweep", "set"} => Good(loc'[x].value.conf),
         pc'[x] # "setCache"
  PROVE  Kept'
<1>1. \A y \in Actor : y # x => pc'[y] = pc[y] /\ loc'[y] = loc[y]
  BY DEF Alone
<1>2. \A c : Good(c)' <=> Good(c)
  BY DEF Good, Effective
<1>3. GoodCaches'
  BY <1>2 DEF Kept, GoodCaches, Good, Effective
<1>4. GoodAnswers'
  BY <1>1 DEF Kept, GoodAnswers, Good, Effective
<1>5. GoodSweeps'
  BY <1>1, ServersAct DEF Kept, GoodSweeps, Good, Effective
<1>6. GoodWrites'
  BY <1>1 DEF Kept, GoodWrites, Good, Effective
<1>7. Good(db.value.conf)'
  BY DEF Kept, Good, Effective
<1>8. QED
  BY <1>3, <1>4, <1>5, <1>6, <1>7 DEF Kept

LEMMA SetKeeps ==
  ASSUME Typed, Kept, NEW x \in Actor, Set(x)
  PROVE  Kept'
<1>1. SUFFICES ASSUME wanted' # None
               PROVE  Good(db.value.conf)' /\ GoodCaches' /\ GoodAnswers' /\ GoodSweeps'
                      /\ GoodWrites'
  BY DEF Kept
<1>2. /\ \A y \in Actor : y # x => pc'[y] = pc[y] /\ loc'[y] = loc[y]
      /\ pc'[x] = "setCache" /\ loc'[x].value = loc[x].value /\ loc'[x].read = None
      /\ db'.value = loc[x].value /\ cache' = cache /\ at' = at /\ pc[x] = "set"
  BY SetDoes DEF Typed, Alone, Moves, Set, Ready
<1>3. CASE x \in Admin
  <2>1. /\ edited' = 0 /\ wanted' = loc[x].value.conf
        /\ \A s \in Server : pc[s] \notin {"sweep", "set"}
    BY <1>1, <1>3 DEF Set
  <2>2. \A s \in Server : at[s] \in Nat
    BY Ages DEF Typed, TypeOK
  <2>3. GoodCaches'
    BY <1>2, <2>1, <2>2 DEF GoodCaches
  <2>4. GoodSweeps'
    BY <1>2, <1>3, <2>1, ServersAct, CleanupAssumption DEF GoodSweeps
  <2>5. QED
    BY <1>2, <2>1, <2>3, <2>4 DEF GoodAnswers, GoodWrites, Good
<1>4. CASE x \notin Admin
  <2>1. edited' = edited /\ wanted' = wanted /\ x \in Server
    BY <1>4 DEF Set, Actor
  <2>2. Good(loc[x].value.conf)
    BY <1>1, <1>2, <2>1 DEF Kept, GoodSweeps
  <2>3. Good(db.value.conf)' /\ GoodCaches'
    BY <1>1, <1>2, <2>1, <2>2 DEF Kept, GoodCaches, Good, Effective
  <2>4. GoodAnswers'
    BY <1>1, <1>2, <2>1 DEF Kept, GoodAnswers, Good, Effective
  <2>5. GoodSweeps'
    BY <1>1, <1>2, <2>1, ServersAct DEF Kept, GoodSweeps, Good, Effective
  <2>6. GoodWrites'
    BY <1>1, <1>2, <2>1, <2>2 DEF Kept, GoodWrites, Good, Effective
  <2>7. QED
    BY <2>3, <2>4, <2>5, <2>6
<1>5. QED
  BY <1>3, <1>4

LEMMA LandKeeps ==
  ASSUME Typed, Kept, NEW x \in Actor, Land(x)
  PROVE  Kept'
<1>1. SUFFICES ASSUME wanted # None
               PROVE  Kept'
  BY DEF Kept, Land, historyVars
<1>2. /\ \A y \in Actor : y # x => pc'[y] = pc[y] /\ loc'[y] = loc[y]
      /\ pc'[x] = pc[x] /\ loc'[x].value = loc[x].value /\ loc'[x].read = None
      /\ \A s \in Server : IF s = loc[x].on THEN cache'[s] = loc[x].read /\ at'[s] = 0
                                            ELSE cache'[s] = cache[s] /\ at'[s] = at[s]
  BY LandDoes DEF Typed, Alone, Same
<1>3. db' = db /\ edited' = edited /\ wanted' = wanted /\ loc[x].read # None
  BY DEF Land, historyVars
<1>4. edited = 0 \/ Good(loc[x].read.value.conf)
  BY <1>1, <1>3 DEF Kept, GoodAnswers
<1>5. GoodCaches'
  BY <1>1, <1>2, <1>3, <1>4 DEF Kept, GoodCaches, Good, Effective
<1>6. GoodAnswers'
  BY <1>1, <1>2, <1>3 DEF Kept, GoodAnswers, Good, Effective
<1>7. GoodSweeps'
  <2>1. \A s \in Server : pc'[s] = pc[s] /\ loc'[s].value = loc[s].value
    BY <1>2, ServersAct
  <2>2. QED
    BY <1>1, <1>3, <2>1 DEF Kept, GoodSweeps, Good, Effective
<1>8. GoodWrites'
  <2>1. \A y \in Actor : pc'[y] = pc[y] /\ loc'[y].value = loc[y].value
    BY <1>2
  <2>2. QED
    BY <1>1, <1>3, <2>1 DEF Kept, GoodWrites, Good, Effective
<1>9. Good(db.value.conf)'
  BY <1>1, <1>3 DEF Kept, Good, Effective
<1>10. QED
  BY <1>5, <1>6, <1>7, <1>8, <1>9 DEF Kept

LEMMA CallKeeps ==
  ASSUME Typed, Kept, NEW x \in Actor,
         Read(x) \/ SetCache(x) \/ Flag(x) \/ FlagCache(x)
  PROVE  Kept'
<1>1. at' = at /\ edited' = edited /\ wanted' = wanted
  BY DEF Read, SetCache, Flag, FlagCache, settingVars, historyVars
<1>2. SUFFICES ASSUME wanted # None
               PROVE  Kept'
  BY <1>1 DEF Kept
<1>3. x \in Server /\ pc[x] \in {"sweep", "set"} => Good(loc[x].value.conf)
  BY <1>2 DEF Kept, GoodSweeps
<1>4. CASE Read(x)
  <2>1. db' = db /\ cache' = cache /\ pc[x] # "setCache"
    BY <1>4 DEF Read, settingVars
  <2>2. Alone(x) /\ pc'[x] = pc[x] /\ loc'[x].value = loc[x].value /\ loc'[x].read = db
    BY <1>4, ReadDoes DEF Typed, Same
  <2>3. Good(db.value.conf)
    BY <1>2 DEF Kept
  <2>4. QED
    BY <1>1, <1>2, <1>3, <2>1, <2>2, <2>3, KeptByOthers
<1>5. CASE SetCache(x)
  <2>1. db' = db /\ pc[x] = "setCache"
    BY <1>5 DEF SetCache
  <2>2. Alone(x) /\ loc'[x].read \in {None, loc[x].read} /\ pc'[x] \in {"idle", "flag"}
    BY <1>5, SetCacheDoes DEF Typed, Moves
  <2>3. edited = 0 \/ Good(loc[x].value.conf)
    BY <1>2, <2>1 DEF Kept, GoodWrites
  <2>4. \A s \in Server : at[s] \in Nat
    BY Ages DEF Typed, TypeOK
  <2>5. \A s \in Server : \/ cache'[s].value = cache[s].value
                          \/ at[s] < edited => Good(cache'[s].value.conf)
    BY <1>5, <2>3, <2>4, SetCacheDoes DEF Typed
  <2>6. loc[x].read = None
    BY <2>1 DEF Typed, Awaited
  <2>7. QED
    BY <1>1, <1>2, <2>1, <2>2, <2>5, <2>6, KeptByOthers
<1>6. CASE Flag(x)
  <2>1. cache' = cache /\ loc[x].read = None
    BY <1>6 DEF Flag, Ready
  <2>2. Alone(x) /\ loc'[x].read = None /\ pc'[x] = "flagCache" /\ db'.value = db.value
    BY <1>6, <2>1, FlagDoes DEF Typed, Moves
  <2>3. QED
    BY <1>1, <1>2, <2>1, <2>2, KeptByOthers
<1>7. CASE FlagCache(x)
  <2>1. db' = db
    BY <1>7 DEF FlagCache
  <2>2. /\ Alone(x) /\ loc'[x].read = None /\ pc'[x] = "idle"
        /\ \A s \in Server : cache'[s].value = cache[s].value
    BY <1>7, FlagCacheDoes DEF Typed
  <2>3. QED
    BY <1>1, <1>2, <2>1, <2>2, KeptByOthers
<1>8. QED
  BY <1>4, <1>5, <1>6, <1>7

LEMMA EditKeeps ==
  ASSUME Typed, Kept, NEW a \in Admin, (\E s \in Server : OpenForm(a, s)) \/ Submit(a)
  PROVE  Kept'
<1>1. /\ at' = at /\ edited' = edited /\ wanted' = wanted /\ db' = db /\ cache' = cache
  BY DEF OpenForm, Submit, settingVars, historyVars
<1>2. SUFFICES ASSUME wanted # None
               PROVE  Kept'
  BY <1>1 DEF Kept
<1>3. a \in Actor /\ a \notin Server
  BY ServersAct, CleanupAssumption
<1>4. Alone(a) /\ loc'[a].read = None /\ pc'[a] # "setCache"
  <2>1. CASE \E s \in Server : OpenForm(a, s)
    BY <2>1, OpenFormDoes DEF Typed
  <2>2. CASE Submit(a)
    <3>1. loc[a].read = None
      BY <1>3, <2>2 DEF Typed, Awaited, Submit
    <3>2. QED
      BY <2>2, <3>1, SubmitDoes DEF Typed, Moves
  <2>3. QED
    BY <2>1, <2>2
<1>5. QED
  BY <1>1, <1>2, <1>3, <1>4, KeptByOthers

\* A sweep that begins when nothing has been set for as long as a cache may be
\* old begins by what was set.
LEMMA ScheduleKeeps ==
  ASSUME Typed, Kept, NEW s \in Server, Schedule(s)
  PROVE  Kept'
<1>1. at' = at /\ edited' = edited /\ db' = db /\ cache' = cache
  BY DEF Schedule, Skip, Sweep, Swept, SweepFails, settingVars, historyVars
<1>2. SUFFICES ASSUME wanted' # None
               PROVE  Kept'
  BY DEF Kept
<1>3. s \in Actor
  BY ServersAct
<1>4. CASE Skip(s) \/ SweepFails(s)
  <2>1. wanted' = wanted
    BY <1>4 DEF Skip, SweepFails, historyVars
  <2>2. Alone(s) /\ loc'[s].read = None /\ pc'[s] = "idle"
    BY <1>4, SkipDoes, SweepFailsDoes DEF Typed
  <2>3. QED
    BY <1>1, <1>2, <1>3, <2>1, <2>2, KeptByOthers
<1>5. CASE Swept(s)
  <2>1. wanted' = wanted /\ pc[s] = "sweep"
    BY <1>5 DEF Swept, historyVars
  <2>2. loc[s].read = None /\ Good(loc[s].value.conf)
    BY <1>2, <1>3, <2>1 DEF Typed, Awaited, Kept, GoodSweeps
  <2>3. Alone(s) /\ loc'[s].read = None /\ pc'[s] = "set" /\ loc'[s].value = loc[s].value
    BY <1>5, <2>2, SweptDoes DEF Typed, Moves
  <2>4. QED
    BY <1>1, <1>2, <1>3, <2>1, <2>2, <2>3, KeptByOthers
<1>6. CASE Sweep(s)
  <2>1. wanted' = wanted /\ ~(edited <= TTL) /\ pc[s] = "get" /\ Ready(s)
    BY <1>2, <1>6 DEF Sweep
  <2>2. at[s] <= TTL
    <3>1. loc[s].on = s /\ (loc[s].ready => at[s] = 0) /\ at[s] \in Nat
      BY <1>3, <2>1, Ages DEF Typed, Placed, Awaited, TypeOK
    <3>2. QED
      BY <2>1, <3>1, Ages DEF Ready, Stale
  <2>3. Good(cache[s].value.conf)
    <3>1. at[s] \in Nat /\ edited \in Nat
      BY Ages DEF Typed, TypeOK
    <3>2. at[s] < edited
      BY <2>1, <2>2, <3>1, Ages
    <3>3. QED
      BY <1>2, <2>1, <3>2 DEF Kept, GoodCaches
  <2>4. /\ Alone(s) /\ loc'[s].read = None /\ pc'[s] = "sweep"
        /\ loc'[s].value.conf = Effective(cache[s].value.conf)
    BY <1>6, <2>1, SweepDoes DEF Typed, Moves, Ready
  <2>5. Good(loc'[s].value.conf)
    BY <1>2, <2>1, <2>3, <2>4, GoodStays DEF Typed
  <2>6. QED
    BY <1>1, <1>2, <1>3, <2>1, <2>4, <2>5, KeptByOthers
<1>7. QED
  BY <1>4, <1>5, <1>6 DEF Schedule

LEMMA TickKeeps ==
  ASSUME Typed, Kept, Tick
  PROVE  Kept'
<1>1. wanted' = wanted
  BY DEF Tick
<1>2. SUFFICES ASSUME wanted # None
               PROVE  Kept'
  BY <1>1 DEF Kept
<1>3. /\ \A x \in Actor : /\ pc[x] \in {"idle", "form", "sweep"} /\ loc'[x].read = None
                          /\ \/ x \in Server /\ pc'[x] = "get"
                             \/ /\ pc'[x] = pc[x]
                                /\ loc'[x].value.conf = loc[x].value.conf
      /\ db'.value.conf = db.value.conf
      /\ \A s \in Server : /\ cache'[s].value.conf = cache[s].value.conf
                           /\ at'[s] = UpTo(TTL + 1, at[s])
  BY TickDoes DEF Typed
<1>4. edited' = UpTo(TTL + 1, edited)
  BY <1>2 DEF Tick
<1>5. GoodCaches'
  <2>1. TTL + 1 \in Nat /\ edited \in 0 .. TTL + 1
        /\ \A s \in Server : at[s] \in 0 .. TTL + 1
    BY Ages DEF Typed, TypeOK
  <2>2. \A s \in Server : at'[s] < edited' => at[s] < edited
    BY <1>3, <1>4, <2>1, AgesGrow
  <2>3. QED
    BY <1>1, <1>2, <1>3, <2>2 DEF Kept, GoodCaches, Good, Effective
<1>6. GoodAnswers' /\ GoodWrites'
  BY <1>3 DEF GoodAnswers, GoodWrites
<1>7. GoodSweeps'
  BY <1>1, <1>2, <1>3, ServersAct DEF Kept, GoodSweeps, Good, Effective
<1>8. Good(db.value.conf)'
  BY <1>1, <1>2, <1>3 DEF Kept, Good, Effective
<1>9. QED
  BY <1>5, <1>6, <1>7, <1>8 DEF Kept

LEMMA CrashKeeps ==
  ASSUME Typed, Kept, NEW s \in Server, Crash(s)
  PROVE  Kept'
<1>1. wanted' = wanted /\ edited' = edited /\ db' = db
  BY DEF Crash, historyVars
<1>2. SUFFICES ASSUME wanted # None
               PROVE  Kept'
  BY <1>1 DEF Kept
<1>3. /\ \A x \in Actor : \/ pc'[x] \in {"idle", "get"} /\ loc'[x].read = None
                          \/ pc'[x] = pc[x] /\ loc'[x] = loc[x]
      /\ cache'[s] = db /\ at'[s] = 0
      /\ \A r \in Server : r # s => cache'[r] = cache[r] /\ at'[r] = at[r]
  BY CrashDoes DEF Typed
<1>4. Good(db.value.conf)
  BY <1>2 DEF Kept
<1>5. GoodCaches'
  BY <1>1, <1>2, <1>3, <1>4 DEF Kept, GoodCaches, Good, Effective
<1>6. GoodAnswers'
  BY <1>1, <1>2, <1>3 DEF Kept, GoodAnswers, Good, Effective
<1>7. GoodSweeps'
  BY <1>1, <1>2, <1>3, ServersAct DEF Kept, GoodSweeps, Good, Effective
<1>8. GoodWrites'
  BY <1>1, <1>2, <1>3 DEF Kept, GoodWrites, Good, Effective
<1>9. Good(db.value.conf)'
  BY <1>1, <1>4 DEF Good, Effective
<1>10. QED
  BY <1>5, <1>6, <1>7, <1>8, <1>9 DEF Kept

\* updateSetting and the scheduler both replace the value as a whole, by what
\* they have read before.  What an administrator sets is nevertheless what stays
\* set, if no sweep was running then and none began by a cache that old.
THEOREM EditsSurvive == Spec => []EditSurvives
<1>1. Init => Kept
  <2>1. SUFFICES ASSUME Init
                 PROVE  Kept
    OBVIOUS
  <2>2. /\ pc = [x \in Actor |-> "idle"] /\ loc = [x \in Actor |-> Blank]
        /\ cache = [s \in Server |-> db] /\ wanted = db.value.conf
    BY <2>1 DEF Init
  <2>3. \A x \in Actor : pc[x] = "idle" /\ loc[x].read = None
    BY <2>2, BlankTyped
  <2>4. Good(db.value.conf) /\ GoodCaches
    BY <2>2 DEF Good, GoodCaches
  <2>5. GoodAnswers /\ GoodSweeps /\ GoodWrites
    BY <2>3, ServersAct DEF GoodAnswers, GoodSweeps, GoodWrites
  <2>6. QED
    BY <2>4, <2>5 DEF Kept
<1>2. Typed /\ Kept /\ [Next]_vars => Kept'
  <2>1. SUFFICES ASSUME Typed, Kept, [Next]_vars
                 PROVE  Kept'
    OBVIOUS
  <2>2. ASSUME NEW x \in Actor,
               Read(x) \/ Land(x) \/ Set(x) \/ SetCache(x) \/ Flag(x) \/ FlagCache(x)
        PROVE  Kept'
    BY <2>1, <2>2, CallKeeps, LandKeeps, SetKeeps
  <2>3. ASSUME NEW s \in Server, Schedule(s) \/ Crash(s)
        PROVE  Kept'
    BY <2>1, <2>3, ScheduleKeeps, CrashKeeps
  <2>4. ASSUME NEW a \in Admin, (\E s \in Server : OpenForm(a, s)) \/ Submit(a)
        PROVE  Kept'
    BY <2>1, <2>4, EditKeeps
  <2>5. CASE Tick
    BY <2>1, <2>5, TickKeeps
  <2>6. CASE UNCHANGED vars
    BY <2>1, <2>6 DEF vars, settingVars, historyVars, Kept, Good, Effective, GoodCaches,
                      GoodAnswers, GoodSweeps, GoodWrites
  <2>7. QED
    BY <2>1, <2>2, <2>3, <2>4, <2>5, <2>6, NextSteps DEF Schedule
<1>3. Kept => EditSurvives
  BY DEF Kept, Good, EditSurvives
<1>4. QED
  BY <1>1, <1>2, <1>3, TypedHolds, PTL DEF Spec

-----------------------------------------------------------------------------
(* No stale sweep.  A copy that is still enabled after the setting has been  *)
(* disabled is at least as old as that, and so is one whose last sweep is    *)
(* longer ago than the one written down since.  What is on its way into a    *)
(* copy is of the same tick.                                                 *)

TurnedOff ==
  ~db.enabled =>
    /\ \A s \in Server : cache[s].enabled => off <= at[s]
    /\ \A x \in Actor : loc[x].read # None /\ loc[x].read.enabled => off = 0
    /\ \A x \in Actor : pc[x] = "flagCache" /\ loc[x].enabled => off = 0

OlderCopies == \A s \in Server : cache[s].value.last > db.value.last => written <= at[s]
OlderAnswers ==
  \A x \in Actor : /\ loc[x].read # None /\ loc[x].read.value.last > db.value.last
                   => written = 0
JustWritten == \A x \in Actor : pc[x] = "setCache" => written = 0

Gap == OlderCopies /\ OlderAnswers /\ JustWritten

\* What the clock and the ages of the copies are compared with.
LEMMA Numbers ==
  ASSUME TypeOK
  PROVE  /\ off \in Nat /\ written \in Nat /\ db.value.last \in Nat
         /\ \A s \in Server : at[s] \in Nat /\ cache[s].value.last \in Nat
         /\ \A x \in Actor : loc[x].value.last \in Nat
<1>1. \A v \in Value : v.last \in Nat
  BY Ages DEF Value
<1>2. off \in Nat /\ written \in Nat /\ at \in [Server -> Nat]
  BY Ages DEF TypeOK
<1>3. QED
  BY <1>1, <1>2, Parts

LEMMA LandHolds ==
  ASSUME Typed, TurnedOff, Gap, NEW x \in Actor, Land(x)
  PROVE  TurnedOff' /\ Gap'
<1>1. /\ \A y \in Actor : y # x => pc'[y] = pc[y] /\ loc'[y] = loc[y]
      /\ pc'[x] = pc[x] /\ loc'[x].enabled = loc[x].enabled /\ loc'[x].read = None
      /\ \A s \in Server : IF s = loc[x].on THEN cache'[s] = loc[x].read /\ at'[s] = 0
                                            ELSE cache'[s] = cache[s] /\ at'[s] = at[s]
  BY LandDoes DEF Typed, Alone, Same
<1>2. db' = db /\ off' = off /\ written' = written /\ loc[x].read # None
  BY DEF Land, historyVars
<1>3. TurnedOff'
  BY <1>1, <1>2 DEF TurnedOff
<1>4. OlderCopies'
  BY <1>1, <1>2 DEF Gap, OlderCopies, OlderAnswers
<1>5. OlderAnswers' /\ JustWritten'
  BY <1>1, <1>2 DEF Gap, OlderAnswers, JustWritten
<1>6. QED
  BY <1>3, <1>4, <1>5 DEF Gap

LEMMA SetHolds ==
  ASSUME Typed, TurnedOff, Gap, NEW x \in Actor, Set(x)
  PROVE  TurnedOff' /\ Gap'
<1>1. /\ \A y \in Actor : y # x => pc'[y] = pc[y] /\ loc'[y] = loc[y]
      /\ pc'[x] = "setCache" /\ loc'[x].read = None /\ db'.enabled = db.enabled
  BY SetDoes DEF Typed, Alone, Moves, Set, Ready
<1>2. cache' = cache /\ at' = at /\ off' = off /\ written' = 0
  BY DEF Set
<1>3. \A s \in Server : at[s] \in Nat
  BY Numbers DEF Typed
<1>4. TurnedOff'
  BY <1>1, <1>2 DEF TurnedOff
<1>5. Gap'
  BY <1>2, <1>3 DEF Gap, OlderCopies, OlderAnswers, JustWritten
<1>6. QED
  BY <1>4, <1>5

\* A step of x that leaves the clock and the database alone, and does not put
\* anything into a copy that is not there or of the same tick.
LEMMA HoldsByOthers ==
  ASSUME Typed, TurnedOff, Gap, NEW x \in Actor, Alone(x), at' = at, db' = db,
         off' = off, written' = written,
         \A s \in Server : \/ cache'[s].enabled = cache[s].enabled
                           \/ cache'[s].enabled /\ ~db.enabled => off = 0,
         \A s \in Server : cache'[s].value = cache[s].value \/ written = 0,
         loc'[x].read \in {None, loc[x].read, db},
         pc'[x] \notin {"setCache", "flagCache"}
  PROVE  TurnedOff' /\ Gap'
<1>1. \A y \in Actor : y # x => pc'[y] = pc[y] /\ loc'[y] = loc[y]
  BY DEF Alone
<1>2. db.value.last \in Nat /\ \A s \in Server : at[s] \in Nat
  BY Numbers DEF Typed
<1>3. TurnedOff'
  BY <1>1, <1>2 DEF TurnedOff
<1>4. OlderCopies'
  BY <1>2 DEF Gap, OlderCopies
<1>5. OlderAnswers' /\ JustWritten'
  BY <1>1, <1>2 DEF Gap, OlderAnswers, JustWritten
<1>6. QED
  BY <1>3, <1>4, <1>5 DEF Gap

LEMMA CallHolds ==
  ASSUME Typed, TurnedOff, Gap, NEW x \in Actor,
         Read(x) \/ SetCache(x) \/ FlagCache(x)
  PROVE  TurnedOff' /\ Gap'
<1>1. at' = at /\ off' = off /\ written' = written /\ db' = db
  BY DEF Read, SetCache, FlagCache, settingVars, historyVars
<1>2. CASE Read(x)
  <2>1. cache' = cache /\ pc[x] \notin {"setCache", "flagCache"}
    BY <1>2 DEF Read, settingVars
  <2>2. Alone(x) /\ pc'[x] = pc[x] /\ loc'[x].read = db
    BY <1>2, ReadDoes DEF Typed, Same
  <2>3. QED
    BY <1>1, <2>1, <2>2, HoldsByOthers
<1>3. CASE SetCache(x)
  <2>1. written = 0
    BY <1>3 DEF Gap, JustWritten, SetCache
  <2>2. /\ Alone(x) /\ loc'[x].read \in {None, loc[x].read} /\ pc'[x] \in {"idle", "flag"}
        /\ \A s \in Server : cache'[s].enabled = cache[s].enabled
    BY <1>3, SetCacheDoes DEF Typed, Moves
  <2>3. QED
    BY <1>1, <2>1, <2>2, HoldsByOthers
<1>4. CASE FlagCache(x)
  <2>1. ~db.enabled /\ loc[x].enabled => off = 0
    BY <1>4 DEF TurnedOff, FlagCache
  <2>2. /\ Alone(x) /\ loc'[x].read = None /\ pc'[x] = "idle"
        /\ \A s \in Server : /\ cache'[s].value = cache[s].value
                             /\ cache'[s].enabled = IF s = loc[x].on THEN loc[x].enabled
                                                                     ELSE cache[s].enabled
    BY <1>4, FlagCacheDoes DEF Typed
  <2>3. \A s \in Server : \/ cache'[s].enabled = cache[s].enabled
                          \/ cache'[s].enabled /\ ~db.enabled => off = 0
    BY <2>1, <2>2
  <2>4. QED
    BY <1>1, <2>2, <2>3, HoldsByOthers
<1>5. QED
  BY <1>2, <1>3, <1>4

LEMMA FlagHolds ==
  ASSUME Typed, TurnedOff, Gap, NEW x \in Actor, Flag(x)
  PROVE  TurnedOff' /\ Gap'
<1>1. /\ \A y \in Actor : y # x => pc'[y] = pc[y] /\ loc'[y] = loc[y]
      /\ pc'[x] = "flagCache" /\ loc'[x].read = None /\ loc'[x].enabled = loc[x].enabled
      /\ db'.value = db.value /\ db'.enabled = loc[x].enabled
  BY FlagDoes DEF Typed, Alone, Moves, Flag, Ready
<1>2. /\ cache' = cache /\ at' = at /\ written' = written
      /\ off' = IF db.enabled /\ ~loc[x].enabled THEN 0 ELSE off
  BY DEF Flag
<1>3. \A s \in Server : at[s] \in Nat
  BY Numbers DEF Typed
<1>4. TurnedOff'
  <2>1. CASE db.enabled /\ ~loc[x].enabled
    <3>1. off' = 0
      BY <1>2, <2>1
    <3>2. QED
      BY <1>2, <1>3, <3>1 DEF TurnedOff
  <2>2. CASE loc[x].enabled
    BY <1>1, <2>2 DEF TurnedOff
  <2>3. CASE ~db.enabled /\ ~loc[x].enabled
    <3>1. off' = off /\ ~loc'[x].enabled
      BY <1>1, <1>2, <2>3
    <3>2. QED
      BY <1>1, <1>2, <2>3, <3>1 DEF TurnedOff
  <2>4. QED
    BY <2>1, <2>2, <2>3
<1>5. Gap'
  BY <1>1, <1>2 DEF Gap, OlderCopies, OlderAnswers, JustWritten
<1>6. QED
  BY <1>4, <1>5

LEMMA EditHolds ==
  ASSUME Typed, TurnedOff, Gap, NEW a \in Admin,
         (\E s \in Server : OpenForm(a, s)) \/ Submit(a)
  PROVE  TurnedOff' /\ Gap'
<1>1. at' = at /\ off' = off /\ written' = written /\ db' = db /\ cache' = cache
  BY DEF OpenForm, Submit, settingVars, historyVars
<1>2. a \in Actor
  BY ServersAct
<1>3. Alone(a) /\ loc'[a].read \in {None, loc[a].read} /\ pc'[a] \in {"form", "set"}
  BY OpenFormDoes, SubmitDoes DEF Typed, Moves
<1>4. QED
  BY <1>1, <1>2, <1>3, HoldsByOthers

LEMMA ScheduleHolds ==
  ASSUME Typed, TurnedOff, Gap, NEW s \in Server, Schedule(s)
  PROVE  TurnedOff' /\ Gap'
<1>1. at' = at /\ off' = off /\ written' = written /\ db' = db /\ cache' = cache
  BY DEF Schedule, Skip, Sweep, Swept, SweepFails, settingVars, historyVars
<1>2. s \in Actor
  BY ServersAct
<1>3. /\ Alone(s) /\ loc'[s].read \in {None, loc[s].read}
      /\ pc'[s] \in {"idle", "set", "sweep"}
  BY SkipDoes, SweepFailsDoes, SweptDoes, SweepDoes DEF Typed, Moves, Schedule
<1>4. QED
  BY <1>1, <1>2, <1>3, HoldsByOthers

LEMMA TickHolds ==
  ASSUME Typed, TurnedOff, Gap, Tick
  PROVE  TurnedOff' /\ Gap'
<1>1. /\ \A x \in Actor : /\ pc[x] \in {"idle", "form", "sweep"} /\ loc'[x].read = None
                          /\ pc'[x] \in {"get", pc[x]}
      /\ db'.enabled = db.enabled /\ db'.value.last = UpTo(MinInterval, db.value.last)
      /\ \A s \in Server : /\ cache'[s].enabled = cache[s].enabled
                           /\ cache'[s].value.last = UpTo(MinInterval, cache[s].value.last)
                           /\ at'[s] = UpTo(TTL + 1, at[s])
  BY TickDoes DEF Typed
<1>2. /\ written' = UpTo(TTL + 1, written)
      /\ ~db.enabled => off' = UpTo(TTL + 1, off)
  BY DEF Tick
<1>3. /\ TTL + 1 \in Nat /\ off \in 0 .. TTL + 1 /\ written \in 0 .. TTL + 1
      /\ \A s \in Server : at[s] \in 0 .. TTL + 1
  BY Ages DEF Typed, TypeOK
<1>4. /\ db.value.last \in 0 .. MinInterval
      /\ \A s \in Server : cache[s].value.last \in 0 .. MinInterval
  BY Parts DEF Typed, Value
<1>5. TurnedOff'
  <2>1. \A s \in Server : off <= at[s] => UpTo(TTL + 1, off) <= at'[s]
    BY <1>1, <1>3, AgesGrow
  <2>2. \A x \in Actor : pc'[x] # "flagCache"
    BY <1>1
  <2>3. QED
    BY <1>1, <1>2, <2>1, <2>2 DEF TurnedOff
<1>6. OlderCopies'
  <2>1. \A s \in Server : written <= at[s] => written' <= at'[s]
    BY <1>1, <1>2, <1>3, AgesGrow
  <2>2. \A s \in Server : cache'[s].value.last > db'.value.last =>
                            cache[s].value.last > db.value.last
    <3>1. \A s \in Server : db'.value.last < cache'[s].value.last =>
                              db.value.last < cache[s].value.last
      BY <1>1, <1>4, Ages, AgesGrow
    <3>2. QED
      BY <3>1
  <2>3. QED
    BY <2>1, <2>2 DEF Gap, OlderCopies
<1>7. OlderAnswers' /\ JustWritten'
  BY <1>1 DEF OlderAnswers, JustWritten
<1>8. QED
  BY <1>5, <1>6, <1>7 DEF Gap

LEMMA CrashHolds ==
  ASSUME Typed, TurnedOff, Gap, NEW s \in Server, Crash(s)
  PROVE  TurnedOff' /\ Gap'
<1>1. off' = off /\ written' = written /\ db' = db
  BY DEF Crash, historyVars
<1>2. /\ \A x \in Actor : \/ pc'[x] \in {"idle", "get"} /\ loc'[x].read = None
                          \/ pc'[x] = pc[x] /\ loc'[x] = loc[x]
      /\ cache'[s] = db /\ at'[s] = 0
      /\ \A r \in Server : r # s => cache'[r] = cache[r] /\ at'[r] = at[r]
  BY CrashDoes DEF Typed
<1>3. db.value.last \in Nat
  BY Numbers DEF Typed
<1>4. TurnedOff'
  BY <1>1, <1>2 DEF TurnedOff
<1>5. OlderCopies'
  BY <1>1, <1>2, <1>3 DEF Gap, OlderCopies
<1>6. OlderAnswers' /\ JustWritten'
  BY <1>1, <1>2 DEF Gap, OlderAnswers, JustWritten
<1>7. QED
  BY <1>4, <1>5, <1>6 DEF Gap

\* A sweep begins by a copy that is not stale, and no other step looks like one.
LEMMA SweepIsReady ==
  ASSUME Typed, NEW s \in Server, Sweep(s)
  PROVE  at[s] <= TTL
<1>1. pc[s] = "get" /\ Ready(s) /\ s \in Actor
  BY ServersAct DEF Sweep
<1>2. loc[s].on = s /\ (loc[s].ready => at[s] = 0) /\ at[s] \in Nat
  BY <1>1, Numbers DEF Typed, Placed, Awaited
<1>3. QED
  BY <1>1, <1>2, Ages DEF Ready, Stale

LEMMA OnlySweepBegins ==
  ASSUME Typed, NEW s \in Server, [Next]_vars, Begins(s)
  PROVE  Sweep(s)
<1>1. s \in Actor /\ s \notin Admin /\ pc[s] = "get" /\ pc'[s] = "sweep"
  BY ServersAct, CleanupAssumption DEF Begins
<1>2. ASSUME NEW x \in Actor,
             Read(x) \/ Land(x) \/ Set(x) \/ SetCache(x) \/ Flag(x) \/ FlagCache(x)
      PROVE  FALSE
  <2>1. Alone(x) /\ pc'[x] \in {pc[x], "setCache", "flag", "idle", "flagCache"}
    BY <1>2, ReadDoes, LandDoes, SetDoes, SetCacheDoes, FlagDoes, FlagCacheDoes
       DEF Typed, Same, Moves
  <2>2. QED
    BY <1>1, <2>1 DEF Alone
<1>3. ASSUME NEW r \in Server, Skip(r) \/ Swept(r) \/ SweepFails(r)
      PROVE  FALSE
  <2>1. Alone(r) /\ pc'[r] \in {"idle", "set"}
    BY <1>3, SkipDoes, SweptDoes, SweepFailsDoes DEF Typed, Moves
  <2>2. QED
    BY <1>1, <2>1 DEF Alone
<1>4. ASSUME NEW r \in Server, Sweep(r)
      PROVE  Sweep(s)
  <2>1. Alone(r)
    BY <1>4, SweepDoes DEF Typed
  <2>2. s = r
    BY <1>1, <2>1 DEF Alone
  <2>3. QED
    BY <1>4, <2>2
<1>5. ASSUME NEW r \in Server, Crash(r)
      PROVE  FALSE
  BY <1>1, <1>5, CrashDoes DEF Typed
<1>6. ASSUME NEW a \in Admin, (\E r \in Server : OpenForm(a, r)) \/ Submit(a)
      PROVE  FALSE
  <2>1. Alone(a)
    BY <1>6, OpenFormDoes, SubmitDoes DEF Typed
  <2>2. QED
    BY <1>1, <2>1 DEF Alone
<1>7. ~Tick
  BY <1>1, TickDoes DEF Typed
<1>8. ~UNCHANGED vars
  BY <1>1 DEF vars
<1>9. QED
  BY <1>2, <1>3, <1>4, <1>5, <1>6, <1>7, <1>8, NextSteps

\* A server that has not heard of the last writes goes on by its copy until the
\* copy is refreshed, and no longer: neither a setting turned off on another
\* server nor the time of a sweep of another server is missed for more than TTL.
THEOREM SweepsAreNotStale == Spec => NoStaleSweep
<1> DEFINE Right == \A s \in Server : Begins(s) =>
                      /\ ~db.enabled => off <= TTL
                      /\ db.value.last < MinInterval => written <= TTL
<1>1. Init => TurnedOff /\ Gap
  <2>1. SUFFICES ASSUME Init
                 PROVE  TurnedOff /\ Gap
    OBVIOUS
  <2>2. /\ pc = [x \in Actor |-> "idle"] /\ loc = [x \in Actor |-> Blank]
        /\ cache = [s \in Server |-> db]
        /\ db \in [value : [conf : Conf, last : {MinInterval}], enabled : {TRUE}]
    BY <2>1 DEF Init
  <2>3. db.enabled /\ db.value.last = MinInterval
    BY <2>2
  <2>4. \A x \in Actor : pc[x] = "idle" /\ loc[x].read = None
    BY <2>2, BlankTyped
  <2>5. TurnedOff /\ OlderCopies
    BY <2>2, <2>3, Ages DEF TurnedOff, OlderCopies
  <2>6. QED
    BY <2>4, <2>5 DEF Gap, OlderAnswers, JustWritten
<1>2. Typed /\ TurnedOff /\ Gap /\ [Next]_vars => TurnedOff' /\ Gap'
  <2>1. SUFFICES ASSUME Typed, TurnedOff, Gap, [Next]_vars
                 PROVE  TurnedOff' /\ Gap'
    OBVIOUS
  <2>2. ASSUME NEW x \in Actor,
               Read(x) \/ Land(x) \/ Set(x) \/ SetCache(x) \/ Flag(x) \/ FlagCache(x)
        PROVE  TurnedOff' /\ Gap'
    BY <2>1, <2>2, CallHolds, LandHolds, SetHolds, FlagHolds
  <2>3. ASSUME NEW s \in Server, Schedule(s) \/ Crash(s)
        PROVE  TurnedOff' /\ Gap'
    BY <2>1, <2>3, ScheduleHolds, CrashHolds
  <2>4. ASSUME NEW a \in Admin, (\E s \in Server : OpenForm(a, s)) \/ Submit(a)
        PROVE  TurnedOff' /\ Gap'
    BY <2>1, <2>4, EditHolds
  <2>5. CASE Tick
    BY <2>1, <2>5, TickHolds
  <2>6. CASE UNCHANGED vars
    BY <2>1, <2>6 DEF vars, settingVars, historyVars, TurnedOff, Gap, OlderCopies,
                      OlderAnswers, JustWritten
  <2>7. QED
    BY <2>1, <2>2, <2>3, <2>4, <2>5, <2>6, NextSteps DEF Schedule
<1>3. Typed /\ TurnedOff /\ Gap /\ [Next]_vars => Right
  <2>1. SUFFICES ASSUME Typed, TurnedOff, Gap, [Next]_vars, NEW s \in Server, Begins(s)
                 PROVE  /\ ~db.enabled => off <= TTL
                        /\ db.value.last < MinInterval => written <= TTL
    OBVIOUS
  <2>2. Sweep(s)
    BY <2>1, OnlySweepBegins
  <2>3. cache[s].enabled /\ cache[s].value.last = MinInterval /\ at[s] <= TTL
    BY <2>1, <2>2, SweepIsReady DEF Due, Sweep
  <2>4. off \in Nat /\ written \in Nat /\ at[s] \in Nat
    BY <2>1, Numbers DEF Typed
  <2>5. ~db.enabled => off <= TTL
    BY <2>1, <2>3, <2>4, Ages DEF TurnedOff
  <2>6. db.value.last < MinInterval => written <= TTL
    BY <2>1, <2>3, <2>4, Ages DEF Gap, OlderCopies
  <2>7. QED
    BY <2>5, <2>6
<1>4. Typed /\ TurnedOff /\ Gap /\ [Next]_vars => [Right]_vars
  BY <1>3
<1>5. QED
  BY <1>1, <1>2, <1>4, TypedHolds, PTL DEF Spec, NoStaleSweep
=============================================================================
