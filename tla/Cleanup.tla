------------------------------ MODULE Cleanup ------------------------------
(***************************************************************************)
(* One cleanup setting (auto_remove_old_checks, _baselines or _logs), the  *)
(* copies of it that the servers keep, and the schedulers that sweep by it.*)
(*                                                                         *)
(* Every server reads all settings into a cache (AppSettings) and reads    *)
(* them again when a call finds the cache older than TTL.  set, enable and *)
(* disable write one field in the database and then in the cache of their  *)
(* own server.  The scheduler of a server (AutoCleanupScheduler) gets the  *)
(* setting, sweeps if it is enabled and the last sweep is MinInterval old, *)
(* and then sets the value again, with the time at which the sweep began.  *)
(*                                                                         *)
(* Times are ages in ticks, which Tick lets grow up to the largest age     *)
(* that is told apart, so that the clock has no bound.                     *)
(***************************************************************************)
EXTENDS Naturals

CONSTANTS
  Server,       \* server processes on one database
  Admin,        \* requests of administrators in flight at the same time
  Conf,         \* days and keepLast, as an administrator sets them
  Default,      \* what a scheduler takes for Unset
  Unset,        \* a value without days
  TTL,          \* age at which a cache is not yet stale
  MinInterval,  \* SYNGRISI_AUTO_REMOVE_CHECKS_MIN_INTERVAL_MS
  MaxEdits,     \* bound: updates by administrators
  MaxCrashes,   \* bound: crashes
  None          \* no document

ASSUME CleanupAssumption ==
  /\ TTL \in Nat /\ MinInterval \in Nat /\ MaxEdits \in Nat /\ MaxCrashes \in Nat
  /\ Server \cap Admin = {} /\ None \notin Conf

VARIABLES
  db,      \* the document of the setting
  cache,   \* the copy of each server
  at,      \* age of each copy (Date.now() - lastFetch)
  pc, loc, \* schedulers (by their server) and requests of administrators
  off,     \* history: age of the last disable, 0 while enabled
  written, \* history: age of the last write of the value
  edited,  \* history: age of the last write of the value by an administrator
  wanted,  \* history: what that write has set; None if a sweep was running, or
           \* began within TTL of it
  edits, crashes

settingVars == <<db, cache, at>>
historyVars == <<off, written, edited, wanted>>
vars == <<settingVars, pc, loc, historyVars, edits, crashes>>

-----------------------------------------------------------------------------
(* Types *)

Actor == Server \cup Admin

Value == [conf : Conf \cup {Default}, last : 0..MinInterval]   \* last: age of lastRunAt
Setting == [value : Value, enabled : BOOLEAN]

\* get: AppSettings.get of the tick.  set, setCache: AppSettings.set up to the
\* database and back.  flag, flagCache: enable or disable.
Awaits == {"get", "set", "setCache", "flag", "flagCache"}
Steps == {"idle", "form", "sweep"} \cup Awaits

Locals == [on : Server \cup {None},
           value : Value,        \* to be set
           enabled : BOOLEAN,    \* to be set
           read : Setting \cup {None},  \* what refreshCache has been answered
           ready : BOOLEAN]      \* ensureInitialized has refreshed the cache

Fresh == [conf |-> Default, last |-> MinInterval]
Blank == [on |-> None, value |-> Fresh, enabled |-> FALSE, read |-> None,
          ready |-> FALSE]

TypeOK ==
  /\ db \in Setting
  /\ cache \in [Server -> Setting]
  /\ at \in [Server -> 0..(TTL + 1)]
  /\ pc \in [Actor -> Steps]
  /\ loc \in [Actor -> Locals]
  /\ off \in 0..(TTL + 1) /\ written \in 0..(TTL + 1) /\ edited \in 0..(TTL + 1)
  /\ wanted \in Conf \cup {None}
  /\ edits \in 0..MaxEdits /\ crashes \in 0..MaxCrashes

\* The seeds are disabled; an administrator has set the setting up long ago.
Init ==
  /\ db \in [value : [conf : Conf, last : {MinInterval}], enabled : {TRUE}]
  /\ cache = [s \in Server |-> db] /\ at = [s \in Server |-> 0]
  /\ pc = [x \in Actor |-> "idle"] /\ loc = [x \in Actor |-> Blank]
  /\ off = 0 /\ written = TTL + 1 /\ edited = TTL + 1
  /\ wanted = db.value.conf
  /\ edits = 0 /\ crashes = 0

-----------------------------------------------------------------------------
(* AppSettings *)

\* Mutant: seconds are compared with milliseconds.
MutStale(s) == at[s] > 1000 * (TTL + 1)

Stale(s) == at[s] > TTL

Goto(x, step, l) ==
  /\ pc' = [pc EXCEPT ![x] = step]
  /\ loc' = [loc EXCEPT ![x] = [l EXCEPT !.ready = FALSE]]

Finish(x) == Goto(x, "idle", Blank)

\* ensureInitialized is past, with or without a refresh.
Ready(x) == loc[x].read = None /\ (loc[x].ready \/ ~Stale(loc[x].on))

\* refreshCache: find is answered ...
Read(x) ==
  /\ pc[x] \in {"get", "set", "flag"}
  /\ loc[x].read = None /\ ~loc[x].ready /\ Stale(loc[x].on)
  /\ loc' = [loc EXCEPT ![x].read = db]
  /\ UNCHANGED <<settingVars, pc, historyVars, edits, crashes>>

\* ... and the answer becomes the cache, whatever was put there meanwhile.
Land(x) ==
  /\ loc[x].read # None
  /\ cache' = [cache EXCEPT ![loc[x].on] = loc[x].read]
  /\ at' = [at EXCEPT ![loc[x].on] = 0]
  /\ loc' = [loc EXCEPT ![x].read = None, ![x].ready = TRUE]
  /\ UNCHANGED <<db, pc, historyVars, edits, crashes>>

\* set: findOneAndUpdate; whoever sets it, the value is replaced as a whole.
Set(x) ==
  /\ pc[x] = "set" /\ Ready(x)
  /\ db' = [db EXCEPT !.value = loc[x].value]
  /\ written' = 0
  /\ IF x \in Admin
       THEN /\ edited' = 0
            /\ wanted' = IF \E s \in Server : pc[s] \in {"sweep", "set"}
                         THEN None ELSE loc[x].value.conf
       ELSE UNCHANGED <<edited, wanted>>
  /\ Goto(x, "setCache", loc[x])
  /\ UNCHANGED <<cache, at, off, edits, crashes>>

\* The cache of the own server is updated, as it is by then.
SetCache(x) ==
  /\ pc[x] = "setCache"
  /\ cache' = [cache EXCEPT ![loc[x].on].value = loc[x].value]
  /\ IF x \in Admin THEN Goto(x, "flag", loc[x]) ELSE Finish(x)
  /\ UNCHANGED <<db, at, historyVars, edits, crashes>>

\* enable and disable.
Flag(x) ==
  /\ pc[x] = "flag" /\ Ready(x)
  /\ db' = [db EXCEPT !.enabled = loc[x].enabled]
  /\ off' = IF db.enabled /\ ~loc[x].enabled THEN 0 ELSE off
  /\ Goto(x, "flagCache", loc[x])
  /\ UNCHANGED <<cache, at, written, edited, wanted, edits, crashes>>

FlagCache(x) ==
  /\ pc[x] = "flagCache"
  /\ cache' = [cache EXCEPT ![loc[x].on].enabled = loc[x].enabled]
  /\ Finish(x)
  /\ UNCHANGED <<db, at, historyVars, edits, crashes>>

-----------------------------------------------------------------------------
(* Administrators: updateSetting *)

\* The form shows what the cache of a server holds, however old that is.
OpenForm(a, s) ==
  /\ pc[a] = "idle" /\ edits < MaxEdits
  /\ edits' = edits + 1
  /\ Goto(a, "form", [Blank EXCEPT !.on = s, !.value = cache[s].value])
  /\ UNCHANGED <<settingVars, historyVars, crashes>>

\* It sends back the lastRunAt it was shown, next to what was entered.
Submit(a) ==
  /\ pc[a] = "form"
  /\ \E c \in Conf, on \in BOOLEAN :
       Goto(a, "set", [loc[a] EXCEPT !.value.conf = c, !.enabled = on])
  /\ UNCHANGED <<settingVars, historyVars, edits, crashes>>

-----------------------------------------------------------------------------
(* The scheduler *)

Due(v) == v.last = MinInterval

\* Mutant: an early return leaves running set: every later tick returns at once.
MutSkip(s) ==
  /\ pc[s] = "get" /\ Ready(s)
  /\ ~(cache[s].enabled /\ Due(cache[s].value))
  /\ Goto(s, "form", Blank)
  /\ UNCHANGED <<settingVars, historyVars, edits, crashes>>

Skip(s) ==
  /\ pc[s] = "get" /\ Ready(s)
  /\ ~(cache[s].enabled /\ Due(cache[s].value))
  /\ Finish(s)
  /\ UNCHANGED <<settingVars, historyVars, edits, crashes>>

\* Mutant: days that are not set are passed on.
MutEffective(c) == IF c = Unset THEN None ELSE c

Effective(c) == IF c = Unset THEN Default ELSE c

\* runTask is called with the value that get has returned.
Sweep(s) ==
  /\ pc[s] = "get" /\ Ready(s)
  /\ cache[s].enabled /\ Due(cache[s].value)
  /\ Goto(s, "sweep",
          [loc[s] EXCEPT !.value = [conf |-> Effective(cache[s].value.conf), last |-> 0]])
  /\ wanted' = IF edited <= TTL THEN None ELSE wanted
  /\ UNCHANGED <<settingVars, off, written, edited, edits, crashes>>

\* Mutant: the value written back has the defaults of the scheduler.
MutSwept(s) ==
  /\ pc[s] = "sweep"
  /\ Goto(s, "set", [loc[s] EXCEPT !.value.conf = Default])
  /\ UNCHANGED <<settingVars, historyVars, edits, crashes>>

Swept(s) ==
  /\ pc[s] = "sweep"
  /\ Goto(s, "set", loc[s])
  /\ UNCHANGED <<settingVars, historyVars, edits, crashes>>

\* runTask rejects: nothing is written, the next tick sweeps again.
SweepFails(s) ==
  /\ pc[s] = "sweep"
  /\ Finish(s)
  /\ UNCHANGED <<settingVars, historyVars, edits, crashes>>

-----------------------------------------------------------------------------
(* Time, crashes and the specification *)

UpTo(n, age) == IF age < n THEN age + 1 ELSE n
Older(v) == [v EXCEPT !.last = UpTo(MinInterval, @)]

Waiting(x) == loc[x].read # None \/ pc[x] \in Awaits

\* A tick is a poll interval: the timer of every scheduler fires, and tick
\* returns at once while running is set.  It is longer than a call of the
\* database takes; sweeps and open forms may take any time.
Polls(s) == pc[s] = "idle"
Tick ==
  /\ \A x \in Actor : ~Waiting(x)
  /\ db' = [db EXCEPT !.value = Older(@)]
  /\ cache' = [s \in Server |-> [cache[s] EXCEPT !.value = Older(@)]]
  /\ at' = [s \in Server |-> UpTo(TTL + 1, at[s])]
  /\ pc' = [x \in Actor |-> IF x \in Server /\ Polls(x) THEN "get" ELSE pc[x]]
  /\ loc' = [x \in Actor |-> IF x \in Server /\ Polls(x) THEN [Blank EXCEPT !.on = x]
                            ELSE IF pc[x] = "idle" THEN loc[x]
                            ELSE [loc[x] EXCEPT !.value = Older(@)]]
  /\ off' = IF db.enabled THEN 0 ELSE UpTo(TTL + 1, off)
  /\ written' = UpTo(TTL + 1, written)
  /\ edited' = IF wanted = None THEN TTL + 1 ELSE UpTo(TTL + 1, edited)
  /\ UNCHANGED <<wanted, edits, crashes>>

\* A server dies and starts again: init reads the settings, start polls.
Crash(s) ==
  /\ crashes < MaxCrashes
  /\ crashes' = crashes + 1
  /\ cache' = [cache EXCEPT ![s] = db] /\ at' = [at EXCEPT ![s] = 0]
  /\ pc' = [x \in Actor |-> IF x = s THEN "get" ELSE IF loc[x].on = s THEN "idle" ELSE pc[x]]
  /\ loc' = [x \in Actor |-> IF x = s THEN [Blank EXCEPT !.on = s]
                            ELSE IF loc[x].on = s THEN Blank ELSE loc[x]]
  /\ UNCHANGED <<db, historyVars, edits>>

Call(x) ==
  Read(x) \/ Land(x) \/ Set(x) \/ SetCache(x) \/ Flag(x) \/ FlagCache(x)
Schedule(s) == Skip(s) \/ Sweep(s) \/ Swept(s) \/ SweepFails(s)
Edit(a) == (\E s \in Server : OpenForm(a, s)) \/ Submit(a)

Next ==
  \/ \E x \in Actor : Call(x)
  \/ \E s \in Server : Schedule(s) \/ Crash(s)
  \/ \E a \in Admin : Edit(a)
  \/ Tick

Spec == Init /\ [][Next]_vars

\* Time passes, and calls and tasks settle.
FairSpec ==
  /\ Spec
  /\ WF_vars(Tick)
  /\ \A x \in Actor : WF_vars(Call(x))
  /\ \A s \in Server : WF_vars(Schedule(s))

-----------------------------------------------------------------------------
(* Properties *)

Begins(s) == pc[s] = "get" /\ pc'[s] = "sweep"

\* A sweep that should not begin does so only on a cache that has missed a write
\* of the last moments.  Turned off is off: a server that another server's
\* administrator has not told begins no sweep later than a refresh of its cache
\* takes; and "minimum gap between two actual sweeps" (RETENTION.md) holds among
\* several servers when the last one was written down longer ago than that.
NoStaleSweep ==
  [][\A s \in Server : Begins(s) =>
       /\ ~db.enabled => off <= TTL
       /\ db.value.last < MinInterval => written <= TTL]_vars

\* What an administrator has set stays set, if it was not set during a sweep and
\* no sweep began within a refresh of it: then no write-back has replaced it.
EditSurvives == wanted # None => db.value.conf \in {wanted, Effective(wanted)}

\* A setting that stays enabled is swept by again and again, after tasks that
\* reject and servers that die.
SweptAgain == <>[](db.enabled) => []<>(\E s \in Server : pc[s] = "sweep")
=============================================================================
