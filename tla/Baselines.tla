----------------------------- MODULE Baselines -----------------------------
(***************************************************************************)
(* The accepted baselines of one check (one name, viewport, browser and os *)
(* of an app) on its branches: acceptance (createNewBaseline), promotion   *)
(* of one branch's baselines to another (promoteBaselines), removal, the   *)
(* ignore regions of a baseline, and which baseline an upload is compared  *)
(* with (getAcceptedBaseline), under what regions (compareCheck).          *)
(*                                                                         *)
(* A row belongs to a branch and a snapshot; the newest createdDate of the *)
(* branch is in force.  The date is taken before the upsert is sent and    *)
(* the database applies it later, so rows need not be inserted in the      *)
(* order of their dates.  The clock stands for that of all server          *)
(* processes: no two dates are equal, none is older than one taken before. *)
(***************************************************************************)
EXTENDS Integers, FiniteSets

CONSTANTS
  Request,   \* requests that may be in flight at the same time
  Snap,      \* actual snapshots of the checks that can be accepted
  Branch,    \* branches of the app
  OwnBranch, \* the branch of the check that a snapshot belongs to
  Regions,   \* ignore regions a user may save
  NoRegions, \* no ignore regions
  MaxIds,    \* bound on the rows ever inserted
  MaxClock,  \* bound on the dates ever taken
  None       \* an unset value

ASSUME BaselinesAssumption ==
  /\ OwnBranch \in [Snap -> Branch]
  /\ None \notin Snap \cup Branch \cup Regions \cup {NoRegions}
  /\ MaxIds \in Nat /\ MaxClock \in Nat

VARIABLES
  row,     \* VRSBaseline rows by branch and snapshot (the unique index)
  ids,     \* the _id last given to a row
  clock,   \* the createdDate last taken
  pc, loc, \* the requests: the call each performs next, and its locals
  older,   \* history: the rows in force before the acceptance of a row began
  want,    \* history: the regions last saved for a branch's baseline
  lone     \* history: the promotions that have overlapped no other change

vars == <<row, ids, clock, pc, loc, older, want, lone>>

-----------------------------------------------------------------------------
(* Types *)

Key == Branch \X Snap
AnyRegions == Regions \cup {NoRegions}

\* _id counts the insertions, as the order of an ObjectId and of the collection.
Row == [id : 1 .. MaxIds, date : 1 .. MaxClock, regions : AnyRegions]
NoRow == [id |-> 0, date |-> 0, regions |-> NoRegions]

AcceptSteps == {"aUpsert", "aFind", "aSave"}
Steps == {"idle", "pUpsert", "pDone"} \cup AcceptSteps

Source == [id : 1 .. MaxIds, snap : Snap, regions : AnyRegions]
Locals == [to : Branch \cup {None},     \* branch whose row is written
           from : Branch \cup {None},   \* branch that is promoted
           key : Snap \cup {None},      \* snapshot that is accepted
           regions : AnyRegions,        \* what its row starts with
           todo : SUBSET Source,        \* rows still to be promoted
           date : 0 .. MaxClock,        \* new Date() of the call in flight
           seen : 0 .. MaxIds,          \* ids when that call was sent
           found : 0 .. MaxIds,         \* the row that an insertion collided with
           prior : SUBSET (1 .. MaxIds),\* history: rows in force at the start
           fresh : BOOLEAN]             \* history: the source is new and in order

Blank == [to |-> None, from |-> None, key |-> None, regions |-> NoRegions,
          todo |-> {}, date |-> 0, seen |-> 0, found |-> 0, prior |-> {}, fresh |-> FALSE]

TypeOK ==
  /\ row \in [Key -> Row \cup {NoRow}]
  /\ ids \in 0 .. MaxIds /\ clock \in 0 .. MaxClock
  /\ pc \in [Request -> Steps] /\ loc \in [Request -> Locals]
  /\ older \in [1 .. MaxIds -> SUBSET (1 .. MaxIds)]
  /\ want \in [Branch -> AnyRegions \cup {None}]
  /\ lone \subseteq Request

Init ==
  /\ row = [k \in Key |-> NoRow]
  /\ ids = 0 /\ clock = 0
  /\ pc = [p \in Request |-> "idle"]
  /\ loc = [p \in Request |-> Blank]
  /\ older = [i \in 1 .. MaxIds |-> {}]
  /\ want = [b \in Branch |-> None]
  /\ lone = {}

-----------------------------------------------------------------------------
(* Queries *)

Exists(k) == row[k].id > 0
OnBranch(b) == {k \in Key : k[1] = b /\ Exists(k)}
Copies(s) == {k \in Key : k[2] = s /\ Exists(k)}

\* findAcceptedBaselineByIdent: sorted by createdDate, newest first.
InForce(b) == {k \in OnBranch(b) : \A j \in OnBranch(b) : row[j].date <= row[k].date}

\* Baseline.findOne({ snapshootId }) of compareCheck: the first row inserted
\* with this snapshot, whatever its branch.
Compared(s) == {k \in Copies(s) : \A j \in Copies(s) : row[k].id <= row[j].id}

\* Mutant: the oldest row of the branch (sort order dropped).
MutLastBaseline(b) == {k \in OnBranch(b) : \A j \in OnBranch(b) : row[k].date <= row[j].date}
\* lastBaseline of createNewBaseline.
LastBaseline(b) == InForce(b)

\* Ignore regions that a new row of the branch starts with.
Inherited(b) ==
  IF OnBranch(b) = {} THEN NoRegions
  ELSE row[CHOOSE k \in LastBaseline(b) : TRUE].regions

\* sourceBaselines: the accepted rows of the branch that is promoted.
Sources(b) ==
  {[id |-> row[k].id, snap |-> k[2], regions |-> row[k].regions] : k \in OnBranch(b)}

\* Mutant: the last row inserted first, as the pages of the UI list them.
MutNextSource(todo) == CHOOSE s \in todo : \A t \in todo : t.id <= s.id
\* The query has no sort: its rows come in the order of their insertion.
NextSource(todo) == CHOOSE s \in todo : \A t \in todo : s.id <= t.id

-----------------------------------------------------------------------------
(* Writes *)

Goto(p, step) == pc' = [pc EXCEPT ![p] = step]
Finish(p) == Goto(p, "idle") /\ loc' = [loc EXCEPT ![p] = Blank]

\* An acceptance that may yet give the row a new date.
MayStamp(p, k) ==
  /\ pc[p] \in AcceptSteps
  /\ k = <<loc[p].to, loc[p].key>>
  /\ row[k].id > loc[p].seen

\* The rows of the branch that are in force or superseded for good.
Settled(b) == {row[k].id : k \in {j \in OnBranch(b) : \A p \in Request : ~MayStamp(p, j)}}

\* A branch whose baseline is also a baseline elsewhere, or that has none, is
\* compared under regions that nobody edited for it.
Expect(w) ==
  want' = [b \in Branch |->
             IF \E k \in InForce(b)' : Copies(k[2])' = {k} THEN w[b] ELSE None]

\* findOneAndUpdate with upsert: $setOnInsert.
Insert(k, date, regions, prior) ==
  /\ ids < MaxIds
  /\ ids' = ids + 1
  /\ row' = [row EXCEPT ![k] = [id |-> ids + 1, date |-> date, regions |-> regions]]
  /\ older' = [older EXCEPT ![ids + 1] = prior]

\* Mutant: a row that exists is refreshed, createdDate and all.
MutKeep(k, date) ==
  /\ row' = [row EXCEPT ![k].date = date]
  /\ UNCHANGED <<ids, older>>
\* A row that exists keeps its createdDate; only the marks, which every row
\* here has alike, are set again.
Keep(k, date) == UNCHANGED <<row, ids, older>>

\* The upsert of request p may collide on the unique index (code 11000): the
\* row was inserted after the upsert had been sent.
Collides(p, k) == Exists(k) /\ row[k].id > loc[p].seen

-----------------------------------------------------------------------------
(* createNewBaseline *)

\* The last baseline of the branch is read; the date is taken.
AcceptLast(p) ==
  /\ pc[p] = "idle" /\ clock < MaxClock
  /\ \E s \in Snap :
       loc' = [loc EXCEPT ![p] =
                 [Blank EXCEPT !.to = OwnBranch[s], !.key = s,
                               !.regions = Inherited(OwnBranch[s]),
                               !.date = clock + 1, !.seen = ids,
                               !.prior = Settled(OwnBranch[s])]]
  /\ clock' = clock + 1
  /\ Goto(p, "aUpsert")
  /\ lone' = {}
  /\ UNCHANGED <<row, ids, older, want>>

\* The row of the check's branch and its actual snapshot.
AcceptUpsert(p) ==
  /\ pc[p] = "aUpsert"
  /\ LET k == <<loc[p].to, loc[p].key>> IN
       \/ /\ ~Exists(k)
          /\ Insert(k, loc[p].date, loc[p].regions, loc[p].prior)
          /\ Expect(want)
          /\ Finish(p)
       \/ /\ Exists(k)
          /\ Keep(k, loc[p].date)
          /\ Finish(p)
          /\ UNCHANGED want
       \/ /\ Collides(p, k)
          /\ Goto(p, "aFind")
          /\ UNCHANGED <<row, ids, older, want, loc>>
  /\ UNCHANGED <<clock, lone>>

\* The row that was in the way, and a new date for it; an error if it has gone.
AcceptFind(p) ==
  /\ pc[p] = "aFind"
  /\ LET k == <<loc[p].to, loc[p].key>> IN
       \/ /\ Exists(k) /\ clock < MaxClock
          /\ clock' = clock + 1
          /\ loc' = [loc EXCEPT ![p].date = clock + 1, ![p].found = row[k].id]
          /\ Goto(p, "aSave")
       \/ /\ ~Exists(k)
          /\ Finish(p)
          /\ UNCHANGED clock
  /\ UNCHANGED <<row, ids, older, want, lone>>

\* Mutant: the row is saved whether or not it is still there.
MutSameRow(p, k) == TRUE
SameRow(p, k) == row[k].id = loc[p].found
\* save() of that row; it rejects if the row has been removed since.
AcceptSave(p) ==
  /\ pc[p] = "aSave"
  /\ LET k == <<loc[p].to, loc[p].key>> IN
       row' = IF SameRow(p, k) THEN [row EXCEPT ![k].date = loc[p].date] ELSE row
  /\ Expect(want)
  /\ Finish(p)
  /\ UNCHANGED <<ids, clock, older, lone>>

-----------------------------------------------------------------------------
(* promoteBaselines *)

\* The call for the next source is sent: its date is taken.  Like every date of a
\* row it is new and greater than all before; the milliseconds of the code may be
\* equal, and the clocks of two servers may disagree.
SendUpsert(p, l) ==
  /\ clock < MaxClock
  /\ clock' = clock + 1
  /\ loc' = [loc EXCEPT ![p] = [l EXCEPT !.date = clock + 1, !.seen = ids]]
  /\ Goto(p, "pUpsert")

PromoteFind(p) ==
  /\ pc[p] = "idle"
  /\ \E from, to \in Branch :
       /\ from # to /\ OnBranch(from) # {}
       /\ SendUpsert(p, [Blank EXCEPT
            !.to = to, !.from = from, !.todo = Sources(from), !.prior = Settled(to),
            !.fresh = \A k \in InForce(from) :
                        /\ ~Exists(<<to, k[2]>>)
                        /\ \A j \in OnBranch(from) : row[j].id <= row[k].id])
  /\ lone' = IF \A q \in Request : pc[q] = "idle" THEN {p} ELSE {}
  /\ UNCHANGED <<row, ids, older, want>>

\* The row of the target branch for one source; then the next source, or the
\* answer.  Nothing catches a collision: the rest is not promoted.
PromoteUpsert(p) ==
  /\ pc[p] = "pUpsert"
  /\ LET s == NextSource(loc[p].todo)
         k == <<loc[p].to, s.snap>>
         rest == loc[p].todo \ {s}
     IN  \/ /\ \/ ~Exists(k) /\ Insert(k, loc[p].date, s.regions, loc[p].prior)
                             /\ Expect([want EXCEPT ![loc[p].to] = None])
               \/ Exists(k) /\ Keep(k, loc[p].date) /\ UNCHANGED want
            /\ \/ rest # {} /\ SendUpsert(p, [loc[p] EXCEPT !.todo = rest])
               \/ rest = {} /\ Goto(p, "pDone") /\ UNCHANGED <<clock, loc>>
         \/ /\ Collides(p, k)
            /\ Finish(p)
            /\ UNCHANGED <<row, ids, clock, older, want>>
  /\ UNCHANGED lone

\* The answer: { promoted, fromBranch, toBranch }.
PromoteEnd(p) ==
  /\ pc[p] = "pDone"
  /\ Finish(p)
  /\ lone' = lone \ {p}
  /\ UNCHANGED <<row, ids, clock, older, want>>

-----------------------------------------------------------------------------
(* Removal, regions, failures *)

\* baseline.service remove.
RemoveRow(k) ==
  /\ Exists(k)
  /\ row' = [row EXCEPT ![k] = NoRow]
  /\ Expect([want EXCEPT ![k[1]] = IF k \in InForce(k[1]) THEN None ELSE @])
  /\ lone' = {}
  /\ UNCHANGED <<ids, clock, pc, loc, older>>

\* PUT /v1/baselines/:id with the regions drawn in the check details.  The other
\* fields of its schema are left out, also createdDate, branch and markedAs, which
\* the pages do not send.  While the branch is accepted on or promoted to, no edit
\* is expected to last, and one of an older row can come into force.
EditRegions(k, regions) ==
  /\ Exists(k)
  /\ row' = [row EXCEPT ![k].regions = regions]
  /\ Expect([want EXCEPT ![k[1]] =
               IF \E p \in Request : loc[p].to = k[1] THEN None
               ELSE IF k \in InForce(k[1]) THEN regions ELSE @])
  /\ UNCHANGED <<ids, clock, pc, loc, older, lone>>

\* A call rejects, or the server process dies.
Die(p) ==
  /\ pc[p] # "idle"
  /\ Finish(p)
  /\ lone' = lone \ {p}
  /\ UNCHANGED <<row, ids, clock, older, want>>

Step(p) ==
  \/ AcceptLast(p) \/ AcceptUpsert(p) \/ AcceptFind(p) \/ AcceptSave(p)
  \/ PromoteFind(p) \/ PromoteUpsert(p) \/ PromoteEnd(p) \/ Die(p)

Next ==
  \/ \E p \in Request : Step(p)
  \/ \E k \in Key : RemoveRow(k) \/ \E g \in Regions : EditRegions(k, g)

Spec == Init /\ [][Next]_vars

-----------------------------------------------------------------------------
(* Properties *)

\* What is accepted later is in force: a baseline whose acceptance (or
\* promotion) had ended before that of another one of its branch began never
\* comes back before it, whatever else is accepted, promoted and removed.
LaterWins ==
  \A j, k \in Key :
    j[1] = k[1] /\ Exists(j) /\ Exists(k) /\ row[j].id \in older[row[k].id]
      => row[j].date < row[k].date

\* The regions that a user saved for the baseline in force, with nobody else at
\* work on the branch, are those that its uploads are compared under, through
\* all later acceptances, until a promotion takes over or the row is removed.
RegionsCarried ==
  \A b \in Branch : want[b] # None =>
    \A k \in InForce(b) : \A j \in Compared(k[2]) : row[j].regions = want[b]

\* What a promotion of branch b to branch c has to bring about.
Taken(b, c) ==
  /\ \A k \in OnBranch(b) : Exists(<<c, k[2]>>)
  /\ {k[2] : k \in InForce(c)} = {k[2] : k \in InForce(b)}

\* A promotion that overlapped nothing makes the branch's baseline the one in
\* force on the target, if the target has never had it and the rows of the
\* source were inserted in the order of their dates.
PromotionTakesOver ==
  \A p \in lone : pc[p] = "pDone" /\ loc[p].fresh => Taken(loc[p].from, loc[p].to)

\* "the newly-created (or refreshed) baseline naturally becomes the active one
\* for toBranch" (promoteBaselines), for one that overlapped nothing.
PromotedIsActive ==
  \A p \in lone : pc[p] = "pDone" => Taken(loc[p].from, loc[p].to)
=============================================================================
