-------------------------- MODULE BaselinesProofs --------------------------
(* Theorems about Baselines, for any number of requests, snapshots,         *)
(* branches and regions, and for every bound on insertions and dates.       *)
EXTENDS Baselines, WellFoundedInduction, TLAPS

-----------------------------------------------------------------------------
(* Types *)

\* The bounds are numbers.
LEMMA Bounds == MaxIds \in Nat /\ MaxClock \in Nat
BY BaselinesAssumption

\* Every non-empty set of natural numbers has a least element.
LEMMA LeastNumber ==
  ASSUME NEW S \in SUBSET Nat, S # {}
  PROVE  \E m \in S : \A n \in S : m <= n
<1> DEFINE R == OpToRel(<, Nat)
<1>1. IsWellFoundedOn(R, Nat)
  BY NatLessThanWellFounded
<1>2. \A x, y \in Nat : x < y => <<x, y>> \in R
  BY DEF OpToRel
<1> HIDE DEF R
<1>3. \E m \in S : \A n \in S : ~ (<<n, m>> \in R)
  BY <1>1, WFMin
<1>4. \A m, n \in S : ~ (<<n, m>> \in R) => m <= n
  BY <1>2
<1>5. QED
  BY <1>3, <1>4

\* A promotion always has a next source, the first one inserted.
LEMMA NextSourceIn ==
  ASSUME NEW todo \in SUBSET Source, todo # {}
  PROVE  /\ NextSource(todo) \in todo
         /\ \A t \in todo : NextSource(todo).id <= t.id
<1> DEFINE Numbers == {s.id : s \in todo}
<1>1. Numbers \in SUBSET Nat /\ Numbers # {}
  BY Bounds DEF Source
<1>2. \E m \in Numbers : \A n \in Numbers : m <= n
  BY <1>1, LeastNumber
<1>3. \E s \in todo : \A t \in todo : s.id <= t.id
  BY <1>2
<1>4. QED
  BY <1>3 DEF NextSource

\* What each call has been prepared with: acceptances an address, promotions
\* two branches and a source, and every call that writes a row a date for it.
Sending(p) == pc[p] \in {"aUpsert", "aSave", "pUpsert"}

Prepared ==
  \A p \in Request :
    /\ pc[p] \in AcceptSteps => loc[p].to \in Branch /\ loc[p].key \in Snap
    /\ pc[p] \in {"pUpsert", "pDone"} =>
         /\ loc[p].to \in Branch /\ loc[p].from \in Branch
         /\ loc[p].from # loc[p].to
    /\ pc[p] = "pUpsert" => loc[p].todo # {}
    /\ Sending(p) => loc[p].date > 0
    /\ pc[p] = "aSave" => loc[p].found > 0
    /\ pc[p] = "idle" => loc[p] = Blank

Typed == TypeOK /\ Prepared

LEMMA BlankType == Blank \in Locals
BY Bounds DEF Blank, Locals, AnyRegions

LEMMA NoRowType == NoRow \in Row \cup {NoRow}
OBVIOUS

\* Settled names rows, and the sources of a promotion are well-typed.
LEMMA SettledType ==
  ASSUME TypeOK, NEW b \in Branch
  PROVE  Settled(b) \subseteq 1 .. MaxIds
BY Bounds DEF Settled, OnBranch, Exists, TypeOK, Row, NoRow

LEMMA SourcesType ==
  ASSUME TypeOK, NEW b \in Branch
  PROVE  Sources(b) \in SUBSET Source
<1>1. SUFFICES ASSUME NEW k \in OnBranch(b)
               PROVE  [id |-> row[k].id, snap |-> k[2], regions |-> row[k].regions] \in Source
  BY DEF Sources
<1>2. k \in Key /\ row[k] \in Row
  BY Bounds, <1>1 DEF OnBranch, Exists, TypeOK, NoRow
<1>3. QED
  BY <1>2 DEF Source, Row, Key

\* A promotion has a source if its branch has a row.
LEMMA SourcesExist ==
  ASSUME NEW b, OnBranch(b) # {}
  PROVE  Sources(b) # {}
BY DEF Sources

\* Of the rows of a branch, one has the newest date.
LEMMA NewestRow ==
  ASSUME TypeOK, NEW b \in Branch, OnBranch(b) # {}
  PROVE  InForce(b) # {}
<1> DEFINE Ages == {MaxClock - row[k].date : k \in OnBranch(b)}
<1>1. \A k \in OnBranch(b) : k \in Key /\ row[k].date \in 1 .. MaxClock
  BY Bounds DEF OnBranch, Exists, TypeOK, Row, NoRow
<1>2. Ages \in SUBSET Nat /\ Ages # {}
  BY <1>1, Bounds
<1>3. \E m \in Ages : \A n \in Ages : m <= n
  BY <1>2, LeastNumber
<1>4. PICK k \in OnBranch(b) :
        \A j \in OnBranch(b) : MaxClock - row[k].date <= MaxClock - row[j].date
  BY <1>3
<1>5. \A j \in OnBranch(b) : row[j].date <= row[k].date
  BY <1>1, <1>4, Bounds
<1>6. QED
  BY <1>5 DEF InForce

\* A branch inherits the regions of a row in force.
LEMMA InheritedFrom ==
  ASSUME TypeOK, NEW b \in Branch, OnBranch(b) # {}
  PROVE  \E k \in InForce(b) : Inherited(b) = row[k].regions
<1>1. (CHOOSE k \in LastBaseline(b) : TRUE) \in InForce(b)
  BY NewestRow DEF LastBaseline
<1>2. QED
  BY <1>1 DEF Inherited

LEMMA InheritedType ==
  ASSUME TypeOK, NEW b \in Branch
  PROVE  Inherited(b) \in AnyRegions
<1>1. CASE OnBranch(b) = {}
  BY <1>1 DEF Inherited, AnyRegions
<1>2. CASE OnBranch(b) # {}
  <2>1. PICK k \in InForce(b) : Inherited(b) = row[k].regions
    BY <1>2, InheritedFrom
  <2>2. k \in Key /\ row[k] \in Row \cup {NoRow}
    BY <2>1 DEF InForce, OnBranch, TypeOK
  <2>3. QED
    BY <2>1, <2>2 DEF Row, NoRow, AnyRegions
<1>3. QED
  BY <1>1, <1>2

-----------------------------------------------------------------------------
(* Frames: what the writes and the moves of a request leave well-typed *)

\* A write to the rows of the branches changes what is expected of them.
LEMMA ExpectType ==
  ASSUME NEW w \in [Branch -> AnyRegions \cup {None}], Expect(w)
  PROVE  want' \in [Branch -> AnyRegions \cup {None}]
BY DEF Expect

LEMMA InsertType ==
  ASSUME TypeOK, NEW k, NEW d \in 1 .. MaxClock, NEW g \in AnyRegions,
         NEW S \in SUBSET (1 .. MaxIds), Insert(k, d, g, S)
  PROVE  /\ row' \in [Key -> Row \cup {NoRow}]
         /\ ids' \in 0 .. MaxIds
         /\ older' \in [1 .. MaxIds -> SUBSET (1 .. MaxIds)]
<1>1. ids + 1 \in 1 .. MaxIds
  BY Bounds DEF Insert, TypeOK
<1> DEFINE r == [id |-> ids + 1, date |-> d, regions |-> g]
<1>2. r \in Row
  BY <1>1 DEF Row
<1>3. row' = [row EXCEPT ![k] = r]
  BY DEF Insert
<1> HIDE DEF r
<1>4. row' \in [Key -> Row \cup {NoRow}]
  BY <1>2, <1>3 DEF TypeOK
<1>5. QED
  BY <1>1, <1>4, Bounds DEF Insert, TypeOK

\* A request that moves on, and one that ends.
LEMMA MoveType ==
  ASSUME Typed, NEW p \in Request, NEW step \in Steps \ {"idle"}, NEW l \in Locals,
         Goto(p, step), loc' = [loc EXCEPT ![p] = l],
         step \in AcceptSteps => l.to \in Branch /\ l.key \in Snap,
         step \in {"pUpsert", "pDone"} =>
           l.to \in Branch /\ l.from \in Branch /\ l.from # l.to,
         step = "pUpsert" => l.todo # {},
         step \in {"aUpsert", "aSave", "pUpsert"} => l.date > 0,
         step = "aSave" => l.found > 0
  PROVE  /\ pc' \in [Request -> Steps] /\ loc' \in [Request -> Locals]
         /\ Prepared'
<1>1. /\ pc \in [Request -> Steps] /\ loc \in [Request -> Locals] /\ Prepared
  BY DEF Typed, TypeOK
<1>2. /\ pc' \in [Request -> Steps] /\ loc' \in [Request -> Locals]
      /\ pc'[p] = step /\ loc'[p] = l
      /\ \A q \in Request : q # p => pc'[q] = pc[q] /\ loc'[q] = loc[q]
  BY <1>1 DEF Goto
<1>3. Prepared'
  BY <1>1, <1>2 DEF Prepared, Sending
<1>4. QED
  BY <1>2, <1>3

LEMMA FinishType ==
  ASSUME Typed, NEW p \in Request, Finish(p)
  PROVE  /\ pc' \in [Request -> Steps] /\ loc' \in [Request -> Locals]
         /\ Prepared'
         /\ pc'[p] = "idle" /\ loc'[p] = Blank
         /\ \A q \in Request : q # p => pc'[q] = pc[q] /\ loc'[q] = loc[q]
<1>1. /\ pc \in [Request -> Steps] /\ loc \in [Request -> Locals] /\ Prepared
  BY DEF Typed, TypeOK
<1>2. /\ pc' \in [Request -> Steps] /\ loc' \in [Request -> Locals]
      /\ pc'[p] = "idle" /\ loc'[p] = Blank
      /\ \A q \in Request : q # p => pc'[q] = pc[q] /\ loc'[q] = loc[q]
  BY <1>1, BlankType DEF Finish, Goto, Steps
<1>3. Prepared'
  BY <1>1, <1>2 DEF Prepared, Sending, AcceptSteps
<1>4. QED
  BY <1>2, <1>3

\* A step that leaves the requests alone.
LEMMA RequestsKept ==
  ASSUME Typed, UNCHANGED <<pc, loc>>
  PROVE  /\ pc' \in [Request -> Steps] /\ loc' \in [Request -> Locals]
         /\ Prepared'
BY DEF Typed, TypeOK, Prepared, Sending

-----------------------------------------------------------------------------
(* TypeOK: one lemma per action *)

\* The locals of a call that is sent.
LEMMA SetSent ==
  ASSUME NEW l \in Locals, NEW d \in 0 .. MaxClock, NEW n \in 0 .. MaxIds
  PROVE  [l EXCEPT !.date = d, !.seen = n] \in Locals
BY DEF Locals

LEMMA SetFound ==
  ASSUME NEW l \in Locals, NEW d \in 0 .. MaxClock, NEW n \in 0 .. MaxIds
  PROVE  [l EXCEPT !.date = d, !.found = n] \in Locals
BY DEF Locals

LEMMA SetAccepted ==
  ASSUME NEW b \in Branch, NEW s \in Snap, NEW g \in AnyRegions,
         NEW d \in 0 .. MaxClock, NEW n \in 0 .. MaxIds,
         NEW S \in SUBSET (1 .. MaxIds)
  PROVE  [Blank EXCEPT !.to = b, !.key = s, !.regions = g,
                       !.date = d, !.seen = n, !.prior = S] \in Locals
<1>1. [Blank EXCEPT !.to = b, !.key = s] \in Locals
  BY BlankType DEF Locals
<1> DEFINE l == [Blank EXCEPT !.to = b, !.key = s]
<1> HIDE DEF l
<1>2. [l EXCEPT !.regions = g, !.date = d] \in Locals
  BY <1>1 DEF Locals, l
<1> DEFINE m == [l EXCEPT !.regions = g, !.date = d]
<1> HIDE DEF m
<1>3. [m EXCEPT !.seen = n, !.prior = S] \in Locals
  BY <1>2 DEF Locals, m
<1>4. QED
  BY <1>3 DEF l, m

LEMMA StampType ==
  ASSUME TypeOK, clock < MaxClock, NEW l \in Locals
  PROVE  /\ [l EXCEPT !.date = clock + 1, !.seen = ids] \in Locals
         /\ clock + 1 \in 1 .. MaxClock
<1>1. clock + 1 \in 0 .. MaxClock /\ clock + 1 \in 1 .. MaxClock /\ ids \in 0 .. MaxIds
  BY Bounds DEF TypeOK
<1>2. QED
  BY <1>1, SetSent

LEMMA SendType ==
  ASSUME Typed, NEW p \in Request, NEW l \in Locals, SendUpsert(p, l),
         l.to \in Branch /\ l.from \in Branch /\ l.from # l.to, l.todo # {}
  PROVE  /\ pc' \in [Request -> Steps] /\ loc' \in [Request -> Locals]
         /\ Prepared' /\ clock' \in 0 .. MaxClock
<1> DEFINE m == [l EXCEPT !.date = clock + 1, !.seen = ids]
<1>1. m \in Locals /\ clock + 1 \in 1 .. MaxClock
  BY StampType DEF SendUpsert, Typed
<1>2. /\ m.to = l.to /\ m.from = l.from /\ m.todo = l.todo /\ m.date = clock + 1
  BY DEF Locals
<1>3. Goto(p, "pUpsert") /\ loc' = [loc EXCEPT ![p] = m] /\ clock' = clock + 1
  BY DEF SendUpsert
<1> HIDE DEF m
<1>4. "pUpsert" \in Steps \ {"idle"} /\ "pUpsert" \notin AcceptSteps
  BY DEF Steps, AcceptSteps
<1>5. m.date > 0
  BY <1>1, <1>2, Bounds
<1>6. /\ pc' \in [Request -> Steps] /\ loc' \in [Request -> Locals] /\ Prepared'
  BY <1>1, <1>2, <1>3, <1>4, <1>5, MoveType
<1>7. QED
  BY <1>1, <1>3, <1>6, Bounds

LEMMA AcceptLastTyped ==
  ASSUME Typed, NEW p \in Request, AcceptLast(p)
  PROVE  Typed'
<1>1. PICK s \in Snap : loc' = [loc EXCEPT ![p] =
                 [Blank EXCEPT !.to = OwnBranch[s], !.key = s,
                               !.regions = Inherited(OwnBranch[s]),
                               !.date = clock + 1, !.seen = ids,
                               !.prior = Settled(OwnBranch[s])]]
  BY DEF AcceptLast
<1> DEFINE b == OwnBranch[s]
           l == [Blank EXCEPT !.to = b, !.key = s, !.regions = Inherited(b),
                              !.date = clock + 1, !.seen = ids, !.prior = Settled(b)]
<1>2. b \in Branch
  BY BaselinesAssumption
<1>3. /\ Inherited(b) \in AnyRegions /\ Settled(b) \subseteq 1 .. MaxIds
      /\ clock + 1 \in 1 .. MaxClock /\ ids \in 0 .. MaxIds
  BY <1>2, InheritedType, SettledType, Bounds DEF Typed, TypeOK, AcceptLast
<1> DEFINE g == Inherited(b)
           S == Settled(b)
<1> HIDE DEF g, S
<1>4. clock + 1 \in 0 .. MaxClock
  BY <1>3, Bounds
<1>5. l \in Locals /\ l.to = b /\ l.key = s /\ l.date = clock + 1
  <2>1. l \in Locals
    BY <1>2, <1>3, <1>4, SetAccepted DEF g, S
  <2>2. l.to = b /\ l.key = s /\ l.date = clock + 1
    BY DEF Blank
  <2>3. QED
    BY <2>1, <2>2
<1>6. loc' = [loc EXCEPT ![p] = l]
  BY <1>1
<1> HIDE DEF l, b
<1>7. "aUpsert" \in Steps \ {"idle"}
  BY DEF Steps, AcceptSteps
<1>10. Goto(p, "aUpsert") /\ l.date > 0
  BY <1>3, <1>5, Bounds DEF AcceptLast
<1>8. /\ pc' \in [Request -> Steps] /\ loc' \in [Request -> Locals] /\ Prepared'
  BY <1>2, <1>5, <1>6, <1>7, <1>10, MoveType
<1>9. QED
  BY <1>3, <1>8, Bounds DEF AcceptLast, Typed, TypeOK

LEMMA AcceptUpsertTyped ==
  ASSUME Typed, NEW p \in Request, AcceptUpsert(p)
  PROVE  Typed'
<1> DEFINE k == <<loc[p].to, loc[p].key>>
<1>1. /\ TypeOK /\ Prepared /\ loc[p] \in Locals /\ loc[p].date > 0
      /\ loc[p].to \in Branch /\ loc[p].key \in Snap
  BY DEF Typed, TypeOK, Prepared, AcceptUpsert, AcceptSteps, Sending
<1>2. /\ loc[p].date \in 1 .. MaxClock /\ loc[p].regions \in AnyRegions
      /\ loc[p].prior \in SUBSET (1 .. MaxIds)
  BY <1>1, Bounds DEF Locals
<1>3. want \in [Branch -> AnyRegions \cup {None}]
  BY <1>1 DEF TypeOK
<1>4. CASE Insert(k, loc[p].date, loc[p].regions, loc[p].prior) /\ Expect(want) /\ Finish(p)
  <2>1. /\ row' \in [Key -> Row \cup {NoRow}] /\ ids' \in 0 .. MaxIds
        /\ older' \in [1 .. MaxIds -> SUBSET (1 .. MaxIds)]
    BY <1>1, <1>2, <1>4, InsertType
  <2>2. QED
    BY <1>1, <1>3, <1>4, <2>1, FinishType, ExpectType DEF AcceptUpsert, Typed, TypeOK
<1>5. CASE Keep(k, loc[p].date) /\ Finish(p) /\ UNCHANGED want
  BY <1>1, <1>5, FinishType DEF AcceptUpsert, Keep, Typed, TypeOK
<1>6. CASE Goto(p, "aFind") /\ UNCHANGED <<row, ids, older, want, loc>>
  <2>1. loc' = [loc EXCEPT ![p] = loc[p]]
    BY <1>1, <1>6 DEF TypeOK
  <2>2. "aFind" \in Steps \ {"idle"}
    BY DEF Steps, AcceptSteps
  <2>3. /\ pc' \in [Request -> Steps] /\ loc' \in [Request -> Locals] /\ Prepared'
    BY <1>1, <1>6, <2>1, <2>2, MoveType
  <2>4. QED
    BY <1>1, <1>6, <2>3 DEF AcceptUpsert, Typed, TypeOK
<1>7. QED
  BY <1>4, <1>5, <1>6 DEF AcceptUpsert

LEMMA AcceptFindTyped ==
  ASSUME Typed, NEW p \in Request, AcceptFind(p)
  PROVE  Typed'
<1> DEFINE k == <<loc[p].to, loc[p].key>>
<1>1. /\ TypeOK /\ loc[p] \in Locals /\ loc[p].to \in Branch /\ loc[p].key \in Snap
  BY DEF Typed, TypeOK, Prepared, AcceptFind, AcceptSteps, Sending
<1>2. CASE /\ Exists(k) /\ clock < MaxClock /\ clock' = clock + 1
           /\ loc' = [loc EXCEPT ![p].date = clock + 1, ![p].found = row[k].id]
           /\ Goto(p, "aSave")
  <2> DEFINE l == [loc[p] EXCEPT !.date = clock + 1, !.found = row[k].id]
  <2>1. /\ clock + 1 \in 1 .. MaxClock /\ clock + 1 \in 0 .. MaxClock
        /\ row[k].id \in 1 .. MaxIds /\ row[k].id \in 0 .. MaxIds
    <3>1. clock \in 0 .. MaxClock /\ k \in Key /\ row[k] \in Row \cup {NoRow}
      BY <1>1 DEF TypeOK, Key
    <3>2. row[k] \in Row
      BY <1>2, <3>1 DEF Exists, NoRow
    <3>3. QED
      BY <1>2, <3>1, <3>2, Bounds DEF Row
  <2>2. l \in Locals
    BY <1>1, <2>1, SetFound
  <2> USE Bounds
  <2>7. l.to = loc[p].to /\ l.key = loc[p].key /\ l.date = clock + 1 /\ l.found = row[k].id
    BY <1>1 DEF Locals
  <2>3. loc' = [loc EXCEPT ![p] = l]
    BY <1>1, <1>2 DEF TypeOK
  <2>4. "aSave" \in Steps \ {"idle"}
    BY DEF Steps, AcceptSteps
  <2> HIDE DEF l
  <2>8. l.date > 0 /\ l.found > 0
    BY <2>1, <2>7
  <2>5. /\ pc' \in [Request -> Steps] /\ loc' \in [Request -> Locals] /\ Prepared'
    BY <1>1, <1>2, <2>2, <2>3, <2>4, <2>7, <2>8, MoveType
  <2>6. QED
    BY <1>1, <1>2, <2>1, <2>5, Bounds DEF AcceptFind, Typed, TypeOK
<1>3. CASE Finish(p) /\ UNCHANGED clock
  BY <1>1, <1>3, FinishType DEF AcceptFind, Typed, TypeOK
<1>4. QED
  BY <1>2, <1>3 DEF AcceptFind

LEMMA AcceptSaveTyped ==
  ASSUME Typed, NEW p \in Request, AcceptSave(p)
  PROVE  Typed'
<1> DEFINE k == <<loc[p].to, loc[p].key>>
<1>1. /\ TypeOK /\ loc[p] \in Locals /\ k \in Key
      /\ loc[p].date > 0 /\ loc[p].found > 0
  BY DEF Typed, TypeOK, Prepared, AcceptSave, AcceptSteps, Sending, Key
<1>2. row' \in [Key -> Row \cup {NoRow}]
  <2>1. loc[p].date \in 1 .. MaxClock
    BY <1>1, Bounds DEF Locals
  <2>2. CASE row[k] \in Row
    BY <1>1, <2>1, <2>2 DEF AcceptSave, TypeOK, Row
  <2>3. CASE row[k] = NoRow
    BY <1>1, <2>3 DEF AcceptSave, SameRow, NoRow, TypeOK
  <2>4. QED
    BY <1>1, <2>2, <2>3 DEF TypeOK
<1>3. want \in [Branch -> AnyRegions \cup {None}]
  BY <1>1 DEF TypeOK
<1>4. QED
  BY <1>1, <1>2, <1>3, FinishType, ExpectType DEF AcceptSave, Typed, TypeOK

LEMMA SetPromoted ==
  ASSUME NEW from \in Branch, NEW to \in Branch, NEW T \in SUBSET Source,
         NEW S \in SUBSET (1 .. MaxIds), NEW f \in BOOLEAN
  PROVE  /\ [Blank EXCEPT !.to = to, !.from = from, !.todo = T,
                          !.prior = S, !.fresh = f] \in Locals
<1>1. [Blank EXCEPT !.to = to, !.from = from] \in Locals
  BY BlankType DEF Locals
<1> DEFINE l == [Blank EXCEPT !.to = to, !.from = from]
<1> HIDE DEF l
<1>2. [l EXCEPT !.todo = T, !.prior = S] \in Locals
  BY <1>1 DEF Locals, l
<1> DEFINE m == [l EXCEPT !.todo = T, !.prior = S]
<1> HIDE DEF m
<1>3. [m EXCEPT !.fresh = f] \in Locals
  BY <1>2 DEF Locals, m
<1>4. QED
  BY <1>3 DEF l, m

LEMMA PromoteFindTyped ==
  ASSUME Typed, NEW p \in Request, PromoteFind(p)
  PROVE  Typed'
<1> DEFINE Fresh(from, to) ==
             \A k \in InForce(from) :
               /\ ~Exists(<<to, k[2]>>)
               /\ \A j \in OnBranch(from) : row[j].id <= row[k].id
           L(from, to) ==
             [Blank EXCEPT !.to = to, !.from = from, !.todo = Sources(from),
                           !.prior = Settled(to), !.fresh = Fresh(from, to)]
<1>1. PICK from \in Branch, to \in Branch :
        from # to /\ OnBranch(from) # {} /\ SendUpsert(p, L(from, to))
  BY DEF PromoteFind
<1>2. Sources(from) \in SUBSET Source /\ Sources(from) # {} /\ Settled(to) \subseteq 1 .. MaxIds
  BY <1>1, SourcesType, SourcesExist, SettledType DEF Typed
<1>3. Fresh(from, to) \in BOOLEAN
  OBVIOUS
<1> DEFINE f == Fresh(from, to)
           l == L(from, to)
<1>4. l \in Locals
  <2> HIDE DEF Fresh
  <2>1. f \in BOOLEAN
    BY <1>3
  <2>2. QED
    BY <1>2, <2>1, SetPromoted
<1>5. l.to = to /\ l.from = from /\ l.todo = Sources(from)
  BY DEF Blank
<1> HIDE DEF l, L, f
<1>6. SendUpsert(p, l)
  BY <1>1 DEF l
<1>7. /\ pc' \in [Request -> Steps] /\ loc' \in [Request -> Locals]
      /\ Prepared' /\ clock' \in 0 .. MaxClock
  BY <1>1, <1>2, <1>4, <1>5, <1>6, SendType
<1>8. lone' \subseteq Request
  BY DEF PromoteFind
<1>9. QED
  BY <1>7, <1>8 DEF PromoteFind, Typed, TypeOK

\* The next source of a promotion and the row it is promoted to.
LEMMA NextSourceType ==
  ASSUME Typed, NEW p \in Request, pc[p] = "pUpsert"
  PROVE  /\ loc[p] \in Locals /\ loc[p].todo \in SUBSET Source
         /\ NextSource(loc[p].todo) \in loc[p].todo
         /\ NextSource(loc[p].todo) \in Source
         /\ \A t \in loc[p].todo : NextSource(loc[p].todo).id <= t.id
         /\ NextSource(loc[p].todo).regions \in AnyRegions
         /\ <<loc[p].to, NextSource(loc[p].todo).snap>> \in Key
         /\ loc[p].date \in 1 .. MaxClock
         /\ loc[p].to \in Branch /\ loc[p].from \in Branch /\ loc[p].from # loc[p].to
<1>1. /\ loc[p] \in Locals /\ loc[p].todo # {} /\ loc[p].date > 0
      /\ loc[p].to \in Branch /\ loc[p].from \in Branch /\ loc[p].from # loc[p].to
  BY DEF Typed, TypeOK, Prepared, Sending
<1>2. loc[p].todo \in SUBSET Source /\ loc[p].date \in 1 .. MaxClock
  BY <1>1, Bounds DEF Locals
<1>3. /\ NextSource(loc[p].todo) \in loc[p].todo
      /\ \A t \in loc[p].todo : NextSource(loc[p].todo).id <= t.id
  BY <1>1, <1>2, NextSourceIn
<1>4. NextSource(loc[p].todo) \in Source
  BY <1>2, <1>3
<1>5. QED
  BY <1>1, <1>2, <1>3, <1>4 DEF Source, Key

LEMMA PromoteUpsertTyped ==
  ASSUME Typed, NEW p \in Request, PromoteUpsert(p)
  PROVE  Typed'
<1> DEFINE s == NextSource(loc[p].todo)
           k == <<loc[p].to, s.snap>>
           rest == loc[p].todo \ {s}
           new == /\ Insert(k, loc[p].date, s.regions, loc[p].prior)
                  /\ Expect([want EXCEPT ![loc[p].to] = None])
           old == Keep(k, loc[p].date) /\ UNCHANGED want
           send == rest # {} /\ SendUpsert(p, [loc[p] EXCEPT !.todo = rest])
           last == rest = {} /\ Goto(p, "pDone") /\ UNCHANGED <<clock, loc>>
           fail == Finish(p) /\ UNCHANGED <<row, ids, clock, older, want>>
<1>1. /\ TypeOK /\ pc[p] = "pUpsert"
      /\ loc[p] \in Locals /\ loc[p].todo \in SUBSET Source
      /\ s.regions \in AnyRegions /\ loc[p].date \in 1 .. MaxClock
      /\ loc[p].to \in Branch /\ loc[p].from \in Branch /\ loc[p].from # loc[p].to
  BY NextSourceType DEF PromoteUpsert, Typed
<1>2. ((new \/ old) /\ (send \/ last)) \/ fail
  BY DEF PromoteUpsert
<1>3. UNCHANGED lone
  BY DEF PromoteUpsert
<1>4. new \/ old =>
        /\ row' \in [Key -> Row \cup {NoRow}] /\ ids' \in 0 .. MaxIds
        /\ older' \in [1 .. MaxIds -> SUBSET (1 .. MaxIds)]
        /\ want' \in [Branch -> AnyRegions \cup {None}]
  <2>1. loc[p].prior \in SUBSET (1 .. MaxIds)
    BY <1>1 DEF Locals
  <2>2. [want EXCEPT ![loc[p].to] = None] \in [Branch -> AnyRegions \cup {None}]
    BY <1>1 DEF TypeOK
  <2>3. CASE new
    <3>1. /\ row' \in [Key -> Row \cup {NoRow}] /\ ids' \in 0 .. MaxIds
          /\ older' \in [1 .. MaxIds -> SUBSET (1 .. MaxIds)]
      <4> HIDE DEF k, s
      <4>1. Insert(k, loc[p].date, s.regions, loc[p].prior)
        BY <2>3
      <4>2. QED
        BY <1>1, <2>1, <4>1, InsertType
    <3>2. Expect([want EXCEPT ![loc[p].to] = None])
      BY <2>3
    <3>3. want' \in [Branch -> AnyRegions \cup {None}]
      BY <2>2, <3>2, ExpectType
    <3>4. QED
      BY <3>1, <3>3
  <2>4. CASE old
    BY <1>1, <2>4 DEF Keep, TypeOK
  <2>5. QED
    BY <2>3, <2>4
<1>5. send \/ last =>
        /\ pc' \in [Request -> Steps] /\ loc' \in [Request -> Locals]
        /\ Prepared' /\ clock' \in 0 .. MaxClock
  <2>1. CASE send
    <3> DEFINE l == [loc[p] EXCEPT !.todo = rest]
    <3>1. l \in Locals
      BY <1>1 DEF Locals
    <3>2. l.to = loc[p].to /\ l.from = loc[p].from /\ l.todo = rest
      BY <1>1 DEF Locals
    <3>3. SendUpsert(p, l) /\ rest # {}
      BY <2>1
    <3> HIDE DEF l, rest
    <3>4. QED
      BY <1>1, <3>1, <3>2, <3>3, SendType
  <2>2. CASE last
    <3>1. loc' = [loc EXCEPT ![p] = loc[p]]
      BY <1>1, <2>2 DEF TypeOK
    <3>2. "pDone" \in Steps \ {"idle"} /\ "pDone" \notin AcceptSteps
      BY DEF Steps, AcceptSteps
    <3>3. Goto(p, "pDone") /\ UNCHANGED clock
      BY <2>2
    <3>4. /\ pc' \in [Request -> Steps] /\ loc' \in [Request -> Locals] /\ Prepared'
      BY <1>1, <3>1, <3>2, <3>3, MoveType
    <3>5. QED
      BY <1>1, <3>3, <3>4 DEF TypeOK
  <2>3. QED
    BY <2>1, <2>2
<1>6. CASE fail
  <2>1. /\ pc' \in [Request -> Steps] /\ loc' \in [Request -> Locals] /\ Prepared'
    BY <1>6, FinishType
  <2>2. QED
    BY <1>1, <1>3, <1>6, <2>1 DEF Typed, TypeOK
<1>7. CASE (new \/ old) /\ (send \/ last)
  <2> HIDE DEF new, old, send, last
  <2>1. QED
    BY <1>1, <1>3, <1>4, <1>5, <1>7 DEF Typed, TypeOK
<1>8. QED
  <2> HIDE DEF new, old, send, last, fail
  <2>1. QED
    BY <1>2, <1>6, <1>7

LEMMA EndTyped ==
  ASSUME Typed, NEW p \in Request, PromoteEnd(p) \/ Die(p)
  PROVE  Typed'
BY FinishType DEF PromoteEnd, Die, Typed, TypeOK

LEMMA RemoveRowTyped ==
  ASSUME Typed, NEW k \in Key, RemoveRow(k)
  PROVE  Typed'
<1> DEFINE w == [want EXCEPT ![k[1]] = IF k \in InForce(k[1]) THEN None ELSE @]
<1>1. TypeOK /\ w \in [Branch -> AnyRegions \cup {None}]
  BY DEF Typed, TypeOK
<1>2. Expect(w)
  BY DEF RemoveRow
<1>3. want' \in [Branch -> AnyRegions \cup {None}]
  BY <1>1, <1>2, ExpectType
<1>4. row' \in [Key -> Row \cup {NoRow}] /\ lone' \subseteq Request
  BY <1>1 DEF RemoveRow, TypeOK
<1>5. QED
  BY <1>1, <1>3, <1>4, RequestsKept DEF RemoveRow, Typed, TypeOK

LEMMA EditRegionsTyped ==
  ASSUME Typed, NEW k \in Key, NEW g \in Regions, EditRegions(k, g)
  PROVE  Typed'
<1> DEFINE v(x) == IF \E p \in Request : loc[p].to = k[1] THEN None
                   ELSE IF k \in InForce(k[1]) THEN g ELSE x
           w == [want EXCEPT ![k[1]] = v(@)]
<1>1. TypeOK /\ w \in [Branch -> AnyRegions \cup {None}]
  BY DEF Typed, TypeOK, AnyRegions
<1>2. Expect(w)
  BY DEF EditRegions
<1>3. want' \in [Branch -> AnyRegions \cup {None}]
  <2> HIDE DEF w
  <2>1. QED
    BY <1>1, <1>2, ExpectType
<1>4. row' \in [Key -> Row \cup {NoRow}]
  <2>1. row[k] \in Row
    BY <1>1 DEF EditRegions, Exists, TypeOK, NoRow
  <2>2. [row[k] EXCEPT !.regions = g] \in Row
    BY <2>1 DEF Row, AnyRegions
  <2>3. row' = [row EXCEPT ![k] = [row[k] EXCEPT !.regions = g]]
    BY <1>1 DEF EditRegions, TypeOK
  <2>4. QED
    BY <1>1, <2>2, <2>3 DEF TypeOK
<1>5. QED
  BY <1>1, <1>3, <1>4, RequestsKept DEF EditRegions, Typed, TypeOK

LEMMA TypedInit == Init => Typed
<1> SUFFICES ASSUME Init PROVE Typed
  OBVIOUS
<1>1. pc \in [Request -> Steps] /\ loc \in [Request -> Locals]
  BY BlankType DEF Init, Steps
<1>2. Prepared
  BY DEF Init, Prepared, Sending, AcceptSteps
<1>3. QED
  BY <1>1, <1>2, Bounds DEF Init, Typed, TypeOK

LEMMA TypedStep ==
  ASSUME Typed, [Next]_vars
  PROVE  Typed'
<1>1. ASSUME NEW p \in Request, Step(p)
      PROVE  Typed'
  BY <1>1, AcceptLastTyped, AcceptUpsertTyped, AcceptFindTyped, AcceptSaveTyped,
     PromoteFindTyped, PromoteUpsertTyped, EndTyped DEF Step
<1>2. ASSUME NEW k \in Key, RemoveRow(k) \/ \E g \in Regions : EditRegions(k, g)
      PROVE  Typed'
  BY <1>2, RemoveRowTyped, EditRegionsTyped
<1>3. CASE UNCHANGED vars
  BY <1>3, RequestsKept DEF vars, Typed, TypeOK
<1>4. QED
  BY <1>1, <1>2, <1>3 DEF Next

LEMMA AlwaysTyped == Spec => []Typed
BY TypedInit, TypedStep, PTL DEF Spec

\* Every row, date, source and address stays what it is declared to be: a
\* promotion never runs out of sources before it ends, and no call writes a
\* row without a date of its own.
THEOREM BaselinesTypes == Spec => []TypeOK
<1>1. Typed => TypeOK
  BY DEF Typed
<1>2. QED
  BY <1>1, AlwaysTyped, PTL

-----------------------------------------------------------------------------
(* LaterWins.  A row that is settled keeps its date for good: only an       *)
(* acceptance that was sent before the row was inserted can give it another *)
(* one, and an acceptance that starts later has seen the row.  So whatever  *)
(* was settled when an acceptance began stays older than the date it takes. *)

\* The rows with these ids are older than d, and will stay so.
Before(S, d) ==
  \A j \in Key : Exists(j) /\ row[j].id \in S =>
    /\ row[j].date < d
    /\ \A q \in Request : ~MayStamp(q, j)

\* Nothing is ahead of the counters.
Counted ==
  /\ \A k \in Key : row[k].id <= ids /\ row[k].date <= clock
  /\ \A p \in Request : /\ loc[p].date <= clock /\ loc[p].seen <= ids
                        /\ loc[p].found <= ids
                        /\ \A i \in loc[p].prior : i <= ids
  /\ \A i \in 1 .. ids : \A j \in older[i] : j <= ids

\* An id names one row.
Named == \A j, k \in Key : Exists(j) /\ Exists(k) /\ row[j].id = row[k].id => j = k

Timeline ==
  /\ Counted /\ Named
  /\ \A k \in Key : Exists(k) => Before(older[row[k].id], row[k].date)
  /\ \A p \in Request :
       /\ pc[p] \in {"aUpsert", "pUpsert"} => Before(loc[p].prior, loc[p].date)
       /\ \A k \in Key : pc[p] = "aFind" /\ k = <<loc[p].to, loc[p].key>> /\ Exists(k) =>
                           row[k].id > loc[p].seen
       /\ pc[p] = "aSave" => /\ loc[p].found > loc[p].seen
                             /\ Before(older[loc[p].found], loc[p].date)

\* How a step can change a request.
CallKept(q) == pc'[q] = pc[q] /\ loc'[q] = loc[q]

CallOver(q) == pc'[q] \in {"idle", "pDone"} /\ loc'[q] \in {loc[q], Blank}

CallSent(q) ==
  /\ pc'[q] \in {"aUpsert", "pUpsert"} /\ clock' = clock + 1
  /\ loc'[q].date = clock + 1 /\ loc'[q].seen = ids
  /\ loc'[q].found \in {0, loc[q].found}
  /\ \A i \in loc'[q].prior :
       /\ i <= ids
       /\ \A j \in Key : Exists(j) /\ row[j].id = i => \A r \in Request : ~MayStamp(r, j)

CallFound(q) ==
  /\ pc[q] = "aFind" /\ pc'[q] = "aSave" /\ clock' = clock + 1
  /\ loc'[q].to = loc[q].to /\ loc'[q].key = loc[q].key
  /\ loc'[q].seen = loc[q].seen /\ loc'[q].prior = loc[q].prior
  /\ loc'[q].date = clock + 1
  /\ \E k \in Key : /\ k = <<loc[q].to, loc[q].key>> /\ Exists(k)
                    /\ loc'[q].found = row[k].id

CallCollided(q) ==
  /\ pc[q] = "aUpsert" /\ pc'[q] = "aFind" /\ loc'[q] = loc[q]
  /\ row' = row
  /\ Collides(q, <<loc[q].to, loc[q].key>>)

\* How a step can change a row that exists after it: not at all, as far as its
\* id and its date go; by an insertion; or by the save after a collision.
RowKept(k) == Exists(k) /\ row'[k].id = row[k].id /\ row'[k].date = row[k].date

RowInserted(k) ==
  /\ row'[k].id = ids + 1 /\ ids' = ids + 1
  /\ \E p \in Request : /\ pc[p] \in {"aUpsert", "pUpsert"}
                        /\ row'[k].date = loc[p].date /\ older'[ids + 1] = loc[p].prior
                        /\ CallOver(p) \/ CallSent(p)

RowSaved(k) ==
  /\ Exists(k) /\ row'[k].id = row[k].id
  /\ \E p \in Request : /\ pc[p] = "aSave" /\ k = <<loc[p].to, loc[p].key>>
                        /\ loc[p].found = row[k].id /\ row'[k].date = loc[p].date
                        /\ CallOver(p)

Shape ==
  /\ ids <= ids' /\ clock <= clock'
  /\ \A i \in 1 .. ids : older'[i] = older[i]
  /\ \A i \in 1 .. ids' : i > ids => \A j \in older'[i] : j <= ids
  /\ \A k \in Key : Exists(k)' => RowKept(k) \/ RowInserted(k) \/ RowSaved(k)
  /\ \A j, k \in Key : row'[j].id > ids /\ row'[k].id > ids => j = k
  /\ \A q \in Request : \/ CallKept(q) \/ CallOver(q) \/ CallSent(q)
                        \/ CallFound(q) \/ CallCollided(q)
  /\ \A p, q \in Request : p # q => CallKept(p) \/ CallKept(q)

\* The numbers of a typed state.
LEMMA RowNumbers ==
  ASSUME TypeOK, NEW k \in Key
  PROVE  /\ row[k].id \in Nat /\ row[k].date \in Nat
         /\ Exists(k) => row[k].id \in 1 .. MaxIds
<1>1. row[k] \in Row \cup {NoRow}
  BY DEF TypeOK
<1>2. QED
  BY <1>1, Bounds DEF Row, NoRow, Exists

LEMMA CallNumbers ==
  ASSUME TypeOK, NEW p \in Request
  PROVE  /\ loc[p].date \in Nat /\ loc[p].seen \in Nat /\ loc[p].found \in Nat
         /\ loc[p].prior \subseteq Nat
<1>1. loc[p] \in Locals
  BY DEF TypeOK
<1>2. QED
  BY <1>1, Bounds DEF Locals

LEMMA NumbersNext ==
  ASSUME TypeOK'
  PROVE  /\ \A k \in Key : row'[k].id \in Nat /\ row'[k].date \in Nat
         /\ \A p \in Request : /\ loc'[p].date \in Nat /\ loc'[p].seen \in Nat
                               /\ loc'[p].found \in Nat
         /\ ids' \in Nat /\ clock' \in Nat
<1>1. \A k \in Key : row'[k] \in Row \cup {NoRow}
  BY DEF TypeOK
<1>2. \A p \in Request : loc'[p] \in Locals
  BY DEF TypeOK
<1>3. ids' \in Nat /\ clock' \in Nat
  BY Bounds DEF TypeOK
<1>4. QED
  BY <1>1, <1>2, <1>3, Bounds DEF Row, NoRow, Locals

LEMMA Counters ==
  ASSUME TypeOK
  PROVE  ids \in Nat /\ clock \in Nat
BY Bounds DEF TypeOK

\* A row that was there keeps its id, its date unless an acceptance may stamp
\* it, and no acceptance begins to be able to.
LEMMA OldRows ==
  ASSUME Typed, Typed', Timeline, Shape, NEW j \in Key, Exists(j)', row'[j].id <= ids
  PROVE  /\ Exists(j) /\ row'[j].id = row[j].id
         /\ row'[j].date # row[j].date => \E q \in Request : MayStamp(q, j)
         /\ \A q \in Request : MayStamp(q, j)' => MayStamp(q, j)
<1>1. /\ TypeOK /\ TypeOK' /\ ids \in Nat
      /\ row[j].id \in Nat /\ row'[j].id \in Nat
  BY Counters, RowNumbers, NumbersNext DEF Typed
<1>2. RowKept(j) \/ RowSaved(j)
  BY <1>1 DEF Shape, RowInserted
<1>3. Exists(j) /\ row'[j].id = row[j].id
  BY <1>2 DEF RowKept, RowSaved
<1>4. row'[j].date # row[j].date => \E q \in Request : MayStamp(q, j)
  <2>1. SUFFICES ASSUME RowSaved(j)
                 PROVE  \E q \in Request : MayStamp(q, j)
    BY <1>2 DEF RowKept
  <2>2. PICK p \in Request : /\ pc[p] = "aSave" /\ j = <<loc[p].to, loc[p].key>>
                             /\ loc[p].found = row[j].id
    BY <2>1 DEF RowSaved
  <2>3. loc[p].found > loc[p].seen
    BY <2>2 DEF Timeline
  <2>4. QED
    BY <2>2, <2>3 DEF MayStamp, AcceptSteps
<1>5. ASSUME NEW q \in Request, MayStamp(q, j)'
      PROVE  MayStamp(q, j)
  <2>1. /\ pc'[q] \in AcceptSteps /\ j = <<loc'[q].to, loc'[q].key>>
        /\ row'[j].id > loc'[q].seen
    BY <1>5 DEF MayStamp
  <2>2. loc[q].seen \in Nat /\ loc'[q].seen \in Nat
    BY <1>1, CallNumbers, NumbersNext
  <2>3. CASE CallKept(q)
    BY <1>3, <2>1, <2>3 DEF CallKept, MayStamp
  <2>4. CASE CallOver(q)
    BY <2>1, <2>4 DEF CallOver, AcceptSteps
  <2>5. CASE CallSent(q)
    BY <1>1, <2>1, <2>5 DEF CallSent
  <2>6. CASE CallFound(q)
    BY <1>3, <2>1, <2>6 DEF CallFound, MayStamp, AcceptSteps
  <2>7. CASE CallCollided(q)
    BY <1>3, <2>1, <2>7 DEF CallCollided, MayStamp, AcceptSteps
  <2>8. QED
    BY <2>3, <2>4, <2>5, <2>6, <2>7 DEF Shape
<1>6. QED
  BY <1>3, <1>4, <1>5

\* So what was before a date stays before it.
LEMMA Shifted ==
  ASSUME Typed, Typed', Timeline, Shape, NEW S, NEW d,
         \A i \in S : i <= ids, Before(S, d)
  PROVE  \A j \in Key : Exists(j)' /\ row'[j].id \in S =>
           row'[j].date < d /\ \A q \in Request : ~MayStamp(q, j)'
<1>1. SUFFICES ASSUME NEW j \in Key, Exists(j)', row'[j].id \in S
               PROVE  row'[j].date < d /\ \A q \in Request : ~MayStamp(q, j)'
  OBVIOUS
<1>2. row'[j].id <= ids
  BY <1>1
<1>3. /\ Exists(j) /\ row'[j].id = row[j].id
      /\ row'[j].date # row[j].date => \E q \in Request : MayStamp(q, j)
      /\ \A q \in Request : MayStamp(q, j)' => MayStamp(q, j)
  BY <1>1, <1>2, OldRows
<1>4. row[j].date < d /\ \A q \in Request : ~MayStamp(q, j)
  BY <1>1, <1>3 DEF Before
<1>5. QED
  BY <1>3, <1>4

\* And what nobody may stamp is before any date still to be taken.
LEMMA BeforeNow ==
  ASSUME Typed, Timeline, NEW S,
         \A j \in Key : Exists(j) /\ row[j].id \in S => \A q \in Request : ~MayStamp(q, j)
  PROVE  Before(S, clock + 1)
<1>1. \A j \in Key : row[j].date <= clock /\ row[j].date \in Nat
  BY RowNumbers DEF Timeline, Counted, Typed
<1>2. clock \in Nat
  BY Counters DEF Typed
<1>3. QED
  BY <1>1, <1>2 DEF Before

\* The counters stay ahead, if the new rows and calls are numbered from them.
LEMMA CountedStep ==
  ASSUME Typed, Typed', Timeline, Shape
  PROVE  Counted'
<1>1. /\ TypeOK /\ TypeOK' /\ Counted
      /\ ids \in Nat /\ clock \in Nat /\ ids' \in Nat /\ clock' \in Nat
      /\ ids <= ids' /\ clock <= clock'
  BY Counters, NumbersNext DEF Typed, Timeline, Shape
<1>2. ASSUME NEW k \in Key
      PROVE  row'[k].id <= ids' /\ row'[k].date <= clock'
  <2>1. /\ row'[k].id \in Nat /\ row'[k].date \in Nat
        /\ row[k].id \in Nat /\ row[k].date \in Nat
        /\ \A p \in Request : loc[p].date \in Nat /\ loc[p].date <= clock
        /\ row[k].id <= ids /\ row[k].date <= clock
    BY <1>1, NumbersNext, RowNumbers, CallNumbers DEF Counted
  <2>2. CASE ~Exists(k)'
    <3>1. row'[k] = NoRow
      BY <1>1, <2>2, Bounds DEF TypeOK, Row, Exists
    <3>2. QED
      BY <1>1, <3>1 DEF NoRow
  <2>3. CASE RowKept(k)
    BY <1>1, <2>1, <2>3 DEF RowKept
  <2>4. CASE RowInserted(k)
    BY <1>1, <2>1, <2>4 DEF RowInserted
  <2>5. CASE RowSaved(k)
    BY <1>1, <2>1, <2>5 DEF RowSaved
  <2>6. QED
    BY <2>2, <2>3, <2>4, <2>5 DEF Shape
<1>3. ASSUME NEW p \in Request
      PROVE  /\ loc'[p].date <= clock' /\ loc'[p].seen <= ids' /\ loc'[p].found <= ids'
             /\ \A i \in loc'[p].prior : i <= ids'
  <2>1. /\ loc[p].date <= clock /\ loc[p].seen <= ids /\ loc[p].found <= ids
        /\ \A i \in loc[p].prior : i <= ids
        /\ loc[p].date \in Nat /\ loc[p].seen \in Nat /\ loc[p].found \in Nat
        /\ loc[p].prior \subseteq Nat
        /\ loc'[p].date \in Nat /\ loc'[p].seen \in Nat /\ loc'[p].found \in Nat
    BY <1>1, CallNumbers, NumbersNext DEF Counted
  <2>2. loc'[p].prior \subseteq Nat
    BY <1>1, Bounds DEF TypeOK, Locals
  <2>3. CASE loc'[p] = loc[p]
    BY <1>1, <2>1, <2>3
  <2>4. CASE loc'[p] = Blank
    BY <1>1, <2>4 DEF Blank
  <2>5. CASE CallSent(p)
    BY <1>1, <2>1, <2>2, <2>5 DEF CallSent
  <2>6. CASE CallFound(p)
    <3>1. \A k \in Key : row[k].id <= ids /\ row[k].id \in Nat
      BY <1>1, RowNumbers DEF Counted
    <3>2. QED
      BY <1>1, <2>1, <2>6, <3>1 DEF CallFound
  <2>7. QED
    BY <2>3, <2>4, <2>5, <2>6 DEF Shape, CallKept, CallOver, CallCollided
<1>4. ASSUME NEW i \in 1 .. ids', NEW j \in older'[i]
      PROVE  j <= ids'
  <2>1. CASE i \in 1 .. ids
    <3>1. j \in older[i] /\ j <= ids
      BY <1>1, <2>1, <1>4 DEF Shape, Counted
    <3>2. j \in Nat
      BY <1>1, <1>4, Bounds DEF TypeOK
    <3>3. QED
      BY <1>1, <3>1, <3>2
  <2>2. CASE i > ids
    <3>1. j <= ids
      BY <2>2, <1>4 DEF Shape
    <3>2. j \in Nat
      BY <1>1, <1>4, Bounds DEF TypeOK
    <3>3. QED
      BY <1>1, <3>1, <3>2
  <2>3. QED
    BY <1>1, <2>1, <2>2
<1>5. QED
  BY <1>2, <1>3, <1>4 DEF Counted

LEMMA NamedStep ==
  ASSUME Typed, Typed', Timeline, Shape
  PROVE  Named'
<1>1. SUFFICES ASSUME NEW j \in Key, NEW k \in Key, Exists(j)', Exists(k)',
                      row'[j].id = row'[k].id
               PROVE  j = k
  BY DEF Named
<1>2. row'[j].id \in Nat /\ ids \in Nat
  BY Counters, NumbersNext DEF Typed
<1>3. CASE row'[j].id > ids
  BY <1>1, <1>3 DEF Shape
<1>4. CASE row'[j].id <= ids
  <2>1. /\ Exists(j) /\ row'[j].id = row[j].id
        /\ Exists(k) /\ row'[k].id = row[k].id
    BY <1>1, <1>4, OldRows
  <2>2. QED
    BY <1>1, <2>1 DEF Timeline, Named
<1>5. QED
  BY <1>2, <1>3, <1>4

\* A step of that shape keeps the timeline.
LEMMA TimelineStep ==
  ASSUME Typed, Typed', Timeline, Shape
  PROVE  Timeline'
<1>1. /\ TypeOK /\ TypeOK' /\ Counted /\ Counted' /\ Named'
      /\ ids \in Nat /\ clock \in Nat
  BY Counters, CountedStep, NamedStep DEF Typed, Timeline
<1>2. \A k \in Key : /\ row[k].id \in Nat /\ row[k].id <= ids
                     /\ row'[k].id \in Nat
                     /\ Exists(k) => row[k].id \in 1 .. ids
  BY <1>1, RowNumbers, NumbersNext DEF Counted, Exists
<1>3. \A p \in Request : \A i \in loc[p].prior : i <= ids
  BY <1>1 DEF Counted
<1>4. \A i \in 1 .. ids : older'[i] = older[i] /\ \A j \in older[i] : j <= ids
  BY <1>1 DEF Counted, Shape
<1>5. ASSUME NEW k \in Key, Exists(k)'
      PROVE  Before(older[row[k].id], row[k].date)'
  <2>1. CASE RowKept(k)
    <3> DEFINE S == older[row[k].id]
               d == row[k].date
    <3>1. row[k].id \in 1 .. ids /\ (\A i \in S : i <= ids) /\ Before(S, d)
      BY <1>2, <1>4, <2>1 DEF RowKept, Timeline
    <3>2. older'[row'[k].id] = S /\ row'[k].date = d
      BY <1>4, <2>1, <3>1 DEF RowKept
    <3> HIDE DEF S, d
    <3>3. \A j \in Key : Exists(j)' /\ row'[j].id \in S =>
            row'[j].date < d /\ \A q \in Request : ~MayStamp(q, j)'
      BY <3>1, Shifted
    <3>4. QED
      BY <3>2, <3>3 DEF Before
  <2>2. CASE RowInserted(k)
    <3>1. PICK p \in Request : /\ pc[p] \in {"aUpsert", "pUpsert"}
                               /\ row'[k].date = loc[p].date
                               /\ older'[ids + 1] = loc[p].prior
      BY <2>2 DEF RowInserted
    <3> DEFINE S == loc[p].prior
               d == loc[p].date
    <3>2. (\A i \in S : i <= ids) /\ Before(S, d)
      BY <1>3, <3>1 DEF Timeline
    <3>3. older'[row'[k].id] = S /\ row'[k].date = d
      BY <2>2, <3>1 DEF RowInserted
    <3> HIDE DEF S, d
    <3>4. \A j \in Key : Exists(j)' /\ row'[j].id \in S =>
            row'[j].date < d /\ \A q \in Request : ~MayStamp(q, j)'
      BY <3>2, Shifted
    <3>5. QED
      BY <3>3, <3>4 DEF Before
  <2>3. CASE RowSaved(k)
    <3>1. PICK p \in Request : /\ pc[p] = "aSave" /\ loc[p].found = row[k].id
                               /\ row'[k].date = loc[p].date
      BY <2>3 DEF RowSaved
    <3> DEFINE S == older[row[k].id]
               d == loc[p].date
    <3>2. row[k].id \in 1 .. ids /\ (\A i \in S : i <= ids) /\ Before(S, d)
      BY <1>2, <1>4, <2>3, <3>1 DEF RowSaved, Timeline
    <3>3. older'[row'[k].id] = S /\ row'[k].date = d
      BY <1>4, <2>3, <3>1, <3>2 DEF RowSaved
    <3> HIDE DEF S, d
    <3>4. \A j \in Key : Exists(j)' /\ row'[j].id \in S =>
            row'[j].date < d /\ \A q \in Request : ~MayStamp(q, j)'
      BY <3>2, Shifted
    <3>5. QED
      BY <3>3, <3>4 DEF Before
  <2>4. QED
    BY <1>5, <2>1, <2>2, <2>3 DEF Shape
<1>6. ASSUME NEW p \in Request, pc'[p] \in {"aUpsert", "pUpsert"}
      PROVE  Before(loc[p].prior, loc[p].date)'
  <2>1. CASE CallKept(p)
    <3> DEFINE S == loc[p].prior
               d == loc[p].date
    <3>1. (\A i \in S : i <= ids) /\ Before(S, d)
      BY <1>3, <1>6, <2>1 DEF Timeline, CallKept
    <3>2. loc'[p].prior = S /\ loc'[p].date = d
      BY <2>1 DEF CallKept
    <3> HIDE DEF S, d
    <3>3. \A j \in Key : Exists(j)' /\ row'[j].id \in S =>
            row'[j].date < d /\ \A q \in Request : ~MayStamp(q, j)'
      BY <3>1, Shifted
    <3>4. QED
      BY <3>2, <3>3 DEF Before
  <2>2. CASE CallSent(p)
    <3> DEFINE S == loc'[p].prior
    <3>1. /\ \A i \in S : i <= ids
          /\ \A j \in Key : Exists(j) /\ row[j].id \in S => \A q \in Request : ~MayStamp(q, j)
          /\ loc'[p].date = clock + 1
      BY <2>2 DEF CallSent
    <3>2. loc'[p].prior = S
      OBVIOUS
    <3> HIDE DEF S
    <3>3. \A j \in Key : Exists(j)' /\ row'[j].id \in S =>
            row'[j].date < clock + 1 /\ \A q \in Request : ~MayStamp(q, j)'
      BY <3>1, BeforeNow, Shifted
    <3>4. QED
      BY <3>1, <3>2, <3>3 DEF Before
  <2>3. QED
    BY <1>6, <2>1, <2>2 DEF Shape, CallOver, CallFound, CallCollided
<1>7. ASSUME NEW p \in Request, NEW k \in Key, pc'[p] = "aFind",
             k = <<loc'[p].to, loc'[p].key>>, Exists(k)'
      PROVE  row'[k].id > loc'[p].seen
  <2>1. loc[p].seen \in Nat /\ loc[p].seen <= ids
    BY <1>1, CallNumbers DEF Counted
  <2>2. CASE CallKept(p)
    <3>1. Exists(k) => row[k].id > loc[p].seen
      BY <1>7, <2>2 DEF CallKept, Timeline
    <3>2. RowKept(k) \/ RowInserted(k) \/ RowSaved(k)
      BY <1>7 DEF Shape
    <3>3. QED
      BY <1>1, <2>1, <2>2, <3>1, <3>2 DEF CallKept, RowKept, RowInserted, RowSaved
  <2>3. CASE CallCollided(p)
    BY <1>7, <2>3 DEF CallCollided, Collides
  <2>4. QED
    BY <1>7, <2>2, <2>3 DEF Shape, CallOver, CallSent, CallFound
<1>8. ASSUME NEW p \in Request, pc'[p] = "aSave"
      PROVE  /\ loc'[p].found > loc'[p].seen
             /\ Before(older[loc[p].found], loc[p].date)'
  <2>1. /\ loc[p].seen \in Nat /\ loc[p].seen <= ids
        /\ loc[p].found \in Nat /\ loc[p].found <= ids
    BY <1>1, CallNumbers DEF Counted
  <2>2. CASE CallKept(p)
    <3> DEFINE S == older[loc[p].found]
               d == loc[p].date
    <3>1. loc[p].found > loc[p].seen /\ Before(S, d)
      BY <1>8, <2>2 DEF Timeline, CallKept
    <3>2. loc[p].found \in 1 .. ids
      BY <1>1, <2>1, <3>1
    <3>3. (\A i \in S : i <= ids) /\ older'[loc'[p].found] = S /\ loc'[p].date = d
      BY <1>4, <2>2, <3>2 DEF CallKept
    <3> HIDE DEF S, d
    <3>4. \A j \in Key : Exists(j)' /\ row'[j].id \in S =>
            row'[j].date < d /\ \A q \in Request : ~MayStamp(q, j)'
      BY <3>1, <3>3, Shifted
    <3>5. Before(older[loc[p].found], loc[p].date)'
      BY <3>3, <3>4 DEF Before
    <3>6. QED
      BY <2>2, <3>1, <3>5 DEF CallKept
  <2>3. CASE CallFound(p)
    <3>1. PICK k \in Key : /\ k = <<loc[p].to, loc[p].key>> /\ Exists(k)
                           /\ loc'[p].found = row[k].id
      BY <2>3 DEF CallFound
    <3>2. row[k].id > loc[p].seen /\ row[k].id \in 1 .. ids
      BY <1>2, <2>3, <3>1 DEF CallFound, Timeline
    <3> DEFINE S == older[row[k].id]
    <3>3. Before(S, row[k].date)
      BY <3>1 DEF Timeline
    <3>4. Before(S, clock + 1)
      BY <3>3, BeforeNow DEF Before
    <3>5. (\A i \in S : i <= ids) /\ older'[loc'[p].found] = S /\ loc'[p].date = clock + 1
      BY <1>4, <2>3, <3>1, <3>2 DEF CallFound
    <3> HIDE DEF S
    <3>6. \A j \in Key : Exists(j)' /\ row'[j].id \in S =>
            row'[j].date < clock + 1 /\ \A q \in Request : ~MayStamp(q, j)'
      BY <3>4, <3>5, Shifted
    <3>7. Before(older[loc[p].found], loc[p].date)'
      BY <3>5, <3>6 DEF Before
    <3>8. QED
      BY <2>3, <3>1, <3>2, <3>7 DEF CallFound
  <2>4. QED
    BY <1>8, <2>2, <2>3 DEF Shape, CallOver, CallSent, CallCollided
<1>9. QED
  BY <1>1, <1>5, <1>6, <1>7, <1>8 DEF Timeline

\* The writes, and the moves of a request, have that shape.
RowShape ==
  /\ ids <= ids' /\ \A i \in 1 .. ids : older'[i] = older[i]
  /\ \A i \in 1 .. ids' : i > ids => \A j \in older'[i] : j <= ids
  /\ \A k \in Key : Exists(k)' => RowKept(k) \/ RowInserted(k) \/ RowSaved(k)
  /\ \A j, k \in Key : row'[j].id > ids /\ row'[k].id > ids => j = k

LEMMA KeptShape ==
  ASSUME Typed, Typed', Timeline, UNCHANGED <<ids, older>>,
         \A k \in Key : Exists(k)' => RowKept(k) \/ RowSaved(k)
  PROVE  RowShape
<1>1. ids \in Nat /\ \A k \in Key : row'[k].id \in Nat
  BY Counters, NumbersNext DEF Typed
<1>2. \A k \in Key : row'[k].id <= ids
  BY <1>1, NumbersNext DEF Exists, RowKept, RowSaved, Timeline, Counted
<1>3. QED
  BY <1>1, <1>2 DEF RowShape

LEMMA SameRows ==
  ASSUME Typed, Typed', Timeline, UNCHANGED <<row, ids, older>>
  PROVE  RowShape
BY KeptShape DEF RowKept, Exists

LEMMA InsertShape ==
  ASSUME Typed, Timeline, NEW p \in Request, pc[p] \in {"aUpsert", "pUpsert"},
         NEW k \in Key, NEW g, Insert(k, loc[p].date, g, loc[p].prior),
         CallOver(p) \/ CallSent(p)
  PROVE  RowShape
<1>1. /\ TypeOK /\ ids \in Nat /\ ids + 1 \in 1 .. MaxIds /\ ids' = ids + 1
      /\ \A i \in loc[p].prior : i <= ids
      /\ \A j \in Key : row[j].id <= ids /\ row[j].id \in Nat
  BY Counters, Bounds, RowNumbers DEF Typed, Insert, Timeline, Counted
<1>2. older' = [older EXCEPT ![ids + 1] = loc[p].prior]
  BY DEF Insert
<1>3. older'[ids + 1] = loc[p].prior /\ \A i \in 1 .. ids : older'[i] = older[i]
  BY <1>1, <1>2 DEF TypeOK
<1>4. \A j \in Key : j # k => row'[j] = row[j]
  BY <1>1 DEF Insert, TypeOK
<1>5. row'[k].id = ids + 1 /\ row'[k].date = loc[p].date
  BY <1>1 DEF Insert, TypeOK
<1>6. ASSUME NEW j \in Key, Exists(j)'
      PROVE  RowKept(j) \/ RowInserted(j)
  BY <1>1, <1>3, <1>4, <1>5, <1>6 DEF RowKept, RowInserted, Exists
<1>7. \A i \in 1 .. ids' : i > ids => i = ids + 1
  BY <1>1
<1>8. \A j \in Key : row'[j].id > ids => j = k
  BY <1>1, <1>4
<1>9. QED
  BY <1>1, <1>3, <1>6, <1>7, <1>8 DEF RowShape

LEMMA FinishShape ==
  ASSUME Typed, NEW p \in Request, Finish(p)
  PROVE  CallOver(p) /\ \A q \in Request : q # p => CallKept(q)
<1>1. pc \in [Request -> Steps] /\ loc \in [Request -> Locals]
  BY DEF Typed, TypeOK
<1>2. QED
  BY <1>1 DEF Finish, Goto, CallKept, CallOver

\* Nobody may stamp what is settled, now or after it has been removed.
LEMMA SettledMeans ==
  ASSUME Typed, Timeline, NEW b \in Branch, NEW i \in Settled(b)
  PROVE  /\ i <= ids
         /\ \A j \in Key : Exists(j) /\ row[j].id = i => \A r \in Request : ~MayStamp(r, j)
<1>1. PICK k \in OnBranch(b) : row[k].id = i /\ \A p \in Request : ~MayStamp(p, k)
  BY DEF Settled
<1>2. k \in Key /\ Exists(k)
  BY <1>1 DEF OnBranch
<1>3. QED
  BY <1>1, <1>2 DEF Timeline, Counted, Named

LEMMA SendShape ==
  ASSUME Typed, Timeline, NEW p \in Request, NEW l \in Locals, SendUpsert(p, l),
         l.found \in {0, loc[p].found},
         \A i \in l.prior :
           /\ i <= ids
           /\ \A j \in Key : Exists(j) /\ row[j].id = i => \A r \in Request : ~MayStamp(r, j)
  PROVE  /\ clock' = clock + 1 /\ clock \in Nat
         /\ CallSent(p) /\ \A q \in Request : q # p => CallKept(q)
<1> DEFINE m == [l EXCEPT !.date = clock + 1, !.seen = ids]
<1>1. /\ m.date = clock + 1 /\ m.seen = ids /\ m.found = l.found /\ m.prior = l.prior
  BY DEF Locals
<1>2. Goto(p, "pUpsert") /\ loc' = [loc EXCEPT ![p] = m] /\ clock' = clock + 1
  BY DEF SendUpsert
<1> HIDE DEF m
<1>3. pc \in [Request -> Steps] /\ loc \in [Request -> Locals] /\ clock \in Nat
  BY Counters DEF Typed, TypeOK
<1>4. /\ pc'[p] = "pUpsert" /\ loc'[p] = m
      /\ \A q \in Request : q # p => CallKept(q)
  BY <1>2, <1>3 DEF Goto, CallKept
<1>5. CallSent(p)
  BY <1>1, <1>2, <1>4 DEF CallSent
<1>6. QED
  BY <1>2, <1>3, <1>4, <1>5

LEMMA AcceptLastShape ==
  ASSUME Typed, Typed', Timeline, NEW p \in Request, AcceptLast(p)
  PROVE  Shape
<1>1. PICK s \in Snap : loc' = [loc EXCEPT ![p] =
                 [Blank EXCEPT !.to = OwnBranch[s], !.key = s,
                               !.regions = Inherited(OwnBranch[s]),
                               !.date = clock + 1, !.seen = ids,
                               !.prior = Settled(OwnBranch[s])]]
  BY DEF AcceptLast
<1>2. pc \in [Request -> Steps] /\ loc \in [Request -> Locals] /\ clock \in Nat
  BY Counters DEF Typed, TypeOK
<1>3. /\ loc'[p].date = clock + 1 /\ loc'[p].seen = ids /\ loc'[p].found = 0
      /\ loc'[p].prior = Settled(OwnBranch[s])
  BY <1>1, <1>2 DEF Blank
<1>4. /\ pc'[p] = "aUpsert" /\ clock' = clock + 1
      /\ \A q \in Request : q # p => CallKept(q)
  BY <1>1, <1>2 DEF AcceptLast, Goto, CallKept
<1>5. OwnBranch[s] \in Branch
  BY BaselinesAssumption
<1>6. CallSent(p)
  BY <1>3, <1>4, <1>5, SettledMeans DEF CallSent
<1>7. RowShape
  BY SameRows DEF AcceptLast
<1>8. QED
  BY <1>2, <1>4, <1>6, <1>7 DEF Shape, RowShape

LEMMA AcceptUpsertShape ==
  ASSUME Typed, Typed', Timeline, NEW p \in Request, AcceptUpsert(p)
  PROVE  Shape
<1> DEFINE k == <<loc[p].to, loc[p].key>>
<1>1. /\ pc[p] = "aUpsert" /\ clock' = clock /\ clock \in Nat /\ k \in Key
      /\ pc \in [Request -> Steps] /\ loc \in [Request -> Locals]
  BY Counters DEF AcceptUpsert, Typed, TypeOK, Prepared, AcceptSteps, Key
<1>2. CASE Insert(k, loc[p].date, loc[p].regions, loc[p].prior) /\ Finish(p)
  <2>1. RowShape
    <3> HIDE DEF k
    <3>1. CallOver(p)
      BY <1>2, FinishShape
    <3>2. QED
      BY <1>1, <1>2, <3>1, InsertShape
  <2>2. QED
    BY <1>1, <1>2, <2>1, FinishShape DEF Shape, RowShape
<1>3. CASE Keep(k, loc[p].date) /\ Finish(p)
  BY <1>1, <1>3, SameRows, FinishShape DEF Keep, Shape, RowShape
<1>4. CASE Collides(p, k) /\ Goto(p, "aFind") /\ UNCHANGED <<row, ids, older, want, loc>>
  <2>1. CallCollided(p) /\ \A q \in Request : q # p => CallKept(q)
    BY <1>1, <1>4 DEF Goto, CallKept, CallCollided
  <2>2. QED
    BY <1>1, <1>4, <2>1, SameRows DEF Shape, RowShape
<1>5. QED
  BY <1>2, <1>3, <1>4 DEF AcceptUpsert

LEMMA AcceptFindShape ==
  ASSUME Typed, Typed', Timeline, NEW p \in Request, AcceptFind(p)
  PROVE  Shape
<1> DEFINE k == <<loc[p].to, loc[p].key>>
<1>1. /\ pc[p] = "aFind" /\ clock \in Nat /\ k \in Key
      /\ pc \in [Request -> Steps] /\ loc \in [Request -> Locals]
  BY Counters DEF AcceptFind, Typed, TypeOK, Prepared, AcceptSteps, Key
<1>2. RowShape
  BY SameRows DEF AcceptFind
<1>3. CASE /\ Exists(k) /\ clock < MaxClock /\ clock' = clock + 1
           /\ loc' = [loc EXCEPT ![p].date = clock + 1, ![p].found = row[k].id]
           /\ Goto(p, "aSave")
  <2>1. /\ pc'[p] = "aSave" /\ loc'[p].date = clock + 1 /\ loc'[p].found = row[k].id
        /\ loc'[p].to = loc[p].to /\ loc'[p].key = loc[p].key
        /\ loc'[p].seen = loc[p].seen /\ loc'[p].prior = loc[p].prior
    BY <1>1, <1>3 DEF Goto, Locals
  <2>2. CallFound(p)
    <3>1. \E x \in Key : x = k /\ Exists(x) /\ loc'[p].found = row[x].id
      BY <1>1, <1>3, <2>1
    <3>2. QED
      BY <1>1, <1>3, <2>1, <3>1 DEF CallFound
  <2>3. \A q \in Request : q # p => CallKept(q)
    BY <1>1, <1>3 DEF Goto, CallKept
  <2>4. QED
    BY <1>1, <1>2, <1>3, <2>2, <2>3 DEF Shape, RowShape
<1>4. CASE Finish(p) /\ UNCHANGED clock
  BY <1>1, <1>2, <1>4, FinishShape DEF Shape, RowShape
<1>5. QED
  BY <1>3, <1>4 DEF AcceptFind

LEMMA AcceptSaveShape ==
  ASSUME Typed, Typed', Timeline, NEW p \in Request, AcceptSave(p)
  PROVE  Shape
<1> DEFINE k == <<loc[p].to, loc[p].key>>
<1>1. /\ pc[p] = "aSave" /\ clock' = clock /\ clock \in Nat /\ k \in Key
      /\ row \in [Key -> Row \cup {NoRow}]
      /\ row' = IF row[k].id = loc[p].found THEN [row EXCEPT ![k].date = loc[p].date] ELSE row
  BY Counters DEF AcceptSave, SameRow, Typed, TypeOK, Prepared, AcceptSteps, Key
<1>2. ASSUME NEW j \in Key, Exists(j)'
      PROVE  RowKept(j) \/ RowSaved(j)
  <2>1. CASE j = k /\ row[k].id = loc[p].found
    <3>1. row'[j].id = row[j].id /\ row'[j].date = loc[p].date
      BY <1>1, <2>1 DEF Row, NoRow
    <3>2. CallOver(p)
      BY FinishShape DEF AcceptSave
    <3>3. QED
      BY <1>1, <1>2, <2>1, <3>1, <3>2 DEF RowSaved, Exists
  <2>2. CASE ~ (j = k /\ row[k].id = loc[p].found)
    <3>1. row'[j] = row[j]
      BY <1>1, <2>2
    <3>2. QED
      BY <1>2, <3>1 DEF RowKept, Exists
  <2>3. QED
    BY <2>1, <2>2
<1>3. RowShape
  BY <1>2, KeptShape DEF AcceptSave
<1>4. QED
  BY <1>1, <1>3, FinishShape DEF AcceptSave, Shape, RowShape

LEMMA PromoteFindShape ==
  ASSUME Typed, Typed', Timeline, NEW p \in Request, PromoteFind(p)
  PROVE  Shape
<1> DEFINE Fresh(from, to) ==
             \A k \in InForce(from) :
               /\ ~Exists(<<to, k[2]>>)
               /\ \A j \in OnBranch(from) : row[j].id <= row[k].id
           L(from, to) ==
             [Blank EXCEPT !.to = to, !.from = from, !.todo = Sources(from),
                           !.prior = Settled(to), !.fresh = Fresh(from, to)]
<1>1. PICK from \in Branch, to \in Branch : SendUpsert(p, L(from, to))
  BY DEF PromoteFind
<1> DEFINE l == L(from, to)
<1>2. l \in Locals
  <2>1. Sources(from) \in SUBSET Source /\ Settled(to) \subseteq 1 .. MaxIds
    BY SourcesType, SettledType DEF Typed
  <2> DEFINE f == Fresh(from, to)
  <2>2. f \in BOOLEAN
    OBVIOUS
  <2> HIDE DEF Fresh
  <2>3. QED
    BY <2>1, <2>2, SetPromoted
<1>3. l.found = 0 /\ l.prior = Settled(to)
  BY DEF Blank
<1> HIDE DEF l, L
<1>4. SendUpsert(p, l)
  BY <1>1 DEF l
<1>5. /\ clock' = clock + 1 /\ clock \in Nat
      /\ CallSent(p) /\ \A q \in Request : q # p => CallKept(q)
  BY <1>2, <1>3, <1>4, SettledMeans, SendShape
<1>6. RowShape
  BY SameRows DEF PromoteFind
<1>7. QED
  BY <1>5, <1>6 DEF Shape, RowShape

LEMMA PromoteUpsertShape ==
  ASSUME Typed, Typed', Timeline, NEW p \in Request, PromoteUpsert(p)
  PROVE  Shape
<1> DEFINE s == NextSource(loc[p].todo)
           k == <<loc[p].to, s.snap>>
           rest == loc[p].todo \ {s}
           new == Insert(k, loc[p].date, s.regions, loc[p].prior)
           old == Keep(k, loc[p].date)
           send == rest # {} /\ SendUpsert(p, [loc[p] EXCEPT !.todo = rest])
           last == rest = {} /\ Goto(p, "pDone") /\ UNCHANGED <<clock, loc>>
           fail == Finish(p) /\ UNCHANGED <<row, ids, clock, older, want>>
<1>1. /\ pc[p] = "pUpsert" /\ clock \in Nat /\ k \in Key
      /\ pc \in [Request -> Steps] /\ loc \in [Request -> Locals]
      /\ loc[p].todo \in SUBSET Source
  BY Counters, NextSourceType DEF PromoteUpsert, Typed, TypeOK
<1>2. ((new \/ old) /\ (send \/ last)) \/ fail
  BY DEF PromoteUpsert
<1>3. CASE fail
  BY <1>1, <1>3, SameRows, FinishShape DEF Shape, RowShape
<1>4. send \/ last => /\ clock <= clock'
                      /\ CallOver(p) \/ CallSent(p)
                      /\ \A q \in Request : q # p => CallKept(q)
  <2>1. CASE send
    <3> DEFINE l == [loc[p] EXCEPT !.todo = rest]
    <3>1. l \in Locals
      BY <1>1 DEF Locals
    <3>2. l.found = loc[p].found /\ l.prior = loc[p].prior
      BY <1>1 DEF Locals
    <3>3. SendUpsert(p, l)
      BY <2>1
    <3> HIDE DEF l
    <3>4. \A i \in loc[p].prior :
            /\ i <= ids
            /\ \A j \in Key : Exists(j) /\ row[j].id = i => \A r \in Request : ~MayStamp(r, j)
      BY <1>1 DEF Timeline, Counted, Before
    <3>5. QED
      BY <1>1, <3>1, <3>2, <3>3, <3>4, SendShape
  <2>2. CASE last
    BY <1>1, <2>2 DEF Goto, CallKept, CallOver
  <2>3. QED
    BY <2>1, <2>2
<1>5. (new \/ old) /\ (CallOver(p) \/ CallSent(p)) => RowShape
  <2>1. CASE new /\ (CallOver(p) \/ CallSent(p))
    <3> HIDE DEF k, s
    <3>1. Insert(k, loc[p].date, s.regions, loc[p].prior)
      BY <2>1
    <3>2. QED
      BY <1>1, <2>1, <3>1, InsertShape
  <2>2. CASE old
    BY <2>2, SameRows DEF Keep
  <2>3. QED
    BY <2>1, <2>2
<1>6. CASE (new \/ old) /\ (send \/ last)
  <2> HIDE DEF new, old, send, last
  <2>1. QED
    BY <1>4, <1>5, <1>6 DEF Shape, RowShape
<1>7. QED
  <2> HIDE DEF new, old, send, last, fail
  <2>1. QED
    BY <1>2, <1>3, <1>6

LEMMA EndShape ==
  ASSUME Typed, Typed', Timeline, NEW p \in Request, PromoteEnd(p) \/ Die(p)
  PROVE  Shape
<1>1. RowShape /\ clock \in Nat /\ clock' = clock
  BY SameRows, Counters DEF PromoteEnd, Die, Typed
<1>2. QED
  BY <1>1, FinishShape DEF PromoteEnd, Die, Shape, RowShape

\* Removals and edits move no date.
LEMMA UserShape ==
  ASSUME Typed, Typed', Timeline, NEW k \in Key,
         RemoveRow(k) \/ \E g \in Regions : EditRegions(k, g)
  PROVE  Shape
<1>1. /\ row \in [Key -> Row \cup {NoRow}] /\ clock \in Nat
      /\ UNCHANGED <<ids, clock, older, pc, loc>>
  BY Counters DEF Typed, TypeOK, RemoveRow, EditRegions
<1>2. ASSUME NEW j \in Key, Exists(j)'
      PROVE  RowKept(j)
  <2>1. CASE RemoveRow(k)
    <3>1. j # k /\ row'[j] = row[j]
      BY <1>1, <1>2, <2>1 DEF RemoveRow, Exists, NoRow
    <3>2. QED
      BY <1>2, <3>1 DEF RowKept, Exists
  <2>2. CASE \E g \in Regions : EditRegions(k, g)
    <3>1. row'[j].id = row[j].id /\ row'[j].date = row[j].date
      BY <1>1, <2>2 DEF EditRegions, Row, NoRow
    <3>2. QED
      BY <1>2, <3>1 DEF RowKept, Exists
  <2>3. QED
    BY <2>1, <2>2
<1>3. RowShape
  BY <1>1, <1>2, KeptShape
<1>4. QED
  BY <1>1, <1>3 DEF Shape, RowShape, CallKept

LEMMA NextShape ==
  ASSUME Typed, Typed', Timeline, [Next]_vars
  PROVE  Shape
<1>1. ASSUME NEW p \in Request, Step(p)
      PROVE  Shape
  BY <1>1, AcceptLastShape, AcceptUpsertShape, AcceptFindShape, AcceptSaveShape,
     PromoteFindShape, PromoteUpsertShape, EndShape DEF Step
<1>2. CASE UNCHANGED vars
  BY <1>2, SameRows, Counters DEF vars, Typed, Shape, RowShape, CallKept
<1>3. QED
  BY <1>1, <1>2, UserShape DEF Next

LEMMA TimelineInit == Init => Timeline
BY Bounds DEF Init, Timeline, Counted, Named, Exists, NoRow, Blank

LEMMA AlwaysTimeline == Spec => [](Typed /\ Timeline)
<1>1. Init => Typed /\ Timeline
  BY TypedInit, TimelineInit
<1>2. Typed /\ Timeline /\ [Next]_vars => Typed' /\ Timeline'
  BY TypedStep, NextShape, TimelineStep
<1>3. QED
  BY <1>1, <1>2, PTL DEF Spec

\* What is accepted later is in force: a row whose acceptance had ended before
\* another one of its branch was accepted stays behind it, through collisions on
\* the unique index, removals and promotions, whatever the number of requests
\* and in whatever order the database applies their calls.
THEOREM LaterBaselinesWin == Spec => []LaterWins
<1>1. Timeline => LaterWins
  BY DEF Timeline, LaterWins, Before
<1>2. QED
  BY <1>1, AlwaysTimeline, PTL

-----------------------------------------------------------------------------
(* Dates are distinct, so that one row is in force *)

Dated ==
  /\ \A j, k \in Key : Exists(j) /\ Exists(k) /\ row[j].date = row[k].date => j = k
  /\ \A p \in Request, k \in Key : Sending(p) /\ Exists(k) => loc[p].date # row[k].date
  /\ \A p, q \in Request : Sending(p) /\ Sending(q) /\ loc[p].date = loc[q].date => p = q

\* A row's date is its own, or that of the request that moves.
LEMMA RowDate ==
  ASSUME Typed, Timeline, Shape, NEW k \in Key, Exists(k)'
  PROVE  \/ RowKept(k)
         \/ \E p \in Request :
              /\ Sending(p) /\ ~CallKept(p) /\ row'[k].date = loc[p].date
              /\ \/ RowInserted(k) /\ pc[p] # "aSave"
                 \/ pc[p] = "aSave" /\ k = <<loc[p].to, loc[p].key>>
<1>1. /\ clock \in Nat
      /\ \A p \in Request : loc[p].date \in Nat /\ loc[p].date <= clock
  BY Counters, CallNumbers DEF Typed, Timeline, Counted
<1>2. CASE RowInserted(k)
  <2>1. PICK p \in Request : /\ pc[p] \in {"aUpsert", "pUpsert"}
                             /\ row'[k].date = loc[p].date
                             /\ CallOver(p) \/ CallSent(p)
    BY <1>2 DEF RowInserted
  <2>2. ~CallKept(p)
    BY <1>1, <2>1 DEF CallKept, CallOver, CallSent
  <2>3. QED
    BY <1>2, <2>1, <2>2 DEF Sending
<1>3. CASE RowSaved(k)
  <2>1. PICK p \in Request : /\ pc[p] = "aSave" /\ k = <<loc[p].to, loc[p].key>>
                             /\ row'[k].date = loc[p].date /\ CallOver(p)
    BY <1>3 DEF RowSaved
  <2>2. ~CallKept(p)
    BY <2>1 DEF CallKept, CallOver
  <2>3. QED
    BY <2>1, <2>2 DEF Sending
<1>4. QED
  BY <1>2, <1>3 DEF Shape

\* A call's date is its own, or has just been taken.
LEMMA CallDate ==
  ASSUME Typed, Shape, NEW p \in Request, Sending(p)'
  PROVE  \/ CallKept(p) /\ Sending(p)
         \/ ~CallKept(p) /\ loc'[p].date = clock + 1
  BY DEF Shape, Sending, CallKept, CallOver, CallSent, CallFound, CallCollided

LEMMA DatedStep ==
  ASSUME Typed, Typed', Timeline, Dated, Shape
  PROVE  Dated'
<1>1. /\ clock \in Nat
      /\ \A p \in Request : loc[p].date \in Nat /\ loc[p].date <= clock
      /\ \A k \in Key : row[k].date \in Nat /\ row[k].date <= clock
  BY Counters, CallNumbers, RowNumbers DEF Typed, Timeline, Counted
<1>2. \A p, q \in Request : ~CallKept(p) /\ ~CallKept(q) => p = q
  BY DEF Shape
<1>3. ASSUME NEW j \in Key, NEW k \in Key, Exists(j)', Exists(k)',
             row'[j].date = row'[k].date, RowKept(j)
      PROVE  j = k
  <2>1. CASE RowKept(k)
    BY <1>3, <2>1 DEF RowKept, Dated
  <2>2. CASE \E p \in Request : Sending(p) /\ row'[k].date = loc[p].date
    BY <1>3, <2>2 DEF RowKept, Dated
  <2>3. QED
    BY <1>3, <2>1, <2>2, RowDate
<1>4. ASSUME NEW j \in Key, NEW k \in Key, Exists(j)', Exists(k)',
             row'[j].date = row'[k].date, ~RowKept(j), ~RowKept(k)
      PROVE  j = k
  <2>1. PICK p \in Request :
              /\ Sending(p) /\ ~CallKept(p)
              /\ \/ RowInserted(j) /\ pc[p] # "aSave"
                 \/ pc[p] = "aSave" /\ j = <<loc[p].to, loc[p].key>>
    BY <1>4, RowDate
  <2>2. PICK q \in Request :
              /\ Sending(q) /\ ~CallKept(q)
              /\ \/ RowInserted(k) /\ pc[q] # "aSave"
                 \/ pc[q] = "aSave" /\ k = <<loc[q].to, loc[q].key>>
    BY <1>4, RowDate
  <2>3. p = q
    BY <1>2, <2>1, <2>2
  <2>4. CASE pc[p] = "aSave"
    BY <2>1, <2>2, <2>3, <2>4
  <2>5. CASE pc[p] # "aSave"
    <3>1. RowInserted(j) /\ RowInserted(k)
      BY <2>1, <2>2, <2>3, <2>5
    <3>2. ids \in Nat
      BY Counters DEF Typed
    <3>3. row'[j].id > ids /\ row'[k].id > ids
      BY <3>1, <3>2 DEF RowInserted
    <3>4. QED
      BY <3>3 DEF Shape
  <2>6. QED
    BY <2>4, <2>5
<1>5. ASSUME NEW p \in Request, NEW k \in Key, Sending(p)', Exists(k)'
      PROVE  loc'[p].date # row'[k].date
  <2>1. row'[k].date <= clock
    BY <1>1, <1>5, RowDate DEF RowKept
  <2>2. CASE ~CallKept(p) /\ loc'[p].date = clock + 1
    BY <1>1, <2>1, <2>2
  <2>3. CASE CallKept(p) /\ Sending(p)
    <3>1. CASE RowKept(k)
      BY <2>3, <3>1 DEF CallKept, RowKept, Dated
    <3>2. CASE ~RowKept(k)
      <4>1. PICK q \in Request : Sending(q) /\ ~CallKept(q) /\ row'[k].date = loc[q].date
        BY <1>5, <3>2, RowDate
      <4>2. QED
        BY <2>3, <4>1 DEF CallKept, Dated
    <3>3. QED
      BY <3>1, <3>2
  <2>4. QED
    BY <1>5, <2>2, <2>3, CallDate
<1>6. ASSUME NEW p \in Request, NEW q \in Request, Sending(p)', Sending(q)',
             loc'[p].date = loc'[q].date
      PROVE  p = q
  <2>1. /\ (CallKept(p) /\ Sending(p)) \/ (~CallKept(p) /\ loc'[p].date = clock + 1)
        /\ (CallKept(q) /\ Sending(q)) \/ (~CallKept(q) /\ loc'[q].date = clock + 1)
    BY <1>6, CallDate
  <2>2. QED
    BY <1>1, <1>2, <1>6, <2>1 DEF CallKept, Dated
<1>7. \A j, k \in Key : Exists(j)' /\ Exists(k)' /\ row'[j].date = row'[k].date => j = k
  BY <1>3, <1>4
<1>8. QED
  BY <1>5, <1>6, <1>7 DEF Dated

LEMMA DatedInit == Init => Dated
BY DEF Init, Dated, Sending, Exists, NoRow

Ordered == Typed /\ Timeline /\ Dated

LEMMA OrderedStep ==
  ASSUME Ordered, [Next]_vars
  PROVE  Ordered'
BY TypedStep, NextShape, TimelineStep, DatedStep DEF Ordered

LEMMA AlwaysOrdered == Spec => []Ordered
<1>1. Init => Ordered
  BY TypedInit, TimelineInit, DatedInit DEF Ordered
<1>2. Ordered /\ [Next]_vars => Ordered'
  BY OrderedStep
<1>3. QED
  BY <1>1, <1>2, PTL DEF Spec

LEMMA OneInForce ==
  ASSUME Ordered, NEW b, NEW j \in InForce(b), NEW k \in InForce(b)
  PROVE  j = k
<1>1. /\ j \in Key /\ k \in Key /\ Exists(j) /\ Exists(k)
      /\ row[j].date <= row[k].date /\ row[k].date <= row[j].date
  BY DEF InForce, OnBranch
<1>2. row[j].date \in Nat /\ row[k].date \in Nat
  BY <1>1, RowNumbers DEF Ordered, Typed
<1>3. QED
  BY <1>1, <1>2 DEF Ordered, Dated

-----------------------------------------------------------------------------
(* RegionsCarried.  An acceptance copies the regions in force when it begins; *)
(* what must not happen is that another row comes into force with regions of  *)
(* its own.  Rows can come into force in three ways: they are inserted, they  *)
(* get a new date after a collision, or the row in force gets an older date   *)
(* than they have.                                                            *)

\* The row in force, which is a baseline of no other branch, has the regions.
InForceHas(b, g) == \E k \in InForce(b) : Copies(k[2]) = {k} /\ row[k].regions = g

\* The row that an acceptance p inserts, or stamps, will have them.
InsertsWith(p, b, g) == pc[p] = "aUpsert" /\ loc[p].to = b => loc[p].regions = g
StampsWith(p, b, g) == \A k \in Key : MayStamp(p, k) /\ k[1] = b => row[k].regions = g

\* The rows that come into force if p gives the row in force an older date have them.
LeavesWith(p, b, g) ==
  pc[p] = "aSave" /\ loc[p].to = b =>
    \A k \in OnBranch(b) : row[k].date > loc[p].date => row[k].regions = g

AsksFor(p, b, g) == InsertsWith(p, b, g) /\ StampsWith(p, b, g) /\ LeavesWith(p, b, g)

Wanted ==
  \A b \in Branch : want[b] # None =>
    /\ InForceHas(b, want[b])
    /\ \A p \in Request : AsksFor(p, b, want[b])

\* A request that is no acceptance asks for nothing.
LEMMA NotAccepting ==
  ASSUME NEW p \in Request, pc'[p] \notin AcceptSteps, NEW b, NEW g
  PROVE  AsksFor(p, b, g)'
BY DEF AsksFor, InsertsWith, StampsWith, LeavesWith, MayStamp, AcceptSteps

\* What Expect leaves of an expectation.
LEMMA Expected ==
  ASSUME NEW w, Expect(w), NEW b \in Branch, want'[b] # None
  PROVE  /\ want'[b] = w[b]
         /\ \E k \in Key : /\ k \in InForce(b)' /\ (Copies(k[2]) = {k})'
                           /\ k[1] = b /\ Exists(k)'
<1>1. want'[b] = IF \E k \in InForce(b)' : Copies(k[2])' = {k} THEN w[b] ELSE None
  BY DEF Expect
<1>2. PICK k \in InForce(b)' : Copies(k[2])' = {k}
  BY <1>1
<1>3. k \in Key /\ k[1] = b /\ Exists(k)'
  BY <1>2 DEF InForce, OnBranch
<1>4. QED
  BY <1>1, <1>2, <1>3

\* What Wanted gives for one branch: every row in force has the regions.
LEMMA InForceRegions ==
  ASSUME Ordered, Wanted, NEW b \in Branch, want[b] # None, NEW k \in InForce(b)
  PROVE  row[k].regions = want[b]
<1>1. PICK j \in InForce(b) : row[j].regions = want[b]
  BY DEF Wanted, InForceHas
<1>2. j = k
  BY <1>1, OneInForce
<1>3. QED
  BY <1>1, <1>2

\* Steps that leave the rows and the expectations alone, but move one request.
LEMMA RowsSame ==
  ASSUME row' = row
  PROVE  /\ \A b, g : InForceHas(b, g)' <=> InForceHas(b, g)
         /\ \A b : OnBranch(b)' = OnBranch(b) /\ InForce(b)' = InForce(b)
<1>1. \A k : Exists(k)' <=> Exists(k)
  BY DEF Exists
<1>2. \A b : OnBranch(b)' = OnBranch(b)
  BY <1>1 DEF OnBranch
<1>3. \A b : InForce(b)' = InForce(b)
  BY <1>2 DEF InForce
<1>4. \A s : Copies(s)' = Copies(s)
  BY <1>1 DEF Copies
<1>5. QED
  BY <1>2, <1>3, <1>4 DEF InForceHas

\* To show Wanted after a step.
LEMMA WantedNext ==
  ASSUME \A b \in Branch : \A g : want'[b] = g /\ g # None =>
           InForceHas(b, g)' /\ \A p \in Request : AsksFor(p, b, g)'
  PROVE  Wanted'
BY DEF Wanted

\* The rows of a branch are unchanged or have the regions.
RowsHave(b, g) ==
  \A k \in Key : k[1] = b /\ Exists(k)' => row'[k] = row[k] \/ row'[k].regions = g

\* A request that stands still goes on asking for the same.
LEMMA AsksStill ==
  ASSUME Typed, Typed', NEW q \in Request, CallKept(q), NEW b, NEW g,
         RowsHave(b, g), AsksFor(q, b, g)
  PROVE  AsksFor(q, b, g)'
<1>1. InsertsWith(q, b, g)'
  BY DEF AsksFor, InsertsWith, CallKept
<1>2. loc'[q].seen \in Nat /\ \A k \in Key : row'[k].id \in Nat
  BY NumbersNext DEF Typed
<1>3. ASSUME NEW k \in Key, MayStamp(q, k)', k[1] = b
      PROVE  row'[k].regions = g
  <2>1. Exists(k)'
    BY <1>2, <1>3 DEF MayStamp, Exists
  <2>2. row'[k] = row[k] => row[k].regions = g
    BY <1>3 DEF MayStamp, CallKept, AsksFor, StampsWith
  <2>3. QED
    BY <1>3, <2>1, <2>2 DEF RowsHave
<1>4. ASSUME pc'[q] = "aSave", loc'[q].to = b, NEW k \in OnBranch(b)',
             row'[k].date > loc'[q].date
      PROVE  row'[k].regions = g
  <2>1. k \in Key /\ k[1] = b /\ Exists(k)'
    BY <1>4 DEF OnBranch
  <2>2. row'[k] = row[k] => k \in OnBranch(b)
    BY <2>1 DEF OnBranch, Exists
  <2>3. row'[k] = row[k] => row[k].regions = g
    BY <1>4, <2>2 DEF CallKept, AsksFor, LeavesWith
  <2>4. QED
    BY <2>1, <2>3 DEF RowsHave
<1>5. QED
  BY <1>1, <1>3, <1>4 DEF AsksFor, StampsWith, LeavesWith

\* The row in force has the regions if it was in force, or has been given them.
LEMMA StillInForce ==
  ASSUME Ordered, Wanted, NEW b \in Branch, want[b] # None, RowsHave(b, want[b]),
         NEW x \in Key, x \in InForce(b)', (Copies(x[2]) = {x})', x[1] = b, Exists(x)',
         x \in InForce(b) \/ row'[x].regions = want[b], NEW g, g = want[b]
  PROVE  InForceHas(b, g)'
<1>1. row'[x].regions = g
  BY InForceRegions DEF RowsHave
<1>2. QED
  BY <1>1 DEF InForceHas

\* A step that changes no row.
LEMMA RowsSameWanted ==
  ASSUME Ordered, Typed', Wanted, NEW p \in Request, UNCHANGED <<row, want>>,
         \A q \in Request : q # p => CallKept(q),
         \A b \in Branch : want[b] # None => \A g : g = want[b] => AsksFor(p, b, g)'
  PROVE  Wanted'
<1>1. SUFFICES ASSUME NEW b \in Branch, NEW g, want'[b] = g, g # None
               PROVE  InForceHas(b, g)' /\ \A q \in Request : AsksFor(q, b, g)'
  BY WantedNext
<1>2. want[b] = g /\ InForceHas(b, g) /\ \A q \in Request : AsksFor(q, b, g)
  BY <1>1 DEF Wanted
<1>3. InForceHas(b, g)' /\ RowsHave(b, g)
  BY <1>2, RowsSame DEF RowsHave
<1>4. ASSUME NEW q \in Request
      PROVE  AsksFor(q, b, g)'
  BY <1>1, <1>2, <1>3, AsksStill DEF Ordered
<1>5. QED
  BY <1>3, <1>4

\* A step that ends the work of a request on the rows.
LEMMA OverWanted ==
  ASSUME Ordered, Typed', Wanted, NEW p \in Request, UNCHANGED <<row, want>>,
         \A q \in Request : q # p => CallKept(q), pc'[p] \notin AcceptSteps
  PROVE  Wanted'
BY RowsSameWanted, NotAccepting

LEMMA FinishWanted ==
  ASSUME Ordered, Typed', Wanted, NEW p \in Request, UNCHANGED <<row, want>>, Finish(p)
  PROVE  Wanted'
<1>1. pc'[p] = "idle" /\ \A q \in Request : q # p => CallKept(q)
  BY FinishType DEF Ordered, CallKept
<1>2. QED
  BY <1>1, OverWanted DEF AcceptSteps

\* A row that was there before an insertion and is in force after it was in
\* force before it.
LEMMA InsertWanted ==
  ASSUME Ordered, Typed', Wanted, NEW p \in Request,
         NEW k \in Key, ~Exists(k), NEW d, NEW h, NEW S, Insert(k, d, h, S),
         NEW w, Expect(w),
         \A b \in Branch : w[b] # None => w[b] = want[b] /\ (b = k[1] => h = want[b]),
         \A q \in Request : q # p => CallKept(q), pc'[p] \notin AcceptSteps
  PROVE  Wanted'
<1>1. SUFFICES ASSUME NEW b \in Branch, NEW g, want'[b] = g, g # None
               PROVE  InForceHas(b, g)' /\ \A q \in Request : AsksFor(q, b, g)'
  BY WantedNext
<1>2. PICK x \in Key : /\ x \in InForce(b)' /\ (Copies(x[2]) = {x})'
                       /\ x[1] = b /\ Exists(x)'
  BY <1>1, Expected
<1>3. /\ want[b] = g /\ (b = k[1] => h = g)
      /\ \A q \in Request : AsksFor(q, b, g)
  BY <1>1, Expected DEF Wanted
<1>4. /\ \A j \in Key : j # k => row'[j] = row[j]
      /\ row'[k].regions = h
  BY DEF Insert, Ordered, Typed, TypeOK
<1>5. RowsHave(b, g)
  BY <1>3, <1>4 DEF RowsHave
<1>6. x # k => x \in InForce(b)
  <2>1. SUFFICES ASSUME x # k PROVE x \in InForce(b)
    OBVIOUS
  <2>2. x \in OnBranch(b) /\ row'[x] = row[x]
    BY <1>2, <1>4, <2>1 DEF OnBranch, Exists
  <2>3. ASSUME NEW j \in OnBranch(b)
        PROVE  row[j].date <= row[x].date
    <3>1. j \in Key /\ j # k
      BY <2>3 DEF OnBranch
    <3>2. row'[j] = row[j] /\ j \in OnBranch(b)'
      BY <1>4, <2>3, <3>1 DEF OnBranch, Exists
    <3>3. QED
      BY <1>2, <2>2, <3>2 DEF InForce
  <2>4. QED
    BY <2>2, <2>3 DEF InForce
<1>7. InForceHas(b, g)'
  <2>1. x \in InForce(b) \/ row'[x].regions = g
    BY <1>2, <1>3, <1>4, <1>6
  <2>2. QED
    BY <1>1, <1>2, <1>3, <1>5, <2>1, StillInForce
<1>8. ASSUME NEW q \in Request
      PROVE  AsksFor(q, b, g)'
  BY <1>3, <1>5, AsksStill, NotAccepting DEF Ordered
<1>9. QED
  BY <1>7, <1>8

LEMMA AcceptLastWanted ==
  ASSUME Ordered, Typed', Wanted, NEW p \in Request, AcceptLast(p)
  PROVE  Wanted'
<1>1. PICK s \in Snap : loc' = [loc EXCEPT ![p] =
                 [Blank EXCEPT !.to = OwnBranch[s], !.key = s,
                               !.regions = Inherited(OwnBranch[s]),
                               !.date = clock + 1, !.seen = ids,
                               !.prior = Settled(OwnBranch[s])]]
  BY DEF AcceptLast
<1>2. pc \in [Request -> Steps] /\ loc \in [Request -> Locals]
  BY DEF Ordered, Typed, TypeOK
<1>3. /\ loc'[p].to = OwnBranch[s] /\ loc'[p].regions = Inherited(OwnBranch[s])
      /\ loc'[p].seen = ids
  BY <1>1, <1>2 DEF Blank
<1>4. pc'[p] = "aUpsert" /\ \A q \in Request : q # p => CallKept(q)
  BY <1>1, <1>2 DEF AcceptLast, Goto, CallKept
<1>5. ASSUME NEW b \in Branch, want[b] # None, NEW g, g = want[b]
      PROVE  AsksFor(p, b, g)'
  <2>1. ASSUME loc'[p].to = b
        PROVE  loc'[p].regions = g
    <3>1. OnBranch(b) # {}
      BY <1>5 DEF Wanted, InForceHas, InForce
    <3>2. PICK k \in InForce(b) : Inherited(b) = row[k].regions
      BY <3>1, InheritedFrom DEF Ordered, Typed
    <3>3. row[k].regions = g
      BY <1>5, InForceRegions
    <3>4. QED
      BY <1>3, <2>1, <3>2, <3>3
  <2>2. \A k \in Key : ~MayStamp(p, k)'
    <3>1. \A k \in Key : row[k].id <= ids /\ row[k].id \in Nat /\ ids \in Nat
      BY RowNumbers, Counters DEF Ordered, Typed, Timeline, Counted
    <3>2. QED
      BY <1>3, <3>1 DEF MayStamp, AcceptLast
  <2>3. QED
    BY <1>4, <2>1, <2>2 DEF AsksFor, InsertsWith, StampsWith, LeavesWith
<1>6. QED
  BY <1>4, <1>5, RowsSameWanted DEF AcceptLast

LEMMA AcceptUpsertWanted ==
  ASSUME Ordered, Typed', Wanted, NEW p \in Request, AcceptUpsert(p)
  PROVE  Wanted'
<1> DEFINE k == <<loc[p].to, loc[p].key>>
<1>1. /\ pc[p] = "aUpsert" /\ k \in Key
      /\ pc \in [Request -> Steps] /\ loc \in [Request -> Locals]
  BY DEF AcceptUpsert, Ordered, Typed, TypeOK, Prepared, AcceptSteps, Key
<1>2. CASE /\ ~Exists(k) /\ Insert(k, loc[p].date, loc[p].regions, loc[p].prior)
           /\ Expect(want) /\ Finish(p)
  <2>1. pc'[p] = "idle" /\ \A q \in Request : q # p => CallKept(q)
    BY <1>2, FinishType DEF Ordered, CallKept
  <2>2. \A b \in Branch : want[b] # None => (b = k[1] => loc[p].regions = want[b])
    BY <1>1 DEF Wanted, AsksFor, InsertsWith
  <2> HIDE DEF k
  <2>3. QED
    BY <1>1, <1>2, <2>1, <2>2, InsertWanted DEF AcceptSteps
<1>3. CASE Keep(k, loc[p].date) /\ Finish(p) /\ UNCHANGED want
  BY <1>3, FinishWanted DEF Keep
<1>4. CASE Goto(p, "aFind") /\ UNCHANGED <<row, ids, older, want, loc>>
  <2>1. pc'[p] = "aFind" /\ \A q \in Request : q # p => CallKept(q)
    BY <1>1, <1>4 DEF Goto, CallKept
  <2>2. ASSUME NEW b \in Branch, want[b] # None, NEW g, g = want[b]
        PROVE  AsksFor(p, b, g)'
    <3>1. StampsWith(p, b, g)
      BY <2>2 DEF Wanted, AsksFor
    <3>2. \A j \in Key : MayStamp(p, j)' => MayStamp(p, j)
      BY <1>1, <1>4 DEF MayStamp, AcceptSteps
    <3>3. QED
      BY <1>4, <2>1, <3>1, <3>2 DEF AsksFor, InsertsWith, StampsWith, LeavesWith
  <2>3. QED
    BY <1>4, <2>1, <2>2, RowsSameWanted
<1>5. QED
  BY <1>2, <1>3, <1>4 DEF AcceptUpsert

LEMMA AcceptFindWanted ==
  ASSUME Ordered, Typed', Wanted, NEW p \in Request, AcceptFind(p)
  PROVE  Wanted'
<1> DEFINE k == <<loc[p].to, loc[p].key>>
<1>1. /\ pc[p] = "aFind"
      /\ pc \in [Request -> Steps] /\ loc \in [Request -> Locals]
  BY DEF AcceptFind, Ordered, Typed, TypeOK
<1>2. CASE /\ clock' = clock + 1
           /\ loc' = [loc EXCEPT ![p].date = clock + 1, ![p].found = row[k].id]
           /\ Goto(p, "aSave")
  <2>1. /\ pc'[p] = "aSave" /\ loc'[p].date = clock + 1
        /\ loc'[p].to = loc[p].to /\ loc'[p].key = loc[p].key /\ loc'[p].seen = loc[p].seen
    BY <1>1, <1>2 DEF Goto, Locals
  <2>2. \A q \in Request : q # p => CallKept(q)
    BY <1>1, <1>2 DEF Goto, CallKept
  <2>3. ASSUME NEW b \in Branch, want[b] # None, NEW g, g = want[b]
        PROVE  AsksFor(p, b, g)'
    <3>1. StampsWith(p, b, g)
      BY <2>3 DEF Wanted, AsksFor
    <3>2. \A j \in Key : MayStamp(p, j)' => MayStamp(p, j)
      BY <1>1, <2>1 DEF MayStamp, AcceptSteps, AcceptFind
    <3>3. \A j \in Key : row[j].date <= clock /\ row[j].date \in Nat /\ clock \in Nat
      BY RowNumbers, Counters DEF Ordered, Typed, Timeline, Counted
    <3>4. \A j \in Key : ~(row'[j].date > loc'[p].date)
      BY <2>1, <3>3 DEF AcceptFind
    <3>5. QED
      BY <2>1, <3>1, <3>2, <3>4
      DEF AcceptFind, AsksFor, InsertsWith, StampsWith, LeavesWith, OnBranch
  <2>4. QED
    BY <2>2, <2>3, RowsSameWanted DEF AcceptFind
<1>3. CASE Finish(p)
  BY <1>3, FinishWanted DEF AcceptFind
<1>4. QED
  BY <1>2, <1>3 DEF AcceptFind

\* After a save another row can be in force than before only because the saved
\* one was, and has been given an older date.
LEMMA AcceptSaveWanted ==
  ASSUME Ordered, Typed', Wanted, NEW p \in Request, AcceptSave(p)
  PROVE  Wanted'
<1> DEFINE k == <<loc[p].to, loc[p].key>>
<1>1. /\ pc[p] = "aSave" /\ k \in Key /\ Expect(want) /\ Finish(p)
      /\ row \in [Key -> Row \cup {NoRow}] /\ loc[p].found > loc[p].seen
      /\ row' = IF row[k].id = loc[p].found THEN [row EXCEPT ![k].date = loc[p].date] ELSE row
  BY DEF AcceptSave, SameRow, Ordered, Typed, TypeOK, Prepared, AcceptSteps, Key, Timeline
<1>2. pc'[p] = "idle" /\ \A q \in Request : q # p => CallKept(q)
  BY <1>1, FinishType DEF Ordered, CallKept
<1>3. SUFFICES ASSUME NEW b \in Branch, NEW g, want'[b] = g, g # None
               PROVE  InForceHas(b, g)' /\ \A q \in Request : AsksFor(q, b, g)'
  BY WantedNext
<1>4. PICK x \in Key : /\ x \in InForce(b)' /\ (Copies(x[2]) = {x})'
                       /\ x[1] = b /\ Exists(x)'
  BY <1>1, <1>3, Expected
<1>5. want[b] = g /\ \A q \in Request : AsksFor(q, b, g)
  BY <1>1, <1>3, Expected DEF Wanted
<1>6. \A j \in Key : j # k => row'[j] = row[j]
  BY <1>1
<1>7. /\ row'[k].regions = row[k].regions
      /\ row'[k] = row[k] \/ (row'[k].date = loc[p].date /\ row[k].id = loc[p].found)
      /\ row'[k].id = row[k].id
  BY <1>1 DEF Row, NoRow
<1>8. row'[k] = row[k] \/ (b = k[1] => row[k].regions = g)
  <2>1. row[k].id = loc[p].found => MayStamp(p, k)
    BY <1>1 DEF MayStamp, AcceptSteps
  <2>2. QED
    BY <1>1, <1>5, <1>7, <2>1 DEF AsksFor, StampsWith
<1>9. RowsHave(b, g)
  BY <1>6, <1>7, <1>8 DEF RowsHave
<1>10. x \in InForce(b) \/ row'[x].regions = g
  <2>1. SUFFICES ASSUME x \notin InForce(b), row'[x] = row[x]
                 PROVE  row[x].regions = g
    BY <1>4, <1>9 DEF RowsHave
  <2>2. x \in OnBranch(b)
    BY <1>4, <2>1 DEF OnBranch, Exists
  <2>3. PICK j \in OnBranch(b) : ~(row[j].date <= row[x].date)
    BY <2>1, <2>2 DEF InForce
  <2>4. j \in Key /\ j[1] = b /\ Exists(j)
    BY <2>3 DEF OnBranch
  <2>5. Exists(j)' /\ j \in OnBranch(b)'
    <3>1. row'[j].id = row[j].id
      BY <1>6, <1>7, <2>4
    <3>2. QED
      BY <2>4, <3>1 DEF OnBranch, Exists
  <2>6. row'[j].date <= row'[x].date
    BY <1>4, <2>5 DEF InForce
  <2>7. j = k /\ row'[k].date = loc[p].date
    BY <1>6, <1>7, <2>1, <2>3, <2>4, <2>6
  <2>8. loc[p].to = b /\ loc[p].date <= row[x].date
    BY <2>1, <2>4, <2>6, <2>7
  <2>9. loc[p].date # row[x].date /\ row[x].date \in Nat /\ loc[p].date \in Nat
    BY <1>1, <2>2, RowNumbers, CallNumbers DEF Ordered, Typed, Dated, Sending, OnBranch
  <2>10. row[x].date > loc[p].date
    BY <2>8, <2>9
  <2>11. QED
    BY <1>1, <1>5, <2>2, <2>8, <2>10 DEF AsksFor, LeavesWith
<1>11. InForceHas(b, g)'
  BY <1>3, <1>4, <1>5, <1>9, <1>10, StillInForce
<1>12. ASSUME NEW q \in Request
       PROVE  AsksFor(q, b, g)'
  BY <1>2, <1>5, <1>9, AsksStill, NotAccepting DEF Ordered, AcceptSteps
<1>13. QED
  BY <1>11, <1>12

LEMMA PromoteFindWanted ==
  ASSUME Ordered, Typed', Wanted, NEW p \in Request, PromoteFind(p)
  PROVE  Wanted'
<1>1. pc'[p] = "pUpsert" /\ \A q \in Request : q # p => CallKept(q)
  BY DEF PromoteFind, SendUpsert, Goto, CallKept, Ordered, Typed, TypeOK
<1>2. QED
  BY <1>1, OverWanted DEF PromoteFind, AcceptSteps

LEMMA PromoteUpsertWanted ==
  ASSUME Ordered, Typed', Wanted, NEW p \in Request, PromoteUpsert(p)
  PROVE  Wanted'
<1> DEFINE s == NextSource(loc[p].todo)
           k == <<loc[p].to, s.snap>>
           rest == loc[p].todo \ {s}
           w == [want EXCEPT ![loc[p].to] = None]
           new == ~Exists(k) /\ Insert(k, loc[p].date, s.regions, loc[p].prior) /\ Expect(w)
           old == Keep(k, loc[p].date) /\ UNCHANGED want
           send == rest # {} /\ SendUpsert(p, [loc[p] EXCEPT !.todo = rest])
           last == rest = {} /\ Goto(p, "pDone") /\ UNCHANGED <<clock, loc>>
           fail == Finish(p) /\ UNCHANGED <<row, ids, clock, older, want>>
<1>1. /\ k \in Key /\ loc[p].to \in Branch
      /\ pc \in [Request -> Steps] /\ loc \in [Request -> Locals]
      /\ want \in [Branch -> AnyRegions \cup {None}]
  BY NextSourceType DEF PromoteUpsert, Ordered, Typed, TypeOK
<1>2. ((new \/ old) /\ (send \/ last)) \/ fail
  BY DEF PromoteUpsert
<1>3. CASE fail
  BY <1>3, FinishWanted
<1>4. send \/ last => /\ pc'[p] \notin AcceptSteps
                      /\ \A q \in Request : q # p => CallKept(q)
  BY <1>1 DEF SendUpsert, Goto, CallKept, AcceptSteps
<1>5. CASE new /\ (send \/ last)
  <2>1. \A b \in Branch : w[b] # None => w[b] = want[b] /\ b # k[1]
    BY <1>1
  <2>2. Expect(w) /\ ~Exists(k) /\ Insert(k, loc[p].date, s.regions, loc[p].prior)
    BY <1>5
  <2> HIDE DEF w, k, s, send, last
  <2>3. QED
    BY <1>1, <1>4, <1>5, <2>1, <2>2, InsertWanted
<1>6. CASE old /\ (send \/ last)
  <2>1. UNCHANGED <<row, want>>
    BY <1>6 DEF Keep
  <2> HIDE DEF old, send, last
  <2>2. QED
    BY <1>4, <1>6, <2>1, OverWanted
<1>7. QED
  <2> HIDE DEF new, old, send, last, fail
  <2>1. QED
    BY <1>2, <1>3, <1>5, <1>6

LEMMA EndWanted ==
  ASSUME Ordered, Typed', Wanted, NEW p \in Request, PromoteEnd(p) \/ Die(p)
  PROVE  Wanted'
BY FinishWanted DEF PromoteEnd, Die

\* The removal of a row that is not in force brings no other one into force.
LEMMA RemoveRowWanted ==
  ASSUME Ordered, Typed', Wanted, NEW k \in Key, RemoveRow(k)
  PROVE  Wanted'
<1> DEFINE w == [want EXCEPT ![k[1]] = IF k \in InForce(k[1]) THEN None ELSE @]
<1>1. /\ row \in [Key -> Row \cup {NoRow}] /\ k[1] \in Branch
      /\ want \in [Branch -> AnyRegions \cup {None}] /\ Expect(w)
      /\ \A q \in Request : CallKept(q)
  BY DEF RemoveRow, Ordered, Typed, TypeOK, CallKept, Key
<1>2. SUFFICES ASSUME NEW b \in Branch, NEW g, want'[b] = g, g # None
               PROVE  InForceHas(b, g)' /\ \A q \in Request : AsksFor(q, b, g)'
  BY WantedNext
<1>3. PICK x \in Key : /\ x \in InForce(b)' /\ (Copies(x[2]) = {x})'
                       /\ x[1] = b /\ Exists(x)'
  <2> HIDE DEF w
  <2>1. QED
    BY <1>1, <1>2, Expected
<1>4. w[b] = g
  <2> HIDE DEF w
  <2>1. QED
    BY <1>1, <1>2, Expected
<1>5. want[b] = g /\ (k[1] = b => k \notin InForce(b))
  BY <1>1, <1>2, <1>4
<1>6. \A q \in Request : AsksFor(q, b, g)
  BY <1>2, <1>5 DEF Wanted
<1>7. /\ \A j \in Key : j # k => row'[j] = row[j]
      /\ ~Exists(k)'
  BY <1>1 DEF RemoveRow, Exists, NoRow
<1>8. RowsHave(b, g)
  BY <1>7 DEF RowsHave
<1>9. x \in InForce(b)
  <2>1. x # k /\ row'[x] = row[x] /\ x \in OnBranch(b)
    BY <1>3, <1>7 DEF OnBranch, Exists
  <2>2. PICK y \in InForce(b) : TRUE
    BY <1>2, <1>5 DEF Wanted, InForceHas
  <2>3. /\ y \in Key /\ y \in OnBranch(b) /\ Exists(y) /\ y[1] = b
        /\ \A j \in OnBranch(b) : row[j].date <= row[y].date
    BY <2>2 DEF InForce, OnBranch
  <2>4. y # k /\ row'[y] = row[y] /\ y \in OnBranch(b)'
    BY <1>5, <1>7, <2>2, <2>3 DEF OnBranch, Exists
  <2>5. row[y].date <= row[x].date
    BY <1>3, <2>1, <2>4 DEF InForce
  <2>6. \A j \in Key : row[j].date \in Nat
    BY RowNumbers DEF Ordered, Typed
  <2>7. \A j \in OnBranch(b) : j \in Key
    BY DEF OnBranch
  <2>8. \A j \in OnBranch(b) : row[j].date <= row[x].date
    BY <2>1, <2>3, <2>5, <2>6, <2>7
  <2>9. QED
    BY <2>1, <2>8 DEF InForce
<1>10. InForceHas(b, g)'
  BY <1>2, <1>3, <1>5, <1>8, <1>9, StillInForce
<1>11. ASSUME NEW q \in Request
       PROVE  AsksFor(q, b, g)'
  BY <1>1, <1>6, <1>8, AsksStill DEF Ordered
<1>12. QED
  BY <1>10, <1>11

\* An edit of a branch on which somebody is at work ends its expectation;
\* otherwise nobody asks for anything, and the row in force has what was saved.
LEMMA EditRegionsWanted ==
  ASSUME Ordered, Typed', Wanted, NEW k \in Key, NEW h \in Regions, EditRegions(k, h)
  PROVE  Wanted'
<1> DEFINE v(x) == IF \E p \in Request : loc[p].to = k[1] THEN None
                   ELSE IF k \in InForce(k[1]) THEN h ELSE x
           w == [want EXCEPT ![k[1]] = v(@)]
<1>1. /\ row \in [Key -> Row \cup {NoRow}] /\ k[1] \in Branch
      /\ want \in [Branch -> AnyRegions \cup {None}] /\ Expect(w)
      /\ \A q \in Request : CallKept(q)
  BY DEF EditRegions, Ordered, Typed, TypeOK, CallKept, Key
<1>2. SUFFICES ASSUME NEW b \in Branch, NEW g, want'[b] = g, g # None
               PROVE  InForceHas(b, g)' /\ \A q \in Request : AsksFor(q, b, g)'
  BY WantedNext
<1>3. PICK x \in Key : /\ x \in InForce(b)' /\ (Copies(x[2]) = {x})'
                       /\ x[1] = b /\ Exists(x)'
  <2> HIDE DEF w
  <2>1. QED
    BY <1>1, <1>2, Expected
<1>4. w[b] = g
  <2> HIDE DEF w
  <2>1. QED
    BY <1>1, <1>2, Expected
<1>5. /\ \A j \in Key : j # k => row'[j] = row[j]
      /\ row'[k].regions = h /\ row'[k].date = row[k].date /\ row'[k].id = row[k].id
  BY <1>1 DEF EditRegions, Row, NoRow
<1>6. \A j \in Key : row'[j].date = row[j].date /\ row'[j].id = row[j].id
  BY <1>5
<1>7. x \in InForce(b)
  <2>1. OnBranch(b)' = OnBranch(b)
    BY <1>6 DEF OnBranch, Exists
  <2>2. \A j \in OnBranch(b) : j \in Key
    BY DEF OnBranch
  <2>3. QED
    BY <1>3, <1>6, <2>1, <2>2 DEF InForce
<1>8. CASE k[1] # b
  <2>1. want[b] = g
    BY <1>1, <1>4, <1>8
  <2>2. RowsHave(b, g) /\ \A q \in Request : AsksFor(q, b, g)
    BY <1>2, <1>5, <1>8, <2>1 DEF RowsHave, Wanted
  <2>3. InForceHas(b, g)'
    BY <1>2, <1>3, <1>7, <2>1, <2>2, StillInForce
  <2>4. QED
    BY <1>1, <2>2, <2>3, AsksStill DEF Ordered
<1>9. CASE k[1] = b
  <2>1. \A q \in Request : loc[q].to # b
    BY <1>1, <1>2, <1>4, <1>9
  <2>2. g = IF k \in InForce(b) THEN h ELSE want[b]
    BY <1>1, <1>4, <1>9, <2>1
  <2>3. row'[x].regions = g
    <3>1. CASE x = k
      BY <1>5, <1>7, <2>2, <3>1
    <3>2. CASE x # k
      <4>1. k \notin InForce(b)
        BY <1>7, <3>2, OneInForce
      <4>2. row[x].regions = g
        BY <1>2, <1>7, <2>2, <4>1, InForceRegions
      <4>3. QED
        BY <1>5, <3>2, <4>2
    <3>3. QED
      BY <3>1, <3>2
  <2>4. InForceHas(b, g)'
    BY <1>3, <2>3 DEF InForceHas
  <2>5. ASSUME NEW q \in Request
        PROVE  AsksFor(q, b, g)'
    <3>1. loc'[q].to # b
      BY <1>1, <2>1 DEF CallKept
    <3>2. \A j \in Key : MayStamp(q, j)' => j[1] = loc'[q].to
      BY DEF MayStamp
    <3>3. QED
      BY <3>1, <3>2 DEF AsksFor, InsertsWith, StampsWith, LeavesWith
  <2>6. QED
    BY <2>4, <2>5
<1>10. QED
  BY <1>8, <1>9

LEMMA WantedStep ==
  ASSUME Ordered, Wanted, [Next]_vars
  PROVE  Wanted'
<1>1. Typed'
  BY TypedStep DEF Ordered
<1>2. ASSUME NEW p \in Request, Step(p)
      PROVE  Wanted'
  BY <1>1, <1>2, AcceptLastWanted, AcceptUpsertWanted, AcceptFindWanted, AcceptSaveWanted,
     PromoteFindWanted, PromoteUpsertWanted, EndWanted DEF Step
<1>3. ASSUME NEW k \in Key, RemoveRow(k) \/ \E g \in Regions : EditRegions(k, g)
      PROVE  Wanted'
  BY <1>1, <1>3, RemoveRowWanted, EditRegionsWanted
<1>4. CASE UNCHANGED vars
  <2>1. \A q \in Request : CallKept(q)
    BY <1>4 DEF vars, CallKept
  <2>2. row' = row /\ want' = want
    BY <1>4 DEF vars
  <2>3. SUFFICES ASSUME NEW b \in Branch, NEW g, want'[b] = g, g # None
                 PROVE  InForceHas(b, g)' /\ \A q \in Request : AsksFor(q, b, g)'
    BY WantedNext
  <2>4. want[b] = g /\ InForceHas(b, g) /\ \A q \in Request : AsksFor(q, b, g)
    BY <2>2, <2>3 DEF Wanted
  <2>5. InForceHas(b, g)' /\ RowsHave(b, g)
    BY <2>2, <2>4, RowsSame DEF RowsHave
  <2>6. QED
    BY <1>1, <2>1, <2>4, <2>5, AsksStill DEF Ordered
<1>5. QED
  BY <1>2, <1>3, <1>4 DEF Next

LEMMA WantedInit == Init => Wanted
BY DEF Init, Wanted

\* The regions that a user saved for the baseline in force, with nobody at work
\* on the branch, are those of the baseline that the uploads of the branch are
\* compared with, through all later acceptances: collisions, saves that put a
\* row behind another one, removals of other rows and promotions elsewhere.
THEOREM RegionsAreCarried == Spec => []RegionsCarried
<1>1. Init => Wanted
  BY WantedInit
<1>2. Ordered /\ Wanted /\ [Next]_vars => Wanted'
  BY WantedStep
<1>3. Ordered /\ Wanted => RegionsCarried
  <2>1. SUFFICES ASSUME Ordered, Wanted, NEW b \in Branch, want[b] # None,
                        NEW k \in InForce(b), NEW j \in Compared(k[2])
                 PROVE  row[j].regions = want[b]
    BY DEF RegionsCarried
  <2>2. PICK x \in InForce(b) : Copies(x[2]) = {x} /\ row[x].regions = want[b]
    BY <2>1 DEF Wanted, InForceHas
  <2>3. x = k
    BY <2>1, <2>2, OneInForce
  <2>4. j = k
    BY <2>1, <2>2, <2>3 DEF Compared
  <2>5. QED
    BY <2>2, <2>3, <2>4
<1>4. QED
  BY <1>1, <1>2, <1>3, AlwaysOrdered, PTL DEF Spec

-----------------------------------------------------------------------------
(* PromotionTakesOver.  The sources are promoted in the order of their ids;  *)
(* when that is the order of their dates, the one in force comes last, and   *)
(* the date of its row is then the newest of the target.                     *)

\* A promotion p of branch b to branch c has still to promote T.
Promoting(p, b, c, T) ==
  /\ \A k \in OnBranch(b) :
       \/ Exists(<<c, k[2]>>)
       \/ \E s \in T : s.id = row[k].id /\ s.snap = k[2]
  /\ \A s \in T : /\ s.id > 0 /\ row[<<b, s.snap>>].id = s.id
                  /\ row[<<c, s.snap>>].id <= loc[p].seen
  /\ \A s, t \in T : s.id = t.id => s = t
  /\ \A k \in Key : row[k].date < loc[p].date

\* The source in force is the last one, and new to the target.
LastIsNew(b, c) ==
  \A k \in InForce(b) :
    /\ ~Exists(<<c, k[2]>>)
    /\ \A j \in OnBranch(b) : row[j].id <= row[k].id

Alone ==
  \A p \in lone :
    /\ \A q \in Request : q # p => pc[q] = "idle"
    /\ pc[p] \in {"pUpsert", "pDone"}
    /\ \A b, c \in Branch : b = loc[p].from /\ c = loc[p].to =>
         /\ OnBranch(b) # {}
         /\ pc[p] = "pUpsert" =>
              /\ \A T \in SUBSET Source : T = loc[p].todo => Promoting(p, b, c, T)
              /\ loc[p].fresh => LastIsNew(b, c)
         /\ pc[p] = "pDone" =>
              /\ \A k \in OnBranch(b) : Exists(<<c, k[2]>>)
              /\ loc[p].fresh => \A k \in InForce(b) : InForce(c) = {<<c, k[2]>>}

\* A request that is at work, other than the promotion, would not be overlapped.
LEMMA NobodyElse ==
  ASSUME Alone, NEW p \in lone, NEW q \in Request, pc[q] # "idle"
  PROVE  p = q /\ pc[q] \in {"pUpsert", "pDone"}
BY DEF Alone

LEMMA PromoteFindAlone ==
  ASSUME Ordered, Ordered', NEW p \in Request, PromoteFind(p)
  PROVE  Alone'
<1> DEFINE L(from, to) ==
             [Blank EXCEPT !.to = to, !.from = from, !.todo = Sources(from),
                           !.prior = Settled(to), !.fresh = LastIsNew(from, to)]
<1>1. PICK b \in Branch, c \in Branch :
        b # c /\ OnBranch(b) # {} /\ SendUpsert(p, L(b, c))
  BY DEF PromoteFind, LastIsNew
<1>2. /\ pc \in [Request -> Steps] /\ loc \in [Request -> Locals]
      /\ ids \in Nat /\ clock \in Nat
      /\ row' = row /\ lone' = IF \A q \in Request : pc[q] = "idle" THEN {p} ELSE {}
  BY Counters DEF PromoteFind, Ordered, Typed, TypeOK
<1>3. /\ loc'[p].to = c /\ loc'[p].from = b /\ loc'[p].todo = Sources(b)
      /\ loc'[p].fresh = LastIsNew(b, c)
      /\ loc'[p].date = clock + 1 /\ loc'[p].seen = ids
  <2>1. loc'[p] = [L(b, c) EXCEPT !.date = clock + 1, !.seen = ids]
    BY <1>1, <1>2 DEF SendUpsert
  <2>2. QED
    BY <2>1 DEF Blank
<1>4. pc'[p] = "pUpsert" /\ \A q \in Request : q # p => pc'[q] = pc[q]
  BY <1>1, <1>2 DEF SendUpsert, Goto
<1>5. /\ OnBranch(b)' = OnBranch(b) /\ InForce(b)' = InForce(b)
      /\ \A k : Exists(k)' <=> Exists(k)
  BY <1>2, RowsSame DEF Exists
<1>6. /\ \A k \in Key : /\ row[k].id \in Nat /\ row[k].id <= ids
                        /\ row[k].date \in Nat /\ row[k].date <= clock
  BY RowNumbers DEF Ordered, Typed, Timeline, Counted
<1>7. \A s \in Sources(b) : \E k \in OnBranch(b) :
        /\ k = <<b, s.snap>> /\ s.id = row[k].id
        /\ s = [id |-> row[k].id, snap |-> k[2], regions |-> row[k].regions]
  BY DEF Sources, OnBranch, Key
<1>8. PICK T : T = Sources(b)
  OBVIOUS
<1>9. \A k \in OnBranch(b) : \E s \in T : s.id = row[k].id /\ s.snap = k[2]
  <2>1. SUFFICES ASSUME NEW k \in OnBranch(b)
                 PROVE  \E s \in T : s.id = row[k].id /\ s.snap = k[2]
    OBVIOUS
  <2> DEFINE s == [id |-> row[k].id, snap |-> k[2], regions |-> row[k].regions]
  <2>2. s \in T
    BY <1>8 DEF Sources
  <2>3. QED
    BY <2>2
<1>10. ASSUME NEW s \in T
       PROVE  /\ s.id > 0 /\ row[<<b, s.snap>>].id = s.id
              /\ row[<<c, s.snap>>].id <= ids
  <2>1. PICK k \in OnBranch(b) : k = <<b, s.snap>> /\ s.id = row[k].id
    BY <1>7, <1>8
  <2>2. k \in Key /\ Exists(k) /\ <<c, s.snap>> \in Key
    BY <1>1, <2>1 DEF OnBranch, Key
  <2>3. QED
    BY <1>6, <2>1, <2>2 DEF Exists
<1>11. ASSUME NEW s \in T, NEW t \in T, s.id = t.id
       PROVE  s = t
  <2>1. PICK j \in OnBranch(b) :
          /\ s.id = row[j].id
          /\ s = [id |-> row[j].id, snap |-> j[2], regions |-> row[j].regions]
    BY <1>7, <1>8
  <2>2. PICK k \in OnBranch(b) :
          /\ t.id = row[k].id
          /\ t = [id |-> row[k].id, snap |-> k[2], regions |-> row[k].regions]
    BY <1>7, <1>8
  <2>3. j = k
    BY <1>11, <2>1, <2>2 DEF OnBranch, Ordered, Timeline, Named
  <2>4. QED
    BY <2>1, <2>2, <2>3
<1>12. \A k \in Key : row'[k].date < loc'[p].date
  BY <1>2, <1>3, <1>6
<1>13. Promoting(p, b, c, T)'
  BY <1>2, <1>3, <1>5, <1>9, <1>10, <1>11, <1>12 DEF Promoting
<1>14. LastIsNew(b, c)' <=> LastIsNew(b, c)
  BY <1>2, <1>5 DEF LastIsNew
<1>15. QED
  BY <1>1, <1>2, <1>3, <1>4, <1>5, <1>8, <1>13, <1>14 DEF Alone

\* One source promoted: its row exists on the target, inserted with a date newer
\* than every other one, or kept.
LEMMA PromoteUpsertAlone ==
  ASSUME Ordered, Ordered', Alone, NEW p \in lone, NEW b \in Branch, NEW c \in Branch,
         PromoteUpsert(p), b = loc[p].from, c = loc[p].to
  PROVE  /\ \A q \in Request : q # p => pc'[q] = "idle"
         /\ pc'[p] \in {"pUpsert", "pDone"}
         /\ loc'[p].from = b /\ loc'[p].to = c
         /\ OnBranch(b)' # {}
         /\ pc'[p] = "pUpsert" =>
              /\ \A T \in SUBSET Source : T = loc'[p].todo => Promoting(p, b, c, T)'
              /\ loc'[p].fresh => LastIsNew(b, c)'
         /\ pc'[p] = "pDone" =>
              /\ \A k \in OnBranch(b)' : Exists(<<c, k[2]>>)'
              /\ loc'[p].fresh => \A k \in InForce(b)' : InForce(c)' = {<<c, k[2]>>}
<1> DEFINE s == NextSource(loc[p].todo)
           T == loc[p].todo
           rest == T \ {s}
<1>1. pc[p] = "pUpsert" /\ p \in Request
  BY DEF PromoteUpsert, Ordered, Typed, TypeOK
<1>2. /\ pc \in [Request -> Steps] /\ loc \in [Request -> Locals]
      /\ row \in [Key -> Row \cup {NoRow}]
      /\ loc[p] \in Locals /\ T \in SUBSET Source
      /\ s \in T /\ s \in Source /\ (\A t \in T : s.id <= t.id)
      /\ <<c, s.snap>> \in Key /\ b # c
  BY <1>1, NextSourceType DEF Ordered, Typed, TypeOK
<1>3. /\ \A q \in Request : q # p => pc[q] = "idle"
      /\ OnBranch(b) # {} /\ Promoting(p, b, c, T)
      /\ loc[p].fresh => LastIsNew(b, c)
  BY <1>1, <1>2 DEF Alone
<1>4. /\ \A j \in Key : row[j].id \in Nat /\ row[j].date \in Nat
      /\ \A j \in Key : row[j].id <= ids /\ row[j].date <= clock
      /\ ids \in Nat /\ clock \in Nat /\ loc[p].date \in Nat /\ loc[p].date <= clock
      /\ loc[p].seen \in Nat
  BY <1>1, RowNumbers, Counters, CallNumbers DEF Ordered, Typed, Timeline, Counted
<1>5. \A t \in T : t \in Source /\ t.id \in Nat /\ t.snap \in Snap
  BY <1>2, Bounds DEF Source
<1>20. PICK k \in Key : k = <<c, s.snap>>
  BY <1>2
<1> DEFINE new == ~Exists(k) /\ Insert(k, loc[p].date, s.regions, loc[p].prior)
           old == Exists(k) /\ Keep(k, loc[p].date)
           send == rest # {} /\ SendUpsert(p, [loc[p] EXCEPT !.todo = rest])
           last == rest = {} /\ Goto(p, "pDone") /\ UNCHANGED <<clock, loc>>
<1>6. (new \/ old) /\ (send \/ last)
  <2>1. ((new \/ old) /\ (send \/ last)) \/ Collides(p, k)
    BY <1>20 DEF PromoteUpsert
  <2>2. row[k].id <= loc[p].seen
    BY <1>2, <1>3, <1>20 DEF Promoting
  <2>3. QED
    BY <1>2, <1>4, <2>1, <2>2 DEF Collides
<1>7. /\ \A j \in Key : j # k => row'[j] = row[j]
      /\ Exists(k)'
      /\ row'[k] = row[k] \/ (row'[k].date = loc[p].date /\ row'[k].id = ids + 1)
      /\ ~Exists(k) => row'[k].date = loc[p].date
      /\ Exists(k) => row' = row
  <2>1. CASE new
    <3>1. row' = [row EXCEPT ![k] = [id |-> ids + 1, date |-> loc[p].date, regions |-> s.regions]]
      BY <2>1 DEF Insert
    <3> HIDE DEF s, T
    <3>2. QED
      BY <1>2, <1>4, <2>1, <3>1 DEF Exists
  <2>2. CASE old
    BY <2>2 DEF Keep, Exists
  <2>3. QED
    BY <1>6, <2>1, <2>2
<1> HIDE DEF new, old, send, last, rest
<1>8. /\ OnBranch(b)' = OnBranch(b) /\ InForce(b)' = InForce(b)
      /\ \A j \in Key : j[1] = b => row'[j] = row[j]
  <2>1. \A j \in Key : j[1] = b => row'[j] = row[j]
    BY <1>2, <1>7, <1>20
  <2>2. OnBranch(b)' = OnBranch(b) /\ \A j \in OnBranch(b) : j \in Key /\ j[1] = b
    BY <2>1 DEF OnBranch, Exists
  <2>3. QED
    BY <2>1, <2>2 DEF InForce
<1>9. \A j \in OnBranch(b) : j \in Key /\ j = <<b, j[2]>> /\ <<c, j[2]>> \in Key /\ Exists(j)
  BY DEF OnBranch, Key
<1>10. \A t \in T : <<b, t.snap>> \in OnBranch(b) /\ row[<<b, t.snap>>].id = t.id
  BY <1>3, <1>5 DEF Promoting, OnBranch, Key, Exists
<1>11. \A t \in rest : t \in T /\ t.snap # s.snap
  <2>1. SUFFICES ASSUME NEW t \in rest, t.snap = s.snap
                 PROVE  FALSE
    BY DEF rest
  <2>2. t \in T /\ t # s
    BY <2>1 DEF rest
  <2>3. t.id = s.id
    BY <1>2, <1>10, <2>1, <2>2
  <2>4. QED
    BY <1>2, <1>3, <2>2, <2>3 DEF Promoting
<1>12. \A j \in Key : Exists(j) => Exists(j)'
  BY <1>7 DEF Exists
<1>13. \A j \in OnBranch(b) :
         \/ Exists(<<c, j[2]>>)'
         \/ \E t \in rest : t.id = row[j].id /\ t.snap = j[2]
  <2>1. SUFFICES ASSUME NEW j \in OnBranch(b), ~Exists(<<c, j[2]>>)'
                 PROVE  \E t \in rest : t.id = row[j].id /\ t.snap = j[2]
    OBVIOUS
  <2>2. ~Exists(<<c, j[2]>>)
    BY <1>9, <1>12, <2>1
  <2>3. PICK t \in T : t.id = row[j].id /\ t.snap = j[2]
    BY <1>3, <2>2 DEF Promoting
  <2>4. t # s
    BY <1>7, <1>20, <2>1, <2>3
  <2>5. QED
    BY <2>3, <2>4 DEF rest
<1>14. CASE send
  <2>1. /\ pc'[p] = "pUpsert" /\ \A q \in Request : q # p => pc'[q] = pc[q]
        /\ loc'[p].from = b /\ loc'[p].to = c /\ loc'[p].todo = rest
        /\ loc'[p].fresh = loc[p].fresh
        /\ loc'[p].date = clock + 1 /\ loc'[p].seen = ids
    BY <1>1, <1>2, <1>14 DEF send, SendUpsert, Goto, Locals
  <2>2. ASSUME NEW t \in rest
        PROVE  /\ t.id > 0 /\ row'[<<b, t.snap>>].id = t.id
               /\ row'[<<c, t.snap>>].id <= ids
    <3>1. t \in T /\ t.snap \in Snap /\ <<b, t.snap>> \in Key /\ <<c, t.snap>> \in Key
      BY <1>5, <1>11 DEF Key
    <3>2. <<c, t.snap>> # k
      BY <1>11, <1>20
    <3>3. row'[<<b, t.snap>>] = row[<<b, t.snap>>] /\ row'[<<c, t.snap>>] = row[<<c, t.snap>>]
      BY <1>7, <1>8, <3>1, <3>2
    <3>4. QED
      BY <1>3, <1>4, <3>1, <3>3 DEF Promoting
  <2>3. \A t, u \in rest : t.id = u.id => t = u
    BY <1>3, <1>11 DEF Promoting
  <2>4. \A j \in Key : row'[j].date < loc'[p].date
    BY <1>4, <1>7, <2>1
  <2>5. ASSUME NEW U, U = rest
        PROVE  Promoting(p, b, c, U)'
    <3>1. \A j \in OnBranch(b) :
            Exists(<<c, j[2]>>)' \/ \E t \in U : t.id = row'[j].id /\ t.snap = j[2]
      BY <1>8, <1>9, <1>13, <2>5
    <3>2. QED
      BY <1>8, <2>1, <2>2, <2>3, <2>4, <2>5, <3>1 DEF Promoting
  <2>6. loc[p].fresh => LastIsNew(b, c)'
    <3>1. SUFFICES ASSUME loc[p].fresh, NEW j \in InForce(b)
                   PROVE  /\ ~Exists(<<c, j[2]>>)'
                          /\ \A i \in OnBranch(b) : row'[i].id <= row'[j].id
      BY <1>8 DEF LastIsNew
    <3>2. /\ ~Exists(<<c, j[2]>>) /\ j \in OnBranch(b)
          /\ \A i \in OnBranch(b) : row[i].id <= row[j].id
      BY <1>3, <3>1 DEF LastIsNew, InForce
    <3>3. \A i \in OnBranch(b) : row'[i] = row[i]
      BY <1>8, <1>9 DEF OnBranch
    <3>4. <<c, j[2]>> # k
      <4>1. SUFFICES ASSUME j[2] = s.snap PROVE FALSE
        BY <1>20
      <4>2. PICK t \in rest : TRUE
        BY <1>14 DEF send
      <4>3. row[j].id = s.id
        BY <1>2, <1>9, <1>10, <3>2, <4>1
      <4>4. t \in T /\ t.id <= s.id
        BY <1>10, <1>11, <3>2, <4>3
      <4>5. t.id = s.id
        BY <1>2, <1>5, <4>4
      <4>6. QED
        BY <1>2, <1>3, <4>4, <4>5 DEF Promoting, rest
    <3>5. ~Exists(<<c, j[2]>>)'
      BY <1>7, <1>9, <3>2, <3>4 DEF Exists
    <3>6. QED
      BY <3>2, <3>3, <3>5
  <2>7. QED
    BY <1>3, <1>8, <2>1, <2>5, <2>6
<1>15. CASE last
  <2>1. /\ pc'[p] = "pDone" /\ \A q \in Request : q # p => pc'[q] = pc[q]
        /\ loc'[p] = loc[p] /\ rest = {}
    BY <1>1, <1>2, <1>15 DEF last, Goto
  <2>2. \A j \in OnBranch(b) : Exists(<<c, j[2]>>)'
    BY <1>13, <2>1
  <2>3. ASSUME loc[p].fresh, NEW j \in InForce(b)
        PROVE  InForce(c)' = {<<c, j[2]>>}
    <3>1. ~Exists(<<c, j[2]>>) /\ j \in OnBranch(b)
      BY <1>3, <2>3 DEF LastIsNew, InForce
    <3>2. PICK t \in T : t.snap = j[2]
      BY <1>3, <3>1 DEF Promoting
    <3>3. t = s
      BY <2>1, <3>2 DEF rest
    <3>4. k = <<c, j[2]>> /\ ~Exists(k) /\ k[1] = c
      BY <1>20, <3>1, <3>2, <3>3
    <3>5. row'[k].date = loc[p].date /\ k \in OnBranch(c)'
      BY <1>2, <1>7, <3>4 DEF OnBranch
    <3>6. \A i \in Key : i # k => row'[i].date < row'[k].date
      BY <1>3, <1>7, <3>5 DEF Promoting
    <3>7. \A i \in OnBranch(c)' : i \in Key
      BY DEF OnBranch
    <3>8. \A i \in OnBranch(c)' : row'[i].date <= row'[k].date
      BY <1>4, <1>7, <3>5, <3>6, <3>7
    <3>9. k \in InForce(c)'
      BY <3>5, <3>8 DEF InForce
    <3>10. ASSUME NEW i \in InForce(c)'
           PROVE  i = k
      <4>1. i \in OnBranch(c)' /\ row'[k].date <= row'[i].date
        BY <3>5, <3>10 DEF InForce
      <4>2. row'[i].date \in Nat /\ row'[k].date \in Nat
        BY <1>2, <3>7, <4>1, NumbersNext DEF Ordered, Typed
      <4>3. QED
        BY <3>6, <3>7, <4>1, <4>2
    <3>11. QED
      BY <3>4, <3>9, <3>10
  <2>4. QED
    BY <1>3, <1>8, <2>1, <2>2, <2>3
<1>16. QED
  BY <1>6, <1>14, <1>15

\* An edit changes neither the ids nor the dates that a promotion goes by.
LEMMA SameOrder ==
  ASSUME Ordered, Alone, UNCHANGED <<pc, loc, lone>>,
         \A j \in Key : row'[j].id = row[j].id /\ row'[j].date = row[j].date
  PROVE  Alone'
<1>1. \A j \in Key : Exists(j)' <=> Exists(j)
  BY DEF Exists
<1>2. \A b : OnBranch(b)' = OnBranch(b) /\ \A j \in OnBranch(b) : j \in Key /\ j[2] \in Snap
  BY <1>1 DEF OnBranch, Key
<1>3. \A b : InForce(b)' = InForce(b) /\ \A j \in InForce(b) : j \in Key /\ j[2] \in Snap
  BY <1>2 DEF InForce
<1>4. ASSUME NEW p, NEW b \in Branch, NEW c \in Branch, NEW T \in SUBSET Source,
             Promoting(p, b, c, T)
      PROVE  Promoting(p, b, c, T)'
  <2>1. \A t \in T : <<b, t.snap>> \in Key /\ <<c, t.snap>> \in Key
    BY DEF Source, Key
  <2>2. \A j \in OnBranch(b) : <<c, j[2]>> \in Key
    BY <1>2 DEF Key
  <2>3. \A j \in OnBranch(b) : Exists(<<c, j[2]>>)' <=> Exists(<<c, j[2]>>)
    BY <1>1, <2>2
  <2>4. QED
    BY <1>2, <1>4, <2>1, <2>3 DEF Promoting
<1>5. ASSUME NEW b \in Branch, NEW c \in Branch
      PROVE  LastIsNew(b, c)' <=> LastIsNew(b, c)
  <2>1. \A j \in InForce(b) : Exists(<<c, j[2]>>)' <=> Exists(<<c, j[2]>>)
    BY <1>1, <1>3 DEF Key
  <2>2. QED
    BY <1>2, <1>3, <2>1 DEF LastIsNew
<1>6. \A b, c \in Branch : \A j \in OnBranch(b) : Exists(<<c, j[2]>>)' <=> Exists(<<c, j[2]>>)
  BY <1>1, <1>2 DEF Key
<1>7. QED
  BY <1>2, <1>3, <1>4, <1>5, <1>6 DEF Alone

LEMMA AloneStep ==
  ASSUME Ordered, Ordered', Alone, [Next]_vars
  PROVE  Alone'
<1>1. ASSUME NEW q \in Request, PromoteUpsert(q)
      PROVE  Alone'
  <2>1. lone' = lone
    BY <1>1 DEF PromoteUpsert
  <2>2. \A p \in lone : p = q
    BY <1>1, NobodyElse DEF PromoteUpsert
  <2>3. loc[q].from \in Branch /\ loc[q].to \in Branch
    BY <1>1, NextSourceType DEF PromoteUpsert, Ordered
  <2>4. PICK b \in Branch, c \in Branch : b = loc[q].from /\ c = loc[q].to
    BY <2>3
  <2>5. CASE q \in lone
    <3>1. /\ \A r \in Request : r # q => pc'[r] = "idle"
          /\ pc'[q] \in {"pUpsert", "pDone"}
          /\ loc'[q].from = b /\ loc'[q].to = c
          /\ OnBranch(b)' # {}
          /\ pc'[q] = "pUpsert" =>
               /\ \A T \in SUBSET Source : T = loc'[q].todo => Promoting(q, b, c, T)'
               /\ loc'[q].fresh => LastIsNew(b, c)'
          /\ pc'[q] = "pDone" =>
               /\ \A k \in OnBranch(b)' : Exists(<<c, k[2]>>)'
               /\ loc'[q].fresh => \A k \in InForce(b)' : InForce(c)' = {<<c, k[2]>>}
      BY <1>1, <2>4, <2>5, PromoteUpsertAlone
    <3>2. QED
      BY <2>1, <2>2, <3>1 DEF Alone
  <2>6. CASE q \notin lone
    BY <2>1, <2>2, <2>6 DEF Alone
  <2>7. QED
    BY <2>5, <2>6
<1>2. ASSUME NEW q \in Request, AcceptUpsert(q) \/ AcceptFind(q) \/ AcceptSave(q)
      PROVE  Alone'
  <2>1. lone' = lone /\ pc[q] \notin {"idle", "pUpsert", "pDone"}
    BY <1>2 DEF AcceptUpsert, AcceptFind, AcceptSave
  <2>2. lone' = {}
    BY <2>1, NobodyElse
  <2>3. QED
    BY <2>2 DEF Alone
<1>3. ASSUME NEW q \in Request, PromoteEnd(q) \/ Die(q)
      PROVE  Alone'
  <2>1. lone' = lone \ {q} /\ pc[q] # "idle"
    BY <1>3 DEF PromoteEnd, Die
  <2>2. lone' = {}
    BY <2>1, NobodyElse
  <2>3. QED
    BY <2>2 DEF Alone
<1>4. ASSUME NEW q \in Request, AcceptLast(q)
      PROVE  Alone'
  BY <1>4 DEF AcceptLast, Alone
<1>5. ASSUME NEW k \in Key, RemoveRow(k)
      PROVE  Alone'
  BY <1>5 DEF RemoveRow, Alone
<1>6. ASSUME NEW k \in Key, NEW g \in Regions, EditRegions(k, g)
      PROVE  Alone'
  <2>1. \A j \in Key : row'[j].id = row[j].id /\ row'[j].date = row[j].date
    BY <1>6 DEF EditRegions, Ordered, Typed, TypeOK, Row, NoRow
  <2>2. QED
    BY <1>6, <2>1, SameOrder DEF EditRegions
<1>7. CASE UNCHANGED vars
  BY <1>7, SameOrder DEF vars
<1>8. ASSUME NEW q \in Request, Step(q)
      PROVE  Alone'
  BY <1>1, <1>2, <1>3, <1>4, <1>8, PromoteFindAlone DEF Step
<1>9. QED
  BY <1>5, <1>6, <1>7, <1>8 DEF Next

\* A promotion that overlapped nothing brings about what it says: every baseline
\* of the source is one of the target, and the baseline in force on the source is
\* the one in force on the target, if the target never had it and the source's
\* rows were inserted in the order of their dates.  It is not so without these two
\* conditions (PromotedIsActive).
THEOREM PromotionsTakeOver == Spec => []PromotionTakesOver
<1>1. Init => Alone
  BY DEF Init, Alone
<1>2. Ordered /\ Ordered' /\ Alone /\ [Next]_vars => Alone'
  BY AloneStep
<1>3. Ordered /\ Alone => PromotionTakesOver
  <2>1. SUFFICES ASSUME Ordered, Alone, NEW p \in lone, pc[p] = "pDone", loc[p].fresh
                 PROVE  Taken(loc[p].from, loc[p].to)
    BY DEF PromotionTakesOver
  <2>2. p \in Request /\ loc[p].from \in Branch /\ loc[p].to \in Branch
    BY <2>1 DEF Ordered, Typed, TypeOK, Prepared
  <2>3. PICK b \in Branch, c \in Branch : b = loc[p].from /\ c = loc[p].to
    BY <2>2
  <2>4. /\ OnBranch(b) # {} /\ \A k \in OnBranch(b) : Exists(<<c, k[2]>>)
        /\ \A k \in InForce(b) : InForce(c) = {<<c, k[2]>>}
    BY <2>1, <2>3 DEF Alone
  <2>9. TypeOK
    BY <2>1 DEF Ordered, Typed
  <2>10. InForce(b) # {}
    BY <2>4, <2>9, NewestRow
  <2>5. PICK k \in InForce(b) : InForce(c) = {<<c, k[2]>>}
    BY <2>4, <2>10
  <2>6. InForce(b) = {k}
    BY <2>1, <2>5, OneInForce
  <2>7. {j[2] : j \in InForce(c)} = {j[2] : j \in InForce(b)}
    BY <2>5, <2>6
  <2>8. QED
    BY <2>3, <2>4, <2>7 DEF Taken
<1>4. QED
  BY <1>1, <1>2, <1>3, AlwaysOrdered, PTL DEF Spec
=============================================================================
