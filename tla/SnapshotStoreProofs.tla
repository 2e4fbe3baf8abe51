------------------------ MODULE SnapshotStoreProofs ------------------------
(* Theorems about SnapshotStore, for every set of requests, snapshots,      *)
(* identities and hashes.                                                   *)
EXTENDS SnapshotStore, TLAPS

-----------------------------------------------------------------------------
(* Type correctness.  TypeOK is not inductive: the types of what a step      *)
(* writes follow from what the request's earlier steps have set.             *)

Holding == CreateSteps \ {"access", "clone", "write"}
Uninserted == Holding \ {"finish"}

\* What each step of request p may rely on having been set.
ReqSet(p) ==
  /\ pc[p] \in {"access", "clone"} => loc[p].src \in Snap
  /\ pc[p] = "write" => loc[p].hash \in Hash
  /\ pc[p] \in CreateSteps => loc[p].ident \in Ident
  /\ pc[p] \in Holding => loc[p].cur \in Snap /\ doc[loc[p].cur] # "free"
  /\ pc[p] \in Uninserted => check[loc[p].cur].st = "none"
  /\ pc[p] \in {"inspect", "compare", "diffWrite", "diffSave", "insert", "finish"}
       => loc[p].base \in Snap
  /\ pc[p] \in AcceptSteps \cup RemoveSteps =>
       loc[p].chk \in Snap /\ check[loc[p].chk].st \in {"live", "gone"}
  /\ pc[p] \in RemoveSteps =>
       /\ check[loc[p].chk].st = "gone"
       /\ loc[p].stage = "diff" => check[loc[p].chk].diff \in Snap

CheckSet(c) == check[c].st # "none" =>
  /\ check[c].ident \in Ident
  /\ check[c].base \in Snap
  /\ doc[c] # "free"

\* Two requests never create the same snapshot.
DistinctCur ==
  \A p, q \in Request : p # q /\ pc[p] \in Holding /\ pc[q] \in Holding
    => loc[p].cur # loc[q].cur

TypeInv ==
  /\ TypeOK
  /\ \A p \in Request : ReqSet(p)
  /\ \A c \in Snap : CheckSet(c)
  /\ DistinctCur

LEMMA BlankType == Blank \in Locals
  BY DEF Blank, Locals, Stages

LEMMA TypeInit == Init => TypeInv
  BY BlankType, StoreAssumption DEF Init, TypeInv, TypeOK, ReqSet, CheckSet, DistinctCur,
     DocState, CheckRec, NoCheck, Steps, CreateSteps, RemoveSteps, AcceptSteps, Holding,
     Uninserted

\* A step of request p leaves the program counters and locals of the others.
OthersStay(p) == \A q \in Request \ {p} : pc'[q] = pc[q] /\ loc'[q] = loc[q]

\* What no step may undo: an issued id, and what is known of a check.
IdsStay == \A s \in Snap : doc[s] # "free" => doc'[s] # "free"

ChecksStay ==
  \A c \in Snap : check[c].st \in {"live", "gone"} =>
    /\ check'[c].st = check[c].st \/ (check[c].st = "live" /\ check'[c].st = "gone")
    /\ check'[c].diff = check[c].diff

\* A check that appears is the one request p is creating.
OnlyInserts(p) ==
  \A c \in Snap : check[c].st = "none" /\ check'[c].st # "none"
    => pc[p] \in Holding /\ c = loc[p].cur

LEMMA OthersKeepReqSet ==
  ASSUME TypeInv, NEW p \in Request, OthersStay(p), IdsStay, ChecksStay, OnlyInserts(p)
  PROVE  \A q \in Request \ {p} : ReqSet(q)'
  <1> SUFFICES ASSUME NEW q \in Request \ {p}
               PROVE  ReqSet(q)'
    OBVIOUS
  <1>1. ReqSet(q) /\ pc'[q] = pc[q] /\ loc'[q] = loc[q]
    BY DEF TypeInv, OthersStay
  <1>2. pc[q] \in Holding => doc'[loc[q].cur] # "free"
    BY <1>1 DEF ReqSet, IdsStay
  <1>3. pc[q] \in Uninserted => check'[loc[q].cur].st = "none"
    BY <1>1 DEF ReqSet, OnlyInserts, TypeInv, DistinctCur, Uninserted
  <1>4. pc[q] \in AcceptSteps \cup RemoveSteps => check'[loc[q].chk].st \in {"live", "gone"}
    BY <1>1 DEF ReqSet, ChecksStay
  <1>5. pc[q] \in RemoveSteps => check'[loc[q].chk].st = "gone"
    BY <1>1 DEF ReqSet, ChecksStay
  <1>6. pc[q] \in RemoveSteps /\ loc[q].stage = "diff" => check'[loc[q].chk].diff \in Snap
    BY <1>1 DEF ReqSet, ChecksStay
  <1> QED BY <1>1, <1>2, <1>3, <1>4, <1>5, <1>6 DEF ReqSet

\* A request's cur is carried over, or is an id never used before.
CurFresh(p) ==
  pc'[p] \in Holding => \/ pc[p] \in Holding /\ loc'[p].cur = loc[p].cur
                        \/ loc'[p].cur \in Snap /\ doc[loc'[p].cur] = "free"

\* What is left to prove of one step of one request.
LEMMA TypeStep ==
  ASSUME TypeInv, NEW p \in Request, OthersStay(p), IdsStay, ChecksStay, OnlyInserts(p),
         CurFresh(p), TypeOK', ReqSet(p)', \A c \in Snap : CheckSet(c)'
  PROVE  TypeInv'
  <1>1. DistinctCur'
    <2> SUFFICES ASSUME NEW q \in Request, NEW r \in Request, q # r,
                        pc'[q] \in Holding, pc'[r] \in Holding
                 PROVE  loc'[q].cur # loc'[r].cur
      BY DEF DistinctCur
    <2>1. CASE q # p /\ r # p
      BY <2>1 DEF OthersStay, TypeInv, DistinctCur
    <2>2. CASE q = p
      BY <2>2 DEF OthersStay, TypeInv, DistinctCur, CurFresh, ReqSet
    <2>3. CASE r = p
      BY <2>3 DEF OthersStay, TypeInv, DistinctCur, CurFresh, ReqSet
    <2> QED BY <2>1, <2>2, <2>3
  <1> QED BY <1>1, OthersKeepReqSet DEF TypeInv

LEMMA ChecksUnchanged ==
  ASSUME TypeInv, IdsStay, UNCHANGED check, NEW p \in Request
  PROVE  ChecksStay /\ OnlyInserts(p) /\ \A c \in Snap : CheckSet(c)'
  BY DEF TypeInv, IdsStay, ChecksStay, OnlyInserts, CheckSet

-----------------------------------------------------------------------------
(* One lemma per action *)

LEMMA LookupType ==
  ASSUME TypeInv, replicaSet' = replicaSet, NEW p \in Request, Lookup(p)
  PROVE  TypeInv'
  <1>1. /\ UNCHANGED <<doc, fname, imghash, file, row, clock, check, torn>>
        /\ pc[p] = "idle"
    BY DEF Lookup, docVars
  <1>2. PICK i \in Ident, h \in Hash, s \in Snap \cup {None} :
          \/ s \in Snap /\ Goto(p, "access")
             /\ loc' = [loc EXCEPT ![p] = [Blank EXCEPT !.ident = i, !.src = s]]
          \/ Goto(p, "write")
             /\ loc' = [loc EXCEPT ![p] = [Blank EXCEPT !.ident = i, !.hash = h]]
    BY DEF Lookup
  <1>3. /\ [Blank EXCEPT !.ident = i, !.src = s] \in Locals
        /\ [Blank EXCEPT !.ident = i, !.hash = h] \in Locals
    BY DEF Blank, Locals, Stages
  <1>4. TypeOK' /\ OthersStay(p) /\ pc'[p] \in {"access", "write"}
    BY <1>1, <1>2, <1>3 DEF TypeInv, TypeOK, Goto, OthersStay, Steps, CreateSteps
  <1>5. ReqSet(p)'
    <2> USE <1>2 DEF TypeInv, TypeOK, Goto, ReqSet, Blank, CreateSteps, Holding, Uninserted,
         AcceptSteps, RemoveSteps
    <2>1. CASE pc'[p] = "access"  BY <2>1
    <2>2. CASE pc'[p] = "write"  BY <2>2
    <2> QED BY <1>4, <2>1, <2>2
  <1>6. IdsStay /\ CurFresh(p)
    BY <1>1, <1>4 DEF IdsStay, CurFresh, Holding, CreateSteps
  <1> QED BY <1>1, <1>4, <1>5, <1>6, ChecksUnchanged, TypeStep

LEMMA AccessType ==
  ASSUME TypeInv, replicaSet' = replicaSet, NEW p \in Request, Access(p)
  PROVE  TypeInv'
  <1>1. /\ UNCHANGED <<doc, fname, imghash, file, row, clock, check, torn, loc>>
        /\ pc[p] = "access" /\ pc' = [pc EXCEPT ![p] = "clone"]
    BY DEF Access, docVars, Goto
  <1>2. TypeOK' /\ OthersStay(p) /\ pc'[p] = "clone"
    BY <1>1 DEF TypeInv, TypeOK, OthersStay, Steps, CreateSteps
  <1>3. ReqSet(p)'
    BY <1>1, <1>2 DEF TypeInv, ReqSet, CreateSteps, Holding, Uninserted, AcceptSteps,
       RemoveSteps
  <1>4. IdsStay /\ CurFresh(p)
    BY <1>1, <1>2 DEF IdsStay, CurFresh, Holding, CreateSteps
  <1> QED BY <1>1, <1>2, <1>3, <1>4, ChecksUnchanged, TypeStep

LEMMA CloneType ==
  ASSUME TypeInv, replicaSet' = replicaSet, NEW p \in Request, Clone(p)
  PROVE  TypeInv'
  <1>1. PICK s \in Snap :
          /\ doc[s] = "free"
          /\ doc' = [doc EXCEPT ![s] = Inserted]
          /\ fname' = [fname EXCEPT ![s] = fname[loc[p].src]]
          /\ imghash' = [imghash EXCEPT ![s] = imghash[loc[p].src]]
          /\ loc' = [loc EXCEPT ![p].cur = s]
    BY DEF Clone
  <1>2. /\ UNCHANGED <<file, row, clock, check, torn>>
        /\ pc[p] = "clone" /\ pc' = [pc EXCEPT ![p] = "find"]
    BY DEF Clone, Goto
  <1>3. loc[p].src \in Snap /\ loc[p].ident \in Ident /\ Inserted \in {"tx", "saved"}
    BY <1>2 DEF TypeInv, ReqSet, CreateSteps, Inserted
  <1>4. loc' \in [Request -> Locals] /\ loc'[p].cur = s /\ loc'[p].ident = loc[p].ident
    BY <1>1 DEF TypeInv, TypeOK, Locals
  <1>5. TypeOK' /\ OthersStay(p) /\ pc'[p] = "find"
    BY <1>1, <1>2, <1>3, <1>4 DEF TypeInv, TypeOK, OthersStay, Steps, CreateSteps, DocState
  <1>6. IdsStay /\ CurFresh(p)
    BY <1>1, <1>3, <1>4 DEF TypeInv, TypeOK, IdsStay, CurFresh
  <1>7. ReqSet(p)'
    BY <1>1, <1>2, <1>3, <1>4, <1>5 DEF TypeInv, TypeOK, ReqSet, CheckSet, CreateSteps, Holding,
       Uninserted, AcceptSteps, RemoveSteps
  <1> QED BY <1>2, <1>5, <1>6, <1>7, ChecksUnchanged, TypeStep

LEMMA WriteFileType ==
  ASSUME TypeInv, replicaSet' = replicaSet, NEW p \in Request, WriteFile(p)
  PROVE  TypeInv'
  <1>1. PICK s \in Snap :
          /\ doc[s] = "free"
          /\ doc' = [doc EXCEPT ![s] = "new"]
          /\ imghash' = [imghash EXCEPT ![s] = loc[p].hash]
          /\ file' = file \cup {s}
          /\ loc' = [loc EXCEPT ![p].cur = s]
    BY DEF WriteFile
  <1>2. /\ UNCHANGED <<fname, row, clock, check, torn>>
        /\ pc[p] = "write" /\ pc' = [pc EXCEPT ![p] = "save"]
    BY DEF WriteFile, Goto
  <1>3. loc[p].hash \in Hash /\ loc[p].ident \in Ident
    BY <1>2 DEF TypeInv, ReqSet, CreateSteps
  <1>4. loc' \in [Request -> Locals] /\ loc'[p].cur = s /\ loc'[p].ident = loc[p].ident
    BY <1>1 DEF TypeInv, TypeOK, Locals
  <1>5. TypeOK' /\ OthersStay(p) /\ pc'[p] = "save"
    BY <1>1, <1>2, <1>3, <1>4 DEF TypeInv, TypeOK, OthersStay, Steps, CreateSteps, DocState
  <1>6. IdsStay /\ CurFresh(p)
    BY <1>1, <1>4 DEF TypeInv, TypeOK, IdsStay, CurFresh
  <1>7. ReqSet(p)'
    BY <1>1, <1>2, <1>3, <1>4, <1>5 DEF TypeInv, TypeOK, ReqSet, CheckSet, CreateSteps, Holding,
       Uninserted, AcceptSteps, RemoveSteps
  <1> QED BY <1>2, <1>5, <1>6, <1>7, ChecksUnchanged, TypeStep

LEMMA SaveDocType ==
  ASSUME TypeInv, replicaSet' = replicaSet, NEW p \in Request, SaveDoc(p)
  PROVE  TypeInv'
  <1>1. /\ UNCHANGED <<fname, imghash, file, row, clock, check, torn, loc>>
        /\ pc[p] = "save" /\ pc' = [pc EXCEPT ![p] = "find"]
        /\ doc' = [doc EXCEPT ![loc[p].cur] = Inserted]
        /\ Inserted \in {"tx", "saved"}
    BY DEF SaveDoc, Goto, Inserted
  <1>2. TypeOK' /\ OthersStay(p) /\ pc'[p] = "find"
    BY <1>1 DEF TypeInv, TypeOK, OthersStay, Steps, CreateSteps, DocState
  <1>3. IdsStay /\ CurFresh(p)
    BY <1>1 DEF TypeInv, TypeOK, IdsStay, CurFresh, Holding, CreateSteps
  <1>4. ReqSet(p)'
    BY <1>1, <1>2, <1>3 DEF TypeInv, IdsStay, ReqSet, CreateSteps, Holding, Uninserted,
       AcceptSteps, RemoveSteps
  <1> QED BY <1>1, <1>2, <1>3, <1>4, ChecksUnchanged, TypeStep

LEMMA FindBaselineType ==
  ASSUME TypeInv, replicaSet' = replicaSet, NEW p \in Request, FindBaseline(p)
  PROVE  TypeInv'
  <1>1. /\ UNCHANGED <<doc, fname, imghash, file, row, clock, check, torn>>
        /\ pc[p] = "find"
    BY DEF FindBaseline, docVars
  <1>2. PICK s \in Snap :
          /\ loc' = [loc EXCEPT ![p].base = s]
          /\ Goto(p, "insert") \/ Goto(p, "inspect")
    <2>1. loc[p].cur \in Snap
      BY <1>1 DEF TypeInv, ReqSet, Holding, CreateSteps
    <2> QED BY <2>1 DEF FindBaseline, RowsOf
  <1>3. /\ loc' \in [Request -> Locals] /\ loc'[p].base = s
        /\ loc'[p].ident = loc[p].ident /\ loc'[p].cur = loc[p].cur
    BY <1>2 DEF TypeInv, TypeOK, Locals
  <1>4. TypeOK' /\ OthersStay(p) /\ pc'[p] \in {"insert", "inspect"}
    BY <1>1, <1>2, <1>3 DEF TypeInv, TypeOK, Goto, OthersStay, Steps, CreateSteps
  <1>5. ReqSet(p)'
    BY <1>1, <1>3, <1>4 DEF TypeInv, ReqSet, CreateSteps, Holding, Uninserted, AcceptSteps,
       RemoveSteps
  <1>6. IdsStay /\ CurFresh(p)
    BY <1>1, <1>3 DEF IdsStay, CurFresh, Holding, CreateSteps
  <1> QED BY <1>1, <1>4, <1>5, <1>6, ChecksUnchanged, TypeStep

LEMMA InspectType ==
  ASSUME TypeInv, replicaSet' = replicaSet, NEW p \in Request, Inspect(p)
  PROVE  TypeInv'
  <1>1. /\ UNCHANGED <<doc, fname, imghash, file, row, clock, check, torn>>
        /\ pc[p] = "inspect"
    BY DEF Inspect, docVars
  <1>2. PICK s \in Snap :
          /\ loc' = [loc EXCEPT ![p].base = s]
          /\ Goto(p, "insert") \/ Goto(p, "compare")
    <2>1. loc[p].cur \in Snap /\ loc[p].base \in Snap
      BY <1>1 DEF TypeInv, ReqSet, Holding, CreateSteps
    <2>2. loc = [loc EXCEPT ![p].base = loc[p].base]
      BY DEF TypeInv, TypeOK, Locals
    <2> QED BY <2>1, <2>2 DEF Inspect
  <1>3. /\ loc' \in [Request -> Locals] /\ loc'[p].base = s
        /\ loc'[p].ident = loc[p].ident /\ loc'[p].cur = loc[p].cur
    BY <1>2 DEF TypeInv, TypeOK, Locals
  <1>4. TypeOK' /\ OthersStay(p) /\ pc'[p] \in {"insert", "compare"}
    BY <1>1, <1>2, <1>3 DEF TypeInv, TypeOK, Goto, OthersStay, Steps, CreateSteps
  <1>5. ReqSet(p)'
    BY <1>1, <1>3, <1>4 DEF TypeInv, ReqSet, CreateSteps, Holding, Uninserted, AcceptSteps,
       RemoveSteps
  <1>6. IdsStay /\ CurFresh(p)
    BY <1>1, <1>3 DEF IdsStay, CurFresh, Holding, CreateSteps
  <1> QED BY <1>1, <1>4, <1>5, <1>6, ChecksUnchanged, TypeStep

LEMMA CompareType ==
  ASSUME TypeInv, replicaSet' = replicaSet, NEW p \in Request, Compare(p)
  PROVE  TypeInv'
  <1>1. /\ UNCHANGED <<doc, fname, imghash, file, row, clock, check, torn, loc>>
        /\ pc[p] = "compare"
        /\ Goto(p, "insert") \/ Goto(p, "diffWrite")
    BY DEF Compare, docVars
  <1>2. TypeOK' /\ OthersStay(p) /\ pc'[p] \in {"insert", "diffWrite"}
    BY <1>1 DEF TypeInv, TypeOK, Goto, OthersStay, Steps, CreateSteps
  <1>3. ReqSet(p)'
    BY <1>1, <1>2 DEF TypeInv, ReqSet, CreateSteps, Holding, Uninserted, AcceptSteps,
       RemoveSteps
  <1>4. IdsStay /\ CurFresh(p)
    BY <1>1 DEF IdsStay, CurFresh, Holding, CreateSteps
  <1> QED BY <1>1, <1>2, <1>3, <1>4, ChecksUnchanged, TypeStep

LEMMA DiffWriteType ==
  ASSUME TypeInv, replicaSet' = replicaSet, NEW p \in Request, DiffWrite(p)
  PROVE  TypeInv'
  <1>1. PICK s \in Snap :
          /\ doc[s] = "free"
          /\ doc' = [doc EXCEPT ![s] = "new"]
          /\ file' = file \cup {s}
          /\ loc' = [loc EXCEPT ![p].diff = s]
    BY DEF DiffWrite
  <1>2. /\ UNCHANGED <<fname, imghash, row, clock, check, torn>>
        /\ pc[p] = "diffWrite" /\ pc' = [pc EXCEPT ![p] = "diffSave"]
    BY DEF DiffWrite, Goto
  <1>3. /\ loc' \in [Request -> Locals] /\ loc'[p].base = loc[p].base
        /\ loc'[p].ident = loc[p].ident /\ loc'[p].cur = loc[p].cur
    BY <1>1 DEF TypeInv, TypeOK, Locals
  <1>4. TypeOK' /\ OthersStay(p) /\ pc'[p] = "diffSave"
    BY <1>1, <1>2, <1>3 DEF TypeInv, TypeOK, OthersStay, Steps, CreateSteps, DocState
  <1>5. IdsStay /\ CurFresh(p)
    BY <1>1, <1>2, <1>3 DEF TypeInv, TypeOK, IdsStay, CurFresh, Holding, CreateSteps
  <1>6. ReqSet(p)'
    BY <1>1, <1>2, <1>3, <1>4, <1>5 DEF TypeInv, IdsStay, ReqSet, CreateSteps, Holding,
       Uninserted, AcceptSteps, RemoveSteps
  <1> QED BY <1>2, <1>4, <1>5, <1>6, ChecksUnchanged, TypeStep

LEMMA DiffSaveType ==
  ASSUME TypeInv, replicaSet' = replicaSet, NEW p \in Request, DiffSave(p)
  PROVE  TypeInv'
  <1>1. /\ UNCHANGED <<fname, imghash, file, row, clock, check, torn, loc>>
        /\ pc[p] = "diffSave" /\ pc' = [pc EXCEPT ![p] = "insert"]
        /\ doc' = [doc EXCEPT ![loc[p].diff] = Inserted]
        /\ Inserted \in {"tx", "saved"}
    BY DEF DiffSave, Goto, Inserted
  <1>2. TypeOK' /\ OthersStay(p) /\ pc'[p] = "insert"
    BY <1>1 DEF TypeInv, TypeOK, OthersStay, Steps, CreateSteps, DocState
  <1>3. IdsStay /\ CurFresh(p)
    BY <1>1 DEF TypeInv, TypeOK, IdsStay, CurFresh, Holding, CreateSteps
  <1>4. ReqSet(p)'
    BY <1>1, <1>2, <1>3 DEF TypeInv, IdsStay, ReqSet, CreateSteps, Holding, Uninserted,
       AcceptSteps, RemoveSteps
  <1> QED BY <1>1, <1>2, <1>3, <1>4, ChecksUnchanged, TypeStep

LEMMA InsertCheckType ==
  ASSUME TypeInv, replicaSet' = replicaSet, NEW p \in Request, InsertCheck(p)
  PROVE  TypeInv'
  <1>1. PICK st \in {"tx", "live"} :
          check' = [check EXCEPT ![loc[p].cur] =
                      [st |-> st, ident |-> loc[p].ident,
                       base |-> loc[p].base, diff |-> loc[p].diff]]
    BY DEF InsertCheck
  <1>2. /\ UNCHANGED <<doc, fname, imghash, file, row, clock, torn, loc>>
        /\ pc[p] = "insert" /\ pc' = [pc EXCEPT ![p] = "finish"]
    BY DEF InsertCheck, Goto, docVars
  <1>3. /\ loc[p].cur \in Snap /\ doc[loc[p].cur] # "free" /\ loc[p].base \in Snap
        /\ loc[p].ident \in Ident /\ check[loc[p].cur].st = "none"
    BY <1>2 DEF TypeInv, ReqSet, CreateSteps, Holding, Uninserted
  <1>4. loc[p].diff \in Snap \cup {None}
    BY DEF TypeInv, TypeOK, Locals
  <1>5. check' \in [Snap -> CheckRec]
    BY <1>1, <1>3, <1>4 DEF TypeInv, TypeOK, CheckRec
  <1>6. TypeOK' /\ OthersStay(p) /\ pc'[p] = "finish"
    BY <1>2, <1>5 DEF TypeInv, TypeOK, OthersStay, Steps, CreateSteps
  <1>7. ReqSet(p)'
    BY <1>2, <1>3, <1>6 DEF TypeInv, ReqSet, CreateSteps, Holding, Uninserted, AcceptSteps,
       RemoveSteps
  <1>8. IdsStay /\ CurFresh(p) /\ ChecksStay /\ OnlyInserts(p)
    BY <1>1, <1>2, <1>3 DEF TypeInv, TypeOK, IdsStay, CurFresh, ChecksStay, OnlyInserts,
       Holding, CreateSteps
  <1>9. \A c \in Snap : CheckSet(c)'
    BY <1>1, <1>2, <1>3 DEF TypeInv, TypeOK, CheckSet
  <1> QED BY <1>6, <1>7, <1>8, <1>9, TypeStep

LEMMA CommitType ==
  ASSUME TypeInv, replicaSet' = replicaSet, NEW p \in Request, Commit(p)
  PROVE  TypeInv'
  <1>1. /\ UNCHANGED <<fname, imghash, file, row, clock, torn>>
        /\ pc[p] = "finish" /\ pc' = [pc EXCEPT ![p] = "idle"]
        /\ loc' = [loc EXCEPT ![p] = Blank]
        /\ doc' = [s \in Snap |-> IF s \in {loc[p].cur, loc[p].diff} /\ doc[s] = "tx"
                                  THEN "saved" ELSE doc[s]]
    BY DEF Commit, Goto, Finish
  <1>2. check' = [check EXCEPT ![loc[p].cur].st =
                    IF check[loc[p].cur].st = "tx" THEN "live" ELSE check[loc[p].cur].st]
    BY DEF Commit
  <1>3. loc[p].cur \in Snap
    BY <1>1 DEF TypeInv, ReqSet, CreateSteps, Holding
  <1>4. check' \in [Snap -> CheckRec]
    BY <1>2, <1>3 DEF TypeInv, TypeOK, CheckRec
  <1>5. TypeOK' /\ OthersStay(p) /\ pc'[p] = "idle"
    BY <1>1, <1>4, BlankType DEF TypeInv, TypeOK, OthersStay, Steps, DocState
  <1>6. ReqSet(p)' /\ CurFresh(p)
    BY <1>5 DEF ReqSet, CurFresh, CreateSteps, Holding, Uninserted, AcceptSteps, RemoveSteps
  <1>7. IdsStay /\ ChecksStay /\ OnlyInserts(p)
    BY <1>1, <1>2, <1>3 DEF TypeInv, TypeOK, CheckRec, IdsStay, ChecksStay, OnlyInserts
  <1>8. \A c \in Snap : CheckSet(c)'
    BY <1>1, <1>2, <1>3, <1>7 DEF TypeInv, TypeOK, CheckRec, CheckSet, IdsStay
  <1> QED BY <1>5, <1>6, <1>7, <1>8, TypeStep

\* Rolling back leaves used ids used and visible checks alone.
LEMMA RollBackType ==
  ASSUME TypeInv, NEW p \in Request, RollBackDocs(p)
  PROVE  /\ doc' \in [Snap -> DocState] /\ check' \in [Snap -> CheckRec]
         /\ IdsStay /\ ChecksStay /\ OnlyInserts(p)
         /\ \A c \in Snap : CheckSet(c)'
  <1>1. NoCheck \in CheckRec /\ NoCheck.st = "none"
    BY DEF NoCheck, CheckRec
  <1>2. doc' \in [Snap -> DocState] /\ check' \in [Snap -> CheckRec]
    BY <1>1 DEF RollBackDocs, TypeInv, TypeOK, DocState
  <1>3. IdsStay /\ ChecksStay /\ OnlyInserts(p)
    BY <1>1 DEF RollBackDocs, IdsStay, ChecksStay, OnlyInserts
  <1>4. \A c \in Snap : CheckSet(c)'
    BY <1>1, <1>3 DEF RollBackDocs, TypeInv, CheckSet, IdsStay
  <1> QED BY <1>2, <1>3, <1>4

LEMMA FailType ==
  ASSUME TypeInv, replicaSet' = replicaSet, NEW p \in Request, Fail(p)
  PROVE  TypeInv'
  <1>1. /\ UNCHANGED <<fname, imghash, file, row, clock, torn>>
        /\ RollBackDocs(p)
    BY DEF Fail
  <1>2. PICK l \in Locals :
          loc' = [loc EXCEPT ![p] = l] /\ (Goto(p, "idle") \/ Goto(p, "cleanup"))
    <2>1. CASE Finish(p)
      BY <2>1, BlankType DEF Finish
    <2>2. CASE /\ Goto(p, "cleanup")
               /\ loc' = [loc EXCEPT ![p].diff = IF pc[p] = "diffSave" THEN None ELSE @]
      <3>1. [loc[p] EXCEPT !.diff = IF pc[p] = "diffSave" THEN None ELSE @] \in Locals
        BY DEF TypeInv, TypeOK, Locals
      <3> QED BY <2>2, <3>1
    <2> QED BY <2>1, <2>2 DEF Fail
  <1>3. TypeOK' /\ OthersStay(p) /\ pc'[p] \in {"idle", "cleanup"}
    BY <1>1, <1>2, RollBackType DEF TypeInv, TypeOK, OthersStay, Steps, Goto
  <1>4. ReqSet(p)' /\ CurFresh(p)
    BY <1>3 DEF ReqSet, CurFresh, CreateSteps, Holding, Uninserted, AcceptSteps, RemoveSteps
  <1> QED BY <1>1, <1>3, <1>4, RollBackType, TypeStep

LEMMA CleanupType ==
  ASSUME TypeInv, replicaSet' = replicaSet, NEW p \in Request, Cleanup(p)
  PROVE  TypeInv'
  <1>1. /\ UNCHANGED <<doc, fname, imghash, row, clock, check, torn>>
        /\ pc' = [pc EXCEPT ![p] = "idle"] /\ loc' = [loc EXCEPT ![p] = Blank]
        /\ file' = file \ CleanupFiles(p)
    BY DEF Cleanup, Finish, Goto, docVars
  <1>2. TypeOK' /\ OthersStay(p) /\ pc'[p] = "idle"
    BY <1>1, BlankType DEF TypeInv, TypeOK, OthersStay, Steps
  <1>3. ReqSet(p)' /\ CurFresh(p) /\ IdsStay
    BY <1>1, <1>2 DEF ReqSet, CurFresh, IdsStay, CreateSteps, Holding, Uninserted, AcceptSteps,
       RemoveSteps
  <1> QED BY <1>1, <1>2, <1>3, ChecksUnchanged, TypeStep

LEMMA AcceptStartType ==
  ASSUME TypeInv, replicaSet' = replicaSet, NEW p \in Request, AcceptStart(p)
  PROVE  TypeInv'
  <1>1. PICK c \in Snap, link \in BOOLEAN :
          /\ check[c].st = "live"
          /\ loc' = [loc EXCEPT ![p] = [Blank EXCEPT !.chk = c, !.link = link]]
    BY DEF AcceptStart
  <1>2. /\ UNCHANGED <<doc, fname, imghash, file, row, clock, check, torn>>
        /\ pc' = [pc EXCEPT ![p] = "aUpsert"]
    BY DEF AcceptStart, Goto, docVars
  <1>3. [Blank EXCEPT !.chk = c, !.link = link] \in Locals
    BY DEF Blank, Locals, Stages
  <1>4. loc' \in [Request -> Locals] /\ loc'[p].chk = c
    BY <1>1, <1>3 DEF TypeInv, TypeOK, Blank
  <1>5. TypeOK' /\ OthersStay(p) /\ pc'[p] = "aUpsert"
    BY <1>1, <1>2, <1>4 DEF TypeInv, TypeOK, OthersStay, Steps, AcceptSteps
  <1>6. ReqSet(p)' /\ CurFresh(p) /\ IdsStay
    BY <1>1, <1>2, <1>4, <1>5 DEF ReqSet, CurFresh, IdsStay, CreateSteps, Holding, Uninserted,
       AcceptSteps, RemoveSteps
  <1> QED BY <1>2, <1>5, <1>6, ChecksUnchanged, TypeStep

LEMMA AcceptUpsertType ==
  ASSUME TypeInv, replicaSet' = replicaSet, NEW p \in Request, AcceptUpsert(p)
  PROVE  TypeInv'
  <1>1. /\ UNCHANGED <<doc, fname, imghash, file, check, torn, loc>>
        /\ pc[p] = "aUpsert" /\ pc' = [pc EXCEPT ![p] = "aSave"]
    BY DEF AcceptUpsert, Goto, docVars
  <1>2. row' \in [Ident \X Snap -> Nat] /\ clock' \in Nat
    BY DEF AcceptUpsert, TypeInv, TypeOK
  <1>3. TypeOK' /\ OthersStay(p) /\ pc'[p] = "aSave"
    BY <1>1, <1>2 DEF TypeInv, TypeOK, OthersStay, Steps, AcceptSteps
  <1>4. ReqSet(p)' /\ CurFresh(p) /\ IdsStay
    BY <1>1, <1>3 DEF TypeInv, ReqSet, CurFresh, IdsStay, CreateSteps, Holding, Uninserted,
       AcceptSteps, RemoveSteps
  <1> QED BY <1>1, <1>3, <1>4, ChecksUnchanged, TypeStep

LEMMA AcceptSaveType ==
  ASSUME TypeInv, replicaSet' = replicaSet, NEW p \in Request, AcceptSave(p)
  PROVE  TypeInv'
  <1>1. /\ UNCHANGED <<doc, fname, imghash, file, row, clock, torn>>
        /\ pc[p] = "aSave" /\ pc' = [pc EXCEPT ![p] = "idle"]
        /\ loc' = [loc EXCEPT ![p] = Blank]
    BY DEF AcceptSave, Finish, Goto, docVars
  <1>2. /\ loc[p].chk \in Snap
        /\ check[loc[p].chk].base \in Snap
    BY <1>1 DEF TypeInv, ReqSet, CheckSet, AcceptSteps
  <1>3. PICK b \in Snap : check' = [check EXCEPT ![loc[p].chk].base = b]
    <2>1. CASE check[loc[p].chk].st = "live" /\ loc[p].link
      BY <1>2, <2>1 DEF AcceptSave
    <2>2. CASE ~(check[loc[p].chk].st = "live" /\ loc[p].link)
      BY <1>2, <2>2 DEF AcceptSave
    <2> QED BY <2>1, <2>2
  <1>4. check' \in [Snap -> CheckRec]
    <2>1. [check[loc[p].chk] EXCEPT !.base = b] \in CheckRec
      BY <1>2 DEF TypeInv, TypeOK, CheckRec
    <2> QED BY <1>3, <2>1 DEF TypeInv, TypeOK
  <1>5. TypeOK' /\ OthersStay(p) /\ pc'[p] = "idle"
    BY <1>1, <1>4, BlankType DEF TypeInv, TypeOK, OthersStay, Steps
  <1>6. ReqSet(p)' /\ CurFresh(p) /\ IdsStay
    BY <1>1, <1>5 DEF ReqSet, CurFresh, IdsStay, CreateSteps, Holding, Uninserted,
       AcceptSteps, RemoveSteps
  <1>7. ChecksStay /\ OnlyInserts(p) /\ \A c \in Snap : CheckSet(c)'
    BY <1>1, <1>2, <1>3 DEF TypeInv, TypeOK, CheckRec, ChecksStay, OnlyInserts, CheckSet
  <1> QED BY <1>5, <1>6, <1>7, TypeStep

LEMMA RemoveStartType ==
  ASSUME TypeInv, replicaSet' = replicaSet, NEW p \in Request, RemoveStart(p)
  PROVE  TypeInv'
  <1>1. PICK c \in Snap :
          /\ check[c].st = "live"
          /\ check' = [check EXCEPT ![c].st = "gone"]
          /\ loc' = [loc EXCEPT ![p] = [Blank EXCEPT !.chk = c]]
    BY DEF RemoveStart
  <1>2. /\ UNCHANGED <<doc, fname, imghash, file, row, clock, torn>>
        /\ pc' = [pc EXCEPT ![p] = "rBaseline"]
    BY DEF RemoveStart, Goto, docVars
  <1>3. [Blank EXCEPT !.chk = c] \in Locals
    BY DEF Blank, Locals, Stages
  <1>4. /\ loc' \in [Request -> Locals] /\ loc'[p].chk = c /\ loc'[p].stage = "base"
    BY <1>1, <1>3 DEF TypeInv, TypeOK, Blank
  <1>5. check' \in [Snap -> CheckRec] /\ check'[c].st = "gone"
    BY <1>1 DEF TypeInv, TypeOK, CheckRec
  <1>6. TypeOK' /\ OthersStay(p) /\ pc'[p] = "rBaseline"
    BY <1>1, <1>2, <1>4, <1>5 DEF TypeInv, TypeOK, OthersStay, Steps, RemoveSteps
  <1>7. ReqSet(p)' /\ CurFresh(p) /\ IdsStay
    BY <1>2, <1>4, <1>5, <1>6 DEF ReqSet, CurFresh, IdsStay, CreateSteps, Holding, Uninserted,
       AcceptSteps, RemoveSteps
  <1>8. ChecksStay /\ OnlyInserts(p) /\ \A d \in Snap : CheckSet(d)'
    BY <1>1, <1>2 DEF TypeInv, TypeOK, CheckRec, ChecksStay, OnlyInserts, CheckSet
  <1> QED BY <1>6, <1>7, <1>8, TypeStep

\* Going on to the next snapshot of a removed check, or ending the request.
LEMMA NextTargetType ==
  ASSUME TypeInv, NEW p \in Request, pc[p] \in RemoveSteps, NextTarget(p), UNCHANGED check
  PROVE  /\ pc' \in [Request -> Steps] /\ loc' \in [Request -> Locals]
         /\ OthersStay(p) /\ ReqSet(p)' /\ CurFresh(p)
  <1>1. /\ loc[p].chk \in Snap /\ check[loc[p].chk].st = "gone"
        /\ loc[p].stage = "diff" => check[loc[p].chk].diff \in Snap
        /\ check[loc[p].chk].diff \in Snap \cup {None}
    BY DEF TypeInv, TypeOK, ReqSet, CheckRec
  <1>2. CASE Finish(p)
    BY <1>2, BlankType DEF Finish, Goto, TypeInv, TypeOK, OthersStay, Steps, ReqSet, CurFresh,
       CreateSteps, Holding, Uninserted, AcceptSteps, RemoveSteps
  <1>3. ASSUME NEW st \in {"actual", "diff"}, Goto(p, "rBaseline"),
               loc' = [loc EXCEPT ![p].stage = st, ![p].last = FALSE],
               st = "diff" => check[loc[p].chk].diff \in Snap
        PROVE  /\ pc' \in [Request -> Steps] /\ loc' \in [Request -> Locals]
               /\ OthersStay(p) /\ ReqSet(p)' /\ CurFresh(p)
    <2>1. loc' \in [Request -> Locals] /\ loc'[p].chk = loc[p].chk /\ loc'[p].stage = st
      <3> DEFINE l == [loc[p] EXCEPT !.stage = st, !.last = FALSE]
      <3>1. l \in Locals /\ l.chk = loc[p].chk /\ l.stage = st
        BY DEF TypeInv, TypeOK, Locals, Stages
      <3>2. loc' = [loc EXCEPT ![p] = l]
        BY <1>3 DEF TypeInv, TypeOK
      <3> QED BY <3>1, <3>2 DEF TypeInv, TypeOK
    <2>2. pc' \in [Request -> Steps] /\ OthersStay(p) /\ pc'[p] = "rBaseline"
      BY <1>3 DEF TypeInv, TypeOK, Goto, OthersStay, Steps, RemoveSteps
    <2>3. ReqSet(p)' /\ CurFresh(p)
      BY <1>1, <1>3, <2>1, <2>2 DEF ReqSet, CurFresh, CreateSteps, Holding, Uninserted,
         AcceptSteps, RemoveSteps
    <2> QED BY <2>1, <2>2, <2>3
  <1>4. CASE /\ loc' = [loc EXCEPT ![p].stage = "actual", ![p].last = FALSE]
             /\ Goto(p, "rBaseline")
    BY <1>3, <1>4
  <1>5. CASE /\ check[loc[p].chk].diff # None
             /\ loc' = [loc EXCEPT ![p].stage = "diff", ![p].last = FALSE]
             /\ Goto(p, "rBaseline")
    BY <1>1, <1>3, <1>5
  <1> QED BY <1>2, <1>4, <1>5 DEF NextTarget

\* A remover's step within the removal of one snapshot.
LEMMA SameTargetType ==
  ASSUME TypeInv, NEW p \in Request, pc[p] \in RemoveSteps, NEW to \in RemoveSteps,
         NEW l \in BOOLEAN, Goto(p, to), loc' = [loc EXCEPT ![p].last = l], UNCHANGED check
  PROVE  /\ pc' \in [Request -> Steps] /\ loc' \in [Request -> Locals]
         /\ OthersStay(p) /\ ReqSet(p)' /\ CurFresh(p)
  <1>1. /\ loc' \in [Request -> Locals] /\ loc'[p].chk = loc[p].chk
        /\ loc'[p].stage = loc[p].stage
    BY DEF TypeInv, TypeOK, Locals
  <1>2. pc' \in [Request -> Steps] /\ OthersStay(p) /\ pc'[p] = to
    BY DEF TypeInv, TypeOK, Goto, OthersStay, Steps
  <1>3. ReqSet(p)' /\ CurFresh(p)
    BY <1>1, <1>2 DEF TypeInv, ReqSet, CurFresh, CreateSteps, Holding, Uninserted, AcceptSteps,
       RemoveSteps
  <1> QED BY <1>1, <1>2, <1>3

\* The steps of a remover that touch neither documents nor files.
LEMMA RemoveReadType ==
  ASSUME TypeInv, replicaSet' = replicaSet, NEW p \in Request,
         RemoveCheckBaseline(p) \/ RemoveFindDoc(p) \/ RemoveFindOthers(p)
  PROVE  TypeInv'
  <1>1. /\ UNCHANGED <<doc, fname, imghash, file, row, clock, check, torn>>
        /\ pc[p] \in RemoveSteps
    BY DEF RemoveCheckBaseline, RemoveFindDoc, RemoveFindOthers, RemoveSteps, docVars
  <1>2. loc = [loc EXCEPT ![p].last = loc[p].last] /\ loc[p].last \in BOOLEAN
    BY DEF TypeInv, TypeOK, Locals
  <1>3. \/ NextTarget(p)
        \/ \E to \in RemoveSteps, l \in BOOLEAN :
             Goto(p, to) /\ loc' = [loc EXCEPT ![p].last = l]
    <2>1. CASE RemoveCheckBaseline(p) \/ RemoveFindDoc(p)
      BY <1>2, <2>1 DEF RemoveCheckBaseline, RemoveFindDoc, RemoveSteps
    <2>2. CASE RemoveFindOthers(p)
      <3>1. PICK l \in BOOLEAN : /\ loc' = [loc EXCEPT ![p].last = l]
                                 /\ Goto(p, IF l THEN "rUnlink" ELSE "rDelete")
        BY <2>2 DEF RemoveFindOthers
      <3> QED BY <3>1 DEF RemoveSteps
    <2> QED BY <2>1, <2>2
  <1>4. /\ pc' \in [Request -> Steps] /\ loc' \in [Request -> Locals]
        /\ OthersStay(p) /\ ReqSet(p)' /\ CurFresh(p)
    BY <1>1, <1>3, NextTargetType, SameTargetType
  <1>5. TypeOK' /\ IdsStay
    BY <1>1, <1>4 DEF TypeInv, TypeOK, IdsStay
  <1> QED BY <1>1, <1>4, <1>5, ChecksUnchanged, TypeStep

LEMMA RemoveUnlinkType ==
  ASSUME TypeInv, replicaSet' = replicaSet, NEW p \in Request, RemoveUnlink(p)
  PROVE  TypeInv'
  <1>1. /\ UNCHANGED <<doc, fname, imghash, row, clock, check, torn, loc>>
        /\ pc[p] \in RemoveSteps /\ Goto(p, "rDelete") /\ file' = file \ {fname[Target(p)]}
    BY DEF RemoveUnlink, RemoveSteps, docVars
  <1>2. loc' = [loc EXCEPT ![p].last = loc[p].last] /\ loc[p].last \in BOOLEAN
    BY <1>1 DEF TypeInv, TypeOK, Locals
  <1>3. /\ pc' \in [Request -> Steps] /\ loc' \in [Request -> Locals]
        /\ OthersStay(p) /\ ReqSet(p)' /\ CurFresh(p)
    BY <1>1, <1>2, SameTargetType DEF RemoveSteps
  <1>4. TypeOK' /\ IdsStay
    BY <1>1, <1>3 DEF TypeInv, TypeOK, IdsStay
  <1> QED BY <1>1, <1>3, <1>4, ChecksUnchanged, TypeStep

LEMMA RemoveDeleteType ==
  ASSUME TypeInv, replicaSet' = replicaSet, NEW p \in Request, RemoveDelete(p)
  PROVE  TypeInv'
  <1>1. /\ UNCHANGED <<fname, imghash, file, row, clock, check, torn>>
        /\ pc[p] \in RemoveSteps /\ NextTarget(p)
        /\ doc' = [doc EXCEPT ![Target(p)] = "gone"]
    BY DEF RemoveDelete, RemoveSteps
  <1>2. /\ pc' \in [Request -> Steps] /\ loc' \in [Request -> Locals]
        /\ OthersStay(p) /\ ReqSet(p)' /\ CurFresh(p)
    BY <1>1, NextTargetType
  <1>3. TypeOK' /\ IdsStay
    BY <1>1, <1>2 DEF TypeInv, TypeOK, IdsStay, DocState
  <1> QED BY <1>1, <1>2, <1>3, ChecksUnchanged, TypeStep

LEMMA DieType ==
  ASSUME TypeInv, replicaSet' = replicaSet, NEW p \in Request, Die(p)
  PROVE  TypeInv'
  <1>1. /\ UNCHANGED <<fname, imghash, file, row, clock>> /\ RollBackDocs(p)
        /\ pc' = [pc EXCEPT ![p] = "idle"] /\ loc' = [loc EXCEPT ![p] = Blank]
    BY DEF Die, Finish, Goto
  <1>2. torn' \subseteq Snap
    <2>1. pc[p] = "rDelete" => Target(p) \in Snap
      BY DEF TypeInv, TypeOK, ReqSet, CheckSet, Target, RemoveSteps, Locals, Stages
    <2> QED BY <2>1 DEF Die, TypeInv, TypeOK
  <1>3. TypeOK' /\ OthersStay(p) /\ pc'[p] = "idle"
    BY <1>1, <1>2, RollBackType, BlankType DEF TypeInv, TypeOK, OthersStay, Steps
  <1>4. ReqSet(p)' /\ CurFresh(p)
    BY <1>3 DEF ReqSet, CurFresh, CreateSteps, Holding, Uninserted, AcceptSteps, RemoveSteps
  <1> QED BY <1>1, <1>3, <1>4, RollBackType, TypeStep

\* A step that leaves documents, checks and requests alone.
LEMMA TypeIdle ==
  ASSUME TypeInv, UNCHANGED <<doc, fname, imghash, file, check, torn, replicaSet, pc, loc>>,
         row' \in [Ident \X Snap -> Nat], clock' \in Nat
  PROVE  TypeInv'
  <1>1. TypeOK'
    BY DEF TypeInv, TypeOK
  <1>2. \A p \in Request : ReqSet(p)'
    BY DEF TypeInv, ReqSet
  <1>3. (\A c \in Snap : CheckSet(c)') /\ DistinctCur'
    BY DEF TypeInv, CheckSet, DistinctCur
  <1> QED BY <1>1, <1>2, <1>3 DEF TypeInv

LEMMA TypeNext == TypeInv /\ [Next]_vars => TypeInv'
  <1> SUFFICES ASSUME TypeInv, [Next]_vars  PROVE TypeInv'
    OBVIOUS
  <1> replicaSet' = replicaSet
    BY DEF Next, vars
  <1>1. ASSUME NEW p \in Request, CreateStep(p)  PROVE TypeInv'
    BY <1>1, LookupType, AccessType, CloneType, WriteFileType, SaveDocType, FindBaselineType,
       InspectType, CompareType, DiffWriteType, DiffSaveType, InsertCheckType, CommitType,
       FailType, CleanupType DEF CreateStep
  <1>2. ASSUME NEW p \in Request, AcceptStep(p)  PROVE TypeInv'
    BY <1>2, AcceptStartType, AcceptUpsertType, AcceptSaveType DEF AcceptStep
  <1>3. ASSUME NEW p \in Request, RemoveStep(p)  PROVE TypeInv'
    BY <1>3, RemoveStartType, RemoveReadType, RemoveUnlinkType, RemoveDeleteType
    DEF RemoveStep
  <1>4. ASSUME NEW k \in Ident \X Snap, RemoveBaseline(k)  PROVE TypeInv'
    BY <1>4, TypeIdle DEF RemoveBaseline, docVars, reqVars, TypeInv, TypeOK
  <1>5. CASE UNCHANGED vars
    BY <1>5, TypeIdle DEF vars, TypeInv, TypeOK
  <1> QED BY <1>1, <1>2, <1>3, <1>4, <1>5, DieType DEF Next

\* Every variable, the locals of every request included, keeps its type, and
\* what a request's later calls read has been set by its earlier ones, for any
\* number of concurrent requests.
THEOREM TypeCorrect == Spec => []TypeInv
  BY TypeInit, TypeNext, PTL DEF Spec

\* The type invariant that the runs check.
THEOREM TypesKept == Spec => []TypeOK
  <1>1. TypeInv => TypeOK
    BY DEF TypeInv
  <1> QED BY <1>1, TypeCorrect, PTL

-----------------------------------------------------------------------------
(* Originals keep their files, in a deployment with transactions.  The        *)
(* strengthening says what every request knows of the documents it holds:     *)
(* that its own are invisible to the others until it commits, and that a      *)
(* remover about to unlink a file removes the document that wrote it, or that *)
(* document is already gone.                                                  *)

Settled(s) == doc[s] \in {"saved", "gone"}

WithBase == {"inspect", "compare", "diffWrite", "diffSave", "insert", "finish"}

ReqDocs(p) ==
  /\ pc[p] \notin Holding \cup {"cleanup"} => loc[p].cur = None
  /\ pc[p] \notin {"diffSave", "insert", "finish", "cleanup"} => loc[p].diff = None
  /\ pc[p] \in {"access", "clone"} => Settled(loc[p].src)
  /\ pc[p] = "save" => doc[loc[p].cur] = "new"
  /\ pc[p] \in Holding \ {"save"} => doc[loc[p].cur] = "tx"
  /\ pc[p] = "diffSave" => loc[p].diff \in Snap /\ doc[loc[p].diff] = "new"
  /\ pc[p] \in {"insert", "finish"} /\ loc[p].diff # None => doc[loc[p].diff] = "tx"
  /\ pc[p] \in WithBase => Settled(loc[p].base) \/ loc[p].base = loc[p].cur
  /\ pc[p] = "finish" =>
       check[loc[p].cur] = [st |-> "tx", ident |-> loc[p].ident,
                            base |-> loc[p].base, diff |-> loc[p].diff]
  /\ pc[p] = "cleanup" =>
       /\ loc[p].cur \in Snap /\ doc[loc[p].cur] = "void"
       /\ loc[p].diff # None => doc[loc[p].diff] = "void"
  /\ pc[p] = "rUnlink" =>
       /\ loc[p].last
       /\ doc[fname[Target(p)]] = "saved" => fname[Target(p)] = Target(p)

OwnIds(p) == {loc[p].cur, loc[p].diff} \ {None}

DisjointIds == \A p, q \in Request : p # q => OwnIds(p) \cap OwnIds(q) = {}

\* The file a clone names was written by a document that is or was visible.
CloneOf(s) == fname[s] # s => Settled(fname[s]) /\ fname[fname[s]] = fname[s]

UnsavedHasFile(s) == doc[s] \in {"new", "tx"} /\ fname[s] = s => s \in file

RowSettled(k) == row[k] > 0 => Settled(k[2])

CheckSettled(c) == check[c].st \in {"live", "gone"} =>
  /\ Settled(c) /\ Settled(check[c].base)
  /\ check[c].diff # None => Settled(check[c].diff)

\* OriginalKeepsFile, where it is promised.
OriginalsHeld ==
  \A d \in Snap :
    doc[d] = "saved" /\ fname[d] = d /\ d \notin torn /\ ~BeingDeleted(d)
      => d \in file

TxInv ==
  /\ \A p \in Request : ReqDocs(p)
  /\ DisjointIds
  /\ \A s \in Snap : CloneOf(s) /\ UnsavedHasFile(s)
  /\ \A k \in Ident \X Snap : RowSettled(k)
  /\ \A c \in Snap : CheckSettled(c)
  /\ OriginalsHeld

LEMMA TxInit == Init => TxInv
  <1> SUFFICES ASSUME Init  PROVE TxInv
    OBVIOUS
  <1>1. ASSUME NEW p \in Request  PROVE ReqDocs(p) /\ OwnIds(p) = {}
    BY DEF Init, ReqDocs, OwnIds, Blank, Holding, CreateSteps, WithBase
  <1>2. ASSUME NEW s \in Snap  PROVE CloneOf(s) /\ UnsavedHasFile(s) /\ CheckSettled(s)
    BY DEF Init, NoCheck, CloneOf, UnsavedHasFile, CheckSettled
  <1>3. ASSUME NEW k \in Ident \X Snap  PROVE RowSettled(k)
    BY DEF Init, RowSettled
  <1>4. OriginalsHeld
    BY DEF Init, OriginalsHeld
  <1> QED BY <1>1, <1>2, <1>3, <1>4 DEF TxInv, DisjointIds

\* With the types, what a remover is removing is or was a visible document.
LEMMA TargetSettled ==
  ASSUME TypeInv, TxInv, NEW p \in Request, pc[p] \in RemoveSteps
  PROVE  Target(p) \in Snap /\ Settled(Target(p))
  <1>1. /\ loc[p].chk \in Snap /\ check[loc[p].chk].st = "gone"
        /\ loc[p].stage = "diff" => check[loc[p].chk].diff \in Snap
        /\ loc[p].stage \in Stages
    BY DEF TypeInv, TypeOK, ReqSet, Locals
  <1>2. check[loc[p].chk].base \in Snap
    BY <1>1 DEF TypeInv, CheckSet
  <1>3. CheckSettled(loc[p].chk) /\ None \notin Snap
    BY <1>1, StoreAssumption DEF TxInv
  <1> QED BY <1>1, <1>2, <1>3 DEF CheckSettled, Target, Stages

LEMMA TxInvPrivate == TypeInv /\ TxInv => CleanupIsPrivate
  <1> SUFFICES ASSUME TypeInv, TxInv, NEW p \in Request, pc[p] = "cleanup",
                      NEW d \in Snap, doc[d] = "saved", fname[d] \in CleanupFiles(p)
               PROVE  FALSE
    BY DEF CleanupIsPrivate
  <1>1. doc[fname[d]] = "void" /\ fname[d] \in Snap
    <2>1. fname[d] \in Snap /\ (fname[d] = loc[p].cur \/ fname[d] = loc[p].diff)
      BY DEF CleanupFiles
    <2>2. ReqDocs(p) /\ None \notin Snap
      BY StoreAssumption DEF TxInv
    <2> QED BY <2>1, <2>2 DEF ReqDocs
  <1>2. CASE fname[d] = d
    BY <1>1, <1>2
  <1>3. CASE fname[d] # d
    BY <1>1, <1>3 DEF TxInv, CloneOf, Settled
  <1> QED BY <1>2, <1>3

\* How a step of request p may move a document: issue an unused id, decide the
\* fate of one of its own, or delete a visible one.
DocsMove(p) ==
  \A s \in Snap :
    \/ doc'[s] = doc[s]
    \/ doc[s] = "free"
    \/ s \in OwnIds(p) /\ doc[s] \in {"new", "tx"}
    \/ Settled(s) /\ doc'[s] = "gone"

\* It changes visible checks, or the one it is creating.
ChecksMove(p) ==
  \A c \in Snap :
    \/ check'[c] = check[c]
    \/ check[c].st = "live"
    \/ c = loc[p].cur /\ check[c].st \in {"none", "tx"}

NamesStay == \A s \in Snap : doc[s] # "free" => fname'[s] = fname[s]

\* The ids it owns afterwards are those it owned, or were unused.
IdsFresh(p) == \A s \in OwnIds(p)' : s \in OwnIds(p) \/ (s \in Snap /\ doc[s] = "free")

Frame(p) ==
  OthersStay(p) /\ DocsMove(p) /\ ChecksMove(p) /\ NamesStay /\ IdsFresh(p)

\* A request holds no id that was never used.
LEMMA OwnIdsUsed ==
  ASSUME TypeInv, TxInv, NEW p \in Request
  PROVE  /\ OwnIds(p) \subseteq Snap
         /\ \A s \in OwnIds(p) : doc[s] \in {"new", "tx", "void"}
  <1>1. OwnIds(p) \subseteq Snap
    BY DEF TypeInv, TypeOK, Locals, OwnIds
  <1>2. loc[p].cur # None => doc[loc[p].cur] \in {"new", "tx", "void"}
    BY DEF TxInv, ReqDocs, Holding, CreateSteps
  <1>3. loc[p].diff # None => doc[loc[p].diff] \in {"new", "tx", "void"}
    BY DEF TxInv, ReqDocs
  <1> QED BY <1>1, <1>2, <1>3 DEF OwnIds

LEMMA SettledStays ==
  ASSUME TypeInv, TxInv, NEW p \in Request, DocsMove(p), NEW s \in Snap, Settled(s)
  PROVE  Settled(s)' /\ (doc[s] = "gone" => doc'[s] = "gone")
  BY DEF DocsMove, Settled

\* Another request's target stays: nothing changes a check that is gone.
LEMMA TargetStays ==
  ASSUME TypeInv, TxInv, NEW p \in Request, Frame(p), NEW q \in Request \ {p},
         pc[q] \in RemoveSteps
  PROVE  Target(q)' = Target(q)
  <1>1. loc[q].chk \in Snap /\ check[loc[q].chk].st = "gone" /\ loc'[q] = loc[q]
    BY DEF TypeInv, ReqSet, Frame, OthersStay
  <1>2. check'[loc[q].chk] = check[loc[q].chk]
    BY <1>1 DEF Frame, ChecksMove
  <1> QED BY <1>1, <1>2 DEF Target

LEMMA OthersKeepReqDocs ==
  ASSUME TypeInv, TxInv, NEW p \in Request, Frame(p), NEW q \in Request \ {p}
  PROVE  ReqDocs(q)'
  <1>1. ReqDocs(q) /\ pc'[q] = pc[q] /\ loc'[q] = loc[q] /\ ReqSet(q)
    BY DEF TypeInv, TxInv, Frame, OthersStay
  <1>2. \A s \in OwnIds(q) : doc'[s] = doc[s]
    BY OwnIdsUsed DEF Frame, DocsMove, TxInv, DisjointIds, Settled
  <1>3. loc[q].cur # None => doc'[loc[q].cur] = doc[loc[q].cur]
    BY <1>2 DEF OwnIds
  <1>4. loc[q].diff # None => doc'[loc[q].diff] = doc[loc[q].diff]
    BY <1>2 DEF OwnIds
  <1>5. None \notin Snap /\ (pc[q] \in Holding => loc[q].cur \in Snap)
    BY <1>1, StoreAssumption DEF ReqSet
  <1>6. pc[q] \in {"access", "clone"} => Settled(loc[q].src)'
    BY <1>1, SettledStays DEF ReqDocs, ReqSet, Frame, Settled
  <1>7. pc[q] \in WithBase => Settled(loc[q].base)' \/ loc[q].base = loc[q].cur
    BY <1>1, SettledStays DEF ReqDocs, ReqSet, Frame, Settled, WithBase
  <1>8. pc[q] = "finish" => check'[loc[q].cur] = check[loc[q].cur]
    <2> SUFFICES ASSUME pc[q] = "finish"
                 PROVE  check'[loc[q].cur] = check[loc[q].cur]
      OBVIOUS
    <2>1. loc[q].cur \in Snap /\ check[loc[q].cur].st = "tx" /\ loc[q].cur # loc[p].cur
      BY <1>1, <1>5 DEF ReqDocs, Holding, CreateSteps, TxInv, DisjointIds, OwnIds
    <2> QED BY <2>1 DEF Frame, ChecksMove
  <1>9. pc[q] = "rUnlink" =>
          /\ loc[q].last
          /\ doc'[fname'[Target(q)']] = "saved" => fname'[Target(q)'] = Target(q)'
    <2> SUFFICES ASSUME pc[q] = "rUnlink"
                 PROVE  /\ loc[q].last
                        /\ doc'[fname'[Target(q)']] = "saved"
                             => fname'[Target(q)'] = Target(q)'
      OBVIOUS
    <2>1. Target(q) \in Snap /\ Settled(Target(q))
      BY TargetSettled DEF RemoveSteps
    <2>3. Target(q)' = Target(q)
      BY TargetStays DEF RemoveSteps
    <2>4. fname'[Target(q)] = fname[Target(q)]
      BY <2>1 DEF Frame, NamesStay, Settled
    <2>5. CASE fname[Target(q)] = Target(q)
      BY <1>1, <2>3, <2>4, <2>5 DEF ReqDocs
    <2>6. CASE fname[Target(q)] # Target(q)
      <3>1. Settled(fname[Target(q)]) /\ fname[Target(q)] \in Snap
        BY <2>1, <2>6 DEF TxInv, CloneOf, TypeInv, TypeOK
      <3>2. doc[fname[Target(q)]] = "gone"
        BY <1>1, <2>6, <3>1 DEF ReqDocs, Settled
      <3>3. doc'[fname[Target(q)]] = "gone"
        BY <3>1, <3>2, SettledStays DEF Frame
      <3> QED BY <1>1, <2>3, <2>4, <3>3 DEF ReqDocs
    <2> QED BY <2>5, <2>6
  <1> QED BY <1>1, <1>3, <1>4, <1>5, <1>6, <1>7, <1>8, <1>9 DEF ReqDocs, Holding, CreateSteps

\* What is left to prove of one step of one request.
LEMMA TxStep ==
  ASSUME TypeInv, TxInv, NEW p \in Request, Frame(p), ReqDocs(p)',
         \A s \in Snap : CloneOf(s)' /\ UnsavedHasFile(s)',
         \A k \in Ident \X Snap : RowSettled(k)',
         \A c \in Snap : CheckSettled(c)',
         OriginalsHeld'
  PROVE  TxInv'
  <1>1. DisjointIds'
    <2> SUFFICES ASSUME NEW q \in Request, NEW r \in Request, q # r
                 PROVE  (OwnIds(q) \cap OwnIds(r) = {})'
      BY DEF DisjointIds
    <2>1. CASE q # p /\ r # p
      BY <2>1 DEF Frame, OthersStay, TxInv, DisjointIds, OwnIds
    <2>2. ASSUME NEW t \in Request, t # p  PROVE OwnIds(p)' \cap OwnIds(t)' = {}
      <3>1. OwnIds(t)' = OwnIds(t)
        BY <2>2 DEF Frame, OthersStay, OwnIds
      <3>2. \A s \in OwnIds(t) : s \in Snap /\ doc[s] # "free"
        BY <2>2, OwnIdsUsed
      <3> QED BY <2>2, <3>1, <3>2 DEF Frame, IdsFresh, TxInv, DisjointIds
    <2> QED BY <2>1, <2>2
  <1> QED BY <1>1, OthersKeepReqDocs DEF TxInv

LEMMA ClonesStay ==
  ASSUME TypeInv, TxInv, NEW p \in Request, DocsMove(p), UNCHANGED fname
  PROVE  \A s \in Snap : CloneOf(s)'
  BY SettledStays DEF TypeInv, TypeOK, TxInv, CloneOf, Settled

LEMMA RowsStay ==
  ASSUME TypeInv, TxInv, NEW p \in Request, DocsMove(p), NEW k \in Ident \X Snap,
         row'[k] > 0 => row[k] > 0
  PROVE  RowSettled(k)'
  <1>1. RowSettled(k) /\ k[2] \in Snap
    BY DEF TxInv
  <1> QED BY <1>1, SettledStays DEF RowSettled, Settled

LEMMA ChecksStaySettled ==
  ASSUME TypeInv, TxInv, NEW p \in Request, DocsMove(p), NEW c \in Snap,
         check'[c] = check[c]
  PROVE  CheckSettled(c)'
  <1> SUFFICES ASSUME check[c].st \in {"live", "gone"}
               PROVE  CheckSettled(c)'
    BY DEF CheckSettled
  <1>1. CheckSettled(c) /\ check[c].base \in Snap /\ check[c].diff \in Snap \cup {None}
    BY DEF TypeInv, TypeOK, TxInv, CheckSet, CheckRec
  <1>2. Settled(c)' /\ Settled(check[c].base)'
    BY <1>1, SettledStays DEF CheckSettled, Settled
  <1>3. check[c].diff # None => doc'[check[c].diff] \in {"saved", "gone"}
    BY <1>1, SettledStays DEF CheckSettled, Settled
  <1> QED BY <1>1, <1>2, <1>3 DEF CheckSettled, Settled

LEMMA DeletingStays ==
  ASSUME TypeInv, TxInv, NEW p \in Request, Frame(p), NEW q \in Request \ {p}, NEW d \in Snap,
         pc[q] = "rDelete", loc[q].last, Target(q) = d
  PROVE  BeingDeleted(d)'
  <1>1. pc'[q] = pc[q] /\ loc'[q] = loc[q]
    BY DEF Frame, OthersStay
  <1>2. Target(q)' = d
    BY TargetStays DEF RemoveSteps
  <1> QED BY <1>1, <1>2 DEF BeingDeleted

\* An original that stays visible, through a step that removes no file of it.
LEMMA OriginalsStay ==
  ASSUME TypeInv, TxInv, NEW p \in Request, Frame(p), torn \subseteq torn',
         \A d \in Snap : doc'[d] = "saved" /\ fname'[d] = d =>
           \/ d \in file' \cup torn' \/ BeingDeleted(d)'
           \/ /\ doc[d] = "saved" /\ fname[d] = d
              /\ d \in file => d \in file'
              /\ pc[p] = "rDelete" /\ loc[p].last => Target(p) # d
  PROVE  OriginalsHeld'
  <1> SUFFICES ASSUME NEW d \in Snap, doc'[d] = "saved", fname'[d] = d, d \notin torn',
                      ~BeingDeleted(d)', d \notin file'
               PROVE  FALSE
    BY DEF OriginalsHeld
  <1>1. /\ doc[d] = "saved" /\ fname[d] = d /\ d \notin torn
        /\ d \notin file
        /\ pc[p] = "rDelete" /\ loc[p].last => Target(p) # d
    OBVIOUS
  <1>2. BeingDeleted(d)
    BY <1>1 DEF TxInv, OriginalsHeld
  <1>3. PICK q \in Request : pc[q] = "rDelete" /\ loc[q].last /\ Target(q) = d
    BY <1>2 DEF BeingDeleted
  <1>4. q # p
    BY <1>1, <1>3
  <1> QED BY <1>3, <1>4, DeletingStays

\* A step of a request that only reads the store.
LEMMA TxRead ==
  ASSUME TypeInv, TxInv, NEW p \in Request, OthersStay(p), IdsFresh(p), ReqDocs(p)',
         UNCHANGED <<doc, fname, file, row, check, torn>>,
         pc[p] # "rDelete"
  PROVE  TxInv'
  <1>1. Frame(p)
    BY DEF Frame, DocsMove, ChecksMove, NamesStay
  <1>2. \A s \in Snap : UnsavedHasFile(s)'
    BY DEF TxInv, UnsavedHasFile
  <1>3. OriginalsHeld'
    BY <1>1, OriginalsStay
  <1>4. /\ \A k \in Ident \X Snap : RowSettled(k)'
        /\ \A c \in Snap : CheckSettled(c)'
    BY <1>1, RowsStay, ChecksStaySettled DEF Frame
  <1> QED BY <1>1, <1>2, <1>3, <1>4, TxStep, ClonesStay DEF Frame

-----------------------------------------------------------------------------
(* One lemma per action *)

LEMMA LookupTx ==
  ASSUME TypeInv, TxInv, NEW p \in Request, Lookup(p)
  PROVE  TxInv'
  <1>1. /\ UNCHANGED <<doc, fname, imghash, file, row, clock, check, torn>>
        /\ pc[p] = "idle"
    BY DEF Lookup, docVars
  <1>2. PICK i \in Ident, h \in Hash, s \in Snap \cup {None} :
          \/ /\ s \in Snap /\ doc[s] = "saved" /\ Goto(p, "access")
             /\ loc' = [loc EXCEPT ![p] = [Blank EXCEPT !.ident = i, !.src = s]]
          \/ /\ Goto(p, "write")
             /\ loc' = [loc EXCEPT ![p] = [Blank EXCEPT !.ident = i, !.hash = h]]
    BY DEF Lookup
  <1>3. /\ OthersStay(p) /\ pc'[p] \in {"access", "write"}
        /\ loc'[p].cur = None /\ loc'[p].diff = None
        /\ pc'[p] = "access" => loc'[p].src \in Snap /\ doc[loc'[p].src] = "saved"
    <2> USE DEF TypeInv, TypeOK, Goto, OthersStay, Blank
    <2>1. CASE s \in Snap /\ doc[s] = "saved" /\ Goto(p, "access")
               /\ loc' = [loc EXCEPT ![p] = [Blank EXCEPT !.ident = i, !.src = s]]
      BY <2>1
    <2>2. CASE /\ Goto(p, "write")
               /\ loc' = [loc EXCEPT ![p] = [Blank EXCEPT !.ident = i, !.hash = h]]
      BY <2>2
    <2> QED BY <1>2, <2>1, <2>2
  <1>4. ReqDocs(p)' /\ IdsFresh(p)
    BY <1>1, <1>3 DEF ReqDocs, IdsFresh, OwnIds, Holding, CreateSteps, WithBase, Settled
  <1> QED BY <1>1, <1>3, <1>4, TxRead

LEMMA AccessTx ==
  ASSUME TypeInv, TxInv, NEW p \in Request, Access(p)
  PROVE  TxInv'
  <1>1. /\ UNCHANGED <<doc, fname, imghash, file, row, clock, check, torn, loc>>
        /\ pc[p] = "access" /\ pc' = [pc EXCEPT ![p] = "clone"]
    BY DEF Access, docVars, Goto
  <1>2. OthersStay(p) /\ pc'[p] = "clone" /\ IdsFresh(p)
    BY <1>1 DEF TypeInv, TypeOK, OthersStay, IdsFresh, OwnIds
  <1>3. ReqDocs(p)'
    BY <1>1, <1>2 DEF TxInv, ReqDocs, Holding, CreateSteps, WithBase, Settled
  <1> QED BY <1>1, <1>2, <1>3, TxRead

LEMMA CloneTx ==
  ASSUME replicaSet, TypeInv, TxInv, NEW p \in Request, Clone(p)
  PROVE  TxInv'
  <1>1. PICK s \in Snap :
          /\ doc[s] = "free"
          /\ doc' = [doc EXCEPT ![s] = "tx"]
          /\ fname' = [fname EXCEPT ![s] = fname[loc[p].src]]
          /\ loc' = [loc EXCEPT ![p].cur = s]
    BY DEF Clone, Inserted
  <1>2. /\ UNCHANGED <<file, row, clock, check, torn>>
        /\ pc[p] = "clone" /\ pc' = [pc EXCEPT ![p] = "find"]
    BY DEF Clone, Goto
  <1>3. loc[p].src \in Snap /\ Settled(loc[p].src) /\ loc[p].diff = None
    BY <1>2 DEF TypeInv, TxInv, ReqSet, ReqDocs
  <1>4. /\ OthersStay(p) /\ pc'[p] = "find"
        /\ loc'[p].cur = s /\ loc'[p].diff = None
        /\ doc'[s] = "tx" /\ s # None
    BY <1>1, <1>2, <1>3, StoreAssumption DEF TypeInv, TypeOK, OthersStay, Locals
  <1>5. Frame(p)
    BY <1>1, <1>2, <1>4 DEF TypeInv, TypeOK, Frame, DocsMove, ChecksMove, NamesStay, IdsFresh,
       OwnIds
  <1>6. ReqDocs(p)'
    BY <1>2, <1>4 DEF ReqDocs, Holding, CreateSteps, WithBase
  \* the file cloned is that of a document that is or was visible
  <1>7. /\ fname[loc[p].src] \in Snap /\ Settled(fname[loc[p].src])
        /\ fname[fname[loc[p].src]] = fname[loc[p].src]
    BY <1>3 DEF TypeInv, TypeOK, TxInv, CloneOf
  <1>8. ASSUME NEW x \in Snap  PROVE CloneOf(x)'
    <2>1. CASE x = s
      BY <1>1, <1>7, <2>1 DEF TypeInv, TypeOK, CloneOf, Settled
    <2>2. CASE x # s
      BY <1>1, <2>2 DEF TypeInv, TypeOK, TxInv, CloneOf, Settled
    <2> QED BY <2>1, <2>2
  <1>9. ASSUME NEW x \in Snap  PROVE UnsavedHasFile(x)'
    <2>1. CASE x = s
      BY <1>1, <1>7, <2>1 DEF TypeInv, TypeOK, UnsavedHasFile, Settled
    <2>2. CASE x # s
      BY <1>1, <1>2, <2>2 DEF TypeInv, TypeOK, TxInv, UnsavedHasFile
    <2> QED BY <2>1, <2>2
  <1>10. OriginalsHeld'
    BY <1>1, <1>2, <1>5, OriginalsStay DEF TypeInv, TypeOK
  <1>11. /\ \A k \in Ident \X Snap : RowSettled(k)'
         /\ \A c \in Snap : CheckSettled(c)'
    BY <1>2, <1>5, RowsStay, ChecksStaySettled DEF Frame
  <1> QED BY <1>5, <1>6, <1>8, <1>9, <1>10, <1>11, TxStep

\* Writing an image: an unused id is issued, with its file.
LEMMA TxWrite ==
  ASSUME TypeInv, TxInv, NEW p \in Request, NEW s \in Snap, doc[s] = "free",
         doc' = [doc EXCEPT ![s] = "new"], file' = file \cup {s},
         UNCHANGED <<fname, row, check, torn>>,
         OthersStay(p), IdsFresh(p), ReqDocs(p)', pc[p] # "rDelete"
  PROVE  TxInv'
  <1>1. Frame(p)
    BY DEF TypeInv, TypeOK, Frame, DocsMove, ChecksMove, NamesStay
  <1>2. \A x \in Snap : UnsavedHasFile(x)'
    BY DEF TypeInv, TypeOK, TxInv, UnsavedHasFile
  <1>3. OriginalsHeld'
    BY <1>1, OriginalsStay DEF TypeInv, TypeOK
  <1>4. /\ \A k \in Ident \X Snap : RowSettled(k)'
        /\ \A c \in Snap : CheckSettled(c)'
    BY <1>1, RowsStay, ChecksStaySettled DEF Frame
  <1> QED BY <1>1, <1>2, <1>3, <1>4, TxStep, ClonesStay DEF Frame

LEMMA WriteFileTx ==
  ASSUME TypeInv, TxInv, NEW p \in Request, WriteFile(p)
  PROVE  TxInv'
  <1>1. PICK s \in Snap :
          /\ doc[s] = "free"
          /\ doc' = [doc EXCEPT ![s] = "new"]
          /\ file' = file \cup {s}
          /\ loc' = [loc EXCEPT ![p].cur = s]
    BY DEF WriteFile
  <1>2. /\ UNCHANGED <<fname, row, clock, check, torn>>
        /\ pc[p] = "write" /\ pc' = [pc EXCEPT ![p] = "save"]
    BY DEF WriteFile, Goto
  <1>3. /\ OthersStay(p) /\ pc'[p] = "save"
        /\ loc'[p].cur = s /\ loc'[p].diff = None /\ doc'[s] = "new"
    <2>1. loc[p].diff = None
      BY <1>2 DEF TxInv, ReqDocs
    <2> QED BY <1>1, <1>2, <2>1 DEF TypeInv, TypeOK, OthersStay, Locals
  <1>4. ReqDocs(p)' /\ IdsFresh(p)
    BY <1>1, <1>2, <1>3 DEF ReqDocs, IdsFresh, OwnIds, Holding, CreateSteps, WithBase
  <1> QED BY <1>1, <1>2, <1>3, <1>4, TxWrite

LEMMA DiffWriteTx ==
  ASSUME TypeInv, TxInv, NEW p \in Request, DiffWrite(p)
  PROVE  TxInv'
  <1>1. PICK s \in Snap :
          /\ doc[s] = "free"
          /\ doc' = [doc EXCEPT ![s] = "new"]
          /\ file' = file \cup {s}
          /\ loc' = [loc EXCEPT ![p].diff = s]
    BY DEF DiffWrite
  <1>2. /\ UNCHANGED <<fname, row, clock, check, torn>>
        /\ pc[p] = "diffWrite" /\ pc' = [pc EXCEPT ![p] = "diffSave"]
    BY DEF DiffWrite, Goto
  <1>3. /\ OthersStay(p) /\ pc'[p] = "diffSave"
        /\ loc'[p].cur = loc[p].cur /\ loc'[p].diff = s /\ loc'[p].base = loc[p].base
        /\ doc'[s] = "new"
    BY <1>1, <1>2 DEF TypeInv, TypeOK, OthersStay, Locals
  <1>4. /\ loc[p].cur \in Snap /\ doc[loc[p].cur] = "tx" /\ loc[p].base \in Snap
        /\ Settled(loc[p].base) \/ loc[p].base = loc[p].cur
    BY <1>2 DEF TypeInv, TxInv, ReqSet, ReqDocs, Holding, CreateSteps, WithBase
  <1>5. doc'[loc[p].cur] = "tx" /\ (Settled(loc[p].base) => Settled(loc[p].base)')
    BY <1>1, <1>4 DEF TypeInv, TypeOK, Settled
  <1>6. ReqDocs(p)' /\ IdsFresh(p)
    BY <1>1, <1>2, <1>3, <1>4, <1>5 DEF ReqDocs, IdsFresh, OwnIds, Holding, CreateSteps,
       WithBase, Settled
  <1> QED BY <1>1, <1>2, <1>3, <1>6, TxWrite

\* Saving a document: it has its file, and is not visible yet.
LEMMA TxSave ==
  ASSUME TypeInv, TxInv, NEW p \in Request, NEW s \in OwnIds(p), doc[s] = "new",
         doc' = [doc EXCEPT ![s] = "tx"], UNCHANGED <<fname, file, row, check, torn, loc>>,
         OthersStay(p), ReqDocs(p)', pc[p] # "rDelete"
  PROVE  TxInv'
  <1>1. Frame(p)
    BY DEF TypeInv, TypeOK, Frame, DocsMove, ChecksMove, NamesStay, IdsFresh, OwnIds
  <1>2. \A x \in Snap : UnsavedHasFile(x)'
    BY DEF TypeInv, TypeOK, TxInv, UnsavedHasFile
  <1>3. OriginalsHeld'
    BY <1>1, OriginalsStay DEF TypeInv, TypeOK
  <1>4. /\ \A k \in Ident \X Snap : RowSettled(k)'
        /\ \A c \in Snap : CheckSettled(c)'
    BY <1>1, RowsStay, ChecksStaySettled DEF Frame
  <1> QED BY <1>1, <1>2, <1>3, <1>4, TxStep, ClonesStay DEF Frame

LEMMA SaveDocTx ==
  ASSUME replicaSet, TypeInv, TxInv, NEW p \in Request, SaveDoc(p)
  PROVE  TxInv'
  <1>1. /\ UNCHANGED <<fname, imghash, file, row, clock, check, torn, loc>>
        /\ pc[p] = "save" /\ pc' = [pc EXCEPT ![p] = "find"]
        /\ doc' = [doc EXCEPT ![loc[p].cur] = "tx"]
    BY DEF SaveDoc, Goto, Inserted
  <1>2. /\ loc[p].cur \in Snap /\ doc[loc[p].cur] = "new" /\ loc[p].diff = None
        /\ loc[p].cur \in OwnIds(p)
    <2>1. loc[p].cur \in Snap /\ doc[loc[p].cur] = "new" /\ loc[p].diff = None
      BY <1>1 DEF TypeInv, TxInv, ReqSet, ReqDocs, Holding, CreateSteps
    <2> QED BY <2>1, StoreAssumption DEF OwnIds
  <1>3. OthersStay(p) /\ pc'[p] = "find" /\ doc'[loc[p].cur] = "tx"
    BY <1>1, <1>2 DEF TypeInv, TypeOK, OthersStay
  <1>4. ReqDocs(p)'
    BY <1>1, <1>2, <1>3 DEF ReqDocs, Holding, CreateSteps, WithBase
  <1> QED BY <1>1, <1>2, <1>3, <1>4, TxSave

LEMMA DiffSaveTx ==
  ASSUME replicaSet, TypeInv, TxInv, NEW p \in Request, DiffSave(p)
  PROVE  TxInv'
  <1>1. /\ UNCHANGED <<fname, imghash, file, row, clock, check, torn, loc>>
        /\ pc[p] = "diffSave" /\ pc' = [pc EXCEPT ![p] = "insert"]
        /\ doc' = [doc EXCEPT ![loc[p].diff] = "tx"]
    BY DEF DiffSave, Goto, Inserted
  <1>2. /\ loc[p].diff \in Snap /\ doc[loc[p].diff] = "new" /\ loc[p].diff \in OwnIds(p)
        /\ loc[p].cur \in Snap /\ doc[loc[p].cur] = "tx" /\ loc[p].base \in Snap
        /\ Settled(loc[p].base) \/ loc[p].base = loc[p].cur
    <2>1. /\ loc[p].diff \in Snap /\ doc[loc[p].diff] = "new"
          /\ loc[p].cur \in Snap /\ doc[loc[p].cur] = "tx" /\ loc[p].base \in Snap
          /\ Settled(loc[p].base) \/ loc[p].base = loc[p].cur
      BY <1>1 DEF TypeInv, TxInv, ReqSet, ReqDocs, Holding, CreateSteps, WithBase
    <2> QED BY <2>1, StoreAssumption DEF OwnIds
  <1>3. /\ OthersStay(p) /\ pc'[p] = "insert" /\ doc'[loc[p].diff] = "tx"
        /\ doc'[loc[p].cur] = "tx" /\ (Settled(loc[p].base) => Settled(loc[p].base)')
    BY <1>1, <1>2 DEF TypeInv, TypeOK, OthersStay, Settled
  <1>4. ReqDocs(p)'
    BY <1>1, <1>2, <1>3 DEF ReqDocs, Holding, CreateSteps, WithBase, Settled
  <1> QED BY <1>1, <1>2, <1>3, <1>4, TxSave

\* Reading the baseline: a row names a document that is or was visible.
LEMMA FindBaselineTx ==
  ASSUME TypeInv, TxInv, NEW p \in Request, FindBaseline(p) \/ Inspect(p)
  PROVE  TxInv'
  <1>1. /\ UNCHANGED <<doc, fname, imghash, file, row, clock, check, torn>>
        /\ pc[p] \in {"find", "inspect"}
    BY DEF FindBaseline, Inspect, docVars
  <1>2. /\ loc[p].cur \in Snap /\ doc[loc[p].cur] = "tx" /\ loc[p].diff = None
        /\ pc[p] = "inspect" => /\ loc[p].base \in Snap
                                /\ Settled(loc[p].base) \/ loc[p].base = loc[p].cur
    BY <1>1 DEF TypeInv, TxInv, ReqSet, ReqDocs, Holding, CreateSteps, WithBase
  <1>3. PICK s \in Snap :
          /\ loc' = [loc EXCEPT ![p].base = s]
          /\ Settled(s) \/ s = loc[p].cur
          /\ Goto(p, "insert") \/ Goto(p, "inspect") \/ Goto(p, "compare")
    <2>1. CASE FindBaseline(p)
      <3>1. ASSUME NEW i \in Ident, NEW s \in RowsOf(i)  PROVE s \in Snap /\ Settled(s)
        <4>1. <<i, s>> \in Ident \X Snap /\ row[<<i, s>>] > 0
          BY <3>1 DEF RowsOf
        <4> QED BY <4>1 DEF TxInv, RowSettled
      <3>2. BaselineIdent(loc[p].ident) \in Ident
        BY <1>1, StoreAssumption DEF BaselineIdent, TypeInv, ReqSet, CreateSteps
      <3> QED BY <1>2, <2>1, <3>1, <3>2 DEF FindBaseline
    <2>2. CASE Inspect(p)
      <3>1. loc = [loc EXCEPT ![p].base = loc[p].base]
        BY DEF TypeInv, TypeOK, Locals
      <3>2. pc[p] = "inspect"
        BY <2>2 DEF Inspect
      <3> QED BY <1>2, <2>2, <3>1, <3>2 DEF Inspect
    <2> QED BY <2>1, <2>2
  <1>4. /\ loc'[p].base = s /\ loc'[p].cur = loc[p].cur /\ loc'[p].diff = None
        /\ OthersStay(p) /\ pc'[p] \in {"insert", "inspect", "compare"}
    BY <1>1, <1>2, <1>3 DEF TypeInv, TypeOK, Locals, OthersStay, Goto
  <1>5. ReqDocs(p)' /\ IdsFresh(p)
    BY <1>1, <1>2, <1>3, <1>4 DEF ReqDocs, IdsFresh, OwnIds, Holding, CreateSteps, WithBase,
       Settled
  <1> QED BY <1>1, <1>4, <1>5, TxRead

LEMMA CompareTx ==
  ASSUME TypeInv, TxInv, NEW p \in Request, Compare(p)
  PROVE  TxInv'
  <1>1. /\ UNCHANGED <<doc, fname, imghash, file, row, clock, check, torn, loc>>
        /\ pc[p] = "compare"
        /\ Goto(p, "insert") \/ Goto(p, "diffWrite")
    BY DEF Compare, docVars
  <1>2. OthersStay(p) /\ pc'[p] \in {"insert", "diffWrite"} /\ IdsFresh(p)
    BY <1>1 DEF TypeInv, TypeOK, Goto, OthersStay, IdsFresh, OwnIds
  <1>3. ReqDocs(p)'
    BY <1>1, <1>2 DEF TxInv, ReqDocs, Holding, CreateSteps, WithBase, Settled
  <1> QED BY <1>1, <1>2, <1>3, TxRead

LEMMA InsertCheckTx ==
  ASSUME replicaSet, TypeInv, TxInv, NEW p \in Request, InsertCheck(p)
  PROVE  TxInv'
  <1>1. /\ UNCHANGED <<doc, fname, imghash, file, row, clock, torn, loc>>
        /\ pc[p] = "insert" /\ pc' = [pc EXCEPT ![p] = "finish"]
        /\ check' = [check EXCEPT ![loc[p].cur] =
                       [st |-> "tx", ident |-> loc[p].ident,
                        base |-> loc[p].base, diff |-> loc[p].diff]]
    BY DEF InsertCheck, docVars, Goto
  <1>2. loc[p].cur \in Snap /\ check[loc[p].cur].st = "none"
    BY <1>1 DEF TypeInv, ReqSet, Holding, Uninserted, CreateSteps
  <1>3. OthersStay(p) /\ pc'[p] = "finish"
    BY <1>1 DEF TypeInv, TypeOK, OthersStay
  <1>4. Frame(p)
    BY <1>1, <1>2, <1>3 DEF TypeInv, TypeOK, Frame, DocsMove, ChecksMove, NamesStay, IdsFresh,
       OwnIds
  <1>5. ReqDocs(p)'
    BY <1>1, <1>2, <1>3 DEF TypeInv, TypeOK, TxInv, ReqDocs, Holding, CreateSteps, WithBase,
       Settled
  <1>6. ASSUME NEW c \in Snap  PROVE CheckSettled(c)'
    <2>1. CASE c = loc[p].cur
      BY <1>1, <2>1 DEF TypeInv, TypeOK, CheckSettled
    <2>2. CASE c # loc[p].cur
      <3>1. check'[c] = check[c]
        BY <1>1, <2>2 DEF TypeInv, TypeOK
      <3> QED BY <1>4, <3>1, ChecksStaySettled DEF Frame
    <2> QED BY <2>1, <2>2
  <1>7. \A x \in Snap : UnsavedHasFile(x)'
    BY <1>1 DEF TxInv, UnsavedHasFile
  <1>8. OriginalsHeld'
    BY <1>1, <1>4, OriginalsStay
  <1>9. \A k \in Ident \X Snap : RowSettled(k)'
    BY <1>1, <1>4, RowsStay DEF Frame
  <1> QED BY <1>1, <1>4, <1>5, <1>6, <1>7, <1>8, <1>9, TxStep, ClonesStay DEF Frame

LEMMA CommitTx ==
  ASSUME TypeInv, TxInv, NEW p \in Request, Commit(p)
  PROVE  TxInv'
  <1>1. /\ UNCHANGED <<fname, imghash, file, row, clock, torn>>
        /\ pc[p] = "finish" /\ pc' = [pc EXCEPT ![p] = "idle"]
        /\ loc' = [loc EXCEPT ![p] = Blank]
        /\ doc' = [s \in Snap |-> IF s \in {loc[p].cur, loc[p].diff} /\ doc[s] = "tx"
                                  THEN "saved" ELSE doc[s]]
        /\ check' = [check EXCEPT ![loc[p].cur].st =
                       IF check[loc[p].cur].st = "tx" THEN "live" ELSE check[loc[p].cur].st]
    BY DEF Commit, Goto, Finish
  <1>2. /\ loc[p].cur \in Snap /\ doc[loc[p].cur] = "tx"
        /\ loc[p].base \in Snap /\ (Settled(loc[p].base) \/ loc[p].base = loc[p].cur)
        /\ loc[p].diff # None => doc[loc[p].diff] = "tx"
        /\ check[loc[p].cur] = [st |-> "tx", ident |-> loc[p].ident,
                                base |-> loc[p].base, diff |-> loc[p].diff]
    BY <1>1 DEF TypeInv, TxInv, ReqSet, ReqDocs, Holding, CreateSteps, WithBase
  <1>3. OthersStay(p) /\ pc'[p] = "idle" /\ loc'[p].cur = None /\ loc'[p].diff = None
    BY <1>1 DEF TypeInv, TypeOK, OthersStay, Blank
  <1>4. /\ loc[p].diff \in Snap \cup {None} /\ None \notin Snap
        /\ \A s \in Snap : s \in {loc[p].cur, loc[p].diff} => s \in OwnIds(p)
    BY StoreAssumption DEF TypeInv, TypeOK, Locals, OwnIds
  <1>5. Frame(p)
    BY <1>1, <1>2, <1>3, <1>4 DEF TypeInv, TypeOK, Frame, DocsMove, ChecksMove, NamesStay,
       IdsFresh, OwnIds
  <1>6. ReqDocs(p)'
    BY <1>3 DEF ReqDocs, Holding, CreateSteps, WithBase
  \* what the check refers to becomes visible with it
  <1>7. ASSUME NEW c \in Snap  PROVE CheckSettled(c)'
    <2>1. CASE c = loc[p].cur
      <3>1. /\ doc'[c] = "saved"
            /\ doc'[loc[p].base] \in {"saved", "gone"}
            /\ loc[p].diff # None => doc'[loc[p].diff] = "saved"
        BY <1>1, <1>2, <1>4, <2>1 DEF Settled
      <3>2. check'[c].base = loc[p].base /\ check'[c].diff = loc[p].diff
        BY <1>1, <1>2, <2>1 DEF TypeInv, TypeOK
      <3> QED BY <3>1, <3>2 DEF CheckSettled, Settled
    <2>2. CASE c # loc[p].cur
      <3>1. check'[c] = check[c]
        BY <1>1, <2>2 DEF TypeInv, TypeOK
      <3> QED BY <1>5, <3>1, ChecksStaySettled DEF Frame
    <2> QED BY <2>1, <2>2
  <1>8. \A x \in Snap : UnsavedHasFile(x)'
    BY <1>1 DEF TypeInv, TypeOK, TxInv, UnsavedHasFile
  <1>9. OriginalsHeld'
    <2>1. ASSUME NEW d \in Snap, doc'[d] = "saved", fname'[d] = d
          PROVE  d \in file' \/ doc[d] = "saved"
      BY <1>1, <2>1 DEF TxInv, UnsavedHasFile
    <2> QED BY <1>1, <1>5, <2>1, OriginalsStay
  <1>10. \A k \in Ident \X Snap : RowSettled(k)'
    BY <1>1, <1>5, RowsStay DEF Frame
  <1> QED BY <1>1, <1>5, <1>6, <1>7, <1>8, <1>9, <1>10, TxStep, ClonesStay DEF Frame

\* What a rollback does to the documents and checks of others: nothing.
LEMMA RollBackTx ==
  ASSUME TypeInv, TxInv, NEW p \in Request, RollBackDocs(p), UNCHANGED <<fname, file>>
  PROVE  /\ DocsMove(p) /\ ChecksMove(p) /\ NamesStay
         /\ \A c \in Snap : CheckSettled(c)'
         /\ \A s \in Snap : UnsavedHasFile(s)'
         /\ \A d \in Snap : doc'[d] = "saved" => doc[d] = "saved"
  <1>1. \A s \in Snap : s \in {loc[p].cur, loc[p].diff} => s \in OwnIds(p)
    BY StoreAssumption DEF OwnIds
  <1>2. DocsMove(p) /\ ChecksMove(p) /\ NamesStay
    BY <1>1 DEF RollBackDocs, DocsMove, ChecksMove, NamesStay
  <1>3. ASSUME NEW c \in Snap  PROVE CheckSettled(c)'
    <2>1. CASE check'[c] = check[c]
      BY <1>2, <2>1, ChecksStaySettled
    <2>2. CASE check'[c] = NoCheck
      BY <2>2 DEF CheckSettled, NoCheck
    <2> QED BY <2>1, <2>2 DEF RollBackDocs
  <1>4. \A s \in Snap : UnsavedHasFile(s)' /\ (doc'[s] = "saved" => doc[s] = "saved")
    BY DEF RollBackDocs, TxInv, UnsavedHasFile
  <1> QED BY <1>2, <1>3, <1>4

LEMMA FailTx ==
  ASSUME TypeInv, TxInv, NEW p \in Request, Fail(p)
  PROVE  TxInv'
  <1>1. /\ UNCHANGED <<fname, imghash, file, row, clock, torn>>
        /\ RollBackDocs(p) /\ pc[p] \in CreateSteps
    BY DEF Fail
  <1>2. /\ OthersStay(p) /\ pc'[p] \in {"idle", "cleanup"}
        /\ pc'[p] = "idle" => loc'[p].cur = None /\ loc'[p].diff = None
        /\ pc'[p] = "cleanup" =>
             /\ pc[p] \in CreateSteps \ {"access", "clone", "write", "save"}
             /\ loc'[p].cur = loc[p].cur
             /\ loc'[p].diff = IF pc[p] = "diffSave" THEN None ELSE loc[p].diff
    <2> USE DEF TypeInv, TypeOK, OthersStay, Goto, Blank
    <2>1. CASE Finish(p)
      BY <2>1 DEF Finish
    <2>2. CASE /\ pc[p] \notin {"access", "clone", "write", "save"} /\ Goto(p, "cleanup")
               /\ loc' = [loc EXCEPT ![p].diff = IF pc[p] = "diffSave" THEN None ELSE @]
      BY <1>1, <2>2 DEF Locals
    <2> QED BY <2>1, <2>2 DEF Fail
  <1>3. pc'[p] = "cleanup" =>
          /\ loc[p].cur \in Snap /\ doc[loc[p].cur] = "tx"
          /\ loc'[p].diff # None => loc'[p].diff = loc[p].diff /\ doc[loc[p].diff] = "tx"
    <2> SUFFICES ASSUME pc'[p] = "cleanup"
                 PROVE  /\ loc[p].cur \in Snap /\ doc[loc[p].cur] = "tx"
                        /\ loc'[p].diff # None =>
                             loc'[p].diff = loc[p].diff /\ doc[loc[p].diff] = "tx"
      OBVIOUS
    <2>1. pc[p] \in Holding \ {"save"} /\ pc[p] # "cleanup"
      BY <1>2 DEF Holding, CreateSteps
    <2>2. loc[p].cur \in Snap /\ doc[loc[p].cur] = "tx"
      BY <2>1 DEF TypeInv, TxInv, ReqSet, ReqDocs
    <2>3. CASE pc[p] \in {"insert", "finish"}
      BY <1>2, <2>2, <2>3 DEF TxInv, ReqDocs
    <2>4. CASE pc[p] = "diffSave"
      BY <1>2, <2>2, <2>4
    <2>5. CASE pc[p] \notin {"diffSave", "insert", "finish"}
      BY <1>2, <2>1, <2>2, <2>5 DEF TxInv, ReqDocs
    <2> QED BY <2>3, <2>4, <2>5
  <1>4. pc'[p] = "cleanup" =>
          /\ loc'[p].cur \in Snap /\ doc'[loc'[p].cur] = "void"
          /\ loc'[p].diff # None => doc'[loc'[p].diff] = "void"
    <2>1. loc[p].diff \in Snap \cup {None}
      BY DEF TypeInv, TypeOK, Locals
    <2> QED BY <1>1, <1>2, <1>3, <2>1 DEF RollBackDocs
  <1>5. ReqDocs(p)'
    BY <1>2, <1>4 DEF ReqDocs, Holding, CreateSteps, WithBase
  <1>6. IdsFresh(p)
    BY <1>2 DEF IdsFresh, OwnIds
  <1>7. Frame(p)
    BY <1>1, <1>2, <1>6, RollBackTx DEF Frame
  <1>8. OriginalsHeld'
    <2>1. pc[p] # "rDelete"
      BY <1>1 DEF CreateSteps
    <2> QED BY <1>1, <1>7, <2>1, RollBackTx, OriginalsStay
  <1>9. \A k \in Ident \X Snap : RowSettled(k)'
    BY <1>1, <1>7, RowsStay DEF Frame
  <1> QED BY <1>1, <1>5, <1>7, <1>8, <1>9, RollBackTx, TxStep, ClonesStay DEF Frame

LEMMA DieTx ==
  ASSUME TypeInv, TxInv, NEW p \in Request, Die(p)
  PROVE  TxInv'
  <1>1. /\ UNCHANGED <<fname, imghash, file, row, clock>> /\ RollBackDocs(p)
        /\ pc' = [pc EXCEPT ![p] = "idle"] /\ loc' = [loc EXCEPT ![p] = Blank]
        /\ torn \subseteq torn'
        /\ pc[p] = "rDelete" /\ loc[p].last => Target(p) \in torn'
    BY DEF Die, Finish, Goto
  <1>2. OthersStay(p) /\ pc'[p] = "idle" /\ loc'[p].cur = None /\ loc'[p].diff = None
    BY <1>1 DEF TypeInv, TypeOK, OthersStay, Blank
  <1>3. ReqDocs(p)' /\ IdsFresh(p)
    BY <1>2 DEF ReqDocs, Holding, CreateSteps, WithBase, IdsFresh, OwnIds
  <1>4. Frame(p)
    BY <1>1, <1>2, <1>3, RollBackTx DEF Frame
  <1>5. OriginalsHeld'
    BY <1>1, <1>4, RollBackTx, OriginalsStay
  <1>6. \A k \in Ident \X Snap : RowSettled(k)'
    BY <1>1, <1>4, RowsStay DEF Frame
  <1> QED BY <1>1, <1>3, <1>4, <1>5, <1>6, RollBackTx, TxStep, ClonesStay DEF Frame

\* The files cleaned up were written by documents that never became visible.
LEMMA CleanupTx ==
  ASSUME TypeInv, TxInv, NEW p \in Request, Cleanup(p)
  PROVE  TxInv'
  <1>1. /\ UNCHANGED <<doc, fname, imghash, row, clock, check, torn>>
        /\ pc[p] = "cleanup"
        /\ pc' = [pc EXCEPT ![p] = "idle"] /\ loc' = [loc EXCEPT ![p] = Blank]
        /\ file' = file \ CleanupFiles(p)
    BY DEF Cleanup, Finish, Goto, docVars
  <1>2. OthersStay(p) /\ pc'[p] = "idle" /\ loc'[p].cur = None /\ loc'[p].diff = None
    BY <1>1 DEF TypeInv, TypeOK, OthersStay, Blank
  <1>3. ReqDocs(p)' /\ IdsFresh(p)
    BY <1>2 DEF ReqDocs, Holding, CreateSteps, WithBase, IdsFresh, OwnIds
  <1>4. Frame(p)
    BY <1>1, <1>2, <1>3 DEF Frame, DocsMove, ChecksMove, NamesStay
  <1>5. \A x \in CleanupFiles(p) : doc[x] = "void"
    <2>1. \A x \in CleanupFiles(p) : x \in Snap /\ (x = loc[p].cur \/ x = loc[p].diff)
      BY DEF CleanupFiles
    <2>2. ReqDocs(p) /\ None \notin Snap
      BY StoreAssumption DEF TxInv
    <2> QED BY <1>1, <2>1, <2>2 DEF ReqDocs
  <1>6. \A x \in Snap : UnsavedHasFile(x)'
    BY <1>1, <1>5 DEF TxInv, UnsavedHasFile
  <1>7. OriginalsHeld'
    BY <1>1, <1>4, <1>5, OriginalsStay
  <1>8. /\ \A k \in Ident \X Snap : RowSettled(k)'
        /\ \A c \in Snap : CheckSettled(c)'
    BY <1>1, <1>4, RowsStay, ChecksStaySettled DEF Frame
  <1> QED BY <1>1, <1>3, <1>4, <1>6, <1>7, <1>8, TxStep, ClonesStay DEF Frame

LEMMA AcceptStartTx ==
  ASSUME TypeInv, TxInv, NEW p \in Request, AcceptStart(p)
  PROVE  TxInv'
  <1>1. PICK c \in Snap, link \in BOOLEAN :
          loc' = [loc EXCEPT ![p] = [Blank EXCEPT !.chk = c, !.link = link]]
    BY DEF AcceptStart
  <1>2. /\ UNCHANGED <<doc, fname, imghash, file, row, clock, check, torn>>
        /\ pc[p] = "idle" /\ pc' = [pc EXCEPT ![p] = "aUpsert"]
    BY DEF AcceptStart, Goto, docVars
  <1>3. OthersStay(p) /\ pc'[p] = "aUpsert" /\ loc'[p].cur = None /\ loc'[p].diff = None
    BY <1>1, <1>2 DEF TypeInv, TypeOK, OthersStay, Blank
  <1>4. ReqDocs(p)' /\ IdsFresh(p)
    BY <1>3 DEF ReqDocs, Holding, CreateSteps, WithBase, IdsFresh, OwnIds
  <1> QED BY <1>2, <1>3, <1>4, TxRead

\* The row a check's acceptance inserts names the check's own snapshot, which
\* is or was visible.
LEMMA AcceptUpsertTx ==
  ASSUME TypeInv, TxInv, NEW p \in Request, AcceptUpsert(p)
  PROVE  TxInv'
  <1>1. /\ UNCHANGED <<doc, fname, imghash, file, check, torn, loc>>
        /\ pc[p] = "aUpsert" /\ pc' = [pc EXCEPT ![p] = "aSave"]
    BY DEF AcceptUpsert, Goto, docVars
  <1>2. OthersStay(p) /\ pc'[p] = "aSave" /\ loc[p].cur = None /\ loc[p].diff = None
    BY <1>1 DEF TypeInv, TypeOK, OthersStay, TxInv, ReqDocs, Holding, CreateSteps
  <1>3. ReqDocs(p)' /\ IdsFresh(p)
    BY <1>1, <1>2 DEF ReqDocs, Holding, CreateSteps, WithBase, IdsFresh, OwnIds
  <1>4. Frame(p)
    BY <1>1, <1>2, <1>3 DEF Frame, DocsMove, ChecksMove, NamesStay
  <1>5. /\ loc[p].chk \in Snap /\ check[loc[p].chk].st \in {"live", "gone"}
        /\ Settled(loc[p].chk)
    BY <1>1 DEF TypeInv, ReqSet, AcceptSteps, TxInv, CheckSettled
  <1>6. ASSUME NEW k \in Ident \X Snap  PROVE RowSettled(k)'
    <2>1. CASE k[2] = loc[p].chk
      BY <1>1, <1>5, <2>1 DEF RowSettled, Settled
    <2>2. CASE k[2] # loc[p].chk
      <3>1. row'[k] = row[k]
        BY <2>2 DEF AcceptUpsert, TypeInv, TypeOK
      <3> QED BY <1>4, <3>1, RowsStay DEF Frame
    <2> QED BY <2>1, <2>2
  <1>7. \A x \in Snap : UnsavedHasFile(x)'
    BY <1>1 DEF TxInv, UnsavedHasFile
  <1>8. OriginalsHeld'
    BY <1>1, <1>4, OriginalsStay
  <1>9. \A c \in Snap : CheckSettled(c)'
    BY <1>1, <1>4, ChecksStaySettled DEF Frame
  <1> QED BY <1>1, <1>3, <1>4, <1>6, <1>7, <1>8, <1>9, TxStep, ClonesStay DEF Frame

\* A check's baselineId becomes the check's own snapshot, or stays.
LEMMA AcceptSaveTx ==
  ASSUME TypeInv, TxInv, NEW p \in Request, AcceptSave(p)
  PROVE  TxInv'
  <1>1. /\ UNCHANGED <<doc, fname, imghash, file, row, clock, torn>>
        /\ pc[p] = "aSave" /\ pc' = [pc EXCEPT ![p] = "idle"]
        /\ loc' = [loc EXCEPT ![p] = Blank]
    BY DEF AcceptSave, Finish, Goto, docVars
  <1>2. OthersStay(p) /\ pc'[p] = "idle" /\ loc'[p].cur = None /\ loc'[p].diff = None
    BY <1>1 DEF TypeInv, TypeOK, OthersStay, Blank
  <1>3. ReqDocs(p)' /\ IdsFresh(p)
    BY <1>2 DEF ReqDocs, Holding, CreateSteps, WithBase, IdsFresh, OwnIds
  <1>4. loc[p].chk \in Snap /\ check[loc[p].chk].base \in Snap
    BY <1>1 DEF TypeInv, ReqSet, CheckSet, AcceptSteps
  <1>5. CASE check[loc[p].chk].st = "live" /\ loc[p].link
    <2>1. check' = [check EXCEPT ![loc[p].chk].base = loc[p].chk]
      BY <1>5 DEF AcceptSave
    <2>2. Frame(p)
      BY <1>1, <1>2, <1>3, <1>5, <2>1 DEF TypeInv, TypeOK, Frame, DocsMove, ChecksMove,
         NamesStay
    <2>3. ASSUME NEW c \in Snap  PROVE CheckSettled(c)'
      <3>1. CASE c = loc[p].chk
        BY <1>1, <1>5, <2>1, <3>1 DEF TypeInv, TypeOK, CheckRec, TxInv, CheckSettled, Settled
      <3>2. CASE c # loc[p].chk
        BY <2>1, <2>2, <3>2, ChecksStaySettled DEF TypeInv, TypeOK, Frame
      <3> QED BY <3>1, <3>2
    <2>4. \A x \in Snap : UnsavedHasFile(x)'
      BY <1>1 DEF TxInv, UnsavedHasFile
    <2>5. OriginalsHeld'
      BY <1>1, <2>2, OriginalsStay
    <2>6. \A k \in Ident \X Snap : RowSettled(k)'
      BY <1>1, <2>2, RowsStay DEF Frame
    <2> QED BY <1>1, <1>3, <2>2, <2>3, <2>4, <2>5, <2>6, TxStep, ClonesStay DEF Frame
  <1>6. CASE ~(check[loc[p].chk].st = "live" /\ loc[p].link)
    <2>1. check' = check
      BY <1>4, <1>6 DEF AcceptSave, TypeInv, TypeOK, CheckRec
    <2> QED BY <1>1, <1>2, <1>3, <2>1, TxRead
  <1> QED BY <1>5, <1>6

LEMMA RemoveStartTx ==
  ASSUME TypeInv, TxInv, NEW p \in Request, RemoveStart(p)
  PROVE  TxInv'
  <1>1. PICK c \in Snap :
          /\ check[c].st = "live"
          /\ check' = [check EXCEPT ![c].st = "gone"]
          /\ loc' = [loc EXCEPT ![p] = [Blank EXCEPT !.chk = c]]
    BY DEF RemoveStart
  <1>2. /\ UNCHANGED <<doc, fname, imghash, file, row, clock, torn>>
        /\ pc[p] = "idle" /\ pc' = [pc EXCEPT ![p] = "rBaseline"]
    BY DEF RemoveStart, Goto, docVars
  <1>3. OthersStay(p) /\ pc'[p] = "rBaseline" /\ loc'[p].cur = None /\ loc'[p].diff = None
    BY <1>1, <1>2 DEF TypeInv, TypeOK, OthersStay, Blank
  <1>4. ReqDocs(p)' /\ IdsFresh(p)
    BY <1>3 DEF ReqDocs, Holding, CreateSteps, WithBase, IdsFresh, OwnIds
  <1>5. Frame(p)
    BY <1>1, <1>2, <1>3, <1>4 DEF TypeInv, TypeOK, Frame, DocsMove, ChecksMove, NamesStay
  <1>6. ASSUME NEW d \in Snap  PROVE CheckSettled(d)'
    <2>1. CASE d = c
      BY <1>1, <1>2, <2>1 DEF TypeInv, TypeOK, CheckRec, TxInv, CheckSettled, Settled
    <2>2. CASE d # c
      BY <1>1, <1>5, <2>2, ChecksStaySettled DEF TypeInv, TypeOK, Frame
    <2> QED BY <2>1, <2>2
  <1>7. \A x \in Snap : UnsavedHasFile(x)'
    BY <1>2 DEF TxInv, UnsavedHasFile
  <1>8. OriginalsHeld'
    BY <1>2, <1>5, OriginalsStay
  <1>9. \A k \in Ident \X Snap : RowSettled(k)'
    BY <1>2, <1>5, RowsStay DEF Frame
  <1> QED BY <1>2, <1>4, <1>5, <1>6, <1>7, <1>8, <1>9, TxStep, ClonesStay DEF Frame

\* A remover holds no documents of its own, and moves on or ends.
LEMMA RemoverDocs ==
  ASSUME TypeInv, TxInv, NEW p \in Request, pc[p] \in RemoveSteps, NextTarget(p)
  PROVE  OthersStay(p) /\ ReqDocs(p)' /\ IdsFresh(p)
  <1>1. loc[p].cur = None /\ loc[p].diff = None
    BY DEF TxInv, ReqDocs, RemoveSteps, Holding, CreateSteps
  <1>2. /\ OthersStay(p) /\ pc'[p] \in {"rBaseline", "idle"}
        /\ loc'[p].cur = None /\ loc'[p].diff = None
    <2> USE DEF TypeInv, TypeOK, OthersStay, Goto
    <2>1. CASE Finish(p)
      BY <2>1 DEF Finish, Blank
    <2>2. ASSUME NEW st \in Stages, Goto(p, "rBaseline"),
                 loc' = [loc EXCEPT ![p].stage = st, ![p].last = FALSE]
          PROVE  /\ OthersStay(p) /\ pc'[p] \in {"rBaseline", "idle"}
                 /\ loc'[p].cur = None /\ loc'[p].diff = None
      <3>1. OthersStay(p) /\ pc'[p] = "rBaseline"
        BY <2>2
      <3>2. loc'[p].cur = loc[p].cur /\ loc'[p].diff = loc[p].diff
        BY <2>2 DEF Locals
      <3> QED BY <1>1, <3>1, <3>2
    <2> QED BY <2>1, <2>2 DEF NextTarget, Stages
  <1> QED BY <1>2 DEF ReqDocs, Holding, CreateSteps, WithBase, IdsFresh, OwnIds

LEMMA RemoveReadTx ==
  ASSUME TypeInv, TxInv, NEW p \in Request, RemoveCheckBaseline(p) \/ RemoveFindDoc(p)
  PROVE  TxInv'
  <1>1. /\ UNCHANGED <<doc, fname, imghash, file, row, clock, check, torn>>
        /\ pc[p] \in RemoveSteps /\ pc[p] # "rDelete"
    BY DEF RemoveCheckBaseline, RemoveFindDoc, RemoveSteps, docVars
  <1>2. CASE NextTarget(p)
    BY <1>1, <1>2, RemoverDocs, TxRead
  <1>3. CASE ~NextTarget(p)
    <2>1. UNCHANGED loc /\ (Goto(p, "rDoc") \/ Goto(p, "rOthers"))
      BY <1>3 DEF RemoveCheckBaseline, RemoveFindDoc
    <2>2. loc[p].cur = None /\ loc[p].diff = None
      BY <1>1 DEF TxInv, ReqDocs, RemoveSteps, Holding, CreateSteps
    <2>3. OthersStay(p) /\ pc'[p] \in {"rDoc", "rOthers"}
      BY <2>1 DEF TypeInv, TypeOK, OthersStay, Goto
    <2>4. ReqDocs(p)' /\ IdsFresh(p)
      BY <2>1, <2>2, <2>3 DEF ReqDocs, Holding, CreateSteps, WithBase, IdsFresh, OwnIds
    <2> QED BY <1>1, <2>3, <2>4, TxRead
  <1> QED BY <1>2, <1>3

\* A document that shares its file with nobody wrote the file itself, or the
\* one that did is gone.
LEMMA LastReference ==
  ASSUME TypeInv, TxInv, NEW t \in Snap, Sharers(t) = {}, doc[fname[t]] = "saved"
  PROVE  fname[t] = t
  <1> SUFFICES ASSUME fname[t] # t  PROVE FALSE
    OBVIOUS
  <1>1. fname[t] \in Snap /\ fname[fname[t]] = fname[t]
    BY DEF TypeInv, TypeOK, TxInv, CloneOf
  <1>2. fname[t] \in Sharers(t)
    BY <1>1 DEF Sharers
  <1> QED BY <1>2

LEMMA RemoveFindOthersTx ==
  ASSUME TypeInv, TxInv, NEW p \in Request, RemoveFindOthers(p)
  PROVE  TxInv'
  <1>1. /\ UNCHANGED <<doc, fname, imghash, file, row, clock, check, torn>>
        /\ pc[p] = "rOthers"
    BY DEF RemoveFindOthers, docVars
  <1>2. Target(p) \in Snap /\ loc[p].cur = None /\ loc[p].diff = None
    BY <1>1, TargetSettled DEF TxInv, ReqDocs, RemoveSteps, Holding, CreateSteps
  <1>3. PICK l \in BOOLEAN :
          /\ l <=> Sharers(Target(p)) = {}
          /\ loc' = [loc EXCEPT ![p].last = l]
          /\ Goto(p, IF l THEN "rUnlink" ELSE "rDelete")
    BY DEF RemoveFindOthers
  <1>4. /\ OthersStay(p) /\ pc'[p] = IF l THEN "rUnlink" ELSE "rDelete"
        /\ loc'[p].cur = None /\ loc'[p].diff = None /\ (loc'[p].last <=> l)
        /\ loc'[p].chk = loc[p].chk /\ loc'[p].stage = loc[p].stage
    BY <1>2, <1>3 DEF TypeInv, TypeOK, OthersStay, Goto, Locals
  <1>5. Target(p)' = Target(p)
    BY <1>1, <1>4 DEF Target
  <1>6. l /\ doc[fname[Target(p)]] = "saved" => fname[Target(p)] = Target(p)
    BY <1>2, <1>3, LastReference
  <1>7. ReqDocs(p)'
    BY <1>1, <1>4, <1>5, <1>6 DEF ReqDocs, Holding, CreateSteps, WithBase
  <1>8. IdsFresh(p)
    BY <1>4 DEF IdsFresh, OwnIds
  <1> QED BY <1>1, <1>4, <1>7, <1>8, TxRead

\* The file unlinked is that of the document being removed, or of one that is
\* gone: not of a document that is visible or about to be.
LEMMA RemoveUnlinkTx ==
  ASSUME TypeInv, TxInv, NEW p \in Request, RemoveUnlink(p)
  PROVE  TxInv'
  <1>1. /\ UNCHANGED <<doc, fname, imghash, row, clock, check, torn, loc>>
        /\ pc[p] = "rUnlink" /\ pc' = [pc EXCEPT ![p] = "rDelete"]
        /\ file' = file \ {fname[Target(p)]}
    BY DEF RemoveUnlink, Goto, docVars
  <1>2. /\ Target(p) \in Snap /\ Settled(Target(p)) /\ loc[p].cur = None /\ loc[p].diff = None
        /\ loc[p].last
        /\ doc[fname[Target(p)]] = "saved" => fname[Target(p)] = Target(p)
    BY <1>1, TargetSettled DEF TxInv, ReqDocs, RemoveSteps, Holding, CreateSteps
  <1>3. OthersStay(p) /\ pc'[p] = "rDelete" /\ Target(p)' = Target(p)
    BY <1>1 DEF TypeInv, TypeOK, OthersStay, Target
  <1>4. ReqDocs(p)' /\ IdsFresh(p)
    BY <1>1, <1>2, <1>3 DEF ReqDocs, Holding, CreateSteps, WithBase, IdsFresh, OwnIds
  <1>5. Frame(p)
    BY <1>1, <1>3, <1>4 DEF Frame, DocsMove, ChecksMove, NamesStay
  <1>6. Settled(fname[Target(p)])
    BY <1>2 DEF TxInv, CloneOf, Settled
  <1>7. \A x \in Snap : UnsavedHasFile(x)'
    BY <1>1, <1>6 DEF TxInv, UnsavedHasFile, Settled
  <1>8. OriginalsHeld'
    <2>1. ASSUME NEW d \in Snap, doc'[d] = "saved", d = fname[Target(p)]
          PROVE  BeingDeleted(d)'
      <3>1. doc[d] = "saved" /\ d = Target(p)
        BY <1>1, <1>2, <2>1
      <3> QED BY <1>1, <1>2, <1>3, <3>1 DEF BeingDeleted
    <2> QED BY <1>1, <1>5, <2>1, OriginalsStay
  <1>9. /\ \A k \in Ident \X Snap : RowSettled(k)'
        /\ \A c \in Snap : CheckSettled(c)'
    BY <1>1, <1>5, RowsStay, ChecksStaySettled DEF Frame
  <1> QED BY <1>1, <1>4, <1>5, <1>7, <1>8, <1>9, TxStep, ClonesStay DEF Frame

LEMMA RemoveDeleteTx ==
  ASSUME TypeInv, TxInv, NEW p \in Request, RemoveDelete(p)
  PROVE  TxInv'
  <1>1. /\ UNCHANGED <<fname, imghash, file, row, clock, check, torn>>
        /\ pc[p] \in RemoveSteps /\ NextTarget(p)
        /\ doc' = [doc EXCEPT ![Target(p)] = "gone"]
    BY DEF RemoveDelete, RemoveSteps
  <1>2. Target(p) \in Snap /\ Settled(Target(p))
    BY <1>1, TargetSettled
  <1>3. OthersStay(p) /\ ReqDocs(p)' /\ IdsFresh(p)
    BY <1>1, RemoverDocs
  <1>4. Frame(p)
    BY <1>1, <1>2, <1>3 DEF TypeInv, TypeOK, Frame, DocsMove, ChecksMove, NamesStay
  <1>5. \A x \in Snap : UnsavedHasFile(x)'
    BY <1>1 DEF TypeInv, TypeOK, TxInv, UnsavedHasFile
  <1>6. OriginalsHeld'
    <2>1. \A d \in Snap : doc'[d] = "saved" => doc[d] = "saved" /\ Target(p) # d
      BY <1>1, <1>2 DEF TypeInv, TypeOK
    <2> QED BY <1>1, <1>4, <2>1, OriginalsStay
  <1>7. /\ \A k \in Ident \X Snap : RowSettled(k)'
        /\ \A c \in Snap : CheckSettled(c)'
    BY <1>1, <1>4, RowsStay, ChecksStaySettled DEF Frame
  <1> QED BY <1>1, <1>3, <1>4, <1>5, <1>6, <1>7, TxStep, ClonesStay DEF Frame

\* A step that leaves everything but baseline rows alone, and adds none.
LEMMA TxIdle ==
  ASSUME TypeInv, TxInv, UNCHANGED <<doc, fname, file, check, torn, pc, loc>>,
         \A k \in Ident \X Snap : row'[k] > 0 => row[k] > 0
  PROVE  TxInv'
  <1>1. \A p \in Request : ReqDocs(p)'
    BY DEF TxInv, ReqDocs, Settled, Target
  <1>2. DisjointIds'
    BY DEF TxInv, DisjointIds, OwnIds
  <1>3. \A s \in Snap : CloneOf(s)' /\ UnsavedHasFile(s)' /\ CheckSettled(s)'
    BY DEF TxInv, CloneOf, UnsavedHasFile, CheckSettled, Settled
  <1>4. \A k \in Ident \X Snap : RowSettled(k)'
    BY DEF TxInv, RowSettled, Settled
  <1>5. OriginalsHeld'
    BY DEF TxInv, OriginalsHeld, BeingDeleted, Target
  <1> QED BY <1>1, <1>2, <1>3, <1>4, <1>5 DEF TxInv

LEMMA TxNext == replicaSet /\ TypeInv /\ TxInv /\ [Next]_vars => TxInv'
  <1> SUFFICES ASSUME replicaSet, TypeInv, TxInv, [Next]_vars  PROVE TxInv'
    OBVIOUS
  <1> replicaSet' = replicaSet
    BY DEF Next, vars
  <1>1. ASSUME NEW p \in Request, CreateStep(p)  PROVE TxInv'
    BY <1>1, LookupTx, AccessTx, CloneTx, WriteFileTx, SaveDocTx, FindBaselineTx, CompareTx,
       DiffWriteTx, DiffSaveTx, InsertCheckTx, CommitTx, FailTx, CleanupTx DEF CreateStep
  <1>2. ASSUME NEW p \in Request, AcceptStep(p)  PROVE TxInv'
    BY <1>2, AcceptStartTx, AcceptUpsertTx, AcceptSaveTx DEF AcceptStep
  <1>3. ASSUME NEW p \in Request, RemoveStep(p)  PROVE TxInv'
    BY <1>3, RemoveStartTx, RemoveReadTx, RemoveFindOthersTx, RemoveUnlinkTx, RemoveDeleteTx
    DEF RemoveStep
  <1>4. ASSUME NEW k \in Ident \X Snap, RemoveBaseline(k)  PROVE TxInv'
    <2>1. \A j \in Ident \X Snap : row'[j] > 0 => row[j] > 0
      BY <1>4 DEF RemoveBaseline, TypeInv, TypeOK
    <2> QED BY <1>4, <2>1, TxIdle DEF RemoveBaseline, docVars, reqVars
  <1>5. CASE UNCHANGED vars
    BY <1>5, TxIdle DEF vars
  <1> QED BY <1>1, <1>2, <1>3, <1>4, <1>5, DieTx DEF Next

\* The same invariant for every deployment: a server stays on its database.
StoreInv == TypeInv /\ (replicaSet => TxInv)

LEMMA StoreInit == Init => StoreInv
  BY TypeInit, TxInit DEF StoreInv

LEMMA StoreNext == StoreInv /\ [Next]_vars => StoreInv'
  <1> SUFFICES ASSUME StoreInv, [Next]_vars  PROVE StoreInv'
    OBVIOUS
  <1>1. replicaSet' = replicaSet
    BY DEF Next, vars
  <1>2. TypeInv'
    BY TypeNext DEF StoreInv
  <1>3. ASSUME replicaSet'  PROVE TxInv'
    BY <1>1, <1>3, TxNext DEF StoreInv
  <1> QED BY <1>2, <1>3 DEF StoreInv

\* On a replica set a document that wrote its own image keeps it for as long
\* as it is visible: no upload, clone, failed createCheck, crash or removal, of
\* any number of requests in any order, unlinks it under the document.
THEOREM OriginalsKeepFiles == Spec => []OriginalKeepsFile
  <1>1. StoreInv => OriginalKeepsFile
    BY DEF StoreInv, TxInv, OriginalsHeld, OriginalKeepsFile
  <1> QED BY <1>1, StoreInit, StoreNext, PTL DEF Spec

\* On a replica set cleanupOrphanFiles never unlinks a file that a visible
\* document, its own or another request's, refers to.
THEOREM CleanupsArePrivate == Spec => []CleanupIsPrivate
  <1>1. StoreInv => CleanupIsPrivate
    BY TxInvPrivate DEF StoreInv, CleanupIsPrivate
  <1> QED BY <1>1, StoreInit, StoreNext, PTL DEF Spec

-----------------------------------------------------------------------------
(* References resolve in the quiet environment, with or without transactions. *)
(* The strengthening says who may refer to what.  A row and a baseline that is *)
(* not the check's own image stand for an image that some check was accepted   *)
(* with, and such an image has a row for as long as rows are kept; a diff      *)
(* image belongs to one check.  So what a remover has found without a row is   *)
(* referred to by nobody but its own check, which is gone.                     *)

HasRow(s) == \E i \in Ident : row[<<i, s>>] > 0

\* The documents of a request that creates a check, and that check.
Ids(p) ==
  /\ pc[p] \notin Holding \cup {"cleanup"} => loc[p].cur = None
  /\ pc[p] \notin {"diffSave", "insert", "finish", "cleanup"} => loc[p].diff = None
  /\ \A s \in OwnIds(p) : doc[s] # "free"
  /\ loc[p].diff # None => loc[p].diff # loc[p].cur /\ check[loc[p].diff].st = "none"
  /\ pc[p] = "save" => doc[loc[p].cur] = "new"
  /\ pc[p] = "diffSave" => loc[p].diff \in Snap /\ doc[loc[p].diff] = "new"
  /\ pc[p] \in Uninserted \ {"save"} => doc[loc[p].cur] = Inserted
  /\ pc[p] = "insert" /\ loc[p].diff # None => doc[loc[p].diff] = Inserted
  /\ pc[p] = "finish" /\ replicaSet =>
       /\ doc[loc[p].cur] = "tx"
       /\ loc[p].diff # None => doc[loc[p].diff] = "tx"
       /\ check[loc[p].cur] = [st |-> "tx", ident |-> loc[p].ident,
                               base |-> loc[p].base, diff |-> loc[p].diff]
  /\ pc[p] = "finish" /\ ~replicaSet => check[loc[p].cur].st \in {"live", "gone"}

BaseOf(p) == pc[p] \in WithBase => loc[p].base = loc[p].cur \/ HasRow(loc[p].base)

Acceptor(p) == pc[p] \in AcceptSteps => check[loc[p].chk].st = "live"

Remover(p) == pc[p] \in RemoveSteps \ {"rBaseline"} => ~HasRow(Target(p))

\* Only the check that a request creates refers to its documents.
Owned(p) ==
  \A c \in Snap : check[c].diff \in OwnIds(p) =>
    check[c].diff = loc[p].diff /\ c = loc[p].cur

DiffOf(c) ==
  /\ check[c].st = "none" => check[c].diff = None
  /\ check[c].diff # None =>
       /\ doc[check[c].diff] # "free" /\ check[check[c].diff].st = "none"
       /\ \A e \in Snap : check[e].diff = check[c].diff => e = c

Based(c) == check[c].st # "none" => check[c].base = c \/ HasRow(check[c].base)

RowOf(k) == row[k] > 0 => doc[k[2]] = "saved" /\ check[k[2]].st \in {"live", "gone"}

RequestRefs(p) == Ids(p) /\ BaseOf(p) /\ Acceptor(p) /\ Remover(p) /\ Owned(p)

RefInv ==
  /\ \A p \in Request : RequestRefs(p)
  /\ DisjointIds
  /\ \A c \in Snap : DiffOf(c) /\ Based(c)
  /\ \A k \in Ident \X Snap : RowOf(k)
  /\ LiveCheckResolves

\* What a remover is removing: an image of its own check, which is gone.
LEMMA RemovedImage ==
  ASSUME TypeInv, RefInv, NEW p \in Request, pc[p] \in RemoveSteps \ {"rBaseline"}
  PROVE  /\ loc[p].chk \in Snap /\ check[loc[p].chk].st = "gone"
         /\ Target(p) \in Snap /\ ~HasRow(Target(p))
         /\ Target(p) = loc[p].chk \/ Target(p) = check[loc[p].chk].diff
         /\ check[Target(p)].st \in {"gone", "none"}
  <1>1. /\ loc[p].chk \in Snap /\ check[loc[p].chk].st = "gone"
        /\ loc[p].stage = "diff" => check[loc[p].chk].diff \in Snap
        /\ loc[p].stage \in Stages
    BY DEF TypeInv, TypeOK, ReqSet, Locals
  <1>2. ~HasRow(Target(p))
    BY DEF RefInv, RequestRefs, Remover
  <1>3. Target(p) = loc[p].chk \/ (loc[p].stage = "diff" /\ Target(p) = check[loc[p].chk].diff)
    <2>1. check[loc[p].chk].base = loc[p].chk \/ HasRow(check[loc[p].chk].base)
      BY <1>1 DEF RefInv, Based
    <2> QED BY <1>1, <1>2, <2>1 DEF Target, Stages
  <1>4. Target(p) = check[loc[p].chk].diff /\ Target(p) \in Snap => check[Target(p)].st = "none"
    <2>1. DiffOf(loc[p].chk) /\ None \notin Snap
      BY <1>1, StoreAssumption DEF RefInv
    <2> QED BY <2>1 DEF DiffOf
  <1> QED BY <1>1, <1>2, <1>3, <1>4

\* No visible check refers to it.
LEMMA RemovedUnused ==
  ASSUME TypeInv, RefInv, NEW p \in Request, pc[p] \in RemoveSteps \ {"rBaseline"},
         NEW c \in Snap, check[c].st = "live"
  PROVE  c # Target(p) /\ check[c].base # Target(p) /\ check[c].diff # Target(p)
  <1>1. /\ loc[p].chk \in Snap /\ check[loc[p].chk].st = "gone"
        /\ Target(p) \in Snap /\ ~HasRow(Target(p))
        /\ Target(p) = loc[p].chk \/ Target(p) = check[loc[p].chk].diff
        /\ check[Target(p)].st \in {"gone", "none"}
    BY RemovedImage
  <1>2. c # Target(p) /\ check[c].base # Target(p)
    BY <1>1 DEF RefInv, Based
  <1>3. check[c].diff # Target(p)
    <2> SUFFICES ASSUME check[c].diff = Target(p)
                 PROVE  FALSE
      OBVIOUS
    <2>1. check[c].diff # None /\ DiffOf(c)
      BY <1>1, StoreAssumption DEF RefInv
    <2>2. check[Target(p)].st = "none"
      BY <2>1 DEF DiffOf
    <2>3. Target(p) = check[loc[p].chk].diff
      BY <1>1, <2>2
    <2>4. loc[p].chk = c
      BY <1>1, <2>1, <2>3 DEF DiffOf
    <2> QED BY <1>1, <2>4
  <1> QED BY <1>2, <1>3

\* No request that has yet to publish its check holds it.
LEMMA RemovedOwned ==
  ASSUME TypeInv, RefInv, NEW p \in Request, pc[p] \in RemoveSteps \ {"rBaseline"},
         NEW q \in Request, Target(p) \in OwnIds(q)
  PROVE  check[loc[q].cur].st = "gone"
  <1>1. /\ loc[p].chk \in Snap /\ check[loc[p].chk].st = "gone"
        /\ Target(p) = loc[p].chk \/ Target(p) = check[loc[p].chk].diff
    BY RemovedImage
  <1>2. Ids(q) /\ Owned(q)
    BY DEF RefInv, RequestRefs
  <1>3. CASE Target(p) = loc[p].chk
    BY <1>1, <1>2, <1>3 DEF Ids, OwnIds
  <1>4. CASE Target(p) = check[loc[p].chk].diff
    BY <1>1, <1>2, <1>4 DEF Owned
  <1> QED BY <1>1, <1>3, <1>4

-----------------------------------------------------------------------------
(* What a step of request p does to references *)

DocsKept(p) ==
  \A s \in Snap :
    \/ doc'[s] = doc[s]
    \/ doc[s] = "free" /\ doc'[s] # "free"
    \/ s \in OwnIds(p) /\ doc[s] \in {"new", "tx"} /\ doc'[s] # "free"
    \/ pc[p] = "rDelete" /\ s = Target(p) /\ doc'[s] = "gone"

ChecksKept(p) ==
  \A c \in Snap :
    \/ check'[c] = check[c]
    \/ /\ check[c].st = "live" /\ check'[c].st \in {"live", "gone"}
       /\ check'[c].diff = check[c].diff /\ check'[c].base \in {c, check[c].base}
    \/ /\ c = loc[p].cur /\ check[c].st \in {"none", "tx"}
       /\ \/ check'[c] = NoCheck
          \/ /\ check'[c].st \in {"tx", "live"} /\ pc[p] \in WithBase
             /\ check'[c].base = loc[p].base /\ check'[c].diff = loc[p].diff

RowsKept(p) ==
  \A k \in Ident \X Snap :
    /\ row[k] > 0 => row'[k] > 0
    /\ row'[k] > 0 => row[k] > 0 \/ (pc[p] = "aUpsert" /\ k[2] = loc[p].chk)

\* A check that somebody else is accepting is not removed.
Unaccepted(p) ==
  \A q \in Request \ {p} : pc[q] \in AcceptSteps /\ check[loc[q].chk].st = "live"
    => check'[loc[q].chk].st = "live"

\* A check that becomes visible refers to visible documents.
Published ==
  \A c \in Snap : check'[c].st = "live" /\ check[c].st # "live" =>
    \A s \in {c, check'[c].base, check'[c].diff} \ {None} : doc'[s] = "saved"

\* How the documents that p holds change.
OwnStep(p) ==
  \/ loc'[p].cur = None /\ loc'[p].diff = None
  \/ loc'[p].cur = loc[p].cur /\ loc'[p].diff \in {loc[p].diff, None}
  \/ /\ UNCHANGED check
     /\ loc[p].cur = None /\ loc[p].diff = None /\ loc'[p].diff = None
     /\ loc'[p].cur \in Snap /\ doc[loc'[p].cur] = "free"
  \/ /\ UNCHANGED check
     /\ loc'[p].cur = loc[p].cur /\ loc[p].diff = None
     /\ loc'[p].diff \in Snap /\ doc[loc'[p].diff] = "free"

RefFrame(p) ==
  /\ OthersStay(p) /\ DocsKept(p) /\ ChecksKept(p) /\ RowsKept(p) /\ Unaccepted(p)
  /\ Published /\ OwnStep(p)

LEMMA RowStays ==
  ASSUME NEW p \in Request, RowsKept(p), NEW s \in Snap, HasRow(s)
  PROVE  HasRow(s)'
  <1>1. PICK i \in Ident : row[<<i, s>>] > 0
    BY DEF HasRow
  <1>2. row'[<<i, s>>] > 0
    BY <1>1 DEF RowsKept
  <1> QED BY <1>2 DEF HasRow

LEMMA VisibleStays ==
  ASSUME NEW p \in Request, DocsKept(p), NEW s \in Snap, doc[s] = "saved",
         pc[p] = "rDelete" => s # Target(p)
  PROVE  doc'[s] = "saved"
  BY DEF DocsKept

\* The documents of another request stay, unless its check is published and
\* removed already.
LEMMA OthersDocs ==
  ASSUME TypeInv, RefInv, NEW p \in Request, RefFrame(p), NEW q \in Request \ {p},
         NEW s \in OwnIds(q)
  PROVE  /\ s \in Snap /\ doc'[s] # "free"
         /\ doc'[s] = doc[s] \/ check[loc[q].cur].st = "gone"
  <1>1. s \in Snap /\ doc[s] # "free"
    <2>1. loc[q].cur \in Snap \cup {None} /\ loc[q].diff \in Snap \cup {None}
      BY DEF TypeInv, TypeOK, Locals
    <2>2. Ids(q)
      BY DEF RefInv, RequestRefs
    <2> QED BY <2>1, <2>2 DEF Ids, OwnIds
  <1>2. s \notin OwnIds(p)
    BY DEF RefInv, DisjointIds
  <1>3. CASE doc'[s] = doc[s]
    BY <1>1, <1>3
  <1>4. CASE pc[p] = "rDelete" /\ s = Target(p) /\ doc'[s] = "gone"
    BY <1>1, <1>4, RemovedOwned DEF RemoveSteps
  <1> QED BY <1>1, <1>2, <1>3, <1>4 DEF RefFrame, DocsKept

\* So does the check record of its diff image: there is none.
LEMMA OthersChecks ==
  ASSUME TypeInv, RefInv, NEW p \in Request, RefFrame(p), NEW q \in Request \ {p}
  PROVE  /\ loc[q].diff # None => check'[loc[q].diff].st = "none"
         /\ loc[q].cur # None /\ check[loc[q].cur].st # "live" =>
              check'[loc[q].cur] = check[loc[q].cur]
         /\ loc[q].cur # None /\ check[loc[q].cur].st = "live" =>
              check'[loc[q].cur].st \in {"live", "gone"}
  <1>1. /\ loc[q].cur \in Snap \cup {None} /\ loc[q].diff \in Snap \cup {None}
        /\ loc[p].cur \in Snap \cup {None}
    BY DEF TypeInv, TypeOK, Locals
  <1>2. loc[q].diff # None => check[loc[q].diff].st = "none"
    BY DEF RefInv, RequestRefs, Ids
  <1>3. /\ loc[q].cur # None => loc[q].cur # loc[p].cur
        /\ loc[q].diff # None => loc[q].diff # loc[p].cur
    BY DEF RefInv, DisjointIds, OwnIds
  <1> QED BY <1>1, <1>2, <1>3 DEF RefFrame, ChecksKept

LEMMA OthersIds ==
  ASSUME TypeInv, RefInv, replicaSet' = replicaSet, NEW p \in Request, RefFrame(p), NEW q \in Request \ {p}
  PROVE  Ids(q)'
  <1>1. pc'[q] = pc[q] /\ loc'[q] = loc[q] /\ Ids(q) /\ ReqSet(q)
    BY DEF RefFrame, OthersStay, RefInv, RequestRefs, TypeInv
  <1>2. OwnIds(q)' = OwnIds(q) /\ None \notin Snap
    BY <1>1, StoreAssumption DEF OwnIds
  <1>3. \A s \in OwnIds(q) : doc'[s] # "free"
    BY OthersDocs
  <1>4. loc[q].diff # None => loc[q].diff # loc[q].cur /\ check'[loc[q].diff].st = "none"
    BY <1>1, OthersChecks DEF Ids
  <1>5. pc[q] \in Holding => loc[q].cur \in Snap /\ loc[q].cur \in OwnIds(q)
    BY <1>1, <1>2 DEF ReqSet, OwnIds
  <1>6. pc[q] \in Uninserted => doc'[loc[q].cur] = doc[loc[q].cur]
                                /\ (loc[q].diff # None => doc'[loc[q].diff] = doc[loc[q].diff])
    <2> SUFFICES ASSUME pc[q] \in Uninserted
                 PROVE  /\ doc'[loc[q].cur] = doc[loc[q].cur]
                        /\ loc[q].diff # None => doc'[loc[q].diff] = doc[loc[q].diff]
      OBVIOUS
    <2>1. check[loc[q].cur].st = "none" /\ loc[q].cur \in OwnIds(q)
      BY <1>1, <1>5 DEF ReqSet, Uninserted
    <2>2. loc[q].diff # None => loc[q].diff \in OwnIds(q)
      BY DEF OwnIds
    <2> QED BY <2>1, <2>2, OthersDocs
  <1>7. pc[q] = "finish" /\ replicaSet =>
          /\ doc'[loc[q].cur] = "tx"
          /\ loc[q].diff # None => doc'[loc[q].diff] = "tx"
          /\ check'[loc[q].cur] = [st |-> "tx", ident |-> loc[q].ident,
                                   base |-> loc[q].base, diff |-> loc[q].diff]
    <2> SUFFICES ASSUME pc[q] = "finish", replicaSet
                 PROVE  /\ doc'[loc[q].cur] = "tx"
                        /\ loc[q].diff # None => doc'[loc[q].diff] = "tx"
                        /\ check'[loc[q].cur] = [st |-> "tx", ident |-> loc[q].ident,
                                                 base |-> loc[q].base, diff |-> loc[q].diff]
      OBVIOUS
    <2>1. /\ doc[loc[q].cur] = "tx"
          /\ loc[q].diff # None => doc[loc[q].diff] = "tx"
          /\ check[loc[q].cur] = [st |-> "tx", ident |-> loc[q].ident,
                                  base |-> loc[q].base, diff |-> loc[q].diff]
      BY <1>1 DEF Ids
    <2>2. loc[q].cur # None /\ loc[q].cur \in OwnIds(q)
      BY <1>2, <1>5 DEF Holding, CreateSteps
    <2>3. loc[q].diff # None => loc[q].diff \in OwnIds(q)
      BY DEF OwnIds
    <2>4. check[loc[q].cur].st = "tx"
      BY <2>1
    <2>5. doc'[loc[q].cur] = doc[loc[q].cur]
      BY <2>2, <2>4, OthersDocs
    <2>6. loc[q].diff # None => doc'[loc[q].diff] = doc[loc[q].diff]
      BY <2>3, <2>4, OthersDocs
    <2>7. check'[loc[q].cur] = check[loc[q].cur]
      BY <2>2, <2>4, OthersChecks
    <2> QED BY <2>1, <2>5, <2>6, <2>7
  <1>8. pc[q] = "finish" /\ ~replicaSet => check'[loc[q].cur].st \in {"live", "gone"}
    BY <1>1, <1>2, <1>5, OthersChecks DEF Ids, Holding, CreateSteps
  <1>9. pc[q] = "save" => doc'[loc[q].cur] = "new"
    BY <1>1, <1>6 DEF Ids, Uninserted, Holding, CreateSteps
  <1>10. pc[q] = "diffSave" => loc[q].diff \in Snap /\ doc'[loc[q].diff] = "new"
    BY <1>1, <1>2, <1>6 DEF Ids, Uninserted, Holding, CreateSteps
  <1>11. pc[q] \in Uninserted \ {"save"} => doc'[loc[q].cur] = Inserted
    BY <1>1, <1>6 DEF Ids
  <1>12. pc[q] = "insert" /\ loc[q].diff # None => doc'[loc[q].diff] = Inserted
    BY <1>1, <1>6 DEF Ids, Uninserted, Holding, CreateSteps
  <1> QED BY <1>1, <1>2, <1>3, <1>4, <1>7, <1>8, <1>9, <1>10, <1>11, <1>12 DEF Ids, Inserted

LEMMA TargetSame ==
  ASSUME TypeInv, RefInv, NEW p \in Request, RefFrame(p), NEW q \in Request \ {p},
         pc[q] \in RemoveSteps
  PROVE  Target(q)' = Target(q)
  <1>1. loc[q].chk \in Snap /\ check[loc[q].chk].st = "gone" /\ loc'[q] = loc[q]
    BY DEF TypeInv, ReqSet, RefFrame, OthersStay
  <1>2. check'[loc[q].chk] = check[loc[q].chk]
    BY <1>1 DEF RefFrame, ChecksKept
  <1> QED BY <1>1, <1>2 DEF Target

LEMMA OthersRefs ==
  ASSUME TypeInv, RefInv, replicaSet' = replicaSet, NEW p \in Request, RefFrame(p), NEW q \in Request \ {p}
  PROVE  RequestRefs(q)'
  <1>1. pc'[q] = pc[q] /\ loc'[q] = loc[q] /\ RequestRefs(q) /\ ReqSet(q) /\ RequestRefs(p)
    BY DEF RefFrame, OthersStay, RefInv, TypeInv
  <1>2. BaseOf(q)'
    <2>1. pc[q] \in WithBase => loc[q].base \in Snap
      BY <1>1 DEF ReqSet, WithBase
    <2> QED BY <1>1, <2>1, RowStays DEF RequestRefs, BaseOf, RefFrame
  <1>3. Acceptor(q)'
    BY <1>1 DEF RequestRefs, Acceptor, RefFrame, Unaccepted
  <1>4. Remover(q)'
    <2> SUFFICES ASSUME pc[q] \in RemoveSteps \ {"rBaseline"},
                        NEW i \in Ident, row'[<<i, Target(q)'>>] > 0
                 PROVE  FALSE
      BY <1>1 DEF Remover, HasRow
    <2>1. /\ Target(q) \in Snap /\ ~HasRow(Target(q))
          /\ check[Target(q)].st \in {"gone", "none"}
      BY RemovedImage
    <2>2. row'[<<i, Target(q)>>] > 0
      BY TargetSame
    <2>3. ~(row[<<i, Target(q)>>] > 0)
      BY <2>1 DEF HasRow
    <2>4. pc[p] = "aUpsert" /\ Target(q) = loc[p].chk
      <3>1. <<i, Target(q)>> \in Ident \X Snap /\ <<i, Target(q)>>[2] = Target(q)
        BY <2>1
      <3> QED BY <2>2, <2>3, <3>1 DEF RefFrame, RowsKept
    <2> QED BY <1>1, <2>1, <2>4 DEF RequestRefs, Acceptor, AcceptSteps
  <1>5. Owned(q)'
    <2> SUFFICES ASSUME NEW c \in Snap, check'[c].diff \in OwnIds(q)
                 PROVE  check'[c].diff = loc[q].diff /\ c = loc[q].cur
      BY <1>1 DEF Owned, OwnIds
    <2>1. check'[c].diff # None /\ check'[c].diff \notin OwnIds(p)
      BY DEF OwnIds, RefInv, DisjointIds
    <2>2. check'[c].diff = check[c].diff
      BY <2>1 DEF RefFrame, ChecksKept, NoCheck, OwnIds
    <2> QED BY <1>1, <2>2 DEF RequestRefs, Owned
  <1> QED BY <1>2, <1>3, <1>4, <1>5, OthersIds DEF RequestRefs

LEMMA OwnedStep ==
  ASSUME TypeInv, RefInv, NEW p \in Request, RefFrame(p)
  PROVE  Owned(p)' /\ DisjointIds'
  <1>1. Ids(p) /\ Owned(p)
    BY DEF RefInv, RequestRefs
  <1>2. ASSUME NEW c \in Snap, check'[c].diff \in OwnIds(p)'
        PROVE  check'[c].diff = loc'[p].diff /\ c = loc'[p].cur
    <2>1. check'[c].diff # None
      BY <1>2 DEF OwnIds
    <2>2. check[c].diff # None => check[c].diff \in Snap /\ doc[check[c].diff] # "free"
      BY DEF RefInv, DiffOf, TypeInv, TypeOK, CheckRec
    <2>3. CASE UNCHANGED check
      <3>1. check[c].diff = check'[c].diff
        BY <2>3
      <3>2. CASE check[c].diff \in OwnIds(p)
        BY <1>1, <1>2, <2>1, <2>2, <3>1, <3>2 DEF Owned, Ids, OwnIds, RefFrame, OwnStep
      <3>3. CASE check[c].diff \notin OwnIds(p)
        BY <1>2, <2>1, <2>2, <3>1, <3>3 DEF OwnIds, RefFrame, OwnStep
      <3> QED BY <3>2, <3>3
    <2>4. CASE ~UNCHANGED check
      <3>1. /\ loc'[p].cur = loc[p].cur /\ loc'[p].diff \in {loc[p].diff, None}
        BY <1>2, <2>1, <2>4 DEF RefFrame, OwnStep, OwnIds
      <3>2. \/ check'[c].diff = check[c].diff
            \/ c = loc[p].cur /\ check'[c].diff = loc[p].diff
        BY <2>1 DEF RefFrame, ChecksKept, NoCheck
      <3>3. check'[c].diff = loc[p].diff /\ c = loc[p].cur
        BY <1>1, <1>2, <2>1, <3>1, <3>2 DEF Owned, OwnIds
      <3> QED BY <1>1, <1>2, <2>1, <3>1, <3>3 DEF OwnIds, Ids
    <2> QED BY <2>3, <2>4
  <1>3. DisjointIds'
    <2>1. ASSUME NEW t \in Request, t # p  PROVE OwnIds(p)' \cap OwnIds(t)' = {}
      <3>1. OwnIds(t)' = OwnIds(t) /\ OwnIds(p) \cap OwnIds(t) = {}
        BY <2>1 DEF RefFrame, OthersStay, OwnIds, RefInv, DisjointIds
      <3>2. \A s \in OwnIds(t) : doc[s] # "free"
        BY DEF RefInv, RequestRefs, Ids
      <3>3. \A s \in OwnIds(p)' : s \in OwnIds(p) \/ doc[s] = "free"
        BY DEF RefFrame, OwnStep, OwnIds
      <3> QED BY <3>1, <3>2, <3>3
    <2>2. ASSUME NEW q \in Request, NEW r \in Request, q # r, q # p, r # p
          PROVE  OwnIds(q)' \cap OwnIds(r)' = {}
      BY <2>2 DEF RefFrame, OthersStay, OwnIds, RefInv, DisjointIds
    <2> QED BY <2>1, <2>2 DEF DisjointIds
  <1> QED BY <1>2, <1>3 DEF Owned

LEMMA DiffStep ==
  ASSUME TypeInv, RefInv, NEW p \in Request, RefFrame(p), NEW c \in Snap
  PROVE  DiffOf(c)'
  <1>1. Ids(p) /\ Owned(p) /\ None \notin Snap
    BY StoreAssumption DEF RefInv, RequestRefs
  <1>2. \A e \in Snap : /\ DiffOf(e) /\ check[e].diff \in Snap \cup {None}
                        /\ check[e].st \in {"none", "tx", "live", "gone"}
    BY DEF RefInv, TypeInv, TypeOK, CheckRec
  <1>3. loc[p].diff # None => /\ loc[p].diff \in Snap /\ loc[p].diff # loc[p].cur
                              /\ check[loc[p].diff].st = "none" /\ doc[loc[p].diff] # "free"
    BY <1>1 DEF Ids, OwnIds, TypeInv, TypeOK, Locals
  <1>4. ASSUME NEW e \in Snap
        PROVE  \/ check'[e].diff \in {None, check[e].diff}
               \/ e = loc[p].cur /\ check'[e].diff = loc[p].diff /\ check[e].diff = None
                  /\ loc[p].diff # None
               \/ e = loc[p].cur /\ check'[e].diff = loc[p].diff /\ check[e].st = "tx"
                  /\ loc[p].diff # None
    BY <1>2 DEF RefFrame, ChecksKept, NoCheck, DiffOf
  <1>5. check'[c].st = "none" => check'[c].diff = None
    BY <1>2 DEF RefFrame, ChecksKept, NoCheck, DiffOf
  <1>6. ASSUME NEW d \in Snap, check[d].st = "none", d # loc[p].cur
        PROVE  check'[d].st = "none"
    BY <1>6 DEF RefFrame, ChecksKept
  <1>7. \A s \in Snap : doc[s] # "free" => doc'[s] # "free"
    BY DEF RefFrame, DocsKept
  <1>8. ASSUME check'[c].diff # None
        PROVE  /\ doc'[check'[c].diff] # "free" /\ check'[check'[c].diff].st = "none"
               /\ \A e \in Snap : check'[e].diff = check'[c].diff => e = c
    <2> DEFINE d == check'[c].diff
    <2>1. CASE d = loc[p].diff
      <3>1. d \in OwnIds(p)
        BY <1>8, <2>1 DEF OwnIds
      <3>2. \A e \in Snap : check[e].diff = d => e = loc[p].cur
        BY <1>1, <3>1 DEF Owned
      <3>3. \A e \in Snap : check'[e].diff = d => e = loc[p].cur
        BY <1>4, <1>8, <3>2
      <3> QED BY <1>3, <1>6, <1>7, <1>8, <2>1, <3>3
    <2>2. CASE d # loc[p].diff
      <3>1. d = check[c].diff /\ d \in Snap
        BY <1>2, <1>4, <1>8, <2>2
      <3>2. d # loc[p].cur
        <4>1. d = loc[p].cur => d \in OwnIds(p)
          BY <1>8 DEF OwnIds
        <4> QED BY <1>1, <2>2, <3>1, <4>1 DEF Owned
      <3>3. \A e \in Snap : check'[e].diff = d => check[e].diff = d
        BY <1>4, <1>8, <2>2
      <3> QED BY <1>2, <1>6, <1>7, <1>8, <3>1, <3>2, <3>3 DEF DiffOf
    <2> QED BY <2>1, <2>2
  <1> QED BY <1>5, <1>8 DEF DiffOf

LEMMA ChecksStep ==
  ASSUME TypeInv, RefInv, NEW p \in Request, RefFrame(p), NEW c \in Snap
  PROVE  Based(c)'
  <1>1. check[c].st # "none" => check[c].base \in Snap /\ Based(c)
    BY DEF TypeInv, CheckSet, RefInv
  <1>2. pc[p] \in WithBase => loc[p].base \in Snap /\ BaseOf(p)
    BY DEF TypeInv, ReqSet, WithBase, RefInv, RequestRefs
  <1>3. \A s \in Snap : HasRow(s) => HasRow(s)'
    BY RowStays DEF RefFrame
  <1>4. CASE check'[c] = check[c]
    BY <1>1, <1>3, <1>4 DEF Based, HasRow
  <1>5. CASE check[c].st = "live" /\ check'[c].base \in {c, check[c].base}
    BY <1>1, <1>3, <1>5 DEF Based, HasRow
  <1>6. CASE check'[c] = NoCheck
    BY <1>6 DEF Based, NoCheck
  <1>7. CASE c = loc[p].cur /\ pc[p] \in WithBase /\ check'[c].base = loc[p].base
    BY <1>2, <1>3, <1>7 DEF Based, BaseOf, HasRow
  <1> QED BY <1>4, <1>5, <1>6, <1>7 DEF RefFrame, ChecksKept

LEMMA RowsStep ==
  ASSUME TypeInv, RefInv, NEW p \in Request, RefFrame(p), NEW k \in Ident \X Snap
  PROVE  RowOf(k)'
  <1> SUFFICES ASSUME row'[k] > 0
               PROVE  doc'[k[2]] = "saved" /\ check'[k[2]].st \in {"live", "gone"}
    BY DEF RowOf
  <1>1. k[2] \in Snap /\ \A c \in Snap : check[c].st \in {"live", "gone"} =>
          check'[c].st \in {"live", "gone"}
    BY DEF RefFrame, ChecksKept
  <1>2. CASE row[k] > 0
    <2>1. doc[k[2]] = "saved" /\ check[k[2]].st \in {"live", "gone"}
      BY <1>2 DEF RefInv, RowOf
    <2>2. k = <<k[1], k[2]>> /\ k[1] \in Ident
      OBVIOUS
    <2>3. HasRow(k[2])
      BY <1>2, <2>2 DEF HasRow
    <2>4. pc[p] = "rDelete" => k[2] # Target(p)
      BY <2>3, RemovedImage DEF RemoveSteps
    <2> QED BY <1>1, <2>1, <2>4, VisibleStays DEF RefFrame
  <1>3. CASE pc[p] = "aUpsert" /\ k[2] = loc[p].chk
    <2>1. check[k[2]].st = "live"
      BY <1>3 DEF RefInv, RequestRefs, Acceptor, AcceptSteps
    <2>2. doc[k[2]] = "saved"
      BY <1>1, <2>1, StoreAssumption DEF RefInv, LiveCheckResolves
    <2> QED BY <1>1, <1>3, <2>1, <2>2, VisibleStays DEF RefFrame
  <1> QED BY <1>2, <1>3 DEF RefFrame, RowsKept

LEMMA LiveStep ==
  ASSUME TypeInv, RefInv, NEW p \in Request, RefFrame(p)
  PROVE  LiveCheckResolves'
  <1> SUFFICES ASSUME NEW c \in Snap, check'[c].st = "live",
                      NEW s \in {c, check'[c].base, check'[c].diff} \ {None}
               PROVE  doc'[s] = "saved"
    BY DEF LiveCheckResolves
  <1>1. CASE check[c].st # "live"
    BY <1>1 DEF RefFrame, Published
  <1>2. CASE check[c].st = "live"
    <2>1. s \in {c, check[c].base, check[c].diff}
      BY <1>2 DEF RefFrame, ChecksKept
    <2>2. doc[s] = "saved" /\ s \in Snap
      BY <1>2, <2>1 DEF RefInv, LiveCheckResolves, TypeInv, TypeOK, CheckRec
    <2>3. pc[p] = "rDelete" => s # Target(p)
      BY <1>2, <2>1, RemovedUnused DEF RemoveSteps
    <2> QED BY <2>2, <2>3, VisibleStays DEF RefFrame
  <1> QED BY <1>1, <1>2

\* What is left to prove of one step of one request.
LEMMA RefStep ==
  ASSUME TypeInv, RefInv, replicaSet' = replicaSet, NEW p \in Request, RefFrame(p),
         Ids(p)', BaseOf(p)', Acceptor(p)', Remover(p)'
  PROVE  RefInv'
  <1>1. \A q \in Request : RequestRefs(q)'
    BY OthersRefs, OwnedStep DEF RequestRefs
  <1> QED BY <1>1, OwnedStep, DiffStep, ChecksStep, RowsStep, LiveStep DEF RefInv

\* A step that reads.
LEMMA RefRead ==
  ASSUME TypeInv, RefInv, replicaSet' = replicaSet, NEW p \in Request, UNCHANGED <<doc, row, check>>,
         OthersStay(p), OwnStep(p), Ids(p)', BaseOf(p)', Acceptor(p)', Remover(p)'
  PROVE  RefInv'
  <1>1. RefFrame(p)
    BY DEF RefFrame, DocsKept, ChecksKept, RowsKept, Unaccepted, Published
  <1> QED BY <1>1, RefStep

LEMMA RefIdle ==
  ASSUME TypeInv, RefInv, UNCHANGED <<doc, row, check, replicaSet, pc, loc>>
  PROVE  RefInv'
  <1>1. \A p \in Request : RequestRefs(p)'
    BY DEF RefInv, RequestRefs, Ids, BaseOf, Acceptor, Remover, Owned, OwnIds, HasRow, Target,
       Inserted
  <1>2. DisjointIds' /\ LiveCheckResolves'
    BY DEF RefInv, DisjointIds, OwnIds, LiveCheckResolves
  <1>3. \A c \in Snap : DiffOf(c)' /\ Based(c)'
    BY DEF RefInv, DiffOf, Based, HasRow
  <1>4. \A k \in Ident \X Snap : RowOf(k)'
    BY DEF RefInv, RowOf
  <1> QED BY <1>1, <1>2, <1>3, <1>4 DEF RefInv

LEMMA RefInit == Init => RefInv
  <1> SUFFICES ASSUME Init  PROVE RefInv
    OBVIOUS
  <1>1. ASSUME NEW p \in Request  PROVE RequestRefs(p) /\ OwnIds(p) = {}
    BY DEF Init, RequestRefs, Ids, BaseOf, Acceptor, Remover, Owned, OwnIds, Blank, Holding,
       CreateSteps, Uninserted, WithBase, AcceptSteps, RemoveSteps
  <1>2. ASSUME NEW c \in Snap  PROVE DiffOf(c) /\ Based(c)
    BY DEF Init, NoCheck, DiffOf, Based
  <1>3. \A k \in Ident \X Snap : RowOf(k)
    BY DEF Init, RowOf
  <1>4. LiveCheckResolves
    BY DEF Init, NoCheck, LiveCheckResolves
  <1> QED BY <1>1, <1>2, <1>3, <1>4 DEF RefInv, DisjointIds

\* A request that holds nothing, at a step that asks for nothing.
LEMMA RefFree ==
  ASSUME replicaSet' = replicaSet, NEW p \in Request, loc'[p].cur = None, loc'[p].diff = None,
         pc'[p] \in {"idle", "access", "clone", "write", "aUpsert", "aSave"} \cup RemoveSteps
  PROVE  Ids(p)' /\ BaseOf(p)'
  <1>1. OwnIds(p)' = {}
    BY DEF OwnIds
  <1> QED BY <1>1 DEF Ids, BaseOf, Holding, CreateSteps, Uninserted, WithBase, RemoveSteps

LEMMA RefLookup ==
  ASSUME TypeInv, RefInv, replicaSet' = replicaSet, NEW p \in Request, Lookup(p)
  PROVE  RefInv'
  <1>1. UNCHANGED <<doc, row, check>>
    BY DEF Lookup, docVars
  <1>2. PICK i \in Ident, h \in Hash, s \in Snap \cup {None} :
          \/ /\ Goto(p, "access")
             /\ loc' = [loc EXCEPT ![p] = [Blank EXCEPT !.ident = i, !.src = s]]
          \/ /\ Goto(p, "write")
             /\ loc' = [loc EXCEPT ![p] = [Blank EXCEPT !.ident = i, !.hash = h]]
    BY DEF Lookup
  <1>3. /\ OthersStay(p) /\ pc'[p] \in {"access", "write"}
        /\ loc'[p].cur = None /\ loc'[p].diff = None
    <2> USE DEF TypeInv, TypeOK, Goto, OthersStay, Blank
    <2>1. CASE /\ Goto(p, "access")
               /\ loc' = [loc EXCEPT ![p] = [Blank EXCEPT !.ident = i, !.src = s]]
      BY <2>1
    <2>2. CASE /\ Goto(p, "write")
               /\ loc' = [loc EXCEPT ![p] = [Blank EXCEPT !.ident = i, !.hash = h]]
      BY <2>2
    <2> QED BY <1>2, <2>1, <2>2
  <1>4. Acceptor(p)' /\ Remover(p)'
    BY <1>3 DEF Acceptor, Remover, AcceptSteps, RemoveSteps
  <1> QED BY <1>1, <1>3, <1>4, RefFree, RefRead DEF OwnStep

LEMMA RefAccess ==
  ASSUME TypeInv, RefInv, replicaSet' = replicaSet, NEW p \in Request, Access(p)
  PROVE  RefInv'
  <1>1. /\ UNCHANGED <<doc, row, check, loc>>
        /\ pc[p] = "access" /\ pc' = [pc EXCEPT ![p] = "clone"]
    BY DEF Access, docVars, Goto
  <1>2. OthersStay(p) /\ pc'[p] = "clone" /\ loc[p].cur = None /\ loc[p].diff = None
    BY <1>1 DEF TypeInv, TypeOK, OthersStay, RefInv, RequestRefs, Ids, Holding
  <1>3. Acceptor(p)' /\ Remover(p)'
    BY <1>2 DEF Acceptor, Remover, AcceptSteps, RemoveSteps
  <1> QED BY <1>1, <1>2, <1>3, RefFree, RefRead DEF OwnStep

\* A document and an id that was never used.
LEMMA RefClone ==
  ASSUME TypeInv, RefInv, replicaSet' = replicaSet, NEW p \in Request, Clone(p)
  PROVE  RefInv'
  <1>1. PICK s \in Snap :
          /\ doc[s] = "free"
          /\ doc' = [doc EXCEPT ![s] = Inserted]
          /\ loc' = [loc EXCEPT ![p].cur = s]
    BY DEF Clone
  <1>2. /\ UNCHANGED <<row, check>>
        /\ pc[p] = "clone" /\ pc' = [pc EXCEPT ![p] = "find"]
    BY DEF Clone, Goto
  <1>3. loc[p].cur = None /\ loc[p].diff = None /\ s # None /\ Inserted # "free"
    BY <1>2, StoreAssumption DEF RefInv, RequestRefs, Ids, Holding, Inserted
  <1>4. /\ OthersStay(p) /\ pc'[p] = "find"
        /\ loc'[p].cur = s /\ loc'[p].diff = None /\ doc'[s] = Inserted
    BY <1>1, <1>2, <1>3 DEF TypeInv, TypeOK, OthersStay, Locals
  <1>5. RefFrame(p)
    BY <1>1, <1>2, <1>3, <1>4
    DEF TypeInv, TypeOK, RefFrame, DocsKept, ChecksKept, RowsKept, Unaccepted, Published, OwnStep
  <1>6. OwnIds(p)' = {s}
    BY <1>3, <1>4 DEF OwnIds
  <1>7. Ids(p)' /\ BaseOf(p)' /\ Acceptor(p)' /\ Remover(p)'
    BY <1>3, <1>4, <1>6 DEF Ids, BaseOf, Acceptor, Remover, AcceptSteps, RemoveSteps, WithBase,
       Holding, CreateSteps, Uninserted, Inserted
  <1> QED BY <1>5, <1>7, RefStep

LEMMA RefWriteFile ==
  ASSUME TypeInv, RefInv, replicaSet' = replicaSet, NEW p \in Request, WriteFile(p)
  PROVE  RefInv'
  <1>1. PICK s \in Snap :
          /\ doc[s] = "free"
          /\ doc' = [doc EXCEPT ![s] = "new"]
          /\ loc' = [loc EXCEPT ![p].cur = s]
    BY DEF WriteFile
  <1>2. /\ UNCHANGED <<row, check>>
        /\ pc[p] = "write" /\ pc' = [pc EXCEPT ![p] = "save"]
    BY DEF WriteFile, Goto
  <1>3. loc[p].cur = None /\ loc[p].diff = None /\ s # None
    BY <1>2, StoreAssumption DEF RefInv, RequestRefs, Ids, Holding
  <1>4. /\ OthersStay(p) /\ pc'[p] = "save"
        /\ loc'[p].cur = s /\ loc'[p].diff = None /\ doc'[s] = "new"
    BY <1>1, <1>2, <1>3 DEF TypeInv, TypeOK, OthersStay, Locals
  <1>5. RefFrame(p)
    BY <1>1, <1>2, <1>3, <1>4
    DEF TypeInv, TypeOK, RefFrame, DocsKept, ChecksKept, RowsKept, Unaccepted, Published, OwnStep
  <1>6. OwnIds(p)' = {s}
    BY <1>3, <1>4 DEF OwnIds
  <1>7. Ids(p)' /\ BaseOf(p)' /\ Acceptor(p)' /\ Remover(p)'
    BY <1>3, <1>4, <1>6 DEF Ids, BaseOf, Acceptor, Remover, AcceptSteps, RemoveSteps, WithBase,
       Holding, CreateSteps, Uninserted
  <1> QED BY <1>5, <1>7, RefStep

\* What a request that holds documents knows of them before it publishes.
LEMMA RefHolds ==
  ASSUME TypeInv, RefInv, NEW p \in Request, pc[p] \in Uninserted
  PROVE  /\ loc[p].cur \in Snap /\ loc[p].cur # None /\ check[loc[p].cur].st = "none"
         /\ loc[p].cur \in OwnIds(p)
         /\ pc[p] = "save" => doc[loc[p].cur] = "new"
         /\ pc[p] # "save" => doc[loc[p].cur] = Inserted
         /\ loc[p].diff \in Snap \cup {None}
         /\ pc[p] \notin {"diffSave", "insert"} => loc[p].diff = None
         /\ loc[p].diff # None => loc[p].diff # loc[p].cur /\ check[loc[p].diff].st = "none"
         /\ pc[p] \in WithBase => loc[p].base \in Snap
  <1>1. Ids(p) /\ ReqSet(p) /\ None \notin Snap
    BY StoreAssumption DEF RefInv, RequestRefs, TypeInv
  <1>2. loc[p].diff \in Snap \cup {None}
    BY DEF TypeInv, TypeOK, Locals
  <1> QED BY <1>1, <1>2 DEF Ids, ReqSet, Uninserted, Holding, CreateSteps, OwnIds, WithBase

LEMMA RefSaveDoc ==
  ASSUME TypeInv, RefInv, replicaSet' = replicaSet, NEW p \in Request, SaveDoc(p)
  PROVE  RefInv'
  <1>1. /\ UNCHANGED <<row, check, loc>>
        /\ pc[p] = "save" /\ pc' = [pc EXCEPT ![p] = "find"]
        /\ doc' = [doc EXCEPT ![loc[p].cur] = Inserted]
    BY DEF SaveDoc, Goto
  <1>2. /\ loc[p].cur \in Snap /\ doc[loc[p].cur] = "new" /\ loc[p].diff = None
        /\ loc[p].cur \in OwnIds(p) /\ Inserted # "free"
    BY <1>1, RefHolds DEF Uninserted, Holding, CreateSteps, Inserted
  <1>3. OthersStay(p) /\ pc'[p] = "find" /\ doc'[loc[p].cur] = Inserted
    BY <1>1, <1>2 DEF TypeInv, TypeOK, OthersStay
  <1>4. RefFrame(p)
    BY <1>1, <1>2, <1>3
    DEF TypeInv, TypeOK, RefFrame, DocsKept, ChecksKept, RowsKept, Unaccepted, Published, OwnStep
  <1>5. OwnIds(p)' = {loc[p].cur}
    BY <1>1, <1>2 DEF OwnIds
  <1>6. Ids(p)' /\ BaseOf(p)' /\ Acceptor(p)' /\ Remover(p)'
    BY <1>1, <1>2, <1>3, <1>5 DEF Ids, BaseOf, Acceptor, Remover, AcceptSteps, RemoveSteps,
       WithBase, Holding, CreateSteps, Uninserted, Inserted
  <1> QED BY <1>4, <1>6, RefStep

LEMMA RefFindBaseline ==
  ASSUME TypeInv, RefInv, replicaSet' = replicaSet, NEW p \in Request, FindBaseline(p) \/ Inspect(p)
  PROVE  RefInv'
  <1>1. UNCHANGED <<doc, row, check>> /\ pc[p] \in {"find", "inspect"}
    BY DEF FindBaseline, Inspect, docVars
  <1>2. /\ loc[p].cur \in Snap /\ doc[loc[p].cur] = Inserted /\ loc[p].diff = None
        /\ loc[p].cur # None
    BY <1>1, RefHolds DEF Uninserted, Holding, CreateSteps
  <1>3. PICK s \in Snap :
          /\ loc' = [loc EXCEPT ![p].base = s]
          /\ HasRow(s) \/ s = loc[p].cur
          /\ Goto(p, "insert") \/ Goto(p, "inspect") \/ Goto(p, "compare")
    <2>1. CASE FindBaseline(p)
      <3>1. BaselineIdent(loc[p].ident) \in Ident
        BY <1>1, StoreAssumption DEF BaselineIdent, TypeInv, ReqSet, CreateSteps
      <3>2. \A s \in RowsOf(BaselineIdent(loc[p].ident)) : s \in Snap /\ HasRow(s)
        BY <3>1 DEF RowsOf, HasRow
      <3> QED BY <1>2, <2>1, <3>2 DEF FindBaseline
    <2>2. CASE Inspect(p)
      <3>1. loc = [loc EXCEPT ![p].base = loc[p].base]
        BY DEF TypeInv, TypeOK, Locals
      <3>2. pc[p] = "inspect"
        BY <2>2 DEF Inspect
      <3>3. loc[p].base \in Snap /\ (HasRow(loc[p].base) \/ loc[p].base = loc[p].cur)
        BY <3>2, RefHolds DEF RefInv, RequestRefs, BaseOf, WithBase, Uninserted, Holding,
           CreateSteps
      <3> QED BY <1>2, <2>2, <3>1, <3>3 DEF Inspect
    <2> QED BY <2>1, <2>2
  <1>4. /\ loc'[p].base = s /\ loc'[p].cur = loc[p].cur /\ loc'[p].diff = None
        /\ OthersStay(p) /\ pc'[p] \in {"insert", "inspect", "compare"}
    BY <1>1, <1>2, <1>3 DEF TypeInv, TypeOK, Locals, OthersStay, Goto
  <1>5. OwnIds(p)' = {loc[p].cur} /\ Inserted # "free"
    BY <1>2, <1>4 DEF OwnIds, Inserted
  <1>6. Ids(p)'
    BY <1>1, <1>2, <1>4, <1>5 DEF Ids, Holding, CreateSteps, Uninserted, Inserted
  <1>7. BaseOf(p)' /\ Acceptor(p)' /\ Remover(p)'
    BY <1>1, <1>3, <1>4 DEF BaseOf, HasRow, Acceptor, Remover, AcceptSteps, RemoveSteps
  <1> QED BY <1>1, <1>2, <1>4, <1>6, <1>7, RefRead DEF OwnStep

LEMMA RefCompare ==
  ASSUME TypeInv, RefInv, replicaSet' = replicaSet, NEW p \in Request, Compare(p)
  PROVE  RefInv'
  <1>1. /\ UNCHANGED <<doc, row, check, loc>>
        /\ pc[p] = "compare" /\ (Goto(p, "insert") \/ Goto(p, "diffWrite"))
    BY DEF Compare, docVars
  <1>2. /\ loc[p].cur \in Snap /\ doc[loc[p].cur] = Inserted /\ loc[p].diff = None
        /\ loc[p].cur # None /\ BaseOf(p)
    BY <1>1, RefHolds DEF Uninserted, Holding, CreateSteps, RefInv, RequestRefs
  <1>3. OthersStay(p) /\ pc'[p] \in {"insert", "diffWrite"}
    BY <1>1 DEF TypeInv, TypeOK, Goto, OthersStay
  <1>4. OwnIds(p)' = {loc[p].cur} /\ Inserted # "free"
    BY <1>1, <1>2 DEF OwnIds, Inserted
  <1>5. Ids(p)'
    BY <1>1, <1>2, <1>3, <1>4 DEF Ids, Holding, CreateSteps, Uninserted, Inserted
  <1>6. BaseOf(p)' /\ Acceptor(p)' /\ Remover(p)'
    BY <1>1, <1>2, <1>3 DEF BaseOf, HasRow, Acceptor, Remover, AcceptSteps, RemoveSteps, WithBase
  <1> QED BY <1>1, <1>3, <1>5, <1>6, RefRead DEF OwnStep

LEMMA RefDiffWrite ==
  ASSUME TypeInv, RefInv, replicaSet' = replicaSet, NEW p \in Request, DiffWrite(p)
  PROVE  RefInv'
  <1>1. PICK s \in Snap :
          /\ doc[s] = "free"
          /\ doc' = [doc EXCEPT ![s] = "new"]
          /\ loc' = [loc EXCEPT ![p].diff = s]
    BY DEF DiffWrite
  <1>2. /\ UNCHANGED <<row, check>>
        /\ pc[p] = "diffWrite" /\ pc' = [pc EXCEPT ![p] = "diffSave"]
    BY DEF DiffWrite, Goto
  <1>3. /\ loc[p].cur \in Snap /\ doc[loc[p].cur] = Inserted /\ loc[p].diff = None
        /\ loc[p].cur # None /\ BaseOf(p) /\ Inserted # "free"
    BY <1>2, RefHolds DEF Uninserted, Holding, CreateSteps, RefInv, RequestRefs, Inserted
  <1>4. /\ OthersStay(p) /\ pc'[p] = "diffSave"
        /\ loc'[p].cur = loc[p].cur /\ loc'[p].diff = s /\ loc'[p].base = loc[p].base
        /\ doc'[s] = "new" /\ s # None /\ s # loc[p].cur /\ doc'[loc[p].cur] = Inserted
    BY <1>1, <1>2, <1>3, StoreAssumption DEF TypeInv, TypeOK, OthersStay, Locals
  <1>5. check[s].st = "none"
    BY <1>1 DEF TypeInv, CheckSet
  <1>6. RefFrame(p)
    BY <1>1, <1>2, <1>3, <1>4
    DEF TypeInv, TypeOK, RefFrame, DocsKept, ChecksKept, RowsKept, Unaccepted, Published, OwnStep
  <1>7. OwnIds(p)' = {loc[p].cur, s}
    BY <1>3, <1>4 DEF OwnIds
  <1>8. Ids(p)'
    BY <1>2, <1>3, <1>4, <1>5, <1>7 DEF Ids, Holding, CreateSteps, Uninserted, Inserted
  <1>9. BaseOf(p)' /\ Acceptor(p)' /\ Remover(p)'
    BY <1>2, <1>3, <1>4 DEF BaseOf, HasRow, Acceptor, Remover, AcceptSteps, RemoveSteps, WithBase
  <1> QED BY <1>6, <1>8, <1>9, RefStep

LEMMA RefDiffSave ==
  ASSUME TypeInv, RefInv, replicaSet' = replicaSet, NEW p \in Request, DiffSave(p)
  PROVE  RefInv'
  <1>1. /\ UNCHANGED <<row, check, loc>>
        /\ pc[p] = "diffSave" /\ pc' = [pc EXCEPT ![p] = "insert"]
        /\ doc' = [doc EXCEPT ![loc[p].diff] = Inserted]
    BY DEF DiffSave, Goto
  <1>2. /\ loc[p].cur \in Snap /\ doc[loc[p].cur] = Inserted /\ loc[p].cur # None
        /\ BaseOf(p) /\ Inserted # "free"
        /\ loc[p].diff \in Snap /\ loc[p].diff # None /\ doc[loc[p].diff] = "new"
        /\ loc[p].diff # loc[p].cur /\ check[loc[p].diff].st = "none"
    <2>1. loc[p].diff \in Snap /\ doc[loc[p].diff] = "new" /\ loc[p].diff # None
      BY <1>1, StoreAssumption DEF RefInv, RequestRefs, Ids
    <2> QED BY <1>1, <2>1, RefHolds DEF Uninserted, Holding, CreateSteps, RefInv, RequestRefs,
          Inserted
  <1>3. /\ OthersStay(p) /\ pc'[p] = "insert"
        /\ doc'[loc[p].cur] = Inserted /\ doc'[loc[p].diff] = Inserted
    BY <1>1, <1>2 DEF TypeInv, TypeOK, OthersStay
  <1>4. OwnIds(p) = {loc[p].cur, loc[p].diff} /\ OwnIds(p)' = {loc[p].cur, loc[p].diff}
    BY <1>1, <1>2 DEF OwnIds
  <1>5. RefFrame(p)
    BY <1>1, <1>2, <1>3, <1>4
    DEF TypeInv, TypeOK, RefFrame, DocsKept, ChecksKept, RowsKept, Unaccepted, Published, OwnStep
  <1>6. Ids(p)'
    BY <1>1, <1>2, <1>3, <1>4 DEF Ids, Holding, CreateSteps, Uninserted, Inserted
  <1>7. BaseOf(p)' /\ Acceptor(p)' /\ Remover(p)'
    BY <1>1, <1>2, <1>3 DEF BaseOf, HasRow, Acceptor, Remover, AcceptSteps, RemoveSteps, WithBase
  <1> QED BY <1>5, <1>6, <1>7, RefStep

LEMMA RowVisible ==
  ASSUME TypeInv, RefInv, NEW s \in Snap, HasRow(s)
  PROVE  doc[s] = "saved"
  <1>1. PICK i \in Ident : row[<<i, s>>] > 0
    BY DEF HasRow
  <1>2. <<i, s>> \in Ident \X Snap /\ <<i, s>>[2] = s
    OBVIOUS
  <1> QED BY <1>1, <1>2 DEF RefInv, RowOf

\* Without transactions the check is visible at once.
LEMMA RefInsertCheck ==
  ASSUME TypeInv, RefInv, replicaSet' = replicaSet, NEW p \in Request, InsertCheck(p)
  PROVE  RefInv'
  <1>1. /\ UNCHANGED <<doc, row, loc>>
        /\ pc[p] = "insert" /\ pc' = [pc EXCEPT ![p] = "finish"]
        /\ check' = [check EXCEPT ![loc[p].cur] =
                       [st |-> IF replicaSet THEN "tx" ELSE "live", ident |-> loc[p].ident,
                        base |-> loc[p].base, diff |-> loc[p].diff]]
    BY DEF InsertCheck, docVars, Goto
  <1>2. /\ loc[p].cur \in Snap /\ loc[p].cur # None /\ check[loc[p].cur].st = "none"
        /\ doc[loc[p].cur] = Inserted /\ BaseOf(p) /\ loc[p].base \in Snap
        /\ loc[p].diff \in Snap \cup {None}
        /\ loc[p].diff # None =>
             /\ loc[p].diff # loc[p].cur /\ check[loc[p].diff].st = "none"
             /\ doc[loc[p].diff] = Inserted
    BY <1>1, RefHolds DEF Uninserted, Holding, CreateSteps, WithBase, RefInv, RequestRefs, Ids
  <1>3. OthersStay(p) /\ pc'[p] = "finish"
    BY <1>1 DEF TypeInv, TypeOK, OthersStay
  <1>4. /\ \A c \in Snap \ {loc[p].cur} : check'[c] = check[c]
        /\ check'[loc[p].cur] = [st |-> IF replicaSet THEN "tx" ELSE "live", ident |-> loc[p].ident,
                                 base |-> loc[p].base, diff |-> loc[p].diff]
    BY <1>1, <1>2 DEF TypeInv, TypeOK
  <1>5. ChecksKept(p)
    BY <1>1, <1>2, <1>4 DEF ChecksKept, WithBase
  <1>6. Unaccepted(p)
    <2> SUFFICES ASSUME NEW q \in Request, pc[q] \in AcceptSteps,
                        check[loc[q].chk].st = "live"
                 PROVE  check'[loc[q].chk].st = "live"
      BY DEF Unaccepted
    <2>1. loc[q].chk \in Snap
      BY DEF TypeInv, ReqSet
    <2> QED BY <1>2, <1>4, <2>1
  <1>7. Published
    <2> SUFFICES ASSUME NEW c \in Snap, check'[c].st = "live", check[c].st # "live",
                        NEW s \in {c, check'[c].base, check'[c].diff} \ {None}
                 PROVE  doc'[s] = "saved"
      BY DEF Published
    <2>1. c = loc[p].cur /\ ~replicaSet /\ s \in {loc[p].cur, loc[p].base, loc[p].diff}
      BY <1>4
    <2>2. doc[loc[p].base] = "saved" \/ loc[p].base = loc[p].cur
      BY <1>1, <1>2, RowVisible DEF BaseOf, WithBase
    <2> QED BY <1>1, <1>2, <2>1, <2>2 DEF Inserted
  <1>8. RefFrame(p)
    BY <1>1, <1>3, <1>5, <1>6, <1>7 DEF RefFrame, DocsKept, RowsKept, OwnStep
  <1>9. OwnIds(p)' \subseteq {loc[p].cur, loc[p].diff}
    BY <1>1 DEF OwnIds
  <1>10. Ids(p)'
    <2>1. loc[p].diff # None => check'[loc[p].diff].st = "none"
      BY <1>2, <1>4
    <2>2. Inserted # "free" /\ (replicaSet => Inserted = "tx")
      BY DEF Inserted
    <2>3. \A s \in OwnIds(p)' : doc'[s] # "free"
      BY <1>1, <1>2, <1>9, <2>2 DEF OwnIds
    <2> QED BY <1>1, <1>2, <1>3, <1>4, <2>1, <2>2, <2>3 DEF Ids, Holding, CreateSteps, Uninserted
  <1>11. BaseOf(p)' /\ Acceptor(p)' /\ Remover(p)'
    BY <1>1, <1>2, <1>3 DEF BaseOf, HasRow, Acceptor, Remover, AcceptSteps, RemoveSteps, WithBase
  <1> QED BY <1>8, <1>10, <1>11, RefStep

\* With transactions it becomes visible here, with its documents.
LEMMA RefCommit ==
  ASSUME TypeInv, RefInv, replicaSet' = replicaSet, NEW p \in Request, Commit(p)
  PROVE  RefInv'
  <1>1. /\ UNCHANGED row
        /\ pc[p] = "finish" /\ pc' = [pc EXCEPT ![p] = "idle"]
        /\ loc' = [loc EXCEPT ![p] = Blank]
        /\ doc' = [s \in Snap |-> IF s \in {loc[p].cur, loc[p].diff} /\ doc[s] = "tx"
                                  THEN "saved" ELSE doc[s]]
        /\ check' = [check EXCEPT ![loc[p].cur].st =
                       IF check[loc[p].cur].st = "tx" THEN "live" ELSE check[loc[p].cur].st]
    BY DEF Commit, Goto, Finish
  <1>2. /\ loc[p].cur \in Snap /\ loc[p].cur # None /\ loc[p].base \in Snap /\ BaseOf(p)
        /\ Ids(p) /\ loc[p].diff \in Snap \cup {None} /\ None \notin Snap
    BY <1>1, StoreAssumption DEF TypeInv, TypeOK, ReqSet, Locals, Holding, CreateSteps, RefInv,
       RequestRefs
  <1>3. OthersStay(p) /\ pc'[p] = "idle" /\ loc'[p].cur = None /\ loc'[p].diff = None
    BY <1>1 DEF TypeInv, TypeOK, OthersStay, Blank
  <1>4. /\ \A c \in Snap \ {loc[p].cur} : check'[c] = check[c]
        /\ check'[loc[p].cur].base = check[loc[p].cur].base
        /\ check'[loc[p].cur].diff = check[loc[p].cur].diff
        /\ check[loc[p].cur].st = "tx" => check'[loc[p].cur].st = "live"
        /\ check[loc[p].cur].st # "tx" => check'[loc[p].cur] = check[loc[p].cur]
    BY <1>1, <1>2 DEF TypeInv, TypeOK, CheckRec
  <1>5. check[loc[p].cur].st = "tx" =>
          /\ check[loc[p].cur].base = loc[p].base /\ check[loc[p].cur].diff = loc[p].diff
          /\ doc[loc[p].cur] = "tx" /\ (loc[p].diff # None => doc[loc[p].diff] = "tx")
    BY <1>1, <1>2 DEF Ids
  <1>6. ChecksKept(p)
    BY <1>1, <1>4, <1>5 DEF ChecksKept, WithBase
  <1>7. Unaccepted(p)
    <2> SUFFICES ASSUME NEW q \in Request, pc[q] \in AcceptSteps,
                        check[loc[q].chk].st = "live"
                 PROVE  check'[loc[q].chk].st = "live"
      BY DEF Unaccepted
    <2>1. loc[q].chk \in Snap
      BY DEF TypeInv, ReqSet
    <2> QED BY <1>2, <1>4, <2>1
  <1>8. Published
    <2> SUFFICES ASSUME NEW c \in Snap, check'[c].st = "live", check[c].st # "live",
                        NEW s \in {c, check'[c].base, check'[c].diff} \ {None}
                 PROVE  doc'[s] = "saved"
      BY DEF Published
    <2>1. c = loc[p].cur /\ check[loc[p].cur].st = "tx"
      BY <1>4
    <2>2. s \in {loc[p].cur, loc[p].base, loc[p].diff} /\ s \in Snap
      BY <1>2, <1>4, <1>5, <2>1
    <2>3. doc[loc[p].base] = "saved" \/ loc[p].base = loc[p].cur
      BY <1>1, <1>2, RowVisible DEF BaseOf, WithBase
    <2> QED BY <1>1, <1>2, <1>5, <2>1, <2>2, <2>3
  <1>9. DocsKept(p)
    BY <1>1, <1>2 DEF DocsKept, OwnIds
  <1>10. RefFrame(p)
    BY <1>1, <1>3, <1>6, <1>7, <1>8, <1>9 DEF RefFrame, RowsKept, OwnStep
  <1>11. Acceptor(p)' /\ Remover(p)'
    BY <1>3 DEF Acceptor, Remover, AcceptSteps, RemoveSteps
  <1> QED BY <1>3, <1>10, <1>11, RefFree, RefStep

\* A rollback takes back what nobody could refer to.
LEMMA RefRollBack ==
  ASSUME TypeInv, RefInv, NEW p \in Request, RollBackDocs(p), OthersStay(p), UNCHANGED row,
         OwnStep(p)
  PROVE  RefFrame(p)
  <1>1. None \notin Snap /\ NoCheck.st = "none"
    BY StoreAssumption DEF NoCheck
  <1>2. DocsKept(p)
    BY <1>1 DEF DocsKept, RollBackDocs, OwnIds
  <1>3. \A c \in Snap : \/ check'[c] = check[c]
                        \/ c = loc[p].cur /\ check[c].st = "tx" /\ check'[c] = NoCheck
    BY DEF RollBackDocs
  <1>4. Unaccepted(p)
    <2> SUFFICES ASSUME NEW q \in Request, pc[q] \in AcceptSteps,
                        check[loc[q].chk].st = "live"
                 PROVE  check'[loc[q].chk].st = "live"
      BY DEF Unaccepted
    <2>1. loc[q].chk \in Snap
      BY DEF TypeInv, ReqSet
    <2> QED BY <1>3, <2>1
  <1>5. ChecksKept(p) /\ Published
    BY <1>1, <1>3 DEF ChecksKept, Published
  <1> QED BY <1>2, <1>4, <1>5 DEF RefFrame, RowsKept

LEMMA RefDie ==
  ASSUME TypeInv, RefInv, replicaSet' = replicaSet, NEW p \in Request, Die(p)
  PROVE  RefInv'
  <1>1. /\ RollBackDocs(p) /\ UNCHANGED row /\ pc' = [pc EXCEPT ![p] = "idle"]
        /\ loc' = [loc EXCEPT ![p] = Blank]
    BY DEF Die, Finish, Goto
  <1>2. OthersStay(p) /\ pc'[p] = "idle" /\ loc'[p].cur = None /\ loc'[p].diff = None
    BY <1>1 DEF TypeInv, TypeOK, OthersStay, Blank
  <1>3. Acceptor(p)' /\ Remover(p)'
    BY <1>2 DEF Acceptor, Remover, AcceptSteps, RemoveSteps
  <1> QED BY <1>1, <1>2, <1>3, RefRollBack, RefFree, RefStep DEF OwnStep

LEMMA RefFail ==
  ASSUME TypeInv, RefInv, replicaSet' = replicaSet, NEW p \in Request, Fail(p)
  PROVE  RefInv'
  <1>1. RollBackDocs(p) /\ UNCHANGED row /\ pc[p] \in CreateSteps
    BY DEF Fail
  <1>2. CASE Finish(p)
    <2>1. OthersStay(p) /\ pc'[p] = "idle" /\ loc'[p].cur = None /\ loc'[p].diff = None
      BY <1>2 DEF TypeInv, TypeOK, OthersStay, Blank, Finish, Goto
    <2>2. Acceptor(p)' /\ Remover(p)'
      BY <2>1 DEF Acceptor, Remover, AcceptSteps, RemoveSteps
    <2> QED BY <1>1, <2>1, <2>2, RefRollBack, RefFree, RefStep DEF OwnStep
  <1>3. CASE ~Finish(p)
    <2>1. /\ pc[p] \in Holding \ {"save"} /\ pc' = [pc EXCEPT ![p] = "cleanup"]
          /\ loc' = [loc EXCEPT ![p].diff = IF pc[p] = "diffSave" THEN None ELSE @]
      BY <1>1, <1>3 DEF Fail, Goto, Holding
    <2>2. /\ OthersStay(p) /\ pc'[p] = "cleanup" /\ loc'[p].cur = loc[p].cur
          /\ loc'[p].diff \in {loc[p].diff, None}
      BY <2>1 DEF TypeInv, TypeOK, OthersStay, Locals
    <2>3. RefFrame(p)
      BY <1>1, <2>2, RefRollBack DEF OwnStep
    <2>4. OwnIds(p)' \subseteq OwnIds(p)
      BY <2>2 DEF OwnIds
    <2>5. /\ Ids(p) /\ loc[p].diff \in Snap \cup {None}
          /\ \A s \in OwnIds(p) : s \in Snap
      BY DEF RefInv, RequestRefs, TypeInv, TypeOK, Locals, OwnIds
    <2>6. \A s \in OwnIds(p)' : doc'[s] # "free"
      BY <2>3, <2>4, <2>5 DEF Ids, RefFrame, DocsKept
    <2>7. loc[p].diff # None => check'[loc[p].diff].st = "none"
      BY <1>1, <2>5 DEF Ids, RollBackDocs, NoCheck
    <2>8. Ids(p)'
      BY <2>2, <2>5, <2>6, <2>7 DEF Ids, Holding, CreateSteps, Uninserted
    <2>9. BaseOf(p)' /\ Acceptor(p)' /\ Remover(p)'
      BY <2>2 DEF BaseOf, Acceptor, Remover, AcceptSteps, RemoveSteps, WithBase
    <2> QED BY <2>3, <2>8, <2>9, RefStep
  <1> QED BY <1>2, <1>3

LEMMA RefCleanup ==
  ASSUME TypeInv, RefInv, replicaSet' = replicaSet, NEW p \in Request, Cleanup(p)
  PROVE  RefInv'
  <1>1. /\ UNCHANGED <<doc, row, check>> /\ pc' = [pc EXCEPT ![p] = "idle"]
        /\ loc' = [loc EXCEPT ![p] = Blank]
    BY DEF Cleanup, Finish, Goto, docVars
  <1>2. OthersStay(p) /\ pc'[p] = "idle" /\ loc'[p].cur = None /\ loc'[p].diff = None
    BY <1>1 DEF TypeInv, TypeOK, OthersStay, Blank
  <1>3. Acceptor(p)' /\ Remover(p)'
    BY <1>2 DEF Acceptor, Remover, AcceptSteps, RemoveSteps
  <1> QED BY <1>1, <1>2, <1>3, RefFree, RefRead DEF OwnStep

LEMMA RefAcceptStart ==
  ASSUME TypeInv, RefInv, replicaSet' = replicaSet, NEW p \in Request, AcceptStart(p)
  PROVE  RefInv'
  <1>1. PICK c \in Snap, b \in BOOLEAN :
          /\ check[c].st = "live"
          /\ loc' = [loc EXCEPT ![p] = [Blank EXCEPT !.chk = c, !.link = b]]
    BY DEF AcceptStart
  <1>2. UNCHANGED <<doc, row, check>> /\ pc' = [pc EXCEPT ![p] = "aUpsert"]
    BY DEF AcceptStart, docVars, Goto
  <1>3. /\ OthersStay(p) /\ pc'[p] = "aUpsert" /\ loc'[p].chk = c
        /\ loc'[p].cur = None /\ loc'[p].diff = None
    BY <1>1, <1>2 DEF TypeInv, TypeOK, OthersStay, Blank
  <1>4. Acceptor(p)' /\ Remover(p)'
    BY <1>1, <1>2, <1>3 DEF Acceptor, Remover, RemoveSteps
  <1> QED BY <1>2, <1>3, <1>4, RefFree, RefRead DEF OwnStep

LEMMA RefAcceptUpsert ==
  ASSUME TypeInv, RefInv, replicaSet' = replicaSet, NEW p \in Request, AcceptUpsert(p)
  PROVE  RefInv'
  <1>1. /\ UNCHANGED <<doc, check, loc>>
        /\ pc[p] = "aUpsert" /\ pc' = [pc EXCEPT ![p] = "aSave"]
    BY DEF AcceptUpsert, docVars, Goto
  <1>2. /\ OthersStay(p) /\ pc'[p] = "aSave" /\ loc'[p].chk = loc[p].chk
        /\ loc'[p].cur = None /\ loc'[p].diff = None
    BY <1>1 DEF TypeInv, TypeOK, OthersStay, RefInv, RequestRefs, Ids, Holding, CreateSteps
  <1>3. RowsKept(p)
    <2>1. clock \in Nat /\ loc[p].chk \in Snap /\ row \in [Ident \X Snap -> Nat]
      BY <1>1 DEF TypeInv, TypeOK, ReqSet, AcceptSteps
    <2>2. check[loc[p].chk].ident \in Ident
      BY <1>1, <2>1 DEF TypeInv, CheckSet, ReqSet, AcceptSteps
    <2>3. \/ UNCHANGED row
          \/ row' = [row EXCEPT ![<<check[loc[p].chk].ident, loc[p].chk>>] = clock + 1]
      BY DEF AcceptUpsert
    <2> QED BY <1>1, <2>1, <2>2, <2>3 DEF RowsKept
  <1>4. RefFrame(p)
    BY <1>1, <1>2, <1>3
    DEF RefFrame, DocsKept, ChecksKept, Unaccepted, Published, OwnStep
  <1>5. Acceptor(p)' /\ Remover(p)'
    BY <1>1, <1>2 DEF RefInv, RequestRefs, Acceptor, AcceptSteps, Remover, RemoveSteps
  <1> QED BY <1>2, <1>4, <1>5, RefFree, RefStep

LEMMA RefAcceptSave ==
  ASSUME TypeInv, RefInv, replicaSet' = replicaSet, NEW p \in Request, AcceptSave(p)
  PROVE  RefInv'
  <1> DEFINE c == loc[p].chk
  <1>1. /\ UNCHANGED <<doc, row>>
        /\ pc[p] = "aSave" /\ pc' = [pc EXCEPT ![p] = "idle"]
        /\ loc' = [loc EXCEPT ![p] = Blank]
        /\ check' = [check EXCEPT ![c].base =
                       IF check[c].st = "live" /\ loc[p].link THEN c ELSE check[c].base]
    BY DEF AcceptSave, docVars, Finish, Goto
  <1>2. OthersStay(p) /\ pc'[p] = "idle" /\ loc'[p].cur = None /\ loc'[p].diff = None
    BY <1>1 DEF TypeInv, TypeOK, OthersStay, Blank
  <1>3. c \in Snap /\ check[c].st = "live"
    BY <1>1 DEF TypeInv, ReqSet, AcceptSteps, RefInv, RequestRefs, Acceptor
  <1>4. /\ \A d \in Snap \ {c} : check'[d] = check[d]
        /\ check'[c].st = "live" /\ check'[c].diff = check[c].diff
        /\ check'[c].base \in {c, check[c].base}
    BY <1>1, <1>3 DEF TypeInv, TypeOK, CheckRec
  <1>5. ChecksKept(p) /\ Published
    BY <1>3, <1>4 DEF ChecksKept, Published
  <1>6. Unaccepted(p)
    <2> SUFFICES ASSUME NEW q \in Request, pc[q] \in AcceptSteps,
                        check[loc[q].chk].st = "live"
                 PROVE  check'[loc[q].chk].st = "live"
      BY DEF Unaccepted
    <2>1. loc[q].chk \in Snap
      BY DEF TypeInv, ReqSet
    <2> QED BY <1>4, <2>1
  <1>7. RefFrame(p)
    BY <1>1, <1>2, <1>5, <1>6 DEF RefFrame, DocsKept, RowsKept, OwnStep
  <1>8. Acceptor(p)' /\ Remover(p)'
    BY <1>2 DEF Acceptor, AcceptSteps, Remover, RemoveSteps
  <1> QED BY <1>2, <1>7, <1>8, RefFree, RefStep

\* Nobody is accepting the check: the two do not overlap.
LEMMA RefRemoveStart ==
  ASSUME TypeInv, RefInv, replicaSet' = replicaSet, NEW p \in Request, RemoveStart(p), SerialReview'
  PROVE  RefInv'
  <1>1. PICK c \in Snap :
          /\ check[c].st = "live"
          /\ check' = [check EXCEPT ![c].st = "gone"]
          /\ loc' = [loc EXCEPT ![p] = [Blank EXCEPT !.chk = c]]
    BY DEF RemoveStart
  <1>2. /\ UNCHANGED <<doc, row>>
        /\ pc[p] = "idle" /\ pc' = [pc EXCEPT ![p] = "rBaseline"]
    BY DEF RemoveStart, Goto, docVars
  <1>3. /\ OthersStay(p) /\ pc'[p] = "rBaseline" /\ loc'[p].cur = None /\ loc'[p].diff = None
        /\ loc'[p].chk = c
    BY <1>1, <1>2 DEF TypeInv, TypeOK, OthersStay, Blank
  <1>4. /\ \A d \in Snap \ {c} : check'[d] = check[d]
        /\ check'[c].st = "gone" /\ check'[c].diff = check[c].diff
        /\ check'[c].base = check[c].base
    BY <1>1 DEF TypeInv, TypeOK, CheckRec
  <1>5. ChecksKept(p) /\ Published
    BY <1>1, <1>4 DEF ChecksKept, Published
  <1>6. Unaccepted(p)
    <2> SUFFICES ASSUME NEW q \in Request \ {p}, pc[q] \in AcceptSteps,
                        check[loc[q].chk].st = "live"
                 PROVE  check'[loc[q].chk].st = "live"
      BY DEF Unaccepted
    <2>1. loc[q].chk \in Snap /\ pc'[q] = pc[q] /\ loc'[q] = loc[q]
      BY <1>3 DEF TypeInv, ReqSet, OthersStay
    <2>2. loc[q].chk # c
      BY <1>3, <2>1 DEF SerialReview, RemoveSteps
    <2> QED BY <1>4, <2>1, <2>2
  <1>7. RefFrame(p)
    BY <1>2, <1>3, <1>5, <1>6 DEF RefFrame, DocsKept, RowsKept, OwnStep
  <1>8. Acceptor(p)' /\ Remover(p)'
    BY <1>3 DEF Acceptor, AcceptSteps, Remover
  <1> QED BY <1>3, <1>7, <1>8, RefFree, RefStep DEF RemoveSteps

\* A remover moves on, and has yet to look for rows of the next image, or ends.
LEMMA RefMoves ==
  ASSUME TypeInv, RefInv, replicaSet' = replicaSet, NEW p \in Request, pc[p] \in RemoveSteps, NextTarget(p)
  PROVE  /\ OthersStay(p) /\ OwnStep(p) /\ Ids(p)' /\ BaseOf(p)' /\ Acceptor(p)' /\ Remover(p)'
  <1>1. loc[p].cur = None /\ loc[p].diff = None
    BY DEF RefInv, RequestRefs, Ids, RemoveSteps, Holding, CreateSteps
  <1>2. /\ OthersStay(p) /\ pc'[p] \in {"rBaseline", "idle"}
        /\ loc'[p].cur = None /\ loc'[p].diff = None
    <2> USE DEF TypeInv, TypeOK, OthersStay, Goto
    <2>1. CASE Finish(p)
      BY <2>1 DEF Finish, Blank
    <2>2. ASSUME NEW st \in Stages, Goto(p, "rBaseline"),
                 loc' = [loc EXCEPT ![p].stage = st, ![p].last = FALSE]
          PROVE  /\ OthersStay(p) /\ pc'[p] \in {"rBaseline", "idle"}
                 /\ loc'[p].cur = None /\ loc'[p].diff = None
      <3>1. OthersStay(p) /\ pc'[p] = "rBaseline"
        BY <2>2
      <3>2. loc'[p].cur = loc[p].cur /\ loc'[p].diff = loc[p].diff
        BY <2>2 DEF Locals
      <3> QED BY <1>1, <3>1, <3>2
    <2> QED BY <2>1, <2>2 DEF NextTarget, Stages
  <1>3. Ids(p)' /\ BaseOf(p)'
    BY <1>2, RefFree DEF RemoveSteps
  <1>4. Acceptor(p)' /\ Remover(p)'
    BY <1>2 DEF Acceptor, Remover, AcceptSteps, RemoveSteps
  <1> QED BY <1>2, <1>3, <1>4 DEF OwnStep

\* A remover that stays with its image has found that no row names it.
LEMMA RefRemains ==
  ASSUME TypeInv, RefInv, replicaSet' = replicaSet, NEW p \in Request, pc[p] \in RemoveSteps, OthersStay(p),
         UNCHANGED <<row, check>>, ~HasRow(Target(p)), pc'[p] \in RemoveSteps,
         loc'[p].chk = loc[p].chk, loc'[p].stage = loc[p].stage,
         loc'[p].cur = loc[p].cur, loc'[p].diff = loc[p].diff
  PROVE  OwnStep(p) /\ Ids(p)' /\ BaseOf(p)' /\ Acceptor(p)' /\ Remover(p)'
  <1>1. loc[p].cur = None /\ loc[p].diff = None
    BY DEF RefInv, RequestRefs, Ids, RemoveSteps, Holding, CreateSteps
  <1>2. Ids(p)' /\ BaseOf(p)'
    BY <1>1, RefFree
  <1>3. Target(p)' = Target(p)
    BY DEF Target
  <1>4. Remover(p)'
    BY <1>3 DEF Remover, HasRow
  <1>5. Acceptor(p)'
    BY DEF Acceptor, AcceptSteps, RemoveSteps
  <1> QED BY <1>1, <1>2, <1>4, <1>5 DEF OwnStep

LEMMA RefRemoveRead ==
  ASSUME TypeInv, RefInv, replicaSet' = replicaSet, NEW p \in Request,
         RemoveCheckBaseline(p) \/ RemoveFindDoc(p) \/ RemoveFindOthers(p) \/ RemoveUnlink(p)
  PROVE  RefInv'
  <1>1. UNCHANGED <<doc, row, check>> /\ pc[p] \in RemoveSteps
    BY DEF RemoveCheckBaseline, RemoveFindDoc, RemoveFindOthers, RemoveUnlink, RemoveSteps,
       docVars
  <1>2. CASE NextTarget(p)
    BY <1>1, <1>2, RefMoves, RefRead
  <1>3. CASE ~NextTarget(p)
    <2>1. ~HasRow(Target(p))
      <3>1. CASE pc[p] = "rBaseline"
        <4>1. \A i \in Ident : row[<<i, Target(p)>>] = 0
          BY <1>3, <3>1 DEF RemoveCheckBaseline, RemoveFindDoc, RemoveFindOthers, RemoveUnlink
        <4>2. \A i \in Ident : ~(row[<<i, Target(p)>>] > 0)
          BY <4>1
        <4> QED BY <4>2 DEF HasRow
      <3>2. CASE pc[p] # "rBaseline"
        BY <1>1, <3>2 DEF RefInv, RequestRefs, Remover
      <3> QED BY <3>1, <3>2
    <2>2. PICK s \in RemoveSteps : Goto(p, s)
      BY <1>3 DEF RemoveCheckBaseline, RemoveFindDoc, RemoveFindOthers, RemoveUnlink, RemoveSteps
    <2>3. UNCHANGED loc \/ \E b \in BOOLEAN : loc' = [loc EXCEPT ![p].last = b]
      BY <1>3 DEF RemoveCheckBaseline, RemoveFindDoc, RemoveFindOthers, RemoveUnlink
    <2>4. /\ OthersStay(p) /\ pc'[p] \in RemoveSteps
          /\ loc'[p].chk = loc[p].chk /\ loc'[p].stage = loc[p].stage
          /\ loc'[p].cur = loc[p].cur /\ loc'[p].diff = loc[p].diff
      BY <2>2, <2>3 DEF TypeInv, TypeOK, Locals, OthersStay, Goto
    <2> QED BY <1>1, <2>1, <2>4, RefRemains, RefRead
  <1> QED BY <1>2, <1>3

LEMMA RefRemoveDelete ==
  ASSUME TypeInv, RefInv, replicaSet' = replicaSet, NEW p \in Request, RemoveDelete(p)
  PROVE  RefInv'
  <1>1. /\ UNCHANGED <<row, check>> /\ pc[p] = "rDelete" /\ NextTarget(p)
        /\ doc' = [doc EXCEPT ![Target(p)] = "gone"]
    BY DEF RemoveDelete
  <1>2. /\ OthersStay(p) /\ OwnStep(p) /\ Ids(p)' /\ BaseOf(p)' /\ Acceptor(p)' /\ Remover(p)'
    BY <1>1, RefMoves DEF RemoveSteps
  <1>3. DocsKept(p)
    <2>1. Target(p) \in Snap
      BY <1>1, RemovedImage DEF RemoveSteps
    <2> QED BY <1>1, <2>1 DEF TypeInv, TypeOK, DocsKept
  <1>4. RefFrame(p)
    BY <1>1, <1>2, <1>3 DEF RefFrame, ChecksKept, RowsKept, Unaccepted, Published
  <1> QED BY <1>2, <1>4, RefStep

\* Every step of the quiet environment.
LEMMA RefNext == TypeInv /\ RefInv /\ [Next /\ SerialReview' /\ KeepRows]_vars => RefInv'
  <1> SUFFICES ASSUME TypeInv, RefInv, [Next /\ SerialReview' /\ KeepRows]_vars
               PROVE  RefInv'
    OBVIOUS
  <1> replicaSet' = replicaSet
    BY DEF Next, vars
  <1>1. CASE UNCHANGED vars
    BY <1>1, RefIdle DEF vars
  <1>2. ASSUME NEW p \in Request, CreateStep(p)  PROVE RefInv'
    BY <1>2, RefLookup, RefAccess, RefClone, RefWriteFile, RefSaveDoc, RefFindBaseline,
       RefCompare, RefDiffWrite, RefDiffSave, RefInsertCheck, RefCommit, RefFail, RefCleanup
    DEF CreateStep
  <1>3. ASSUME NEW p \in Request, AcceptStep(p)  PROVE RefInv'
    BY <1>3, RefAcceptStart, RefAcceptUpsert, RefAcceptSave DEF AcceptStep
  <1>4. ASSUME NEW p \in Request, RemoveStep(p), SerialReview'  PROVE RefInv'
    BY <1>4, RefRemoveStart, RefRemoveRead, RefRemoveDelete DEF RemoveStep
  <1>5. ASSUME NEW k \in Ident \X Snap, RemoveBaseline(k), KeepRows  PROVE FALSE
    <2>1. row[k] > 0 /\ row' = [row EXCEPT ![k] = 0] /\ row \in [Ident \X Snap -> Nat]
      BY <1>5 DEF RemoveBaseline, TypeInv, TypeOK
    <2> QED BY <1>5, <2>1 DEF KeepRows
  <1> QED BY <1>1, <1>2, <1>3, <1>4, <1>5, RefDie DEF Next

\* THEOREM.  As long as nobody accepts a check that is being removed and no
\* baseline row is deleted, every reference the UI follows leads to a visible
\* snapshot: from a baseline row, and from a check to its actual image, its
\* baseline and its diff; with transactions or without, whatever fails or dies.
\* Of the quiet environment this needs two conditions: the third, that no file
\* is cloned while its last reference is being removed, is about files.
THEOREM QuietReferences ==
  Init /\ [][Next /\ SerialReview' /\ KeepRows]_vars => []ReferencesResolve
  <1>1. Init => TypeInv /\ RefInv
    BY TypeInit, RefInit
  <1>2. TypeInv /\ RefInv /\ [Next /\ SerialReview' /\ KeepRows]_vars => (TypeInv /\ RefInv)'
    <2>1. [Next /\ SerialReview' /\ KeepRows]_vars => [Next]_vars
      OBVIOUS
    <2> QED BY <2>1, TypeNext, RefNext
  <1>3. RefInv => ReferencesResolve
    BY DEF RefInv, RowOf, ReferencesResolve, BaselineKeepsDoc
  <1> QED BY <1>1, <1>2, <1>3, PTL

-----------------------------------------------------------------------------
(* Every visible document has the file it names in the quiet environment with *)
(* transactions.  The strengthening of TxInv adds that a file that is about to *)
(* be named by one more document is there, and that the file a remover is      *)
(* about to unlink has no other visible document.                              *)

HoldsFile(p) ==
  /\ \A f \in Snap : CloneWindow(p, f) => f \in file
  /\ pc[p] = "save" => fname[loc[p].cur] = loc[p].cur
  /\ loc[p].diff # None => fname[loc[p].diff] = loc[p].diff
  /\ pc[p] = "rUnlink" => Sharers(Target(p)) = {}

FreeName(s) == doc[s] = "free" => fname[s] = s

\* DocKeepsFile, where it is promised.
DocumentsHeld ==
  \A d \in Snap :
    doc[d] = "saved" /\ d \notin torn /\ ~BeingDeleted(d) => fname[d] \in file

FileInv ==
  /\ \A p \in Request : HoldsFile(p)
  /\ \A s \in Snap : FreeName(s)
  /\ SerialClone
  /\ DocumentsHeld

LEMMA FileInit == Init => FileInv
  <1> SUFFICES ASSUME Init  PROVE FileInv
    OBVIOUS
  <1>1. \A p \in Request : pc[p] = "idle" /\ loc[p].cur = None /\ loc[p].diff = None
    BY DEF Init, Blank
  <1>2. \A p \in Request : HoldsFile(p)
    BY <1>1, StoreAssumption DEF HoldsFile, CloneWindow
  <1>3. SerialClone
    BY <1>1 DEF SerialClone
  <1> QED BY <1>2, <1>3 DEF Init, FileInv, FreeName, DocumentsHeld

\* How a step of request p moves documents, names and files.  A file that goes
\* is asked for by no clone, and the visible documents it had are on their way
\* out; a document becomes visible only when p commits.
FilesLost ==
  \A f \in file \ file' :
    /\ doc[f] # "tx"
    /\ \A q \in Request : ~CloneWindow(q, f)
    /\ \A d \in Snap : doc[d] = "saved" /\ fname[d] = f => BeingDeleted(d)'

Commits(p) ==
  \A d \in Snap : doc'[d] = "saved" /\ doc[d] # "saved" =>
    pc[p] = "finish" /\ d \in OwnIds(p) /\ doc[d] = "tx"

Deletes(p) ==
  pc[p] = "rDelete" /\ loc[p].last =>
    doc'[Target(p)] # "saved" \/ Target(p) \in torn'

FileFrame(p) ==
  /\ OthersStay(p) /\ DocsMove(p) /\ ChecksMove(p) /\ NamesStay
  /\ torn \subseteq torn'
  /\ \A s \in Snap : FreeName(s)'
  /\ FilesLost /\ Commits(p) /\ Deletes(p)

\* Nothing changes a check that is gone.
LEMMA FileTarget ==
  ASSUME TypeInv, NEW p \in Request, OthersStay(p), ChecksMove(p), NEW q \in Request \ {p},
         pc[q] \in RemoveSteps
  PROVE  Target(q)' = Target(q)
  <1>1. loc[q].chk \in Snap /\ check[loc[q].chk].st = "gone" /\ loc'[q] = loc[q]
    BY DEF TypeInv, ReqSet, OthersStay
  <1>2. check'[loc[q].chk] = check[loc[q].chk]
    BY <1>1 DEF ChecksMove
  <1> QED BY <1>1, <1>2 DEF Target

\* The files of clones are those of documents that are or were visible.
LEMMA WindowFile ==
  ASSUME TypeInv, TxInv, NEW q \in Request, NEW f \in Snap, CloneWindow(q, f)
  PROVE  doc[f] \in {"tx", "saved", "gone"}
  <1>1. CASE pc[q] = "clone" /\ fname[loc[q].src] = f
    <2>1. loc[q].src \in Snap /\ Settled(loc[q].src)
      BY <1>1 DEF TypeInv, TxInv, ReqSet, ReqDocs
    <2> QED BY <1>1, <2>1 DEF TxInv, CloneOf, Settled
  <1>2. CASE \E s \in Snap : s = loc[q].cur /\ doc[s] = "tx" /\ fname[s] = f
    BY <1>2 DEF TxInv, CloneOf, Settled
  <1> QED BY <1>1, <1>2 DEF CloneWindow

\* What another request holds does not change.
LEMMA OthersWindow ==
  ASSUME TypeInv, TxInv, NEW p \in Request, FileFrame(p), NEW q \in Request \ {p},
         NEW f \in Snap, CloneWindow(q, f)'
  PROVE  CloneWindow(q, f)
  <1>1. pc'[q] = pc[q] /\ loc'[q] = loc[q]
    BY DEF FileFrame, OthersStay
  <1>2. CASE pc[q] = "clone" /\ fname'[loc[q].src] = f
    <2>1. loc[q].src \in Snap /\ Settled(loc[q].src)
      BY <1>2 DEF TypeInv, TxInv, ReqSet, ReqDocs
    <2> QED BY <1>2, <2>1 DEF CloneWindow, FileFrame, NamesStay, Settled
  <1>3. ASSUME NEW s \in Snap, s = loc[q].cur, doc'[s] = "tx", fname'[s] = f
        PROVE  CloneWindow(q, f)
    <2>1. s \in OwnIds(q)
      BY <1>3, StoreAssumption DEF OwnIds
    <2>2. s \notin OwnIds(p) /\ doc[s] # "free"
      BY <2>1, OwnIdsUsed DEF TxInv, DisjointIds
    <2>3. doc'[s] = doc[s] /\ fname'[s] = fname[s]
      BY <1>3, <2>2 DEF FileFrame, DocsMove, NamesStay
    <2> QED BY <1>3, <2>3 DEF CloneWindow
  <1> QED BY <1>1, <1>2, <1>3 DEF CloneWindow

\* Nobody joins the file of another remover's target.
LEMMA OthersSharers ==
  ASSUME TypeInv, TxInv, FileInv, NEW p \in Request, FileFrame(p), NEW q \in Request \ {p},
         pc[q] = "rUnlink"
  PROVE  Sharers(Target(q))' = {}
  <1>1. /\ Target(q) \in Snap /\ Settled(Target(q)) /\ Target(q)' = Target(q)
    BY TargetSettled, FileTarget DEF RemoveSteps, FileFrame
  <1>2. fname'[Target(q)] = fname[Target(q)] /\ Sharers(Target(q)) = {}
    BY <1>1 DEF FileFrame, NamesStay, Settled, FileInv, HoldsFile
  <1>3. ASSUME NEW s \in Snap \ {Target(q)}, doc'[s] = "saved",
               fname'[s] = fname[Target(q)]
        PROVE  FALSE
    <2>1. CASE doc[s] = "saved"
      BY <1>2, <1>3, <2>1 DEF Sharers, FileFrame, NamesStay
    <2>2. CASE doc[s] # "saved"
      <3>1. pc[p] = "finish" /\ s \in OwnIds(p) /\ doc[s] = "tx"
        BY <1>3, <2>2 DEF FileFrame, Commits
      <3>2. fname[s] = fname[Target(q)]
        BY <1>3, <3>1 DEF FileFrame, NamesStay
      <3>3. CASE s = loc[p].cur
        BY <3>1, <3>2, <3>3 DEF FileInv, SerialClone, CloneWindow
      <3>4. CASE s = loc[p].diff
        <4>1. fname[Target(q)] = s
          BY <3>2, <3>1, <3>4 DEF FileInv, HoldsFile, OwnIds
        <4> QED BY <1>1, <1>3, <3>1, <4>1 DEF TxInv, CloneOf, Settled
      <3> QED BY <3>1, <3>3, <3>4 DEF OwnIds
    <2> QED BY <2>1, <2>2
  <1> QED BY <1>1, <1>2, <1>3 DEF Sharers

LEMMA OthersHold ==
  ASSUME TypeInv, TxInv, FileInv, NEW p \in Request, FileFrame(p), NEW q \in Request \ {p}
  PROVE  HoldsFile(q)'
  <1>1. pc'[q] = pc[q] /\ loc'[q] = loc[q] /\ HoldsFile(q)
    BY DEF FileFrame, OthersStay, FileInv
  <1>2. \A f \in Snap : CloneWindow(q, f)' => f \in file'
    BY <1>1, OthersWindow DEF HoldsFile, FileFrame, FilesLost
  <1>3. \A s \in OwnIds(q) : s \in Snap /\ fname'[s] = fname[s]
    BY OwnIdsUsed DEF FileFrame, NamesStay
  <1>4. pc[q] = "save" => loc[q].cur \in OwnIds(q)
    BY StoreAssumption DEF TypeInv, ReqSet, Holding, CreateSteps, OwnIds
  <1>5. loc[q].diff # None => loc[q].diff \in OwnIds(q)
    BY DEF OwnIds
  <1> QED BY <1>1, <1>2, <1>3, <1>4, <1>5, OthersSharers DEF HoldsFile

LEMMA FilesStep ==
  ASSUME TypeInv, TxInv, FileInv, NEW p \in Request, FileFrame(p)
  PROVE  DocumentsHeld'
  <1> SUFFICES ASSUME NEW d \in Snap, doc'[d] = "saved", d \notin torn', ~BeingDeleted(d)'
               PROVE  fname'[d] \in file'
    BY DEF DocumentsHeld
  <1>1. /\ fname[d] \in Snap
        /\ doc[d] # "free" => fname'[d] = fname[d]
    BY DEF TypeInv, TypeOK, FileFrame, NamesStay
  <1>2. CASE doc[d] = "saved"
    <2>1. ~BeingDeleted(d)
      <3> SUFFICES ASSUME NEW q \in Request, pc[q] = "rDelete", loc[q].last, Target(q) = d
                   PROVE  FALSE
        BY DEF BeingDeleted
      <3>1. q # p
        BY DEF FileFrame, Deletes
      <3>2. pc'[q] = pc[q] /\ loc'[q] = loc[q] /\ Target(q)' = d
        BY <3>1, FileTarget DEF FileFrame, OthersStay, RemoveSteps
      <3> QED BY <3>2 DEF BeingDeleted
    <2>2. fname[d] \in file
      BY <1>2, <2>1 DEF FileInv, DocumentsHeld, FileFrame
    <2>3. FilesLost
      BY DEF FileFrame
    <2>4. fname[d] \in file'
      BY <1>2, <2>2, <2>3 DEF FilesLost
    <2> QED BY <1>1, <1>2, <2>4
  <1>3. CASE doc[d] # "saved"
    <2>1. pc[p] = "finish" /\ d \in OwnIds(p) /\ doc[d] = "tx"
      BY <1>3 DEF FileFrame, Commits
    <2>2. fname'[d] = fname[d] /\ fname[d] \in Snap
      BY <2>1 DEF TypeInv, TypeOK, FileFrame, NamesStay
    <2>3. fname[d] \in file
      <3>1. CASE d = loc[p].cur
        BY <2>1, <2>2, <3>1 DEF CloneWindow, FileInv, HoldsFile
      <3>2. CASE d = loc[p].diff
        BY <2>1, <3>2 DEF FileInv, HoldsFile, OwnIds, TxInv, UnsavedHasFile
      <3> QED BY <2>1, <3>1, <3>2 DEF OwnIds
    <2>4. fname[d] \in file'
      <3>1. FilesLost
        BY DEF FileFrame
      <3>2. CloneWindow(p, fname[d]) \/ doc[fname[d]] = "tx"
        BY <2>1 DEF OwnIds, CloneWindow, FileInv, HoldsFile
      <3> QED BY <2>3, <3>1, <3>2 DEF FilesLost
    <2> QED BY <2>2, <2>4
  <1> QED BY <1>2, <1>3

\* What is left to prove of one step of one request.
LEMMA FileStep ==
  ASSUME TypeInv, TxInv, FileInv, NEW p \in Request, FileFrame(p), HoldsFile(p)',
         SerialClone'
  PROVE  FileInv'
  <1>1. \A q \in Request : HoldsFile(q)'
    BY OthersHold
  <1>2. \A s \in Snap : FreeName(s)'
    BY DEF FileFrame
  <1> QED BY <1>1, <1>2, FilesStep DEF FileInv

\* A request that asks for no file and unlinks none keeps what it holds.
LEMMA HoldsSame ==
  ASSUME TypeInv, FileInv, NEW p \in Request, UNCHANGED <<doc, fname, file>>,
         pc'[p] \notin {"clone", "save", "rUnlink"},
         loc'[p].cur \in {loc[p].cur, None}, loc'[p].diff \in {loc[p].diff, None}
  PROVE  HoldsFile(p)'
  <1>1. HoldsFile(p) /\ None \notin Snap
    BY StoreAssumption DEF FileInv
  <1>2. ASSUME NEW f \in Snap, CloneWindow(p, f)'  PROVE f \in file'
    <2>1. PICK s \in Snap : s = loc'[p].cur /\ doc[s] = "tx" /\ fname[s] = f
      BY <1>2 DEF CloneWindow
    <2>2. s = loc[p].cur
      BY <1>1, <2>1
    <2> QED BY <1>1, <2>1, <2>2 DEF HoldsFile, CloneWindow
  <1> QED BY <1>1, <1>2 DEF HoldsFile

\* A step that moves no document, name or file.
LEMMA FileRead ==
  ASSUME TypeInv, TxInv, FileInv, NEW p \in Request, OthersStay(p), ChecksMove(p),
         UNCHANGED <<doc, fname, file, torn>>, pc[p] # "rDelete", HoldsFile(p)', SerialClone'
  PROVE  FileInv'
  <1>1. \A s \in Snap : FreeName(s)'
    BY DEF FileInv, FreeName
  <1>2. FileFrame(p)
    BY <1>1 DEF FileFrame, DocsMove, NamesStay, FilesLost, Commits, Deletes
  <1> QED BY <1>2, FileStep

\* Most steps are of this kind.
LEMMA FileReads ==
  ASSUME TypeInv, TxInv, FileInv, NEW p \in Request, SerialClone',
         \/ Lookup(p) \/ FindBaseline(p) \/ Inspect(p) \/ Compare(p) \/ InsertCheck(p)
         \/ AcceptStart(p) \/ AcceptUpsert(p) \/ AcceptSave(p)
         \/ RemoveStart(p) \/ RemoveCheckBaseline(p) \/ RemoveFindDoc(p)
  PROVE  FileInv'
  <1>1. UNCHANGED <<doc, fname, file, torn>> /\ pc[p] # "rDelete"
    BY DEF Lookup, FindBaseline, Inspect, Compare, InsertCheck, AcceptStart, AcceptUpsert,
       AcceptSave, RemoveStart, RemoveCheckBaseline, RemoveFindDoc, docVars
  <1>2. ChecksMove(p)
    <2>1. CASE InsertCheck(p)
      <3>1. loc[p].cur \in Snap /\ check[loc[p].cur].st = "none"
        BY <2>1 DEF InsertCheck, TypeInv, ReqSet, Holding, Uninserted, CreateSteps
      <3> QED BY <2>1, <3>1 DEF InsertCheck, TypeInv, TypeOK, ChecksMove
    <2>2. CASE AcceptSave(p)
      <3>1. /\ loc[p].chk \in Snap /\ check[loc[p].chk] \in CheckRec
            /\ check' = [check EXCEPT ![loc[p].chk].base =
                 IF check[loc[p].chk].st = "live" /\ loc[p].link THEN loc[p].chk
                 ELSE check[loc[p].chk].base]
        BY <2>2 DEF AcceptSave, TypeInv, TypeOK, ReqSet, AcceptSteps
      <3>2. check[loc[p].chk].st # "live" => check' = check
        BY <3>1 DEF TypeInv, TypeOK, CheckRec
      <3> QED BY <3>1, <3>2 DEF TypeInv, TypeOK, ChecksMove
    <2>3. CASE RemoveStart(p)
      BY <2>3 DEF RemoveStart, TypeInv, TypeOK, ChecksMove
    <2>4. CASE UNCHANGED check
      BY <2>4 DEF ChecksMove
    <2> QED BY <2>1, <2>2, <2>3, <2>4 DEF Lookup, FindBaseline, Inspect, Compare, AcceptStart,
          AcceptUpsert, RemoveCheckBaseline, RemoveFindDoc
  <1>3. \E s \in Steps \ {"clone", "save", "rUnlink"} : Goto(p, s)
    <2> USE DEF Steps, CreateSteps, AcceptSteps, RemoveSteps
    <2>1. CASE Lookup(p) \/ FindBaseline(p) \/ Inspect(p) \/ Compare(p) \/ InsertCheck(p)
      BY <2>1 DEF Lookup, FindBaseline, Inspect, Compare, InsertCheck
    <2>2. CASE AcceptStart(p) \/ AcceptUpsert(p) \/ RemoveStart(p)
      BY <2>2 DEF AcceptStart, AcceptUpsert, RemoveStart
    <2>3. CASE AcceptSave(p) \/ NextTarget(p)
      BY <2>3 DEF AcceptSave, NextTarget, Finish
    <2>4. CASE Goto(p, "rDoc") \/ Goto(p, "rOthers")
      BY <2>4
    <2> QED BY <2>1, <2>2, <2>3, <2>4 DEF RemoveCheckBaseline, RemoveFindDoc
  <1>4. /\ loc'[p].cur \in {loc[p].cur, None} /\ loc'[p].diff \in {loc[p].diff, None}
        /\ \A q \in Request \ {p} : loc'[q] = loc[q]
    <2> USE DEF TypeInv, TypeOK
    <2>1. CASE Lookup(p)
      BY <2>1 DEF Lookup, Blank
    <2>2. CASE FindBaseline(p) \/ Inspect(p)
      <3>1. UNCHANGED loc \/ \E b \in Snap \cup {None} : loc' = [loc EXCEPT ![p].base = b]
        BY <2>2 DEF FindBaseline, Inspect, RowsOf, Locals
      <3> QED BY <3>1 DEF Locals
    <2>3. CASE AcceptStart(p) \/ RemoveStart(p)
      <3>1. PICK c \in Snap, b \in BOOLEAN :
              \/ loc' = [loc EXCEPT ![p] = [Blank EXCEPT !.chk = c, !.link = b]]
              \/ loc' = [loc EXCEPT ![p] = [Blank EXCEPT !.chk = c]]
        BY <2>3 DEF AcceptStart, RemoveStart
      <3> QED BY <3>1 DEF Blank
    <2>4. CASE Finish(p)
      BY <2>4 DEF Finish, Blank
    <2>5. ASSUME NEW st \in Stages, loc' = [loc EXCEPT ![p].stage = st, ![p].last = FALSE]
          PROVE  /\ loc'[p].cur \in {loc[p].cur, None} /\ loc'[p].diff \in {loc[p].diff, None}
                 /\ \A q \in Request \ {p} : loc'[q] = loc[q]
      BY <2>5 DEF Locals
    <2>6. CASE NextTarget(p)
      BY <2>4, <2>5, <2>6 DEF NextTarget, Stages
    <2>7. CASE UNCHANGED loc
      BY <2>7
    <2> QED BY <2>1, <2>2, <2>3, <2>4, <2>6, <2>7 DEF Compare, InsertCheck, AcceptUpsert,
          AcceptSave, RemoveCheckBaseline, RemoveFindDoc
  <1>5. OthersStay(p) /\ pc'[p] \notin {"clone", "save", "rUnlink"}
    BY <1>3, <1>4 DEF TypeInv, TypeOK, Goto, OthersStay
  <1> QED BY <1>1, <1>2, <1>4, <1>5, HoldsSame, FileRead

\* The file to clone has been looked at ...
LEMMA FileAccess ==
  ASSUME TypeInv, TxInv, FileInv, NEW p \in Request, Access(p), SerialClone'
  PROVE  FileInv'
  <1>1. /\ UNCHANGED <<doc, fname, file, check, torn, loc>>
        /\ pc[p] = "access" /\ pc' = [pc EXCEPT ![p] = "clone"] /\ fname[loc[p].src] \in file
    BY DEF Access, docVars, Goto
  <1>2. OthersStay(p) /\ pc'[p] = "clone" /\ loc[p].cur = None /\ loc[p].diff = None
    BY <1>1 DEF TypeInv, TypeOK, OthersStay, TxInv, ReqDocs, Holding, CreateSteps
  <1>3. HoldsFile(p)'
    BY <1>1, <1>2, StoreAssumption DEF HoldsFile, CloneWindow
  <1> QED BY <1>1, <1>2, <1>3, FileRead DEF ChecksMove

\* ... and is named by one more document.
LEMMA FileClone ==
  ASSUME replicaSet, TypeInv, TxInv, FileInv, NEW p \in Request, Clone(p), SerialClone'
  PROVE  FileInv'
  <1>1. PICK s \in Snap :
          /\ doc[s] = "free"
          /\ doc' = [doc EXCEPT ![s] = "tx"]
          /\ fname' = [fname EXCEPT ![s] = fname[loc[p].src]]
          /\ loc' = [loc EXCEPT ![p].cur = s]
    BY DEF Clone, Inserted
  <1>2. /\ UNCHANGED <<file, check, torn>>
        /\ pc[p] = "clone" /\ pc' = [pc EXCEPT ![p] = "find"]
    BY DEF Clone, Goto
  <1>3. loc[p].diff = None /\ loc[p].src \in Snap /\ fname[loc[p].src] \in file
    <2>1. loc[p].diff = None /\ loc[p].src \in Snap
      BY <1>2 DEF TxInv, ReqDocs, TypeInv, ReqSet
    <2>2. fname[loc[p].src] \in Snap
      BY <2>1 DEF TypeInv, TypeOK
    <2> QED BY <1>2, <2>1, <2>2 DEF FileInv, HoldsFile, CloneWindow
  <1>4. /\ OthersStay(p) /\ pc'[p] = "find" /\ loc'[p].cur = s /\ loc'[p].diff = None
        /\ doc'[s] = "tx" /\ fname'[s] = fname[loc[p].src]
    BY <1>1, <1>2, <1>3 DEF TypeInv, TypeOK, OthersStay, Locals
  <1>5. \A x \in Snap : FreeName(x)'
    BY <1>1 DEF TypeInv, TypeOK, FileInv, FreeName
  <1>6. FileFrame(p)
    BY <1>1, <1>2, <1>4, <1>5 DEF TypeInv, TypeOK, FileFrame, DocsMove, ChecksMove, NamesStay,
       FilesLost, Commits, Deletes
  <1>7. HoldsFile(p)'
    BY <1>2, <1>3, <1>4 DEF HoldsFile, CloneWindow
  <1> QED BY <1>6, <1>7, FileStep

\* Writing an image: an id that was never used, and the file of that name.
LEMMA FileWrite ==
  ASSUME TypeInv, TxInv, FileInv, NEW p \in Request, NEW s \in Snap, doc[s] = "free",
         doc' = [doc EXCEPT ![s] = "new"], file' = file \cup {s},
         UNCHANGED <<fname, check, torn>>, OthersStay(p), HoldsFile(p)', pc[p] # "rDelete",
         SerialClone'
  PROVE  FileInv'
  <1>1. \A x \in Snap : FreeName(x)'
    BY DEF TypeInv, TypeOK, FileInv, FreeName
  <1>2. FileFrame(p)
    BY <1>1 DEF TypeInv, TypeOK, FileFrame, DocsMove, ChecksMove, NamesStay, FilesLost,
       Commits, Deletes
  <1> QED BY <1>2, FileStep

LEMMA FileWriteFile ==
  ASSUME TypeInv, TxInv, FileInv, NEW p \in Request, WriteFile(p), SerialClone'
  PROVE  FileInv'
  <1>1. PICK s \in Snap :
          /\ doc[s] = "free"
          /\ doc' = [doc EXCEPT ![s] = "new"]
          /\ file' = file \cup {s}
          /\ loc' = [loc EXCEPT ![p].cur = s]
    BY DEF WriteFile
  <1>2. /\ UNCHANGED <<fname, check, torn>>
        /\ pc[p] = "write" /\ pc' = [pc EXCEPT ![p] = "save"] /\ loc[p].diff = None
    BY DEF WriteFile, Goto, TxInv, ReqDocs
  <1>3. /\ OthersStay(p) /\ pc'[p] = "save" /\ loc'[p].cur = s /\ loc'[p].diff = None
        /\ doc'[s] = "new" /\ fname[s] = s
    BY <1>1, <1>2 DEF TypeInv, TypeOK, OthersStay, Locals, FileInv, FreeName
  <1>4. HoldsFile(p)'
    BY <1>2, <1>3 DEF HoldsFile, CloneWindow
  <1> QED BY <1>1, <1>2, <1>3, <1>4, FileWrite

LEMMA FileDiffWrite ==
  ASSUME TypeInv, TxInv, FileInv, NEW p \in Request, DiffWrite(p), SerialClone'
  PROVE  FileInv'
  <1>1. PICK s \in Snap :
          /\ doc[s] = "free"
          /\ doc' = [doc EXCEPT ![s] = "new"]
          /\ file' = file \cup {s}
          /\ loc' = [loc EXCEPT ![p].diff = s]
    BY DEF DiffWrite
  <1>2. /\ UNCHANGED <<fname, check, torn>>
        /\ pc[p] = "diffWrite" /\ pc' = [pc EXCEPT ![p] = "diffSave"]
    BY DEF DiffWrite, Goto
  <1>3. /\ OthersStay(p) /\ pc'[p] = "diffSave" /\ loc'[p].cur = loc[p].cur /\ loc'[p].diff = s
        /\ fname[s] = s
    BY <1>1, <1>2 DEF TypeInv, TypeOK, OthersStay, Locals, FileInv, FreeName
  <1>4. \A x \in Snap : doc'[x] = "tx" => doc[x] = "tx"
    BY <1>1 DEF TypeInv, TypeOK
  <1>5. HoldsFile(p)'
    BY <1>1, <1>2, <1>3, <1>4 DEF FileInv, HoldsFile, CloneWindow
  <1> QED BY <1>1, <1>2, <1>3, <1>5, FileWrite

\* Saving a document inside the transaction.
LEMMA FileSave ==
  ASSUME replicaSet, TypeInv, TxInv, FileInv, NEW p \in Request, SaveDoc(p) \/ DiffSave(p),
         SerialClone'
  PROVE  FileInv'
  <1>1. /\ UNCHANGED <<fname, file, check, torn, loc>>
        /\ pc[p] \in {"save", "diffSave"} /\ (Goto(p, "find") \/ Goto(p, "insert"))
    BY DEF SaveDoc, DiffSave
  <1>2. PICK s \in OwnIds(p) :
          /\ doc[s] = "new" /\ doc' = [doc EXCEPT ![s] = "tx"]
          /\ s \in Snap /\ fname[s] = s
          /\ s = loc[p].cur \/ doc[loc[p].cur] = "tx"
    <2>1. CASE SaveDoc(p)
      <3>1. loc[p].cur \in Snap /\ doc[loc[p].cur] = "new" /\ fname[loc[p].cur] = loc[p].cur
        BY <2>1 DEF SaveDoc, TypeInv, ReqSet, Holding, CreateSteps, TxInv, ReqDocs, FileInv,
           HoldsFile
      <3> QED BY <2>1, <3>1, StoreAssumption DEF SaveDoc, Inserted, OwnIds
    <2>2. CASE DiffSave(p)
      <3>1. /\ loc[p].diff \in Snap /\ doc[loc[p].diff] = "new" /\ fname[loc[p].diff] = loc[p].diff
            /\ doc[loc[p].cur] = "tx"
        <4>1. ReqDocs(p) /\ HoldsFile(p) /\ pc[p] = "diffSave" /\ None \notin Snap
          BY <2>2, StoreAssumption DEF DiffSave, TxInv, FileInv
        <4> QED BY <4>1 DEF Holding, CreateSteps, ReqDocs, HoldsFile
      <3> QED BY <2>2, <3>1, StoreAssumption DEF DiffSave, Inserted, OwnIds
    <2> QED BY <2>1, <2>2
  <1>3. OthersStay(p) /\ pc'[p] \in {"find", "insert"}
    BY <1>1 DEF TypeInv, TypeOK, OthersStay, Goto
  <1>4. \A x \in Snap : FreeName(x)'
    BY <1>1, <1>2 DEF TypeInv, TypeOK, FileInv, FreeName
  <1>5. FileFrame(p)
    BY <1>1, <1>2, <1>3, <1>4 DEF TypeInv, TypeOK, FileFrame, DocsMove, ChecksMove, NamesStay,
       FilesLost, Commits, Deletes
  <1>6. s \in file
    BY <1>2 DEF TxInv, UnsavedHasFile
  <1>7. ASSUME NEW f \in Snap, CloneWindow(p, f)'  PROVE f \in file
    <2>1. PICK x \in Snap : x = loc[p].cur /\ doc'[x] = "tx" /\ fname[x] = f
      BY <1>1, <1>3, <1>7 DEF CloneWindow
    <2>2. CASE x = s
      BY <1>2, <1>6, <2>1, <2>2
    <2>3. CASE x # s
      <3>1. doc[x] = "tx"
        BY <1>2, <2>1, <2>3
      <3> QED BY <2>1, <3>1 DEF FileInv, HoldsFile, CloneWindow
    <2> QED BY <2>2, <2>3
  <1>8. HoldsFile(p)'
    BY <1>1, <1>3, <1>7 DEF FileInv, HoldsFile
  <1> QED BY <1>5, <1>8, FileStep

\* What becomes visible has its file, and joins no file being removed.
LEMMA FileCommit ==
  ASSUME TypeInv, TxInv, FileInv, NEW p \in Request, Commit(p), SerialClone'
  PROVE  FileInv'
  <1>1. /\ UNCHANGED <<fname, file, torn>>
        /\ pc[p] = "finish" /\ pc' = [pc EXCEPT ![p] = "idle"]
        /\ loc' = [loc EXCEPT ![p] = Blank]
        /\ doc' = [s \in Snap |-> IF s \in {loc[p].cur, loc[p].diff} /\ doc[s] = "tx"
                                  THEN "saved" ELSE doc[s]]
        /\ check' = [check EXCEPT ![loc[p].cur].st =
                       IF check[loc[p].cur].st = "tx" THEN "live" ELSE check[loc[p].cur].st]
    BY DEF Commit, Goto, Finish
  <1>2. loc[p].cur \in Snap /\ check[loc[p].cur].st = "tx"
    <2>1. loc[p].cur \in Snap
      BY <1>1 DEF TypeInv, ReqSet, Holding, CreateSteps
    <2>2. check[loc[p].cur] = [st |-> "tx", ident |-> loc[p].ident,
                               base |-> loc[p].base, diff |-> loc[p].diff]
      BY <1>1 DEF TxInv, ReqDocs
    <2> QED BY <2>1, <2>2
  <1>3. OthersStay(p) /\ pc'[p] = "idle" /\ loc'[p].cur = None /\ loc'[p].diff = None
    BY <1>1 DEF TypeInv, TypeOK, OthersStay, Blank
  <1>4. \A s \in Snap : s \in {loc[p].cur, loc[p].diff} => s \in OwnIds(p)
    BY StoreAssumption DEF OwnIds
  <1>5. \A x \in Snap : FreeName(x)'
    BY <1>1 DEF FileInv, FreeName
  <1>6. FileFrame(p)
    BY <1>1, <1>2, <1>3, <1>4, <1>5 DEF TypeInv, TypeOK, FileFrame, DocsMove, ChecksMove,
       NamesStay, FilesLost, Commits, Deletes
  <1>7. HoldsFile(p)'
    BY <1>3, StoreAssumption DEF HoldsFile, CloneWindow
  <1> QED BY <1>6, <1>7, FileStep

\* A rollback makes nothing visible and takes no file.
LEMMA FileRollBack ==
  ASSUME TypeInv, TxInv, FileInv, NEW p \in Request, RollBackDocs(p), OthersStay(p),
         UNCHANGED <<fname, file>>, torn \subseteq torn',
         pc[p] = "rDelete" /\ loc[p].last => Target(p) \in torn',
         pc'[p] \in {"idle", "cleanup"},
         loc'[p].cur \in {loc[p].cur, None}, loc'[p].diff \in {loc[p].diff, None},
         SerialClone'
  PROVE  FileInv'
  <1>1. DocsMove(p) /\ ChecksMove(p) /\ NamesStay
    BY RollBackTx
  <1>2. \A s \in Snap : /\ doc'[s] = "saved" => doc[s] = "saved"
                        /\ doc'[s] = "free" => doc[s] = "free"
                        /\ doc'[s] = "tx" => doc[s] = "tx"
    BY DEF RollBackDocs
  <1>3. \A x \in Snap : FreeName(x)'
    BY <1>2 DEF FileInv, FreeName
  <1>4. FileFrame(p)
    BY <1>1, <1>2, <1>3 DEF FileFrame, FilesLost, Commits, Deletes
  <1>5. HoldsFile(p) /\ None \notin Snap
    BY StoreAssumption DEF FileInv
  <1>6. ASSUME NEW f \in Snap, CloneWindow(p, f)'  PROVE f \in file'
    <2>1. PICK s \in Snap : s = loc'[p].cur /\ doc'[s] = "tx" /\ fname[s] = f
      BY <1>6 DEF CloneWindow
    <2>2. s = loc[p].cur /\ doc[s] = "tx"
      BY <1>2, <1>5, <2>1
    <2> QED BY <1>5, <2>1, <2>2 DEF HoldsFile, CloneWindow
  <1>7. HoldsFile(p)'
    BY <1>5, <1>6 DEF HoldsFile
  <1> QED BY <1>4, <1>7, FileStep

LEMMA FileFail ==
  ASSUME TypeInv, TxInv, FileInv, NEW p \in Request, Fail(p) \/ Die(p), SerialClone'
  PROVE  FileInv'
  <1>1. /\ RollBackDocs(p) /\ UNCHANGED <<fname, file>> /\ torn \subseteq torn'
        /\ pc[p] = "rDelete" /\ loc[p].last => Target(p) \in torn'
    BY DEF Fail, Die, CreateSteps
  <1>2. /\ Goto(p, "idle") \/ Goto(p, "cleanup")
        /\ \/ loc' = [loc EXCEPT ![p] = Blank]
           \/ \E d \in {loc[p].diff, None} : loc' = [loc EXCEPT ![p].diff = d]
    <2>1. CASE Fail(p)
      <3>1. loc' = [loc EXCEPT ![p].diff = IF pc[p] = "diffSave" THEN None ELSE loc[p].diff]
              => \E d \in {loc[p].diff, None} : loc' = [loc EXCEPT ![p].diff = d]
        OBVIOUS
      <3> QED BY <2>1, <3>1 DEF Fail, Finish
    <2>2. CASE Die(p)
      BY <2>2 DEF Die, Finish
    <2> QED BY <2>1, <2>2
  <1>3. OthersStay(p) /\ pc'[p] \in {"idle", "cleanup"}
    BY <1>2 DEF TypeInv, TypeOK, OthersStay, Goto
  <1>4. loc'[p].cur \in {loc[p].cur, None} /\ loc'[p].diff \in {loc[p].diff, None}
    BY <1>2 DEF TypeInv, TypeOK, Locals, Blank
  <1> QED BY <1>1, <1>3, <1>4, FileRollBack

\* The files cleaned up were written by documents that never became visible.
LEMMA FileCleanup ==
  ASSUME TypeInv, TxInv, FileInv, NEW p \in Request, Cleanup(p), SerialClone'
  PROVE  FileInv'
  <1>1. /\ UNCHANGED <<doc, fname, check, torn>> /\ pc[p] = "cleanup"
        /\ pc' = [pc EXCEPT ![p] = "idle"] /\ loc' = [loc EXCEPT ![p] = Blank]
        /\ file' = file \ CleanupFiles(p)
    BY DEF Cleanup, Finish, Goto, docVars
  <1>2. OthersStay(p) /\ pc'[p] = "idle" /\ loc'[p].cur = None /\ loc'[p].diff = None
    BY <1>1 DEF TypeInv, TypeOK, OthersStay, Blank
  <1>3. \A x \in CleanupFiles(p) : x \in Snap /\ doc[x] = "void"
    <2>1. \A x \in CleanupFiles(p) : x \in Snap /\ (x = loc[p].cur \/ x = loc[p].diff)
      BY DEF CleanupFiles
    <2>2. ReqDocs(p) /\ None \notin Snap
      BY StoreAssumption DEF TxInv
    <2> QED BY <1>1, <2>1, <2>2 DEF ReqDocs
  <1>4. \A x \in Snap : FreeName(x)'
    BY <1>1 DEF FileInv, FreeName
  <1>5. \A f \in file \ file' : doc[f] = "void" /\ f \in Snap
    BY <1>1, <1>3
  <1>6. \A d \in Snap : doc[d] = "saved" => doc[fname[d]] # "void"
    BY DEF TxInv, CloneOf, Settled
  <1>7. FilesLost
    BY <1>5, <1>6, WindowFile DEF FilesLost
  <1>8. FileFrame(p)
    BY <1>1, <1>2, <1>4, <1>7 DEF FileFrame, DocsMove, ChecksMove, NamesStay, Commits, Deletes
  <1>9. HoldsFile(p)'
    BY <1>2, StoreAssumption DEF HoldsFile, CloneWindow
  <1> QED BY <1>8, <1>9, FileStep

\* The remover asks whether its target is the last of its file ...
LEMMA FileFindOthers ==
  ASSUME TypeInv, TxInv, FileInv, NEW p \in Request, RemoveFindOthers(p), SerialClone'
  PROVE  FileInv'
  <1>1. /\ UNCHANGED <<doc, fname, file, check, torn>> /\ pc[p] = "rOthers"
        /\ loc' = [loc EXCEPT ![p].last = (Sharers(Target(p)) = {})]
        /\ Goto(p, "rDelete") \/ (Sharers(Target(p)) = {} /\ Goto(p, "rUnlink"))
    BY DEF RemoveFindOthers, docVars
  <1>2. loc[p].cur = None /\ loc[p].diff = None
    BY <1>1 DEF TxInv, ReqDocs, Holding, CreateSteps
  <1>3. /\ OthersStay(p) /\ pc'[p] \in {"rDelete", "rUnlink"}
        /\ pc'[p] = "rUnlink" => Sharers(Target(p)) = {}
        /\ loc'[p].cur = None /\ loc'[p].diff = None
        /\ loc'[p].chk = loc[p].chk /\ loc'[p].stage = loc[p].stage
    BY <1>1, <1>2 DEF TypeInv, TypeOK, OthersStay, Goto, Locals
  <1>4. Target(p)' = Target(p)
    BY <1>1, <1>3 DEF Target
  <1>5. Sharers(Target(p))' = Sharers(Target(p))
    BY <1>1, <1>4 DEF Sharers
  <1>6. HoldsFile(p)'
    BY <1>3, <1>5, StoreAssumption DEF HoldsFile, CloneWindow
  <1> QED BY <1>1, <1>3, <1>6, FileRead DEF ChecksMove

\* ... and then takes the file from it alone: nobody clones it in between.
LEMMA FileUnlink ==
  ASSUME TypeInv, TxInv, FileInv, NEW p \in Request, RemoveUnlink(p), SerialClone'
  PROVE  FileInv'
  <1>1. /\ UNCHANGED <<doc, fname, check, torn, loc>> /\ pc[p] = "rUnlink"
        /\ pc' = [pc EXCEPT ![p] = "rDelete"] /\ file' = file \ {fname[Target(p)]}
    BY DEF RemoveUnlink, docVars, Goto
  <1>2. /\ OthersStay(p) /\ pc'[p] = "rDelete" /\ loc[p].cur = None /\ loc[p].diff = None
        /\ loc[p].last
    BY <1>1 DEF TypeInv, TypeOK, OthersStay, TxInv, ReqDocs, Holding, CreateSteps
  <1>3. Target(p) \in Snap /\ Settled(Target(p)) /\ fname[Target(p)] \in Snap
    BY <1>1, TargetSettled DEF RemoveSteps, TypeInv, TypeOK
  <1>4. ASSUME NEW d \in Snap, d = Target(p)  PROVE BeingDeleted(d)'
    <2>1. Target(p)' = Target(p)
      BY <1>1 DEF Target
    <2> QED BY <1>1, <1>2, <1>4, <2>1 DEF BeingDeleted
  <1>5. ASSUME NEW d \in Snap, doc[d] = "saved", fname[d] = fname[Target(p)]
        PROVE  d = Target(p)
    BY <1>1, <1>5 DEF FileInv, HoldsFile, Sharers
  <1>6. \A q \in Request : ~CloneWindow(q, fname[Target(p)])
    BY <1>1 DEF FileInv, SerialClone
  <1>7. doc[fname[Target(p)]] # "tx"
    BY <1>3 DEF TxInv, CloneOf, Settled
  <1>8. FilesLost
    BY <1>1, <1>4, <1>5, <1>6, <1>7 DEF FilesLost
  <1>9. \A x \in Snap : FreeName(x)'
    BY <1>1 DEF FileInv, FreeName
  <1>10. FileFrame(p)
    BY <1>1, <1>2, <1>8, <1>9 DEF FileFrame, DocsMove, ChecksMove, NamesStay, Commits, Deletes
  <1>11. HoldsFile(p)'
    BY <1>1, <1>2, StoreAssumption DEF HoldsFile, CloneWindow
  <1> QED BY <1>10, <1>11, FileStep

LEMMA FileDelete ==
  ASSUME TypeInv, TxInv, FileInv, NEW p \in Request, RemoveDelete(p), SerialClone'
  PROVE  FileInv'
  <1>1. /\ UNCHANGED <<fname, file, check, torn>> /\ pc[p] = "rDelete" /\ NextTarget(p)
        /\ doc' = [doc EXCEPT ![Target(p)] = "gone"]
    BY DEF RemoveDelete
  <1>2. Target(p) \in Snap /\ Settled(Target(p))
    BY <1>1, TargetSettled DEF RemoveSteps
  <1>3. OthersStay(p) /\ ReqDocs(p)'
    BY <1>1, RemoverDocs DEF RemoveSteps
  <1>4. pc'[p] \in {"rBaseline", "idle"}
    BY <1>1 DEF NextTarget, Finish, Goto, TypeInv, TypeOK
  <1>5. loc'[p].cur = None /\ loc'[p].diff = None
    BY <1>3, <1>4 DEF ReqDocs, Holding, CreateSteps
  <1>6. \A x \in Snap : FreeName(x)'
    BY <1>1 DEF TypeInv, TypeOK, FileInv, FreeName
  <1>7. FileFrame(p)
    BY <1>1, <1>2, <1>3, <1>6 DEF TypeInv, TypeOK, FileFrame, DocsMove, ChecksMove, NamesStay,
       FilesLost, Commits, Deletes
  <1>8. HoldsFile(p)'
    BY <1>4, <1>5, StoreAssumption DEF HoldsFile, CloneWindow
  <1> QED BY <1>7, <1>8, FileStep

LEMMA FileIdle ==
  ASSUME TypeInv, TxInv, FileInv, UNCHANGED <<doc, fname, file, check, torn, pc, loc>>
  PROVE  FileInv'
  <1>1. \A p \in Request : HoldsFile(p)'
    BY DEF FileInv, HoldsFile, CloneWindow, Sharers, Target
  <1>2. SerialClone'
    BY DEF FileInv, SerialClone, CloneWindow, Target
  <1>3. \A d \in Snap : BeingDeleted(d)' = BeingDeleted(d)
    BY DEF BeingDeleted, Target
  <1>4. DocumentsHeld'
    BY <1>3 DEF FileInv, DocumentsHeld
  <1> QED BY <1>1, <1>2, <1>4 DEF FileInv, FreeName

LEMMA FileNext == replicaSet /\ TypeInv /\ TxInv /\ FileInv /\ [Next /\ SerialClone']_vars => FileInv'
  <1> SUFFICES ASSUME replicaSet, TypeInv, TxInv, FileInv, [Next /\ SerialClone']_vars
               PROVE  FileInv'
    OBVIOUS
  <1> replicaSet' = replicaSet
    BY DEF Next, vars
  <1>1. CASE UNCHANGED vars
    BY <1>1, FileIdle DEF vars, docVars
  <1>2. ASSUME NEW p \in Request, CreateStep(p), SerialClone'  PROVE FileInv'
    BY <1>2, FileReads, FileAccess, FileClone, FileWriteFile, FileDiffWrite, FileSave,
       FileCommit, FileFail, FileCleanup DEF CreateStep
  <1>3. ASSUME NEW p \in Request, AcceptStep(p), SerialClone'  PROVE FileInv'
    BY <1>3, FileReads DEF AcceptStep
  <1>4. ASSUME NEW p \in Request, RemoveStep(p), SerialClone'  PROVE FileInv'
    BY <1>4, FileReads, FileFindOthers, FileUnlink, FileDelete DEF RemoveStep
  <1>5. ASSUME NEW p \in Request, Die(p), SerialClone'  PROVE FileInv'
    BY <1>5, FileFail
  <1>6. ASSUME NEW k \in Ident \X Snap, RemoveBaseline(k)  PROVE FileInv'
    BY <1>6, FileIdle DEF RemoveBaseline, docVars, reqVars
  <1> QED BY <1>1, <1>2, <1>3, <1>4, <1>5, <1>6 DEF Next

\* THEOREM.  With transactions, and as long as no file is cloned between a
\* remover's last reference query and its unlink, every visible document, a
\* clone as much as the one that wrote the file, has the file it names:
\* whatever uploads, acceptances, removals, failures and crashes interleave.
\* The other two conditions of the quiet environment play no part here.
THEOREM QuietFiles == Init /\ [][Next /\ SerialClone']_vars => []DocKeepsFile
  <1> DEFINE Inv == StoreInv /\ (replicaSet => FileInv)
  <1>1. Init => Inv
    BY StoreInit, FileInit
  <1>2. Inv /\ [Next /\ SerialClone']_vars => Inv'
    <2> SUFFICES ASSUME Inv, [Next /\ SerialClone']_vars  PROVE Inv'
      OBVIOUS
    <2>1. [Next]_vars /\ replicaSet' = replicaSet
      BY DEF Next, vars
    <2>2. StoreInv'
      BY <2>1, StoreNext
    <2>3. ASSUME replicaSet'  PROVE FileInv'
      BY <2>1, <2>3, FileNext DEF StoreInv
    <2> QED BY <2>2, <2>3
  <1>3. Inv => DocKeepsFile
    BY DEF FileInv, DocumentsHeld, DocKeepsFile
  <1> QED BY <1>1, <1>2, <1>3, PTL

-----------------------------------------------------------------------------
(* The quiet store is consistent, and it is an image library, in both kinds   *)
(* of deployment.  Life(s) is read off s's document and, on a replica set, off *)
(* its file; every step either lets images arrive and shows more, or shows     *)
(* less and lets images go that nothing shows.                                 *)

\* As long as nobody accepts a check that is being removed, no file is cloned
\* under its remover and no baseline row is deleted, whatever the UI follows
\* leads to a visible snapshot and, on a replica set, to its image.
THEOREM QuietStoreConsistent == QuietSpec => []StoreConsistent
  <1>1. [Next /\ Quiet]_vars => [Next /\ SerialReview' /\ KeepRows]_vars
    BY DEF Quiet
  <1>2. [Next /\ Quiet]_vars => [Next /\ SerialClone']_vars
    BY DEF Quiet
  <1> QED BY <1>1, <1>2, QuietReferences, QuietFiles, PTL DEF QuietSpec, StoreConsistent

LEMMA LifeIs ==
  ASSUME NEW s
  PROVE  /\ Life(s) = "kept" <=> doc[s] = "saved" /\ (replicaSet => fname[s] \in file)
         /\ Life(s) = "none" <=> ~Settled(s)
         /\ Life(s) \in {"none", "kept", "lost"}
  BY DEF Life, Settled

LEMMA LifeBecomes ==
  ASSUME NEW s
  PROVE  /\ Life(s)' = "kept" <=> doc'[s] = "saved" /\ (replicaSet' => fname'[s] \in file')
         /\ Life(s)' = "none" <=> ~Settled(s)'
         /\ Life(s)' \in {"none", "kept", "lost"}
  BY DEF Life, Settled

\* Images arrive, and what newly is shown has just become visible.
Grows ==
  /\ \A s \in Snap : Life(s)' = Life(s) \/ (Life(s) = "none" /\ Life(s)' = "kept")
  /\ Shown \subseteq Shown'
  /\ \A s \in Shown' \ Shown : replicaSet => doc[s] = "tx"

\* Less is shown and images go.
Shrinks ==
  /\ \A s \in Snap : Life(s)' = Life(s) \/ (Life(s) = "kept" /\ Life(s)' = "lost")
  /\ Shown' \subseteq Shown

\* No step changes a check that is gone.
GoneStay == \A c \in Snap : check[c].st = "gone" => check'[c] = check[c]

LibraryMove == (Grows \/ Shrinks) /\ GoneStay

\* A remover past its query for the document has found it.
Found(p) == pc[p] \in {"rOthers", "rUnlink", "rDelete"} => Settled(Target(p))

\* Nobody is led to an image whose remover died after unlinking its file.
TornUnshown == \A d \in torn : Settled(d) /\ d \notin Shown

LibraryInv ==
  /\ StoreInv /\ RefInv
  /\ \A p \in Request : Found(p)
  /\ replicaSet => FileInv /\ TornUnshown

\* Steps that change nothing of what is shown.
LEMMA ShownSame ==
  ASSUME row' = row,
         \A c \in Snap : check'[c].st = "live" <=> check[c].st = "live",
         \A c \in Snap : check[c].st = "live" =>
           check'[c].base = check[c].base /\ check'[c].diff = check[c].diff
  PROVE  Shown' = Shown
  BY DEF Shown

LEMMA LifeSame ==
  ASSUME UNCHANGED <<doc, fname, file, replicaSet>>
  PROVE  \A s \in Snap : Life(s)' = Life(s)
  BY DEF Life

LEMMA ReadMove ==
  ASSUME UNCHANGED <<doc, fname, file, replicaSet, row, check>>
  PROVE  LibraryMove
  BY LifeSame, ShownSame DEF LibraryMove, Grows, GoneStay

\* Steps of an upload that write documents and files nobody is led to.
LEMMA WriteMove ==
  ASSUME UNCHANGED <<replicaSet, row, check>>,
         \A s \in Snap : doc'[s] = doc[s] \/ (~Settled(s) /\ doc'[s] \in {"new", "void", Inserted}),
         \A s \in Snap : Settled(s) => fname'[s] = fname[s],
         replicaSet => \A s \in Snap : Settled(s) => (fname[s] \in file' <=> fname[s] \in file)
  PROVE  LibraryMove
  <1>1. Shown' = Shown
    BY ShownSame
  <1>2. ASSUME NEW s \in Snap
        PROVE  Life(s)' = Life(s) \/ (Life(s) = "none" /\ Life(s)' = "kept")
    <2>1. CASE Settled(s)
      <3>1. doc'[s] = doc[s] /\ fname'[s] = fname[s]
        BY <2>1
      <3>2. replicaSet => (fname'[s] \in file' <=> fname[s] \in file)
        BY <2>1, <3>1
      <3> QED BY <3>1, <3>2 DEF Life
    <2>2. CASE ~Settled(s)
      <3>1. Life(s) = "none"
        BY <2>2, LifeIs
      <3>2. CASE Settled(s)'
        <4>1. doc'[s] = "saved" /\ ~replicaSet'
          BY <2>2, <3>2 DEF Inserted, Settled
        <4> QED BY <3>1, <4>1, LifeBecomes
      <3>3. CASE ~Settled(s)'
        BY <3>1, <3>3, LifeBecomes
      <3> QED BY <3>2, <3>3
    <2> QED BY <2>1, <2>2
  <1> QED BY <1>1, <1>2 DEF LibraryMove, Grows, GoneStay

LEMMA CloneMove ==
  ASSUME TypeInv, LibraryInv, NEW p \in Request, Clone(p), replicaSet' = replicaSet
  PROVE  LibraryMove
  <1>1. PICK n \in Snap : /\ doc[n] = "free"
                          /\ doc' = [doc EXCEPT ![n] = Inserted]
                          /\ fname' = [fname EXCEPT ![n] = fname[loc[p].src]]
    BY DEF Clone
  <1>2. \A s \in Snap : doc'[s] = doc[s] \/ (~Settled(s) /\ doc'[s] = Inserted)
    BY <1>1 DEF TypeInv, TypeOK, Settled
  <1>3. \A s \in Snap : Settled(s) => fname'[s] = fname[s]
    BY <1>1 DEF TypeInv, TypeOK, Settled
  <1>4. UNCHANGED <<file, row, check>>
    BY DEF Clone
  <1> QED BY <1>2, <1>3, <1>4, WriteMove

\* A file is written under an id that no document of the store names yet.
LEMMA WriteFileMove ==
  ASSUME TypeInv, LibraryInv, NEW p \in Request, WriteFile(p) \/ DiffWrite(p),
         replicaSet' = replicaSet
  PROVE  LibraryMove
  <1>1. PICK n \in Snap : /\ doc[n] = "free"
                          /\ doc' = [doc EXCEPT ![n] = "new"]
                          /\ file' = file \cup {n}
    BY DEF WriteFile, DiffWrite
  <1>2. \A s \in Snap : doc'[s] = doc[s] \/ (~Settled(s) /\ doc'[s] = "new")
    BY <1>1 DEF TypeInv, TypeOK, Settled
  <1>3. ASSUME replicaSet, NEW s \in Snap, Settled(s)  PROVE fname[s] # n
    <2>1. CloneOf(s)
      BY <1>3 DEF LibraryInv, StoreInv, TxInv
    <2> QED BY <1>1, <1>3, <2>1 DEF CloneOf, Settled
  <1>4. replicaSet => \A s \in Snap : Settled(s) => (fname[s] \in file' <=> fname[s] \in file)
    BY <1>1, <1>3
  <1>5. UNCHANGED <<fname, row, check>>
    BY DEF WriteFile, DiffWrite
  <1> QED BY <1>2, <1>4, <1>5, WriteMove

LEMMA SaveMove ==
  ASSUME TypeInv, LibraryInv, NEW p \in Request, SaveDoc(p) \/ DiffSave(p),
         replicaSet' = replicaSet
  PROVE  LibraryMove
  <1>1. Ids(p)
    BY DEF LibraryInv, RefInv, RequestRefs
  <1>2. \E n \in Snap : doc[n] = "new" /\ doc' = [doc EXCEPT ![n] = Inserted]
    <2>1. CASE SaveDoc(p)
      BY <1>1, <2>1 DEF SaveDoc, Ids, TypeInv, ReqSet, Holding, CreateSteps
    <2>2. CASE DiffSave(p)
      BY <1>1, <2>2 DEF DiffSave, Ids
    <2> QED BY <2>1, <2>2
  <1>3. \A s \in Snap : doc'[s] = doc[s] \/ (~Settled(s) /\ doc'[s] = Inserted)
    BY <1>2 DEF TypeInv, TypeOK, Settled
  <1>4. UNCHANGED <<fname, file, row, check>>
    BY DEF SaveDoc, DiffSave
  <1> QED BY <1>3, <1>4, WriteMove

\* createCheckDocument: without transactions the check is visible at once.
LEMMA InsertMove ==
  ASSUME TypeInv, LibraryInv, NEW p \in Request, InsertCheck(p), replicaSet' = replicaSet
  PROVE  LibraryMove
  <1>1. /\ loc[p].cur \in Snap /\ check[loc[p].cur].st = "none"
        /\ check' = [check EXCEPT ![loc[p].cur] =
                       [st |-> IF replicaSet THEN "tx" ELSE "live", ident |-> loc[p].ident,
                        base |-> loc[p].base, diff |-> loc[p].diff]]
    BY DEF InsertCheck, TypeInv, ReqSet, Holding, Uninserted, CreateSteps
  <1>2. UNCHANGED <<doc, fname, file, row>>
    BY DEF InsertCheck, docVars
  <1>3. \A c \in Snap \ {loc[p].cur} : check'[c] = check[c]
    BY <1>1 DEF TypeInv, TypeOK
  <1>4. GoneStay
    BY <1>1, <1>3 DEF GoneStay
  <1>5. Shown \subseteq Shown'
    BY <1>1, <1>2, <1>3 DEF Shown
  <1>6. replicaSet => Shown' = Shown
    <2> SUFFICES ASSUME replicaSet  PROVE Shown' = Shown
      OBVIOUS
    <2>1. check'[loc[p].cur].st = "tx"
      BY <1>1 DEF TypeInv, TypeOK
    <2> QED BY <1>1, <1>2, <1>3, <2>1, ShownSame
  <1> QED BY <1>2, <1>4, <1>5, <1>6, LifeSame DEF LibraryMove, Grows

\* The commit makes the documents and the check of an upload visible together,
\* and the files of the documents are there.
LEMMA CommitMove ==
  ASSUME TypeInv, LibraryInv, NEW p \in Request, Commit(p), replicaSet' = replicaSet
  PROVE  LibraryMove
  <1>1. /\ loc[p].cur \in Snap /\ loc[p].cur \in OwnIds(p)
        /\ \A s \in Snap : doc'[s] = IF s \in OwnIds(p) /\ doc[s] = "tx" THEN "saved" ELSE doc[s]
    BY StoreAssumption
    DEF Commit, OwnIds, TypeInv, ReqSet, Holding, CreateSteps
  <1>2. UNCHANGED <<fname, file, row>>
    BY DEF Commit
  <1>3. \A c \in Snap :
          /\ check[c].st # "tx" => check'[c] = check[c]
          /\ c # loc[p].cur => check'[c] = check[c]
          /\ check'[c].base = check[c].base /\ check'[c].diff = check[c].diff
    BY <1>1 DEF Commit, TypeInv, TypeOK, CheckRec
  <1>4. ASSUME NEW s \in Snap, replicaSet, doc'[s] = "saved", doc[s] # "saved"
        PROVE  fname[s] \in file
    <2>1. s \in OwnIds(p) /\ doc[s] = "tx" /\ HoldsFile(p) /\ UnsavedHasFile(s)
      BY <1>1, <1>4 DEF LibraryInv, StoreInv, TxInv, FileInv
    <2>2. CASE s = loc[p].cur
      BY <2>1, <2>2 DEF HoldsFile, CloneWindow, TypeInv, TypeOK
    <2>3. CASE s = loc[p].diff
      BY <2>1, <2>3, StoreAssumption DEF HoldsFile, UnsavedHasFile
    <2> QED BY <2>1, <2>2, <2>3 DEF OwnIds
  <1>5. ASSUME NEW s \in Snap
        PROVE  Life(s)' = Life(s) \/ (Life(s) = "none" /\ Life(s)' = "kept")
    <2>1. CASE doc'[s] = doc[s]
      BY <1>2, <2>1 DEF Life
    <2>2. CASE doc'[s] # doc[s]
      <3>1. doc[s] = "tx" /\ doc'[s] = "saved"
        BY <1>1, <2>2
      <3>2. Life(s) = "none"
        BY <3>1, LifeIs DEF Settled
      <3>3. Life(s)' = "kept"
        BY <1>2, <1>4, <3>1, LifeBecomes
      <3> QED BY <3>2, <3>3
    <2> QED BY <2>1, <2>2
  <1>6. Shown \subseteq Shown'
    BY <1>2, <1>3 DEF Shown
  <1>7. ASSUME NEW s \in Shown' \ Shown, replicaSet  PROVE doc[s] = "tx"
    <2>1. s \in Snap /\ ~HasRow(s)
      BY <1>2 DEF Shown, HasRow
    <2>2. PICK c \in Snap : check'[c].st = "live" /\ s \in {c, check'[c].base, check'[c].diff}
      BY <1>2, <1>7, <2>1 DEF Shown, HasRow
    <2>3. check[c].st # "live"
      BY <1>3, <1>7, <2>2 DEF Shown
    <2>4. c = loc[p].cur
      BY <1>3, <2>2, <2>3
    <2>5. /\ doc[c] = "tx"
          /\ loc[p].diff # None => doc[loc[p].diff] = "tx"
          /\ check[c].base = loc[p].base /\ check[c].diff = loc[p].diff
          /\ loc[p].base = c \/ HasRow(loc[p].base)
      <3>1. pc[p] = "finish" /\ replicaSet /\ Ids(p) /\ BaseOf(p)
        BY <1>7 DEF Commit, LibraryInv, RefInv, RequestRefs
      <3>2. check[c] = [st |-> "tx", ident |-> loc[p].ident,
                        base |-> loc[p].base, diff |-> loc[p].diff]
        BY <2>4, <3>1 DEF Ids
      <3> QED BY <2>4, <3>1, <3>2 DEF Ids, BaseOf, WithBase
    <2> QED BY <1>3, <2>1, <2>2, <2>5, StoreAssumption
  <1>8. GoneStay
    BY <1>3 DEF GoneStay
  <1> QED BY <1>5, <1>6, <1>7, <1>8 DEF LibraryMove, Grows

\* Nobody was led to what is rolled back.
LEMMA RollBackMove ==
  ASSUME TypeInv, LibraryInv, NEW p \in Request, Fail(p) \/ Die(p), replicaSet' = replicaSet
  PROVE  LibraryMove
  <1>1. RollBackDocs(p) /\ UNCHANGED <<fname, file, row>>
    BY DEF Fail, Die
  <1>2. \A s \in Snap : doc'[s] = doc[s] \/ (~Settled(s) /\ doc'[s] = "void")
    BY <1>1 DEF RollBackDocs, Settled
  <1>3. \A s \in Snap : Life(s)' = Life(s)
    <2> SUFFICES ASSUME NEW s \in Snap  PROVE Life(s)' = Life(s)
      OBVIOUS
    <2>1. CASE doc'[s] = doc[s]
      BY <1>1, <2>1 DEF Life
    <2>2. CASE ~Settled(s) /\ doc'[s] = "void"
      BY <2>2, LifeIs, LifeBecomes DEF Settled
    <2> QED BY <1>2, <2>1, <2>2
  <1>4. \A c \in Snap : check'[c] = check[c] \/ (check[c].st = "tx" /\ check'[c].st = "none")
    BY <1>1 DEF RollBackDocs, NoCheck
  <1>5. Shown' = Shown
    BY <1>1, <1>4, ShownSame
  <1> QED BY <1>3, <1>4, <1>5 DEF LibraryMove, Grows, GoneStay

\* On a replica set the files that are cleaned up are private.
LEMMA CleanupMove ==
  ASSUME TypeInv, LibraryInv, NEW p \in Request, Cleanup(p), replicaSet' = replicaSet
  PROVE  LibraryMove
  <1>1. UNCHANGED <<doc, fname, row, check>> /\ file' = file \ CleanupFiles(p) /\ pc[p] = "cleanup"
    BY DEF Cleanup, docVars
  <1>2. replicaSet => \A s \in Snap : doc[s] = "saved" => fname[s] \notin CleanupFiles(p)
    BY <1>1, TxInvPrivate DEF LibraryInv, StoreInv, CleanupIsPrivate
  <1>3. \A s \in Snap : Life(s)' = Life(s)
    BY <1>1, <1>2 DEF Life
  <1> QED BY <1>1, <1>3, ShownSame DEF LibraryMove, Grows, GoneStay

LEMMA AcceptUpsertMove ==
  ASSUME TypeInv, LibraryInv, NEW p \in Request, AcceptUpsert(p), replicaSet' = replicaSet
  PROVE  LibraryMove
  <1>1. UNCHANGED <<doc, fname, file, check>>
    BY DEF AcceptUpsert, docVars
  <1>2. loc[p].chk \in Snap /\ check[loc[p].chk].st = "live"
    BY DEF AcceptUpsert, AcceptSteps, LibraryInv, RefInv, RequestRefs, Acceptor, TypeInv, ReqSet
  <1>3. \A k \in Ident \X Snap : /\ row[k] > 0 => row'[k] > 0
                                 /\ row'[k] > 0 => row[k] > 0 \/ k[2] = loc[p].chk
    <2> DEFINE j == <<check[loc[p].chk].ident, loc[p].chk>>
    <2>1. row \in [Ident \X Snap -> Nat] /\ clock \in Nat
      BY DEF TypeInv, TypeOK
    <2>2. row' = row \/ row' = [row EXCEPT ![j] = clock + 1]
      BY DEF AcceptUpsert
    <2> QED BY <2>1, <2>2
  <1>4. Shown' = Shown
    <2>1. \A s \in Snap, i \in Ident : <<i, s>> \in Ident \X Snap /\ <<i, s>>[2] = s
      OBVIOUS
    <2>2. \A s \in Snap, i \in Ident : /\ row[<<i, s>>] > 0 => row'[<<i, s>>] > 0
                                       /\ row'[<<i, s>>] > 0 => row[<<i, s>>] > 0 \/ s = loc[p].chk
      BY <1>3, <2>1
    <2> QED BY <1>1, <1>2, <2>2 DEF Shown
  <1> QED BY <1>1, <1>4, LifeSame DEF LibraryMove, Grows, GoneStay

LEMMA AcceptSaveMove ==
  ASSUME TypeInv, LibraryInv, NEW p \in Request, AcceptSave(p), replicaSet' = replicaSet
  PROVE  LibraryMove
  <1>1. UNCHANGED <<doc, fname, file, row>>
    BY DEF AcceptSave, docVars
  <1>2. \A c \in Snap : \/ check'[c] = check[c]
                        \/ /\ check[c].st = "live" /\ check'[c].st = "live"
                           /\ check'[c].base = c /\ check'[c].diff = check[c].diff
    <2>1. /\ check \in [Snap -> CheckRec] /\ loc[p].chk \in Snap
      BY DEF AcceptSave, AcceptSteps, TypeInv, TypeOK, ReqSet
    <2>2. check' = [check EXCEPT ![loc[p].chk].base =
                      IF check[loc[p].chk].st = "live" /\ loc[p].link THEN loc[p].chk ELSE @]
      BY DEF AcceptSave
    <2> QED BY <2>1, <2>2 DEF CheckRec
  <1>3. Shown' \subseteq Shown
    BY <1>1, <1>2 DEF Shown
  <1>4. GoneStay
    BY <1>2 DEF GoneStay
  <1> QED BY <1>1, <1>3, <1>4, LifeSame DEF LibraryMove, Shrinks

LEMMA RemoveStartMove ==
  ASSUME TypeInv, LibraryInv, NEW p \in Request, RemoveStart(p), replicaSet' = replicaSet
  PROVE  LibraryMove
  <1>1. UNCHANGED <<doc, fname, file, row>>
    BY DEF RemoveStart, docVars
  <1>2. \A c \in Snap : check'[c] = check[c] \/ (check[c].st = "live" /\ check'[c].st = "gone")
    BY DEF RemoveStart, TypeInv, TypeOK, CheckRec
  <1>3. Shown' \subseteq Shown
    BY <1>1, <1>2 DEF Shown
  <1>4. GoneStay
    BY <1>2 DEF GoneStay
  <1> QED BY <1>1, <1>3, <1>4, LifeSame DEF LibraryMove, Shrinks

\* An unlink takes images, it brings none.
LEMMA UnlinkMove ==
  ASSUME TypeInv, LibraryInv, NEW p \in Request, RemoveUnlink(p), replicaSet' = replicaSet
  PROVE  LibraryMove
  <1>1. /\ UNCHANGED <<doc, fname, row, check>> /\ pc[p] = "rUnlink"
        /\ file' = file \ {fname[Target(p)]}
    BY DEF RemoveUnlink, docVars
  <1>2. ASSUME NEW s \in Snap
        PROVE  Life(s)' = Life(s) \/ (Life(s) = "kept" /\ Life(s)' = "lost")
    <2>1. CASE Life(s) = "kept"
      <3>1. Life(s)' # "none"
        BY <1>1, <2>1, LifeIs, LifeBecomes DEF Settled
      <3> QED BY <2>1, <3>1, LifeBecomes
    <2>2. CASE Life(s) # "kept"
      BY <1>1, <2>2 DEF Life
    <2> QED BY <2>1, <2>2
  <1> QED BY <1>1, <1>2, ShownSame DEF LibraryMove, Shrinks, GoneStay

LEMMA DeleteMove ==
  ASSUME TypeInv, LibraryInv, NEW p \in Request, RemoveDelete(p), replicaSet' = replicaSet
  PROVE  LibraryMove
  <1>1. /\ UNCHANGED <<fname, file, row, check>> /\ pc[p] = "rDelete"
        /\ doc' = [doc EXCEPT ![Target(p)] = "gone"]
    BY DEF RemoveDelete
  <1>2. Target(p) \in Snap /\ Settled(Target(p))
    BY <1>1, RemovedImage DEF LibraryInv, Found, RemoveSteps
  <1>3. doc' \in [Snap -> DocState] /\ doc'[Target(p)] = "gone"
        /\ \A s \in Snap \ {Target(p)} : doc'[s] = doc[s]
    BY <1>1, <1>2 DEF TypeInv, TypeOK, DocState
  <1>4. ASSUME NEW s \in Snap
        PROVE  Life(s)' = Life(s) \/ (Life(s) = "kept" /\ Life(s)' = "lost")
    <2>1. CASE s = Target(p)
      BY <1>2, <1>3, <2>1, LifeIs, LifeBecomes DEF Settled
    <2>2. CASE s # Target(p)
      BY <1>1, <1>3, <2>2 DEF Life
    <2> QED BY <2>1, <2>2
  <1> QED BY <1>1, <1>4, ShownSame DEF LibraryMove, Shrinks, GoneStay

\* Every step of a request is of this kind.
LEMMA RequestMove ==
  ASSUME TypeInv, LibraryInv, NEW p \in Request, replicaSet' = replicaSet,
         CreateStep(p) \/ AcceptStep(p) \/ RemoveStep(p) \/ Die(p)
  PROVE  LibraryMove
  <1>1. CASE \/ Lookup(p) \/ Access(p) \/ FindBaseline(p) \/ Inspect(p) \/ Compare(p)
             \/ AcceptStart(p)
             \/ RemoveCheckBaseline(p) \/ RemoveFindDoc(p) \/ RemoveFindOthers(p)
    <2>1. UNCHANGED <<doc, fname, file, row, check>>
      BY <1>1 DEF Lookup, Access, FindBaseline, Inspect, Compare, AcceptStart,
         RemoveCheckBaseline, RemoveFindDoc, RemoveFindOthers, docVars
    <2> QED BY <2>1, ReadMove
  <1>2. CASE CreateStep(p)
    BY <1>1, <1>2, CloneMove, WriteFileMove, SaveMove, InsertMove, CommitMove, RollBackMove,
       CleanupMove DEF CreateStep
  <1>3. CASE AcceptStep(p)
    BY <1>1, <1>3, AcceptUpsertMove, AcceptSaveMove DEF AcceptStep
  <1>4. CASE RemoveStep(p)
    BY <1>1, <1>4, RemoveStartMove, UnlinkMove, DeleteMove DEF RemoveStep
  <1> QED BY <1>2, <1>3, <1>4, RollBackMove

-----------------------------------------------------------------------------
(* The invariant behind the mapping *)

LEMMA LibraryInit == Init => LibraryInv
  <1> SUFFICES ASSUME Init  PROVE LibraryInv
    OBVIOUS
  <1>1. \A p \in Request : Found(p)
    BY DEF Init, Found
  <1>2. TornUnshown
    BY DEF Init, TornUnshown
  <1> QED BY <1>1, <1>2, StoreInit, RefInit, FileInit DEF LibraryInv

\* A document that was decided stays so.
LEMMA MoveSettled ==
  ASSUME LibraryMove, NEW s \in Snap, Settled(s)
  PROVE  Settled(s)'
  BY LifeIs, LifeBecomes DEF LibraryMove, Grows, Shrinks

LEMMA OthersFound ==
  ASSUME TypeInv, LibraryInv, LibraryMove, NEW p \in Request, OthersStay(p),
         NEW q \in Request \ {p}
  PROVE  Found(q)'
  <1> SUFFICES ASSUME pc[q] \in {"rOthers", "rUnlink", "rDelete"}  PROVE Settled(Target(q))'
    BY DEF Found, OthersStay
  <1>1. /\ Target(q) \in Snap /\ Settled(Target(q))
        /\ loc[q].chk \in Snap /\ check[loc[q].chk].st = "gone"
    BY RemovedImage DEF LibraryInv, Found, RemoveSteps
  <1>2. Target(q)' = Target(q)
    BY <1>1 DEF LibraryMove, GoneStay, OthersStay, Target
  <1> QED BY <1>1, <1>2, MoveSettled

LEMMA OwnFound ==
  ASSUME TypeInv, LibraryInv, LibraryMove, NEW p \in Request,
         CreateStep(p) \/ AcceptStep(p) \/ RemoveStep(p) \/ Die(p)
  PROVE  OthersStay(p) /\ Found(p)'
  <1>1. pc \in [Request -> Steps] /\ loc \in [Request -> Locals]
    BY DEF TypeInv, TypeOK
  <1>2. CASE CreateStep(p)
    BY <1>1, <1>2
    DEF CreateStep, Lookup, Access, Clone, WriteFile, SaveDoc, FindBaseline, Inspect, Compare,
        DiffWrite, DiffSave, InsertCheck, Commit, Fail, Cleanup, Goto, Finish, OthersStay, Found
  <1>3. CASE AcceptStep(p) \/ Die(p)
    BY <1>1, <1>3 DEF AcceptStep, AcceptStart, AcceptUpsert, AcceptSave, Die, Goto, Finish,
        OthersStay, Found
  <1>4. CASE RemoveStart(p)
    BY <1>1, <1>4 DEF RemoveStart, Goto, OthersStay, Found
  <1>5. CASE NextTarget(p)
    BY <1>1, <1>5 DEF NextTarget, Goto, Finish, OthersStay, Found
  <1>6. ASSUME Goto(p, "rDoc"), UNCHANGED loc  PROVE OthersStay(p) /\ Found(p)'
    BY <1>1, <1>6 DEF Goto, OthersStay, Found
  <1>7. ASSUME UNCHANGED <<doc, check>>, Target(p) \in Snap, Settled(Target(p)), NEW to,
               Goto(p, to), NEW l, loc' = loc \/ loc' = [loc EXCEPT ![p].last = l]
        PROVE  OthersStay(p) /\ Found(p)'
    <2>1. OthersStay(p)
      BY <1>1, <1>7 DEF Goto, OthersStay
    <2>2. loc'[p].chk = loc[p].chk /\ loc'[p].stage = loc[p].stage
      BY <1>1, <1>7 DEF Locals
    <2>3. Target(p)' = Target(p)
      BY <1>7, <2>2 DEF Target
    <2> QED BY <1>7, <2>1, <2>3 DEF Found, Settled
  <1>8. ASSUME pc[p] \in {"rDoc", "rOthers", "rUnlink", "rDelete"}
        PROVE  Target(p) \in Snap /\ (pc[p] # "rDoc" => Settled(Target(p)))
    BY <1>8, RemovedImage DEF LibraryInv, Found, RemoveSteps
  <1>9. CASE RemoveCheckBaseline(p)
    BY <1>5, <1>6, <1>9 DEF RemoveCheckBaseline
  <1>10. CASE RemoveFindDoc(p)
    <2>1. CASE doc[Target(p)] = "saved" /\ Goto(p, "rOthers") /\ UNCHANGED loc
      BY <1>7, <1>8, <1>10, <2>1 DEF RemoveFindDoc, docVars, Settled
    <2> QED BY <1>5, <1>10, <2>1 DEF RemoveFindDoc
  <1>11. CASE RemoveFindOthers(p)
    <2> DEFINE last == Sharers(Target(p)) = {}
    <2>1. /\ loc' = [loc EXCEPT ![p].last = last]
          /\ Goto(p, IF last THEN "rUnlink" ELSE "rDelete")
          /\ pc[p] = "rOthers" /\ UNCHANGED <<doc, check>>
      BY <1>11 DEF RemoveFindOthers, docVars
    <2> HIDE DEF last
    <2> QED BY <1>7, <1>8, <2>1
  <1>12. CASE RemoveUnlink(p)
    BY <1>7, <1>8, <1>12 DEF RemoveUnlink, docVars
  <1>13. CASE RemoveDelete(p)
    BY <1>5, <1>13 DEF RemoveDelete
  <1> QED BY <1>2, <1>3, <1>4, <1>9, <1>10, <1>11, <1>12, <1>13 DEF RemoveStep

\* A remover's target is not shown.
LEMMA TargetUnshown ==
  ASSUME TypeInv, RefInv, NEW p \in Request, pc[p] \in RemoveSteps \ {"rBaseline"}
  PROVE  Target(p) \in Snap /\ Target(p) \notin Shown
  <1>1. Target(p) \in Snap /\ ~HasRow(Target(p))
    BY RemovedImage
  <1>2. \A c \in Snap : check[c].st = "live" =>
          Target(p) \notin {c, check[c].base, check[c].diff}
    BY RemovedUnused
  <1> QED BY <1>1, <1>2 DEF Shown, HasRow

LEMMA TornMoves ==
  ASSUME TypeInv, NEW p \in Request, CreateStep(p) \/ AcceptStep(p) \/ RemoveStep(p) \/ Die(p)
  PROVE  \/ torn' = torn
         \/ pc[p] = "rDelete" /\ torn' = torn \cup {Target(p)} /\ Die(p)
  <1>1. CASE CreateStep(p)
    BY <1>1
    DEF CreateStep, Lookup, Access, Clone, WriteFile, SaveDoc, FindBaseline, Inspect, Compare,
        DiffWrite, DiffSave, InsertCheck, Commit, Fail, Cleanup
  <1>2. CASE AcceptStep(p)
    BY <1>2 DEF AcceptStep, AcceptStart, AcceptUpsert, AcceptSave
  <1>3. CASE RemoveStep(p)
    BY <1>3 DEF RemoveStep, RemoveStart, RemoveCheckBaseline, RemoveFindDoc, RemoveFindOthers,
       RemoveUnlink, RemoveDelete
  <1>4. CASE Die(p)
    BY <1>4 DEF Die
  <1> QED BY <1>1, <1>2, <1>3, <1>4

LEMMA TornStays ==
  ASSUME TypeInv, LibraryInv, LibraryMove, TornUnshown, NEW p \in Request, replicaSet,
         replicaSet' = replicaSet,
         CreateStep(p) \/ AcceptStep(p) \/ RemoveStep(p) \/ Die(p)
  PROVE  TornUnshown'
  <1>1. torn \subseteq Snap
    BY DEF TypeInv, TypeOK
  <1>2. ASSUME NEW d \in torn'  PROVE d \in Snap /\ Settled(d) /\ d \notin Shown
    <2>1. CASE d \in torn
      BY <1>1, <2>1 DEF TornUnshown
    <2>2. CASE d \notin torn
      <3>1. pc[p] = "rDelete" /\ d = Target(p)
        BY <2>2, TornMoves
      <3> QED BY <3>1, TargetUnshown DEF LibraryInv, Found, RemoveSteps
    <2> QED BY <2>1, <2>2
  <1>3. ASSUME NEW d \in torn'  PROVE Settled(d)' /\ d \notin Shown'
    <2>1. Settled(d)'
      BY <1>2, MoveSettled
    <2>2. d \notin Shown'
      BY <1>2 DEF LibraryMove, Grows, Shrinks, Settled
    <2> QED BY <2>1, <2>2
  <1> QED BY <1>3 DEF TornUnshown

LEMMA LibraryMoves ==
  ASSUME LibraryInv, [Next /\ Quiet]_vars
  PROVE  LibraryMove
  <1>1. TypeInv /\ replicaSet' = replicaSet
    BY DEF LibraryInv, StoreInv, Next, vars
  <1>2. CASE UNCHANGED vars
    BY <1>2, ReadMove DEF vars
  <1>3. ASSUME NEW k \in Ident \X Snap, RemoveBaseline(k), KeepRows  PROVE FALSE
    <2>1. row[k] > 0 /\ row' = [row EXCEPT ![k] = 0] /\ row \in [Ident \X Snap -> Nat]
      BY <1>1, <1>3 DEF RemoveBaseline, TypeInv, TypeOK
    <2> QED BY <1>3, <2>1 DEF KeepRows
  <1> QED BY <1>1, <1>2, <1>3, RequestMove DEF Next, Quiet

LEMMA LibraryInvNext == LibraryInv /\ [Next /\ Quiet]_vars => LibraryInv'
  <1> SUFFICES ASSUME LibraryInv, [Next /\ Quiet]_vars  PROVE LibraryInv'
    OBVIOUS
  <1>1. TypeInv /\ replicaSet' = replicaSet /\ [Next]_vars /\ LibraryMove
    BY LibraryMoves DEF LibraryInv, StoreInv, Next, vars
  <1>2. StoreInv'
    BY <1>1, StoreNext DEF LibraryInv
  <1>3. RefInv'
    BY <1>1, RefNext DEF LibraryInv, Quiet
  <1>4. ASSUME replicaSet'  PROVE FileInv'
    BY <1>1, <1>4, FileNext DEF LibraryInv, StoreInv, Quiet
  <1>5. CASE UNCHANGED vars
    <2>1. Shown' = Shown
      BY <1>5, ShownSame DEF vars
    <2>2. \A p \in Request : Found(p)'
      BY <1>5 DEF LibraryInv, Found, Target, Settled, vars
    <2>3. TornUnshown' <=> TornUnshown
      BY <1>5, <2>1 DEF TornUnshown, Settled, vars
    <2> QED BY <1>1, <1>2, <1>3, <1>4, <2>2, <2>3 DEF LibraryInv
  <1>6. ASSUME NEW p \in Request, CreateStep(p) \/ AcceptStep(p) \/ RemoveStep(p) \/ Die(p)
        PROVE  LibraryInv'
    <2>1. \A q \in Request : Found(q)'
      BY <1>1, <1>6, OwnFound, OthersFound
    <2>2. ASSUME replicaSet'  PROVE TornUnshown'
      BY <1>1, <1>6, <2>2, TornStays DEF LibraryInv
    <2> QED BY <1>2, <1>3, <1>4, <2>1, <2>2 DEF LibraryInv
  <1>7. ASSUME NEW k \in Ident \X Snap, RemoveBaseline(k), KeepRows  PROVE FALSE
    <2>1. row[k] > 0 /\ row' = [row EXCEPT ![k] = 0] /\ row \in [Ident \X Snap -> Nat]
      BY <1>1, <1>7 DEF RemoveBaseline, TypeInv, TypeOK
    <2> QED BY <1>7, <2>1 DEF KeepRows
  <1> QED BY <1>5, <1>6, <1>7 DEF Next, Quiet

\* What is shown can be seen.
ShownSeen == \A s \in Shown : s \in Snap /\ Life(s) = "kept"

LEMMA ShownKept == LibraryInv => ShownSeen
  <1> SUFFICES ASSUME LibraryInv, NEW s \in Shown  PROVE s \in Snap /\ Life(s) = "kept"
    BY DEF ShownSeen
  <1>1. TypeInv /\ RefInv /\ s \in Snap
    BY DEF LibraryInv, StoreInv, Shown
  <1>2. doc[s] = "saved"
    <2>1. CASE HasRow(s)
      BY <1>1, <2>1, RowVisible
    <2>2. CASE ~HasRow(s)
      <3>1. PICK c \in Snap : check[c].st = "live" /\ s \in {c, check[c].base, check[c].diff}
        BY <2>2 DEF Shown, HasRow
      <3> QED BY <1>1, <3>1, StoreAssumption DEF RefInv, LiveCheckResolves
    <2> QED BY <2>1, <2>2
  <1>3. ~BeingDeleted(s)
    BY <1>1, TargetUnshown DEF BeingDeleted, RemoveSteps
  <1>4. replicaSet => fname[s] \in file
    BY <1>1, <1>2, <1>3 DEF LibraryInv, FileInv, DocumentsHeld, TornUnshown
  <1> QED BY <1>1, <1>2, <1>4, LifeIs

-----------------------------------------------------------------------------
(* The steps of the library *)

LEMMA Publishes ==
  ASSUME \A s \in Snap : Life(s)' = Life(s) \/ (Life(s) = "none" /\ Life(s)' = "kept"),
         Shown \subseteq Shown', ShownSeen'
  PROVE  Library!Publish
  BY DEF Library!Publish, ShownSeen

LEMMA Withdraws ==
  ASSUME \A s \in Snap : Life(s)' = Life(s) \/ (Life(s) = "kept" /\ Life(s)' = "lost"),
         Shown' \subseteq Shown, ShownSeen'
  PROVE  Library!Withdraw
  BY DEF Library!Withdraw, ShownSeen

LEMMA LibraryStarts == Init => Library!LibraryInit
  <1> SUFFICES ASSUME Init  PROVE Library!LibraryInit
    OBVIOUS
  <1>1. \A s \in Snap : Life(s) = "none"
    BY LifeIs DEF Init, Settled
  <1>2. ASSUME NEW s \in Shown  PROVE FALSE
    <2>1. s \in Snap
      BY DEF Shown
    <2>2. \A i \in Ident : row[<<i, s>>] = 0
      BY <2>1 DEF Init
    <2>3. \A c \in Snap : check[c].st = "none"
      BY DEF Init, NoCheck
    <2>4. \A i \in Ident : ~(row[<<i, s>>] > 0)
      BY <2>2
    <2> QED BY <2>3, <2>4 DEF Shown
  <1> QED BY <1>1, <1>2 DEF Library!LibraryInit

\* In the quiet environment, on a replica set or a standalone database, the
\* store is an image library: whatever uploads, acceptances, removals, failures
\* and crashes interleave, it shows images that can be seen, an image goes only
\* when no baseline row and no visible check leads to it, and none comes back.
THEOREM StoreIsALibrary == QuietSpec => ImplementsLibrary
  <1>1. Init => LibraryInv /\ Library!LibraryInit
    BY LibraryInit, LibraryStarts
  <1>2. LibraryInv /\ [Next /\ Quiet]_vars => LibraryInv'
    BY LibraryInvNext
  <1>3. LibraryInv => ShownSeen
    BY ShownKept
  <1>4. LibraryInv /\ ShownSeen' /\ [Next /\ Quiet]_vars
          => [Library!LibraryNext]_(Library!library)
    BY LibraryMoves, Publishes, Withdraws
    DEF LibraryMove, Grows, Shrinks, Library!LibraryNext
  <1> QED BY <1>1, <1>2, <1>3, <1>4, PTL
          DEF QuietSpec, ImplementsLibrary, Library!LibrarySpec

\* What the library promises: what is shown can be seen, and nothing is both
\* kept and lost, so what has gone stays away.
THEOREM LibraryPromise == Library!LibrarySpec => []Library!LibraryTypeOK
  <1>1. Library!LibraryInit => Library!LibraryTypeOK
    BY DEF Library!LibraryInit, Library!LibraryTypeOK
  <1>2. Library!LibraryTypeOK /\ [Library!LibraryNext]_(Library!library)
          => Library!LibraryTypeOK'
    BY DEF Library!LibraryTypeOK, Library!LibraryNext, Library!Publish,
           Library!Withdraw, Library!library
  <1> QED BY <1>1, <1>2, PTL DEF Library!LibrarySpec
=============================================================================
