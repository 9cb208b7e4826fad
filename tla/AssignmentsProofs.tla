-------------------------- MODULE AssignmentsProofs --------------------------
(***************************************************************************)
(* Proofs about Assignments and BikeHandover, for every number of requests, *)
(* bikes and riders: the transactions implement the one-step hand-over, a  *)
(* bike has one rider, and a rider has one bike unless two assignments of  *)
(* that rider overlapped.                                                  *)
(***************************************************************************)
EXTENDS Assignments, TLAPS

TxType == [pc : {"idle", "read", "lock", "commit", "delete", "disable"},
           op : {"assign", "hire", "personal", "dismiss", "none"},
           bike : Bikes \cup {None}, rider : Riders \cup {None},
           todo : SUBSET Rows, off : SUBSET Rows, alone : BOOLEAN]
Requests == {"assign", "hire", "personal"}
Between(h) == tx[h].pc \in {"lock", "commit"} /\ tx[h].op \in Requests

\* What one request relies on: the rows it locked are still there, its insert
\* has passed the index and the foreign keys for good, and while it is alone
\* it has seen every row of its rider.
TxOK(h) ==
    /\ tx[h].pc = "idle" => tx[h].op = "none"
    /\ tx[h].pc # "idle" => /\ tx[h].rider \in Riders
                            /\ \/ tx[h].op \in Requests /\ tx[h].bike \in Bikes
                               \/ tx[h].op = "dismiss" /\ tx[h].bike = None
    /\ tx[h].pc # "lock" => tx[h].todo = {}
    /\ tx[h].pc \notin {"lock", "commit"} => tx[h].off = {}
    /\ tx[h].pc = "commit" => tx[h].op # "dismiss"
    /\ \A row \in tx[h].todo \cup tx[h].off :
           row \in active /\ (row[1] = tx[h].bike \/ row[2] = tx[h].rider)
    /\ tx[h].op = "hire" => account[tx[h].rider] = "new"
    /\ tx[h].op = "personal" => bike[tx[h].bike] = "new"
    /\ tx[h].pc = "commit" => IndexFree(h) /\ RefersToRows(h)
    /\ Between(h) /\ tx[h].alone =>
           \A row \in active : row[2] = tx[h].rider => row \in tx[h].todo \cup tx[h].off

\* What keeps two requests apart: row locks, index entries, new ids, and the
\* mark of an overlap.
Apart(g, h) ==
    /\ tx[g].off \cap tx[h].off = {}
    /\ tx[g].pc = "commit" /\ tx[h].pc = "commit" => tx[g].bike # tx[h].bike
    /\ tx[g].op = "hire" /\ tx[h].op = "hire" => tx[g].rider # tx[h].rider
    /\ tx[g].op = "personal" /\ tx[h].op = "personal" => tx[g].bike # tx[h].bike
    /\ Between(g) /\ Between(h) /\ tx[g].rider = tx[h].rider => tx[g].alone = FALSE

RowsLive == \A row \in active : Here(row[1]) /\ Live(row[2])

\* The inductive invariant.
Inv ==
    /\ TypeOK
    /\ \A h \in Handlers : TxOK(h)
    /\ \A g, h \in Handlers : g # h => Apart(g, h)
    /\ RowsLive
    /\ OneBikePerRider

-----------------------------------------------------------------------------
(* The abstract specification keeps its ledger. *)

\* BikeHandover keeps one rider per bike, of existing bikes and accounts.
THEOREM HandoverLedger == Handover!Spec => []Handover!Ledger
<1>1. Handover!Init => Handover!Ledger
  BY DEF Handover!Init, Handover!Ledger
<1>2. Handover!Ledger /\ [Handover!Next]_Handover!vars => Handover!Ledger'
  BY DEF Handover!Ledger, Handover!Next, Handover!vars, Handover!Give, Handover!TakeBack,
         Handover!Join, Handover!Leave, Handover!Buy, Handover!Scrap, Handover!Of
<1>3. QED
  BY <1>1, <1>2, PTL DEF Handover!Spec

-----------------------------------------------------------------------------
(* The steps of a request. *)

\* A request begins.
LEMMA OpenInv ==
  ASSUME Inv, NEW h \in Handlers, NEW op \in Requests \cup {"dismiss"},
         NEW b \in Bikes \cup {None}, NEW r \in Riders,
         Open(h, op, b, r),
         op \in Requests => b \in Bikes,
         op = "dismiss" => b = None,
         op = "hire" => account[r] = "new" /\ Unclaimed(None, r),
         op = "personal" => bike[b] = "new" /\ Unclaimed(b, None)
  PROVE  Inv'
<1> DEFINE new == [Quiet EXCEPT !.pc = "read", !.op = op, !.bike = b, !.rider = r]
<1>1. /\ new.pc = "read" /\ new.op = op /\ new.bike = b /\ new.rider = r
      /\ new.todo = {} /\ new.off = {} /\ new.alone = TRUE
  BY DEF Quiet
<1>2. new \in TxType
  BY DEF Quiet, Requests, TxType
<1>3. tx' = [tx EXCEPT ![h] = new] /\ UNCHANGED <<account, bike, active, doubled>>
  BY DEF Open
<1> HIDE DEF new
<1>4. TypeOK'
  BY <1>2, <1>3 DEF Inv, TypeOK, TxType
<1>5. tx'[h] = new /\ \A g \in Handlers \ {h} : tx'[g] = tx[g]
  BY <1>3 DEF Inv, TypeOK, TxType
<1>6. ASSUME NEW g \in Handlers PROVE TxOK(g)'
  <2>1. CASE g = h
    BY <1>1, <1>3, <1>5, <2>1 DEF TxOK, Between, Requests
  <2>2. CASE g # h
    <3>1. TxOK(g)
      BY DEF Inv
    <3>2. QED
      BY <1>3, <1>5, <2>2, <3>1
         DEF TxOK, Between, IndexFree, RefersToRows, Live, Here
  <2>3. QED
    BY <2>1, <2>2
<1>7. ASSUME NEW g \in Handlers, NEW k \in Handlers, g # k PROVE Apart(g, k)'
  <2>1. CASE g # h /\ k # h
    BY <1>5, <1>7, <2>1 DEF Inv, Apart, Between
  <2>2. CASE g = h
    BY <1>1, <1>5, <1>7, <2>2 DEF Apart, Between, Unclaimed
  <2>3. CASE k = h
    BY <1>1, <1>5, <1>7, <2>3 DEF Apart, Between, Unclaimed
  <2>4. QED
    BY <2>1, <2>2, <2>3
<1>8. RowsLive' /\ OneBikePerRider'
  BY <1>3 DEF Inv, RowsLive, OneBikePerRider, Live, Here
<1>9. QED
  BY <1>4, <1>6, <1>7, <1>8 DEF Inv

\* updateMany takes its snapshot.
LEMMA DeactivateInv ==
  ASSUME Inv, NEW h \in Handlers, Deactivate(h)
  PROVE  Inv'
<1>1. UNCHANGED <<account, bike, active, doubled>>
  BY DEF Deactivate
<1>2. /\ tx' \in [Handlers -> TxType]
      /\ \A g \in Handlers :
            /\ tx'[g].op = tx[g].op /\ tx'[g].bike = tx[g].bike
            /\ tx'[g].rider = tx[g].rider /\ tx'[g].off = tx[g].off
            /\ g # h => tx'[g].pc = tx[g].pc /\ tx'[g].todo = tx[g].todo
            /\ g # h /\ tx'[g].alone => tx[g].alone
            /\ g \in Rivals(h) /\ tx[h].op # "dismiss" => tx'[g].alone = FALSE
  <2> DEFINE seen == [tx[h] EXCEPT !.pc = "lock", !.todo = Scope(h),
                                   !.alone = Rivals(h) = {}]
             met(g) == [tx[g] EXCEPT !.alone = FALSE]
  <2>1. tx' = [g \in Handlers |-> IF g = h THEN seen
                 ELSE IF g \in Rivals(h) /\ tx[h].op # "dismiss" THEN met(g) ELSE tx[g]]
    BY DEF Deactivate
  <2>2. \A g \in Handlers : tx[g] \in TxType
    BY DEF Inv, TypeOK, TxType
  <2>3. (Rivals(h) = {}) \in BOOLEAN /\ Scope(h) \in SUBSET Rows
    BY DEF Scope, Inv, TypeOK
  <2>4. /\ seen \in TxType /\ seen.op = tx[h].op /\ seen.bike = tx[h].bike
        /\ seen.rider = tx[h].rider /\ seen.off = tx[h].off
    <3>1. PICK v \in BOOLEAN : v = (Rivals(h) = {})
      BY <2>3
    <3>2. seen = [tx[h] EXCEPT !.pc = "lock", !.todo = Scope(h), !.alone = v]
      BY <3>1
    <3>3. QED
      BY <2>2, <2>3, <3>2 DEF TxType
  <2>5. \A g \in Handlers :
            /\ met(g) \in TxType /\ met(g).pc = tx[g].pc /\ met(g).todo = tx[g].todo
            /\ met(g).op = tx[g].op /\ met(g).bike = tx[g].bike
            /\ met(g).rider = tx[g].rider /\ met(g).off = tx[g].off
            /\ met(g).alone = FALSE
    BY <2>2 DEF TxType
  <2>6. h \notin Rivals(h)
    BY DEF Rivals
  <2> HIDE DEF seen, met
  <2>7. QED
    BY <2>1, <2>2, <2>4, <2>5, <2>6
<1>3. /\ tx[h].pc = "read" /\ tx'[h].pc = "lock" /\ tx'[h].todo = Scope(h)
      /\ tx'[h].alone <=> Rivals(h) = {}
  BY DEF Deactivate, Inv, TypeOK, TxType
<1>4. ASSUME NEW g \in Handlers PROVE TxOK(g)'
  <2>1. TxOK(g)
    BY DEF Inv
  <2>2. CASE g = h
    BY <1>1, <1>2, <1>3, <2>1, <2>2 DEF TxOK, Between, Requests, Scope
  <2>3. CASE g # h
    BY <1>1, <1>2, <2>1, <2>3 DEF TxOK, Between, IndexFree, RefersToRows, Live, Here
  <2>4. QED
    BY <2>2, <2>3
<1>5. ASSUME NEW g \in Handlers, NEW k \in Handlers, g # k PROVE Apart(g, k)'
  <2>1. Apart(g, k) /\ TxOK(g) /\ TxOK(k)
    BY <1>5 DEF Inv
  <2>2. CASE g # h /\ k # h
    BY <1>2, <2>1, <2>2 DEF Apart, Between
  <2>3. CASE g = h
    BY <1>2, <1>3, <1>5, <2>1, <2>3 DEF Apart, Between, Rivals, TxOK, Requests
  <2>4. CASE k = h
    BY <1>2, <1>3, <1>5, <2>1, <2>4 DEF Apart, Between, Rivals, TxOK, Requests
  <2>5. QED
    BY <2>2, <2>3, <2>4
<1>6. TypeOK' /\ RowsLive' /\ OneBikePerRider'
  BY <1>1, <1>2 DEF Inv, TypeOK, TxType, RowsLive, OneBikePerRider, Live, Here
<1>7. QED
  BY <1>4, <1>5, <1>6 DEF Inv

\* A row is locked that nobody else has locked.
LEMMA LockRowInv ==
  ASSUME Inv, NEW h \in Handlers, NEW row \in Rows, LockRow(h, row)
  PROVE  Inv'
<1>1. /\ UNCHANGED <<account, bike, active, doubled>>
      /\ row \in tx[h].todo
      /\ \A g \in Handlers \ {h} : row \notin tx[g].off
  BY DEF LockRow, HeldByOther
<1>2. /\ tx' \in [Handlers -> TxType]
      /\ \A g \in Handlers : g # h => tx'[g] = tx[g]
      /\ tx'[h].pc = tx[h].pc /\ tx'[h].op = tx[h].op /\ tx'[h].bike = tx[h].bike
      /\ tx'[h].rider = tx[h].rider /\ tx'[h].alone = tx[h].alone
      /\ tx'[h].todo = tx[h].todo \ {row} /\ tx'[h].off = tx[h].off \cup {row}
  BY DEF LockRow, Inv, TypeOK, TxType
<1>3. ASSUME NEW g \in Handlers PROVE TxOK(g)'
  <2>1. TxOK(g)
    BY DEF Inv
  <2>2. CASE g = h
    BY <1>1, <1>2, <2>1, <2>2 DEF TxOK, Between, IndexFree, RefersToRows, Live, Here
  <2>3. CASE g # h
    BY <1>1, <1>2, <2>1, <2>3 DEF TxOK, Between, IndexFree, RefersToRows, Live, Here
  <2>4. QED
    BY <2>2, <2>3
<1>4. ASSUME NEW g \in Handlers, NEW k \in Handlers, g # k PROVE Apart(g, k)'
  <2>1. Apart(g, k)
    BY <1>4 DEF Inv
  <2>2. QED
    BY <1>1, <1>2, <1>4, <2>1 DEF Apart, Between
<1>5. TypeOK' /\ RowsLive' /\ OneBikePerRider'
  BY <1>1, <1>2 DEF Inv, TypeOK, TxType, RowsLive, OneBikePerRider, Live, Here
<1>6. QED
  BY <1>3, <1>4, <1>5 DEF Inv

\* The insert passes the index and the foreign keys.
LEMMA InsertRowInv ==
  ASSUME Inv, NEW h \in Handlers, InsertRow(h)
  PROVE  Inv'
<1>1. /\ UNCHANGED <<account, bike, active, doubled>>
      /\ tx[h].pc = "lock" /\ tx[h].todo = {} /\ tx[h].op # "dismiss"
      /\ IndexFree(h) /\ RefersToRows(h)
      /\ \A row \in HeldByOther(h) : row[1] # tx[h].bike
  BY DEF InsertRow, Deactivated
<1>2. /\ tx' \in [Handlers -> TxType]
      /\ \A g \in Handlers : g # h => tx'[g] = tx[g]
      /\ tx'[h].pc = "commit" /\ tx'[h].op = tx[h].op /\ tx'[h].bike = tx[h].bike
      /\ tx'[h].rider = tx[h].rider /\ tx'[h].alone = tx[h].alone
      /\ tx'[h].todo = tx[h].todo /\ tx'[h].off = tx[h].off
  BY DEF InsertRow, Inv, TypeOK, TxType
<1>3. ASSUME NEW g \in Handlers PROVE TxOK(g)'
  <2>1. TxOK(g)
    BY DEF Inv
  <2>2. CASE g = h
    BY <1>1, <1>2, <2>1, <2>2 DEF TxOK, Between, IndexFree, RefersToRows, Live, Here
  <2>3. CASE g # h
    BY <1>1, <1>2, <2>1, <2>3 DEF TxOK, Between, IndexFree, RefersToRows, Live, Here
  <2>4. QED
    BY <2>2, <2>3
<1>4. \A g \in Handlers \ {h} : tx[g].pc = "commit" => tx[g].bike # tx[h].bike
  <2> SUFFICES ASSUME NEW g \in Handlers \ {h}, tx[g].pc = "commit"
               PROVE  tx[g].bike # tx[h].bike
    OBVIOUS
  <2>1. <<tx[g].bike, tx[g].rider>> \in HeldByOther(h)
    BY DEF HeldByOther, Inserted
  <2>2. QED
    BY <1>1, <2>1
<1>5. ASSUME NEW g \in Handlers, NEW k \in Handlers, g # k PROVE Apart(g, k)'
  <2>1. Apart(g, k)
    BY <1>5 DEF Inv
  <2>2. QED
    BY <1>1, <1>2, <1>4, <1>5, <2>1 DEF Apart, Between
<1>6. TypeOK' /\ RowsLive' /\ OneBikePerRider'
  BY <1>1, <1>2 DEF Inv, TypeOK, TxType, RowsLive, OneBikePerRider, Live, Here
<1>7. QED
  BY <1>3, <1>5, <1>6 DEF Inv

\* What becomes of the requests when the rows of a set are deactivated or
\* deleted, and request h becomes what is described by next.
LEMMA GoneRows ==
  ASSUME Inv, NEW h \in Handlers, NEW rows, NEW next \in TxType,
         tx' = [Gone(rows) EXCEPT ![h] = next]
  PROVE  /\ tx' \in [Handlers -> TxType]
         /\ tx'[h] = next
         /\ \A g \in Handlers \ {h} :
               /\ tx'[g].pc = tx[g].pc /\ tx'[g].op = tx[g].op
               /\ tx'[g].bike = tx[g].bike /\ tx'[g].rider = tx[g].rider
               /\ tx'[g].off = tx[g].off /\ tx'[g].alone = tx[g].alone
               /\ tx'[g].todo = tx[g].todo \ rows
<1>1. \A g \in Handlers : tx[g] \in TxType
  BY DEF Inv, TypeOK, TxType
<1>2. \A g \in Handlers : [tx[g] EXCEPT !.todo = @ \ rows] \in TxType
  BY <1>1 DEF TxType
<1>3. QED
  BY <1>1, <1>2 DEF Gone, TxType

LEMMA QuietType == Quiet \in TxType /\ Quiet.pc = "idle" /\ Quiet.op = "none"
                   /\ Quiet.todo = {} /\ Quiet.off = {}
BY DEF Quiet, TxType

\* The transaction commits.
LEMMA CommitInv ==
  ASSUME Inv, NEW h \in Handlers, Commit(h)
  PROVE  Inv'
<1> DEFINE b == tx[h].bike
           r == tx[h].rider
<1>1. /\ TxOK(h) /\ tx[h].pc = "commit" /\ tx[h].todo = {}
      /\ b \in Bikes /\ r \in Riders /\ tx[h].op \in Requests
      /\ IndexFree(h) /\ RefersToRows(h)
  BY DEF Commit, Inv, TxOK
<1>2. /\ active' = (active \ tx[h].off) \cup {<<b, r>>}
      /\ account' = IF tx[h].op = "hire" THEN [account EXCEPT ![r] = "ACTIVE"] ELSE account
      /\ bike' = IF tx[h].op = "personal" THEN [bike EXCEPT ![b] = "here"] ELSE bike
      /\ doubled' = IF tx[h].alone THEN doubled \ {r} ELSE doubled \cup {r}
  BY DEF Commit
<1>3. /\ tx' \in [Handlers -> TxType] /\ tx'[h] = Quiet
      /\ \A g \in Handlers \ {h} :
               /\ tx'[g].pc = tx[g].pc /\ tx'[g].op = tx[g].op
               /\ tx'[g].bike = tx[g].bike /\ tx'[g].rider = tx[g].rider
               /\ tx'[g].off = tx[g].off /\ tx'[g].alone = tx[g].alone
               /\ tx'[g].todo = tx[g].todo \ tx[h].off
  BY GoneRows, QuietType DEF Commit
<1>4. TypeOK'
  BY <1>1, <1>2, <1>3 DEF Inv, TypeOK, TxType, Rows, Statuses
<1>5. /\ \A x \in Riders : x # r => account'[x] = account[x]
      /\ \A x \in Riders : Live(x) => account'[x] = account[x]
      /\ account'[r] \in Statuses
  BY <1>1, <1>2, <1>4 DEF Inv, TypeOK, RefersToRows, Live, Statuses, Requests, TxOK
<1>6. /\ \A x \in Bikes : x # b => bike'[x] = bike[x]
      /\ \A x \in Bikes : Here(x) => bike'[x] = bike[x]
      /\ bike'[b] = "here"
  BY <1>1, <1>2, <1>4 DEF Inv, TypeOK, RefersToRows, Here, Requests, TxOK
<1>7. ASSUME NEW g \in Handlers PROVE TxOK(g)'
  <2>1. CASE g = h
    BY <1>3, <2>1, QuietType DEF TxOK, Between, Requests
  <2>2. CASE g # h
    <3>1. TxOK(g) /\ Apart(g, h) /\ Apart(h, g)
      BY <2>2 DEF Inv
    <3>2. tx[g].op = "hire" => account'[tx[g].rider] = "new"
      BY <1>1, <1>2, <1>4, <3>1, AssignmentsAssumption
         DEF TxOK, Apart, RefersToRows, Live, Statuses, Inv, TypeOK
    <3>3. tx[g].op = "personal" => bike'[tx[g].bike] = "new"
      BY <1>1, <1>2, <1>4, <3>1, AssignmentsAssumption
         DEF TxOK, Apart, RefersToRows, Here, Inv, TypeOK
    <3>4. tx[g].pc = "commit" => IndexFree(g)' /\ RefersToRows(g)'
      BY <1>1, <1>2, <1>3, <1>5, <1>6, <2>2, <3>1, <3>2, <3>3
         DEF TxOK, Apart, IndexFree, RefersToRows, Live, Here, Requests
    <3>5. Between(g) /\ tx[g].alone => tx[g].rider # r
      BY <1>1, <3>1 DEF Apart, Between
    <3>6. \A row \in tx'[g].todo \cup tx'[g].off :
              row \in active' /\ (row[1] = tx[g].bike \/ row[2] = tx[g].rider)
      BY <1>2, <1>3, <2>2, <3>1 DEF TxOK, Apart
    <3>7. QED
      BY <1>2, <1>3, <2>2, <3>1, <3>2, <3>3, <3>4, <3>5, <3>6 DEF TxOK, Between
  <2>3. QED
    BY <2>1, <2>2
<1>8. ASSUME NEW g \in Handlers, NEW k \in Handlers, g # k PROVE Apart(g, k)'
  <2>1. Apart(g, k)
    BY <1>8 DEF Inv
  <2>2. QED
    BY <1>3, <1>8, <2>1, QuietType DEF Apart, Between, Requests
<1>9. RowsLive'
  BY <1>1, <1>2, <1>5, <1>6, <1>4 DEF Inv, TypeOK, Rows, RowsLive, Live, Here
<1>10. OneBikePerRider'
  <2>1. CASE tx[h].alone
    <3>1. \A row \in active : row[2] = r => row \in tx[h].off
      BY <1>1, <2>1 DEF TxOK, Between
    <3>2. QED
      BY <1>2, <2>1, <3>1 DEF Inv, OneBikePerRider
  <2>2. CASE ~tx[h].alone
    BY <1>2, <2>2 DEF Inv, OneBikePerRider
  <2>3. QED
    BY <2>1, <2>2
<1>11. QED
  BY <1>4, <1>7, <1>8, <1>9, <1>10 DEF Inv

\* The commit hands the bike over in one step.
LEMMA CommitGives ==
  ASSUME Inv, NEW h \in Handlers, Commit(h)
  PROVE  Handover!Give(tx[h].bike, tx[h].rider)
<1> DEFINE b == tx[h].bike
           r == tx[h].rider
           returned == tx[h].off \cap Handover!Of(r)
<1>1. /\ TxOK(h) /\ tx[h].pc = "commit"
      /\ b \in Bikes /\ r \in Riders /\ tx[h].op \in Requests
      /\ IndexFree(h) /\ RefersToRows(h)
  BY DEF Commit, Inv, TxOK
<1>2. /\ active' = (active \ tx[h].off) \cup {<<b, r>>}
      /\ account' = IF tx[h].op = "hire" THEN [account EXCEPT ![r] = "ACTIVE"] ELSE account
      /\ bike' = IF tx[h].op = "personal" THEN [bike EXCEPT ![b] = "here"] ELSE bike
  BY DEF Commit
<1>3. Here(b) \/ Live(r)
  BY <1>1 DEF RefersToRows
<1>4. {x \in Riders : Live(x)}' = {x \in Riders : Live(x)} \cup {r}
  BY <1>1, <1>2 DEF RefersToRows, Live, Statuses, Inv, TypeOK
<1>5. {x \in Bikes : Here(x)}' = {x \in Bikes : Here(x)} \cup {b}
  BY <1>1, <1>2 DEF RefersToRows, Here, Inv, TypeOK
<1>6. active \ tx[h].off = {x \in active : x[1] # b} \ returned
  BY <1>1 DEF TxOK, IndexFree, Handover!Of
<1>7. returned \in SUBSET Handover!Of(r)
  OBVIOUS
<1>8. QED
  BY <1>1, <1>2, <1>3, <1>4, <1>5, <1>6, <1>7 DEF Handover!Give

-----------------------------------------------------------------------------
(* The steps that insert nothing: rows go, requests end, accounts change. *)

\* Request g holds no row in the next state.
Resting(g) ==
    /\ tx'[g].todo = {} /\ tx'[g].off = {}
    /\ \/ tx'[g].pc = "idle" /\ tx'[g].op = "none"
       \/ /\ tx'[g].pc \in {"delete", "disable"} /\ tx'[g].op = "dismiss"
          /\ tx'[g].rider \in Riders /\ tx'[g].bike = None

\* Request g loses sight of the rows that go, holds none of them, and what it
\* refers to stays.
Kept(g, rows) ==
    /\ tx'[g].pc = tx[g].pc /\ tx'[g].op = tx[g].op
    /\ tx'[g].bike = tx[g].bike /\ tx'[g].rider = tx[g].rider
    /\ tx'[g].off = tx[g].off /\ tx'[g].alone = tx[g].alone
    /\ tx'[g].todo = tx[g].todo \ rows
    /\ tx[g].off \cap rows = {}
    /\ tx[g].op = "hire" => account'[tx[g].rider] = "new"
    /\ tx[g].op = "personal" => bike'[tx[g].bike] = "new"
    /\ tx[g].pc = "commit" => RefersToRows(g)'

LEMMA ReleaseInv ==
  ASSUME Inv, NEW rows, TypeOK', active' = active \ rows, doubled' = doubled,
         \A g \in Handlers : Resting(g) \/ Kept(g, rows),
         \A row \in active' : Here(row[1])' /\ Live(row[2])'
  PROVE  Inv'
<1>1. ASSUME NEW g \in Handlers PROVE TxOK(g)'
  <2>1. TxOK(g)
    BY DEF Inv
  <2>2. CASE Resting(g)
    BY <2>2 DEF Resting, TxOK, Between, Requests
  <2>3. CASE Kept(g, rows)
    <3>1. tx[g].pc = "commit" => IndexFree(g)'
      BY <2>1, <2>3 DEF Kept, TxOK, IndexFree
    <3>2. \A row \in tx'[g].todo \cup tx'[g].off :
              row \in active' /\ (row[1] = tx[g].bike \/ row[2] = tx[g].rider)
      BY <2>1, <2>3 DEF Kept, TxOK
    <3>3. Between(g) /\ tx[g].alone => \A row \in active' :
              row[2] = tx[g].rider => row \in tx'[g].todo \cup tx'[g].off
      BY <2>1, <2>3 DEF Kept, TxOK
    <3>4. QED
      BY <2>1, <2>3, <3>1, <3>2, <3>3 DEF Kept, TxOK, Between
  <2>4. QED
    BY <2>2, <2>3
<1>2. ASSUME NEW g \in Handlers, NEW k \in Handlers, g # k PROVE Apart(g, k)'
  <2>1. Apart(g, k)
    BY <1>2 DEF Inv
  <2>2. CASE Resting(g) \/ Resting(k)
    BY <2>2 DEF Resting, Apart, Between, Requests
  <2>3. CASE Kept(g, rows) /\ Kept(k, rows)
    BY <2>1, <2>3 DEF Kept, Apart, Between
  <2>4. QED
    BY <2>2, <2>3
<1>3. RowsLive'
  BY DEF RowsLive
<1>4. OneBikePerRider'
  BY DEF Inv, OneBikePerRider
<1>5. QED
  BY <1>1, <1>2, <1>3, <1>4 DEF Inv

\* A request whose rows are left alone and whose world does not change.
LEMMA KeptSame ==
  ASSUME Inv, NEW g \in Handlers, tx'[g] = tx[g],
         tx[g].op = "hire" => account'[tx[g].rider] = "new",
         tx[g].op = "personal" => bike'[tx[g].bike] = "new",
         \A r \in Riders : Live(r) => Live(r)',
         \A b \in Bikes : Here(b) => Here(b)'
  PROVE  Kept(g, {})
<1>1. TxOK(g)
  BY DEF Inv
<1>2. tx[g].pc = "commit" => RefersToRows(g)'
  BY <1>1 DEF TxOK, RefersToRows, Requests
<1>3. QED
  BY <1>2 DEF Kept

LEMMA FailInv ==
  ASSUME Inv, NEW h \in Handlers, Fail(h)
  PROVE  Inv'
<1> DEFINE next == IF tx[h].op = "dismiss" THEN Dismissal(h, "disable") ELSE Quiet
<1>1. TxOK(h) /\ tx[h].pc # "idle"
  BY DEF Fail, Inv
<1>2. /\ next \in TxType /\ next.todo = {} /\ next.off = {}
      /\ \/ next.pc = "idle" /\ next.op = "none"
         \/ /\ next.pc \in {"delete", "disable"} /\ next.op = "dismiss"
            /\ next.rider \in Riders /\ next.bike = None
  BY <1>1 DEF Dismissal, Quiet, TxType, TxOK
<1>3. tx' = [tx EXCEPT ![h] = next] /\ UNCHANGED <<account, bike, active, doubled>>
  BY DEF Fail, Inv, TypeOK
<1> HIDE DEF next
<1>4. /\ tx' \in [Handlers -> TxType] /\ tx'[h] = next
      /\ \A g \in Handlers \ {h} : tx'[g] = tx[g]
  BY <1>2, <1>3 DEF Inv, TypeOK, TxType
<1>5. \A g \in Handlers \ {h} : Kept(g, {})
  <2> TAKE g \in Handlers \ {h}
  <2>1. TxOK(g)
    BY DEF Inv
  <2>2. QED
    BY <1>3, <1>4, <2>1, KeptSame DEF TxOK, Live, Here
<1>6. Resting(h)
  BY <1>2, <1>4 DEF Resting
<1>7. TypeOK' /\ active' = active \ {} /\ doubled' = doubled
  BY <1>3, <1>4 DEF Inv, TypeOK, TxType
<1>8. \A row \in active' : Here(row[1])' /\ Live(row[2])'
  BY <1>3 DEF Inv, RowsLive, Live, Here
<1>9. QED
  BY <1>5, <1>6, <1>7, <1>8, ReleaseInv

LEMMA ReturnBikesInv ==
  ASSUME Inv, NEW h \in Handlers, ReturnBikes(h)
  PROVE  Inv'
<1> DEFINE next == Dismissal(h, "delete")
           rows == tx[h].off
<1>1. TxOK(h) /\ tx[h].pc = "lock" /\ tx[h].op = "dismiss"
  BY DEF ReturnBikes, Deactivated, Inv
<1>2. /\ next \in TxType /\ next.todo = {} /\ next.off = {}
      /\ next.pc = "delete" /\ next.op = "dismiss"
      /\ next.rider \in Riders /\ next.bike = None
  BY <1>1 DEF Dismissal, Quiet, TxType, TxOK
<1>3. /\ tx' = [Gone(rows) EXCEPT ![h] = next]
      /\ active' = active \ rows /\ UNCHANGED <<account, bike, doubled>>
  BY DEF ReturnBikes
<1> HIDE DEF next
<1>4. /\ tx' \in [Handlers -> TxType] /\ tx'[h] = next
      /\ \A g \in Handlers \ {h} :
               /\ tx'[g].pc = tx[g].pc /\ tx'[g].op = tx[g].op
               /\ tx'[g].bike = tx[g].bike /\ tx'[g].rider = tx[g].rider
               /\ tx'[g].off = tx[g].off /\ tx'[g].alone = tx[g].alone
               /\ tx'[g].todo = tx[g].todo \ rows
  BY <1>2, <1>3, GoneRows
<1>5. \A g \in Handlers \ {h} : Kept(g, rows)
  <2> TAKE g \in Handlers \ {h}
  <2>1. TxOK(g) /\ Apart(g, h)
    BY DEF Inv
  <2>2. tx[g].pc = "commit" => RefersToRows(g)'
    BY <1>3, <1>4, <2>1 DEF TxOK, RefersToRows, Live, Here
  <2>3. QED
    BY <1>3, <1>4, <2>1, <2>2 DEF TxOK, Apart, Kept
<1>6. Resting(h)
  BY <1>2, <1>4 DEF Resting
<1>7. TypeOK'
  BY <1>3, <1>4 DEF Inv, TypeOK, TxType
<1>8. \A row \in active' : Here(row[1])' /\ Live(row[2])'
  BY <1>3 DEF Inv, RowsLive, Live, Here
<1>9. QED
  BY <1>3, <1>5, <1>6, <1>7, <1>8, ReleaseInv

\* The account and its rows go; no request holds one of them.
LEMMA EraseRiderKeeps ==
  ASSUME Inv, NEW r \in Riders, EraseRider(r), NEW g \in Handlers,
         tx'[g].pc = tx[g].pc /\ tx'[g].op = tx[g].op,
         tx'[g].bike = tx[g].bike /\ tx'[g].rider = tx[g].rider,
         tx'[g].off = tx[g].off /\ tx'[g].alone = tx[g].alone,
         tx'[g].todo = tx[g].todo \ {row \in active : row[2] = r}
  PROVE  Kept(g, {row \in active : row[2] = r})
<1>1. TxOK(g)
  BY DEF Inv
<1>2. /\ Live(r) /\ account' = [account EXCEPT ![r] = "gone"] /\ bike' = bike
      /\ tx[g].pc = "commit" => tx[g].rider # r
      /\ {row \in active : row[2] = r} \cap tx[g].off = {}
  BY DEF EraseRider, Erase
<1>3. account \in [Riders -> Statuses \cup {"new", "gone"}]
  BY DEF Inv, TypeOK
<1>4. tx[g].op = "hire" => tx[g].rider # r /\ account'[tx[g].rider] = "new"
  BY <1>1, <1>2, <1>3 DEF TxOK, Live, Statuses
<1>5. tx[g].pc = "commit" => RefersToRows(g)'
  BY <1>1, <1>2, <1>3 DEF TxOK, RefersToRows, Live, Here
<1>6. QED
  BY <1>1, <1>2, <1>4, <1>5 DEF Kept, TxOK

LEMMA EraseRiderRows ==
  ASSUME Inv, NEW r \in Riders, EraseRider(r)
  PROVE  /\ active' = active \ {row \in active : row[2] = r} /\ doubled' = doubled
         /\ account' \in [Riders -> Statuses \cup {"new", "gone"}]
         /\ bike' \in [Bikes -> {"new", "here", "gone"}] /\ active' \subseteq Rows
         /\ \A row \in active' : Here(row[1])' /\ Live(row[2])'
<1>1. /\ active' = active \ {row \in active : row[2] = r}
      /\ account' = [account EXCEPT ![r] = "gone"] /\ bike' = bike /\ doubled' = doubled
  BY DEF EraseRider, Erase
<1>2. QED
  BY <1>1 DEF Inv, TypeOK, RowsLive, Live, Here, Rows

LEMMA DeleteRiderInv ==
  ASSUME Inv, NEW r \in Riders, DeleteRider(r)
  PROVE  Inv'
<1> DEFINE rows == {row \in active : row[2] = r}
<1>1. EraseRider(r) /\ tx' = Gone(rows)
  BY DEF DeleteRider
<1>2. \A g \in Handlers : tx[g] \in TxType
  BY DEF Inv, TypeOK, TxType
<1>3. \A g \in Handlers : [tx[g] EXCEPT !.todo = @ \ rows] \in TxType
  BY <1>2 DEF TxType
<1>4. /\ tx' \in [Handlers -> TxType]
      /\ \A g \in Handlers :
               /\ tx'[g].pc = tx[g].pc /\ tx'[g].op = tx[g].op
               /\ tx'[g].bike = tx[g].bike /\ tx'[g].rider = tx[g].rider
               /\ tx'[g].off = tx[g].off /\ tx'[g].alone = tx[g].alone
               /\ tx'[g].todo = tx[g].todo \ rows
  BY <1>1, <1>2, <1>3 DEF Gone, TxType
<1>5. \A g \in Handlers : Kept(g, rows)
  BY <1>1, <1>4, EraseRiderKeeps
<1>6. TypeOK'
  BY <1>1, <1>4, EraseRiderRows DEF Inv, TypeOK, TxType
<1>7. QED
  BY <1>1, <1>5, <1>6, EraseRiderRows, ReleaseInv

LEMMA DeleteDismissedInv ==
  ASSUME Inv, NEW h \in Handlers, DeleteDismissed(h)
  PROVE  Inv' /\ tx[h].rider \in Riders
<1> DEFINE r == tx[h].rider
           rows == {row \in active : row[2] = r}
<1>1. r \in Riders
  BY DEF DeleteDismissed, Inv, TxOK
<1>2. EraseRider(r)
  BY DEF DeleteDismissed
<1>a. PICK next \in {Quiet, Dismissal(h, "disable")} :
          tx' = [Gone(rows) EXCEPT ![h] = next]
  BY DEF DeleteDismissed
<1>b. /\ next \in TxType /\ next.todo = {} /\ next.off = {}
      /\ \/ next.pc = "idle" /\ next.op = "none"
         \/ /\ next.pc = "disable" /\ next.op = "dismiss"
            /\ next.rider = r /\ next.bike = None
  <2>1. CASE next = Quiet
    BY <2>1, QuietType
  <2>2. CASE next = Dismissal(h, "disable")
    BY <1>1, <2>2 DEF Dismissal, Quiet, TxType
  <2>3. QED
    BY <1>a, <2>1, <2>2
<1>3. /\ tx' \in [Handlers -> TxType] /\ tx'[h] = next
      /\ \A g \in Handlers \ {h} :
               /\ tx'[g].pc = tx[g].pc /\ tx'[g].op = tx[g].op
               /\ tx'[g].bike = tx[g].bike /\ tx'[g].rider = tx[g].rider
               /\ tx'[g].off = tx[g].off /\ tx'[g].alone = tx[g].alone
               /\ tx'[g].todo = tx[g].todo \ rows
  BY <1>a, <1>b, GoneRows
<1>4. \A g \in Handlers \ {h} : Kept(g, rows)
  BY <1>1, <1>2, <1>3, EraseRiderKeeps
<1>5. Resting(h)
  BY <1>1, <1>3, <1>b DEF Resting
<1>6. TypeOK'
  BY <1>1, <1>2, <1>3, EraseRiderRows DEF Inv, TypeOK, TxType
<1>7. QED
  BY <1>1, <1>2, <1>4, <1>5, <1>6, EraseRiderRows, ReleaseInv

LEMMA DeleteBikeInv ==
  ASSUME Inv, NEW b \in Bikes, DeleteBike(b)
  PROVE  Inv'
<1> DEFINE rows == {row \in active : row[1] = b}
<1>1. /\ Here(b) /\ tx' = Gone(rows) /\ active' = active \ rows
      /\ bike' = [bike EXCEPT ![b] = "gone"] /\ account' = account /\ doubled' = doubled
      /\ \A g \in Handlers : /\ tx[g].pc = "commit" => tx[g].bike # b
                             /\ rows \cap tx[g].off = {}
  BY DEF DeleteBike, Erase
<1>2. \A g \in Handlers : tx[g] \in TxType
  BY DEF Inv, TypeOK, TxType
<1>3. \A g \in Handlers : [tx[g] EXCEPT !.todo = @ \ rows] \in TxType
  BY <1>2 DEF TxType
<1>4. /\ tx' \in [Handlers -> TxType]
      /\ \A g \in Handlers :
               /\ tx'[g].pc = tx[g].pc /\ tx'[g].op = tx[g].op
               /\ tx'[g].bike = tx[g].bike /\ tx'[g].rider = tx[g].rider
               /\ tx'[g].off = tx[g].off /\ tx'[g].alone = tx[g].alone
               /\ tx'[g].todo = tx[g].todo \ rows
  BY <1>1, <1>2, <1>3 DEF Gone, TxType
<1>5. ASSUME NEW g \in Handlers PROVE Kept(g, rows)
  <2>1. TxOK(g)
    BY DEF Inv
  <2>2. tx[g].op = "personal" => tx[g].bike # b /\ bike'[tx[g].bike] = "new"
    BY <1>1, <2>1 DEF TxOK, Here, Inv, TypeOK
  <2>3. tx[g].pc = "commit" => RefersToRows(g)'
    BY <1>1, <1>4, <2>1 DEF TxOK, RefersToRows, Live, Here, Inv, TypeOK
  <2>4. QED
    BY <1>1, <1>4, <2>1, <2>2, <2>3 DEF Kept, TxOK
<1>6. TypeOK' /\ \A row \in active' : Here(row[1])' /\ Live(row[2])'
  BY <1>1, <1>4 DEF Inv, TypeOK, TxType, RowsLive, Live, Here, Rows
<1>7. QED
  BY <1>1, <1>5, <1>6, ReleaseInv

LEMMA DisableDismissedInv ==
  ASSUME Inv, NEW h \in Handlers, DisableDismissed(h)
  PROVE  Inv' /\ \A r \in Riders : Live(r)' <=> Live(r)
<1>1. TxOK(h) /\ tx[h].rider \in Riders
  BY DEF DisableDismissed, Inv, TxOK
<1>2. /\ account' = IF Live(tx[h].rider)
                    THEN [account EXCEPT ![tx[h].rider] = "DISABLED"] ELSE account
      /\ tx' = [tx EXCEPT ![h] = Quiet] /\ UNCHANGED <<bike, active, doubled>>
  BY DEF DisableDismissed
<1>3. /\ tx' \in [Handlers -> TxType] /\ tx'[h] = Quiet
      /\ \A g \in Handlers \ {h} : tx'[g] = tx[g]
  BY <1>2, QuietType DEF Inv, TypeOK, TxType
<1>4. /\ account' \in [Riders -> Statuses \cup {"new", "gone"}]
      /\ \A r \in Riders : Live(r)' <=> Live(r)
      /\ \A r \in Riders : account[r] = "new" => account'[r] = "new"
  BY <1>1, <1>2 DEF Inv, TypeOK, Live, Statuses
<1>5. \A g \in Handlers \ {h} : Kept(g, {})
  <2> TAKE g \in Handlers \ {h}
  <2>1. TxOK(g)
    BY DEF Inv
  <2>2. tx[g].op = "hire" => tx[g].rider \in Riders
    BY <2>1 DEF TxOK
  <2>3. QED
    BY <1>2, <1>3, <1>4, <2>1, <2>2, KeptSame DEF TxOK, Here
<1>6. Resting(h)
  BY <1>3, QuietType DEF Resting
<1>7. TypeOK' /\ active' = active \ {} /\ doubled' = doubled
  BY <1>2, <1>3, <1>4 DEF Inv, TypeOK, TxType
<1>8. \A row \in active' : Here(row[1])' /\ Live(row[2])'
  BY <1>2, <1>4 DEF Inv, TypeOK, Rows, RowsLive, Here
<1>9. QED
  BY <1>4, <1>5, <1>6, <1>7, <1>8, ReleaseInv

\* Accounts and bikes are created, and a status is set, without touching rows.
LEMMA RecordsInv ==
  ASSUME Inv, UNCHANGED <<active, tx, doubled>>,
         account' \in [Riders -> Statuses \cup {"new", "gone"}],
         bike' \in [Bikes -> {"new", "here", "gone"}],
         \A r \in Riders : Live(r) => Live(r)',
         \A b \in Bikes : Here(b) => Here(b)',
         \A g \in Handlers : tx[g].op = "hire" => account'[tx[g].rider] = "new",
         \A g \in Handlers : tx[g].op = "personal" => bike'[tx[g].bike] = "new"
  PROVE  Inv'
<1>1. \A g \in Handlers : Kept(g, {})
  BY KeptSame
<1>2. TypeOK' /\ active' = active \ {} /\ doubled' = doubled
  BY DEF Inv, TypeOK
<1>3. \A row \in active' : Here(row[1])' /\ Live(row[2])'
  BY DEF Inv, TypeOK, Rows, RowsLive
<1>4. QED
  BY <1>1, <1>2, <1>3, ReleaseInv

LEMMA CreateRiderInv ==
  ASSUME Inv, NEW r \in Riders, CreateRider(r)
  PROVE  Inv'
<1>1. /\ account[r] = "new" /\ account' = [account EXCEPT ![r] = "ACTIVE"]
      /\ UNCHANGED <<bike, active, tx, doubled>>
      /\ \A g \in Handlers : tx[g].op = "hire" => tx[g].rider # r
  BY DEF CreateRider, Unclaimed
<1>2. \A g \in Handlers : TxOK(g)
  BY DEF Inv
<1>3. /\ account' \in [Riders -> Statuses \cup {"new", "gone"}]
      /\ bike' \in [Bikes -> {"new", "here", "gone"}]
      /\ \A x \in Riders : Live(x) => Live(x)'
      /\ \A b \in Bikes : Here(b) => Here(b)'
  BY <1>1 DEF Inv, TypeOK, Live, Here, Statuses
<1>4. \A g \in Handlers : tx[g].op = "hire" => tx[g].rider \in Riders
  BY <1>2 DEF TxOK
<1>5. QED
  BY <1>1, <1>2, <1>3, <1>4, RecordsInv DEF TxOK, Inv, TypeOK

LEMMA CreateBikeInv ==
  ASSUME Inv, NEW b \in Bikes, CreateBike(b)
  PROVE  Inv'
<1>1. /\ bike[b] = "new" /\ bike' = [bike EXCEPT ![b] = "here"]
      /\ UNCHANGED <<account, active, tx, doubled>>
      /\ \A g \in Handlers : tx[g].op = "personal" => tx[g].bike # b
  BY DEF CreateBike, Unclaimed
<1>2. \A g \in Handlers : TxOK(g)
  BY DEF Inv
<1>3. /\ account' \in [Riders -> Statuses \cup {"new", "gone"}]
      /\ bike' \in [Bikes -> {"new", "here", "gone"}]
      /\ \A x \in Riders : Live(x) => Live(x)'
      /\ \A x \in Bikes : Here(x) => Here(x)'
  BY <1>1 DEF Inv, TypeOK, Live, Here, Statuses
<1>4. \A g \in Handlers : tx[g].op = "personal" => tx[g].bike \in Bikes
  BY <1>2 DEF TxOK
<1>5. QED
  BY <1>1, <1>2, <1>3, <1>4, RecordsInv DEF TxOK, Inv, TypeOK

LEMMA UpdateRiderStatusInv ==
  ASSUME Inv, NEW r \in Riders, NEW s \in Statuses, UpdateRiderStatus(r, s)
  PROVE  Inv' /\ \A x \in Riders : Live(x)' <=> Live(x)
<1>1. Live(r) /\ account' = [account EXCEPT ![r] = s] /\ UNCHANGED <<bike, active, tx, doubled>>
  BY DEF UpdateRiderStatus
<1>2. \A g \in Handlers : TxOK(g)
  BY DEF Inv
<1>3. /\ account' \in [Riders -> Statuses \cup {"new", "gone"}]
      /\ bike' \in [Bikes -> {"new", "here", "gone"}]
      /\ \A x \in Riders : Live(x)' <=> Live(x)
      /\ \A x \in Riders : account[x] = "new" => account'[x] = "new"
      /\ \A b \in Bikes : Here(b) => Here(b)'
  BY <1>1 DEF Inv, TypeOK, Live, Here, Statuses
<1>4. \A g \in Handlers : tx[g].op = "hire" => tx[g].rider \in Riders
  BY <1>2 DEF TxOK
<1>5. QED
  BY <1>1, <1>2, <1>3, <1>4, RecordsInv DEF TxOK

-----------------------------------------------------------------------------
(* The theorems. *)

LEMMA InitInv == Init => Inv
BY QuietType DEF Init, Inv, TypeOK, TxType, TxOK, Apart, Between, Requests, RowsLive,
                 OneBikePerRider, Statuses

LEMMA BeginInv ==
  ASSUME Inv, NEW h \in Handlers, NEW b \in Bikes, NEW r \in Riders,
         \/ CreateAssignment(h, b, r) \/ CreateRiderWithBike(h, b, r)
         \/ CreatePersonalBike(h, b, r) \/ DeleteFleetUser(h, r)
  PROVE  Inv'
<1>1. CASE CreateAssignment(h, b, r)
  BY <1>1, OpenInv DEF CreateAssignment, Requests
<1>2. CASE CreateRiderWithBike(h, b, r)
  BY <1>2, OpenInv DEF CreateRiderWithBike, Requests
<1>3. CASE CreatePersonalBike(h, b, r)
  BY <1>3, OpenInv DEF CreatePersonalBike, Requests
<1>4. CASE DeleteFleetUser(h, r)
  BY <1>4, OpenInv DEF DeleteFleetUser, Requests
<1>5. QED
  BY <1>1, <1>2, <1>3, <1>4

LEMMA NextInv == Inv /\ [Next]_vars => Inv'
<1> SUFFICES ASSUME Inv, [Next]_vars PROVE Inv'
  OBVIOUS
<1>1. CASE UNCHANGED vars
  BY <1>1 DEF vars, Inv, TypeOK, TxOK, Apart, Between, RowsLive, OneBikePerRider,
              IndexFree, RefersToRows, Live, Here
<1>2. ASSUME NEW h \in Handlers, NEW b \in Bikes, NEW r \in Riders,
             \/ CreateAssignment(h, b, r) \/ CreateRiderWithBike(h, b, r)
             \/ CreatePersonalBike(h, b, r)
      PROVE  Inv'
  BY <1>2, BeginInv
<1>3. ASSUME NEW h \in Handlers, NEW r \in Riders, DeleteFleetUser(h, r) PROVE Inv'
  BY <1>3, OpenInv DEF DeleteFleetUser, Requests
<1>4. ASSUME NEW h \in Handlers, NEW row \in Rows, LockRow(h, row) PROVE Inv'
  BY <1>4, LockRowInv
<1>5. ASSUME NEW h \in Handlers,
             \/ Deactivate(h) \/ InsertRow(h) \/ Commit(h) \/ Fail(h)
             \/ ReturnBikes(h) \/ DeleteDismissed(h) \/ DisableDismissed(h)
      PROVE  Inv'
  BY <1>5, DeactivateInv, InsertRowInv, CommitInv, FailInv, ReturnBikesInv,
     DeleteDismissedInv, DisableDismissedInv
<1>6. ASSUME NEW r \in Riders, NEW s \in Statuses, UpdateRiderStatus(r, s) PROVE Inv'
  BY <1>6, UpdateRiderStatusInv
<1>7. ASSUME NEW r \in Riders, CreateRider(r) \/ DeleteRider(r) PROVE Inv'
  BY <1>7, CreateRiderInv, DeleteRiderInv
<1>8. ASSUME NEW b \in Bikes, CreateBike(b) \/ DeleteBike(b) PROVE Inv'
  BY <1>8, CreateBikeInv, DeleteBikeInv
<1>9. QED
  BY <1>1, <1>2, <1>3, <1>4, <1>5, <1>6, <1>7, <1>8 DEF Next

\* The invariant, and with it type correctness, in every reachable state.
THEOREM InvariantHolds == Spec => []Inv
BY InitInv, NextInv, PTL DEF Spec

\* Type correctness.
THEOREM TypeCorrect == Spec => []TypeOK
<1>1. Inv => TypeOK
  BY DEF Inv
<1>2. QED
  BY <1>1, InvariantHolds, PTL

\* A rider has two active bikes only after two overlapping assignments of that
\* rider: what the updateMany of assignRiderToBikeTx and createBikeForFleet
\* achieve without an index on the rider.
THEOREM RiderHasOneBike == Spec => []OneBikePerRider
<1>1. Inv => OneBikePerRider
  BY DEF Inv
<1>2. QED
  BY <1>1, InvariantHolds, PTL

\* Every step that is not a commit of a new row is a small step of the
\* hand-over or none.
LEMMA OtherSteps ==
  ASSUME Inv, NEW h \in Handlers,
         \/ Deactivate(h) \/ InsertRow(h) \/ Fail(h)
         \/ ReturnBikes(h) \/ DeleteDismissed(h) \/ DisableDismissed(h)
  PROVE  [Handover!Next]_Handover!vars
<1>1. CASE Deactivate(h) \/ InsertRow(h) \/ Fail(h)
  BY <1>1 DEF Deactivate, InsertRow, Fail, Handover!vars, Live, Here
<1>2. CASE ReturnBikes(h)
  <2>1. TxOK(h) /\ tx[h].pc = "lock" /\ tx[h].op = "dismiss"
    BY <1>2 DEF ReturnBikes, Deactivated, Inv
  <2>2. tx[h].rider \in Riders /\ tx[h].bike = None
    BY <2>1 DEF TxOK, Requests
  <2>3. tx[h].off \in SUBSET Handover!Of(tx[h].rider)
    BY <2>1, <2>2, AssignmentsAssumption DEF TxOK, Handover!Of, Inv, TypeOK, Rows
  <2>4. Handover!TakeBack(tx[h].rider)
    BY <1>2, <2>3 DEF ReturnBikes, Handover!TakeBack, Live, Here
  <2>5. QED
    BY <2>2, <2>4 DEF Handover!Next
<1>3. CASE DeleteDismissed(h)
  <2>1. tx[h].rider \in Riders
    BY <1>3, DeleteDismissedInv
  <2>2. Handover!Leave(tx[h].rider)
    BY <1>3, <2>1 DEF DeleteDismissed, EraseRider, Erase, Handover!Leave, Handover!Of,
       Live, Here, Statuses, Inv, TypeOK
  <2>3. QED
    BY <2>1, <2>2 DEF Handover!Next
<1>4. CASE DisableDismissed(h)
  BY <1>4, DisableDismissedInv DEF DisableDismissed, Handover!vars, Here
<1>5. QED
  BY <1>1, <1>2, <1>3, <1>4

\* Whatever the interleaving of the transactions, locks and failures, what the
\* committed rows show is the one-step hand-over of BikeHandover.
THEOREM ImplementsHandover == Spec => HandsOver
<1>1. Init => Handover!Init
  BY DEF Init, Handover!Init, Live, Here, Statuses
<1>2. Inv /\ [Next]_vars => [Handover!Next]_Handover!vars
  <2> SUFFICES ASSUME Inv, [Next]_vars PROVE [Handover!Next]_Handover!vars
    OBVIOUS
  <2>1. CASE UNCHANGED vars
    BY <2>1 DEF vars, Handover!vars, Live, Here
  <2>2. ASSUME NEW h \in Handlers, NEW b \in Bikes, NEW r \in Riders,
               \/ CreateAssignment(h, b, r) \/ CreateRiderWithBike(h, b, r)
               \/ CreatePersonalBike(h, b, r)
        PROVE  UNCHANGED Handover!vars
    BY <2>2 DEF CreateAssignment, CreateRiderWithBike, CreatePersonalBike, Open,
                Handover!vars, Live, Here
  <2>3. ASSUME NEW h \in Handlers, NEW r \in Riders, DeleteFleetUser(h, r)
        PROVE  UNCHANGED Handover!vars
    BY <2>3 DEF DeleteFleetUser, Open, Handover!vars, Live, Here
  <2>4. ASSUME NEW h \in Handlers, NEW row \in Rows, LockRow(h, row)
        PROVE  UNCHANGED Handover!vars
    BY <2>4 DEF LockRow, Handover!vars, Live, Here
  <2>5. ASSUME NEW h \in Handlers, Commit(h) PROVE Handover!Next
    <3>1. tx[h].bike \in Bikes /\ tx[h].rider \in Riders
      BY <2>5 DEF Commit, Inv, TxOK
    <3>2. QED
      BY <2>5, <3>1, CommitGives DEF Handover!Next
  <2>6. ASSUME NEW h \in Handlers,
               \/ Deactivate(h) \/ InsertRow(h) \/ Fail(h)
               \/ ReturnBikes(h) \/ DeleteDismissed(h) \/ DisableDismissed(h)
        PROVE  [Handover!Next]_Handover!vars
    BY <2>6, OtherSteps
  <2>7. ASSUME NEW r \in Riders, NEW s \in Statuses, UpdateRiderStatus(r, s)
        PROVE  UNCHANGED Handover!vars
    BY <2>7, UpdateRiderStatusInv DEF UpdateRiderStatus, Handover!vars, Here
  <2>8. ASSUME NEW r \in Riders, CreateRider(r) \/ DeleteRider(r) PROVE Handover!Next
    <3>1. CASE CreateRider(r)
      <4>1. Handover!Join(r)
        BY <3>1 DEF CreateRider, Handover!Join, Live, Here, Statuses, Inv, TypeOK
      <4>2. QED
        BY <4>1 DEF Handover!Next
    <3>2. CASE DeleteRider(r)
      <4>1. Handover!Leave(r)
        BY <3>2 DEF DeleteRider, EraseRider, Erase, Handover!Leave, Handover!Of,
           Live, Here, Statuses, Inv, TypeOK
      <4>2. QED
        BY <4>1 DEF Handover!Next
    <3>3. QED
      BY <2>8, <3>1, <3>2
  <2>9. ASSUME NEW b \in Bikes, CreateBike(b) \/ DeleteBike(b) PROVE Handover!Next
    <3>1. CASE CreateBike(b)
      <4>1. Handover!Buy(b)
        BY <3>1 DEF CreateBike, Handover!Buy, Live, Here, Inv, TypeOK
      <4>2. QED
        BY <4>1 DEF Handover!Next
    <3>2. CASE DeleteBike(b)
      <4>1. Handover!Scrap(b)
        BY <3>2 DEF DeleteBike, Erase, Handover!Scrap, Live, Here, Inv, TypeOK
      <4>2. QED
        BY <4>1 DEF Handover!Next
    <3>3. QED
      BY <2>9, <3>1, <3>2
  <2>10. QED
    BY <2>1, <2>2, <2>3, <2>4, <2>5, <2>6, <2>7, <2>8, <2>9 DEF Next
<1>3. QED
  BY <1>1, <1>2, InvariantHolds, PTL DEF Spec, HandsOver, Handover!Spec

\* A bike has at most one active rider, and active rows name existing bikes and
\* accounts: the abstract ledger, inherited through the refinement.
THEOREM BikeHasOneRider == Spec => []Handover!Ledger
BY ImplementsHandover, HandoverLedger, PTL DEF HandsOver
=============================================================================
