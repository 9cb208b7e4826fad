---------------------------- MODULE Assignments -----------------------------
(***************************************************************************)
(* Riders, bikes and the active bike assignments of one fleet: the         *)
(* assignment transaction of RidersService, the two places that run it or  *)
(* one like it (a rider created with a bike, a bike created in a PERSONAL  *)
(* fleet), the removal of a fleet user, and the deletion of riders and     *)
(* bikes.                                                                  *)
(*                                                                         *)
(* The transactions run at PostgreSQL's READ COMMITTED.  The updateMany    *)
(* that deactivates rows picks them from a snapshot, locks them one by one *)
(* and looks again at a row it had to wait for; rows committed after its   *)
(* snapshot it does not see.  The insert waits for every transaction that  *)
(* may still decide its index entry, and then meets the partial unique     *)
(* index on the bike.                                                      *)
(***************************************************************************)
EXTENDS Naturals

CONSTANTS
    Handlers,  \* requests served at the same time
    Bikes,
    Riders,
    Personal,  \* fleet.type === 'PERSONAL'
    None

ASSUME AssignmentsAssumption ==
    /\ Personal \in BOOLEAN
    /\ None \notin Bikes \cup Riders

VARIABLES
    account,  \* the rider's User row: "new" before it exists, its status, "gone"
    bike,     \* the Bike row: "new", "here" or "gone"
    active,   \* the committed active BikeAssignment rows, as <<bike, rider>>
    tx,       \* what each request is doing
    doubled   \* history: riders whose last assignment overlapped another of theirs

vars == <<account, bike, active, tx, doubled>>

\* Of the five values of UserStatus nothing here tells the other three apart.
Statuses == {"ACTIVE", "DISABLED"}
Rows == Bikes \X Riders
Quiet == [pc |-> "idle", op |-> "none", bike |-> None, rider |-> None,
          todo |-> {}, off |-> {}, alone |-> TRUE]

\* The type invariant.
TypeOK ==
    /\ account \in [Riders -> Statuses \cup {"new", "gone"}]
    /\ bike \in [Bikes -> {"new", "here", "gone"}]
    /\ active \subseteq Rows
    /\ tx \in [Handlers ->
           [pc : {"idle", "read", "lock", "commit", "delete", "disable"},
            op : {"assign", "hire", "personal", "dismiss", "none"},
            bike : Bikes \cup {None}, rider : Riders \cup {None},
            todo : SUBSET Rows, off : SUBSET Rows, alone : BOOLEAN]]
    /\ doubled \subseteq Riders

Live(r) == account[r] \in Statuses
Here(b) == bike[b] = "here"

\* Ids are generated by the request that creates the row.
Unclaimed(b, r) == \A h \in Handlers :
    /\ tx[h].op = "hire" => tx[h].rider # r
    /\ tx[h].op = "personal" => tx[h].bike # b

\* The row h has inserted and not yet committed.
Inserted(h) ==
    IF tx[h].pc = "commit" THEN {<<tx[h].bike, tx[h].rider>>} ELSE {}

\* The rows that others than h have locked or inserted.
HeldByOther(h) == UNION {tx[g].off \cup Inserted(g) : g \in Handlers \ {h}}

Gone(rows) == [h \in Handlers |-> [tx[h] EXCEPT !.todo = @ \ rows]]

Init ==
    /\ account = [r \in Riders |-> "new"]
    /\ bike = [b \in Bikes |-> "new"]
    /\ active = {}
    /\ tx = [h \in Handlers |-> Quiet]
    /\ doubled = {}

-----------------------------------------------------------------------------
(* The requests that change assignments. *)

Open(h, op, b, r) ==
    /\ tx[h].pc = "idle"
    /\ tx' = [tx EXCEPT ![h] = [Quiet EXCEPT !.pc = "read", !.op = op,
                                             !.bike = b, !.rider = r]]
    /\ UNCHANGED <<account, bike, active, doubled>>

\* Reads the bike, the rider and the bike's active row.  When the row is the
\* rider's own the request answers with it and changes nothing.
CreateAssignment(h, b, r) ==
    /\ Here(b) /\ Live(r)
    /\ <<b, r>> \notin active
    /\ Open(h, "assign", b, r)

\* The account is created in the same transaction, unseen by the others.
CreateRiderWithBike(h, b, r) ==
    /\ account[r] = "new" /\ Unclaimed(None, r)
    /\ Here(b)
    /\ Open(h, "hire", b, r)

\* A bike of a PERSONAL fleet goes to a rider of the fleet.
CreatePersonalBike(h, b, r) ==
    /\ Personal
    /\ bike[b] = "new" /\ Unclaimed(b, None)
    /\ Live(r)
    /\ Open(h, "personal", b, r)

DeleteFleetUser(h, r) ==
    /\ Live(r)
    /\ Open(h, "dismiss", None, r)

\* Mutant of Scope: the bikes the rider already has are left alone.
ScopeOfBike(h) == {row \in active : row[1] = tx[h].bike}

\* updateMany's snapshot: the rows of the bike and of the rider.
Scope(h) == {row \in active : row[1] = tx[h].bike \/ row[2] = tx[h].rider}

\* The requests that are between their snapshot and their commit for the rider.
Rivals(h) == {g \in Handlers \ {h} : /\ tx[g].pc \in {"lock", "commit"}
                                     /\ tx[g].op # "dismiss"
                                     /\ tx[g].rider = tx[h].rider}

Deactivate(h) ==
    /\ tx[h].pc = "read"
    /\ tx' = [g \in Handlers |->
                 IF g = h THEN [tx[h] EXCEPT !.pc = "lock", !.todo = Scope(h),
                                             !.alone = Rivals(h) = {}]
                 ELSE IF g \in Rivals(h) /\ tx[h].op # "dismiss"
                      THEN [tx[g] EXCEPT !.alone = FALSE]
                      ELSE tx[g]]
    /\ UNCHANGED <<account, bike, active, doubled>>

\* A row deactivated or deleted while it waited has left todo by then.
LockRow(h, row) ==
    /\ row \in tx[h].todo
    /\ row \notin HeldByOther(h)
    /\ tx' = [tx EXCEPT ![h].todo = @ \ {row}, ![h].off = @ \cup {row}]
    /\ UNCHANGED <<account, bike, active, doubled>>

Deactivated(h) == tx[h].pc = "lock" /\ tx[h].todo = {}

\* Mutant of IndexFree: without the migration that creates the index.
NoIndex(h) == TRUE

\* The unique index on (bikeId) WHERE active, and the foreign keys.  Only the
\* migrations create that index (prisma migrate deploy, as start:prod runs it);
\* the schema does not declare it, so prisma db push leaves a database without.
IndexFree(h) == \A row \in active : row[1] = tx[h].bike => row \in tx[h].off

RefersToRows(h) ==
    /\ tx[h].op = "hire" \/ Live(tx[h].rider)
    /\ tx[h].op = "personal" \/ Here(tx[h].bike)

\* Mutant of InsertRow: every updateMany is followed by an insert.
InsertAlways(h) ==
    /\ Deactivated(h)
    /\ tx' = [tx EXCEPT ![h].pc = "commit"]
    /\ UNCHANGED <<account, bike, active, doubled>>

InsertRow(h) ==
    /\ Deactivated(h)
    /\ tx[h].op # "dismiss"
    /\ \A row \in HeldByOther(h) : row[1] # tx[h].bike
    /\ IndexFree(h) /\ RefersToRows(h)
    /\ tx' = [tx EXCEPT ![h].pc = "commit"]
    /\ UNCHANGED <<account, bike, active, doubled>>

\* The audit entry is part of the transaction.
Commit(h) ==
    LET b == tx[h].bike
        r == tx[h].rider
    IN  /\ tx[h].pc = "commit"
        /\ active' = (active \ tx[h].off) \cup {<<b, r>>}
        /\ account' = IF tx[h].op = "hire" THEN [account EXCEPT ![r] = "ACTIVE"]
                                           ELSE account
        /\ bike' = IF tx[h].op = "personal" THEN [bike EXCEPT ![b] = "here"]
                                            ELSE bike
        /\ tx' = [Gone(tx[h].off) EXCEPT ![h] = Quiet]
        /\ doubled' = IF tx[h].alone THEN doubled \ {r} ELSE doubled \cup {r}

\* deleteFleetUser after its updateMany: no transaction is open.
Dismissal(h, pc) ==
    [Quiet EXCEPT !.pc = pc, !.op = "dismiss", !.rider = tx[h].rider]

\* Any statement may fail (a deadlock is broken by the database, a transaction
\* is rolled back after its time limit, the process may end), and the insert
\* fails on the index or on a foreign key.  Removing a user falls back to
\* disabling the account.
Fail(h) ==
    /\ tx[h].pc \in {"read", "lock", "commit", "delete"}
    /\ tx' = [tx EXCEPT ![h] = IF @.op = "dismiss" THEN Dismissal(h, "disable")
                                                   ELSE Quiet]
    /\ UNCHANGED <<account, bike, active, doubled>>

-----------------------------------------------------------------------------
(* The removal of a fleet user, after its updateMany. *)

ReturnBikes(h) ==
    /\ Deactivated(h)
    /\ tx[h].op = "dismiss"
    /\ active' = active \ tx[h].off
    /\ tx' = [Gone(tx[h].off) EXCEPT ![h] = Dismissal(h, "delete")]
    /\ UNCHANGED <<account, bike, doubled>>

\* A deletion cascades to the assignments and waits for those in use.
Erase(rows) ==
    /\ active' = active \ rows
    /\ \A h \in Handlers : rows \cap (tx[h].off \cup Inserted(h)) = {}

EraseRider(r) ==
    /\ Live(r)
    /\ \A h \in Handlers : tx[h].pc = "commit" => tx[h].rider # r
    /\ Erase({row \in active : row[2] = r})
    /\ account' = [account EXCEPT ![r] = "gone"]
    /\ UNCHANGED <<bike, doubled>>

\* The audit entry after the deletion may fail, which leads to the fallback too.
DeleteDismissed(h) ==
    /\ tx[h].pc = "delete"
    /\ EraseRider(tx[h].rider)
    /\ \E next \in {Quiet, Dismissal(h, "disable")} :
         tx' = [Gone({row \in active : row[2] = tx[h].rider}) EXCEPT ![h] = next]

\* The update fails when the account has meanwhile been deleted.
DisableDismissed(h) ==
    /\ tx[h].pc = "disable"
    /\ account' = IF Live(tx[h].rider)
                  THEN [account EXCEPT ![tx[h].rider] = "DISABLED"] ELSE account
    /\ tx' = [tx EXCEPT ![h] = Quiet]
    /\ UNCHANGED <<bike, active, doubled>>

-----------------------------------------------------------------------------
(* The requests of one statement. *)

DeleteRider(r) ==
    /\ EraseRider(r)
    /\ tx' = Gone({row \in active : row[2] = r})

DeleteBike(b) ==
    /\ Here(b)
    /\ \A h \in Handlers : tx[h].pc = "commit" => tx[h].bike # b
    /\ Erase({row \in active : row[1] = b})
    /\ bike' = [bike EXCEPT ![b] = "gone"]
    /\ tx' = Gone({row \in active : row[1] = b})
    /\ UNCHANGED <<account, doubled>>

CreateRider(r) ==
    /\ account[r] = "new" /\ Unclaimed(None, r)
    /\ account' = [account EXCEPT ![r] = "ACTIVE"]
    /\ UNCHANGED <<bike, active, tx, doubled>>

\* By the fleet itself; by HQ when the fleet is not PERSONAL or has no rider.
CreateBike(b) ==
    /\ bike[b] = "new" /\ Unclaimed(b, None)
    /\ bike' = [bike EXCEPT ![b] = "here"]
    /\ UNCHANGED <<account, active, tx, doubled>>

UpdateRiderStatus(r, s) ==
    /\ Live(r)
    /\ account' = [account EXCEPT ![r] = s]
    /\ UNCHANGED <<bike, active, tx, doubled>>

Next ==
    \/ \E h \in Handlers, b \in Bikes, r \in Riders :
           CreateAssignment(h, b, r) \/ CreateRiderWithBike(h, b, r)
             \/ CreatePersonalBike(h, b, r)
    \/ \E h \in Handlers, r \in Riders : DeleteFleetUser(h, r)
    \/ \E h \in Handlers, row \in Rows : LockRow(h, row)
    \/ \E h \in Handlers :
           \/ Deactivate(h) \/ InsertRow(h) \/ Commit(h) \/ Fail(h)
           \/ ReturnBikes(h) \/ DeleteDismissed(h) \/ DisableDismissed(h)
    \/ \E r \in Riders, s \in Statuses : UpdateRiderStatus(r, s)
    \/ \E r \in Riders : CreateRider(r) \/ DeleteRider(r)
    \/ \E b \in Bikes : CreateBike(b) \/ DeleteBike(b)

Spec == Init /\ [][Next]_vars

-----------------------------------------------------------------------------
(* Properties. *)

\* A rider has two active bikes only when the last two assignments of that
\* rider overlapped: the updateMany of assignRiderToBikeTx takes back every
\* other bike, and no index backs it up.
OneBikePerRider ==
    \A r \in Riders \ doubled : \A g, h \in active :
        g[2] = r /\ h[2] = r => g = h

\* The transactions implement the one-step hand-over of a bike, and with it
\* that a bike has one rider, whatever the interleaving of assignRiderToBikeTx,
\* createBikeForFleet, deleteFleetUser and the deletions.
Handover == INSTANCE BikeHandover WITH
    riders <- {r \in Riders : Live(r)},
    bikes <- {b \in Bikes : Here(b)},
    holds <- active
HandsOver == Handover!Spec
=============================================================================
