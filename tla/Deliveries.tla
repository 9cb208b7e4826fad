------------------------------ MODULE Deliveries ------------------------------
(***************************************************************************)
(* The delivery orders of a DELIVERY fleet: orders are created by the fleet *)
(* or by a partner, assigned by a dispatcher or automatically, moved        *)
(* through their statuses by a dispatcher or by the rider, and every change *)
(* is announced to the partner webhooks.  A request reads the row, checks   *)
(* it, and later updates it by id whatever it has become.                   *)
(***************************************************************************)
EXTENDS Naturals

CONSTANTS
    Deliveries,
    Riders,
    Hooks,        \* active webhooks of the fleet's partners
    Handlers,     \* requests served at the same time
    Dispatcher,   \* any owner, admin or dispatcher
    Nobody,       \* riderId null
    MaxRequests,  \* bound on requests
    MaxFaults     \* bound on failed requests

ASSUME DeliveriesAssumption ==
    /\ {MaxRequests, MaxFaults} \subseteq Nat
    /\ Dispatcher \notin Riders /\ Nobody \notin Riders

VARIABLES
    row,       \* Delivery rows
    riders,    \* rider accounts that exist
    request,   \* requests in progress
    told,      \* the status in the last Notification row for a webhook
    asked,     \* requests so far
    faults,    \* failed requests so far
    raced,     \* history: deliveries written under another request
    unheard    \* history: deliveries with a request that failed after its write

vars == <<row, riders, request, told, asked, faults, raced, unheard>>

Statuses == {"PENDING", "ASSIGNED", "PICKED_UP", "IN_TRANSIT", "DELIVERED", "FAILED"}
Terminal == {"DELIVERED", "FAILED"}
PickedUp == {"PICKED_UP", "IN_TRANSIT", "DELIVERED"}

\* The statuses that set a timestamp of their own when they are written.
Stamped == {"PICKED_UP", "IN_TRANSIT", "DELIVERED", "FAILED"}

RowType == [status : Statuses \cup {"new"}, rider : Riders \cup {Nobody},
            stamps : SUBSET Statuses]
NewRow == [status |-> "new", rider |-> Nobody, stamps |-> {}]

NoRequest == [pc |-> "none", delivery |-> Nobody, rider |-> Nobody,
              status |-> "PENDING", left |-> {}]

Busy(h) == request[h].pc # "none"
On(d) == {h \in Handlers : Busy(h) /\ request[h].delivery = d}

\* The type invariant; a delivery's rider has an account.
TypeOK ==
    /\ row \in [Deliveries -> RowType]
    /\ riders \subseteq Riders
    /\ \A d \in Deliveries : row[d].rider \in riders \cup {Nobody}
    /\ request \in [Handlers ->
           [pc : {"none", "rider", "choose", "assign", "status", "announce"},
            delivery : Deliveries \cup {Nobody}, rider : Riders \cup {Nobody},
            status : Statuses, left : SUBSET Hooks]]
    /\ \A h \in Handlers : Busy(h) => request[h].delivery \in Deliveries
    /\ told \in [Hooks -> [Deliveries -> Statuses \cup {"new"}]]
    /\ asked \in 0 .. MaxRequests /\ faults \in 0 .. MaxFaults
    /\ raced \subseteq Deliveries /\ unheard \subseteq Deliveries

Init ==
    /\ row = [d \in Deliveries |-> NewRow]
    /\ riders = Riders
    /\ request = [h \in Handlers |-> NoRequest]
    /\ told = [w \in Hooks |-> [d \in Deliveries |-> "new"]]
    /\ asked = 0 /\ faults = 0
    /\ raced = {} /\ unheard = {}

-----------------------------------------------------------------------------
(* What a request does first: it reads the row. *)

Begin(h, pc, d, r, s) ==
    /\ ~Busy(h) /\ asked < MaxRequests
    /\ request' = [request EXCEPT ![h] =
           [NoRequest EXCEPT !.pc = pc, !.delivery = d, !.rider = r, !.status = s]]
    /\ asked' = asked + 1
    /\ UNCHANGED <<row, riders, told, faults, raced, unheard>>

Goto(h, pc) == request' = [request EXCEPT ![h].pc = pc]
Done(h) == request' = [request EXCEPT ![h] = NoRequest]

Exists(d) == row[d].status # "new"

\* Mutant: a finished delivery is assigned again.
AssignAnyDelivery(h, d, r) ==
    /\ Exists(d)
    /\ Begin(h, "rider", d, r, "ASSIGNED")

AssignDelivery(h, d, r) ==
    /\ Exists(d) /\ row[d].status \notin Terminal
    /\ Begin(h, "rider", d, r, "ASSIGNED")

\* Then it looks the rider up.
CheckRider(h) ==
    /\ request[h].pc = "rider"
    /\ IF request[h].rider \in riders THEN Goto(h, "assign") ELSE Done(h)
    /\ UNCHANGED <<row, riders, told, asked, faults, raced, unheard>>

AutoAssignDelivery(h, d) ==
    /\ row[d].status = "PENDING"
    /\ Begin(h, "choose", d, Nobody, "ASSIGNED")

\* The nearest of the active riders that are online, with a bike and enough
\* battery: any of them, or none.
ChooseRider(h) ==
    /\ request[h].pc = "choose"
    /\ \/ \E r \in riders :
               request' = [request EXCEPT ![h].pc = "assign", ![h].rider = r]
       \/ Done(h)
    /\ UNCHANGED <<row, riders, told, asked, faults, raced, unheard>>

\* Mutant: a delivery may be handed over without a pickup.
SkipPickup == [s \in Statuses |->
    CASE s = "PENDING" -> {"ASSIGNED", "FAILED"}
      [] s = "ASSIGNED" -> {"PENDING", "PICKED_UP", "IN_TRANSIT", "FAILED"}
      [] s = "PICKED_UP" -> {"IN_TRANSIT", "DELIVERED", "FAILED"}
      [] s = "IN_TRANSIT" -> {"DELIVERED", "FAILED"}
      [] s \in Terminal -> {}]

VALID_TRANSITIONS == [s \in Statuses |->
    CASE s = "PENDING" -> {"ASSIGNED", "FAILED"}
      [] s = "ASSIGNED" -> {"PENDING", "PICKED_UP", "FAILED"}
      [] s = "PICKED_UP" -> {"IN_TRANSIT", "DELIVERED", "FAILED"}
      [] s = "IN_TRANSIT" -> {"DELIVERED", "FAILED"}
      [] s \in Terminal -> {}]

\* A rider may only move a delivery that is theirs; the status a delivery has
\* may be written again.
UpdateDeliveryStatus(h, d, s, actor) ==
    /\ Exists(d)
    /\ actor \in Riders => row[d].rider = actor
    /\ s = row[d].status \/ s \in VALID_TRANSITIONS[row[d].status]
    /\ Begin(h, "status", d, Nobody, s)

-----------------------------------------------------------------------------
(* The update by id, and what follows it. *)

\* The row that the update returns is the one announced.
Update(h, d, new) ==
    /\ row' = [row EXCEPT ![d] = new]
    /\ request' = [request EXCEPT ![h] =
           [NoRequest EXCEPT !.pc = "announce", !.delivery = d, !.status = new.status,
                             !.left = Hooks]]
    /\ raced' = IF On(d) \ {h} # {} THEN raced \cup {d} ELSE raced

\* createDelivery, and createDeliveryForPartner.
CreateDelivery(h, d) ==
    /\ ~Busy(h) /\ asked < MaxRequests
    /\ ~Exists(d)
    /\ Update(h, d, [NewRow EXCEPT !.status = "PENDING"])
    /\ asked' = asked + 1
    /\ UNCHANGED <<riders, told, faults, unheard>>

\* The foreign key refuses a rider who is gone by then.
WriteAssignment(h) ==
    LET d == request[h].delivery
        r == request[h].rider
    IN  /\ request[h].pc = "assign"
        /\ IF r \in riders
           THEN Update(h, d, [row[d] EXCEPT !.status = "ASSIGNED", !.rider = r,
                                            !.stamps = @ \cup {"ASSIGNED"}])
           ELSE Done(h) /\ UNCHANGED <<row, raced>>
        /\ UNCHANGED <<riders, told, asked, faults, unheard>>

\* The status and, for some statuses, its timestamp.  The rider stays.
WriteStatus(h) ==
    LET d == request[h].delivery
        s == request[h].status
    IN  /\ request[h].pc = "status"
        /\ Update(h, d, [row[d] EXCEPT !.status = s,
                                       !.stamps = @ \cup ({s} \cap Stamped)])
        /\ UNCHANGED <<riders, told, asked, faults, unheard>>

\* Mutant: an assignment is not announced.
AnnounceOthers(h, w) ==
    /\ request[h].pc = "announce" /\ w \in request[h].left
    /\ told' = [told EXCEPT ![w][request[h].delivery] =
                    IF request[h].status = "ASSIGNED" THEN @ ELSE request[h].status]
    /\ request' = [request EXCEPT ![h].left = @ \ {w}]
    /\ UNCHANGED <<row, riders, asked, faults, raced, unheard>>

\* One webhook's notification row and job.
Announce(h, w) ==
    /\ request[h].pc = "announce" /\ w \in request[h].left
    /\ told' = [told EXCEPT ![w][request[h].delivery] = request[h].status]
    /\ request' = [request EXCEPT ![h].left = @ \ {w}]
    /\ UNCHANGED <<row, riders, asked, faults, raced, unheard>>

Answer(h) ==
    /\ request[h].pc = "announce" /\ request[h].left = {}
    /\ Done(h)
    /\ UNCHANGED <<row, riders, told, asked, faults, raced, unheard>>

\* An error, in an audit entry or in the queue for instance, ends the request.
RequestFails(h) ==
    /\ Busy(h) /\ faults < MaxFaults
    /\ unheard' = IF request[h].pc = "announce" THEN unheard \cup {request[h].delivery}
                                                ELSE unheard
    /\ Done(h)
    /\ faults' = faults + 1
    /\ UNCHANGED <<row, riders, told, asked, raced>>

\* Mutant: the deliveries keep the id of the deleted account.
DeleteRiderOnly(r) ==
    /\ r \in riders
    /\ riders' = riders \ {r}
    /\ UNCHANGED <<row, request, told, asked, faults, raced, unheard>>

\* A rider account is deleted; the foreign key sets riderId to null.
DeleteRider(r) ==
    /\ r \in riders
    /\ riders' = riders \ {r}
    /\ row' = [d \in Deliveries |-> IF row[d].rider = r THEN [row[d] EXCEPT !.rider = Nobody]
                                                       ELSE row[d]]
    /\ UNCHANGED <<request, told, asked, faults, raced, unheard>>

Next ==
    \/ \E h \in Handlers :
           \/ \E d \in Deliveries :
                  \/ CreateDelivery(h, d) \/ AutoAssignDelivery(h, d)
                  \/ \E r \in Riders : AssignDelivery(h, d, r)
                  \/ \E s \in Statuses, a \in riders \cup {Dispatcher} :
                         UpdateDeliveryStatus(h, d, s, a)
           \/ CheckRider(h) \/ ChooseRider(h) \/ WriteAssignment(h) \/ WriteStatus(h)
           \/ \E w \in Hooks : Announce(h, w)
           \/ Answer(h) \/ RequestFails(h)
    \/ \E r \in Riders : DeleteRider(r)

Spec == Init /\ [][Next]_vars

-----------------------------------------------------------------------------
(* Properties. *)

\* However requests interleave, a delivery that is on its way or handed over
\* has its pickup time, and one that is over has the time it ended.
JourneyRecorded ==
    \A d \in Deliveries :
        /\ row[d].status \in PickedUp => "PICKED_UP" \in row[d].stamps
        /\ row[d].status \in Terminal => row[d].status \in row[d].stamps

\* A finished delivery stays finished unless a request was under way on it
\* when another one wrote it.
FinishedStays ==
    [][\A d \in Deliveries : row[d].status \in Terminal /\ d \notin raced'
           => row'[d].status = row[d].status]_vars

\* Once its requests are over, and unless they overlapped or failed, the last
\* thing every partner was told about a delivery is the status it has.
PartnersInformed ==
    \A d \in Deliveries, w \in Hooks :
        Exists(d) /\ On(d) = {} /\ d \notin raced \cup unheard => told[w][d] = row[d].status
=============================================================================
