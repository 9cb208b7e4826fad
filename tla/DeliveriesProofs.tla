--------------------------- MODULE DeliveriesProofs ---------------------------
(***************************************************************************)
(* Proofs about Deliveries: every property that the runs check holds for    *)
(* any number of deliveries, riders, webhooks and requests.                 *)
(***************************************************************************)
EXTENDS Deliveries, TLAPS

RequestType ==
    [pc : {"none", "rider", "choose", "assign", "status", "announce"},
     delivery : Deliveries \cup {Nobody}, rider : Riders \cup {Nobody},
     status : Statuses, left : SUBSET Hooks]

Assigning == {"rider", "choose", "assign"}

\* What a request in progress still knows about the row it has read or
\* written.  A pickup is never forgotten; the status can have changed only
\* if the requests overlapped.
RequestOK(h) ==
    LET d == request[h].delivery
        s == request[h].status
    IN  /\ request[h].pc \in Assigning /\ d \notin raced => row[d].status \notin Terminal
        /\ request[h].pc = "status" =>
               /\ s \in {"IN_TRANSIT", "DELIVERED"} => "PICKED_UP" \in row[d].stamps
               /\ d \notin raced => \/ s = row[d].status
                                    \/ row[d].status \notin Terminal
        /\ request[h].pc = "announce" /\ d \notin raced => s = row[d].status

\* A webhook that has not been told the status of a delivery is about to be.
ToldOrPending(d, w) ==
    d \notin raced \cup unheard =>
        \/ told[w][d] = row[d].status
        \/ \E h \in Handlers : /\ request[h].pc = "announce"
                               /\ request[h].delivery = d /\ w \in request[h].left

\* An order that does not exist yet has no timestamps.
NewIsBlank == \A d \in Deliveries : row[d].status = "new" => row[d].stamps = {}

Inv ==
    /\ TypeOK
    /\ JourneyRecorded /\ NewIsBlank
    /\ \A h \in Handlers : RequestOK(h)
    /\ \A d \in Deliveries, w \in Hooks : ToldOrPending(d, w)

-----------------------------------------------------------------------------

LEMMA NoRequestType == NoRequest \in RequestType
BY DEF NoRequest, RequestType, Statuses

\* A request that only reads.
LEMMA ReadStep ==
    ASSUME Inv, NEW h \in Handlers, NEW q \in RequestType,
           request' = [request EXCEPT ![h] = q],
           request[h].pc = "announce" => request[h].left = {} \/ request[h].delivery \in unheard',
           q.pc # "none" => q.delivery \in Deliveries,
           UNCHANGED <<row, riders, told, raced>>,
           unheard \subseteq unheard', unheard' \subseteq Deliveries,
           asked' \in 0 .. MaxRequests, faults' \in 0 .. MaxFaults,
           RequestOK(h)'
    PROVE  Inv'
<1>1. /\ request \in [Handlers -> RequestType]
      /\ \A g \in Handlers : request[g].pc # "none" => request[g].delivery \in Deliveries
  BY DEF Inv, TypeOK, RequestType, Busy
<1>2. /\ request' \in [Handlers -> RequestType] /\ request'[h] = q
      /\ \A g \in Handlers \ {h} : request'[g] = request[g]
  BY <1>1
<1>3. TypeOK'
  <2>1. \A g \in Handlers : request'[g].pc # "none" => request'[g].delivery \in Deliveries
    BY <1>1, <1>2
  <2>. QED  BY <1>2, <2>1 DEF Inv, TypeOK, RequestType, Busy
<1>4. JourneyRecorded' /\ NewIsBlank'
  BY DEF Inv, JourneyRecorded, NewIsBlank
<1>5. \A g \in Handlers : RequestOK(g)'
  <2>1. ASSUME NEW g \in Handlers, g # h  PROVE RequestOK(g)'
    <3>1. request'[g] = request[g]  BY <1>2, <2>1
    <3>2. RequestOK(g)  BY DEF Inv
    <3>. QED  BY <3>1, <3>2 DEF RequestOK
  <2>. QED  BY <2>1
<1>6. ASSUME NEW d \in Deliveries, NEW w \in Hooks  PROVE ToldOrPending(d, w)'
  <2>1. ToldOrPending(d, w)  BY DEF Inv
  <2>2. SUFFICES ASSUME d \notin raced \cup unheard', told[w][d] # row[d].status
                 PROVE  \E g \in Handlers : /\ request'[g].pc = "announce"
                                            /\ request'[g].delivery = d
                                            /\ w \in request'[g].left
    BY DEF ToldOrPending
  <2>3. PICK g \in Handlers : /\ request[g].pc = "announce"
                              /\ request[g].delivery = d /\ w \in request[g].left
    BY <2>1, <2>2 DEF ToldOrPending
  <2>4. g # h  BY <2>2, <2>3
  <2>. QED  BY <1>2, <2>3, <2>4
<1>. QED  BY <1>3, <1>4, <1>5, <1>6 DEF Inv

\* A request that writes its row.
LEMMA UpdateStep ==
    ASSUME Inv, NEW h \in Handlers, NEW d \in Deliveries, NEW new \in RowType,
           new.status \in Statuses, Update(h, d, new),
           request[h].pc # "announce",
           new.rider \in riders \cup {Nobody},
           row[d].stamps \subseteq new.stamps,
           new.status \in PickedUp => "PICKED_UP" \in new.stamps,
           new.status \in Terminal => new.status \in new.stamps,
           UNCHANGED <<riders, told, unheard, faults>>, asked' \in 0 .. MaxRequests
    PROVE  Inv'
<1>. DEFINE q == [NoRequest EXCEPT !.pc = "announce", !.delivery = d,
                                   !.status = new.status, !.left = Hooks]
<1>0. /\ q \in RequestType /\ q.pc = "announce" /\ q.delivery = d
      /\ q.status = new.status /\ q.left = Hooks
  BY DEF RequestType, NoRequest
<1>1. /\ request \in [Handlers -> RequestType]
      /\ \A g \in Handlers : request[g].pc # "none" => request[g].delivery \in Deliveries
      /\ row \in [Deliveries -> RowType]
  BY DEF Inv, TypeOK, RequestType, Busy
<1>. HIDE DEF q
<1>2. /\ request' = [request EXCEPT ![h] = q]
      /\ request' \in [Handlers -> RequestType] /\ request'[h] = q
      /\ \A g \in Handlers \ {h} : request'[g] = request[g]
  BY <1>0, <1>1 DEF Update, q
<1>3. /\ row' \in [Deliveries -> RowType] /\ row'[d] = new
      /\ \A e \in Deliveries \ {d} : row'[e] = row[e]
  BY <1>1 DEF Update
<1>4. /\ raced \subseteq raced' /\ raced' \subseteq raced \cup {d}
      /\ \A g \in Handlers \ {h} : request[g].pc # "none" /\ request[g].delivery = d
             => d \in raced'
  BY DEF Update, On, Busy
<1>5. TypeOK'
  <2>1. \A g \in Handlers : request'[g].pc # "none" => request'[g].delivery \in Deliveries
    BY <1>0, <1>1, <1>2
  <2>2. \A e \in Deliveries : row'[e].rider \in riders \cup {Nobody}
    BY <1>3 DEF Inv, TypeOK
  <2>3. raced' \subseteq Deliveries
    BY <1>4 DEF Inv, TypeOK
  <2>. QED  BY <1>2, <1>3, <2>1, <2>2, <2>3 DEF Inv, TypeOK, RequestType, Busy
<1>6. JourneyRecorded' /\ NewIsBlank'
  BY <1>3 DEF Inv, JourneyRecorded, NewIsBlank, Statuses
<1>7. ASSUME NEW g \in Handlers  PROVE RequestOK(g)'
  <2>1. CASE g = h
    BY <1>0, <1>2, <1>3, <2>1 DEF RequestOK, Assigning
  <2>2. CASE g # h
    <3>1. request'[g] = request[g]  BY <1>2, <2>2
    <3>2. RequestOK(g)  BY DEF Inv
    <3>3. CASE request[g].pc = "none"
      BY <3>1, <3>3 DEF RequestOK, Assigning
    <3>4. CASE request[g].pc # "none" /\ request[g].delivery # d
      <4>1. /\ request[g].delivery \in Deliveries
            /\ row'[request[g].delivery] = row[request[g].delivery]
            /\ request[g].delivery \in raced' <=> request[g].delivery \in raced
        BY <1>1, <1>3, <1>4, <3>4
      <4>. QED  BY <3>1, <3>2, <4>1 DEF RequestOK
    <3>5. CASE request[g].pc # "none" /\ request[g].delivery = d
      BY <1>3, <1>4, <2>2, <3>1, <3>2, <3>5 DEF RequestOK, Assigning
    <3>. QED  BY <3>3, <3>4, <3>5
  <2>. QED  BY <2>1, <2>2
<1>8. ASSUME NEW e \in Deliveries, NEW w \in Hooks  PROVE ToldOrPending(e, w)'
  <2>1. CASE e = d
    BY <1>0, <1>2, <2>1 DEF ToldOrPending
  <2>2. CASE e # d
    <3>1. ToldOrPending(e, w)  BY DEF Inv
    <3>2. row'[e] = row[e] /\ (e \in raced' <=> e \in raced)  BY <1>3, <1>4, <2>2
    <3>3. \A g \in Handlers : request[g].pc = "announce" => request'[g] = request[g]
      BY <1>2
    <3>. QED  BY <3>1, <3>2, <3>3 DEF ToldOrPending
  <2>. QED  BY <2>1, <2>2
<1>. QED  BY <1>5, <1>6, <1>7, <1>8 DEF Inv

LEMMA InitInv == Init => Inv
<1>. SUFFICES ASSUME Init PROVE Inv
  OBVIOUS
<1>1. request \in [Handlers -> RequestType]
  BY NoRequestType DEF Init
<1>2. \A h \in Handlers : request[h].pc = "none"
  BY DEF Init, NoRequest
<1>3. TypeOK
  BY <1>1, <1>2, DeliveriesAssumption
     DEF Init, TypeOK, RequestType, Busy, NewRow, RowType, Statuses
<1>4. \A h \in Handlers : RequestOK(h)
  BY <1>2 DEF RequestOK, Assigning
<1>5. JourneyRecorded /\ NewIsBlank
  BY DEF Init, JourneyRecorded, NewIsBlank, NewRow, PickedUp, Terminal
<1>6. \A d \in Deliveries, w \in Hooks : ToldOrPending(d, w)
  BY DEF Init, ToldOrPending, NewRow
<1>. QED  BY <1>3, <1>4, <1>5, <1>6 DEF Inv

\* A request that reads its row and goes on.
LEMMA BeginStep ==
    ASSUME Inv, NEW h \in Handlers, NEW d \in Deliveries,
           NEW r \in Riders \cup {Nobody}, NEW s \in Statuses,
           NEW pc \in {"rider", "choose", "status"}, Begin(h, pc, d, r, s),
           pc # "status" => row[d].status \notin Terminal,
           pc = "status" => \/ s = row[d].status
                            \/ /\ row[d].status \notin Terminal
                               /\ s \in {"IN_TRANSIT", "DELIVERED"}
                                      => row[d].status \in PickedUp
    PROVE  Inv'
<1>. DEFINE q == [NoRequest EXCEPT !.pc = pc, !.delivery = d, !.rider = r, !.status = s]
<1>1. /\ q \in RequestType /\ q.pc = pc /\ q.delivery = d /\ q.status = s
  BY DEF RequestType, NoRequest
<1>2. request \in [Handlers -> RequestType] /\ request[h].pc = "none"
  BY DEF Inv, TypeOK, RequestType, Begin, Busy
<1>3. request' = [request EXCEPT ![h] = q]
  BY DEF Begin
<1>4. request'[h] = q
  BY <1>2, <1>3
<1>. HIDE DEF q
<1>5. asked' \in 0 .. MaxRequests /\ faults' \in 0 .. MaxFaults
  BY DeliveriesAssumption DEF Begin, Inv, TypeOK
<1>6. s \in {"IN_TRANSIT", "DELIVERED"} /\ pc = "status" => "PICKED_UP" \in row[d].stamps
  BY DEF Inv, JourneyRecorded, PickedUp
<1>7. RequestOK(h)'
  BY <1>1, <1>4, <1>6 DEF RequestOK, Assigning, Begin
<1>8. /\ UNCHANGED <<row, riders, told, raced>>
      /\ unheard \subseteq unheard' /\ unheard' \subseteq Deliveries
  BY DEF Begin, Inv, TypeOK
<1>. QED  BY <1>1, <1>2, <1>3, <1>5, <1>7, <1>8, ReadStep

LEMMA TransitionFacts ==
    ASSUME NEW a \in Statuses, NEW s \in VALID_TRANSITIONS[a]
    PROVE  /\ s \in Statuses /\ a \notin Terminal
           /\ s \in {"IN_TRANSIT", "DELIVERED"} => a \in PickedUp
BY DEF VALID_TRANSITIONS, Statuses, Terminal, PickedUp

\* A request that ends.
LEMMA DoneStep ==
    ASSUME Inv, NEW h \in Handlers, Done(h),
           request[h].pc = "announce" => request[h].left = {} \/ request[h].delivery \in unheard',
           UNCHANGED <<row, riders, told, asked, raced>>,
           unheard \subseteq unheard', unheard' \subseteq Deliveries,
           faults' \in 0 .. MaxFaults
    PROVE  Inv'
<1>1. request \in [Handlers -> RequestType]
  BY DEF Inv, TypeOK, RequestType
<1>2. request'[h] = NoRequest /\ NoRequest.pc = "none"
  BY <1>1 DEF Done, NoRequest
<1>3. RequestOK(h)'
  BY <1>2 DEF RequestOK, Assigning
<1>4. asked' \in 0 .. MaxRequests
  BY DEF Inv, TypeOK
<1>. QED  BY <1>2, <1>3, <1>4, NoRequestType, ReadStep DEF Done

LEMMA NextInv == Inv /\ [Next]_vars => Inv'
<1>. SUFFICES ASSUME Inv, [Next]_vars PROVE Inv'
  OBVIOUS
<1>0. /\ request \in [Handlers -> RequestType]
      /\ \A g \in Handlers : request[g].pc # "none" => request[g].delivery \in Deliveries
      /\ row \in [Deliveries -> RowType]
      /\ \A e \in Deliveries : row[e].rider \in riders \cup {Nobody}
      /\ asked' = asked => asked' \in 0 .. MaxRequests
      /\ asked' = asked + 1 /\ asked < MaxRequests => asked' \in 0 .. MaxRequests
      /\ faults \in 0 .. MaxFaults
  BY DeliveriesAssumption DEF Inv, TypeOK, RequestType, Busy
<1>1. ASSUME NEW h \in Handlers, NEW d \in Deliveries, CreateDelivery(h, d)
      PROVE  Inv'
  <2>. DEFINE new == [NewRow EXCEPT !.status = "PENDING"]
  <2>1. /\ new \in RowType /\ new.status = "PENDING" /\ new.rider = Nobody
        /\ new.stamps = {}
    BY DEF NewRow, RowType, Statuses
  <2>2. Update(h, d, new) /\ UNCHANGED <<riders, told, unheard, faults>>
    BY <1>1 DEF CreateDelivery
  <2>. HIDE DEF new
  <2>3. row[d].stamps \subseteq new.stamps
    BY <1>1 DEF CreateDelivery, Exists, Inv, NewIsBlank
  <2>4. request[h].pc # "announce" /\ asked' \in 0 .. MaxRequests
    BY <1>0, <1>1 DEF CreateDelivery, Busy
  <2>5. new.status \in Statuses /\ new.status \notin PickedUp /\ new.status \notin Terminal
    BY <2>1 DEF Statuses, PickedUp, Terminal
  <2>. QED  BY <2>1, <2>2, <2>3, <2>4, <2>5, UpdateStep
<1>2. ASSUME NEW h \in Handlers, NEW d \in Deliveries, AutoAssignDelivery(h, d)
      PROVE  Inv'
  <2>1. row[d].status \notin Terminal /\ "ASSIGNED" \in Statuses
    BY <1>2 DEF AutoAssignDelivery, Terminal, Statuses
  <2>. QED  BY <1>2, <2>1, BeginStep DEF AutoAssignDelivery
<1>3. ASSUME NEW h \in Handlers, NEW d \in Deliveries, NEW r \in Riders, AssignDelivery(h, d, r)
      PROVE  Inv'
  <2>1. row[d].status \notin Terminal /\ "ASSIGNED" \in Statuses
    BY <1>3 DEF AssignDelivery, Statuses
  <2>. QED  BY <1>3, <2>1, BeginStep DEF AssignDelivery
<1>4. ASSUME NEW h \in Handlers, NEW d \in Deliveries, NEW s \in Statuses,
             NEW a \in riders \cup {Dispatcher}, UpdateDeliveryStatus(h, d, s, a)
      PROVE  Inv'
  <2>1. row[d].status \in Statuses
    BY <1>0, <1>4 DEF UpdateDeliveryStatus, Exists, RowType
  <2>2. \/ s = row[d].status
        \/ /\ row[d].status \notin Terminal
           /\ s \in {"IN_TRANSIT", "DELIVERED"} => row[d].status \in PickedUp
    BY <1>4, <2>1, TransitionFacts DEF UpdateDeliveryStatus
  <2>. QED  BY <1>4, <2>2, BeginStep DEF UpdateDeliveryStatus
<1>5. ASSUME NEW h \in Handlers, CheckRider(h)  PROVE Inv'
  <2>1. CASE request[h].rider \in riders
    <3>. DEFINE q == [request[h] EXCEPT !.pc = "assign"]
    <3>1. /\ q \in RequestType /\ q.pc = "assign" /\ q.delivery = request[h].delivery
          /\ request[h].pc = "rider" /\ request[h].delivery \in Deliveries
      BY <1>0, <1>5 DEF CheckRider, RequestType
    <3>2. request' = [request EXCEPT ![h] = q] /\ request'[h] = q
      BY <1>0, <1>5, <2>1 DEF CheckRider, Goto
    <3>. HIDE DEF q
    <3>3. RequestOK(h)'
      BY <1>5, <3>1, <3>2 DEF Inv, RequestOK, Assigning, CheckRider
    <3>. QED  BY <1>0, <1>5, <3>1, <3>2, <3>3, ReadStep DEF CheckRider, Inv, TypeOK
  <2>2. CASE request[h].rider \notin riders
    BY <1>0, <1>5, <2>2, DoneStep DEF CheckRider, Inv, TypeOK
  <2>. QED  BY <2>1, <2>2
<1>6. ASSUME NEW h \in Handlers, ChooseRider(h)  PROVE Inv'
  <2>1. ASSUME NEW r \in riders,
               request' = [request EXCEPT ![h].pc = "assign", ![h].rider = r]
        PROVE  Inv'
    <3>. DEFINE q == [request[h] EXCEPT !.pc = "assign", !.rider = r]
    <3>0. r \in Riders
      BY DEF Inv, TypeOK
    <3>1. /\ q \in RequestType /\ q.pc = "assign" /\ q.delivery = request[h].delivery
          /\ request[h].pc = "choose" /\ request[h].delivery \in Deliveries
      BY <1>0, <1>6, <3>0 DEF ChooseRider, RequestType
    <3>2. request' = [request EXCEPT ![h] = q] /\ request'[h] = q
      BY <1>0, <2>1
    <3>. HIDE DEF q
    <3>3. RequestOK(h)'
      BY <1>6, <3>1, <3>2 DEF Inv, RequestOK, Assigning, ChooseRider
    <3>. QED  BY <1>0, <1>6, <3>1, <3>2, <3>3, ReadStep DEF ChooseRider, Inv, TypeOK
  <2>2. CASE Done(h)
    BY <1>0, <1>6, <2>2, DoneStep DEF ChooseRider, Inv, TypeOK
  <2>. QED  BY <1>6, <2>1, <2>2 DEF ChooseRider
<1>7. ASSUME NEW h \in Handlers, WriteAssignment(h)  PROVE Inv'
  <2>. DEFINE d == request[h].delivery
              r == request[h].rider
              new == [row[d] EXCEPT !.status = "ASSIGNED", !.rider = r,
                                    !.stamps = @ \cup {"ASSIGNED"}]
  <2>0. d \in Deliveries /\ row[d] \in RowType /\ request[h].pc # "announce"
    BY <1>0, <1>7 DEF WriteAssignment
  <2>1. CASE r \in riders
    <3>0. r \in Riders
      BY <2>1 DEF Inv, TypeOK
    <3>1. /\ new \in RowType /\ new.status = "ASSIGNED" /\ new.rider = r
          /\ row[d].stamps \subseteq new.stamps
      BY <2>0, <3>0 DEF RowType, Statuses
    <3>2. Update(h, d, new) /\ UNCHANGED <<riders, told, unheard, faults, asked>>
      BY <1>7, <2>1 DEF WriteAssignment
    <3>. HIDE DEF new, d, r
    <3>3. new.status \in Statuses /\ new.status \notin PickedUp /\ new.status \notin Terminal
      BY <3>1 DEF Statuses, PickedUp, Terminal
    <3>. QED  BY <1>0, <2>0, <2>1, <3>1, <3>2, <3>3, UpdateStep
  <2>2. CASE r \notin riders
    BY <1>0, <1>7, <2>0, <2>2, DoneStep DEF WriteAssignment, Inv, TypeOK
  <2>. QED  BY <2>1, <2>2
<1>8. ASSUME NEW h \in Handlers, WriteStatus(h)  PROVE Inv'
  <2>. DEFINE d == request[h].delivery
              s == request[h].status
              new == [row[d] EXCEPT !.status = s, !.stamps = @ \cup ({s} \cap Stamped)]
  <2>0. /\ d \in Deliveries /\ row[d] \in RowType /\ request[h].pc = "status"
        /\ s \in Statuses
    BY <1>0, <1>8 DEF WriteStatus, RequestType
  <2>1. /\ new \in RowType /\ new.status = s /\ new.rider = row[d].rider
        /\ new.stamps = row[d].stamps \cup ({s} \cap Stamped)
    BY <2>0 DEF RowType
  <2>2. Update(h, d, new) /\ UNCHANGED <<riders, told, unheard, faults, asked>>
    BY <1>8 DEF WriteStatus
  <2>3. s \in {"IN_TRANSIT", "DELIVERED"} => "PICKED_UP" \in row[d].stamps
    BY <2>0 DEF Inv, RequestOK
  <2>. HIDE DEF new, d, s
  <2>4. /\ s \in PickedUp => "PICKED_UP" \in new.stamps
        /\ s \in Terminal => s \in new.stamps
    BY <2>1, <2>3 DEF PickedUp, Terminal, Stamped
  <2>. QED  BY <1>0, <2>0, <2>1, <2>2, <2>4, UpdateStep
<1>9. ASSUME NEW h \in Handlers, NEW w \in Hooks, Announce(h, w)  PROVE Inv'
  <2>. DEFINE d == request[h].delivery
              q == [request[h] EXCEPT !.left = @ \ {w}]
  <2>0. /\ request[h].pc = "announce" /\ d \in Deliveries
        /\ UNCHANGED <<row, riders, asked, faults, raced, unheard>>
    BY <1>0, <1>9 DEF Announce
  <2>1. /\ q \in RequestType /\ q.pc = "announce" /\ q.delivery = d
        /\ q.status = request[h].status /\ q.left = request[h].left \ {w}
    BY <1>0, <2>0 DEF RequestType
  <2>2. /\ request' \in [Handlers -> RequestType] /\ request'[h] = q
        /\ \A g \in Handlers \ {h} : request'[g] = request[g]
    BY <1>0, <1>9, <2>1 DEF Announce
  <2>3. /\ told' \in [Hooks -> [Deliveries -> Statuses \cup {"new"}]]
        /\ told'[w][d] = request[h].status
        /\ \A v \in Hooks, e \in Deliveries : v # w \/ e # d => told'[v][e] = told[v][e]
    <3>1. /\ told \in [Hooks -> [Deliveries -> Statuses \cup {"new"}]]
          /\ request[h].status \in Statuses
      BY <1>0 DEF Inv, TypeOK, RequestType
    <3>2. told' = [told EXCEPT ![w] = [told[w] EXCEPT ![d] = request[h].status]]
      BY <1>9 DEF Announce
    <3>. HIDE DEF d
    <3>. QED  BY <2>0, <3>1, <3>2
  <2>. HIDE DEF q, d
  <2>4. \A g \in Handlers : /\ request'[g].pc = request[g].pc
                            /\ request'[g].delivery = request[g].delivery
                            /\ request'[g].status = request[g].status
                            /\ g # h => request'[g].left = request[g].left
    BY <2>0, <2>1, <2>2 DEF d
  <2>5. TypeOK'
    BY <1>0, <2>0, <2>2, <2>3, <2>4 DEF Inv, TypeOK, RequestType, Busy
  <2>6. JourneyRecorded' /\ NewIsBlank'
    BY <2>0 DEF Inv, JourneyRecorded, NewIsBlank
  <2>7. ASSUME NEW g \in Handlers  PROVE RequestOK(g)'
    BY <2>0, <2>4 DEF Inv, RequestOK
  <2>8. ASSUME NEW e \in Deliveries, NEW v \in Hooks  PROVE ToldOrPending(e, v)'
    <3>1. ToldOrPending(e, v)
      BY DEF Inv
    <3>2. CASE e = d /\ v = w
      <4>1. d \notin raced => request[h].status = row[d].status
        BY <2>0 DEF Inv, RequestOK, d
      <4>. QED  BY <2>0, <2>3, <3>2, <4>1 DEF ToldOrPending
    <3>3. CASE ~(e = d /\ v = w)
      <4>1. told'[v][e] = told[v][e]
        BY <2>3, <3>3
      <4>2. SUFFICES ASSUME e \notin raced \cup unheard, told[v][e] # row[e].status
                     PROVE  \E g \in Handlers : /\ request'[g].pc = "announce"
                                                /\ request'[g].delivery = e
                                                /\ v \in request'[g].left
        BY <2>0, <4>1 DEF ToldOrPending
      <4>3. PICK g \in Handlers : /\ request[g].pc = "announce"
                                  /\ request[g].delivery = e /\ v \in request[g].left
        BY <3>1, <4>2 DEF ToldOrPending
      <4>4. v \in request'[g].left
        BY <2>1, <2>2, <2>4, <3>3, <4>3 DEF d
      <4>. QED  BY <2>4, <4>3, <4>4
    <3>. QED  BY <3>2, <3>3
  <2>. QED  BY <2>5, <2>6, <2>7, <2>8 DEF Inv
<1>10. ASSUME NEW h \in Handlers, Answer(h)  PROVE Inv'
  BY <1>0, <1>10, DoneStep DEF Answer, Inv, TypeOK
<1>11. ASSUME NEW h \in Handlers, RequestFails(h)  PROVE Inv'
  <2>1. faults' \in 0 .. MaxFaults
    BY <1>0, <1>11, DeliveriesAssumption DEF RequestFails
  <2>2. request[h].pc = "announce" => request[h].delivery \in Deliveries
    BY <1>0
  <2>3. /\ unheard \subseteq unheard' /\ unheard' \subseteq Deliveries
        /\ request[h].pc = "announce" => request[h].delivery \in unheard'
    BY <1>11, <2>2 DEF RequestFails, Inv, TypeOK
  <2>. QED  BY <1>11, <2>1, <2>3, DoneStep DEF RequestFails
<1>12. ASSUME NEW r \in Riders, DeleteRider(r)  PROVE Inv'
  <2>1. /\ row' \in [Deliveries -> RowType]
        /\ \A d \in Deliveries : /\ row'[d].status = row[d].status
                                 /\ row'[d].stamps = row[d].stamps
                                 /\ row'[d].rider \in riders' \cup {Nobody}
    <3>1. ASSUME NEW d \in Deliveries
          PROVE  /\ row'[d] \in RowType
                 /\ row'[d].status = row[d].status /\ row'[d].stamps = row[d].stamps
                 /\ row'[d].rider \in riders' \cup {Nobody}
      <4>1. row[d] \in RowType
        BY <1>0
      <4>2. row'[d] = IF row[d].rider = r THEN [row[d] EXCEPT !.rider = Nobody] ELSE row[d]
        BY <1>12 DEF DeleteRider
      <4>. QED  BY <1>0, <1>12, <4>1, <4>2 DEF RowType, DeleteRider
    <3>. QED  BY <1>12, <3>1 DEF DeleteRider
  <2>2. /\ UNCHANGED <<request, told, asked, faults, raced, unheard>>
        /\ riders' \subseteq riders
    BY <1>12 DEF DeleteRider
  <2>3. TypeOK'
    BY <2>1, <2>2 DEF Inv, TypeOK, Busy
  <2>4. JourneyRecorded' /\ NewIsBlank'
    BY <2>1 DEF Inv, JourneyRecorded, NewIsBlank
  <2>5. ASSUME NEW g \in Handlers  PROVE RequestOK(g)'
    <3>1. CASE request[g].pc = "none"
      BY <2>2, <3>1 DEF RequestOK, Assigning
    <3>2. CASE request[g].pc # "none"
      BY <1>0, <2>1, <2>2, <3>2 DEF Inv, RequestOK
    <3>. QED  BY <3>1, <3>2
  <2>6. ASSUME NEW d \in Deliveries, NEW w \in Hooks  PROVE ToldOrPending(d, w)'
    BY <2>1, <2>2 DEF Inv, ToldOrPending
  <2>. QED  BY <2>3, <2>4, <2>5, <2>6 DEF Inv
<1>13. CASE UNCHANGED vars
  BY <1>13 DEF vars, Inv, TypeOK, JourneyRecorded, NewIsBlank, RequestOK, ToldOrPending, Busy
<1>. QED
  BY <1>1, <1>2, <1>3, <1>4, <1>5, <1>6, <1>7, <1>8, <1>9, <1>10, <1>11, <1>12, <1>13
     DEF Next

-----------------------------------------------------------------------------

\* The invariant holds in every state.
THEOREM InvariantHolds == Spec => []Inv
BY InitInv, NextInv, PTL DEF Spec

\* Every variable keeps its type, and a delivery names no rider whose account
\* is gone: the update meets the foreign key, the deletion clears it.
THEOREM TypeCorrect == Spec => []TypeOK
<1>1. Inv => TypeOK
  BY DEF Inv
<1>. QED  BY <1>1, InvariantHolds, PTL

\* updateDeliveryStatus checks the transition against a row that may change
\* before it writes; the pickup time is there all the same, since no request
\* ever clears it.
THEOREM JourneyIsRecorded == Spec => []JourneyRecorded
<1>1. Inv => JourneyRecorded
  BY DEF Inv
<1>. QED  BY <1>1, InvariantHolds, PTL

\* enqueueDeliveryWebhookNotifications leaves every partner with the status
\* that the delivery has, unless requests overlapped or one of them failed.
THEOREM PartnersAreInformed == Spec => []PartnersInformed
<1>1. Inv => PartnersInformed
  BY DEF Inv, PartnersInformed, ToldOrPending, On, Busy
<1>. QED  BY <1>1, InvariantHolds, PTL

\* DELIVERED and FAILED are left only by a request that overlapped the one
\* that ended the delivery.
THEOREM FinishedDeliveriesStay == Spec => FinishedStays
<1>. DEFINE Stays == \A d \in Deliveries : row[d].status \in Terminal /\ d \notin raced'
                         => row'[d].status = row[d].status
<1>1. Inv /\ [Next]_vars => [Stays]_vars
  <2>. SUFFICES ASSUME Inv, Next, NEW d \in Deliveries,
                       row[d].status \in Terminal, d \notin raced'
                PROVE  row'[d].status = row[d].status
    OBVIOUS
  <2>0. /\ row \in [Deliveries -> RowType]
        /\ \A g \in Handlers : request[g].pc # "none" => request[g].delivery \in Deliveries
    BY DEF Inv, TypeOK, Busy
  <2>1. ASSUME NEW h \in Handlers, NEW e \in Deliveries, CreateDelivery(h, e)
        PROVE  row'[d].status = row[d].status
    BY <2>0, <2>1 DEF CreateDelivery, Exists, Update, Terminal
  <2>2. ASSUME NEW h \in Handlers, WriteAssignment(h)
        PROVE  row'[d].status = row[d].status
    BY <2>0, <2>2 DEF WriteAssignment, Update, Inv, RequestOK, Assigning
  <2>3. ASSUME NEW h \in Handlers, WriteStatus(h)
        PROVE  row'[d].status = row[d].status
    <3>1. request[h].delivery = d => request[h].status = row[d].status
      BY <2>3 DEF WriteStatus, Update, Inv, RequestOK
    <3>2. /\ request[h].delivery \in Deliveries
          /\ row' = [row EXCEPT ![request[h].delivery] =
                 [row[request[h].delivery] EXCEPT !.status = request[h].status,
                     !.stamps = @ \cup ({request[h].status} \cap Stamped)]]
      BY <2>0, <2>3 DEF WriteStatus, Update
    <3>3. row[d] \in RowType
      BY <2>0
    <3>4. CASE request[h].delivery = d
      BY <2>0, <3>1, <3>2, <3>3, <3>4 DEF RowType
    <3>5. CASE request[h].delivery # d
      BY <2>0, <3>2, <3>5
    <3>. QED  BY <3>4, <3>5
  <2>4. ASSUME NEW r \in Riders, DeleteRider(r)
        PROVE  row'[d].status = row[d].status
    <3>1. row[d] \in RowType
      BY <2>0
    <3>. QED  BY <2>4, <3>1 DEF DeleteRider, RowType
  <2>5. \/ row' = row
        \/ \E h \in Handlers : \/ \E e \in Deliveries : CreateDelivery(h, e)
                                \/ WriteAssignment(h) \/ WriteStatus(h)
        \/ \E r \in Riders : DeleteRider(r)
    BY DEF Next, AutoAssignDelivery, AssignDelivery, UpdateDeliveryStatus, Begin,
           CheckRider, ChooseRider, Announce, Answer, RequestFails
  <2>. QED  BY <2>1, <2>2, <2>3, <2>4, <2>5
<1>2. Spec => [][Stays]_vars
  BY <1>1, InvariantHolds, PTL DEF Spec
<1>. QED  BY <1>2 DEF FinishedStays
=============================================================================
