----------------------------- MODULE TripBuilder -----------------------------
(***************************************************************************)
(* How TripBuilderService turns the telemetry of one device into trips.     *)
(* Its runtime state is a JSON value in Redis that a call reads, changes    *)
(* and writes back; nothing keeps two calls for one device apart (packets   *)
(* of an MQTT client are handled concurrently, packets of one SinoTrack     *)
(* connection in turn).  A finalizing key guards the start of a trip while  *)
(* another one is written to the database.                                  *)
(*                                                                         *)
(* A time is the timestamp of a packet; 0 stands for an absent field.  A     *)
(* packet is moving at or above TRIP_START_SPEED_KPH and TRIP_END_SPEED_KPH, *)
(* which are equal by default.                                              *)
(***************************************************************************)
EXTENDS Integers, Sequences

CONSTANTS
    Handlers,       \* packets processed at the same time
    MaxTime,        \* packets carry a time in 1 .. MaxTime
    MaxPackets,     \* bound on the packets processed
    MaxFaults,      \* bound on failed calls
    StartMovement,  \* TRIP_START_MOVEMENT_SECONDS
    EndIdle,        \* TRIP_END_IDLE_SECONDS
    MaxDuration,    \* MAX_TRIP_DURATION_SECONDS
    MinDuration,    \* MIN_TRIP_DURATION_SEC
    Cooldown        \* TRIP_COOLDOWN_SEC

ASSUME TripBuilderAssumption ==
    /\ {MaxPackets, MaxFaults, MinDuration, Cooldown} \subseteq Nat
    /\ {MaxTime, StartMovement, EndIdle, MaxDuration} \subseteq Nat \ {0}

VARIABLES
    state,      \* the device's trip state in Redis
    lock,       \* the finalizing key is present
    trips,      \* Trip rows of the bike, as <<start, end>>
    summaries,  \* what was published on the trips stream
    call,       \* the calls in progress
    sent,       \* packets so far
    faults,     \* failed calls so far
    track,      \* history: what the saved packets of each time said
    stale,      \* history: some call wrote over a change it had not read
    lost,       \* history: the state was deleted, by a forced end or by its TTL
    clash       \* history: two calls were writing trips at the same time

vars == <<state, lock, trips, summaries, call, sent, faults, track, stale, lost, clash>>

Times == 1 .. MaxTime
Packets == [ts : Times, moving : BOOLEAN, ignition : {"on", "off", "unknown"}]
States == [start : 0 .. MaxTime, candidate : 0 .. MaxTime, idle : 0 .. MaxTime,
           last : 0 .. MaxTime, ended : 0 .. MaxTime]
Spans == {s \in Times \X Times : s[1] < s[2]}

NoState == [start |-> 0, candidate |-> 0, idle |-> 0, last |-> 0, ended |-> 0]
NoPacket == [ts |-> 1, moving |-> FALSE, ignition |-> "unknown"]
NoCall == [pc |-> "none", packet |-> NoPacket, seen |-> NoState, next |-> NoState,
           trip |-> <<1, 1>>, locked |-> FALSE]

\* The type invariant.  A row, a summary and a trip about to be written last
\* for some time.
TypeOK ==
    /\ state \in States
    /\ lock \in BOOLEAN
    /\ trips \subseteq Spans
    /\ summaries \in Seq(Spans)
    /\ call \in [Handlers ->
           [pc : {"none", "ready", "save", "clear", "lock", "end", "finalize", "create",
                  "publish", "unlock"},
            packet : Packets, seen : States, next : States,
            trip : Times \X Times, locked : BOOLEAN]]
    /\ \A h \in Handlers : call[h].pc \in {"create", "publish"} => call[h].trip \in Spans
    /\ sent \in 0 .. MaxPackets /\ faults \in 0 .. MaxFaults
    /\ track \in [Times -> {"none", "stop", "move"}]
    /\ {stale, lost, clash} \subseteq BOOLEAN

Init ==
    /\ state = NoState /\ lock = FALSE
    /\ trips = {} /\ summaries = <<>>
    /\ call = [h \in Handlers |-> NoCall]
    /\ sent = 0 /\ faults = 0
    /\ track = [t \in Times |-> "none"]
    /\ stale = FALSE /\ lost = FALSE /\ clash = FALSE

-----------------------------------------------------------------------------
(* What a packet does to the state that was read. *)

Accepted(s, p) == [s EXCEPT !.last = p.ts]

InCooldown(s, p) == s.ended # 0 /\ p.ts - s.ended < Cooldown

\* handleIdleState: the ignition starts a trip at once, movement after a while.
StartConditions(s, p) ==
    LET t == Accepted(s, p)
        Begin(at) == [t EXCEPT !.start = at, !.candidate = 0, !.idle = 0]
    IN  IF p.ignition = "on" /\ ~InCooldown(s, p) THEN Begin(p.ts)
        ELSE IF ~p.moving THEN [t EXCEPT !.candidate = 0]
        ELSE IF s.candidate = 0 THEN [t EXCEPT !.candidate = p.ts]
        ELSE IF p.ts - s.candidate >= StartMovement THEN Begin(s.candidate) ELSE t

\* The idle clock of a running trip.
Idled(s, p) ==
    [Accepted(s, p) EXCEPT !.idle = IF p.moving THEN 0 ELSE IF @ = 0 THEN p.ts ELSE @]

EndByIgnition(p) == p.ignition = "off" /\ ~p.moving
EndByIdle(s, p) == ~p.moving /\ p.ts - Idled(s, p).idle >= EndIdle

\* Mutant: the trip always ends at the packet that ends it.
EndAtPacket(s, p) == p.ts

EndTs(s, p) == IF EndByIdle(s, p) THEN Idled(s, p).idle ELSE p.ts

Ended(s, p) == [Idled(s, p) EXCEPT !.ended = EndTs(s, p), !.start = 0, !.candidate = 0,
                                   !.idle = 0]

\* Which way the call goes, and what it is going to write.
Decision(s, p) ==
    LET c == [NoCall EXCEPT !.packet = p, !.seen = s]
    IN  IF s.start = 0
        THEN [c EXCEPT !.pc = "ready", !.next = StartConditions(s, p)]
        ELSE IF p.ts - s.start >= MaxDuration
        THEN [c EXCEPT !.pc = "clear", !.trip = <<s.start, p.ts>>]
        ELSE IF EndByIgnition(p) \/ EndByIdle(s, p)
        THEN [c EXCEPT !.pc = "lock", !.next = Ended(s, p),
                       !.trip = <<s.start, EndTs(s, p)>>, !.locked = TRUE]
        ELSE [c EXCEPT !.pc = "save", !.next = Idled(s, p)]

Busy(h) == call[h].pc # "none"
Done(h) == call' = [call EXCEPT ![h] = NoCall]
Goto(h, pc) == call' = [call EXCEPT ![h].pc = pc]

\* The call ends, after releasing the finalizing key if it set it.
Finish(h) == IF call[h].locked THEN Goto(h, "unlock") ELSE Done(h)

\* A packet arrives and the state is read; an older packet than the last one
\* is dropped.
Load(h, p) ==
    /\ ~Busy(h) /\ sent < MaxPackets
    /\ p.ts >= state.last
    /\ call' = [call EXCEPT ![h] = Decision(state, p)]
    /\ sent' = sent + 1
    /\ UNCHANGED <<state, lock, trips, summaries, faults, track, stale, lost, clash>>

\* No trip starts, and nothing is saved, while another one is being written.
CheckFinalizing(h) ==
    /\ call[h].pc = "ready"
    /\ IF lock THEN Done(h) ELSE Goto(h, "save")
    /\ UNCHANGED <<state, lock, trips, summaries, sent, faults, track, stale, lost, clash>>

Write(h, s) ==
    /\ state' = s
    /\ stale' = (stale \/ state # call[h].seen)

Observe(p) ==
    track' = [track EXCEPT ![p.ts] = IF p.moving \/ @ = "move" THEN "move" ELSE "stop"]

SaveState(h) ==
    /\ call[h].pc = "save"
    /\ Write(h, call[h].next) /\ Observe(call[h].packet)
    /\ Done(h)
    /\ UNCHANGED <<lock, trips, summaries, sent, faults, lost, clash>>

\* A trip that lasts too long is ended where it is; the whole state goes.
ForceEnd(h) ==
    /\ call[h].pc = "clear"
    /\ Write(h, NoState) /\ Observe(call[h].packet)
    /\ lost' = TRUE
    /\ Goto(h, "finalize")
    /\ UNCHANGED <<lock, trips, summaries, sent, faults, clash>>

SetFinalizing(h) ==
    /\ call[h].pc = "lock"
    /\ lock' = TRUE
    /\ Goto(h, "end")
    /\ UNCHANGED <<state, trips, summaries, sent, faults, track, stale, lost, clash>>

\* Mutant: the trip stays active until its row is written.
EndLater(h) ==
    /\ call[h].pc = "end"
    /\ Write(h, [call[h].next EXCEPT !.start = call[h].seen.start])
    /\ Observe(call[h].packet)
    /\ Goto(h, "finalize")
    /\ UNCHANGED <<lock, trips, summaries, sent, faults, lost, clash>>

\* The active trip is cleared before its row is written.
EndTrip(h) ==
    /\ call[h].pc = "end"
    /\ Write(h, call[h].next) /\ Observe(call[h].packet)
    /\ Goto(h, "finalize")
    /\ UNCHANGED <<lock, trips, summaries, sent, faults, lost, clash>>

-----------------------------------------------------------------------------
(* finalizeTrip. *)

\* Too short in time or, by the distance its telemetry points add up to, which
\* is any, in distance.
DiscardTrip(h) ==
    /\ call[h].pc = "finalize"
    /\ Finish(h)
    /\ UNCHANGED <<state, lock, trips, summaries, sent, faults, track, stale, lost, clash>>

Overlaps(s, t) == s[1] < t[2] /\ s[2] > t[1]

\* Mutant: the rows of other trips are left alone.
KeepOverlaps(h) ==
    /\ call[h].pc = "finalize"
    /\ call[h].trip[1] < call[h].trip[2]
    /\ call[h].trip[2] - call[h].trip[1] >= MinDuration
    /\ clash' = (clash \/ \E g \in Handlers \ {h} : call[g].pc = "create")
    /\ Goto(h, "create")
    /\ UNCHANGED <<state, lock, trips, summaries, sent, faults, track, stale, lost>>

\* Mutant: the check of the two ends is gone and the minimum is off by one.
DeleteAnyOverlaps(h) ==
    /\ call[h].pc = "finalize"
    /\ call[h].trip[2] - call[h].trip[1] >= MinDuration - 1
    /\ trips' = {t \in trips : ~Overlaps(t, call[h].trip)}
    /\ clash' = (clash \/ \E g \in Handlers \ {h} : call[g].pc = "create")
    /\ Goto(h, "create")
    /\ UNCHANGED <<state, lock, summaries, sent, faults, track, stale, lost>>

\* The trip is kept, and the rows it overlaps are deleted.
DeleteOverlaps(h) ==
    /\ call[h].pc = "finalize"
    /\ call[h].trip[1] < call[h].trip[2]
    /\ call[h].trip[2] - call[h].trip[1] >= MinDuration
    /\ trips' = {t \in trips : ~Overlaps(t, call[h].trip)}
    /\ clash' = (clash \/ \E g \in Handlers \ {h} : call[g].pc = "create")
    /\ Goto(h, "create")
    /\ UNCHANGED <<state, lock, summaries, sent, faults, track, stale, lost>>

\* The unique index on bike and start discards a second trip of one start.
CreateTrip(h) ==
    /\ call[h].pc = "create"
    /\ IF \E t \in trips : t[1] = call[h].trip[1]
       THEN trips' = trips /\ Finish(h)
       ELSE trips' = trips \cup {call[h].trip} /\ Goto(h, "publish")
    /\ UNCHANGED <<state, lock, summaries, sent, faults, track, stale, lost, clash>>

PublishSummary(h) ==
    /\ call[h].pc = "publish"
    /\ summaries' = Append(summaries, call[h].trip)
    /\ Finish(h)
    /\ UNCHANGED <<state, lock, trips, sent, faults, track, stale, lost, clash>>

ReleaseFinalizing(h) ==
    /\ call[h].pc = "unlock"
    /\ lock' = FALSE
    /\ Done(h)
    /\ UNCHANGED <<state, trips, summaries, sent, faults, track, stale, lost, clash>>

-----------------------------------------------------------------------------

\* Redis or the database refuses, or the process ends: the call goes no further.
CallFails(h) ==
    /\ Busy(h) /\ faults < MaxFaults
    /\ Done(h)
    /\ faults' = faults + 1
    /\ UNCHANGED <<state, lock, trips, summaries, sent, track, stale, lost, clash>>

\* The finalizing key lives two minutes.
LockExpires ==
    /\ lock
    /\ lock' = FALSE
    /\ UNCHANGED <<state, trips, summaries, call, sent, faults, track, stale, lost, clash>>

\* The state lives a day after its last packet.
StateExpires ==
    /\ state # NoState /\ \A h \in Handlers : ~Busy(h)
    /\ state' = NoState
    /\ lost' = TRUE
    /\ UNCHANGED <<lock, trips, summaries, call, sent, faults, track, stale, clash>>

Next ==
    \/ \E h \in Handlers :
           \/ \E p \in Packets : Load(h, p)
           \/ CheckFinalizing(h) \/ SaveState(h) \/ ForceEnd(h)
           \/ SetFinalizing(h) \/ EndTrip(h)
           \/ DiscardTrip(h) \/ DeleteOverlaps(h) \/ CreateTrip(h)
           \/ PublishSummary(h) \/ ReleaseFinalizing(h)
           \/ CallFails(h)
    \/ LockExpires \/ StateExpires

Spec == Init /\ [][Next]_vars

-----------------------------------------------------------------------------
(* Properties. *)

Coherent == ~stale /\ ~lost

\* Two trips of the bike cover the same time only when two calls were between
\* deleting the overlapping rows and creating their own, whatever the order
\* in which packets arrive and however stale the state was that a call wrote.
TripsApart == ~clash => \A s, t \in trips : s # t => ~Overlaps(s, t)

\* As long as the state in Redis is neither lost nor written over, a trip that
\* is stored is not deleted by the clean-up of overlapping trips.
RidesKept == [][(Coherent /\ Coherent') => trips \subseteq trips']_vars

\* Nor do the summaries on the stream ever cover a time twice, whichever calls
\* fail half way: what a packet is judged by is what the packet before it left.
SummariesApart ==
    Coherent => \A i, j \in DOMAIN summaries :
                    i # j => ~Overlaps(summaries[i], summaries[j])

\* What the code's comments and docs/walkthrough.md say of clearing the active
\* trip before its row is written: packets handled together do not make
\* duplicate trips of one start.  Two packets that have both read the active
\* trip do; see the run trips_shut.
NoDuplicateTrips ==
    \A i, j \in DOMAIN summaries : i # j => summaries[i][1] # summaries[j][1]

\* A stored trip does not run on through a stop: no two standing packets after
\* its start lie EndIdle apart with no moving packet between them.
StopEndsTrip ==
    Coherent => \A t \in trips : \A a, b \in t[1] + 1 .. t[2] :
        b - a >= EndIdle /\ track[a] = "stop" /\ track[b] = "stop"
            => \E c \in a .. b : track[c] = "move"
=============================================================================
