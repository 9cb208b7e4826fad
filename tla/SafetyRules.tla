----------------------------- MODULE SafetyRules -----------------------------
(***************************************************************************)
(* RulesEngineService for the telemetry of one device: the rules that       *)
(* compare a packet with limits, the crash rule (a drop against the         *)
(* previous sample), the ignition-off movement rule and the station visits, *)
(* with the Redis keys they share, and the events they create (Incidents).  *)
(*                                                                         *)
(* Packets of a SinoTrack socket are handled one after the other; MQTT      *)
(* messages are handled concurrently.  Speeds, timestamps and cooldowns are *)
(* small numbers; Redis answers (its in-memory fallback is not modelled).   *)
(***************************************************************************)
EXTENDS Incidents, Sequences, FiniteSets

CONSTANTS
    Handlers,         \* packets handled at the same time
    Samples,          \* contents of packets: [speed, ignition, accel, hits, station]
    Lags,             \* how much later than its timestamp a packet may arrive, by content
    Channels,         \* how packets arrive: "sinotrack" or "mqtt"; on "app" there are
                      \* none, and the events come from the rider or the device
    Incoming,         \* kinds of the events that devices send themselves
    LimitKeys,        \* cooldown keys of the rules on limits
    RuleOf, Limit,    \* the rule of each of them, and its cooldown
    CrashCooldown,    \* CRASH_EVENT_COOLDOWN_SECONDS
    TheftCooldown,    \* THEFT_EVENT_COOLDOWN_SECONDS
    TheftAfter,       \* THEFT_MOVEMENT_SECONDS
    StopCooldown,     \* cooldown of station stops
    Drop,             \* CRASH_SPEED_DROP_THRESHOLD_KPH
    Rate, Cap,        \* SOFTWARE_CRASH_G_THRESHOLD as a drop per unit of time, and the
                      \* longest time it is taken over (effectiveTimeDelta)
    LastTtl,          \* LAST_SPEED_STATE_TTL_SECONDS
    Window,           \* the longest gap between samples a drop is computed over
    MaxPackets,       \* bound on the packets of a socket
    MaxTogether,      \* bound on the packets that MQTT delivers
    MaxTime           \* bound on the clock

LimitRules == {"overspeed", "harsh", "night", "powerCut", "road", "boundary"}
RuleOrder == <<"overspeed", "harsh", "crash", "movement", "night", "powerCut",
               "road", "boundary", "station", "store">>
\* The keys that are claimed for an event: of a movement without ignition, "active".
AlarmKeys == LimitKeys \cup {"crash", "active"}
Keys == AlarmKeys \cup {"start", "stop", "last"}

SampleType == [speed : Nat, ignition : BOOLEAN, station : BOOLEAN,
               accel : {"absent", "calm", "impact", "fall"}, hits : SUBSET LimitKeys]

ASSUME RulesAssumption ==
    /\ IsFiniteSet(Handlers) /\ Samples \subseteq SampleType
    /\ Channels \subseteq {"sinotrack", "mqtt", "app"} /\ Lags \in [Samples -> SUBSET Nat]
    /\ Incoming \subseteq {"severe crash", "crash", "SOS", "other"}
    /\ LimitKeys \cap {"crash", "active", "start", "stop", "last", "none"} = {}
    /\ RuleOf \in [LimitKeys -> LimitRules] /\ Limit \in [LimitKeys -> Nat]
    /\ {CrashCooldown, TheftCooldown, TheftAfter, StopCooldown, Drop, Rate, Cap, LastTtl,
        Window} \subseteq Nat
    /\ {MaxPackets, MaxTogether, MaxTime} \subseteq Nat /\ MaxTogether <= MaxPackets

VARIABLES
    now,       \* the clock
    channel,   \* where the events come from
    kv,        \* the keys of the device in Redis
    handler,   \* the packets being evaluated
    packets,   \* how many have been received
    span,      \* history: timestamps of the movement since the last packet without
    previous,  \* history: the packet received last, and when
    moves,     \* history: how often the key of a movement has been deleted
    alarms     \* history: events of the rules, in the order stored: the key claimed, in
               \* which movement and when, and whether the event is justified

world == <<now, channel, packets>>
past == <<span, previous, moves, alarms>>
ruleVars == <<world, past, kv, handler>>
vars == <<reportVars, ruleVars>>

Nothing == [speed |-> 0, ts |-> 0]
Nobody == [last |-> Nothing, at |-> 0]
Empty == [until |-> [k \in Keys |-> 0], start |-> 0, last |-> Nothing,
          visits |-> 0, worked |-> FALSE]
NoSample == [speed |-> 0, ignition |-> FALSE, station |-> FALSE, accel |-> "absent", hits |-> {}]
Waiting == [pc |-> "idle", sample |-> NoSample, ts |-> 0, rule |-> 1, got |-> 0,
            due |-> 0, event |-> {}, left |-> {}, key |-> "none", move |-> 0]

HandlerType ==
    [pc : {"idle", "rule", "claim", "report", "wait", "begin", "clear", "activate",
           "stop", "count", "visit", "worked"},
     sample : SampleType, ts : 0 .. MaxTime, rule : 1 .. Len(RuleOrder), got : Nat,
     due : Nat, event : SUBSET Events, left : SUBSET LimitKeys,
     key : AlarmKeys \cup {"none"}, move : Nat]

\* The type invariant.
TypeOK ==
    /\ ReportType
    /\ now \in 0 .. MaxTime /\ channel \in Channels
    /\ kv \in [until : [Keys -> Nat], start : Nat, last : [speed : Nat, ts : Nat],
               visits : 0 .. MaxPackets, worked : BOOLEAN]
    /\ handler \in [Handlers -> HandlerType]
    /\ \A h \in Handlers : handler[h].pc # "idle" => handler[h].sample \in Samples
    /\ packets \in 0 .. MaxPackets /\ span \subseteq 0 .. MaxTime
    /\ previous \in [last : [speed : Nat, ts : Nat], at : 0 .. MaxTime]
    /\ moves \in Nat
    /\ alarms \in Seq([key : AlarmKeys, move : Nat, at : Nat, just : BOOLEAN])

Init ==
    /\ ReportInit
    /\ now = 0 /\ channel \in Channels /\ kv = Empty
    /\ handler = [h \in Handlers |-> Waiting]
    /\ packets = 0
    /\ span = {} /\ previous = Nobody /\ moves = 0 /\ alarms = <<>>

-----------------------------------------------------------------------------
(* The keys. *)

Has(k) == kv.until[k] > now
Set(k, ttl) == [kv EXCEPT !.until[k] = now + ttl]
Del(k) == [kv EXCEPT !.until[k] = 0]

RuleAt(h) == RuleOrder[handler[h].rule]
CooldownOf(k) == CASE k = "crash"  -> CrashCooldown
                   [] k = "active" -> TheftCooldown
                   [] OTHER        -> Limit[k]

\* The next rule that has anything to do for the packet, from rule i on: a rule on
\* limits only when there are keys of its left.
FromRule(s, left, i) ==
    LET rules == {RuleOf[k] : k \in left}
    IN  CHOOSE j \in i .. Len(RuleOrder) :
            /\ RuleOrder[j] \in LimitRules => RuleOrder[j] \in rules
            /\ RuleOrder[j] = "station" => s.speed = 0
            /\ \A k \in i .. j - 1 : \/ RuleOrder[k] \in LimitRules \ rules
                                     \/ RuleOrder[k] = "station" /\ s.speed # 0

Goto(h, pc) == handler' = [handler EXCEPT ![h].pc = pc]
Got(h, pc, value) == handler' = [handler EXCEPT ![h].pc = pc, ![h].got = value]

\* The packet goes on from rule i with the keys in left.
Proceed(h, left, i) ==
    handler' = [handler EXCEPT ![h] =
        [handler[h] EXCEPT !.pc = "rule", !.event = {}, !.got = 0, !.key = "none", !.move = 0,
             !.due = IF RuleAt(h) = "crash" THEN 0 ELSE handler[h].due,
             !.left = left, !.rule = FromRule(handler[h].sample, left, i)]]
NextRule(h) == Proceed(h, handler[h].left, handler[h].rule + 1)

\* After an event: a rule on limits goes on with its other keys.
Rest(h) == IF RuleAt(h) \in LimitRules THEN handler[h].rule ELSE handler[h].rule + 1

\* The key k has been claimed now, and its event is to be created.
Claimed(h, k) ==
    handler' = [handler EXCEPT ![h] =
        [handler[h] EXCEPT !.pc = "report", !.got = now, !.left = handler[h].left \ {k},
             !.key = k, !.move = IF k = "active" THEN moves ELSE 0]]

Moving(s) == s.speed > 0
Rolling(s) == ~s.ignition /\ Moving(s)

\* evaluateCrash: without an accelerometer a drop from the sample before, not too long
\* ago, that also takes the estimated g-force over its threshold; with one, a strong
\* impact and a drop or a fall.
Fell(s, ts, last) ==
    \/ /\ s.accel = "absent"
       /\ ts > last.ts /\ ts - last.ts <= Window
       /\ last.speed >= s.speed + Drop
       /\ last.speed >= s.speed + Rate * (IF ts - last.ts < Cap THEN ts - last.ts ELSE Cap)
    \/ s.accel = "impact" /\ last.speed >= s.speed + Drop
    \/ s.accel = "fall"

-----------------------------------------------------------------------------
(* One packet. *)

\* The histories are only kept for a socket.
OnSocket == channel = "sinotrack"

Receive(h, s, lag) ==
    /\ up /\ handler[h].pc = "idle"
    /\ packets < (IF OnSocket THEN MaxPackets ELSE MaxTogether) /\ channel # "app"
    /\ OnSocket => \A g \in Handlers : handler[g].pc = "idle"
    /\ lag <= now
    /\ LET ts == now - lag IN
       /\ handler' = [handler EXCEPT ![h] =
              [Waiting EXCEPT !.pc = "rule", !.sample = s, !.ts = ts, !.left = s.hits,
                              !.rule = FromRule(s, s.hits, 1),
                              !.due = IF packets > 0 /\ OnSocket /\ Fell(s, ts, previous.last)
                                      THEN previous.at + LastTtl ELSE 0]]
       /\ span' = IF OnSocket /\ Rolling(s) THEN span \cup {ts} ELSE {}
       /\ previous' = IF OnSocket
                       THEN [last |-> [speed |-> s.speed, ts |-> ts], at |-> now] ELSE Nobody
    /\ packets' = packets + 1
    /\ UNCHANGED <<reportVars, now, channel, kv, moves, alarms>>

\* Mutant: SET without NX.
ClaimAlways(h, k) ==
    /\ \/ handler[h].pc = "rule" /\ k \in handler[h].left /\ RuleOf[k] = RuleAt(h)
       \/ handler[h].pc = "claim" /\ k = "crash"
    /\ kv' = Set(k, CooldownOf(k)) /\ Claimed(h, k)
    /\ UNCHANGED <<reportVars, world, past>>

\* emitWithCooldown for a key of a rule that holds: SET NX decides.
Claim(h, k) ==
    /\ \/ handler[h].pc = "rule" /\ k \in handler[h].left /\ RuleOf[k] = RuleAt(h)
       \/ handler[h].pc = "claim" /\ k = "crash"
    /\ \/ Has(k) /\ Proceed(h, handler[h].left \ {k}, Rest(h)) /\ UNCHANGED kv
       \/ ~Has(k) /\ kv' = Set(k, CooldownOf(k)) /\ Claimed(h, k)
    /\ UNCHANGED <<reportVars, world, past>>

\* Reads the last sample.
EvaluateCrash(h) ==
    /\ handler[h].pc = "rule" /\ RuleAt(h) = "crash"
    /\ IF Has("last") /\ Fell(handler[h].sample, handler[h].ts, kv.last)
       THEN Goto(h, "claim") ELSE NextRule(h)
    /\ UNCHANGED <<reportVars, world, past, kv>>

\* Mutant: the start of the movement is kept.
MovementPaused(h) ==
    /\ handler[h].pc = "rule" /\ RuleAt(h) = "movement"
    /\ ~Rolling(handler[h].sample)
    /\ Goto(h, "clear")
    /\ UNCHANGED <<reportVars, world, past, kv>>

\* evaluateIgnitionOffMovementTheft: not rolling, the movement is over.
MovementOver(h) ==
    /\ handler[h].pc = "rule" /\ RuleAt(h) = "movement"
    /\ ~Rolling(handler[h].sample)
    /\ kv' = Del("start")
    /\ Goto(h, "clear")
    /\ UNCHANGED <<reportVars, world, past>>

ClearActive(h) ==
    /\ handler[h].pc = "clear"
    /\ kv' = Del("active")
    /\ moves' = moves + 1
    /\ NextRule(h)
    /\ UNCHANGED <<reportVars, world, span, previous, alarms>>

\* Rolling: when did it start, and is that long enough ago?
ReadStart(h) ==
    /\ handler[h].pc = "rule" /\ RuleAt(h) = "movement"
    /\ Rolling(handler[h].sample)
    /\ \/ ~Has("start") /\ Goto(h, "begin")
       \/ Has("start") /\ handler[h].ts < kv.start + TheftAfter /\ NextRule(h)
       \/ Has("start") /\ handler[h].ts >= kv.start + TheftAfter /\ Goto(h, "activate")
    /\ UNCHANGED <<reportVars, world, past, kv>>

WriteStart(h) ==
    /\ handler[h].pc = "begin"
    /\ kv' = [Set("start", TheftCooldown) EXCEPT !.start = handler[h].ts]
    /\ NextRule(h)
    /\ UNCHANGED <<reportVars, world, past>>

Activate(h) ==
    /\ handler[h].pc = "activate"
    /\ \/ Has("active") /\ NextRule(h) /\ UNCHANGED kv
       \/ ~Has("active") /\ kv' = Set("active", TheftCooldown) /\ Claimed(h, "active")
    /\ UNCHANGED <<reportVars, world, past>>

\* createRuleEvent: the event is stored.  A crash also has an incident to open,
\* and the handler waits for that.
Justified(h) ==
    RuleAt(h) = "movement" /\ OnSocket => \E t \in span : handler[h].ts >= t + TheftAfter

StoreAlarm(h) ==
    /\ handler[h].pc = "report"
    /\ alarms' = Append(alarms, [key |-> handler[h].key, move |-> handler[h].move,
                                 at |-> handler[h].got, just |-> Justified(h)])
    /\ IF RuleAt(h) = "crash"
       THEN \E e \in Events : /\ Report(e, "severe crash", "rule")
                              /\ handler' = [handler EXCEPT ![h].pc = "wait", ![h].event = {e}]
       ELSE Proceed(h, handler[h].left, Rest(h)) /\ UNCHANGED report
    /\ UNCHANGED <<incident, note, queued, boot, up, faults, world, kv, span, previous, moves>>

IncidentHandled(h) ==
    /\ handler[h].pc = "wait"
    /\ \A e \in handler[h].event : ~Running(e)
    /\ NextRule(h)
    /\ UNCHANGED <<reportVars, world, past, kv>>

\* evaluateStationVisits of a packet that is not moving: a cooldown read and
\* written apart, then a counter read and written apart, then the trips of the day.
ReadStop(h) ==
    /\ handler[h].pc = "rule" /\ RuleAt(h) = "station"
    /\ IF Has("stop") \/ ~handler[h].sample.station THEN NextRule(h) ELSE Goto(h, "stop")
    /\ UNCHANGED <<reportVars, world, past, kv>>

WriteStop(h) ==
    /\ handler[h].pc = "stop"
    /\ kv' = Set("stop", StopCooldown)
    /\ Goto(h, "count")
    /\ UNCHANGED <<reportVars, world, past>>

ReadVisits(h) ==
    /\ handler[h].pc = "count"
    /\ Got(h, "visit", kv.visits + 1)
    /\ UNCHANGED <<reportVars, world, past, kv>>

WriteVisits(h) ==
    /\ handler[h].pc = "visit"
    /\ kv' = [kv EXCEPT !.visits = handler[h].got]
    /\ \/ NextRule(h)                                      \* no trip today
       \/ handler[h].got > 1 /\ Goto(h, "worked")
    /\ UNCHANGED <<reportVars, world, past>>

WriteWorked(h) ==
    /\ handler[h].pc = "worked"
    /\ kv' = [kv EXCEPT !.worked = TRUE]
    /\ NextRule(h)
    /\ UNCHANGED <<reportVars, world, past>>

\* Mutant: a sample is kept until it expires.
KeepLast(h) ==
    /\ handler[h].pc = "rule" /\ RuleAt(h) = "store"
    /\ kv' = IF Has("last") THEN kv
             ELSE [Set("last", LastTtl) EXCEPT
                      !.last = [speed |-> handler[h].sample.speed, ts |-> handler[h].ts]]
    /\ handler' = [handler EXCEPT ![h] = Waiting]
    /\ UNCHANGED <<reportVars, world, past>>

\* storeLastSpeedState, after all the rules.
StoreLast(h) ==
    /\ handler[h].pc = "rule" /\ RuleAt(h) = "store"
    /\ kv' = [Set("last", LastTtl) EXCEPT
                  !.last = [speed |-> handler[h].sample.speed, ts |-> handler[h].ts]]
    /\ handler' = [handler EXCEPT ![h] = Waiting]
    /\ UNCHANGED <<reportVars, world, past>>

\* A rule throws (the database refuses the event, the road features or the stations):
\* its other keys are not tried, and the loop goes on.  Movement and night are one
\* evaluation.
RuleFails(h) ==
    /\ \/ handler[h].pc = "report"
       \/ /\ handler[h].pc = "rule" /\ RuleAt(h) \in {"road", "station"}
          /\ \A k \in handler[h].sample.hits : RuleOf[k] = RuleAt(h) => k \in handler[h].left
    /\ faults < MaxFaults
    /\ Proceed(h, handler[h].left,
               IF RuleAt(h) = "movement" THEN handler[h].rule + 2 ELSE handler[h].rule + 1)
    /\ faults' = faults + 1
    /\ UNCHANGED <<report, incident, note, queued, boot, up, world, past, kv>>

-----------------------------------------------------------------------------
(* The other sources of events, and the world around. *)

\* processEventPayload: the device reports an event itself.
DeviceEvent(e, kind) ==
    /\ up /\ channel = "app" /\ Report(e, kind, "device")
    /\ UNCHANGED <<incident, note, queued, boot, up, faults, ruleVars>>

\* triggerRiderSos.
RiderSos(e) ==
    /\ up /\ channel = "app" /\ Report(e, "SOS", "rider")
    /\ UNCHANGED <<incident, note, queued, boot, up, faults, ruleVars>>

Tick ==
    /\ now < MaxTime
    /\ now' = now + 1
    /\ UNCHANGED <<reportVars, channel, kv, handler, packets, past>>

Crash ==
    /\ up /\ faults < MaxFaults
    /\ up' = FALSE /\ boot' = {} /\ faults' = faults + 1
    /\ ReportsDie
    /\ handler' = [h \in Handlers |-> Waiting]
    /\ UNCHANGED <<incident, note, queued, world, past, kv>>

Next ==
    \/ \E h \in Handlers, s \in Samples : \E lag \in Lags[s] : Receive(h, s, lag)
    \/ \E h \in Handlers :
           \/ \E k \in LimitKeys \cup {"crash"} : Claim(h, k)
           \/ EvaluateCrash(h) \/ MovementOver(h) \/ ClearActive(h)
           \/ ReadStart(h) \/ WriteStart(h) \/ Activate(h)
           \/ StoreAlarm(h) \/ IncidentHandled(h)
           \/ ReadStop(h) \/ WriteStop(h) \/ ReadVisits(h) \/ WriteVisits(h)
           \/ WriteWorked(h) \/ StoreLast(h) \/ RuleFails(h)
    \/ \E e \in Events, k \in Incoming : DeviceEvent(e, k)
    \/ \E e \in Events : RiderSos(e)
    \/ ReportStep /\ UNCHANGED ruleVars
    \/ \E e \in Events : ReportFails(e) /\ UNCHANGED ruleVars
    \/ \E e \in Events, s \in Open : SetIncidentStatus(e, s) /\ UNCHANGED ruleVars
    \/ Restart /\ UNCHANGED ruleVars
    \/ Tick \/ Crash

Spec == Init /\ [][Next]_vars

-----------------------------------------------------------------------------
(* Properties. *)

\* Two events of a device for one key (a slow zone, a kind of harsh event, a road
\* feature, a crash, ...) are claimed at least the cooldown of that key apart, also
\* when packets are evaluated concurrently, fail half-way or die with the process;
\* so are two theft alarms for one movement, one that no packet has ended (a packet
\* that ends it gives the key back).  The claims are apart in time: the timestamps
\* of packets that arrive late may be closer.
CooldownRespected ==
    \A i, j \in 1 .. Len(alarms) :
        LET a == alarms[i]
            b == alarms[j]
        IN  i # j /\ a.key = b.key /\ a.move = b.move /\ a.at <= b.at =>
                b.at >= a.at + CooldownOf(a.key)

\* On a socket, a theft alarm for movement without ignition means movement over
\* the whole interval: no packet in between showed the bike stopped or switched on.
TheftJustified ==
    OnSocket /\ faults = 0 => \A i \in 1 .. Len(alarms) : alarms[i].just

\* On a socket, the crash rule sees the drop between two packets received one
\* after the other, however the rules of the first one ended, unless it looks so
\* late that the sample of the first one may have expired.
CrashSeen ==
    [][\A h \in Handlers :
          /\ handler[h].pc = "rule" /\ RuleAt(h) = "crash" /\ now < handler[h].due
          /\ handler'[h] # handler[h] /\ up'
          /\ OnSocket /\ faults = 0
          => handler'[h].pc = "claim"]_vars

\* A call that has returned (it did not throw or die) for a severe crash has its
\* incident, and every alert and webhook is in the queue; the SOS request of a
\* rider has told every contact.
ReportComplete ==
    \A e \in Events : report[e].pc = "done" =>
        /\ report[e].kind = "severe crash" =>
               incident[e] # "none" /\ Alerts(e) \cup Webhooks(e) \subseteq queued
        /\ report[e].by = "rider" => OwnAlerts(e) \subseteq queued
=============================================================================
