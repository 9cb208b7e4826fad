-------------------------- MODULE SafetyRulesProofs --------------------------
(***************************************************************************)
(* Proofs about SafetyRules and Incidents: the cooldown of an alarm, what a *)
(* theft alarm and the crash rule of a socket compare, and what a call of   *)
(* createFleetEvent has queued when it returns, for any number of packets,  *)
(* handlers, events, contacts and failures.                                 *)
(***************************************************************************)
EXTENDS SafetyRules, FiniteSetTheorems, TLAPS

-----------------------------------------------------------------------------
(* The inductive invariant. *)

\* The calls of createFleetEvent: what is written and queued at each step.
\* The incident and its alerts, the webhooks, and the rider's own alerts.
CrashQueued(e) ==
    report[e].kind = "severe crash" =>
        incident[e] # "none" /\ Alerts(e) \cup Webhooks(e) \subseteq queued

ReportOK(e) ==
    /\ report[e].pc = "alert" =>
           /\ incident[e] # "none"
           /\ report[e].left \subseteq note /\ Alerts(e) \subseteq queued \cup report[e].left
    /\ report[e].pc \in {"webhook", "dispatch"} =>
           /\ incident[e] # "none" /\ Alerts(e) \subseteq queued
           /\ Webhooks(e) \subseteq queued \cup report[e].left
    /\ report[e].pc \in {"contact", "enqueue", "done"} => CrashQueued(e)
    /\ report[e].pc = "contact" => OwnAlerts(e) \subseteq note \cup report[e].left
    /\ report[e].pc = "enqueue" =>
           /\ report[e].left \subseteq note
           /\ OwnAlerts(e) \subseteq queued \cup report[e].left
    /\ report[e].pc = "done" /\ report[e].by = "rider" => OwnAlerts(e) \subseteq queued

ReportsOK == \A e \in Events : ReportOK(e)

\* Which rule a handler is in, by the step it is at.
RuleOK(x) ==
    /\ x.pc \in {"claim", "wait"} => x.rule = 3
    /\ x.pc \in {"begin", "clear", "activate"} => x.rule = 4
    /\ x.pc \in {"stop", "count", "visit", "worked"} => x.rule = 9
    /\ x.pc = "report" => x.rule \in 1 .. 8 /\ x.key # "none"
    /\ x.pc \in {"begin", "activate"} => Rolling(x.sample)
    /\ x.pc = "idle" => x.due = 0

HandlersOK == \A h \in Handlers : RuleOK(handler[h])

\* Packets that may yet count a visit, and the counter they may write.
MayVisit == {h \in Handlers : handler[h].pc \notin {"idle", "worked"} /\ handler[h].rule <= 9}

VisitsOK ==
    /\ kv.visits + Cardinality(MayVisit) <= packets
    /\ \A h \in Handlers : handler[h].pc = "visit" =>
           handler[h].got + Cardinality(MayVisit) - 1 <= packets

\* A stored alarm, and one about to be stored, lies within the claim of its key (for a
\* movement, while the key is not given back), and any two of a key are its cooldown apart.
Pending(h) == handler[h].pc = "report"
Live(k, move) == k # "active" \/ move = moves
Covered(k, at) == at + CooldownOf(k) <= kv.until[k]
Apart(k, a, b) == a + CooldownOf(k) <= b \/ b + CooldownOf(k) <= a
Alike(x, y) == x.key = y.key /\ x.move = y.move

ClaimsOK ==
    /\ \A i \in 1 .. Len(alarms) :
           /\ alarms[i].move <= moves
           /\ Live(alarms[i].key, alarms[i].move) => Covered(alarms[i].key, alarms[i].at)
    /\ \A h \in Handlers : Pending(h) =>
           /\ handler[h].move <= moves
           /\ Live(handler[h].key, handler[h].move) => Covered(handler[h].key, handler[h].got)

ApartOK ==
    /\ \A i, j \in 1 .. Len(alarms) :
           i # j /\ Alike(alarms[i], alarms[j]) =>
               Apart(alarms[i].key, alarms[i].at, alarms[j].at)
    /\ \A i \in 1 .. Len(alarms), h \in Handlers :
           Pending(h) /\ Alike(alarms[i], handler[h]) =>
               Apart(handler[h].key, alarms[i].at, handler[h].got)
    /\ \A g, h \in Handlers :
           g # h /\ Pending(g) /\ Pending(h) /\ Alike(handler[g], handler[h]) =>
               Apart(handler[h].key, handler[g].got, handler[h].got)

CooldownOK == ClaimsOK /\ ApartOK

\* A socket has one packet at a time, and its movement is in the span.
Busy(h) == handler[h].pc # "idle"
SocketOK ==
    OnSocket => \A h \in Handlers : Busy(h) =>
        /\ \A g \in Handlers : Busy(g) => g = h
        /\ Rolling(handler[h].sample) => handler[h].ts \in span
        /\ previous.at <= now
        /\ previous.last = [speed |-> handler[h].sample.speed, ts |-> handler[h].ts]

\* The packet of h has yet to end the movement.
WillEnd(h) ==
    /\ Busy(h) /\ ~Rolling(handler[h].sample)
    /\ \/ handler[h].rule < 4
       \/ handler[h].rule = 4 /\ handler[h].pc = "rule"

LongEnough(ts) == \E t \in span : ts >= t + TheftAfter

\* The start of the movement belongs to the span, unless the packet at hand ends it.
TheftOK ==
    OnSocket /\ faults = 0 =>
        /\ kv.until["start"] > 0 => kv.start \in span \/ \E h \in Handlers : WillEnd(h)
        /\ \A h \in Handlers :
               handler[h].pc = "activate" \/ (handler[h].pc = "report" /\ handler[h].rule = 4) =>
                   LongEnough(handler[h].ts)
        /\ TheftJustified

\* The stored sample is that of the packet before.
LastOK ==
    OnSocket /\ faults = 0 =>
        /\ packets > 0 /\ (\A h \in Handlers : ~Busy(h)) =>
               kv.until["last"] >= previous.at + LastTtl /\ kv.last = previous.last
        /\ \A h \in Handlers : handler[h].due > 0 =>
               /\ kv.until["last"] >= handler[h].due
               /\ Fell(handler[h].sample, handler[h].ts, kv.last)

IInv ==
    /\ TypeOK /\ ReportsOK /\ HandlersOK /\ VisitsOK /\ CooldownOK
    /\ SocketOK /\ TheftOK /\ LastOK

-----------------------------------------------------------------------------
(* The calls of createFleetEvent. *)

Reports == ReportType /\ ReportsOK

ReportSteps == {"none", "event", "incident", "alert", "webhook", "dispatch",
                "contact", "enqueue", "done", "failed"}
ReportRecord == [pc : ReportSteps, kind : Kinds, by : Callers, left : SUBSET Notes]

LEMMA ReportTyped ==
    ASSUME ReportType
    PROVE  /\ report \in [Events -> ReportRecord]
           /\ note \subseteq Notes /\ queued \subseteq note /\ boot \subseteq note
BY DEF ReportType, ReportRecord, ReportSteps

LEMMA NotesOf ==
    ASSUME NEW e \in Events
    PROVE  Alerts(e) \subseteq Notes /\ Webhooks(e) \subseteq Notes /\ OwnAlerts(e) \subseteq Notes
BY DEF Alerts, Webhooks, OwnAlerts, Notes

\* The call for e goes to step pc, and no other call moves.
Moves(e, pc, left) ==
    /\ report' \in [Events -> ReportRecord]
    /\ report'[e].pc = pc /\ report'[e].left = left
    /\ report'[e].kind = report[e].kind /\ report'[e].by = report[e].by
    /\ \A f \in Events : f # e => report'[f] = report[f]

LEMMA ToMoves ==
    ASSUME ReportType, NEW e \in Events, NEW pc \in ReportSteps, NEW left \in SUBSET Notes,
           To(e, pc, left)
    PROVE  Moves(e, pc, left)
<1>1. report \in [Events -> ReportRecord]
  BY ReportTyped
<1>. DEFINE r == [report[e] EXCEPT !.pc = pc, !.left = left]
<1>2. r \in ReportRecord /\ r.pc = pc /\ r.left = left /\ r.kind = report[e].kind
      /\ r.by = report[e].by
  BY <1>1 DEF ReportRecord
<1>3. report' = [report EXCEPT ![e] = r]
  BY <1>1 DEF To, ReportRecord
<1>. HIDE DEF r
<1>. QED
  BY <1>1, <1>2, <1>3 DEF Moves

\* Rows, jobs and incidents only come: what is known of a call that does not move
\* stays known.
Grow == /\ note \subseteq note' /\ queued \subseteq queued'
        /\ \A e \in Events : incident[e] # "none" => incident'[e] # "none"

LEMMA ReportKept ==
    ASSUME Grow, NEW e \in Events, ReportOK(e), report'[e] = report[e]
    PROVE  ReportOK(e)'
BY DEF Grow, ReportOK, CrashQueued, Alerts, Webhooks, OwnAlerts

LEMMA OneMoves ==
    ASSUME Reports, Grow, NEW e \in Events, NEW pc, NEW left, Moves(e, pc, left), ReportOK(e)',
           note' \subseteq Notes, queued' \subseteq note', boot' \subseteq note',
           incident' \in [Events -> Open \cup {"none"}], up' \in BOOLEAN, faults' \in 0 .. MaxFaults
    PROVE  Reports'
<1>1. ReportType'
  BY DEF ReportType, Moves, ReportRecord, ReportSteps
<1>2. ASSUME NEW f \in Events
      PROVE  ReportOK(f)'
  <2>1. CASE f = e
    BY <2>1
  <2>2. CASE f # e
    BY <2>2, ReportKept DEF Moves, Reports, ReportsOK
  <2>. QED
    BY <2>1, <2>2
<1>. QED
  BY <1>1, <1>2 DEF Reports, ReportsOK

\* Returning from createFleetEvent.
LEMMA ReturnKeeps ==
    ASSUME Reports, NEW e \in Events, Return(e), CrashQueued(e),
           UNCHANGED <<incident, note, queued, boot, up, faults>>
    PROVE  Reports'
<1>. USE DEF Reports
<1>1. ReportType
  OBVIOUS
<1>2. CASE report[e].by = "rider"
  <2>1. Moves(e, "contact", OwnAlerts(e))
    BY <1>1, <1>2, ToMoves, NotesOf DEF Return, ReportSteps
  <2>2. ReportOK(e)'
    BY <2>1 DEF Moves, ReportOK, CrashQueued, Alerts, Webhooks, OwnAlerts
  <2>. QED
    BY <1>1, <2>1, <2>2, OneMoves DEF Grow, ReportType
<1>3. CASE report[e].by # "rider"
  <2>1. Moves(e, "done", {})
    BY <1>1, <1>3, ToMoves DEF Return, ReportSteps
  <2>2. ReportOK(e)'
    BY <1>3, <2>1 DEF Moves, ReportOK, CrashQueued, Alerts, Webhooks, OwnAlerts
  <2>. QED
    BY <1>1, <2>1, <2>2, OneMoves DEF Grow, ReportType
<1>. QED
  BY <1>2, <1>3

LEMMA ReportKeeps ==
    ASSUME Reports, NEW e \in Events, NEW kind \in Kinds, NEW by \in Callers,
           Report(e, kind, by), UNCHANGED <<incident, note, queued, boot, up, faults>>
    PROVE  Reports'
<1>1. ReportType /\ report \in [Events -> ReportRecord]
  BY ReportTyped DEF Reports
<1>. DEFINE r == [Unused EXCEPT !.pc = "event", !.kind = kind, !.by = by]
<1>2. r.pc = "event"
  BY DEF Unused
<1>3. r \in ReportRecord
  BY DEF Unused, ReportRecord, ReportSteps
<1>4. report' = [report EXCEPT ![e] = r]
  BY DEF Report
<1>. HIDE DEF r
<1>5. report' \in [Events -> ReportRecord] /\ report'[e] = r
      /\ \A f \in Events : f # e => report'[f] = report[f]
  BY <1>1, <1>3, <1>4
<1>6. ReportType'
  BY <1>1, <1>5 DEF ReportType, ReportRecord, ReportSteps
<1>7. ASSUME NEW f \in Events
      PROVE  ReportOK(f)'
  <2>1. CASE f = e
    BY <1>2, <1>5, <2>1 DEF ReportOK
  <2>2. CASE f # e
    BY <1>5, <2>2, ReportKept DEF Reports, ReportsOK, Grow
  <2>. QED
    BY <2>1, <2>2
<1>. QED
  BY <1>6, <1>7 DEF Reports, ReportsOK

LEMMA StoreEventKeeps ==
    ASSUME Reports, NEW e \in Events, StoreEvent(e)
    PROVE  Reports'
<1>1. ReportType
  BY DEF Reports
<1>2. CASE NeedsIncident(e)
  <2>1. Moves(e, "incident", {})
    BY <1>1, <1>2, ToMoves DEF StoreEvent, ReportSteps
  <2>2. ReportOK(e)'
    BY <2>1 DEF Moves, ReportOK
  <2>. QED
    BY <1>1, <2>1, <2>2, OneMoves DEF Grow, ReportType, StoreEvent
<1>3. CASE ~NeedsIncident(e)
  <2>1. CrashQueued(e)
    BY <1>3 DEF NeedsIncident, CrashQueued
  <2>. QED
    BY <1>3, <2>1, ReturnKeeps DEF StoreEvent
<1>. QED
  BY <1>2, <1>3

LEMMA CreateIncidentKeeps ==
    ASSUME Reports, NEW e \in Events, CreateIncident(e)
    PROVE  Reports'
<1>1. ReportType
  BY DEF Reports
<1>2. Moves(e, "alert", Alerts(e))
  BY <1>1, ToMoves, NotesOf DEF CreateIncident, ReportSteps
<1>3. incident' \in [Events -> Open \cup {"none"}] /\ incident'[e] # "none" /\ Grow
  BY <1>1 DEF CreateIncident, ReportType, Open, Grow
<1>4. /\ note' \subseteq Notes /\ queued' \subseteq note' /\ boot' \subseteq note'
      /\ up' \in BOOLEAN /\ faults' \in 0 .. MaxFaults
  BY <1>1, NotesOf DEF CreateIncident, ReportType
<1>5. ReportOK(e)'
  BY <1>2, <1>3 DEF Moves, ReportOK, Alerts, CreateIncident
<1>. QED
  BY <1>2, <1>3, <1>4, <1>5, OneMoves

LEMMA EnqueueAlertKeeps ==
    ASSUME Reports, NEW e \in Events, NEW n \in report[e].left, EnqueueAlert(e, n)
    PROVE  Reports'
<1>1. ReportType /\ report \in [Events -> ReportRecord] /\ ReportOK(e)
  BY ReportTyped DEF Reports, ReportsOK
<1>2. report[e].left \in SUBSET Notes /\ report[e].left \ {n} \in SUBSET Notes
  BY <1>1 DEF ReportRecord
<1>3. Moves(e, "alert", report[e].left \ {n})
  BY <1>1, <1>2, ToMoves DEF EnqueueAlert, ReportSteps
<1>4. Grow /\ queued' \subseteq note' /\ note' = note
  BY <1>1 DEF EnqueueAlert, ReportType, Grow, ReportOK
<1>5. ReportOK(e)'
  BY <1>1, <1>3, <1>4 DEF Moves, ReportOK, Alerts, EnqueueAlert
<1>. QED
  BY <1>1, <1>3, <1>4, <1>5, OneMoves DEF EnqueueAlert, ReportType

LEMMA AlertsEnqueuedKeeps ==
    ASSUME Reports, NEW e \in Events, AlertsEnqueued(e)
    PROVE  Reports'
<1>1. ReportType /\ ReportOK(e)
  BY DEF Reports, ReportsOK
<1>2. CASE report[e].kind = "severe crash"
  <2>1. Moves(e, "webhook", Webhooks(e))
    BY <1>1, <1>2, ToMoves, NotesOf DEF AlertsEnqueued, ReportSteps
  <2>2. ReportOK(e)'
    BY <1>1, <2>1 DEF Moves, ReportOK, AlertsEnqueued, Alerts, Webhooks
  <2>. QED
    BY <1>1, <2>1, <2>2, OneMoves DEF Grow, ReportType, AlertsEnqueued
<1>3. CASE report[e].kind # "severe crash"
  <2>1. CrashQueued(e)
    BY <1>3 DEF CrashQueued
  <2>. QED
    BY <1>3, <2>1, ReturnKeeps DEF AlertsEnqueued
<1>. QED
  BY <1>2, <1>3

LEMMA CreateWebhookNoteKeeps ==
    ASSUME Reports, NEW e \in Events, NEW n \in report[e].left, CreateWebhookNote(e, n)
    PROVE  Reports'
<1>1. ReportType /\ report \in [Events -> ReportRecord] /\ ReportOK(e)
  BY ReportTyped DEF Reports, ReportsOK
<1>2. report[e].left \in SUBSET Notes
  BY <1>1 DEF ReportRecord
<1>3. Moves(e, "dispatch", report[e].left)
  BY <1>1, <1>2, ToMoves DEF CreateWebhookNote, ReportSteps
<1>4. Grow /\ note' \subseteq Notes /\ queued' \subseteq note' /\ boot' \subseteq note'
  BY <1>1, <1>2 DEF CreateWebhookNote, ReportType, Grow
<1>5. ReportOK(e)'
  BY <1>1, <1>3 DEF Moves, ReportOK, Alerts, Webhooks, CreateWebhookNote
<1>. QED
  BY <1>1, <1>3, <1>4, <1>5, OneMoves DEF CreateWebhookNote, ReportType

LEMMA DispatchWebhookKeeps ==
    ASSUME Reports, NEW e \in Events, NEW n \in report[e].left, DispatchWebhook(e, n)
    PROVE  Reports'
<1>1. ReportType /\ report \in [Events -> ReportRecord] /\ ReportOK(e)
  BY ReportTyped DEF Reports, ReportsOK
<1>2. report[e].left \ {n} \in SUBSET Notes
  BY <1>1 DEF ReportRecord
<1>3. Moves(e, "webhook", report[e].left \ {n})
  BY <1>1, <1>2, ToMoves DEF DispatchWebhook, ReportSteps
<1>4. Grow /\ queued' \subseteq note'
  BY <1>1 DEF DispatchWebhook, ReportType, Grow
<1>5. ReportOK(e)'
  BY <1>1, <1>3 DEF Moves, ReportOK, Alerts, Webhooks, DispatchWebhook
<1>. QED
  BY <1>1, <1>3, <1>4, <1>5, OneMoves DEF DispatchWebhook, ReportType

LEMMA WebhooksEnqueuedKeeps ==
    ASSUME Reports, NEW e \in Events, WebhooksEnqueued(e)
    PROVE  Reports'
<1>1. ReportOK(e)
  BY DEF Reports, ReportsOK
<1>2. CrashQueued(e)
  BY <1>1 DEF ReportOK, CrashQueued, WebhooksEnqueued
<1>. QED
  BY <1>2, ReturnKeeps DEF WebhooksEnqueued

LEMMA CreateOwnAlertKeeps ==
    ASSUME Reports, NEW e \in Events, NEW n \in report[e].left, CreateOwnAlert(e, n)
    PROVE  Reports'
<1>1. ReportType /\ report \in [Events -> ReportRecord] /\ ReportOK(e)
  BY ReportTyped DEF Reports, ReportsOK
<1>2. report[e].left \in SUBSET Notes /\ report[e].left \ {n} \in SUBSET Notes
  BY <1>1 DEF ReportRecord
<1>3. Moves(e, "contact", report[e].left \ {n})
  BY <1>1, <1>2, ToMoves DEF CreateOwnAlert, ReportSteps
<1>4. Grow /\ note' \subseteq Notes /\ queued' \subseteq note' /\ boot' \subseteq note'
  BY <1>1, <1>2 DEF CreateOwnAlert, ReportType, Grow
<1>5. ReportOK(e)'
  BY <1>1, <1>3 DEF Moves, ReportOK, CrashQueued, OwnAlerts, Alerts, Webhooks, CreateOwnAlert
<1>. QED
  BY <1>1, <1>3, <1>4, <1>5, OneMoves DEF CreateOwnAlert, ReportType

LEMMA OwnAlertsCreatedKeeps ==
    ASSUME Reports, NEW e \in Events, OwnAlertsCreated(e)
    PROVE  Reports'
<1>1. ReportType /\ ReportOK(e)
  BY DEF Reports, ReportsOK
<1>2. Moves(e, "enqueue", OwnAlerts(e))
  BY <1>1, ToMoves, NotesOf DEF OwnAlertsCreated, ReportSteps
<1>3. ReportOK(e)'
  BY <1>1, <1>2 DEF Moves, ReportOK, CrashQueued, OwnAlerts, Alerts, Webhooks, OwnAlertsCreated
<1>. QED
  BY <1>1, <1>2, <1>3, OneMoves DEF OwnAlertsCreated, ReportType, Grow

LEMMA EnqueueOwnAlertKeeps ==
    ASSUME Reports, NEW e \in Events, NEW n \in report[e].left, EnqueueOwnAlert(e, n)
    PROVE  Reports'
<1>1. ReportType /\ report \in [Events -> ReportRecord] /\ ReportOK(e)
  BY ReportTyped DEF Reports, ReportsOK
<1>2. report[e].left \ {n} \in SUBSET Notes
  BY <1>1 DEF ReportRecord
<1>3. Moves(e, "enqueue", report[e].left \ {n})
  BY <1>1, <1>2, ToMoves DEF EnqueueOwnAlert, ReportSteps
<1>4. Grow /\ queued' \subseteq note'
  BY <1>1 DEF EnqueueOwnAlert, ReportType, Grow, ReportOK
<1>5. ReportOK(e)'
  BY <1>1, <1>3 DEF Moves, ReportOK, CrashQueued, OwnAlerts, Alerts, Webhooks, EnqueueOwnAlert
<1>. QED
  BY <1>1, <1>3, <1>4, <1>5, OneMoves DEF EnqueueOwnAlert, ReportType

LEMMA OwnAlertsEnqueuedKeeps ==
    ASSUME Reports, NEW e \in Events, OwnAlertsEnqueued(e)
    PROVE  Reports'
<1>1. ReportType /\ ReportOK(e)
  BY DEF Reports, ReportsOK
<1>2. Moves(e, "done", {})
  BY <1>1, ToMoves DEF OwnAlertsEnqueued, ReportSteps
<1>3. ReportOK(e)'
  BY <1>1, <1>2 DEF Moves, ReportOK, CrashQueued, OwnAlerts, Alerts, Webhooks, OwnAlertsEnqueued
<1>. QED
  BY <1>1, <1>2, <1>3, OneMoves DEF OwnAlertsEnqueued, ReportType, Grow

LEMMA ReportFailsKeeps ==
    ASSUME Reports, NEW e \in Events, ReportFails(e)
    PROVE  Reports'
<1>1. ReportType
  BY DEF Reports
<1>2. Moves(e, "failed", {})
  BY <1>1, ToMoves DEF ReportFails, ReportSteps
<1>3. ReportOK(e)'
  BY <1>2 DEF Moves, ReportOK
<1>4. faults' \in 0 .. MaxFaults
  BY <1>1, IncidentsAssumption DEF ReportFails, ReportType
<1>. QED
  BY <1>1, <1>2, <1>3, <1>4, OneMoves DEF ReportFails, ReportType, Grow

LEMMA ReportsDieKeeps ==
    ASSUME Reports, ReportsDie, UNCHANGED <<incident, note, queued>>,
           boot' = {}, up' \in BOOLEAN, faults' \in 0 .. MaxFaults
    PROVE  Reports'
<1>1. ReportType /\ report \in [Events -> ReportRecord]
  BY ReportTyped DEF Reports
<1>2. ASSUME NEW f \in Events
      PROVE  /\ report'[f] \in ReportRecord
             /\ report'[f].pc = "failed" \/ report'[f] = report[f]
  <2>1. CASE Running(f)
    <3>1. report'[f] = [report[f] EXCEPT !.pc = "failed", !.left = {}]
      BY <2>1 DEF ReportsDie
    <3>. QED
      BY <1>1, <3>1 DEF ReportRecord, ReportSteps
  <2>2. CASE ~Running(f)
    BY <1>1, <2>2 DEF ReportsDie
  <2>. QED
    BY <2>1, <2>2
<1>3. report' \in [Events -> ReportRecord]
  BY <1>2 DEF ReportsDie
<1>4. ReportType'
  BY <1>1, <1>3 DEF ReportType, ReportRecord, ReportSteps
<1>5. ASSUME NEW f \in Events
      PROVE  ReportOK(f)'
  <2>1. CASE report'[f].pc = "failed"
    BY <2>1 DEF ReportOK
  <2>2. CASE report'[f] = report[f]
    BY <2>2, ReportKept DEF Grow, Reports, ReportsOK
  <2>. QED
    BY <1>2, <2>1, <2>2
<1>. QED
  BY <1>4, <1>5 DEF Reports, ReportsOK

\* Steps that move no call.
LEMMA NoneMoves ==
    ASSUME Reports, Grow, UNCHANGED report, ReportType'
    PROVE  Reports'
BY ReportKept DEF Reports, ReportsOK

LEMMA RestartKeeps ==
    ASSUME Reports, Restart
    PROVE  Reports'
<1>1. ReportType' /\ Grow
  BY DEF Reports, Restart, ReportType, Grow
<1>. QED
  BY <1>1, NoneMoves DEF Restart

LEMMA EnqueuePendingKeeps ==
    ASSUME Reports, NEW n \in boot, EnqueuePending(n)
    PROVE  Reports'
<1>1. ReportType' /\ Grow
  BY DEF Reports, EnqueuePending, ReportType, Grow
<1>. QED
  BY <1>1, NoneMoves DEF EnqueuePending

LEMMA SetIncidentStatusKeeps ==
    ASSUME Reports, NEW e \in Events, NEW s \in Open, SetIncidentStatus(e, s)
    PROVE  Reports'
<1>1. ReportType' /\ Grow
  BY DEF Reports, SetIncidentStatus, ReportType, Grow, Open
<1>. QED
  BY <1>1, NoneMoves DEF SetIncidentStatus

LEMMA ReportStepKeeps ==
    ASSUME Reports, ReportStep
    PROVE  Reports'
<1>1. ASSUME NEW e \in Events, NEW n \in report[e].left,
             \/ EnqueueAlert(e, n) \/ CreateWebhookNote(e, n) \/ DispatchWebhook(e, n)
             \/ CreateOwnAlert(e, n) \/ EnqueueOwnAlert(e, n)
      PROVE  Reports'
  BY <1>1, EnqueueAlertKeeps, CreateWebhookNoteKeeps, DispatchWebhookKeeps,
     CreateOwnAlertKeeps, EnqueueOwnAlertKeeps
<1>2. ASSUME NEW e \in Events,
             \/ StoreEvent(e) \/ CreateIncident(e) \/ AlertsEnqueued(e)
             \/ WebhooksEnqueued(e) \/ OwnAlertsCreated(e) \/ OwnAlertsEnqueued(e)
      PROVE  Reports'
  BY <1>2, StoreEventKeeps, CreateIncidentKeeps, AlertsEnqueuedKeeps,
     WebhooksEnqueuedKeeps, OwnAlertsCreatedKeeps, OwnAlertsEnqueuedKeeps
<1>. QED
  BY <1>1, <1>2, EnqueuePendingKeeps DEF ReportStep

LEMMA ReportsSame ==
    ASSUME Reports, UNCHANGED reportVars
    PROVE  Reports'
<1>1. ReportType' /\ Grow
  BY DEF Reports, reportVars, ReportType, Grow
<1>. QED
  BY <1>1, NoneMoves DEF reportVars

-----------------------------------------------------------------------------
(* Rules, keys and handlers. *)

LEMMA KeyNames ==
    /\ AlarmKeys \subseteq Keys
    /\ {"start", "active", "stop", "last"} \subseteq Keys
    /\ AlarmKeys \cap {"start", "stop", "last", "none"} = {}
    /\ "crash" \in AlarmKeys /\ "active" \in AlarmKeys /\ LimitKeys \subseteq AlarmKeys
BY RulesAssumption DEF AlarmKeys, Keys

LEMMA RuleNames ==
    /\ Len(RuleOrder) = 10
    /\ RuleOrder[1] = "overspeed" /\ RuleOrder[2] = "harsh" /\ RuleOrder[3] = "crash"
    /\ RuleOrder[4] = "movement" /\ RuleOrder[5] = "night" /\ RuleOrder[6] = "powerCut"
    /\ RuleOrder[7] = "road" /\ RuleOrder[8] = "boundary" /\ RuleOrder[9] = "station"
    /\ RuleOrder[10] = "store"
BY DEF RuleOrder

\* The numbers of the rules.
LEMMA RuleNumbers ==
    ASSUME NEW i \in 1 .. 10
    PROVE  /\ RuleOrder[i] \in LimitRules <=> i \in {1, 2, 5, 6, 7, 8}
           /\ RuleOrder[i] = "crash" <=> i = 3
           /\ RuleOrder[i] = "movement" <=> i = 4
           /\ RuleOrder[i] = "station" <=> i = 9
           /\ RuleOrder[i] = "store" <=> i = 10
BY RuleNames DEF LimitRules

LEMMA FirstOf ==
    ASSUME NEW S \in SUBSET (1 .. 10), 10 \in S, NEW i \in 1 .. 10
    PROVE  \E j \in i .. 10 : j \in S /\ \A k \in i .. j - 1 : k \notin S
OBVIOUS

\* There is always a rule left until the packet is stored, and neither the crash
\* rule nor the movement rule is skipped.
LEMMA FromRuleIs ==
    ASSUME NEW s, NEW left, NEW i \in 1 .. 10
    PROVE  /\ FromRule(s, left, i) \in i .. 10
           /\ i <= 3 => FromRule(s, left, i) <= 3
           /\ i = 4 => FromRule(s, left, i) = 4
<1>. DEFINE rules == {RuleOf[k] : k \in left}
<1>. HIDE DEF rules
<1>. DEFINE Hit(j) == /\ RuleOrder[j] \in LimitRules => RuleOrder[j] \in rules
                      /\ RuleOrder[j] = "station" => s.speed = 0
            Miss(k) == \/ RuleOrder[k] \in LimitRules \ rules
                       \/ RuleOrder[k] = "station" /\ s.speed # 0
            First(j) == Hit(j) /\ \A k \in i .. j - 1 : Miss(k)
            Hits == {j \in 1 .. 10 : Hit(j)}
<1>1. Hit(10) /\ ~Miss(3) /\ ~Miss(4)
  BY RuleNames DEF LimitRules
<1>2. \A j \in 1 .. 10 : Hit(j) \/ Miss(j)
  OBVIOUS
<1>3. FromRule(s, left, i) = CHOOSE j \in i .. 10 : First(j)
  BY RuleNames DEF FromRule, rules
<1>. HIDE DEF Hit, Miss
<1>4. Hits \in SUBSET (1 .. 10) /\ 10 \in Hits
  BY <1>1
<1>5. PICK j \in i .. 10 : j \in Hits /\ \A k \in i .. j - 1 : k \notin Hits
  <2>. HIDE DEF Hits
  <2>. QED
    BY <1>4, FirstOf
<1>6. First(j)
  BY <1>2, <1>5
<1>7. FromRule(s, left, i) \in i .. 10 /\ First(FromRule(s, left, i))
  BY <1>3, <1>6
<1>. QED
  BY <1>1, <1>7

\* The state of the rules, apart from the calls.
RulesType ==
    /\ now \in 0 .. MaxTime /\ channel \in Channels
    /\ kv \in [until : [Keys -> Nat], start : Nat, last : [speed : Nat, ts : Nat],
               visits : 0 .. MaxPackets, worked : BOOLEAN]
    /\ handler \in [Handlers -> HandlerType]
    /\ \A h \in Handlers : handler[h].pc # "idle" => handler[h].sample \in Samples
    /\ packets \in 0 .. MaxPackets /\ span \subseteq 0 .. MaxTime
    /\ previous \in [last : [speed : Nat, ts : Nat], at : 0 .. MaxTime]
    /\ moves \in Nat
    /\ alarms \in Seq([key : AlarmKeys, move : Nat, at : Nat, just : BOOLEAN])

LEMMA TypeParts == TypeOK <=> ReportType /\ RulesType
BY DEF TypeOK, RulesType

LEMMA Bounds ==
    /\ CrashCooldown \in Nat /\ TheftCooldown \in Nat /\ TheftAfter \in Nat
    /\ StopCooldown \in Nat /\ Drop \in Nat /\ LastTtl \in Nat /\ Window \in Nat
    /\ MaxPackets \in Nat /\ MaxTogether \in Nat /\ MaxTogether <= MaxPackets /\ MaxTime \in Nat
    /\ IsFiniteSet(Handlers) /\ Samples \subseteq SampleType
    /\ \A s \in Samples : Lags[s] \subseteq Nat
    /\ \A k \in LimitKeys : Limit[k] \in Nat /\ RuleOf[k] \in LimitRules
BY RulesAssumption

LEMMA ClockTyped ==
    ASSUME RulesType
    PROVE  /\ now \in Nat /\ now \in 0 .. MaxTime /\ moves \in Nat
           /\ previous.at \in Nat /\ packets \in Nat /\ kv.visits \in Nat
<1>1. MaxTime \in Nat /\ MaxPackets \in Nat
  BY Bounds
<1>2. now \in 0 .. MaxTime /\ moves \in Nat /\ packets \in 0 .. MaxPackets
  BY DEF RulesType
<1>3. previous.at \in 0 .. MaxTime
  BY DEF RulesType
<1>4. kv.visits \in 0 .. MaxPackets
  BY DEF RulesType
<1>. QED
  BY <1>1, <1>2, <1>3, <1>4

LEMMA HandlerTyped ==
    ASSUME RulesType, NEW h \in Handlers
    PROVE  /\ handler[h] \in HandlerType
           /\ handler[h].sample \in SampleType /\ handler[h].ts \in 0 .. MaxTime
           /\ handler[h].rule \in 1 .. 10 /\ handler[h].got \in Nat /\ handler[h].due \in Nat
           /\ handler[h].event \in SUBSET Events /\ handler[h].left \in SUBSET LimitKeys
           /\ handler[h].key \in AlarmKeys \cup {"none"} /\ handler[h].move \in Nat
           /\ handler[h].pc # "idle" => handler[h].sample \in Samples
BY RuleNames DEF RulesType, HandlerType

\* The handler of a packet goes on as x.
Advances(h, x) ==
    /\ x \in HandlerType /\ handler' = [handler EXCEPT ![h] = x]
    /\ handler[h].pc # "idle" /\ x.pc # "idle"
    /\ x.sample = handler[h].sample /\ x.ts = handler[h].ts
    /\ x.due = 0 \/ x.due = handler[h].due
    /\ x.rule \in handler[h].rule .. 10
    /\ RuleOK(x)

\* It goes on from rule i, or to another step of the same rule.
Skips(h, x, i) ==
    /\ Advances(h, x) /\ x.pc = "rule"
    /\ x.rule \in i .. 10
    /\ i <= 4 => x.rule <= 4

Goes(h, x, pc) ==
    /\ Advances(h, x) /\ x.pc = pc
    /\ x.rule = handler[h].rule

LEMMA ProceedSkips ==
    ASSUME RulesType, NEW h \in Handlers, NEW left \in SUBSET LimitKeys, NEW i \in 1 .. 10,
           Proceed(h, left, i), handler[h].pc # "idle", handler[h].rule <= i
    PROVE  \E x \in HandlerType : Skips(h, x, i)
<1>1. /\ handler[h] \in HandlerType /\ handler[h].sample \in Samples
      /\ handler[h].rule \in 1 .. 10 /\ handler[h].due \in Nat
  BY HandlerTyped
<1>. DEFINE j == FromRule(handler[h].sample, left, i)
            d == IF RuleAt(h) = "crash" THEN 0 ELSE handler[h].due
            x == [handler[h] EXCEPT !.pc = "rule", !.event = {}, !.got = 0, !.key = "none",
                                    !.move = 0, !.due = d, !.left = left, !.rule = j]
<1>2. j \in i .. 10 /\ (i <= 4 => j <= 4)
  BY FromRuleIs
<1>3. j \in handler[h].rule .. 10 /\ j \in 1 .. Len(RuleOrder)
  BY <1>1, <1>2, RuleNames
<1>4. d \in Nat /\ (d = 0 \/ d = handler[h].due)
  BY <1>1
<1>5. handler' = [handler EXCEPT ![h] = x]
  BY DEF Proceed
<1>. HIDE DEF j, d
<1>6. /\ x \in HandlerType /\ x.pc = "rule" /\ x.rule = j /\ x.due = d
      /\ x.sample = handler[h].sample /\ x.ts = handler[h].ts
  BY <1>1, <1>3, <1>4 DEF HandlerType
<1>. HIDE DEF x
<1>7. RuleOK(x)
  BY <1>6 DEF RuleOK
<1>8. Skips(h, x, i)
  BY <1>1, <1>2, <1>3, <1>4, <1>5, <1>6, <1>7 DEF Skips, Advances
<1>. QED
  BY <1>6, <1>8

LEMMA NextRuleSkips ==
    ASSUME RulesType, NEW h \in Handlers, NextRule(h), handler[h].pc # "idle",
           handler[h].rule # 10
    PROVE  \E x \in HandlerType : Skips(h, x, handler[h].rule + 1)
<1>1. handler[h].rule \in 1 .. 10 /\ handler[h].left \in SUBSET LimitKeys
  BY HandlerTyped
<1>2. handler[h].rule + 1 \in 1 .. 10 /\ handler[h].rule <= handler[h].rule + 1
  BY <1>1
<1>. QED
  BY <1>1, <1>2, ProceedSkips DEF NextRule

LEMMA GotoGoes ==
    ASSUME RulesType, NEW h \in Handlers, NEW pc, Goto(h, pc), handler[h].pc # "idle",
           pc \in {"claim", "begin", "clear", "activate", "stop", "count", "worked"},
           pc = "claim" => handler[h].rule = 3,
           pc \in {"begin", "clear", "activate"} => handler[h].rule = 4,
           pc \in {"stop", "count", "worked"} => handler[h].rule = 9,
           pc \in {"begin", "activate"} => Rolling(handler[h].sample)
    PROVE  \E x \in HandlerType : Goes(h, x, pc)
<1>1. /\ handler[h] \in HandlerType /\ handler[h].rule \in 1 .. 10
  BY HandlerTyped
<1>. DEFINE x == [handler[h] EXCEPT !.pc = pc]
<1>2. handler' = [handler EXCEPT ![h] = x]
  BY DEF Goto
<1>3. /\ x \in HandlerType /\ x.pc = pc /\ x.rule = handler[h].rule /\ x.due = handler[h].due
      /\ x.sample = handler[h].sample /\ x.ts = handler[h].ts
  BY <1>1 DEF HandlerType
<1>. HIDE DEF x
<1>4. RuleOK(x) /\ pc # "idle"
  BY <1>3 DEF RuleOK
<1>5. Advances(h, x)
  BY <1>1, <1>2, <1>3, <1>4 DEF Advances
<1>6. Goes(h, x, pc)
  BY <1>3, <1>5 DEF Goes
<1>. QED
  BY <1>3, <1>6

\* The packet has read the counter.
LEMMA GotGoes ==
    ASSUME RulesType, NEW h \in Handlers, NEW got \in Nat, handler[h].pc # "idle",
           Got(h, "visit", got), handler[h].rule = 9
    PROVE  \E x \in HandlerType : Goes(h, x, "visit") /\ x.got = got
<1>1. /\ handler[h] \in HandlerType /\ handler[h].rule \in 1 .. 10
      /\ handler \in [Handlers -> HandlerType]
  BY HandlerTyped DEF RulesType
<1>. DEFINE x == [handler[h] EXCEPT !.pc = "visit", !.got = got]
<1>2. handler' = [handler EXCEPT ![h] = x]
  BY <1>1 DEF HandlerType, Got
<1>3. /\ x \in HandlerType /\ x.pc = "visit" /\ x.rule = handler[h].rule
      /\ x.due = handler[h].due
      /\ x.sample = handler[h].sample /\ x.ts = handler[h].ts /\ x.got = got
  BY <1>1 DEF HandlerType
<1>. HIDE DEF x
<1>4. RuleOK(x)
  BY <1>3 DEF RuleOK
<1>5. Advances(h, x)
  BY <1>1, <1>2, <1>3, <1>4 DEF Advances
<1>6. Goes(h, x, "visit")
  BY <1>3, <1>5 DEF Goes
<1>. QED
  BY <1>3, <1>6

\* The rule has claimed its key and will report.
Reporting(h, x, k) ==
    /\ Goes(h, x, "report") /\ x.got = now /\ x.key = k
    /\ x.move = IF k = "active" THEN moves ELSE 0

LEMMA ClaimedGoes ==
    ASSUME RulesType, NEW h \in Handlers, NEW k \in AlarmKeys, handler[h].pc # "idle",
           Claimed(h, k), handler[h].rule \in 1 .. 8
    PROVE  \E x \in HandlerType : Reporting(h, x, k)
<1>1. /\ handler[h] \in HandlerType /\ handler[h].left \in SUBSET LimitKeys
      /\ now \in Nat /\ moves \in Nat /\ k # "none"
  BY HandlerTyped, ClockTyped, KeyNames
<1>. DEFINE m == IF k = "active" THEN moves ELSE 0
            l == handler[h].left \ {k}
            x == [handler[h] EXCEPT !.pc = "report", !.got = now, !.left = l, !.key = k, !.move = m]
<1>2. m \in Nat /\ l \in SUBSET LimitKeys
  BY <1>1
<1>3. handler' = [handler EXCEPT ![h] = x]
  BY DEF Claimed
<1>. HIDE DEF m, l
<1>4. /\ x \in HandlerType /\ x.pc = "report" /\ x.rule = handler[h].rule
      /\ x.due = handler[h].due /\ x.got = now /\ x.key = k /\ x.move = m
      /\ x.sample = handler[h].sample /\ x.ts = handler[h].ts
  BY <1>1, <1>2 DEF HandlerType
<1>. HIDE DEF x
<1>5. RuleOK(x)
  BY <1>1, <1>4 DEF RuleOK
<1>6. Advances(h, x)
  BY <1>1, <1>3, <1>4, <1>5 DEF Advances
<1>7. Reporting(h, x, k)
  BY <1>4, <1>6 DEF Reporting, Goes, m
<1>. QED
  BY <1>4, <1>7

KeysType == [until : [Keys -> Nat], start : Nat, last : [speed : Nat, ts : Nat],
             visits : 0 .. MaxPackets, worked : BOOLEAN]

\* The key k now lives until t, and no other key has changed.
Rekeyed(k, t) ==
    /\ kv' \in KeysType
    /\ kv'.until[k] = t /\ \A l \in Keys : l # k => kv'.until[l] = kv.until[l]
    /\ kv'.visits = kv.visits

LEMMA SetRekeys ==
    ASSUME RulesType, NEW k \in Keys, NEW ttl \in Nat, kv' = Set(k, ttl)
    PROVE  Rekeyed(k, now + ttl) /\ kv'.start = kv.start /\ kv'.last = kv.last
<1>1. kv \in KeysType /\ now + ttl \in Nat
  BY ClockTyped DEF RulesType, KeysType
<1>. DEFINE u == [kv.until EXCEPT ![k] = now + ttl]
<1>2. u \in [Keys -> Nat] /\ u[k] = now + ttl /\ \A l \in Keys : l # k => u[l] = kv.until[l]
  BY <1>1 DEF KeysType
<1>3. kv' = [kv EXCEPT !.until = u]
  BY DEF Set
<1>. HIDE DEF u
<1>4. /\ kv' \in KeysType /\ kv'.until = u /\ kv'.visits = kv.visits
      /\ kv'.start = kv.start /\ kv'.last = kv.last
  BY <1>1, <1>2, <1>3 DEF KeysType
<1>. QED
  BY <1>2, <1>4 DEF Rekeyed

LEMMA DelRekeys ==
    ASSUME RulesType, NEW k \in Keys, kv' = Del(k)
    PROVE  Rekeyed(k, 0) /\ kv'.start = kv.start /\ kv'.last = kv.last
<1>1. kv \in KeysType
  BY DEF RulesType, KeysType
<1>. DEFINE u == [kv.until EXCEPT ![k] = 0]
<1>2. u \in [Keys -> Nat] /\ u[k] = 0 /\ \A l \in Keys : l # k => u[l] = kv.until[l]
  BY <1>1 DEF KeysType
<1>3. kv' = [kv EXCEPT !.until = u]
  BY DEF Del
<1>. HIDE DEF u
<1>4. /\ kv' \in KeysType /\ kv'.until = u /\ kv'.visits = kv.visits
      /\ kv'.start = kv.start /\ kv'.last = kv.last
  BY <1>1, <1>2, <1>3 DEF KeysType
<1>. QED
  BY <1>2, <1>4 DEF Rekeyed

LEMMA CooldownTyped ==
    ASSUME NEW k \in AlarmKeys
    PROVE  CooldownOf(k) \in Nat
BY Bounds DEF CooldownOf, AlarmKeys

LEMMA RuleAtIs ==
    ASSUME RulesType, NEW h \in Handlers
    PROVE  /\ RuleAt(h) \in LimitRules <=> handler[h].rule \in {1, 2, 5, 6, 7, 8}
           /\ RuleAt(h) = "crash" <=> handler[h].rule = 3
           /\ RuleAt(h) = "movement" <=> handler[h].rule = 4
           /\ RuleAt(h) = "station" <=> handler[h].rule = 9
           /\ RuleAt(h) = "store" <=> handler[h].rule = 10
<1>1. handler[h].rule \in 1 .. 10
  BY HandlerTyped
<1>. QED
  BY <1>1, RuleNumbers DEF RuleAt

-----------------------------------------------------------------------------
(* What a handler that goes on leaves alone. *)

Still == /\ UNCHANGED <<now, channel, packets, span, previous>>
         /\ faults' = 0 => faults = 0

LEMMA AdvanceTyped ==
    ASSUME RulesType, HandlersOK, NEW h \in Handlers, NEW x, Advances(h, x), Still,
           kv' \in KeysType, moves' \in Nat,
           alarms' \in Seq([key : AlarmKeys, move : Nat, at : Nat, just : BOOLEAN])
    PROVE  RulesType' /\ HandlersOK'
<1>1. handler' \in [Handlers -> HandlerType] /\ handler'[h] = x
      /\ \A g \in Handlers : g # h => handler'[g] = handler[g]
  BY DEF RulesType, Advances
<1>2. ASSUME NEW g \in Handlers
      PROVE  /\ handler'[g].pc # "idle" => handler'[g].sample \in Samples
             /\ RuleOK(handler'[g])
  BY <1>1 DEF RulesType, HandlersOK, Advances
<1>3. RulesType'
  BY <1>1, <1>2 DEF RulesType, KeysType, Still
<1>4. HandlersOK'
  BY <1>2 DEF HandlersOK
<1>. QED
  BY <1>3, <1>4

LEMMA AdvanceSocket ==
    ASSUME RulesType, SocketOK, NEW h \in Handlers, NEW x, Advances(h, x), Still
    PROVE  SocketOK'
<1>1. handler'[h] = x /\ \A g \in Handlers : g # h => handler'[g] = handler[g]
  BY DEF RulesType, Advances
<1>2. \A g \in Handlers : /\ Busy(g)' <=> Busy(g)
                          /\ handler'[g].sample = handler[g].sample
                          /\ handler'[g].ts = handler[g].ts
  BY <1>1 DEF Busy, Advances
<1>. QED
  BY <1>2 DEF SocketOK, OnSocket, Still

LEMMA AdvanceLast ==
    ASSUME RulesType, LastOK, NEW h \in Handlers, NEW x, Advances(h, x), Still,
           kv'.until["last"] = kv.until["last"], kv'.last = kv.last
    PROVE  LastOK'
<1>1. handler'[h] = x /\ \A g \in Handlers : g # h => handler'[g] = handler[g]
  BY DEF RulesType, Advances
<1>2. ASSUME NEW g \in Handlers
      PROVE  /\ handler'[g].sample = handler[g].sample
             /\ handler'[g].ts = handler[g].ts
             /\ handler'[g].due > 0 => handler[g].due = handler'[g].due
  BY <1>1 DEF Advances
<1>3. Busy(h)'
  BY <1>1 DEF Busy, Advances
<1>4. \A s, ts : Fell(s, ts, kv.last)' <=> Fell(s, ts, kv.last)
  BY DEF Fell
<1>. QED
  BY <1>2, <1>3, <1>4 DEF LastOK, OnSocket, Still

Alarm == [key : AlarmKeys, move : Nat, at : Nat, just : BOOLEAN]

LEMMA AlarmTyped ==
    ASSUME RulesType
    PROVE  /\ alarms \in Seq(Alarm) /\ Len(alarms) \in Nat
           /\ \A i \in 1 .. Len(alarms) : /\ alarms[i] \in Alarm /\ alarms[i].at \in Nat
                                         /\ alarms[i].key \in AlarmKeys /\ alarms[i].move \in Nat
<1>1. alarms \in Seq(Alarm)
  BY DEF RulesType, Alarm
<1>2. Len(alarms) \in Nat /\ \A i \in 1 .. Len(alarms) : alarms[i] \in Alarm
  BY <1>1
<1>. QED
  BY <1>1, <1>2 DEF Alarm

\* No key of an alarm changes, unless it is the movement's, which is given back.
SameClaims ==
    /\ moves' \in {moves, moves + 1}
    /\ \A k \in AlarmKeys : k # "active" \/ moves' = moves => kv'.until[k] = kv.until[k]

\* The claims of the alarms and of the pending handlers are as before.
LEMMA SameCooldown ==
    ASSUME RulesType, HandlersOK, CooldownOK, SameClaims, alarms' = alarms,
           \A g \in Handlers : Pending(g)' => Pending(g) /\ handler'[g] = handler[g]
    PROVE  CooldownOK'
<1>1. moves \in Nat /\ moves' >= moves
  BY DEF RulesType, SameClaims
<1>2. ASSUME NEW k \in AlarmKeys, NEW m \in Nat, NEW at, m <= moves,
             Live(k, m) => Covered(k, at)
      PROVE  m <= moves' /\ (Live(k, m)' => Covered(k, at)')
  <2>1. m <= moves'
    BY <1>1, <1>2 DEF SameClaims
  <2>2. ASSUME Live(k, m)'
        PROVE  Live(k, m) /\ (k # "active" \/ moves' = moves)
    BY <1>1, <1>2, <2>2 DEF Live, SameClaims
  <2>3. ASSUME Live(k, m)'
        PROVE  Covered(k, at)'
    BY <1>2, <2>2, <2>3 DEF Covered, SameClaims, CooldownOf
  <2>. QED
    BY <2>1, <2>3
<1>3. \A i \in 1 .. Len(alarms) : alarms[i].key \in AlarmKeys /\ alarms[i].move \in Nat
  BY AlarmTyped
<1>4. \A g \in Handlers : Pending(g) => handler[g].key \in AlarmKeys /\ handler[g].move \in Nat
  BY HandlerTyped DEF HandlersOK, RuleOK, Pending
<1>5. ClaimsOK'
  <2>1. ASSUME NEW i \in 1 .. Len(alarms)
        PROVE  /\ alarms[i].move <= moves'
               /\ Live(alarms[i].key, alarms[i].move)' => Covered(alarms[i].key, alarms[i].at)'
    BY <1>2, <1>3 DEF CooldownOK, ClaimsOK, Live, Covered
  <2>2. ASSUME NEW g \in Handlers, Pending(g)'
        PROVE  /\ handler'[g].move <= moves'
               /\ Live(handler[g].key, handler[g].move)' =>
                      Covered(handler[g].key, handler[g].got)'
    <3>1. Pending(g) /\ handler'[g] = handler[g]
      BY <2>2
    <3>. QED
      BY <1>2, <1>4, <3>1 DEF CooldownOK, ClaimsOK, Live, Covered
  <2>. QED
    BY <2>1, <2>2 DEF ClaimsOK
<1>6. ApartOK'
  BY DEF CooldownOK, ApartOK, Apart, Alike, CooldownOf
<1>. QED
  BY <1>5, <1>6 DEF CooldownOK

LEMMA AdvanceCooldown ==
    ASSUME RulesType, HandlersOK, CooldownOK, NEW h \in Handlers, NEW x, Advances(h, x),
           x.pc # "report", alarms' = alarms, SameClaims
    PROVE  CooldownOK'
<1>1. handler'[h] = x /\ \A g \in Handlers : g # h => handler'[g] = handler[g]
  BY DEF RulesType, Advances
<1>2. \A g \in Handlers : Pending(g)' => Pending(g) /\ handler'[g] = handler[g]
  BY <1>1 DEF Pending
<1>. QED
  BY <1>2, SameCooldown

\* The start of the movement is kept, and its end still to come, or it is new.
StartKept(h, x) ==
    /\ kv'.until["start"] = kv.until["start"] /\ kv'.start = kv.start
    /\ WillEnd(h) => x.rule < 4 \/ (x.rule = 4 /\ x.pc = "rule")
StartNew == OnSocket /\ kv'.until["start"] > 0 => kv'.start \in span

LEMMA AdvanceAlarm ==
    ASSUME RulesType, TheftOK, NEW h \in Handlers, NEW x, Advances(h, x), Still,
           StartKept(h, x) \/ StartNew, OnSocket /\ faults = 0 => TheftJustified',
           /\ OnSocket /\ faults = 0
           /\ x.pc = "activate" \/ (x.pc = "report" /\ x.rule = 4)
           => LongEnough(handler[h].ts)
    PROVE  TheftOK'
<1>1. handler'[h] = x /\ \A g \in Handlers : g # h => handler'[g] = handler[g]
  BY DEF RulesType, Advances
<1>2. StartKept(h, x) => \A g \in Handlers : WillEnd(g) => WillEnd(g)'
  BY <1>1 DEF StartKept, WillEnd, Busy, Advances, Rolling, Moving
<1>3. SUFFICES ASSUME OnSocket', faults' = 0
               PROVE  /\ kv'.until["start"] > 0 =>
                             kv'.start \in span' \/ \E g \in Handlers : WillEnd(g)'
                      /\ \A g \in Handlers :
                            handler'[g].pc = "activate"
                            \/ (handler'[g].pc = "report" /\ handler'[g].rule = 4) =>
                                LongEnough(handler[g].ts)'
                      /\ TheftJustified'
  BY DEF TheftOK
<1>4. OnSocket /\ faults = 0
  BY <1>3 DEF OnSocket, Still
<1>5. kv'.until["start"] > 0 => kv'.start \in span' \/ \E g \in Handlers : WillEnd(g)'
  BY <1>2, <1>4 DEF TheftOK, Still, StartKept, StartNew
<1>6. ASSUME NEW g \in Handlers,
             handler'[g].pc = "activate" \/ (handler'[g].pc = "report" /\ handler'[g].rule = 4)
      PROVE  LongEnough(handler[g].ts)'
  <2>1. CASE g = h
    BY <1>1, <1>4, <1>6, <2>1 DEF Advances, LongEnough, Still
  <2>2. CASE g # h
    BY <1>1, <1>4, <1>6, <2>2 DEF TheftOK, LongEnough, Still
  <2>. QED
    BY <2>1, <2>2
<1>7. TheftJustified'
  BY <1>4
<1>. QED
  BY <1>5, <1>6, <1>7

LEMMA AdvanceTheft ==
    ASSUME RulesType, TheftOK, NEW h \in Handlers, NEW x, Advances(h, x), Still,
           alarms' = alarms, StartKept(h, x) \/ StartNew,
           /\ OnSocket /\ faults = 0
           /\ x.pc = "activate" \/ (x.pc = "report" /\ x.rule = 4)
           => LongEnough(handler[h].ts)
    PROVE  TheftOK'
<1>1. OnSocket /\ faults = 0 => TheftJustified'
  BY DEF TheftOK, TheftJustified
<1>. QED
  BY <1>1, AdvanceAlarm

LEMMA MayVisitFinite ==
    /\ IsFiniteSet(MayVisit) /\ Cardinality(MayVisit) \in Nat
    /\ \A h \in MayVisit : Cardinality(MayVisit) >= 1
<1>1. IsFiniteSet(MayVisit) /\ Cardinality(MayVisit) \in Nat
  BY Bounds, FS_Subset, FS_CardinalityType DEF MayVisit
<1>2. MayVisit # {} => Cardinality(MayVisit) # 0
  BY <1>1, FS_EmptySet
<1>. QED
  BY <1>1, <1>2

\* One handler less may count a visit.
LEMMA FewerMayVisit ==
    ASSUME MayVisit' \subseteq MayVisit
    PROVE  /\ Cardinality(MayVisit)' \in Nat /\ Cardinality(MayVisit)' <= Cardinality(MayVisit)
           /\ \A h \in MayVisit : h \notin MayVisit' =>
                  Cardinality(MayVisit)' <= Cardinality(MayVisit) - 1
<1>1. IsFiniteSet(MayVisit) /\ Cardinality(MayVisit) \in Nat
  BY MayVisitFinite
<1>2. /\ IsFiniteSet(MayVisit') /\ Cardinality(MayVisit') \in Nat
      /\ Cardinality(MayVisit') <= Cardinality(MayVisit)
  BY <1>1, FS_Subset, FS_CardinalityType
<1>3. ASSUME NEW h \in MayVisit, h \notin MayVisit'
      PROVE  Cardinality(MayVisit') <= Cardinality(MayVisit) - 1
  <2>1. MayVisit' \subseteq MayVisit \ {h}
    BY <1>3
  <2>2. IsFiniteSet(MayVisit \ {h}) /\ Cardinality(MayVisit \ {h}) = Cardinality(MayVisit) - 1
    BY <1>1, <1>3, FS_RemoveElement
  <2>. QED
    BY <2>1, <2>2, FS_Subset
<1>. QED
  BY <1>2, <1>3

LEMMA AdvanceMayVisit ==
    ASSUME RulesType, HandlersOK, NEW h \in Handlers, NEW x, Advances(h, x),
           handler[h].pc = "worked" => x.rule = 10
    PROVE  MayVisit' \subseteq MayVisit
<1>1. handler'[h] = x /\ \A g \in Handlers : g # h => handler'[g] = handler[g]
  BY DEF RulesType, Advances
<1>2. handler[h].rule \in 1 .. 10
  BY HandlerTyped
<1>. QED
  BY <1>1, <1>2 DEF MayVisit, Advances

LEMMA AdvanceVisits ==
    ASSUME RulesType, HandlersOK, VisitsOK, NEW h \in Handlers, NEW x, Advances(h, x), Still,
           handler[h].pc = "worked" => x.rule = 10, x.pc # "visit", kv'.visits = kv.visits
    PROVE  VisitsOK'
<1>1. handler'[h] = x /\ \A g \in Handlers : g # h => handler'[g] = handler[g]
  BY DEF RulesType, Advances
<1>2. /\ Cardinality(MayVisit)' \in Nat /\ Cardinality(MayVisit)' <= Cardinality(MayVisit)
      /\ Cardinality(MayVisit) \in Nat
  BY AdvanceMayVisit, FewerMayVisit, MayVisitFinite
<1>3. kv.visits \in Nat /\ packets \in Nat /\ packets' = packets
  BY Bounds DEF RulesType, Still
<1>4. \A g \in Handlers : handler'[g].pc = "visit" =>
          handler[g].pc = "visit" /\ handler'[g].got = handler[g].got /\ handler[g].got \in Nat
  BY <1>1, HandlerTyped
<1>5. (kv.visits + Cardinality(MayVisit) <= packets)'
  BY <1>2, <1>3 DEF VisitsOK
<1>6. ASSUME NEW g \in Handlers, handler'[g].pc = "visit"
      PROVE  handler'[g].got + Cardinality(MayVisit)' - 1 <= packets'
  BY <1>2, <1>3, <1>4, <1>6 DEF VisitsOK
<1>. QED
  BY <1>5, <1>6 DEF VisitsOK

-----------------------------------------------------------------------------
(* The actions of a handler. *)

Rules ==
    /\ RulesType /\ HandlersOK /\ VisitsOK /\ CooldownOK
    /\ SocketOK /\ TheftOK /\ LastOK

\* The keys that the invariant is about are as before.
QuietKeys ==
    /\ kv' \in KeysType /\ kv'.visits = kv.visits
    /\ kv'.start = kv.start /\ kv'.last = kv.last
    /\ kv'.until["start"] = kv.until["start"] /\ kv'.until["last"] = kv.until["last"]
    /\ SameClaims /\ moves' \in Nat

LEMMA SameIsQuiet ==
    ASSUME RulesType, kv' = kv, moves' = moves
    PROVE  QuietKeys
BY DEF RulesType, KeysType, QuietKeys, SameClaims

LEMMA RekeyedQuiet ==
    ASSUME RulesType, NEW k \in {"active", "stop"}, NEW t, Rekeyed(k, t),
           kv'.start = kv.start, kv'.last = kv.last,
           \/ k = "stop" /\ moves' = moves
           \/ k = "active" /\ moves' = moves + 1
    PROVE  QuietKeys
<1>1. moves \in Nat /\ moves' \in Nat
  BY DEF RulesType
<1>2. \A l \in Keys : l # k => kv'.until[l] = kv.until[l]
  BY DEF Rekeyed
<1>3. SameClaims
  BY <1>1, <1>2, KeyNames DEF SameClaims
<1>. QED
  BY <1>1, <1>2, <1>3, KeyNames DEF Rekeyed, QuietKeys

\* A handler goes on and nothing else that matters happens.
LEMMA QuietKeeps ==
    ASSUME Rules, NEW h \in Handlers, NEW x, Advances(h, x), Still, QuietKeys, alarms' = alarms,
           x.pc \notin {"visit", "activate", "report"},
           handler[h].pc = "worked" => x.rule = 10,
           WillEnd(h) => x.rule < 4 \/ (x.rule = 4 /\ x.pc = "rule")
    PROVE  Rules'
<1>. USE DEF Rules
<1>1. /\ kv' \in KeysType /\ kv'.visits = kv.visits /\ kv'.start = kv.start /\ kv'.last = kv.last
      /\ kv'.until["start"] = kv.until["start"] /\ kv'.until["last"] = kv.until["last"]
      /\ SameClaims /\ moves' \in Nat
  BY DEF QuietKeys
<1>2. RulesType' /\ HandlersOK'
  BY <1>1, AdvanceTyped DEF RulesType
<1>3. VisitsOK'
  BY <1>1, AdvanceVisits
<1>4. CooldownOK'
  BY <1>1, AdvanceCooldown
<1>5. SocketOK' /\ LastOK'
  BY <1>1, AdvanceSocket, AdvanceLast
<1>6. StartKept(h, x)
  BY <1>1 DEF StartKept
<1>7. TheftOK'
  BY <1>6, AdvanceTheft
<1>. QED
  BY <1>2, <1>3, <1>4, <1>5, <1>7

LEMMA ProceedKeeps ==
    ASSUME Rules, NEW h \in Handlers, NEW left \in SUBSET LimitKeys, NEW i \in 1 .. 10,
           Proceed(h, left, i), Still, QuietKeys, alarms' = alarms,
           handler[h].pc # "idle", handler[h].rule <= i, handler[h].rule < 4 => i <= 4,
           handler[h].pc = "worked" => i = 10,
           handler[h].pc = "rule" /\ handler[h].rule = 4 => Rolling(handler[h].sample)
    PROVE  Rules'
<1>1. PICK x \in HandlerType : Skips(h, x, i)
  BY ProceedSkips DEF Rules
<1>2. handler[h].rule \in 1 .. 10 /\ x.rule \in 1 .. 10
  BY <1>1, HandlerTyped, RuleNames DEF Rules, HandlerType
<1>3. handler[h].pc = "worked" => x.rule = 10
  BY <1>1, <1>2 DEF Skips
<1>4. WillEnd(h) => x.rule < 4 \/ (x.rule = 4 /\ x.pc = "rule")
  BY <1>1, <1>2 DEF Skips, WillEnd
<1>5. Advances(h, x) /\ x.pc = "rule"
  BY <1>1 DEF Skips
<1>. QED
  BY <1>3, <1>4, <1>5, QuietKeeps

LEMMA SkipKeeps ==
    ASSUME Rules, NEW h \in Handlers, NextRule(h), Still, QuietKeys, alarms' = alarms,
           handler[h].pc # "idle", handler[h].rule # 10,
           handler[h].pc = "rule" /\ handler[h].rule = 4 => Rolling(handler[h].sample)
    PROVE  Rules'
<1>1. handler[h].rule \in 1 .. 10 /\ handler[h].left \in SUBSET LimitKeys
  BY HandlerTyped DEF Rules
<1>2. handler[h].rule + 1 \in 1 .. 10 /\ handler[h].rule <= handler[h].rule + 1
      /\ (handler[h].rule < 4 => handler[h].rule + 1 <= 4)
  BY <1>1
<1>3. handler[h].pc = "worked" => handler[h].rule + 1 = 10
  BY <1>1 DEF Rules, HandlersOK, RuleOK
<1>. QED
  BY <1>1, <1>2, <1>3, ProceedKeeps DEF NextRule

\* A handler that goes to another step of its rule, one that ends no movement.
LEMMA GoKeeps ==
    ASSUME Rules, NEW h \in Handlers, NEW pc, Goto(h, pc), Still, QuietKeys, alarms' = alarms,
           \/ pc = "claim" /\ handler[h].rule = 3
           \/ pc = "begin" /\ handler[h].rule = 4 /\ Rolling(handler[h].sample)
           \/ pc \in {"stop", "count"} /\ handler[h].rule = 9,
           handler[h].pc \notin {"idle", "worked"}
    PROVE  Rules'
<1>0. \/ pc = "claim" /\ handler[h].rule = 3
      \/ pc = "begin" /\ handler[h].rule = 4 /\ Rolling(handler[h].sample)
      \/ pc \in {"stop", "count"} /\ handler[h].rule = 9
  OBVIOUS
<1>1. \E x \in HandlerType : Goes(h, x, pc)
  BY <1>0, GotoGoes DEF Rules
<1>2. PICK x \in HandlerType : Goes(h, x, pc)
  BY <1>1
<1>3. Advances(h, x) /\ x.pc = pc /\ x.rule = handler[h].rule
  BY <1>2 DEF Goes
<1>4. x.pc \notin {"visit", "activate", "report"}
  BY <1>0, <1>3
<1>5. WillEnd(h) => x.rule < 4 \/ (x.rule = 4 /\ x.pc = "rule")
  BY <1>0, <1>3 DEF WillEnd
<1>. QED
  BY <1>3, <1>4, <1>5, QuietKeeps

LEMMA StillIs ==
    ASSUME UNCHANGED <<reportVars, world, past>>
    PROVE  Still /\ alarms' = alarms /\ moves' = moves
BY DEF Still, reportVars, world, past

LEMMA EvaluateCrashKeeps ==
    ASSUME Rules, NEW h \in Handlers, EvaluateCrash(h)
    PROVE  Rules'
<1>1. Still /\ alarms' = alarms /\ QuietKeys
  BY StillIs, SameIsQuiet DEF EvaluateCrash, Rules
<1>2. handler[h].pc = "rule" /\ handler[h].rule = 3
  BY RuleAtIs DEF EvaluateCrash, Rules
<1>3. CASE Goto(h, "claim")
  BY <1>1, <1>2, <1>3, GoKeeps
<1>4. CASE NextRule(h)
  BY <1>1, <1>2, <1>4, SkipKeeps
<1>. QED
  BY <1>3, <1>4 DEF EvaluateCrash

\* A claimed key is reported at the time of its claim.
LEMMA NewClaim ==
    ASSUME Rules, NEW h \in Handlers, NEW x, NEW k \in AlarmKeys, Reporting(h, x, k),
           alarms' = alarms, moves' = moves, kv.until[k] <= now, Rekeyed(k, now + CooldownOf(k))
    PROVE  CooldownOK'
<1>. USE DEF Rules
<1>1. handler'[h] = x /\ \A g \in Handlers : g # h => handler'[g] = handler[g]
  BY DEF RulesType, Reporting, Goes, Advances
<1>2. /\ now \in Nat /\ moves \in Nat
      /\ \A q \in AlarmKeys : CooldownOf(q) \in Nat /\ kv.until[q] \in Nat
      /\ kv'.until[k] = now + CooldownOf(k)
      /\ \A q \in AlarmKeys : q # k => kv'.until[q] = kv.until[q]
  <2>1. kv.until \in [Keys -> Nat] /\ now \in Nat /\ moves \in Nat
    BY Bounds DEF RulesType
  <2>2. \A q \in AlarmKeys : CooldownOf(q) \in Nat /\ q \in Keys
    BY KeyNames, CooldownTyped
  <2>. QED
    BY <2>1, <2>2 DEF Rekeyed
<1>3. /\ x.key = k /\ x.got = now /\ x.move \in Nat /\ x.move <= moves /\ Live(k, x.move)
  BY <1>2 DEF Reporting, Live
<1>4. ASSUME NEW g \in Handlers, g # h
      PROVE  /\ Pending(g)' <=> Pending(g)
             /\ handler'[g] = handler[g] /\ handler[g].got \in Nat
             /\ Pending(g) => handler[g].key \in AlarmKeys
  BY <1>1, <1>4, HandlerTyped DEF Pending, HandlersOK, RuleOK
<1>5. \A i \in 1 .. Len(alarms) : alarms[i].at \in Nat /\ alarms[i].key \in AlarmKeys
  BY AlarmTyped
<1>6. ASSUME NEW q \in AlarmKeys, NEW at \in Nat, Covered(q, at)
      PROVE  at + CooldownOf(q) <= kv'.until[q]
  <2>1. at + CooldownOf(q) <= kv.until[q] /\ CooldownOf(q) \in Nat /\ kv.until[q] \in Nat
    BY <1>2, <1>6 DEF Covered
  <2>2. CASE q = k
    BY <1>2, <2>1, <2>2
  <2>3. CASE q # k
    BY <1>2, <2>1, <2>3
  <2>. QED
    BY <2>2, <2>3
<1>7. \A at \in Nat : Covered(k, at) => Apart(k, at, now)
  BY <1>2 DEF Covered, Apart
<1>8. ClaimsOK'
  <2>1. ASSUME NEW i \in 1 .. Len(alarms)
        PROVE  /\ alarms[i].move <= moves'
               /\ Live(alarms[i].key, alarms[i].move)' => Covered(alarms[i].key, alarms[i].at)'
    <3>1. /\ alarms[i].move <= moves
          /\ Live(alarms[i].key, alarms[i].move) => Covered(alarms[i].key, alarms[i].at)
      BY DEF CooldownOK, ClaimsOK
    <3>2. Live(alarms[i].key, alarms[i].move) =>
              alarms[i].at + CooldownOf(alarms[i].key) <= kv'.until[alarms[i].key]
      BY <1>5, <1>6, <3>1
    <3>. QED
      BY <3>1, <3>2 DEF Live, Covered, CooldownOf
  <2>2. ASSUME NEW g \in Handlers, Pending(g)'
        PROVE  /\ handler'[g].move <= moves'
               /\ Live(handler[g].key, handler[g].move)' =>
                      Covered(handler[g].key, handler[g].got)'
    <3>1. CASE g = h
      <4>1. now + CooldownOf(k) <= kv'.until[k] /\ x.move <= moves'
        BY <1>2, <1>3
      <4>2. handler'[g].key = k /\ handler'[g].got = now /\ handler'[g].move = x.move
        BY <1>1, <1>3, <3>1
      <4>. QED
        BY <4>1, <4>2 DEF Covered, CooldownOf
    <3>2. CASE g # h
      <4>1. /\ handler[g].move <= moves /\ handler[g].key \in AlarmKeys
            /\ Live(handler[g].key, handler[g].move) => Covered(handler[g].key, handler[g].got)
        BY <1>4, <2>2, <3>2 DEF CooldownOK, ClaimsOK
      <4>2. Live(handler[g].key, handler[g].move) =>
                handler[g].got + CooldownOf(handler[g].key) <= kv'.until[handler[g].key]
        BY <1>4, <1>6, <3>2, <4>1
      <4>. QED
        BY <1>4, <3>2, <4>1, <4>2 DEF Live, Covered, CooldownOf
    <3>. QED
      BY <3>1, <3>2
  <2>. QED
    BY <2>1, <2>2 DEF ClaimsOK
<1>9. ApartOK'
  <2>1. ASSUME NEW i \in 1 .. Len(alarms), NEW j \in 1 .. Len(alarms),
               i # j, Alike(alarms[i], alarms[j])
        PROVE  Apart(alarms[i].key, alarms[i].at, alarms[j].at)
    BY <2>1 DEF CooldownOK, ApartOK
  <2>2. ASSUME NEW i \in 1 .. Len(alarms), Alike(alarms[i], x)
        PROVE  Apart(k, alarms[i].at, now)
    <3>1. alarms[i].key = k /\ Live(alarms[i].key, alarms[i].move)
      BY <1>3, <2>2 DEF Alike
    <3>2. Covered(k, alarms[i].at)
      BY <3>1 DEF CooldownOK, ClaimsOK
    <3>. QED
      BY <1>5, <1>7, <3>2
  <2>3. ASSUME NEW f \in Handlers, f # h, Pending(f), Alike(handler[f], x)
        PROVE  Apart(k, handler[f].got, now)
    <3>1. handler[f].key = k /\ Live(handler[f].key, handler[f].move)
      BY <1>3, <2>3 DEF Alike
    <3>2. Covered(k, handler[f].got)
      BY <2>3, <3>1 DEF CooldownOK, ClaimsOK
    <3>. QED
      BY <1>4, <1>7, <2>3, <3>2
  <2>4. ASSUME NEW i \in 1 .. Len(alarms), NEW g \in Handlers,
               Pending(g)', Alike(alarms[i], handler'[g])
        PROVE  Apart(handler'[g].key, alarms[i].at, handler'[g].got)
    <3>1. CASE g = h
      BY <1>1, <1>3, <2>2, <2>4, <3>1
    <3>2. CASE g # h
      BY <1>4, <2>4, <3>2 DEF CooldownOK, ApartOK
    <3>. QED
      BY <3>1, <3>2
  <2>5. ASSUME NEW f \in Handlers, NEW g \in Handlers,
               f # g, Pending(f)', Pending(g)', Alike(handler'[f], handler'[g])
        PROVE  Apart(handler'[g].key, handler'[f].got, handler'[g].got)
    <3>1. CASE f = h
      <4>1. Pending(g) /\ Alike(handler[g], x) /\ handler'[g] = handler[g]
        BY <1>1, <1>4, <2>5, <3>1 DEF Alike
      <4>2. Apart(k, handler[g].got, now) /\ handler[g].key = k
        BY <1>3, <2>3, <2>5, <3>1, <4>1 DEF Alike
      <4>. QED
        BY <1>1, <1>3, <3>1, <4>1, <4>2 DEF Apart
    <3>2. CASE g = h
      <4>1. Pending(f) /\ Alike(handler[f], x) /\ handler'[f] = handler[f]
        BY <1>1, <1>4, <2>5, <3>2
      <4>. QED
        BY <1>1, <1>3, <2>3, <2>5, <3>2, <4>1
    <3>3. CASE f # h /\ g # h
      BY <1>4, <2>5, <3>3 DEF CooldownOK, ApartOK
    <3>. QED
      BY <3>1, <3>2, <3>3
  <2>. QED
    BY <2>1, <2>4, <2>5 DEF ApartOK, Apart, Alike, CooldownOf
<1>. QED
  BY <1>8, <1>9 DEF CooldownOK

\* SET NX of the key of an event succeeds.
LEMMA ClaimedKeeps ==
    ASSUME Rules, NEW h \in Handlers, NEW k \in AlarmKeys, Claimed(h, k), ~Has(k),
           kv' = Set(k, CooldownOf(k)), Still, alarms' = alarms, moves' = moves,
           handler[h].pc \notin {"idle", "worked"}, handler[h].rule \in 1 .. 8,
           handler[h].rule = 4 => handler[h].pc = "activate"
    PROVE  Rules'
<1>. USE DEF Rules
<1>1. k \in Keys /\ CooldownOf(k) \in Nat /\ now \in Nat /\ moves' \in Nat
  BY KeyNames, CooldownTyped, Bounds DEF RulesType
<1>2. kv.until[k] <= now
  BY <1>1 DEF Has, RulesType
<1>3. /\ Rekeyed(k, now + CooldownOf(k))
      /\ kv'.start = kv.start /\ kv'.last = kv.last
  BY <1>1, SetRekeys
<1>4. PICK x \in HandlerType : Reporting(h, x, k)
  BY ClaimedGoes
<1>5. Advances(h, x) /\ x.pc = "report" /\ x.rule = handler[h].rule
  BY <1>4 DEF Reporting, Goes
<1>6. /\ kv' \in KeysType /\ kv'.visits = kv.visits
      /\ kv'.until["start"] = kv.until["start"] /\ kv'.until["last"] = kv.until["last"]
  BY <1>3, KeyNames DEF Rekeyed
<1>7. RulesType' /\ HandlersOK'
  BY <1>1, <1>5, <1>6, AdvanceTyped DEF RulesType
<1>8. VisitsOK'
  BY <1>5, <1>6, AdvanceVisits
<1>9. CooldownOK'
  BY <1>2, <1>3, <1>4, NewClaim
<1>10. SocketOK' /\ LastOK'
  BY <1>3, <1>5, <1>6, AdvanceSocket, AdvanceLast
<1>11. StartKept(h, x)
  BY <1>3, <1>5, <1>6 DEF StartKept, WillEnd
<1>12. OnSocket /\ faults = 0 /\ x.rule = 4 => LongEnough(handler[h].ts)
  BY <1>5 DEF TheftOK
<1>13. TheftOK'
  BY <1>5, <1>11, <1>12, AdvanceTheft
<1>. QED
  BY <1>7, <1>8, <1>9, <1>10, <1>13

\* Where a rule goes on after an event.
LEMMA RestIs ==
    ASSUME RulesType, NEW h \in Handlers, handler[h].rule # 10
    PROVE  /\ Rest(h) \in 1 .. 10 /\ handler[h].rule <= Rest(h)
           /\ handler[h].rule < 4 => Rest(h) <= 4
           /\ handler[h].rule = 3 => Rest(h) = 4
<1>1. handler[h].rule \in 1 .. 10
  BY HandlerTyped
<1>. QED
  BY <1>1, RuleAtIs DEF Rest

LEMMA ClaimKeeps ==
    ASSUME Rules, NEW h \in Handlers, NEW k \in LimitKeys \cup {"crash"}, Claim(h, k)
    PROVE  Rules'
<1>. USE DEF Rules
<1>1. Still /\ alarms' = alarms /\ moves' = moves
  BY StillIs DEF Claim
<1>2. /\ handler[h].pc \in {"rule", "claim"} /\ handler[h].rule \in {1, 2, 3, 5, 6, 7, 8}
      /\ k \in AlarmKeys /\ handler[h].left \ {k} \in SUBSET LimitKeys
  <2>1. handler[h].left \in SUBSET LimitKeys
    BY HandlerTyped
  <2>2. CASE handler[h].pc = "rule" /\ k \in handler[h].left /\ RuleOf[k] = RuleAt(h)
    <3>1. RuleAt(h) \in LimitRules
      BY <2>1, <2>2, Bounds
    <3>. QED
      BY <2>1, <2>2, <3>1, RuleAtIs, KeyNames
  <2>3. CASE handler[h].pc = "claim" /\ k = "crash"
    BY <2>1, <2>3, KeyNames DEF HandlersOK, RuleOK
  <2>. QED
    BY <2>2, <2>3 DEF Claim
<1>3. CASE Has(k) /\ Proceed(h, handler[h].left \ {k}, Rest(h)) /\ UNCHANGED kv
  BY <1>1, <1>2, <1>3, RestIs, SameIsQuiet, ProceedKeeps
<1>4. CASE ~Has(k) /\ kv' = Set(k, CooldownOf(k)) /\ Claimed(h, k)
  BY <1>1, <1>2, <1>4, ClaimedKeeps
<1>. QED
  BY <1>3, <1>4 DEF Claim

\* The movement key is written: the handler goes on and starts or ends a movement.
LEMMA StartKeeps ==
    ASSUME Rules, NEW h \in Handlers, NEW x, Advances(h, x), Still, alarms' = alarms,
           x.pc \notin {"visit", "activate", "report"}, handler[h].pc # "worked", moves' = moves,
           NEW t, Rekeyed("start", t), kv'.last = kv.last, StartNew
    PROVE  Rules'
<1>. USE DEF Rules
<1>1. /\ kv' \in KeysType /\ kv'.visits = kv.visits
      /\ kv'.until["last"] = kv.until["last"]
      /\ SameClaims /\ moves' \in Nat
  BY KeyNames DEF Rekeyed, SameClaims, RulesType
<1>2. RulesType' /\ HandlersOK'
  BY <1>1, AdvanceTyped DEF RulesType
<1>3. VisitsOK'
  BY <1>1, AdvanceVisits
<1>4. CooldownOK'
  BY <1>1, AdvanceCooldown
<1>5. SocketOK' /\ LastOK'
  BY <1>1, AdvanceSocket, AdvanceLast
<1>6. TheftOK'
  BY AdvanceTheft
<1>. QED
  BY <1>2, <1>3, <1>4, <1>5, <1>6

LEMMA MovementOverKeeps ==
    ASSUME Rules, NEW h \in Handlers, MovementOver(h)
    PROVE  Rules'
<1>1. Still /\ alarms' = alarms /\ moves' = moves
  BY StillIs DEF MovementOver
<1>2. handler[h].pc = "rule" /\ handler[h].rule = 4
  BY RuleAtIs DEF MovementOver, Rules
<1>3. Rekeyed("start", 0) /\ kv'.last = kv.last
  BY DelRekeys, KeyNames DEF MovementOver, Rules
<1>4. PICK x \in HandlerType : Goes(h, x, "clear")
  BY <1>2, GotoGoes DEF MovementOver, Rules
<1>5. Advances(h, x) /\ x.pc = "clear"
  BY <1>4 DEF Goes
<1>6. StartNew
  BY <1>3 DEF StartNew, Rekeyed
<1>. QED
  BY <1>1, <1>2, <1>3, <1>5, <1>6, StartKeeps

LEMMA WriteStartKeeps ==
    ASSUME Rules, NEW h \in Handlers, WriteStart(h)
    PROVE  Rules'
<1>. USE DEF Rules
<1>1. Still /\ alarms' = alarms /\ moves' = moves
  BY StillIs DEF WriteStart
<1>2. handler[h].pc = "begin" /\ handler[h].rule = 4 /\ Rolling(handler[h].sample)
  BY DEF WriteStart, HandlersOK, RuleOK
<1>3. handler[h].ts \in Nat /\ kv \in KeysType /\ now + TheftCooldown \in Nat /\ "start" \in Keys
  <2>1. handler[h].ts \in Nat
    BY HandlerTyped, Bounds
  <2>2. kv \in KeysType /\ now + TheftCooldown \in Nat
    BY Bounds DEF RulesType, KeysType
  <2>. QED
    BY <2>1, <2>2, KeyNames
<1>. DEFINE u == [kv.until EXCEPT !["start"] = now + TheftCooldown]
<1>4. /\ u \in [Keys -> Nat] /\ u["start"] = now + TheftCooldown
      /\ \A l \in Keys : l # "start" => u[l] = kv.until[l]
  BY <1>3 DEF KeysType
<1>5. kv' = [[kv EXCEPT !.until = u] EXCEPT !.start = handler[h].ts]
  BY DEF WriteStart, Set
<1>. HIDE DEF u
<1>6. /\ kv' \in KeysType /\ kv'.until = u /\ kv'.visits = kv.visits
      /\ kv'.start = handler[h].ts /\ kv'.last = kv.last
  BY <1>3, <1>4, <1>5 DEF KeysType
<1>7. Rekeyed("start", now + TheftCooldown)
  BY <1>4, <1>6 DEF Rekeyed
<1>8. StartNew
  BY <1>2, <1>6 DEF StartNew, SocketOK, Busy
<1>9. PICK x \in HandlerType : Skips(h, x, handler[h].rule + 1)
  BY <1>2, NextRuleSkips DEF WriteStart
<1>10. Advances(h, x) /\ x.pc = "rule"
  BY <1>9 DEF Skips
<1>. QED
  BY <1>1, <1>2, <1>6, <1>7, <1>8, <1>10, StartKeeps

LEMMA ClearActiveKeeps ==
    ASSUME Rules, NEW h \in Handlers, ClearActive(h)
    PROVE  Rules'
<1>1. Still /\ alarms' = alarms /\ moves' = moves + 1
  BY DEF ClearActive, Still, reportVars, world
<1>2. handler[h].pc = "clear" /\ handler[h].rule = 4
  BY DEF ClearActive, Rules, HandlersOK, RuleOK
<1>3. QuietKeys
  BY <1>1, DelRekeys, RekeyedQuiet, KeyNames DEF ClearActive, Rules
<1>. QED
  BY <1>1, <1>2, <1>3, SkipKeeps DEF ClearActive

LEMMA IncidentHandledKeeps ==
    ASSUME Rules, NEW h \in Handlers, IncidentHandled(h)
    PROVE  Rules'
<1>1. Still /\ alarms' = alarms /\ QuietKeys
  BY StillIs, SameIsQuiet DEF IncidentHandled, Rules
<1>2. handler[h].pc = "wait" /\ handler[h].rule = 3
  BY DEF IncidentHandled, Rules, HandlersOK, RuleOK
<1>. QED
  BY <1>1, <1>2, SkipKeeps DEF IncidentHandled

LEMMA ReadStopKeeps ==
    ASSUME Rules, NEW h \in Handlers, ReadStop(h)
    PROVE  Rules'
<1>1. Still /\ alarms' = alarms /\ QuietKeys
  BY StillIs, SameIsQuiet DEF ReadStop, Rules
<1>2. handler[h].pc = "rule" /\ handler[h].rule = 9
  BY RuleAtIs DEF ReadStop, Rules
<1>3. CASE Goto(h, "stop")
  BY <1>1, <1>2, <1>3, GoKeeps
<1>4. CASE NextRule(h)
  BY <1>1, <1>2, <1>4, SkipKeeps
<1>. QED
  BY <1>3, <1>4 DEF ReadStop

LEMMA WriteStopKeeps ==
    ASSUME Rules, NEW h \in Handlers, WriteStop(h)
    PROVE  Rules'
<1>1. Still /\ alarms' = alarms /\ moves' = moves
  BY StillIs DEF WriteStop
<1>2. handler[h].pc = "stop" /\ handler[h].rule = 9
  BY DEF WriteStop, Rules, HandlersOK, RuleOK
<1>3. QuietKeys
  BY <1>1, SetRekeys, RekeyedQuiet, KeyNames, Bounds DEF WriteStop, Rules
<1>. QED
  BY <1>1, <1>2, <1>3, GoKeeps DEF WriteStop

LEMMA WriteWorkedKeeps ==
    ASSUME Rules, NEW h \in Handlers, WriteWorked(h)
    PROVE  Rules'
<1>1. Still /\ alarms' = alarms /\ moves' = moves
  BY StillIs DEF WriteWorked
<1>2. handler[h].pc = "worked" /\ handler[h].rule = 9
  BY DEF WriteWorked, Rules, HandlersOK, RuleOK
<1>3. kv \in KeysType /\ kv' = [kv EXCEPT !.worked = TRUE]
  BY DEF WriteWorked, Rules, RulesType, KeysType
<1>4. QuietKeys
  BY <1>1, <1>3 DEF KeysType, QuietKeys, SameClaims, Rules, RulesType
<1>. QED
  BY <1>1, <1>2, <1>4, SkipKeeps DEF WriteWorked

LEMMA RuleFailsKeeps ==
    ASSUME Rules, faults \in Nat, NEW h \in Handlers, RuleFails(h)
    PROVE  Rules'
<1>1. Still /\ alarms' = alarms /\ QuietKeys
  BY SameIsQuiet DEF RuleFails, Rules, Still, world, past
<1>. DEFINE i == IF RuleAt(h) = "movement" THEN handler[h].rule + 2 ELSE handler[h].rule + 1
<1>2. /\ handler[h].pc \in {"report", "rule"} /\ handler[h].rule \in 1 .. 9
      /\ handler[h].pc = "rule" => handler[h].rule # 4
  <2>1. handler[h].rule \in 1 .. 10
    BY HandlerTyped DEF Rules
  <2>2. CASE handler[h].pc = "report"
    BY <2>1, <2>2 DEF Rules, HandlersOK, RuleOK
  <2>3. CASE handler[h].pc = "rule" /\ RuleAt(h) \in {"road", "station"}
    <3>1. RuleAt(h) \notin {"movement", "store"}
      BY <2>3
    <3>. QED
      BY <2>1, <2>3, <3>1, RuleAtIs DEF Rules
  <2>. QED
    BY <2>2, <2>3 DEF RuleFails
<1>3. /\ i \in 1 .. 10 /\ handler[h].rule <= i /\ (handler[h].rule < 4 => i <= 4)
      /\ handler[h].left \in SUBSET LimitKeys
  <2>1. RuleAt(h) = "movement" => handler[h].rule = 4
    BY RuleAtIs DEF Rules
  <2>. QED
    BY <1>2, <2>1, HandlerTyped DEF Rules
<1>4. Proceed(h, handler[h].left, i)
  BY DEF RuleFails
<1>. HIDE DEF i
<1>. QED
  BY <1>1, <1>2, <1>3, <1>4, ProceedKeeps

LEMMA ReadStartKeeps ==
    ASSUME Rules, NEW h \in Handlers, ReadStart(h)
    PROVE  Rules'
<1>. USE DEF Rules
<1>1. Still /\ alarms' = alarms /\ QuietKeys
  BY StillIs, SameIsQuiet DEF ReadStart
<1>2. handler[h].pc = "rule" /\ handler[h].rule = 4 /\ Rolling(handler[h].sample)
  BY RuleAtIs DEF ReadStart
<1>3. CASE Goto(h, "begin")
  BY <1>1, <1>2, <1>3, GoKeeps
<1>4. CASE NextRule(h)
  BY <1>1, <1>2, <1>4, SkipKeeps
<1>5. CASE Has("start") /\ handler[h].ts >= kv.start + TheftAfter /\ Goto(h, "activate")
  <2>1. PICK x \in HandlerType : Goes(h, x, "activate")
    BY <1>2, <1>5, GotoGoes
  <2>2. Advances(h, x) /\ x.pc = "activate" /\ x.rule = 4
    BY <1>2, <2>1 DEF Goes
  <2>3. /\ kv' \in KeysType /\ kv'.visits = kv.visits /\ kv'.start = kv.start /\ kv'.last = kv.last
        /\ kv'.until["start"] = kv.until["start"] /\ kv'.until["last"] = kv.until["last"]
        /\ SameClaims /\ moves' \in Nat
    BY <1>1 DEF QuietKeys
  <2>4. RulesType' /\ HandlersOK'
    BY <1>1, <2>2, <2>3, AdvanceTyped DEF RulesType
  <2>5. VisitsOK'
    BY <1>1, <1>2, <2>2, <2>3, AdvanceVisits
  <2>6. CooldownOK'
    BY <1>1, <2>2, <2>3, AdvanceCooldown
  <2>7. SocketOK' /\ LastOK'
    BY <1>1, <2>2, <2>3, AdvanceSocket, AdvanceLast
  <2>8. StartKept(h, x)
    BY <1>2, <2>3 DEF StartKept, WillEnd
  <2>9. ASSUME OnSocket, faults = 0
        PROVE  LongEnough(handler[h].ts)
    <3>1. kv.until["start"] > 0
      <4>1. kv.until \in [Keys -> Nat] /\ now \in Nat /\ "start" \in Keys
        BY KeyNames, Bounds DEF RulesType
      <4>. QED
        BY <1>5, <4>1 DEF Has
    <3>2. \A g \in Handlers : ~WillEnd(g)
      BY <1>2, <2>9 DEF WillEnd, SocketOK, Busy
    <3>3. kv.start \in span
      BY <2>9, <3>1, <3>2 DEF TheftOK
    <3>. QED
      BY <1>5, <3>3 DEF LongEnough
  <2>10. TheftOK'
    BY <1>1, <2>2, <2>8, <2>9, AdvanceTheft
  <2>. QED
    BY <2>4, <2>5, <2>6, <2>7, <2>10
<1>. QED
  BY <1>3, <1>4, <1>5 DEF ReadStart

LEMMA ActivateKeeps ==
    ASSUME Rules, NEW h \in Handlers, Activate(h)
    PROVE  Rules'
<1>. USE DEF Rules
<1>1. Still /\ alarms' = alarms /\ moves' = moves
  BY StillIs DEF Activate
<1>2. handler[h].pc = "activate" /\ handler[h].rule = 4
  BY DEF Activate, HandlersOK, RuleOK
<1>3. CASE Has("active") /\ NextRule(h) /\ UNCHANGED kv
  BY <1>1, <1>2, <1>3, SameIsQuiet, SkipKeeps
<1>4. CASE ~Has("active") /\ kv' = Set("active", TheftCooldown) /\ Claimed(h, "active")
  <2>1. CooldownOf("active") = TheftCooldown /\ "active" \in AlarmKeys
    BY KeyNames DEF CooldownOf
  <2>. QED
    BY <1>1, <1>2, <1>4, <2>1, ClaimedKeeps
<1>. QED
  BY <1>3, <1>4 DEF Activate

\* The counter of the visits is read by one packet and written by another.
LEMMA ReadVisitsKeeps ==
    ASSUME Rules, NEW h \in Handlers, ReadVisits(h)
    PROVE  Rules'
<1>. USE DEF Rules
<1>1. Still /\ alarms' = alarms /\ QuietKeys
  BY StillIs, SameIsQuiet DEF ReadVisits
<1>2. handler[h].pc = "count" /\ handler[h].rule = 9
  BY DEF ReadVisits, HandlersOK, RuleOK
<1>3. kv.visits \in Nat /\ kv.visits + 1 \in Nat /\ packets \in Nat /\ packets' = packets
  BY <1>1, ClockTyped DEF Still
<1>4. PICK x \in HandlerType : Goes(h, x, "visit") /\ x.got = kv.visits + 1
  BY <1>2, <1>3, GotGoes DEF ReadVisits
<1>5. Advances(h, x) /\ x.pc = "visit" /\ x.rule = 9
  BY <1>2, <1>4 DEF Goes
<1>6. /\ kv' \in KeysType /\ kv'.visits = kv.visits /\ kv'.start = kv.start /\ kv'.last = kv.last
      /\ kv'.until["start"] = kv.until["start"] /\ kv'.until["last"] = kv.until["last"]
      /\ SameClaims /\ moves' \in Nat
  BY <1>1 DEF QuietKeys
<1>7. RulesType' /\ HandlersOK'
  BY <1>1, <1>5, <1>6, AdvanceTyped DEF RulesType
<1>8. VisitsOK'
  <2>1. handler'[h] = x /\ \A g \in Handlers : g # h => handler'[g] = handler[g]
    BY <1>5 DEF RulesType, Advances
  <2>2. /\ Cardinality(MayVisit)' \in Nat /\ Cardinality(MayVisit)' <= Cardinality(MayVisit)
        /\ Cardinality(MayVisit) \in Nat
    BY <1>2, <1>5, AdvanceMayVisit, FewerMayVisit, MayVisitFinite
  <2>3. (kv.visits + Cardinality(MayVisit) <= packets)'
    BY <1>3, <1>6, <2>2 DEF VisitsOK
  <2>4. ASSUME NEW g \in Handlers, handler'[g].pc = "visit"
        PROVE  handler'[g].got + Cardinality(MayVisit)' - 1 <= packets'
    <3>1. CASE g = h
      BY <1>3, <1>4, <2>1, <2>2, <3>1 DEF VisitsOK
    <3>2. CASE g # h
      <4>1. handler[g].got \in Nat /\ handler'[g] = handler[g]
        BY <2>1, <3>2, HandlerTyped
      <4>. QED
        BY <1>3, <2>2, <2>4, <4>1 DEF VisitsOK
    <3>. QED
      BY <3>1, <3>2
  <2>. QED
    BY <2>3, <2>4 DEF VisitsOK
<1>9. CooldownOK'
  BY <1>1, <1>5, <1>6, AdvanceCooldown
<1>10. SocketOK' /\ LastOK'
  BY <1>1, <1>5, <1>6, AdvanceSocket, AdvanceLast
<1>11. StartKept(h, x)
  BY <1>2, <1>6 DEF StartKept, WillEnd
<1>12. TheftOK'
  BY <1>1, <1>5, <1>11, AdvanceTheft
<1>. QED
  BY <1>7, <1>8, <1>9, <1>10, <1>12

LEMMA WriteVisitsKeeps ==
    ASSUME Rules, NEW h \in Handlers, WriteVisits(h)
    PROVE  Rules'
<1>. USE DEF Rules
<1>1. Still /\ alarms' = alarms /\ moves' = moves
  BY StillIs DEF WriteVisits
<1>2. handler[h].pc = "visit" /\ handler[h].rule = 9
  BY DEF WriteVisits, HandlersOK, RuleOK
<1>3. handler[h].got \in Nat /\ packets \in Nat /\ packets <= MaxPackets /\ packets' = packets
  BY <1>1, HandlerTyped, Bounds DEF RulesType, Still
<1>4. h \in MayVisit
  BY <1>2 DEF MayVisit
<1>5. Cardinality(MayVisit) \in Nat /\ Cardinality(MayVisit) >= 1
  BY <1>4, MayVisitFinite
<1>6. /\ handler[h].got + Cardinality(MayVisit) - 1 <= packets
      /\ handler[h].got \in 0 .. MaxPackets
  BY <1>2, <1>3, <1>5, Bounds DEF VisitsOK
<1>7. kv' = [kv EXCEPT !.visits = handler[h].got] /\ kv \in KeysType
  BY DEF WriteVisits, RulesType, KeysType
<1>8. /\ kv' \in KeysType /\ kv'.visits = handler[h].got
      /\ kv'.start = kv.start /\ kv'.last = kv.last /\ kv'.until = kv.until
      /\ SameClaims /\ moves' \in Nat
  BY <1>1, <1>6, <1>7 DEF KeysType, SameClaims, RulesType
<1>9. \E x \in HandlerType : Advances(h, x) /\ (x.pc = "worked" \/ (x.pc = "rule" /\ x.rule = 10))
  <2>1. CASE NextRule(h)
    <3>1. PICK x \in HandlerType : Skips(h, x, handler[h].rule + 1)
      BY <1>2, <2>1, NextRuleSkips
    <3>2. Advances(h, x) /\ x.pc = "rule" /\ x.rule = 10
      BY <1>2, <3>1 DEF Skips, Advances
    <3>. QED
      BY <3>2
  <2>2. CASE Goto(h, "worked")
    <3>1. PICK x \in HandlerType : Goes(h, x, "worked")
      BY <1>2, <2>2, GotoGoes
    <3>. QED
      BY <3>1 DEF Goes
  <2>. QED
    BY <2>1, <2>2 DEF WriteVisits
<1>10. PICK x \in HandlerType :
           Advances(h, x) /\ (x.pc = "worked" \/ (x.pc = "rule" /\ x.rule = 10))
  BY <1>9
<1>11. RulesType' /\ HandlersOK'
  BY <1>1, <1>8, <1>10, AdvanceTyped DEF RulesType
<1>12. VisitsOK'
  <2>1. handler'[h] = x /\ \A g \in Handlers : g # h => handler'[g] = handler[g]
    BY <1>10 DEF RulesType, Advances
  <2>2. h \notin MayVisit'
    BY <1>10, <2>1 DEF MayVisit
  <2>3. Cardinality(MayVisit)' \in Nat /\ Cardinality(MayVisit)' <= Cardinality(MayVisit) - 1
    BY <1>2, <1>4, <1>10, <2>2, AdvanceMayVisit, FewerMayVisit
  <2>4. (kv.visits + Cardinality(MayVisit) <= packets)'
    BY <1>3, <1>5, <1>6, <1>8, <2>3
  <2>5. ASSUME NEW g \in Handlers, handler'[g].pc = "visit"
        PROVE  handler'[g].got + Cardinality(MayVisit)' - 1 <= packets'
    <3>1. handler[g].got \in Nat /\ handler'[g] = handler[g]
      BY <1>10, <2>1, <2>5, HandlerTyped
    <3>. QED
      BY <1>3, <1>5, <2>3, <2>5, <3>1 DEF VisitsOK
  <2>. QED
    BY <2>4, <2>5 DEF VisitsOK
<1>13. CooldownOK'
  BY <1>1, <1>8, <1>10, AdvanceCooldown
<1>14. SocketOK' /\ LastOK'
  BY <1>1, <1>8, <1>10, AdvanceSocket, AdvanceLast
<1>15. StartKept(h, x)
  BY <1>2, <1>8 DEF StartKept, WillEnd
<1>16. TheftOK'
  BY <1>1, <1>10, <1>15, AdvanceTheft
<1>. QED
  BY <1>11, <1>12, <1>13, <1>14, <1>16

LEMMA ApartSymmetric ==
    ASSUME NEW r, NEW a, NEW b, Apart(r, a, b)
    PROVE  Apart(r, b, a)
BY DEF Apart

\* The handler's report becomes the last alarm.
LEMMA AlarmKeepsCooldown ==
    ASSUME RulesType, CooldownOK, NEW h \in Handlers, NEW x, Advances(h, x), NEW just,
           handler[h].pc = "report", x.pc # "report", kv' = kv, moves' = moves,
           alarms' = Append(alarms, [key |-> handler[h].key, move |-> handler[h].move,
                                     at |-> handler[h].got, just |-> just])
    PROVE  CooldownOK'
<1>1. handler'[h] = x /\ \A g \in Handlers : g # h => handler'[g] = handler[g]
  BY DEF RulesType, Advances
<1>. DEFINE n == Len(alarms)
            a == [key |-> handler[h].key, move |-> handler[h].move,
                  at |-> handler[h].got, just |-> just]
<1>2. alarms \in Seq(Alarm) /\ n \in Nat
  BY AlarmTyped
<1>3. a.key = handler[h].key /\ a.move = handler[h].move /\ a.at = handler[h].got
  OBVIOUS
<1>. HIDE DEF a
<1>4. alarms' = Append(alarms, a)
  BY DEF a
<1>5. Len(alarms') = n + 1 /\ alarms'[n + 1] = a /\ \A i \in 1 .. n : alarms'[i] = alarms[i]
  BY <1>2, <1>4
<1>6. \A i \in 1 .. Len(alarms') : i \in 1 .. n \/ i = n + 1
  BY <1>2, <1>5
<1>7. \A g \in Handlers : Pending(g)' => g # h /\ Pending(g) /\ handler'[g] = handler[g]
  BY <1>1 DEF Pending
<1>8. /\ a.move <= moves /\ (Live(a.key, a.move) => Covered(a.key, a.at))
      /\ \A i \in 1 .. n : Alike(alarms[i], a) => Apart(a.key, alarms[i].at, a.at)
      /\ \A g \in Handlers : g # h /\ Pending(g) /\ Alike(handler[g], a) =>
             Apart(a.key, handler[g].got, a.at)
  BY <1>3 DEF CooldownOK, ClaimsOK, ApartOK, Pending, Alike
<1>9. \A i \in 1 .. n : /\ alarms[i].move <= moves
                        /\ Live(alarms[i].key, alarms[i].move) =>
                               Covered(alarms[i].key, alarms[i].at)
  BY DEF CooldownOK, ClaimsOK
<1>10. \A i, j \in 1 .. n : i # j /\ Alike(alarms[i], alarms[j]) =>
                               Apart(alarms[i].key, alarms[i].at, alarms[j].at)
  BY DEF CooldownOK, ApartOK
<1>11. \A i \in 1 .. n, g \in Handlers : Pending(g) /\ Alike(alarms[i], handler[g]) =>
           Apart(handler[g].key, alarms[i].at, handler[g].got)
  BY DEF CooldownOK, ApartOK
<1>. HIDE DEF n
<1>12. ClaimsOK'
  <2>1. ASSUME NEW i \in 1 .. Len(alarms')
        PROVE  /\ alarms'[i].move <= moves
               /\ Live(alarms'[i].key, alarms'[i].move) => Covered(alarms'[i].key, alarms'[i].at)
    BY <1>5, <1>6, <1>8, <1>9
  <2>2. ASSUME NEW g \in Handlers, Pending(g)'
        PROVE  /\ handler'[g].move <= moves
               /\ Live(handler'[g].key, handler'[g].move) =>
                      Covered(handler'[g].key, handler'[g].got)
    BY <1>7, <2>2 DEF CooldownOK, ClaimsOK
  <2>. QED
    BY <2>1, <2>2 DEF ClaimsOK, Live, Covered, CooldownOf
<1>13. ApartOK'
  <2>1. ASSUME NEW i \in 1 .. Len(alarms'), NEW j \in 1 .. Len(alarms'), i # j,
               Alike(alarms'[i], alarms'[j])
        PROVE  Apart(alarms'[i].key, alarms'[i].at, alarms'[j].at)
    <3>1. CASE i \in 1 .. n /\ j \in 1 .. n
      BY <1>5, <1>10, <2>1, <3>1
    <3>2. CASE i \in 1 .. n /\ j = n + 1
      BY <1>5, <1>8, <2>1, <3>2 DEF Alike
    <3>3. CASE i = n + 1 /\ j \in 1 .. n
      <4>1. Alike(alarms[j], a) /\ alarms'[j] = alarms[j] /\ alarms'[i] = a
        BY <1>5, <2>1, <3>3 DEF Alike
      <4>. QED
        BY <1>8, <3>3, <4>1, ApartSymmetric
    <3>. QED
      BY <1>6, <2>1, <3>1, <3>2, <3>3
  <2>2. ASSUME NEW i \in 1 .. Len(alarms'), NEW g \in Handlers,
               Pending(g)', Alike(alarms'[i], handler'[g])
        PROVE  Apart(handler'[g].key, alarms'[i].at, handler'[g].got)
    <3>1. g # h /\ Pending(g) /\ handler'[g] = handler[g]
      BY <1>7, <2>2
    <3>2. CASE i \in 1 .. n
      BY <1>5, <1>11, <2>2, <3>1, <3>2
    <3>3. CASE i = n + 1
      <4>1. Alike(handler[g], a) /\ alarms'[i] = a /\ a.key = handler[g].key
        BY <1>5, <2>2, <3>1, <3>3 DEF Alike
      <4>. QED
        BY <1>8, <3>1, <4>1, ApartSymmetric
    <3>. QED
      BY <1>6, <3>2, <3>3
  <2>3. ASSUME NEW f \in Handlers, NEW g \in Handlers,
               f # g, Pending(f)', Pending(g)', Alike(handler'[f], handler'[g])
        PROVE  Apart(handler'[g].key, handler'[f].got, handler'[g].got)
    BY <1>7, <2>3 DEF CooldownOK, ApartOK
  <2>. QED
    BY <2>1, <2>2, <2>3 DEF ApartOK, Apart, Alike, CooldownOf
<1>. QED
  BY <1>12, <1>13 DEF CooldownOK

LEMMA StoreAlarmKeeps ==
    ASSUME Rules, NEW h \in Handlers, StoreAlarm(h)
    PROVE  Rules'
<1>. USE DEF Rules
<1>1. Still /\ kv' = kv /\ moves' = moves /\ QuietKeys
  BY SameIsQuiet DEF StoreAlarm, Still, world
<1>2. /\ handler[h].pc = "report" /\ handler[h].rule \in 1 .. 8 /\ handler[h].got \in Nat
      /\ handler[h].key \in AlarmKeys /\ handler[h].move \in Nat
      /\ handler[h].left \in SUBSET LimitKeys
  BY HandlerTyped DEF StoreAlarm, HandlersOK, RuleOK
<1>3. \E x \in HandlerType : /\ Advances(h, x) /\ x.pc \in {"rule", "wait"}
                             /\ handler[h].rule < 4 => x.rule <= 4
                             /\ x.pc = "wait" => x.rule = 3
  <2>1. CASE RuleAt(h) = "crash"
    <3>1. PICK e \in Events : handler' = [handler EXCEPT ![h].pc = "wait", ![h].event = {e}]
      BY <2>1 DEF StoreAlarm
    <3>2. /\ handler[h] \in HandlerType /\ handler \in [Handlers -> HandlerType]
          /\ handler[h].rule = 3 /\ handler[h].due \in Nat
      BY <2>1, HandlerTyped, RuleAtIs DEF RulesType
    <3>. DEFINE x == [handler[h] EXCEPT !.pc = "wait", !.event = {e}]
    <3>3. handler' = [handler EXCEPT ![h] = x]
      BY <3>1, <3>2 DEF HandlerType
    <3>4. /\ x \in HandlerType /\ x.pc = "wait" /\ x.rule = 3 /\ x.due = handler[h].due
          /\ x.sample = handler[h].sample /\ x.ts = handler[h].ts
      BY <3>2 DEF HandlerType
    <3>. HIDE DEF x
    <3>5. RuleOK(x)
      BY <3>4 DEF RuleOK
    <3>6. Advances(h, x)
      BY <1>2, <3>2, <3>3, <3>4, <3>5 DEF Advances
    <3>. QED
      BY <3>4, <3>6
  <2>2. CASE RuleAt(h) # "crash"
    <3>1. /\ Rest(h) \in 1 .. 10 /\ handler[h].rule <= Rest(h)
          /\ handler[h].rule < 4 => Rest(h) <= 4
      BY <1>2, RestIs
    <3>2. PICK x \in HandlerType : Skips(h, x, Rest(h))
      BY <1>2, <2>2, <3>1, ProceedSkips DEF StoreAlarm
    <3>. QED
      BY <3>1, <3>2 DEF Skips
  <2>. QED
    BY <2>1, <2>2
<1>4. PICK x \in HandlerType : /\ Advances(h, x) /\ x.pc \in {"rule", "wait"}
                               /\ handler[h].rule < 4 => x.rule <= 4
                               /\ x.pc = "wait" => x.rule = 3
  BY <1>3
<1>. DEFINE a == [key |-> handler[h].key, move |-> handler[h].move,
                  at |-> handler[h].got, just |-> Justified(h)]
<1>5. alarms' = Append(alarms, a)
  BY DEF StoreAlarm
<1>6. a \in Alarm /\ a.just = Justified(h)
  <2>1. Justified(h) \in BOOLEAN
    BY DEF Justified
  <2>. QED
    BY <1>2, <2>1 DEF Alarm
<1>7. CooldownOK'
  BY <1>1, <1>2, <1>4, <1>5, AlarmKeepsCooldown
<1>. HIDE DEF a
<1>8. /\ alarms \in Seq(Alarm) /\ alarms' \in Seq(Alarm) /\ Len(alarms) \in Nat
      /\ Len(alarms') = Len(alarms) + 1 /\ alarms'[Len(alarms) + 1] = a
      /\ \A i \in 1 .. Len(alarms) : alarms'[i] = alarms[i]
  BY <1>5, <1>6, AlarmTyped
<1>9. kv' \in KeysType /\ moves' \in Nat
  BY <1>1 DEF QuietKeys
<1>10. RulesType' /\ HandlersOK'
  BY <1>1, <1>4, <1>8, <1>9, AdvanceTyped DEF Alarm
<1>11. VisitsOK'
  BY <1>1, <1>2, <1>4, AdvanceVisits
<1>12. SocketOK' /\ LastOK'
  BY <1>1, <1>4, AdvanceSocket, AdvanceLast
<1>13. StartKept(h, x)
  <2>1. x.rule \in 1 .. 10
    BY RuleNames DEF HandlerType
  <2>2. WillEnd(h) => x.rule < 4 \/ (x.rule = 4 /\ x.pc = "rule")
    BY <1>2, <1>4, <2>1 DEF WillEnd
  <2>. QED
    BY <1>1, <2>2 DEF StartKept
<1>14. ASSUME OnSocket, faults = 0
       PROVE  TheftJustified'
  <2>1. Justified(h)
    <3>1. CASE RuleAt(h) = "movement"
      <4>1. LongEnough(handler[h].ts)
        BY <1>2, <1>14, <3>1, RuleAtIs DEF TheftOK
      <4>. QED
        BY <4>1 DEF Justified, LongEnough
    <3>2. CASE RuleAt(h) # "movement"
      BY <3>2 DEF Justified
    <3>. QED
      BY <3>1, <3>2
  <2>2. \A i \in 1 .. Len(alarms) : alarms[i].just
    BY <1>14 DEF TheftOK, TheftJustified
  <2>3. \A i \in 1 .. Len(alarms') : i \in 1 .. Len(alarms) \/ i = Len(alarms) + 1
    BY <1>8
  <2>4. \A i \in 1 .. Len(alarms') : alarms'[i].just
    BY <1>6, <1>8, <2>1, <2>2, <2>3
  <2>. QED
    BY <2>4 DEF TheftJustified
<1>15. TheftOK'
  BY <1>1, <1>4, <1>13, <1>14, AdvanceAlarm
<1>. QED
  BY <1>7, <1>10, <1>11, <1>12, <1>15

-----------------------------------------------------------------------------
(* The other steps. *)

LEMMA WaitingTyped ==
    /\ Waiting \in HandlerType /\ Waiting.pc = "idle" /\ Waiting.due = 0 /\ RuleOK(Waiting)
<1>1. 1 \in 1 .. Len(RuleOrder) /\ 0 \in 0 .. MaxTime /\ NoSample \in SampleType
  BY RuleNames, Bounds DEF NoSample, SampleType
<1>2. Waiting \in HandlerType /\ Waiting.pc = "idle" /\ Waiting.due = 0
  BY <1>1 DEF Waiting, HandlerType
<1>. QED
  BY <1>2 DEF RuleOK

\* Nothing of the rules changes; a call may fail.
LEMMA RulesSame ==
    ASSUME Rules, UNCHANGED ruleVars, faults' = 0 => faults = 0
    PROVE  Rules'
<1>. USE DEF Rules, ruleVars, world, past
<1>1. RulesType' /\ HandlersOK' /\ SocketOK'
  BY DEF RulesType, HandlersOK, RuleOK, Rolling, Moving, SocketOK, OnSocket, Busy
<1>2. MayVisit' = MayVisit
  BY DEF MayVisit
<1>3. VisitsOK'
  BY <1>2 DEF VisitsOK
<1>4. CooldownOK'
  BY SameCooldown DEF SameClaims, Pending
<1>5. \A h \in Handlers : WillEnd(h)' <=> WillEnd(h)
  BY DEF WillEnd, Busy, Rolling, Moving
<1>6. TheftOK'
  BY <1>5 DEF TheftOK, TheftJustified, OnSocket, LongEnough
<1>7. LastOK'
  BY DEF LastOK, OnSocket, Busy, Fell
<1>. QED
  BY <1>1, <1>3, <1>4, <1>6, <1>7

LEMMA TickKeeps ==
    ASSUME Rules, Tick
    PROVE  Rules'
<1>. USE DEF Rules, past
<1>1. now' \in 0 .. MaxTime /\ now' = now + 1 /\ now \in Nat
  BY Bounds DEF RulesType, Tick
<1>2. RulesType' /\ HandlersOK'
  BY <1>1 DEF RulesType, HandlersOK, RuleOK, Rolling, Moving, Tick
<1>3. SocketOK'
  <2>1. previous.at \in Nat
    BY Bounds DEF RulesType
  <2>. QED
    BY <1>1, <2>1 DEF SocketOK, OnSocket, Busy, Tick
<1>4. MayVisit' = MayVisit
  BY DEF MayVisit, Tick
<1>5. VisitsOK'
  BY <1>4 DEF VisitsOK, Tick
<1>6. CooldownOK'
  BY SameCooldown DEF SameClaims, Pending, Tick
<1>7. \A h \in Handlers : WillEnd(h)' <=> WillEnd(h)
  BY DEF WillEnd, Busy, Rolling, Moving, Tick
<1>8. TheftOK'
  BY <1>7 DEF TheftOK, TheftJustified, OnSocket, LongEnough, Tick, reportVars
<1>9. LastOK'
  BY DEF LastOK, OnSocket, Busy, Fell, Tick, reportVars
<1>. QED
  BY <1>2, <1>3, <1>5, <1>6, <1>8, <1>9

LEMMA CrashKeeps ==
    ASSUME Rules, faults \in Nat, Crash
    PROVE  Rules'
<1>. USE DEF Rules, past, world
<1>1. \A h \in Handlers : handler'[h] = Waiting
  BY DEF Crash
<1>2. RulesType' /\ HandlersOK'
  BY <1>1, WaitingTyped DEF RulesType, HandlersOK, Crash
<1>3. SocketOK'
  BY <1>1, WaitingTyped DEF SocketOK, Busy
<1>4. VisitsOK'
  <2>1. MayVisit' = {}
    BY <1>1, WaitingTyped DEF MayVisit
  <2>2. Cardinality(MayVisit)' = 0
    BY <2>1, FS_EmptySet
  <2>3. kv.visits \in Nat /\ packets \in Nat /\ Cardinality(MayVisit) \in Nat
    BY Bounds, MayVisitFinite DEF RulesType
  <2>4. (kv.visits + Cardinality(MayVisit) <= packets)'
    BY <2>2, <2>3 DEF VisitsOK, Crash
  <2>. QED
    BY <1>1, <2>4, WaitingTyped DEF VisitsOK
<1>5. CooldownOK'
  <2>1. \A h \in Handlers : ~Pending(h)'
    BY <1>1, WaitingTyped DEF Pending
  <2>2. SameClaims /\ alarms' = alarms
    BY DEF SameClaims, Crash
  <2>. QED
    BY <2>1, <2>2, SameCooldown
<1>6. faults' # 0
  BY DEF Crash
<1>7. TheftOK' /\ LastOK'
  BY <1>6 DEF TheftOK, LastOK
<1>. QED
  BY <1>2, <1>3, <1>4, <1>5, <1>7

\* The packet is done: its sample is the one the next packet is compared with.
LEMMA StoreLastKeeps ==
    ASSUME Rules, NEW h \in Handlers, StoreLast(h)
    PROVE  Rules'
<1>. USE DEF Rules, past, world
<1>1. /\ handler'[h] = Waiting /\ \A g \in Handlers : g # h => handler'[g] = handler[g]
      /\ handler' \in [Handlers -> HandlerType]
  BY WaitingTyped DEF StoreLast, RulesType
<1>2. handler[h].pc = "rule" /\ handler[h].rule = 10
  BY RuleAtIs DEF StoreLast
<1>. DEFINE l == [speed |-> handler[h].sample.speed, ts |-> handler[h].ts]
            u == [kv.until EXCEPT !["last"] = now + LastTtl]
<1>3. l \in [speed : Nat, ts : Nat] /\ kv \in KeysType /\ now \in Nat /\ "last" \in Keys
  <2>1. handler[h].sample.speed \in Nat /\ handler[h].ts \in Nat
    BY HandlerTyped, Bounds DEF SampleType
  <2>2. kv \in KeysType /\ now \in Nat /\ "last" \in Keys
    BY Bounds, KeyNames DEF RulesType, KeysType
  <2>. QED
    BY <2>1, <2>2
<1>4. /\ u \in [Keys -> Nat] /\ u["last"] = now + LastTtl
      /\ \A k \in Keys : k # "last" => u[k] = kv.until[k]
  BY <1>3, Bounds DEF KeysType
<1>5. kv' = [[kv EXCEPT !.until = u] EXCEPT !.last = l]
  BY DEF StoreLast, Set
<1>. HIDE DEF l, u
<1>6. /\ kv' \in KeysType /\ kv'.until = u /\ kv'.visits = kv.visits
      /\ kv'.start = kv.start /\ kv'.last = l
  BY <1>3, <1>4, <1>5 DEF KeysType
<1>7. RulesType'
  BY <1>1, <1>6, WaitingTyped DEF RulesType, KeysType, StoreLast
<1>8. HandlersOK'
  BY <1>1, WaitingTyped DEF HandlersOK
<1>9. SocketOK'
  BY <1>1, WaitingTyped DEF SocketOK, Busy, OnSocket, StoreLast
<1>10. VisitsOK'
  <2>1. MayVisit' \subseteq MayVisit
    BY <1>1, WaitingTyped DEF MayVisit
  <2>2. /\ Cardinality(MayVisit)' \in Nat /\ Cardinality(MayVisit)' <= Cardinality(MayVisit)
        /\ Cardinality(MayVisit) \in Nat
    BY <2>1, FewerMayVisit, MayVisitFinite
  <2>3. kv.visits \in Nat /\ packets \in Nat /\ packets' = packets
    BY Bounds DEF RulesType, StoreLast
  <2>4. (kv.visits + Cardinality(MayVisit) <= packets)'
    BY <1>6, <2>2, <2>3 DEF VisitsOK
  <2>5. ASSUME NEW g \in Handlers, handler'[g].pc = "visit"
        PROVE  handler'[g].got + Cardinality(MayVisit)' - 1 <= packets'
    <3>1. handler[g].got \in Nat /\ handler'[g] = handler[g]
      BY <1>1, <2>5, HandlerTyped, WaitingTyped
    <3>. QED
      BY <2>2, <2>3, <2>5, <3>1 DEF VisitsOK
  <2>. QED
    BY <2>4, <2>5 DEF VisitsOK
<1>11. CooldownOK'
  <2>1. \A g \in Handlers : Pending(g)' => Pending(g) /\ handler'[g] = handler[g]
    BY <1>1, WaitingTyped DEF Pending
  <2>2. \A k \in AlarmKeys : kv'.until[k] = kv.until[k]
    BY <1>4, <1>6, KeyNames
  <2>3. SameClaims /\ alarms' = alarms
    BY <2>2 DEF SameClaims, StoreLast
  <2>. QED
    BY <2>1, <2>3, SameCooldown
<1>12. TheftOK'
  <2>1. \A g \in Handlers : WillEnd(g) => g # h /\ WillEnd(g)'
    BY <1>1, <1>2 DEF WillEnd, Busy, Rolling, Moving
  <2>2. kv'.until["start"] = kv.until["start"]
    BY <1>4, <1>6, KeyNames
  <2>3. \A g \in Handlers : g = h => handler'[g].pc = "idle"
    BY <1>1, WaitingTyped
  <2>. QED
    BY <1>1, <1>6, <2>1, <2>2, <2>3
    DEF TheftOK, TheftJustified, OnSocket, LongEnough, StoreLast, reportVars
<1>13. LastOK'
  <2>1. SUFFICES ASSUME OnSocket, faults = 0
                 PROVE  /\ kv'.until["last"] >= previous'.at + LastTtl /\ kv'.last = previous'.last
                        /\ \A g \in Handlers : handler'[g].due = 0
    BY <1>7, HandlerTyped DEF LastOK, OnSocket, StoreLast, reportVars
  <2>2. previous.at \in Nat /\ previous.at <= now /\ previous.last = l
    BY <1>2, <2>1, Bounds DEF RulesType, SocketOK, Busy, l
  <2>3. kv'.until["last"] >= previous'.at + LastTtl /\ kv'.last = previous'.last
    BY <1>3, <1>4, <1>6, <2>2, Bounds DEF StoreLast
  <2>4. \A g \in Handlers : handler'[g].pc = "idle"
    BY <1>1, <1>2, <2>1, WaitingTyped DEF SocketOK, Busy
  <2>5. \A g \in Handlers : handler'[g].due = 0
    BY <1>8, <2>4 DEF HandlersOK, RuleOK
  <2>. QED
    BY <2>3, <2>5
<1>. QED
  BY <1>7, <1>8, <1>9, <1>10, <1>11, <1>12, <1>13

LEMMA ReceiveKeeps ==
    ASSUME Rules, NEW h \in Handlers, NEW s \in Samples, NEW lag \in Lags[s], Receive(h, s, lag)
    PROVE  Rules'
<1>. USE DEF Rules
<1>. DEFINE ts == now - lag
            j == FromRule(s, s.hits, 1)
            d == IF packets > 0 /\ OnSocket /\ Fell(s, ts, previous.last)
                 THEN previous.at + LastTtl ELSE 0
            x == [Waiting EXCEPT !.pc = "rule", !.sample = s, !.ts = ts, !.left = s.hits,
                                 !.rule = j, !.due = d]
<1>1. /\ handler' = [handler EXCEPT ![h] = x] /\ packets' = packets + 1
      /\ handler[h].pc = "idle" /\ packets < (IF OnSocket THEN MaxPackets ELSE MaxTogether)
      /\ OnSocket => \A g \in Handlers : handler[g].pc = "idle"
      /\ kv' = kv /\ alarms' = alarms /\ moves' = moves /\ now' = now /\ channel' = channel /\ faults' = faults
      /\ span' = IF OnSocket /\ Rolling(s) THEN span \cup {ts} ELSE {}
      /\ previous' = IF OnSocket THEN [last |-> [speed |-> s.speed, ts |-> ts], at |-> now]
                     ELSE Nobody
  BY DEF Receive, reportVars
<1>2. /\ s \in SampleType /\ s.speed \in Nat /\ s.hits \in SUBSET LimitKeys
      /\ ts \in 0 .. MaxTime /\ now \in 0 .. MaxTime
      /\ previous.at \in Nat /\ packets \in Nat
  <2>1. s \in SampleType /\ s.speed \in Nat /\ s.hits \in SUBSET LimitKeys
    BY Bounds DEF SampleType
  <2>2. lag \in Nat /\ lag <= now /\ now \in 0 .. MaxTime /\ previous.at \in Nat /\ packets \in Nat
    BY Bounds, ClockTyped DEF Receive
  <2>. QED
    BY <2>1, <2>2, Bounds
<1>3. j \in 1 .. Len(RuleOrder) /\ j <= 3
  BY FromRuleIs, RuleNames
<1>4. /\ d \in Nat
      /\ d > 0 => /\ packets > 0 /\ OnSocket /\ Fell(s, ts, previous.last)
                  /\ d = previous.at + LastTtl
  BY <1>2, Bounds
<1>. HIDE DEF j, d, ts
<1>5. /\ x \in HandlerType /\ x.pc = "rule" /\ x.sample = s /\ x.ts = ts /\ x.rule = j
      /\ x.due = d
  BY <1>2, <1>3, <1>4, WaitingTyped DEF HandlerType
<1>. HIDE DEF x
<1>6. /\ handler'[h] = x /\ \A g \in Handlers : g # h => handler'[g] = handler[g]
      /\ handler' \in [Handlers -> HandlerType]
  BY <1>1, <1>5 DEF RulesType
<1>7. RulesType'
  <2>1. packets' \in 0 .. MaxPackets
    BY <1>1, <1>2, Bounds
  <2>2. span' \subseteq 0 .. MaxTime
    BY <1>1, <1>2 DEF RulesType
  <2>3. previous' \in [last : [speed : Nat, ts : Nat], at : 0 .. MaxTime]
    <3>1. CASE OnSocket
      <4>1. ts \in Nat
        BY <1>2, Bounds
      <4>. QED
        BY <1>1, <1>2, <3>1, <4>1
    <3>2. CASE ~OnSocket
      <4>1. 0 \in 0 .. MaxTime
        BY Bounds
      <4>. QED
        BY <1>1, <3>2, <4>1 DEF Nobody, Nothing
    <3>. QED
      BY <3>1, <3>2
  <2>4. \A g \in Handlers : handler'[g].pc # "idle" => handler'[g].sample \in Samples
    BY <1>5, <1>6 DEF RulesType
  <2>. QED
    BY <1>1, <1>6, <2>1, <2>2, <2>3, <2>4 DEF RulesType
<1>8. HandlersOK'
  BY <1>5, <1>6 DEF HandlersOK, RuleOK
<1>9. VisitsOK'
  <2>1. MayVisit' \subseteq MayVisit \cup {h}
    BY <1>6 DEF MayVisit
  <2>2. IsFiniteSet(MayVisit) /\ Cardinality(MayVisit) \in Nat /\ h \notin MayVisit
    BY <1>1, MayVisitFinite DEF MayVisit
  <2>3. /\ IsFiniteSet(MayVisit \cup {h})
        /\ Cardinality(MayVisit \cup {h}) = Cardinality(MayVisit) + 1
    BY <2>2, FS_AddElement
  <2>4. Cardinality(MayVisit)' \in Nat /\ Cardinality(MayVisit)' <= Cardinality(MayVisit) + 1
    <3>1. IsFiniteSet(MayVisit') /\ Cardinality(MayVisit') <= Cardinality(MayVisit \cup {h})
      BY <2>1, <2>3, FS_Subset
    <3>2. Cardinality(MayVisit') \in Nat
      BY <3>1, FS_CardinalityType
    <3>. QED
      BY <2>3, <3>1, <3>2
  <2>5. kv.visits \in Nat
    BY Bounds DEF RulesType
  <2>6. (kv.visits + Cardinality(MayVisit) <= packets)'
    BY <1>1, <1>2, <2>2, <2>4, <2>5 DEF VisitsOK
  <2>7. ASSUME NEW g \in Handlers, handler'[g].pc = "visit"
        PROVE  handler'[g].got + Cardinality(MayVisit)' - 1 <= packets'
    <3>1. handler[g].got \in Nat /\ handler'[g] = handler[g]
      BY <1>5, <1>6, <2>7, HandlerTyped
    <3>. QED
      BY <1>1, <1>2, <2>2, <2>4, <2>7, <3>1 DEF VisitsOK
  <2>. QED
    BY <2>6, <2>7 DEF VisitsOK
<1>10. CooldownOK'
  <2>1. \A g \in Handlers : Pending(g)' => Pending(g) /\ handler'[g] = handler[g]
    BY <1>5, <1>6 DEF Pending
  <2>2. SameClaims
    BY <1>1 DEF SameClaims
  <2>. QED
    BY <1>1, <2>1, <2>2, SameCooldown
<1>11. OnSocket' <=> OnSocket
  BY <1>1 DEF OnSocket
<1>12. SocketOK'
  <2>1. SUFFICES ASSUME OnSocket, NEW g \in Handlers, Busy(g)'
                 PROVE  /\ \A f \in Handlers : Busy(f)' => f = g
                        /\ Rolling(handler[g].sample)' => handler'[g].ts \in span'
                        /\ previous'.at <= now'
                        /\ previous'.last = [speed |-> handler'[g].sample.speed,
                                             ts |-> handler'[g].ts]
    BY <1>11 DEF SocketOK
  <2>2. g = h /\ \A f \in Handlers : Busy(f)' => f = g
    BY <1>1, <1>6, <2>1 DEF Busy
  <2>3. handler'[g].sample = s /\ handler'[g].ts = ts
    BY <1>5, <1>6, <2>2
  <2>4. Rolling(handler[g].sample)' => Rolling(s)
    BY <2>3 DEF Rolling, Moving
  <2>5. /\ Rolling(s) => span' = span \cup {ts}
        /\ previous' = [last |-> [speed |-> s.speed, ts |-> ts], at |-> now] /\ now' = now
    BY <1>1, <2>1
  <2>6. previous'.at <= now' /\ previous'.last = [speed |-> s.speed, ts |-> ts]
    BY <1>2, <2>5
  <2>. QED
    BY <2>2, <2>3, <2>4, <2>5, <2>6
<1>13. TheftOK'
  <2>1. SUFFICES ASSUME OnSocket, faults = 0
                 PROVE  /\ kv'.until["start"] > 0 =>
                               kv'.start \in span' \/ \E g \in Handlers : WillEnd(g)'
                        /\ \A g \in Handlers : handler'[g].pc \in {"idle", "rule"}
                        /\ TheftJustified'
    BY <1>1, <1>11 DEF TheftOK
  <2>2. \A g \in Handlers : handler[g].pc = "idle"
    BY <1>1, <2>1
  <2>3. \A g \in Handlers : handler'[g].pc \in {"idle", "rule"}
    BY <1>5, <1>6, <2>2
  <2>4. TheftJustified'
    BY <1>1, <2>1 DEF TheftOK, TheftJustified
  <2>5. ASSUME kv'.until["start"] > 0
        PROVE  kv'.start \in span' \/ \E g \in Handlers : WillEnd(g)'
    <3>1. kv.start \in span
      BY <1>1, <2>1, <2>2, <2>5 DEF TheftOK, WillEnd, Busy
    <3>2. CASE Rolling(s)
      BY <1>1, <2>1, <3>1, <3>2
    <3>3. CASE ~Rolling(s)
      <4>1. WillEnd(h)'
        BY <1>3, <1>5, <1>6, <3>3 DEF WillEnd, Busy, Rolling, Moving
      <4>. QED
        BY <4>1
    <3>. QED
      BY <3>2, <3>3
  <2>. QED
    BY <2>3, <2>4, <2>5
<1>14. LastOK'
  <2>1. SUFFICES ASSUME OnSocket, faults = 0
                 PROVE  /\ Busy(h)'
                        /\ \A g \in Handlers : handler'[g].due > 0 =>
                               /\ kv'.until["last"] >= handler'[g].due
                               /\ Fell(handler[g].sample, handler[g].ts, kv.last)'
    BY <1>1, <1>11 DEF LastOK
  <2>2. Busy(h)'
    BY <1>5, <1>6 DEF Busy
  <2>3. \A g \in Handlers : handler[g].pc = "idle" /\ handler[g].due = 0
    BY <1>1, <2>1 DEF HandlersOK, RuleOK
  <2>4. ASSUME NEW g \in Handlers, handler'[g].due > 0
        PROVE  /\ kv'.until["last"] >= handler'[g].due
               /\ Fell(handler[g].sample, handler[g].ts, kv.last)'
    <3>1. g = h /\ handler'[g].due = d /\ handler'[g].sample = s /\ handler'[g].ts = ts
      BY <1>5, <1>6, <2>3, <2>4
    <3>2. packets > 0 /\ Fell(s, ts, previous.last) /\ d = previous.at + LastTtl
      BY <1>4, <2>4, <3>1
    <3>3. kv.until["last"] >= previous.at + LastTtl /\ kv.last = previous.last
      BY <2>1, <2>3, <3>2 DEF LastOK, Busy
    <3>4. kv'.until["last"] >= handler'[g].due /\ Fell(s, ts, kv.last)
      BY <1>1, <3>1, <3>2, <3>3
    <3>. QED
      BY <1>1, <3>1, <3>4 DEF Fell
  <2>. QED
    BY <2>2, <2>4
<1>. QED
  BY <1>7, <1>8, <1>9, <1>10, <1>12, <1>13, <1>14

-----------------------------------------------------------------------------
(* The invariant. *)

LEMMA IInvParts == IInv <=> Reports /\ Rules
BY TypeParts DEF IInv, Reports, Rules

LEMMA InitIInv == Init => IInv
<1>. SUFFICES ASSUME Init
              PROVE  IInv
  OBVIOUS
<1>1. Reports
  <2>1. Unused \in ReportRecord /\ Unused.pc = "none"
    BY DEF Unused, ReportRecord, ReportSteps, Kinds, Callers
  <2>2. \A e \in Events : report[e] = Unused
    BY DEF Init, ReportInit
  <2>3. ReportType
    BY <2>1, IncidentsAssumption
    DEF Init, ReportInit, ReportType, ReportRecord, ReportSteps, Open
  <2>4. ReportsOK
    BY <2>1, <2>2 DEF ReportsOK, ReportOK
  <2>. QED
    BY <2>3, <2>4 DEF Reports
<1>2. \A h \in Handlers : handler[h] = Waiting
  BY DEF Init
<1>3. /\ kv \in KeysType /\ kv.visits = 0 /\ kv.until["start"] = 0
  <2>1. 0 \in 0 .. MaxPackets /\ [k \in Keys |-> 0] \in [Keys -> Nat] /\ "start" \in Keys
        /\ Nothing \in [speed : Nat, ts : Nat]
    BY Bounds, KeyNames DEF Nothing
  <2>2. /\ Empty \in KeysType /\ Empty.visits = 0
        /\ Empty.until = [k \in Keys |-> 0]
    BY <2>1 DEF Empty, KeysType
  <2>. QED
    BY <2>1, <2>2 DEF Init
<1>4. alarms \in Seq(Alarm) /\ Len(alarms) = 0
  BY DEF Init
<1>5. RulesType
  <2>1. 0 \in 0 .. MaxTime /\ 0 \in 0 .. MaxPackets
    BY Bounds
  <2>2. previous \in [last : [speed : Nat, ts : Nat], at : 0 .. MaxTime]
    BY <2>1 DEF Init, Nobody, Nothing
  <2>3. handler \in [Handlers -> HandlerType]
    BY WaitingTyped DEF Init
  <2>. QED
    BY <1>2, <1>3, <1>4, <2>1, <2>2, <2>3, WaitingTyped DEF Init, RulesType, KeysType, Alarm
<1>6. HandlersOK /\ SocketOK
  BY <1>2, WaitingTyped DEF HandlersOK, SocketOK, Busy
<1>7. VisitsOK
  <2>1. MayVisit = {}
    BY <1>2, WaitingTyped DEF MayVisit
  <2>2. Cardinality(MayVisit) = 0
    BY <2>1, FS_EmptySet
  <2>. QED
    BY <1>2, <1>3, <2>2, WaitingTyped DEF VisitsOK, Init
<1>8. CooldownOK
  BY <1>2, <1>4, WaitingTyped DEF CooldownOK, ClaimsOK, ApartOK, Pending
<1>9. TheftOK
  BY <1>2, <1>3, <1>4, WaitingTyped DEF TheftOK, TheftJustified
<1>10. LastOK
  BY <1>2, WaitingTyped DEF LastOK, Init
<1>. QED
  BY <1>1, <1>5, <1>6, <1>7, <1>8, <1>9, <1>10, IInvParts DEF Rules

\* A step of a handler.
HandlerStep(h) ==
    \/ \E k \in LimitKeys \cup {"crash"} : Claim(h, k)
    \/ EvaluateCrash(h) \/ MovementOver(h) \/ ClearActive(h)
    \/ ReadStart(h) \/ WriteStart(h) \/ Activate(h)
    \/ StoreAlarm(h) \/ IncidentHandled(h)
    \/ ReadStop(h) \/ WriteStop(h) \/ ReadVisits(h) \/ WriteVisits(h)
    \/ WriteWorked(h) \/ StoreLast(h) \/ RuleFails(h)

LEMMA HandlerRules ==
    ASSUME Reports, Rules, NEW h \in Handlers, HandlerStep(h)
    PROVE  Rules'
<1>1. faults \in Nat
  BY IncidentsAssumption DEF Reports, ReportType
<1>2. CASE (\E k \in LimitKeys \cup {"crash"} : Claim(h, k)) \/ EvaluateCrash(h) \/ MovementOver(h) \/ ClearActive(h) \/ ReadStart(h)
  BY <1>2, ClaimKeeps, EvaluateCrashKeeps, MovementOverKeeps, ClearActiveKeeps, ReadStartKeeps
<1>3. CASE WriteStart(h) \/ Activate(h) \/ StoreAlarm(h) \/ IncidentHandled(h) \/ ReadStop(h)
  BY <1>3, WriteStartKeeps, ActivateKeeps, StoreAlarmKeeps, IncidentHandledKeeps, ReadStopKeeps
<1>4. CASE WriteStop(h) \/ ReadVisits(h) \/ WriteVisits(h) \/ WriteWorked(h) \/ StoreLast(h)
  BY <1>4, WriteStopKeeps, ReadVisitsKeeps, WriteVisitsKeeps, WriteWorkedKeeps, StoreLastKeeps
<1>5. CASE RuleFails(h)
  BY <1>1, <1>5, RuleFailsKeeps
<1>. QED
  BY <1>2, <1>3, <1>4, <1>5 DEF HandlerStep

LEMMA HandlerReports ==
    ASSUME Reports, NEW h \in Handlers, HandlerStep(h)
    PROVE  Reports'
<1>1. CASE StoreAlarm(h)
  <2>1. CASE UNCHANGED report
    BY <1>1, <2>1, ReportsSame DEF StoreAlarm, reportVars
  <2>2. CASE \E e \in Events : Report(e, "severe crash", "rule")
    BY <1>1, <2>2, ReportKeeps DEF StoreAlarm, Kinds, Callers
  <2>. QED
    BY <1>1, <2>1, <2>2 DEF StoreAlarm
<1>2. CASE RuleFails(h)
  <2>1. ReportType'
    BY <1>2, IncidentsAssumption DEF Reports, ReportType, RuleFails
  <2>. QED
    BY <1>2, <2>1, NoneMoves DEF RuleFails, Grow
<1>3. CASE UNCHANGED reportVars
  BY <1>3, ReportsSame
<1>. QED
  BY <1>1, <1>2, <1>3
  DEF HandlerStep, Claim, EvaluateCrash, MovementOver, ClearActive, ReadStart, WriteStart,
      Activate, IncidentHandled, ReadStop, WriteStop, ReadVisits, WriteVisits, WriteWorked,
      StoreLast

\* Steps of the calls leave the rules alone, and no step takes a failure back.
LEMMA CallsOnly ==
    ASSUME Reports, UNCHANGED ruleVars,
           \/ ReportStep \/ Restart
           \/ \E e \in Events : ReportFails(e)
           \/ \E e \in Events, s \in Open : SetIncidentStatus(e, s)
    PROVE  Reports' /\ (faults' = 0 => faults = 0)
<1>1. faults \in Nat
  BY IncidentsAssumption DEF Reports, ReportType
<1>2. CASE ReportStep
  <2>1. faults' = faults
    BY <1>2 DEF ReportStep, StoreEvent, CreateIncident, AlertsEnqueued, WebhooksEnqueued,
                OwnAlertsCreated, OwnAlertsEnqueued, EnqueueAlert, CreateWebhookNote,
                DispatchWebhook, CreateOwnAlert, EnqueueOwnAlert, EnqueuePending
  <2>. QED
    BY <1>2, <2>1, ReportStepKeeps
<1>3. CASE Restart
  BY <1>3, RestartKeeps DEF Restart
<1>4. CASE \E e \in Events : ReportFails(e)
  BY <1>1, <1>4, ReportFailsKeeps DEF ReportFails
<1>5. CASE \E e \in Events, s \in Open : SetIncidentStatus(e, s)
  BY <1>5, SetIncidentStatusKeeps DEF SetIncidentStatus
<1>. QED
  BY <1>2, <1>3, <1>4, <1>5

LEMMA NextIInv == IInv /\ [Next]_vars => IInv'
<1>. SUFFICES ASSUME Reports, Rules, [Next]_vars
              PROVE  Reports' /\ Rules'
  BY DEF IInv, Reports, Rules, TypeOK, RulesType
<1>1. faults \in Nat
  BY IncidentsAssumption DEF Reports, ReportType
<1>2. ASSUME NEW h \in Handlers, NEW s \in Samples, NEW lag \in Lags[s], Receive(h, s, lag)
      PROVE  Reports' /\ Rules'
  BY <1>2, ReceiveKeeps, ReportsSame DEF Receive
<1>3. ASSUME NEW h \in Handlers, HandlerStep(h)
      PROVE  Reports' /\ Rules'
  BY <1>3, HandlerRules, HandlerReports
<1>4. ASSUME NEW e \in Events, NEW k \in Incoming, DeviceEvent(e, k)
      PROVE  Reports' /\ Rules'
  <2>1. k \in Kinds /\ "device" \in Callers
    BY RulesAssumption DEF Kinds, Callers
  <2>. QED
    BY <1>4, <2>1, ReportKeeps, RulesSame DEF DeviceEvent
<1>5. ASSUME NEW e \in Events, RiderSos(e)
      PROVE  Reports' /\ Rules'
  <2>1. "SOS" \in Kinds /\ "rider" \in Callers
    BY DEF Kinds, Callers
  <2>. QED
    BY <1>5, <2>1, ReportKeeps, RulesSame DEF RiderSos
<1>6. ASSUME UNCHANGED ruleVars,
             \/ ReportStep \/ Restart
             \/ \E e \in Events : ReportFails(e)
             \/ \E e \in Events, s \in Open : SetIncidentStatus(e, s)
      PROVE  Reports' /\ Rules'
  BY <1>6, CallsOnly, RulesSame
<1>7. CASE Tick
  BY <1>7, TickKeeps, ReportsSame DEF Tick
<1>8. CASE Crash
  <2>1. up' \in BOOLEAN
    BY <1>8 DEF Crash
  <2>2. faults' \in 0 .. MaxFaults
    BY <1>1, <1>8, IncidentsAssumption DEF Crash
  <2>. QED
    BY <1>1, <1>8, <2>1, <2>2, CrashKeeps, ReportsDieKeeps DEF Crash
<1>9. CASE UNCHANGED vars
  BY <1>9, ReportsSame, RulesSame DEF vars, reportVars
<1>. QED
  BY <1>2, <1>3, <1>4, <1>5, <1>6, <1>7, <1>8, <1>9 DEF Next, HandlerStep

\* The invariant holds in every behaviour of the rules engine and the events it creates.
THEOREM InvariantHolds == Spec => []IInv
<1>1. Init => IInv
  BY InitIInv
<1>2. IInv /\ [Next]_vars => IInv'
  BY NextIInv
<1>. QED
  BY <1>1, <1>2, PTL DEF Spec

\* Type correctness of SafetyRules; the counter of the station visits never exceeds the
\* packets received, although it is read and written in separate calls.
THEOREM TypeCorrect == Spec => []TypeOK
<1>1. IInv => TypeOK
  BY DEF IInv
<1>. QED
  BY <1>1, InvariantHolds, PTL

\* emitWithCooldown: two events for one cooldown key are claimed its cooldown apart, and so
\* are two theft alarms of one movement, for any keys and cooldowns, any number of packets
\* evaluated at the same time and any failures.
THEOREM CooldownsRespected == Spec => []CooldownRespected
<1>1. IInv => CooldownRespected
  <2>. SUFFICES ASSUME IInv, NEW i \in 1 .. Len(alarms), NEW j \in 1 .. Len(alarms),
                       i # j, alarms[i].key = alarms[j].key, alarms[i].move = alarms[j].move,
                       alarms[i].at <= alarms[j].at
                PROVE  alarms[j].at >= alarms[i].at + CooldownOf(alarms[i].key)
    BY DEF CooldownRespected
  <2>1. RulesType /\ ApartOK
    BY IInvParts DEF Rules, CooldownOK
  <2>2. alarms[i].at \in Nat /\ alarms[j].at \in Nat /\ CooldownOf(alarms[i].key) \in Nat
    BY <2>1, AlarmTyped, CooldownTyped
  <2>3. Apart(alarms[i].key, alarms[i].at, alarms[j].at)
    BY <2>1 DEF ApartOK, Alike
  <2>. QED
    BY <2>2, <2>3 DEF Apart
<1>. QED
  BY <1>1, InvariantHolds, PTL

\* evaluateIgnitionOffMovementTheft: the alarm of a socket is about an uninterrupted movement
\* of at least THEFT_MOVEMENT_SECONDS.
THEOREM TheftsJustified == Spec => []TheftJustified
<1>1. IInv => TheftJustified
  BY DEF IInv, TheftOK, TheftJustified
<1>. QED
  BY <1>1, InvariantHolds, PTL

\* createFleetEvent and triggerRiderSos: a call that has returned has queued every alert.
THEOREM ReportsComplete == Spec => []ReportComplete
<1>1. IInv => ReportComplete
  BY DEF IInv, ReportsOK, ReportOK, CrashQueued, ReportComplete
<1>. QED
  BY <1>1, InvariantHolds, PTL

\* evaluateCrash and storeLastSpeedState: the crash rule of a socket compares a packet with
\* the one before it, and goes on to the alarm when the drop and the estimated g-force
\* between the two, or the accelerometer, call for one.
THEOREM CrashesSeen == Spec => CrashSeen
<1>. DEFINE Sees(h) ==
          /\ handler[h].pc = "rule" /\ RuleAt(h) = "crash" /\ now < handler[h].due
          /\ handler'[h] # handler[h] /\ up'
          /\ OnSocket /\ faults = 0
          => handler'[h].pc = "claim"
<1>1. IInv /\ [Next]_vars => [\A h \in Handlers : Sees(h)]_vars
  <2>. SUFFICES ASSUME Reports, Rules, Next, NEW h \in Handlers,
                       handler[h].pc = "rule", RuleAt(h) = "crash", now < handler[h].due,
                       handler'[h] # handler[h], up', OnSocket, faults = 0
                PROVE  handler'[h].pc = "claim"
    BY IInvParts
  <2>. USE DEF Rules
  <2>1. /\ handler \in [Handlers -> HandlerType] /\ handler[h] \in HandlerType
        /\ handler[h].rule = 3 /\ now \in Nat /\ handler[h].due \in Nat
    BY HandlerTyped, RuleAtIs, Bounds DEF RulesType
  <2>2. /\ kv.until["last"] >= handler[h].due
        /\ Fell(handler[h].sample, handler[h].ts, kv.last)
    BY <2>1 DEF LastOK
  <2>3. Has("last")
    BY <2>1, <2>2, KeyNames DEF Has, RulesType
  <2>4. ASSUME EvaluateCrash(h)
        PROVE  handler'[h].pc = "claim"
    BY <2>1, <2>2, <2>3, <2>4 DEF EvaluateCrash, Goto, HandlerType
  <2>5. ASSUME NEW g \in Handlers, HandlerStep(g)
        PROVE  EvaluateCrash(h)
    <3>1. \A f \in Handlers : Busy(f) => f = h
      BY DEF SocketOK, Busy
    <3>2. Busy(g)
      BY <2>5 DEF Busy, HandlerStep, Claim, EvaluateCrash, MovementOver, ClearActive, ReadStart,
                  WriteStart, Activate, StoreAlarm, IncidentHandled, ReadStop, WriteStop,
                  ReadVisits, WriteVisits, WriteWorked, StoreLast, RuleFails
    <3>3. HandlerStep(h)
      BY <2>5, <3>1, <3>2
    <3>4. \A k \in handler[h].left : RuleOf[k] # "crash"
      BY <2>1, Bounds DEF HandlerType, LimitRules
    <3>. QED
      BY <3>3, <3>4 DEF HandlerStep, Claim, MovementOver, ClearActive, ReadStart,
                  WriteStart, Activate, StoreAlarm, IncidentHandled, ReadStop, WriteStop,
                  ReadVisits, WriteVisits, WriteWorked, StoreLast, RuleFails
  <2>6. ASSUME NEW g \in Handlers, NEW s \in Samples, NEW lag \in Lags[s], Receive(g, s, lag)
        PROVE  FALSE
    BY <2>6 DEF Receive
  <2>7. ~Crash
    BY DEF Crash
  <2>8. handler' # handler
    OBVIOUS
  <2>9. \E g \in Handlers : HandlerStep(g)
    BY <2>6, <2>7, <2>8 DEF Next, HandlerStep, DeviceEvent, RiderSos, Tick, ruleVars
  <2>. QED
    BY <2>4, <2>5, <2>9
<1>. QED
  BY <1>1, InvariantHolds, PTL DEF Spec, CrashSeen
=============================================================================
