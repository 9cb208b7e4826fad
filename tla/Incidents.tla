------------------------------ MODULE Incidents ------------------------------
(***************************************************************************)
(* From a fleet event to its alerts: EventsService.createFleetEvent stores  *)
(* the event, opens an incident for a severe crash (and, in a PERSONAL      *)
(* fleet, for an SOS), and writes and enqueues the notifications of the     *)
(* emergency contacts and of the partner webhooks; the rider's SOS request  *)
(* then writes notifications of its own.  What happens to a notification    *)
(* afterwards is NotificationOutbox.                                        *)
(***************************************************************************)
EXTENDS Naturals

CONSTANTS
    Events,     \* event ids
    Contacts,   \* who is alerted: active emergency contacts and subscribed users
    Hooks,      \* active webhooks of the partners of the fleet
    Personal,   \* fleet.type === 'PERSONAL'
    MaxFaults   \* bound on failures

ASSUME IncidentsAssumption ==
    /\ Personal \in BOOLEAN /\ MaxFaults \in Nat
    /\ Contacts \cap Hooks = {}

VARIABLES
    report,    \* the calls of createFleetEvent, by the event they create
    incident,  \* the Incident row of an event, by status
    note,      \* Notification rows: <<event, origin, recipient>>
    queued,    \* those handed to the outbox queue
    boot,      \* rows the outbox bootstrap has read and not yet enqueued
    up,        \* the process is running
    faults     \* failures so far

reportVars == <<report, incident, note, queued, boot, up, faults>>

Kinds == {"severe crash", "crash", "SOS", "other"}
Callers == {"rule", "device", "rider"}
Open == {"OPEN", "ACKNOWLEDGED", "RESOLVED", "FALSE_ALARM"}
Notes == Events \X {"incident", "webhook", "rider"} \X (Contacts \cup Hooks)
Unused == [pc |-> "none", kind |-> "other", by |-> "rule", left |-> {}]

ReportType ==
    /\ report \in [Events ->
           [pc : {"none", "event", "incident", "alert", "webhook", "dispatch",
                  "contact", "enqueue", "done", "failed"},
            kind : Kinds, by : Callers, left : SUBSET Notes]]
    /\ incident \in [Events -> Open \cup {"none"}]
    /\ note \subseteq Notes /\ queued \subseteq note /\ boot \subseteq note
    /\ up \in BOOLEAN /\ faults \in 0 .. MaxFaults

ReportInit ==
    /\ report = [e \in Events |-> Unused]
    /\ incident = [e \in Events |-> "none"]
    /\ note = {} /\ queued = {} /\ boot = {}
    /\ up = TRUE /\ faults = 0

Alerts(e) == {<<e, "incident", c>> : c \in Contacts}
Webhooks(e) == {<<e, "webhook", w>> : w \in Hooks}
OwnAlerts(e) == {<<e, "rider", c>> : c \in Contacts}

Running(e) == report[e].pc \notin {"none", "done", "failed"}
To(e, pc, left) == report' = [report EXCEPT ![e].pc = pc, ![e].left = left]

\* createFleetEvent returns: the rider's request goes on with its contacts.
Return(e) ==
    IF report[e].by = "rider" THEN To(e, "contact", OwnAlerts(e))
                              ELSE To(e, "done", {})

-----------------------------------------------------------------------------

\* createFleetEvent is called.
Report(e, kind, by) ==
    /\ report[e].pc = "none"
    /\ report' = [report EXCEPT ![e] = [Unused EXCEPT !.pc = "event", !.kind = kind,
                                                      !.by = by]]

NeedsIncident(e) ==
    \/ report[e].kind = "severe crash"
    \/ report[e].kind = "SOS" /\ Personal

\* The Event row, its broadcast, and the decision about an incident.
StoreEvent(e) ==
    /\ report[e].pc = "event"
    /\ IF NeedsIncident(e) THEN To(e, "incident", {}) ELSE Return(e)
    /\ UNCHANGED <<incident, note, queued, boot, up, faults>>

\* The transaction: the incident and one notification for everyone to alert.
CreateIncident(e) ==
    /\ report[e].pc = "incident"
    /\ incident' = [incident EXCEPT ![e] = "OPEN"]
    /\ note' = note \cup Alerts(e)
    /\ To(e, "alert", Alerts(e))
    /\ UNCHANGED <<queued, boot, up, faults>>

\* The loop that enqueues them; a crash goes on with the partner webhooks.
EnqueueAlert(e, n) ==
    /\ report[e].pc = "alert" /\ n \in report[e].left
    /\ queued' = queued \cup {n}
    /\ To(e, "alert", report[e].left \ {n})
    /\ UNCHANGED <<incident, note, boot, up, faults>>

\* Mutant: the webhooks are left out.
AlertsSuffice(e) ==
    /\ report[e].pc = "alert" /\ report[e].left = {}
    /\ Return(e)
    /\ UNCHANGED <<incident, note, queued, boot, up, faults>>

AlertsEnqueued(e) ==
    /\ report[e].pc = "alert" /\ report[e].left = {}
    /\ IF report[e].kind = "severe crash" THEN To(e, "webhook", Webhooks(e)) ELSE Return(e)
    /\ UNCHANGED <<incident, note, queued, boot, up, faults>>

\* Mutant: the job before the row.
CreateWebhookJob(e, n) ==
    /\ report[e].pc = "webhook" /\ n \in report[e].left
    /\ queued' = queued \cup {n}
    /\ To(e, "webhook", report[e].left \ {n})
    /\ UNCHANGED <<incident, note, boot, up, faults>>

\* One webhook: its row, then its job.
CreateWebhookNote(e, n) ==
    /\ report[e].pc = "webhook" /\ n \in report[e].left
    /\ note' = note \cup {n}
    /\ To(e, "dispatch", report[e].left)
    /\ UNCHANGED <<incident, queued, boot, up, faults>>

DispatchWebhook(e, n) ==
    /\ report[e].pc = "dispatch" /\ n \in report[e].left \cap note
    /\ queued' = queued \cup {n}
    /\ To(e, "webhook", report[e].left \ {n})
    /\ UNCHANGED <<incident, note, boot, up, faults>>

WebhooksEnqueued(e) ==
    /\ report[e].pc = "webhook" /\ report[e].left = {}
    /\ Return(e)
    /\ UNCHANGED <<incident, note, queued, boot, up, faults>>

\* triggerRiderSos writes one row per contact and then enqueues them all.
CreateOwnAlert(e, n) ==
    /\ report[e].pc = "contact" /\ n \in report[e].left
    /\ note' = note \cup {n}
    /\ To(e, "contact", report[e].left \ {n})
    /\ UNCHANGED <<incident, queued, boot, up, faults>>

OwnAlertsCreated(e) ==
    /\ report[e].pc = "contact" /\ report[e].left = {}
    /\ To(e, "enqueue", OwnAlerts(e))
    /\ UNCHANGED <<incident, note, queued, boot, up, faults>>

EnqueueOwnAlert(e, n) ==
    /\ report[e].pc = "enqueue" /\ n \in report[e].left
    /\ queued' = queued \cup {n}
    /\ To(e, "enqueue", report[e].left \ {n})
    /\ UNCHANGED <<incident, note, boot, up, faults>>

OwnAlertsEnqueued(e) ==
    /\ report[e].pc = "enqueue" /\ report[e].left = {}
    /\ To(e, "done", {})
    /\ UNCHANGED <<incident, note, queued, boot, up, faults>>

\* The database or the queue refuses: the call ends where it is.
ReportFails(e) ==
    /\ Running(e) /\ faults < MaxFaults
    /\ To(e, "failed", {})
    /\ faults' = faults + 1
    /\ UNCHANGED <<incident, note, queued, boot, up>>

\* The process ends, and with it every call.
ReportsDie ==
    report' = [e \in Events |-> IF Running(e) THEN [report[e] EXCEPT !.pc = "failed", !.left = {}]
                                              ELSE report[e]]

\* The outbox picks up the pending rows when the process starts.
Restart ==
    /\ ~up
    /\ up' = TRUE
    /\ boot' = note \ queued
    /\ UNCHANGED <<report, incident, note, queued, faults>>

EnqueuePending(n) ==
    /\ up /\ n \in boot
    /\ boot' = boot \ {n}
    /\ queued' = queued \cup {n}
    /\ UNCHANGED <<report, incident, note, up, faults>>

\* A fleet user acknowledges, resolves or dismisses: no status is refused.
SetIncidentStatus(e, s) ==
    /\ up /\ incident[e] # "none"
    /\ s \in Open \ {"OPEN", incident[e]}
    /\ incident' = [incident EXCEPT ![e] = s]
    /\ UNCHANGED <<report, note, queued, boot, up, faults>>

ReportStep ==
    \/ \E e \in Events :
           \/ StoreEvent(e) \/ CreateIncident(e) \/ AlertsEnqueued(e)
           \/ WebhooksEnqueued(e) \/ OwnAlertsCreated(e) \/ OwnAlertsEnqueued(e)
           \/ \E n \in report[e].left : \/ EnqueueAlert(e, n) \/ CreateWebhookNote(e, n)
                                        \/ DispatchWebhook(e, n) \/ CreateOwnAlert(e, n)
                                        \/ EnqueueOwnAlert(e, n)
    \/ \E n \in boot : EnqueuePending(n)
=============================================================================
