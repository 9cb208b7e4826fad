------------------------- MODULE NotificationOutbox -------------------------
(***************************************************************************)
(* The notification outbox: rows written by incidents, deliveries, SOS and *)
(* partner webhooks, the BullMQ queue they are handed to, the workers that *)
(* deliver them, the handler of the queue's 'failed' events and the        *)
(* bootstrap that picks up pending rows when the process starts.           *)
(*                                                                         *)
(* A BullMQ job is named after its notification, so there is at most one   *)
(* per row.  Waiting and delayed (backoff) jobs are the same here: either  *)
(* can be taken at any time.  In inline mode there is no queue and the     *)
(* "worker" is the request that created the row.                           *)
(***************************************************************************)
EXTENDS Naturals, FiniteSets

CONSTANTS
    Notes,          \* notification ids
    Workers,        \* jobs processed at the same time (concurrency 5)
    Webhooks,       \* the notifications whose channel is WEBHOOK
    Silent,         \* those whose provider may report success and send nothing
    Attempts,       \* NOTIFICATION_ATTEMPTS
    MaxStalls,      \* how often BullMQ takes back a job whose lock expired
    KeepFailed,     \* removeOnFail: failed jobs kept, with their ids
    BootLimit,      \* PENDING_NOTIFICATION_BOOTSTRAP_LIMIT
    Modes,          \* inline (NOTIFICATION_OUTBOX_INLINE, REDIS_IN_MEMORY) or not
    CountsInEvent,  \* whether a 'failed' event may carry attemptsMade, or lack it
    HookMayGo,      \* whether HQ may delete the partner webhook meanwhile
    FaultKinds,     \* the failures considered
    MaxFaults,      \* bound on their number
    None

ASSUME OutboxAssumption ==
    /\ Webhooks \subseteq Notes /\ Silent \subseteq Notes
    /\ Attempts \in Nat \ {0} /\ MaxStalls \in Nat
    /\ KeepFailed \in Nat \ {0} /\ BootLimit \in Nat \ {0}
    /\ Modes \subseteq BOOLEAN /\ HookMayGo \in BOOLEAN /\ CountsInEvent \subseteq BOOLEAN
    /\ FaultKinds \subseteq {"crash", "database", "queue", "lock"}
    /\ MaxFaults \in Nat
    /\ None \notin Notes \cup Workers
    /\ IsFiniteSet(Notes) /\ IsFiniteSet(Workers)

VARIABLES
    note,      \* the Notification rows
    producer,  \* the code that creates a row and then enqueues it
    job,       \* BullMQ's jobs
    run,       \* what each worker is doing
    failedEv,  \* 'failed' events on their way to handleFailedJob
    boot,      \* rows the bootstrap read and has yet to enqueue
    up,        \* the process is running
    inline,    \* inlineMode, set when the service is constructed
    hook,      \* the PartnerWebhook row of the webhook notifications exists
    sends,     \* how often the recipient really got the notification
    dropped,   \* history: rows whose failed job went to make room for another
    faults     \* failures so far

vars == <<note, producer, job, run, failedEv, boot, up, inline, hook, sends, dropped,
          faults>>

Statuses == {"NONE", "PENDING", "SENT", "FAILED"}
NoJob == [st |-> "none", made |-> 0, stalls |-> 0, owner |-> None]
Idle == [pc |-> "idle", note |-> None]

\* The type invariant.
TypeOK ==
    /\ note \in [Notes -> [status: Statuses, attempts: Nat, born: Nat]]
    /\ producer \in [Notes -> {"idle", "enqueue", "done"}]
    /\ job \in [Notes -> [st: {"none", "waiting", "active", "failed"}, made: Nat,
                          stalls: Nat, owner: Workers \cup {None}]]
    /\ run \in [Workers -> [pc: {"idle", "read", "count", "send", "mark", "audit",
                                 "ok", "err"}, note: Notes \cup {None}]]
    /\ failedEv \subseteq [note: Notes, made: Nat]
    /\ boot \subseteq Notes
    /\ up \in BOOLEAN
    /\ inline \in BOOLEAN /\ hook \in BOOLEAN
    /\ sends \in [Notes -> Nat]
    /\ dropped \subseteq Notes
    /\ faults \in Nat

Init ==
    /\ note = [n \in Notes |-> [status |-> "NONE", attempts |-> 0, born |-> 0]]
    /\ producer = [n \in Notes |-> "idle"]
    /\ job = [n \in Notes |-> NoJob]
    /\ run = [w \in Workers |-> Idle]
    /\ failedEv = {}
    /\ boot = {}
    /\ up = TRUE
    /\ inline \in Modes
    /\ hook = TRUE
    /\ sends = [n \in Notes |-> 0]
    /\ dropped = {}
    /\ faults = 0

-----------------------------------------------------------------------------
(* Helpers *)

Fault(kind) == kind \in FaultKinds /\ faults < MaxFaults /\ faults' = faults + 1

Created == {n \in Notes : note[n].status # "NONE"}
Pending == {n \in Notes : note[n].status = "PENDING"}

\* A worker leaves its row at stage pc.
At(w, pc) == up /\ run[w].pc = pc
Goto(w, pc) == run' = [run EXCEPT ![w].pc = pc]

\* queue.add with jobId notification-{id}: ignored while a job of that id,
\* waiting, running or kept as failed, exists.
JobsWith(n) ==
    IF job[n].st = "none" THEN [job EXCEPT ![n] = [NoJob EXCEPT !.st = "waiting"]]
                          ELSE job

\* Hand a row over: queue it, or, inline, run it on the spot.
HandOver(n) ==
    IF inline
    THEN \E w \in Workers : /\ run[w].pc = "idle"
                            /\ run' = [run EXCEPT ![w] = [pc |-> "read", note |-> n]]
                            /\ UNCHANGED job
    ELSE job' = JobsWith(n) /\ UNCHANGED run

-----------------------------------------------------------------------------
(* Producers *)

\* The row is committed, PENDING, before anything is enqueued.
CreateNotification(n) ==
    /\ up
    /\ producer[n] = "idle"
    /\ producer' = [producer EXCEPT ![n] = "enqueue"]
    /\ note' = [note EXCEPT ![n] = [status |-> "PENDING", attempts |-> 0,
                                    born |-> Cardinality(Created)]]
    /\ UNCHANGED <<job, run, failedEv, boot, up, inline, hook, sends, faults, dropped>>

\* enqueueNotification; when Redis fails the caller throws and the row waits
\* for the next restart.
EnqueueNotification(n) ==
    /\ up
    /\ producer[n] = "enqueue"
    /\ producer' = [producer EXCEPT ![n] = "done"]
    /\ \/ HandOver(n) /\ UNCHANGED faults
       \/ ~inline /\ Fault("queue") /\ UNCHANGED <<job, run>>
    /\ UNCHANGED <<note, failedEv, boot, up, inline, hook, sends, dropped>>

\* hq.deleteWebhook: the rows stay and lose their partnerWebhookId.
DeleteWebhook ==
    /\ HookMayGo /\ hook
    /\ hook' = FALSE
    /\ UNCHANGED <<note, producer, job, run, failedEv, boot, up, inline, sends,
                   faults, dropped>>

-----------------------------------------------------------------------------
(* The worker: processNotificationJob *)

\* BullMQ gives a waiting job to a free worker and locks it.
TakeJob(w, n) ==
    /\ up /\ run[w].pc = "idle"
    /\ job[n].st = "waiting"
    /\ job' = [job EXCEPT ![n] = [@ EXCEPT !.st = "active", !.owner = w]]
    /\ run' = [run EXCEPT ![w] = [pc |-> "read", note |-> n]]
    /\ UNCHANGED <<note, producer, failedEv, boot, up, inline, hook, sends, faults,
                   dropped>>

\* A database error at a stage makes the run throw.
DatabaseFails(w) ==
    /\ up /\ run[w].pc \in {"read", "count", "mark", "audit"}
    /\ Goto(w, "err")
    /\ Fault("database")
    /\ UNCHANGED <<note, producer, job, failedEv, boot, up, inline, hook, sends,
                   dropped>>

\* Nothing is done for a row that is no longer PENDING.
ReadRow(w) ==
    /\ At(w, "read")
    /\ Goto(w, IF run[w].note \in Pending THEN "count" ELSE "ok")
    /\ UNCHANGED <<note, producer, job, failedEv, boot, up, inline, hook, sends,
                   faults, dropped>>

\* Mutant: attempts are not counted.
CountAttemptNever(w) ==
    /\ At(w, "count")
    /\ Goto(w, "send")
    /\ UNCHANGED <<note, producer, job, failedEv, boot, up, inline, hook, sends,
                   faults, dropped>>

\* attemptCount is incremented before the provider is called.
CountAttempt(w) ==
    /\ At(w, "count")
    /\ note' = [note EXCEPT ![run[w].note].attempts = @ + 1]
    /\ Goto(w, "send")
    /\ UNCHANGED <<producer, job, failedEv, boot, up, inline, hook, sends, faults,
                   dropped>>

\* Mutant: the provider's failure is swallowed.
SendSwallowed(w) ==
    /\ At(w, "send")
    /\ \/ sends' = [sends EXCEPT ![run[w].note] = @ + 1]
       \/ UNCHANGED sends
    /\ Goto(w, "mark")
    /\ UNCHANGED <<note, producer, job, failedEv, boot, up, inline, hook, faults,
                   dropped>>

\* The provider delivers; or it fails, as it must once the webhook is deleted;
\* or it delivers and yet reports a failure (the webhook's 10 s abort, a lost
\* answer).  For a silent row it may return as if it had delivered: an SMS is
\* only logged, so is an EMAIL without a mail transport, even after the mail
\* API refused it, and a webhook that is not active is skipped.
Send(w) ==
    /\ At(w, "send")
    /\ \/ Goto(w, "err") /\ UNCHANGED sends
       \/ /\ run[w].note \in Webhooks => hook
          /\ sends' = [sends EXCEPT ![run[w].note] = @ + 1]
          /\ \E next \in {"mark", "err"} : Goto(w, next)
       \/ /\ run[w].note \in Silent
          /\ run[w].note \in Webhooks => hook
          /\ Goto(w, "mark") /\ UNCHANGED sends
    /\ UNCHANGED <<note, producer, job, failedEv, boot, up, inline, hook, faults,
                   dropped>>

\* SENT, whatever the row has become meanwhile; a webhook is also audited.
MarkSent(w) ==
    /\ At(w, "mark")
    /\ note' = [note EXCEPT ![run[w].note].status = "SENT"]
    /\ Goto(w, IF run[w].note \in Webhooks THEN "audit" ELSE "ok")
    /\ UNCHANGED <<producer, job, failedEv, boot, up, inline, hook, sends, faults,
                   dropped>>

WriteAudit(w) ==
    /\ At(w, "audit")
    /\ Goto(w, "ok")
    /\ UNCHANGED <<note, producer, job, failedEv, boot, up, inline, hook, sends,
                   faults, dropped>>

Owns(w) == job[run[w].note].owner = w

\* The run returned: BullMQ removes the job, if this worker still holds it.
Complete(w) ==
    /\ At(w, "ok")
    /\ run' = [run EXCEPT ![w] = Idle]
    /\ job' = IF Owns(w) THEN [job EXCEPT ![run[w].note] = NoJob] ELSE job
    /\ UNCHANGED <<note, producer, failedEv, boot, up, inline, hook, sends, faults,
                   dropped>>

\* Mutant: a missing count is passed on as it is.
FailedEventsRaw(n, made) == {[note |-> n, made |-> None]}

\* The 'failed' event of job n after so many attempts; one without a count
\* is read as 0 by normalizeAttemptsMade.
FailedEvents(n, made) ==
    {[note |-> n, made |-> IF k THEN made ELSE 0] : k \in CountsInEvent}

\* Job n is kept as failed; beyond KeepFailed, some failed job goes.
Bury(n, made, stalls) ==
    LET dead == {m \in Notes : job[m].st = "failed"} \cup {n}
        buried == [job EXCEPT ![n] = [st |-> "failed", made |-> made,
                                      stalls |-> stalls, owner |-> None]]
    IN  /\ IF Cardinality(dead) <= KeepFailed THEN job' = buried /\ UNCHANGED dropped
           ELSE \E m \in dead \ {n} : /\ job' = [buried EXCEPT ![m] = NoJob]
                                     /\ dropped' = dropped \cup {m}
        /\ \E e \in FailedEvents(n, made) : failedEv' = failedEv \cup {e}

\* The run threw: another attempt, or the job is kept as failed.
FailAttempt(w) ==
    LET n == run[w].note
        made == job[n].made + 1
    IN  /\ At(w, "err") /\ ~inline
        /\ run' = [run EXCEPT ![w] = Idle]
        /\ \/ ~Owns(w) /\ UNCHANGED <<job, failedEv, dropped>>
           \/ /\ Owns(w) /\ made < Attempts
              /\ job' = [job EXCEPT ![n] = [@ EXCEPT !.st = "waiting", !.made = made,
                                                     !.owner = None]]
              /\ \E e \in FailedEvents(n, made) : failedEv' = failedEv \cup {e}
              /\ UNCHANGED dropped
           \/ Owns(w) /\ made >= Attempts /\ Bury(n, made, job[n].stalls)
        /\ UNCHANGED <<note, producer, boot, up, inline, hook, sends, faults>>

\* BullMQ takes back a job whose lock expired, and gives it up when that
\* happens too often.
TakeBack(n) ==
    /\ up /\ job[n].st = "active" /\ job[n].owner = None
    /\ \/ /\ job[n].stalls < MaxStalls
          /\ job' = [job EXCEPT ![n] = [@ EXCEPT !.st = "waiting",
                                                 !.stalls = job[n].stalls + 1]]
          /\ UNCHANGED <<failedEv, dropped>>
       \/ job[n].stalls >= MaxStalls /\ Bury(n, job[n].made, job[n].stalls)
    /\ UNCHANGED <<note, producer, run, boot, up, inline, hook, sends, faults>>

-----------------------------------------------------------------------------
(* Failures that are final *)

\* Mutant: the update is not limited to PENDING rows.
GiveUpAnyStatus(n) == note' = [note EXCEPT ![n].status = "FAILED"]

\* updateMany where status is PENDING.
GiveUp(n) ==
    note' = IF n \in Pending THEN [note EXCEPT ![n].status = "FAILED"] ELSE note

\* handleFailedJob: FAILED after the last attempt; before it, only the
\* error message changes.  A database error loses the event.
HandleFailedJob(e) ==
    /\ up
    /\ e \in failedEv
    /\ failedEv' = failedEv \ {e}
    /\ \/ e.made >= Attempts /\ GiveUp(e.note) /\ UNCHANGED faults
       \/ e.made < Attempts /\ UNCHANGED <<note, faults>>
       \/ Fault("database") /\ UNCHANGED note
    /\ UNCHANGED <<producer, job, run, boot, up, inline, hook, sends, dropped>>

\* handleInlineFailure: without a queue the first failure is final.
HandleInlineFailure(w) ==
    /\ At(w, "err") /\ inline
    /\ run' = [run EXCEPT ![w] = Idle]
    /\ \/ GiveUp(run[w].note) /\ UNCHANGED faults
       \/ Fault("database") /\ UNCHANGED note
    /\ UNCHANGED <<producer, job, failedEv, boot, up, inline, hook, sends, dropped>>

-----------------------------------------------------------------------------
(* Crash and restart *)

\* The process dies: its runs, producers and undelivered events are gone; the
\* rows and the jobs stay, the locks expire.
Crash ==
    /\ up /\ Fault("crash")
    /\ up' = FALSE
    /\ run' = [w \in Workers |-> Idle]
    /\ producer' = [n \in Notes |-> IF producer[n] = "idle" THEN "idle" ELSE "done"]
    /\ job' = [n \in Notes |-> [job[n] EXCEPT !.owner = None]]
    /\ failedEv' = {}
    /\ boot' = {}
    /\ UNCHANGED <<note, inline, hook, sends, dropped>>

\* A worker that is stalled for longer than its lock loses the job but goes on.
LockExpires(n) ==
    /\ up /\ job[n].st = "active" /\ job[n].owner # None
    /\ job' = [job EXCEPT ![n].owner = None]
    /\ Fault("lock")
    /\ UNCHANGED <<note, producer, run, failedEv, boot, up, inline, hook, sends,
                   dropped>>

\* Mutant: the bootstrap picks up nothing.
OldestPendingNone == {{}}

\* The oldest pending rows, at most BootLimit.
OldestPending ==
    {b \in SUBSET Pending :
       /\ Cardinality(b) <= BootLimit
       /\ b = Pending \/ Cardinality(b) = BootLimit
       /\ \A n \in b, m \in Pending \ b : note[n].born < note[m].born}

\* onModuleInit: the worker is started and the pending rows are read.
Restart ==
    /\ ~up
    /\ up' = TRUE
    /\ boot' \in OldestPending
    /\ UNCHANGED <<note, producer, job, run, failedEv, inline, hook, sends, faults,
                   dropped>>

\* enqueuePendingNotifications: one row after the other.
EnqueuePending(n) ==
    /\ up /\ n \in boot
    /\ boot' = boot \ {n}
    /\ HandOver(n)
    /\ UNCHANGED <<note, producer, failedEv, up, inline, hook, sends, faults, dropped>>

-----------------------------------------------------------------------------

WorkerStep(w) ==
    \/ ReadRow(w) \/ CountAttempt(w) \/ Send(w) \/ MarkSent(w) \/ WriteAudit(w)
    \/ Complete(w) \/ FailAttempt(w) \/ HandleInlineFailure(w)

Next ==
    \/ \E n \in Notes : \/ CreateNotification(n) \/ EnqueueNotification(n)
                        \/ TakeBack(n) \/ LockExpires(n) \/ EnqueuePending(n)
                        \/ \E w \in Workers : TakeJob(w, n)
    \/ \E w \in Workers : WorkerStep(w) \/ DatabaseFails(w)
    \/ \E e \in failedEv : HandleFailedJob(e)
    \/ Crash \/ Restart
    \/ DeleteWebhook

Spec == Init /\ [][Next]_vars

\* Whatever has started runs on, BullMQ serves its jobs and events, and a
\* process that died is started again.  Nothing is assumed of the provider.
Fairness ==
    /\ \A n \in Notes : /\ WF_vars(EnqueueNotification(n))
                        /\ WF_vars(EnqueuePending(n))
                        /\ WF_vars(TakeBack(n))
                        /\ WF_vars(\E w \in Workers : TakeJob(w, n))
    /\ \A w \in Workers : WF_vars(WorkerStep(w))
    /\ WF_vars(\E e \in failedEv : HandleFailedJob(e))
    /\ WF_vars(Restart)

FairSpec == Spec /\ Fairness

-----------------------------------------------------------------------------
(* Properties *)

\* On a channel that has a transport, a notification shown as SENT was delivered
\* at least once, although the row is written by a run that read it several
\* awaits earlier and other workers, retries and failures came in between.  On
\* a silent channel SENT says nothing.
SentWasDelivered ==
    \A n \in Notes \ Silent : note[n].status = "SENT" => sends[n] > 0

\* A recipient gets at most as many copies of one alert as attempts are counted,
\* and neither restarts, expired locks nor retries, alone or together, make these
\* exceed the budget of the job, unless BullMQ removed it to make room for other
\* failed ones.  Inline, without a job, every failure may cost another copy.
Budget == IF inline THEN 1 + faults ELSE Attempts + MaxStalls

DeliveriesBounded ==
    \A n \in Notes : /\ sends[n] <= note[n].attempts
                     /\ n \notin dropped => note[n].attempts <= Budget

\* A row that was SENT stays SENT, even when the queue reports its job as
\* failed afterwards.
SentIsFinal ==
    [][\A n \in Notes : note[n].status = "SENT" => note'[n].status = "SENT"]_vars

\* Crashes make no notification forgotten: in the end it is SENT or FAILED,
\* or its job has used up its attempts.
NoneForgotten ==
    \A n \in Notes : [](n \in Pending => <>(n \notin Pending \/ job[n].st = "failed"))
=============================================================================
