# Verification of the eMoto Fleet OS backend

This directory holds TLA+ models of the parts of the eMoto backend whose
correctness depends on the order in which things happen: how a lock command
finds its way to a tracker and how its outcome comes back, how telemetry becomes
trips and alarms, how an alarm becomes an incident and reaches its recipients, how
events travel through the Redis streams, how invoices are generated, paid and
marked overdue, how bikes change hands between riders, and how delivery orders
move through their statuses. TLC checks the models on small instances; TLAPS
proves the safety properties of all of them for instances of any size.

## 1. The system

A monorepo: `apps/api` (NestJS; HTTP API, MQTT ingestion, TCP server for
SinoTrack trackers, cron jobs, queue workers), `apps/gateway`,
`apps/stream-processor` (reads Redis streams), and two user interfaces
(`apps/dashboard`, `apps/rider`). State is kept in PostgreSQL (through Prisma)
and in Redis (live state, trip state, queued commands, cooldowns, BullMQ, streams).
Every `await` in the API lets any other request, message, timer or socket event
run; more than one API process may run against the same stores.

| Component | State | Operations | Talks to | Hard because | Correct when |
|---|---|---|---|---|---|
| Device commands (`commands/`) | `DeviceCommand` rows | request (fleet, HQ), acknowledge, sweep every few seconds | TCP adapter, Redis slot, SMS, MQTT | four channels, late answers, two timers, crash between insert and dispatch | nothing unrequested is sent; a status has its evidence; every command ends |
| SinoTrack adapter (`ingestion/sinotrack-adapter`) | open sockets, device → socket map | packets, flush of the queued command, replies, MQTT bridge | commands, ingestion | sockets close while a packet is processed; replies name no command | a queued command is written once, while still wanted |
| MQTT ingestion | nonces in Redis | telemetry, event, acknowledgement messages | everything below | duplicates, skewed clocks, out of order | each message is applied once |
| Trip builder | one trip state per bike in Redis, `Trip` rows | telemetry, idle timeout, forced end, finalise | ingestion, trips stream | read-modify-write without a lock, packets out of order | one trip and one summary per ride; stored trips do not overlap, are not deleted again, end where the bike stopped |
| Rules engine, incidents | cooldown, movement and last-sample keys in Redis; `Event`, `Incident`, `Notification` rows | detect, report, open, acknowledge, resolve, dismiss; rider's SOS | outbox, partner webhooks, events gateway | keys read and written apart, cooldown set before the event is stored, a call of many steps | cooldowns hold, crashes are seen, thefts are real, every alert is queued |
| Notification outbox (`incidents/notification-outbox`) | `Notification` rows, BullMQ jobs | enqueue, process, retry, give up, bootstrap | providers, partner webhooks | crash at any await, lost events, expired locks | SENT means delivered, where there is a transport; every row settles |
| Stream processor | consumer group, pending entries | claim, poll, enrich, score, forward, acknowledge | ingestion, dispatcher | crash in the middle of a batch, slow consumers | acknowledged means written; what a processor comes to is acknowledged |
| Webhook dispatcher (`webhooks/`) | consumer group, pending entries | poll, fan out, acknowledge | outbox | failure half way through a fan-out | acknowledged means everyone is notified |
| Billing (`billing/services`, `hq/`) | `BillingCycle`, `BillingPayment`, fleet status and trial | generate, pay, approve, void; daily jobs: renew, mark overdue, end trials, reconcile usage | mail (MoMo is switched off) | sums computed from stale reads, jobs against payments, no locks | a cycle claims no unrecorded money; PAID is covered; periods join; OVERDUE only when late |
| Deliveries | `Delivery` rows | create, assign, change status, auto-assign | riders, partner webhooks | check then unconditional update | a finished delivery stays finished, its times are recorded, partners know its status |
| Riders and assignments | `User`, `Bike`, `BikeAssignment` rows | assign, hire with a bike, create a bike for a PERSONAL fleet, dismiss, delete | trips, deliveries | transactions at READ COMMITTED, one partial unique index, cascades | one active assignment per bike and, unless two overlapped, per rider |
| Authentication | users, invites, one-time codes, counters in Redis | login, invite, reset, refresh | mail, SMS | get-then-set counters, codes used twice | a code works once; lockout counts every attempt |
| Partner, HQ, financials, reports, bikes, devices, zones, POIs, roads, fines, evidence | rows | CRUD and queries | — | mostly sequential | — |
| SMS, mail, storage, audit, health, metrics | none of their own | I/O | — | calls fail | — |

`PROJECT.json` lists every component with its status, and under `hazards` the
places in the code that are hard to test, with the properties that cover them.

## 2. The modules

| Module | Models | Proofs |
|---|---|---|
| `DeviceCommands` | commands service, SinoTrack adapter, acknowledgement path of ingestion | `DeviceCommandsProofs` |
| `NotificationOutbox` | notification outbox, its queue and its producers | `NotificationOutboxProofs` |
| `EventStreams` | stream processor and webhook dispatcher, with the streams between them | `EventStreamsProofs` |
| `Billing` | billing cycles and payments of a fleet, the HQ requests and daily jobs that change them | `BillingProofs` |
| `Incidents` | from a fleet event to its incident, alerts and webhooks | `SafetyRulesProofs` |
| `SafetyRules` | rules engine; extends `Incidents`, which its crashes and the rider's SOS go through | `SafetyRulesProofs` |
| `TripBuilder` | trip builder | `TripBuilderProofs` |
| `Assignments` | riders, bikes and assignments: the transactions, row locks and the unique index | `AssignmentsProofs` |
| `BikeHandover` | abstract specification of who rides which bike, implemented by `Assignments` | `AssignmentsProofs` |
| `Deliveries` | delivery orders | `DeliveriesProofs` |
| `MC...` | for each of them but `Incidents` and `BikeHandover`, symmetry sets and packets for TLC | – |

In all of them one action is the code between two awaits, a handler in progress
is a record with a program counter, and failures are actions counted by
`faults`. Definitions whose comment begins with "Mutant:" are deliberately wrong
variants of the definition below them; no specification uses them. They show
that a property would notice that mistake.

### 2.1 DeviceCommands

State. `cmd` is the `DeviceCommand` table (status, type, device, creation
time, `ackedAt`, the `smsFallbackDispatched` flag). `req[c]` is the handler of the
request that creates command `c`. `slot[d]` is the Redis key
`sinotrack:pending_cmd:{deviceUid}`, `active[d]` the adapter's map from device to
socket, `sock[s]` a socket with the packet its queue is working on, `air` all
downlinks ever written, `ack` the acknowledgement messages (by sender, command and
outcome) and their handlers, `bridge[c]` a call of `handleMqttCommand` with the
connection it has looked up, `sweep[w]` a sweeper tick with its batch, `now` the clock.
`heard` is history: the trackers that sent a reply packet. The live state that the
safety check reads is an input of the request.

Actions.

* Request: `RequestCommand` (loading the bike and `assertSafeToLock`),
  `CheckDebounce`, `CreateCommand`, `DispatchDirect`, `QueuePending`, `SendSms`,
  `RecordSms`, `MarkAcked`, `PublishMqtt`, `MarkSent`, `MarkLast`. The HQ variant
  (`requestCommandForBikeHq`) has the same stages.
* Tracker: `PacketArrives`, `BindSocket`, `FlushPending`, `DeletePending`,
  `MarkFlushed`, `FindAcked`, `MarkTcpAcked`, `SocketCloses`; `BridgeMqtt` and
  `BridgeWrite`, the two halves of `handleMqttCommand` around its awaits.
* Acknowledgement: `DeviceAcks` (again, with a fresh nonce, once the last answer was
  handled), `ReceiveAck`, `ApplyAck`.
* Sweeper: `SweepStart`, `SweepNext`, `SweepAck`, `SweepExpire`; two ticks may
  overlap because `setInterval` does not wait for the previous one.
* Environment: `Tick`, `Crash`.

A tracker may send a reply packet at any time: the adapter does not ask whether
anything was written to it (`sinotrack-adapter.service.ts:425-447`) and acknowledges the
device's latest open command. `OutcomeHasEvidence` therefore asks for a reply of the
command's own tracker, not for a reply to that command.

Abstractions. A bike is identified with its tracker. Message signatures and
nonces are assumed to work (a message is accepted once). Times are small numbers:
what matters is their order against the TTL, the debounce window, the slot's TTL
and the accepted drift. Payload texts are their command type.

### 2.2 NotificationOutbox

State. `note` is the `Notification` table, `producer` the code that commits a row
and then enqueues it, `job` BullMQ's job of each row (waiting, active, failed; the
attempts made, how often it stalled, the worker that holds its lock), `run` what
each worker is doing, `failedEv` the `failed` events on their way, `boot` the rows
the bootstrap has read, `inline` whether the process works without a queue, `hook`
whether the partner webhook still exists, `sends` what recipients really received.
`Silent` are the rows whose provider may report success and send nothing: an SMS is only
logged (`console-notification.provider.ts:56-58`), so is a mail without a transport
(`mail.service.ts:96-103`), and a webhook that is not active is skipped
(`console-notification.provider.ts:245-250`). `SentWasDelivered` is about the others.
`dropped` is history: the rows whose failed job was evicted to keep at most
`removeOnFail` of them.

Actions. `CreateNotification`, `EnqueueNotification`; `TakeJob`, `ReadRow`,
`CountAttempt`, `Send`, `MarkSent`, `WriteAudit` (the awaits of
`processNotificationJob`), `Complete`, `FailAttempt`; `HandleFailedJob`,
`HandleInlineFailure`; `TakeBack` (stalled jobs), `LockExpires`, `Crash`,
`Restart`, `EnqueuePending`; `DeleteWebhook`, `DatabaseFails`.

BullMQ is not part of the repository. What is used of it: a job id is unique
among waiting, active, delayed and kept failed jobs; a job is retried until
`attempts`; a stalled job is taken back `maxStalledCount` times; at most
`removeOnFail` failed jobs are kept; `failed` events may be lost when nobody
listens. Whether an event carries `attemptsMade` is left open, as the declared
payload type leaves it optional (`CountsInEvent`).

### 2.3 EventStreams

State. `src` and `out` give each entry of `telemetry:stream` and each copy of an
alert in `webhooks:outbox` its standing with the consumer group (new, pending,
pending for 60 s, acknowledged); `groups` the groups that exist (they are created
at `$`, so what is published before is skipped); `proc` and `disp` the processes,
`written` the enriched and score entries, `notified` the webhooks a notification
was created for.

Actions. `Publish`, `Age`; `StartProcessor`, `ReclaimPending`, `Poll`,
`NextEntry`, `WriteEnriched`, `WriteScore`, `ForwardAlert`, `AckEntry`,
`WriteFails`, `CrashProcessor`; `StartDispatcher`, `PollOutbox`, `NextCopy`,
`NotifyHook`, `FanOutDone`, `AckCopy`, `FanOutFails`, `CrashDispatcher`. The values
computed on the way (speed band, penalty) do not influence control and are left
out, as is trimming by MAXLEN.

### 2.4 Billing

State. `cycle` is the `BillingCycle` table of one fleet by `cycleNumber`,
`recorded[n]` the sum of the positive `BillingPayment` rows of cycle `n`, `fleet` the
fleet's `subscriptionStatus`, `trialEndsAt` and whether usage may be billed, `proc[p]`
what an HQ request (`Clerks`) or a daily job (`Jobs`) is doing and what it has read,
`now` the day. `corrected` is history: the cycles with a negative payment row. A recorded
payment is validated, an approved one is not (`hq.service.ts:3027`), so `Approvals` are any
integers and a cycle's sum may fall below zero. `billingCycleDays` may be changed at any
time (7 days at registration, 30 by default), so the length of each new period is any of
`Periods`; the grace period is taken as fixed. Rows are kept by number because the
unique key on fleet and number admits one row per number: a second insert is lost.

Actions.

* Payments: `RecordPayment` and `ApproveBillingPayment` (read and check),
  `CreatePayment`, `UpdateCycle`, `CountOverdue`, `RestoreFleet`; a payment that
  settles an invoice goes on to generate the next one.
* Generation (`generateCycleForFleet`, called by a payment, HQ or a job):
  `GenerateCycle`, `ReadFleet`, `ReadLast`, `CreateCycle`. The unique key on fleet
  and number lets only one of several concurrent inserts succeed.
* HQ: `VoidCycle`, `WriteVoid`, `UpdateFleetSubscription`, `UpdateFleetTrial`.
* Jobs: `GenerateBillingCycles`; `ExpireTrials`, `ClearTrial`; `AutoMarkOverdue`,
  `ReadPastDue`, `RevertOverdue`, `HealFleet`, `SelectLate`, `MarkOverdue`;
  `AuditDailyPaygUsage`, `ReconcilePaygCycle`, `RewriteTotalDue`; `FinishJob`.
* Environment: `Tick`, `DatabaseFails`, `MarkFails`, `Crash`.

Abstractions. There is one fleet, since no operation reads two. The price of a
period is any member of `Dues` (rates, bike counts and discounts are arithmetic).
A job visits its cycles in any order. The fleet begins as registration leaves it,
with a first cycle that costs nothing and falls due on its first day. Reminder
mails, audit rows and the disabled mobile-money payments are left out.

Three properties are weaker than one may expect, because the code is:
`PaidIsBacked` says "no more than", not "equal to", the recorded payments (of two
concurrent payments the cycle's sum keeps one), and counts only the positive ones (a
negative one may be the payment that is lost, so the net of all rows is no bound);
`PaidIsCovered` and
`OverdueIsLate` speak of fixed-rate fleets (reconciliation may raise the amount due
of a cycle that was paid meanwhile, and may turn the free first cycle into a
payable one between the steps of the overdue job), `OverdueIsLate` also of cycles
without a negative payment, which does the same. A cycle may also be marked
OVERDUE after it was paid, when the payment falls between the job's read and its
write.

### 2.5 Incidents and SafetyRules

`Incidents` is one call of `createFleetEvent` per event id. State. `report[e]` is
the call (where it is, what kind of event, who called), `incident[e]` the `Incident`
row, `note` the `Notification` rows, `queued` those handed to the outbox, `boot`
what the bootstrap has read, `up` the process.

Actions. `Report` (the call), `StoreEvent`, `CreateIncident` (a transaction:
the incident and a row for everyone to alert), `EnqueueAlert`, `AlertsEnqueued`,
`CreateWebhookNote`, `DispatchWebhook`, `WebhooksEnqueued`; then, for the rider's SOS
request, `CreateOwnAlert`, `OwnAlertsCreated`, `EnqueueOwnAlert`, `OwnAlertsEnqueued`;
`ReportFails`, `ReportsDie`, `Restart`, `EnqueuePending`, `SetIncidentStatus`.

`SafetyRules` extends it with the rules engine of one device. State. `kv` is the
device's keys in Redis (cooldowns, start of a movement without ignition, last
sample, station visits) with their expiry, `handler[h]` a packet with the rule it
is at, the cooldown keys it still has to try and the one it has claimed, `channel` how
packets arrive. `span` (times of the movement without ignition under way), `previous`
(the packet before, and when its sample was stored), `moves` (how many movements have
been ended), `alarms` and a handler's `due` (until when the sample of the packet before
lets the crash rule see the drop to this one) are history that only properties read.

Actions. `Receive`; per rule `Claim` (`emitWithCooldown`), `EvaluateCrash`,
`MovementOver`, `ClearActive`, `ReadStart`, `WriteStart`, `Activate`, `ReadStop`,
`WriteStop`, `ReadVisits`, `WriteVisits`, `WriteWorked`; `StoreAlarm`,
`IncidentHandled`, `RuleFails`, `StoreLast`; `DeviceEvent`, `RiderSos`; `Tick`,
`Crash`.

Abstractions. A packet says which of the rules on limits it hits (overspeed in or
outside a zone, harsh dynamics, parked at night, power cut, road features, work
boundary), by their cooldown keys: their thresholds are arithmetic on inputs. A rule has
several keys (one per slow zone, kind of harsh event or road feature) and tries all
that a packet hits in turn, each with a cooldown of its own (`LimitKeys`, `RuleOf`,
`Limit`); when one of its events fails, the rest of the rule is skipped, and movement
and night are one such evaluation. The crash rule without an accelerometer has both its
thresholds: the drop (`Drop`) and the estimated g-force, which is the drop over the
time between the packets, of which at most 1.5 s count (`Rate`, `Cap`). Packets of a SinoTrack socket are handled in turn (the adapter chains them),
packets of an MQTT client concurrently; on the third channel, `app`, there are no packets and
events come from the rider or from the device itself. Redis answers; the in-memory
fallback of `RedisService` is left out.

### 2.6 TripBuilder

State. `state` is the JSON value under `trip:state:{deviceId}`, `lock` the
finalizing key, `trips` the `Trip` rows, `summaries` what was put on the trips
stream, `call[h]` a call of `processTelemetryForTrips` with the state it read and the
one it will write. History: `track` (what the packets of each time said), `stale` (a
call wrote over a change it had not read), `lost` (the state was deleted by a forced
end or expired), `clash` (two calls were between clean-up and insert at once).

Actions. `Load` (read the state, decide), `CheckFinalizing`, `SaveState`,
`ForceEnd`, `SetFinalizing`, `EndTrip`, `DiscardTrip`, `DeleteOverlaps`, `CreateTrip`,
`PublishSummary`, `ReleaseFinalizing`; `CallFails`, `LockExpires`, `StateExpires`. The
start and end conditions are the operators `StartConditions`, `EndByIgnition`,
`EndByIdle`, `EndTs`.

Abstractions. Time is the packets' own; a packet is moving or not (both speed
thresholds are equal by default). The distance of a trip may or may not reach the
minimum. Score, battery and rider of a trip are left out.

Some properties hold only as long as the state is neither written over nor
deleted, because the code keeps no two calls of a device apart. `NoDuplicateTrips` is
what the comments say without that condition; it is violated (`trips_shut`, section 3).

### 2.7 Assignments and BikeHandover

State. `account` and `bike` are the `User` and `Bike` rows, `active` the committed
active `BikeAssignment` rows, `tx[h]` a request: the rows its `updateMany` still has
to lock, those it has locked, the row it has inserted. `doubled` is history: riders
whose last assignment overlapped another one of theirs.

Actions. `CreateAssignment`, `CreateRiderWithBike`, `CreatePersonalBike`,
`DeleteFleetUser` begin a request; `Deactivate` (the snapshot of `updateMany`),
`LockRow`, `InsertRow`, `Commit`, `Fail`; `ReturnBikes`, `DeleteDismissed`,
`DisableDismissed`; `CreateRider`, `DeleteRider`, `UpdateRiderStatus`, `CreateBike`,
`DeleteBike` are single statements.

PostgreSQL is modelled as the code uses it, at READ COMMITTED: an update picks its
rows from a snapshot, waits for locked ones and looks at them again; an insert into
the partial unique index waits for transactions that may still decide its entry; a
deletion cascades and waits for rows in use. Deadlocks end in `Fail`.

The index behind `IndexFree` is created only by the migrations `20260306170000` and
`20260413100000`, which `start:prod`, `db:deploy` and `db:migrate` apply. `schema.prisma`
(509-526) does not declare it, and `docker/api/entrypoint.sh:50` sets a database up with
`prisma db push`, which does not create it. Everything said of `HandsOver` and
`BikeHandover` is about databases that were migrated; without the index two overlapping
assignments give one bike to two riders (the mutant `NoIndex`).

`BikeHandover` is what the fleet is promised: `Give`, `TakeBack`, `Join`, `Leave`,
`Buy`, `Scrap`, each in one step. `Assignments` implements it with the committed rows
(`HandsOver`); uncommitted work is invisible.

### 2.8 Deliveries

State. `row` is the `Delivery` table (status, rider, which timestamps are set),
`riders` the accounts, `request[h]` a request between its read and its answer,
`told` the status in the last notification row of a webhook. History: `raced`
(orders written while another request was under way on them), `unheard` (orders
with a request that failed after its write).

Actions. `CreateDelivery`, `AssignDelivery`, `CheckRider`, `AutoAssignDelivery`,
`ChooseRider`, `UpdateDeliveryStatus` (with `VALID_TRANSITIONS`), `WriteAssignment`,
`WriteStatus`, `Announce`, `Answer`, `RequestFails`, `DeleteRider`.

Abstractions. Which rider is nearest is any of them. Texts, photographs and
signatures are left out.

## 3. The runs

| Run | Instance | Checks |
|---|---|---|
| `commands_pair` | two LOCK or UNLOCK requests, two trackers, one TCP connection, reply packets at will | `TypeOK`, `DispatchTraceable`, `OutcomeHasEvidence` |
| `commands_settle` | one command over all channels, a tick, repeated answers, a device clock one ahead, one failure or crash, fairness | `ExpiryJustified`, `OutcomeHasEvidence`, `EveryCommandSettles` |
| `outbox_deliver` | two notifications, one of them silent, two workers, one failure, deletable webhook | `TypeOK`, `SentWasDelivered`, `DeliveriesBounded`, `SentIsFinal` |
| `outbox_forgotten` | two crashes, fairness | `NoneForgotten` |
| `streams_forward` | two processors, a dispatcher, two webhooks, one failure of any kind, restarts at any time, fairness | `TypeOK`, `AckedIsWritten`, `AckedIsNotified`, `CopiesBounded`, `ReachedAreAcked`, `CopiesAreNotified` |
| `billing_ledger` | two requests, approvals of -1, periods of 1 or 2, the trial job, two cycles, one failure | `TypeOK`, `PaidIsBacked`, `PaidIsCovered`, `PeriodsContiguous` |
| `billing_overdue` | one request, overdue, usage and renewal jobs, fixed-rate and usage fleets, one failure, fairness | `OverdueIsLate`, `LateIsMarked`, `PastDueIsHealed` |
| `rules_alarms` | two packet handlers, four packets on a socket or two over MQTT, or an SOS of a device or a rider; three limit keys of two rules; two contacts, a webhook, one failure or crash | `TypeOK`, `CooldownRespected`, `TheftJustified`, `ReportComplete`, `CrashSeen` |
| `trips_build` | two packet handlers, four packets of times 1 to 4 in any order, one failing call, expiring keys | `TypeOK`, `TripsApart`, `StopEndsTrip`, `RidesKept` |
| `trips_shut` | two packet handlers, three packets, no failure | `NoDuplicateTrips`, which is violated |
| `assignments_handover` | two requests, two bikes, three riders, a PERSONAL fleet, any failures | `TypeOK`, `OneBikePerRider`, and `HandsOver`: the refinement of `BikeHandover` |
| `deliveries_orders` | an order, two riders, two webhooks, two handlers, seven requests, one failure | `TypeOK`, `JourneyRecorded`, `PartnersInformed`, `FinishedStays` |

`trips_shut` is the one run that is expected to fail. `docs/walkthrough.md:63` says that
clearing the active trip before its row is written "shuts the race condition window
completely, ensuring subsequent concurrent packets find the active start time already
cleared in Redis", and the comment at `trip-builder.service.ts:227` that it is done "to
prevent concurrent telemetry packets from triggering duplicate trips for the same start
time". Two packets that end a trip and both read the state before either writes it both
finalize it: the second deletes the row of the first as an overlap, stores its own and
announces the ride again. The finalizing key does not help, since only the start of a
trip looks at it.

Behaviours the models have, and that the properties are careful not to deny. None
of them is excluded by the code; where a comment or a log line suggests otherwise it
is quoted.

* Commands. A reply packet that answers nothing acknowledges the device's latest open
  command (`sinotrack-adapter.service.ts:435`). The flush of a queued command sets a command that SMS had made ACKED
  back to SENT (`sinotrack-adapter.service.ts:396`; `commands.service.ts:1155`:
  "can no longer transition"). A LOCK queued while the bike stood still is written
  after it moved off (`sinotrack-adapter.service.ts:388`; the check is at
  `commands.service.ts:909`). Two simultaneous requests both pass the debounce
  check (`commands.service.ts:426`); a queued command is deleted although its socket
  was closed (`sinotrack-adapter.service.ts:394`); overlapping ticks send the fallback
  SMS twice (`commands.service.ts:175`).
* Outbox. SENT says nothing of a silent row (section 2.2). A failed job whose event was lost, or came without `attemptsMade`, leaves
  its row PENDING; pending rows beyond the bootstrap's limit wait for the next start.
  If that job is then evicted by `removeOnFail`, its id is free again, the next
  bootstrap enqueues the row anew, and it gets another full set of attempts;
  `DeliveriesBounded` therefore bounds the attempts of rows not in `dropped`.
* Streams. A fan-out that failed is never tried again: the entry stays pending, and the
  dispatcher only reads new ones (`webhook-dispatcher.service.ts:279` logs "will be
  retried", 281 says "the entry remains pending for re-delivery"). A dispatcher that
  could not create its group polls in vain until the process is restarted (line 89: "Polling
  loop will auto-retry"). Entries of a stream processor that is restarted within 60 s, as
  `restart: unless-stopped` does, are not claimed and wait for a later start
  (`stream-processor/src/index.ts:138`: "the entry remains pending for re-delivery via
  XPENDING/XAUTOCLAIM", 144: "Reclaims stale pending entries from crashed consumers after
  60s of inactivity"). One rejected read ends its loop. `ReachedAreAcked` and
  `CopiesAreNotified` therefore speak of entries some process will come to, up to the next
  failure.
* Billing. An early payment generates the invoice of a period that has not begun
  (`billing-payment.service.ts:106`), which `billing-cycle.service.ts:185` refuses
  elsewhere. Reconciliation may make a PAID cycle owe again
  (`billing-cycle.service.ts:362`); an approval restores a fleet's status from a value
  read earlier (`hq.service.ts:3055`). Approving a negative amount may leave a cycle PAID
  above the net of its payments, or make a settled one payable and OVERDUE at once.
* Rules. Between packets 1.5 s or more apart the g-force test asks for a drop of about
  117 km/h (2.2 g over 1.5 s, `rules-engine.service.ts:414-422`), so a bike without an
  accelerometer practically never raises a crash; `docs/walkthrough.md:68` says that the
  longer interval allows "crash alerts to evaluate and trigger correctly" for trackers
  that report every 10 to 30 s. When storing an event fails, its cooldown suppresses the next one for the
  whole window. Two MQTT packets handled together may miss the drop of a crash
  between them, or raise a theft alarm for an old start. A queue error while the
  alerts of an incident are enqueued loses the webhook rows not yet written.
* Trips. A packet that writes a stale state brings back a trip that has ended. After a forced end, or a day of silence, a late packet starts an older
  trip whose clean-up deletes the stored one. A trip belongs to the rider assigned
  when it is written.
* Assignments. Two overlapping assignments of one rider give that rider two bikes.
* Deliveries. Overlapping requests may reopen a finished order, write partners'
  notifications out of order, or assign it twice. A status change to ASSIGNED sets
  neither rider nor `assignedAt`; one back to PENDING keeps the rider.

Bounds. Every constant that bounds something is named in the module that
declares it. Commands: two instants with a TTL of 0 and a slot TTL of 1 are a
moment at the deadline and one after it, at which the queued copy outlives the command;
`commands_pair` has two commands and two devices, so that a slot is overwritten and a
reply may be attributed to another command, `commands_settle` one command that meets every
channel at once. What more of them, several sockets and overlapping ticks do to each other
is covered by the theorems of section 4; that more stale commands than the 100 of a tick
all end is not checked. Outbox and streams: two
workers or processors overlap and take over from each other; one failed job is kept
(1000 in the code), so that evictions happen. Billing: two requests
race on one cycle, two cycles give a successor to generate concurrently, of the same
length or another; in `billing_overdue` period 2, grace 1 and days 0..4 have a day within the period, within the grace period and
after it. Rules: a clock of 0..2 with cooldowns of 1 to 3 has an event before, at and after the
end of a window, one packet that hits two keys of a rule, and keys that are reported twice; four
packets of a socket are a movement that starts, goes on, is judged and is judged again or
ended in between; a last sample that lives for 2 may or may not outlast
the wait for the next packet. Trips: four packets of four times start a trip, end
it (by ignition, idling or after the maximum of 3) and leave two packets that race
with its writing or start another one; three suffice for two that end one trip. Assignments: two requests are what a row lock
and the index are about, a third rider makes the chain from one owner to the next;
any number of them is covered by the theorems. Deliveries: seven requests take an order
to its end with overlaps on the way, and the theorems cover the rest. One failure at
any point covers every single-failure hazard. `TTL`,
`Attempts`, `Batch` and the limits are scaled down, their comparisons are the
code's.

Deadlock checking is switched off where the finite set of requests,
notifications, entries, cycles, packets, ids or days is used up and the system rightly stops.

Fairness. Handlers, workers and processes that have started run on, since
Node's event loop and the promises they await guarantee it; the sweeper's
interval keeps starting ticks and the scheduler the daily jobs; BullMQ hands out waiting jobs and delivers
events; crashed processes are restarted (`restart: unless-stopped`); time passes.
Nothing is assumed of users, of HQ, trackers, sockets, recipients or of a provider's
success. All of it is weak fairness.

## 4. The proofs

`DeviceCommandsProofs` proves, for any number of commands, devices, sockets and
overlapping ticks, any clock bound and any number of failures, from
`ConstantsAssumption` only:

* `TypeCorrect` — `TypeOK` is invariant (`TypeStep` has one case per action);
* `Inductive` — `IndInv` is invariant;
* `DispatchIsTraceable`, `ExpiryIsJustified`, `OutcomeIsJustified` — the three
  safety properties of the runs.

Why a strengthening is needed: the three properties speak of rows and downlinks,
but a handler that resumes after an await writes what it remembers, not what the
row says now. `IndInv` therefore adds that every handler's memory still agrees
with the table: `HandlersMatchRows` (a request past its insert has a row of its
type and device, and its pc implies what has been sent), `ConnectionsMatchRows`
(a packet handler about to mark a command SENT or ACKED knows a row of its own
device, which has sent a reply packet if it is to be ACKED), `AcksMatchRows` (an acknowledgement
that passed its checks belongs to the row's device) and `SweepsMatchRows` (the
rows of a batch are past their deadline, and a tick about to write ACKED has sent
the SMS). These hold because rows are never deleted, type and device of a row
never change, `air` and `heard` only grow and the clock never runs back; the lemma
`Monotone` states that once, `RowEffect` says how each action may change a row,
and one lemma per conjunct (`HandlersStep`, `ConnectionsStep`, ...) goes through
the actions.

`BillingProofs` proves, for any number of concurrent requests and failures, any
set of jobs, any approved amounts, negative ones too, any prices and period lengths that
change between cycles, from `BillingAssumption` and
`NoRowAssumption` (a missing row is not a row):

* `BillingInductive` — `IndInv` is invariant;
* `BillingTypeCorrect`, `PaymentsBackCycles`, `PaidMeansCovered`, `PeriodsJoin`,
  `OverdueMeansLate` — `TypeOK` and the four safety properties of the runs.

`IndInv` adds what the handlers remember. `PaymentFits`: the sum a payment will
write is backed by payments already recorded, because `recorded` only grows, and the
amount due it compares with is the row's. `GenerationFits`: the period about to be
created starts where its predecessor, which exists, ends. `WriteFits`: voids and
jobs write to rows that exist, and only fleets billed by usage are reconciled.
`OverdueFits` and the rest of `DueDatesFit`: once the overdue job has moved the due
dates, every unpaid cycle falls due at the end of its period or later, and the
cycles it is about to mark are late; this stays true while it works because the
only cycle with an earlier due date costs nothing and so cannot become payable
again. Where a negative amount was approved (`corrected`) the due dates are left out, and
`NotNegative` says that no other sum is below zero. The argument has three layers: `FrameStep` (rows are never deleted, their
periods never change, due dates and payments only grow), `RowStep` (every row after
a step is an old one changed in one of the permitted ways or a new one that
continues the last), and the `...Fits` lemmas (a handler that stays fits by the
frame, one that moves fits by its own step).

`AssignmentsProofs` proves, for any number of requests, bikes and riders, from
`AssignmentsAssumption` only:

* `InvariantHolds` and `TypeCorrect`;
* `RiderHasOneBike` — `OneBikePerRider`;
* `ImplementsHandover` — `Spec => Handover!Spec`: `Init` maps to the initial state,
  every step to a step of `BikeHandover` or to none;
* `HandoverLedger` — in `BikeHandover` a bike has one rider, and both exist;
  `BikeHasOneRider` carries it over to the committed rows.

A step of `Commit` is a `Give` only if the rows it removes are exactly the bike's
and some of the rider's, and if the index check made at `InsertRow` still holds when
the transaction commits. The invariant therefore says that locked rows are still
active and locked by one transaction only, that no two uncommitted inserts are of
one bike, that a committed row of that bike is among the rows the inserting
transaction has locked, and that account and bike of an inserted row cannot go while
it is uncommitted. `OneBikePerRider` needs in addition that a transaction alone with
its rider has every row of the rider in its `todo` or `off`.

`DeliveriesProofs` proves, for any number of orders, riders, webhooks and requests,
from `DeliveriesAssumption` only: `InvariantHolds`, `TypeCorrect`,
`JourneyIsRecorded`, `PartnersAreInformed` and the action property
`FinishedDeliveriesStay`. The invariant adds `NewIsBlank` (an order that does not
exist yet has no timestamps), `RequestOK` (a request about to write IN_TRANSIT or
DELIVERED belongs to an order with a pickup time, since timestamps are never
removed; a request about to write, on an order not raced, will not reopen it; one
that announces, on an order not raced, announces the status it has) and `ToldOrPending`
(a webhook either knows the status or is in the list of a request that announces it).

`TripBuilderProofs` proves, for any number of packets handled at the same time, times
in any order and any settings, from `TripBuilderAssumption` only: `InvariantHolds`,
`TypeCorrect`, `TripsStayApart`, `SummariesStayApart`, `StopsEndTrips` and the action
property `RidesAreKept`. `Basic` says that the times of a state are in order
(`InOrder`: ended, then start or candidate, then idle, then last) and that what a call
will write follows from what it read (`CallOK`). `Exclusive`: unless two calls clashed
at most one is between clean-up and insert, and every row is apart from its trip. The
other properties hold while no write was stale and the state was not deleted, and need
to know what the state remembers of the packets: `Tracked` says that nothing later than
`last` was saved, that the bike has not stood since `candidate`, and that a stop after
`start` is either covered by `idle` or followed by movement. One lemma per kind of
packet (`StartTracked`, `IdledTracked`, `EndTracked`) carries this from the state read to
the state written. `Settled`: every trip stored, announced or being written ended at or
before `ended`, has no stop in it (`Closed`, which later packets do not change), and is
apart from the others, since the next one starts at `ended` or later.

`NotificationOutboxProofs` proves, for any finite set of workers, any number of rows and
failures and any limits, from `OutboxAssumption` only: `InvariantHolds`, `TypeCorrect`,
`SentMeansDelivered`, `DeliveriesAreBounded` and the action property `SentStays`. The
bound needs the most: nothing in the code counts copies, and a worker that lost its lock
goes on beside the one that took its job over, so a row may have several workers at once. `CopiesCounted` says that the copies delivered and the workers about to deliver
one (`Sending`) are together no more than the attempts counted. `WithinBudget` says that the
attempts counted and the workers that may yet count one (`Ahead`) are together no more than
the number of times the job was handed out (`Used`: attempts made, stalls, and one while it
is active); a job never runs again after `Attempts` and `MaxStalls`, and its id is not free
again until it is evicted. Inline there is no job: each process start hands a row over at
most once, and a start needs a failure before it, hence `1 + faults`. `Shape` collects what
these need of rows, jobs and producers (`RunsOK`, `FreshOK`, `JobsOK`, `DownOK`). Every
action is shown to move each of the two sums by at most what it pays for.

`EventStreamsProofs` proves, for any finite set of processors, any number of dispatchers,
entries, webhooks and failures, from `StreamsAssumption` only: `InvariantHolds`,
`TypeCorrect`, `AcknowledgedMeansWritten`, `AcknowledgedMeansNotified` and
`CopiesAreBounded`. `ProcsOK` and `DispsOK` say what is in the streams at each point of
`handleEntry` and `processEntry`; they survive other processors at work on the same entry
because streams only grow. `Budgets` counts copies of an alert plus the processors that may
still make one (`MayCopy`: it is at hand, in the batch, or the processor has yet to make the
claim it makes once, when it starts) against the processors and the failures, each of which may cost a restart.

`SafetyRulesProofs` proves, for any finite set of packets handled at the same time, any
number of events, contacts, webhooks and failures, and any cooldowns, thresholds and key
lifetimes, from `RulesAssumption` and `IncidentsAssumption`: `InvariantHolds`, `TypeCorrect`,
`CooldownsRespected`, `TheftsJustified`, `ReportsComplete` and the action property
`CrashesSeen`. The invariant has a part for each concern.

* `ReportsOK`: what `createFleetEvent` has written and queued at each of its steps, its
  list of what is left included.
* `CooldownOK`: an alarm stored, or about to be stored by a handler that has claimed its
  key, lies within that claim (`ClaimsOK`; for a movement, until a packet ends it and
  gives its key back), and two of a key are its cooldown apart (`ApartOK`). A claim fails
  while an earlier one lasts, so a new one begins after all of them.
* `SocketOK`, `TheftOK`, `LastOK`: a socket has one packet at a time; the start kept in
  Redis belongs to the movement under way unless the packet at hand is about to end it; the
  sample kept is that of the packet before until the crash rule has run.
* `VisitsOK`: the station counter and the packets that may yet raise it are together no
  more than the packets received. `TypeOK` bounds the counter by the packets, which it
  needs although handlers read and write it apart.

Actions on `kv` and on `handler` are classified first (`Advances`, `Skips`, `Goes`,
`Rekeyed`), and each part of the invariant is proved once per class.

Left to TLC: the liveness properties (`EveryCommandSettles`, `NoneForgotten`,
`ReachedAreAcked`, `CopiesAreNotified`, `LateIsMarked`, `PastDueIsHealed`), since the
prover handles neither fairness nor ENABLED. Every other property of a passing run is stated by a
theorem.

## 5. Plan

1. Abstract specifications: an at-least-once channel that `EventStreams` implements
   for acknowledged entries, and a ledger of periods and payments that `Billing`
   implements.
2. Authentication: lockout counters, one-time codes and invites; mobile-money payments
   of invoices, should they be switched on again.

## 6. Not modelled

* `apps/dashboard` and `apps/rider` are user interfaces over the API and by far the
  largest part of the repository's lines; they keep no state the backend relies on.
* Queries, dashboards, reports and plain create, update and delete of rows (HQ
  console, financials, bikes, devices, zones, POIs, roads, fines, evidence, partner
  queries): no two of their steps can disagree, beyond what the modules above say of
  deletions.
* Live state: the last packet of a bike, overwritten by the next; other parts read it
  as an input, and so do the models.
* The gateway and the WebSocket gateway keep no state of their own.
* Providers (SMS, mail, storage, push) are calls that succeed, fail, or succeed and
  report failure.
* Packet decoding, price arithmetic, distances and scores are functions of their
  input; the models take any result.
* Mobile-money payments are switched off in this version.
