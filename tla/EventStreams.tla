---------------------------- MODULE EventStreams ----------------------------
(***************************************************************************)
(* The two Redis streams between ingestion and the partners' webhooks: the *)
(* stream processor reads telemetry:stream and copies alerts to            *)
(* webhooks:outbox; the webhook dispatcher in the API reads that and       *)
(* creates one Notification per partner webhook.                           *)
(*                                                                         *)
(* Both read through a consumer group, which hands every entry to one      *)
(* consumer and keeps it pending until that consumer acknowledges it.      *)
(* Entries are handled one after the other; every awaited Redis or         *)
(* database call is a step.  Trimming (MAXLEN ~ 10000) is left out.        *)
(***************************************************************************)
EXTENDS Naturals, FiniteSets

CONSTANTS
    Entries,       \* what ingestion publishes
    Telemetry,     \* ... of kind telemetry
    Alerts,        \* ... of kind event and type CRASH, SOS or THEFT_SUSPECTED
    Orphans,       \* ... alerts that name no fleet
    Processors,    \* stream processor processes
    Dispatchers,   \* API processes, each with one webhook dispatcher
    Hooks,         \* active webhooks of the fleet's partners
    Batch,         \* COUNT of XREADGROUP and XAUTOCLAIM
    MaxCopies,     \* bound on the copies of an alert in webhooks:outbox
    FaultKinds,    \* the failures considered
    MaxFaults,     \* bound on their number
    None

ASSUME StreamsAssumption ==
    /\ Telemetry \cup Alerts \subseteq Entries /\ Telemetry \cap Alerts = {}
    /\ Orphans \subseteq Alerts
    /\ Batch \in Nat \ {0} /\ MaxCopies \in Nat \ {0} /\ MaxFaults \in Nat
    /\ FaultKinds \subseteq {"group", "crash", "write", "read", "fanout", "api crash"}
    /\ None \notin Entries \cup (Entries \X (1 .. MaxCopies)) \cup Processors \cup Dispatchers
    /\ IsFiniteSet(Entries) /\ IsFiniteSet(Processors)

VARIABLES
    src,       \* telemetry:stream, as its consumer group sees it
    groups,    \* the consumer groups that exist
    proc,      \* the stream processors
    written,   \* entries of telemetry:enriched and telemetry:score
    out,       \* webhooks:outbox, as its consumer group sees it
    disp,      \* the webhook dispatchers
    notified,  \* webhooks a Notification was created for, per copy
    faults     \* failures so far

vars == <<src, groups, proc, written, out, disp, notified, faults>>

Copies == Entries \X (1 .. MaxCopies)

\* none: not published; skipped: published before the group existed, which is
\* created at '$'; new: not delivered yet; old: pending for 60 s or more.
Delivery == {"none", "skipped", "new", "pending", "old", "acked"}

\* The type invariant.
TypeOK ==
    /\ src \in [Entries -> Delivery]
    /\ groups \subseteq {"processors", "dispatchers"}
    /\ proc \in [Processors -> [pc: {"down", "claim", "poll", "enrich", "score", "alert",
                                     "ack", "hung"},
                                todo: SUBSET Entries, cur: Entries \cup {None}]]
    /\ written \subseteq {"enriched", "score"} \X Entries
    /\ out \in [Copies -> Delivery]
    /\ disp \in [Dispatchers -> [pc: {"down", "poll", "fan", "ack"}, todo: SUBSET Copies,
                                 cur: Copies \cup {None}, left: SUBSET Hooks]]
    /\ notified \in [Copies -> SUBSET Hooks]
    /\ faults \in Nat

DownProcessor == [pc |-> "down", todo |-> {}, cur |-> None]
DownDispatcher == [pc |-> "down", todo |-> {}, cur |-> None, left |-> {}]

Init ==
    /\ src = [e \in Entries |-> "none"]
    /\ groups = {}
    /\ proc = [p \in Processors |-> DownProcessor]
    /\ written = {}
    /\ out = [k \in Copies |-> "none"]
    /\ disp = [d \in Dispatchers |-> DownDispatcher]
    /\ notified = [k \in Copies |-> {}]
    /\ faults = 0

-----------------------------------------------------------------------------
(* Helpers *)

Fault(kind) == kind \in FaultKinds /\ faults < MaxFaults /\ faults' = faults + 1

\* What a read of at most Batch of these may return.
Chunks(S) == {b \in SUBSET S : Cardinality(b) <= Batch /\ (b = S \/ Cardinality(b) = Batch)}

\* Delivered to a consumer, now.
Deliver(stream, b) == [x \in DOMAIN stream |-> IF x \in b THEN "pending" ELSE stream[x]]

\* The state of an entry just added to a stream.
Added(group) == IF group \in groups THEN "new" ELSE "skipped"

\* The copies of e in webhooks:outbox.
CopiesOf(e) == {i \in 1 .. MaxCopies : out[<<e, i>>] # "none"}

-----------------------------------------------------------------------------
(* Ingestion and time *)

\* publishStreamTelemetry, publishStreamEvent, publishStreamCommandAck; a
\* Redis error there is only logged and the entry never exists.
Publish(e) ==
    /\ src[e] = "none"
    /\ src' = [src EXCEPT ![e] = Added("processors")]
    /\ UNCHANGED <<groups, proc, written, out, disp, notified, faults>>

\* An entry has been pending for 60 seconds.
Age(e) ==
    /\ src[e] = "pending"
    /\ src' = [src EXCEPT ![e] = "old"]
    /\ UNCHANGED <<groups, proc, written, out, disp, notified, faults>>

-----------------------------------------------------------------------------
(* The stream processor *)

\* start: ensureGroup, then reclaimPendingEntries.  When it rejects, start ends
\* and the process stays, held by its Redis connection.
StartProcessor(p) ==
    /\ proc[p].pc = "down"
    /\ \/ /\ groups' = groups \cup {"processors"}
          /\ proc' = [proc EXCEPT ![p].pc = "claim"]
          /\ UNCHANGED faults
       \/ /\ Fault("group")
          /\ proc' = [proc EXCEPT ![p].pc = "hung"]
          /\ UNCHANGED groups
    /\ UNCHANGED <<src, written, out, disp, notified>>

\* Mutant: entries of crashed consumers are not looked for.
ClaimableNone == {}

\* XAUTOCLAIM takes entries any consumer has left pending for 60 seconds.
Claimable == {e \in Entries : src[e] = "old"}

\* reclaimPendingEntries: one call, before the first poll; an error is logged.
ReclaimPending(p) ==
    /\ proc[p].pc = "claim"
    /\ \/ /\ \E b \in Chunks(Claimable) :
               /\ src' = Deliver(src, b)
               /\ proc' = [proc EXCEPT ![p] = [@ EXCEPT !.pc = "poll", !.todo = b]]
          /\ UNCHANGED faults
       \/ /\ Fault("read")
          /\ proc' = [proc EXCEPT ![p].pc = "poll"]
          /\ UNCHANGED src
    /\ UNCHANGED <<groups, written, out, disp, notified>>

\* XREADGROUP '>'.  When it rejects, pollLoop ends; the process does not, as
\* its Redis connection keeps it alive.
Poll(p) ==
    /\ proc[p].pc = "poll" /\ proc[p].todo = {}
    /\ \/ /\ \E b \in Chunks({e \in Entries : src[e] = "new"}) :
               /\ b # {}
               /\ src' = Deliver(src, b)
               /\ proc' = [proc EXCEPT ![p].todo = b]
          /\ UNCHANGED faults
       \/ /\ Fault("read")
          /\ proc' = [proc EXCEPT ![p].pc = "hung"]
          /\ UNCHANGED src
    /\ UNCHANGED <<groups, written, out, disp, notified>>

\* Mutant: the entry stays in the batch.
NextEntryKept(p, e) ==
    /\ proc[p].pc = "poll" /\ e \in proc[p].todo
    /\ proc' = [proc EXCEPT ![p] =
                  [pc |-> IF e \in Telemetry THEN "enrich"
                          ELSE IF e \in Alerts THEN "alert" ELSE "ack",
                   todo |-> @.todo, cur |-> e]]
    /\ UNCHANGED <<src, groups, written, out, disp, notified, faults>>

\* handleEntry begins with the next entry of the batch.
NextEntry(p, e) ==
    /\ proc[p].pc = "poll" /\ e \in proc[p].todo
    /\ proc' = [proc EXCEPT ![p] =
                  [pc |-> IF e \in Telemetry THEN "enrich"
                          ELSE IF e \in Alerts THEN "alert" ELSE "ack",
                   todo |-> @.todo \ {e}, cur |-> e]]
    /\ UNCHANGED <<src, groups, written, out, disp, notified, faults>>

\* An error of any call is logged; the entry stays pending.
WriteFails(p) ==
    /\ proc[p].pc \in {"enrich", "score", "alert", "ack"}
    /\ Fault("write")
    /\ proc' = [proc EXCEPT ![p] = [@ EXCEPT !.pc = "poll", !.cur = None]]
    /\ UNCHANGED <<src, groups, written, out, disp, notified>>

WriteEnriched(p) ==
    /\ proc[p].pc = "enrich"
    /\ written' = written \cup {<<"enriched", proc[p].cur>>}
    /\ proc' = [proc EXCEPT ![p].pc = "score"]
    /\ UNCHANGED <<src, groups, out, disp, notified, faults>>

\* Mutant: the score is left out.
WriteScoreNever(p) ==
    /\ proc[p].pc = "score"
    /\ proc' = [proc EXCEPT ![p].pc = "ack"]
    /\ UNCHANGED <<src, groups, written, out, disp, notified, faults>>

WriteScore(p) ==
    /\ proc[p].pc = "score"
    /\ written' = written \cup {<<"score", proc[p].cur>>}
    /\ proc' = [proc EXCEPT ![p].pc = "ack"]
    /\ UNCHANGED <<src, groups, out, disp, notified, faults>>

\* The alert is copied to webhooks:outbox, again each time it is handled.
ForwardAlert(p) ==
    LET e == proc[p].cur
        i == Cardinality(CopiesOf(e)) + 1
    IN  /\ proc[p].pc = "alert"
        /\ i <= MaxCopies
        /\ out' = [out EXCEPT ![<<e, i>>] = Added("dispatchers")]
        /\ proc' = [proc EXCEPT ![p].pc = "ack"]
        /\ UNCHANGED <<src, groups, written, disp, notified, faults>>

\* XACK, whoever the entry is pending for.
AckEntry(p) ==
    /\ proc[p].pc = "ack"
    /\ src' = [src EXCEPT ![proc[p].cur] = "acked"]
    /\ proc' = [proc EXCEPT ![p] = [@ EXCEPT !.pc = "poll", !.cur = None]]
    /\ UNCHANGED <<groups, written, out, disp, notified, faults>>

\* The process dies; what it read stays pending.
CrashProcessor(p) ==
    /\ proc[p].pc # "down"
    /\ Fault("crash")
    /\ proc' = [proc EXCEPT ![p] = DownProcessor]
    /\ UNCHANGED <<src, groups, written, out, disp, notified>>

ProcessorStep(p) ==
    \/ StartProcessor(p) \/ ReclaimPending(p) \/ Poll(p)
    \/ (\E e \in Entries : NextEntry(p, e))
    \/ WriteEnriched(p) \/ WriteScore(p) \/ ForwardAlert(p) \/ AckEntry(p)

-----------------------------------------------------------------------------
(* The webhook dispatcher *)

\* onModuleInit: ensureGroup; when it fails the poll loop starts all the same
\* and never tries again to create the group.
StartDispatcher(d) ==
    /\ disp[d].pc = "down"
    /\ disp' = [disp EXCEPT ![d].pc = "poll"]
    /\ \/ groups' = groups \cup {"dispatchers"} /\ UNCHANGED faults
       \/ Fault("group") /\ UNCHANGED groups
    /\ UNCHANGED <<src, proc, written, out, notified>>

\* XREADGROUP '>': only entries nobody was given yet.  When it rejects, as it
\* does without a group, the loop waits and goes on.
PollOutbox(d) ==
    /\ disp[d].pc = "poll" /\ disp[d].todo = {}
    /\ \E b \in Chunks({k \in Copies : out[k] = "new"}) :
         /\ b # {}
         /\ out' = Deliver(out, b)
         /\ disp' = [disp EXCEPT ![d].todo = b]
    /\ UNCHANGED <<src, groups, proc, written, notified, faults>>

\* processEntry: load the webhooks; an entry without a fleet is only acked.
NextCopy(d, k) ==
    /\ disp[d].pc = "poll" /\ k \in disp[d].todo
    /\ disp' = [disp EXCEPT ![d] =
                  [pc |-> "fan", todo |-> @.todo \ {k}, cur |-> k,
                   left |-> IF k[1] \in Orphans THEN {} ELSE Hooks]]
    /\ UNCHANGED <<src, groups, proc, written, out, notified, faults>>

\* Mutant: the row is created for a webhook that is not the fleet's.
NotifyHookUnknown(d, h) ==
    /\ disp[d].pc = "fan" /\ h \in disp[d].left
    /\ notified' = [notified EXCEPT ![disp[d].cur] = @ \cup {None}]
    /\ disp' = [disp EXCEPT ![d].left = @ \ {h}]
    /\ UNCHANGED <<src, groups, proc, written, out, faults>>

\* Mutant: the loop over the webhooks returns after the first of them.
NotifyHookReturns(d, h) ==
    /\ disp[d].pc = "fan" /\ h \in disp[d].left
    /\ notified' = [notified EXCEPT ![disp[d].cur] = @ \cup {h}]
    /\ disp' = [disp EXCEPT ![d] = [@ EXCEPT !.pc = "poll", !.cur = None, !.left = {}]]
    /\ UNCHANGED <<src, groups, proc, written, out, faults>>

\* One webhook: the Notification is created, enqueued and audited.
NotifyHook(d, h) ==
    /\ disp[d].pc = "fan" /\ h \in disp[d].left
    /\ notified' = [notified EXCEPT ![disp[d].cur] = @ \cup {h}]
    /\ disp' = [disp EXCEPT ![d].left = @ \ {h}]
    /\ UNCHANGED <<src, groups, proc, written, out, faults>>

\* A query, the insert, the enqueue or the audit fails: the rest of this
\* entry is given up and it is not acked.
FanOutFails(d) ==
    /\ disp[d].pc \in {"fan", "ack"}
    /\ Fault("fanout")
    /\ \/ UNCHANGED notified
       \/ \E h \in disp[d].left : notified' = [notified EXCEPT ![disp[d].cur] = @ \cup {h}]
    /\ disp' = [disp EXCEPT ![d] = [@ EXCEPT !.pc = "poll", !.cur = None, !.left = {}]]
    /\ UNCHANGED <<src, groups, proc, written, out>>

\* Mutant: the entry counts as done after any webhook.
FanOutDoneEarly(d) ==
    /\ disp[d].pc = "fan"
    /\ disp' = [disp EXCEPT ![d].pc = "ack"]
    /\ UNCHANGED <<src, groups, proc, written, out, notified, faults>>

FanOutDone(d) ==
    /\ disp[d].pc = "fan" /\ disp[d].left = {}
    /\ disp' = [disp EXCEPT ![d].pc = "ack"]
    /\ UNCHANGED <<src, groups, proc, written, out, notified, faults>>

AckCopy(d) ==
    /\ disp[d].pc = "ack"
    /\ out' = [out EXCEPT ![disp[d].cur] = "acked"]
    /\ disp' = [disp EXCEPT ![d] = [@ EXCEPT !.pc = "poll", !.cur = None, !.left = {}]]
    /\ UNCHANGED <<src, groups, proc, written, notified, faults>>

\* The API process dies.
CrashDispatcher(d) ==
    /\ disp[d].pc # "down"
    /\ Fault("api crash")
    /\ disp' = [disp EXCEPT ![d] = DownDispatcher]
    /\ UNCHANGED <<src, groups, proc, written, out, notified>>

DispatcherStep(d) ==
    \/ StartDispatcher(d) \/ PollOutbox(d) \/ FanOutDone(d) \/ AckCopy(d)
    \/ (\E k \in Copies : NextCopy(d, k)) \/ \E h \in Hooks : NotifyHook(d, h)

-----------------------------------------------------------------------------

Next ==
    \/ \E e \in Entries : Publish(e) \/ Age(e)
    \/ \E p \in Processors : ProcessorStep(p) \/ WriteFails(p) \/ CrashProcessor(p)
    \/ \E d \in Dispatchers : DispatcherStep(d) \/ FanOutFails(d) \/ CrashDispatcher(d)

Spec == Init /\ [][Next]_vars

\* The processes run and are restarted (restart: unless-stopped), at once or
\* later; nothing is assumed of when an entry has been pending for 60 seconds.
Fairness ==
    /\ \A p \in Processors : WF_vars(ProcessorStep(p))
    /\ \A d \in Dispatchers : WF_vars(DispatcherStep(d))

FairSpec == Spec /\ Fairness

-----------------------------------------------------------------------------
(* Properties *)

\* The processor acknowledges an entry only when all it had to write for it is
\* written, by whichever consumer; so a crash or error loses nothing that the
\* group believes done.
AckedIsWritten ==
    \A e \in Entries : src[e] = "acked" =>
      /\ e \in Alerts => CopiesOf(e) # {}
      /\ e \in Telemetry => {<<"enriched", e>>, <<"score", e>>} \subseteq written

\* The dispatcher acknowledges a copy only when every webhook of the fleet has
\* its Notification.
AckedIsNotified ==
    \A k \in Copies : out[k] = "acked" /\ k[1] \notin Orphans => notified[k] = Hooks

\* A process handles an entry at most once, so duplicates of an alert are
\* bounded by the processors and the failures (each may cost a restart),
\* however their claims, errors and crashes interleave.
CopiesBounded ==
    \A e \in Entries : Cardinality(CopiesOf(e)) <= Cardinality(Processors) + faults

\* Entries that have been pending for 60 seconds.
LongPending == {e \in Entries : src[e] = "old"}

\* Entries some processor will come to: not delivered yet while one can poll, in
\* the hands of one, or left for 60 seconds when one is about to make its claim.
InReach(e) ==
    \/ src[e] = "new" /\ \E p \in Processors : proc[p].pc # "hung"
    \/ \E p \in Processors : e \in proc[p].todo \cup {proc[p].cur}
    \/ e \in LongPending /\ \E p \in Processors : proc[p].pc = "claim"

\* handleEntry, pollLoop and reclaimPendingEntries leave none of these behind:
\* each is acknowledged in the end, unless a further failure strikes first, or
\* more entries are to be claimed than the one call takes.
ReachedAreAcked ==
    \A e \in Entries, f \in 0 .. MaxFaults :
      [](faults = f /\ InReach(e) =>
           <>(src[e] = "acked" \/ faults > f \/ Cardinality(LongPending) > Batch))

\* Every copy of an alert the dispatchers have yet to be given, or are at,
\* reaches every webhook of the fleet, unless a further failure strikes first.
CopiesAreNotified ==
    \A k \in (Alerts \ Orphans) \X (1 .. MaxCopies), f \in 0 .. MaxFaults :
      []( /\ faults = f
          /\ out[k] = "new" \/ \E d \in Dispatchers : k \in disp[d].todo \cup {disp[d].cur}
          => <>(notified[k] = Hooks \/ faults > f))
=============================================================================
