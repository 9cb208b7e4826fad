------------------------------- MODULE Billing -------------------------------
(***************************************************************************)
(* The billing cycles (invoices) of one fleet: HQ requests that record     *)
(* payments, void or generate cycles and change the subscription, and the  *)
(* daily jobs that renew cycles, mark them overdue, end trials and         *)
(* reconcile usage.  None of them locks a row: each reads, awaits and      *)
(* writes what it read, and only the steps of MarkOverdue share a database *)
(* transaction.  One action is the code between two awaits.                *)
(*                                                                         *)
(* Fleets do not influence each other, so there is one.  A cycle is known  *)
(* by its number (unique per fleet).  The payments of a cycle are kept as  *)
(* the sum of the positive ones.  The length of periods is a setting that  *)
(* HQ may change at any time (updateConfig), so reading it is a choice;    *)
(* the grace period is taken as fixed.  Mobile-money push payments of      *)
(* invoices are switched off in this version of the code and are left out. *)
(***************************************************************************)
EXTENDS Integers, FiniteSets

CONSTANTS
    Clerks,      \* HQ requests in progress at the same time
    Jobs,        \* the daily jobs considered, among JobNames
    MaxCycles,   \* bound on the cycles generated
    Amounts,     \* amounts of recorded payments, which the request validates
    Approvals,   \* amounts HQ may approve, which nothing validates
    Dues,        \* what a period may cost
    Plans,       \* whether the fleet may pay for usage, reconciled daily, or not
    HqStatuses,  \* subscription statuses HQ sets by hand
    Periods,     \* what billingCycleDays may be set to
    Grace,       \* gracePeriodDays
    TrialDays,   \* lengths of the trials HQ grants
    MaxPaid,     \* bound on the payments recorded per cycle
    MaxBack,     \* bound on how far a cycle's sum may fall below zero
    MaxTime,     \* bound on the clock, in days
    MaxFaults,   \* bound on crashes and database errors
    None

JobNames == {"renew", "overdue", "trials", "payg"}

ASSUME BillingAssumption ==
    /\ Jobs \subseteq JobNames
    /\ Clerks \cap JobNames = {}
    /\ None \notin Nat
    /\ MaxCycles \in Nat \ {0} /\ MaxPaid \in Nat /\ MaxBack \in Nat
    /\ MaxTime \in Nat /\ MaxFaults \in Nat
    /\ Amounts \subseteq Nat \ {0} /\ Approvals \subseteq Int
    /\ Dues \subseteq Nat /\ TrialDays \subseteq Nat \ {0}
    /\ Plans \subseteq BOOLEAN /\ HqStatuses \subseteq {"ACTIVE", "PAST_DUE", "CANCELED"}
    /\ Periods \subseteq Nat \ {0} /\ Grace \in Nat

VARIABLES
    now,       \* the day
    fleet,     \* Fleet: subscriptionStatus, trialEndsAt, whether PAYG
    cycle,     \* BillingCycle rows, by cycleNumber
    recorded,  \* sum of the positive BillingPayment rows of each cycle
    corrected, \* history: cycles with a negative BillingPayment row
    proc,      \* what each request and job is doing
    faults

vars == <<now, fleet, cycle, recorded, corrected, proc, faults>>

Numbers == 1..MaxCycles
Procs == Clerks \cup Jobs

FleetStatuses == {"ACTIVE", "PAST_DUE", "CANCELED"}
Payable == {"PENDING", "PARTIAL"}
Unpaid == Payable \cup {"OVERDUE"}
Statuses == Unpaid \cup {"PAID", "VOID"}

Row == [status : Statuses, start : Nat, end : Nat, due : Nat,
        totalDue : Nat, totalPaid : Int, trial : BOOLEAN]

ASSUME NoRowAssumption == None \notin Row

Ops == {"none", "pay", "approve", "void", "generate"} \cup JobNames
Steps == {"idle", "insert", "update", "count", "restore", "void", "fleet", "last",
          "create", "past due", "revert", "select", "mark", "clear",
          "reconcile", "rewrite"}

(* A request or job: where it is and what it has read so far.             *)
Handler ==
    [op : Ops, pc : Steps,
     n : Numbers \cup {None},     \* the cycle it works on or will create
     amount : Int,                \* the payment
     paid : Int, due : Nat,       \* totalPaid and totalDue as read
     flag : BOOLEAN,              \* the fleet was PAST_DUE; a cycle is overdue
     from : Nat,                  \* start of the period to create; day of the job
     trial : Nat \cup {None},     \* trialEndsAt as read
     list : SUBSET Numbers]       \* the cycles a job has yet to visit

Idle == [op |-> "none", pc |-> "idle", n |-> None, amount |-> 0, paid |-> 0,
         due |-> 0, flag |-> FALSE, from |-> 0, trial |-> None, list |-> {}]

Exists(n) == cycle[n] # None
Cycles == {n \in Numbers : Exists(n)}
IsLast(n) == n \in Cycles /\ \A m \in Cycles : m <= n

(* Registration creates the fleet with its first cycle: nothing is due,    *)
(* and the due date is the first day of the period.                        *)
FirstCycle(days) == [status |-> "PENDING", start |-> 0, end |-> days, due |-> 0,
                     totalDue |-> 0, totalPaid |-> 0, trial |-> FALSE]

Init ==
    /\ now = 0
    /\ fleet \in [status : {"ACTIVE"}, trial : {None}, payg : Plans]
    /\ \E days \in Periods :
         cycle = [n \in Numbers |-> IF n = 1 THEN FirstCycle(days) ELSE None]
    /\ recorded = [n \in Numbers |-> 0]
    /\ corrected = {}
    /\ proc = [p \in Procs |-> Idle]
    /\ faults = 0

At(p, op, pc) == proc[p].op = op /\ proc[p].pc = pc
Become(p, h) == proc' = [proc EXCEPT ![p] = h]
Goto(p, pc) == Become(p, [proc[p] EXCEPT !.pc = pc])
Done(p) == Become(p, Idle)

----------------------------------------------------------------------------
(* Payments                                                                *)

(* recordPayment reads the cycle and refuses a paid one and an amount that *)
(* exceeds what remains due.                                               *)
RecordPayment(p, n, a) ==
    /\ proc[p].pc = "idle"
    /\ cycle[n].status # "PAID"
    /\ cycle[n].totalPaid + a <= cycle[n].totalDue
    /\ recorded[n] + a <= MaxPaid
    /\ Become(p, [Idle EXCEPT !.op = "pay", !.pc = "insert", !.n = n, !.amount = a,
                              !.paid = cycle[n].totalPaid, !.due = cycle[n].totalDue])
    /\ UNCHANGED <<now, fleet, cycle, recorded, corrected, faults>>

Outstanding(n) == IF cycle[n].totalPaid <= cycle[n].totalDue
                  THEN cycle[n].totalDue - cycle[n].totalPaid ELSE 0

(* What a payment row adds to the positive ones.                           *)
Credit(a) == IF a > 0 THEN a ELSE 0

(* approveBillingPayment reads the cycle and its fleet and checks neither  *)
(* the status nor the amount, which defaults to what is outstanding and    *)
(* may be negative.                                                        *)
ApproveBillingPayment(p, n, a) ==
    /\ proc[p].pc = "idle"
    /\ recorded[n] + Credit(a) <= MaxPaid
    /\ cycle[n].totalPaid + a >= -MaxBack
    /\ Become(p, [Idle EXCEPT !.op = "approve", !.pc = "insert", !.n = n, !.amount = a,
                              !.paid = cycle[n].totalPaid, !.due = cycle[n].totalDue,
                              !.flag = (fleet.status = "PAST_DUE")])
    /\ UNCHANGED <<now, fleet, cycle, recorded, corrected, faults>>

\* Mutant: the payment replaces an earlier one instead of being added.
CreatePaymentUpsert(p) ==
    /\ proc[p].pc = "insert"
    /\ recorded' = [recorded EXCEPT ![proc[p].n] = Credit(proc[p].amount)]
    /\ Goto(p, "update")
    /\ UNCHANGED corrected
    /\ UNCHANGED <<now, fleet, cycle, faults>>

CreatePayment(p) ==
    /\ proc[p].pc = "insert"
    /\ recorded' = [recorded EXCEPT ![proc[p].n] = @ + Credit(proc[p].amount)]
    /\ corrected' = IF proc[p].amount < 0 THEN corrected \cup {proc[p].n} ELSE corrected
    /\ Goto(p, "update")
    /\ UNCHANGED <<now, fleet, cycle, faults>>

(* The new sum and status follow from what was read before the insert.     *)
NewTotalPaid(h) == h.paid + h.amount

\* Mutant: one unit short counts as paid.
NewStatusShort(h) == IF NewTotalPaid(h) + 1 >= h.due THEN "PAID" ELSE "PARTIAL"

NewStatus(h) == IF NewTotalPaid(h) >= h.due THEN "PAID" ELSE "PARTIAL"

UpdateCycle(p) ==
    LET h == proc[p] IN
    /\ h.pc = "update"
    /\ cycle' = [cycle EXCEPT ![h.n].totalPaid = NewTotalPaid(h),
                              ![h.n].status = NewStatus(h)]
    /\ \/ h.op = "pay" /\ NewStatus(h) = "PAID" /\ Goto(p, "count")
       \/ h.op = "approve" /\ h.flag /\ Goto(p, "restore")
       \/ h.op = "pay" /\ NewStatus(h) # "PAID" /\ Done(p)
       \/ h.op = "approve" /\ ~h.flag /\ Done(p)
    /\ UNCHANGED <<now, fleet, recorded, corrected, faults>>

(* Once an invoice is paid, the fleet is restored unless another one is    *)
(* past its due date, and the next cycle is generated as if by hand.       *)
CountOverdue(p) ==
    /\ proc[p].pc = "count"
    /\ IF \E n \in Cycles : cycle[n].status \in Unpaid /\ cycle[n].due < now
       THEN Goto(p, "fleet") ELSE Goto(p, "restore")
    /\ UNCHANGED <<now, fleet, cycle, recorded, corrected, faults>>

RestoreFleet(p) ==
    /\ proc[p].pc = "restore"
    /\ fleet' = [fleet EXCEPT !.status = "ACTIVE"]
    /\ IF proc[p].op = "pay" THEN Goto(p, "fleet") ELSE Done(p)
    /\ UNCHANGED <<now, cycle, recorded, corrected, faults>>

----------------------------------------------------------------------------
(* generateCycleForFleet, called by a request, a payment or a job          *)

GenerateCycle(p) ==
    /\ proc[p].pc = "idle"
    /\ Cycles # Numbers   \* the bound
    /\ Become(p, [Idle EXCEPT !.op = "generate", !.pc = "fleet"])
    /\ UNCHANGED <<now, fleet, cycle, recorded, corrected, faults>>

IsManual(h) == h.op \in {"pay", "generate"}

ReadFleet(p) ==
    /\ proc[p].pc = "fleet"
    /\ Become(p, [proc[p] EXCEPT !.pc = "last", !.trial = fleet.trial])
    /\ UNCHANGED <<now, fleet, cycle, recorded, corrected, faults>>

\* Mutant: a period begins on the day it is generated.
ReadLastToday(p) ==
    /\ proc[p].pc = "last"
    /\ \E last \in Numbers :
         /\ IsLast(last)
         /\ IF last < MaxCycles
            THEN Become(p, [proc[p] EXCEPT !.pc = "create", !.n = last + 1, !.from = now])
            ELSE Done(p)
    /\ UNCHANGED <<now, fleet, cycle, recorded, corrected, faults>>

(* The next number and period follow the last cycle.  Only a job refuses a *)
(* period that has not begun.  At MaxCycles nothing more is generated.     *)
ReadLast(p) ==
    LET h == proc[p] IN
    /\ h.pc = "last"
    /\ \E last \in Numbers :
         /\ IsLast(last)
         /\ IF last < MaxCycles /\ (IsManual(h) \/ cycle[last].end <= now)
            THEN Become(p, [h EXCEPT !.pc = "create", !.n = last + 1, !.from = cycle[last].end])
            ELSE Done(p)
    /\ UNCHANGED <<now, fleet, cycle, recorded, corrected, faults>>

\* Mutant: a discount may exceed the price.
NewCycleUnclamped(h, d, days) ==
    [status |-> "PENDING", start |-> h.from, end |-> h.from + days, due |-> h.from + days,
     totalDue |-> d - MaxPaid - 1, totalPaid |-> 0, trial |-> FALSE]

(* A cycle lasts as long as billingCycleDays says when it is generated,    *)
(* whatever its predecessor did, and is free during a trial.               *)
NewCycle(h, d, days) ==
    LET trial == h.trial # None /\ now < h.trial IN
    [status |-> IF trial THEN "PAID" ELSE "PENDING",
     start |-> h.from, end |-> h.from + days, due |-> h.from + days,
     totalDue |-> d, totalPaid |-> 0, trial |-> trial]

(* The number is unique: if it was taken meanwhile the insert fails, and   *)
(* every caller ends there.                                                *)
CreateCycle(p, d, days) ==
    LET h == proc[p] IN
    /\ h.pc = "create"
    /\ cycle' = IF Exists(h.n) THEN cycle ELSE [cycle EXCEPT ![h.n] = NewCycle(h, d, days)]
    /\ Done(p)
    /\ UNCHANGED <<now, fleet, recorded, corrected, faults>>

----------------------------------------------------------------------------
(* Other requests of HQ                                                    *)

VoidCycle(p, n) ==
    /\ proc[p].pc = "idle"
    /\ cycle[n].status # "PAID"
    /\ Become(p, [Idle EXCEPT !.op = "void", !.pc = "void", !.n = n])
    /\ UNCHANGED <<now, fleet, cycle, recorded, corrected, faults>>

WriteVoid(p) ==
    /\ proc[p].pc = "void"
    /\ cycle' = [cycle EXCEPT ![proc[p].n].status = "VOID"]
    /\ Done(p)
    /\ UNCHANGED <<now, fleet, recorded, corrected, faults>>

UpdateFleetSubscription(s) ==
    /\ fleet' = [fleet EXCEPT !.status = s]
    /\ UNCHANGED <<now, cycle, recorded, corrected, proc, faults>>

UpdateFleetTrial(days) ==
    /\ fleet' = [fleet EXCEPT !.status = "ACTIVE", !.trial = now + days]
    /\ UNCHANGED <<now, cycle, recorded, corrected, proc, faults>>

----------------------------------------------------------------------------
(* generateBillingCycles and expireTrials                                  *)

GenerateBillingCycles(j) ==
    /\ j = "renew" /\ proc[j].pc = "idle"
    /\ fleet.status = "ACTIVE"
    /\ \E last \in Numbers : IsLast(last) /\ cycle[last].end <= now
    /\ Become(j, [Idle EXCEPT !.op = "renew", !.pc = "fleet"])
    /\ UNCHANGED <<now, fleet, cycle, recorded, corrected, faults>>

ExpireTrials(j) ==
    /\ j = "trials" /\ proc[j].pc = "idle"
    /\ fleet.status = "ACTIVE"
    /\ fleet.trial # None
    /\ fleet.trial < now
    /\ Become(j, [Idle EXCEPT !.op = "trials", !.pc = "clear"])
    /\ UNCHANGED <<now, fleet, cycle, recorded, corrected, faults>>

ClearTrial(j) ==
    /\ proc[j].pc = "clear"
    /\ fleet' = [fleet EXCEPT !.trial = None]
    /\ Goto(j, "fleet")
    /\ UNCHANGED <<now, cycle, recorded, corrected, faults>>

----------------------------------------------------------------------------
(* autoMarkOverdue                                                         *)

\* Mutant: due dates are left as registration set them.
AutoMarkOverdueUnhealed(j) ==
    /\ j = "overdue" /\ proc[j].pc = "idle"
    /\ Become(j, [Idle EXCEPT !.op = "overdue", !.pc = "past due", !.from = now])
    /\ UNCHANGED <<now, fleet, cycle, recorded, corrected, faults>>

(* First the due dates that precede the end of their period are moved      *)
(* there.  Only registration's cycle can need it and nobody else writes    *)
(* due dates, so reading and writing them is one step.                     *)
AutoMarkOverdue(j) ==
    /\ j = "overdue" /\ proc[j].pc = "idle"
    /\ cycle' = [n \in Numbers |->
                   IF Exists(n) /\ cycle[n].status \in Unpaid /\ cycle[n].due < cycle[n].end
                   THEN [cycle[n] EXCEPT !.due = cycle[n].end] ELSE cycle[n]]
    /\ Become(j, [Idle EXCEPT !.op = "overdue", !.pc = "past due", !.from = now])
    /\ UNCHANGED <<now, fleet, recorded, corrected, faults>>

Late(n, day) == cycle[n].end + Grace <= day

(* A fleet that is PAST_DUE is read with its unpaid cycles.  OVERDUE ones  *)
(* within their grace period are set back to PENDING, and the fleet is     *)
(* restored if none was late.                                              *)
ReadPastDue(j) ==
    LET h == proc[j]
        unpaid == {n \in Cycles : cycle[n].status \in Unpaid} IN
    /\ h.pc = "past due"
    /\ IF fleet.status # "PAST_DUE" THEN Goto(j, "select")
       ELSE Become(j, [h EXCEPT
              !.pc = "revert",
              !.flag = (\E n \in unpaid : Late(n, h.from)),
              !.list = {n \in unpaid : cycle[n].status = "OVERDUE" /\ ~Late(n, h.from)}])
    /\ UNCHANGED <<now, fleet, cycle, recorded, corrected, faults>>

RevertOverdue(j, n) ==
    /\ proc[j].pc = "revert"
    /\ n \in proc[j].list
    /\ cycle' = [cycle EXCEPT ![n].status = "PENDING"]
    /\ Become(j, [proc[j] EXCEPT !.list = @ \ {n}])
    /\ UNCHANGED <<now, fleet, recorded, corrected, faults>>

\* Mutant: a fleet stays PAST_DUE until somebody restores it.
HealFleetNever(j) ==
    /\ proc[j].pc = "revert"
    /\ proc[j].list = {}
    /\ Goto(j, "select")
    /\ UNCHANGED <<now, fleet, cycle, recorded, corrected, faults>>

HealFleet(j) ==
    /\ proc[j].pc = "revert"
    /\ proc[j].list = {}
    /\ fleet' = IF proc[j].flag THEN fleet ELSE [fleet EXCEPT !.status = "ACTIVE"]
    /\ Goto(j, "select")
    /\ UNCHANGED <<now, cycle, recorded, corrected, faults>>

\* Mutant: partly paid cycles are not looked at.
SelectLatePending(j) ==
    /\ proc[j].pc = "select"
    /\ Become(j, [proc[j] EXCEPT
         !.pc = "mark",
         !.list = {n \in Cycles : cycle[n].status = "PENDING" /\ cycle[n].due + Grace < now}])
    /\ UNCHANGED <<now, fleet, cycle, recorded, corrected, faults>>

(* Then the cycles past their due date and the grace period are read.      *)
SelectLate(j) ==
    /\ proc[j].pc = "select"
    /\ Become(j, [proc[j] EXCEPT
         !.pc = "mark",
         !.list = {n \in Cycles : cycle[n].status \in Payable /\ cycle[n].due + Grace < now}])
    /\ UNCHANGED <<now, fleet, cycle, recorded, corrected, faults>>

(* Each is marked, whatever happened to it since, together with its fleet. *)
MarkOverdue(j, n) ==
    /\ proc[j].pc = "mark"
    /\ n \in proc[j].list
    /\ cycle' = [cycle EXCEPT ![n].status = "OVERDUE"]
    /\ fleet' = [fleet EXCEPT !.status = "PAST_DUE"]
    /\ Become(j, [proc[j] EXCEPT !.list = @ \ {n}])
    /\ UNCHANGED <<now, recorded, corrected, faults>>

----------------------------------------------------------------------------
(* auditDailyPaygUsage and reconcilePaygCycle                              *)

AuditDailyPaygUsage(j) ==
    /\ j = "payg" /\ proc[j].pc = "idle"
    /\ fleet.payg
    /\ fleet.status = "ACTIVE"
    /\ Become(j, [Idle EXCEPT !.op = "payg", !.pc = "reconcile",
                    !.list = {n \in Cycles : cycle[n].status \in Payable}])
    /\ UNCHANGED <<now, fleet, cycle, recorded, corrected, faults>>

ReconcilePaygCycle(j, n) ==
    /\ proc[j].pc = "reconcile"
    /\ n \in proc[j].list
    /\ IF cycle[n].status \in {"PAID", "VOID"}
       THEN Become(j, [proc[j] EXCEPT !.list = @ \ {n}])
       ELSE Become(j, [proc[j] EXCEPT !.pc = "rewrite", !.n = n, !.list = @ \ {n}])
    /\ UNCHANGED <<now, fleet, cycle, recorded, corrected, faults>>

(* The usage counted meanwhile replaces the amount due, not the status.    *)
RewriteTotalDue(j, d) ==
    /\ proc[j].pc = "rewrite"
    /\ cycle' = [cycle EXCEPT ![proc[j].n].totalDue = d]
    /\ Become(j, [proc[j] EXCEPT !.pc = "reconcile", !.n = None])
    /\ UNCHANGED <<now, fleet, recorded, corrected, faults>>

FinishJob(j) ==
    /\ proc[j].pc \in {"mark", "reconcile"}
    /\ proc[j].list = {}
    /\ Done(j)
    /\ UNCHANGED <<now, fleet, cycle, recorded, corrected, faults>>

----------------------------------------------------------------------------
(* Time and failures                                                       *)

Tick ==
    /\ now < MaxTime
    /\ now' = now + 1
    /\ UNCHANGED <<fleet, cycle, recorded, corrected, proc, faults>>

(* A database call fails: the request or job ends where it is.  Only the   *)
(* loop that marks cycles catches the error and goes on with the next one. *)
DatabaseFails(p) ==
    /\ faults < MaxFaults
    /\ proc[p].pc \notin {"idle", "mark"}
    /\ Done(p)
    /\ faults' = faults + 1
    /\ UNCHANGED <<now, fleet, cycle, recorded, corrected>>

MarkFails(j, n) ==
    /\ faults < MaxFaults
    /\ proc[j].pc = "mark"
    /\ n \in proc[j].list
    /\ Become(j, [proc[j] EXCEPT !.list = @ \ {n}])
    /\ faults' = faults + 1
    /\ UNCHANGED <<now, fleet, cycle, recorded, corrected>>

Crash ==
    /\ faults < MaxFaults
    /\ proc' = [p \in Procs |-> Idle]
    /\ faults' = faults + 1
    /\ UNCHANGED <<now, fleet, cycle, recorded, corrected>>

Request(p) ==
    \/ \E n \in Cycles : \/ \E a \in Amounts : RecordPayment(p, n, a)
                         \/ \E a \in Approvals \cup {Outstanding(n)} :
                              ApproveBillingPayment(p, n, a)
                         \/ VoidCycle(p, n)
    \/ GenerateCycle(p)

Continue(p) ==
    \/ CreatePayment(p) \/ UpdateCycle(p) \/ CountOverdue(p) \/ RestoreFleet(p)
    \/ ReadFleet(p) \/ ReadLast(p) \/ (\E d \in Dues, days \in Periods : CreateCycle(p, d, days))
    \/ WriteVoid(p)

StartJob(j) ==
    \/ GenerateBillingCycles(j) \/ ExpireTrials(j)
    \/ AutoMarkOverdue(j) \/ AuditDailyPaygUsage(j)

RunJob(j) ==
    \/ ClearTrial(j)
    \/ ReadPastDue(j) \/ HealFleet(j) \/ SelectLate(j) \/ FinishJob(j)
    \/ \E n \in Numbers : RevertOverdue(j, n) \/ MarkOverdue(j, n) \/ ReconcilePaygCycle(j, n)
    \/ \E d \in Dues : RewriteTotalDue(j, d)

Next ==
    \/ \E p \in Clerks : Request(p)
    \/ \E p \in Procs : Continue(p) \/ DatabaseFails(p)
    \/ \E j \in Jobs : StartJob(j) \/ RunJob(j) \/ \E n \in Numbers : MarkFails(j, n)
    \/ \E s \in HqStatuses : UpdateFleetSubscription(s)
    \/ \E days \in TrialDays : UpdateFleetTrial(days)
    \/ Tick
    \/ Crash

Spec == Init /\ [][Next]_vars

(* Started requests and jobs run on, the scheduler starts jobs, days pass. *)
Fairness ==
    /\ \A p \in Procs : WF_vars(Continue(p))
    /\ \A j \in Jobs : WF_vars(StartJob(j)) /\ WF_vars(RunJob(j))
    /\ WF_vars(Tick)

FairSpec == Spec /\ Fairness

----------------------------------------------------------------------------
(* Properties                                                              *)

\* Rows and handlers have the fields and values of the schema.
TypeOK ==
    /\ now \in Nat
    /\ fleet \in [status : FleetStatuses, trial : Nat \cup {None}, payg : BOOLEAN]
    /\ cycle \in [Numbers -> Row \cup {None}]
    /\ recorded \in [Numbers -> Nat]
    /\ corrected \subseteq Numbers
    /\ proc \in [Procs -> Handler]
    /\ faults \in Nat

\* A cycle never claims more money than its positive payment rows add up to,
\* although recordPayment and approveBillingPayment write sums they computed
\* from stale reads, may stop between the row and the sum, and approve any
\* amount.  (A negative row can be lost in the sum, so the net of all rows is
\* no such bound.)
PaidIsBacked ==
    \A n \in Cycles : cycle[n].totalPaid <= recorded[n]

\* An invoice of a fixed-rate fleet that is PAID outside a trial has been
\* covered by the positive payments recorded for it, however payments,
\* corrections, voids and jobs interleave.
PaidIsCovered ==
    ~fleet.payg => \A n \in Cycles :
        cycle[n].status = "PAID" /\ ~cycle[n].trial => cycle[n].totalDue <= recorded[n]

\* Cycles are numbered without gaps and every period begins where the one
\* before it ended, although payments, jobs and HQ generate them concurrently
\* (generateCycleForFleet) and billingCycleDays may change in between.
PeriodsContiguous ==
    \A n \in Cycles : /\ cycle[n].start < cycle[n].end
                      /\ n > 1 => Exists(n - 1) /\ cycle[n].start = cycle[n - 1].end

\* autoMarkOverdue makes a cycle OVERDUE only after its period and the grace
\* period have passed, also for the cycle that registration creates with a
\* due date on its first day.  (Unless it becomes payable again between the
\* job's steps, as the first cycle of another than a fixed-rate fleet may when
\* it is reconciled, and any when HQ approved a negative amount for it.)
OverdueIsLate ==
    ~fleet.payg => \A n \in Cycles \ corrected :
        cycle[n].status = "OVERDUE" => cycle[n].end + Grace < now

(* What makes these invariants inductive: what a handler remembers still   *)
(* fits the rows.                                                          *)
PaymentFits(h) ==
    /\ h.pc \in {"insert", "update"} =>
         /\ h.op \in {"pay", "approve"}
         /\ h.n \in Cycles
         /\ ~fleet.payg => h.due = cycle[h.n].totalDue
    /\ h.pc = "insert" => h.paid <= recorded[h.n]
    /\ h.pc = "update" => h.paid + h.amount <= recorded[h.n]
    /\ h.pc \in {"insert", "update"} /\ h.n \notin corrected => 0 <= h.paid
    /\ h.pc = "update" /\ h.n \notin corrected => 0 <= h.amount

WriteFits(h) ==
    /\ h.pc \in {"void", "rewrite"} => h.n \in Cycles
    /\ h.pc \in {"reconcile", "rewrite"} => fleet.payg
    /\ h.list \subseteq Cycles

GenerationFits(h) ==
    h.pc = "create" => /\ h.n \in Numbers
                       /\ h.n - 1 \in Cycles
                       /\ h.from = cycle[h.n - 1].end

Dated(n) == cycle[n].end <= cycle[n].due

OverdueFits(h) ==
    /\ h.pc \in {"past due", "revert", "select"} =>
         \A n \in Cycles \ corrected : cycle[n].status \in Unpaid => Dated(n)
    /\ h.pc \in {"revert", "mark"} => \A n \in h.list \ corrected : Dated(n)
    /\ h.pc = "mark" => \A n \in h.list \ corrected : cycle[n].end + Grace < now

HandlersFit ==
    \A p \in Procs : /\ PaymentFits(proc[p])
                     /\ WriteFits(proc[p])
                     /\ GenerationFits(proc[p])

(* For a fixed-rate fleet the only cycle with an early due date costs      *)
(* nothing, so once paid or voided it does not become payable again unless *)
(* a negative amount is approved for it.                                   *)
DueDatesFit ==
    ~fleet.payg => /\ \A n \in Cycles : Dated(n) \/ cycle[n].totalDue = 0
                   /\ \A p \in Procs : OverdueFits(proc[p])

(* Only a negative approval takes a sum below zero.                        *)
NotNegative == \A n \in Cycles \ corrected : 0 <= cycle[n].totalPaid

IndInv ==
    /\ TypeOK
    /\ PaidIsBacked
    /\ NotNegative
    /\ PaidIsCovered
    /\ PeriodsContiguous
    /\ OverdueIsLate
    /\ HandlersFit
    /\ DueDatesFit

\* An unpaid cycle past its grace period is marked OVERDUE, paid or voided in
\* the end (the daily autoMarkOverdue).
LateIsMarked ==
    \A n \in Numbers :
        (Exists(n) /\ cycle[n].status \in Payable /\ cycle[n].end + Grace < now)
            ~> cycle[n].status \in {"OVERDUE", "PAID", "VOID"}

\* A fleet does not stay PAST_DUE without a late cycle: the job restores it.
PastDueIsHealed ==
    fleet.status = "PAST_DUE"
        ~> \/ fleet.status # "PAST_DUE"
           \/ \E n \in Cycles : cycle[n].status \in Unpaid /\ Late(n, now)
=============================================================================
