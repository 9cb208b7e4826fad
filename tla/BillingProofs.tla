---------------------------- MODULE BillingProofs ----------------------------
(***************************************************************************)
(* Proofs about Billing, for any number of concurrent requests, any set of *)
(* jobs and prices, any approved amounts, negative ones too, any period    *)
(* lengths, and any number of failures.                                    *)
(***************************************************************************)
EXTENDS Billing, TLAPS

FleetType == [status : FleetStatuses, trial : Nat \cup {None}, payg : BOOLEAN]

(* The steps that leave rows and payments alone.                           *)
Quiet ==
    /\ UNCHANGED <<cycle, recorded, corrected>>
    /\ now' = now \/ now' = now + 1
    /\ fleet'.payg = fleet.payg

(* What every step preserves of the rows that others remember.             *)
Frame ==
    /\ now <= now'
    /\ fleet'.payg = fleet.payg
    /\ corrected \subseteq corrected'
    /\ \A n \in Cycles :
         /\ n \in Cycles'
         /\ cycle'[n].start = cycle[n].start
         /\ cycle'[n].end = cycle[n].end
         /\ cycle[n].due <= cycle'[n].due
         /\ recorded[n] <= recorded'[n]
         /\ ~fleet.payg => cycle'[n].totalDue = cycle[n].totalDue
    /\ ~fleet.payg => \A n \in Cycles' \ corrected' :
         cycle'[n].status \in Unpaid => \/ cycle'[n].end <= cycle'[n].due
                                        \/ n \in Cycles /\ cycle[n].status \in Unpaid

\* An existing cycle is a row; an updated row is again a row.
LEMMA RowOfCycle ==
  ASSUME TypeOK, NEW n \in Cycles
  PROVE  n \in Numbers /\ cycle[n] \in Row /\ cycle[n] # None
BY DEF TypeOK, Cycles, Exists

\* Which steps touch rows or payments.
LEMMA StepKinds ==
  ASSUME TypeOK, [Next]_vars
  PROVE  \/ Quiet
         \/ \E p \in Procs : CreatePayment(p) \/ UpdateCycle(p) \/ WriteVoid(p)
         \/ \E p \in Procs, d \in Dues, days \in Periods : CreateCycle(p, d, days)
         \/ \E j \in Jobs : AutoMarkOverdue(j)
         \/ \E j \in Jobs, n \in Numbers : RevertOverdue(j, n) \/ MarkOverdue(j, n)
         \/ \E j \in Jobs, d \in Dues : RewriteTotalDue(j, d)
<1>fleet. fleet \in FleetType /\ now \in Nat
  BY DEF TypeOK, FleetType
<1>1. CASE \E p \in Clerks : Request(p)
  BY <1>1 DEF Request, RecordPayment, ApproveBillingPayment, VoidCycle, GenerateCycle, Quiet
<1>2. ASSUME NEW p \in Procs, Continue(p)
      PROVE  \/ Quiet \/ CreatePayment(p) \/ UpdateCycle(p) \/ WriteVoid(p)
             \/ \E d \in Dues, days \in Periods : CreateCycle(p, d, days)
  BY <1>2, <1>fleet DEF Continue, CountOverdue, RestoreFleet, ReadFleet, ReadLast, Quiet, FleetType
<1>3. ASSUME NEW p \in Procs, DatabaseFails(p) PROVE Quiet
  BY <1>3 DEF DatabaseFails, Quiet
<1>4. ASSUME NEW j \in Jobs, StartJob(j) PROVE Quiet \/ AutoMarkOverdue(j)
  BY <1>4 DEF StartJob, GenerateBillingCycles, ExpireTrials, AuditDailyPaygUsage, Quiet
<1>5. ASSUME NEW j \in Jobs, RunJob(j)
      PROVE  \/ Quiet \/ (\E n \in Numbers : RevertOverdue(j, n) \/ MarkOverdue(j, n))
             \/ \E d \in Dues : RewriteTotalDue(j, d)
  BY <1>5, <1>fleet DEF RunJob, ClearTrial, ReadPastDue, HealFleet, SelectLate, FinishJob,
                        ReconcilePaygCycle, Quiet, FleetType
<1>6. ASSUME NEW s, UpdateFleetSubscription(s) PROVE Quiet
  BY <1>6, <1>fleet DEF UpdateFleetSubscription, Quiet, FleetType
<1>7. ASSUME NEW days, UpdateFleetTrial(days) PROVE Quiet
  BY <1>7, <1>fleet DEF UpdateFleetTrial, Quiet, FleetType
<1>8. CASE Tick \/ Crash
  BY <1>8 DEF Tick, Crash, Quiet
<1>9. CASE UNCHANGED vars
  BY <1>9 DEF vars, Quiet
<1>10. ASSUME NEW j \in Jobs, NEW n \in Numbers, MarkFails(j, n) PROVE Quiet
  BY <1>10 DEF MarkFails, Quiet
<1> QED
  BY <1>1, <1>2, <1>3, <1>4, <1>5, <1>6, <1>7, <1>8, <1>9, <1>10 DEF Next

(* The part of the type invariant about rows and payments.                 *)
RowTyped ==
    /\ cycle \in [Numbers -> Row \cup {None}]
    /\ recorded \in [Numbers -> Nat]
    /\ corrected \subseteq Numbers

\* Rows and sums stay well typed: a handler writes only to rows that exist.
LEMMA RowTypes ==
  ASSUME TypeOK, HandlersFit, [Next]_vars
  PROVE  RowTyped'
<1>ty. corrected \subseteq Numbers /\ cycle \in [Numbers -> Row \cup {None}] /\ recorded \in [Numbers -> Nat]
       /\ proc \in [Procs -> Handler] /\ now \in Nat
  BY DEF TypeOK
<1>jobs. Jobs \subseteq Procs
  BY DEF Procs
<1>1. ASSUME NEW p \in Procs, CreatePayment(p)
      PROVE  RowTyped'
  <2>1. proc[p].n \in Numbers
    BY <1>1, RowOfCycle DEF CreatePayment, HandlersFit, PaymentFits
  <2>2. recorded[proc[p].n] + Credit(proc[p].amount) \in Nat
    BY <2>1, <1>ty DEF Handler, Credit
  <2> QED
    BY <1>1, <2>1, <2>2, <1>ty DEF CreatePayment, RowTyped
<1>2. ASSUME NEW p \in Procs, UpdateCycle(p)
      PROVE  RowTyped'
  <2>1. proc[p].n \in Cycles
    BY <1>2 DEF UpdateCycle, HandlersFit, PaymentFits
  <2>2. cycle[proc[p].n] \in Row
    BY <2>1, RowOfCycle
  <2>3. NewTotalPaid(proc[p]) \in Int /\ NewStatus(proc[p]) \in Statuses
    BY <1>ty DEF NewTotalPaid, NewStatus, Handler, Statuses, Unpaid, Payable
  <2>4. [cycle[proc[p].n] EXCEPT !.totalPaid = NewTotalPaid(proc[p]), !.status = NewStatus(proc[p])] \in Row
    BY <2>2, <2>3 DEF Row
  <2> QED
    BY <1>2, <2>4, <1>ty DEF UpdateCycle, RowTyped
<1>3. ASSUME NEW n \in Cycles, NEW st \in Statuses,
             cycle' = [cycle EXCEPT ![n].status = st]
      PROVE  cycle' \in [Numbers -> Row \cup {None}]
  <2>1. [cycle[n] EXCEPT !.status = st] \in Row
    BY RowOfCycle DEF Row
  <2> QED
    BY <1>3, <2>1, <1>ty
<1>4. ASSUME NEW p \in Procs, WriteVoid(p)
      PROVE  RowTyped'
  <2>1. proc[p].n \in Cycles
    BY <1>4 DEF WriteVoid, HandlersFit, WriteFits
  <2> QED
    BY <1>4, <2>1, <1>3, <1>ty DEF WriteVoid, Statuses, RowTyped
<1>5. ASSUME NEW p \in Procs, NEW d \in Dues, NEW days \in Periods, CreateCycle(p, d, days)
      PROVE  RowTyped'
  <2>1. NewCycle(proc[p], d, days) \in Row
    BY <1>ty, BillingAssumption DEF NewCycle, Row, Handler, Statuses, Unpaid, Payable
  <2> QED
    BY <1>5, <2>1, <1>ty DEF CreateCycle, RowTyped
<1>6. ASSUME NEW j \in Jobs, AutoMarkOverdue(j)
      PROVE  RowTyped'
  <2>1. ASSUME NEW n \in Cycles
        PROVE  [cycle[n] EXCEPT !.due = cycle[n].end] \in Row
    BY RowOfCycle DEF Row
  <2> QED
    BY <1>6, <2>1, <1>ty DEF AutoMarkOverdue, Cycles, RowTyped
<1>7. ASSUME NEW j \in Jobs, NEW n \in Numbers, RevertOverdue(j, n) \/ MarkOverdue(j, n)
      PROVE  RowTyped'
  <2>1. n \in Cycles
    BY <1>7, <1>jobs DEF RevertOverdue, MarkOverdue, HandlersFit, WriteFits
  <2> QED
    BY <1>7, <2>1, <1>3, <1>ty DEF RevertOverdue, MarkOverdue, Statuses, Unpaid, Payable, RowTyped
<1>8. ASSUME NEW j \in Jobs, NEW d \in Dues, RewriteTotalDue(j, d)
      PROVE  RowTyped'
  <2>1. proc[j].n \in Cycles
    BY <1>8, <1>jobs DEF RewriteTotalDue, HandlersFit, WriteFits
  <2>2. [cycle[proc[j].n] EXCEPT !.totalDue = d] \in Row
    BY <2>1, RowOfCycle, BillingAssumption DEF Row
  <2> QED
    BY <1>8, <2>2, <1>ty DEF RewriteTotalDue, RowTyped
<1>9. CASE Quiet
  BY <1>9, <1>ty DEF Quiet, RowTyped
<1> QED
  BY StepKinds, <1>1, <1>2, <1>4, <1>5, <1>6, <1>7, <1>8, <1>9

\* Handlers, fleet, clock and counter stay well typed.
LEMMA HandlerTypes ==
  ASSUME TypeOK, HandlersFit, [Next]_vars
  PROVE  /\ proc' \in [Procs -> Handler]
         /\ fleet' \in FleetType
         /\ now' \in Nat
         /\ faults' \in Nat
<1> DEFINE Typed == /\ proc' \in [Procs -> Handler]
                    /\ fleet' \in FleetType
                    /\ now' \in Nat
                    /\ faults' \in Nat
<1>ty. /\ proc \in [Procs -> Handler] /\ fleet \in FleetType /\ now \in Nat /\ faults \in Nat
       /\ recorded \in [Numbers -> Nat]
  BY DEF TypeOK, FleetType
<1>jobs. Jobs \subseteq Procs /\ Clerks \subseteq Procs
  BY DEF Procs
<1>idle. Idle \in Handler
  BY DEF Idle, Handler, Ops, Steps
<1>list. ASSUME NEW S \in SUBSET Cycles PROVE S \in SUBSET Numbers
  BY <1>list DEF Cycles
<1>1. ASSUME NEW p \in Clerks, Request(p) PROVE Typed
  <2>p. p \in Procs
    BY <1>jobs
  <2>1. ASSUME NEW n \in Cycles, NEW a \in Amounts, RecordPayment(p, n, a) PROVE Typed
    <3>1. cycle[n] \in Row /\ n \in Numbers
      BY RowOfCycle
    <3>2. a \in Int
      BY BillingAssumption
    <3> QED
      BY <2>1, <2>p, <3>1, <3>2, <1>ty, <1>idle DEF RecordPayment, Become, Handler, Ops, Steps, Row
  <2>2. ASSUME NEW n \in Cycles, NEW a \in Approvals \cup {Outstanding(n)},
               ApproveBillingPayment(p, n, a) PROVE Typed
    <3>1. cycle[n] \in Row /\ n \in Numbers
      BY RowOfCycle
    <3>2. a \in Int
      <4>1. cycle[n].totalDue \in Int /\ cycle[n].totalPaid \in Int
        BY <3>1 DEF Row
      <4>2. Outstanding(n) \in Int
        BY <4>1 DEF Outstanding
      <4> QED
        BY <4>2, BillingAssumption
    <3> QED
      BY <2>2, <2>p, <3>1, <3>2, <1>ty, <1>idle DEF ApproveBillingPayment, Become, Handler, Ops, Steps, Row
  <2>3. ASSUME NEW n \in Cycles, VoidCycle(p, n) PROVE Typed
    BY <2>3, <2>p, <1>ty, <1>idle, RowOfCycle DEF VoidCycle, Become, Handler, Ops, Steps
  <2>4. ASSUME GenerateCycle(p) PROVE Typed
    BY <2>4, <2>p, <1>ty, <1>idle DEF GenerateCycle, Become, Handler, Ops, Steps
  <2> QED
    BY <1>1, <2>1, <2>2, <2>3, <2>4 DEF Request
<1>2. ASSUME NEW p \in Procs, Continue(p) PROVE Typed
  <2>goto. ASSUME NEW pc \in Steps, Goto(p, pc) PROVE proc' \in [Procs -> Handler]
    BY <2>goto, <1>ty DEF Goto, Become, Handler
  <2>done. ASSUME Done(p) PROVE proc' \in [Procs -> Handler]
    BY <2>done, <1>ty, <1>idle DEF Done, Become
  <2>1. ASSUME CreatePayment(p) PROVE Typed
    BY <2>1, <2>goto, <1>ty DEF CreatePayment, Steps
  <2>2. ASSUME UpdateCycle(p) PROVE Typed
    BY <2>2, <2>goto, <2>done, <1>ty DEF UpdateCycle, Steps
  <2>3. ASSUME CountOverdue(p) PROVE Typed
    BY <2>3, <2>goto, <1>ty DEF CountOverdue, Steps
  <2>4. ASSUME RestoreFleet(p) PROVE Typed
    <3>1. proc' \in [Procs -> Handler]
      BY <2>4, <2>goto, <2>done DEF RestoreFleet, Steps
    <3> QED
      BY <2>4, <3>1, <1>ty DEF RestoreFleet, FleetType, FleetStatuses
  <2>5. ASSUME ReadFleet(p) PROVE Typed
    <3>1. fleet.trial \in Nat \cup {None}
      BY <1>ty DEF FleetType
    <3>2. [proc[p] EXCEPT !.pc = "last", !.trial = fleet.trial] \in Handler
      BY <3>1, <1>ty DEF Handler, Steps
    <3> QED
      BY <2>5, <3>2, <1>ty DEF ReadFleet, Become
  <2>6. ASSUME ReadLast(p) PROVE Typed
    <3> SUFFICES proc' \in [Procs -> Handler]
      BY <2>6, <1>ty DEF ReadLast
    <3>1. PICK last \in Numbers :
            /\ IsLast(last)
            /\ \/ /\ last < MaxCycles
                  /\ Become(p, [proc[p] EXCEPT !.pc = "create", !.n = last + 1, !.from = cycle[last].end])
               \/ Done(p)
      BY <2>6 DEF ReadLast
    <3>2. cycle[last].end \in Nat
      BY <3>1, RowOfCycle DEF IsLast, Row
    <3>3. last < MaxCycles => last + 1 \in Numbers
      BY BillingAssumption DEF Numbers
    <3>4. last < MaxCycles =>
            [proc[p] EXCEPT !.pc = "create", !.n = last + 1, !.from = cycle[last].end] \in Handler
      BY <3>2, <3>3, <1>ty DEF Handler, Steps
    <3> QED
      BY <3>1, <3>4, <2>done, <1>ty DEF Become
  <2>7. ASSUME NEW d \in Dues, NEW days \in Periods, CreateCycle(p, d, days) PROVE Typed
    BY <2>7, <2>done, <1>ty DEF CreateCycle
  <2>8. ASSUME WriteVoid(p) PROVE Typed
    BY <2>8, <2>done, <1>ty DEF WriteVoid
  <2> QED
    BY <1>2, <2>1, <2>2, <2>3, <2>4, <2>5, <2>6, <2>7, <2>8 DEF Continue
<1>3. ASSUME NEW j \in Jobs, StartJob(j) PROVE Typed
  <2>j. j \in Procs
    BY <1>jobs
  <2>1. ASSUME GenerateBillingCycles(j) PROVE Typed
    BY <2>1, <2>j, <1>ty, <1>idle DEF GenerateBillingCycles, Become, Handler, Ops, JobNames, Steps
  <2>2. ASSUME ExpireTrials(j) PROVE Typed
    BY <2>2, <2>j, <1>ty, <1>idle DEF ExpireTrials, Become, Handler, Ops, JobNames, Steps
  <2>3. ASSUME AutoMarkOverdue(j) PROVE Typed
    BY <2>3, <2>j, <1>ty, <1>idle DEF AutoMarkOverdue, Become, Handler, Ops, JobNames, Steps
  <2>4. ASSUME AuditDailyPaygUsage(j) PROVE Typed
    BY <2>4, <2>j, <1>ty, <1>idle DEF AuditDailyPaygUsage, Become, Handler, Ops, JobNames, Steps, Cycles
  <2> QED
    BY <1>3, <2>1, <2>2, <2>3, <2>4 DEF StartJob
<1>4. ASSUME NEW j \in Jobs, RunJob(j) PROVE Typed
  <2>j. j \in Procs /\ proc[j] \in Handler
    BY <1>jobs, <1>ty
  <2>goto. ASSUME NEW pc \in Steps, Goto(j, pc) PROVE proc' \in [Procs -> Handler]
    BY <2>goto, <2>j, <1>ty DEF Goto, Become, Handler
  <2>1. ASSUME ClearTrial(j) PROVE Typed
    <3>1. proc' \in [Procs -> Handler]
      BY <2>1, <2>goto DEF ClearTrial, Steps
    <3> QED
      BY <2>1, <3>1, <1>ty DEF ClearTrial, FleetType
  <2>2. ASSUME ReadPastDue(j) PROVE Typed
    <3>1. CASE fleet.status # "PAST_DUE"
      BY <2>2, <3>1, <2>goto, <1>ty DEF ReadPastDue, Steps
    <3>2. CASE fleet.status = "PAST_DUE"
      <4>1. PICK f \in BOOLEAN, S \in SUBSET Cycles :
              Become(j, [proc[j] EXCEPT !.pc = "revert", !.flag = f, !.list = S])
        BY <2>2, <3>2 DEF ReadPastDue
      <4> QED
        BY <2>2, <4>1, <1>list, <2>j, <1>ty DEF ReadPastDue, Become, Handler, Steps
    <3> QED
      BY <3>1, <3>2
  <2>3. ASSUME HealFleet(j) PROVE Typed
    <3>1. proc' \in [Procs -> Handler]
      BY <2>3, <2>goto DEF HealFleet, Steps
    <3> QED
      BY <2>3, <3>1, <1>ty DEF HealFleet, FleetType, FleetStatuses
  <2>4. ASSUME SelectLate(j) PROVE Typed
    <3>1. PICK S \in SUBSET Cycles : Become(j, [proc[j] EXCEPT !.pc = "mark", !.list = S])
      BY <2>4 DEF SelectLate
    <3>2. [proc[j] EXCEPT !.pc = "mark", !.list = S] \in Handler
      BY <1>list, <2>j DEF Handler, Steps
    <3> QED
      BY <2>4, <3>1, <3>2, <2>j, <1>ty DEF SelectLate, Become
  <2>5. ASSUME FinishJob(j) PROVE Typed
    BY <2>5, <1>idle, <2>j, <1>ty DEF FinishJob, Done, Become
  <2>6. ASSUME NEW n \in Numbers, RevertOverdue(j, n) PROVE Typed
    BY <2>6, <2>j, <1>ty DEF RevertOverdue, Become, Handler
  <2>7. ASSUME NEW n \in Numbers, MarkOverdue(j, n) PROVE Typed
    <3>1. proc' \in [Procs -> Handler]
      BY <2>7, <2>j, <1>ty DEF MarkOverdue, Become, Handler
    <3> QED
      BY <2>7, <3>1, <1>ty DEF MarkOverdue, FleetType, FleetStatuses
  <2>8. ASSUME NEW n \in Numbers, ReconcilePaygCycle(j, n) PROVE Typed
    <3>1. /\ [proc[j] EXCEPT !.list = @ \ {n}] \in Handler
          /\ [proc[j] EXCEPT !.pc = "rewrite", !.n = n, !.list = @ \ {n}] \in Handler
      BY <2>j DEF Handler, Steps
    <3> QED
      BY <2>8, <3>1, <2>j, <1>ty DEF ReconcilePaygCycle, Become
  <2>9. ASSUME NEW d \in Dues, RewriteTotalDue(j, d) PROVE Typed
    BY <2>9, <2>j, <1>ty DEF RewriteTotalDue, Become, Handler, Steps
  <2> QED
    BY <1>4, <2>1, <2>2, <2>3, <2>4, <2>5, <2>6, <2>7, <2>8, <2>9 DEF RunJob
<1>5. ASSUME NEW p \in Procs, DatabaseFails(p) PROVE Typed
  BY <1>5, <1>ty, <1>idle DEF DatabaseFails, Done, Become
<1>6. ASSUME NEW s \in HqStatuses, UpdateFleetSubscription(s) PROVE Typed
  BY <1>6, <1>ty, BillingAssumption DEF UpdateFleetSubscription, FleetType, FleetStatuses
<1>7. ASSUME NEW days \in TrialDays, UpdateFleetTrial(days) PROVE Typed
  <2>1. now + days \in Nat
    BY <1>ty, BillingAssumption
  <2>2. [fleet EXCEPT !.status = "ACTIVE", !.trial = now + days] \in FleetType
    BY <2>1, <1>ty DEF FleetType, FleetStatuses
  <2> QED
    BY <1>7, <2>2, <1>ty DEF UpdateFleetTrial
<1>8. CASE Tick
  BY <1>8, <1>ty DEF Tick
<1>9. CASE Crash
  BY <1>9, <1>ty, <1>idle DEF Crash
<1>10. CASE UNCHANGED vars
  BY <1>10, <1>ty DEF vars
<1>11. ASSUME NEW j \in Jobs, NEW n \in Numbers, MarkFails(j, n) PROVE Typed
  <2>1. j \in Procs /\ [proc[j] EXCEPT !.list = @ \ {n}] \in Handler
    BY <1>jobs, <1>ty DEF Handler
  <2> QED
    BY <1>11, <2>1, <1>ty DEF MarkFails, Become
<1> QED
  BY <1>1, <1>2, <1>3, <1>4, <1>5, <1>6, <1>7, <1>8, <1>9, <1>10, <1>11 DEF Next

\* A change of status that leaves a payable cycle with an early due date
\* payable only if it was, and keeps everything else, is framed.
LEMMA StatusFrame ==
  ASSUME TypeOK, TypeOK', NEW m \in Cycles, NEW st \in Statuses,
         cycle' = [cycle EXCEPT ![m].status = st], recorded' = recorded,
         corrected' = corrected, now' = now,
         fleet'.payg = fleet.payg,
         ~fleet.payg => Dated(m) \/ st \notin Unpaid \/ m \in corrected
  PROVE  Frame
<1>1. \A n \in Cycles : n \in Numbers /\ cycle[n] \in Row /\ cycle[n] # None
  BY RowOfCycle
<1>2. \A n \in Cycles : cycle'[n] = IF n = m THEN [cycle[n] EXCEPT !.status = st] ELSE cycle[n]
  BY <1>1 DEF TypeOK
<1>3. [cycle[m] EXCEPT !.status = st] \in Row
  BY <1>1 DEF Row
<1>4. \A n \in Cycles : cycle'[n] \in Row /\ n \in Cycles'
  BY <1>1, <1>2, <1>3, NoRowAssumption DEF Cycles, Exists
<1>5. \A n \in Cycles' : n \in Cycles
  BY <1>1 DEF Cycles, Exists, TypeOK
<1>6. \A n \in Cycles : /\ cycle'[n].start = cycle[n].start /\ cycle'[n].end = cycle[n].end
                        /\ cycle'[n].due = cycle[n].due /\ cycle'[n].totalDue = cycle[n].totalDue
  BY <1>1, <1>2 DEF Row
<1>7. \A n \in Cycles : n # m => cycle'[n].status = cycle[n].status
  BY <1>2
<1>8. cycle'[m].status = st
  BY <1>1, <1>2 DEF Row
<1>9. now \in Nat /\ \A n \in Cycles : cycle[n].due \in Nat /\ recorded[n] \in Nat
  BY <1>1 DEF TypeOK, Row
<1> QED
  BY <1>4, <1>5, <1>6, <1>7, <1>8, <1>9 DEF Frame, Dated

\* Every step keeps what other handlers may rely on.
LEMMA FrameStep ==
  ASSUME IndInv, TypeOK', [Next]_vars
  PROVE  Frame
<1>ty. TypeOK /\ HandlersFit /\ DueDatesFit
  BY DEF IndInv
<1>jobs. Jobs \subseteq Procs
  BY DEF Procs
<1>rows. \A n \in Cycles : n \in Numbers /\ cycle[n] \in Row /\ cycle[n] # None
  BY <1>ty, RowOfCycle
<1>nat. /\ now \in Nat
        /\ \A n \in Cycles : cycle[n].due \in Nat /\ cycle[n].end \in Nat /\ recorded[n] \in Nat
  BY <1>rows, <1>ty DEF TypeOK, Row
<1>1. CASE Quiet
  BY <1>1, <1>nat, <1>rows DEF Quiet, Frame, Cycles, Exists
<1>2. ASSUME NEW p \in Procs, CreatePayment(p) PROVE Frame
  <2>1. proc[p].n \in Numbers /\ Credit(proc[p].amount) \in Nat
    BY <1>2, <1>ty, <1>rows DEF CreatePayment, HandlersFit, PaymentFits, TypeOK, Handler, Credit
  <2>2. \A n \in Cycles : recorded[n] <= recorded'[n]
    BY <1>2, <2>1, <1>nat, <1>rows, <1>ty DEF CreatePayment, TypeOK
  <2>3. Cycles' = Cycles
    BY <1>2 DEF CreatePayment, Cycles, Exists
  <2> QED
    BY <1>2, <2>2, <2>3, <1>nat DEF CreatePayment, Frame
<1>3. ASSUME NEW p \in Procs, UpdateCycle(p) PROVE Frame
  <2> DEFINE h == proc[p]
             m == h.n
             row == [cycle[m] EXCEPT !.totalPaid = NewTotalPaid(h), !.status = NewStatus(h)]
  <2>1. m \in Cycles /\ (~fleet.payg => h.due = cycle[m].totalDue)
    BY <1>3, <1>ty DEF UpdateCycle, HandlersFit, PaymentFits
  <2>2. h.paid \in Int /\ h.amount \in Int /\ h.due \in Nat
    BY <1>ty DEF TypeOK, Handler
  <2>3. cycle' = [cycle EXCEPT ![m] = row] /\ recorded' = recorded /\ now' = now
        /\ fleet' = fleet /\ corrected' = corrected
    BY <1>3 DEF UpdateCycle
  <2> HIDE DEF row
  <2>4. /\ row.start = cycle[m].start /\ row.end = cycle[m].end /\ row.due = cycle[m].due
        /\ row.totalDue = cycle[m].totalDue /\ row.status = NewStatus(h)
    BY <2>1, <1>rows DEF row, Row
  <2>5. \A n \in Cycles : cycle'[n] = IF n = m THEN row ELSE cycle[n]
    BY <2>3, <1>rows, <1>ty DEF TypeOK
  <2>6. \A n \in Numbers : n \notin Cycles => n # m /\ cycle'[n] = None
    BY <2>1, <2>3, <1>ty DEF TypeOK, Cycles, Exists
  <2>7. row # None
    <3>1. NewTotalPaid(h) \in Int /\ NewStatus(h) \in Statuses
      BY <2>2 DEF NewTotalPaid, NewStatus, Statuses, Unpaid, Payable
    <3>2. row \in Row
      BY <3>1, <2>1, <1>rows DEF row, Row
    <3> QED
      BY <3>2, NoRowAssumption
  <2>8. Cycles' = Cycles
    BY <2>5, <2>6, <2>7 DEF Cycles, Exists
  <2>9. ~fleet.payg /\ NewStatus(h) \in Unpaid /\ m \notin corrected => Dated(m)
    <3>0. m \notin corrected => 0 <= h.paid /\ 0 <= h.amount
      BY <1>3, <1>ty DEF UpdateCycle, HandlersFit, PaymentFits
    <3>1. NewStatus(h) \in Unpaid /\ m \notin corrected => h.due # 0
      BY <3>0, <2>2 DEF NewStatus, NewTotalPaid, Unpaid, Payable
    <3> QED
      BY <3>1, <2>1, <1>ty DEF DueDatesFit
  <2> QED
    BY <2>3, <2>4, <2>5, <2>8, <2>9, <1>nat DEF Frame, Dated
<1>4. ASSUME NEW p \in Procs, WriteVoid(p) PROVE Frame
  <2>1. proc[p].n \in Cycles
    BY <1>4, <1>ty DEF WriteVoid, HandlersFit, WriteFits
  <2>2. "VOID" \in Statuses /\ "VOID" \notin Unpaid
    BY DEF Statuses, Unpaid, Payable
  <2> QED
    BY <1>4, <2>1, <2>2, <1>ty, StatusFrame DEF WriteVoid
<1>5. ASSUME NEW p \in Procs, NEW d \in Dues, NEW days \in Periods, CreateCycle(p, d, days) PROVE Frame
  <2> DEFINE h == proc[p]
  <2>1. h.n \in Numbers
    BY <1>5, <1>ty DEF CreateCycle, HandlersFit, GenerationFits
  <2>2. CASE h.n \in Cycles
    <3>1. cycle' = cycle
      BY <1>5, <2>2 DEF CreateCycle, Cycles
    <3> QED
      BY <1>5, <3>1, <1>nat DEF CreateCycle, Frame, Cycles, Exists
  <2>3. CASE h.n \notin Cycles
    <3>1. cycle' = [cycle EXCEPT ![h.n] = NewCycle(h, d, days)]
      BY <1>5, <2>1, <2>3 DEF CreateCycle, Cycles
    <3>2. \A n \in Cycles : n # h.n /\ cycle'[n] = cycle[n]
      BY <3>1, <2>3, <1>rows, <1>ty DEF TypeOK
    <3>3. \A n \in Cycles' : n = h.n \/ n \in Cycles
      BY <3>1, <1>ty DEF TypeOK, Cycles, Exists
    <3>4. cycle'[h.n] = NewCycle(h, d, days)
      BY <3>1, <2>1, <1>ty DEF TypeOK
    <3>5. cycle'[h.n].end = cycle'[h.n].due /\ cycle'[h.n].end \in Nat
      BY <3>4, <1>ty, BillingAssumption DEF NewCycle, TypeOK, Handler
    <3>6. Cycles \subseteq Cycles'
      BY <3>2 DEF Cycles, Exists
    <3>7. \A n \in Cycles' : cycle'[n].status \in Unpaid =>
             \/ cycle'[n].end <= cycle'[n].due
             \/ n \in Cycles /\ cycle[n].status \in Unpaid
      BY <3>2, <3>3, <3>5
    <3>8. now' = now /\ fleet' = fleet /\ recorded' = recorded /\ corrected' = corrected
      BY <1>5 DEF CreateCycle
    <3> QED
      BY <3>2, <3>6, <3>7, <3>8, <1>nat DEF Frame
  <2> QED
    BY <2>2, <2>3
<1>6. ASSUME NEW j \in Jobs, AutoMarkOverdue(j) PROVE Frame
  <2> DEFINE Moved(n) == [cycle[n] EXCEPT !.due = cycle[n].end]
  <2>1. \A n \in Numbers : cycle'[n] =
           IF Exists(n) /\ cycle[n].status \in Unpaid /\ cycle[n].due < cycle[n].end
           THEN Moved(n) ELSE cycle[n]
    BY <1>6 DEF AutoMarkOverdue
  <2>2. \A n \in Cycles : /\ Moved(n) \in Row
                          /\ Moved(n).start = cycle[n].start /\ Moved(n).end = cycle[n].end
                          /\ Moved(n).totalDue = cycle[n].totalDue
                          /\ Moved(n).status = cycle[n].status
                          /\ Moved(n).due = cycle[n].end
    BY <1>rows DEF Row
  <2> HIDE DEF Moved
  <2>3. Cycles' = Cycles
    BY <2>1, <2>2, <1>rows, NoRowAssumption DEF Cycles, Exists
  <2>4. \A n \in Cycles : /\ cycle'[n].start = cycle[n].start /\ cycle'[n].end = cycle[n].end
                          /\ cycle'[n].totalDue = cycle[n].totalDue
                          /\ cycle'[n].status = cycle[n].status
    BY <2>1, <2>2, <1>rows
  <2>5. \A n \in Cycles : cycle[n].due <= cycle'[n].due
    BY <2>1, <2>2, <1>rows, <1>nat
  <2> QED
    BY <1>6, <2>3, <2>4, <2>5, <1>nat DEF AutoMarkOverdue, Frame
<1>7. ASSUME NEW j \in Jobs, NEW n \in Numbers, RevertOverdue(j, n) \/ MarkOverdue(j, n)
      PROVE  Frame
  <2>1. n \in Cycles /\ (~fleet.payg => Dated(n) \/ n \in corrected)
    BY <1>7, <1>jobs, <1>ty
       DEF RevertOverdue, MarkOverdue, HandlersFit, WriteFits, DueDatesFit, OverdueFits
  <2>2. PICK st \in Statuses : cycle' = [cycle EXCEPT ![n].status = st]
    BY <1>7 DEF RevertOverdue, MarkOverdue, Statuses, Unpaid, Payable
  <2>3. recorded' = recorded /\ corrected' = corrected /\ now' = now /\ fleet'.payg = fleet.payg
    BY <1>7, <1>ty DEF RevertOverdue, MarkOverdue, TypeOK
  <2> QED
    BY <2>1, <2>2, <2>3, <1>ty, StatusFrame
<1>8. ASSUME NEW j \in Jobs, NEW d \in Dues, RewriteTotalDue(j, d) PROVE Frame
  <2>1. fleet.payg /\ proc[j].n \in Cycles
    BY <1>8, <1>jobs, <1>ty DEF RewriteTotalDue, HandlersFit, WriteFits
  <2>2. [cycle[proc[j].n] EXCEPT !.totalDue = d] \in Row
    BY <2>1, <1>rows, BillingAssumption DEF Row
  <2>3. \A n \in Cycles :
          cycle'[n] = IF n = proc[j].n THEN [cycle[n] EXCEPT !.totalDue = d] ELSE cycle[n]
    BY <1>8, <1>rows, <1>ty DEF RewriteTotalDue, TypeOK
  <2>4. \A n \in Cycles : n \in Cycles'
    BY <2>2, <2>3, <1>rows, NoRowAssumption DEF Cycles, Exists
  <2>5. \A n \in Cycles : /\ cycle'[n].start = cycle[n].start /\ cycle'[n].end = cycle[n].end
                          /\ cycle'[n].due = cycle[n].due
    BY <2>3, <1>rows DEF Row
  <2>6. recorded' = recorded /\ now' = now /\ fleet' = fleet /\ corrected' = corrected
    BY <1>8 DEF RewriteTotalDue
  <2>7. now <= now' /\ \A n \in Cycles : cycle[n].due <= cycle'[n].due /\ recorded[n] <= recorded'[n]
    BY <2>5, <2>6, <1>nat
  <2> QED
    BY <2>1, <2>4, <2>5, <2>6, <2>7, Zenon DEF Frame
<1> QED
  BY StepKinds, <1>ty, <1>1, <1>2, <1>3, <1>4, <1>5, <1>6, <1>7, <1>8

(* How a step may change a row that exists, and what a new row looks like. *)
Kept(n) ==
    /\ n \in Cycles
    /\ cycle'[n].trial = cycle[n].trial
    /\ \/ cycle'[n].totalPaid = cycle[n].totalPaid
       \/ /\ cycle'[n].totalPaid <= recorded[n]
          /\ n \in corrected \/ 0 <= cycle'[n].totalPaid
    /\ ~fleet.payg /\ cycle'[n].status = "PAID" =>
         cycle[n].status = "PAID" \/ cycle[n].totalDue <= recorded[n]
    /\ ~fleet.payg /\ n \notin corrected /\ cycle'[n].status = "OVERDUE" =>
         cycle[n].status = "OVERDUE" \/ cycle[n].end + Grace < now

Added(n) ==
    /\ n - 1 \in Cycles
    /\ cycle'[n].start = cycle[n - 1].end
    /\ cycle'[n].start < cycle'[n].end
    /\ cycle'[n].due = cycle'[n].end
    /\ cycle'[n].totalPaid = 0
    /\ cycle'[n].status # "OVERDUE"
    /\ cycle'[n].status = "PAID" => cycle'[n].trial

\* Every row after a step is an old one that changed as it may, or a new one.
LEMMA RowStep ==
  ASSUME IndInv, TypeOK', [Next]_vars, NEW n \in Cycles'
  PROVE  Kept(n) \/ Added(n)
<1>ty. TypeOK /\ HandlersFit /\ DueDatesFit
  BY DEF IndInv
<1>jobs. Jobs \subseteq Procs
  BY DEF Procs
<1>n. n \in Numbers /\ cycle'[n] # None
  BY DEF Cycles, Exists
<1>rows. \A m \in Cycles : m \in Numbers /\ cycle[m] \in Row
  BY <1>ty, RowOfCycle
<1>old. cycle'[n] = cycle[n] => n \in Cycles
  BY <1>n DEF Cycles, Exists
<1>same. cycle'[n] = cycle[n] => Kept(n)
  BY <1>old DEF Kept
<1>1. CASE Quiet
  BY <1>1, <1>same DEF Quiet
<1>2. ASSUME NEW p \in Procs, CreatePayment(p) PROVE Kept(n)
  BY <1>2, <1>same DEF CreatePayment
<1>3. ASSUME NEW p \in Procs, UpdateCycle(p) PROVE Kept(n)
  <2> DEFINE h == proc[p]
             row == [cycle[h.n] EXCEPT !.totalPaid = NewTotalPaid(h), !.status = NewStatus(h)]
  <2>1. /\ h.n \in Cycles /\ (~fleet.payg => h.due = cycle[h.n].totalDue)
        /\ h.paid + h.amount <= recorded[h.n]
        /\ h.n \notin corrected => 0 <= h.paid /\ 0 <= h.amount
    BY <1>3, <1>ty DEF UpdateCycle, HandlersFit, PaymentFits
  <2>2. cycle' = [cycle EXCEPT ![h.n] = row]
    BY <1>3 DEF UpdateCycle
  <2>3. /\ row.totalPaid = NewTotalPaid(h) /\ row.status = NewStatus(h)
        /\ row.trial = cycle[h.n].trial
    BY <2>1, <1>rows DEF Row
  <2> HIDE DEF row
  <2>4. CASE n = h.n
    <3>1. cycle'[n] = row
      BY <2>2, <2>4, <1>n, <1>ty DEF TypeOK
    <3>0. h.paid \in Int /\ h.amount \in Int /\ h.due \in Nat /\ recorded[n] \in Nat
      BY <1>ty, <1>n DEF TypeOK, Handler
    <3>2. /\ NewTotalPaid(h) <= recorded[n] /\ NewStatus(h) # "OVERDUE"
          /\ n \in corrected \/ 0 <= NewTotalPaid(h)
      BY <2>1, <2>4, <3>0 DEF NewTotalPaid, NewStatus
    <3>3. ~fleet.payg /\ NewStatus(h) = "PAID" => cycle[n].totalDue <= recorded[n]
      <4>1. NewStatus(h) = "PAID" => h.due <= h.paid + h.amount
        BY <3>0 DEF NewStatus, NewTotalPaid
      <4> QED
        BY <2>1, <2>4, <3>0, <4>1
    <3> QED
      BY <3>1, <3>2, <3>3, <2>1, <2>3, <2>4 DEF Kept
  <2>5. CASE n # h.n
    BY <2>2, <2>5, <1>same, <1>n, <1>ty DEF TypeOK
  <2> QED
    BY <2>4, <2>5
<1>4. ASSUME NEW m \in Cycles, NEW st \in {"VOID", "PENDING", "OVERDUE"},
             cycle' = [cycle EXCEPT ![m].status = st],
             ~fleet.payg /\ m \notin corrected /\ st = "OVERDUE" => cycle[m].end + Grace < now
      PROVE  Kept(n)
  <2>1. CASE n = m
    <3>1. cycle'[n] = [cycle[n] EXCEPT !.status = st]
      BY <1>4, <2>1, <1>n, <1>ty DEF TypeOK
    <3>2. /\ cycle'[n].trial = cycle[n].trial /\ cycle'[n].totalPaid = cycle[n].totalPaid
          /\ cycle'[n].status = st
      BY <3>1, <2>1, <1>rows DEF Row
    <3> QED
      BY <1>4, <2>1, <3>2 DEF Kept
  <2>2. CASE n # m
    BY <1>4, <2>2, <1>same, <1>n, <1>ty DEF TypeOK
  <2> QED
    BY <2>1, <2>2
<1>5. ASSUME NEW p \in Procs, WriteVoid(p) PROVE Kept(n)
  <2>1. proc[p].n \in Cycles
    BY <1>5, <1>ty DEF WriteVoid, HandlersFit, WriteFits
  <2> QED
    BY <1>5, <2>1, <1>4 DEF WriteVoid
<1>6. ASSUME NEW p \in Procs, NEW d \in Dues, NEW days \in Periods, CreateCycle(p, d, days) PROVE Kept(n) \/ Added(n)
  <2> DEFINE h == proc[p]
  <2>1. h.n \in Numbers /\ h.n - 1 \in Cycles /\ h.from = cycle[h.n - 1].end
    BY <1>6, <1>ty DEF CreateCycle, HandlersFit, GenerationFits
  <2>2. cycle' = cycle \/ cycle' = [cycle EXCEPT ![h.n] = NewCycle(h, d, days)]
    BY <1>6 DEF CreateCycle
  <2>3. CASE n = h.n /\ cycle' = [cycle EXCEPT ![h.n] = NewCycle(h, d, days)]
    <3>1. cycle'[n] = NewCycle(h, d, days)
      BY <2>3, <1>n, <1>ty DEF TypeOK
    <3>0. h.from \in Nat /\ days \in Nat \ {0}
      BY <1>ty, BillingAssumption DEF TypeOK, Handler
    <3>2. /\ cycle'[n].start = h.from /\ cycle'[n].end = h.from + days
          /\ cycle'[n].due = h.from + days /\ cycle'[n].totalPaid = 0
      BY <3>1 DEF NewCycle
    <3> DEFINE free == h.trial # None /\ now < h.trial
    <3>3. cycle'[n].trial = free
      BY <3>1 DEF NewCycle
    <3>4. cycle'[n].status = IF free THEN "PAID" ELSE "PENDING"
      BY <3>1 DEF NewCycle
    <3> HIDE DEF free
    <3>5. cycle'[n].status # "OVERDUE" /\ (cycle'[n].status = "PAID" => cycle'[n].trial)
      BY <3>3, <3>4
    <3> QED
      BY <3>0, <3>2, <3>5, <2>1, <2>3 DEF Added
  <2>4. CASE n # h.n \/ cycle' = cycle
    BY <2>2, <2>4, <1>same, <1>n, <1>ty DEF TypeOK
  <2> QED
    BY <2>2, <2>3, <2>4
<1>7. ASSUME NEW j \in Jobs, AutoMarkOverdue(j) PROVE Kept(n)
  <2> DEFINE moved == [cycle[n] EXCEPT !.due = cycle[n].end]
  <2>1. cycle'[n] = cycle[n] \/ (n \in Cycles /\ cycle'[n] = moved)
    BY <1>7, <1>n DEF AutoMarkOverdue, Cycles
  <2>2. n \in Cycles => /\ moved.trial = cycle[n].trial /\ moved.status = cycle[n].status
                        /\ moved.totalPaid = cycle[n].totalPaid
    BY <1>rows DEF Row
  <2> HIDE DEF moved
  <2> QED
    BY <2>1, <2>2, <1>same DEF Kept
<1>8. ASSUME NEW j \in Jobs, NEW m \in Numbers, RevertOverdue(j, m) \/ MarkOverdue(j, m)
      PROVE  Kept(n)
  <2>1. m \in Cycles
    BY <1>8, <1>jobs, <1>ty DEF RevertOverdue, MarkOverdue, HandlersFit, WriteFits
  <2>2. CASE RevertOverdue(j, m)
    BY <2>1, <2>2, <1>4 DEF RevertOverdue
  <2>3. CASE MarkOverdue(j, m)
    <3>1. ~fleet.payg /\ m \notin corrected => cycle[m].end + Grace < now
      BY <2>3, <1>jobs, <1>ty DEF MarkOverdue, DueDatesFit, OverdueFits
    <3> QED
      BY <2>1, <2>3, <3>1, <1>4 DEF MarkOverdue
  <2> QED
    BY <1>8, <2>2, <2>3
<1>9. ASSUME NEW j \in Jobs, NEW d \in Dues, RewriteTotalDue(j, d) PROVE Kept(n)
  <2> DEFINE row == [cycle[n] EXCEPT !.totalDue = d]
  <2>1. proc[j].n \in Cycles
    BY <1>9, <1>jobs, <1>ty DEF RewriteTotalDue, HandlersFit, WriteFits
  <2>2. cycle'[n] = cycle[n] \/ (n \in Cycles /\ cycle'[n] = row)
    BY <1>9, <2>1, <1>n, <1>ty DEF RewriteTotalDue, TypeOK
  <2>3. n \in Cycles => /\ row.trial = cycle[n].trial /\ row.status = cycle[n].status
                        /\ row.totalPaid = cycle[n].totalPaid
    BY <1>rows DEF Row
  <2> HIDE DEF row
  <2> QED
    BY <2>2, <2>3, <1>same DEF Kept
<1> QED
  BY StepKinds, <1>ty, <1>1, <1>2, <1>3, <1>5, <1>6, <1>7, <1>8, <1>9

\* A step keeps the invariants about rows.
LEMMA RowSafety ==
  ASSUME IndInv, TypeOK', [Next]_vars
  PROVE  /\ PaidIsBacked' /\ PaidIsCovered' /\ PeriodsContiguous' /\ OverdueIsLate'
         /\ NotNegative'
         /\ ~fleet'.payg => \A n \in Cycles' : Dated(n)' \/ cycle'[n].totalDue = 0
<1>ty. /\ TypeOK /\ PaidIsBacked /\ PaidIsCovered /\ PeriodsContiguous /\ OverdueIsLate
       /\ DueDatesFit /\ NotNegative
  BY DEF IndInv
<1>rows. \A n \in Cycles : n \in Numbers /\ cycle[n] \in Row
  BY <1>ty, RowOfCycle
<1>frame. Frame
  BY FrameStep
<1>step. \A n \in Cycles' : Kept(n) \/ Added(n)
  BY RowStep
<1>nat. /\ now \in Nat /\ now' \in Nat /\ Grace \in Nat
        /\ recorded \in [Numbers -> Nat] /\ recorded' \in [Numbers -> Nat]
        /\ Numbers \subseteq Nat
  BY <1>ty, BillingAssumption DEF TypeOK, Numbers
<1>new. \A n \in Cycles' : n \in Numbers /\ cycle'[n] \in Row
  BY DEF TypeOK, Cycles, Exists
<1>cnat. \A n \in Cycles : /\ cycle[n].end \in Nat /\ cycle[n].due \in Nat
                           /\ cycle[n].totalDue \in Nat /\ cycle[n].totalPaid \in Int
                           /\ cycle[n].start \in Nat /\ recorded[n] \in Nat
  BY <1>rows, <1>ty DEF Row, TypeOK
<1>nnat. \A n \in Cycles' : /\ cycle'[n].end \in Nat /\ cycle'[n].due \in Nat
                            /\ cycle'[n].totalDue \in Nat /\ cycle'[n].totalPaid \in Int
                            /\ recorded'[n] \in Nat
  BY <1>new DEF Row, TypeOK
<1>1. PaidIsBacked'
  <2> SUFFICES ASSUME NEW n \in Cycles' PROVE cycle'[n].totalPaid <= recorded'[n]
    BY DEF PaidIsBacked
  <2>1. CASE Kept(n)
    <3>1. n \in Cycles /\ cycle'[n].totalPaid <= recorded[n]
      BY <2>1, <1>ty DEF Kept, PaidIsBacked
    <3>2. recorded[n] <= recorded'[n]
      BY <3>1, <1>frame DEF Frame
    <3> QED
      BY <3>1, <3>2, <1>cnat, <1>nnat
  <2>2. CASE Added(n)
    BY <2>2, <1>nnat DEF Added
  <2> QED
    BY <2>1, <2>2, <1>step
<1>2. PaidIsCovered'
  <2> SUFFICES ASSUME ~fleet'.payg, NEW n \in Cycles', cycle'[n].status = "PAID", ~cycle'[n].trial
               PROVE  cycle'[n].totalDue <= recorded'[n]
    BY DEF PaidIsCovered
  <2>1. Kept(n) /\ ~fleet.payg
    BY <1>step, <1>frame DEF Added, Frame
  <2>2. n \in Cycles /\ cycle[n].totalDue <= recorded[n]
    BY <2>1, <1>ty DEF Kept, PaidIsCovered
  <2>3. recorded[n] <= recorded'[n] /\ cycle'[n].totalDue = cycle[n].totalDue
    BY <2>1, <2>2, <1>frame DEF Frame
  <2> QED
    BY <2>2, <2>3, <1>cnat, <1>nnat
<1>3. PeriodsContiguous'
  <2> SUFFICES ASSUME NEW n \in Cycles'
               PROVE  /\ cycle'[n].start < cycle'[n].end
                      /\ n > 1 => Exists(n - 1)' /\ cycle'[n].start = cycle'[n - 1].end
    BY DEF PeriodsContiguous
  <2>old. \A m \in Cycles : Exists(m)' /\ cycle'[m].start = cycle[m].start /\ cycle'[m].end = cycle[m].end
    BY <1>frame DEF Frame, Cycles
  <2>1. CASE Kept(n)
    <3>1. n \in Cycles
      BY <2>1 DEF Kept
    <3>2. n > 1 => n - 1 \in Cycles
      BY <3>1, <1>ty, <1>rows, BillingAssumption DEF PeriodsContiguous, Cycles, Numbers
    <3> QED
      BY <3>1, <3>2, <2>old, <1>ty DEF PeriodsContiguous
  <2>2. CASE Added(n)
    BY <2>2, <2>old DEF Added
  <2> QED
    BY <2>1, <2>2, <1>step
<1>4. OverdueIsLate'
  <2> SUFFICES ASSUME ~fleet'.payg, NEW n \in Cycles' \ corrected', cycle'[n].status = "OVERDUE"
               PROVE  cycle'[n].end + Grace < now'
    BY DEF OverdueIsLate
  <2>1. Kept(n) /\ ~fleet.payg
    BY <1>step, <1>frame DEF Added, Frame
  <2>2. n \in Cycles \ corrected /\ cycle[n].end + Grace < now
    BY <2>1, <1>ty, <1>frame DEF Kept, OverdueIsLate, Frame
  <2>3. cycle'[n].end = cycle[n].end /\ now <= now'
    BY <2>2, <1>frame DEF Frame
  <2> QED
    BY <2>2, <2>3, <1>nat, <1>cnat
<1>5. ASSUME ~fleet'.payg, NEW n \in Cycles' PROVE Dated(n)' \/ cycle'[n].totalDue = 0
  <2>1. ~fleet.payg
    BY <1>5, <1>frame DEF Frame
  <2>2. CASE Kept(n)
    <3>1. n \in Cycles /\ (Dated(n) \/ cycle[n].totalDue = 0)
      BY <2>1, <2>2, <1>ty DEF Kept, DueDatesFit
    <3>2. /\ cycle'[n].end = cycle[n].end /\ cycle[n].due <= cycle'[n].due
          /\ cycle'[n].totalDue = cycle[n].totalDue
      BY <2>1, <3>1, <1>frame DEF Frame
    <3> QED
      BY <3>1, <3>2, <1>cnat, <1>nnat DEF Dated
  <2>3. CASE Added(n)
    BY <2>3, <1>nnat DEF Added, Dated
  <2> QED
    BY <2>2, <2>3, <1>step
<1>6. NotNegative'
  <2> SUFFICES ASSUME NEW n \in Cycles' \ corrected' PROVE 0 <= cycle'[n].totalPaid
    BY DEF NotNegative
  <2>1. n \notin corrected
    BY <1>frame DEF Frame
  <2> QED
    BY <2>1, <1>step, <1>ty, <1>nnat DEF Kept, Added, NotNegative
<1> QED
  BY <1>1, <1>2, <1>3, <1>4, <1>5, <1>6

(* What one handler remembers fits the rows.                               *)
Fits(p) ==
    /\ PaymentFits(proc[p])
    /\ WriteFits(proc[p])
    /\ GenerationFits(proc[p])
    /\ ~fleet.payg => OverdueFits(proc[p])

\* A handler that stays where it is, and whose list at most shrinks, still
\* fits after any step of anyone.
LEMMA StayingFits ==
  ASSUME IndInv, TypeOK', [Next]_vars, NEW p \in Procs,
         proc'[p].pc = proc[p].pc, proc'[p].op = proc[p].op, proc'[p].n = proc[p].n,
         proc'[p].amount = proc[p].amount, proc'[p].paid = proc[p].paid,
         proc'[p].due = proc[p].due, proc'[p].from = proc[p].from,
         proc'[p].list \subseteq proc[p].list
  PROVE  Fits(p)'
<1>ty. TypeOK /\ PaymentFits(proc[p]) /\ WriteFits(proc[p]) /\ GenerationFits(proc[p])
       /\ (~fleet.payg => OverdueFits(proc[p]))
  BY DEF IndInv, HandlersFit, DueDatesFit
<1>frame. Frame
  BY FrameStep
<1>h. proc[p].paid \in Int /\ proc[p].amount \in Int /\ proc[p].from \in Nat
  BY <1>ty DEF TypeOK, Handler
<1>rows. \A n \in Cycles : n \in Numbers /\ cycle[n] \in Row
  BY <1>ty, RowOfCycle
<1>nat. /\ \A n \in Cycles : /\ recorded[n] \in Nat /\ recorded'[n] \in Nat
                             /\ cycle[n].due \in Nat /\ cycle[n].end \in Nat
        /\ now \in Nat /\ now' \in Nat /\ Grace \in Nat
  BY <1>rows, <1>ty, BillingAssumption DEF TypeOK, Row
<1>nnat. \A n \in Cycles' : cycle'[n].due \in Nat /\ cycle'[n].end \in Nat
  <2>1. \A n \in Cycles' : cycle'[n] \in Row
    BY DEF TypeOK, Cycles, Exists
  <2> QED
    BY <2>1 DEF Row
<1>1. PaymentFits(proc[p])'
  <2>1. ASSUME proc[p].pc \in {"insert", "update"}
        PROVE  /\ proc[p].op \in {"pay", "approve"}
               /\ proc[p].n \in Cycles
               /\ proc[p].n \in Cycles'
               /\ ~fleet'.payg => proc[p].due = cycle'[proc[p].n].totalDue
    BY <2>1, <1>ty, <1>frame DEF PaymentFits, Frame
  <2>2. proc[p].pc = "insert" => proc[p].paid <= recorded'[proc[p].n]
    BY <2>1, <1>ty, <1>frame, <1>nat, <1>h DEF PaymentFits, Frame
  <2>3. proc[p].pc = "update" => proc[p].paid + proc[p].amount <= recorded'[proc[p].n]
    BY <2>1, <1>ty, <1>frame, <1>nat, <1>h DEF PaymentFits, Frame
  <2>4. /\ proc[p].pc \in {"insert", "update"} /\ proc[p].n \notin corrected' => 0 <= proc[p].paid
        /\ proc[p].pc = "update" /\ proc[p].n \notin corrected' => 0 <= proc[p].amount
    BY <1>ty, <1>frame DEF PaymentFits, Frame
  <2> QED
    BY <2>1, <2>2, <2>3, <2>4 DEF PaymentFits
<1>2. WriteFits(proc[p])'
  BY <1>ty, <1>frame DEF WriteFits, Frame
<1>3. GenerationFits(proc[p])'
  BY <1>ty, <1>frame DEF GenerationFits, Frame
<1>4. ASSUME ~fleet'.payg PROVE OverdueFits(proc[p])'
  <2>1. ~fleet.payg /\ OverdueFits(proc[p])
    BY <1>4, <1>ty, <1>frame DEF Frame
  <2>2. \A n \in Cycles : n \in Cycles' /\ cycle'[n].end = cycle[n].end /\ (Dated(n) => Dated(n)')
    BY <1>frame, <1>nat, <1>nnat DEF Frame, Dated
  <2>3. proc[p].list \subseteq Cycles
    BY <1>ty DEF WriteFits
  <2>4. ASSUME proc[p].pc \in {"past due", "revert", "select"}, NEW n \in Cycles' \ corrected',
               cycle'[n].status \in Unpaid
        PROVE  Dated(n)'
    BY <2>1, <2>2, <2>4, <1>frame DEF Frame, OverdueFits, Dated
  <2>5. ASSUME proc[p].pc \in {"revert", "mark"}, NEW n \in proc'[p].list \ corrected'
        PROVE  Dated(n)'
    BY <2>1, <2>2, <2>3, <2>5, <1>frame DEF OverdueFits, Frame
  <2>6. ASSUME proc[p].pc = "mark", NEW n \in proc'[p].list \ corrected'
        PROVE  cycle'[n].end + Grace < now'
    <3>1. n \in Cycles /\ cycle[n].end + Grace < now
      BY <2>1, <2>3, <2>6, <1>frame DEF OverdueFits, Frame
    <3> QED
      BY <3>1, <2>2, <1>nat, <1>frame DEF Frame
  <2> QED
    BY <2>4, <2>5, <2>6 DEF OverdueFits
<1> QED
  BY <1>1, <1>2, <1>3, <1>4 DEF Fits

\* A handler at a step where nothing it remembers matters fits.
LEMMA PlainFits ==
  ASSUME NEW p \in Procs, proc'[p].pc \in {"idle", "count", "restore", "fleet", "last", "clear"},
         proc'[p].list \subseteq Cycles'
  PROVE  Fits(p)'
BY DEF Fits, PaymentFits, WriteFits, GenerationFits, OverdueFits

\* A handler that has ended fits.
LEMMA IdleFits ==
  ASSUME NEW p \in Procs, proc'[p] = Idle
  PROVE  Fits(p)'
<1>1. proc'[p].pc = "idle" /\ proc'[p].list = {}
  BY DEF Idle
<1> QED
  BY <1>1, PlainFits

\* The steps of a handler leave the others alone.
LEMMA OthersStay ==
  ASSUME TypeOK, NEW p \in Procs, NEW h, Become(p, h)
  PROVE  /\ proc'[p] = h
         /\ \A q \in Procs : q # p => proc'[q] = proc[q]
BY DEF TypeOK, Become

\* A request that begins fits.
LEMMA RequestFits ==
  ASSUME IndInv, TypeOK', NEW p \in Clerks, Request(p), NEW q \in Procs
  PROVE  proc'[q] = proc[q] \/ Fits(q)'
<1>ty. TypeOK /\ PaidIsBacked /\ NotNegative
  BY DEF IndInv
<1>p. p \in Procs
  BY DEF Procs
<1>rows. \A n \in Cycles : n \in Numbers /\ cycle[n] \in Row
  BY <1>ty, RowOfCycle
<1>1. ASSUME NEW n \in Cycles, NEW a, RecordPayment(p, n, a) \/ ApproveBillingPayment(p, n, a)
      PROVE  proc'[q] = proc[q] \/ Fits(q)'
  <2> DEFINE Starts(h) == /\ h.op \in {"pay", "approve"} /\ h.pc = "insert" /\ h.n = n
                          /\ h.paid = cycle[n].totalPaid /\ h.due = cycle[n].totalDue
                          /\ h.list = {}
  <2>1. PICK h : Become(p, h) /\ Starts(h)
    <3>1. CASE RecordPayment(p, n, a)
      <4> DEFINE h == [Idle EXCEPT !.op = "pay", !.pc = "insert", !.n = n, !.amount = a,
                                   !.paid = cycle[n].totalPaid, !.due = cycle[n].totalDue]
      <4>1. Become(p, h)
        BY <3>1 DEF RecordPayment
      <4>2. Starts(h)
        BY DEF Idle
      <4> QED
        BY <4>1, <4>2
    <3>2. CASE ApproveBillingPayment(p, n, a)
      <4> DEFINE h == [Idle EXCEPT !.op = "approve", !.pc = "insert", !.n = n, !.amount = a,
                                   !.paid = cycle[n].totalPaid, !.due = cycle[n].totalDue,
                                   !.flag = (fleet.status = "PAST_DUE")]
      <4>1. Become(p, h)
        BY <3>2 DEF ApproveBillingPayment
      <4>2. Starts(h)
        BY DEF Idle
      <4> QED
        BY <4>1, <4>2
    <3> QED
      BY <1>1, <3>1, <3>2
  <2>2. q # p => proc'[q] = proc[q]
    BY <2>1, <1>p, <1>ty, OthersStay
  <2>3. CASE q = p
    <3>1. proc'[q] = h
      BY <2>1, <2>3, <1>p, <1>ty, OthersStay
    <3>2. /\ cycle' = cycle /\ recorded' = recorded /\ corrected' = corrected
          /\ fleet' = fleet /\ Cycles' = Cycles
      BY <1>1 DEF RecordPayment, ApproveBillingPayment, Cycles, Exists
    <3>3. cycle[n].totalPaid <= recorded[n] /\ (n \notin corrected => 0 <= cycle[n].totalPaid)
      BY <1>ty DEF PaidIsBacked, NotNegative
    <3> QED
      BY <3>1, <3>2, <3>3, <2>1 DEF Fits, PaymentFits, WriteFits, GenerationFits, OverdueFits
  <2> QED
    BY <2>2, <2>3
<1>2. ASSUME NEW n \in Cycles, VoidCycle(p, n) PROVE proc'[q] = proc[q] \/ Fits(q)'
  <2>1. q # p => proc'[q] = proc[q]
    BY <1>2, <1>p, <1>ty, OthersStay DEF VoidCycle
  <2>2. CASE q = p
    <3>1. proc'[q].pc = "void" /\ proc'[q].n = n /\ proc'[q].list = {}
      <4>1. proc'[q] = [Idle EXCEPT !.op = "void", !.pc = "void", !.n = n]
        BY <1>2, <2>2, <1>p, <1>ty DEF VoidCycle, Become, TypeOK
      <4> QED
        BY <4>1 DEF Idle
    <3>2. n \in Cycles'
      BY <1>2 DEF VoidCycle, Cycles, Exists
    <3> QED
      BY <3>1, <3>2 DEF Fits, PaymentFits, WriteFits, GenerationFits, OverdueFits
  <2> QED
    BY <2>1, <2>2
<1>3. ASSUME GenerateCycle(p) PROVE proc'[q] = proc[q] \/ Fits(q)'
  <2>1. q # p => proc'[q] = proc[q]
    BY <1>3, <1>p, <1>ty, OthersStay DEF GenerateCycle
  <2>2. q = p => proc'[q].pc = "fleet" /\ proc'[q].list = {}
    <3>1. q = p => proc'[q] = [Idle EXCEPT !.op = "generate", !.pc = "fleet"]
      BY <1>3, <1>p, <1>ty DEF GenerateCycle, Become, TypeOK
    <3> QED
      BY <3>1 DEF Idle
  <2> QED
    BY <2>1, <2>2, PlainFits
<1> QED
  BY <1>1, <1>2, <1>3 DEF Request

\* A step of a payment or of the generation of a cycle fits.
LEMMA ContinueFits ==
  ASSUME IndInv, TypeOK', NEW p \in Procs, Continue(p), NEW q \in Procs
  PROVE  proc'[q] = proc[q] \/ Fits(q)'
<1>ty. /\ TypeOK /\ PaymentFits(proc[p]) /\ WriteFits(proc[p])
       /\ proc[p] \in Handler
  BY DEF IndInv, HandlersFit, TypeOK
<1>step. [Next]_vars
  BY DEF Next
<1>list. proc[p].list \subseteq Cycles'
  BY <1>ty, <1>step, FrameStep DEF WriteFits, Frame
<1>goto. ASSUME NEW pc, Goto(p, pc)
         PROVE  /\ q # p => proc'[q] = proc[q]
                /\ q = p => /\ proc'[q].pc = pc
                            /\ proc'[q].op = proc[p].op /\ proc'[q].n = proc[p].n
                            /\ proc'[q].amount = proc[p].amount /\ proc'[q].paid = proc[p].paid
                            /\ proc'[q].due = proc[p].due /\ proc'[q].list = proc[p].list
  <2>1. Become(p, [proc[p] EXCEPT !.pc = pc])
    BY <1>goto DEF Goto
  <2> QED
    BY <2>1, <1>ty, OthersStay DEF Handler
<1>plain. ASSUME NEW pc \in {"count", "restore", "fleet"}, Goto(p, pc)
          PROVE  proc'[q] = proc[q] \/ Fits(q)'
  BY <1>plain, <1>goto, <1>list, PlainFits
<1>done. ASSUME Done(p) PROVE proc'[q] = proc[q] \/ Fits(q)'
  BY <1>done, <1>ty, OthersStay, IdleFits DEF Done
<1>1. ASSUME CreatePayment(p) PROVE proc'[q] = proc[q] \/ Fits(q)'
  <2>1. Goto(p, "update")
    BY <1>1 DEF CreatePayment
  <2>2. CASE q = p
    <3>1. /\ proc[p].n \in Cycles /\ proc[p].n \in Numbers /\ proc[p].op \in {"pay", "approve"}
          /\ ~fleet.payg => proc[p].due = cycle[proc[p].n].totalDue
          /\ proc[p].paid <= recorded[proc[p].n]
          /\ proc[p].n \notin corrected => 0 <= proc[p].paid
      BY <1>1, <1>ty DEF CreatePayment, PaymentFits, Cycles
    <3>2. cycle' = cycle /\ fleet' = fleet /\ Cycles' = Cycles
      BY <1>1 DEF CreatePayment, Cycles, Exists
    <3>3. recorded'[proc[p].n] = recorded[proc[p].n] + Credit(proc[p].amount)
      BY <1>1, <3>1, <1>ty DEF CreatePayment, TypeOK
    <3>4. proc[p].paid \in Int /\ proc[p].amount \in Int /\ recorded[proc[p].n] \in Nat
      BY <3>1, <1>ty DEF Handler, TypeOK
    <3>5. proc[p].paid + proc[p].amount <= recorded'[proc[p].n]
      BY <3>1, <3>3, <3>4 DEF Credit
    <3>7. proc[p].n \notin corrected' => 0 <= proc[p].paid /\ 0 <= proc[p].amount
      BY <1>1, <3>1, <3>4 DEF CreatePayment
    <3>6. /\ proc'[q].pc = "update" /\ proc'[q].op = proc[p].op /\ proc'[q].n = proc[p].n
          /\ proc'[q].amount = proc[p].amount /\ proc'[q].paid = proc[p].paid
          /\ proc'[q].due = proc[p].due /\ proc'[q].list \subseteq Cycles'
      BY <2>1, <2>2, <1>goto, <1>list
    <3> QED
      BY <3>1, <3>2, <3>5, <3>6, <3>7 DEF Fits, PaymentFits, WriteFits, GenerationFits, OverdueFits
  <2> QED
    BY <2>1, <2>2, <1>goto
<1>2. ASSUME UpdateCycle(p) PROVE proc'[q] = proc[q] \/ Fits(q)'
  BY <1>2, <1>plain, <1>done DEF UpdateCycle
<1>3. ASSUME CountOverdue(p) PROVE proc'[q] = proc[q] \/ Fits(q)'
  BY <1>3, <1>plain DEF CountOverdue
<1>4. ASSUME RestoreFleet(p) PROVE proc'[q] = proc[q] \/ Fits(q)'
  BY <1>4, <1>plain, <1>done DEF RestoreFleet
<1>5. ASSUME ReadFleet(p) PROVE proc'[q] = proc[q] \/ Fits(q)'
  <2>1. Become(p, [proc[p] EXCEPT !.pc = "last", !.trial = fleet.trial])
    BY <1>5 DEF ReadFleet
  <2>2. q # p => proc'[q] = proc[q]
    BY <2>1, <1>ty, OthersStay
  <2>3. q = p => proc'[q].pc = "last" /\ proc'[q].list = proc[p].list
    <3>1. q = p => proc'[q] = [proc[p] EXCEPT !.pc = "last", !.trial = fleet.trial]
      BY <2>1, <1>ty DEF Become, TypeOK
    <3> QED
      BY <3>1, <1>ty DEF Handler
  <2> QED
    BY <2>2, <2>3, <1>list, PlainFits
<1>6. ASSUME ReadLast(p) PROVE proc'[q] = proc[q] \/ Fits(q)'
  <2>1. PICK last \in Numbers :
          /\ IsLast(last)
          /\ \/ /\ last < MaxCycles
                /\ Become(p, [proc[p] EXCEPT !.pc = "create", !.n = last + 1, !.from = cycle[last].end])
             \/ Done(p)
    BY <1>6 DEF ReadLast
  <2>2. CASE Done(p)
    BY <2>2, <1>done
  <2>3. CASE /\ last < MaxCycles
             /\ Become(p, [proc[p] EXCEPT !.pc = "create", !.n = last + 1, !.from = cycle[last].end])
    <3>1. q # p => proc'[q] = proc[q]
      BY <2>3, <1>ty, OthersStay
    <3>2. CASE q = p
      <4>1. /\ proc'[q].pc = "create" /\ proc'[q].n = last + 1
            /\ proc'[q].from = cycle[last].end /\ proc'[q].list = proc[p].list
        <5>1. proc'[q] = [proc[p] EXCEPT !.pc = "create", !.n = last + 1, !.from = cycle[last].end]
          BY <2>3, <3>2, <1>ty DEF Become, TypeOK
        <5> QED
          BY <5>1, <1>ty DEF Handler
      <4>2. last + 1 \in Numbers /\ (last + 1) - 1 = last /\ last \in Cycles
        BY <2>1, <2>3, BillingAssumption DEF Numbers, IsLast
      <4>3. cycle' = cycle /\ Cycles' = Cycles
        BY <1>6 DEF ReadLast, Cycles, Exists
      <4> QED
        BY <4>1, <4>2, <4>3, <1>list DEF Fits, PaymentFits, WriteFits, GenerationFits, OverdueFits
    <3> QED
      BY <3>1, <3>2
  <2> QED
    BY <2>1, <2>2, <2>3
<1>7. ASSUME NEW d \in Dues, NEW days \in Periods, CreateCycle(p, d, days) PROVE proc'[q] = proc[q] \/ Fits(q)'
  BY <1>7, <1>done DEF CreateCycle
<1>8. ASSUME WriteVoid(p) PROVE proc'[q] = proc[q] \/ Fits(q)'
  BY <1>8, <1>done DEF WriteVoid
<1> QED
  BY <1>1, <1>2, <1>3, <1>4, <1>5, <1>6, <1>7, <1>8 DEF Continue

\* A job that begins fits.
LEMMA StartJobFits ==
  ASSUME IndInv, TypeOK', NEW j \in Jobs, StartJob(j), NEW q \in Procs
  PROVE  proc'[q] = proc[q] \/ Fits(q)'
<1>ty. TypeOK
  BY DEF IndInv
<1>j. j \in Procs
  BY DEF Procs
<1>rows. \A n \in Cycles : n \in Numbers /\ cycle[n] \in Row
  BY <1>ty, RowOfCycle
<1>plain. ASSUME NEW op, NEW pc \in {"fleet", "clear"}, Become(j, [Idle EXCEPT !.op = op, !.pc = pc])
          PROVE  proc'[q] = proc[q] \/ Fits(q)'
  <2>1. q # j => proc'[q] = proc[q]
    BY <1>plain, <1>j, <1>ty, OthersStay
  <2>2. q = j => proc'[q].pc = pc /\ proc'[q].list = {}
    <3>1. q = j => proc'[q] = [Idle EXCEPT !.op = op, !.pc = pc]
      BY <1>plain, <1>j, <1>ty DEF Become, TypeOK
    <3> QED
      BY <3>1 DEF Idle
  <2> QED
    BY <2>1, <2>2, PlainFits
<1>1. ASSUME GenerateBillingCycles(j) \/ ExpireTrials(j) PROVE proc'[q] = proc[q] \/ Fits(q)'
  BY <1>1, <1>plain DEF GenerateBillingCycles, ExpireTrials
<1>2. ASSUME AutoMarkOverdue(j) PROVE proc'[q] = proc[q] \/ Fits(q)'
  <2>1. q # j => proc'[q] = proc[q]
    BY <1>2, <1>j, <1>ty, OthersStay DEF AutoMarkOverdue
  <2>2. q = j => proc'[q].pc = "past due" /\ proc'[q].list = {}
    <3>1. q = j => proc'[q] = [Idle EXCEPT !.op = "overdue", !.pc = "past due", !.from = now]
      BY <1>2, <1>j, <1>ty DEF AutoMarkOverdue, Become, TypeOK
    <3> QED
      BY <3>1 DEF Idle
  <2>3. ASSUME NEW n \in Cycles', cycle'[n].status \in Unpaid PROVE Dated(n)'
    <3> DEFINE moved == [cycle[n] EXCEPT !.due = cycle[n].end]
    <3>1. n \in Numbers /\ cycle'[n] # None
      BY DEF Cycles, Exists
    <3>2. cycle'[n] = IF Exists(n) /\ cycle[n].status \in Unpaid /\ cycle[n].due < cycle[n].end
                      THEN moved ELSE cycle[n]
      BY <1>2, <3>1 DEF AutoMarkOverdue
    <3>3. n \in Cycles
      BY <3>1, <3>2 DEF Cycles, Exists
    <3>4. cycle[n].due \in Nat /\ cycle[n].end \in Nat
      BY <3>3, <1>rows DEF Row
    <3>5. moved.due = cycle[n].end /\ moved.end = cycle[n].end
      BY <3>3, <1>rows DEF Row
    <3> HIDE DEF moved
    <3>6. CASE cycle'[n] = moved
      BY <3>4, <3>5, <3>6 DEF Dated
    <3>7. CASE cycle'[n] = cycle[n] /\ ~(cycle[n].due < cycle[n].end)
      BY <3>4, <3>7 DEF Dated
    <3> QED
      BY <2>3, <3>2, <3>3, <3>6, <3>7 DEF Cycles
  <2> QED
    BY <2>1, <2>2, <2>3 DEF Fits, PaymentFits, WriteFits, GenerationFits, OverdueFits
<1>3. ASSUME AuditDailyPaygUsage(j) PROVE proc'[q] = proc[q] \/ Fits(q)'
  <2>1. q # j => proc'[q] = proc[q]
    BY <1>3, <1>j, <1>ty, OthersStay DEF AuditDailyPaygUsage
  <2>2. q = j => proc'[q].pc = "reconcile" /\ proc'[q].list \subseteq Cycles
    <3>1. q = j => proc'[q] = [Idle EXCEPT !.op = "payg", !.pc = "reconcile",
                                 !.list = {n \in Cycles : cycle[n].status \in Payable}]
      BY <1>3, <1>j, <1>ty DEF AuditDailyPaygUsage, Become, TypeOK
    <3> QED
      BY <3>1 DEF Idle
  <2>3. fleet'.payg /\ Cycles' = Cycles
    BY <1>3 DEF AuditDailyPaygUsage, Cycles, Exists
  <2> QED
    BY <2>1, <2>2, <2>3 DEF Fits, PaymentFits, WriteFits, GenerationFits, OverdueFits
<1> QED
  BY <1>1, <1>2, <1>3 DEF StartJob

\* A step of a job that has begun fits.
LEMMA RunJobFits ==
  ASSUME IndInv, TypeOK', NEW j \in Jobs, RunJob(j), NEW q \in Procs
  PROVE  proc'[q] = proc[q] \/ Fits(q)'
<1>j. j \in Procs
  BY DEF Procs
<1>ty. /\ TypeOK /\ WriteFits(proc[j]) /\ (~fleet.payg => OverdueFits(proc[j]))
       /\ proc[j] \in Handler
  BY <1>j DEF IndInv, HandlersFit, DueDatesFit, TypeOK
<1>step. [Next]_vars
  BY DEF Next
<1>list. proc[j].list \subseteq Cycles'
  BY <1>ty, <1>step, FrameStep DEF WriteFits, Frame
<1>rows. \A n \in Cycles : /\ n \in Numbers /\ cycle[n] \in Row
                           /\ cycle[n].due \in Nat /\ cycle[n].end \in Nat
  BY <1>ty, RowOfCycle DEF Row
<1>others. ASSUME NEW h, Become(j, h) PROVE q # j => proc'[q] = proc[q]
  BY <1>others, <1>j, <1>ty, OthersStay
<1>goto. ASSUME NEW pc, Goto(j, pc)
         PROVE  /\ q # j => proc'[q] = proc[q]
                /\ q = j => proc'[q].pc = pc /\ proc'[q].list = proc[j].list
  <2>1. Become(j, [proc[j] EXCEPT !.pc = pc])
    BY <1>goto DEF Goto
  <2>2. q = j => proc'[q] = [proc[j] EXCEPT !.pc = pc]
    BY <2>1, <1>j, <1>ty DEF Become, TypeOK
  <2> QED
    BY <2>1, <2>2, <1>others, <1>ty DEF Handler
<1>shrink. ASSUME NEW n, Become(j, [proc[j] EXCEPT !.list = @ \ {n}])
           PROVE  proc'[q] = proc[q] \/ Fits(q)'
  <2>1. q = j => proc'[q] = [proc[j] EXCEPT !.list = @ \ {n}]
    BY <1>shrink, <1>j, <1>ty DEF Become, TypeOK
  <2>2. q = j => /\ proc'[q].pc = proc[q].pc /\ proc'[q].op = proc[q].op /\ proc'[q].n = proc[q].n
                 /\ proc'[q].amount = proc[q].amount /\ proc'[q].paid = proc[q].paid
                 /\ proc'[q].due = proc[q].due /\ proc'[q].from = proc[q].from
                 /\ proc'[q].list \subseteq proc[q].list
    BY <2>1, <1>ty DEF Handler
  <2> QED
    BY <2>2, <1>shrink, <1>others, <1>step, StayingFits
<1>select. ASSUME fleet'.payg = fleet.payg, cycle' = cycle, corrected' = corrected, Goto(j, "select"),
                  proc[j].pc \in {"past due", "revert"}
           PROVE  proc'[q] = proc[q] \/ Fits(q)'
  <2>1. CASE q = j
    <3>1. proc'[q].pc = "select" /\ proc'[q].list = proc[j].list
      BY <2>1, <1>select, <1>goto
    <3>2. Cycles' = Cycles
      BY <1>select DEF Cycles, Exists
    <3>3. ~fleet'.payg => \A n \in Cycles' \ corrected' : cycle'[n].status \in Unpaid => Dated(n)'
      BY <1>select, <1>ty, <3>2 DEF OverdueFits, Dated
    <3> QED
      BY <3>1, <3>3, <1>list DEF Fits, PaymentFits, WriteFits, GenerationFits, OverdueFits
  <2> QED
    BY <2>1, <1>select, <1>goto
<1>1. ASSUME ClearTrial(j) PROVE proc'[q] = proc[q] \/ Fits(q)'
  <2>1. Goto(j, "fleet")
    BY <1>1 DEF ClearTrial
  <2> QED
    BY <2>1, <1>goto, <1>list, PlainFits
<1>2. ASSUME ReadPastDue(j) PROVE proc'[q] = proc[q] \/ Fits(q)'
  <2>1. CASE Goto(j, "select")
    BY <1>2, <2>1, <1>select DEF ReadPastDue
  <2>2. CASE ~Goto(j, "select")
    <3>1. PICK f \in BOOLEAN, S \in SUBSET {n \in Cycles : cycle[n].status \in Unpaid} :
            Become(j, [proc[j] EXCEPT !.pc = "revert", !.flag = f, !.list = S])
      BY <1>2, <2>2 DEF ReadPastDue
    <3>2. q = j => proc'[q] = [proc[j] EXCEPT !.pc = "revert", !.flag = f, !.list = S]
      BY <3>1, <1>j, <1>ty DEF Become, TypeOK
    <3>3. q = j => proc'[q].pc = "revert" /\ proc'[q].list = S
      BY <3>2, <1>ty DEF Handler
    <3>4. cycle' = cycle /\ fleet' = fleet /\ corrected' = corrected /\ Cycles' = Cycles
      BY <1>2 DEF ReadPastDue, Cycles, Exists
    <3>5. ~fleet'.payg => \A n \in Cycles' \ corrected' : cycle'[n].status \in Unpaid => Dated(n)'
      BY <1>2, <1>ty, <3>4 DEF ReadPastDue, OverdueFits, Dated
    <3>6. S \subseteq Cycles' /\ \A n \in S : cycle'[n].status \in Unpaid
      BY <3>4
    <3> QED
      BY <3>1, <3>3, <3>5, <3>6, <1>others
         DEF Fits, PaymentFits, WriteFits, GenerationFits, OverdueFits
  <2> QED
    BY <2>1, <2>2
<1>3. ASSUME HealFleet(j) PROVE proc'[q] = proc[q] \/ Fits(q)'
  <2>1. fleet'.payg = fleet.payg
    BY <1>3, <1>ty DEF HealFleet, TypeOK
  <2> QED
    BY <1>3, <2>1, <1>select DEF HealFleet
<1>4. ASSUME SelectLate(j) PROVE proc'[q] = proc[q] \/ Fits(q)'
  <2> DEFINE S == {n \in Cycles : cycle[n].status \in Payable /\ cycle[n].due + Grace < now}
  <2>1. Become(j, [proc[j] EXCEPT !.pc = "mark", !.list = S])
    BY <1>4 DEF SelectLate
  <2>2. /\ cycle' = cycle /\ fleet' = fleet /\ now' = now /\ corrected' = corrected
        /\ Cycles' = Cycles
    BY <1>4 DEF SelectLate, Cycles, Exists
  <2>3. ASSUME ~fleet.payg, NEW n \in S, n \notin corrected PROVE Dated(n) /\ cycle[n].end + Grace < now
    <3>1. cycle[n].end <= cycle[n].due
      BY <1>4, <2>3, <1>ty DEF SelectLate, OverdueFits, Dated, Unpaid
    <3>2. cycle[n].end \in Nat /\ cycle[n].due \in Nat /\ now \in Nat /\ Grace \in Nat
          /\ cycle[n].due + Grace < now
      BY <2>3, <1>rows, <1>ty, BillingAssumption DEF TypeOK
    <3> QED
      BY <3>1, <3>2 DEF Dated
  <2>4. S \subseteq Cycles
    OBVIOUS
  <2> HIDE DEF S
  <2>5. q = j => proc'[q] = [proc[j] EXCEPT !.pc = "mark", !.list = S]
    BY <2>1, <1>j, <1>ty DEF Become, TypeOK
  <2>6. q = j => proc'[q].pc = "mark" /\ proc'[q].list = S
    BY <2>5, <1>ty DEF Handler
  <2>7. ~fleet'.payg => \A n \in S \ corrected' : Dated(n)' /\ cycle'[n].end + Grace < now'
    BY <2>2, <2>3 DEF Dated
  <2> QED
    BY <2>1, <2>2, <2>4, <2>6, <2>7, <1>others
       DEF Fits, PaymentFits, WriteFits, GenerationFits, OverdueFits
<1>5. ASSUME FinishJob(j) PROVE proc'[q] = proc[q] \/ Fits(q)'
  BY <1>5, <1>j, <1>ty, OthersStay, IdleFits DEF FinishJob, Done
<1>6. ASSUME NEW n \in Numbers, RevertOverdue(j, n) \/ MarkOverdue(j, n)
      PROVE  proc'[q] = proc[q] \/ Fits(q)'
  BY <1>6, <1>shrink DEF RevertOverdue, MarkOverdue
<1>7. ASSUME NEW n \in Numbers, ReconcilePaygCycle(j, n) PROVE proc'[q] = proc[q] \/ Fits(q)'
  <2>1. CASE Become(j, [proc[j] EXCEPT !.list = @ \ {n}])
    BY <2>1, <1>shrink
  <2>2. CASE Become(j, [proc[j] EXCEPT !.pc = "rewrite", !.n = n, !.list = @ \ {n}])
    <3>1. q = j => proc'[q] = [proc[j] EXCEPT !.pc = "rewrite", !.n = n, !.list = @ \ {n}]
      BY <2>2, <1>j, <1>ty DEF Become, TypeOK
    <3>2. q = j => /\ proc'[q].pc = "rewrite" /\ proc'[q].n = n
                   /\ proc'[q].list \subseteq proc[j].list
      BY <3>1, <1>ty DEF Handler
    <3>3. fleet'.payg /\ n \in Cycles'
      BY <1>7, <1>ty, <1>list DEF ReconcilePaygCycle, WriteFits
    <3> QED
      BY <2>2, <3>2, <3>3, <1>list, <1>others
         DEF Fits, PaymentFits, WriteFits, GenerationFits, OverdueFits
  <2> QED
    BY <1>7, <2>1, <2>2 DEF ReconcilePaygCycle
<1>8. ASSUME NEW d \in Dues, RewriteTotalDue(j, d) PROVE proc'[q] = proc[q] \/ Fits(q)'
  <2>1. Become(j, [proc[j] EXCEPT !.pc = "reconcile", !.n = None])
    BY <1>8 DEF RewriteTotalDue
  <2>2. q = j => proc'[q] = [proc[j] EXCEPT !.pc = "reconcile", !.n = None]
    BY <2>1, <1>j, <1>ty DEF Become, TypeOK
  <2>3. q = j => proc'[q].pc = "reconcile" /\ proc'[q].list = proc[j].list
    BY <2>2, <1>ty DEF Handler
  <2>4. fleet'.payg
    BY <1>8, <1>ty DEF RewriteTotalDue, WriteFits
  <2> QED
    BY <2>1, <2>3, <2>4, <1>list, <1>others
       DEF Fits, PaymentFits, WriteFits, GenerationFits, OverdueFits
<1> QED
  BY <1>1, <1>2, <1>3, <1>4, <1>5, <1>6, <1>7, <1>8 DEF RunJob

\* A step keeps what the handlers remember in accord with the rows.
LEMMA HandlerStep ==
  ASSUME IndInv, TypeOK', [Next]_vars, NEW q \in Procs
  PROVE  Fits(q)'
<1>same. ASSUME proc'[q] = proc[q] PROVE Fits(q)'
  BY <1>same, StayingFits
<1>1. ASSUME NEW p \in Procs, DatabaseFails(p) PROVE proc'[q] = proc[q] \/ Fits(q)'
  BY <1>1, OthersStay, IdleFits DEF DatabaseFails, Done, IndInv
<1>2. CASE Crash
  BY <1>2, IdleFits DEF Crash
<1>3. ASSUME NEW s, UpdateFleetSubscription(s) \/ UpdateFleetTrial(s) PROVE proc' = proc
  BY <1>3 DEF UpdateFleetSubscription, UpdateFleetTrial
<1>4. CASE Tick \/ UNCHANGED vars
  BY <1>4, <1>same DEF Tick, vars
<1>5. ASSUME NEW j \in Jobs, NEW n \in Numbers, MarkFails(j, n)
      PROVE  proc'[q] = proc[q] \/ Fits(q)'
  <2>1. j \in Procs /\ TypeOK /\ proc[j] \in Handler
    BY DEF Procs, IndInv, TypeOK
  <2>2. q # j => proc'[q] = proc[q]
    BY <1>5, <2>1, OthersStay DEF MarkFails
  <2>3. q = j => proc'[q] = [proc[j] EXCEPT !.list = @ \ {n}]
    BY <1>5, <2>1 DEF MarkFails, Become, TypeOK
  <2>4. q = j => /\ proc'[q].pc = proc[q].pc /\ proc'[q].op = proc[q].op /\ proc'[q].n = proc[q].n
                 /\ proc'[q].amount = proc[q].amount /\ proc'[q].paid = proc[q].paid
                 /\ proc'[q].due = proc[q].due /\ proc'[q].from = proc[q].from
                 /\ proc'[q].list \subseteq proc[q].list
    BY <2>1, <2>3 DEF Handler
  <2> QED
    BY <2>2, <2>4, StayingFits
<1> QED
  BY <1>same, <1>1, <1>2, <1>3, <1>4, <1>5, RequestFits, ContinueFits, StartJobFits, RunJobFits DEF Next

\* The inductive invariant holds of the fleet that registration creates.
LEMMA InitInvariant ==
  ASSUME Init PROVE IndInv
<1>days. PICK days \in Periods :
           cycle = [n \in Numbers |-> IF n = 1 THEN FirstCycle(days) ELSE None]
  BY DEF Init
<1>one. 1 \in Numbers /\ days \in Nat \ {0}
  BY BillingAssumption DEF Numbers
<1>first. FirstCycle(days) \in Row
  BY <1>one DEF FirstCycle, Row, Statuses, Unpaid, Payable
<1>1. TypeOK
  <2>1. cycle \in [Numbers -> Row \cup {None}]
    BY <1>first, <1>days
  <2>2. Idle \in Handler
    BY DEF Idle, Handler, Ops, Steps
  <2>3. fleet \in [status : FleetStatuses, trial : Nat \cup {None}, payg : BOOLEAN]
    BY BillingAssumption DEF Init, FleetStatuses
  <2> QED
    BY <2>1, <2>2, <2>3 DEF Init, TypeOK
<1>2. \A n \in Cycles : n = 1 /\ cycle[n] = FirstCycle(days)
  BY <1>days DEF Cycles, Exists
<1>3. \A p \in Procs : proc[p].pc = "idle" /\ proc[p].list = {}
  BY DEF Init, Idle
<1>4. /\ FirstCycle(days).totalPaid = 0 /\ FirstCycle(days).totalDue = 0
      /\ FirstCycle(days).status = "PENDING"
      /\ FirstCycle(days).start < FirstCycle(days).end
  BY <1>one DEF FirstCycle
<1>5. PaidIsBacked /\ NotNegative /\ PaidIsCovered /\ OverdueIsLate
  BY <1>2, <1>4, <1>one DEF Init, PaidIsBacked, NotNegative, PaidIsCovered, OverdueIsLate
<1>6. PeriodsContiguous
  BY <1>2, <1>4 DEF PeriodsContiguous
<1>7. HandlersFit
  BY <1>3 DEF HandlersFit, PaymentFits, WriteFits, GenerationFits
<1>8. DueDatesFit
  BY <1>2, <1>3, <1>4 DEF DueDatesFit, OverdueFits
<1> QED
  BY <1>1, <1>5, <1>6, <1>7, <1>8 DEF IndInv

\* Every step keeps the inductive invariant.
LEMMA StepInvariant ==
  ASSUME IndInv, [Next]_vars PROVE IndInv'
<1>1. TypeOK'
  <2>1. TypeOK /\ HandlersFit
    BY DEF IndInv
  <2> QED
    BY <2>1, RowTypes, HandlerTypes DEF TypeOK, RowTyped, FleetType
<1>2. \A p \in Procs : Fits(p)'
  BY <1>1, HandlerStep
<1>3. HandlersFit'
  BY <1>2 DEF HandlersFit, Fits
<1>4. DueDatesFit'
  BY <1>1, <1>2, RowSafety DEF DueDatesFit, Fits
<1> QED
  BY <1>1, <1>3, <1>4, RowSafety DEF IndInv

\* The invariants and what makes them inductive hold at all times, for any
\* number of concurrent HQ requests and jobs.
THEOREM BillingInductive == Spec => []IndInv
<1>1. Init => IndInv
  BY InitInvariant
<1>2. IndInv /\ [Next]_vars => IndInv'
  BY StepInvariant
<1> QED
  BY <1>1, <1>2, PTL DEF Spec

\* Rows and handlers keep the fields and values of the schema.
THEOREM BillingTypeCorrect == Spec => []TypeOK
<1>1. IndInv => TypeOK
  BY DEF IndInv
<1> QED
  BY <1>1, BillingInductive, PTL

\* No cycle ever claims more money than its positive payment rows add up to,
\* whatever amounts HQ approves.
THEOREM PaymentsBackCycles == Spec => []PaidIsBacked
<1>1. IndInv => PaidIsBacked
  BY DEF IndInv
<1> QED
  BY <1>1, BillingInductive, PTL

\* A PAID invoice of a fixed-rate fleet is covered by the positive payments
\* recorded for it, whatever amounts HQ approves.
THEOREM PaidMeansCovered == Spec => []PaidIsCovered
<1>1. IndInv => PaidIsCovered
  BY DEF IndInv
<1> QED
  BY <1>1, BillingInductive, PTL

\* Cycles are numbered without gaps and their periods join, whoever
\* generates them.
THEOREM PeriodsJoin == Spec => []PeriodsContiguous
<1>1. IndInv => PeriodsContiguous
  BY DEF IndInv
<1> QED
  BY <1>1, BillingInductive, PTL

\* A cycle of a fixed-rate fleet is OVERDUE only once its period and the
\* grace period are over.
THEOREM OverdueMeansLate == Spec => []OverdueIsLate
<1>1. IndInv => OverdueIsLate
  BY DEF IndInv
<1> QED
  BY <1>1, BillingInductive, PTL

=============================================================================
