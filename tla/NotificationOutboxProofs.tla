---------------------- MODULE NotificationOutboxProofs ----------------------
(***************************************************************************)
(* Proofs about NotificationOutbox: the safety properties that the run      *)
(* checks, for any number of notifications, workers and failures.           *)
(***************************************************************************)
EXTENDS NotificationOutbox, FiniteSetTheorems, TLAPS

Stages == {"idle", "read", "count", "send", "mark", "audit", "ok", "err"}
RunType == [pc : Stages, note : Notes \cup {None}]
JobType == [st : {"none", "waiting", "active", "failed"}, made : Nat, stalls : Nat,
            owner : Workers \cup {None}]
NoteType == [status : Statuses, attempts : Nat, born : Nat]

\* What a worker knows of its row.
RunsOK ==
    \A w \in Workers :
        /\ run[w].pc # "idle" => run[w].note \in Notes
        /\ run[w].pc = "mark" => run[w].note \in Silent \/ sends[run[w].note] > 0
        /\ run[w].pc \in {"audit", "ok"} => run[w].note \notin Pending

\* Nothing has happened to a row that does not exist yet.
FreshOK ==
    \A n \in Notes : producer[n] = "idle" =>
        /\ note[n].status = "NONE" /\ note[n].attempts = 0 /\ sends[n] = 0
        /\ job[n].st = "none" /\ n \notin boot
        /\ \A w \in Workers : run[w].pc # "idle" => run[w].note # n

\* A job that is held is active, one that may still run has attempts and
\* stalls left, and inline there are none.
JobsOK ==
    \A n \in Notes :
        /\ job[n].owner # None => job[n].st = "active"
        /\ job[n].st \in {"waiting", "active"} =>
               job[n].made < Attempts /\ job[n].stalls <= MaxStalls
        /\ inline => job[n].st = "none"

\* No code runs while the process is down; the bootstrap reads rows that are no
\* longer in the hands of their producer.
DownOK ==
    /\ ~up => /\ boot = {}
              /\ \A n \in Notes : producer[n] # "enqueue"
              /\ \A w \in Workers : run[w].pc = "idle"
    /\ \A n \in boot : producer[n] = "done"

Shape == TypeOK /\ RunsOK /\ FreshOK /\ JobsOK /\ DownOK /\ SentWasDelivered

\* Workers that may yet count an attempt of n, and those that have counted one
\* and not called the provider.
Ahead(n) == {w \in Workers : /\ run[w].note = n
                             /\ \/ run[w].pc = "count"
                                \/ run[w].pc = "read" /\ note[n].status = "PENDING"}
Sending(n) == {w \in Workers : run[w].note = n /\ run[w].pc = "send"}

\* How often the job of n was given to a worker, at most.
Used(n) ==
    IF job[n].st = "none" THEN 0
    ELSE IF job[n].st = "waiting" THEN job[n].made + job[n].stalls
    ELSE IF job[n].st = "active" THEN job[n].made + job[n].stalls + 1
    ELSE Attempts + MaxStalls

\* Inline: whether n may yet be handed over, by its producer or at the next start.
Due(n) == IF producer[n] = "enqueue" \/ n \in boot \/ ~up THEN 1 ELSE 0

CopiesCounted == \A n \in Notes : sends[n] + Cardinality(Sending(n)) <= note[n].attempts

BudgetOf(n) ==
    IF inline
    THEN note[n].attempts + Cardinality(Ahead(n)) + Due(n) <= 1 + faults
    ELSE note[n].attempts + Cardinality(Ahead(n)) <=
             IF n \in Pending THEN Used(n) ELSE Attempts + MaxStalls

WithinBudget == \A n \in Notes \ dropped : BudgetOf(n)

\* The inductive invariant.
IInv == Shape /\ CopiesCounted /\ WithinBudget

-----------------------------------------------------------------------------
(* How rows, jobs and workers move. *)

LEMMA Typed ==
    ASSUME TypeOK
    PROVE  /\ note \in [Notes -> NoteType] /\ job \in [Notes -> JobType]
           /\ run \in [Workers -> RunType]
BY DEF TypeOK, NoteType, JobType, RunType, Stages

LEMMA GotoFacts ==
    ASSUME run \in [Workers -> RunType], NEW w \in Workers, NEW pc \in Stages, Goto(w, pc)
    PROVE  /\ run' \in [Workers -> RunType]
           /\ run'[w].pc = pc /\ run'[w].note = run[w].note
           /\ \A v \in Workers : v # w => run'[v] = run[v]
<1>1. run' = [run EXCEPT ![w] = [run[w] EXCEPT !.pc = pc]]
  BY DEF Goto
<1>2. run[w] \in RunType
  OBVIOUS
<1>3. /\ [run[w] EXCEPT !.pc = pc] \in RunType
      /\ [run[w] EXCEPT !.pc = pc].pc = pc
      /\ [run[w] EXCEPT !.pc = pc].note = run[w].note
  BY <1>2 DEF RunType
<1>. QED  BY <1>1, <1>3

LEMMA IdleOK == Idle \in RunType /\ Idle.pc = "idle"
BY DEF Idle, RunType, Stages

LEMMA NoJobOK ==
    /\ NoJob \in JobType /\ NoJob.st = "none" /\ NoJob.made = 0 /\ NoJob.stalls = 0
    /\ NoJob.owner = None
BY DEF NoJob, JobType

\* A worker goes back to idle.
LEMMA LeaveFacts ==
    ASSUME run \in [Workers -> RunType], NEW w \in Workers,
           run' = [run EXCEPT ![w] = Idle]
    PROVE  /\ run' \in [Workers -> RunType] /\ run'[w].pc = "idle"
           /\ \A v \in Workers : v # w => run'[v] = run[v]
BY IdleOK

\* A worker starts on n.
LEMMA StartFacts ==
    ASSUME run \in [Workers -> RunType], NEW w \in Workers, NEW n \in Notes,
           run' = [run EXCEPT ![w] = [pc |-> "read", note |-> n]]
    PROVE  /\ run' \in [Workers -> RunType] /\ run'[w].pc = "read" /\ run'[w].note = n
           /\ \A v \in Workers : v # w => run'[v] = run[v]
<1>1. [pc |-> "read", note |-> n] \in RunType
  BY DEF RunType, Stages
<1>. QED  BY <1>1

\* The three ways one field of a row changes.
LEMMA NoteFacts ==
    ASSUME note \in [Notes -> NoteType], NEW n \in Notes
    PROVE  /\ \A s \in Statuses : note' = [note EXCEPT ![n].status = s] =>
                  /\ note' \in [Notes -> NoteType]
                  /\ note'[n].status = s /\ note'[n].attempts = note[n].attempts
                  /\ \A m \in Notes : m # n => note'[m] = note[m]
           /\ note' = [note EXCEPT ![n].attempts = @ + 1] =>
                  /\ note' \in [Notes -> NoteType]
                  /\ note'[n].status = note[n].status
                  /\ note'[n].attempts = note[n].attempts + 1
                  /\ \A m \in Notes : m # n => note'[m] = note[m]
<1>1. note[n] \in NoteType
  OBVIOUS
<1>2. ASSUME NEW s \in Statuses, note' = [note EXCEPT ![n].status = s]
      PROVE  /\ note' \in [Notes -> NoteType]
             /\ note'[n].status = s /\ note'[n].attempts = note[n].attempts
             /\ \A m \in Notes : m # n => note'[m] = note[m]
  <2>1. note' = [note EXCEPT ![n] = [note[n] EXCEPT !.status = s]]
    BY <1>2
  <2>2. /\ [note[n] EXCEPT !.status = s] \in NoteType
        /\ [note[n] EXCEPT !.status = s].status = s
        /\ [note[n] EXCEPT !.status = s].attempts = note[n].attempts
    BY <1>1 DEF NoteType
  <2>. QED  BY <2>1, <2>2
<1>3. ASSUME note' = [note EXCEPT ![n].attempts = @ + 1]
      PROVE  /\ note' \in [Notes -> NoteType]
             /\ note'[n].status = note[n].status
             /\ note'[n].attempts = note[n].attempts + 1
             /\ \A m \in Notes : m # n => note'[m] = note[m]
  <2> DEFINE k == note[n].attempts + 1
  <2>1. note' = [note EXCEPT ![n] = [note[n] EXCEPT !.attempts = k]]
    BY <1>3
  <2>2. k \in Nat
    BY <1>1 DEF NoteType
  <2> HIDE DEF k
  <2>3. /\ [note[n] EXCEPT !.attempts = k] \in NoteType
        /\ [note[n] EXCEPT !.attempts = k].status = note[n].status
        /\ [note[n] EXCEPT !.attempts = k].attempts = k
    BY <1>1, <2>2 DEF NoteType
  <2>. QED  BY <2>1, <2>3 DEF k
<1>. QED  BY <1>2, <1>3

\* giveUp touches only a PENDING row.
LEMMA GiveUpFacts ==
    ASSUME note \in [Notes -> NoteType], NEW n \in Notes, GiveUp(n)
    PROVE  /\ note' \in [Notes -> NoteType]
           /\ \A m \in Notes : note'[m].attempts = note[m].attempts
           /\ \A m \in Notes : \/ note'[m] = note[m] /\ note'[m].status = note[m].status
                               \/ note[m].status = "PENDING" /\ note'[m].status = "FAILED"
<1>1. CASE n \in Pending
  <2>1. note' = [note EXCEPT ![n].status = "FAILED"] /\ "FAILED" \in Statuses
    BY <1>1 DEF GiveUp, Statuses
  <2>2. /\ note' \in [Notes -> NoteType]
        /\ note'[n].status = "FAILED" /\ note'[n].attempts = note[n].attempts
        /\ \A m \in Notes : m # n => note'[m] = note[m]
    BY <2>1, NoteFacts
  <2>3. note[n].status = "PENDING"
    BY <1>1 DEF Pending
  <2>. QED  BY <2>2, <2>3
<1>2. CASE n \notin Pending
  BY <1>2 DEF GiveUp
<1>. QED  BY <1>1, <1>2

LEMMA JobsWithFacts ==
    ASSUME job \in [Notes -> JobType], NEW n \in Notes, job' = JobsWith(n)
    PROVE  /\ job' \in [Notes -> JobType]
           /\ \A m \in Notes : m # n => job'[m] = job[m]
           /\ \/ job'[n] = job[n] /\ job[n].st # "none"
              \/ /\ job[n].st = "none" /\ job'[n].st = "waiting" /\ job'[n].made = 0
                 /\ job'[n].stalls = 0 /\ job'[n].owner = None
<1>1. CASE job[n].st = "none"
  <2> DEFINE j == [NoJob EXCEPT !.st = "waiting"]
  <2>1. job' = [job EXCEPT ![n] = j]
    BY <1>1 DEF JobsWith
  <2>2. /\ j \in JobType /\ j.st = "waiting" /\ j.made = 0 /\ j.stalls = 0 /\ j.owner = None
    BY NoJobOK DEF JobType
  <2> HIDE DEF j
  <2>. QED  BY <1>1, <2>1, <2>2
<1>2. CASE job[n].st # "none"
  BY <1>2 DEF JobsWith
<1>. QED  BY <1>1, <1>2

\* A job changes to j, the others stay.
LEMMA JobFacts ==
    ASSUME job \in [Notes -> JobType], NEW n \in Notes, NEW j \in JobType,
           job' = [job EXCEPT ![n] = j]
    PROVE  /\ job' \in [Notes -> JobType] /\ job'[n] = j
           /\ \A m \in Notes : m # n => job'[m] = job[m]
OBVIOUS

LEMMA EventsTyped ==
    ASSUME failedEv \subseteq [note : Notes, made : Nat], NEW n \in Notes, NEW made \in Nat,
           NEW e \in FailedEvents(n, made)
    PROVE  failedEv \cup {e} \subseteq [note : Notes, made : Nat]
BY DEF FailedEvents

\* A job is kept as failed; a failed one may go for it.
LEMMA BuryFacts ==
    ASSUME TypeOK, NEW n \in Notes, NEW made \in Nat, NEW stalls \in Nat,
           Bury(n, made, stalls)
    PROVE  /\ job' \in [Notes -> JobType]
           /\ job'[n].st = "failed" /\ job'[n].owner = None
           /\ \A m \in Notes \ {n} :
                  \/ job'[m] = job[m]
                  \/ job'[m] = NoJob /\ job[m].st = "failed" /\ m \in dropped'
           /\ dropped \subseteq dropped' /\ dropped' \subseteq Notes
           /\ failedEv' \subseteq [note : Notes, made : Nat]
<1> DEFINE j == [st |-> "failed", made |-> made, stalls |-> stalls, owner |-> None]
           dead == {m \in Notes : job[m].st = "failed"} \cup {n}
           buried == [job EXCEPT ![n] = j]
<1>1. job \in [Notes -> JobType] /\ dropped \subseteq Notes
  BY Typed DEF TypeOK
<1>2. j \in JobType /\ j.st = "failed" /\ j.owner = None
  BY DEF JobType
<1>3. /\ IF Cardinality(dead) <= KeepFailed THEN job' = buried /\ UNCHANGED dropped
         ELSE \E m \in dead \ {n} : /\ job' = [buried EXCEPT ![m] = NoJob]
                                    /\ dropped' = dropped \cup {m}
      /\ \E e \in FailedEvents(n, made) : failedEv' = failedEv \cup {e}
  BY DEF Bury
<1>4. failedEv' \subseteq [note : Notes, made : Nat]
  BY <1>3, EventsTyped DEF TypeOK
<1> HIDE DEF j
<1>5. CASE job' = buried /\ UNCHANGED dropped
  BY <1>1, <1>2, <1>4, <1>5
<1>6. CASE \E m \in dead \ {n} : /\ job' = [buried EXCEPT ![m] = NoJob]
                                 /\ dropped' = dropped \cup {m}
  <2>1. PICK m \in dead \ {n} : /\ job' = [buried EXCEPT ![m] = NoJob]
                                /\ dropped' = dropped \cup {m}
    BY <1>6
  <2>2. m \in Notes /\ m # n /\ job[m].st = "failed"
    BY <2>1
  <2>3. buried \in [Notes -> JobType] /\ buried[n] = j
        /\ \A k \in Notes : k # n => buried[k] = job[k]
    BY <1>1, <1>2
  <2> HIDE DEF buried, dead
  <2>. QED  BY <1>1, <1>2, <1>4, <2>1, <2>2, <2>3, NoJobOK
<1>. QED  BY <1>3, <1>5, <1>6

\* A row is handed over.
LEMMA HandOverFacts ==
    ASSUME TypeOK, NEW n \in Notes, HandOver(n)
    PROVE  \/ /\ inline /\ UNCHANGED job
              /\ \E w \in Workers :
                     /\ run[w].pc = "idle" /\ run'[w].pc = "read" /\ run'[w].note = n
                     /\ run' \in [Workers -> RunType]
                     /\ \A v \in Workers : v # w => run'[v] = run[v]
           \/ /\ ~inline /\ UNCHANGED run /\ job' \in [Notes -> JobType]
              /\ \A m \in Notes : m # n => job'[m] = job[m]
              /\ \/ job'[n] = job[n] /\ job[n].st # "none"
                 \/ /\ job[n].st = "none" /\ job'[n].st = "waiting" /\ job'[n].made = 0
                    /\ job'[n].stalls = 0 /\ job'[n].owner = None
<1>1. CASE inline
  <2>1. UNCHANGED job
    BY <1>1 DEF HandOver
  <2>2. PICK w \in Workers : /\ run[w].pc = "idle"
                             /\ run' = [run EXCEPT ![w] = [pc |-> "read", note |-> n]]
    BY <1>1 DEF HandOver
  <2>3. /\ run' \in [Workers -> RunType] /\ run'[w].pc = "read" /\ run'[w].note = n
        /\ \A v \in Workers : v # w => run'[v] = run[v]
    BY <2>2, Typed, StartFacts
  <2>. QED  BY <1>1, <2>1, <2>2, <2>3
<1>2. CASE ~inline
  <2>1. job' = JobsWith(n) /\ UNCHANGED run
    BY <1>2 DEF HandOver
  <2>. QED  BY <1>2, <2>1, Typed, JobsWithFacts
<1>. QED  BY <1>1, <1>2

-----------------------------------------------------------------------------
(* What workers and jobs know of the rows. *)

\* The parts of Shape after a step in which rows keep what they have come to,
\* counts only grow and every worker and job stays or starts afresh.
LEMMA RunsStep ==
    ASSUME Shape,
           \A n \in Notes : sends'[n] >= sends[n],
           sends' \in [Notes -> Nat],
           \A n \in Notes : note'[n].status = "PENDING" =>
               note[n].status = "PENDING" \/ producer[n] = "idle",
           \A v \in Workers :
               \/ run'[v] = run[v]
               \/ /\ run'[v].pc # "idle" => run'[v].note \in Notes
                  /\ run'[v].pc = "mark" => run'[v].note \in Silent \/ sends'[run'[v].note] > 0
                  /\ run'[v].pc \in {"audit", "ok"} => note'[run'[v].note].status # "PENDING"
    PROVE  RunsOK'
<1> SUFFICES ASSUME NEW v \in Workers
             PROVE  /\ run'[v].pc # "idle" => run'[v].note \in Notes
                    /\ run'[v].pc = "mark" => run'[v].note \in Silent \/ sends'[run'[v].note] > 0
                    /\ run'[v].pc \in {"audit", "ok"} => note'[run'[v].note].status # "PENDING"
  BY DEF RunsOK, Pending
<1>1. CASE run'[v] = run[v]
  <2>1. /\ run[v].pc # "idle" => run[v].note \in Notes
        /\ run[v].pc = "mark" => run[v].note \in Silent \/ sends[run[v].note] > 0
        /\ run[v].pc \in {"audit", "ok"} => run[v].note \notin Pending
    BY DEF Shape, RunsOK
  <2>2. run[v].pc # "idle" => producer[run[v].note] # "idle"
    BY <2>1 DEF Shape, FreshOK
  <2>3. run[v].pc = "mark" => run[v].note \in Silent \/ sends'[run[v].note] > 0
    <3>1. sends \in [Notes -> Nat]
      BY DEF Shape, TypeOK
    <3>2. ASSUME run[v].pc = "mark", run[v].note \notin Silent
          PROVE  sends'[run[v].note] > 0
      <4>1. run[v].note \in Notes /\ sends[run[v].note] > 0
        BY <2>1, <3>2
      <4>. QED  BY <3>1, <4>1
    <3>. QED  BY <3>2
  <2>4. run[v].pc \in {"audit", "ok"} => note'[run[v].note].status # "PENDING"
    BY <2>1, <2>2 DEF Pending
  <2>. QED  BY <1>1, <2>1, <2>3, <2>4
<1>. QED  BY <1>1

LEMMA FreshStep ==
    ASSUME Shape, producer' \in [Notes -> {"idle", "enqueue", "done"}],
           \A n \in Notes : producer'[n] = "idle" =>
               /\ producer[n] = "idle"
               /\ note'[n] = note[n] /\ sends'[n] = sends[n]
               /\ job[n].st = "none" => job'[n].st = "none"
               /\ n \in boot' => n \in boot
               /\ \A w \in Workers : run'[w].pc # "idle" /\ run'[w].note = n =>
                      run[w].pc # "idle" /\ run[w].note = n
    PROVE  FreshOK'
BY DEF Shape, FreshOK

LEMMA JobsStep ==
    ASSUME Shape, inline' = inline,
           \A n \in Notes :
               \/ job'[n] = job[n]
               \/ /\ job'[n].owner # None => job'[n].st = "active"
                  /\ job'[n].st \in {"waiting", "active"} =>
                         job'[n].made < Attempts /\ job'[n].stalls <= MaxStalls
                  /\ inline => job'[n].st = "none"
    PROVE  JobsOK'
BY DEF Shape, JobsOK

LEMMA SentStep ==
    ASSUME Shape, sends' \in [Notes -> Nat], \A n \in Notes : sends'[n] >= sends[n],
           \A n \in Notes : note'[n].status = "SENT" =>
               note[n].status = "SENT" \/ n \in Silent \/ sends[n] > 0
    PROVE  SentWasDelivered'
<1>1. SUFFICES ASSUME NEW n \in Notes \ Silent, note'[n].status = "SENT"
               PROVE  sends'[n] > 0
  BY DEF SentWasDelivered
<1>2. sends[n] > 0
  BY <1>1 DEF Shape, SentWasDelivered
<1>3. sends[n] \in Nat /\ sends'[n] \in Nat /\ sends'[n] >= sends[n]
  BY DEF Shape, TypeOK
<1>. QED  BY <1>2, <1>3

LEMMA DownStep ==
    ASSUME Shape, up' = up, up,
           \A n \in boot' : n \in boot /\ producer'[n] = producer[n]
    PROVE  DownOK'
BY DEF Shape, DownOK

LEMMA ShapeInit == Init => Shape
<1> SUFFICES ASSUME Init  PROVE  Shape
  OBVIOUS
<1>1. /\ run \in [Workers -> RunType] /\ \A w \in Workers : run[w].pc = "idle"
  BY IdleOK DEF Init
<1>2. /\ job \in [Notes -> JobType]
      /\ \A n \in Notes : job[n].st = "none" /\ job[n].owner = None
  BY NoJobOK DEF Init
<1>3. /\ note \in [Notes -> NoteType]
      /\ \A n \in Notes : note[n].status = "NONE" /\ note[n].attempts = 0
  BY DEF Init, NoteType, Statuses
<1>4. TypeOK
  BY <1>1, <1>2, <1>3, OutboxAssumption DEF Init, TypeOK, RunType, JobType, NoteType, Stages
<1>5. RunsOK /\ DownOK
  BY <1>1 DEF Init, RunsOK, DownOK
<1>6. FreshOK
  BY <1>1, <1>2, <1>3 DEF Init, FreshOK
<1>7. JobsOK /\ SentWasDelivered
  BY <1>2, <1>3 DEF JobsOK, SentWasDelivered
<1>. QED  BY <1>4, <1>5, <1>6, <1>7 DEF Shape

\* A step of worker w that goes to stage pc and leaves rows and jobs alone.
LEMMA MoveShape ==
    ASSUME Shape, NEW w \in Workers, NEW pc \in Stages \ {"idle"}, Goto(w, pc),
           up, run[w].pc # "idle",
           UNCHANGED <<note, producer, job, failedEv, boot, up, inline, hook, dropped>>,
           faults' \in Nat, sends' \in [Notes -> Nat],
           \A n \in Notes : sends'[n] >= sends[n],
           \A n \in Notes : producer[n] = "idle" => sends'[n] = sends[n],
           pc = "mark" => run[w].note \in Silent \/ sends'[run[w].note] > 0,
           pc \in {"audit", "ok"} => run[w].note \notin Pending
    PROVE  Shape'
<1>1. TypeOK /\ RunsOK
  BY DEF Shape
<1>2. /\ run' \in [Workers -> RunType] /\ run'[w].pc = pc /\ run'[w].note = run[w].note
      /\ \A v \in Workers : v # w => run'[v] = run[v]
  BY <1>1, Typed, GotoFacts
<1>3. TypeOK'
  BY <1>1, <1>2 DEF TypeOK, RunType, Stages
<1>4. run[w].note \in Notes
  BY <1>1 DEF RunsOK
<1>5. \A v \in Workers :
          \/ run'[v] = run[v]
          \/ /\ run'[v].pc # "idle" => run'[v].note \in Notes
             /\ run'[v].pc = "mark" => run'[v].note \in Silent \/ sends'[run'[v].note] > 0
             /\ run'[v].pc \in {"audit", "ok"} => note'[run'[v].note].status # "PENDING"
  BY <1>2, <1>4 DEF Pending
<1>6. RunsOK'
  BY <1>5, RunsStep
<1>7. FreshOK'
  <2>1. \A n \in Notes : producer'[n] = "idle" =>
            /\ producer[n] = "idle"
            /\ note'[n] = note[n] /\ sends'[n] = sends[n]
            /\ job[n].st = "none" => job'[n].st = "none"
            /\ n \in boot' => n \in boot
            /\ \A v \in Workers : run'[v].pc # "idle" /\ run'[v].note = n =>
                   run[v].pc # "idle" /\ run[v].note = n
    BY <1>2
  <2>. QED  BY <1>1, <2>1, FreshStep DEF TypeOK
<1>8. JobsOK' /\ DownOK'
  BY JobsStep, DownStep
<1>9. SentWasDelivered'
  BY SentStep
<1>. QED  BY <1>3, <1>6, <1>7, <1>8, <1>9 DEF Shape

\* A step in which worker w leaves its row, or no worker does anything.
LEMMA LeaveShape ==
    ASSUME Shape, up, UNCHANGED <<producer, up, inline, hook, sends>>,
           boot' \subseteq boot, faults' \in Nat,
           dropped' \subseteq Notes, failedEv' \subseteq [note : Notes, made : Nat],
           note' \in [Notes -> NoteType],
           \A n \in Notes : /\ producer[n] = "idle" => note'[n] = note[n]
                            /\ \/ note'[n].status = note[n].status
                               \/ note'[n].status = "FAILED",
           run' \in [Workers -> RunType],
           \A v \in Workers : run'[v] = run[v] \/ run'[v].pc = "idle",
           job' \in [Notes -> JobType],
           \A n \in Notes :
               /\ job[n].st = "none" => job'[n].st = "none"
               /\ \/ job'[n] = job[n]
                  \/ /\ job'[n].owner # None => job'[n].st = "active"
                     /\ job'[n].st \in {"waiting", "active"} =>
                            job'[n].made < Attempts /\ job'[n].stalls <= MaxStalls
                     /\ inline => job'[n].st = "none"
    PROVE  Shape'
<1>1. TypeOK
  BY DEF Shape
<1>2. TypeOK'
  BY <1>1 DEF TypeOK, NoteType, JobType, RunType, Stages
<1>3. \A n \in Notes : sends'[n] >= sends[n]
  BY <1>1 DEF TypeOK
<1>4. RunsOK'
  <2>1. \A n \in Notes : note'[n].status = "PENDING" =>
               note[n].status = "PENDING" \/ producer[n] = "idle"
    OBVIOUS
  <2>2. \A v \in Workers :
          \/ run'[v] = run[v]
          \/ /\ run'[v].pc # "idle" => run'[v].note \in Notes
             /\ run'[v].pc = "mark" => run'[v].note \in Silent \/ sends'[run'[v].note] > 0
             /\ run'[v].pc \in {"audit", "ok"} => note'[run'[v].note].status # "PENDING"
    OBVIOUS
  <2>3. sends' \in [Notes -> Nat]
    BY <1>1 DEF TypeOK
  <2>. QED  BY <1>3, <2>1, <2>2, <2>3, RunsStep
<1>5. FreshOK'
  <2>1. \A n \in Notes : producer'[n] = "idle" =>
            /\ producer[n] = "idle"
            /\ note'[n] = note[n] /\ sends'[n] = sends[n]
            /\ job[n].st = "none" => job'[n].st = "none"
            /\ n \in boot' => n \in boot
            /\ \A v \in Workers : run'[v].pc # "idle" /\ run'[v].note = n =>
                   run[v].pc # "idle" /\ run[v].note = n
    OBVIOUS
  <2>. QED  BY <1>1, <2>1, FreshStep DEF TypeOK
<1>6. JobsOK' /\ DownOK'
  BY JobsStep, DownStep
<1>7. SentWasDelivered'
  <2>1. \A n \in Notes : note'[n].status = "SENT" =>
               note[n].status = "SENT" \/ n \in Silent \/ sends[n] > 0
    OBVIOUS
  <2>2. sends' \in [Notes -> Nat]
    BY <1>1 DEF TypeOK
  <2>. QED  BY <1>3, <2>1, <2>2, SentStep
<1>. QED  BY <1>2, <1>4, <1>5, <1>6, <1>7 DEF Shape

-----------------------------------------------------------------------------
(* Every action keeps Shape. *)

LEMMA FaultsTyped ==
    ASSUME TypeOK, NEW kind, Fault(kind)
    PROVE  faults' = faults + 1 /\ faults' \in Nat
BY DEF TypeOK, Fault

LEMMA RunningFacts ==
    ASSUME Shape, NEW w \in Workers, run[w].pc # "idle"
    PROVE  run[w].note \in Notes /\ producer[run[w].note] # "idle"
BY DEF Shape, RunsOK, FreshOK

\* The steps of a worker that stay with its row and leave rows and jobs alone.
LEMMA WorkerMoves ==
    ASSUME Shape, NEW w \in Workers,
           ReadRow(w) \/ Send(w) \/ WriteAudit(w) \/ DatabaseFails(w)
    PROVE  Shape'
<1>1. sends \in [Notes -> Nat] /\ faults \in Nat /\ TypeOK
  BY DEF Shape, TypeOK
<1>2. CASE ReadRow(w)
  <2>1. CASE run[w].note \in Pending
    BY <1>1, <1>2, <2>1, MoveShape DEF ReadRow, At, Stages
  <2>2. CASE run[w].note \notin Pending
    BY <1>1, <1>2, <2>2, MoveShape DEF ReadRow, At, Stages
  <2>. QED  BY <2>1, <2>2
<1>3. CASE Send(w)
  <2>1. run[w].note \in Notes /\ producer[run[w].note] # "idle" /\ up /\ run[w].pc = "send"
    BY <1>3, RunningFacts DEF Send, At
  <2>2. CASE Goto(w, "err") /\ UNCHANGED sends
    BY <1>1, <1>3, <2>1, <2>2, MoveShape DEF Send, Stages
  <2>3. CASE /\ sends' = [sends EXCEPT ![run[w].note] = @ + 1]
             /\ \E next \in {"mark", "err"} : Goto(w, next)
    <3>1. PICK next \in {"mark", "err"} : Goto(w, next)
      BY <2>3
    <3>2. /\ sends' \in [Notes -> Nat] /\ sends'[run[w].note] > 0
          /\ \A n \in Notes : sends'[n] >= sends[n]
          /\ \A n \in Notes : producer[n] = "idle" => sends'[n] = sends[n]
      BY <1>1, <2>1, <2>3
    <3>. QED  BY <1>1, <1>3, <2>1, <3>1, <3>2, MoveShape DEF Send, Stages
  <2>4. CASE run[w].note \in Silent /\ Goto(w, "mark") /\ UNCHANGED sends
    BY <1>1, <1>3, <2>1, <2>4, MoveShape DEF Send, Stages
  <2>. QED  BY <1>3, <2>2, <2>3, <2>4 DEF Send
<1>4. CASE WriteAudit(w)
  <2>1. run[w].note \notin Pending
    BY <1>4 DEF WriteAudit, At, Shape, RunsOK
  <2>. QED  BY <1>1, <1>4, <2>1, MoveShape DEF WriteAudit, At, Stages
<1>5. CASE DatabaseFails(w)
  <2>1. run[w].pc # "idle" /\ up
    BY <1>5 DEF DatabaseFails
  <2>. QED  BY <1>1, <1>5, <2>1, FaultsTyped, MoveShape DEF DatabaseFails, Stages
<1>. QED  BY <1>2, <1>3, <1>4, <1>5

\* The worker's updates of its row.
LEMMA WorkerWrites ==
    ASSUME Shape, NEW w \in Workers, CountAttempt(w) \/ MarkSent(w)
    PROVE  Shape'
<1> DEFINE n == run[w].note
<1>1. TypeOK /\ RunsOK /\ up /\ run[w].pc \in {"count", "mark"}
  BY DEF Shape, CountAttempt, MarkSent, At
<1>2. n \in Notes /\ producer[n] # "idle"
  BY <1>1, RunningFacts
<1>3. /\ note' \in [Notes -> NoteType]
      /\ \A m \in Notes : m # n => note'[m] = note[m]
      /\ \/ note'[n].status = note[n].status /\ run[w].pc = "count"
         \/ note'[n].status = "SENT" /\ run[w].pc = "mark"
  <2>1. CASE CountAttempt(w)
    BY <1>1, <1>2, <2>1, Typed, NoteFacts DEF CountAttempt, At
  <2>2. CASE MarkSent(w)
    BY <1>1, <1>2, <2>2, Typed, NoteFacts DEF MarkSent, At, Statuses
  <2>. QED  BY <2>1, <2>2
<1>4. PICK pc \in {"send", "audit", "ok"} : Goto(w, pc) /\ (pc = "send" => run[w].pc = "count")
                                            /\ (pc # "send" => run[w].pc = "mark")
  BY DEF CountAttempt, MarkSent, At
<1>5. /\ run' \in [Workers -> RunType] /\ run'[w].pc = pc /\ run'[w].note = n
      /\ \A v \in Workers : v # w => run'[v] = run[v]
  BY <1>1, <1>4, Typed, GotoFacts DEF Stages
<1>6. UNCHANGED <<producer, job, failedEv, boot, up, inline, hook, sends, faults, dropped>>
  BY DEF CountAttempt, MarkSent
<1> HIDE DEF n
<1>7. TypeOK'
  BY <1>1, <1>3, <1>5, <1>6 DEF TypeOK, NoteType, RunType, Stages
<1>8. sends' \in [Notes -> Nat] /\ \A m \in Notes : sends'[m] >= sends[m]
  BY <1>1, <1>6 DEF TypeOK
<1>9. run[w].pc = "mark" => n \in Silent \/ sends[n] > 0
  BY <1>1, <1>2 DEF RunsOK, n
<1>10. RunsOK'
  <2>1. \A m \in Notes : note'[m].status = "PENDING" => note[m].status = "PENDING"
    BY <1>3
  <2>2. \A v \in Workers :
          \/ run'[v] = run[v]
          \/ /\ run'[v].pc # "idle" => run'[v].note \in Notes
             /\ run'[v].pc = "mark" => run'[v].note \in Silent \/ sends'[run'[v].note] > 0
             /\ run'[v].pc \in {"audit", "ok"} => note'[run'[v].note].status # "PENDING"
    BY <1>2, <1>3, <1>4, <1>5
  <2>. QED  BY <1>8, <2>1, <2>2, RunsStep
<1>11. FreshOK'
  BY <1>1, <1>2, <1>3, <1>5, <1>6, FreshStep DEF TypeOK
<1>12. JobsOK' /\ DownOK'
  BY <1>1, <1>6, JobsStep, DownStep
<1>13. SentWasDelivered'
  BY <1>3, <1>8, <1>9, SentStep
<1>. QED  BY <1>7, <1>10, <1>11, <1>12, <1>13 DEF Shape

\* The steps in which a worker leaves, or a job or an event is given up.
LEMMA CompleteShape ==
    ASSUME Shape, NEW w \in Workers, Complete(w)
    PROVE  Shape'
<1> DEFINE n == run[w].note
<1>1. TypeOK /\ JobsOK /\ run[w].pc = "ok" /\ up
  BY DEF Shape, Complete, At
<1>2. n \in Notes
  BY <1>1, RunningFacts
<1>3. job \in [Notes -> JobType]
  BY <1>1, Typed
<1>4. /\ run' \in [Workers -> RunType] /\ run'[w].pc = "idle"
      /\ \A v \in Workers : v # w => run'[v] = run[v]
  BY <1>1, Typed, LeaveFacts DEF Complete
<1>5. job' \in [Notes -> JobType] /\ \A m \in Notes : job'[m] = job[m] \/ job'[m] = NoJob
  BY <1>2, <1>3, NoJobOK DEF Complete
<1>6. note' \in [Notes -> NoteType] /\ faults' \in Nat
      /\ dropped' \subseteq Notes /\ failedEv' \subseteq [note : Notes, made : Nat]
  BY <1>1, Typed DEF Complete, TypeOK
<1>. QED  BY <1>1, <1>4, <1>5, <1>6, NoJobOK, LeaveShape DEF Complete

LEMMA BuryShape ==
    ASSUME Shape, NEW n \in Notes, NEW made \in Nat, NEW stalls \in Nat, Bury(n, made, stalls),
           job[n].st = "active", up,
           run' \in [Workers -> RunType],
           \A v \in Workers : run'[v] = run[v] \/ run'[v].pc = "idle",
           UNCHANGED <<note, producer, boot, up, inline, hook, sends, faults>>
    PROVE  Shape'
<1>1. TypeOK /\ JobsOK
  BY DEF Shape
<1>2. /\ job' \in [Notes -> JobType]
      /\ job'[n].st = "failed" /\ job'[n].owner = None
      /\ \A m \in Notes \ {n} :
             \/ job'[m] = job[m]
             \/ job'[m] = NoJob /\ job[m].st = "failed" /\ m \in dropped'
      /\ dropped \subseteq dropped' /\ dropped' \subseteq Notes
      /\ failedEv' \subseteq [note : Notes, made : Nat]
  BY <1>1, BuryFacts
<1>3. ~inline
  BY <1>1 DEF JobsOK
<1>4. \A m \in Notes :
         /\ job[m].st = "none" => job'[m].st = "none"
         /\ \/ job'[m] = job[m]
            \/ /\ job'[m].owner # None => job'[m].st = "active"
               /\ job'[m].st \in {"waiting", "active"} =>
                      job'[m].made < Attempts /\ job'[m].stalls <= MaxStalls
               /\ inline => job'[m].st = "none"
  BY <1>2, <1>3, NoJobOK
<1>5. note' \in [Notes -> NoteType] /\ faults' \in Nat
  BY <1>1, Typed DEF TypeOK
<1>. QED  BY <1>2, <1>4, <1>5, LeaveShape

\* A job goes back to the queue, having used an attempt or a stall.
LEMMA RequeueShape ==
    ASSUME Shape, NEW n \in Notes, NEW j \in JobType, job' = [job EXCEPT ![n] = j],
           job[n].st = "active", j.st \in {"waiting", "active"}, j.owner = None,
           j.made < Attempts, j.stalls <= MaxStalls, up,
           run' \in [Workers -> RunType],
           \A v \in Workers : run'[v] = run[v] \/ run'[v].pc = "idle",
           failedEv' \subseteq [note : Notes, made : Nat], faults' \in Nat,
           UNCHANGED <<note, producer, boot, up, inline, hook, sends, dropped>>
    PROVE  Shape'
<1>1. TypeOK /\ JobsOK
  BY DEF Shape
<1>2. /\ job' \in [Notes -> JobType] /\ job'[n] = j
      /\ \A m \in Notes : m # n => job'[m] = job[m]
  BY <1>1, Typed, JobFacts
<1>3. ~inline
  BY <1>1 DEF JobsOK
<1>4. \A m \in Notes :
         /\ job[m].st = "none" => job'[m].st = "none"
         /\ \/ job'[m] = job[m]
            \/ /\ job'[m].owner # None => job'[m].st = "active"
               /\ job'[m].st \in {"waiting", "active"} =>
                      job'[m].made < Attempts /\ job'[m].stalls <= MaxStalls
               /\ inline => job'[m].st = "none"
  BY <1>2, <1>3
<1>5. note' \in [Notes -> NoteType] /\ dropped' \subseteq Notes
  BY <1>1, Typed DEF TypeOK
<1>. QED  BY <1>2, <1>4, <1>5, LeaveShape

\* What a job is after an attempt, a stall or a lost lock.
LEMMA JobMoves ==
    ASSUME TypeOK, NEW n \in Notes
    PROVE  LET made == job[n].made + 1
               retry == [job[n] EXCEPT !.st = "waiting", !.made = made, !.owner = None]
               again == [job[n] EXCEPT !.st = "waiting", !.stalls = job[n].stalls + 1]
               loose == [job[n] EXCEPT !.owner = None]
           IN  /\ retry \in JobType /\ retry.st = "waiting" /\ retry.made = made
               /\ retry.stalls = job[n].stalls /\ retry.owner = None
               /\ again \in JobType /\ again.st = "waiting" /\ again.made = job[n].made
               /\ again.stalls = job[n].stalls + 1 /\ again.owner = job[n].owner
               /\ loose \in JobType /\ loose.st = job[n].st /\ loose.made = job[n].made
               /\ loose.stalls = job[n].stalls /\ loose.owner = None
<1> DEFINE j == job[n]
           k == j.made + 1
           s == j.stalls + 1
<1>1. j \in JobType
  BY Typed
<1>2. k \in Nat /\ s \in Nat
  BY <1>1 DEF JobType
<1> HIDE DEF j, k, s
<1>3. /\ [j EXCEPT !.st = "waiting", !.made = k, !.owner = None] \in JobType
      /\ [j EXCEPT !.st = "waiting", !.stalls = s] \in JobType
      /\ [j EXCEPT !.owner = None] \in JobType
  BY <1>1, <1>2 DEF JobType
<1>4. LET retry == [j EXCEPT !.st = "waiting", !.made = k, !.owner = None]
          again == [j EXCEPT !.st = "waiting", !.stalls = s]
          loose == [j EXCEPT !.owner = None]
      IN  /\ retry.st = "waiting" /\ retry.made = k
          /\ retry.stalls = j.stalls /\ retry.owner = None
          /\ again.st = "waiting" /\ again.made = j.made
          /\ again.stalls = s /\ again.owner = j.owner
          /\ loose.st = j.st /\ loose.made = j.made
          /\ loose.stalls = j.stalls /\ loose.owner = None
  BY <1>1, <1>2 DEF JobType
<1>. QED  BY <1>3, <1>4 DEF j, k, s

LEMMA FailAttemptShape ==
    ASSUME Shape, NEW w \in Workers, FailAttempt(w)
    PROVE  Shape'
<1> DEFINE n == run[w].note
           made == job[n].made + 1
           j == [job[n] EXCEPT !.st = "waiting", !.made = made, !.owner = None]
<1>1. TypeOK /\ JobsOK /\ run[w].pc = "err" /\ up /\ ~inline
  BY DEF Shape, FailAttempt, At
<1>2. n \in Notes /\ w # None
  BY <1>1, RunningFacts, OutboxAssumption
<1>3. job[n] \in JobType /\ made \in Nat /\ job[n].stalls \in Nat
  <2>1. job[n] \in JobType
    BY <1>1, <1>2, Typed
  <2>. QED  BY <2>1 DEF JobType
<1>4. run' \in [Workers -> RunType] /\ \A v \in Workers : run'[v] = run[v] \/ run'[v].pc = "idle"
  <2>1. /\ run' \in [Workers -> RunType] /\ run'[w].pc = "idle"
        /\ \A v \in Workers : v # w => run'[v] = run[v]
    BY <1>1, Typed, LeaveFacts DEF FailAttempt
  <2>. QED  BY <2>1
<1>5. UNCHANGED <<note, producer, boot, up, inline, hook, sends, faults>>
  BY DEF FailAttempt
<1>6. faults' \in Nat /\ note' \in [Notes -> NoteType]
  BY <1>1, <1>5, Typed DEF TypeOK
<1>7. CASE ~Owns(w) /\ UNCHANGED <<job, failedEv, dropped>>
  <2>1. /\ job' \in [Notes -> JobType] /\ dropped' \subseteq Notes
        /\ failedEv' \subseteq [note : Notes, made : Nat]
    BY <1>1, <1>7, Typed DEF TypeOK
  <2>. QED  BY <1>1, <1>4, <1>5, <1>6, <1>7, <2>1, LeaveShape
<1>8. CASE /\ Owns(w) /\ made < Attempts
           /\ job' = [job EXCEPT ![n] = j]
           /\ \E e \in FailedEvents(n, made) : failedEv' = failedEv \cup {e}
           /\ UNCHANGED dropped
  <2>1. failedEv' \subseteq [note : Notes, made : Nat]
    BY <1>1, <1>2, <1>3, <1>8, EventsTyped DEF TypeOK
  <2>2. job[n].st = "active" /\ job[n].stalls <= MaxStalls
    BY <1>1, <1>2, <1>8 DEF Owns, JobsOK
  <2>3. /\ j \in JobType /\ j.st = "waiting" /\ j.made = made
        /\ j.stalls = job[n].stalls /\ j.owner = None
    BY <1>1, <1>2, JobMoves
  <2> HIDE DEF j, n, made
  <2>. QED  BY <1>1, <1>2, <1>4, <1>5, <1>6, <1>8, <2>1, <2>2, <2>3, RequeueShape
<1>9. CASE Owns(w) /\ made >= Attempts /\ Bury(n, made, job[n].stalls)
  <2>1. job[n].st = "active"
    BY <1>1, <1>2, <1>9 DEF Owns, JobsOK
  <2> HIDE DEF j, n, made
  <2>. QED  BY <1>1, <1>2, <1>3, <1>4, <1>5, <1>9, <2>1, BuryShape
<1>. QED  BY <1>7, <1>8, <1>9 DEF FailAttempt

LEMMA TakeBackShape ==
    ASSUME Shape, NEW n \in Notes, TakeBack(n) \/ LockExpires(n)
    PROVE  Shape'
<1>1. TypeOK /\ JobsOK /\ up /\ job[n].st = "active"
  BY DEF Shape, TakeBack, LockExpires
<1>2. job[n] \in JobType /\ job[n].made \in Nat /\ job[n].stalls \in Nat
  <2>1. job[n] \in JobType
    BY <1>1, Typed
  <2>. QED  BY <2>1 DEF JobType
<1>3. run \in [Workers -> RunType] /\ failedEv \subseteq [note : Notes, made : Nat]
      /\ faults \in Nat
  BY <1>1, Typed DEF TypeOK
<1>4. job[n].made < Attempts /\ job[n].stalls <= MaxStalls
  BY <1>1 DEF JobsOK
<1>5. CASE LockExpires(n)
  <2> DEFINE j == [job[n] EXCEPT !.owner = None]
  <2>1. job' = [job EXCEPT ![n] = j]
    BY <1>5 DEF LockExpires
  <2>2. /\ j \in JobType /\ j.st = job[n].st /\ j.made = job[n].made
        /\ j.stalls = job[n].stalls /\ j.owner = None
    BY <1>1, JobMoves
  <2>3. faults' \in Nat /\ UNCHANGED <<note, producer, run, failedEv, boot, up, inline, hook,
                                       sends, dropped>>
    BY <1>1, <1>5, FaultsTyped DEF LockExpires
  <2> HIDE DEF j
  <2>. QED  BY <1>1, <1>3, <1>4, <2>1, <2>2, <2>3, RequeueShape
<1>6. CASE TakeBack(n)
  <2> DEFINE j == [job[n] EXCEPT !.st = "waiting", !.stalls = job[n].stalls + 1]
  <2>1. /\ UNCHANGED <<note, producer, run, boot, up, inline, hook, sends, faults>>
        /\ job[n].owner = None
    BY <1>6 DEF TakeBack
  <2>2. CASE /\ job[n].stalls < MaxStalls /\ job' = [job EXCEPT ![n] = j]
             /\ UNCHANGED <<failedEv, dropped>>
    <3>1. /\ j \in JobType /\ j.st = "waiting" /\ j.made = job[n].made
          /\ j.stalls = job[n].stalls + 1 /\ j.owner = job[n].owner
      BY <1>1, JobMoves
    <3>2. j.stalls <= MaxStalls
      BY <1>2, <2>2, <3>1, OutboxAssumption
    <3> HIDE DEF j
    <3>. QED  BY <1>1, <1>3, <1>4, <2>1, <2>2, <3>1, <3>2, RequeueShape
  <2>3. CASE Bury(n, job[n].made, job[n].stalls)
    BY <1>1, <1>2, <1>3, <2>1, <2>3, BuryShape
  <2>. QED  BY <1>6, <2>2, <2>3 DEF TakeBack
<1>. QED  BY <1>5, <1>6

LEMMA FailureShape ==
    ASSUME Shape
    PROVE  /\ \A e \in failedEv : HandleFailedJob(e) => Shape'
           /\ \A w \in Workers : HandleInlineFailure(w) => Shape'
<1>1. TypeOK /\ FreshOK /\ run \in [Workers -> RunType] /\ job \in [Notes -> JobType]
      /\ note \in [Notes -> NoteType]
  BY Typed DEF Shape
<1>2. ASSUME NEW e \in failedEv, HandleFailedJob(e)  PROVE  Shape'
  <2>1. e.note \in Notes
    BY <1>1 DEF TypeOK
  <2>2. GiveUp(e.note) \/ UNCHANGED note
    BY <1>2 DEF HandleFailedJob
  <2>3. faults' \in Nat
    BY <1>1, <1>2, FaultsTyped DEF HandleFailedJob, TypeOK
  <2>4. /\ note' \in [Notes -> NoteType]
        /\ \A m \in Notes : note'[m].attempts = note[m].attempts
        /\ \A m \in Notes : \/ note'[m] = note[m]
                            \/ note[m].status = "PENDING" /\ note'[m].status = "FAILED"
    <3>1. CASE UNCHANGED note
      BY <1>1, <3>1
    <3>2. CASE GiveUp(e.note)
      BY <1>1, <2>1, <3>2, GiveUpFacts
    <3>. QED  BY <2>2, <3>1, <3>2
  <2>5. \A m \in Notes : producer[m] = "idle" => note[m].status = "NONE"
    BY <1>1 DEF FreshOK
  <2>6. failedEv' \subseteq [note : Notes, made : Nat] /\ dropped' \subseteq Notes
    BY <1>1, <1>2 DEF HandleFailedJob, TypeOK
  <2>7. /\ \A m \in Notes : producer[m] = "idle" => note'[m] = note[m]
        /\ \A m \in Notes : note'[m].status = note[m].status \/ note'[m].status = "FAILED"
    BY <2>4, <2>5
  <2>. QED  BY <1>1, <1>2, <2>3, <2>4, <2>6, <2>7, LeaveShape DEF HandleFailedJob
<1>3. ASSUME NEW w \in Workers, HandleInlineFailure(w)  PROVE  Shape'
  <2>1. run[w].note \in Notes
    BY <1>3, RunningFacts DEF HandleInlineFailure, At
  <2>2. GiveUp(run[w].note) \/ UNCHANGED note
    BY <1>3 DEF HandleInlineFailure
  <2>3. faults' \in Nat
    BY <1>1, <1>3, FaultsTyped DEF HandleInlineFailure, TypeOK
  <2>4. /\ note' \in [Notes -> NoteType]
        /\ \A m \in Notes : \/ note'[m] = note[m]
                            \/ note[m].status = "PENDING" /\ note'[m].status = "FAILED"
    <3>1. CASE UNCHANGED note
      BY <1>1, <3>1
    <3>2. CASE GiveUp(run[w].note)
      BY <1>1, <2>1, <3>2, GiveUpFacts
    <3>. QED  BY <2>2, <3>1, <3>2
  <2>5. \A m \in Notes : producer[m] = "idle" => note[m].status = "NONE"
    BY <1>1 DEF FreshOK
  <2>6. failedEv' \subseteq [note : Notes, made : Nat] /\ dropped' \subseteq Notes
    BY <1>1, <1>3 DEF HandleInlineFailure, TypeOK
  <2>7. /\ run' \in [Workers -> RunType] /\ run'[w].pc = "idle"
        /\ \A v \in Workers : v # w => run'[v] = run[v]
    BY <1>1, <1>3, LeaveFacts DEF HandleInlineFailure
  <2>8. /\ \A m \in Notes : producer[m] = "idle" => note'[m] = note[m]
        /\ \A m \in Notes : note'[m].status = note[m].status \/ note'[m].status = "FAILED"
    BY <2>4, <2>5
  <2>. QED  BY <1>1, <1>3, <2>3, <2>4, <2>6, <2>7, <2>8, LeaveShape
            DEF HandleInlineFailure, At
<1>. QED  BY <1>2, <1>3

\* The steps that create a row or hand one over.
LEMMA CreateShape ==
    ASSUME Shape, NEW n \in Notes, CreateNotification(n)
    PROVE  Shape'
<1> DEFINE row == [status |-> "PENDING", attempts |-> 0, born |-> Cardinality(Created)]
<1>1. /\ TypeOK /\ FreshOK /\ DownOK /\ up /\ producer[n] = "idle"
      /\ UNCHANGED <<job, run, failedEv, boot, up, inline, hook, sends, faults, dropped>>
      /\ note' = [note EXCEPT ![n] = row]
      /\ producer' = [producer EXCEPT ![n] = "enqueue"]
  BY DEF Shape, CreateNotification
<1>2. Cardinality(Created) \in Nat
  <2>1. IsFiniteSet(Created)
    BY FS_Subset, OutboxAssumption DEF Created
  <2>. QED  BY <2>1, FS_CardinalityType
<1>3. row \in NoteType /\ row.status = "PENDING"
  BY <1>2 DEF NoteType, Statuses
<1> HIDE DEF row
<1>4. /\ note' \in [Notes -> NoteType] /\ note'[n].status = "PENDING"
      /\ \A m \in Notes : m # n => note'[m] = note[m]
  BY <1>1, <1>3, Typed
<1>5. /\ producer \in [Notes -> {"idle", "enqueue", "done"}]
      /\ sends' \in [Notes -> Nat] /\ \A m \in Notes : sends'[m] >= sends[m]
  BY <1>1 DEF TypeOK
<1>6. /\ producer' \in [Notes -> {"idle", "enqueue", "done"}] /\ producer'[n] = "enqueue"
      /\ \A m \in Notes : m # n => producer'[m] = producer[m]
  BY <1>1, <1>5
<1>7. TypeOK'
  BY <1>1, <1>4, <1>6 DEF TypeOK, NoteType
<1>8. RunsOK'
  <2>1. \A m \in Notes : note'[m].status = "PENDING" =>
            note[m].status = "PENDING" \/ producer[m] = "idle"
    BY <1>1, <1>4
  <2>. QED  BY <1>1, <1>5, <2>1, RunsStep
<1>9. FreshOK'
  BY <1>1, <1>4, <1>6, FreshStep
<1>10. JobsOK'
  BY <1>1, JobsStep
<1>11. DownOK'
  <2>1. n \notin boot
    BY <1>1 DEF FreshOK
  <2>2. \A m \in boot' : m \in Notes /\ m \in boot /\ producer'[m] = producer[m]
    BY <1>1, <1>6, <2>1 DEF TypeOK
  <2>. QED  BY <1>1, <2>2, DownStep
<1>12. SentWasDelivered'
  BY <1>1, <1>4, <1>5, SentStep
<1>. QED  BY <1>7, <1>8, <1>9, <1>10, <1>11, <1>12 DEF Shape

\* A row handed over, rows and deliveries being left alone.
LEMMA HandOverShape ==
    ASSUME Shape, NEW n \in Notes, HandOver(n), up, producer[n] # "idle",
           producer' \in [Notes -> {"idle", "enqueue", "done"}],
           \A m \in Notes : /\ producer'[m] = producer[m] \/ (m = n /\ producer'[m] = "done"),
           boot' \subseteq boot,
           UNCHANGED <<note, failedEv, up, inline, hook, sends, faults, dropped>>
    PROVE  Shape'
<1>1. TypeOK /\ DownOK
  BY DEF Shape
<1>2. /\ run \in [Workers -> RunType] /\ job \in [Notes -> JobType]
      /\ sends' \in [Notes -> Nat] /\ \A m \in Notes : sends'[m] >= sends[m]
  BY <1>1, Typed DEF TypeOK
<1>3. \/ /\ inline /\ UNCHANGED job
         /\ \E w \in Workers :
                /\ run[w].pc = "idle" /\ run'[w].pc = "read" /\ run'[w].note = n
                /\ run' \in [Workers -> RunType]
                /\ \A v \in Workers : v # w => run'[v] = run[v]
      \/ /\ ~inline /\ UNCHANGED run /\ job' \in [Notes -> JobType]
         /\ \A m \in Notes : m # n => job'[m] = job[m]
         /\ \/ job'[n] = job[n] /\ job[n].st # "none"
            \/ /\ job[n].st = "none" /\ job'[n].st = "waiting" /\ job'[n].made = 0
               /\ job'[n].stalls = 0 /\ job'[n].owner = None
  BY <1>1, HandOverFacts
<1>4. /\ run' \in [Workers -> RunType] /\ job' \in [Notes -> JobType]
      /\ \A v \in Workers : run'[v] = run[v] \/ (run'[v].pc = "read" /\ run'[v].note = n)
      /\ \A m \in Notes : m # n => job'[m] = job[m]
  BY <1>2, <1>3
<1>5. \/ job'[n] = job[n]
      \/ /\ ~inline /\ job'[n].st = "waiting" /\ job'[n].made = 0
         /\ job'[n].stalls = 0 /\ job'[n].owner = None
  BY <1>3
<1>6. TypeOK'
  BY <1>1, <1>4 DEF TypeOK, RunType, JobType, Stages
<1>7. RunsOK'
  <2>1. \A v \in Workers :
          \/ run'[v] = run[v]
          \/ /\ run'[v].pc # "idle" => run'[v].note \in Notes
             /\ run'[v].pc = "mark" => run'[v].note \in Silent \/ sends'[run'[v].note] > 0
             /\ run'[v].pc \in {"audit", "ok"} => note'[run'[v].note].status # "PENDING"
    BY <1>4
  <2>. QED  BY <1>2, <2>1, RunsStep
<1>8. FreshOK'
  <2>1. \A m \in Notes : producer'[m] = "idle" =>
            /\ producer[m] = "idle"
            /\ note'[m] = note[m] /\ sends'[m] = sends[m]
            /\ job[m].st = "none" => job'[m].st = "none"
            /\ m \in boot' => m \in boot
            /\ \A v \in Workers : run'[v].pc # "idle" /\ run'[v].note = m =>
                   run[v].pc # "idle" /\ run[v].note = m
    BY <1>4
  <2>. QED  BY <2>1, FreshStep
<1>9. JobsOK'
  <2>1. 0 < Attempts /\ 0 <= MaxStalls
    BY OutboxAssumption
  <2>2. \A m \in Notes :
          \/ job'[m] = job[m]
          \/ /\ job'[m].owner # None => job'[m].st = "active"
             /\ job'[m].st \in {"waiting", "active"} =>
                    job'[m].made < Attempts /\ job'[m].stalls <= MaxStalls
             /\ inline => job'[m].st = "none"
    BY <1>4, <1>5, <2>1
  <2>. QED  BY <2>2, JobsStep
<1>10. DownOK'
  BY <1>1 DEF DownOK, TypeOK
<1>11. SentWasDelivered'
  BY <1>2, SentStep
<1>. QED  BY <1>6, <1>7, <1>8, <1>9, <1>10, <1>11 DEF Shape

LEMMA EnqueueShape ==
    ASSUME Shape, NEW n \in Notes, EnqueueNotification(n) \/ EnqueuePending(n)
    PROVE  Shape'
<1>1. /\ TypeOK /\ FreshOK /\ DownOK /\ up /\ producer \in [Notes -> {"idle", "enqueue", "done"}]
  BY DEF Shape, TypeOK, EnqueueNotification, EnqueuePending
<1>2. CASE EnqueueNotification(n)
  <2>1. /\ producer[n] = "enqueue" /\ producer' = [producer EXCEPT ![n] = "done"]
        /\ UNCHANGED <<note, failedEv, boot, up, inline, hook, sends, dropped>>
    BY <1>2 DEF EnqueueNotification
  <2>2. /\ producer' \in [Notes -> {"idle", "enqueue", "done"}]
        /\ \A m \in Notes : producer'[m] = producer[m] \/ (m = n /\ producer'[m] = "done")
        /\ \A m \in Notes : m # n => producer'[m] = producer[m]
        /\ producer'[n] = "done"
    BY <1>1, <2>1
  <2>3. CASE HandOver(n) /\ UNCHANGED faults
    BY <1>1, <2>1, <2>2, <2>3, HandOverShape
  <2>4. CASE ~inline /\ Fault("queue") /\ UNCHANGED <<job, run>>
    <3>1. faults' \in Nat
      BY <1>1, <2>4, FaultsTyped
    <3>2. TypeOK'
      BY <1>1, <2>1, <2>2, <2>4, <3>1 DEF TypeOK
    <3>3. sends' \in [Notes -> Nat] /\ \A m \in Notes : sends'[m] >= sends[m]
      BY <1>1, <2>1 DEF TypeOK
    <3>4. RunsOK'
      BY <2>1, <2>4, <3>3, RunsStep
    <3>5. FreshOK'
      BY <2>1, <2>2, <2>4, FreshStep
    <3>6. JobsOK' /\ SentWasDelivered'
      BY <2>1, <2>4, <3>3, JobsStep, SentStep
    <3>7. DownOK'
      BY <1>1, <2>1, <2>2 DEF DownOK, TypeOK
    <3>. QED  BY <3>2, <3>4, <3>5, <3>6, <3>7 DEF Shape
  <2>. QED  BY <1>2, <2>3, <2>4 DEF EnqueueNotification
<1>3. CASE EnqueuePending(n)
  <2>1. n \in boot /\ boot' = boot \ {n} /\ HandOver(n)
        /\ UNCHANGED <<note, producer, failedEv, up, inline, hook, sends, faults, dropped>>
    BY <1>3 DEF EnqueuePending
  <2>2. producer[n] # "idle"
    BY <1>1, <2>1 DEF DownOK
  <2>. QED  BY <1>1, <2>1, <2>2, HandOverShape
<1>. QED  BY <1>2, <1>3

LEMMA TakeShape ==
    ASSUME Shape, NEW w \in Workers, NEW n \in Notes, TakeJob(w, n)
    PROVE  Shape'
<1> DEFINE j == [job[n] EXCEPT !.st = "active", !.owner = w]
<1>1. /\ TypeOK /\ FreshOK /\ JobsOK /\ up /\ run[w].pc = "idle" /\ job[n].st = "waiting"
      /\ job' = [job EXCEPT ![n] = j]
      /\ run' = [run EXCEPT ![w] = [pc |-> "read", note |-> n]]
      /\ UNCHANGED <<note, producer, failedEv, boot, up, inline, hook, sends, faults, dropped>>
  BY DEF Shape, TakeJob
<1>2. job[n] \in JobType
  BY <1>1, Typed
<1>3. /\ j \in JobType /\ j.st = "active" /\ j.made = job[n].made /\ j.stalls = job[n].stalls
  BY <1>2 DEF JobType
<1> HIDE DEF j
<1>4. /\ job' \in [Notes -> JobType] /\ job'[n] = j
      /\ \A m \in Notes : m # n => job'[m] = job[m]
  BY <1>1, <1>3, Typed, JobFacts
<1>5. /\ run' \in [Workers -> RunType] /\ run'[w].pc = "read" /\ run'[w].note = n
      /\ \A v \in Workers : v # w => run'[v] = run[v]
  BY <1>1, Typed, StartFacts
<1>6. producer[n] # "idle"
  BY <1>1 DEF FreshOK
<1>7. TypeOK'
  BY <1>1, <1>4, <1>5 DEF TypeOK, RunType, JobType, Stages
<1>8. sends' \in [Notes -> Nat] /\ \A m \in Notes : sends'[m] >= sends[m]
  BY <1>1 DEF TypeOK
<1>9. RunsOK'
  <2>1. \A v \in Workers :
          \/ run'[v] = run[v]
          \/ /\ run'[v].pc # "idle" => run'[v].note \in Notes
             /\ run'[v].pc = "mark" => run'[v].note \in Silent \/ sends'[run'[v].note] > 0
             /\ run'[v].pc \in {"audit", "ok"} => note'[run'[v].note].status # "PENDING"
    BY <1>5
  <2>. QED  BY <1>1, <1>8, <2>1, RunsStep
<1>10. FreshOK'
  <2>1. \A m \in Notes : producer'[m] = "idle" =>
            /\ producer[m] = "idle"
            /\ note'[m] = note[m] /\ sends'[m] = sends[m]
            /\ job[m].st = "none" => job'[m].st = "none"
            /\ m \in boot' => m \in boot
            /\ \A v \in Workers : run'[v].pc # "idle" /\ run'[v].note = m =>
                   run[v].pc # "idle" /\ run[v].note = m
    BY <1>1, <1>4, <1>5, <1>6
  <2>. QED  BY <1>1, <2>1, FreshStep DEF TypeOK
<1>11. JobsOK'
  <2>1. job[n].made < Attempts /\ job[n].stalls <= MaxStalls /\ ~inline
    BY <1>1 DEF JobsOK
  <2>2. \A m \in Notes :
          \/ job'[m] = job[m]
          \/ /\ job'[m].owner # None => job'[m].st = "active"
             /\ job'[m].st \in {"waiting", "active"} =>
                    job'[m].made < Attempts /\ job'[m].stalls <= MaxStalls
             /\ inline => job'[m].st = "none"
    BY <1>3, <1>4, <2>1
  <2>. QED  BY <1>1, <2>2, JobsStep
<1>12. DownOK' /\ SentWasDelivered'
  BY <1>1, <1>8, DownStep, SentStep
<1>. QED  BY <1>7, <1>9, <1>10, <1>11, <1>12 DEF Shape

\* The process dies and comes back; the webhook is deleted.
LEMMA CrashShape ==
    ASSUME Shape, Crash
    PROVE  Shape'
<1>1. /\ TypeOK /\ FreshOK /\ JobsOK /\ up' = FALSE /\ failedEv' = {} /\ boot' = {}
      /\ run' = [w \in Workers |-> Idle]
      /\ producer' = [n \in Notes |-> IF producer[n] = "idle" THEN "idle" ELSE "done"]
      /\ job' = [n \in Notes |-> [job[n] EXCEPT !.owner = None]]
      /\ UNCHANGED <<note, inline, hook, sends, dropped>>
  BY DEF Shape, Crash
<1>2. faults' \in Nat
  BY <1>1, FaultsTyped DEF Crash
<1>3. /\ job' \in [Notes -> JobType]
      /\ \A n \in Notes : /\ job'[n].st = job[n].st /\ job'[n].made = job[n].made
                          /\ job'[n].stalls = job[n].stalls /\ job'[n].owner = None
  BY <1>1, JobMoves
<1>4. run' \in [Workers -> RunType] /\ \A w \in Workers : run'[w].pc = "idle"
  BY <1>1, IdleOK
<1>5. /\ producer' \in [Notes -> {"idle", "enqueue", "done"}]
      /\ \A n \in Notes : producer'[n] # "enqueue" /\ (producer'[n] = "idle" => producer[n] = "idle")
  BY <1>1
<1>6. TypeOK'
  BY <1>1, <1>2, <1>3, <1>4, <1>5 DEF TypeOK, RunType, JobType, Stages
<1>7. RunsOK' /\ DownOK'
  BY <1>1, <1>4, <1>5 DEF RunsOK, DownOK
<1>8. FreshOK'
  <2>1. \A n \in Notes : producer'[n] = "idle" =>
            /\ producer[n] = "idle"
            /\ note'[n] = note[n] /\ sends'[n] = sends[n]
            /\ job[n].st = "none" => job'[n].st = "none"
            /\ n \in boot' => n \in boot
            /\ \A v \in Workers : run'[v].pc # "idle" /\ run'[v].note = n =>
                   run[v].pc # "idle" /\ run[v].note = n
    BY <1>1, <1>3, <1>4, <1>5
  <2>. QED  BY <1>5, <2>1, FreshStep
<1>9. JobsOK'
  <2>1. \A m \in Notes :
          \/ job'[m] = job[m]
          \/ /\ job'[m].owner # None => job'[m].st = "active"
             /\ job'[m].st \in {"waiting", "active"} =>
                    job'[m].made < Attempts /\ job'[m].stalls <= MaxStalls
             /\ inline => job'[m].st = "none"
    BY <1>1, <1>3 DEF JobsOK
  <2>. QED  BY <1>1, <2>1, JobsStep
<1>10. SentWasDelivered'
  BY <1>1, SentStep DEF TypeOK
<1>. QED  BY <1>6, <1>7, <1>8, <1>9, <1>10 DEF Shape

LEMMA RestartShape ==
    ASSUME Shape, Restart
    PROVE  Shape'
<1>1. /\ TypeOK /\ FreshOK /\ DownOK /\ ~up /\ up' = TRUE /\ boot' \subseteq Pending
      /\ UNCHANGED <<note, producer, job, run, failedEv, inline, hook, sends, faults, dropped>>
  BY DEF Shape, Restart, OldestPending
<1>2. TypeOK'
  BY <1>1 DEF TypeOK, Pending
<1>3. /\ producer \in [Notes -> {"idle", "enqueue", "done"}]
      /\ sends \in [Notes -> Nat] /\ \A n \in Notes : sends[n] >= sends[n]
  BY <1>1 DEF TypeOK
<1>4. \A n \in boot' : n \in Notes /\ note[n].status = "PENDING" /\ producer[n] # "idle"
  BY <1>1 DEF FreshOK, Pending
<1>5. RunsOK' /\ JobsOK' /\ SentWasDelivered'
  BY <1>1, <1>3, RunsStep, JobsStep, SentStep
<1>6. FreshOK'
  BY <1>1, <1>3, <1>4, FreshStep
<1>7. DownOK'
  <2>1. \A n \in boot' : producer'[n] = "done"
    BY <1>1, <1>3, <1>4 DEF DownOK
  <2>. QED  BY <1>1, <2>1 DEF DownOK
<1>. QED  BY <1>2, <1>5, <1>6, <1>7 DEF Shape

LEMMA DeleteShape ==
    ASSUME Shape, DeleteWebhook
    PROVE  Shape'
<1>1. /\ hook' = FALSE
      /\ UNCHANGED <<note, producer, job, run, failedEv, boot, up, inline, sends, faults, dropped>>
  BY DEF DeleteWebhook
<1>2. TypeOK'
  BY <1>1 DEF Shape, TypeOK
<1>3. RunsOK' /\ FreshOK'
  BY <1>1 DEF Shape, RunsOK, FreshOK, Pending
<1>4. JobsOK' /\ DownOK' /\ SentWasDelivered'
  BY <1>1 DEF Shape, JobsOK, DownOK, SentWasDelivered
<1>. QED  BY <1>2, <1>3, <1>4 DEF Shape

LEMMA ShapeStep ==
    ASSUME Shape, [Next]_vars
    PROVE  Shape'
<1>1. ASSUME NEW n \in Notes,
             CreateNotification(n) \/ EnqueueNotification(n) \/ TakeBack(n)
                 \/ LockExpires(n) \/ EnqueuePending(n) \/ \E w \in Workers : TakeJob(w, n)
      PROVE  Shape'
  BY <1>1, CreateShape, EnqueueShape, TakeBackShape, TakeShape
<1>2. ASSUME NEW w \in Workers, WorkerStep(w) \/ DatabaseFails(w)  PROVE  Shape'
  BY <1>2, WorkerMoves, WorkerWrites, CompleteShape, FailAttemptShape, FailureShape
     DEF WorkerStep
<1>3. ASSUME NEW e \in failedEv, HandleFailedJob(e)  PROVE  Shape'
  BY <1>3, FailureShape
<1>4. CASE Crash \/ Restart \/ DeleteWebhook
  BY <1>4, CrashShape, RestartShape, DeleteShape
<1>5. CASE UNCHANGED vars
  <2>1. TypeOK' /\ RunsOK' /\ FreshOK'
    BY <1>5 DEF vars, Shape, TypeOK, RunsOK, FreshOK, Pending
  <2>2. JobsOK' /\ DownOK' /\ SentWasDelivered'
    BY <1>5 DEF vars, Shape, JobsOK, DownOK, SentWasDelivered
  <2>. QED  BY <2>1, <2>2 DEF Shape
<1>. QED  BY <1>1, <1>2, <1>3, <1>4, <1>5 DEF Next

-----------------------------------------------------------------------------
(* Counting workers. *)

LEMMA WorkerSets ==
    ASSUME NEW S \in SUBSET Workers, NEW T \in SUBSET Workers
    PROVE  /\ Cardinality(S) \in Nat /\ Cardinality(T) \in Nat
           /\ S \subseteq T => Cardinality(S) <= Cardinality(T)
           /\ \A w \in Workers : S \subseteq T \cup {w} => Cardinality(S) <= Cardinality(T) + 1
           /\ \A w \in T : S \subseteq T \ {w} => Cardinality(S) + 1 <= Cardinality(T)
           /\ S = {} => Cardinality(S) = 0
<1>1. IsFiniteSet(S) /\ IsFiniteSet(T)
  BY FS_Subset, OutboxAssumption
<1>2. Cardinality(S) \in Nat /\ Cardinality(T) \in Nat
  BY <1>1, FS_CardinalityType
<1>3. S \subseteq T => Cardinality(S) <= Cardinality(T)
  BY <1>1, FS_Subset
<1>4. ASSUME NEW w \in Workers, S \subseteq T \cup {w}
      PROVE  Cardinality(S) <= Cardinality(T) + 1
  <2>1. /\ IsFiniteSet(T \cup {w})
        /\ \/ Cardinality(T \cup {w}) = Cardinality(T)
           \/ Cardinality(T \cup {w}) = Cardinality(T) + 1
    BY <1>1, FS_AddElement
  <2>2. Cardinality(S) <= Cardinality(T \cup {w})
    BY <1>4, <2>1, FS_Subset
  <2>. QED  BY <1>2, <2>1, <2>2
<1>5. ASSUME NEW w \in T, S \subseteq T \ {w}
      PROVE  Cardinality(S) + 1 <= Cardinality(T)
  <2>1. IsFiniteSet(T \ {w}) /\ Cardinality(T \ {w}) = Cardinality(T) - 1
    BY <1>1, FS_RemoveElement
  <2>2. Cardinality(S) <= Cardinality(T \ {w})
    BY <1>5, <2>1, FS_Subset
  <2>. QED  BY <1>2, <2>1, <2>2
<1>6. S = {} => Cardinality(S) = 0
  BY FS_EmptySet
<1>. QED  BY <1>2, <1>3, <1>4, <1>5, <1>6

-----------------------------------------------------------------------------
(* No copy without a counted attempt. *)

LEMMA NumbersTyped ==
    ASSUME TypeOK, NEW n \in Notes
    PROVE  /\ note[n].attempts \in Nat /\ sends[n] \in Nat /\ faults \in Nat
           /\ job[n].made \in Nat /\ job[n].stalls \in Nat
<1>1. note[n] \in NoteType /\ job[n] \in JobType
  BY Typed
<1>. QED  BY <1>1 DEF NoteType, JobType, TypeOK

\* A step that delivers and counts nothing, and after which nobody newly is about
\* to call the provider.
LEMMA CountedKeep ==
    ASSUME TypeOK, CopiesCounted, UNCHANGED sends,
           \A n \in Notes : note'[n].attempts = note[n].attempts,
           \A v \in Workers : run'[v] = run[v] \/ run'[v].pc # "send"
    PROVE  CopiesCounted'
<1> SUFFICES ASSUME NEW n \in Notes
             PROVE  sends'[n] + Cardinality(Sending(n)') <= note'[n].attempts
  BY DEF CopiesCounted
<1>1. Sending(n) \in SUBSET Workers /\ Sending(n)' \in SUBSET Workers
      /\ Sending(n)' \subseteq Sending(n)
  BY DEF Sending
<1>2. /\ Cardinality(Sending(n)) \in Nat /\ Cardinality(Sending(n)') \in Nat
      /\ Cardinality(Sending(n)') <= Cardinality(Sending(n))
  BY <1>1, WorkerSets
<1>3. note[n].attempts \in Nat /\ sends[n] \in Nat /\ sends'[n] = sends[n]
  BY NumbersTyped
<1>4. sends[n] + Cardinality(Sending(n)) <= note[n].attempts
  BY DEF CopiesCounted
<1>. QED  BY <1>2, <1>3, <1>4

LEMMA CountedCount ==
    ASSUME Shape, CopiesCounted, NEW w \in Workers, CountAttempt(w)
    PROVE  CopiesCounted'
<1> DEFINE k == run[w].note
<1>1. TypeOK /\ k \in Notes /\ UNCHANGED sends
  BY RunningFacts DEF Shape, CountAttempt, At
<1>2. /\ note'[k].attempts = note[k].attempts + 1
      /\ \A m \in Notes : m # k => note'[m] = note[m]
  BY <1>1, Typed, NoteFacts DEF CountAttempt
<1>3. run'[w].note = k /\ \A v \in Workers : v # w => run'[v] = run[v]
  BY <1>1, Typed, GotoFacts DEF CountAttempt, Stages
<1> HIDE DEF k
<1> SUFFICES ASSUME NEW n \in Notes
             PROVE  sends'[n] + Cardinality(Sending(n)') <= note'[n].attempts
  BY DEF CopiesCounted
<1>4. sends[n] + Cardinality(Sending(n)) <= note[n].attempts /\ sends'[n] = sends[n]
  BY <1>1 DEF CopiesCounted
<1>5. note[n].attempts \in Nat /\ sends[n] \in Nat
  BY <1>1, NumbersTyped
<1>6. /\ Sending(n) \in SUBSET Workers /\ Sending(n)' \in SUBSET Workers
      /\ Sending(n)' \subseteq Sending(n) \cup {w}
      /\ n # k => Sending(n)' \subseteq Sending(n)
  BY <1>3 DEF Sending
<1>7. /\ Cardinality(Sending(n)) \in Nat /\ Cardinality(Sending(n)') \in Nat
      /\ Cardinality(Sending(n)') <= Cardinality(Sending(n)) + 1
      /\ n # k => Cardinality(Sending(n)') <= Cardinality(Sending(n))
  BY <1>6, WorkerSets
<1>8. CASE n = k
  BY <1>2, <1>4, <1>5, <1>7, <1>8
<1>9. CASE n # k
  BY <1>2, <1>4, <1>5, <1>7, <1>9
<1>. QED  BY <1>8, <1>9

LEMMA CountedSend ==
    ASSUME Shape, CopiesCounted, NEW w \in Workers, Send(w)
    PROVE  CopiesCounted'
<1> DEFINE k == run[w].note
<1>1. TypeOK /\ k \in Notes /\ UNCHANGED note /\ run[w].pc = "send" /\ sends \in [Notes -> Nat]
  BY RunningFacts DEF Shape, Send, At, TypeOK
<1>2. PICK pc \in {"mark", "err"} : Goto(w, pc)
  BY DEF Send
<1>3. run'[w].pc # "send" /\ \A v \in Workers : v # w => run'[v] = run[v]
  BY <1>1, <1>2, Typed, GotoFacts DEF Stages
<1>4. UNCHANGED sends \/ sends' = [sends EXCEPT ![k] = @ + 1]
  BY DEF Send
<1> HIDE DEF k
<1> SUFFICES ASSUME NEW n \in Notes
             PROVE  sends'[n] + Cardinality(Sending(n)') <= note'[n].attempts
  BY DEF CopiesCounted
<1>5. sends[n] + Cardinality(Sending(n)) <= note[n].attempts /\ note'[n] = note[n]
  BY <1>1 DEF CopiesCounted
<1>6. note[n].attempts \in Nat /\ sends[n] \in Nat
  BY <1>1, NumbersTyped
<1>7. /\ Sending(n) \in SUBSET Workers /\ Sending(n)' \in SUBSET Workers
      /\ Sending(n)' \subseteq Sending(n)
      /\ n = k => w \in Sending(n) /\ Sending(n)' \subseteq Sending(n) \ {w}
  BY <1>1, <1>3 DEF Sending, k
<1>8. /\ Cardinality(Sending(n)) \in Nat /\ Cardinality(Sending(n)') \in Nat
      /\ Cardinality(Sending(n)') <= Cardinality(Sending(n))
      /\ n = k => Cardinality(Sending(n)') + 1 <= Cardinality(Sending(n))
  BY <1>7, WorkerSets
<1>9. sends'[n] = sends[n] \/ (n = k /\ sends'[n] = sends[n] + 1)
  BY <1>1, <1>4
<1>. QED  BY <1>5, <1>6, <1>8, <1>9

\* Whoever is about to call the provider was so before, or has just counted.
LEMMA CountedStep ==
    ASSUME Shape, CopiesCounted, [Next]_vars
    PROVE  CopiesCounted'
<1>1. TypeOK /\ run \in [Workers -> RunType] /\ note \in [Notes -> NoteType]
  BY Typed DEF Shape
<1>2. CASE \E w \in Workers : CountAttempt(w) \/ Send(w)
  BY <1>2, CountedCount, CountedSend
<1>3. ASSUME \A n \in Notes : note'[n].attempts = note[n].attempts, UNCHANGED sends,
             \A v \in Workers : run'[v] = run[v] \/ run'[v].pc # "send"
      PROVE  CopiesCounted'
  BY <1>1, <1>3, CountedKeep
<1>4. ASSUME NEW n \in Notes, CreateNotification(n)  PROVE  CopiesCounted'
  <2>1. note[n].attempts = 0 /\ UNCHANGED <<run, sends>>
    BY <1>4 DEF Shape, FreshOK, CreateNotification
  <2>2. \A m \in Notes : note'[m].attempts = note[m].attempts
    BY <1>1, <1>4, <2>1 DEF CreateNotification
  <2>. QED  BY <1>3, <2>1, <2>2
<1>5. ASSUME NEW n \in Notes,
             EnqueueNotification(n) \/ EnqueuePending(n) \/ \E w \in Workers : TakeJob(w, n)
      PROVE  CopiesCounted'
  <2>1. \A v \in Workers : run'[v] = run[v] \/ run'[v].pc # "send"
    <3>1. CASE HandOver(n)
      BY <1>1, <3>1, HandOverFacts
    <3>2. CASE UNCHANGED run
      BY <3>2
    <3>3. CASE \E w \in Workers : TakeJob(w, n)
      BY <1>1, <3>3, StartFacts DEF TakeJob
    <3>. QED  BY <1>5, <3>1, <3>2, <3>3 DEF EnqueueNotification, EnqueuePending
  <2>2. UNCHANGED <<note, sends>>
    BY <1>5 DEF EnqueueNotification, EnqueuePending, TakeJob
  <2>. QED  BY <1>3, <2>1, <2>2
<1>6. ASSUME NEW n \in Notes, TakeBack(n) \/ LockExpires(n)  PROVE  CopiesCounted'
  <2>1. UNCHANGED <<note, sends, run>>
    BY <1>6 DEF TakeBack, LockExpires
  <2>. QED  BY <1>3, <2>1
<1>7. ASSUME NEW w \in Workers, ReadRow(w) \/ MarkSent(w) \/ WriteAudit(w) \/ DatabaseFails(w)
      PROVE  CopiesCounted'
  <2>1. PICK pc \in Stages : Goto(w, pc) /\ pc # "send"
    BY <1>7 DEF ReadRow, MarkSent, WriteAudit, DatabaseFails, Stages
  <2>2. \A v \in Workers : run'[v] = run[v] \/ run'[v].pc # "send"
    BY <1>1, <2>1, GotoFacts
  <2>3. \A m \in Notes : note'[m].attempts = note[m].attempts
    <3>1. CASE MarkSent(w)
      <4>1. run[w].note \in Notes /\ "SENT" \in Statuses
        BY <3>1, RunningFacts DEF MarkSent, At, Statuses
      <4>. QED  BY <1>1, <3>1, <4>1, NoteFacts DEF MarkSent
    <3>2. CASE UNCHANGED note
      BY <3>2
    <3>. QED  BY <1>7, <3>1, <3>2 DEF ReadRow, WriteAudit, DatabaseFails
  <2>4. UNCHANGED sends
    BY <1>7 DEF ReadRow, MarkSent, WriteAudit, DatabaseFails
  <2>. QED  BY <1>3, <2>2, <2>3, <2>4
<1>8. ASSUME NEW w \in Workers, Complete(w) \/ FailAttempt(w) \/ HandleInlineFailure(w)
      PROVE  CopiesCounted'
  <2>1. run' = [run EXCEPT ![w] = Idle] /\ UNCHANGED sends
    BY <1>8 DEF Complete, FailAttempt, HandleInlineFailure
  <2>2. \A v \in Workers : run'[v] = run[v] \/ run'[v].pc # "send"
    BY <1>1, <2>1, LeaveFacts
  <2>3. \A m \in Notes : note'[m].attempts = note[m].attempts
    <3>1. CASE HandleInlineFailure(w)
      <4>1. run[w].note \in Notes
        BY <3>1, RunningFacts DEF HandleInlineFailure, At
      <4>. QED  BY <1>1, <3>1, <4>1, GiveUpFacts DEF HandleInlineFailure
    <3>. QED  BY <1>8, <3>1 DEF Complete, FailAttempt
  <2>. QED  BY <1>3, <2>1, <2>2, <2>3
<1>9. ASSUME NEW e \in failedEv, HandleFailedJob(e)  PROVE  CopiesCounted'
  <2>1. e.note \in Notes
    BY <1>1 DEF TypeOK
  <2>2. \A m \in Notes : note'[m].attempts = note[m].attempts
    BY <1>1, <1>9, <2>1, GiveUpFacts DEF HandleFailedJob
  <2>. QED  BY <1>3, <1>9, <2>2 DEF HandleFailedJob
<1>10. CASE Crash
  <2>1. \A v \in Workers : run'[v].pc # "send"
    BY <1>10, IdleOK DEF Crash
  <2>. QED  BY <1>3, <1>10, <2>1 DEF Crash
<1>11. CASE Restart \/ DeleteWebhook \/ UNCHANGED vars
  <2>1. UNCHANGED <<note, sends, run>>
    BY <1>11 DEF Restart, DeleteWebhook, vars
  <2>. QED  BY <1>3, <2>1
<1>. QED  BY <1>2, <1>4, <1>5, <1>6, <1>7, <1>8, <1>9, <1>10, <1>11 DEF Next, WorkerStep

-----------------------------------------------------------------------------
(* The attempts stay within the budget. *)

LEMMA UsedFacts ==
    ASSUME Shape, NEW n \in Notes
    PROVE  Used(n) \in Nat /\ Used(n) <= Attempts + MaxStalls
<1>1. /\ job[n].made \in Nat /\ job[n].stalls \in Nat
      /\ job[n].st \in {"waiting", "active"} =>
             job[n].made < Attempts /\ job[n].stalls <= MaxStalls
      /\ Attempts \in Nat /\ MaxStalls \in Nat
  BY NumbersTyped, OutboxAssumption DEF Shape, JobsOK
<1>2. job[n].st \in {"none", "waiting", "active", "failed"}
  <2>1. job[n] \in JobType
    BY Typed DEF Shape
  <2>. QED  BY <2>1 DEF JobType
<1>. QED  BY <1>1, <1>2 DEF Used

LEMMA DueType == \A n \in Notes : Due(n) \in {0, 1}
BY DEF Due

\* Nothing newly counts against the budget of n, and what it may use does not
\* shrink.
LEMMA BudgetKeep ==
    ASSUME Shape, WithinBudget, NEW n \in Notes \ dropped,
           inline' = inline, faults' \in Nat, faults' >= faults,
           note'[n].attempts = note[n].attempts,
           note'[n].status = "PENDING" => note[n].status = "PENDING",
           \A v \in Workers :
               \/ run'[v] = run[v]
               \/ run'[v].pc \notin {"read", "count"}
               \/ /\ run'[v].note = run[v].note /\ run[v].pc = "read"
                  /\ note[run[v].note].status = "PENDING",
           inline => Due(n)' <= Due(n),
           ~inline /\ n \in Pending /\ n \in Pending' => Used(n)' \in Nat /\ Used(n)' >= Used(n)
    PROVE  BudgetOf(n)'
<1>1. BudgetOf(n) /\ TypeOK
  BY DEF WithinBudget, Shape
<1>2. Ahead(n) \in SUBSET Workers /\ Ahead(n)' \in SUBSET Workers /\ Ahead(n)' \subseteq Ahead(n)
  BY DEF Ahead
<1>3. /\ Cardinality(Ahead(n)) \in Nat /\ Cardinality(Ahead(n)') \in Nat
      /\ Cardinality(Ahead(n)') <= Cardinality(Ahead(n))
  BY <1>2, WorkerSets
<1>4. note[n].attempts \in Nat /\ faults \in Nat /\ Attempts + MaxStalls \in Nat
  BY <1>1, NumbersTyped, OutboxAssumption
<1>5. Used(n) \in Nat /\ Used(n) <= Attempts + MaxStalls
  BY UsedFacts
<1>6. Due(n) \in Nat /\ Due(n)' \in Nat
  BY DEF Due
<1>7. CASE inline
  <2>1. note[n].attempts + Cardinality(Ahead(n)) + Due(n) <= 1 + faults
    BY <1>1, <1>7 DEF BudgetOf
  <2>2. note'[n].attempts + Cardinality(Ahead(n)') + Due(n)' <= 1 + faults'
    BY <1>3, <1>4, <1>6, <1>7, <2>1
  <2>. QED  BY <1>7, <2>2 DEF BudgetOf
<1>8. CASE ~inline
  <2>1. note[n].attempts + Cardinality(Ahead(n)) <= IF n \in Pending THEN Used(n)
                                                     ELSE Attempts + MaxStalls
    BY <1>1, <1>8 DEF BudgetOf
  <2>2. n \in Pending' => n \in Pending
    BY DEF Pending
  <2>3. note'[n].attempts + Cardinality(Ahead(n)') <= IF n \in Pending' THEN Used(n)'
                                                      ELSE Attempts + MaxStalls
    BY <1>3, <1>4, <1>5, <1>8, <2>1, <2>2
  <2>. QED  BY <1>8, <2>3 DEF BudgetOf
<1>. QED  BY <1>7, <1>8

\* A new row has used nothing.
LEMMA BudgetNew ==
    ASSUME Shape, NEW n \in Notes, CreateNotification(n)
    PROVE  BudgetOf(n)'
<1>1. /\ TypeOK /\ faults \in Nat /\ FreshOK /\ producer[n] = "idle"
      /\ note' = [note EXCEPT ![n] = [status |-> "PENDING", attempts |-> 0,
                                      born |-> Cardinality(Created)]]
      /\ UNCHANGED <<job, run, inline, faults>>
  BY DEF Shape, TypeOK, CreateNotification
<1>2. note'[n].attempts = 0
  BY <1>1, Typed
<1>3. /\ job[n].st = "none" /\ \A w \in Workers : run[w].pc # "idle" => run[w].note # n
  BY <1>1 DEF FreshOK
<1>4. Ahead(n)' \in SUBSET Workers /\ Ahead(n)' = {}
  BY <1>1, <1>3 DEF Ahead
<1>5. Cardinality(Ahead(n)') = 0
  BY <1>4, WorkerSets
<1>6. Used(n)' = 0 /\ Due(n)' <= 1 /\ Due(n)' \in Nat
  BY <1>1, <1>3 DEF Used, Due
<1>7. Attempts + MaxStalls \in Nat
  BY OutboxAssumption
<1>. QED  BY <1>1, <1>2, <1>5, <1>6, <1>7 DEF BudgetOf

\* A worker gets to count an attempt of n; what it may use grows by one, or, when
\* inline, it was due.
LEMMA BudgetStart ==
    ASSUME Shape, WithinBudget, NEW n \in Notes \ dropped, NEW w \in Workers,
           UNCHANGED <<note, inline, faults>>,
           run'[w].pc = "read", \A v \in Workers : v # w => run'[v] = run[v],
           inline => Due(n)' + 1 <= Due(n),
           ~inline => Used(n)' \in Nat /\ Used(n)' >= Used(n) + 1
    PROVE  BudgetOf(n)'
<1>1. BudgetOf(n) /\ TypeOK
  BY DEF WithinBudget, Shape
<1>2. /\ Ahead(n) \in SUBSET Workers /\ Ahead(n)' \in SUBSET Workers
      /\ Ahead(n)' \subseteq Ahead(n) \cup {w}
      /\ n \notin Pending => Ahead(n)' \subseteq Ahead(n)
  BY DEF Ahead, Pending
<1>3. /\ Cardinality(Ahead(n)) \in Nat /\ Cardinality(Ahead(n)') \in Nat
      /\ Cardinality(Ahead(n)') <= Cardinality(Ahead(n)) + 1
      /\ n \notin Pending => Cardinality(Ahead(n)') <= Cardinality(Ahead(n))
  BY <1>2, WorkerSets
<1>4. note[n].attempts \in Nat /\ faults \in Nat /\ Attempts + MaxStalls \in Nat
  BY <1>1, NumbersTyped, OutboxAssumption
<1>5. Used(n) \in Nat
  BY UsedFacts
<1>6. Due(n) \in Nat /\ Due(n)' \in Nat
  BY DEF Due
<1>7. CASE inline
  <2>1. note[n].attempts + Cardinality(Ahead(n)) + Due(n) <= 1 + faults
    BY <1>1, <1>7 DEF BudgetOf
  <2>2. note'[n].attempts + Cardinality(Ahead(n)') + Due(n)' <= 1 + faults'
    BY <1>3, <1>4, <1>6, <1>7, <2>1
  <2>. QED  BY <1>7, <2>2 DEF BudgetOf
<1>8. CASE ~inline
  <2>1. note[n].attempts + Cardinality(Ahead(n)) <= IF n \in Pending THEN Used(n)
                                                     ELSE Attempts + MaxStalls
    BY <1>1, <1>8 DEF BudgetOf
  <2>2. n \in Pending' <=> n \in Pending
    BY DEF Pending
  <2>3. note'[n].attempts + Cardinality(Ahead(n)') <= IF n \in Pending' THEN Used(n)'
                                                      ELSE Attempts + MaxStalls
    BY <1>3, <1>4, <1>5, <1>8, <2>1, <2>2
  <2>. QED  BY <1>8, <2>3 DEF BudgetOf
<1>. QED  BY <1>7, <1>8

LEMMA BudgetCount ==
    ASSUME Shape, WithinBudget, NEW w \in Workers, CountAttempt(w)
    PROVE  WithinBudget'
<1> DEFINE k == run[w].note
<1>1. /\ TypeOK /\ k \in Notes /\ run[w].pc = "count"
      /\ UNCHANGED <<producer, job, boot, up, inline, faults, dropped>>
  BY RunningFacts DEF Shape, CountAttempt, At
<1>2. /\ note'[k].attempts = note[k].attempts + 1 /\ note'[k].status = note[k].status
      /\ \A m \in Notes : m # k => note'[m] = note[m]
  BY <1>1, Typed, NoteFacts DEF CountAttempt
<1>3. /\ run'[w].note = k /\ run'[w].pc = "send"
      /\ \A v \in Workers : v # w => run'[v] = run[v]
  BY <1>1, Typed, GotoFacts DEF CountAttempt, Stages
<1> SUFFICES ASSUME NEW n \in Notes \ dropped  PROVE  BudgetOf(n)'
  BY <1>1 DEF WithinBudget
<1>4. CASE n # k
  <2>1. Due(n)' = Due(n) /\ Due(n) \in Nat /\ Used(n)' = Used(n) /\ Used(n) \in Nat
    BY <1>1, UsedFacts DEF Due, Used
  <2>2. faults \in Nat
    BY <1>1 DEF TypeOK
  <2>. QED  BY <1>1, <1>2, <1>3, <1>4, <2>1, <2>2, BudgetKeep
<1>5. CASE n = k
  <2>1. w \in Ahead(n) /\ Ahead(n) \in SUBSET Workers /\ Ahead(n)' \in SUBSET Workers
        /\ Ahead(n)' \subseteq Ahead(n) \ {w}
    BY <1>1, <1>2, <1>3, <1>5 DEF Ahead
  <2>2. /\ Cardinality(Ahead(n)) \in Nat /\ Cardinality(Ahead(n)') \in Nat
        /\ Cardinality(Ahead(n)') + 1 <= Cardinality(Ahead(n))
    BY <2>1, WorkerSets
  <2>3. /\ note[n].attempts \in Nat /\ faults \in Nat /\ Attempts + MaxStalls \in Nat
        /\ Due(n)' = Due(n) /\ Due(n) \in Nat /\ Used(n)' = Used(n) /\ Used(n) \in Nat
    BY <1>1, NumbersTyped, UsedFacts, OutboxAssumption DEF Due, Used
  <2>4. note'[n].attempts = note[n].attempts + 1 /\ (n \in Pending' <=> n \in Pending)
    BY <1>2, <1>5 DEF Pending
  <2>5. BudgetOf(n)
    BY DEF WithinBudget
  <2> HIDE DEF k
  <2>. QED  BY <1>1, <2>2, <2>3, <2>4, <2>5 DEF BudgetOf
<1>. QED  BY <1>4, <1>5

\* A crash ends the inline runs and may make a row due again: it is counted as a
\* failure.
LEMMA BudgetCrash ==
    ASSUME Shape, WithinBudget, Crash
    PROVE  WithinBudget'
<1>1. /\ TypeOK /\ faults \in Nat /\ faults' = faults + 1
      /\ run' = [w \in Workers |-> Idle]
      /\ job' = [n \in Notes |-> [job[n] EXCEPT !.owner = None]]
      /\ UNCHANGED <<note, inline, dropped>>
  BY DEF Shape, TypeOK, Crash, Fault
<1>2. SUFFICES ASSUME NEW n \in Notes \ dropped  PROVE  BudgetOf(n)'
  BY <1>1 DEF WithinBudget
<1>3. job'[n].st = job[n].st /\ job'[n].made = job[n].made /\ job'[n].stalls = job[n].stalls
  BY <1>1, JobMoves
<1>4. Used(n)' = Used(n) /\ Used(n) \in Nat
  BY <1>3, UsedFacts DEF Used
<1>5. Ahead(n) \in SUBSET Workers /\ Ahead(n)' \in SUBSET Workers /\ Ahead(n)' = {}
  BY <1>1, IdleOK DEF Ahead
<1>6. Cardinality(Ahead(n)) \in Nat /\ Cardinality(Ahead(n)') = 0
  BY <1>5, WorkerSets
<1>7. /\ note[n].attempts \in Nat /\ Attempts + MaxStalls \in Nat
      /\ Due(n) \in Nat /\ Due(n)' \in Nat /\ Due(n)' <= 1
  BY <1>1, NumbersTyped, OutboxAssumption DEF Due
<1>8. BudgetOf(n) /\ (n \in Pending' <=> n \in Pending)
  BY <1>1 DEF WithinBudget, Pending
<1>. QED  BY <1>1, <1>4, <1>6, <1>7, <1>8 DEF BudgetOf

\* A step in which workers only go on or leave, and no job loses budget.
LEMMA BudgetQuiet ==
    ASSUME Shape, WithinBudget, dropped \subseteq dropped', inline' = inline,
           faults' \in Nat, faults' >= faults, up, up' = up,
           producer' = producer, boot' = boot,
           \A n \in Notes :
               /\ note'[n].attempts = note[n].attempts
               /\ note'[n].status = "PENDING" => note[n].status = "PENDING",
           \A v \in Workers :
               \/ run'[v] = run[v]
               \/ run'[v].pc \notin {"read", "count"}
               \/ /\ run'[v].note = run[v].note /\ run[v].pc = "read"
                  /\ note[run[v].note].status = "PENDING",
           \A n \in Notes \ dropped' :
               \/ note'[n].status # "PENDING"
               \/ job'[n] = job[n]
               \/ Used(n)' \in Nat /\ Used(n)' >= Used(n)
    PROVE  WithinBudget'
<1> SUFFICES ASSUME NEW n \in Notes \ dropped'  PROVE  BudgetOf(n)'
  BY DEF WithinBudget
<1>1. n \in Notes \ dropped
  OBVIOUS
<1>2. Due(n)' = Due(n) /\ Due(n) \in Nat
  BY DEF Due
<1>3. n \in Pending' => Used(n)' \in Nat /\ Used(n)' >= Used(n)
  <2>1. Used(n) \in Nat
    BY UsedFacts
  <2>2. job'[n] = job[n] => Used(n)' = Used(n)
    BY DEF Used
  <2>3. n \in Pending' => note'[n].status = "PENDING"
    BY DEF Pending
  <2>. QED  BY <2>1, <2>2, <2>3
<1>. QED  BY <1>1, <1>2, <1>3, BudgetKeep

LEMMA BudgetBury ==
    ASSUME Shape, WithinBudget, NEW k \in Notes, NEW made \in Nat, NEW stalls \in Nat,
           Bury(k, made, stalls), up,
           \A v \in Workers : run'[v] = run[v] \/ run'[v].pc = "idle",
           UNCHANGED <<note, producer, boot, up, inline, faults>>
    PROVE  WithinBudget'
<1>1. TypeOK /\ faults \in Nat
  BY DEF Shape, TypeOK
<1>2. /\ job'[k].st = "failed" /\ dropped \subseteq dropped'
      /\ \A m \in Notes \ {k} : job'[m] = job[m] \/ m \in dropped'
  BY <1>1, BuryFacts
<1>3. Used(k)' = Attempts + MaxStalls /\ Used(k)' \in Nat /\ Used(k)' >= Used(k)
  <2>1. Used(k)' = Attempts + MaxStalls
    BY <1>2 DEF Used
  <2>2. Used(k) \in Nat /\ Used(k) <= Attempts + MaxStalls
    BY UsedFacts
  <2>. QED  BY <2>1, <2>2, OutboxAssumption
<1>4. \A n \in Notes \ dropped' : job'[n] = job[n] \/ (Used(n)' \in Nat /\ Used(n)' >= Used(n))
  BY <1>2, <1>3
<1>. QED  BY <1>1, <1>2, <1>4, BudgetQuiet

\* The worker's steps with its row, but the counting one.
LEMMA BudgetMoves ==
    ASSUME Shape, WithinBudget, NEW w \in Workers,
           ReadRow(w) \/ Send(w) \/ MarkSent(w) \/ WriteAudit(w) \/ DatabaseFails(w)
    PROVE  WithinBudget'
<1>1. /\ TypeOK /\ run[w].note \in Notes /\ up /\ faults \in Nat
      /\ UNCHANGED <<producer, job, boot, up, inline, dropped>>
  BY RunningFacts DEF Shape, TypeOK, ReadRow, Send, MarkSent, WriteAudit, DatabaseFails, At
<1>2. faults' \in Nat /\ faults' >= faults
  BY <1>1 DEF ReadRow, Send, MarkSent, WriteAudit, DatabaseFails, Fault
<1>3. PICK pc \in Stages : Goto(w, pc) /\ pc # "read"
                           /\ (pc = "count" => run[w].pc = "read" /\ run[w].note \in Pending)
  BY DEF ReadRow, Send, MarkSent, WriteAudit, DatabaseFails, At, Stages
<1>4. /\ run'[w].pc = pc /\ run'[w].note = run[w].note
      /\ \A v \in Workers : v # w => run'[v] = run[v]
  BY <1>1, <1>3, Typed, GotoFacts
<1>5. \A v \in Workers :
          \/ run'[v] = run[v]
          \/ run'[v].pc \notin {"read", "count"}
          \/ /\ run'[v].note = run[v].note /\ run[v].pc = "read"
             /\ note[run[v].note].status = "PENDING"
  BY <1>3, <1>4 DEF Pending
<1>6. \A n \in Notes : /\ note'[n].attempts = note[n].attempts
                       /\ note'[n].status = "PENDING" => note[n].status = "PENDING"
  <2>1. CASE MarkSent(w)
    <3>1. "SENT" \in Statuses /\ note' = [note EXCEPT ![run[w].note].status = "SENT"]
      BY <2>1 DEF MarkSent, Statuses
    <3>. QED  BY <1>1, <3>1, Typed, NoteFacts
  <2>2. CASE UNCHANGED note
    BY <2>2
  <2>. QED  BY <2>1, <2>2 DEF ReadRow, Send, WriteAudit, DatabaseFails
<1>. QED  BY <1>1, <1>2, <1>5, <1>6, BudgetQuiet

\* The job of a row that has come to an end goes with its run.
LEMMA BudgetComplete ==
    ASSUME Shape, WithinBudget, NEW w \in Workers, Complete(w)
    PROVE  WithinBudget'
<1>1. /\ TypeOK /\ up /\ faults \in Nat /\ run' = [run EXCEPT ![w] = Idle]
      /\ job' = IF Owns(w) THEN [job EXCEPT ![run[w].note] = NoJob] ELSE job
      /\ UNCHANGED <<note, producer, boot, up, inline, faults, dropped>>
  BY DEF Shape, TypeOK, Complete, At
<1>2. run[w].note \in Notes /\ run[w].note \notin Pending
  BY RunningFacts DEF Complete, At, Shape, RunsOK
<1>3. \A v \in Workers : run'[v] = run[v] \/ run'[v].pc = "idle"
  BY <1>1, Typed, LeaveFacts
<1>4. \A n \in Notes : n = run[w].note \/ job'[n] = job[n]
  BY <1>1, Typed
<1>5. \A n \in Notes : note'[n].status # "PENDING" \/ job'[n] = job[n]
  BY <1>1, <1>2, <1>4 DEF Pending
<1>. QED  BY <1>1, <1>3, <1>5, BudgetQuiet

LEMMA BudgetFail ==
    ASSUME Shape, WithinBudget, NEW w \in Workers, FailAttempt(w)
    PROVE  WithinBudget'
<1>1. /\ TypeOK /\ JobsOK /\ run[w].pc = "err" /\ up /\ run' = [run EXCEPT ![w] = Idle]
      /\ UNCHANGED <<note, producer, boot, up, inline, faults>> /\ faults \in Nat
  BY DEF Shape, TypeOK, FailAttempt, At
<1>2. PICK n \in Notes : n = run[w].note
  BY <1>1, RunningFacts
<1>0. w # None
  BY OutboxAssumption
<1> DEFINE made == job[n].made + 1
           j == [job[n] EXCEPT !.st = "waiting", !.made = made, !.owner = None]
<1>3. job[n].made \in Nat /\ made \in Nat /\ job[n].stalls \in Nat
  BY <1>1, <1>2, NumbersTyped
<1>4. \A v \in Workers : run'[v] = run[v] \/ run'[v].pc = "idle"
  BY <1>1, Typed, LeaveFacts
<1>5. CASE UNCHANGED <<job, dropped>>
  BY <1>1, <1>4, <1>5, BudgetQuiet
<1>6. CASE Owns(w) /\ job' = [job EXCEPT ![n] = j] /\ UNCHANGED dropped
  <2>1. job[n].st = "active"
    BY <1>1, <1>2, <1>0, <1>6 DEF Owns, JobsOK
  <2>2. j \in JobType /\ j.st = "waiting" /\ j.made = made /\ j.stalls = job[n].stalls
    BY <1>1, <1>2, JobMoves
  <2> HIDE DEF j
  <2>3. job'[n] = j /\ \A m \in Notes : m # n => job'[m] = job[m]
    BY <1>1, <1>2, <1>6, <2>2, Typed, JobFacts
  <2>4. Used(n) = job[n].made + job[n].stalls + 1 /\ Used(n)' = made + job[n].stalls
    BY <2>1, <2>2, <2>3 DEF Used
  <2>5. Used(n)' \in Nat /\ Used(n)' >= Used(n)
    BY <1>3, <2>4
  <2> HIDE DEF made
  <2>. QED  BY <1>1, <1>4, <1>6, <2>3, <2>5, BudgetQuiet
<1>7. CASE Bury(n, made, job[n].stalls)
  <2> HIDE DEF made
  <2>. QED  BY <1>1, <1>2, <1>3, <1>4, <1>7, BudgetBury
<1>. QED  BY <1>2, <1>5, <1>6, <1>7 DEF FailAttempt

LEMMA BudgetStall ==
    ASSUME Shape, WithinBudget, NEW n \in Notes, TakeBack(n) \/ LockExpires(n)
    PROVE  WithinBudget'
<1>1. /\ TypeOK /\ up /\ job[n].st = "active" /\ faults \in Nat
      /\ UNCHANGED <<note, producer, run, boot, up, inline>>
  BY DEF Shape, TypeOK, TakeBack, LockExpires
<1>2. job[n].made \in Nat /\ job[n].stalls \in Nat
  BY <1>1, NumbersTyped
<1>3. ASSUME NEW j \in JobType, job' = [job EXCEPT ![n] = j], UNCHANGED dropped,
             faults' \in Nat, faults' >= faults,
             \/ /\ j.st = "waiting" /\ j.made = job[n].made /\ j.stalls = job[n].stalls + 1
             \/ /\ j.st = "active" /\ j.made = job[n].made /\ j.stalls = job[n].stalls
      PROVE  WithinBudget'
  <2>1. job'[n] = j /\ \A m \in Notes : m # n => job'[m] = job[m]
    BY <1>1, <1>3, Typed, JobFacts
  <2>2. Used(n)' \in Nat /\ Used(n)' >= Used(n)
    BY <1>1, <1>2, <1>3, <2>1 DEF Used
  <2>. QED  BY <1>1, <1>3, <2>1, <2>2, BudgetQuiet
<1>4. CASE LockExpires(n)
  <2> DEFINE j == [job[n] EXCEPT !.owner = None]
  <2>1. job' = [job EXCEPT ![n] = j] /\ UNCHANGED dropped /\ faults' \in Nat /\ faults' >= faults
    BY <1>1, <1>4 DEF LockExpires, Fault
  <2>2. j \in JobType /\ j.st = job[n].st /\ j.made = job[n].made /\ j.stalls = job[n].stalls
    BY <1>1, JobMoves
  <2> HIDE DEF j
  <2>. QED  BY <1>1, <1>3, <2>1, <2>2
<1>5. CASE TakeBack(n)
  <2> DEFINE j == [job[n] EXCEPT !.st = "waiting", !.stalls = job[n].stalls + 1]
  <2>1. UNCHANGED faults /\ faults' \in Nat /\ faults' >= faults
    BY <1>1, <1>5 DEF TakeBack
  <2>2. CASE job' = [job EXCEPT ![n] = j] /\ UNCHANGED dropped
    <3>1. /\ j \in JobType /\ j.st = "waiting" /\ j.made = job[n].made
          /\ j.stalls = job[n].stalls + 1
      BY <1>1, JobMoves
    <3> HIDE DEF j
    <3>. QED  BY <1>1, <1>3, <2>1, <2>2, <3>1
  <2>3. CASE Bury(n, job[n].made, job[n].stalls)
    BY <1>1, <1>2, <2>1, <2>3, BudgetBury
  <2>. QED  BY <1>5, <2>2, <2>3 DEF TakeBack
<1>. QED  BY <1>4, <1>5

LEMMA BudgetGiveUp ==
    ASSUME Shape, WithinBudget
    PROVE  /\ \A e \in failedEv : HandleFailedJob(e) => WithinBudget'
           /\ \A w \in Workers : HandleInlineFailure(w) => WithinBudget'
<1>1. TypeOK /\ faults \in Nat /\ run \in [Workers -> RunType] /\ note \in [Notes -> NoteType]
  BY Typed DEF Shape, TypeOK
<1>2. ASSUME NEW n \in Notes, GiveUp(n) \/ UNCHANGED note
      PROVE  \A m \in Notes : /\ note'[m].attempts = note[m].attempts
                              /\ note'[m].status = "PENDING" => note[m].status = "PENDING"
  BY <1>1, <1>2, GiveUpFacts
<1>3. ASSUME NEW e \in failedEv, HandleFailedJob(e)  PROVE  WithinBudget'
  <2>1. /\ e.note \in Notes /\ (GiveUp(e.note) \/ UNCHANGED note) /\ up
        /\ UNCHANGED <<producer, job, run, boot, up, inline, dropped>>
        /\ faults' \in Nat /\ faults' >= faults
    BY <1>1, <1>3 DEF TypeOK, HandleFailedJob, Fault
  <2>2. \A m \in Notes : /\ note'[m].attempts = note[m].attempts
                         /\ note'[m].status = "PENDING" => note[m].status = "PENDING"
    BY <1>2, <2>1
  <2>. QED  BY <2>1, <2>2, BudgetQuiet
<1>4. ASSUME NEW w \in Workers, HandleInlineFailure(w)  PROVE  WithinBudget'
  <2>1. /\ (GiveUp(run[w].note) \/ UNCHANGED note) /\ up
        /\ UNCHANGED <<producer, job, boot, up, inline, dropped>>
        /\ faults' \in Nat /\ faults' >= faults /\ run' = [run EXCEPT ![w] = Idle]
        /\ run[w].note \in Notes
    BY <1>1, <1>4, RunningFacts DEF HandleInlineFailure, Fault, At
  <2>2. \A m \in Notes : /\ note'[m].attempts = note[m].attempts
                         /\ note'[m].status = "PENDING" => note[m].status = "PENDING"
    BY <1>2, <2>1
  <2>3. \A v \in Workers : run'[v] = run[v] \/ run'[v].pc = "idle"
    BY <1>1, <2>1, LeaveFacts
  <2>. QED  BY <2>1, <2>2, <2>3, BudgetQuiet
<1>. QED  BY <1>3, <1>4

\* Handing over and taking: the row is no longer due, or its job is used once more.
LEMMA BudgetHandOver ==
    ASSUME Shape, WithinBudget, NEW k \in Notes, HandOver(k), up, up' = up,
           UNCHANGED <<note, inline, faults, dropped>>,
           Due(k) = 1, Due(k)' = 0,
           \A m \in Notes : m # k => Due(m)' = Due(m)
    PROVE  WithinBudget'
<1>1. TypeOK /\ faults \in Nat
  BY DEF Shape, TypeOK
<1>2. SUFFICES ASSUME NEW n \in Notes \ dropped  PROVE  BudgetOf(n)'
  BY DEF WithinBudget
<1>3. Due(n) \in Nat /\ Due(n)' \in Nat /\ Due(n)' <= Due(n)
  BY DueType
<1>4. CASE inline
  <2>1. PICK w \in Workers : /\ run'[w].pc = "read" /\ run'[w].note = k
                             /\ \A v \in Workers : v # w => run'[v] = run[v]
    BY <1>1, <1>4, HandOverFacts
  <2>2. CASE n = k
    BY <1>4, <2>1, <2>2, BudgetStart
  <2>3. CASE n # k
    <3>1. Ahead(n) \in SUBSET Workers /\ Ahead(n)' \in SUBSET Workers
          /\ Ahead(n)' \subseteq Ahead(n)
      BY <2>1, <2>3 DEF Ahead
    <3>2. /\ Cardinality(Ahead(n)) \in Nat /\ Cardinality(Ahead(n)') \in Nat
          /\ Cardinality(Ahead(n)') <= Cardinality(Ahead(n))
      BY <3>1, WorkerSets
    <3>3. note[n].attempts + Cardinality(Ahead(n)) + Due(n) <= 1 + faults
      BY <1>4 DEF WithinBudget, BudgetOf
    <3>4. note[n].attempts \in Nat
      BY <1>1, NumbersTyped
    <3>5. note'[n].attempts + Cardinality(Ahead(n)') + Due(n)' <= 1 + faults'
      BY <1>1, <1>3, <3>2, <3>3, <3>4
    <3>. QED  BY <1>4, <3>5 DEF BudgetOf
  <2>. QED  BY <2>2, <2>3
<1>5. CASE ~inline
  <2>1. /\ UNCHANGED run /\ \A m \in Notes : m # k => job'[m] = job[m]
        /\ \/ job'[k] = job[k]
           \/ /\ job[k].st = "none" /\ job'[k].st = "waiting" /\ job'[k].made = 0
              /\ job'[k].stalls = 0
    BY <1>1, <1>5, HandOverFacts
  <2>2. Used(n) \in Nat
    BY UsedFacts
  <2>3. Used(n)' = Used(n)
    <3>1. CASE job'[n] = job[n]
      BY <3>1 DEF Used
    <3>2. CASE /\ job[n].st = "none" /\ job'[n].st = "waiting" /\ job'[n].made = 0
               /\ job'[n].stalls = 0
      BY <3>2 DEF Used
    <3>. QED  BY <2>1, <3>1, <3>2
  <2>. QED  BY <1>1, <1>5, <2>1, <2>2, <2>3, BudgetKeep
<1>. QED  BY <1>4, <1>5

LEMMA BudgetEnqueue ==
    ASSUME Shape, WithinBudget, NEW n \in Notes, EnqueueNotification(n) \/ EnqueuePending(n)
    PROVE  WithinBudget'
<1>1. /\ TypeOK /\ DownOK /\ up /\ up' = up /\ faults \in Nat
      /\ producer \in [Notes -> {"idle", "enqueue", "done"}]
      /\ UNCHANGED <<note, inline, dropped>>
  BY DEF Shape, TypeOK, EnqueueNotification, EnqueuePending
<1>2. CASE EnqueueNotification(n)
  <2>1. /\ producer[n] = "enqueue" /\ producer' = [producer EXCEPT ![n] = "done"]
        /\ UNCHANGED boot
    BY <1>2 DEF EnqueueNotification
  <2>2. n \notin boot
    BY <1>1, <2>1 DEF DownOK
  <2>3. Due(n) = 1 /\ Due(n)' = 0 /\ \A m \in Notes : m # n => Due(m)' = Due(m)
    BY <1>1, <2>1, <2>2 DEF Due
  <2>4. CASE HandOver(n) /\ UNCHANGED faults
    BY <1>1, <2>3, <2>4, BudgetHandOver
  <2>5. CASE ~inline /\ Fault("queue") /\ UNCHANGED <<job, run>>
    <3>1. faults' \in Nat /\ faults' >= faults
      BY <1>1, <2>5 DEF Fault
    <3>2. ASSUME NEW m \in Notes \ dropped  PROVE  BudgetOf(m)'
      <4>1. Used(m) \in Nat /\ Used(m)' = Used(m)
        BY <2>5, UsedFacts DEF Used
      <4>. QED  BY <1>1, <2>5, <3>1, <4>1, BudgetKeep
    <3>. QED  BY <1>1, <3>2 DEF WithinBudget
  <2>. QED  BY <1>2, <2>4, <2>5 DEF EnqueueNotification
<1>3. CASE EnqueuePending(n)
  <2>1. n \in boot /\ boot' = boot \ {n} /\ HandOver(n) /\ UNCHANGED <<producer, faults>>
    BY <1>3 DEF EnqueuePending
  <2>2. producer[n] = "done"
    BY <1>1, <2>1 DEF DownOK
  <2>3. Due(n) = 1 /\ Due(n)' = 0 /\ \A m \in Notes : m # n => Due(m)' = Due(m)
    BY <1>1, <2>1, <2>2 DEF Due
  <2>. QED  BY <1>1, <2>1, <2>3, BudgetHandOver
<1>. QED  BY <1>2, <1>3

LEMMA BudgetTake ==
    ASSUME Shape, WithinBudget, NEW w \in Workers, NEW k \in Notes, TakeJob(w, k)
    PROVE  WithinBudget'
<1> DEFINE j == [job[k] EXCEPT !.st = "active", !.owner = w]
<1>1. /\ TypeOK /\ JobsOK /\ faults \in Nat /\ run[w].pc = "idle" /\ job[k].st = "waiting"
      /\ job' = [job EXCEPT ![k] = j]
      /\ run' = [run EXCEPT ![w] = [pc |-> "read", note |-> k]]
      /\ UNCHANGED <<note, producer, boot, up, inline, faults, dropped>>
  BY DEF Shape, TypeOK, TakeJob
<1>2. j \in JobType /\ j.st = "active" /\ j.made = job[k].made /\ j.stalls = job[k].stalls
  <2>1. job[k] \in JobType
    BY <1>1, Typed
  <2>. QED  BY <2>1 DEF JobType
<1> HIDE DEF j
<1>3. job'[k] = j /\ \A m \in Notes : m # k => job'[m] = job[m]
  BY <1>1, <1>2, Typed, JobFacts
<1>4. /\ run'[w].pc = "read" /\ run'[w].note = k
      /\ \A v \in Workers : v # w => run'[v] = run[v]
  BY <1>1, Typed, StartFacts
<1>5. ~inline
  BY <1>1 DEF JobsOK
<1>6. SUFFICES ASSUME NEW n \in Notes \ dropped  PROVE  BudgetOf(n)'
  BY <1>1 DEF WithinBudget
<1>7. Used(n) \in Nat /\ job[n].made \in Nat /\ job[n].stalls \in Nat
  BY <1>1, UsedFacts, NumbersTyped
<1>8. CASE n = k
  <2>1. Used(n) = job[n].made + job[n].stalls /\ Used(n)' = job[n].made + job[n].stalls + 1
    BY <1>1, <1>2, <1>3, <1>8 DEF Used
  <2>. QED  BY <1>1, <1>4, <1>5, <1>7, <1>8, <2>1, BudgetStart
<1>9. CASE n # k
  <2>1. Used(n)' = Used(n)
    BY <1>3, <1>9 DEF Used
  <2>2. /\ Ahead(n) \in SUBSET Workers /\ Ahead(n)' \in SUBSET Workers
        /\ Ahead(n)' \subseteq Ahead(n)
    BY <1>1, <1>4, <1>9 DEF Ahead
  <2>3. /\ Cardinality(Ahead(n)) \in Nat /\ Cardinality(Ahead(n)') \in Nat
        /\ Cardinality(Ahead(n)') <= Cardinality(Ahead(n))
    BY <2>2, WorkerSets
  <2>4. /\ note[n].attempts + Cardinality(Ahead(n)) <= IF n \in Pending THEN Used(n)
                                                        ELSE Attempts + MaxStalls
        /\ note[n].attempts \in Nat /\ Attempts + MaxStalls \in Nat
        /\ (n \in Pending' <=> n \in Pending)
    BY <1>1, <1>5, NumbersTyped, OutboxAssumption DEF WithinBudget, BudgetOf, Pending
  <2>5. note'[n].attempts + Cardinality(Ahead(n)') <= IF n \in Pending' THEN Used(n)'
                                                      ELSE Attempts + MaxStalls
    BY <1>1, <1>7, <2>1, <2>3, <2>4
  <2>. QED  BY <1>1, <1>5, <2>5 DEF BudgetOf
<1>. QED  BY <1>8, <1>9

LEMMA BudgetCreate ==
    ASSUME Shape, WithinBudget, NEW k \in Notes, CreateNotification(k)
    PROVE  WithinBudget'
<1>1. /\ TypeOK /\ faults \in Nat
      /\ producer \in [Notes -> {"idle", "enqueue", "done"}]
      /\ producer' = [producer EXCEPT ![k] = "enqueue"]
      /\ UNCHANGED <<job, run, boot, up, inline, faults, dropped>>
      /\ \A m \in Notes : m # k => note'[m] = note[m]
  BY Typed DEF Shape, TypeOK, CreateNotification
<1>2. SUFFICES ASSUME NEW n \in Notes \ dropped  PROVE  BudgetOf(n)'
  BY <1>1 DEF WithinBudget
<1>3. CASE n = k
  BY <1>3, BudgetNew
<1>4. CASE n # k
  <2>1. /\ Used(n) \in Nat /\ Used(n)' = Used(n) /\ Due(n)' = Due(n) /\ Due(n) \in Nat
    BY <1>1, <1>4, UsedFacts DEF Used, Due
  <2>. QED  BY <1>1, <1>4, <2>1, BudgetKeep
<1>. QED  BY <1>3, <1>4

LEMMA BudgetRest ==
    ASSUME Shape, WithinBudget, Restart \/ DeleteWebhook \/ UNCHANGED vars
    PROVE  WithinBudget'
<1>1. /\ TypeOK /\ faults \in Nat
      /\ UNCHANGED <<note, producer, job, run, inline, faults, dropped>>
  BY DEF Shape, TypeOK, Restart, DeleteWebhook, vars
<1>2. SUFFICES ASSUME NEW n \in Notes \ dropped  PROVE  BudgetOf(n)'
  BY <1>1 DEF WithinBudget
<1>3. Due(n)' <= Due(n)
  BY <1>1 DEF Due, Restart, DeleteWebhook, vars
<1>4. Used(n)' = Used(n) /\ Used(n) \in Nat
  BY <1>1, UsedFacts DEF Used
<1>. QED  BY <1>1, <1>3, <1>4, BudgetKeep

LEMMA BudgetStep ==
    ASSUME Shape, WithinBudget, [Next]_vars
    PROVE  WithinBudget'
<1>1. ASSUME NEW n \in Notes,
             CreateNotification(n) \/ EnqueueNotification(n) \/ TakeBack(n)
                 \/ LockExpires(n) \/ EnqueuePending(n) \/ \E w \in Workers : TakeJob(w, n)
      PROVE  WithinBudget'
  BY <1>1, BudgetCreate, BudgetEnqueue, BudgetStall, BudgetTake
<1>2. ASSUME NEW w \in Workers, WorkerStep(w) \/ DatabaseFails(w)  PROVE  WithinBudget'
  BY <1>2, BudgetMoves, BudgetCount, BudgetComplete, BudgetFail, BudgetGiveUp DEF WorkerStep
<1>3. ASSUME NEW e \in failedEv, HandleFailedJob(e)  PROVE  WithinBudget'
  BY <1>3, BudgetGiveUp
<1>4. CASE Crash
  BY <1>4, BudgetCrash
<1>5. CASE Restart \/ DeleteWebhook \/ UNCHANGED vars
  BY <1>5, BudgetRest
<1>. QED  BY <1>1, <1>2, <1>3, <1>4, <1>5 DEF Next

-----------------------------------------------------------------------------
(* The theorems. *)

LEMMA IInvInit == Init => IInv
<1> SUFFICES ASSUME Init  PROVE  IInv
  OBVIOUS
<1>1. Shape
  BY ShapeInit
<1>2. /\ \A w \in Workers : run[w].pc = "idle"
      /\ \A n \in Notes : job[n].st = "none"
  BY IdleOK, NoJobOK DEF Init
<1>3. ASSUME NEW n \in Notes
      PROVE  Cardinality(Sending(n)) = 0 /\ Cardinality(Ahead(n)) = 0
  <2>1. Sending(n) = {} /\ Ahead(n) = {} /\ {} \in SUBSET Workers
    BY <1>2 DEF Sending, Ahead
  <2>. QED  BY <2>1, WorkerSets
<1>4. CopiesCounted
  BY <1>3 DEF CopiesCounted, Init
<1>5. WithinBudget
  <2>1. Attempts + MaxStalls \in Nat
    BY OutboxAssumption
  <2>2. ASSUME NEW n \in Notes  PROVE  BudgetOf(n)
    <3>1. note[n].attempts = 0 /\ Cardinality(Ahead(n)) = 0 /\ Used(n) = 0 /\ Due(n) = 0
          /\ faults = 0
      BY <1>2, <1>3 DEF Init, Used, Due
    <3>. QED  BY <2>1, <3>1 DEF BudgetOf
  <2>. QED  BY <2>2 DEF WithinBudget
<1>. QED  BY <1>1, <1>4, <1>5 DEF IInv

LEMMA IInvStep == IInv /\ [Next]_vars => IInv'
BY ShapeStep, CountedStep, BudgetStep DEF IInv

\* The inductive invariant holds throughout: what workers know of their rows, one
\* counted attempt for every copy delivered or about to be, and the budget of jobs.
THEOREM InvariantHolds == Spec => []IInv
BY IInvInit, IInvStep, PTL DEF Spec

\* The rows, jobs, workers and events keep their types.
THEOREM TypeCorrect == Spec => []TypeOK
<1>1. IInv => TypeOK
  BY DEF IInv, Shape
<1>. QED  BY <1>1, InvariantHolds, PTL

\* processNotificationJob: whatever overlaps, a row on a channel with a transport
\* is marked SENT only after its recipient got it.
THEOREM SentMeansDelivered == Spec => []SentWasDelivered
<1>1. IInv => SentWasDelivered
  BY DEF IInv, Shape
<1>. QED  BY <1>1, InvariantHolds, PTL

\* No recipient gets more copies than attempts were counted, and a job that BullMQ
\* has not removed for want of room never counts more than its attempts and stalls,
\* however crashes, expired locks, retries and bootstraps combine.
THEOREM DeliveriesAreBounded == Spec => []DeliveriesBounded
<1>1. ASSUME IInv  PROVE  DeliveriesBounded
  <2>1. Shape /\ CopiesCounted /\ WithinBudget /\ TypeOK
    BY <1>1 DEF IInv, Shape
  <2>2. ASSUME NEW n \in Notes  PROVE  sends[n] <= note[n].attempts
    <3>1. Sending(n) \in SUBSET Workers
      BY DEF Sending
    <3>2. Cardinality(Sending(n)) \in Nat
      BY <3>1, WorkerSets
    <3>3. sends[n] \in Nat /\ note[n].attempts \in Nat
      BY <2>1, NumbersTyped
    <3>4. sends[n] + Cardinality(Sending(n)) <= note[n].attempts
      BY <2>1 DEF CopiesCounted
    <3>. QED  BY <3>2, <3>3, <3>4
  <2>3. ASSUME NEW n \in Notes \ dropped  PROVE  note[n].attempts <= Budget
    <3>1. Ahead(n) \in SUBSET Workers
      BY DEF Ahead
    <3>2. Cardinality(Ahead(n)) \in Nat /\ Due(n) \in Nat
      BY <3>1, WorkerSets DEF Due
    <3>3. note[n].attempts \in Nat /\ faults \in Nat /\ Attempts + MaxStalls \in Nat
      BY <2>1, NumbersTyped, OutboxAssumption
    <3>4. Used(n) \in Nat /\ Used(n) <= Attempts + MaxStalls
      BY <2>1, UsedFacts
    <3>5. BudgetOf(n)
      BY <2>1 DEF WithinBudget
    <3>6. CASE inline
      <4>1. note[n].attempts + Cardinality(Ahead(n)) + Due(n) <= 1 + faults
        BY <3>5, <3>6 DEF BudgetOf
      <4>. QED  BY <3>2, <3>3, <3>6, <4>1 DEF Budget
    <3>7. CASE ~inline
      <4>1. note[n].attempts + Cardinality(Ahead(n)) <= Attempts + MaxStalls
        BY <3>2, <3>3, <3>4, <3>5, <3>7 DEF BudgetOf
      <4>. QED  BY <3>2, <3>3, <3>7, <4>1 DEF Budget
    <3>. QED  BY <3>6, <3>7
  <2>. QED  BY <2>2, <2>3 DEF DeliveriesBounded
<1>. QED  BY <1>1, InvariantHolds, PTL

\* A row that was SENT stays SENT: the updates of handleFailedJob and
\* handleInlineFailure are limited to PENDING rows, and no row is created twice.
THEOREM SentStays == Spec => SentIsFinal
<1> DEFINE Keeps == \A n \in Notes : note[n].status = "SENT" => note'[n].status = "SENT"
<1>1. ASSUME IInv, [Next]_vars  PROVE  [Keeps]_vars
  <2>1. Shape /\ TypeOK /\ note \in [Notes -> NoteType]
    BY <1>1, Typed DEF IInv, Shape
  <2>2. CASE \E n \in Notes : CreateNotification(n)
    <3>1. PICK n \in Notes : CreateNotification(n)
      BY <2>2
    <3>2. note[n].status = "NONE"
      BY <2>1, <3>1 DEF Shape, FreshOK, CreateNotification
    <3>3. \A m \in Notes : m # n => note'[m] = note[m]
      BY <2>1, <3>1 DEF CreateNotification
    <3>. QED  BY <3>2, <3>3
  <2>3. CASE \E w \in Workers : CountAttempt(w) \/ MarkSent(w) \/ HandleInlineFailure(w)
    <3>1. PICK w \in Workers : CountAttempt(w) \/ MarkSent(w) \/ HandleInlineFailure(w)
      BY <2>3
    <3>2. run[w].note \in Notes
      BY <2>1, <3>1, RunningFacts DEF CountAttempt, MarkSent, HandleInlineFailure, At
    <3>3. CASE CountAttempt(w) \/ MarkSent(w)
      BY <2>1, <3>2, <3>3, NoteFacts DEF CountAttempt, MarkSent, Statuses
    <3>4. CASE HandleInlineFailure(w)
      BY <2>1, <3>2, <3>4, GiveUpFacts DEF HandleInlineFailure
    <3>. QED  BY <3>1, <3>3, <3>4
  <2>4. CASE \E e \in failedEv : HandleFailedJob(e)
    <3>1. PICK e \in failedEv : HandleFailedJob(e)
      BY <2>4
    <3>2. e.note \in Notes
      BY <2>1 DEF TypeOK
    <3>. QED  BY <2>1, <3>1, <3>2, GiveUpFacts DEF HandleFailedJob
  <2>5. CASE UNCHANGED note
    BY <2>5
  <2>6. CASE Next
    BY <2>2, <2>3, <2>4, <2>5, <2>6
       DEF Next, WorkerStep, EnqueueNotification, TakeBack, LockExpires, EnqueuePending,
           TakeJob, ReadRow, Send, WriteAudit, Complete, FailAttempt, DatabaseFails, Crash,
           Restart, DeleteWebhook
  <2>. QED  BY <1>1, <2>6
<1>. QED  BY <1>1, InvariantHolds, PTL DEF Spec, SentIsFinal
=============================================================================
