------------------------- MODULE EventStreamsProofs -------------------------
(***************************************************************************)
(* Proofs about EventStreams: what is acknowledged was done in full, and an *)
(* alert is copied a bounded number of times, for any number of entries,    *)
(* processors, dispatchers and failures.                                    *)
(***************************************************************************)
EXTENDS EventStreams, FiniteSetTheorems, TLAPS

ProcStages == {"down", "claim", "poll", "enrich", "score", "alert", "ack", "hung"}
ProcType == [pc : ProcStages, todo : SUBSET Entries, cur : Entries \cup {None}]
DispType == [pc : {"down", "poll", "fan", "ack"}, todo : SUBSET Copies,
             cur : Copies \cup {None}, left : SUBSET Hooks]

\* All that handleEntry writes for e is written.
Done(e) ==
    /\ e \in Alerts => CopiesOf(e) # {}
    /\ e \in Telemetry => {<<"enriched", e>>, <<"score", e>>} \subseteq written

\* What a processor has written of the entry it handles.
ProcsOK ==
    \A p \in Processors :
        /\ proc[p].pc \in {"enrich", "score", "alert", "ack"} => proc[p].cur \in Entries
        /\ proc[p].pc \in {"enrich", "score"} => proc[p].cur \in Telemetry
        /\ proc[p].pc = "alert" => proc[p].cur \in Alerts /\ proc[p].cur \notin proc[p].todo
        /\ proc[p].pc = "score" => <<"enriched", proc[p].cur>> \in written
        /\ proc[p].pc = "ack" => Done(proc[p].cur)

\* What a dispatcher has created of the Notifications of its copy.
DispsOK ==
    \A d \in Dispatchers :
        /\ disp[d].pc \in {"fan", "ack"} =>
               disp[d].cur \in Copies /\ out[disp[d].cur] # "none"
        /\ \A k \in disp[d].todo : out[k] # "none"
        /\ disp[d].pc = "fan" /\ disp[d].cur[1] \notin Orphans =>
               Hooks \subseteq notified[disp[d].cur] \cup disp[d].left
        /\ disp[d].pc = "ack" /\ disp[d].cur[1] \notin Orphans =>
               notified[disp[d].cur] = Hooks

\* The group has not given e to anybody.
Fresh(e) == src[e] \in {"none", "new", "skipped"}

\* Processors that may yet copy e: those that have it, and those that have yet to
\* make the one claim of their life.
MayCopy(e) ==
    {p \in Processors : \/ proc[p].pc \in {"down", "claim"}
                        \/ e \in proc[p].todo
                        \/ proc[p].pc = "alert" /\ proc[p].cur = e}

CopyBudget(e) ==
    IF Fresh(e)
    THEN /\ CopiesOf(e) = {}
         /\ \A p \in Processors : e \notin proc[p].todo /\ proc[p].cur # e
    ELSE Cardinality(CopiesOf(e)) + Cardinality(MayCopy(e)) <=
             Cardinality(Processors) + faults

Budgets == \A e \in Entries : CopyBudget(e)

\* The inductive invariant.
IInv == TypeOK /\ ProcsOK /\ DispsOK /\ AckedIsWritten /\ AckedIsNotified /\ Budgets

-----------------------------------------------------------------------------
(* Streams, copies and counting. *)

LEMMA Typed ==
    ASSUME TypeOK
    PROVE  proc \in [Processors -> ProcType] /\ disp \in [Dispatchers -> DispType]
BY DEF TypeOK, ProcType, ProcStages, DispType

LEMMA DownTyped ==
    /\ DownProcessor \in ProcType /\ DownProcessor.pc = "down" /\ DownProcessor.todo = {}
    /\ DownProcessor.cur = None
    /\ DownDispatcher \in DispType /\ DownDispatcher.pc = "down" /\ DownDispatcher.todo = {}
BY DEF DownProcessor, DownDispatcher, ProcType, ProcStages, DispType

\* One processor, or one dispatcher, becomes r.
LEMMA ProcUpdate ==
    ASSUME proc \in [Processors -> ProcType], NEW p \in Processors, NEW r \in ProcType,
           proc' = [proc EXCEPT ![p] = r]
    PROVE  /\ proc' \in [Processors -> ProcType] /\ proc'[p] = r
           /\ \A q \in Processors : q # p => proc'[q] = proc[q]
OBVIOUS

LEMMA DispUpdate ==
    ASSUME disp \in [Dispatchers -> DispType], NEW d \in Dispatchers, NEW r \in DispType,
           disp' = [disp EXCEPT ![d] = r]
    PROVE  /\ disp' \in [Dispatchers -> DispType] /\ disp'[d] = r
           /\ \A c \in Dispatchers : c # d => disp'[c] = disp[c]
OBVIOUS

\* A processor goes to another stage, with its entry and batch.
LEMMA ProcStage ==
    ASSUME proc \in [Processors -> ProcType], NEW p \in Processors, NEW pc \in ProcStages,
           proc' = [proc EXCEPT ![p].pc = pc]
    PROVE  /\ proc' \in [Processors -> ProcType]
           /\ proc'[p].pc = pc /\ proc'[p].todo = proc[p].todo /\ proc'[p].cur = proc[p].cur
           /\ \A q \in Processors : q # p => proc'[q] = proc[q]
<1> DEFINE r == [proc[p] EXCEPT !.pc = pc]
<1>1. proc[p] \in ProcType
  OBVIOUS
<1>2. r \in ProcType /\ r.pc = pc /\ r.todo = proc[p].todo /\ r.cur = proc[p].cur
  BY <1>1 DEF ProcType
<1>3. proc' = [proc EXCEPT ![p] = r]
  OBVIOUS
<1> HIDE DEF r
<1>. QED  BY <1>2, <1>3, ProcUpdate

\* A processor is done with its entry, whether or not it was written.
LEMMA ProcDone ==
    ASSUME proc \in [Processors -> ProcType], NEW p \in Processors,
           proc' = [proc EXCEPT ![p] = [@ EXCEPT !.pc = "poll", !.cur = None]]
    PROVE  /\ proc' \in [Processors -> ProcType]
           /\ proc'[p].pc = "poll" /\ proc'[p].todo = proc[p].todo /\ proc'[p].cur = None
           /\ \A q \in Processors : q # p => proc'[q] = proc[q]
<1> DEFINE r == [proc[p] EXCEPT !.pc = "poll", !.cur = None]
<1>1. proc[p] \in ProcType
  OBVIOUS
<1>2. r \in ProcType /\ r.pc = "poll" /\ r.todo = proc[p].todo /\ r.cur = None
  BY <1>1 DEF ProcType, ProcStages
<1>3. proc' = [proc EXCEPT ![p] = r]
  OBVIOUS
<1> HIDE DEF r
<1>. QED  BY <1>2, <1>3, ProcUpdate

\* A processor gets a batch.
LEMMA ProcBatch ==
    ASSUME proc \in [Processors -> ProcType], NEW p \in Processors, NEW b \in SUBSET Entries,
           \/ proc' = [proc EXCEPT ![p] = [@ EXCEPT !.pc = "poll", !.todo = b]]
           \/ proc[p].pc = "poll" /\ proc' = [proc EXCEPT ![p].todo = b]
    PROVE  /\ proc' \in [Processors -> ProcType]
           /\ proc'[p].pc = "poll" /\ proc'[p].todo = b /\ proc'[p].cur = proc[p].cur
           /\ \A q \in Processors : q # p => proc'[q] = proc[q]
<1>1. proc[p] \in ProcType
  OBVIOUS
<1>2. CASE proc' = [proc EXCEPT ![p] = [@ EXCEPT !.pc = "poll", !.todo = b]]
  <2> DEFINE r == [proc[p] EXCEPT !.pc = "poll", !.todo = b]
  <2>1. r \in ProcType /\ r.pc = "poll" /\ r.todo = b /\ r.cur = proc[p].cur
    BY <1>1 DEF ProcType, ProcStages
  <2>2. proc' = [proc EXCEPT ![p] = r]
    BY <1>2
  <2> HIDE DEF r
  <2>. QED  BY <2>1, <2>2, ProcUpdate
<1>3. CASE proc[p].pc = "poll" /\ proc' = [proc EXCEPT ![p].todo = b]
  <2> DEFINE r == [proc[p] EXCEPT !.todo = b]
  <2>1. r \in ProcType /\ r.pc = "poll" /\ r.todo = b /\ r.cur = proc[p].cur
    BY <1>1, <1>3 DEF ProcType
  <2>2. proc' = [proc EXCEPT ![p] = r]
    BY <1>3
  <2> HIDE DEF r
  <2>. QED  BY <2>1, <2>2, ProcUpdate
<1>. QED  BY <1>2, <1>3

LEMMA DeliverFacts ==
    ASSUME NEW S, NEW s \in [S -> Delivery], NEW b \in SUBSET S
    PROVE  /\ Deliver(s, b) \in [S -> Delivery]
           /\ \A x \in b : Deliver(s, b)[x] = "pending"
           /\ \A x \in S \ b : Deliver(s, b)[x] = s[x]
BY DEF Deliver, Delivery

\* The copies of an alert, and the processors that may add to them, can be counted.
LEMMA CopySets ==
    ASSUME NEW S \in SUBSET (1 .. MaxCopies), NEW T \in SUBSET (1 .. MaxCopies)
    PROVE  /\ Cardinality(S) \in Nat /\ Cardinality(T) \in Nat
           /\ S = {} => Cardinality(S) = 0
           /\ \A i \in 1 .. MaxCopies : S \subseteq T \cup {i} =>
                  Cardinality(S) <= Cardinality(T) + 1
<1>1. IsFiniteSet(1 .. MaxCopies)
  <2>1. MaxCopies \in Nat
    BY StreamsAssumption
  <2>2. MaxCopies \in Int /\ 1 \in Int
    BY <2>1
  <2>. QED  BY <2>2, FS_Interval
<1>2. IsFiniteSet(S) /\ IsFiniteSet(T)
  BY <1>1, FS_Subset
<1>3. Cardinality(S) \in Nat /\ Cardinality(T) \in Nat
  BY <1>2, FS_CardinalityType
<1>4. ASSUME NEW i \in 1 .. MaxCopies, S \subseteq T \cup {i}
      PROVE  Cardinality(S) <= Cardinality(T) + 1
  <2>1. /\ IsFiniteSet(T \cup {i})
        /\ \/ Cardinality(T \cup {i}) = Cardinality(T)
           \/ Cardinality(T \cup {i}) = Cardinality(T) + 1
    BY <1>2, FS_AddElement
  <2>2. Cardinality(S) <= Cardinality(T \cup {i})
    BY <1>4, <2>1, FS_Subset
  <2>. QED  BY <1>3, <2>1, <2>2
<1>. QED  BY <1>3, <1>4, FS_EmptySet

LEMMA ProcSets ==
    ASSUME NEW S \in SUBSET Processors, NEW T \in SUBSET Processors
    PROVE  /\ Cardinality(S) \in Nat /\ Cardinality(T) \in Nat
           /\ Cardinality(Processors) \in Nat /\ Cardinality(S) <= Cardinality(Processors)
           /\ S \subseteq T => Cardinality(S) <= Cardinality(T)
           /\ \A p \in Processors : S \subseteq T \cup {p} =>
                  Cardinality(S) <= Cardinality(T) + 1
           /\ \A p \in T : S \subseteq T \ {p} => Cardinality(S) + 1 <= Cardinality(T)
<1>1. IsFiniteSet(S) /\ IsFiniteSet(T) /\ IsFiniteSet(Processors)
  BY FS_Subset, StreamsAssumption
<1>2. /\ Cardinality(S) \in Nat /\ Cardinality(T) \in Nat /\ Cardinality(Processors) \in Nat
  BY <1>1, FS_CardinalityType
<1>3. /\ Cardinality(S) <= Cardinality(Processors)
      /\ S \subseteq T => Cardinality(S) <= Cardinality(T)
  BY <1>1, FS_Subset
<1>4. ASSUME NEW p \in Processors, S \subseteq T \cup {p}
      PROVE  Cardinality(S) <= Cardinality(T) + 1
  <2>1. /\ IsFiniteSet(T \cup {p})
        /\ \/ Cardinality(T \cup {p}) = Cardinality(T)
           \/ Cardinality(T \cup {p}) = Cardinality(T) + 1
    BY <1>1, FS_AddElement
  <2>2. Cardinality(S) <= Cardinality(T \cup {p})
    BY <1>4, <2>1, FS_Subset
  <2>. QED  BY <1>2, <2>1, <2>2
<1>5. ASSUME NEW p \in T, S \subseteq T \ {p}
      PROVE  Cardinality(S) + 1 <= Cardinality(T)
  <2>1. IsFiniteSet(T \ {p}) /\ Cardinality(T \ {p}) = Cardinality(T) - 1
    BY <1>1, FS_RemoveElement
  <2>2. Cardinality(S) <= Cardinality(T \ {p})
    BY <1>5, <2>1, FS_Subset
  <2>. QED  BY <1>2, <2>1, <2>2
<1>. QED  BY <1>2, <1>3, <1>4, <1>5

-----------------------------------------------------------------------------
(* The parts of the invariant, after a step of a given form. *)

\* Nothing that was written or created is taken back.
Grows ==
    /\ written \subseteq written'
    /\ \A k \in Copies : out[k] # "none" => out'[k] # "none"
    /\ \A k \in Copies : notified[k] \subseteq notified'[k]

LEMMA DoneStays ==
    ASSUME Grows, NEW e \in Entries, Done(e)
    PROVE  Done(e)'
<1>1. \A i \in 1 .. MaxCopies : <<e, i>> \in Copies
  BY DEF Copies
<1>2. CopiesOf(e) \subseteq CopiesOf(e)'
  BY <1>1 DEF Grows, CopiesOf
<1>3. written \subseteq written'
  BY DEF Grows
<1>. QED  BY <1>2, <1>3 DEF Done

LEMMA ProcsStep ==
    ASSUME ProcsOK, Grows,
           \A p \in Processors :
               \/ proc'[p] = proc[p]
               \/ /\ proc'[p].pc \in {"enrich", "score", "alert", "ack"} =>
                         proc'[p].cur \in Entries
                  /\ proc'[p].pc \in {"enrich", "score"} => proc'[p].cur \in Telemetry
                  /\ proc'[p].pc = "alert" => proc'[p].cur \in Alerts /\ proc'[p].cur \notin proc'[p].todo
                  /\ proc'[p].pc = "score" => <<"enriched", proc'[p].cur>> \in written'
                  /\ \A e \in Entries : proc'[p].pc = "ack" /\ proc'[p].cur = e => Done(e)'
    PROVE  ProcsOK'
<1> SUFFICES ASSUME NEW p \in Processors
             PROVE  /\ proc'[p].pc \in {"enrich", "score", "alert", "ack"} =>
                           proc'[p].cur \in Entries
                    /\ proc'[p].pc \in {"enrich", "score"} => proc'[p].cur \in Telemetry
                    /\ proc'[p].pc = "alert" => proc'[p].cur \in Alerts /\ proc'[p].cur \notin proc'[p].todo
                    /\ proc'[p].pc = "score" => <<"enriched", proc'[p].cur>> \in written'
                    /\ proc'[p].pc = "ack" => Done(proc[p].cur)'
  BY DEF ProcsOK
<1>1. CASE proc'[p] = proc[p]
  <2>1. /\ proc[p].pc \in {"enrich", "score", "alert", "ack"} => proc[p].cur \in Entries
        /\ proc[p].pc \in {"enrich", "score"} => proc[p].cur \in Telemetry
        /\ proc[p].pc = "alert" => proc[p].cur \in Alerts /\ proc[p].cur \notin proc[p].todo
        /\ proc[p].pc = "score" => <<"enriched", proc[p].cur>> \in written
        /\ proc[p].pc = "ack" => Done(proc[p].cur)
    BY DEF ProcsOK
  <2>2. ASSUME proc[p].pc = "ack"  PROVE  Done(proc[p].cur)'
    <3>1. PICK e \in Entries : e = proc[p].cur
      BY <2>1, <2>2
    <3>2. Done(e)'
      BY <2>1, <2>2, <3>1, DoneStays
    <3>. QED  BY <1>1, <3>1, <3>2
  <2>. QED  BY <1>1, <2>1, <2>2 DEF Grows
<1>2. CASE proc'[p] # proc[p]
  <2>1. /\ proc'[p].pc \in {"enrich", "score", "alert", "ack"} => proc'[p].cur \in Entries
        /\ proc'[p].pc \in {"enrich", "score"} => proc'[p].cur \in Telemetry
        /\ proc'[p].pc = "alert" => proc'[p].cur \in Alerts /\ proc'[p].cur \notin proc'[p].todo
        /\ proc'[p].pc = "score" => <<"enriched", proc'[p].cur>> \in written'
        /\ \A e \in Entries : proc'[p].pc = "ack" /\ proc'[p].cur = e => Done(e)'
    BY <1>2
  <2>2. ASSUME proc'[p].pc = "ack"  PROVE  Done(proc[p].cur)'
    <3>1. PICK e \in Entries : e = proc'[p].cur
      BY <2>1, <2>2
    <3>2. Done(e)'
      BY <2>1, <2>2, <3>1
    <3>. QED  BY <3>1, <3>2
  <2>. QED  BY <2>1, <2>2
<1>. QED  BY <1>1, <1>2

LEMMA AckedStep ==
    ASSUME AckedIsWritten, Grows,
           \A e \in Entries : src'[e] = "acked" => src[e] = "acked" \/ Done(e)
    PROVE  AckedIsWritten'
<1> SUFFICES ASSUME NEW e \in Entries, src'[e] = "acked"  PROVE  Done(e)'
  BY DEF AckedIsWritten, Done
<1>1. Done(e)
  BY DEF AckedIsWritten, Done
<1>. QED  BY <1>1, DoneStays

LEMMA DispsStep ==
    ASSUME DispsOK, Grows, TypeOK, TypeOK',
           \A d \in Dispatchers :
               \/ disp'[d] = disp[d]
               \/ /\ disp'[d].pc \in {"fan", "ack"} =>
                         disp'[d].cur \in Copies /\ out'[disp'[d].cur] # "none"
                  /\ \A k \in disp'[d].todo : out'[k] # "none"
                  /\ disp'[d].pc = "fan" /\ disp'[d].cur[1] \notin Orphans =>
                         Hooks \subseteq notified'[disp'[d].cur] \cup disp'[d].left
                  /\ disp'[d].pc = "ack" /\ disp'[d].cur[1] \notin Orphans =>
                         notified'[disp'[d].cur] = Hooks
    PROVE  DispsOK'
<1> SUFFICES ASSUME NEW d \in Dispatchers
             PROVE  /\ disp'[d].pc \in {"fan", "ack"} =>
                           disp'[d].cur \in Copies /\ out'[disp'[d].cur] # "none"
                    /\ \A k \in disp'[d].todo : out'[k] # "none"
                    /\ disp'[d].pc = "fan" /\ disp'[d].cur[1] \notin Orphans =>
                           Hooks \subseteq notified'[disp'[d].cur] \cup disp'[d].left
                    /\ disp'[d].pc = "ack" /\ disp'[d].cur[1] \notin Orphans =>
                           notified'[disp'[d].cur] = Hooks
  BY DEF DispsOK, Copies
<1>1. CASE disp'[d] = disp[d]
  <2>1. /\ disp[d].pc \in {"fan", "ack"} =>
               disp[d].cur \in Copies /\ out[disp[d].cur] # "none"
        /\ \A k \in disp[d].todo : k \in Copies /\ out[k] # "none"
        /\ disp[d].pc = "fan" /\ disp[d].cur[1] \notin Orphans =>
               Hooks \subseteq notified[disp[d].cur] \cup disp[d].left
        /\ disp[d].pc = "ack" /\ disp[d].cur[1] \notin Orphans => notified[disp[d].cur] = Hooks
    BY DEF DispsOK, TypeOK, Copies
  <2>2. /\ \A k \in Copies : out[k] # "none" => out'[k] # "none"
        /\ \A k \in Copies : notified[k] \subseteq notified'[k]
        /\ \A k \in Copies : notified'[k] \subseteq Hooks
    BY DEF Grows, TypeOK, Copies
  <2>3. /\ disp'[d].pc \in {"fan", "ack"} =>
               disp'[d].cur \in Copies /\ out'[disp'[d].cur] # "none"
        /\ \A k \in disp'[d].todo : out'[k] # "none"
    BY <1>1, <2>1, <2>2
  <2>4. disp'[d].pc = "fan" /\ disp'[d].cur[1] \notin Orphans =>
            Hooks \subseteq notified'[disp'[d].cur] \cup disp'[d].left
    BY <1>1, <2>1, <2>2
  <2>5. disp'[d].pc = "ack" /\ disp'[d].cur[1] \notin Orphans =>
            notified'[disp'[d].cur] = Hooks
    <3>1. SUFFICES ASSUME disp[d].pc = "ack", disp[d].cur[1] \notin Orphans
                   PROVE  notified'[disp[d].cur] = Hooks
      BY <1>1
    <3>2. PICK c \in Copies : c = disp[d].cur /\ notified[c] = Hooks
      BY <2>1, <3>1
    <3>3. notified[c] \subseteq notified'[c] /\ notified'[c] \subseteq Hooks
      BY <2>2
    <3>4. notified'[c] = Hooks
      BY <3>2, <3>3
    <3>. QED
      BY <3>2, <3>4
  <2>. QED  BY <2>3, <2>4, <2>5
<1>. QED  BY <1>1

LEMMA NotifiedStep ==
    ASSUME AckedIsNotified, Grows, TypeOK',
           \A k \in Copies : out'[k] = "acked" =>
               out[k] = "acked" \/ k[1] \in Orphans \/ notified[k] = Hooks
    PROVE  AckedIsNotified'
<1>1. SUFFICES ASSUME NEW k \in Copies, out'[k] = "acked", k[1] \notin Orphans
               PROVE  notified'[k] = Hooks
  BY DEF AckedIsNotified, Copies
<1>2. notified[k] = Hooks
  BY <1>1 DEF AckedIsNotified
<1>3. notified[k] \subseteq notified'[k] /\ notified'[k] \subseteq Hooks
  BY DEF Grows, TypeOK, Copies
<1>. QED  BY <1>2, <1>3

-----------------------------------------------------------------------------
(* The number of copies. *)

\* An entry nobody has yet, which stays so or is given to its first reader.
LEMMA FreshKeep ==
    ASSUME NEW e \in Entries, Fresh(e), CopyBudget(e), faults' \in Nat,
           CopiesOf(e)' = CopiesOf(e),
           Fresh(e)' => \A p \in Processors : e \notin proc'[p].todo /\ proc'[p].cur # e
    PROVE  CopyBudget(e)'
<1>1. CopiesOf(e)' = {}
  BY DEF CopyBudget
<1>2. MayCopy(e)' \in SUBSET Processors /\ CopiesOf(e)' \in SUBSET (1 .. MaxCopies)
  BY DEF MayCopy, CopiesOf
<1>3. /\ Cardinality(CopiesOf(e)') = 0 /\ Cardinality(MayCopy(e)') \in Nat
      /\ Cardinality(Processors) \in Nat
      /\ Cardinality(MayCopy(e)') <= Cardinality(Processors)
  BY <1>1, <1>2, CopySets, ProcSets
<1>4. Cardinality(CopiesOf(e)') + Cardinality(MayCopy(e)') <= Cardinality(Processors) + faults'
  BY <1>3
<1>. QED  BY <1>1, <1>4 DEF CopyBudget

\* An entry in somebody's hands: nobody new gets to copy it.
LEMMA UsedKeep ==
    ASSUME NEW e \in Entries, ~Fresh(e), ~Fresh(e)', CopyBudget(e), faults \in Nat,
           faults' \in Nat, faults' >= faults, CopiesOf(e)' = CopiesOf(e),
           MayCopy(e)' \subseteq MayCopy(e)
    PROVE  CopyBudget(e)'
<1>1. Cardinality(CopiesOf(e)) + Cardinality(MayCopy(e)) <= Cardinality(Processors) + faults
  BY DEF CopyBudget
<1>2. /\ MayCopy(e)' \in SUBSET Processors /\ MayCopy(e) \in SUBSET Processors
      /\ CopiesOf(e) \in SUBSET (1 .. MaxCopies)
  BY DEF MayCopy, CopiesOf
<1>3. /\ Cardinality(CopiesOf(e)) \in Nat /\ Cardinality(MayCopy(e)') \in Nat
      /\ Cardinality(Processors) \in Nat /\ Cardinality(MayCopy(e)) \in Nat
      /\ Cardinality(MayCopy(e)') <= Cardinality(MayCopy(e))
  BY <1>2, CopySets, ProcSets
<1>4. Cardinality(CopiesOf(e)') + Cardinality(MayCopy(e)') <= Cardinality(Processors) + faults'
  BY <1>1, <1>3
<1>. QED  BY <1>4 DEF CopyBudget

\* A step of processor p that copies nothing: what it has it had, or claimed in its
\* first read, or was the first to read.
LEMMA BudgetQuiet ==
    ASSUME TypeOK, Budgets, NEW p \in Processors, faults' \in Nat, faults' >= faults,
           UNCHANGED out,
           \A q \in Processors : q # p => proc'[q] = proc[q],
           \A e \in Entries : ~Fresh(e) => ~Fresh(e)',
           proc'[p].pc \in {"down", "claim"} => proc[p].pc \in {"down", "claim"},
           \A e \in proc'[p].todo : \/ e \in proc[p].todo
                                    \/ ~Fresh(e)' /\ proc[p].pc = "claim"
                                    \/ ~Fresh(e)' /\ Fresh(e),
           \/ proc'[p].cur = proc[p].cur
           \/ proc'[p].cur = None
           \/ proc'[p].cur \in proc[p].todo,
           proc'[p].pc = "alert" => proc'[p].cur \in proc[p].todo
    PROVE  Budgets'
<1> SUFFICES ASSUME NEW e \in Entries  PROVE  CopyBudget(e)'
  BY DEF Budgets
<1>1. CopyBudget(e) /\ faults \in Nat
  BY DEF Budgets, TypeOK
<1>2. CopiesOf(e)' = CopiesOf(e)
  BY DEF CopiesOf
<1>3. CASE Fresh(e)
  <2>1. \A q \in Processors : e \notin proc[q].todo /\ proc[q].cur # e
    BY <1>1, <1>3 DEF CopyBudget
  <2>2. e # None
    BY StreamsAssumption
  <2>3. Fresh(e)' => \A q \in Processors : e \notin proc'[q].todo /\ proc'[q].cur # e
    BY <2>1, <2>2
  <2>. QED  BY <1>1, <1>2, <1>3, <2>3, FreshKeep
<1>4. CASE ~Fresh(e)
  <2>1. MayCopy(e)' \subseteq MayCopy(e)
    BY <1>4 DEF MayCopy
  <2>. QED  BY <1>1, <1>2, <1>4, <2>1, UsedKeep
<1>. QED  BY <1>3, <1>4

\* A step that leaves the processors alone.
LEMMA BudgetOther ==
    ASSUME TypeOK, Budgets, faults' \in Nat, faults' >= faults, UNCHANGED proc,
           \A e \in Entries : CopiesOf(e)' = CopiesOf(e),
           \A e \in Entries : Fresh(e)' <=> Fresh(e)
    PROVE  Budgets'
<1> SUFFICES ASSUME NEW e \in Entries  PROVE  CopyBudget(e)'
  BY DEF Budgets
<1>1. CopyBudget(e) /\ faults \in Nat
  BY DEF Budgets, TypeOK
<1>2. MayCopy(e)' \subseteq MayCopy(e)
  BY DEF MayCopy
<1>3. CASE Fresh(e)
  BY <1>1, <1>3, FreshKeep DEF CopyBudget
<1>4. CASE ~Fresh(e)
  BY <1>1, <1>2, <1>4, UsedKeep
<1>. QED  BY <1>3, <1>4

-----------------------------------------------------------------------------
(* Every action keeps the invariant. *)

LEMMA FaultsTyped ==
    ASSUME TypeOK, NEW kind, Fault(kind)
    PROVE  faults' = faults + 1 /\ faults' \in Nat /\ faults' >= faults
BY DEF TypeOK, Fault

LEMMA NoEffectGrows == UNCHANGED <<written, out, notified>> => Grows
BY DEF Grows, CopiesOf

\* A step of processor p that adds nothing to the outbox: the batch it has, the
\* entry it handles, and the rest of the state.
BatchOK(p) ==
    /\ \A e \in proc'[p].todo : \/ e \in proc[p].todo
                                \/ ~Fresh(e)' /\ proc[p].pc = "claim"
                                \/ ~Fresh(e)' /\ Fresh(e)
    /\ \/ proc'[p].cur = proc[p].cur
       \/ proc'[p].cur = None
       \/ proc'[p].cur \in proc[p].todo
    /\ proc'[p].pc \in {"down", "claim"} => proc[p].pc \in {"down", "claim"}
    /\ proc'[p].pc = "alert" => proc'[p].cur \in proc[p].todo

HandlingOK(p) ==
    /\ proc'[p].pc \in {"enrich", "score", "alert", "ack"} => proc'[p].cur \in Entries
    /\ proc'[p].pc \in {"enrich", "score"} => proc'[p].cur \in Telemetry
    /\ proc'[p].pc = "alert" => proc'[p].cur \in Alerts /\ proc'[p].cur \notin proc'[p].todo
    /\ proc'[p].pc = "score" => <<"enriched", proc'[p].cur>> \in written'
    /\ \A e \in Entries : proc'[p].pc = "ack" /\ proc'[p].cur = e => Done(e)'

SourceOK ==
    /\ \A e \in Entries : ~Fresh(e) => ~Fresh(e)'
    /\ \A e \in Entries : src'[e] = "acked" => src[e] = "acked" \/ Done(e)

LEMMA ProcQuiet ==
    ASSUME IInv, NEW p \in Processors, proc' \in [Processors -> ProcType],
           \A q \in Processors : q # p => proc'[q] = proc[q],
           src' \in [Entries -> Delivery], groups' \subseteq {"processors", "dispatchers"},
           written \subseteq written', written' \subseteq {"enriched", "score"} \X Entries,
           UNCHANGED <<out, disp, notified>>, faults' \in Nat, faults' >= faults,
           SourceOK, BatchOK(p), HandlingOK(p)
    PROVE  IInv'
<1>1. TypeOK /\ ProcsOK /\ DispsOK /\ AckedIsWritten /\ AckedIsNotified /\ Budgets
  BY DEF IInv
<1>2. TypeOK'
  BY <1>1 DEF TypeOK, ProcType, ProcStages, Copies
<1>3. Grows
  BY <1>1 DEF Grows, CopiesOf
<1>4. ProcsOK'
  <2>1. \A q \in Processors :
          \/ proc'[q] = proc[q]
          \/ /\ proc'[q].pc \in {"enrich", "score", "alert", "ack"} => proc'[q].cur \in Entries
             /\ proc'[q].pc \in {"enrich", "score"} => proc'[q].cur \in Telemetry
             /\ proc'[q].pc = "alert" => proc'[q].cur \in Alerts /\ proc'[q].cur \notin proc'[q].todo
             /\ proc'[q].pc = "score" => <<"enriched", proc'[q].cur>> \in written'
             /\ \A e \in Entries : proc'[q].pc = "ack" /\ proc'[q].cur = e => Done(e)'
    BY DEF HandlingOK
  <2>. QED  BY <1>1, <1>3, <2>1, ProcsStep
<1>5. AckedIsWritten'
  BY <1>1, <1>3, AckedStep DEF SourceOK
<1>6. DispsOK'
  BY <1>1, <1>2, <1>3, DispsStep
<1>7. AckedIsNotified'
  BY <1>1, <1>2, <1>3, NotifiedStep
<1>8. Budgets'
  BY <1>1, BudgetQuiet DEF SourceOK, BatchOK
<1>. QED  BY <1>2, <1>4, <1>5, <1>6, <1>7, <1>8 DEF IInv

\* Time and ingestion.
LEMMA SourceStep ==
    ASSUME IInv, NEW e \in Entries, Publish(e) \/ Age(e)
    PROVE  IInv'
<1>1. /\ TypeOK /\ ProcsOK /\ DispsOK /\ AckedIsWritten /\ AckedIsNotified /\ Budgets
      /\ faults \in Nat
      /\ UNCHANGED <<groups, proc, written, out, disp, notified, faults>>
  BY DEF IInv, TypeOK, Publish, Age
<1>2. PICK s \in Delivery \ {"acked"} :
          /\ src' = [src EXCEPT ![e] = s]
          /\ s \in {"none", "new", "skipped"} <=> src[e] \in {"none", "new", "skipped"}
  BY DEF Publish, Age, Added, Delivery
<1>3. src' \in [Entries -> Delivery] /\ src'[e] = s /\ \A f \in Entries : f # e => src'[f] = src[f]
  BY <1>1, <1>2 DEF TypeOK
<1>4. \A f \in Entries : Fresh(f)' <=> Fresh(f)
  BY <1>2, <1>3 DEF Fresh
<1>5. TypeOK'
  BY <1>1, <1>3 DEF TypeOK, Copies
<1>6. Grows
  BY <1>1, NoEffectGrows
<1>7. ProcsOK' /\ AckedIsWritten'
  BY <1>1, <1>2, <1>3, <1>6, ProcsStep, AckedStep
<1>8. DispsOK' /\ AckedIsNotified'
  BY <1>1, <1>5, <1>6, DispsStep, NotifiedStep
<1>9. Budgets'
  <2>1. \A f \in Entries : CopiesOf(f)' = CopiesOf(f)
    BY <1>1 DEF CopiesOf
  <2>. QED  BY <1>1, <1>4, <2>1, BudgetOther
<1>. QED  BY <1>5, <1>7, <1>8, <1>9 DEF IInv

LEMMA StartStep ==
    ASSUME IInv, NEW p \in Processors, StartProcessor(p)
    PROVE  IInv'
<1>1. /\ TypeOK /\ src \in [Entries -> Delivery] /\ faults \in Nat
      /\ written \subseteq {"enriched", "score"} \X Entries
      /\ groups' \subseteq {"processors", "dispatchers"} /\ proc[p].pc = "down"
      /\ UNCHANGED <<src, written, out, disp, notified>>
  BY DEF IInv, TypeOK, StartProcessor
<1>5. PICK pc \in {"claim", "hung"} : proc' = [proc EXCEPT ![p].pc = pc]
  BY DEF StartProcessor
<1>2. /\ proc' \in [Processors -> ProcType]
      /\ proc'[p].pc = pc /\ proc'[p].todo = proc[p].todo /\ proc'[p].cur = proc[p].cur
      /\ \A q \in Processors : q # p => proc'[q] = proc[q]
  BY <1>1, <1>5, Typed, ProcStage DEF ProcStages
<1>6. faults' \in Nat /\ faults' >= faults
  <2>1. CASE UNCHANGED faults
    BY <1>1, <2>1
  <2>2. CASE Fault("group")
    BY <1>1, <2>2, FaultsTyped
  <2>. QED  BY <2>1, <2>2 DEF StartProcessor
<1>3. SourceOK
  BY <1>1 DEF SourceOK, Fresh
<1>4. BatchOK(p) /\ HandlingOK(p)
  BY <1>1, <1>2 DEF BatchOK, HandlingOK, Fresh, Done
<1>. QED  BY <1>1, <1>2, <1>3, <1>4, <1>6, ProcQuiet

\* Reading a batch: claimed from others, or new.
LEMMA ReadStep ==
    ASSUME IInv, NEW p \in Processors, ReclaimPending(p) \/ Poll(p)
    PROVE  IInv'
<1>1. /\ TypeOK /\ src \in [Entries -> Delivery] /\ faults \in Nat
      /\ written \subseteq {"enriched", "score"} \X Entries
      /\ groups \subseteq {"processors", "dispatchers"}
      /\ UNCHANGED <<groups, written, out, disp, notified>>
  BY DEF IInv, TypeOK, ReclaimPending, Poll
<1>2. ASSUME NEW b \in SUBSET Entries, src' = Deliver(src, b), UNCHANGED faults,
             \/ /\ proc[p].pc = "claim" /\ \A e \in b : src[e] = "old"
                /\ proc' = [proc EXCEPT ![p] = [@ EXCEPT !.pc = "poll", !.todo = b]]
             \/ /\ proc[p].pc = "poll" /\ \A e \in b : src[e] = "new"
                /\ proc' = [proc EXCEPT ![p].todo = b]
      PROVE  IInv'
  <2>1. /\ src' \in [Entries -> Delivery] /\ \A e \in b : src'[e] = "pending"
        /\ \A e \in Entries \ b : src'[e] = src[e]
    BY <1>1, <1>2, DeliverFacts
  <2>2. /\ proc' \in [Processors -> ProcType]
        /\ proc'[p].pc = "poll" /\ proc'[p].todo = b /\ proc'[p].cur = proc[p].cur
        /\ \A q \in Processors : q # p => proc'[q] = proc[q]
    BY <1>1, <1>2, Typed, ProcBatch
  <2>3. /\ \A e \in Entries : ~Fresh(e) => ~Fresh(e)'
        /\ \A e \in Entries : src'[e] = "acked" => src[e] = "acked"
        /\ \A e \in b : ~Fresh(e)' /\ (proc[p].pc = "claim" \/ Fresh(e))
    BY <1>2, <2>1 DEF Fresh
  <2>4. SourceOK /\ BatchOK(p) /\ HandlingOK(p) /\ faults' \in Nat /\ faults' >= faults
    BY <1>1, <1>2, <2>2, <2>3 DEF SourceOK, BatchOK, HandlingOK, Fresh, Done
  <2>. QED  BY <1>1, <2>1, <2>2, <2>4, ProcQuiet
<1>3. ASSUME NEW pc \in {"poll", "hung"}, proc' = [proc EXCEPT ![p].pc = pc], Fault("read"),
             UNCHANGED src
      PROVE  IInv'
  <2>1. /\ proc' \in [Processors -> ProcType]
        /\ proc'[p].pc = pc /\ proc'[p].todo = proc[p].todo /\ proc'[p].cur = proc[p].cur
        /\ \A q \in Processors : q # p => proc'[q] = proc[q]
    BY <1>1, <1>3, Typed, ProcStage DEF ProcStages
  <2>2. faults' \in Nat /\ faults' >= faults /\ SourceOK /\ BatchOK(p) /\ HandlingOK(p)
    BY <1>1, <1>3, <2>1, FaultsTyped DEF SourceOK, BatchOK, HandlingOK, Fresh, Done
  <2>. QED  BY <1>1, <1>3, <2>1, <2>2, ProcQuiet
<1>4. CASE ReclaimPending(p)
  <2>1. CASE \E b \in Chunks(Claimable) :
               /\ src' = Deliver(src, b)
               /\ proc' = [proc EXCEPT ![p] = [@ EXCEPT !.pc = "poll", !.todo = b]]
               /\ UNCHANGED faults
    <3>1. PICK b \in Chunks(Claimable) :
               /\ src' = Deliver(src, b)
               /\ proc' = [proc EXCEPT ![p] = [@ EXCEPT !.pc = "poll", !.todo = b]]
               /\ UNCHANGED faults
      BY <2>1
    <3>2. b \in SUBSET Entries /\ \A e \in b : src[e] = "old"
      BY DEF Chunks, Claimable
    <3>. QED  BY <1>2, <1>4, <3>1, <3>2 DEF ReclaimPending
  <2>2. CASE Fault("read") /\ proc' = [proc EXCEPT ![p].pc = "poll"] /\ UNCHANGED src
    BY <1>3, <2>2
  <2>. QED  BY <1>4, <2>1, <2>2 DEF ReclaimPending
<1>5. CASE Poll(p)
  <2>1. CASE \E b \in Chunks({e \in Entries : src[e] = "new"}) :
               /\ src' = Deliver(src, b) /\ proc' = [proc EXCEPT ![p].todo = b]
               /\ UNCHANGED faults
    <3>1. PICK b \in Chunks({e \in Entries : src[e] = "new"}) :
               /\ src' = Deliver(src, b) /\ proc' = [proc EXCEPT ![p].todo = b]
               /\ UNCHANGED faults
      BY <2>1
    <3>2. b \in SUBSET Entries /\ \A e \in b : src[e] = "new"
      BY DEF Chunks
    <3>. QED  BY <1>2, <1>5, <3>1, <3>2 DEF Poll
  <2>2. CASE Fault("read") /\ proc' = [proc EXCEPT ![p].pc = "hung"] /\ UNCHANGED src
    BY <1>3, <2>2
  <2>. QED  BY <1>5, <2>1, <2>2 DEF Poll
<1>. QED  BY <1>4, <1>5

LEMMA EntryStep ==
    ASSUME IInv, NEW p \in Processors, NEW e \in Entries, NextEntry(p, e)
    PROVE  IInv'
<1> DEFINE r == [pc |-> IF e \in Telemetry THEN "enrich"
                        ELSE IF e \in Alerts THEN "alert" ELSE "ack",
                 todo |-> proc[p].todo \ {e}, cur |-> e]
<1>1. /\ TypeOK /\ src \in [Entries -> Delivery] /\ faults \in Nat
      /\ written \subseteq {"enriched", "score"} \X Entries
      /\ groups \subseteq {"processors", "dispatchers"}
      /\ proc[p].pc = "poll" /\ e \in proc[p].todo /\ proc' = [proc EXCEPT ![p] = r]
      /\ UNCHANGED <<src, groups, written, out, disp, notified, faults>>
  BY DEF IInv, TypeOK, NextEntry
<1>2. proc[p] \in ProcType
  BY <1>1, Typed
<1>3. r \in ProcType /\ r.todo = proc[p].todo \ {e} /\ r.cur = e
      /\ r.pc = IF e \in Telemetry THEN "enrich" ELSE IF e \in Alerts THEN "alert" ELSE "ack"
  BY <1>2 DEF ProcType, ProcStages
<1> HIDE DEF r
<1>4. /\ proc' \in [Processors -> ProcType] /\ proc'[p] = r
      /\ \A q \in Processors : q # p => proc'[q] = proc[q]
  BY <1>1, <1>3, Typed, ProcUpdate
<1>5. SourceOK
  BY <1>1 DEF SourceOK, Fresh
<1>6. r.pc = "ack" => Done(e)'
  BY <1>3 DEF Done
<1>7. BatchOK(p)
  <2>1. \A f \in proc'[p].todo : f \in proc[p].todo
    BY <1>3, <1>4
  <2>2. proc'[p].cur \in proc[p].todo
    BY <1>1, <1>3, <1>4
  <2>3. proc'[p].pc \notin {"down", "claim"}
    BY <1>3, <1>4
  <2>. QED  BY <2>1, <2>2, <2>3 DEF BatchOK
<1>8. HandlingOK(p)
  BY <1>3, <1>4, <1>6 DEF HandlingOK
<1>9. faults' \in Nat /\ faults' >= faults
  BY <1>1
<1>. QED  BY <1>1, <1>4, <1>5, <1>7, <1>8, <1>9, ProcQuiet

LEMMA FailStep ==
    ASSUME IInv, NEW p \in Processors, WriteFails(p)
    PROVE  IInv'
<1>1. /\ TypeOK /\ src \in [Entries -> Delivery]
      /\ written \subseteq {"enriched", "score"} \X Entries
      /\ groups \subseteq {"processors", "dispatchers"} /\ faults' \in Nat /\ faults' >= faults
      /\ UNCHANGED <<src, groups, written, out, disp, notified>>
  BY FaultsTyped DEF IInv, TypeOK, WriteFails
<1>2. /\ proc' \in [Processors -> ProcType]
      /\ proc'[p].pc = "poll" /\ proc'[p].todo = proc[p].todo /\ proc'[p].cur = None
      /\ \A q \in Processors : q # p => proc'[q] = proc[q]
  BY <1>1, Typed, ProcDone DEF WriteFails
<1>3. SourceOK /\ BatchOK(p) /\ HandlingOK(p)
  BY <1>1, <1>2 DEF SourceOK, BatchOK, HandlingOK, Fresh, Done
<1>. QED  BY <1>1, <1>2, <1>3, ProcQuiet

LEMMA WriteStep ==
    ASSUME IInv, NEW p \in Processors, WriteEnriched(p) \/ WriteScore(p)
    PROVE  IInv'
<1>1. /\ TypeOK /\ ProcsOK /\ src \in [Entries -> Delivery] /\ faults \in Nat
      /\ written \subseteq {"enriched", "score"} \X Entries
      /\ groups \subseteq {"processors", "dispatchers"}
      /\ UNCHANGED <<src, groups, out, disp, notified, faults>>
      /\ proc[p].pc \in {"enrich", "score"}
  BY DEF IInv, TypeOK, WriteEnriched, WriteScore
<1>2. PICK e \in Entries : e = proc[p].cur /\ e \in Telemetry /\ e \notin Alerts
  BY <1>1, StreamsAssumption DEF ProcsOK
<1>3. SourceOK /\ faults' \in Nat /\ faults' >= faults
  BY <1>1 DEF SourceOK, Fresh
<1>4. CASE WriteEnriched(p)
  <2>1. /\ proc' \in [Processors -> ProcType]
        /\ proc'[p].pc = "score" /\ proc'[p].todo = proc[p].todo /\ proc'[p].cur = e
        /\ \A q \in Processors : q # p => proc'[q] = proc[q]
    BY <1>1, <1>2, <1>4, Typed, ProcStage DEF WriteEnriched, ProcStages
  <2>2. written' = written \cup {<<"enriched", e>>}
    BY <1>2, <1>4 DEF WriteEnriched
  <2>3. /\ written \subseteq written' /\ written' \subseteq {"enriched", "score"} \X Entries
        /\ <<"enriched", e>> \in written'
    BY <1>1, <2>2
  <2>4. BatchOK(p) /\ HandlingOK(p)
    BY <1>1, <1>2, <2>1, <2>3 DEF BatchOK, HandlingOK, Fresh, Done
  <2>. QED  BY <1>1, <1>3, <2>1, <2>3, <2>4, ProcQuiet
<1>5. CASE WriteScore(p)
  <2>1. /\ proc' \in [Processors -> ProcType]
        /\ proc'[p].pc = "ack" /\ proc'[p].todo = proc[p].todo /\ proc'[p].cur = e
        /\ \A q \in Processors : q # p => proc'[q] = proc[q]
    BY <1>1, <1>2, <1>5, Typed, ProcStage DEF WriteScore, ProcStages
  <2>2. written' = written \cup {<<"score", e>>} /\ <<"enriched", e>> \in written
    BY <1>1, <1>2, <1>5 DEF WriteScore, ProcsOK
  <2>3. written \subseteq written' /\ written' \subseteq {"enriched", "score"} \X Entries
    BY <1>1, <2>2
  <2>5. Done(e)'
    BY <1>2, <2>2 DEF Done
  <2>4. BatchOK(p) /\ HandlingOK(p)
    BY <1>1, <1>2, <2>1, <2>5 DEF BatchOK, HandlingOK, Fresh, Done
  <2>. QED  BY <1>1, <1>3, <2>1, <2>3, <2>4, ProcQuiet
<1>. QED  BY <1>4, <1>5

LEMMA AckStep ==
    ASSUME IInv, NEW p \in Processors, AckEntry(p)
    PROVE  IInv'
<1>1. /\ TypeOK /\ ProcsOK /\ src \in [Entries -> Delivery] /\ faults \in Nat
      /\ written \subseteq {"enriched", "score"} \X Entries
      /\ groups \subseteq {"processors", "dispatchers"}
      /\ UNCHANGED <<groups, written, out, disp, notified, faults>> /\ proc[p].pc = "ack"
  BY DEF IInv, TypeOK, AckEntry
<1>2. PICK e \in Entries : e = proc[p].cur /\ Done(e)
  BY <1>1 DEF ProcsOK
<1>3. /\ proc' \in [Processors -> ProcType]
      /\ proc'[p].pc = "poll" /\ proc'[p].todo = proc[p].todo /\ proc'[p].cur = None
      /\ \A q \in Processors : q # p => proc'[q] = proc[q]
  BY <1>1, Typed, ProcDone DEF AckEntry
<1>4. src' = [src EXCEPT ![e] = "acked"]
  BY <1>2 DEF AckEntry
<1>5. /\ src' \in [Entries -> Delivery] /\ src'[e] = "acked"
      /\ \A f \in Entries : f # e => src'[f] = src[f]
  BY <1>1, <1>4 DEF Delivery
<1>6. SourceOK
  BY <1>2, <1>5 DEF SourceOK, Fresh
<1>7. BatchOK(p) /\ HandlingOK(p) /\ faults' \in Nat /\ faults' >= faults
  BY <1>1, <1>3 DEF BatchOK, HandlingOK, Fresh, Done
<1>. QED  BY <1>1, <1>3, <1>5, <1>6, <1>7, ProcQuiet

\* The alert is copied: the processor used up its one chance.
LEMMA ForwardStep ==
    ASSUME IInv, NEW p \in Processors, ForwardAlert(p)
    PROVE  IInv'
<1>1. /\ TypeOK /\ ProcsOK /\ DispsOK /\ AckedIsWritten /\ AckedIsNotified /\ Budgets
      /\ faults \in Nat /\ proc[p].pc = "alert" /\ out \in [Copies -> Delivery]
      /\ UNCHANGED <<src, groups, written, disp, notified, faults>>
  BY DEF IInv, TypeOK, ForwardAlert
<1>2. PICK e \in Entries : e = proc[p].cur
  BY <1>1 DEF ProcsOK
<1>3. CopiesOf(e) \in SUBSET (1 .. MaxCopies)
  BY DEF CopiesOf
<1>4. PICK i \in 1 .. MaxCopies, s \in {"new", "skipped"} : out' = [out EXCEPT ![<<e, i>>] = s]
  <2> DEFINE i == Cardinality(CopiesOf(e)) + 1
  <2>1. i \in 1 .. MaxCopies
    <3>1. Cardinality(CopiesOf(e)) \in Nat /\ MaxCopies \in Nat
      BY <1>3, CopySets, StreamsAssumption
    <3>2. i <= MaxCopies
      BY <1>2 DEF ForwardAlert
    <3>. QED  BY <3>1, <3>2
  <2>2. out' = [out EXCEPT ![<<e, i>>] = Added("dispatchers")]
    BY <1>2 DEF ForwardAlert
  <2>3. Added("dispatchers") \in {"new", "skipped"}
    BY DEF Added
  <2> HIDE DEF i
  <2>. QED  BY <2>1, <2>2, <2>3
<1>5. <<e, i>> \in Copies
  BY DEF Copies
<1>6. /\ out' \in [Copies -> Delivery] /\ out'[<<e, i>>] = s
      /\ \A k \in Copies : k # <<e, i>> => out'[k] = out[k]
  BY <1>1, <1>4, <1>5 DEF Delivery
<1>7. /\ proc' \in [Processors -> ProcType]
      /\ proc'[p].pc = "ack" /\ proc'[p].todo = proc[p].todo /\ proc'[p].cur = e
      /\ \A q \in Processors : q # p => proc'[q] = proc[q]
  BY <1>1, <1>2, Typed, ProcStage DEF ForwardAlert, ProcStages
<1>8. \A f \in Entries : \A j \in 1 .. MaxCopies :
          /\ <<f, j>> \in Copies
          /\ <<f, j>> # <<e, i>> => out'[<<f, j>>] = out[<<f, j>>]
          /\ out'[<<e, i>>] # "none"
  BY <1>6 DEF Copies
<1>9. /\ \A f \in Entries : CopiesOf(f) \subseteq CopiesOf(f)'
      /\ \A f \in Entries : f # e => CopiesOf(f)' = CopiesOf(f)
      /\ CopiesOf(e)' \subseteq CopiesOf(e) \cup {i} /\ i \in CopiesOf(e)'
  BY <1>8 DEF CopiesOf
<1>10. Grows
  BY <1>1, <1>6, <1>4 DEF Grows
<1>11. TypeOK'
  BY <1>1, <1>6, <1>7 DEF TypeOK, ProcType, ProcStages, Copies
<1>12. ProcsOK'
  <2>1. Done(e)'
    <3>1. e \notin Telemetry
      BY <1>1, <1>2, StreamsAssumption DEF ProcsOK
    <3>. QED  BY <1>1, <1>9, <3>1 DEF Done
  <2>2. \A q \in Processors :
          \/ proc'[q] = proc[q]
          \/ /\ proc'[q].pc \in {"enrich", "score", "alert", "ack"} => proc'[q].cur \in Entries
             /\ proc'[q].pc \in {"enrich", "score"} => proc'[q].cur \in Telemetry
             /\ proc'[q].pc = "alert" => proc'[q].cur \in Alerts /\ proc'[q].cur \notin proc'[q].todo
             /\ proc'[q].pc = "score" => <<"enriched", proc'[q].cur>> \in written'
             /\ \A f \in Entries : proc'[q].pc = "ack" /\ proc'[q].cur = f => Done(f)'
    BY <1>7, <2>1
  <2>. QED  BY <1>1, <1>10, <2>2, ProcsStep
<1>13. AckedIsWritten'
  BY <1>1, <1>10, AckedStep
<1>14. DispsOK'
  BY <1>1, <1>10, <1>11, DispsStep
<1>15. AckedIsNotified'
  BY <1>1, <1>4, <1>6, <1>10, <1>11, NotifiedStep
<1>16. Budgets'
  <2> SUFFICES ASSUME NEW f \in Entries  PROVE  CopyBudget(f)'
    BY DEF Budgets
  <2>1. CopyBudget(f) /\ (Fresh(f)' <=> Fresh(f))
    BY <1>1 DEF Budgets, Fresh
  <2>2. CASE f # e
    <3>1. CopiesOf(f)' = CopiesOf(f)
      BY <1>9, <2>2
    <3>2. CASE Fresh(f)
      <4>1. \A q \in Processors : f \notin proc[q].todo /\ proc[q].cur # f
        BY <2>1, <3>2 DEF CopyBudget
      <4>2. \A q \in Processors : f \notin proc'[q].todo /\ proc'[q].cur # f
        BY <1>7, <2>2, <4>1
      <4>. QED  BY <1>1, <2>1, <3>1, <3>2, <4>2, FreshKeep
    <3>3. CASE ~Fresh(f)
      <4>1. MayCopy(f)' \subseteq MayCopy(f)
        BY <1>7 DEF MayCopy
      <4>. QED  BY <1>1, <2>1, <3>1, <3>3, <4>1, UsedKeep
    <3>. QED  BY <3>2, <3>3
  <2>3. CASE f = e
    <3>1. ~Fresh(e)
      BY <1>2, <2>1, <2>3 DEF CopyBudget
    <3>2. Cardinality(CopiesOf(e)) + Cardinality(MayCopy(e)) <= Cardinality(Processors) + faults
      BY <2>1, <2>3, <3>1 DEF CopyBudget
    <3>3. /\ MayCopy(e)' \in SUBSET Processors /\ MayCopy(e) \in SUBSET Processors
          /\ CopiesOf(e)' \in SUBSET (1 .. MaxCopies)
      BY DEF MayCopy, CopiesOf
    <3>4. e \notin proc[p].todo
      BY <1>1, <1>2 DEF ProcsOK
    <3>5. p \in MayCopy(e) /\ MayCopy(e)' \subseteq MayCopy(e) \ {p}
      BY <1>1, <1>2, <1>7, <3>4 DEF MayCopy
    <3>6. /\ Cardinality(MayCopy(e)') \in Nat /\ Cardinality(MayCopy(e)) \in Nat
          /\ Cardinality(Processors) \in Nat
          /\ Cardinality(MayCopy(e)') + 1 <= Cardinality(MayCopy(e))
      BY <3>3, <3>5, ProcSets
    <3>7. /\ Cardinality(CopiesOf(e)') \in Nat /\ Cardinality(CopiesOf(e)) \in Nat
          /\ Cardinality(CopiesOf(e)') <= Cardinality(CopiesOf(e)) + 1
      BY <1>3, <1>9, <3>3, CopySets
    <3>8. Cardinality(CopiesOf(e)') + Cardinality(MayCopy(e)') <=
              Cardinality(Processors) + faults'
      BY <1>1, <3>2, <3>6, <3>7
    <3>. QED  BY <2>1, <2>3, <3>1, <3>8 DEF CopyBudget
  <2>. QED  BY <2>2, <2>3
<1>. QED  BY <1>11, <1>12, <1>13, <1>14, <1>15, <1>16 DEF IInv

\* A crash gives the process another claim, and is counted as a failure.
LEMMA CrashStep ==
    ASSUME IInv, NEW p \in Processors, CrashProcessor(p)
    PROVE  IInv'
<1>1. /\ TypeOK /\ ProcsOK /\ DispsOK /\ AckedIsWritten /\ AckedIsNotified /\ Budgets
      /\ faults \in Nat /\ faults' = faults + 1
      /\ proc' = [proc EXCEPT ![p] = DownProcessor]
      /\ UNCHANGED <<src, groups, written, out, disp, notified>>
  BY DEF IInv, TypeOK, CrashProcessor, Fault
<1>2. /\ proc' \in [Processors -> ProcType]
      /\ proc'[p].pc = "down" /\ proc'[p].todo = {} /\ proc'[p].cur = None
      /\ \A q \in Processors : q # p => proc'[q] = proc[q]
  BY <1>1, Typed, DownTyped, ProcUpdate
<1>3. TypeOK'
  BY <1>1, <1>2 DEF TypeOK, ProcType, ProcStages, Copies
<1>4. Grows
  BY <1>1, NoEffectGrows
<1>5. ProcsOK'
  BY <1>1, <1>2, <1>4, ProcsStep
<1>6. AckedIsWritten' /\ DispsOK' /\ AckedIsNotified'
  BY <1>1, <1>3, <1>4, AckedStep, DispsStep, NotifiedStep
<1>7. Budgets'
  <2> SUFFICES ASSUME NEW e \in Entries  PROVE  CopyBudget(e)'
    BY DEF Budgets
  <2>1. CopyBudget(e) /\ (Fresh(e)' <=> Fresh(e)) /\ CopiesOf(e)' = CopiesOf(e)
    BY <1>1 DEF Budgets, Fresh, CopiesOf
  <2>2. CASE Fresh(e)
    <3>1. e # None
      BY StreamsAssumption
    <3>2. \A q \in Processors : e \notin proc[q].todo /\ proc[q].cur # e
      BY <2>1, <2>2 DEF CopyBudget
    <3>3. \A q \in Processors : e \notin proc'[q].todo /\ proc'[q].cur # e
      BY <1>2, <3>1, <3>2
    <3>. QED  BY <1>1, <2>1, <2>2, <3>3, FreshKeep
  <2>3. CASE ~Fresh(e)
    <3>1. /\ MayCopy(e)' \in SUBSET Processors /\ MayCopy(e) \in SUBSET Processors
          /\ CopiesOf(e) \in SUBSET (1 .. MaxCopies)
          /\ MayCopy(e)' \subseteq MayCopy(e) \cup {p}
      BY <1>2 DEF MayCopy, CopiesOf
    <3>2. /\ Cardinality(MayCopy(e)') \in Nat /\ Cardinality(MayCopy(e)) \in Nat
          /\ Cardinality(Processors) \in Nat /\ Cardinality(CopiesOf(e)) \in Nat
          /\ Cardinality(MayCopy(e)') <= Cardinality(MayCopy(e)) + 1
      BY <3>1, ProcSets, CopySets
    <3>3. Cardinality(CopiesOf(e)) + Cardinality(MayCopy(e)) <= Cardinality(Processors) + faults
      BY <2>1, <2>3 DEF CopyBudget
    <3>4. Cardinality(CopiesOf(e)') + Cardinality(MayCopy(e)') <=
              Cardinality(Processors) + faults'
      BY <1>1, <2>1, <3>2, <3>3
    <3>. QED  BY <2>1, <2>3, <3>4 DEF CopyBudget
  <2>. QED  BY <2>2, <2>3
<1>. QED  BY <1>3, <1>5, <1>6, <1>7 DEF IInv

-----------------------------------------------------------------------------
(* The webhook dispatcher. *)

\* A step of dispatcher d that takes no copy out of the outbox.
LEMMA DispQuiet ==
    ASSUME IInv, NEW d \in Dispatchers, disp' \in [Dispatchers -> DispType],
           \A c \in Dispatchers : c # d => disp'[c] = disp[c],
           UNCHANGED <<src, proc, written>>, groups' \subseteq {"processors", "dispatchers"},
           out' \in [Copies -> Delivery], notified' \in [Copies -> SUBSET Hooks],
           faults' \in Nat, faults' >= faults,
           \A k \in Copies : /\ out'[k] # "none" <=> out[k] # "none"
                             /\ notified[k] \subseteq notified'[k],
           \A k \in Copies : out'[k] = "acked" =>
               out[k] = "acked" \/ k[1] \in Orphans \/ notified[k] = Hooks,
           disp'[d].pc \in {"fan", "ack"} =>
               disp'[d].cur \in Copies /\ out'[disp'[d].cur] # "none",
           \A k \in disp'[d].todo : out'[k] # "none",
           disp'[d].pc = "fan" /\ disp'[d].cur[1] \notin Orphans =>
               Hooks \subseteq notified'[disp'[d].cur] \cup disp'[d].left,
           disp'[d].pc = "ack" /\ disp'[d].cur[1] \notin Orphans =>
               notified'[disp'[d].cur] = Hooks
    PROVE  IInv'
<1>1. TypeOK /\ ProcsOK /\ DispsOK /\ AckedIsWritten /\ AckedIsNotified /\ Budgets
  BY DEF IInv
<1>2. TypeOK'
  BY <1>1 DEF TypeOK, DispType, Copies
<1>3. \A e \in Entries : CopiesOf(e)' = CopiesOf(e)
  <2>1. \A e \in Entries : \A i \in 1 .. MaxCopies : <<e, i>> \in Copies
    BY DEF Copies
  <2>. QED  BY <2>1 DEF CopiesOf
<1>4. Grows
  BY DEF Grows
<1>5. ProcsOK'
  BY <1>1, <1>4, ProcsStep
<1>6. AckedIsWritten'
  BY <1>1, <1>4, AckedStep
<1>7. AckedIsNotified'
  BY <1>1, <1>2, <1>4, NotifiedStep
<1>8. DispsOK'
  BY <1>1, <1>2, <1>4, DispsStep
<1>9. Budgets'
  <2>1. \A e \in Entries : Fresh(e)' <=> Fresh(e)
    BY DEF Fresh
  <2>. QED  BY <1>1, <1>3, <2>1, BudgetOther
<1>. QED  BY <1>2, <1>5, <1>6, <1>7, <1>8, <1>9 DEF IInv

\* The dispatcher is back at its poll loop, or down.
LEMMA DispIdle ==
    ASSUME TypeOK, NEW d \in Dispatchers,
           \/ disp' = [disp EXCEPT ![d].pc = "poll"]
           \/ disp' = [disp EXCEPT ![d] = [@ EXCEPT !.pc = "poll", !.cur = None, !.left = {}]]
           \/ disp' = [disp EXCEPT ![d] = DownDispatcher]
    PROVE  /\ disp' \in [Dispatchers -> DispType] /\ disp'[d].pc \in {"poll", "down"}
           /\ disp'[d].todo \subseteq disp[d].todo
           /\ \A c \in Dispatchers : c # d => disp'[c] = disp[c]
<1>1. disp \in [Dispatchers -> DispType] /\ disp[d] \in DispType
  BY Typed
<1>2. SUFFICES \E r \in DispType : /\ r.pc \in {"poll", "down"} /\ r.todo \subseteq disp[d].todo
                                   /\ disp' = [disp EXCEPT ![d] = r]
  BY <1>1, DispUpdate
<1>3. CASE disp' = [disp EXCEPT ![d].pc = "poll"]
  <2> DEFINE r == [disp[d] EXCEPT !.pc = "poll"]
  <2>1. r \in DispType /\ r.pc = "poll" /\ r.todo = disp[d].todo
    BY <1>1 DEF DispType
  <2>2. disp' = [disp EXCEPT ![d] = r]
    BY <1>3
  <2> HIDE DEF r
  <2>. QED  BY <2>1, <2>2
<1>4. CASE disp' = [disp EXCEPT ![d] = [@ EXCEPT !.pc = "poll", !.cur = None, !.left = {}]]
  <2> DEFINE r == [disp[d] EXCEPT !.pc = "poll", !.cur = None, !.left = {}]
  <2>1. r \in DispType /\ r.pc = "poll" /\ r.todo = disp[d].todo
    BY <1>1 DEF DispType
  <2>2. disp' = [disp EXCEPT ![d] = r]
    BY <1>4
  <2> HIDE DEF r
  <2>. QED  BY <2>1, <2>2
<1>5. CASE disp' = [disp EXCEPT ![d] = DownDispatcher]
  BY <1>5, DownTyped
<1>. QED  BY <1>3, <1>4, <1>5

LEMMA DispRest ==
    ASSUME IInv, NEW d \in Dispatchers, StartDispatcher(d) \/ CrashDispatcher(d)
    PROVE  IInv'
<1>1. /\ TypeOK /\ DispsOK /\ out \in [Copies -> Delivery]
      /\ notified \in [Copies -> SUBSET Hooks]
      /\ faults \in Nat /\ groups \subseteq {"processors", "dispatchers"}
      /\ UNCHANGED <<src, proc, written, out, notified>>
  BY DEF IInv, TypeOK, StartDispatcher, CrashDispatcher
<1>2. /\ disp' \in [Dispatchers -> DispType] /\ disp'[d].pc \in {"poll", "down"}
      /\ disp'[d].todo \subseteq disp[d].todo
      /\ \A c \in Dispatchers : c # d => disp'[c] = disp[c]
  BY <1>1, DispIdle DEF StartDispatcher, CrashDispatcher
<1>3. groups' \subseteq {"processors", "dispatchers"}
  BY <1>1 DEF StartDispatcher, CrashDispatcher
<1>4. faults' \in Nat /\ faults' >= faults
  <2>1. CASE StartDispatcher(d)
    <3>1. CASE UNCHANGED faults
      BY <1>1, <3>1
    <3>2. CASE Fault("group")
      BY <1>1, <3>2, FaultsTyped
    <3>. QED  BY <2>1, <3>1, <3>2 DEF StartDispatcher
  <2>2. CASE CrashDispatcher(d)
    BY <1>1, <2>2, FaultsTyped DEF CrashDispatcher
  <2>. QED  BY <2>1, <2>2
<1>5. \A k \in disp'[d].todo : out[k] # "none"
  BY <1>1, <1>2 DEF DispsOK
<1>. QED  BY <1>1, <1>2, <1>3, <1>4, <1>5, DispQuiet

LEMMA PollStep ==
    ASSUME IInv, NEW d \in Dispatchers, PollOutbox(d)
    PROVE  IInv'
<1>1. /\ TypeOK /\ out \in [Copies -> Delivery] /\ notified \in [Copies -> SUBSET Hooks]
      /\ faults \in Nat /\ groups \subseteq {"processors", "dispatchers"}
      /\ UNCHANGED <<src, groups, proc, written, notified, faults>> /\ disp[d].pc = "poll"
  BY DEF IInv, TypeOK, PollOutbox
<1>2. PICK b \in Chunks({k \in Copies : out[k] = "new"}) :
          out' = Deliver(out, b) /\ disp' = [disp EXCEPT ![d].todo = b]
  BY DEF PollOutbox
<1>3. b \in SUBSET Copies /\ \A k \in b : out[k] = "new"
  BY DEF Chunks
<1>4. /\ out' \in [Copies -> Delivery] /\ \A k \in b : out'[k] = "pending"
      /\ \A k \in Copies \ b : out'[k] = out[k]
  BY <1>1, <1>2, <1>3, DeliverFacts
<1>5. /\ disp' \in [Dispatchers -> DispType] /\ disp'[d].pc = "poll" /\ disp'[d].todo = b
      /\ \A c \in Dispatchers : c # d => disp'[c] = disp[c]
  <2> DEFINE r == [disp[d] EXCEPT !.todo = b]
  <2>1. disp[d] \in DispType
    BY <1>1, Typed
  <2>2. r \in DispType /\ r.pc = "poll" /\ r.todo = b
    BY <1>1, <1>3, <2>1 DEF DispType
  <2>3. disp' = [disp EXCEPT ![d] = r]
    BY <1>2
  <2> HIDE DEF r
  <2>. QED  BY <1>1, <2>2, <2>3, Typed, DispUpdate
<1>6. \A k \in Copies : /\ out'[k] # "none" <=> out[k] # "none"
                        /\ out'[k] = "acked" => out[k] = "acked"
  BY <1>3, <1>4
<1>7. faults' \in Nat /\ faults' >= faults /\ \A k \in disp'[d].todo : out'[k] # "none"
  BY <1>1, <1>4, <1>5
<1>. QED  BY <1>1, <1>4, <1>5, <1>6, <1>7, DispQuiet

LEMMA CopyStep ==
    ASSUME IInv, NEW d \in Dispatchers, NEW k \in Copies, NextCopy(d, k)
    PROVE  IInv'
<1> DEFINE r == [pc |-> "fan", todo |-> disp[d].todo \ {k}, cur |-> k,
                 left |-> IF k[1] \in Orphans THEN {} ELSE Hooks]
<1>1. /\ TypeOK /\ out \in [Copies -> Delivery] /\ notified \in [Copies -> SUBSET Hooks]
      /\ faults \in Nat /\ groups \subseteq {"processors", "dispatchers"}
      /\ disp' = [disp EXCEPT ![d] = r]
      /\ UNCHANGED <<src, groups, proc, written, out, notified, faults>>
  BY DEF IInv, TypeOK, NextCopy
<1>2. disp[d] \in DispType
  BY <1>1, Typed
<1>3. /\ r \in DispType /\ r.pc = "fan" /\ r.cur = k /\ r.todo = disp[d].todo \ {k}
      /\ k[1] \notin Orphans => r.left = Hooks
  BY <1>2 DEF DispType
<1> HIDE DEF r
<1>4. /\ disp' \in [Dispatchers -> DispType] /\ disp'[d] = r
      /\ \A c \in Dispatchers : c # d => disp'[c] = disp[c]
  BY <1>1, <1>3, Typed, DispUpdate
<1>5. faults' \in Nat /\ faults' >= faults
  BY <1>1
<1>6. out[k] # "none" /\ \A m \in r.todo : out[m] # "none"
  BY <1>3 DEF IInv, DispsOK, NextCopy
<1>. QED  BY <1>1, <1>3, <1>4, <1>5, <1>6, DispQuiet

LEMMA NotifyStep ==
    ASSUME IInv, NEW d \in Dispatchers, NEW h \in Hooks, NotifyHook(d, h)
    PROVE  IInv'
<1> DEFINE r == [disp[d] EXCEPT !.left = disp[d].left \ {h}]
<1>1. /\ TypeOK /\ DispsOK /\ out \in [Copies -> Delivery]
      /\ notified \in [Copies -> SUBSET Hooks] /\ faults \in Nat
      /\ groups \subseteq {"processors", "dispatchers"}
      /\ disp' = [disp EXCEPT ![d] = r] /\ disp[d].pc = "fan"
      /\ UNCHANGED <<src, groups, proc, written, out, faults>>
  BY DEF IInv, TypeOK, NotifyHook
<1>2. PICK k \in Copies : k = disp[d].cur /\ out[k] # "none"
  BY <1>1 DEF DispsOK
<1>3. disp[d] \in DispType
  BY <1>1, Typed
<1>4. /\ r \in DispType /\ r.pc = "fan" /\ r.cur = k /\ r.left = disp[d].left \ {h}
      /\ r.todo = disp[d].todo
  BY <1>1, <1>2, <1>3 DEF DispType
<1> HIDE DEF r
<1>5. /\ disp' \in [Dispatchers -> DispType] /\ disp'[d] = r
      /\ \A c \in Dispatchers : c # d => disp'[c] = disp[c]
  BY <1>1, <1>4, Typed, DispUpdate
<1>6. notified' = [notified EXCEPT ![k] = notified[k] \cup {h}]
  BY <1>2 DEF NotifyHook
<1>7. /\ notified' \in [Copies -> SUBSET Hooks] /\ notified'[k] = notified[k] \cup {h}
      /\ \A m \in Copies : notified[m] \subseteq notified'[m]
  BY <1>1, <1>6
<1>8. k[1] \notin Orphans => Hooks \subseteq notified[k] \cup disp[d].left
  BY <1>1, <1>2 DEF DispsOK
<1>9. k[1] \notin Orphans => Hooks \subseteq notified'[k] \cup r.left
  BY <1>4, <1>7, <1>8
<1>10. faults' \in Nat /\ faults' >= faults /\ \A m \in r.todo : out[m] # "none"
  BY <1>1, <1>4 DEF DispsOK
<1>. QED  BY <1>1, <1>2, <1>4, <1>5, <1>7, <1>9, <1>10, DispQuiet

LEMMA FanStep ==
    ASSUME IInv, NEW d \in Dispatchers, FanOutDone(d)
    PROVE  IInv'
<1> DEFINE r == [disp[d] EXCEPT !.pc = "ack"]
<1>1. /\ TypeOK /\ DispsOK /\ out \in [Copies -> Delivery]
      /\ notified \in [Copies -> SUBSET Hooks] /\ faults \in Nat
      /\ groups \subseteq {"processors", "dispatchers"}
      /\ disp' = [disp EXCEPT ![d] = r] /\ disp[d].pc = "fan" /\ disp[d].left = {}
      /\ UNCHANGED <<src, groups, proc, written, out, notified, faults>>
  BY DEF IInv, TypeOK, FanOutDone
<1>2. PICK k \in Copies : k = disp[d].cur /\ out[k] # "none"
  BY <1>1 DEF DispsOK
<1>3. disp[d] \in DispType
  BY <1>1, Typed
<1>4. r \in DispType /\ r.pc = "ack" /\ r.cur = k /\ r.todo = disp[d].todo
  BY <1>2, <1>3 DEF DispType
<1> HIDE DEF r
<1>5. /\ disp' \in [Dispatchers -> DispType] /\ disp'[d] = r
      /\ \A c \in Dispatchers : c # d => disp'[c] = disp[c]
  BY <1>1, <1>4, Typed, DispUpdate
<1>6. k[1] \notin Orphans => notified[k] = Hooks
  <2>1. k[1] \notin Orphans => Hooks \subseteq notified[k] \cup disp[d].left
    BY <1>1, <1>2 DEF DispsOK
  <2>. QED  BY <1>1, <2>1
<1>7. faults' \in Nat /\ faults' >= faults /\ \A m \in r.todo : out[m] # "none"
  BY <1>1, <1>4 DEF DispsOK
<1>. QED  BY <1>1, <1>2, <1>4, <1>5, <1>6, <1>7, DispQuiet

LEMMA DispEnd ==
    ASSUME IInv, NEW d \in Dispatchers, FanOutFails(d) \/ AckCopy(d)
    PROVE  IInv'
<1>1. /\ TypeOK /\ DispsOK /\ out \in [Copies -> Delivery]
      /\ notified \in [Copies -> SUBSET Hooks] /\ faults \in Nat
      /\ groups \subseteq {"processors", "dispatchers"} /\ disp[d].pc \in {"fan", "ack"}
      /\ disp' = [disp EXCEPT ![d] = [@ EXCEPT !.pc = "poll", !.cur = None, !.left = {}]]
      /\ UNCHANGED <<src, groups, proc, written>>
  BY DEF IInv, TypeOK, FanOutFails, AckCopy
<1>2. /\ disp' \in [Dispatchers -> DispType] /\ disp'[d].pc \in {"poll", "down"}
      /\ disp'[d].todo \subseteq disp[d].todo
      /\ \A c \in Dispatchers : c # d => disp'[c] = disp[c]
  BY <1>1, DispIdle
<1>3. PICK k \in Copies : k = disp[d].cur /\ out[k] # "none"
  BY <1>1 DEF DispsOK
<1>4. disp[d].left \subseteq Hooks
  BY <1>1 DEF TypeOK
<1>7. \A m \in disp'[d].todo : m \in Copies /\ out[m] # "none"
  BY <1>1, <1>2 DEF DispsOK, TypeOK, Copies
<1>5. CASE FanOutFails(d)
  <2>1. UNCHANGED out /\ faults' \in Nat /\ faults' >= faults
    BY <1>1, <1>5 DEF FanOutFails, Fault
  <2>2. \/ UNCHANGED notified
        \/ \E h \in Hooks : notified' = [notified EXCEPT ![k] = notified[k] \cup {h}]
    BY <1>3, <1>4, <1>5 DEF FanOutFails
  <2>3. /\ notified' \in [Copies -> SUBSET Hooks]
        /\ \A m \in Copies : notified[m] \subseteq notified'[m]
    BY <1>1, <2>2
  <2>. QED  BY <1>1, <1>2, <1>7, <2>1, <2>3, DispQuiet
<1>6. CASE AckCopy(d)
  <2>1. UNCHANGED notified /\ faults' \in Nat /\ faults' >= faults
        /\ out' = [out EXCEPT ![k] = "acked"] /\ disp[d].pc = "ack"
    BY <1>1, <1>3, <1>6 DEF AckCopy
  <2>2. k[1] \in Orphans \/ notified[k] = Hooks
    BY <1>1, <1>3, <2>1 DEF DispsOK
  <2>3. /\ out' \in [Copies -> Delivery] /\ out'[k] = "acked"
        /\ \A m \in Copies : m # k => out'[m] = out[m]
    BY <1>1, <2>1 DEF Delivery
  <2>4. /\ \A m \in Copies : out'[m] # "none" <=> out[m] # "none"
        /\ \A m \in disp'[d].todo : out'[m] # "none"
        /\ \A m \in Copies : out'[m] = "acked" =>
               out[m] = "acked" \/ m[1] \in Orphans \/ notified[m] = Hooks
    BY <1>3, <1>7, <2>2, <2>3
  <2>. QED  BY <1>1, <1>2, <2>1, <2>3, <2>4, DispQuiet
<1>. QED  BY <1>5, <1>6

-----------------------------------------------------------------------------
(* The theorems. *)

LEMMA IInvInit == Init => IInv
<1> SUFFICES ASSUME Init  PROVE  IInv
  OBVIOUS
<1>1. /\ proc \in [Processors -> ProcType] /\ disp \in [Dispatchers -> DispType]
      /\ \A p \in Processors : proc[p].pc = "down" /\ proc[p].todo = {} /\ proc[p].cur = None
      /\ \A d \in Dispatchers : disp[d].pc = "down" /\ disp[d].todo = {}
  BY DownTyped DEF Init
<1>2. TypeOK
  BY <1>1 DEF Init, TypeOK, ProcType, ProcStages, DispType, Delivery
<1>3. ProcsOK /\ DispsOK
  BY <1>1 DEF ProcsOK, DispsOK
<1>4. AckedIsWritten /\ AckedIsNotified
  BY DEF Init, AckedIsWritten, AckedIsNotified
<1>5. Budgets
  <2>1. \A e \in Entries : \A i \in 1 .. MaxCopies : <<e, i>> \in Copies
    BY DEF Copies
  <2>2. \A e \in Entries : Fresh(e) /\ CopiesOf(e) = {} /\ e # None
    BY <2>1, StreamsAssumption DEF Init, Fresh, CopiesOf
  <2>. QED  BY <1>1, <2>2 DEF Budgets, CopyBudget
<1>. QED  BY <1>2, <1>3, <1>4, <1>5 DEF IInv

LEMMA IInvStep == IInv /\ [Next]_vars => IInv'
<1> SUFFICES ASSUME IInv, [Next]_vars  PROVE  IInv'
  OBVIOUS
<1>1. ASSUME NEW e \in Entries, Publish(e) \/ Age(e)  PROVE  IInv'
  BY <1>1, SourceStep
<1>2. ASSUME NEW p \in Processors, ProcessorStep(p) \/ WriteFails(p) \/ CrashProcessor(p)
      PROVE  IInv'
  BY <1>2, StartStep, ReadStep, EntryStep, WriteStep, ForwardStep, AckStep, FailStep, CrashStep
     DEF ProcessorStep
<1>3. ASSUME NEW d \in Dispatchers, DispatcherStep(d) \/ FanOutFails(d) \/ CrashDispatcher(d)
      PROVE  IInv'
  BY <1>3, DispRest, PollStep, CopyStep, NotifyStep, FanStep, DispEnd DEF DispatcherStep
<1>4. CASE UNCHANGED vars
  <2>1. /\ UNCHANGED <<src, groups, proc, written, out, disp, notified, faults>>
        /\ TypeOK /\ ProcsOK /\ DispsOK /\ AckedIsWritten /\ AckedIsNotified /\ Budgets
        /\ faults \in Nat
    BY <1>4 DEF vars, IInv, TypeOK
  <2>2. TypeOK' /\ Grows
    BY <2>1, NoEffectGrows DEF TypeOK, Copies
  <2>3. ProcsOK' /\ AckedIsWritten' /\ DispsOK' /\ AckedIsNotified'
    BY <2>1, <2>2, ProcsStep, AckedStep, DispsStep, NotifiedStep
  <2>4. Budgets'
    <3>1. \A e \in Entries : CopiesOf(e)' = CopiesOf(e) /\ (Fresh(e)' <=> Fresh(e))
      BY <2>1 DEF CopiesOf, Fresh
    <3>. QED  BY <2>1, <3>1, BudgetOther
  <2>. QED  BY <2>2, <2>3, <2>4 DEF IInv
<1>. QED  BY <1>1, <1>2, <1>3, <1>4 DEF Next

\* The inductive invariant holds throughout: what each process has done of the
\* entry it handles, and how many processes may yet copy an alert.
THEOREM InvariantHolds == Spec => []IInv
BY IInvInit, IInvStep, PTL DEF Spec

\* The streams, their readers and the notifications keep their types.
THEOREM TypeCorrect == Spec => []TypeOK
<1>1. IInv => TypeOK
  BY DEF IInv
<1>. QED  BY <1>1, InvariantHolds, PTL

\* handleEntry: whichever processors read, claim and drop an entry, it is acknowledged
\* only when all of its output is in the streams.
THEOREM AcknowledgedMeansWritten == Spec => []AckedIsWritten
<1>1. IInv => AckedIsWritten
  BY DEF IInv
<1>. QED  BY <1>1, InvariantHolds, PTL

\* processEntry: a copy is acknowledged only when every webhook has its Notification.
THEOREM AcknowledgedMeansNotified == Spec => []AckedIsNotified
<1>1. IInv => AckedIsNotified
  BY DEF IInv
<1>. QED  BY <1>1, InvariantHolds, PTL

\* An alert is copied to webhooks:outbox at most once per processor ever started,
\* although any of them may claim it from the others.
THEOREM CopiesAreBounded == Spec => []CopiesBounded
<1>1. ASSUME IInv  PROVE  CopiesBounded
  <2> SUFFICES ASSUME NEW e \in Entries
               PROVE  Cardinality(CopiesOf(e)) <= Cardinality(Processors) + faults
    BY DEF CopiesBounded
  <2>1. CopyBudget(e) /\ faults \in Nat
    BY <1>1 DEF IInv, Budgets, TypeOK
  <2>2. MayCopy(e) \in SUBSET Processors /\ CopiesOf(e) \in SUBSET (1 .. MaxCopies)
    BY DEF MayCopy, CopiesOf
  <2>3. /\ Cardinality(MayCopy(e)) \in Nat /\ Cardinality(CopiesOf(e)) \in Nat
        /\ Cardinality(Processors) \in Nat
        /\ CopiesOf(e) = {} => Cardinality(CopiesOf(e)) = 0
    BY <2>2, ProcSets, CopySets
  <2>4. CASE Fresh(e)
    BY <2>1, <2>3, <2>4 DEF CopyBudget
  <2>5. CASE ~Fresh(e)
    <3>1. Cardinality(CopiesOf(e)) + Cardinality(MayCopy(e)) <= Cardinality(Processors) + faults
      BY <2>1, <2>5 DEF CopyBudget
    <3>. QED  BY <2>1, <2>3, <3>1
  <2>. QED  BY <2>4, <2>5
<1>. QED  BY <1>1, InvariantHolds, PTL
=============================================================================
