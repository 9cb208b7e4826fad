-------------------------- MODULE TripBuilderProofs --------------------------
(***************************************************************************)
(* Proofs about TripBuilder: the properties that the run checks, for any    *)
(* number of packets handled at the same time and any settings.             *)
(***************************************************************************)
EXTENDS TripBuilder, TLAPS

Steps == {"none", "ready", "save", "clear", "lock", "end", "finalize", "create",
          "publish", "unlock"}

CallType ==
    [pc : Steps, packet : Packets, seen : States, next : States,
     trip : Times \X Times, locked : BOOLEAN]

\* The times of a state are in order.
InOrder(s) ==
    /\ s.ended <= s.last
    /\ s.start # 0 => s.ended <= s.start /\ s.start <= s.last
    /\ s.candidate # 0 => s.ended <= s.candidate /\ s.candidate <= s.last
    /\ s.idle # 0 => s.start # 0 /\ s.start <= s.idle /\ s.idle <= s.last

\* What a call is about to write follows from what it has read.
CallOK(c) ==
    /\ c.pc \in {"ready", "save", "lock", "end"} =>
           InOrder(c.seen) /\ c.packet.ts >= c.seen.last
    /\ c.pc = "ready" => c.seen.start = 0
    /\ c.pc \in {"ready", "save"} =>
           \/ c.seen.start = 0 /\ c.next = StartConditions(c.seen, c.packet)
           \/ /\ c.seen.start # 0 /\ ~EndByIdle(c.seen, c.packet)
              /\ c.next = Idled(c.seen, c.packet)
    /\ c.pc \in {"lock", "end"} =>
           /\ c.seen.start # 0 /\ c.next = Ended(c.seen, c.packet)
           /\ c.trip = <<c.seen.start, EndTs(c.seen, c.packet)>>

\* Unless two calls clashed, the rows are apart, also from the one about to be
\* created.
Exclusive ==
    ~clash =>
        /\ \A s, t \in trips : s # t => ~Overlaps(s, t)
        /\ \A h \in Handlers : call[h].pc = "create" =>
               \A t \in trips : ~Overlaps(t, call[h].trip)
        /\ \A g, h \in Handlers : call[g].pc = "create" /\ call[h].pc = "create" => g = h

\* No stop of EndIdle after i and up to j.
NoStop(i, j, tr) ==
    \A a, b \in i + 1 .. j :
        b - a >= EndIdle /\ tr[a] = "stop" /\ tr[b] = "stop"
            => \E c \in a .. b : tr[c] = "move"

\* What the state s knows about the packets that were saved.
Tracked(s, tr) ==
    /\ \A x \in Times : x > s.last => tr[x] = "none"
    /\ s.candidate # 0 /\ s.start = 0 =>
           \A x \in s.candidate .. s.last : tr[x] # "stop"
    /\ s.idle # 0 => tr[s.idle] # "none"
    /\ s.start # 0 =>
           /\ \A a \in s.start + 1 .. s.last : tr[a] = "stop" =>
                  \/ s.idle # 0 /\ s.idle <= a
                  \/ \E c \in a .. s.last : tr[c] = "move"
           /\ NoStop(s.start, s.last, tr)

\* A trip that is over for the state.
Closed(t, s, tr) ==
    /\ t[2] <= s.ended
    /\ tr[t[2]] # "none"
    /\ NoStop(t[1], t[2], tr)

Unwritten == {"finalize", "create"}
Writing == Unwritten \cup {"publish"}

\* The trips stored, announced and being written are over, and apart from those
\* still to come.
Settled ==
    /\ \A t \in trips : Closed(t, state, track)
    /\ \A i \in DOMAIN summaries : summaries[i][2] <= state.ended
    /\ \A h \in Handlers : call[h].pc \in Writing =>
           /\ Closed(call[h].trip, state, track)
           /\ \A i \in DOMAIN summaries : ~Overlaps(summaries[i], call[h].trip)
    /\ \A h \in Handlers : call[h].pc \in Unwritten =>
           \A t \in trips : ~Overlaps(t, call[h].trip)
    /\ \A g, h \in Handlers :
           g # h /\ call[g].pc \in Writing /\ call[h].pc \in Writing
               => ~Overlaps(call[g].trip, call[h].trip)
    /\ \A i, j \in DOMAIN summaries : i # j => ~Overlaps(summaries[i], summaries[j])

Basic == TypeOK /\ InOrder(state) /\ \A h \in Handlers : CallOK(call[h])

\* The inductive invariant.
Inv ==
    /\ Basic
    /\ Exclusive
    /\ Coherent => Tracked(state, track) /\ Settled

-----------------------------------------------------------------------------
(* What a packet makes of a state. *)

Heard(tr, p) ==
    [tr EXCEPT ![p.ts] = IF p.moving \/ @ = "move" THEN "move" ELSE "stop"]

LEMMA TimeFacts ==
    /\ Times \subseteq Int /\ \A x \in Times : x >= 1
    /\ \A x \in Times, y \in Int : 1 <= y /\ y <= x => y \in Times
    /\ EndIdle \in Int /\ EndIdle >= 1
    /\ \A p \in Packets : p.ts \in Times /\ p.ts \in Int /\ p.ts >= 1
    /\ \A s \in States : /\ s.start \in Int /\ s.candidate \in Int /\ s.idle \in Int
                          /\ s.last \in Int /\ s.ended \in Int
                          /\ s.start >= 0 /\ s.candidate >= 0 /\ s.idle >= 0
                          /\ s.last >= 0 /\ s.ended >= 0
BY TripBuilderAssumption DEF Times, Packets, States

LEMMA AcceptedOK ==
    ASSUME NEW s \in States, NEW p \in Packets
    PROVE  /\ Accepted(s, p) \in States
           /\ Accepted(s, p).start = s.start /\ Accepted(s, p).candidate = s.candidate
           /\ Accepted(s, p).idle = s.idle /\ Accepted(s, p).last = p.ts
           /\ Accepted(s, p).ended = s.ended
<1>1. p.ts \in 0 .. MaxTime
  BY TripBuilderAssumption DEF Packets, Times
<1>. QED  BY <1>1 DEF Accepted, States

\* The state after a packet while no trip is running: a trip starts, or a
\* candidate for its start is kept, set or dropped.
LEMMA StartOK ==
    ASSUME NEW s \in States, NEW p \in Packets, InOrder(s), p.ts >= s.last, s.start = 0
    PROVE  /\ StartConditions(s, p) \in States
           /\ InOrder(StartConditions(s, p))
           /\ StartConditions(s, p).ended = s.ended
           /\ StartConditions(s, p).last = p.ts
           /\ StartConditions(s, p).idle = 0
           /\ \/ /\ StartConditions(s, p).start = p.ts
                 /\ StartConditions(s, p).candidate = 0
              \/ /\ p.moving /\ s.candidate # 0
                 /\ StartConditions(s, p).start = s.candidate
                 /\ StartConditions(s, p).candidate = 0
              \/ /\ StartConditions(s, p).start = 0
                 /\ StartConditions(s, p).candidate = 0
              \/ /\ StartConditions(s, p).start = 0 /\ p.moving
                 /\ \/ StartConditions(s, p).candidate = p.ts
                    \/ s.candidate # 0 /\ StartConditions(s, p).candidate = s.candidate
<1> DEFINE t == Accepted(s, p)
           Begin(at) == [t EXCEPT !.start = at, !.candidate = 0, !.idle = 0]
           Wait(at) == [t EXCEPT !.candidate = at]
           u == StartConditions(s, p)
<1>1. /\ t \in States /\ t.start = 0 /\ t.candidate = s.candidate /\ t.idle = s.idle
      /\ t.last = p.ts /\ t.ended = s.ended
  BY AcceptedOK
<1>2. s.idle = 0 /\ p.ts \in 0 .. MaxTime /\ p.ts # 0
  BY TripBuilderAssumption DEF InOrder, Packets, Times
<1>3. \/ u = Begin(p.ts)
      \/ u = Wait(0)
      \/ p.moving /\ u = Wait(p.ts)
      \/ p.moving /\ s.candidate # 0 /\ u = Begin(s.candidate)
      \/ p.moving /\ s.candidate # 0 /\ u = t
  BY DEF StartConditions
<1> HIDE DEF t, u
<1>4. \A at \in 0 .. MaxTime :
          /\ Begin(at) \in States /\ Begin(at).start = at /\ Begin(at).candidate = 0
          /\ Begin(at).idle = 0 /\ Begin(at).last = p.ts /\ Begin(at).ended = s.ended
  BY <1>1, <1>2 DEF States
<1>w. \A at \in 0 .. MaxTime :
          /\ Wait(at) \in States /\ Wait(at).start = 0 /\ Wait(at).candidate = at
          /\ Wait(at).idle = 0 /\ Wait(at).last = p.ts /\ Wait(at).ended = s.ended
  BY <1>1, <1>2 DEF States
<1>5. s.candidate \in 0 .. MaxTime /\ 0 \in 0 .. MaxTime
  BY TripBuilderAssumption DEF States
<1> HIDE DEF Begin, Wait
<1>6. /\ u \in States /\ u.last = p.ts /\ u.ended = s.ended /\ u.idle = 0
      /\ \/ u.start = p.ts /\ u.candidate = 0
         \/ p.moving /\ s.candidate # 0 /\ u.start = s.candidate /\ u.candidate = 0
         \/ u.start = 0 /\ u.candidate = 0
         \/ /\ u.start = 0 /\ p.moving
            /\ u.candidate = p.ts \/ (s.candidate # 0 /\ u.candidate = s.candidate)
  <2>1. CASE u = Begin(p.ts)
    BY <2>1, <1>2, <1>4
  <2>2. CASE u = Wait(0)
    BY <2>2, <1>w, <1>5
  <2>3. CASE p.moving /\ u = Wait(p.ts)
    <3>1. /\ Wait(p.ts) \in States /\ Wait(p.ts).start = 0
          /\ Wait(p.ts).candidate = p.ts /\ Wait(p.ts).idle = 0
          /\ Wait(p.ts).last = p.ts /\ Wait(p.ts).ended = s.ended
      <4>1. p.ts \in 0 .. MaxTime
        BY <1>2
      <4>. QED  BY <4>1, <1>w, Zenon
    <3>2. /\ u \in States /\ u.last = p.ts /\ u.ended = s.ended /\ u.idle = 0
          /\ u.start = 0 /\ u.candidate = p.ts
      BY <2>3, <3>1, Zenon
    <3>. QED  BY <2>3, <3>2, Zenon
  <2>4. CASE p.moving /\ s.candidate # 0 /\ u = Begin(s.candidate)
    BY <2>4, <1>4, <1>5
  <2>5. CASE p.moving /\ s.candidate # 0 /\ u = t
    BY <2>5, <1>1, <1>2
  <2>. QED  BY <1>3, <2>1, <2>2, <2>3, <2>4, <2>5
<1>7. InOrder(u)
  BY <1>2, <1>5, <1>6, TripBuilderAssumption DEF InOrder, States, Packets, Times
<1>. QED  BY <1>6, <1>7 DEF u

LEMMA IdledOK ==
    ASSUME NEW s \in States, NEW p \in Packets, InOrder(s), p.ts >= s.last, s.start # 0
    PROVE  /\ Idled(s, p) \in States
           /\ InOrder(Idled(s, p))
           /\ Idled(s, p).ended = s.ended
           /\ Idled(s, p).start = s.start
           /\ Idled(s, p).last = p.ts
           /\ Idled(s, p).idle = (IF p.moving THEN 0 ELSE IF s.idle = 0 THEN p.ts ELSE s.idle)
<1> DEFINE t == Accepted(s, p)
           at == IF p.moving THEN 0 ELSE IF s.idle = 0 THEN p.ts ELSE s.idle
           u == [t EXCEPT !.idle = at]
<1>1. /\ t \in States /\ t.start = s.start /\ t.candidate = s.candidate /\ t.idle = s.idle
      /\ t.last = p.ts /\ t.ended = s.ended
  BY AcceptedOK
<1>2. Idled(s, p) = u
  BY <1>1 DEF Idled
<1>3. at \in 0 .. MaxTime
  BY TripBuilderAssumption DEF States, Packets, Times
<1> HIDE DEF t, at
<1>4. /\ u \in States /\ u.start = s.start /\ u.candidate = s.candidate /\ u.idle = at
      /\ u.last = p.ts /\ u.ended = s.ended
  BY <1>1, <1>3 DEF States
<1> HIDE DEF u
<1>5. InOrder(u)
  BY <1>3, <1>4, TripBuilderAssumption DEF InOrder, States, Packets, Times, at
<1>. QED  BY <1>2, <1>4, <1>5 DEF at

LEMMA EndedOK ==
    ASSUME NEW s \in States, NEW p \in Packets, InOrder(s), p.ts >= s.last, s.start # 0
    PROVE  /\ EndTs(s, p) \in Times /\ s.start <= EndTs(s, p) /\ EndTs(s, p) <= p.ts
           /\ EndByIdle(s, p) => s.idle # 0 /\ EndTs(s, p) = s.idle
           /\ ~EndByIdle(s, p) => EndTs(s, p) = p.ts
           /\ Ended(s, p) \in States
           /\ InOrder(Ended(s, p))
           /\ Ended(s, p).ended = EndTs(s, p)
           /\ Ended(s, p).last = p.ts
           /\ Ended(s, p).start = 0 /\ Ended(s, p).candidate = 0 /\ Ended(s, p).idle = 0
<1>1. /\ Idled(s, p) \in States /\ Idled(s, p).last = p.ts
      /\ Idled(s, p).idle = (IF p.moving THEN 0 ELSE IF s.idle = 0 THEN p.ts ELSE s.idle)
  BY IdledOK
<1>2. /\ EndByIdle(s, p) => s.idle # 0 /\ EndTs(s, p) = s.idle
      /\ ~EndByIdle(s, p) => EndTs(s, p) = p.ts
  BY <1>1, TripBuilderAssumption DEF EndByIdle, EndTs, States, Packets, Times
<1>3. EndTs(s, p) \in Times /\ s.start <= EndTs(s, p) /\ EndTs(s, p) <= p.ts
  BY <1>2, TripBuilderAssumption DEF InOrder, States, Packets, Times
<1> DEFINE i == Idled(s, p)
           e == EndTs(s, p)
           u == [i EXCEPT !.ended = e, !.start = 0, !.candidate = 0, !.idle = 0]
<1>a. Ended(s, p) = u
  BY DEF Ended
<1>b. e \in 0 .. MaxTime /\ 0 \in 0 .. MaxTime
  BY <1>3, TripBuilderAssumption DEF Times
<1>c. i \in States /\ i.last = p.ts
  BY <1>1
<1> HIDE DEF i, e
<1>d. /\ u \in States /\ u.ended = e /\ u.last = p.ts
      /\ u.start = 0 /\ u.candidate = 0 /\ u.idle = 0
  BY <1>b, <1>c DEF States
<1>4. /\ Ended(s, p) \in States
      /\ Ended(s, p).ended = EndTs(s, p) /\ Ended(s, p).last = p.ts
      /\ Ended(s, p).start = 0 /\ Ended(s, p).candidate = 0 /\ Ended(s, p).idle = 0
  BY <1>a, <1>d DEF e
<1>. QED  BY <1>2, <1>3, <1>4, TripBuilderAssumption DEF InOrder, States, Packets, Times

\* The effect of a packet on the track.
LEMMA HeardOK ==
    ASSUME NEW tr \in [Times -> {"none", "stop", "move"}], NEW p \in Packets
    PROVE  /\ Heard(tr, p) \in [Times -> {"none", "stop", "move"}]
           /\ \A x \in Times : x # p.ts => Heard(tr, p)[x] = tr[x]
           /\ Heard(tr, p)[p.ts] # "none"
           /\ p.moving => Heard(tr, p)[p.ts] = "move"
           /\ \A x \in Times : tr[x] = "move" => Heard(tr, p)[x] = "move"
           /\ \A x \in Times : Heard(tr, p)[x] = "stop" => tr[x] \in {"none", "stop"}
BY DEF Heard, Packets

\* A trip that is over stays over: later packets do not change what it says.
LEMMA ClosedStays ==
    ASSUME NEW tr \in [Times -> {"none", "stop", "move"}], NEW p \in Packets,
           NEW s \in States, NEW u \in States, NEW t \in Times \X Times,
           Closed(t, s, tr), s.ended <= u.ended, s.ended <= p.ts
    PROVE  Closed(t, u, Heard(tr, p))
<1> DEFINE new == Heard(tr, p)
<1>1. /\ new \in [Times -> {"none", "stop", "move"}]
      /\ \A x \in Times : x # p.ts => new[x] = tr[x]
      /\ new[p.ts] # "none"
      /\ \A x \in Times : tr[x] = "move" => new[x] = "move"
      /\ \A x \in Times : new[x] = "stop" => tr[x] \in {"none", "stop"}
  BY HeardOK
<1> HIDE DEF new
<1>2. /\ t[1] \in Times /\ t[2] \in Times /\ Times \subseteq Int /\ p.ts \in Times
      /\ t[2] <= u.ended /\ t[2] <= p.ts
      /\ t[1] \in Int /\ t[2] \in Int /\ p.ts \in Int /\ t[1] >= 1
  <2>1. t[1] \in Times /\ t[2] \in Times
    OBVIOUS
  <2>2. Times \subseteq Int /\ p.ts \in Times /\ s.ended \in Int /\ u.ended \in Int
    BY TimeFacts
  <2>3. t[1] \in Int /\ t[2] \in Int /\ p.ts \in Int /\ t[1] >= 1
    BY <2>1, <2>2, TimeFacts
  <2>4. t[2] <= s.ended
    BY DEF Closed
  <2>. QED  BY <2>1, <2>2, <2>3, <2>4
<1>3. new[t[2]] # "none"
  BY <1>1, <1>2 DEF Closed
<1>4. NoStop(t[1], t[2], new)
  <2>1. SUFFICES ASSUME NEW a \in t[1] + 1 .. t[2], NEW b \in t[1] + 1 .. t[2],
                        b - a >= EndIdle, new[a] = "stop", new[b] = "stop"
                 PROVE  \E c \in a .. b : new[c] = "move"
    BY DEF NoStop
  <2>2. a \in Times /\ b \in Times /\ a < b /\ b <= t[2] /\ a \in Int /\ b \in Int
    BY <1>2, <2>1, TimeFacts
  <2>3. tr[a] = "stop"
    <3>1. a # p.ts
      BY <1>2, <2>2
    <3>. QED  BY <1>1, <2>1, <2>2, <3>1
  <2>4. tr[b] = "stop"
    <3>1. CASE b = t[2]
      <4>1. tr[b] # "none"
        BY <3>1 DEF Closed
      <4>. QED  BY <1>1, <2>1, <2>2, <4>1
    <3>2. CASE b # t[2]
      <4>1. b # p.ts
        BY <1>2, <2>2, <3>2
      <4>. QED  BY <1>1, <2>1, <2>2, <4>1
    <3>. QED  BY <3>1, <3>2
  <2>5. PICK c \in a .. b : tr[c] = "move"
    BY <2>1, <2>3, <2>4 DEF Closed, NoStop
  <2>6. c \in Times
    BY <2>2, TimeFacts
  <2>. QED  BY <1>1, <2>5, <2>6
<1>. QED  BY <1>2, <1>3, <1>4 DEF Closed, new

\* Without a trip.
LEMMA StartTracked ==
    ASSUME NEW tr \in [Times -> {"none", "stop", "move"}], NEW p \in Packets,
           NEW s \in States, InOrder(s), p.ts >= s.last, s.start = 0, Tracked(s, tr)
    PROVE  Tracked(StartConditions(s, p), Heard(tr, p))
<1> DEFINE new == Heard(tr, p)
           u == StartConditions(s, p)
<1>1. /\ new \in [Times -> {"none", "stop", "move"}]
      /\ \A x \in Times : x # p.ts => new[x] = tr[x]
      /\ p.moving => new[p.ts] = "move"
      /\ \A x \in Times : new[x] = "stop" => tr[x] \in {"none", "stop"}
  BY HeardOK
<1>2. /\ u \in States /\ u.last = p.ts /\ u.idle = 0
      /\ \/ u.start = p.ts /\ u.candidate = 0
         \/ p.moving /\ s.candidate # 0 /\ u.start = s.candidate /\ u.candidate = 0
         \/ u.start = 0 /\ u.candidate = 0
         \/ /\ u.start = 0 /\ p.moving
            /\ u.candidate = p.ts \/ (s.candidate # 0 /\ u.candidate = s.candidate)
  BY StartOK, Zenon
<1> HIDE DEF new, u
<1>3. /\ Times \subseteq Int /\ p.ts \in Times /\ s.last \in Int /\ s.candidate \in Int
      /\ s.candidate >= 0 /\ EndIdle > 0 /\ p.ts \in Int
      /\ \A x \in Int : 1 <= x /\ x <= p.ts => x \in Times
      /\ \A x \in Times : x > s.last => tr[x] = "none"
      /\ s.candidate # 0 => s.candidate <= s.last
      /\ s.candidate # 0 => \A x \in s.candidate .. s.last : tr[x] # "stop"
  <2>1. /\ Times \subseteq Int /\ p.ts \in Times /\ s.last \in Int /\ s.candidate \in Int
        /\ s.candidate >= 0 /\ EndIdle > 0 /\ p.ts \in Int
    BY TimeFacts
  <2>2. \A x \in Int : 1 <= x /\ x <= p.ts => x \in Times
    BY <2>1, TimeFacts
  <2>3. /\ \A x \in Times : x > s.last => tr[x] = "none"
        /\ s.candidate # 0 => \A x \in s.candidate .. s.last : tr[x] # "stop"
    BY DEF Tracked
  <2>4. s.candidate # 0 => s.candidate <= s.last
    BY DEF InOrder
  <2>. QED  BY <2>1, <2>2, <2>3, <2>4
<1>4. \A x \in Times : x > p.ts => new[x] = "none"
  <2>1. SUFFICES ASSUME NEW x \in Times, x > p.ts  PROVE  new[x] = "none"
    OBVIOUS
  <2>2. x \in Int
    BY TimeFacts
  <2>3. x # p.ts /\ x > s.last
    BY <1>3, <2>1, <2>2
  <2>. QED  BY <1>1, <1>3, <2>3
<1>5. p.moving /\ s.candidate # 0 => \A x \in s.candidate .. p.ts : new[x] # "stop"
  <2>1. SUFFICES ASSUME p.moving, s.candidate # 0, NEW x \in s.candidate .. p.ts
                 PROVE  new[x] # "stop"
    OBVIOUS
  <2>2. x \in Times
    BY <1>3, <2>1
  <2>3. CASE x = p.ts
    BY <1>1, <2>1, <2>3
  <2>4. CASE x # p.ts /\ x <= s.last
    BY <1>1, <1>3, <2>1, <2>2, <2>4
  <2>5. CASE x # p.ts /\ x > s.last
    BY <1>1, <1>3, <2>2, <2>5
  <2>. QED  BY <1>3, <2>2, <2>3, <2>4, <2>5
<1>6. p.moving => \A x \in p.ts .. p.ts : new[x] # "stop"
  BY <1>1, <1>3
<1>7. CASE u.start = p.ts /\ u.candidate = 0
  BY <1>2, <1>3, <1>4, <1>7 DEF Tracked, NoStop, u, new
<1>8. CASE p.moving /\ s.candidate # 0 /\ u.start = s.candidate /\ u.candidate = 0
  <2>1. \A a \in u.start + 1 .. u.last : new[a] # "stop"
    BY <1>2, <1>3, <1>5, <1>8
  <2>. QED  BY <1>2, <1>3, <1>4, <1>8, <2>1 DEF Tracked, NoStop, u, new
<1>9. CASE u.start = 0 /\ u.candidate = 0
  BY <1>2, <1>3, <1>4, <1>9 DEF Tracked, u, new
<1>10. CASE /\ u.start = 0 /\ p.moving
            /\ u.candidate = p.ts \/ (s.candidate # 0 /\ u.candidate = s.candidate)
  <2>1. \A x \in u.candidate .. u.last : new[x] # "stop"
    BY <1>2, <1>5, <1>6, <1>10
  <2>. QED  BY <1>2, <1>4, <1>10, <2>1 DEF Tracked, u, new
<1>. QED  BY <1>2, <1>7, <1>8, <1>9, <1>10

\* What a packet leaves as it was, and when the idle clock ends a trip.
LEMMA RunningFacts ==
    ASSUME NEW tr \in [Times -> {"none", "stop", "move"}], NEW p \in Packets,
           NEW s \in States, InOrder(s), p.ts >= s.last, s.start # 0, Tracked(s, tr)
    PROVE  /\ \A x \in Times : x > s.last => tr[x] = "none"
           /\ \A x \in Times : x > p.ts => Heard(tr, p)[x] = "none"
           /\ \A x \in Times : tr[x] # "none" => Heard(tr, p)[x] # "none"
           /\ s.idle # 0 => s.idle \in Times /\ tr[s.idle] # "none"
           /\ s.start <= s.last
           /\ s.idle # 0 => s.idle <= s.last
           /\ \A a \in s.start + 1 .. s.last : tr[a] = "stop" =>
                  \/ s.idle # 0 /\ s.idle <= a
                  \/ \E c \in a .. s.last : tr[c] = "move"
           /\ NoStop(s.start, s.last, tr)
<1>1. /\ \A x \in Times : x > s.last => tr[x] = "none"
      /\ s.idle # 0 => tr[s.idle] # "none"
      /\ \A a \in s.start + 1 .. s.last : tr[a] = "stop" =>
             \/ s.idle # 0 /\ s.idle <= a
             \/ \E c \in a .. s.last : tr[c] = "move"
      /\ NoStop(s.start, s.last, tr)
  BY DEF Tracked
<1>2. /\ s.start <= s.last
      /\ s.idle # 0 => s.idle <= s.last
  BY DEF InOrder
<1>3. s.idle # 0 => s.idle \in Times
  BY TripBuilderAssumption DEF States, Times
<1>4. \A x \in Times : x > p.ts => Heard(tr, p)[x] = "none"
  <2>1. SUFFICES ASSUME NEW x \in Times, x > p.ts  PROVE  Heard(tr, p)[x] = "none"
    OBVIOUS
  <2>2. x \in Int /\ p.ts \in Int /\ s.last \in Int
    BY TimeFacts
  <2>3. x # p.ts /\ x > s.last
    BY <2>1, <2>2
  <2>. QED  BY <1>1, <2>3, HeardOK
<1>5. \A x \in Times : tr[x] # "none" => Heard(tr, p)[x] # "none"
  BY HeardOK
<1>. QED  BY <1>1, <1>2, <1>3, <1>4, <1>5

\* A packet that does not end the trip by idling completes no stop.
LEMMA NoStopHeard ==
    ASSUME NEW tr \in [Times -> {"none", "stop", "move"}], NEW p \in Packets,
           NEW s \in States, InOrder(s), p.ts >= s.last, s.start # 0, Tracked(s, tr),
           ~EndByIdle(s, p)
    PROVE  NoStop(s.start, p.ts, Heard(tr, p))
<1> DEFINE new == Heard(tr, p)
<1>1. /\ \A x \in Times : x # p.ts => new[x] = tr[x]
      /\ p.moving => new[p.ts] = "move"
      /\ \A x \in Times : tr[x] = "move" => new[x] = "move"
  BY HeardOK
<1>2. /\ \A x \in Times : x > s.last => tr[x] = "none"
      /\ s.idle # 0 => s.idle <= s.last
      /\ \A a \in s.start + 1 .. s.last : tr[a] = "stop" =>
             \/ s.idle # 0 /\ s.idle <= a
             \/ \E c \in a .. s.last : tr[c] = "move"
  BY RunningFacts
<1>n. NoStop(s.start, s.last, tr)
  BY RunningFacts
<1>3. Idled(s, p).idle = (IF p.moving THEN 0 ELSE IF s.idle = 0 THEN p.ts ELSE s.idle)
  BY IdledOK
<1> HIDE DEF new
<1>4. SUFFICES ASSUME NEW a \in s.start + 1 .. p.ts, NEW b \in s.start + 1 .. p.ts,
                      b - a >= EndIdle, new[a] = "stop", new[b] = "stop"
               PROVE  \E c \in a .. b : new[c] = "move"
  BY DEF NoStop, new
<1>5. /\ p.ts \in Int /\ s.start \in Int /\ s.last \in Int /\ s.idle \in Int
      /\ s.start >= 0 /\ EndIdle \in Int /\ EndIdle >= 1 /\ p.ts \in Times
  BY TimeFacts
<1>6. a \in Int /\ b \in Int /\ a < b /\ b <= p.ts /\ a >= 1 /\ a > s.start
  BY <1>4, <1>5
<1>7. a \in Times /\ b \in Times
  BY <1>5, <1>6, TimeFacts
<1>8. tr[a] = "stop" /\ a <= s.last
  <2>1. a # p.ts
    BY <1>5, <1>6
  <2>2. tr[a] = "stop"
    BY <1>1, <1>4, <1>7, <2>1
  <2>3. ~(a > s.last)
    BY <1>2, <1>7, <2>2
  <2>. QED  BY <1>5, <1>6, <2>2, <2>3
<1>9. \A c \in Times : tr[c] = "move" => new[c] = "move"
  BY <1>1
<1>10. \A c \in a .. b : c \in Times
  BY <1>5, <1>6, TimeFacts
<1>11. CASE b = p.ts
  <2>1. ~p.moving
    BY <1>1, <1>4, <1>11
  <2>2. p.ts - Idled(s, p).idle < EndIdle
    <3>1. Idled(s, p).idle \in Int
      BY <1>3, <1>5
    <3>. QED  BY <2>1, <3>1, <1>5 DEF EndByIdle
  <2>3. ~(s.idle # 0 /\ s.idle <= a)
    BY <1>3, <1>4, <1>5, <1>6, <1>11, <2>1, <2>2
  <2>4. a \in s.start + 1 .. s.last
    BY <1>5, <1>6, <1>8
  <2>5. PICK c \in a .. s.last : tr[c] = "move"
    BY <1>2, <1>8, <2>3, <2>4
  <2>6. c \in a .. b
    BY <1>5, <1>6, <1>11, <2>5
  <2>. QED  BY <1>9, <1>10, <2>5, <2>6
<1>12. CASE b # p.ts
  <2>1. tr[b] = "stop"
    BY <1>1, <1>4, <1>7, <1>12
  <2>2. ~(b > s.last)
    BY <1>2, <1>7, <2>1
  <2>3. a \in s.start + 1 .. s.last /\ b \in s.start + 1 .. s.last
    BY <1>5, <1>6, <1>8, <2>2
  <2>4. PICK c \in a .. b : tr[c] = "move"
    BY <1>n, <1>4, <1>8, <2>1, <2>3 DEF NoStop
  <2>. QED  BY <1>9, <1>10, <2>4
<1>. QED  BY <1>11, <1>12

\* A packet of a trip that goes on.
LEMMA IdledTracked ==
    ASSUME NEW tr \in [Times -> {"none", "stop", "move"}], NEW p \in Packets,
           NEW s \in States, InOrder(s), p.ts >= s.last, s.start # 0, Tracked(s, tr),
           ~EndByIdle(s, p)
    PROVE  Tracked(Idled(s, p), Heard(tr, p))
<1> DEFINE new == Heard(tr, p)
           u == Idled(s, p)
<1>1. /\ \A x \in Times : x # p.ts => new[x] = tr[x]
      /\ new[p.ts] # "none"
      /\ p.moving => new[p.ts] = "move"
      /\ \A x \in Times : tr[x] = "move" => new[x] = "move"
  BY HeardOK
<1>2. /\ \A x \in Times : x > s.last => tr[x] = "none"
      /\ \A x \in Times : x > p.ts => new[x] = "none"
      /\ \A x \in Times : tr[x] # "none" => new[x] # "none"
      /\ s.idle # 0 => s.idle \in Times /\ tr[s.idle] # "none"
      /\ s.idle # 0 => s.idle <= s.last
      /\ \A a \in s.start + 1 .. s.last : tr[a] = "stop" =>
             \/ s.idle # 0 /\ s.idle <= a
             \/ \E c \in a .. s.last : tr[c] = "move"
  BY RunningFacts
<1>3. /\ u.start = s.start /\ u.last = p.ts
      /\ u.idle = (IF p.moving THEN 0 ELSE IF s.idle = 0 THEN p.ts ELSE s.idle)
  BY IdledOK
<1>4. NoStop(s.start, p.ts, new)
  BY NoStopHeard
<1> HIDE DEF new, u
<1>5. /\ p.ts \in Int /\ s.start \in Int /\ s.last \in Int /\ s.idle \in Int
      /\ s.start >= 0 /\ p.ts \in Times /\ p.ts >= 1
  BY TimeFacts
<1>6. u.idle # 0 => new[u.idle] # "none"
  <2>1. CASE p.moving
    BY <1>3, <2>1
  <2>2. CASE ~p.moving /\ s.idle = 0
    BY <1>1, <1>3, <2>2
  <2>3. CASE ~p.moving /\ s.idle # 0
    BY <1>2, <1>3, <2>3
  <2>. QED  BY <2>1, <2>2, <2>3
<1>7. ASSUME NEW a \in s.start + 1 .. p.ts, new[a] = "stop"
      PROVE  (u.idle # 0 /\ u.idle <= a) \/ \E c \in a .. p.ts : new[c] = "move"
  <2>1. a \in Int /\ a <= p.ts /\ a >= 1 /\ a > s.start
    BY <1>5, <1>7
  <2>2. a \in Times
    BY <1>5, <2>1, TimeFacts
  <2>3. CASE p.moving
    <3>1. p.ts \in a .. p.ts
      BY <1>5, <2>1
    <3>. QED  BY <1>1, <2>3, <3>1
  <2>4. CASE ~p.moving /\ a = p.ts
    <3>1. CASE s.idle = 0
      BY <1>3, <1>5, <2>4, <3>1
    <3>2. CASE s.idle # 0
      <4>1. u.idle = s.idle
        BY <1>3, <2>4, <3>2
      <4>. QED  BY <1>2, <1>5, <2>4, <3>2, <4>1
    <3>. QED  BY <3>1, <3>2
  <2>5. CASE ~p.moving /\ a # p.ts
    <3>1. tr[a] = "stop"
      BY <1>1, <1>7, <2>2, <2>5
    <3>2. ~(a > s.last)
      BY <1>2, <2>2, <3>1
    <3>3. a \in s.start + 1 .. s.last
      BY <1>5, <2>1, <3>2
    <3>4. CASE s.idle # 0 /\ s.idle <= a
      BY <1>3, <2>5, <3>4
    <3>5. CASE \E c \in a .. s.last : tr[c] = "move"
      <4>1. PICK c \in a .. s.last : tr[c] = "move"
        BY <3>5
      <4>2. c \in a .. p.ts /\ c \in Times
        BY <1>5, <2>1, <4>1, TimeFacts
      <4>. QED  BY <1>1, <4>1, <4>2
    <3>. QED  BY <1>2, <3>1, <3>3, <3>4, <3>5
  <2>. QED  BY <2>3, <2>4, <2>5
<1>8. u.start # 0
  BY <1>3
<1>. QED  BY <1>2, <1>3, <1>4, <1>6, <1>7, <1>8 DEF Tracked, u, new

\* A packet that ends the trip.
LEMMA EndTracked ==
    ASSUME NEW tr \in [Times -> {"none", "stop", "move"}], NEW p \in Packets,
           NEW s \in States, InOrder(s), p.ts >= s.last, s.start # 0, Tracked(s, tr)
    PROVE  /\ Tracked(Ended(s, p), Heard(tr, p))
           /\ Closed(<<s.start, EndTs(s, p)>>, Ended(s, p), Heard(tr, p))
<1> DEFINE new == Heard(tr, p)
           u == Ended(s, p)
           e == EndTs(s, p)
<1>1. /\ \A x \in Times : x # p.ts => new[x] = tr[x]
      /\ new[p.ts] # "none"
      /\ \A x \in Times : tr[x] = "move" => new[x] = "move"
  BY HeardOK
<1>2. /\ \A x \in Times : x > p.ts => new[x] = "none"
      /\ \A x \in Times : tr[x] # "none" => new[x] # "none"
      /\ s.idle # 0 => s.idle \in Times /\ tr[s.idle] # "none"
      /\ s.idle # 0 => s.idle <= s.last
  BY RunningFacts
<1>n. NoStop(s.start, s.last, tr)
  BY RunningFacts
<1>3. /\ u.start = 0 /\ u.last = p.ts /\ u.candidate = 0 /\ u.idle = 0 /\ u.ended = e
      /\ EndByIdle(s, p) => s.idle # 0 /\ e = s.idle
      /\ ~EndByIdle(s, p) => e = p.ts
      /\ e \in Times
  BY EndedOK
<1>i. Idled(s, p).idle = (IF p.moving THEN 0 ELSE IF s.idle = 0 THEN p.ts ELSE s.idle)
  BY IdledOK
<1>5. /\ p.ts \in Int /\ s.start \in Int /\ s.last \in Int /\ s.idle \in Int
      /\ s.start >= 0 /\ p.ts \in Times /\ p.ts >= 1 /\ EndIdle \in Int /\ EndIdle >= 1
  BY TimeFacts
<1>4. NoStop(s.start, e, new)
  <2>1. CASE ~EndByIdle(s, p)
    <3>1. NoStop(s.start, p.ts, Heard(tr, p))
      BY <2>1, NoStopHeard
    <3>. QED  BY <1>3, <2>1, <3>1
  <2>2. CASE EndByIdle(s, p)
    <3> HIDE DEF new, u, e
    <3>1. ~p.moving /\ p.ts - Idled(s, p).idle >= EndIdle
      BY <2>2 DEF EndByIdle
    <3>2. p.ts - s.idle >= EndIdle
      BY <1>i, <1>3, <2>2, <3>1
    <3>3. SUFFICES ASSUME NEW a \in s.start + 1 .. e, NEW b \in s.start + 1 .. e,
                          b - a >= EndIdle, new[a] = "stop", new[b] = "stop"
                   PROVE  \E c \in a .. b : new[c] = "move"
      BY DEF NoStop
    <3>4. e = s.idle /\ e <= s.last /\ e \in Int
      BY <1>2, <1>3, <1>5, <2>2
    <3>5. /\ a \in Int /\ b \in Int /\ a < b /\ b < p.ts /\ a >= 1 /\ b <= s.last
          /\ a \in s.start + 1 .. s.last /\ b \in s.start + 1 .. s.last
      BY <1>5, <3>2, <3>3, <3>4
    <3>6. a \in Times /\ b \in Times /\ a # p.ts /\ b # p.ts
      BY <1>5, <3>5, TimeFacts
    <3>7. tr[a] = "stop" /\ tr[b] = "stop"
      BY <1>1, <3>3, <3>6
    <3>8. PICK c \in a .. b : tr[c] = "move"
      BY <1>n, <3>3, <3>5, <3>7 DEF NoStop
    <3>9. c \in Times
      BY <1>5, <3>5, <3>8, TimeFacts
    <3>. QED  BY <1>1, <3>8, <3>9
  <2>. QED  BY <2>1, <2>2
<1> HIDE DEF new, u, e
<1>6. new[e] # "none"
  BY <1>1, <1>2, <1>3
<1>7. Tracked(u, new)
  BY <1>2, <1>3 DEF Tracked
<1>8. e <= e
  BY <1>3, TimeFacts
<1>9. Closed(<<s.start, e>>, u, new)
  BY <1>3, <1>4, <1>6, <1>8 DEF Closed
<1>. QED  BY <1>7, <1>9 DEF u, new, e

-----------------------------------------------------------------------------
(* How the calls move. *)

LEMMA NoCallOK == NoCall \in CallType /\ NoCall.pc = "none" /\ NoState \in States
<1>1. 1 \in Times /\ 0 \in 0 .. MaxTime
  BY TripBuilderAssumption DEF Times
<1>2. NoPacket \in Packets
  BY <1>1 DEF NoPacket, Packets
<1>3. NoState \in States
  BY <1>1 DEF NoState, States
<1>4. <<1, 1>> \in Times \X Times
  BY <1>1
<1>. QED  BY <1>2, <1>3, <1>4 DEF NoCall, CallType, Steps

LEMMA CallTyped ==
    ASSUME TypeOK
    PROVE  call \in [Handlers -> CallType]
BY DEF TypeOK, CallType, Steps

LEMMA GotoFacts ==
    ASSUME TypeOK, NEW h \in Handlers, NEW pc \in Steps, Goto(h, pc)
    PROVE  /\ call' \in [Handlers -> CallType]
           /\ call'[h].pc = pc
           /\ call'[h].packet = call[h].packet /\ call'[h].seen = call[h].seen
           /\ call'[h].next = call[h].next /\ call'[h].trip = call[h].trip
           /\ call'[h].locked = call[h].locked
           /\ \A g \in Handlers : g # h => call'[g] = call[g]
<1>1. call \in [Handlers -> CallType]
  BY CallTyped
<1>2. call' = [call EXCEPT ![h] = [call[h] EXCEPT !.pc = pc]]
  BY <1>1 DEF Goto
<1>3. [call[h] EXCEPT !.pc = pc] \in CallType
  BY <1>1 DEF CallType
<1>. QED  BY <1>1, <1>2, <1>3 DEF CallType

LEMMA DoneFacts ==
    ASSUME TypeOK, NEW h \in Handlers, Done(h)
    PROVE  /\ call' \in [Handlers -> CallType]
           /\ call'[h].pc = "none"
           /\ \A g \in Handlers : g # h => call'[g] = call[g]
BY CallTyped, NoCallOK DEF Done

LEMMA FinishFacts ==
    ASSUME TypeOK, NEW h \in Handlers, Finish(h)
    PROVE  /\ call' \in [Handlers -> CallType]
           /\ call'[h].pc \in {"none", "unlock"}
           /\ \A g \in Handlers : g # h => call'[g] = call[g]
<1>1. CASE call[h].locked
  <2>1. Goto(h, "unlock")
    BY <1>1 DEF Finish
  <2>2. "unlock" \in Steps
    BY DEF Steps
  <2>. QED  BY <2>1, <2>2, GotoFacts
<1>2. CASE ~call[h].locked
  <2>1. Done(h)
    BY <1>2 DEF Finish
  <2>. QED  BY <2>1, DoneFacts
<1>. QED  BY <1>1, <1>2

\* Where a call goes once it has read the state.
LEMMA DecisionOK ==
    ASSUME NEW s \in States, NEW p \in Packets, InOrder(s), p.ts >= s.last
    PROVE  /\ Decision(s, p) \in CallType
           /\ Decision(s, p).pc \in {"ready", "clear", "lock", "save"}
           /\ CallOK(Decision(s, p))
<1> DEFINE c == [NoCall EXCEPT !.packet = p, !.seen = s]
<1>1. c \in CallType /\ c.packet = p /\ c.seen = s
  BY NoCallOK DEF CallType
<1> HIDE DEF c
<1>2. CASE s.start = 0
  <2> DEFINE n == StartConditions(s, p)
             d == [c EXCEPT !.pc = "ready", !.next = n]
  <2>1. Decision(s, p) = d
    BY <1>2 DEF Decision, c
  <2>2. n \in States
    BY <1>2, StartOK
  <2> HIDE DEF n
  <2>3. /\ d \in CallType /\ d.pc = "ready" /\ d.packet = p /\ d.seen = s /\ d.next = n
    BY <1>1, <2>2 DEF CallType, Steps
  <2> HIDE DEF d
  <2>. QED  BY <1>2, <2>1, <2>3 DEF CallOK, n
<1>3. CASE s.start # 0 /\ p.ts - s.start >= MaxDuration
  <2> DEFINE t == <<s.start, p.ts>>
             d == [c EXCEPT !.pc = "clear", !.trip = t]
  <2>1. Decision(s, p) = d
    BY <1>3 DEF Decision, c
  <2>2. t \in Times \X Times
    BY <1>3, TripBuilderAssumption DEF States, Packets, Times
  <2> HIDE DEF t
  <2>3. d \in CallType /\ d.pc = "clear"
    BY <1>1, <2>2 DEF CallType, Steps
  <2> HIDE DEF d
  <2>. QED  BY <2>1, <2>3 DEF CallOK
<1>4. CASE /\ s.start # 0 /\ ~(p.ts - s.start >= MaxDuration)
           /\ EndByIgnition(p) \/ EndByIdle(s, p)
  <2> DEFINE n == Ended(s, p)
             t == <<s.start, EndTs(s, p)>>
             d == [c EXCEPT !.pc = "lock", !.next = n, !.trip = t, !.locked = TRUE]
  <2>1. Decision(s, p) = d
    BY <1>4 DEF Decision, c
  <2>2. n \in States /\ EndTs(s, p) \in Times
    BY <1>4, EndedOK
  <2>3. t \in Times \X Times
    BY <1>4, <2>2, TripBuilderAssumption DEF States, Times
  <2> HIDE DEF n, t
  <2>4. /\ d \in CallType /\ d.pc = "lock" /\ d.packet = p /\ d.seen = s /\ d.next = n
        /\ d.trip = t
    BY <1>1, <2>2, <2>3 DEF CallType, Steps
  <2> HIDE DEF d
  <2>. QED  BY <1>4, <2>1, <2>4 DEF CallOK, n, t
<1>5. CASE /\ s.start # 0 /\ ~(p.ts - s.start >= MaxDuration)
           /\ ~EndByIgnition(p) /\ ~EndByIdle(s, p)
  <2> DEFINE n == Idled(s, p)
             d == [c EXCEPT !.pc = "save", !.next = n]
  <2>1. Decision(s, p) = d
    BY <1>5 DEF Decision, c
  <2>2. n \in States
    BY <1>5, IdledOK
  <2> HIDE DEF n
  <2>3. /\ d \in CallType /\ d.pc = "save" /\ d.packet = p /\ d.seen = s /\ d.next = n
    BY <1>1, <2>2 DEF CallType, Steps
  <2> HIDE DEF d
  <2>. QED  BY <1>5, <2>1, <2>3 DEF CallOK, n
<1>. QED  BY <1>2, <1>3, <1>4, <1>5

-----------------------------------------------------------------------------
(* The types, and what the calls know. *)

\* The part of Basic about calls, after a step of the call h.
LEMMA CallsStep ==
    ASSUME Basic, NEW h \in Handlers,
           call' \in [Handlers -> CallType],
           \A g \in Handlers : g # h => call'[g] = call[g],
           CallOK(call'[h]),
           call'[h].pc \in {"create", "publish"} => call'[h].trip \in Spans
    PROVE  /\ \A g \in Handlers : CallOK(call'[g])
           /\ \A g \in Handlers : call'[g].pc \in {"create", "publish"} =>
                                      call'[g].trip \in Spans
BY DEF Basic, TypeOK

\* What a call is about to save is a state.
LEMMA NextOK ==
    ASSUME Basic, NEW h \in Handlers, call[h].pc \in {"save", "end"}
    PROVE  call[h].next \in States /\ InOrder(call[h].next) /\ call[h].packet \in Packets
<1>1. call[h] \in CallType
  BY CallTyped DEF Basic
<1>2. call[h].seen \in States /\ call[h].packet \in Packets
  BY <1>1 DEF CallType
<1>3. CallOK(call[h])
  BY DEF Basic
<1>4. InOrder(call[h].seen) /\ call[h].packet.ts >= call[h].seen.last
  BY <1>3 DEF CallOK
<1>5. CASE /\ call[h].seen.start = 0
           /\ call[h].next = StartConditions(call[h].seen, call[h].packet)
  BY <1>2, <1>4, <1>5, StartOK
<1>6. CASE /\ call[h].seen.start # 0
           /\ call[h].next = Idled(call[h].seen, call[h].packet)
  BY <1>2, <1>4, <1>6, IdledOK
<1>7. CASE /\ call[h].seen.start # 0
           /\ call[h].next = Ended(call[h].seen, call[h].packet)
  BY <1>2, <1>4, <1>7, EndedOK
<1>. QED  BY <1>2, <1>3, <1>5, <1>6, <1>7 DEF CallOK

LEMMA BasicInit == Init => Basic
<1> SUFFICES ASSUME Init  PROVE  Basic
  OBVIOUS
<1>1. call \in [Handlers -> CallType] /\ \A h \in Handlers : call[h].pc = "none"
  BY NoCallOK DEF Init
<1>2. InOrder(state)
  BY TripBuilderAssumption DEF Init, InOrder, NoState
<1>3. \A h \in Handlers : CallOK(call[h])
  BY <1>1 DEF CallOK
<1>4. state \in States
  BY NoCallOK DEF Init
<1>5. track \in [Times -> {"none", "stop", "move"}]
  BY DEF Init
<1>6. sent \in 0 .. MaxPackets /\ faults \in 0 .. MaxFaults /\ summaries \in Seq(Spans)
  BY TripBuilderAssumption DEF Init
<1>7. TypeOK
  BY <1>1, <1>4, <1>5, <1>6 DEF Init, TypeOK, CallType, Steps
<1>. QED  BY <1>2, <1>3, <1>7 DEF Basic

LEMMA BasicStep == Basic /\ [Next]_vars => Basic'
<1> SUFFICES ASSUME Basic, [Next]_vars  PROVE  Basic'
  OBVIOUS
<1>t. TypeOK
  BY DEF Basic
<1>c. call \in [Handlers -> CallType]
  BY <1>t, CallTyped
<1>1. CASE UNCHANGED vars
  BY <1>1 DEF Basic, TypeOK, vars, CallOK, InOrder
<1> DEFINE Calls == /\ call' \in [Handlers -> CallType]
                    /\ \A g \in Handlers : CallOK(call'[g])
                    /\ \A g \in Handlers : call'[g].pc \in {"create", "publish"} =>
                                              call'[g].trip \in Spans
           Rest == /\ state' \in States /\ InOrder(state') /\ lock' \in BOOLEAN
                   /\ trips' \subseteq Spans /\ summaries' \in Seq(Spans)
                   /\ sent' \in 0 .. MaxPackets /\ faults' \in 0 .. MaxFaults
                   /\ track' \in [Times -> {"none", "stop", "move"}]
                   /\ {stale', lost', clash'} \subseteq BOOLEAN
<1>q. ASSUME Calls, Rest  PROVE  Basic'
  BY <1>q DEF Basic, TypeOK, CallType, Steps
<1>r. /\ state \in States /\ InOrder(state) /\ lock \in BOOLEAN
      /\ trips \subseteq Spans /\ summaries \in Seq(Spans)
      /\ sent \in 0 .. MaxPackets /\ faults \in 0 .. MaxFaults
      /\ track \in [Times -> {"none", "stop", "move"}]
      /\ {stale, lost, clash} \subseteq BOOLEAN
  BY DEF Basic, TypeOK
<1>d. ASSUME NEW h \in Handlers, Done(h)  PROVE  Calls
  <2>1. /\ call' \in [Handlers -> CallType] /\ call'[h].pc = "none"
        /\ \A g \in Handlers : g # h => call'[g] = call[g]
    BY <1>d, <1>t, DoneFacts
  <2>2. CallOK(call'[h])
    BY <2>1 DEF CallOK
  <2>. QED  BY <2>1, <2>2, CallsStep
<1>f. ASSUME NEW h \in Handlers, Finish(h)  PROVE  Calls
  <2>1. /\ call' \in [Handlers -> CallType] /\ call'[h].pc \in {"none", "unlock"}
        /\ \A g \in Handlers : g # h => call'[g] = call[g]
    BY <1>f, <1>t, FinishFacts
  <2>2. CallOK(call'[h])
    BY <2>1 DEF CallOK
  <2>. QED  BY <2>1, <2>2, CallsStep
<1>g. ASSUME NEW h \in Handlers, NEW pc \in {"finalize", "create", "publish", "unlock"},
             Goto(h, pc), pc \in {"create", "publish"} => call[h].trip \in Spans
      PROVE  Calls
  <2>0. pc \in Steps
    BY DEF Steps
  <2>1. /\ call' \in [Handlers -> CallType] /\ call'[h].pc = pc
        /\ call'[h].trip = call[h].trip
        /\ \A g \in Handlers : g # h => call'[g] = call[g]
    BY <1>g, <1>t, <2>0, GotoFacts
  <2>2. CallOK(call'[h])
    BY <2>1 DEF CallOK
  <2>. QED  BY <1>g, <2>1, <2>2, CallsStep
<1>w. ASSUME NEW h \in Handlers, Write(h, call[h].next), Observe(call[h].packet),
             call[h].pc \in {"save", "end"}
      PROVE  /\ state' \in States /\ InOrder(state') /\ stale' \in BOOLEAN
             /\ track' \in [Times -> {"none", "stop", "move"}]
  <2>1. /\ call[h].next \in States /\ InOrder(call[h].next) /\ call[h].packet \in Packets
    BY <1>w, NextOK
  <2>2. track' = Heard(track, call[h].packet)
    BY <1>w DEF Observe, Heard
  <2>3. track' \in [Times -> {"none", "stop", "move"}]
    BY <1>r, <2>1, <2>2, HeardOK
  <2>4. state' = call[h].next /\ stale' \in BOOLEAN
    BY <1>w DEF Write
  <2>. QED  BY <2>1, <2>3, <2>4
<1> HIDE DEF Calls
<1>2. ASSUME NEW h \in Handlers, NEW p \in Packets, Load(h, p)  PROVE  Basic'
  <2>1. p.ts >= state.last /\ sent < MaxPackets /\ sent' = sent + 1
        /\ call' = [call EXCEPT ![h] = Decision(state, p)]
    BY <1>2 DEF Load
  <2>2. /\ Decision(state, p) \in CallType
        /\ Decision(state, p).pc \in {"ready", "clear", "lock", "save"}
        /\ CallOK(Decision(state, p))
    BY <1>r, <2>1, DecisionOK
  <2>3. /\ call' \in [Handlers -> CallType] /\ call'[h] = Decision(state, p)
        /\ \A g \in Handlers : g # h => call'[g] = call[g]
    BY <1>c, <2>1, <2>2
  <2>4. /\ CallOK(call'[h])
        /\ call'[h].pc \in {"create", "publish"} => call'[h].trip \in Spans
    BY <2>2, <2>3
  <2>5. Calls
    BY <2>3, <2>4, CallsStep DEF Calls
  <2>6. sent' \in 0 .. MaxPackets
    BY <1>r, <2>1, TripBuilderAssumption
  <2>7. UNCHANGED <<state, lock, trips, summaries, faults, track, stale, lost, clash>>
    BY <1>2 DEF Load
  <2>. QED  BY <1>q, <1>r, <2>5, <2>6, <2>7
<1>3. ASSUME NEW h \in Handlers, CheckFinalizing(h)  PROVE  Basic'
  <2>1. CASE Done(h)
    BY <1>3, <1>q, <1>r, <1>d, <2>1 DEF CheckFinalizing
  <2>2. CASE Goto(h, "save")
    <3>1. "save" \in Steps /\ call[h].pc = "ready"
      BY <1>3 DEF CheckFinalizing, Steps
    <3>2. /\ call' \in [Handlers -> CallType] /\ call'[h].pc = "save"
          /\ call'[h].packet = call[h].packet /\ call'[h].seen = call[h].seen
          /\ call'[h].next = call[h].next
          /\ \A g \in Handlers : g # h => call'[g] = call[g]
      BY <1>t, <2>2, <3>1, GotoFacts
    <3>3. CallOK(call[h])
      BY DEF Basic
    <3>4. CallOK(call'[h])
      BY <3>1, <3>2, <3>3 DEF CallOK
    <3>5. Calls
      BY <3>2, <3>4, CallsStep DEF Calls
    <3>. QED  BY <1>3, <1>q, <1>r, <3>5 DEF CheckFinalizing
  <2>. QED  BY <1>3, <2>1, <2>2 DEF CheckFinalizing
<1>4. ASSUME NEW h \in Handlers, SaveState(h)  PROVE  Basic'
  <2>1. /\ call[h].pc = "save" /\ Write(h, call[h].next) /\ Observe(call[h].packet)
        /\ Done(h) /\ UNCHANGED <<lock, trips, summaries, sent, faults, lost, clash>>
    BY <1>4 DEF SaveState
  <2>2. /\ state' \in States /\ InOrder(state') /\ stale' \in BOOLEAN
        /\ track' \in [Times -> {"none", "stop", "move"}]
    BY <1>w, <2>1
  <2>. QED  BY <1>q, <1>r, <1>d, <2>1, <2>2
<1>5. ASSUME NEW h \in Handlers, ForceEnd(h)  PROVE  Basic'
  <2>1. /\ Write(h, NoState) /\ Observe(call[h].packet) /\ lost' = TRUE
        /\ Goto(h, "finalize") /\ UNCHANGED <<lock, trips, summaries, sent, faults, clash>>
    BY <1>5 DEF ForceEnd
  <2>2. state' \in States /\ stale' \in BOOLEAN /\ state' = NoState
    BY <2>1, NoCallOK DEF Write
  <2>3. InOrder(state')
    BY <2>2 DEF InOrder, NoState
  <2>4. call[h].packet \in Packets
    BY <1>c DEF CallType
  <2>5. track' = Heard(track, call[h].packet)
    BY <2>1 DEF Observe, Heard
  <2>6. track' \in [Times -> {"none", "stop", "move"}]
    BY <1>r, <2>4, <2>5, HeardOK
  <2>7. Calls
    BY <1>g, <2>1
  <2>. QED  BY <1>q, <1>r, <2>1, <2>2, <2>3, <2>6, <2>7
<1>6. ASSUME NEW h \in Handlers, SetFinalizing(h)  PROVE  Basic'
  <2>1. call[h].pc = "lock" /\ Goto(h, "end") /\ "end" \in Steps
    BY <1>6 DEF SetFinalizing, Steps
  <2>2. /\ call' \in [Handlers -> CallType] /\ call'[h].pc = "end"
        /\ call'[h].packet = call[h].packet /\ call'[h].seen = call[h].seen
        /\ call'[h].next = call[h].next /\ call'[h].trip = call[h].trip
        /\ \A g \in Handlers : g # h => call'[g] = call[g]
    BY <1>t, <2>1, GotoFacts
  <2>3. CallOK(call[h])
    BY DEF Basic
  <2>4. CallOK(call'[h])
    BY <2>1, <2>2, <2>3 DEF CallOK
  <2>5. Calls
    BY <2>2, <2>4, CallsStep DEF Calls
  <2>. QED  BY <1>6, <1>q, <1>r, <2>5 DEF SetFinalizing
<1>7. ASSUME NEW h \in Handlers, EndTrip(h)  PROVE  Basic'
  <2>1. /\ call[h].pc = "end" /\ Write(h, call[h].next) /\ Observe(call[h].packet)
        /\ Goto(h, "finalize") /\ UNCHANGED <<lock, trips, summaries, sent, faults, lost, clash>>
    BY <1>7 DEF EndTrip
  <2>2. /\ state' \in States /\ InOrder(state') /\ stale' \in BOOLEAN
        /\ track' \in [Times -> {"none", "stop", "move"}]
    BY <1>w, <2>1
  <2>. QED  BY <1>q, <1>r, <1>g, <2>1, <2>2
<1>8. ASSUME NEW h \in Handlers, DiscardTrip(h)  PROVE  Basic'
  BY <1>8, <1>q, <1>r, <1>f DEF DiscardTrip
<1>9. ASSUME NEW h \in Handlers, DeleteOverlaps(h)  PROVE  Basic'
  <2>1. call[h].trip \in Times \X Times
    BY <1>c DEF CallType
  <2>2. call[h].trip \in Spans
    BY <1>9, <2>1 DEF DeleteOverlaps, Spans
  <2>3. Calls
    BY <1>9, <1>g, <2>2 DEF DeleteOverlaps
  <2>4. trips' \subseteq Spans /\ clash' \in BOOLEAN
    BY <1>9, <1>r DEF DeleteOverlaps
  <2>5. UNCHANGED <<state, lock, summaries, sent, faults, track, stale, lost>>
    BY <1>9 DEF DeleteOverlaps
  <2>. QED  BY <1>q, <1>r, <2>3, <2>4, <2>5
<1>10. ASSUME NEW h \in Handlers, CreateTrip(h)  PROVE  Basic'
  <2>1. call[h].trip \in Spans
    BY <1>10, <1>t DEF CreateTrip, TypeOK
  <2>2. Calls
    <3>1. Finish(h) \/ Goto(h, "publish")
      BY <1>10 DEF CreateTrip
    <3>. QED  BY <1>f, <1>g, <2>1, <3>1
  <2>3. trips' \subseteq Spans
    BY <1>10, <1>r, <2>1 DEF CreateTrip
  <2>4. UNCHANGED <<state, lock, summaries, sent, faults, track, stale, lost, clash>>
    BY <1>10 DEF CreateTrip
  <2>. QED  BY <1>q, <1>r, <2>2, <2>3, <2>4
<1>11. ASSUME NEW h \in Handlers, PublishSummary(h)  PROVE  Basic'
  <2>1. call[h].trip \in Spans
    BY <1>11, <1>t DEF PublishSummary, TypeOK
  <2>2. Calls
    BY <1>11, <1>f DEF PublishSummary
  <2>3. summaries' \in Seq(Spans)
    BY <1>11, <1>r, <2>1 DEF PublishSummary
  <2>4. UNCHANGED <<state, lock, trips, sent, faults, track, stale, lost, clash>>
    BY <1>11 DEF PublishSummary
  <2>. QED  BY <1>q, <1>r, <2>2, <2>3, <2>4
<1>12. ASSUME NEW h \in Handlers, ReleaseFinalizing(h)  PROVE  Basic'
  BY <1>12, <1>q, <1>r, <1>d DEF ReleaseFinalizing
<1>13. ASSUME NEW h \in Handlers, CallFails(h)  PROVE  Basic'
  <2>1. faults' \in 0 .. MaxFaults
    BY <1>13, <1>r, TripBuilderAssumption DEF CallFails
  <2>. QED  BY <1>13, <1>q, <1>r, <1>d, <2>1 DEF CallFails
<1>14. CASE LockExpires
  BY <1>14 DEF LockExpires, Basic, TypeOK, CallOK, InOrder
<1>15. CASE StateExpires
  <2>1. /\ state' = NoState /\ lost' = TRUE
        /\ UNCHANGED <<lock, trips, summaries, call, sent, faults, track, stale, clash>>
    BY <1>15 DEF StateExpires
  <2>2. state' \in States /\ InOrder(state')
    BY <2>1, NoCallOK DEF InOrder, NoState
  <2>3. Calls
    BY <1>c, <2>1 DEF Calls, Basic, TypeOK
  <2>. QED  BY <1>q, <1>r, <2>1, <2>2, <2>3
<1>. QED  BY <1>1, <1>2, <1>3, <1>4, <1>5, <1>6, <1>7, <1>8, <1>9, <1>10, <1>11, <1>12,
             <1>13, <1>14, <1>15 DEF Next

-----------------------------------------------------------------------------
(* Rows that are apart. *)

LEMMA OverlapsSym ==
    ASSUME NEW s \in Times \X Times, NEW t \in Times \X Times, ~Overlaps(s, t)
    PROVE  ~Overlaps(t, s)
<1>1. s[1] \in Times /\ s[2] \in Times /\ t[1] \in Times /\ t[2] \in Times
  OBVIOUS
<1>2. s[1] \in Int /\ s[2] \in Int /\ t[1] \in Int /\ t[2] \in Int
  BY <1>1, TimeFacts
<1>. QED  BY <1>2 DEF Overlaps

LEMMA ExclusiveStep == Basic /\ Exclusive /\ [Next]_vars => Exclusive'
<1> SUFFICES ASSUME Basic, Exclusive, [Next]_vars, ~clash'  PROVE
        /\ \A s, t \in trips' : s # t => ~Overlaps(s, t)
        /\ \A h \in Handlers : call'[h].pc = "create" =>
               \A t \in trips' : ~Overlaps(t, call'[h].trip)
        /\ \A g, h \in Handlers : call'[g].pc = "create" /\ call'[h].pc = "create" => g = h
  BY DEF Exclusive, Overlaps
<1> DEFINE Apart == /\ \A s, t \in trips' : s # t => ~Overlaps(s, t)
                    /\ \A h \in Handlers : call'[h].pc = "create" =>
                           \A t \in trips' : ~Overlaps(t, call'[h].trip)
                    /\ \A g, h \in Handlers :
                           call'[g].pc = "create" /\ call'[h].pc = "create" => g = h
<1> SUFFICES Apart
  OBVIOUS
<1>t. TypeOK /\ call \in [Handlers -> CallType] /\ trips \subseteq Spans
  BY CallTyped DEF Basic, TypeOK
<1>x. ~clash =>
        /\ \A s, t \in trips : s # t => ~Overlaps(s, t)
        /\ \A h \in Handlers : call[h].pc = "create" =>
               \A t \in trips : ~Overlaps(t, call[h].trip)
        /\ \A g, h \in Handlers : call[g].pc = "create" /\ call[h].pc = "create" => g = h
  BY DEF Exclusive
<1>1. CASE UNCHANGED <<call, trips, clash>>
  BY <1>1, <1>x
<1>q. ASSUME UNCHANGED <<trips, clash>>, NEW h \in Handlers,
             call'[h].pc # "create", \A g \in Handlers : g # h => call'[g] = call[g]
      PROVE  Apart
  BY <1>q, <1>x
<1>d. ASSUME UNCHANGED <<trips, clash>>, NEW h \in Handlers, Done(h)  PROVE  Apart
  <2>1. call'[h].pc = "none" /\ \A g \in Handlers : g # h => call'[g] = call[g]
    BY <1>d, <1>t, DoneFacts
  <2>. QED  BY <1>d, <1>q, <2>1
<1>f. ASSUME UNCHANGED <<trips, clash>>, NEW h \in Handlers, Finish(h)  PROVE  Apart
  <2>1. call'[h].pc \in {"none", "unlock"} /\ \A g \in Handlers : g # h => call'[g] = call[g]
    BY <1>f, <1>t, FinishFacts
  <2>2. call'[h].pc # "create"
    BY <2>1
  <2>. QED  BY <1>f, <1>q, <2>1, <2>2
<1>g. ASSUME UNCHANGED <<trips, clash>>, NEW h \in Handlers, NEW pc \in Steps, Goto(h, pc),
             pc # "create"
      PROVE  Apart
  <2>1. call'[h].pc = pc /\ \A g \in Handlers : g # h => call'[g] = call[g]
    BY <1>g, <1>t, GotoFacts
  <2>. QED  BY <1>g, <1>q, <2>1
<1> HIDE DEF Apart
<1>2. ASSUME NEW h \in Handlers, NEW p \in Packets, Load(h, p)  PROVE  Apart
  <2>1. /\ p.ts >= state.last /\ call' = [call EXCEPT ![h] = Decision(state, p)]
        /\ UNCHANGED <<trips, clash>>
    BY <1>2 DEF Load
  <2>2. Decision(state, p).pc \in {"ready", "clear", "lock", "save"}
    BY <2>1, DecisionOK DEF Basic, TypeOK
  <2>3. call'[h].pc # "create" /\ \A g \in Handlers : g # h => call'[g] = call[g]
    BY <1>t, <2>1, <2>2
  <2>. QED  BY <1>q, <2>1, <2>3
<1>3. ASSUME NEW h \in Handlers, CheckFinalizing(h)  PROVE  Apart
  <2>1. "save" \in Steps
    BY DEF Steps
  <2>2. UNCHANGED <<trips, clash>> /\ (Done(h) \/ Goto(h, "save"))
    BY <1>3 DEF CheckFinalizing
  <2>. QED  BY <1>d, <1>g, <2>1, <2>2
<1>4. ASSUME NEW h \in Handlers, SaveState(h)  PROVE  Apart
  BY <1>4, <1>d DEF SaveState
<1>5. ASSUME NEW h \in Handlers, ForceEnd(h) \/ EndTrip(h)  PROVE  Apart
  <2>1. "finalize" \in Steps
    BY DEF Steps
  <2>2. UNCHANGED <<trips, clash>> /\ Goto(h, "finalize")
    BY <1>5 DEF ForceEnd, EndTrip
  <2>. QED  BY <1>g, <2>1, <2>2
<1>6. ASSUME NEW h \in Handlers, SetFinalizing(h)  PROVE  Apart
  <2>1. "end" \in Steps
    BY DEF Steps
  <2>2. UNCHANGED <<trips, clash>> /\ Goto(h, "end")
    BY <1>6 DEF SetFinalizing
  <2>. QED  BY <1>g, <2>1, <2>2
<1>8. ASSUME NEW h \in Handlers, DiscardTrip(h)  PROVE  Apart
  BY <1>8, <1>f DEF DiscardTrip
<1>9. ASSUME NEW h \in Handlers, DeleteOverlaps(h)  PROVE  Apart
  <2>1. "create" \in Steps
    BY DEF Steps
  <2>2. /\ trips' = {t \in trips : ~Overlaps(t, call[h].trip)}
        /\ clash' = (clash \/ \E g \in Handlers \ {h} : call[g].pc = "create")
        /\ Goto(h, "create")
    BY <1>9 DEF DeleteOverlaps
  <2>3. /\ call'[h].pc = "create" /\ call'[h].trip = call[h].trip
        /\ \A g \in Handlers : g # h => call'[g] = call[g]
    BY <1>t, <2>1, <2>2, GotoFacts
  <2>4. ~clash /\ \A g \in Handlers \ {h} : call[g].pc # "create"
    BY <2>2
  <2>5. \A g \in Handlers : call'[g].pc = "create" => g = h
    BY <2>3, <2>4
  <2>6. \A t \in trips' : t \in trips /\ ~Overlaps(t, call'[h].trip)
    BY <2>2, <2>3
  <2>. QED  BY <1>x, <2>4, <2>5, <2>6 DEF Apart
<1>10. ASSUME NEW h \in Handlers, CreateTrip(h)  PROVE  Apart
  <2>1. CASE UNCHANGED trips /\ Finish(h)
    BY <1>10, <1>f, <2>1 DEF CreateTrip
  <2>2. CASE trips' = trips \cup {call[h].trip} /\ Goto(h, "publish")
    <3>1. "publish" \in Steps
      BY DEF Steps
    <3>2. call'[h].pc = "publish" /\ \A g \in Handlers : g # h => call'[g] = call[g]
      BY <1>t, <2>2, <3>1, GotoFacts
    <3>3. call[h].pc = "create" /\ ~clash
      BY <1>10 DEF CreateTrip
    <3>4. \A g \in Handlers : call'[g].pc # "create"
      BY <1>x, <3>2, <3>3
    <3>5. \A t \in trips : ~Overlaps(t, call[h].trip)
      BY <1>x, <3>3
    <3>6. \A t \in trips : ~Overlaps(call[h].trip, t)
      <4>1. call[h].trip \in Times \X Times /\ \A t \in trips : t \in Times \X Times
        BY <1>t DEF CallType, Spans
      <4>. QED  BY <3>5, <4>1, OverlapsSym
    <3>7. \A s, t \in trips' : s # t => ~Overlaps(s, t)
      BY <1>x, <2>2, <3>3, <3>5, <3>6
    <3>. QED  BY <3>4, <3>7 DEF Apart
  <2>. QED  BY <1>10, <2>1, <2>2 DEF CreateTrip
<1>11. ASSUME NEW h \in Handlers, PublishSummary(h)  PROVE  Apart
  BY <1>11, <1>f DEF PublishSummary
<1>12. ASSUME NEW h \in Handlers, ReleaseFinalizing(h) \/ CallFails(h)  PROVE  Apart
  BY <1>12, <1>d DEF ReleaseFinalizing, CallFails
<1>13. CASE UNCHANGED vars \/ LockExpires \/ StateExpires
  BY <1>1, <1>13 DEF LockExpires, StateExpires, vars
<1>. QED  BY <1>2, <1>3, <1>4, <1>5, <1>6, <1>8, <1>9, <1>10, <1>11, <1>12, <1>13 DEF Next

-----------------------------------------------------------------------------
(* Trips that are over. *)

\* A step that only gives up trips, or moves them on, leaves the others settled.
LEMMA SettledRetreat ==
    ASSUME Settled, UNCHANGED <<state, track, summaries>>, trips' \subseteq trips,
           \A g \in Handlers :
               /\ call'[g].pc \in Writing =>
                      call[g].pc \in Writing /\ call'[g].trip = call[g].trip
               /\ call'[g].pc \in Unwritten => call[g].pc \in Unwritten
    PROVE  Settled'
<1>1. \A g \in Handlers : call'[g].pc \in Unwritten => call'[g].pc \in Writing
  BY DEF Unwritten, Writing
<1>2. /\ \A t \in trips' : Closed(t, state', track')
      /\ \A i \in DOMAIN summaries' : summaries'[i][2] <= state'.ended
      /\ \A i, j \in DOMAIN summaries' : i # j => ~Overlaps(summaries'[i], summaries'[j])
  BY DEF Settled
<1>3. \A h \in Handlers : call'[h].pc \in Writing =>
          /\ Closed(call'[h].trip, state', track')
          /\ \A i \in DOMAIN summaries' : ~Overlaps(summaries'[i], call'[h].trip)
  BY DEF Settled
<1>4. \A h \in Handlers : call'[h].pc \in Unwritten =>
          \A t \in trips' : ~Overlaps(t, call'[h].trip)
  BY <1>1 DEF Settled
<1>5. \A g, h \in Handlers :
          g # h /\ call'[g].pc \in Writing /\ call'[h].pc \in Writing
              => ~Overlaps(call'[g].trip, call'[h].trip)
  BY DEF Settled
<1>. QED  BY <1>2, <1>3, <1>4, <1>5 DEF Settled, Overlaps

\* The same for a step of the call h, by where it goes.
LEMMA SettledMove ==
    ASSUME Settled, UNCHANGED <<state, track, summaries>>, trips' \subseteq trips,
           NEW h \in Handlers, \A g \in Handlers : g # h => call'[g] = call[g],
           \/ call'[h].pc \notin Writing
           \/ /\ call[h].pc \in Unwritten /\ call'[h].pc \in Unwritten
              /\ call'[h].trip = call[h].trip
    PROVE  Settled'
<1>1. \A g \in Handlers :
          /\ call'[g].pc \in Writing =>
                 call[g].pc \in Writing /\ call'[g].trip = call[g].trip
          /\ call'[g].pc \in Unwritten => call[g].pc \in Unwritten
  BY DEF Unwritten, Writing
<1>. QED  BY <1>1, SettledRetreat

\* A packet is saved and the trip, if any, goes on.
LEMMA SaveSettled ==
    ASSUME Basic, Tracked(state, track), Settled, NEW h \in Handlers, SaveState(h), ~stale'
    PROVE  Tracked(state', track') /\ Settled'
<1> DEFINE s == call[h].seen
           p == call[h].packet
<1>1. /\ call[h].pc = "save" /\ state' = call[h].next /\ state = s
      /\ track' = Heard(track, p) /\ UNCHANGED <<trips, summaries>> /\ Done(h)
  BY DEF SaveState, Write, Observe, Heard
<1>2. /\ TypeOK /\ call \in [Handlers -> CallType] /\ state \in States
      /\ track \in [Times -> {"none", "stop", "move"}]
      /\ trips \subseteq Spans /\ CallOK(call[h])
  BY CallTyped DEF Basic, TypeOK
<1>3. p \in Packets
  BY <1>2 DEF CallType
<1>4. InOrder(s) /\ p.ts >= s.last
  BY <1>1, <1>2 DEF CallOK
<1>5. /\ Tracked(state', track') /\ state'.ended = s.ended /\ state' \in States
  <2>1. CASE s.start = 0 /\ call[h].next = StartConditions(s, p)
    BY <1>1, <1>2, <1>3, <1>4, <2>1, StartOK, StartTracked
  <2>2. CASE s.start # 0 /\ ~EndByIdle(s, p) /\ call[h].next = Idled(s, p)
    BY <1>1, <1>2, <1>3, <1>4, <2>2, IdledOK, IdledTracked
  <2>. QED  BY <1>1, <1>2, <2>1, <2>2 DEF CallOK
<1>6. s.ended <= state'.ended /\ s.ended <= p.ts
  BY <1>1, <1>2, <1>3, <1>4, <1>5, TimeFacts DEF InOrder
<1>7. ASSUME NEW t \in Times \X Times, Closed(t, state, track)
      PROVE  Closed(t, state', track')
  BY <1>1, <1>2, <1>3, <1>5, <1>6, <1>7, ClosedStays
<1>8. /\ call'[h].pc = "none"
      /\ \A g \in Handlers : g # h => call'[g] = call[g]
  BY <1>1, <1>2, DoneFacts
<1>9. \A g \in Handlers : call'[g].pc \in Writing =>
          g # h /\ call'[g] = call[g] /\ call[g].trip \in Times \X Times
  BY <1>2, <1>8 DEF Writing, Unwritten, CallType
<1>10. \A g \in Handlers : call'[g].pc \in Unwritten => call'[g] = call[g]
  BY <1>9 DEF Writing
<1> HIDE DEF s, p
<1>11. \A t \in trips' : Closed(t, state', track')
  BY <1>1, <1>2, <1>7 DEF Settled, Spans
<1>12. \A i \in DOMAIN summaries' : summaries'[i][2] <= state'.ended
  BY <1>1, <1>5 DEF Settled
<1>13. \A g \in Handlers : call'[g].pc \in Writing =>
          /\ Closed(call'[g].trip, state', track')
          /\ \A i \in DOMAIN summaries' : ~Overlaps(summaries'[i], call'[g].trip)
  BY <1>1, <1>7, <1>9 DEF Settled
<1>14. \A g \in Handlers : call'[g].pc \in Unwritten =>
          \A t \in trips' : ~Overlaps(t, call'[g].trip)
  BY <1>1, <1>10 DEF Settled
<1>15. \A f, g \in Handlers :
          f # g /\ call'[f].pc \in Writing /\ call'[g].pc \in Writing
              => ~Overlaps(call'[f].trip, call'[g].trip)
  BY <1>9 DEF Settled
<1>16. \A i, j \in DOMAIN summaries' : i # j => ~Overlaps(summaries'[i], summaries'[j])
  BY <1>1 DEF Settled
<1>17. Settled'
  BY <1>11, <1>12, <1>13, <1>14, <1>15, <1>16 DEF Settled, Overlaps
<1>. QED  BY <1>5, <1>17

\* A trip ends: it starts where the state says, after all earlier ones.
LEMMA EndSettled ==
    ASSUME Basic, Tracked(state, track), Settled, NEW h \in Handlers, EndTrip(h), ~stale'
    PROVE  Tracked(state', track') /\ Settled'
<1> DEFINE s == call[h].seen
           p == call[h].packet
           new == call[h].trip
<1>1. /\ call[h].pc = "end" /\ state' = call[h].next /\ state = s
      /\ track' = Heard(track, p) /\ UNCHANGED <<trips, summaries>> /\ Goto(h, "finalize")
  BY DEF EndTrip, Write, Observe, Heard
<1>2. /\ TypeOK /\ call \in [Handlers -> CallType] /\ state \in States
      /\ track \in [Times -> {"none", "stop", "move"}]
      /\ trips \subseteq Spans /\ summaries \in Seq(Spans) /\ CallOK(call[h])
  BY CallTyped DEF Basic, TypeOK
<1>3. p \in Packets /\ new \in Times \X Times
  BY <1>2 DEF CallType
<1>4. /\ InOrder(s) /\ p.ts >= s.last /\ s.start # 0 /\ call[h].next = Ended(s, p)
      /\ new = <<s.start, EndTs(s, p)>>
  BY <1>1, <1>2 DEF CallOK
<1>5. /\ Tracked(state', track') /\ Closed(new, state', track')
      /\ state'.ended = EndTs(s, p) /\ state' \in States
      /\ s.start <= EndTs(s, p) /\ EndTs(s, p) \in Times /\ EndTs(s, p) <= p.ts
  <2>1. /\ state \in States /\ InOrder(state) /\ p.ts >= state.last /\ state.start # 0
        /\ state' = Ended(state, p) /\ new = <<state.start, EndTs(state, p)>>
    BY <1>1, <1>2, <1>4
  <2>2. /\ Tracked(Ended(state, p), Heard(track, p))
        /\ Closed(<<state.start, EndTs(state, p)>>, Ended(state, p), Heard(track, p))
    BY <1>2, <1>3, <2>1, EndTracked
  <2>3. /\ Ended(state, p).ended = EndTs(state, p) /\ Ended(state, p) \in States
        /\ state.start <= EndTs(state, p) /\ EndTs(state, p) \in Times
        /\ EndTs(state, p) <= p.ts
    BY <1>3, <2>1, EndedOK
  <2>. QED  BY <1>1, <2>1, <2>2, <2>3
<1>6. /\ state.ended <= state'.ended /\ state.ended <= p.ts /\ state.ended <= new[1]
      /\ new[1] \in Int /\ new[2] \in Int /\ state.ended \in Int /\ state'.ended \in Int
  <2>1. s.ended <= s.start
    BY <1>4 DEF InOrder
  <2>2. /\ s.ended \in Int /\ s.start \in Int /\ p.ts \in Int /\ state'.ended \in Int
        /\ EndTs(s, p) \in Int
    BY <1>1, <1>2, <1>3, <1>5, TimeFacts
  <2>. QED  BY <1>1, <1>4, <1>5, <2>1, <2>2
<1>7. ASSUME NEW t \in Times \X Times, Closed(t, state, track)
      PROVE  Closed(t, state', track')
  BY <1>1, <1>2, <1>3, <1>5, <1>6, <1>7, ClosedStays
<1>8. ASSUME NEW t \in Times \X Times, t[2] <= state.ended
      PROVE  ~Overlaps(t, new) /\ ~Overlaps(new, t)
  <2>1. t[1] \in Times /\ t[2] \in Times
    OBVIOUS
  <2>2. t[1] \in Int /\ t[2] \in Int
    BY <2>1, TimeFacts
  <2>. QED  BY <1>6, <1>8, <2>2 DEF Overlaps
<1>9. "finalize" \in Steps
  BY DEF Steps
<1>10. /\ call'[h].pc = "finalize" /\ call'[h].trip = new
       /\ \A g \in Handlers : g # h => call'[g] = call[g]
  BY <1>1, <1>2, <1>9, GotoFacts
<1> HIDE DEF s, p, new
<1>11. \A g \in Handlers : g # h /\ call'[g].pc \in Writing =>
           /\ call[g].pc \in Writing /\ call'[g] = call[g] /\ call[g].trip \in Times \X Times
           /\ Closed(call[g].trip, state, track)
           /\ call[g].trip[2] <= state.ended
  BY <1>2, <1>10 DEF Settled, Closed, CallType
<1>12. \A t \in trips : /\ t \in Times \X Times /\ Closed(t, state, track)
                        /\ t[2] <= state.ended
  BY <1>2 DEF Settled, Closed, Spans
<1>13. \A i \in DOMAIN summaries : /\ summaries[i] \in Times \X Times
                                   /\ summaries[i][2] <= state.ended
                                   /\ summaries[i][2] \in Int
  <2>1. \A i \in DOMAIN summaries : summaries[i] \in Spans
    BY <1>2
  <2>2. \A t \in Spans : t \in Times \X Times /\ t[2] \in Int
    BY TimeFacts DEF Spans
  <2>. QED  BY <2>1, <2>2 DEF Settled
<1>14. \A t \in trips' : Closed(t, state', track')
  BY <1>1, <1>7, <1>12
<1>15. \A i \in DOMAIN summaries' : summaries'[i][2] <= state'.ended
  BY <1>1, <1>6, <1>13
<1>16. \A g \in Handlers : call'[g].pc \in Writing =>
          /\ Closed(call'[g].trip, state', track')
          /\ \A i \in DOMAIN summaries' : ~Overlaps(summaries'[i], call'[g].trip)
  <2>1. SUFFICES ASSUME NEW g \in Handlers, call'[g].pc \in Writing
                 PROVE  /\ Closed(call'[g].trip, state', track')
                        /\ \A i \in DOMAIN summaries' : ~Overlaps(summaries'[i], call'[g].trip)
    OBVIOUS
  <2>2. CASE g = h
    BY <1>1, <1>5, <1>8, <1>10, <1>13, <2>2 DEF new
  <2>3. CASE g # h
    BY <1>1, <1>7, <1>11, <2>1, <2>3 DEF Settled
  <2>. QED  BY <2>2, <2>3
<1>17. \A g \in Handlers : call'[g].pc \in Unwritten =>
          \A t \in trips' : ~Overlaps(t, call'[g].trip)
  <2>1. SUFFICES ASSUME NEW g \in Handlers, call'[g].pc \in Unwritten, NEW t \in trips
                 PROVE  ~Overlaps(t, call'[g].trip)
    BY <1>1
  <2>2. CASE g = h
    BY <1>8, <1>10, <1>12, <2>1, <2>2
  <2>3. CASE g # h
    BY <1>10, <2>1, <2>3 DEF Settled
  <2>. QED  BY <2>2, <2>3
<1>18. \A f, g \in Handlers :
          f # g /\ call'[f].pc \in Writing /\ call'[g].pc \in Writing
              => ~Overlaps(call'[f].trip, call'[g].trip)
  <2>1. SUFFICES ASSUME NEW f \in Handlers, NEW g \in Handlers, f # g,
                        call'[f].pc \in Writing, call'[g].pc \in Writing
                 PROVE  ~Overlaps(call'[f].trip, call'[g].trip)
    OBVIOUS
  <2>2. CASE f = h
    BY <1>8, <1>10, <1>11, <2>1, <2>2
  <2>3. CASE g = h
    BY <1>8, <1>10, <1>11, <2>1, <2>3
  <2>4. CASE f # h /\ g # h
    BY <1>11, <2>1, <2>4 DEF Settled
  <2>. QED  BY <2>2, <2>3, <2>4
<1>19. \A i, j \in DOMAIN summaries' : i # j => ~Overlaps(summaries'[i], summaries'[j])
  BY <1>1 DEF Settled
<1>20. Settled'
  BY <1>14, <1>15, <1>16, <1>17, <1>18, <1>19 DEF Settled, Overlaps
<1>. QED  BY <1>5, <1>20

\* The row of a trip is created.
LEMMA CreateSettled ==
    ASSUME Basic, Settled, NEW h \in Handlers, CreateTrip(h),
           trips' = trips \cup {call[h].trip}, Goto(h, "publish")
    PROVE  Settled'
<1>1. /\ call[h].pc \in Writing /\ UNCHANGED <<state, track, summaries>>
  BY DEF CreateTrip, Writing, Unwritten
<1>2. TypeOK /\ "publish" \in Steps
  BY DEF Basic, Steps
<1>3. /\ call'[h].pc = "publish" /\ call'[h].trip = call[h].trip
      /\ \A g \in Handlers : g # h => call'[g] = call[g]
  BY <1>2, GotoFacts
<1>4. \A g \in Handlers : call'[g].pc \in Writing =>
          call[g].pc \in Writing /\ call'[g].trip = call[g].trip
  BY <1>1, <1>3
<1>5. \A g \in Handlers : call'[g].pc \in Unwritten =>
          g # h /\ call'[g] = call[g] /\ call[g].pc \in Unwritten /\ call[g].pc \in Writing
  BY <1>3 DEF Unwritten, Writing
<1>6. \A t \in trips' : Closed(t, state', track')
  BY <1>1 DEF Settled
<1>7. \A i \in DOMAIN summaries' : summaries'[i][2] <= state'.ended
  BY <1>1 DEF Settled
<1>8. \A g \in Handlers : call'[g].pc \in Writing =>
          /\ Closed(call'[g].trip, state', track')
          /\ \A i \in DOMAIN summaries' : ~Overlaps(summaries'[i], call'[g].trip)
  BY <1>1, <1>4 DEF Settled
<1>9. \A g \in Handlers : call'[g].pc \in Unwritten =>
          \A t \in trips' : ~Overlaps(t, call'[g].trip)
  <2>1. SUFFICES ASSUME NEW g \in Handlers, call'[g].pc \in Unwritten, NEW t \in trips'
                 PROVE  ~Overlaps(t, call'[g].trip)
    OBVIOUS
  <2>2. CASE t \in trips
    BY <1>5, <2>1, <2>2 DEF Settled
  <2>3. CASE t = call[h].trip
    BY <1>1, <1>5, <2>1, <2>3 DEF Settled
  <2>. QED  BY <2>2, <2>3
<1>10. \A f, g \in Handlers :
          f # g /\ call'[f].pc \in Writing /\ call'[g].pc \in Writing
              => ~Overlaps(call'[f].trip, call'[g].trip)
  BY <1>4 DEF Settled
<1>11. \A i, j \in DOMAIN summaries' : i # j => ~Overlaps(summaries'[i], summaries'[j])
  BY <1>1 DEF Settled
<1>. QED  BY <1>6, <1>7, <1>8, <1>9, <1>10, <1>11 DEF Settled, Overlaps

\* The summary of a trip is published.
LEMMA PublishSettled ==
    ASSUME Basic, Settled, NEW h \in Handlers, PublishSummary(h)
    PROVE  Settled'
<1> DEFINE new == call[h].trip
<1>1. /\ call[h].pc \in Writing /\ UNCHANGED <<state, track, trips>>
      /\ summaries' = Append(summaries, new) /\ Finish(h)
  BY DEF PublishSummary, Writing
<1>2. TypeOK /\ summaries \in Seq(Spans) /\ call \in [Handlers -> CallType]
  BY CallTyped DEF Basic, TypeOK
<1>3. new \in Spans /\ new \in Times \X Times
  <2>1. new \in Spans
    BY <1>2 DEF PublishSummary, TypeOK
  <2>. QED  BY <2>1 DEF Spans
<1>4. /\ call'[h].pc \in {"none", "unlock"}
      /\ \A g \in Handlers : g # h => call'[g] = call[g]
  BY <1>1, <1>2, FinishFacts
<1>5. \A g \in Handlers : call'[g].pc \in Writing =>
          g # h /\ call[g].pc \in Writing /\ call'[g] = call[g]
  BY <1>4 DEF Writing, Unwritten
<1>6. \A g \in Handlers : call'[g].pc \in Unwritten =>
          call[g].pc \in Unwritten /\ call'[g] = call[g]
  BY <1>5 DEF Writing
<1> HIDE DEF new
<1>7. \A i \in DOMAIN summaries' :
          \/ i \in DOMAIN summaries /\ summaries'[i] = summaries[i]
          \/ i = Len(summaries) + 1 /\ summaries'[i] = new
  BY <1>1, <1>2, <1>3
<1>8. \A i \in DOMAIN summaries :
          /\ summaries[i] \in Times \X Times
          /\ ~Overlaps(summaries[i], new) /\ ~Overlaps(new, summaries[i])
  <2>1. SUFFICES ASSUME NEW i \in DOMAIN summaries
                 PROVE  /\ summaries[i] \in Times \X Times
                        /\ ~Overlaps(summaries[i], new) /\ ~Overlaps(new, summaries[i])
    OBVIOUS
  <2>2. summaries[i] \in Spans
    BY <1>2, <2>1
  <2>3. summaries[i] \in Times \X Times
    BY <2>2 DEF Spans
  <2>4. ~Overlaps(summaries[i], new)
    BY <1>1, <2>1 DEF Settled, new
  <2>. QED  BY <1>3, <2>3, <2>4, OverlapsSym
<1>9. \A t \in trips' : Closed(t, state', track')
  BY <1>1 DEF Settled
<1>10. \A i \in DOMAIN summaries' : summaries'[i][2] <= state'.ended
  <2>1. new[2] <= state.ended
    BY <1>1 DEF Settled, Closed, new
  <2>. QED  BY <1>1, <1>7, <2>1 DEF Settled
<1>11. \A g \in Handlers : call'[g].pc \in Writing =>
          /\ Closed(call'[g].trip, state', track')
          /\ \A i \in DOMAIN summaries' : ~Overlaps(summaries'[i], call'[g].trip)
  <2>1. SUFFICES ASSUME NEW g \in Handlers, call'[g].pc \in Writing
                 PROVE  /\ Closed(call'[g].trip, state', track')
                        /\ \A i \in DOMAIN summaries' : ~Overlaps(summaries'[i], call'[g].trip)
    OBVIOUS
  <2>2. ~Overlaps(new, call[g].trip)
    BY <1>1, <1>5, <2>1 DEF Settled, new
  <2>3. /\ Closed(call[g].trip, state, track)
        /\ \A i \in DOMAIN summaries : ~Overlaps(summaries[i], call[g].trip)
    BY <1>5, <2>1 DEF Settled
  <2>. QED  BY <1>1, <1>5, <1>7, <2>1, <2>2, <2>3
<1>12. \A g \in Handlers : call'[g].pc \in Unwritten =>
          \A t \in trips' : ~Overlaps(t, call'[g].trip)
  BY <1>1, <1>6 DEF Settled
<1>13. \A f, g \in Handlers :
          f # g /\ call'[f].pc \in Writing /\ call'[g].pc \in Writing
              => ~Overlaps(call'[f].trip, call'[g].trip)
  BY <1>5 DEF Settled
<1>14. \A i, j \in DOMAIN summaries' : i # j => ~Overlaps(summaries'[i], summaries'[j])
  <2>1. \A i, j \in DOMAIN summaries : i # j => ~Overlaps(summaries[i], summaries[j])
    BY DEF Settled
  <2>. QED  BY <1>7, <1>8, <2>1
<1>. QED  BY <1>9, <1>10, <1>11, <1>12, <1>13, <1>14 DEF Settled, Overlaps

\* As long as the state is coherent, so is everything derived from it.
LEMMA SettledStep ==
    ASSUME Basic, Coherent, Tracked(state, track), Settled, [Next]_vars, Coherent'
    PROVE  Tracked(state', track') /\ Settled'
<1>t. TypeOK /\ call \in [Handlers -> CallType]
  BY CallTyped DEF Basic
<1>p. \A pc \in {"none", "ready", "save", "clear", "lock", "end", "unlock"} :
          pc \notin Writing
  BY DEF Writing, Unwritten
<1>m. ASSUME UNCHANGED <<state, track, summaries>>, trips' \subseteq trips,
             NEW h \in Handlers, \A g \in Handlers : g # h => call'[g] = call[g],
             call'[h].pc \notin Writing
      PROVE  Tracked(state', track') /\ Settled'
  <2>1. Settled'
    BY <1>m, SettledMove
  <2>. QED  BY <1>m, <2>1
<1>d. ASSUME UNCHANGED <<state, track, summaries>>, trips' \subseteq trips,
             NEW h \in Handlers, Done(h) \/ Finish(h)
      PROVE  Tracked(state', track') /\ Settled'
  <2>1. /\ call'[h].pc \in {"none", "unlock"}
        /\ \A g \in Handlers : g # h => call'[g] = call[g]
    BY <1>d, <1>t, DoneFacts, FinishFacts
  <2>2. call'[h].pc \notin Writing
    BY <1>p, <2>1
  <2>. QED  BY <1>d, <1>m, <2>1, <2>2
<1>g. ASSUME UNCHANGED <<state, track, summaries>>, trips' \subseteq trips,
             NEW h \in Handlers, NEW pc \in {"save", "end"}, Goto(h, pc)
      PROVE  Tracked(state', track') /\ Settled'
  <2>0. pc \in Steps
    BY DEF Steps
  <2>1. /\ call'[h].pc = pc /\ \A g \in Handlers : g # h => call'[g] = call[g]
    BY <1>g, <1>t, <2>0, GotoFacts
  <2>2. call'[h].pc \notin Writing
    BY <1>p, <2>1
  <2>. QED  BY <1>g, <1>m, <2>1, <2>2
<1>1. CASE UNCHANGED <<state, track, summaries, trips, call>>
  <2>1. Settled'
    BY <1>1, SettledRetreat
  <2>. QED  BY <1>1, <2>1
<1>2. ASSUME NEW h \in Handlers, NEW p \in Packets, Load(h, p)
      PROVE  Tracked(state', track') /\ Settled'
  <2>1. /\ p.ts >= state.last /\ call' = [call EXCEPT ![h] = Decision(state, p)]
        /\ UNCHANGED <<state, track, summaries, trips>>
    BY <1>2 DEF Load
  <2>2. Decision(state, p).pc \in {"ready", "clear", "lock", "save"}
    BY <2>1, DecisionOK DEF Basic, TypeOK
  <2>3. /\ call'[h].pc \notin Writing
        /\ \A g \in Handlers : g # h => call'[g] = call[g]
    BY <1>t, <1>p, <2>1, <2>2
  <2>. QED  BY <1>m, <2>1, <2>3
<1>3. ASSUME NEW h \in Handlers, CheckFinalizing(h)
      PROVE  Tracked(state', track') /\ Settled'
  BY <1>3, <1>d, <1>g DEF CheckFinalizing
<1>4. ASSUME NEW h \in Handlers, SaveState(h)
      PROVE  Tracked(state', track') /\ Settled'
  BY <1>4, SaveSettled DEF Coherent
<1>5. ASSUME NEW h \in Handlers, ForceEnd(h)  PROVE  FALSE
  BY <1>5 DEF ForceEnd, Coherent
<1>6. ASSUME NEW h \in Handlers, SetFinalizing(h)
      PROVE  Tracked(state', track') /\ Settled'
  BY <1>6, <1>g DEF SetFinalizing
<1>7. ASSUME NEW h \in Handlers, EndTrip(h)
      PROVE  Tracked(state', track') /\ Settled'
  BY <1>7, EndSettled DEF Coherent
<1>8. ASSUME NEW h \in Handlers, DiscardTrip(h)
      PROVE  Tracked(state', track') /\ Settled'
  BY <1>8, <1>d DEF DiscardTrip
<1>9. ASSUME NEW h \in Handlers, DeleteOverlaps(h)
      PROVE  Tracked(state', track') /\ Settled'
  <2>1. /\ Goto(h, "create") /\ "create" \in Steps /\ call[h].pc \in Unwritten
        /\ "create" \in Unwritten
        /\ UNCHANGED <<state, track, summaries>> /\ trips' \subseteq trips
    BY <1>9 DEF DeleteOverlaps, Steps, Unwritten
  <2>2. /\ call'[h].pc = "create" /\ call'[h].trip = call[h].trip
        /\ \A g \in Handlers : g # h => call'[g] = call[g]
    BY <1>t, <2>1, GotoFacts
  <2>3. Settled'
    BY <2>1, <2>2, SettledMove
  <2>. QED  BY <2>1, <2>3
<1>10. ASSUME NEW h \in Handlers, CreateTrip(h)
       PROVE  Tracked(state', track') /\ Settled'
  <2>1. UNCHANGED <<state, track, summaries>>
    BY <1>10 DEF CreateTrip
  <2>2. CASE trips' = trips /\ Finish(h)
    BY <1>d, <2>1, <2>2
  <2>3. CASE trips' = trips \cup {call[h].trip} /\ Goto(h, "publish")
    BY <1>10, <2>1, <2>3, CreateSettled
  <2>. QED  BY <1>10, <2>2, <2>3 DEF CreateTrip
<1>11. ASSUME NEW h \in Handlers, PublishSummary(h)
       PROVE  Tracked(state', track') /\ Settled'
  <2>1. UNCHANGED <<state, track>>
    BY <1>11 DEF PublishSummary
  <2>. QED  BY <1>11, <2>1, PublishSettled
<1>12. ASSUME NEW h \in Handlers, ReleaseFinalizing(h) \/ CallFails(h)
       PROVE  Tracked(state', track') /\ Settled'
  BY <1>12, <1>d DEF ReleaseFinalizing, CallFails
<1>13. CASE UNCHANGED vars \/ LockExpires
  BY <1>1, <1>13 DEF LockExpires, vars
<1>14. CASE StateExpires
  BY <1>14 DEF StateExpires, Coherent
<1>. QED  BY <1>2, <1>3, <1>4, <1>5, <1>6, <1>7, <1>8, <1>9, <1>10, <1>11, <1>12, <1>13,
             <1>14 DEF Next

LEMMA CoherentBefore ==
    ASSUME [Next]_vars, Coherent'
    PROVE  Coherent
<1>1. CASE UNCHANGED <<stale, lost>>
  BY <1>1 DEF Coherent
<1>2. ASSUME NEW h \in Handlers, NEW s, Write(h, s), lost' = lost \/ lost' = TRUE
      PROVE  Coherent
  <2>1. ~stale' /\ ~lost'
    BY DEF Coherent
  <2>2. ~stale
    BY <1>2, <2>1 DEF Write
  <2>3. ~lost
    BY <1>2, <2>1
  <2>. QED  BY <2>2, <2>3 DEF Coherent
<1>3. ASSUME NEW h \in Handlers, SaveState(h) \/ EndTrip(h) \/ ForceEnd(h)
      PROVE  Coherent
  BY <1>2, <1>3 DEF SaveState, EndTrip, ForceEnd
<1>4. ASSUME NEW h \in Handlers,
             \/ \E p \in Packets : Load(h, p)
             \/ CheckFinalizing(h) \/ SetFinalizing(h) \/ DiscardTrip(h) \/ DeleteOverlaps(h)
             \/ CreateTrip(h) \/ PublishSummary(h) \/ ReleaseFinalizing(h) \/ CallFails(h)
      PROVE  Coherent
  BY <1>1, <1>4 DEF Load, CheckFinalizing, SetFinalizing, DiscardTrip, DeleteOverlaps,
                    CreateTrip, PublishSummary, ReleaseFinalizing, CallFails
<1>5. CASE LockExpires \/ UNCHANGED vars
  BY <1>1, <1>5 DEF LockExpires, vars
<1>6. CASE StateExpires
  BY <1>6 DEF StateExpires, Coherent
<1>. QED  BY <1>3, <1>4, <1>5, <1>6 DEF Next

-----------------------------------------------------------------------------
(* The theorems. *)

LEMMA InvInit == Init => Inv
<1> SUFFICES ASSUME Init  PROVE  Inv
  OBVIOUS
<1>1. Basic
  BY BasicInit
<1>2. \A h \in Handlers : call[h].pc = "none"
  BY NoCallOK DEF Init
<1>3. Exclusive
  BY <1>2 DEF Init, Exclusive
<1>4. Tracked(state, track)
  BY DEF Init, Tracked, NoState
<1>5. Settled
  BY <1>2 DEF Init, Settled, Writing, Unwritten
<1>. QED  BY <1>1, <1>3, <1>4, <1>5 DEF Inv

\* The inductive invariant: the times of a state and of what a call is about
\* to save are in order, rows stay apart unless two calls clash, and as long as
\* the state is coherent it sums up the packets saved, and every trip stored,
\* announced or being written lies before the next one.
THEOREM InvariantHolds == Spec => []Inv
<1>1. ASSUME Inv, [Next]_vars  PROVE  Inv'
  <2>1. Basic' /\ Exclusive'
    BY <1>1, BasicStep, ExclusiveStep DEF Inv
  <2>2. ASSUME Coherent'  PROVE  Tracked(state', track') /\ Settled'
    <3>1. Coherent
      BY <1>1, <2>2, CoherentBefore
    <3>2. Basic /\ Tracked(state, track) /\ Settled
      BY <1>1, <3>1 DEF Inv
    <3>. QED  BY <1>1, <2>2, <3>1, <3>2, SettledStep
  <2>3. Coherent' => Tracked(state', track') /\ Settled'
    BY <2>2
  <2>. QED  BY <2>1, <2>3 DEF Inv
<1>. QED  BY <1>1, InvInit, PTL DEF Spec

\* Type correctness: every row, summary and trip about to be written lasts for
\* some time, however the calls of a device interleave.
THEOREM TypeCorrect == Spec => []TypeOK
<1>1. Inv => TypeOK
  BY DEF Inv, Basic
<1>. QED  BY <1>1, InvariantHolds, PTL

\* Two rows of a bike cover the same time only when two calls were between
\* deleting the overlapping rows and creating their own (deleteMany, create).
THEOREM TripsStayApart == Spec => []TripsApart
<1>1. Inv => TripsApart
  BY DEF Inv, Exclusive, TripsApart
<1>. QED  BY <1>1, InvariantHolds, PTL

\* While the state in Redis is neither lost nor written over, the summaries on
\* the trips stream never cover a time twice, whichever calls fail.
THEOREM SummariesStayApart == Spec => []SummariesApart
<1>1. Inv => SummariesApart
  BY DEF Inv, Settled, SummariesApart
<1>. QED  BY <1>1, InvariantHolds, PTL

\* Under the same condition no stored trip runs on through a stop of
\* TRIP_END_IDLE_SECONDS, for any value of the settings.
THEOREM StopsEndTrips == Spec => []StopEndsTrip
<1>1. Inv => StopEndsTrip
  BY DEF Inv, Settled, Closed, NoStop, StopEndsTrip
<1>. QED  BY <1>1, InvariantHolds, PTL

\* Under the same condition the clean-up of overlapping rows in finalizeTrip
\* deletes no stored trip.
THEOREM RidesAreKept == Spec => RidesKept
<1>1. ASSUME Inv, [Next]_vars, Coherent, Coherent'  PROVE  trips \subseteq trips'
  <2>1. ASSUME NEW h \in Handlers, DeleteOverlaps(h)  PROVE  trips \subseteq trips'
    <3>1. call[h].pc \in Unwritten /\ trips' = {t \in trips : ~Overlaps(t, call[h].trip)}
      BY <2>1 DEF DeleteOverlaps, Unwritten
    <3>2. \A t \in trips : ~Overlaps(t, call[h].trip)
      BY <1>1, <3>1 DEF Inv, Settled
    <3>. QED  BY <3>1, <3>2
  <2>2. CASE ~\E h \in Handlers : DeleteOverlaps(h)
    BY <1>1, <2>2
       DEF Next, vars, Load, CheckFinalizing, SaveState, ForceEnd, SetFinalizing, EndTrip,
           DiscardTrip, CreateTrip, PublishSummary, ReleaseFinalizing, CallFails,
           LockExpires, StateExpires
  <2>. QED  BY <2>1, <2>2
<1>2. Inv /\ [Next]_vars => [(Coherent /\ Coherent') => trips \subseteq trips']_vars
  BY <1>1
<1>. QED  BY <1>2, InvariantHolds, PTL DEF Spec, RidesKept
=============================================================================
