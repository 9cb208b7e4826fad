------------------------ MODULE DeviceCommandsProofs ------------------------
(***************************************************************************)
(* Proofs about DeviceCommands, for every set of commands, devices,        *)
(* sockets and sweeper ticks and every value of the time constants.        *)
(***************************************************************************)
EXTENDS DeviceCommands, TLAPS

\* The update by id that a status change is keeps the rows well typed.
LEMMA StatusUpdate ==
  ASSUME cmd \in [Cmds -> Row], NEW c, NEW st \in Statuses, NEW a \in Nat \cup {None},
         SetStatus(c, st, a)
  PROVE  cmd' \in [Cmds -> Row]
<1>1. \A x \in Cmds : [cmd[x] EXCEPT !.status = st, !.ackedAt = a] \in Row
  BY DEF Row
<1> QED
  BY <1>1 DEF SetStatus

\* Every action keeps the rows, handlers, slots, sockets and messages within
\* their types.
LEMMA TypeStep ==
  ASSUME TypeOK, [Next]_vars
  PROVE  TypeOK'
<1>now. now \in Nat
  BY DEF TypeOK
<1>cmd. cmd \in [Cmds -> Row]
  BY DEF TypeOK
<1>req. req \in [Cmds -> Handler]
  BY DEF TypeOK
<1>slot. slot \in [Devices -> QueuedCommand \cup {None}]
  BY DEF TypeOK
<1>active. active \in [Devices -> Sockets \cup {Destroyed, None}]
  BY DEF TypeOK
<1>sock. sock \in [Sockets -> Connection]
  BY DEF TypeOK
<1>air. air \subseteq Downlinks
  BY DEF TypeOK
<1>ack. ack \in [Acks -> AckMessage]
  BY DEF TypeOK
<1>sweep. sweep \in [Sweeps -> SweepTick]
  BY DEF TypeOK
<1>bridge. bridge \in [Cmds -> BridgeCall]
  BY DEF TypeOK
<1>faults. faults \in Nat
  BY DEF TypeOK
<1>heard. heard \subseteq Devices
  BY DEF TypeOK
<1>1. ASSUME NEW c \in Cmds, NEW t \in RequestTypes, NEW d \in Devices, NEW m \in Motions,
           RequestCommand(c, t, d, m)
    PROVE  TypeOK'
  <2>1. req' \in [Cmds -> Handler]
    BY <1>1, <1>req, ConstantsAssumption DEF RequestCommand, Handler, Stages, Types
  <2> QED
    BY <1>1, <2>1 DEF RequestCommand, TypeOK
<1>2. ASSUME NEW c \in Cmds, CheckDebounce(c) PROVE TypeOK'
  <2>1. req' \in [Cmds -> Handler]
    BY <1>2, <1>req DEF CheckDebounce, Handler, Stages, Goto
  <2> QED
    BY <1>2, <2>1 DEF CheckDebounce, TypeOK
<1>3. ASSUME NEW c \in Cmds, CreateCommand(c) PROVE TypeOK'
  <2>1. cmd' \in [Cmds -> Row]
    BY <1>3, <1>cmd, <1>req, <1>now, ConstantsAssumption DEF CreateCommand, Row, Statuses, OpenStatus, Handler
  <2>2. req' \in [Cmds -> Handler]
    BY <1>3, <1>req, ConstantsAssumption DEF CreateCommand, Handler, Stages, Goto
  <2>3. faults' \in Nat
    BY <1>3, <1>faults, ConstantsAssumption DEF CreateCommand, Fault
  <2> QED
    BY <1>3, <2>1, <2>2, <2>3 DEF CreateCommand, TypeOK
<1>4. ASSUME NEW c \in Cmds, DispatchDirect(c) PROVE TypeOK'
  <2>1. req' \in [Cmds -> Handler]
    BY <1>4, <1>req DEF DispatchDirect, Handler, Stages, Goto
  <2>2. air' \subseteq Downlinks
    BY <1>4, <1>air, <1>req DEF DispatchDirect, Downlink, Downlinks, Handler
  <2> QED
    BY <1>4, <2>1, <2>2 DEF DispatchDirect, TypeOK
<1>5. ASSUME NEW c \in Cmds, QueuePending(c) PROVE TypeOK'
  <2>1. req' \in [Cmds -> Handler]
    BY <1>5, <1>req, ConstantsAssumption DEF QueuePending, Handler, Stages, Goto
  <2>2. slot' \in [Devices -> QueuedCommand \cup {None}]
    BY <1>5, <1>slot, <1>req, <1>now, ConstantsAssumption DEF QueuePending, PendingEntry, QueuedCommand, Handler
  <2>3. faults' \in Nat
    BY <1>5, <1>faults, ConstantsAssumption DEF QueuePending, Fault
  <2> QED
    BY <1>5, <2>1, <2>2, <2>3 DEF QueuePending, TypeOK
<1>6. ASSUME NEW c \in Cmds, SendSms(c) PROVE TypeOK'
  <2>1. req' \in [Cmds -> Handler]
    BY <1>6, <1>req DEF SendSms, Handler, Stages, Goto
  <2>2. air' \subseteq Downlinks
    BY <1>6, <1>air, <1>req DEF SendSms, Downlink, Downlinks, Handler
  <2> QED
    BY <1>6, <2>1, <2>2 DEF SendSms, TypeOK
<1>7. ASSUME NEW c \in Cmds, RecordSms(c) PROVE TypeOK'
  <2>1. cmd' \in [Cmds -> Row]
    BY <1>7, <1>cmd DEF RecordSms, Row
  <2>2. req' \in [Cmds -> Handler]
    BY <1>7, <1>req DEF RecordSms, Handler, Stages, Goto
  <2>3. faults' \in Nat
    BY <1>7, <1>faults DEF RecordSms, Fault
  <2> QED
    BY <1>7, <2>1, <2>2, <2>3 DEF RecordSms, TypeOK
<1>8. ASSUME NEW c \in Cmds, MarkAcked(c) PROVE TypeOK'
  <2>1. cmd' \in [Cmds -> Row]
    BY <1>8, <1>cmd, <1>now, StatusUpdate DEF MarkAcked, Statuses, OpenStatus, Terminal
  <2>2. req' \in [Cmds -> Handler]
    BY <1>8, <1>req DEF MarkAcked, Handler, Stages, Goto
  <2>3. faults' \in Nat
    BY <1>8, <1>faults DEF MarkAcked, Fault
  <2> QED
    BY <1>8, <2>1, <2>2, <2>3 DEF MarkAcked, TypeOK
<1>9. ASSUME NEW c \in Cmds, PublishMqtt(c) PROVE TypeOK'
  <2>1. req' \in [Cmds -> Handler]
    BY <1>9, <1>req DEF PublishMqtt, Handler, Stages, Goto
  <2>2. air' \subseteq Downlinks
    BY <1>9, <1>air, <1>req DEF PublishMqtt, Downlink, Downlinks, Handler
  <2> QED
    BY <1>9, <2>1, <2>2 DEF PublishMqtt, TypeOK
<1>10. ASSUME NEW c \in Cmds, MarkSent(c) PROVE TypeOK'
  <2>1. cmd' \in [Cmds -> Row]
    BY <1>10, <1>cmd, StatusUpdate DEF MarkSent, Statuses, OpenStatus, Terminal
  <2>2. req' \in [Cmds -> Handler]
    BY <1>10, <1>req DEF MarkSent, Handler, Stages, Goto
  <2>3. faults' \in Nat
    BY <1>10, <1>faults DEF MarkSent, Fault
  <2> QED
    BY <1>10, <2>1, <2>2, <2>3 DEF MarkSent, TypeOK
<1>11. ASSUME NEW c \in Cmds, MarkLast(c) PROVE TypeOK'
  <2>1. cmd' \in [Cmds -> Row]
    BY <1>11, <1>cmd, StatusUpdate DEF MarkLast, Statuses, OpenStatus, Terminal
  <2>2. req' \in [Cmds -> Handler]
    BY <1>11, <1>req DEF MarkLast, Handler, Stages, Goto
  <2>3. faults' \in Nat
    BY <1>11, <1>faults DEF MarkLast, Fault
  <2> QED
    BY <1>11, <2>1, <2>2, <2>3 DEF MarkLast, TypeOK
<1>12. ASSUME NEW s \in Sockets, NEW d \in Devices, NEW k \in Replies,
           PacketArrives(s, d, k)
    PROVE  TypeOK'
  <2>1. sock' \in [Sockets -> Connection]
    BY <1>12, <1>sock, ConstantsAssumption DEF PacketArrives, Connection
  <2>2. heard' \subseteq Devices
    BY <1>12, <1>heard DEF PacketArrives
  <2> QED
    BY <1>12, <2>1, <2>2 DEF PacketArrives, TypeOK
<1>13. ASSUME NEW s \in Sockets, BindSocket(s) PROVE TypeOK'
  <2>1. active' \in [Devices -> Sockets \cup {Destroyed, None}]
    BY <1>13, <1>active, <1>sock DEF BindSocket, Connection
  <2>2. sock' \in [Sockets -> Connection]
    BY <1>13, <1>sock DEF BindSocket, Connection
  <2> QED
    BY <1>13, <2>1, <2>2 DEF BindSocket, TypeOK
<1>14. ASSUME NEW s \in Sockets, SocketCloses(s) PROVE TypeOK'
  <2>1. active' \in [Devices -> Sockets \cup {Destroyed, None}]
    BY <1>14, <1>active DEF SocketCloses
  <2>2. sock' \in [Sockets -> Connection]
    BY <1>14, <1>sock DEF SocketCloses, Connection
  <2>3. bridge' \in [Cmds -> BridgeCall]
    BY <1>14, <1>bridge DEF SocketCloses, BridgeCall
  <2> QED
    BY <1>14, <2>1, <2>2, <2>3 DEF SocketCloses, TypeOK
<1>15. ASSUME NEW s \in Sockets, FlushPending(s) PROVE TypeOK'
  <2>1. sock' \in [Sockets -> Connection]
    <3>1. sock[s] \in Connection
      BY <1>sock
    <3>2. CASE LiveSlot(sock[s].dev)
      <4>1. slot[sock[s].dev].cmd \in Cmds
        BY <3>1, <3>2, <1>slot DEF LiveSlot, Connection, QueuedCommand
      <4> DEFINE x == [sock[s] EXCEPT !.pc = "del", !.cmd = slot[sock[s].dev].cmd]
      <4>2. x \in Connection
        BY <3>1, <4>1 DEF Connection
      <4>3. sock' = [sock EXCEPT ![s] = x]
        BY <1>15, <3>2 DEF FlushPending
      <4> QED
        BY <1>sock, <4>2, <4>3
    <3>3. CASE ~LiveSlot(sock[s].dev)
      BY <1>15, <1>sock, <3>3 DEF FlushPending, Connection
    <3> QED
      BY <3>2, <3>3
  <2>2. air' \subseteq Downlinks
    BY <1>15, <1>air, <1>slot, <1>sock, ConstantsAssumption DEF FlushPending, LiveSlot, Downlink, Downlinks, Connection, QueuedCommand
  <2> QED
    BY <1>15, <2>1, <2>2 DEF FlushPending, TypeOK
<1>16. ASSUME NEW s \in Sockets, DeletePending(s) PROVE TypeOK'
  <2>1. slot' \in [Devices -> QueuedCommand \cup {None}]
    BY <1>16, <1>slot DEF DeletePending
  <2>2. sock' \in [Sockets -> Connection]
    BY <1>16, <1>sock DEF DeletePending, Connection
  <2>3. faults' \in Nat
    BY <1>16, <1>faults DEF DeletePending, Fault
  <2> QED
    BY <1>16, <2>1, <2>2, <2>3 DEF DeletePending, TypeOK
<1>17. ASSUME NEW s \in Sockets, MarkFlushed(s) PROVE TypeOK'
  <2>1. cmd' \in [Cmds -> Row]
    BY <1>17, <1>cmd, ConstantsAssumption DEF MarkFlushed, Row, Statuses, OpenStatus
  <2>2. sock' \in [Sockets -> Connection]
    BY <1>17, <1>sock, ConstantsAssumption DEF MarkFlushed, Connection
  <2>3. faults' \in Nat
    BY <1>17, <1>faults, ConstantsAssumption DEF MarkFlushed, Fault
  <2> QED
    BY <1>17, <2>1, <2>2, <2>3 DEF MarkFlushed, TypeOK
<1>18. ASSUME NEW s \in Sockets, FindAcked(s) PROVE TypeOK'
  <2>1. sock' \in [Sockets -> Connection]
    <3>1. sock[s] \in Connection
      BY <1>sock
    <3>2. \A c \in Cmds : [sock[s] EXCEPT !.pc = "ack", !.cmd = c] \in Connection
      BY <3>1 DEF Connection
    <3>3. [sock[s] EXCEPT !.pc = "idle", !.isAck = FALSE, !.cmd = None] \in Connection
      BY <3>1 DEF Connection
    <3>4. Latest(sock[s].dev) \subseteq Cmds
      BY DEF Latest, Created
    <3>5. \E x \in Connection : sock' = [sock EXCEPT ![s] = x]
      BY <1>18, <3>2, <3>3, <3>4 DEF FindAcked, Released
    <3> QED
      BY <3>5, <1>sock
  <2> QED
    BY <1>18, <2>1 DEF FindAcked, TypeOK
<1>19. ASSUME NEW s \in Sockets, MarkTcpAcked(s) PROVE TypeOK'
  <2>1. cmd' \in [Cmds -> Row]
    BY <1>19, <1>cmd, <1>now, StatusUpdate, ConstantsAssumption DEF MarkTcpAcked, Statuses, OpenStatus, Terminal
  <2>2. sock' \in [Sockets -> Connection]
    <3>1. sock' = Released(s)
      BY <1>19 DEF MarkTcpAcked
    <3> QED
      BY <3>1, <1>sock DEF Released, Connection
  <2>3. faults' \in Nat
    BY <1>19, <1>faults, ConstantsAssumption DEF MarkTcpAcked, Fault
  <2> QED
    BY <1>19, <2>1, <2>2, <2>3 DEF MarkTcpAcked, TypeOK
<1>20. ASSUME NEW d \in Devices, NEW c \in Cmds, NEW ok \in Outcomes, NEW k \in Skews,
           DeviceAcks(d, c, ok, now + k)
    PROVE  TypeOK'
  <2>1. ack' \in [Acks -> AckMessage]
    <3>1. now + k \in Nat
      BY <1>20, <1>now, ConstantsAssumption DEF DeviceAcks
    <3>2. [pc |-> "sent", ts |-> now + k] \in AckMessage
      BY <3>1 DEF AckMessage
    <3>3. ack' = [ack EXCEPT ![<<d, c, ok>>] = [pc |-> "sent", ts |-> now + k]]
      BY <1>20 DEF DeviceAcks
    <3> HIDE DEF AckMessage, Acks
    <3> QED
      BY <1>ack, <3>2, <3>3
  <2> QED
    BY <1>20, <2>1 DEF DeviceAcks, TypeOK
<1>21. ASSUME NEW c \in Cmds, BridgeMqtt(c) PROVE TypeOK'
  <2>1. bridge' \in [Cmds -> BridgeCall]
    <3>1. PICK m \in air : /\ active[m.dev] # None
                           /\ bridge' = [bridge EXCEPT ![c] = [pc |-> "write", sock |-> active[m.dev]]]
      BY <1>21 DEF BridgeMqtt
    <3>2. active[m.dev] \in Sockets \cup {Destroyed, None}
      BY <1>air, <1>active DEF Downlinks
    <3> QED
      BY <1>bridge, <3>1, <3>2 DEF BridgeCall
  <2> QED
    BY <1>21, <2>1 DEF BridgeMqtt, TypeOK
<1>28. ASSUME NEW c \in Cmds, BridgeWrite(c) PROVE TypeOK'
  <2>1. bridge' \in [Cmds -> BridgeCall]
    <3>1. bridge' = [bridge EXCEPT ![c] = [pc |-> "done", sock |-> None]]
      BY <1>28 DEF BridgeWrite
    <3> QED
      BY <1>bridge, <3>1 DEF BridgeCall
  <2>2. \/ UNCHANGED <<air, ack>>
        \/ \E m \in air :
             /\ air' \in {air, air \cup {Downlink("tcp", m.dev, m.type, c)}}
             /\ ack' = [ack EXCEPT ![<<m.dev, c, TRUE>>] = [pc |-> "sent", ts |-> now]]
    BY <1>28 DEF BridgeWrite
  <2>3. air' \subseteq Downlinks
    <3>1. ASSUME NEW m \in air PROVE Downlink("tcp", m.dev, m.type, c) \in Downlinks
      BY <1>air DEF Downlink, Downlinks
    <3>2. CASE UNCHANGED air
      BY <1>air, <3>2
    <3>3. ASSUME NEW m \in air,
                 air' \in {air, air \cup {Downlink("tcp", m.dev, m.type, c)}}
          PROVE  air' \subseteq Downlinks
      BY <1>air, <3>1, <3>3
    <3> QED
      BY <2>2, <3>2, <3>3
  <2>5. ack' \in [Acks -> AckMessage]
    <3>1. [pc |-> "sent", ts |-> now] \in AckMessage
      BY <1>now DEF AckMessage
    <3> HIDE DEF AckMessage, Acks
    <3> QED
      BY <1>ack, <2>2, <3>1
  <2>4. faults' \in Nat
    <3>1. UNCHANGED faults \/ Fault
      BY <1>28 DEF BridgeWrite
    <3> QED
      BY <1>faults, <3>1 DEF Fault
  <2> QED
    BY <1>28, <2>1, <2>3, <2>4, <2>5 DEF BridgeWrite, TypeOK
<1>22. ASSUME NEW d \in Devices, NEW c \in Cmds, NEW ok \in BOOLEAN, ReceiveAck(d, c, ok)
    PROVE  TypeOK'
  <2>1. ack' \in [Acks -> AckMessage]
    BY <1>22, <1>ack DEF ReceiveAck, AckMessage
  <2> QED
    BY <1>22, <2>1 DEF ReceiveAck, TypeOK
<1>23. ASSUME NEW d \in Devices, NEW c \in Cmds, NEW ok \in BOOLEAN, ApplyAck(d, c, ok)
    PROVE  TypeOK'
  <2>1. cmd' \in [Cmds -> Row]
    <3>1. ack[<<d, c, ok>>] \in AckMessage
      BY <1>ack DEF Acks
    <3>2. ack[<<d, c, ok>>].ts \in Nat
      BY <3>1 DEF AckMessage
    <3>3. \/ UNCHANGED cmd
          \/ \E st \in Terminal : SetStatus(c, st, ack[<<d, c, ok>>].ts)
      BY <1>23 DEF ApplyAck, Terminal
    <3> QED
      BY <3>2, <3>3, <1>cmd, StatusUpdate DEF Statuses
  <2>2. ack' \in [Acks -> AckMessage]
    BY <1>23, <1>ack DEF ApplyAck, AckMessage
  <2>3. faults' \in Nat
    BY <1>23, <1>faults DEF ApplyAck, Fault
  <2> QED
    BY <1>23, <2>1, <2>2, <2>3 DEF ApplyAck, TypeOK
<1>24. ASSUME NEW w \in Sweeps, SweepStart(w) PROVE TypeOK'
  <2>1. sweep' \in [Sweeps -> SweepTick]
    BY <1>24, <1>sweep, <1>now DEF SweepStart, Stale, Created, SweepTick
  <2> QED
    BY <1>24, <2>1 DEF SweepStart, TypeOK
<1>25. ASSUME NEW w \in Sweeps, NEW c \in Cmds, SweepNext(w, c) PROVE TypeOK'
  <2>1. air' \subseteq Downlinks
    BY <1>25, <1>air, <1>cmd DEF SweepNext, Downlink, Downlinks, Row
  <2>2. sweep' \in [Sweeps -> SweepTick]
    <3>1. sweep[w] \in SweepTick
      BY <1>sweep
    <3>2. /\ [sweep[w] EXCEPT !.pc = "ack", !.cmd = c] \in SweepTick
          /\ [sweep[w] EXCEPT !.pc = "expire", !.cmd = c] \in SweepTick
      BY <3>1 DEF SweepTick
    <3>3. \E x \in SweepTick : sweep' = [sweep EXCEPT ![w] = x]
      BY <1>25, <3>2 DEF SweepNext
    <3> QED
      BY <3>3, <1>sweep
  <2> QED
    BY <1>25, <2>1, <2>2 DEF SweepNext, TypeOK
<1>26. ASSUME NEW w \in Sweeps, SweepAck(w) PROVE TypeOK'
  <2>1. cmd' \in [Cmds -> Row]
    <3>1. sweep[w].at \in Nat
      BY <1>sweep DEF SweepTick
    <3>2. \A c \in Cmds : [cmd[c] EXCEPT !.status = "ACKED", !.sms = TRUE,
                                        !.ackedAt = sweep[w].at] \in Row
      BY <3>1, <1>cmd DEF Row, Statuses, Terminal
    <3> QED
      BY <1>26, <3>2, <1>cmd DEF SweepAck
  <2>2. sweep' \in [Sweeps -> SweepTick]
    <3>1. sweep[w] \in SweepTick
      BY <1>sweep
    <3> DEFINE rest == sweep[w].batch \ {sweep[w].cmd}
    <3>2. rest \in SUBSET Cmds /\ NoTick \in SweepTick
      BY <3>1 DEF SweepTick, NoTick
    <3>3. [sweep[w] EXCEPT !.pc = "loop", !.batch = rest, !.cmd = None] \in SweepTick
      BY <3>1, <3>2 DEF SweepTick
    <3>4. [sweep[w] EXCEPT !.pc = "expire"] \in SweepTick
      BY <3>1 DEF SweepTick
    <3> HIDE DEF rest
    <3>5. \E x \in SweepTick : sweep' = [sweep EXCEPT ![w] = x]
      BY <1>26, <3>2, <3>3, <3>4 DEF SweepAck, Advance, rest
    <3> QED
      BY <3>5, <1>sweep
  <2>3. faults' \in Nat
    BY <1>26, <1>faults, ConstantsAssumption DEF SweepAck, Fault
  <2> QED
    BY <1>26, <2>1, <2>2, <2>3 DEF SweepAck, TypeOK
<1>27. ASSUME NEW w \in Sweeps, SweepExpire(w) PROVE TypeOK'
  <2>1. cmd' \in [Cmds -> Row]
    BY <1>27, <1>cmd, ConstantsAssumption DEF SweepExpire, Row, Statuses, Terminal
  <2>2. sweep' \in [Sweeps -> SweepTick]
    <3>1. sweep[w] \in SweepTick
      BY <1>sweep
    <3> DEFINE rest == sweep[w].batch \ {sweep[w].cmd}
    <3>2. rest \in SUBSET Cmds /\ NoTick \in SweepTick
      BY <3>1 DEF SweepTick, NoTick
    <3>3. [sweep[w] EXCEPT !.pc = "loop", !.batch = rest, !.cmd = None] \in SweepTick
      BY <3>1, <3>2 DEF SweepTick
    <3>4. NoTick \in SweepTick
      BY <3>2
    <3> HIDE DEF rest
    <3>5. \E x \in SweepTick : sweep' = [sweep EXCEPT ![w] = x]
      BY <1>27, <3>2, <3>3, <3>4 DEF SweepExpire, Advance, rest
    <3> QED
      BY <3>5, <1>sweep
  <2>3. faults' \in Nat
    BY <1>27, <1>faults, ConstantsAssumption DEF SweepExpire, Fault
  <2> QED
    BY <1>27, <2>1, <2>2, <2>3 DEF SweepExpire, TypeOK
<1>29. CASE Tick
  <2>1. now' \in Nat
    BY <1>29, <1>now DEF Tick
  <2> QED
    BY <1>29, <2>1 DEF Tick, TypeOK
<1>30. CASE Crash
  <2>1. req' \in [Cmds -> Handler]
    BY <1>30, <1>req DEF Crash, Handler, Stages
  <2>2. active' \in [Devices -> Sockets \cup {Destroyed, None}]
    BY <1>30, <1>active DEF Crash
  <2>3. sock' \in [Sockets -> Connection]
    BY <1>30, <1>sock DEF Crash, Connection
  <2>4. ack' \in [Acks -> AckMessage]
    BY <1>30, <1>ack DEF Crash, AckMessage
  <2>5. sweep' \in [Sweeps -> SweepTick]
    BY <1>30, <1>sweep DEF Crash, NoTick, SweepTick
  <2>7. bridge' \in [Cmds -> BridgeCall]
    BY <1>30, <1>bridge DEF Crash, BridgeCall
  <2>6. faults' \in Nat
    <3>1. Fault
      BY <1>30 DEF Crash
    <3> QED
      BY <3>1, <1>faults DEF Fault
  <2> QED
    BY <1>30, <2>1, <2>2, <2>3, <2>4, <2>5, <2>6, <2>7 DEF Crash, TypeOK
<1>31. CASE UNCHANGED vars
  BY <1>31 DEF vars, TypeOK
<1> QED
  BY <1>1, <1>2, <1>3, <1>4, <1>5, <1>6, <1>7, <1>8, <1>9, <1>10, <1>11,
     <1>12, <1>13, <1>14, <1>15, <1>16, <1>17, <1>18, <1>19, <1>20, <1>21,
     <1>22, <1>23, <1>24, <1>25, <1>26, <1>27, <1>28, <1>29, <1>30, <1>31
  DEF Next, RequestStep, PacketStep, SweepStep

\* Every action of DeviceCommands keeps the rows, handlers, slots, sockets and
\* messages within their types.
THEOREM TypeCorrect == Spec => []TypeOK
<1>1. Init => TypeOK
  <2> SUFFICES ASSUME Init PROVE TypeOK
    OBVIOUS
  <2>1. AnyDevice \in Devices
    BY ConstantsAssumption DEF AnyDevice
  <2> QED
    BY <2>1, ConstantsAssumption DEF Init, TypeOK, Row, Statuses, Types, Stages, NoTick,
       Handler, Connection, AckMessage, BridgeCall, SweepTick
<1>2. TypeOK /\ [Next]_vars => TypeOK'
  BY TypeStep
<1> QED
  BY <1>1, <1>2, PTL DEF Spec

-----------------------------------------------------------------------------
(* Which actions touch which variables. *)

\* Only these actions write a row.
LEMMA CmdChange ==
  ASSUME [Next]_vars
  PROVE  \/ UNCHANGED cmd
         \/ \E c \in Cmds : \/ CreateCommand(c) \/ RecordSms(c) \/ MarkAcked(c)
                            \/ MarkSent(c) \/ MarkLast(c)
         \/ \E s \in Sockets : MarkFlushed(s) \/ MarkTcpAcked(s)
         \/ \E d \in Devices, c \in Cmds, ok \in BOOLEAN : ApplyAck(d, c, ok)
         \/ \E w \in Sweeps : SweepAck(w) \/ SweepExpire(w)
  BY DEF Next, vars, RequestStep, PacketStep, SweepStep, RequestCommand, CheckDebounce,
     DispatchDirect, QueuePending, SendSms, PublishMqtt, PacketArrives, BindSocket,
     SocketCloses, FlushPending, DeletePending, FindAcked, DeviceAcks, BridgeMqtt, BridgeWrite,
     ReceiveAck, SweepStart, SweepNext, Tick, Crash

\* Only the request handler's own steps and a crash move a request handler.
LEMMA ReqChange ==
  ASSUME [Next]_vars
  PROVE  \/ UNCHANGED req
         \/ \E c \in Cmds : \/ \E t \in RequestTypes, d \in Devices, m \in Motions :
                                 RequestCommand(c, t, d, m)
                            \/ RequestStep(c)
         \/ Crash
  BY DEF Next, vars, PacketStep, SweepStep, PacketArrives, BindSocket, SocketCloses,
     FlushPending, DeletePending, MarkFlushed, FindAcked, MarkTcpAcked, DeviceAcks,
     BridgeMqtt, BridgeWrite, ReceiveAck, ApplyAck, SweepStart, SweepNext, SweepAck, SweepExpire,
     Tick

\* Only packets, closes, the packet handler and a crash touch a socket.
LEMMA SockChange ==
  ASSUME [Next]_vars
  PROVE  \/ UNCHANGED sock
         \/ \E s \in Sockets : \/ \E d \in Devices, k \in Replies : PacketArrives(s, d, k)
                               \/ SocketCloses(s)
                               \/ PacketStep(s)
         \/ Crash
  BY DEF Next, vars, RequestStep, SweepStep, RequestCommand, CheckDebounce, CreateCommand,
     DispatchDirect, QueuePending, SendSms, RecordSms, MarkAcked, PublishMqtt, MarkSent,
     MarkLast, DeviceAcks, BridgeMqtt, BridgeWrite, ReceiveAck, ApplyAck, SweepStart, SweepNext,
     SweepAck, SweepExpire, Tick

\* Only devices, the MQTT bridge, the acknowledgement handler and a crash
\* touch an acknowledgement.
LEMMA AckChange ==
  ASSUME [Next]_vars
  PROVE  \/ UNCHANGED ack
         \/ \E d \in Devices, c \in Cmds :
              \/ \E ok \in Outcomes, k \in Skews : DeviceAcks(d, c, ok, now + k)
              \/ \E ok \in BOOLEAN : ReceiveAck(d, c, ok) \/ ApplyAck(d, c, ok)
         \/ \E c \in Cmds : BridgeWrite(c)
         \/ Crash
  BY DEF Next, vars, RequestStep, PacketStep, SweepStep, RequestCommand, CheckDebounce,
     CreateCommand, DispatchDirect, QueuePending, SendSms, RecordSms, MarkAcked,
     PublishMqtt, MarkSent, MarkLast, PacketArrives, BindSocket, SocketCloses,
     FlushPending, DeletePending, MarkFlushed, FindAcked, MarkTcpAcked, BridgeMqtt,
     SweepStart, SweepNext, SweepAck, SweepExpire, Tick

\* Only the sweeper and a crash touch a sweeper tick.
LEMMA SweepChange ==
  ASSUME [Next]_vars
  PROVE  UNCHANGED sweep \/ (\E w \in Sweeps : SweepStep(w)) \/ Crash
  BY DEF Next, vars, RequestStep, PacketStep, RequestCommand, CheckDebounce,
     CreateCommand, DispatchDirect, QueuePending, SendSms, RecordSms, MarkAcked,
     PublishMqtt, MarkSent, MarkLast, PacketArrives, BindSocket, SocketCloses,
     FlushPending, DeletePending, MarkFlushed, FindAcked, MarkTcpAcked, DeviceAcks,
     BridgeMqtt, BridgeWrite, ReceiveAck, ApplyAck, Tick

\* Only these actions send a downlink.
LEMMA AirChange ==
  ASSUME [Next]_vars
  PROVE  \/ UNCHANGED air
         \/ \E c \in Cmds : DispatchDirect(c) \/ SendSms(c) \/ PublishMqtt(c)
         \/ \E s \in Sockets : FlushPending(s)
         \/ \E c \in Cmds : BridgeWrite(c)
         \/ \E w \in Sweeps, c \in Cmds : SweepNext(w, c)
  BY DEF Next, vars, RequestStep, PacketStep, SweepStep, RequestCommand, CheckDebounce,
     CreateCommand, QueuePending, RecordSms, MarkAcked, MarkSent, MarkLast,
     PacketArrives, BindSocket, SocketCloses, DeletePending, MarkFlushed, FindAcked,
     MarkTcpAcked, DeviceAcks, BridgeMqtt, ReceiveAck, ApplyAck, SweepStart, SweepAck,
     SweepExpire, Tick, Crash

\* Only queueing and the flush write the Redis slot.
LEMMA SlotChange ==
  ASSUME [Next]_vars
  PROVE  \/ UNCHANGED slot
         \/ \E c \in Cmds : QueuePending(c)
         \/ \E s \in Sockets : DeletePending(s)
  BY DEF Next, vars, RequestStep, PacketStep, SweepStep, RequestCommand, CheckDebounce,
     CreateCommand, DispatchDirect, SendSms, RecordSms, MarkAcked, PublishMqtt,
     MarkSent, MarkLast, PacketArrives, BindSocket, SocketCloses, FlushPending,
     MarkFlushed, FindAcked, MarkTcpAcked, DeviceAcks, BridgeMqtt, BridgeWrite, ReceiveAck, ApplyAck,
     SweepStart, SweepNext, SweepAck, SweepExpire, Tick, Crash

\* Only the clock changes the time.
LEMMA NowChange ==
  ASSUME [Next]_vars
  PROVE  UNCHANGED now \/ Tick
  BY DEF Next, vars, RequestStep, PacketStep, SweepStep, RequestCommand, CheckDebounce,
     CreateCommand, DispatchDirect, QueuePending, SendSms, RecordSms, MarkAcked,
     PublishMqtt, MarkSent, MarkLast, PacketArrives, BindSocket, SocketCloses,
     FlushPending, DeletePending, MarkFlushed, FindAcked, MarkTcpAcked, DeviceAcks,
     BridgeMqtt, BridgeWrite, ReceiveAck, ApplyAck, SweepStart, SweepNext, SweepAck, SweepExpire,
     Crash

\* Only a packet that arrives is heard.
LEMMA HeardChange ==
  ASSUME [Next]_vars
  PROVE  \/ UNCHANGED heard
         \/ \E s \in Sockets, d \in Devices, k \in Replies : PacketArrives(s, d, k)
  BY DEF Next, vars, RequestStep, PacketStep, SweepStep, RequestCommand, CheckDebounce,
     CreateCommand, DispatchDirect, QueuePending, SendSms, RecordSms, MarkAcked,
     PublishMqtt, MarkSent, MarkLast, BindSocket, SocketCloses, FlushPending,
     DeletePending, MarkFlushed, FindAcked, MarkTcpAcked, DeviceAcks, BridgeMqtt,
     BridgeWrite, ReceiveAck, ApplyAck, SweepStart, SweepNext, SweepAck, SweepExpire,
     Tick, Crash

-----------------------------------------------------------------------------
(* What no step undoes. *)

\* Downlinks are never unsent, the clock never goes back, a reply stays heard
\* and an answer that was sent stays known.
LEMMA Monotone ==
  ASSUME TypeOK, [Next]_vars
  PROVE  /\ air \subseteq air'
         /\ now \in Nat /\ now' \in Nat /\ now <= now'
         /\ heard \subseteq heard'
         /\ \A p \in Acks : ack[p].pc # "none" => ack'[p].pc # "none"
<1>1. air \subseteq air'
  BY AirChange DEF DispatchDirect, SendSms, PublishMqtt, FlushPending, BridgeWrite, SweepNext
<1>2. now \in Nat /\ now' \in Nat /\ now <= now'
  BY NowChange DEF TypeOK, Tick
<1>4. heard \subseteq heard'
  BY HeardChange DEF PacketArrives
<1>3. ASSUME NEW p \in Acks, ack[p].pc # "none" PROVE ack'[p].pc # "none"
  <2>1. ack \in [Acks -> AckMessage] /\ ack[p] \in AckMessage
    BY DEF TypeOK
  <2>2. ASSUME NEW q \in Acks, NEW a, a.pc # "none", ack' = [ack EXCEPT ![q] = a]
        PROVE  ack'[p].pc # "none"
    BY <1>3, <2>1, <2>2
  <2>3. ASSUME NEW e \in Devices, NEW b \in Cmds, NEW ok \in Outcomes, NEW k \in Skews,
               DeviceAcks(e, b, ok, now + k)
        PROVE  ack'[p].pc # "none"
    <3>1. <<e, b, ok>> \in Acks
      BY ConstantsAssumption DEF Acks
    <3>2. ack' = [ack EXCEPT ![<<e, b, ok>>] = [pc |-> "sent", ts |-> now + k]]
      BY <2>3 DEF DeviceAcks
    <3> QED
      BY <1>3, <2>1, <3>2
  <2>4. ASSUME NEW b \in Cmds, BridgeWrite(b) PROVE ack'[p].pc # "none"
    <3>1. CASE UNCHANGED ack
      BY <1>3, <3>1
    <3>2. ASSUME NEW m \in air, ack' = [ack EXCEPT ![<<m.dev, b, TRUE>>] = [pc |-> "sent", ts |-> now]]
          PROVE  ack'[p].pc # "none"
      BY <1>3, <2>1, <3>2
    <3> QED
      BY <2>4, <3>1, <3>2 DEF BridgeWrite
  <2>5. ASSUME NEW e \in Devices, NEW b \in Cmds, NEW ok \in BOOLEAN, ReceiveAck(e, b, ok)
        PROVE  ack'[p].pc # "none"
    <3>1. <<e, b, ok>> \in Acks /\ ack[<<e, b, ok>>] \in AckMessage
      BY <2>1 DEF Acks
    <3>2. [ack[<<e, b, ok>>] EXCEPT !.pc = "apply"].pc = "apply"
      BY <3>1 DEF AckMessage
    <3>3. \/ ack' = [ack EXCEPT ![<<e, b, ok>>] = [ack[<<e, b, ok>>] EXCEPT !.pc = "apply"]]
          \/ ack' = [ack EXCEPT ![<<e, b, ok>>] = [pc |-> "done", ts |-> 0]]
      BY <2>5 DEF ReceiveAck
    <3>4. CASE ack' = [ack EXCEPT ![<<e, b, ok>>] = [ack[<<e, b, ok>>] EXCEPT !.pc = "apply"]]
      <4> DEFINE a == [ack[<<e, b, ok>>] EXCEPT !.pc = "apply"]
      <4>1. a.pc # "none" /\ ack' = [ack EXCEPT ![<<e, b, ok>>] = a]
        BY <3>2, <3>4
      <4> HIDE DEF a
      <4> QED
        BY <1>3, <2>1, <4>1
    <3>5. CASE ack' = [ack EXCEPT ![<<e, b, ok>>] = [pc |-> "done", ts |-> 0]]
      BY <1>3, <2>1, <3>5
    <3> QED
      BY <3>3, <3>4, <3>5
  <2>6. ASSUME NEW e \in Devices, NEW b \in Cmds, NEW ok \in BOOLEAN, ApplyAck(e, b, ok)
        PROVE  ack'[p].pc # "none"
    <3>1. <<e, b, ok>> \in Acks
      BY DEF Acks
    <3> QED
      BY <2>2, <2>6, <3>1 DEF ApplyAck
  <2>7. CASE Crash
    <3>1. ack'[p].pc = IF ack[p].pc = "apply" THEN "done" ELSE ack[p].pc
      BY <2>1, <2>7 DEF Crash, AckMessage
    <3> QED
      BY <1>3, <3>1
  <2> QED
    BY <1>3, <2>3, <2>4, <2>5, <2>6, <2>7, AckChange
<1> QED
  BY <1>1, <1>2, <1>3, <1>4

-----------------------------------------------------------------------------
(* What a step may do to a row. *)

\* Row c, which existed, now has this status and acknowledgement time; what it
\* was created with and all other rows are as before.
Wrote(c, st, a) ==
    /\ c \in Created /\ st # "NONE"
    /\ cmd' \in [Cmds -> Row]
    /\ cmd'[c].status = st /\ cmd'[c].ackedAt = a
    /\ cmd'[c].dev = cmd[c].dev
    /\ cmd'[c].type = cmd[c].type
    /\ cmd'[c].createdAt = cmd[c].createdAt
    /\ \A x \in Cmds \ {c} : cmd'[x] = cmd[x]

\* Why row c may be given that status.
Justified(c, st, a) ==
    LET d == cmd[c].dev
    IN  \/ st \in OpenStatus
        \/ st = cmd[c].status /\ a = cmd[c].ackedAt
        \/ st = "ACKED" /\ (SmsSent(c) \/ d \in heard \/ ack'[<<d, c, TRUE>>].pc # "none")
        \/ st = "FAILED" /\ ack'[<<d, c, FALSE>>].pc # "none"
        \/ st = "EXPIRED" /\ (now > ExpiresAt(c) \/ (a # None /\ a > ExpiresAt(c)))

\* A status update by id writes one row and nothing it was created with.
LEMMA SetStatusWrites ==
  ASSUME TypeOK, NEW c \in Created, NEW st \in OpenStatus \cup Terminal,
         NEW a \in Nat \cup {None}, SetStatus(c, st, a)
  PROVE  Wrote(c, st, a)
<1>1. cmd \in [Cmds -> Row] /\ c \in Cmds
  BY DEF TypeOK, Created
<1>2. cmd' \in [Cmds -> Row]
  BY <1>1, StatusUpdate DEF Statuses
<1>3. cmd[c] \in Row
  BY <1>1
<1>4. cmd'[c] = [cmd[c] EXCEPT !.status = st, !.ackedAt = a]
  BY <1>1 DEF SetStatus
<1>5. \A x \in Cmds \ {c} : cmd'[x] = cmd[x]
  BY <1>1 DEF SetStatus
<1>6. st # "NONE"
  BY DEF OpenStatus, Terminal
<1> QED
  BY <1>2, <1>3, <1>4, <1>5, <1>6 DEF Wrote, Row

\* A step leaves the rows alone, inserts one, or writes one with good reason.
LEMMA RowEffect ==
  ASSUME IndInv, [Next]_vars
  PROVE  \/ UNCHANGED cmd
         \/ \E c \in Cmds : CreateCommand(c)
         \/ \E c \in Cmds, st \in Statuses, a \in Nat \cup {None} :
              Wrote(c, st, a) /\ Justified(c, st, a)
<1> DEFINE Effect == \E c \in Cmds, st \in Statuses, a \in Nat \cup {None} :
                       Wrote(c, st, a) /\ Justified(c, st, a)
<1>t. TypeOK
  BY DEF IndInv
<1>s. OpenStatus \cup Terminal \subseteq Statuses /\ Created \subseteq Cmds
  BY DEF Statuses, Created
<1>n. now \in Nat
  BY <1>t DEF TypeOK
<1>1. ASSUME NEW c \in Cmds, RecordSms(c) PROVE UNCHANGED cmd \/ Effect
  <2>1. cmd \in [Cmds -> Row] /\ cmd' \in [Cmds -> Row]
    BY <1>1, <1>t, TypeStep DEF TypeOK
  <2>2. c \in Created
    BY <1>1 DEF IndInv, HandlersMatchRows, RecordSms
  <2>3. CASE cmd' = [cmd EXCEPT ![c].sms = TRUE]
    <3>1. cmd[c] \in Row /\ cmd'[c] = [cmd[c] EXCEPT !.sms = TRUE]
      BY <2>1, <2>3
    <3>2. cmd[c].status \in Statuses /\ cmd[c].ackedAt \in Nat \cup {None}
      BY <3>1 DEF Row
    <3>3. Wrote(c, cmd[c].status, cmd[c].ackedAt)
      BY <2>1, <2>2, <2>3, <3>1 DEF Wrote, Row, Created
    <3> QED
      BY <3>2, <3>3 DEF Justified
  <2> QED
    BY <1>1, <2>3 DEF RecordSms
<1>2. ASSUME NEW c \in Cmds, MarkAcked(c) PROVE UNCHANGED cmd \/ Effect
  <2>1. c \in Created /\ SmsSent(c)
    BY <1>2 DEF IndInv, HandlersMatchRows, MarkAcked
  <2>2. CASE SetStatus(c, "ACKED", now)
    <3>1. Wrote(c, "ACKED", now)
      BY <1>t, <1>n, <2>1, <2>2, SetStatusWrites DEF Terminal
    <3> QED
      BY <1>s, <1>n, <2>1, <3>1 DEF Justified, Terminal
  <2> QED
    BY <1>2, <2>2 DEF MarkAcked
<1>3. ASSUME NEW c \in Cmds, MarkSent(c) \/ MarkLast(c) PROVE UNCHANGED cmd \/ Effect
  <2>1. c \in Created
    BY <1>3 DEF IndInv, HandlersMatchRows, MarkSent, MarkLast
  <2>2. CASE SetStatus(c, "SENT", None)
    <3>1. Wrote(c, "SENT", None)
      BY <1>t, <2>1, <2>2, SetStatusWrites DEF OpenStatus
    <3> QED
      BY <1>s, <2>1, <3>1 DEF Justified, OpenStatus
  <2> QED
    BY <1>3, <2>2 DEF MarkSent, MarkLast
<1>4. ASSUME NEW s \in Sockets, MarkFlushed(s) PROVE UNCHANGED cmd \/ Effect
  <2> DEFINE c == sock[s].cmd
  <2>1. cmd \in [Cmds -> Row] /\ cmd' \in [Cmds -> Row]
    BY <1>4, <1>t, TypeStep DEF TypeOK
  <2>2. c \in Created /\ c \in Cmds
    BY <1>4, <1>s DEF IndInv, ConnectionsMatchRows, MarkFlushed
  <2>3. CASE cmd' = [cmd EXCEPT ![c].status = "SENT"]
    <3>1. cmd[c] \in Row /\ cmd'[c] = [cmd[c] EXCEPT !.status = "SENT"]
      BY <2>1, <2>2, <2>3
    <3>2. "SENT" \in Statuses /\ cmd[c].ackedAt \in Nat \cup {None}
      BY <3>1 DEF Row, Statuses, OpenStatus
    <3>3. Wrote(c, "SENT", cmd[c].ackedAt)
      BY <2>1, <2>2, <2>3, <3>1 DEF Wrote, Row
    <3> QED
      BY <2>2, <3>2, <3>3 DEF Justified, OpenStatus
  <2> QED
    BY <1>4, <2>3 DEF MarkFlushed
<1>5. ASSUME NEW s \in Sockets, MarkTcpAcked(s) PROVE UNCHANGED cmd \/ Effect
  <2> DEFINE c == sock[s].cmd
  <2>1. c \in Created /\ c \in Cmds /\ cmd[c].dev \in heard
    BY <1>5, <1>s DEF IndInv, ConnectionsMatchRows, MarkTcpAcked
  <2>2. CASE SetStatus(c, "ACKED", now)
    <3>1. Wrote(c, "ACKED", now)
      BY <1>t, <1>n, <2>1, <2>2, SetStatusWrites DEF Terminal
    <3> QED
      BY <1>s, <1>n, <2>1, <3>1 DEF Justified, Terminal
  <2> QED
    BY <1>5, <2>2 DEF MarkTcpAcked
<1>6. ASSUME NEW d \in Devices, NEW c \in Cmds, NEW ok \in BOOLEAN, ApplyAck(d, c, ok)
      PROVE  UNCHANGED cmd \/ Effect
  <2> DEFINE m == ack[<<d, c, ok>>]
  <2>0. <<d, c, ok>> \in Acks
    BY DEF Acks
  <2>1. m \in AckMessage /\ m.ts \in Nat
    BY <1>t, <2>0 DEF TypeOK, AckMessage
  <2>2. c \in Created /\ cmd[c].dev = d
    BY <1>6 DEF IndInv, AcksMatchRows, ApplyAck
  <2>3. ack'[<<d, c, ok>>].pc = "done"
    BY <1>6, <1>t, <2>0 DEF ApplyAck, TypeOK
  <2>4. CASE m.ts > ExpiresAt(c) /\ SetStatus(c, "EXPIRED", m.ts)
    <3>1. Wrote(c, "EXPIRED", m.ts)
      BY <1>t, <2>1, <2>2, <2>4, SetStatusWrites DEF Terminal
    <3>2. m.ts # None
      BY <2>1, ConstantsAssumption
    <3> QED
      BY <1>s, <2>1, <2>4, <3>1, <3>2 DEF Justified, Terminal
  <2>5. CASE ok /\ SetStatus(c, "ACKED", m.ts)
    <3>1. Wrote(c, "ACKED", m.ts)
      BY <1>t, <2>1, <2>2, <2>5, SetStatusWrites DEF Terminal
    <3>2. ack'[<<d, c, TRUE>>].pc # "none"
      BY <2>3, <2>5
    <3>3. Justified(c, "ACKED", m.ts)
      BY <2>2, <3>2 DEF Justified
    <3> QED
      BY <1>s, <2>1, <3>1, <3>3 DEF Terminal
  <2>6. CASE ~ok /\ SetStatus(c, "FAILED", m.ts)
    <3>1. Wrote(c, "FAILED", m.ts)
      BY <1>t, <2>1, <2>2, <2>6, SetStatusWrites DEF Terminal
    <3>2. ack'[<<d, c, FALSE>>].pc # "none"
      BY <2>3, <2>6
    <3>3. Justified(c, "FAILED", m.ts)
      BY <2>2, <3>2 DEF Justified
    <3> QED
      BY <1>s, <2>1, <3>1, <3>3 DEF Terminal
  <2> QED
    BY <1>6, <2>4, <2>5, <2>6 DEF ApplyAck
<1>7. ASSUME NEW w \in Sweeps, SweepAck(w) PROVE UNCHANGED cmd \/ Effect
  <2> DEFINE c == sweep[w].cmd
  <2>1. cmd \in [Cmds -> Row] /\ cmd' \in [Cmds -> Row]
    BY <1>7, <1>t, TypeStep DEF TypeOK
  <2>2. c \in Created /\ c \in Cmds /\ SmsSent(c)
    BY <1>7, <1>s DEF IndInv, SweepsMatchRows, SweepAck
  <2>3. sweep[w].at \in Nat
    BY <1>t DEF TypeOK, SweepTick
  <2>4. CASE cmd' = [cmd EXCEPT ![c] = [@ EXCEPT !.status = "ACKED", !.sms = TRUE,
                                                  !.ackedAt = sweep[w].at]]
    <3>1. cmd[c] \in Row
      BY <2>1, <2>2
    <3>2. cmd'[c] = [cmd[c] EXCEPT !.status = "ACKED", !.sms = TRUE, !.ackedAt = sweep[w].at]
      BY <2>1, <2>2, <2>4
    <3>3. \A x \in Cmds \ {c} : cmd'[x] = cmd[x]
      BY <2>1, <2>2, <2>4
    <3>4. Wrote(c, "ACKED", sweep[w].at)
      BY <2>1, <2>2, <3>1, <3>2, <3>3 DEF Wrote, Row
    <3> QED
      BY <1>s, <2>2, <2>3, <3>4 DEF Justified, Terminal
  <2> QED
    BY <1>7, <2>4 DEF SweepAck
<1>8. ASSUME NEW w \in Sweeps, SweepExpire(w) PROVE UNCHANGED cmd \/ Effect
  <2> DEFINE c == sweep[w].cmd
  <2>1. cmd \in [Cmds -> Row] /\ cmd' \in [Cmds -> Row]
    BY <1>8, <1>t, TypeStep DEF TypeOK
  <2>2. c \in Created /\ c \in Cmds /\ ExpiresAt(c) < now
    BY <1>8, <1>s DEF IndInv, SweepsMatchRows, SweepExpire
  <2>3. CASE cmd' = [cmd EXCEPT ![c].status = "EXPIRED"]
    <3>1. cmd[c] \in Row /\ cmd'[c] = [cmd[c] EXCEPT !.status = "EXPIRED"]
      BY <2>1, <2>2, <2>3
    <3>2. cmd[c].ackedAt \in Nat \cup {None}
      BY <3>1 DEF Row
    <3>3. Wrote(c, "EXPIRED", cmd[c].ackedAt)
      BY <2>1, <2>2, <2>3, <3>1 DEF Wrote, Row
    <3>4. now > ExpiresAt(c)
      BY <1>n, <2>2, <3>1, ConstantsAssumption DEF ExpiresAt, Row
    <3> QED
      BY <1>s, <2>2, <3>2, <3>3, <3>4 DEF Justified, Terminal
  <2> QED
    BY <1>8, <2>3 DEF SweepExpire
<1> QED
  BY <1>1, <1>2, <1>3, <1>4, <1>5, <1>6, <1>7, <1>8, CmdChange

\* Rows stay, with the device, type and deadline they were created with, and a
\* row appears only through CreateCommand.
LEMMA RowsKept ==
  ASSUME IndInv, [Next]_vars
  PROVE  /\ \A c \in Created : /\ c \in Cmds /\ cmd'[c].status # "NONE"
                               /\ cmd'[c].dev = cmd[c].dev
                               /\ cmd'[c].type = cmd[c].type
                               /\ cmd'[c].createdAt = cmd[c].createdAt
         /\ \A c \in Created' : c \in Created \/ CreateCommand(c)
<1>1. CASE UNCHANGED cmd
  BY <1>1 DEF Created
<1>2. ASSUME NEW b \in Cmds, CreateCommand(b)
      PROVE  /\ \A c \in Created : c # b /\ cmd'[c] = cmd[c]
             /\ \A c \in Created' : c \in Created \/ c = b
  BY <1>2 DEF IndInv, TypeOK, HandlersMatchRows, CreateCommand, Created
<1>3. ASSUME NEW b \in Cmds, NEW st \in Statuses, NEW a \in Nat \cup {None}, Wrote(b, st, a)
      PROVE  /\ \A c \in Created : /\ c \in Cmds /\ cmd'[c].status # "NONE"
                                   /\ cmd'[c].dev = cmd[c].dev
                                   /\ cmd'[c].type = cmd[c].type
                                   /\ cmd'[c].createdAt = cmd[c].createdAt
             /\ \A c \in Created' : c \in Created
  BY <1>3 DEF Wrote, Created
<1> QED
  BY <1>1, <1>2, <1>3, RowEffect DEF Created

\* Evidence is never lost.
LEMMA EvidenceKept ==
  ASSUME TypeOK, [Next]_vars
  PROVE  \A c \in Cmds : SmsSent(c) => SmsSent(c)'
  BY Monotone DEF SmsSent

\* No step expires a command early.
LEMMA ExpiryStep ==
  ASSUME IndInv, [Next]_vars
  PROVE  ExpiryJustified'
<1> SUFFICES ASSUME NEW c \in Cmds, cmd'[c].status = "EXPIRED"
             PROVE  \/ now' > ExpiresAt(c)'
                    \/ cmd'[c].ackedAt # None /\ cmd'[c].ackedAt > ExpiresAt(c)'
  BY DEF ExpiryJustified
<1> DEFINE Goal == \/ now' > ExpiresAt(c)'
                   \/ cmd'[c].ackedAt # None /\ cmd'[c].ackedAt > ExpiresAt(c)'
<1>t. TypeOK /\ TypeOK'
  BY TypeStep DEF IndInv
<1>n. now \in Nat /\ now' \in Nat /\ now <= now'
  BY <1>t, Monotone
<1>1. ASSUME cmd'[c] = cmd[c] PROVE  Goal
  <2>1. ExpiresAt(c)' = ExpiresAt(c)
    BY <1>1 DEF ExpiresAt
  <2>2. cmd[c] \in Row
    BY <1>t DEF TypeOK
  <2>3. ExpiresAt(c) \in Nat
    BY <2>2, ConstantsAssumption DEF ExpiresAt, Row
  <2>4. \/ now > ExpiresAt(c)
        \/ cmd[c].ackedAt # None /\ cmd[c].ackedAt > ExpiresAt(c)
    BY <1>1 DEF IndInv, ExpiryJustified
  <2>5. CASE now > ExpiresAt(c)
    BY <1>n, <2>1, <2>3, <2>5
  <2>6. CASE cmd[c].ackedAt # None /\ cmd[c].ackedAt > ExpiresAt(c)
    BY <1>1, <2>1, <2>6, Zenon
  <2> QED
    BY <2>4, <2>5, <2>6
<1>2. ASSUME NEW b \in Cmds, CreateCommand(b) PROVE cmd'[c] = cmd[c]
  BY <1>2, <1>t DEF CreateCommand, TypeOK
<1>3. ASSUME NEW b \in Cmds, NEW st \in Statuses, NEW a \in Nat \cup {None},
             Wrote(b, st, a), Justified(b, st, a), b = c, cmd'[c] # cmd[c]
      PROVE  Goal
  <2>1. ExpiresAt(c)' = ExpiresAt(c) /\ st = "EXPIRED" /\ cmd'[c].ackedAt = a
    BY <1>3 DEF ExpiresAt, Wrote
  <2>2. cmd[c] \in Row
    BY <1>t DEF TypeOK
  <2>3. ExpiresAt(c) \in Nat
    BY <2>2, ConstantsAssumption DEF ExpiresAt, Row
  <2>4. \/ now > ExpiresAt(c)
        \/ a # None /\ a > ExpiresAt(c)
    BY <1>3, <2>1 DEF IndInv, ExpiryJustified, Justified, OpenStatus
  <2>5. CASE now > ExpiresAt(c)
    BY <1>n, <2>1, <2>3, <2>5
  <2>6. CASE a # None /\ a > ExpiresAt(c)
    BY <2>1, <2>6, Zenon
  <2> QED
    BY <2>4, <2>5, <2>6
<1>4. ASSUME NEW b \in Cmds, NEW st \in Statuses, NEW a \in Nat \cup {None},
             Wrote(b, st, a), b # c
      PROVE  cmd'[c] = cmd[c]
  BY <1>4 DEF Wrote
<1> QED
  BY <1>1, <1>2, <1>3, <1>4, RowEffect

\* No step shows ACKED or FAILED without the evidence for it.
LEMMA OutcomeStep ==
  ASSUME IndInv, [Next]_vars
  PROVE  OutcomeHasEvidence'
<1>t. TypeOK /\ TypeOK'
  BY TypeStep DEF IndInv
<1> SUFFICES ASSUME NEW c \in Cmds, NEW d \in Devices, cmd'[c].dev = d
             PROVE  /\ cmd'[c].status = "ACKED" =>
                         \/ SmsSent(c)'
                         \/ ack'[<<d, c, TRUE>>].pc # "none"
                         \/ d \in heard'
                    /\ cmd'[c].status = "FAILED" => ack'[<<d, c, FALSE>>].pc # "none"
  <2>1. \A c \in Cmds : cmd'[c].dev \in Devices
    BY <1>t DEF TypeOK, Row
  <2> QED
    BY <2>1 DEF OutcomeHasEvidence, Answered
<1> DEFINE Goal == /\ cmd'[c].status = "ACKED" =>
                        \/ SmsSent(c)'
                        \/ ack'[<<d, c, TRUE>>].pc # "none"
                        \/ d \in heard'
                   /\ cmd'[c].status = "FAILED" => ack'[<<d, c, FALSE>>].pc # "none"
<1>e. /\ SmsSent(c) => SmsSent(c)'
      /\ d \in heard => d \in heard'
      /\ ack[<<d, c, TRUE>>].pc # "none" => ack'[<<d, c, TRUE>>].pc # "none"
      /\ ack[<<d, c, FALSE>>].pc # "none" => ack'[<<d, c, FALSE>>].pc # "none"
  <2>1. <<d, c, TRUE>> \in Acks /\ <<d, c, FALSE>> \in Acks
    BY DEF Acks
  <2> QED
    BY <1>t, <2>1, EvidenceKept, Monotone
<1>o. cmd[c].dev = d =>
        /\ cmd[c].status = "ACKED" =>
             SmsSent(c) \/ ack[<<d, c, TRUE>>].pc # "none" \/ d \in heard
        /\ cmd[c].status = "FAILED" => ack[<<d, c, FALSE>>].pc # "none"
  BY DEF IndInv, OutcomeHasEvidence, Answered
<1>1. ASSUME cmd'[c] = cmd[c] PROVE Goal
  BY <1>1, <1>e, <1>o
<1>2. ASSUME NEW b \in Cmds, CreateCommand(b) PROVE Goal
  <2>1. CASE b = c
    <3>1. cmd'[c].status = "PENDING"
      BY <1>2, <1>t, <2>1 DEF CreateCommand, TypeOK
    <3> QED
      BY <3>1
  <2>2. CASE b # c
    BY <1>2, <1>t, <1>1, <2>2 DEF CreateCommand, TypeOK
  <2> QED
    BY <2>1, <2>2
<1>3. ASSUME NEW b \in Cmds, NEW st \in Statuses, NEW a \in Nat \cup {None},
             Wrote(b, st, a), Justified(b, st, a)
      PROVE  Goal
  <2>1. CASE b # c
    BY <1>1, <1>3, <2>1 DEF Wrote
  <2>2. CASE b = c
    <3>1. cmd[c].dev = d /\ cmd'[c].status = st
      BY <1>3, <2>2 DEF Wrote
    <3>2. CASE st = cmd[c].status
      BY <1>e, <1>o, <3>1, <3>2
    <3>3. CASE st # cmd[c].status
      BY <1>3, <1>e, <2>2, <3>1, <3>3 DEF Justified, OpenStatus
    <3> QED
      BY <3>2, <3>3
  <2> QED
    BY <2>1, <2>2
<1> QED
  BY <1>1, <1>2, <1>3, RowEffect

\* What the request handlers carry still agrees with the rows after a step.
LEMMA HandlersStep ==
  ASSUME IndInv, [Next]_vars
  PROVE  HandlersMatchRows'
<1>t. TypeOK /\ TypeOK'
  BY TypeStep DEF IndInv
<1>q. req \in [Cmds -> Handler] /\ \A c \in Cmds : req[c] \in Handler
  BY <1>t DEF TypeOK
<1> SUFFICES ASSUME NEW c \in Cmds
             PROVE  /\ req'[c].pc \in {"idle", "debounce", "create"} => c \notin Created'
                    /\ req'[c].pc \notin {"idle", "debounce", "create", "done"} =>
                         /\ c \in Created'
                         /\ cmd'[c].dev = req'[c].dev /\ cmd'[c].type = req'[c].type
                    /\ req'[c].pc \in {"recordSms", "markAcked"} => SmsSent(c)'
  BY DEF HandlersMatchRows
<1> DEFINE Goal == /\ req'[c].pc \in {"idle", "debounce", "create"} => c \notin Created'
                   /\ req'[c].pc \notin {"idle", "debounce", "create", "done"} =>
                        /\ c \in Created'
                        /\ cmd'[c].dev = req'[c].dev /\ cmd'[c].type = req'[c].type
                   /\ req'[c].pc \in {"recordSms", "markAcked"} => SmsSent(c)'
<1>h. /\ req[c].pc \in {"idle", "debounce", "create"} => c \notin Created
      /\ req[c].pc \notin {"idle", "debounce", "create", "done"} =>
           c \in Created /\ cmd[c].dev = req[c].dev /\ cmd[c].type = req[c].type
      /\ req[c].pc \in {"recordSms", "markAcked"} => SmsSent(c)
  BY DEF IndInv, HandlersMatchRows
<1>k. /\ c \in Created => c \in Created' /\ cmd'[c].dev = cmd[c].dev
                                         /\ cmd'[c].type = cmd[c].type
      /\ c \in Created' => c \in Created \/ CreateCommand(c)
      /\ SmsSent(c) => SmsSent(c)'
  BY <1>t, RowsKept, EvidenceKept DEF Created
<1>c. CreateCommand(c) => req'[c].pc \in {"tcp", "done"} /\ req'[c].type = req[c].type
                          /\ req'[c].dev = req[c].dev
  BY <1>q DEF CreateCommand, Goto, Handler
<1>1. ASSUME req'[c] = req[c] PROVE Goal
  <2>1. ~CreateCommand(c)
    BY <1>1, <1>c DEF CreateCommand
  <2> QED
    BY <1>1, <1>h, <1>k, <2>1
<1>2. ASSUME NEW b \in Cmds, NEW t \in RequestTypes, NEW e \in Devices, NEW m \in Motions,
             RequestCommand(b, t, e, m)
      PROVE  Goal
  <2>1. CASE b # c
    BY <1>1, <1>2, <1>q, <2>1 DEF RequestCommand
  <2>2. CASE b = c
    <3>1. req'[c].pc \in {"done", "debounce"} /\ req[c].pc = "idle"
      BY <1>2, <1>q, <2>2 DEF RequestCommand
    <3>2. c \notin Created'
      BY <1>2, <1>h, <3>1 DEF RequestCommand, Created
    <3> QED
      BY <3>1, <3>2
  <2> QED
    BY <2>1, <2>2
<1>3. ASSUME NEW b \in Cmds, RequestStep(b) PROVE Goal
  <2>1. CASE b # c
    <3>1. req'[c] = req[c]
      BY <1>3, <1>q, <2>1 DEF RequestStep, CheckDebounce, CreateCommand, DispatchDirect,
         QueuePending, SendSms, RecordSms, MarkAcked, PublishMqtt, MarkSent, MarkLast, Goto
    <3> QED
      BY <1>1, <3>1
  <2>2. CASE b = c
    <3>a. req[c] \in Handler
      BY <1>q
    <3>1. CASE CheckDebounce(c)
      <4>1. req[c].pc = "debounce" /\ req'[c].pc \in {"done", "create"}
        BY <3>1, <1>q DEF CheckDebounce, Goto, Handler
      <4>2. c \notin Created'
        BY <3>1, <1>h, <4>1 DEF CheckDebounce, Created
      <4> QED
        BY <4>1, <4>2
    <3>2. CASE CreateCommand(c)
      <4>1. cmd'[c].status = "PENDING" /\ cmd'[c].dev = req[c].dev /\ cmd'[c].type = req[c].type
        BY <3>2, <1>t DEF CreateCommand, TypeOK
      <4>2. c \in Created'
        BY <4>1 DEF Created
      <4> QED
        BY <1>c, <3>2, <4>1, <4>2
    <3>3. ASSUME NEW p \in Stages, Goto(c, p), c \in Created,
                 p \notin {"idle", "debounce", "create"},
                 p \in {"recordSms", "markAcked"} => SmsSent(c)',
                 cmd[c].dev = req[c].dev, cmd[c].type = req[c].type
          PROVE  Goal
      <4>1. req'[c].pc = p /\ req'[c].dev = req[c].dev /\ req'[c].type = req[c].type
        BY <3>3, <3>a, <1>q DEF Goto, Handler
      <4> QED
        BY <3>3, <4>1, <1>k
    <3>4. CASE DispatchDirect(c)
      BY <3>4, <3>3, <1>h DEF DispatchDirect, Stages
    <3>5. CASE QueuePending(c)
      BY <3>5, <3>3, <1>h DEF QueuePending, Stages
    <3>6. CASE SendSms(c)
      <4>1. CASE air' = air \cup {Downlink("sms", req[c].dev, req[c].type, c)} /\ Goto(c, "recordSms")
        <5> DEFINE m == Downlink("sms", req[c].dev, req[c].type, c)
        <5>1. SmsSent(c)'
          <6>1. m \in air' /\ m.via = "sms" /\ m.cmd = c
            BY <4>1 DEF Downlink
          <6> HIDE DEF m
          <6> QED
            BY <6>1 DEF SmsSent
        <5> QED
          BY <3>6, <3>3, <1>h, <4>1, <5>1 DEF SendSms, Stages
      <4>2. CASE Goto(c, "mqtt")
        BY <3>6, <3>3, <1>h, <4>2 DEF SendSms, Stages
      <4> QED
        BY <3>6, <4>1, <4>2 DEF SendSms
    <3>7. CASE RecordSms(c)
      BY <3>7, <3>3, <1>h, <1>k DEF RecordSms, Stages
    <3>8. CASE MarkAcked(c)
      BY <3>8, <3>3, <1>h DEF MarkAcked, Stages
    <3>9. CASE PublishMqtt(c)
      BY <3>9, <3>3, <1>h DEF PublishMqtt, Stages
    <3>10. CASE MarkSent(c) \/ MarkLast(c)
      BY <3>10, <3>3, <1>h DEF MarkSent, MarkLast, Stages
    <3> QED
      BY <1>3, <2>2, <3>1, <3>2, <3>4, <3>5, <3>6, <3>7, <3>8, <3>9, <3>10 DEF RequestStep
  <2> QED
    BY <2>1, <2>2
<1>4. CASE Crash
  <2>1. req'[c].pc \in {"idle", "done"} /\ (req'[c].pc = "idle" => req[c].pc = "idle")
    BY <1>4, <1>q DEF Crash, Handler
  <2>2. UNCHANGED cmd
    BY <1>4 DEF Crash
  <2> QED
    BY <1>h, <2>1, <2>2 DEF Created
<1> QED
  BY <1>1, <1>2, <1>3, <1>4, ReqChange

\* What the packet handlers carry still agrees with the rows after a step.
LEMMA ConnectionsStep ==
  ASSUME IndInv, [Next]_vars
  PROVE  ConnectionsMatchRows'
<1>t. TypeOK /\ TypeOK'
  BY TypeStep DEF IndInv
<1>q. sock \in [Sockets -> Connection] /\ \A s \in Sockets : sock[s] \in Connection
  BY <1>t DEF TypeOK
<1> SUFFICES ASSUME NEW s \in Sockets
             PROVE  /\ sock'[s].pc \in {"del", "mark", "ack"} =>
                         /\ sock'[s].cmd \in Created'
                         /\ cmd'[sock'[s].cmd].dev = sock'[s].dev
                    /\ sock'[s].pc = "ack" => sock'[s].isAck
                    /\ sock'[s].isAck => sock'[s].dev \in heard'
  BY DEF ConnectionsMatchRows
<1> DEFINE Goal == /\ sock'[s].pc \in {"del", "mark", "ack"} =>
                        /\ sock'[s].cmd \in Created'
                        /\ cmd'[sock'[s].cmd].dev = sock'[s].dev
                   /\ sock'[s].pc = "ack" => sock'[s].isAck
                   /\ sock'[s].isAck => sock'[s].dev \in heard'
<1>h. /\ sock[s].pc \in {"del", "mark", "ack"} =>
           sock[s].cmd \in Created /\ cmd[sock[s].cmd].dev = sock[s].dev
      /\ sock[s].pc = "ack" => sock[s].isAck
      /\ sock[s].isAck => sock[s].dev \in heard
  BY DEF IndInv, ConnectionsMatchRows
<1>k. /\ \A c \in Created : c \in Created' /\ cmd'[c].dev = cmd[c].dev
      /\ heard \subseteq heard'
  BY <1>t, RowsKept, Monotone DEF Created
<1>1. ASSUME sock'[s].dev = sock[s].dev, sock'[s].isAck => sock[s].isAck,
             sock'[s].pc \in {"del", "mark"} =>
                sock[s].pc \in {"del", "mark"} /\ sock'[s].cmd = sock[s].cmd,
             sock'[s].pc = "ack" =>
                sock[s].pc = "ack" /\ sock'[s].cmd = sock[s].cmd /\ sock'[s].isAck
      PROVE  Goal
  BY <1>1, <1>h, <1>k
<1>2. ASSUME NEW r \in Sockets, NEW e \in Devices, NEW k \in Replies, PacketArrives(r, e, k)
      PROVE  Goal
  <2>1. CASE r # s
    <3>1. sock'[s] = sock[s]
      BY <1>2, <1>q, <2>1 DEF PacketArrives
    <3> QED
      BY <1>h, <1>k, <3>1
  <2>2. CASE r = s
    <3>1. sock'[s].pc = "load" /\ sock'[s].isAck = k /\ sock'[s].dev = e
      BY <1>2, <1>q, <2>2 DEF PacketArrives
    <3>2. k => e \in heard'
      BY <1>2 DEF PacketArrives
    <3> QED
      BY <3>1, <3>2
  <2> QED
    BY <2>1, <2>2
<1>3. ASSUME NEW r \in Sockets, SocketCloses(r) PROVE Goal
  <2>1. /\ sock'[s].pc = sock[s].pc /\ sock'[s].dev = sock[s].dev
        /\ sock'[s].isAck = sock[s].isAck /\ sock'[s].cmd = sock[s].cmd
    BY <1>3, <1>q DEF SocketCloses, Connection
  <2> QED
    BY <1>h, <1>k, <2>1
<1>4. ASSUME NEW r \in Sockets, PacketStep(r) PROVE Goal
  <2>1. CASE r # s
    <3>1. sock'[s] = sock[s]
      BY <1>4, <1>q, <2>1 DEF PacketStep, BindSocket, FlushPending, DeletePending,
         MarkFlushed, FindAcked, MarkTcpAcked, Released
    <3> QED
      BY <1>h, <1>k, <3>1
  <2>2. CASE r = s
    <3>a. sock[s] \in Connection
      BY <1>q
    <3>1. CASE BindSocket(s)
      <4>1. sock'[s] = [sock[s] EXCEPT !.pc = "flush"]
        BY <3>1, <1>q DEF BindSocket
      <4> QED
        BY <1>1, <3>a, <4>1 DEF Connection
    <3>2. CASE FlushPending(s)
      <4> DEFINE e == sock[s].dev
      <4>1. CASE LiveSlot(e)
        <5>1. sock'[s] = [sock[s] EXCEPT !.pc = "del", !.cmd = slot[e].cmd]
          BY <3>2, <4>1, <1>q DEF FlushPending
        <5>2. slot[e].cmd \in Created /\ cmd[slot[e].cmd].dev = e
          <6>1. e \in Devices
            BY <3>a DEF Connection
          <6> QED
            BY <4>1, <6>1 DEF IndInv, DispatchTraceable, LiveSlot
        <5>3. /\ sock'[s].pc = "del" /\ sock'[s].cmd = slot[e].cmd
              /\ sock'[s].dev = e /\ sock'[s].isAck = sock[s].isAck
          BY <3>a, <5>1 DEF Connection
        <5> QED
          BY <1>h, <1>k, <5>2, <5>3
      <4>2. CASE ~LiveSlot(e)
        <5>1. sock'[s] = [sock[s] EXCEPT !.pc = "act"]
          BY <3>2, <4>2, <1>q DEF FlushPending
        <5> QED
          BY <1>1, <3>a, <5>1 DEF Connection
      <4> QED
        BY <4>1, <4>2
    <3>3. CASE DeletePending(s) \/ MarkFlushed(s)
      <4>1. \/ sock'[s] = [sock[s] EXCEPT !.pc = "mark"] /\ sock[s].pc = "del"
            \/ sock'[s] = [sock[s] EXCEPT !.pc = "act"]
        BY <3>3, <1>q DEF DeletePending, MarkFlushed
      <4> QED
        BY <1>1, <3>a, <4>1 DEF Connection
    <3>4. CASE FindAcked(s)
      <4>1. CASE sock[s].isAck /\ Latest(sock[s].dev) # {}
        <5>1. PICK c \in Latest(sock[s].dev) :
                sock' = [sock EXCEPT ![s] = [@ EXCEPT !.pc = "ack", !.cmd = c]]
          BY <3>4, <4>1 DEF FindAcked
        <5>2. c \in Created /\ cmd[c].dev = sock[s].dev
          BY DEF Latest
        <5>3. sock'[s] = [sock[s] EXCEPT !.pc = "ack", !.cmd = c]
          BY <5>1, <1>q
        <5>4. /\ sock'[s].pc = "ack" /\ sock'[s].cmd = c
              /\ sock'[s].dev = sock[s].dev /\ sock'[s].isAck = sock[s].isAck
          BY <3>a, <5>3 DEF Connection
        <5> QED
          BY <1>h, <1>k, <4>1, <5>2, <5>4
      <4>2. CASE ~(sock[s].isAck /\ Latest(sock[s].dev) # {})
        <5>1. sock'[s] = [sock[s] EXCEPT !.pc = "idle", !.isAck = FALSE, !.cmd = None]
          BY <3>4, <4>2, <1>q DEF FindAcked, Released
        <5> QED
          BY <1>1, <3>a, <5>1 DEF Connection
      <4> QED
        BY <4>1, <4>2
    <3>5. CASE MarkTcpAcked(s)
      <4>1. sock'[s] = [sock[s] EXCEPT !.pc = "idle", !.isAck = FALSE, !.cmd = None]
        BY <3>5, <1>q DEF MarkTcpAcked, Released
      <4> QED
        BY <1>1, <3>a, <4>1 DEF Connection
    <3> QED
      BY <1>4, <2>2, <3>1, <3>2, <3>3, <3>4, <3>5 DEF PacketStep
  <2> QED
    BY <2>1, <2>2
<1>5. CASE Crash
  <2>1. sock'[s].pc = "idle" /\ sock'[s].isAck = FALSE
    BY <1>5, <1>q DEF Crash, Connection
  <2> QED
    BY <2>1
<1>6. CASE UNCHANGED sock
  BY <1>6, <1>h, <1>k
<1> QED
  BY <1>2, <1>3, <1>4, <1>5, <1>6, SockChange

\* An acknowledgement about to be applied still belongs to its row's device.
LEMMA AcksStep ==
  ASSUME IndInv, [Next]_vars
  PROVE  AcksMatchRows'
<1>t. TypeOK /\ TypeOK'
  BY TypeStep DEF IndInv
<1>q. ack \in [Acks -> AckMessage]
  BY <1>t DEF TypeOK
<1> SUFFICES ASSUME NEW d \in Devices, NEW c \in Cmds, NEW ok \in BOOLEAN,
                    ack'[<<d, c, ok>>].pc = "apply"
             PROVE  c \in Created' /\ cmd'[c].dev = d
  BY DEF AcksMatchRows
<1> DEFINE p == <<d, c, ok>>
<1>p. p \in Acks /\ ack[p] \in AckMessage
  BY <1>q DEF Acks
<1>h. ack[p].pc = "apply" => c \in Created /\ cmd[c].dev = d
  BY DEF IndInv, AcksMatchRows
<1>k. c \in Created => c \in Created' /\ cmd'[c].dev = cmd[c].dev
  BY RowsKept DEF Created
<1>0. ASSUME NEW q, NEW a, a.pc # "apply", ack' = [ack EXCEPT ![q] = a]
      PROVE  ack[p].pc = "apply"
  BY <1>0, <1>q, <1>p
<1>1. ASSUME NEW e \in Devices, NEW b \in Cmds, NEW o \in Outcomes, NEW k \in Skews,
             DeviceAcks(e, b, o, now + k)
      PROVE  ack[p].pc = "apply"
  BY <1>0, <1>1 DEF DeviceAcks
<1>2. ASSUME NEW b \in Cmds, BridgeWrite(b)
      PROVE  ack[p].pc = "apply"
  BY <1>0, <1>2 DEF BridgeWrite
<1>3. ASSUME NEW e \in Devices, NEW b \in Cmds, NEW o \in BOOLEAN, ReceiveAck(e, b, o)
      PROVE  ack[p].pc = "apply" \/ AckMatches(d, c)
  <2>1. CASE <<e, b, o>> = p /\ ~AckMatches(d, c)
    <3>1. e = d /\ b = c /\ o = ok
      BY <2>1
    <3>2. ack'[p] = [pc |-> "done", ts |-> 0]
      BY <1>3, <1>q, <1>p, <2>1, <3>1 DEF ReceiveAck
    <3> QED
      BY <3>2
  <2>2. CASE <<e, b, o>> # p
    BY <1>3, <1>q, <1>p, <2>2 DEF ReceiveAck
  <2> QED
    BY <2>1, <2>2
<1>4. ASSUME NEW e \in Devices, NEW b \in Cmds, NEW o \in BOOLEAN, ApplyAck(e, b, o)
      PROVE  ack[p].pc = "apply"
  BY <1>0, <1>4 DEF ApplyAck
<1>5. CASE Crash
  BY <1>5, <1>q, <1>p DEF Crash, AckMessage
<1> QED
  BY <1>h, <1>k, <1>1, <1>2, <1>3, <1>4, <1>5, AckChange DEF AckMatches

\* What a sweeper tick carries still agrees with the rows after a step: its
\* batch stays past the deadline, however old the snapshot is.
LEMMA SweepsStep ==
  ASSUME IndInv, [Next]_vars
  PROVE  SweepsMatchRows'
<1>t. TypeOK /\ TypeOK'
  BY TypeStep DEF IndInv
<1>q. sweep \in [Sweeps -> SweepTick] /\ \A w \in Sweeps : sweep[w] \in SweepTick
  BY <1>t DEF TypeOK
<1> SUFFICES ASSUME NEW w \in Sweeps
             PROVE  /\ \A c \in sweep'[w].batch : c \in Created' /\ ExpiresAt(c)' < now'
                    /\ sweep'[w].pc \in {"ack", "expire"} => sweep'[w].cmd \in sweep'[w].batch
                    /\ sweep'[w].pc = "ack" =>
                         \E m \in air' : m.via = "sms" /\ m.cmd = sweep'[w].cmd
  BY DEF SweepsMatchRows, SmsSent
<1> DEFINE Goal == /\ \A c \in sweep'[w].batch : c \in Created' /\ ExpiresAt(c)' < now'
                   /\ sweep'[w].pc \in {"ack", "expire"} => sweep'[w].cmd \in sweep'[w].batch
                   /\ sweep'[w].pc = "ack" =>
                        \E m \in air' : m.via = "sms" /\ m.cmd = sweep'[w].cmd
<1>h. /\ \A c \in sweep[w].batch : c \in Created /\ ExpiresAt(c) < now
      /\ sweep[w].pc \in {"ack", "expire"} => sweep[w].cmd \in sweep[w].batch
      /\ sweep[w].pc = "ack" => \E m \in air : m.via = "sms" /\ m.cmd = sweep[w].cmd
  BY DEF IndInv, SweepsMatchRows, SmsSent
<1>a. air \subseteq air'
  BY <1>t, Monotone
<1>k. ASSUME NEW c \in Created, ExpiresAt(c) < now
      PROVE  c \in Created' /\ ExpiresAt(c)' < now'
  <2>1. c \in Created' /\ cmd'[c].createdAt = cmd[c].createdAt /\ c \in Cmds
    BY RowsKept DEF Created
  <2>2. cmd[c].createdAt \in Nat
    BY <1>t, <2>1 DEF TypeOK, Row
  <2>3. now \in Nat /\ now' \in Nat /\ now <= now'
    BY <1>t, Monotone
  <2> QED
    BY <1>k, <2>1, <2>2, <2>3, ConstantsAssumption DEF ExpiresAt
<1>1. ASSUME sweep'[w] = NoTick PROVE Goal
  BY <1>1 DEF NoTick
<1>2. ASSUME sweep'[w].batch \subseteq sweep[w].batch, sweep'[w].pc = "loop" PROVE Goal
  BY <1>2, <1>h, <1>k
<1>3. ASSUME sweep'[w].batch = sweep[w].batch,
             sweep'[w].cmd \in sweep[w].batch,
             sweep'[w].pc = "ack" =>
                \E m \in air' : m.via = "sms" /\ m.cmd = sweep'[w].cmd
      PROVE  Goal
  BY <1>3, <1>h, <1>k
<1>4. CASE sweep'[w] = sweep[w]
  BY <1>4, <1>h, <1>k, <1>a
<1>5. CASE SweepStart(w)
  <2>1. PICK b \in SUBSET Stale :
          sweep' = [sweep EXCEPT ![w] =
                      [pc |-> "loop", batch |-> b,
                       seen |-> {c \in b : cmd[c].sms}, at |-> now, cmd |-> None]]
    BY <1>5 DEF SweepStart
  <2>2. sweep'[w].pc = "loop" /\ sweep'[w].batch = b
    BY <1>q, <2>1
  <2>3. \A c \in b : c \in Created /\ ExpiresAt(c) < now
    BY DEF Stale
  <2> QED
    BY <1>k, <2>2, <2>3
<1>6. ASSUME NEW c \in Cmds, SweepNext(w, c) PROVE Goal
  <2>s. sweep[w] \in SweepTick
    BY <1>q
  <2>1. CASE /\ air' = air \cup {Downlink("sms", cmd[c].dev, cmd[c].type, c)}
             /\ sweep' = [sweep EXCEPT ![w] = [@ EXCEPT !.pc = "ack", !.cmd = c]]
    <3>1. sweep'[w] = [sweep[w] EXCEPT !.pc = "ack", !.cmd = c]
      BY <1>q, <2>1
    <3>2. sweep'[w].batch = sweep[w].batch /\ sweep'[w].cmd = c
      BY <2>s, <3>1 DEF SweepTick
    <3>3. \E m \in air' : m.via = "sms" /\ m.cmd = c
      <4> DEFINE m == Downlink("sms", cmd[c].dev, cmd[c].type, c)
      <4>1. m \in air'
        BY <2>1
      <4>2. m.via = "sms" /\ m.cmd = c
        BY DEF Downlink
      <4> HIDE DEF m
      <4> QED
        BY <4>1, <4>2
    <3> QED
      BY <1>3, <1>6, <3>2, <3>3 DEF SweepNext
  <2>2. CASE sweep' = [sweep EXCEPT ![w] = [@ EXCEPT !.pc = "expire", !.cmd = c]]
    <3>1. sweep'[w] = [sweep[w] EXCEPT !.pc = "expire", !.cmd = c]
      BY <1>q, <2>2
    <3>2. sweep'[w].batch = sweep[w].batch /\ sweep'[w].cmd = c /\ sweep'[w].pc = "expire"
      BY <2>s, <3>1 DEF SweepTick
    <3> QED
      BY <1>3, <1>6, <3>2 DEF SweepNext
  <2> QED
    BY <1>6, <2>1, <2>2 DEF SweepNext
<1>7. CASE Advance(w)
  <2> DEFINE rest == sweep[w].batch \ {sweep[w].cmd}
  <2>1. CASE rest = {}
    <3>1. sweep'[w] = NoTick
      BY <1>7, <1>q, <2>1 DEF Advance
    <3> QED
      BY <1>1, <3>1
  <2>2. CASE rest # {}
    <3>1. sweep'[w] = [sweep[w] EXCEPT !.pc = "loop", !.batch = rest, !.cmd = None]
      BY <1>7, <1>q, <2>2 DEF Advance
    <3>2. sweep[w] \in SweepTick
      BY <1>q
    <3>3. sweep'[w].pc = "loop" /\ sweep'[w].batch = rest
      BY <3>1, <3>2 DEF SweepTick
    <3> QED
      BY <1>2, <3>3
  <2> QED
    BY <2>1, <2>2
<1>8. CASE sweep[w].pc = "ack" /\ sweep' = [sweep EXCEPT ![w].pc = "expire"]
  <2>1. sweep'[w] = [sweep[w] EXCEPT !.pc = "expire"]
    BY <1>8, <1>q
  <2>2. sweep[w] \in SweepTick
    BY <1>q
  <2>3. /\ sweep'[w].pc = "expire" /\ sweep'[w].batch = sweep[w].batch
        /\ sweep'[w].cmd = sweep[w].cmd
    BY <2>1, <2>2 DEF SweepTick
  <2> QED
    BY <1>3, <1>8, <1>h, <2>3
<1>9. CASE SweepAck(w)
  BY <1>7, <1>8, <1>9 DEF SweepAck
<1>10. CASE SweepExpire(w)
  <2>1. CASE sweep' = [sweep EXCEPT ![w] = NoTick]
    <3>1. sweep'[w] = NoTick
      BY <1>q, <2>1
    <3> QED
      BY <1>1, <3>1
  <2> QED
    BY <1>7, <1>10, <2>1 DEF SweepExpire
<1>11. CASE Crash
  <2>1. sweep'[w] = NoTick
    BY <1>11 DEF Crash
  <2> QED
    BY <1>1, <2>1
<1>12. ASSUME NEW v \in Sweeps, v # w, SweepStep(v) PROVE Goal
  <2>1. sweep'[w] = sweep[w]
    BY <1>12, <1>q DEF SweepStep, SweepStart, SweepNext, SweepAck, SweepExpire, Advance
  <2> QED
    BY <1>4, <2>1
<1>13. CASE SweepStep(w)
  BY <1>5, <1>6, <1>9, <1>10, <1>13 DEF SweepStep
<1> QED
  BY <1>4, <1>11, <1>12, <1>13, SweepChange

\* Every downlink a step adds, and every payload it queues, stands for a row.
LEMMA DispatchStep ==
  ASSUME IndInv, [Next]_vars
  PROVE  DispatchTraceable'
<1>t. TypeOK /\ TypeOK'
  BY TypeStep DEF IndInv
<1> DEFINE ForRow(m) == m.cmd \in Created /\ cmd[m.cmd].dev = m.dev /\ cmd[m.cmd].type = m.type
<1>k. \A c \in Created : c \in Created' /\ cmd'[c].dev = cmd[c].dev /\ cmd'[c].type = cmd[c].type
  BY RowsKept DEF Created
<1>d. /\ \A m \in air : ForRow(m)
      /\ \A d \in Devices : slot[d] # None =>
           /\ slot[d].cmd \in Created
           /\ cmd[slot[d].cmd].dev = d
           /\ cmd[slot[d].cmd].type = slot[d].type
  BY DEF IndInv, DispatchTraceable
<1>r. \A c \in Cmds : req[c].pc \in {"tcp", "queue", "sms", "mqtt"} =>
        c \in Created /\ cmd[c].dev = req[c].dev /\ cmd[c].type = req[c].type
  BY DEF IndInv, HandlersMatchRows
<1>1. \A m \in air' : m \in air \/ ForRow(m)
  <2>1. ASSUME NEW c \in Cmds, DispatchDirect(c) \/ SendSms(c) \/ PublishMqtt(c), NEW m \in air'
        PROVE  m \in air \/ ForRow(m)
    <3>1. c \in Created /\ cmd[c].dev = req[c].dev /\ cmd[c].type = req[c].type
      BY <1>r, <2>1 DEF DispatchDirect, SendSms, PublishMqtt
    <3>2. m \in air \/ \E v \in {"tcp", "sms", "mqtt"} : m = Downlink(v, req[c].dev, req[c].type, c)
      BY <2>1 DEF DispatchDirect, SendSms, PublishMqtt
    <3> QED
      BY <3>1, <3>2 DEF Downlink
  <2>2. ASSUME NEW s \in Sockets, FlushPending(s), NEW m \in air'
        PROVE  m \in air \/ ForRow(m)
    <3> DEFINE e == sock[s].dev
    <3>1. e \in Devices
      BY <1>t DEF TypeOK, Connection
    <3>2. m \in air \/ (slot[e] # None /\ m = Downlink("tcp", e, slot[e].type, slot[e].cmd))
      BY <2>2 DEF FlushPending, LiveSlot
    <3> QED
      BY <1>d, <3>1, <3>2 DEF Downlink
  <2>3. ASSUME NEW c \in Cmds, BridgeWrite(c), NEW m \in air'
        PROVE  m \in air \/ ForRow(m)
    <3>1. m \in air \/ \E n \in air : n.cmd = c /\ m = Downlink("tcp", n.dev, n.type, c)
      BY <2>3 DEF BridgeWrite
    <3> QED
      BY <1>d, <3>1 DEF Downlink
  <2>4. ASSUME NEW w \in Sweeps, NEW c \in Cmds, SweepNext(w, c), NEW m \in air'
        PROVE  m \in air \/ ForRow(m)
    <3>1. c \in Created
      BY <2>4 DEF IndInv, SweepsMatchRows, SweepNext
    <3>2. m \in air \/ m = Downlink("sms", cmd[c].dev, cmd[c].type, c)
      BY <2>4 DEF SweepNext
    <3> QED
      BY <3>1, <3>2 DEF Downlink
  <2> QED
    BY <2>1, <2>2, <2>3, <2>4, AirChange
<1>2. ASSUME NEW d \in Devices, slot'[d] # None
      PROVE  /\ slot'[d].cmd \in Created
             /\ cmd[slot'[d].cmd].dev = d
             /\ cmd[slot'[d].cmd].type = slot'[d].type
  <2>q. slot \in [Devices -> QueuedCommand \cup {None}]
    BY <1>t DEF TypeOK
  <2>1. CASE slot'[d] = slot[d]
    BY <1>2, <1>d, <2>1
  <2>2. ASSUME NEW c \in Cmds, QueuePending(c), slot'[d] # slot[d]
        PROVE  req[c].dev = d /\ slot'[d] = PendingEntry(c) /\ req[c].pc = "queue"
    BY <2>2, <2>q DEF QueuePending
  <2>3. ASSUME NEW c \in Cmds, QueuePending(c), slot'[d] # slot[d]
        PROVE  /\ slot'[d].cmd \in Created
               /\ cmd[slot'[d].cmd].dev = d
               /\ cmd[slot'[d].cmd].type = slot'[d].type
    <3>1. req[c].dev = d /\ slot'[d] = PendingEntry(c) /\ req[c].pc = "queue"
      BY <2>2, <2>3
    <3>2. slot'[d].cmd = c /\ slot'[d].type = req[c].type
      BY <3>1 DEF PendingEntry
    <3> QED
      BY <1>r, <3>1, <3>2
  <2>4. ASSUME NEW s \in Sockets, DeletePending(s) PROVE slot'[d] = slot[d]
    BY <1>2, <2>4, <2>q DEF DeletePending
  <2> QED
    BY <2>1, <2>3, <2>4, SlotChange
<1>3. \A m \in air' : m.cmd \in Created' /\ cmd'[m.cmd].dev = m.dev /\ cmd'[m.cmd].type = m.type
  BY <1>1, <1>d, <1>k
<1>4. \A d \in Devices : slot'[d] # None =>
        /\ slot'[d].cmd \in Created'
        /\ cmd'[slot'[d].cmd].dev = d
        /\ cmd'[slot'[d].cmd].type = slot'[d].type
  BY <1>2, <1>k
<1> QED
  BY <1>3, <1>4 DEF DispatchTraceable

-----------------------------------------------------------------------------
(* The invariant and what follows from it. *)

\* IndInv holds of every reachable state: it holds initially, since there are
\* no rows, and each step keeps each of its parts.
THEOREM Inductive == Spec => []IndInv
<1>1. Init => IndInv
  <2> SUFFICES ASSUME Init PROVE IndInv
    OBVIOUS
  <2>1. AnyDevice \in Devices
    BY ConstantsAssumption DEF AnyDevice
  <2>2. TypeOK
    BY <2>1, ConstantsAssumption DEF Init, TypeOK, Row, Statuses, Types, Stages, NoTick,
       Handler, Connection, AckMessage, BridgeCall, SweepTick
  <2>3. Created = {} /\ air = {}
    BY DEF Init, Created
  <2>4. HandlersMatchRows
    BY <2>3 DEF Init, HandlersMatchRows
  <2>5. ConnectionsMatchRows
    BY DEF Init, ConnectionsMatchRows
  <2>6. AcksMatchRows
    BY DEF Init, AcksMatchRows, Acks
  <2>7. SweepsMatchRows
    BY DEF Init, SweepsMatchRows, NoTick
  <2>8. DispatchTraceable
    BY <2>3 DEF Init, DispatchTraceable
  <2>9. ExpiryJustified
    BY DEF Init, ExpiryJustified
  <2>10. OutcomeHasEvidence
    BY DEF Init, OutcomeHasEvidence
  <2> QED
    BY <2>2, <2>4, <2>5, <2>6, <2>7, <2>8, <2>9, <2>10 DEF IndInv
<1>2. IndInv /\ [Next]_vars => IndInv'
  <2> SUFFICES ASSUME IndInv, [Next]_vars PROVE IndInv'
    OBVIOUS
  <2>1. TypeOK'
    BY TypeStep DEF IndInv
  <2> QED
    BY <2>1, HandlersStep, ConnectionsStep, AcksStep, SweepsStep, DispatchStep,
       ExpiryStep, OutcomeStep DEF IndInv
<1> QED
  BY <1>1, <1>2, PTL DEF Spec

\* Whatever is written to a socket, an SMS, the broker or the Redis slot is a
\* command somebody requested, for that device and of that type.
THEOREM DispatchIsTraceable == Spec => []DispatchTraceable
<1>1. IndInv => DispatchTraceable
  BY DEF IndInv
<1> QED
  BY <1>1, Inductive, PTL

\* No command is ever shown EXPIRED before its deadline, whichever of the
\* sweeper and the acknowledgement handler wrote it.
THEOREM ExpiryIsJustified == Spec => []ExpiryJustified
<1>1. IndInv => ExpiryJustified
  BY DEF IndInv
<1> QED
  BY <1>1, Inductive, PTL

\* ACKED and FAILED are never shown without an SMS accepted for that command,
\* an answer that names it in the name of its own device, or a reply packet of
\* its own tracker; replies may come at any time and answers any number of times.
THEOREM OutcomeIsJustified == Spec => []OutcomeHasEvidence
<1>1. IndInv => OutcomeHasEvidence
  BY DEF IndInv
<1> QED
  BY <1>1, Inductive, PTL
=============================================================================
