--------------------------- MODULE DeviceCommands ---------------------------
(***************************************************************************)
(* The life of a remote LOCK / UNLOCK command: the HTTP request handler    *)
(* that creates and dispatches it, the Redis slot that holds it for an     *)
(* offline tracker, the TCP packet handler that flushes that slot and      *)
(* reads tracker replies, the MQTT acknowledgement handler, and the        *)
(* sweeper that escalates to SMS or expires it.                            *)
(*                                                                         *)
(* Every `await` of the code is a step boundary here, so any handler can   *)
(* run between the read and the write of another one.  A command id also   *)
(* names the request that creates it.  A bike is identified with the       *)
(* device it carries.  Rows are never deleted.                             *)
(***************************************************************************)
EXTENDS Integers, FiniteSets, FiniteSetsExt

CONSTANTS
    Cmds,         \* command ids, one per lock/unlock request
    Devices,      \* trackers, one per bike
    Sockets,      \* TCP connections the tracker server can hold
    Sweeps,       \* sweeper ticks that may overlap (and API instances)
    RequestTypes, \* the command types users request
    SimDevices,   \* devices with a SIM phone number
    Motions,      \* what the live state of a bike may be when a request reads it
    MqttEnabled,  \* FALSE under MQTT_DISABLED
    TTL,          \* COMMAND_TTL_SECONDS
    Debounce,     \* the 10 s window of the duplicate check
    SlotTTL,      \* the 600 s life of a queued command in Redis
    Drift,        \* clock drift accepted on a device timestamp
    Replies,      \* whether trackers may send reply packets, and others
    Outcomes,     \* what devices report over MQTT: TRUE is ACKED, FALSE is FAILED
    Skews,        \* how far device clocks may be off
    SweepLimit,   \* rows one sweeper tick takes
    MaxTime,      \* bound on the clock
    MaxFaults,    \* bound on database, Redis and process failures
    Destroyed,    \* a connection whose socket has been closed
    None

ASSUME ConstantsAssumption ==
    /\ Devices # {} /\ SimDevices \subseteq Devices
    /\ RequestTypes \subseteq {"LOCK", "UNLOCK"}
    /\ Motions \subseteq {"offline", "moving", "settling", "parked"}
    /\ MqttEnabled \in BOOLEAN
    /\ TTL \in Nat /\ Debounce \in Nat /\ SlotTTL \in Nat /\ Drift \in Nat
    /\ Replies \subseteq BOOLEAN /\ Outcomes \subseteq BOOLEAN
    /\ Skews \subseteq Int
    /\ SweepLimit \in Nat \ {0}
    /\ MaxTime \in Nat /\ MaxFaults \in Nat
    /\ None \notin Cmds \cup Devices \cup Sockets \cup Nat
    /\ Destroyed \notin Sockets \cup {None}
    /\ IsFiniteSet(Cmds)

VARIABLES
    now,      \* the clock shared by the API process and its database
    cmd,      \* the DeviceCommand rows
    req,      \* the request handlers
    slot,     \* sinotrack:pending_cmd:{deviceUid}
    active,   \* activeConnections: the connection bound to a device
    sock,     \* sockets, each with the packet its queue is processing
    air,      \* every downlink written to a socket, an SMS or the broker
    ack,      \* MQTT command-ack messages and their handlers
    bridge,   \* handleMqttCommand calls, with the connection each has looked up
    sweep,    \* sweeper ticks
    faults,   \* failures so far
    heard     \* history: trackers that sent a reply packet

vars == <<now, cmd, req, slot, active, sock, air, ack, bridge, sweep, faults, heard>>

Types == {"LOCK", "UNLOCK"}
OpenStatus == {"PENDING", "SENT"}
Terminal == {"ACKED", "FAILED", "EXPIRED"}

\* A downlink.  Only the MQTT payload really carries the command id; over TCP
\* and SMS the id is kept to say which command caused the write.
Downlink(v, d, t, c) == [via |-> v, dev |-> d, type |-> t, cmd |-> c]

Statuses == {"NONE"} \cup OpenStatus \cup Terminal    \* NONE: no row yet
Row == [status: Statuses, type: Types, dev: Devices, createdAt: Nat,
        ackedAt: Nat \cup {None}, sms: BOOLEAN]

Stages == {"idle", "debounce", "create", "tcp", "queue", "sms", "recordSms",
           "markAcked", "mqtt", "markSent", "markLast", "done"}
Handler == [pc: Stages, type: Types, dev: Devices]
QueuedCommand == [cmd: Cmds, type: Types, until: Nat]
Connection == [pc: {"idle", "load", "flush", "del", "mark", "act", "ack"},
               open: BOOLEAN, dev: Devices, isAck: BOOLEAN, cmd: Cmds \cup {None}]
Downlinks == [via: {"tcp", "sms", "mqtt"}, dev: Devices, type: Types, cmd: Cmds]
Acks == Devices \X Cmds \X BOOLEAN     \* sender, command, ACKED or FAILED
AckMessage == [pc: {"none", "sent", "apply", "done"}, ts: Nat]
BridgeCall == [pc: {"idle", "write", "done"}, sock: Sockets \cup {Destroyed, None}]
SweepTick == [pc: {"idle", "loop", "ack", "expire"}, batch: SUBSET Cmds,
              seen: SUBSET Cmds, at: Nat, cmd: Cmds \cup {None}]

\* The type invariant.
TypeOK ==
    /\ now \in Nat
    /\ cmd \in [Cmds -> Row]
    /\ req \in [Cmds -> Handler]
    /\ slot \in [Devices -> QueuedCommand \cup {None}]
    /\ active \in [Devices -> Sockets \cup {Destroyed, None}]
    /\ sock \in [Sockets -> Connection]
    /\ air \subseteq Downlinks
    /\ ack \in [Acks -> AckMessage]
    /\ bridge \in [Cmds -> BridgeCall]
    /\ sweep \in [Sweeps -> SweepTick]
    /\ faults \in Nat
    /\ heard \subseteq Devices

\* Fills the fields of rows and handlers that do not exist yet.
AnyDevice == CHOOSE d \in Devices : TRUE

\* The local state of the sweeper between two ticks.
NoTick == [pc |-> "idle", batch |-> {}, seen |-> {}, at |-> 0, cmd |-> None]

Init ==
    /\ now = 0
    /\ cmd = [c \in Cmds |-> [status |-> "NONE", type |-> "LOCK", dev |-> AnyDevice,
                              createdAt |-> 0, ackedAt |-> None, sms |-> FALSE]]
    /\ req = [c \in Cmds |-> [pc |-> "idle", type |-> "LOCK", dev |-> AnyDevice]]
    /\ sock = [s \in Sockets |-> [pc |-> "idle", open |-> FALSE, dev |-> AnyDevice,
                                  isAck |-> FALSE, cmd |-> None]]
    /\ slot = [d \in Devices |-> None]
    /\ active = [d \in Devices |-> None]
    /\ air = {}
    /\ ack = [p \in Acks |-> [pc |-> "none", ts |-> 0]]
    /\ bridge = [c \in Cmds |-> [pc |-> "idle", sock |-> None]]
    /\ sweep = [w \in Sweeps |-> NoTick]
    /\ faults = 0
    /\ heard = {}

-----------------------------------------------------------------------------
(* Helpers *)

ExpiresAt(c) == cmd[c].createdAt + TTL

\* The rows the database holds.
Created == {c \in Cmds : cmd[c].status # "NONE"}

\* The live-state check of assertSafeToLock: no recent state, or ignition off,
\* speed 0 and no moving telemetry point in the last 15 seconds.
SafeToLock(m) == m \in {"offline", "parked"}

\* A PENDING/SENT command of the same type for this bike in the window.
RecentDuplicate(c) ==
    \E x \in Created : /\ cmd[x].dev = req[c].dev
                       /\ cmd[x].type = req[c].type
                       /\ cmd[x].status \in OpenStatus
                       /\ cmd[x].createdAt >= now - Debounce

\* The update by id that every status change ends in.  It is not conditional
\* on the status the row has by then.
SetStatus(c, st, acked) ==
    cmd' = [cmd EXCEPT ![c] = [@ EXCEPT !.status = st, !.ackedAt = acked]]

Goto(c, pc) == req' = [req EXCEPT ![c].pc = pc]

\* A database, Redis or process failure, within the bound.
Fault == faults < MaxFaults /\ faults' = faults + 1

\* What the slot of a device holds, once its Redis TTL is taken into account.
LiveSlot(d) == slot[d] # None /\ now < slot[d].until

-----------------------------------------------------------------------------
(* The request handler: requestCommandForBike and requestCommandForBikeHq *)

\* Load bike, device and live state m; a LOCK is refused when it is not safe.
RequestCommand(c, t, d, m) ==
    /\ req[c].pc = "idle"
    /\ req' = [req EXCEPT ![c] =
                 [pc |-> IF t = "LOCK" /\ ~SafeToLock(m) THEN "done"
                                                         ELSE "debounce",
                  type |-> t, dev |-> d]]
    /\ UNCHANGED <<now, cmd, slot, active, sock, air, ack, sweep, bridge, faults, heard>>

\* The duplicate check, a query of its own before the insert.
CheckDebounce(c) ==
    /\ req[c].pc = "debounce"
    /\ Goto(c, IF RecentDuplicate(c) THEN "done" ELSE "create")
    /\ UNCHANGED <<now, cmd, slot, active, sock, air, ack, sweep, bridge, faults, heard>>

\* The row is written; when the audit log after it fails, the handler throws.
CreateCommand(c) ==
    /\ req[c].pc = "create"
    /\ now + TTL < MaxTime
    /\ cmd' = [cmd EXCEPT ![c] = [status |-> "PENDING", type |-> req[c].type,
                                  dev |-> req[c].dev, createdAt |-> now,
                                  ackedAt |-> None, sms |-> FALSE]]
    /\ \/ Goto(c, "tcp") /\ UNCHANGED faults
       \/ Goto(c, "done") /\ Fault
    /\ UNCHANGED <<now, slot, active, sock, air, ack, sweep, bridge, heard>>

\* dispatchDirectCommand: synchronous, FALSE without a live bound socket.
DispatchDirect(c) ==
    LET d == req[c].dev
        s == active[d]
        live == s \in Sockets /\ sock[s].open
    IN  /\ req[c].pc = "tcp"
        /\ Goto(c, IF live THEN "markLast" ELSE "queue")
        /\ air' = IF live THEN air \cup {Downlink("tcp", d, req[c].type, c)}
                          ELSE air
        /\ UNCHANGED <<now, cmd, slot, active, sock, ack, sweep, bridge, faults, heard>>

\* Mutant: the queued payload loses its commandId.
PendingEntryWithoutId(c) == [cmd |-> None, type |-> req[c].type, until |-> now + SlotTTL]

\* Mutant: a queued command only replaces the id of the one it overwrites.
PendingEntryMerged(c) ==
    LET old == slot[req[c].dev]
    IN  [cmd |-> c, type |-> IF old = None THEN req[c].type ELSE old.type,
         until |-> now + SlotTTL]

\* The payload kept for a tracker that is not connected.
PendingEntry(c) == [cmd |-> c, type |-> req[c].type, until |-> now + SlotTTL]

\* SET sinotrack:pending_cmd:{uid}; a Redis error is only logged.
QueuePending(c) ==
    LET d == req[c].dev
    IN  /\ req[c].pc = "queue"
        /\ Goto(c, IF d \in SimDevices THEN "sms" ELSE "mqtt")
        /\ \/ slot' = [slot EXCEPT ![d] = PendingEntry(c)] /\ UNCHANGED faults
           \/ Fault /\ UNCHANGED slot
        /\ UNCHANGED <<now, cmd, active, sock, air, ack, sweep, bridge, heard>>

\* Mutant: the provider's answer is not looked at.
SendSmsUnchecked(c) ==
    /\ req[c].pc = "sms"
    /\ Goto(c, "recordSms")
    /\ \/ air' = air \cup {Downlink("sms", req[c].dev, req[c].type, c)}
       \/ UNCHANGED air
    /\ UNCHANGED <<now, cmd, slot, active, sock, ack, sweep, bridge, faults, heard>>

\* sendSms: the provider reports success, or fails and MQTT is tried.
SendSms(c) ==
    /\ req[c].pc = "sms"
    /\ \/ /\ air' = air \cup {Downlink("sms", req[c].dev, req[c].type, c)}
          /\ Goto(c, "recordSms")
       \/ Goto(c, "mqtt") /\ UNCHANGED air
    /\ UNCHANGED <<now, cmd, slot, active, sock, ack, sweep, bridge, faults, heard>>

\* payloadJson.smsFallbackDispatched; an error lands in the SMS catch block.
RecordSms(c) ==
    /\ req[c].pc = "recordSms"
    /\ \/ /\ cmd' = [cmd EXCEPT ![c].sms = TRUE]
          /\ Goto(c, "markAcked")
          /\ UNCHANGED faults
       \/ Goto(c, "mqtt") /\ Fault /\ UNCHANGED cmd
    /\ UNCHANGED <<now, slot, active, sock, air, ack, sweep, bridge, heard>>

\* transitionStatus(ACKED).  It is inside the SMS try block, so a failure of
\* the update, or of the audit log after it, falls through to MQTT.
MarkAcked(c) ==
    /\ req[c].pc = "markAcked"
    /\ \/ SetStatus(c, "ACKED", now) /\ Goto(c, "done") /\ UNCHANGED faults
       \/ SetStatus(c, "ACKED", now) /\ Goto(c, "mqtt") /\ Fault
       \/ UNCHANGED cmd /\ Goto(c, "mqtt") /\ Fault
    /\ UNCHANGED <<now, slot, active, sock, air, ack, sweep, bridge, heard>>

\* publishMqtt: published (or skipped when MQTT is disabled); or an error or
\* the 10 s timeout, after which the message may still be delivered.
PublishMqtt(c) ==
    /\ req[c].pc = "mqtt"
    /\ \/ /\ MqttEnabled
          /\ air' = air \cup {Downlink("mqtt", req[c].dev, req[c].type, c)}
          /\ \E next \in {"markSent", "markLast"} : Goto(c, next)
       \/ UNCHANGED air /\ Goto(c, IF MqttEnabled THEN "markLast" ELSE "markSent")
    /\ UNCHANGED <<now, cmd, slot, active, sock, ack, sweep, bridge, faults, heard>>

\* transitionStatus(SENT) inside the MQTT try block: a failure is followed by
\* the catch block's own transitionStatus(SENT).
MarkSent(c) ==
    /\ req[c].pc = "markSent"
    /\ \/ SetStatus(c, "SENT", None) /\ Goto(c, "done") /\ UNCHANGED faults
       \/ SetStatus(c, "SENT", None) /\ Goto(c, "markLast") /\ Fault
       \/ UNCHANGED cmd /\ Goto(c, "markLast") /\ Fault
    /\ UNCHANGED <<now, slot, active, sock, air, ack, sweep, bridge, heard>>

\* transitionStatus(SENT) after a direct TCP write or in the catch block.
MarkLast(c) ==
    /\ req[c].pc = "markLast"
    /\ Goto(c, "done")
    /\ \/ SetStatus(c, "SENT", None) /\ UNCHANGED faults
       \/ UNCHANGED cmd /\ Fault
    /\ UNCHANGED <<now, slot, active, sock, air, ack, sweep, bridge, heard>>

RequestStep(c) ==
    \/ CheckDebounce(c) \/ CreateCommand(c) \/ DispatchDirect(c)
    \/ QueuePending(c) \/ SendSms(c) \/ RecordSms(c) \/ MarkAcked(c)
    \/ PublishMqtt(c) \/ MarkSent(c) \/ MarkLast(c)

-----------------------------------------------------------------------------
(* The tracker's TCP server: processRawPacket *)

\* A packet reaches the head of its socket's queue, on a new connection or on
\* the device's own.  A tracker may send a reply packet at any time, whether or
\* not anything was written to it.
PacketArrives(s, d, isAck) ==
    /\ sock[s].pc = "idle"
    /\ sock[s].open => sock[s].dev = d
    /\ sock' = [sock EXCEPT ![s] = [pc |-> "load", open |-> TRUE, dev |-> d,
                                    isAck |-> isAck, cmd |-> None]]
    /\ heard' = IF isAck THEN heard \cup {d} ELSE heard
    /\ UNCHANGED <<now, cmd, req, slot, active, air, ack, sweep, faults, bridge>>

\* The device is loaded and the socket bound to it, even if it closed meanwhile.
BindSocket(s) ==
    /\ sock[s].pc = "load"
    /\ sock' = [sock EXCEPT ![s].pc = "flush"]
    /\ active' = [active EXCEPT ![sock[s].dev] = IF sock[s].open THEN s ELSE Destroyed]
    /\ UNCHANGED <<now, cmd, req, slot, air, ack, sweep, bridge, faults, heard>>

\* The 'close' event; the packet in progress goes on.
SocketCloses(s) ==
    /\ sock[s].open
    /\ sock' = [sock EXCEPT ![s].open = FALSE]
    /\ active' = [d \in Devices |-> IF active[d] = s THEN None ELSE active[d]]
    /\ bridge' = [c \in Cmds |-> IF bridge[c].sock = s THEN [bridge[c] EXCEPT !.sock = Destroyed]
                                                       ELSE bridge[c]]
    /\ UNCHANGED <<now, cmd, req, slot, air, ack, sweep, faults, heard>>

\* GET the slot and write its command to this socket.
FlushPending(s) ==
    LET d == sock[s].dev
    IN  /\ sock[s].pc = "flush"
        /\ IF LiveSlot(d)
           THEN /\ sock' = [sock EXCEPT ![s] = [@ EXCEPT !.pc = "del",
                                                      !.cmd = slot[d].cmd]]
                /\ air' = IF sock[s].open
                          THEN air \cup {Downlink("tcp", d, slot[d].type,
                                                  slot[d].cmd)}
                          ELSE air
           ELSE sock' = [sock EXCEPT ![s].pc = "act"] /\ UNCHANGED air
        /\ UNCHANGED <<now, cmd, req, slot, active, ack, sweep, bridge, faults, heard>>

\* DEL the slot, whatever it holds by now.
DeletePending(s) ==
    /\ sock[s].pc = "del"
    /\ \/ /\ slot' = [slot EXCEPT ![sock[s].dev] = None]
          /\ sock' = [sock EXCEPT ![s].pc = "mark"]
          /\ UNCHANGED faults
       \/ sock' = [sock EXCEPT ![s].pc = "act"] /\ Fault /\ UNCHANGED slot
    /\ UNCHANGED <<now, cmd, req, active, air, ack, sweep, bridge, heard>>

\* The flushed command becomes SENT; ackedAt is left as it is.
MarkFlushed(s) ==
    /\ sock[s].pc = "mark"
    /\ sock' = [sock EXCEPT ![s].pc = "act"]
    /\ \/ cmd' = [cmd EXCEPT ![sock[s].cmd].status = "SENT"] /\ UNCHANGED faults
       \/ Fault /\ UNCHANGED cmd
    /\ UNCHANGED <<now, req, slot, active, air, ack, sweep, bridge, heard>>

\* The queue of the socket is ready for its next packet.
Released(s) ==
    [sock EXCEPT ![s] = [@ EXCEPT !.pc = "idle", !.isAck = FALSE, !.cmd = None]]

\* Mutant: the query forgets the device.
LatestAnyDevice(d) ==
    LET live == {c \in Created : cmd[c].status \in OpenStatus /\ ExpiresAt(c) >= now}
    IN  {c \in live : \A x \in live : cmd[x].createdAt <= cmd[c].createdAt}

\* Open, unexpired commands of the device that no later one follows.
Latest(d) ==
    LET live == {c \in Created : /\ cmd[c].dev = d
                                 /\ cmd[c].status \in OpenStatus
                                 /\ ExpiresAt(c) >= now}
    IN  {c \in live : \A x \in live : cmd[x].createdAt <= cmd[c].createdAt}

\* A reply packet is attributed to the latest open command of the device;
\* telemetry and heartbeats change no command.
FindAcked(s) ==
    /\ sock[s].pc = "act"
    /\ IF sock[s].isAck /\ Latest(sock[s].dev) # {}
       THEN \E c \in Latest(sock[s].dev) :
              sock' = [sock EXCEPT ![s] = [@ EXCEPT !.pc = "ack", !.cmd = c]]
       ELSE sock' = Released(s)
    /\ UNCHANGED <<now, cmd, req, slot, active, air, ack, sweep, bridge, faults, heard>>

MarkTcpAcked(s) ==
    /\ sock[s].pc = "ack"
    /\ sock' = Released(s)
    /\ \/ SetStatus(sock[s].cmd, "ACKED", now) /\ UNCHANGED faults
       \/ Fault /\ UNCHANGED cmd
    /\ UNCHANGED <<now, req, slot, active, air, ack, sweep, bridge, heard>>

PacketStep(s) ==
    \/ BindSocket(s) \/ FlushPending(s) \/ DeletePending(s) \/ MarkFlushed(s)
    \/ FindAcked(s) \/ MarkTcpAcked(s)

-----------------------------------------------------------------------------
(* MQTT acknowledgements *)

\* A device answers a published command with the time of its own clock.  It
\* may answer again, with a fresh nonce, once its last answer of that kind was
\* handled.  Nothing stops a device from naming a command of another device.
DeviceAcks(d, c, ok, ts) ==
    /\ ack[<<d, c, ok>>].pc \in {"none", "done"}
    /\ ts >= 0
    /\ \E m \in air : m.via = "mqtt" /\ m.cmd = c
    /\ ack' = [ack EXCEPT ![<<d, c, ok>>] = [pc |-> "sent", ts |-> ts]]
    /\ UNCHANGED <<now, cmd, req, slot, active, sock, air, sweep, bridge, faults, heard>>

\* handleMqttCommand up to its first await: for a tracker on TCP the adapter
\* takes the connection bound last, even when its socket is destroyed.
BridgeMqtt(c) ==
    /\ bridge[c].pc = "idle"
    /\ \E m \in air :
         /\ m.via = "mqtt" /\ m.cmd = c
         /\ active[m.dev] # None
         /\ bridge' = [bridge EXCEPT ![c] = [pc |-> "write", sock |-> active[m.dev]]]
    /\ UNCHANGED <<now, cmd, req, slot, active, sock, air, ack, sweep, faults, heard>>

\* The rest of it, after the device was loaded and the nonce stored: the
\* command goes to that connection, and the adapter publishes the ACKED answer
\* itself, delivered or not.  An error before that is only logged.
BridgeWrite(c) ==
    /\ bridge[c].pc = "write"
    /\ bridge' = [bridge EXCEPT ![c] = [pc |-> "done", sock |-> None]]
    /\ \/ /\ \E m \in air :
               /\ m.via = "mqtt" /\ m.cmd = c
               /\ ack[<<m.dev, c, TRUE>>].pc \in {"none", "done"}
               /\ air' = IF bridge[c].sock \in Sockets
                         THEN air \cup {Downlink("tcp", m.dev, m.type, c)} ELSE air
               /\ ack' = [ack EXCEPT ![<<m.dev, c, TRUE>>] = [pc |-> "sent", ts |-> now]]
          /\ UNCHANGED faults
       \/ Fault /\ UNCHANGED <<air, ack>>
    /\ UNCHANGED <<now, cmd, req, slot, active, sock, sweep, heard>>

\* The row is known, belongs to the sender and is still open.
AckMatches(d, c) == c \in Created /\ cmd[c].dev = d /\ cmd[c].status \notin Terminal

\* processCommandAckPayload and the reads of handleCommandAckFromDevice: the
\* drift check, then the checks against the row as it is now.
ReceiveAck(d, c, ok) ==
    LET a == ack[<<d, c, ok>>]
        inDrift == a.ts <= now + Drift /\ now <= a.ts + Drift
    IN  /\ a.pc = "sent"
        /\ ack' = [ack EXCEPT ![<<d, c, ok>>] =
                     IF inDrift /\ AckMatches(d, c)
                     THEN [@ EXCEPT !.pc = "apply"]
                     ELSE [pc |-> "done", ts |-> 0]]
        /\ UNCHANGED <<now, cmd, req, slot, active, sock, air, sweep, bridge, faults, heard>>

\* The transitionStatus call that handleCommandAckFromDevice ends in.
ApplyAck(d, c, ok) ==
    LET a == ack[<<d, c, ok>>]
        st == IF a.ts > ExpiresAt(c) THEN "EXPIRED"
              ELSE IF ok THEN "ACKED" ELSE "FAILED"
    IN  /\ a.pc = "apply"
        /\ ack' = [ack EXCEPT ![<<d, c, ok>>] = [pc |-> "done", ts |-> 0]]
        /\ \/ SetStatus(c, st, a.ts) /\ UNCHANGED faults
           \/ Fault /\ UNCHANGED cmd
        /\ UNCHANGED <<now, req, slot, active, sock, air, sweep, bridge, heard>>

-----------------------------------------------------------------------------
(* The expiry sweeper *)

\* Mutant: the deadline itself already counts as expired.
StaleAtDeadline == {c \in Created : cmd[c].status \in OpenStatus /\ ExpiresAt(c) <= now}

\* Mutant: the query forgets commands that were sent.
StalePending == {c \in Created : cmd[c].status = "PENDING" /\ ExpiresAt(c) < now}

\* Open rows past their deadline.
Stale == {c \in Created : cmd[c].status \in OpenStatus /\ ExpiresAt(c) < now}

\* findMany: at most SweepLimit stale rows, with their SMS flags.
SweepStart(w) ==
    /\ sweep[w].pc = "idle"
    /\ \E b \in SUBSET Stale :
         /\ b # {}
         /\ Cardinality(b) <= SweepLimit
         /\ b = Stale \/ Cardinality(b) = SweepLimit
         /\ sweep' = [sweep EXCEPT ![w] =
                        [pc |-> "loop", batch |-> b,
                         seen |-> {c \in b : cmd[c].sms}, at |-> now, cmd |-> None]]
    /\ UNCHANGED <<now, cmd, req, slot, active, sock, air, ack, bridge, faults, heard>>

\* The next row: SMS if none was recorded when the batch was read, and the
\* device has a SIM; otherwise, or when the SMS fails, it is to be expired.
SweepNext(w, c) ==
    /\ sweep[w].pc = "loop"
    /\ c \in sweep[w].batch
    /\ \/ /\ c \notin sweep[w].seen
          /\ cmd[c].dev \in SimDevices
          /\ air' = air \cup {Downlink("sms", cmd[c].dev, cmd[c].type, c)}
          /\ sweep' = [sweep EXCEPT ![w] = [@ EXCEPT !.pc = "ack", !.cmd = c]]
       \/ /\ sweep' = [sweep EXCEPT ![w] = [@ EXCEPT !.pc = "expire", !.cmd = c]]
          /\ UNCHANGED air
    /\ UNCHANGED <<now, cmd, req, slot, active, sock, ack, bridge, faults, heard>>

\* Row done: the tick goes on with the rest of its batch.
Advance(w) ==
    LET rest == sweep[w].batch \ {sweep[w].cmd}
    IN  sweep' = [sweep EXCEPT ![w] =
                    IF rest = {} THEN NoTick
                    ELSE [@ EXCEPT !.pc = "loop", !.batch = rest, !.cmd = None]]

\* SMS delivered: ACKED.  The update is inside the SMS try block, so when it
\* fails the row is expired.
SweepAck(w) ==
    LET c == sweep[w].cmd
    IN  /\ sweep[w].pc = "ack"
        /\ \/ /\ cmd' = [cmd EXCEPT ![c] = [@ EXCEPT !.status = "ACKED", !.sms = TRUE,
                                                 !.ackedAt = sweep[w].at]]
              /\ Advance(w)
              /\ UNCHANGED faults
           \/ /\ sweep' = [sweep EXCEPT ![w].pc = "expire"]
              /\ Fault /\ UNCHANGED cmd
        /\ UNCHANGED <<now, req, slot, active, sock, air, ack, bridge, heard>>

\* EXPIRED; a database error abandons the whole tick.
SweepExpire(w) ==
    LET c == sweep[w].cmd
    IN  /\ sweep[w].pc = "expire"
        /\ \/ /\ cmd' = [cmd EXCEPT ![c].status = "EXPIRED"]
              /\ Advance(w)
              /\ UNCHANGED faults
           \/ sweep' = [sweep EXCEPT ![w] = NoTick] /\ Fault /\ UNCHANGED cmd
        /\ UNCHANGED <<now, req, slot, active, sock, air, ack, bridge, heard>>

SweepStep(w) ==
    SweepStart(w) \/ SweepAck(w) \/ SweepExpire(w) \/ \E c \in Cmds : SweepNext(w, c)

-----------------------------------------------------------------------------
(* The environment *)

Tick ==
    /\ now < MaxTime
    /\ now' = now + 1
    /\ UNCHANGED <<cmd, req, slot, active, sock, air, ack, sweep, bridge, faults, heard>>

\* The API process dies and restarts: handlers, sockets and ticks are gone,
\* PostgreSQL and Redis keep what they have.
Crash ==
    /\ Fault
    /\ req' = [c \in Cmds |-> [req[c] EXCEPT !.pc =
                 IF @ = "idle" THEN "idle" ELSE "done"]]
    /\ sock' = [s \in Sockets |-> [sock[s] EXCEPT !.pc = "idle", !.open = FALSE,
                                      !.isAck = FALSE, !.cmd = None]]
    /\ active' = [d \in Devices |-> None]
    /\ ack' = [p \in Acks |-> [ack[p] EXCEPT !.pc = IF @ = "apply" THEN "done" ELSE @]]
    /\ bridge' = [c \in Cmds |-> IF bridge[c].pc = "write" THEN [pc |-> "done", sock |-> None]
                                                         ELSE bridge[c]]
    /\ sweep' = [w \in Sweeps |-> NoTick]
    /\ UNCHANGED <<now, cmd, slot, air, heard>>

Next ==
    \/ \E c \in Cmds :
         \/ \E t \in RequestTypes, d \in Devices, m \in Motions : RequestCommand(c, t, d, m)
         \/ RequestStep(c)
    \/ \E s \in Sockets : \/ \E d \in Devices, k \in Replies : PacketArrives(s, d, k)
                          \/ SocketCloses(s)
                          \/ PacketStep(s)
    \/ \E d \in Devices, c \in Cmds :
         \/ \E ok \in Outcomes, k \in Skews : DeviceAcks(d, c, ok, now + k)
         \/ \E ok \in BOOLEAN : ReceiveAck(d, c, ok) \/ ApplyAck(d, c, ok)
    \/ \E c \in Cmds : BridgeMqtt(c) \/ BridgeWrite(c)
    \/ \E w \in Sweeps : SweepStep(w)
    \/ Tick
    \/ Crash

Spec == Init /\ [][Next]_vars

\* Handlers that started run on, sweeper ticks keep starting, time passes.
\* Nothing is assumed of devices, sockets and users.
Fairness ==
    /\ \A c \in Cmds : WF_vars(RequestStep(c))
    /\ \A s \in Sockets : WF_vars(PacketStep(s))
    /\ \A d \in Devices, c \in Cmds, ok \in BOOLEAN : WF_vars(ApplyAck(d, c, ok))
    /\ \A w \in Sweeps : WF_vars(SweepStep(w))
    /\ WF_vars(Tick)

FairSpec == Spec /\ Fairness

-----------------------------------------------------------------------------
(* Properties *)

\* Whatever is on a wire or in the Redis slot stands for an existing row of
\* that very device and type: no handler, overwritten slot or crash makes the
\* dispatcher send a command nobody asked for.
DispatchTraceable ==
    /\ \A m \in air : /\ m.cmd \in Created
                       /\ cmd[m.cmd].dev = m.dev
                       /\ cmd[m.cmd].type = m.type
    /\ \A d \in Devices : slot[d] # None =>
         /\ slot[d].cmd \in Created
         /\ cmd[slot[d].cmd].dev = d
         /\ cmd[slot[d].cmd].type = slot[d].type

\* EXPIRED is only ever shown for a command whose deadline really passed, by
\* the server's clock or by the timestamp of the acknowledgement it got.
ExpiryJustified ==
    \A c \in Cmds : cmd[c].status = "EXPIRED" =>
      \/ now > ExpiresAt(c)
      \/ cmd[c].ackedAt # None /\ cmd[c].ackedAt > ExpiresAt(c)

SmsSent(c) == \E m \in air : m.via = "sms" /\ m.cmd = c
Answered(c, ok) == ack[<<cmd[c].dev, c, ok>>].pc # "none"

\* ACKED is only ever shown when the SMS gateway took this command, or an
\* acknowledgement that names it was sent over MQTT in the name of its own
\* device, or its own tracker sent a reply packet; FAILED only when its own
\* device reported it.  No reply, acknowledgement or SMS of one device settles
\* a command of another.
OutcomeHasEvidence ==
    \A c \in Cmds :
      /\ cmd[c].status = "ACKED" => SmsSent(c) \/ Answered(c, TRUE) \/ cmd[c].dev \in heard
      /\ cmd[c].status = "FAILED" => Answered(c, FALSE)

-----------------------------------------------------------------------------
(* The inductive invariant behind the three safety properties: what each     *)
(* handler carries across its awaits still agrees with the rows.             *)

HandlersMatchRows ==
    \A c \in Cmds :
      /\ req[c].pc \in {"idle", "debounce", "create"} => c \notin Created
      /\ req[c].pc \notin {"idle", "debounce", "create", "done"} =>
           c \in Created /\ cmd[c].dev = req[c].dev /\ cmd[c].type = req[c].type
      /\ req[c].pc \in {"recordSms", "markAcked"} => SmsSent(c)

ConnectionsMatchRows ==
    \A s \in Sockets :
      /\ sock[s].pc \in {"del", "mark", "ack"} =>
           sock[s].cmd \in Created /\ cmd[sock[s].cmd].dev = sock[s].dev
      /\ sock[s].pc = "ack" => sock[s].isAck
      /\ sock[s].isAck => sock[s].dev \in heard

AcksMatchRows ==
    \A d \in Devices, c \in Cmds, ok \in BOOLEAN :
      ack[<<d, c, ok>>].pc = "apply" => c \in Created /\ cmd[c].dev = d

SweepsMatchRows ==
    \A w \in Sweeps :
      /\ \A c \in sweep[w].batch : c \in Created /\ ExpiresAt(c) < now
      /\ sweep[w].pc \in {"ack", "expire"} => sweep[w].cmd \in sweep[w].batch
      /\ sweep[w].pc = "ack" => SmsSent(sweep[w].cmd)

IndInv ==
    /\ TypeOK
    /\ HandlersMatchRows
    /\ ConnectionsMatchRows
    /\ AcksMatchRows
    /\ SweepsMatchRows
    /\ DispatchTraceable
    /\ ExpiryJustified
    /\ OutcomeHasEvidence

\* Every command that was created ends in a final status and stays there,
\* whatever handlers, crashes and late writes did to it on the way.
EveryCommandSettles ==
    \A c \in Cmds : <>[](c \in Created => cmd[c].status \in Terminal)
=============================================================================
