------------------------------ MODULE RelayLink ------------------------------
(***************************************************************************)
(* The relay link (src/modules/relay-link/index.ts): the relay server with *)
(* the device registry, the command tracker, the mission sender and the    *)
(* facts kept of each connection, all driven by the server's events.       *)
(* Events are published synchronously: what they cause here is part of the *)
(* server's step.  Photos and a diagnostic sink are optional and absent    *)
(* here: their frames are routed to nobody.                                *)
(***************************************************************************)
EXTENDS RelayServer

CONSTANTS
  Command,   \* ids of createCommandId, each used once
  Mission,   \* mission ids, each transferred once
  Chunks     \* chunks of a mission

VARIABLES
  registry,  \* the paired devices and their connections
  commands,  \* command-tracker and the waiters of sendCommand
  missions,  \* mission-sender and its sending loops
  facts,     \* connections with telemetry or mission-phase facts
  lastPart   \* external: the last mission frame each phone got

linkVars == <<serverVars, registry, commands, missions, facts, lastPart>>

\* Frames a call sends: one for a command; begin, chunks and complete for a
\* mission.
LastPart == Chunks + 2
CommandFrame(k) == [call |-> k, part |-> 0]
MissionFrame(m, i) == [call |-> m, part |-> i]
Frames == [call : Command, part : {0}] \cup [call : Mission, part : 1..LastPart]

\* Frames that are routed: answers of the phone, and facts about it.
Facts == [fact : {"telemetry"}]
Answers == [call : Command \cup Mission, ok : BOOLEAN]

ASSUME LinkAssumption ==
  /\ Command \cap Mission = {}
  /\ Chunks \in Nat \ {0}
  /\ Bytes = Frames
  /\ Payload = Answers \cup Facts

Over == {"succeeded", "rejected", "timed-out", "disconnected", "transport-failed"}

NoCall == [status |-> "unused", connection |-> {}, part |-> 0]

\* part is the frame the sending loop of a mission awaits; 0, it has ended.
Calls == [status : {"unused", "waiting"} \cup Over, connection : Connection \cup {{}},
          part : 0..LastPart]

LinkInit ==
  /\ ServerInit
  /\ registry = {}
  /\ commands = [k \in Command |-> NoCall]
  /\ missions = [m \in Mission |-> NoCall]
  /\ facts = {}
  /\ lastPart = [c \in Connection |-> MissionFrame({}, 0)]

Registered(c, d) == [connection |-> c, device |-> d]
WaitsOn(call, c) == call.status = "waiting" /\ call.connection = c

-----------------------------------------------------------------------------
(* handleServerEvent, connection-paired and connection-closed *)

PairedNow == {c \in Connection : connections[c].phase # "paired" /\ connections'[c].phase = "paired"}
ClosedNow == {c \in Connection : ~connections[c].closed /\ connections'[c].closed}

CancelledNone(calls) == calls  \* mutant: the calls of a closed connection wait on

Cancelled(calls) ==
  [k \in DOMAIN calls |->
     IF \E c \in ClosedNow : WaitsOn(calls[k], c) THEN [calls[k] EXCEPT !.status = "disconnected"]
                                                  ELSE calls[k]]

Events ==
  /\ registry' =
       LET kept == {r \in registry : r.connection \notin ClosedNow}
       IN  kept \cup {Registered(c, connections'[c].reservedDeviceId) : c \in
             {p \in PairedNow : \A r \in kept :
                r.connection # p /\ r.device # connections'[p].reservedDeviceId}}
  /\ facts' = facts \ ClosedNow

\* Steps of the server nobody waits for.
ServerStep ==
  \/ Lifecycle
  \/ \E c \in Connection :
       \/ Accept(c) \/ HandshakeTimeout(c) \/ PeerCloses(c)
       \/ \E frame \in Range(connections[c].inbound) : Violates(c, frame) \/ Hello(c, frame)
       \/ Pairs(c) \/ PairingFails(c)
       \/ WriteFails(c)

Serves ==
  /\ ServerStep
  /\ Events
  /\ commands' = Cancelled(commands)
  /\ missions' = Cancelled(missions)
  /\ UNCHANGED lastPart

\* A phone says hello, reports a fact, breaks the protocol, or answers a call
\* whose frame, or the first of whose frames, has left; perhaps on a connection
\* it made since, perhaps too late, perhaps more than once.
Left(call, b) ==
  /\ call.status # "unused"
  /\ call.connection # {}
  /\ b \notin Range(connections[call.connection].outbound)

MaySay(c, frame) ==
  \/ frame.type \in {"hello", "rejected"}
  \/ /\ frame.type = "routed"
     /\ connections[c].phase = "paired"
     /\ \/ frame.payload \in Facts
        \/ /\ frame.payload \in Answers
           /\ \/ /\ frame.payload.call \in Command
                 /\ Left(commands[frame.payload.call], CommandFrame(frame.payload.call))
              \/ /\ frame.payload.call \in Mission
                 /\ Left(missions[frame.payload.call], MissionFrame(frame.payload.call, 1))

PhoneSends(c, frame) ==
  /\ MaySay(c, frame)
  /\ FrameArrives(c, frame)
  /\ Events
  /\ commands' = Cancelled(commands)
  /\ missions' = Cancelled(missions)
  /\ UNCHANGED lastPart

\* The transport took a frame.
FrameLeaves(c) ==
  /\ Written(c)
  /\ lastPart' = IF Head(connections[c].outbound).part > 0
                 THEN [lastPart EXCEPT ![c] = Head(connections[c].outbound)] ELSE lastPart
  /\ UNCHANGED <<registry, commands, missions, facts>>

-----------------------------------------------------------------------------
(* sendCommand and the command tracker *)

SendCommand(k, c) ==
  /\ commands[k].status = "unused"
  /\ \E r \in registry : r.connection = c
  /\ Send(c, CommandFrame(k))
  /\ Events
  /\ commands' = Cancelled([commands EXCEPT ![k] =
       [status |-> "waiting", connection |-> c, part |-> 0]])
  /\ missions' = Cancelled(missions)
  /\ UNCHANGED lastPart

\* A command that could not be sent cancels every command of its connection.
CommandSent(s) ==
  /\ s \in settled
  /\ s.bytes.part = 0
  /\ Continues(s)
  /\ commands' = [k \in Command |->
       IF ~s.ok /\ WaitsOn(commands[k], s.connection)
       THEN [commands[k] EXCEPT !.status = "disconnected"] ELSE commands[k]]
  /\ UNCHANGED <<registry, missions, facts, lastPart>>

CommandTimesOut(k) ==
  /\ commands[k].status = "waiting"
  /\ commands' = [commands EXCEPT ![k].status = "timed-out"]
  /\ UNCHANGED <<serverVars, registry, missions, facts, lastPart>>

-----------------------------------------------------------------------------
(* sendMission and the mission sender *)

Active(c) == {m \in Mission : WaitsOn(missions[m], c)}

SendMission(m, c) ==
  /\ missions[m].status = "unused"
  /\ \E r \in registry : r.connection = c
  /\ IF Active(c) # {}
     THEN /\ missions' = [missions EXCEPT ![m].status = "rejected"]
          /\ UNCHANGED <<serverVars, registry, commands, facts>>
     ELSE /\ Send(c, MissionFrame(m, 1))
          /\ Events
          /\ commands' = Cancelled(commands)
          /\ missions' = Cancelled([missions EXCEPT ![m] =
               [status |-> "waiting", connection |-> c, part |-> 1]])
  /\ UNCHANGED lastPart

\* The sending loop continues after a frame: it goes on only if the frame was
\* sent and the mission is still pending.
LoopEnds(m, s, status) ==
  /\ Continues(s)
  /\ missions' = [missions EXCEPT ![m].part = 0, ![m].status = status]
  /\ UNCHANGED <<registry, commands, facts>>

LoopSends(m, s) ==
  LET c == s.connection
      next == MissionFrame(m, s.bytes.part + 1)
  IN  /\ connections' = AfterSend(c, next)
      /\ settled' = (settled \ {s}) \cup RefusedBySend(c, next)
      /\ UNCHANGED lifecycleVars
      /\ Events
      /\ commands' = Cancelled(commands)
      /\ missions' = Cancelled([missions EXCEPT ![m].part = next.part])

LoopRegardless(m, s) ==  \* mutant: that the mission is over is not looked at
  IF s.ok /\ s.bytes.part < LastPart THEN LoopSends(m, s)
  ELSE IF s.ok THEN LoopEnds(m, s, missions[m].status)
  ELSE LoopEnds(m, s, IF missions[m].status = "waiting" THEN "transport-failed" ELSE missions[m].status)

LoopContinues(m, s) ==
  IF missions[m].status # "waiting" THEN LoopEnds(m, s, missions[m].status)
  ELSE IF ~s.ok THEN LoopEnds(m, s, "transport-failed")
  ELSE IF s.bytes.part < LastPart THEN LoopSends(m, s)
  ELSE LoopEnds(m, s, "waiting")

PartSent(s) ==
  /\ s \in settled
  /\ s.bytes.part > 0
  /\ LoopContinues(s.bytes.call, s)
  /\ UNCHANGED lastPart

MissionTimesOut(m) ==
  /\ missions[m].status = "waiting"
  /\ missions' = [missions EXCEPT ![m].status = "timed-out"]
  /\ UNCHANGED <<serverVars, registry, commands, facts, lastPart>>

-----------------------------------------------------------------------------
(* handleServerEvent, frame *)

\* tracker.resolve() and missions.acceptResult(): only a call pending on the
\* very connection is resolved.
Resolved(calls, c, answer) ==
  [k \in DOMAIN calls |->
     IF k = answer.call /\ WaitsOn(calls[k], c)
     THEN [calls[k] EXCEPT !.status = IF answer.ok THEN "succeeded" ELSE "rejected"]
     ELSE calls[k]]

FrameRouted(c, frame) ==
  /\ Routes(c, frame)
  /\ IF frame.type = "routed" /\ frame.payload \in Answers
     THEN /\ commands' = Resolved(commands, c, frame.payload)
          /\ missions' = Resolved(missions, c, frame.payload)
     ELSE UNCHANGED <<commands, missions>>
  /\ facts' = IF frame.type = "routed" /\ frame.payload \in Facts THEN facts \cup {c} ELSE facts
  /\ UNCHANGED <<registry, lastPart>>

-----------------------------------------------------------------------------
LinkNext ==
  \/ Serves
  \/ \E c \in Connection :
       \/ \E frame \in Frame : PhoneSends(c, frame)
       \/ \E frame \in Range(connections[c].inbound) : FrameRouted(c, frame)
       \/ FrameLeaves(c)
       \/ \E k \in Command : SendCommand(k, c)
       \/ \E m \in Mission : SendMission(m, c)
  \/ \E s \in settled : CommandSent(s) \/ PartSent(s)
  \/ \E k \in Command : CommandTimesOut(k)
  \/ \E m \in Mission : MissionTimesOut(m)

LinkSpec == LinkInit /\ [][LinkNext]_linkVars

-----------------------------------------------------------------------------
LinkTypeOK ==
  /\ ServerTypeOK
  /\ registry \subseteq [connection : Connection, device : Device]
  /\ commands \in [Command -> Calls]
  /\ missions \in [Mission -> Calls]
  /\ facts \subseteq Connection
  /\ lastPart \in [Connection -> Frames \cup {MissionFrame({}, 0)}]

\* The devices the relay link shows are exactly the paired connections: no
\* replacement, stop or overtaken pairing makes a registration fail or stay,
\* and what is known of a phone goes with its connection.
RegistryMirrorsServer ==
  /\ registry = {Registered(c, connections[c].reservedDeviceId) : c \in {e \in Connection : Paired(e)}}
  /\ facts \subseteq {r.connection : r \in registry}

\* A sending loop always has its frame in a queue that is being written, or its answer on the
\* way: no close, overflow or timeout leaves it suspended.  And only sends on a closed connection
\* fail, so that cancelling every command of the connection never strikes one that the phone may
\* still answer.
SendsAreSettled ==
  /\ \A m \in Mission :
       LET frame == MissionFrame(m, missions[m].part)
       IN  missions[m].part > 0 =>
             \/ frame \in Range(connections[missions[m].connection].outbound)
             \/ \E s \in settled : s.bytes = frame
  /\ \A s \in settled : ~s.ok => connections[s.connection].closed

\* What a phone gets of a mission is its frames in order, never mixed with the
\* frames of a mission that timed out before it.
TransfersDoNotInterleave ==
  [][\A c \in Connection :
       lastPart'[c] # lastPart[c] /\ lastPart'[c].part > 1
         => lastPart[c] = [lastPart'[c] EXCEPT !.part = @ - 1]]_linkVars

\* The relay link keeps the gateway's promises.
CallOf(k) == IF k \in Command THEN commands[k] ELSE missions[k]

Gateway == INSTANCE RelayGateway WITH
  Call <- Command \cup Mission,
  connected <- {r.device : r \in registry},
  waiting <- [k \in Command \cup Mission |->
                IF CallOf(k).status = "waiting" THEN connections[CallOf(k).connection].reservedDeviceId
                ELSE NoDevice],
  answered <- {k \in Command \cup Mission : CallOf(k).status \in Over}

KeepsPromises == Gateway!GatewaySpec

\* For TLC: what a phone may send, and what may be exchanged.
Everything == Answers \cup Facts
LinkSymmetry == Permutations(Connection) \cup Permutations(Command) \cup Permutations(Mission)
=============================================================================
