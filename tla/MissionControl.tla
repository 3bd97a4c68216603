---------------------------- MODULE MissionControl ----------------------------
(***************************************************************************)
(* Mission control (src/modules/mission-control/index.ts): the dispatcher  *)
(* fed by the snapshots of the relay link.                                 *)
(*                                                                         *)
(* Every relay event publishes a whole snapshot synchronously, and one run *)
(* of receiveRelaySnapshot arms and cancels the grace timers, then applies *)
(* the latest mission-phase fact and the latest telemetry of each phone    *)
(* that is connected, old or new.  The phone itself is external: what it   *)
(* reports is what the contracts and tests of src/ say it reports.         *)
(***************************************************************************)
EXTENDS MissionDispatcher

CONSTANTS
  StagedRoute   \* the route the operator stages as his nth mission

ASSUME ControlAssumption ==
  /\ StagedRoute \in [1..MaxMissions -> Route]
  /\ MaxSequence = 2

VARIABLES
  online,         \* the devices of the last snapshot
  disconnectTimers, \* phones whose grace period is running
  phaseFact,      \* the mission-phase fact kept for each connection
  telemetry,      \* the latest telemetry of each connection
  appliedPhases,  \* the last fact each lane accepted
  phone,          \* external: the run each phone executes
  named,          \* external: how phones named the runs of the missions
  ended           \* external: how the runs of the missions ended

relayVars == <<online, disconnectTimers, phaseFact, telemetry, appliedPhases>>
phoneVars == <<phone, named, ended>>
controlVars == <<vars, relayVars, phoneVars>>

\* A fact carries the mission's file, its (deviceGeneration, missionRevision)
\* as one ordered Identity, and a sequence number; sequence 0 is no fact.
\* START_POINT_REACHED is the first fact of a run, ROUTE_EXECUTION_STARTED
\* the second.
Fact == [mission : 0..MaxMissions, identity : Identity \cup {NoIdentity},
         sequence : 0..MaxSequence]
NoFact == [mission |-> NoMission, identity |-> NoIdentity, sequence |-> 0]

\* The mission part of a telemetry payload, which matters only when it names an
\* outcome; before the first frame, unknown.
Telemetry == [known : BOOLEAN, mission : 0..MaxMissions,
              identity : Identity \cup {NoIdentity}, outcome : Outcomes \cup {None}]
NoTelemetry == [known |-> FALSE, mission |-> NoMission, identity |-> NoIdentity,
                outcome |-> None]

Run == [mission : 0..MaxMissions, identity : Identity \cup {NoIdentity},
        sequence : 0..MaxSequence, outcome : Outcomes \cup {None}]
NoRun == [mission |-> NoMission, identity |-> NoIdentity, sequence |-> 0,
          outcome |-> None]

ControlInit ==
  /\ Init
  /\ online = [d \in Device |-> FALSE]
  /\ disconnectTimers = {}
  /\ phaseFact = [d \in Device |-> NoFact]
  /\ telemetry = [d \in Device |-> NoTelemetry]
  /\ appliedPhases = [d \in Device |-> NoFact]
  /\ phone = [d \in Device |-> NoRun]
  /\ named = {}
  /\ ended = {}

-----------------------------------------------------------------------------
(* receiveRelaySnapshot *)

\* stalePhase(): generation and revision first, then the sequence.  Also the
\* order in which the intake of the relay link refuses a fact.
StalePhase(fact, applied) ==
  \/ fact.identity < applied.identity
  \/ fact.identity = applied.identity /\ fact.sequence <= applied.sequence

Milestone(fact) ==
  IF fact.sequence = 1 THEN "START_POINT_REACHED" ELSE "ROUTE_EXECUTION_STARTED"

Applies(l, fact, applied) ==
  /\ ~StalePhase(fact, applied)
  /\ Acceptable(l, StagedRoute[fact.mission], fact.identity, fact.sequence)

Starts(l, fact) ==
  Milestone(fact) = "ROUTE_EXECUTION_STARTED" /\ l.machine.phase = "starting"

AfterPhase(l, fact, applied) ==
  IF ~Applies(l, fact, applied) THEN l
  ELSE IF Starts(l, fact) THEN Running(l, fact.identity, fact.sequence)
  ELSE Reached(l, fact.identity, fact.sequence, Milestone(fact))

AfterTerminal(l, report) ==
  IF /\ report.outcome # None
     /\ MayEnd(l, StagedRoute[report.mission], report.identity, report.outcome)
  THEN Over(l, report.outcome) ELSE l

\* Mutant of the next: a fact the lane ignored counts as applied too.
ReceiveMarkingAll(facts, reports) ==
  /\ lane' = [d \in Device |->
       AfterTerminal(AfterPhase(lane[d], facts[d], appliedPhases[d]), reports[d])]
  /\ appliedPhases' = [d \in Device |->
       IF StalePhase(facts[d], appliedPhases[d]) THEN appliedPhases[d] ELSE facts[d]]
  /\ UNCHANGED <<flights, staged, confirmedUploads, maybeFlying>>

\* The facts of a snapshot, phases first and terminal states after them.
Receive(facts, reports) ==
  LET applied == {d \in Device : Applies(lane[d], facts[d], appliedPhases[d])}
  IN  /\ lane' = [d \in Device |->
           AfterTerminal(AfterPhase(lane[d], facts[d], appliedPhases[d]), reports[d])]
      /\ appliedPhases' = [d \in Device |->
           IF d \in applied THEN facts[d] ELSE appliedPhases[d]]
      /\ maybeFlying' = maybeFlying \cup
           {lane[d].machine.missionId : d \in {e \in applied : Starts(lane[e], facts[e])}}
      /\ UNCHANGED <<flights, staged, confirmedUploads>>

-----------------------------------------------------------------------------
(* Relay events *)

\* What a phone no longer connected is owed has been answered (see Answer), and
\* its continuations run before the next relay event does.
Settled(d) == FlightsOf(d) = {}

PairKeepingTimer(d) ==  \* mutant: the grace period goes on
  /\ ~online[d]
  /\ Settled(d)
  /\ online' = [online EXCEPT ![d] = TRUE]
  /\ Receive(phaseFact, telemetry)
  /\ UNCHANGED <<disconnectTimers, phaseFact, telemetry, phoneVars>>

\* connection-paired: the phone is in the snapshot again.
Pair(d) ==
  /\ ~online[d]
  /\ Settled(d)
  /\ online' = [online EXCEPT ![d] = TRUE]
  /\ disconnectTimers' = disconnectTimers \ {d}
  /\ Receive(phaseFact, telemetry)
  /\ UNCHANGED <<phaseFact, telemetry, phoneVars>>

CloseUntimed(d) ==  \* mutant: no grace period begins
  /\ online[d]
  /\ online' = [online EXCEPT ![d] = FALSE]
  /\ phaseFact' = [phaseFact EXCEPT ![d] = NoFact]
  /\ telemetry' = [telemetry EXCEPT ![d] = NoTelemetry]
  /\ Receive(phaseFact', telemetry')
  /\ UNCHANGED <<disconnectTimers, phoneVars>>

\* connection-closed: what was known of the connection goes with it.
Close(d) ==
  /\ online[d]
  /\ online' = [online EXCEPT ![d] = FALSE]
  /\ disconnectTimers' = disconnectTimers \cup {d}
  /\ phaseFact' = [phaseFact EXCEPT ![d] = NoFact]
  /\ telemetry' = [telemetry EXCEPT ![d] = NoTelemetry]
  /\ Receive(phaseFact', telemetry')
  /\ UNCHANGED phoneVars

\* A mission-phase frame about the phone's run.
ReportPhase(d) ==
  LET fact == [mission |-> phone[d].mission, identity |-> phone[d].identity,
               sequence |-> phone[d].sequence]
  IN  /\ online[d]
      /\ phone[d].sequence > 0
      /\ ~StalePhase(fact, phaseFact[d])
      /\ phaseFact' = [phaseFact EXCEPT ![d] = fact]
      /\ Receive(phaseFact', telemetry)
      /\ UNCHANGED <<online, disconnectTimers, telemetry, phoneVars>>

\* A telemetry frame; it also stands for every other event that publishes.
ReportTelemetry(d) ==
  LET report == IF phone[d].outcome = None THEN [NoTelemetry EXCEPT !.known = TRUE]
                ELSE [known |-> TRUE, mission |-> phone[d].mission,
                      identity |-> phone[d].identity, outcome |-> phone[d].outcome]
  IN  /\ online[d]
      /\ telemetry' = [telemetry EXCEPT ![d] = report]
      /\ Receive(phaseFact, telemetry')
      /\ UNCHANGED <<online, disconnectTimers, phaseFact, phoneVars>>

\* The grace period is over and the phone is still gone.
GraceExpires(d) ==
  /\ d \in disconnectTimers
  /\ Settled(d)
  /\ disconnectTimers' = disconnectTimers \ {d}
  /\ appliedPhases' = [appliedPhases EXCEPT ![d] = NoFact]
  /\ \/ RecordDisconnected(d)
     \/ ~Legal(lane[d].machine, "connection-lost", NoMission) /\ UNCHANGED vars
  /\ UNCHANGED <<online, phaseFact, telemetry, phoneVars>>

-----------------------------------------------------------------------------
(* The operator *)

ControlStage(d) ==
  /\ staged < MaxMissions
  /\ Stage(d, StagedRoute[staged + 1])
  /\ UNCHANGED <<relayVars, phoneVars>>

\* The preflight check wants the phone connected and its telemetry received.
ControlCommand(d, operation) ==
  /\ telemetry[d].known
  /\ Command(d, operation)
  /\ UNCHANGED <<relayVars, phoneVars>>

ControlRefuse(d) == Refuse(d) /\ UNCHANGED <<relayVars, phoneVars>>

ControlRelease(d) ==
  /\ Release(d)
  /\ appliedPhases' = [appliedPhases EXCEPT ![d] = NoFact]
  /\ UNCHANGED <<online, disconnectTimers, phaseFact, telemetry, phoneVars>>

ControlForget(d) == Forget(d) /\ UNCHANGED <<relayVars, phoneVars>>

AnswerKeepingMark(f, reply) ==  \* mutant: a new mission keeps the old mark
  /\ Settle(f, reply)
  /\ online[f.device] \/ reply = "UNCONFIRMED"
  /\ UNCHANGED <<relayVars, phoneVars>>

\* The relay answers a call; for a phone that is gone, that it is gone.  A
\* confirmed stage clears the mark of the last applied fact.
Answer(f, reply) ==
  /\ Settle(f, reply)
  /\ online[f.device] \/ reply = "UNCONFIRMED"
  /\ appliedPhases' =
       IF f.operation = "stage" /\ Current(f) /\ lane'[f.device].lastResult = "ok"
       THEN [appliedPhases EXCEPT ![f.device] = NoFact] ELSE appliedPhases
  /\ UNCHANGED <<online, disconnectTimers, phaseFact, telemetry, phoneVars>>

-----------------------------------------------------------------------------
(* The phone, external *)

\* It starts a mission it was told to start and names the run; the name of a
\* later run ranks higher.
PhoneBegins(d) ==
  /\ phone[d].identity + 1 \in Identity
  /\ \E m \in 1..MaxMissions :
       /\ m > phone[d].mission
       /\ \E f \in FlightsOf(d) : f.operation = "start" /\ f.missionId = m
       /\ phone' = [phone EXCEPT ![d] =
            [mission |-> m, identity |-> phone[d].identity + 1,
             sequence |-> 0, outcome |-> None]]
       /\ named' = named \cup {<<m, phone[d].identity + 1>>}
  /\ UNCHANGED <<vars, relayVars, ended>>

\* It passes a milestone of its run.
PhoneAdvances(d) ==
  /\ phone[d].mission # NoMission
  /\ phone[d].outcome = None
  /\ phone[d].sequence < MaxSequence
  /\ phone' = [phone EXCEPT ![d].sequence = @ + 1]
  /\ UNCHANGED <<vars, relayVars, named, ended>>

PhoneEnds(d, outcome) ==
  /\ phone[d].sequence > 0
  /\ phone[d].outcome = None
  /\ phone' = [phone EXCEPT ![d].outcome = outcome]
  /\ ended' = ended \cup {<<phone[d].mission, outcome>>}
  /\ UNCHANGED <<vars, relayVars, named>>

-----------------------------------------------------------------------------
OperatorActs(d) ==
  \/ ControlStage(d)
  \/ \E operation \in Commands : ControlCommand(d, operation)
  \/ ControlRefuse(d)
  \/ ControlRelease(d)
  \/ ControlForget(d)

RelayActs(d) == Pair(d) \/ Close(d) \/ ReportPhase(d) \/ ReportTelemetry(d)

PhoneActs(d) ==
  \/ PhoneBegins(d)
  \/ PhoneAdvances(d)
  \/ \E outcome \in Outcomes : PhoneEnds(d, outcome)

AnswerTo(p) ==
  \E f \in flights : f.promise = p /\ \E reply \in RepliesTo(f.operation) : Answer(f, reply)

ControlNext ==
  \/ \E d \in Device :
       OperatorActs(d) \/ RelayActs(d) \/ GraceExpires(d) \/ PhoneActs(d)
  \/ \E p \in Promise : AnswerTo(p)

ControlSpec == ControlInit /\ [][ControlNext]_controlVars

\* Calls are answered and timers fire; phones repeat their telemetry and send
\* the milestones they pass.
ControlFairness ==
  /\ \A p \in Promise : WF_controlVars(AnswerTo(p))
  /\ \A d \in Device : /\ WF_controlVars(GraceExpires(d))
                       /\ WF_controlVars(ReportPhase(d))
                       /\ WF_controlVars(ReportTelemetry(d))

FairControlSpec == ControlSpec /\ ControlFairness

-----------------------------------------------------------------------------
ControlTypeOK ==
  /\ TypeOK
  /\ online \in [Device -> BOOLEAN]
  /\ disconnectTimers \subseteq Device
  /\ phaseFact \in [Device -> Fact]
  /\ telemetry \in [Device -> Telemetry]
  /\ appliedPhases \in [Device -> Fact]
  /\ phone \in [Device -> Run]
  /\ named \subseteq (1..MaxMissions) \X Identity
  /\ ended \subseteq (1..MaxMissions) \X Outcomes

\* The grace timer runs only while the phone is gone, and a lane whose phone is
\* gone is timed until it is over: no reconnection leaves a timer behind that
\* would later declare a present phone lost, none is left without its timer.
GoneLanesAreTimed ==
  \A d \in Device :
    /\ d \in disconnectTimers => ~online[d]
    /\ ~online[d] /\ PhaseOf(d) \in DISCONNECTABLE /\ Settled(d) => d \in disconnectTimers

\* What is left of facts applied to an earlier mission never makes the facts of
\* the mission now being flown look stale.
WatermarkIsOfTheRun ==
  \A d \in Device :
    PhaseOf(d) \in {"starting", "running"} /\ appliedPhases[d] # NoFact
      => appliedPhases[d].identity = lane[d].missionIdentity

\* A lane is locked only to a run of its own mission, when no route is staged
\* twice.
LockedToOwnRun ==
  \A d \in Device :
    lane[d].missionIdentity # NoIdentity /\ lane[d].machine.missionId # NoMission
      => <<lane[d].machine.missionId, lane[d].missionIdentity>> \in named

\* A mission is shown completed only after its phone ended it so.
CompletedMissionsEnded ==
  \A d \in Device :
    PhaseOf(d) = "completed" => <<lane[d].machine.missionId, "completed">> \in ended

\* When no route is staged twice, what a lane shows of a run is true of its own
\* mission, however stale, repeated or reordered the facts of the phone arrive.
RunsAreOwn == LockedToOwnRun /\ CompletedMissionsEnded

\* A phone that is back within the grace period finds its lane in the phase it
\* left it, and only the end of the grace period loses a mission.
OnlyTheGoneAreLost ==
  [][\A d \in Device :
       PhaseOf(d)' = "disconnected" /\ PhaseOf(d) \notin {"disconnected", "stopping"}
         => ~online[d]]_controlVars

\* A lane whose phone stays away does not stay active.
AbsenceEnds ==
  \A d \in Device : ~online[d] ~> online[d] \/ PhaseOf(d) \notin DISCONNECTABLE

\* The operator eventually sees that his mission is being executed, even when
\* the fact arrived while the lane was in a phase that ignores it: unless the
\* lane used the fact up already, the snapshots keep presenting it.
ExecutionIsSeen ==
  \A d \in Device :
    /\ PhaseOf(d) = "starting"
    /\ lane[d].missionPhaseSequence < 2
    /\ phone[d].mission = lane[d].machine.missionId
    /\ phone[d].sequence = 2
    ~> \/ ~online[d]
       \/ PhaseOf(d) # "starting"

-----------------------------------------------------------------------------
(* Instances for TLC: each mission flies a route of its own, or all the same. *)

DifferentRoutes ==
  CHOOSE f \in [1..MaxMissions -> Route] : \A m, n \in 1..MaxMissions : m # n => f[m] # f[n]
SameRoute ==
  CHOOSE f \in [1..MaxMissions -> Route] : \A m, n \in 1..MaxMissions : f[m] = f[n]
=============================================================================
