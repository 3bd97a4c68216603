------------------------ MODULE MissionControlProofs ------------------------
(***************************************************************************)
(* Theorems about the mission dispatcher, for every set of phones, routes  *)
(* and identities and any number of missions, releases and replies; and    *)
(* about mission control, the dispatcher fed by the snapshots of the relay *)
(* link, for any number of phones as well.                                 *)
(***************************************************************************)
EXTENDS MissionControl, FiniteSetTheorems, TLAPS

-----------------------------------------------------------------------------
(* The mission phase machine, for every machine and event *)

Events ==
  {"stage-requested", "stage-succeeded", "upload-requested", "upload-succeeded",
   "upload-rejected", "start-requested", "start-succeeded", "start-rejected",
   "pause-requested", "pause-succeeded", "pause-rejected", "resume-requested",
   "resume-succeeded", "resume-rejected", "stop-requested", "stop-succeeded",
   "stop-rejected", "mission-completed", "operation-failed", "connection-lost"}

\* Only the known events are ever accepted.
LEMMA LegalEvents ==
  ASSUME NEW m, NEW e, NEW id, Legal(m, e, id)
  PROVE  e \in Events
BY DEF Legal, LegalFrom, Events

\* An accepted event leads from a machine to a machine: whatever the hidden
\* variables give back to the phase (stoppedFrom, pausedFrom) is a phase.
LEMMA SuccessorType ==
  ASSUME NEW m \in Machine, NEW e, NEW id \in Nat, Legal(m, e, id)
  PROVE  Successor(m, e, id) \in Machine
<1>1. e \in Events
  BY LegalEvents
<1>2. /\ STOPPABLE \subseteq MissionPhases
      /\ m.phase \in MissionPhases
  BY DEF STOPPABLE, MissionPhases, Machine
<1>3. CASE e = "stop-requested"
  BY <1>2, <1>3 DEF Machine, Legal, LegalFrom, Successor, MissionPhases
<1>4. CASE e = "stop-rejected"
  BY <1>2, <1>4 DEF Machine, Legal, LegalFrom, Successor
<1>5. CASE e = "pause-requested"
  BY <1>2, <1>5 DEF Machine, Legal, LegalFrom, Successor, MissionPhases
<1>6. CASE e \in {"stage-requested", "stop-succeeded", "mission-completed",
                  "operation-failed", "connection-lost"}
  BY ZenonT(60), <1>2, <1>6 DEF Machine, Successor, Ended, MissionPhases, NoMission
<1>7. CASE e \in {"start-requested", "start-succeeded", "start-rejected"}
  BY <1>2, <1>7 DEF Machine, Successor, MissionPhases
<1>8. CASE e \in {"pause-succeeded", "pause-rejected"}
  BY <1>2, <1>8 DEF Machine, Successor, MissionPhases
<1>9. CASE e \in {"resume-requested", "resume-succeeded", "resume-rejected"}
  BY <1>2, <1>9 DEF Machine, Successor, MissionPhases
<1>10. CASE e \in {"stage-succeeded", "upload-requested", "upload-succeeded",
                   "upload-rejected"}
  BY <1>2, <1>10 DEF Machine, Successor, MissionPhases
<1> QED
  BY <1>1, <1>3, <1>4, <1>5, <1>6, <1>7, <1>8, <1>9, <1>10 DEF Events

\* The mission of a lane changes only by staging another or by a stop.
LEMMA MissionKept ==
  ASSUME NEW m \in Machine, NEW e, NEW id \in Nat, Legal(m, e, id),
         e # "stage-requested", e # "stop-succeeded"
  PROVE  Successor(m, e, id).missionId = m.missionId
BY LegalEvents DEF Machine, Successor, Ended, Events

\* An idle machine accepts nothing but a new mission.
LEMMA IdleRefuses ==
  ASSUME NEW m, NEW e, NEW id, m.phase = "idle", Legal(m, e, id)
  PROVE  e = "stage-requested"
BY DEF Legal, LegalFrom, STOPPABLE, FAILUREABLE, DISCONNECTABLE

-----------------------------------------------------------------------------
(* Types *)

LEMMA Zeroes ==
  /\ 0 \in 0..MaxEpoch
  /\ 0 \in 0..MaxSequence
  /\ 0 \in 0..MaxMissions
BY DispatcherAssumption

\* Each way the dispatcher rewrites a lane yields a lane.
LEMMA FreshLaneType ==
  ASSUME NEW exists \in BOOLEAN, NEW epoch \in 0..MaxEpoch
  PROVE  FreshLane(exists, epoch) \in Lane
BY Zeroes
   DEF FreshLane, Lane, IdleMachine, Machine, MissionPhases, NoMission, None,
       NoIdentity, Results

LEMMA BeginFlightType ==
  ASSUME NEW l \in Lane, NEW m \in Machine
  PROVE  BeginFlight(l, m) \in Lane
<1>1. l.inFlightCount + 1 \in Nat
  BY DEF Lane
<1>2. ASSUME NEW n \in Nat PROVE [l EXCEPT !.machine = m, !.inFlightCount = n] \in Lane
  BY DEF Lane
<1> QED
  BY <1>1, <1>2 DEF BeginFlight

LEMMA EndFlightType ==
  ASSUME NEW l \in Lane, NEW m \in Machine, NEW result \in Results
  PROVE  EndFlight(l, m, result) \in Lane
<1>1. l.inFlightCount \in Nat
  BY DEF Lane
<1>2. (IF l.inFlightCount > 0 THEN l.inFlightCount - 1 ELSE 0) \in Nat
  BY <1>1
<1>3. ASSUME NEW n \in Nat
      PROVE [l EXCEPT !.machine = m, !.lastResult = result, !.inFlightCount = n] \in Lane
  BY DEF Lane
<1> QED
  BY <1>2, <1>3 DEF EndFlight

LEMMA ForRouteType ==
  ASSUME NEW l \in Lane, NEW route \in Route
  PROVE  ForRoute(l, route) \in Lane
BY Zeroes DEF ForRoute, Lane, NoIdentity

LEMMA LostType ==
  ASSUME NEW l \in Lane, Legal(l.machine, "connection-lost", NoMission)
  PROVE  Lost(l) \in Lane
<1>1. l.machine \in Machine /\ NoMission \in Nat
  BY DEF Lane, NoMission
<1>2. Successor(l.machine, "connection-lost", NoMission) \in Machine
  BY <1>1, SuccessorType
<1> QED
  BY <1>2, Zeroes DEF Lost, Lane

LEMMA ReachedType ==
  ASSUME NEW l \in Lane, NEW identity \in Identity \cup {NoIdentity}, NEW sequence \in 0..MaxSequence,
         NEW milestone
  PROVE  Reached(l, identity, sequence, milestone) \in Lane
<1>1. (l.startPointReached \/ milestone = "START_POINT_REACHED") \in BOOLEAN
  OBVIOUS
<1>2. ASSUME NEW b \in BOOLEAN
      PROVE [l EXCEPT !.missionIdentity = identity, !.missionPhaseSequence = sequence,
                      !.startPointReached = b] \in Lane
  BY DEF Lane
<1> QED
  BY <1>1, <1>2 DEF Reached

LEMMA RunningType ==
  ASSUME NEW l \in Lane, NEW identity \in Identity \cup {NoIdentity}, NEW sequence \in 0..MaxSequence
  PROVE  Running(l, identity, sequence) \in Lane
<1>1. Successor(l.machine, "start-succeeded", NoMission) \in Machine
  BY DEF Lane, Machine, Successor, MissionPhases
<1>2. ASSUME NEW m \in Machine
      PROVE [l EXCEPT !.missionIdentity = identity, !.missionPhaseSequence = sequence,
                      !.machine = m, !.routeExecutionStarted = TRUE] \in Lane
  BY DEF Lane
<1> QED
  BY <1>1, <1>2 DEF Running

LEMMA ReplyMachine ==
  ASSUME NEW m \in Machine, NEW f \in Flight, NEW reply
  PROVE  AfterReply(m, f, reply) \in Machine
BY SuccessorType DEF AfterReply, Transition, Flight

LEMMA AwaitType ==
  ASSUME TypeOK, NEW d \in Device, NEW operation \in Operations, NEW mission \in Nat,
         Await(d, operation, mission)
  PROVE  flights' \subseteq Flight
<1>1. lane[d].epoch \in 0..MaxEpoch /\ PhaseOf(d) \in MissionPhases
  BY DEF TypeOK, Lane, Machine, PhaseOf
<1> QED
  BY <1>1 DEF TypeOK, Await, Flight, FreePromises

\* A step that writes a lane into one device's place keeps all lanes typed.
LEMMA LaneWritten ==
  ASSUME TypeOK, NEW d \in Device, NEW new \in Lane, lane' = [lane EXCEPT ![d] = new]
  PROVE  lane' \in [Device -> Lane]
BY DEF TypeOK

\* Lanes, flights and the auxiliary sets keep their types in every step.
LEMMA TypeStep ==
  ASSUME TypeOK, [Next]_vars
  PROVE  TypeOK'
<1>l. \A d \in Device : lane[d] \in Lane /\ lane[d].machine \in Machine
  BY DEF TypeOK, Lane
<1>n. NoMission \in Nat /\ \A d \in Device : lane[d].machine.missionId \in Nat
  BY <1>l DEF NoMission, Machine
<1>1. ASSUME NEW d \in Device, NEW route \in Route, Stage(d, route)
      PROVE  TypeOK'
  <2>1. staged + 1 \in Nat /\ staged' \in 0..MaxMissions
    BY <1>1, DispatcherAssumption DEF Stage, TypeOK
  <2>2. Successor(lane[d].machine, "stage-requested", staged + 1) \in Machine
    BY <1>1, <1>l, <2>1, SuccessorType DEF Stage
  <2>3. lane' \in [Device -> Lane]
    BY <1>1, <1>l, <2>2, ForRouteType, BeginFlightType, LaneWritten DEF Stage
  <2>4. flights' \subseteq Flight
    BY <1>1, <2>1, AwaitType DEF Stage, Operations
  <2> QED
    BY <1>1, <2>1, <2>3, <2>4 DEF Stage, TypeOK
<1>2. ASSUME NEW d \in Device, NEW operation \in Commands, Command(d, operation)
      PROVE  TypeOK'
  <2>1. Successor(lane[d].machine, RequestEvent(operation), NoMission) \in Machine
    BY <1>2, <1>l, <1>n, SuccessorType DEF Command
  <2>2. lane' \in [Device -> Lane]
    BY <1>2, <1>l, <2>1, BeginFlightType, LaneWritten DEF Command
  <2>3. flights' \subseteq Flight
    BY <1>2, <1>n, AwaitType DEF Command, Operations
  <2> QED
    BY <1>2, <2>2, <2>3 DEF Command, TypeOK
<1>3. ASSUME NEW d \in Device, Refuse(d)
      PROVE  TypeOK'
  <2>1. [lane[d] EXCEPT !.lastResult = "failed"] \in Lane
    BY <1>l DEF Lane, Results
  <2> QED
    BY <1>3, <2>1, LaneWritten DEF Refuse, TypeOK
<1>4. ASSUME NEW d \in Device, Release(d) \/ Forget(d)
      PROVE  TypeOK'
  <2>1. lane[d].epoch + 1 \in 0..MaxEpoch
    <3>1. lane[d].epoch \in 0..MaxEpoch
      BY <1>l DEF Lane
    <3>2. lane[d].epoch < MaxEpoch
      BY <1>4 DEF Release, Forget
    <3> QED
      BY <3>1, <3>2, DispatcherAssumption
  <2> QED
    BY <1>4, <2>1, FreshLaneType, LaneWritten DEF Release, Forget, TypeOK
<1>5. ASSUME NEW d \in Device, RecordDisconnected(d)
      PROVE  TypeOK'
  BY <1>5, <1>l, LostType, LaneWritten DEF RecordDisconnected, TypeOK
<1>6. ASSUME NEW d \in Device, NEW route \in Route, NEW identity \in Identity,
             NEW sequence \in 1..MaxSequence, NEW milestone \in Milestones,
             RecordMissionPhase(d, route, identity, sequence, milestone)
      PROVE  TypeOK'
  <2>1. sequence \in 0..MaxSequence
    OBVIOUS
  <2>2. CASE RecordMilestone(d, route, identity, sequence, milestone)
    BY <2>1, <2>2, <1>l, ReachedType, LaneWritten DEF RecordMilestone, TypeOK
  <2>3. CASE RecordStarted(d, route, identity, sequence)
    BY <2>1, <2>3, <1>l, <1>n, RunningType, LaneWritten DEF RecordStarted, TypeOK
  <2> QED
    BY <1>6, <2>2, <2>3 DEF RecordMissionPhase
<1>7. ASSUME NEW d \in Device, NEW route \in Route, NEW identity \in Identity,
             RecordExecutionStarted(d, route, identity)
      PROVE  TypeOK'
  <2>1. lane[d].missionPhaseSequence \in 0..MaxSequence
    BY <1>l DEF Lane
  <2> QED
    BY <1>7, <2>1, <1>l, <1>n, RunningType, LaneWritten DEF RecordExecutionStarted, TypeOK
<1>8. ASSUME NEW d \in Device, NEW route \in Route, NEW identity \in Identity,
             NEW outcome \in Outcomes, RecordExecutionTerminal(d, route, identity, outcome)
      PROVE  TypeOK'
  <2>1. Successor(lane[d].machine, TerminalEvent(outcome), NoMission) \in Machine
    BY <1>8, <1>l, <1>n, SuccessorType DEF RecordExecutionTerminal, MayEnd
  <2>2. ASSUME NEW m \in Machine PROVE [lane[d] EXCEPT !.machine = m] \in Lane
    BY <1>l DEF Lane
  <2> QED
    BY <1>8, <2>1, <2>2, LaneWritten DEF RecordExecutionTerminal, Over, TypeOK
<1>9. ASSUME NEW f \in flights, NEW reply, Settle(f, reply)
      PROVE  TypeOK'
  <2>1. f \in Flight /\ f.device \in Device /\ f.missionId \in Nat
    BY DEF TypeOK, Flight
  <2>2. lane' \in [Device -> Lane]
    <3>1. CASE SettleCurrent(f, reply)
      BY <3>1, <2>1, <1>l, ReplyMachine, EndFlightType, LaneWritten
         DEF SettleCurrent, Results
    <3>2. CASE SettleStale(f)
      BY <3>2 DEF SettleStale, TypeOK
    <3> QED
      BY <1>9, <3>1, <3>2 DEF Settle
  <2> QED
    BY <1>9, <2>1, <2>2 DEF Settle, TypeOK
<1>10. CASE UNCHANGED vars
  BY <1>10 DEF vars, TypeOK
<1> QED
  BY <1>1, <1>2, <1>3, <1>4, <1>5, <1>6, <1>7, <1>8, <1>9, <1>10
     DEF Next, Operate, Observe, Resolve

\* Every reachable state of the dispatcher is well typed.
THEOREM TypeCorrect == Spec => []TypeOK
<1>1. Init => TypeOK
  BY Zeroes, FreshLaneType DEF Init, TypeOK
<1> QED
  BY <1>1, TypeStep, PTL DEF Spec
-----------------------------------------------------------------------------
(* The inductive invariant *)

\* A machine showing an uploaded mission, or one that a rejected stop would
\* show again, is one whose upload is among those confirmed.
Confirmed(machine, uploads) ==
  \/ machine.phase \in Uploaded
  \/ machine.phase = "stopping" /\ machine.stoppedFrom \in Uploaded
  => machine.missionId \in uploads

LanesConfirmed == \A d \in Device : Confirmed(lane[d].machine, confirmedUploads)

\* An awaited reply belongs to the mission on its lane, until a stop clears it.
FlightsOfMission ==
  \A d \in Device : \A f \in LiveFlights(d) :
    PhaseOf(d) # "idle" => f.missionId = lane[d].machine.missionId

\* No closure is ahead of its lane, so taking a lane back outdates them all.
EpochsBehind == \A f \in flights : f.epoch <= lane[f.device].epoch

IInv ==
  /\ TypeOK
  /\ IsFiniteSet(flights)
  /\ FlightsAreCounted
  /\ LanesConfirmed
  /\ FlightsOfMission
  /\ EpochsBehind

\* The machine never confirms an upload by itself.
LEMMA ConfirmedKept ==
  ASSUME NEW m \in Machine, NEW e, NEW id, NEW uploads,
         Confirmed(m, uploads), Legal(m, e, id),
         e = "upload-succeeded" => m.missionId \in uploads
  PROVE  Confirmed(Successor(m, e, id), uploads)
<1>1. e \in Events
  BY LegalEvents
<1>2. CASE e = "stop-requested"
  BY <1>2 DEF Confirmed, Machine, Successor, Uploaded
<1>3. CASE e = "stop-rejected"
  BY <1>3 DEF Confirmed, Machine, Legal, LegalFrom, Successor, Uploaded, None
<1>4. CASE e \in {"stage-requested", "stop-succeeded", "mission-completed",
                  "operation-failed", "connection-lost"}
  BY ZenonT(60), <1>4 DEF Confirmed, Machine, Successor, Ended, Uploaded
<1>5. CASE e \in {"start-requested", "start-succeeded", "start-rejected"}
  BY <1>5 DEF Confirmed, Machine, Legal, LegalFrom, Successor, Uploaded
<1>6. CASE e \in {"pause-requested", "pause-succeeded", "pause-rejected"}
  BY <1>6 DEF Confirmed, Machine, Legal, LegalFrom, Successor, Uploaded
<1>7. CASE e \in {"resume-requested", "resume-succeeded", "resume-rejected"}
  BY <1>7 DEF Confirmed, Machine, Legal, LegalFrom, Successor, Uploaded
<1>8. CASE e \in {"stage-succeeded", "upload-requested", "upload-succeeded",
                  "upload-rejected"}
  BY <1>8 DEF Confirmed, Machine, Legal, LegalFrom, Successor, Uploaded
<1> QED
  BY <1>1, <1>2, <1>3, <1>4, <1>5, <1>6, <1>7, <1>8 DEF Events

\* A step that rewrites one lane and leaves the flights alone.
LEMMA LaneRewritten ==
  ASSUME IInv, TypeOK', NEW d \in Device, NEW l \in Lane,
         lane' = [lane EXCEPT ![d] = l], flights' = flights,
         confirmedUploads' = confirmedUploads,
         l.epoch = lane[d].epoch,
         l.inFlightCount = lane[d].inFlightCount,
         Confirmed(l.machine, confirmedUploads),
         \/ l.machine.missionId = lane[d].machine.missionId /\ PhaseOf(d) # "idle"
         \/ l.machine = lane[d].machine
  PROVE  IInv'
<1>1. \A e \in Device : /\ lane'[e].epoch = lane[e].epoch
                        /\ lane'[e].inFlightCount = lane[e].inFlightCount
                        /\ e # d => lane'[e] = lane[e]
                        /\ lane'[d] = l
  BY DEF IInv, TypeOK
<1>2. \A f \in flights : f.device \in Device
  BY DEF IInv, TypeOK, Flight
<1>3. \A e \in Device : LiveFlights(e)' = LiveFlights(e)
  BY <1>1, <1>2 DEF LiveFlights, FlightsOf, Current
<1>4. FlightsAreCounted'
  BY <1>1, <1>3 DEF IInv, FlightsAreCounted
<1>5. LanesConfirmed'
  BY <1>1 DEF IInv, LanesConfirmed
<1>6. FlightsOfMission'
  BY <1>1, <1>3 DEF IInv, FlightsOfMission, PhaseOf
<1>7. EpochsBehind'
  BY <1>1, <1>2 DEF IInv, EpochsBehind
<1> QED
  BY <1>4, <1>5, <1>6, <1>7 DEF IInv

\* A step that begins an operation: the lane counts the call it now awaits.
LEMMA FlightBegun ==
  ASSUME IInv, TypeOK', NEW d \in Device, NEW l \in Lane, NEW operation \in Operations,
         NEW mission, Await(d, operation, mission),
         lane' = [lane EXCEPT ![d] = l],
         confirmedUploads' = confirmedUploads,
         l.epoch = lane[d].epoch,
         l.inFlightCount = lane[d].inFlightCount + 1,
         Confirmed(l.machine, confirmedUploads),
         l.machine.missionId = mission,
         \/ LiveFlights(d) = {}
         \/ mission = lane[d].machine.missionId /\ PhaseOf(d) # "idle"
  PROVE  IInv'
<1>1. \A e \in Device : /\ lane'[e].epoch = lane[e].epoch
                        /\ e # d => lane'[e] = lane[e]
                        /\ lane'[d] = l
  BY DEF IInv, TypeOK
<1>2. \A f \in flights : f.device \in Device
  BY DEF IInv, TypeOK, Flight
<1>3. PICK p \in FreePromises : flights' = flights \cup
        {[promise |-> p, device |-> d, operation |-> operation,
          missionId |-> mission, epoch |-> lane[d].epoch, from |-> PhaseOf(d)]}
  BY DEF Await
<1> DEFINE new == [promise |-> p, device |-> d, operation |-> operation,
                   missionId |-> mission, epoch |-> lane[d].epoch, from |-> PhaseOf(d)]
<1>4. new \notin flights
  BY DEF FreePromises
<1>5. LiveFlights(d)' = LiveFlights(d) \cup {new} /\ new \notin LiveFlights(d)
  BY <1>1, <1>2, <1>3, <1>4 DEF LiveFlights, FlightsOf, Current
<1>6. \A e \in Device : e # d => LiveFlights(e)' = LiveFlights(e)
  BY <1>1, <1>2, <1>3 DEF LiveFlights, FlightsOf, Current
<1>7. IsFiniteSet(flights')
  BY <1>3, FS_AddElement DEF IInv
<1>8. FlightsAreCounted'
  <2>1. IsFiniteSet(LiveFlights(d))
    BY FS_Subset DEF IInv, LiveFlights, FlightsOf
  <2>2. Cardinality(LiveFlights(d)') = Cardinality(LiveFlights(d)) + 1
    BY <1>5, <2>1, FS_AddElement
  <2>3. lane'[d].inFlightCount = Cardinality(LiveFlights(d)')
    BY <1>1, <2>2 DEF IInv, FlightsAreCounted
  <2> QED
    BY <1>1, <1>6, <2>3 DEF IInv, FlightsAreCounted
<1>9. LanesConfirmed'
  BY <1>1 DEF IInv, LanesConfirmed
<1>10. FlightsOfMission'
  BY <1>1, <1>5, <1>6 DEF IInv, FlightsOfMission, PhaseOf
<1>11. EpochsBehind'
  <2>1. new.epoch <= lane'[new.device].epoch
    BY <1>1 DEF IInv, TypeOK, Lane
  <2> QED
    BY <1>1, <1>2, <1>3, <2>1 DEF IInv, EpochsBehind
<1> QED
  BY <1>7, <1>8, <1>9, <1>10, <1>11 DEF IInv

\* A step that takes an awaited reply off the lane it still belongs to.
LEMMA FlightAnswered ==
  ASSUME IInv, TypeOK', NEW f \in flights, Current(f), NEW l \in Lane,
         lane' = [lane EXCEPT ![f.device] = l], flights' = flights \ {f},
         confirmedUploads \subseteq confirmedUploads',
         l.epoch = lane[f.device].epoch,
         l.inFlightCount = IF lane[f.device].inFlightCount > 0
                           THEN lane[f.device].inFlightCount - 1 ELSE 0,
         Confirmed(l.machine, confirmedUploads'),
         \/ l.machine.phase = "idle"
         \/ l.machine.missionId = lane[f.device].machine.missionId /\ PhaseOf(f.device) # "idle"
  PROVE  IInv'
<1> DEFINE d == f.device
<1>d. d \in Device
  BY DEF IInv, TypeOK, Flight
<1>1. \A e \in Device : /\ lane'[e].epoch = lane[e].epoch
                        /\ e # d => lane'[e] = lane[e]
                        /\ lane'[d] = l
  BY <1>d DEF IInv, TypeOK
<1>2. \A g \in flights : g.device \in Device
  BY DEF IInv, TypeOK, Flight
<1>3. LiveFlights(d)' = LiveFlights(d) \ {f} /\ f \in LiveFlights(d)
  BY <1>1, <1>2, <1>d DEF LiveFlights, FlightsOf, Current
<1>4. \A e \in Device : e # d => LiveFlights(e)' = LiveFlights(e)
  BY <1>1, <1>2 DEF LiveFlights, FlightsOf, Current
<1>5. IsFiniteSet(flights')
  BY FS_RemoveElement DEF IInv
<1>6. FlightsAreCounted'
  <2>1. IsFiniteSet(LiveFlights(d))
    BY FS_Subset DEF IInv, LiveFlights, FlightsOf
  <2>2. Cardinality(LiveFlights(d)') = Cardinality(LiveFlights(d)) - 1
    BY <1>3, <2>1, FS_RemoveElement
  <2>3. Cardinality(LiveFlights(d)) \in Nat /\ Cardinality(LiveFlights(d)) # 0
    BY <1>3, <2>1, FS_EmptySet, FS_CardinalityType
  <2>4. lane[d].inFlightCount = Cardinality(LiveFlights(d))
    BY <1>d DEF IInv, FlightsAreCounted
  <2>5. l.inFlightCount = Cardinality(LiveFlights(d)')
    BY <2>2, <2>3, <2>4
  <2> QED
    BY <1>1, <1>4, <2>5 DEF IInv, FlightsAreCounted
<1>7. LanesConfirmed'
  BY <1>1 DEF IInv, LanesConfirmed, Confirmed
<1>8. FlightsOfMission'
  <2>1. ASSUME NEW g \in LiveFlights(d)', PhaseOf(d)' # "idle"
        PROVE  g.missionId = lane'[d].machine.missionId
    BY <1>1, <1>3, <1>d, <2>1 DEF IInv, FlightsOfMission, PhaseOf
  <2> QED
    BY <1>1, <1>4, <2>1 DEF IInv, FlightsOfMission, PhaseOf
<1>9. EpochsBehind'
  BY <1>1, <1>2 DEF IInv, EpochsBehind
<1> QED
  BY <1>5, <1>6, <1>7, <1>8, <1>9 DEF IInv

\* A step that gives the lane an epoch none of its closures has.
LEMMA LaneTakenBack ==
  ASSUME IInv, TypeOK', NEW d \in Device, NEW exists \in BOOLEAN,
         lane' = [lane EXCEPT ![d] = FreshLane(exists, lane[d].epoch + 1)],
         flights' = flights, confirmedUploads' = confirmedUploads
  PROVE  IInv'
<1>1. /\ lane'[d] = FreshLane(exists, lane[d].epoch + 1)
      /\ \A e \in Device : e # d => lane'[e] = lane[e]
  BY DEF IInv, TypeOK
<1>2. \A f \in flights : f.device \in Device /\ f.epoch \in Int
  BY DispatcherAssumption DEF IInv, TypeOK, Flight
<1>3. lane[d].epoch \in Int
  BY DispatcherAssumption DEF IInv, TypeOK, Lane
<1>4. lane'[d].epoch = lane[d].epoch + 1
  BY <1>1 DEF FreshLane
<1>5. EpochsBehind'
  <2> SUFFICES ASSUME NEW f \in flights PROVE f.epoch <= lane'[f.device].epoch
    BY DEF EpochsBehind
  <2>1. CASE f.device = d
    BY <1>2, <1>3, <1>4, <2>1 DEF IInv, EpochsBehind
  <2>2. CASE f.device # d
    BY <1>1, <1>2, <2>2 DEF IInv, EpochsBehind
  <2> QED
    BY <2>1, <2>2
<1>6. LiveFlights(d)' = {}
  <2>1. ASSUME NEW f \in flights, f.device = d PROVE f.epoch # lane[d].epoch + 1
    BY <1>2, <1>3, <2>1 DEF IInv, EpochsBehind
  <2> QED
    BY <1>4, <2>1 DEF LiveFlights, FlightsOf, Current
<1>7. \A e \in Device : e # d => LiveFlights(e)' = LiveFlights(e)
  BY <1>1 DEF LiveFlights, FlightsOf, Current
<1>8. FlightsAreCounted'
  <2>1. Cardinality(LiveFlights(d)') = 0 /\ lane'[d].inFlightCount = 0
    BY <1>1, <1>6, FS_EmptySet DEF FreshLane
  <2> QED
    BY <1>1, <1>7, <2>1 DEF IInv, FlightsAreCounted
<1>9. LanesConfirmed'
  BY <1>1 DEF IInv, LanesConfirmed, FreshLane, IdleMachine, Confirmed, Uploaded, None
<1>10. FlightsOfMission'
  BY <1>1, <1>6, <1>7 DEF IInv, FlightsOfMission, PhaseOf
<1> QED
  BY <1>5, <1>8, <1>9, <1>10 DEF IInv

\* No reply asks for a new mission, and only a confirmed upload asks for one.
LEMMA ReplyEvents ==
  ASSUME NEW operation \in Operations, NEW reply
  PROVE  /\ ReplyEvent(operation, reply) # "stage-requested"
         /\ ReplyEvent(operation, reply) = "upload-succeeded"
              => operation = "upload" /\ reply = "succeeded"
BY DEF Operations, Commands, Controls, ReplyEvent, None

\* A reply the lane still awaits confirms no more than the phone did, and keeps
\* the mission unless the lane is idle or becomes so.
LEMMA ReplyOutcome ==
  ASSUME IInv, NEW f \in flights, Current(f), NEW reply, NEW uploads,
         confirmedUploads \subseteq uploads,
         f.operation = "upload" /\ reply = "succeeded" => f.missionId \in uploads
  PROVE  LET old == lane[f.device].machine
             new == AfterReply(old, f, reply)
         IN  /\ Confirmed(new, uploads)
             /\ old.phase = "idle" => new = old
             /\ new.phase = "idle" \/ new.missionId = old.missionId
<1> DEFINE old == lane[f.device].machine
           event == ReplyEvent(f.operation, reply)
<1>1. /\ f.device \in Device
      /\ f.operation \in Operations
      /\ f.missionId \in Nat
      /\ old \in Machine
  BY DEF IInv, TypeOK, Flight, Lane
<1>2. Confirmed(old, uploads)
  BY <1>1 DEF IInv, LanesConfirmed, Confirmed
<1>3. CASE old.phase = "disconnected" \/ ~Legal(old, event, f.missionId)
  BY <1>2, <1>3 DEF AfterReply, Transition
<1>4. CASE old.phase # "disconnected" /\ Legal(old, event, f.missionId)
  <2>1. AfterReply(old, f, reply) = Successor(old, event, f.missionId)
    BY <1>4 DEF AfterReply, Transition
  <2>2. event # "stage-requested"
    BY <1>1, ReplyEvents
  <2>3. old.phase # "idle"
    BY <1>4, <2>2, IdleRefuses
  <2>4. event = "upload-succeeded" => old.missionId \in uploads
    <3>1. f \in LiveFlights(f.device)
      BY DEF LiveFlights, FlightsOf
    <3>2. f.missionId = old.missionId
      BY <1>1, <2>3, <3>1 DEF IInv, FlightsOfMission, PhaseOf
    <3> QED
      BY <1>1, <3>2, ReplyEvents
  <2>5. Confirmed(Successor(old, event, f.missionId), uploads)
    BY <1>1, <1>2, <1>4, <2>4, ConfirmedKept
  <2>6. CASE event = "stop-succeeded"
    BY <1>1, <2>1, <2>3, <2>5, <2>6 DEF Successor, Ended, Machine
  <2>7. CASE event # "stop-succeeded"
    BY <1>1, <1>4, <2>1, <2>2, <2>3, <2>5, <2>7, MissionKept
  <2> QED
    BY <2>6, <2>7
<1> QED
  BY <1>3, <1>4

\* Every step preserves the inductive invariant, provided the relay settles what
\* it owes a phone before the phone's loss is recorded.
LEMMA IStep ==
  ASSUME SettlesBeforeLoss, IInv, [Next]_vars
  PROVE  IInv'
<1>t. TypeOK'
  BY TypeStep DEF IInv
<1>l. \A d \in Device : /\ lane[d] \in Lane
                       /\ lane[d].machine \in Machine
                       /\ lane[d].machine.missionId \in Nat
                       /\ lane[d].inFlightCount \in Nat
                       /\ Confirmed(lane[d].machine, confirmedUploads)
                       /\ lane'[d] \in Lane
  BY <1>t DEF IInv, TypeOK, Lane, Machine, LanesConfirmed
<1>n. NoMission \in Nat
  BY DEF NoMission
<1>f. \A d \in Device : lane[d].inFlightCount = 0 => LiveFlights(d) = {}
  <2> SUFFICES ASSUME NEW d \in Device, lane[d].inFlightCount = 0
               PROVE  LiveFlights(d) = {}
    OBVIOUS
  <2>1. IsFiniteSet(LiveFlights(d))
    BY FS_Subset DEF IInv, LiveFlights, FlightsOf
  <2> QED
    BY <2>1, FS_EmptySet DEF IInv, FlightsAreCounted
<1>w. \A d \in Device : \A l : lane' = [lane EXCEPT ![d] = l] => l \in Lane
  BY <1>l DEF IInv, TypeOK
<1>1. ASSUME NEW d \in Device, NEW route \in Route, Stage(d, route)
      PROVE  IInv'
  <2> DEFINE new == Successor(lane[d].machine, "stage-requested", staged + 1)
             l == BeginFlight(ForRoute(lane[d], route), new)
  <2>1. new.phase = "staging" /\ new.missionId = staged + 1
    BY <1>l DEF Successor, Ended, Machine
  <2>2. /\ l.epoch = lane[d].epoch
        /\ l.inFlightCount = lane[d].inFlightCount + 1
        /\ l.machine = new
    BY <1>l DEF BeginFlight, ForRoute, Lane
  <2>3. Confirmed(new, confirmedUploads)
    BY <2>1 DEF Confirmed, Uploaded
  <2>4. LiveFlights(d) = {}
    BY <1>1, <1>l, <1>f DEF Stage, Busy
  <2>5. lane' = [lane EXCEPT ![d] = l] /\ Await(d, "stage", staged + 1)
    BY <1>1 DEF Stage
  <2> HIDE DEF l, new
  <2> QED
    BY <1>1, <1>t, <1>w, <2>1, <2>2, <2>3, <2>4, <2>5, FlightBegun DEF Stage, Operations
<1>2. ASSUME NEW d \in Device, NEW operation \in Commands, Command(d, operation)
      PROVE  IInv'
  <2> DEFINE event == RequestEvent(operation)
             new == Successor(lane[d].machine, event, NoMission)
             l == BeginFlight(lane[d], new)
  <2>1. event \notin {"stage-requested", "stop-succeeded", "upload-succeeded"}
    BY DEF RequestEvent, Commands, Controls
  <2>2. Legal(lane[d].machine, event, NoMission) /\ lane' = [lane EXCEPT ![d] = l]
    BY <1>2 DEF Command
  <2>3. new.missionId = lane[d].machine.missionId /\ PhaseOf(d) # "idle"
    BY <1>l, <1>n, <2>1, <2>2, MissionKept, IdleRefuses DEF PhaseOf
  <2>4. Confirmed(new, confirmedUploads)
    BY <1>l, <2>1, <2>2, ConfirmedKept
  <2>5. /\ l.epoch = lane[d].epoch
        /\ l.inFlightCount = lane[d].inFlightCount + 1
        /\ l.machine = new
    BY <1>l DEF BeginFlight, Lane
  <2>6. Await(d, operation, lane[d].machine.missionId) /\ operation \in Operations
    BY <1>2 DEF Command, Operations
  <2> HIDE DEF l, new, event
  <2> QED
    BY <1>2, <1>t, <1>w, <2>2, <2>3, <2>4, <2>5, <2>6, FlightBegun DEF Command
<1>3. ASSUME NEW d \in Device, Refuse(d)
      PROVE  IInv'
  <2> DEFINE l == [lane[d] EXCEPT !.lastResult = "failed"]
  <2>1. /\ l.epoch = lane[d].epoch
        /\ l.inFlightCount = lane[d].inFlightCount
        /\ l.machine = lane[d].machine
    BY <1>l DEF Lane
  <2>2. lane' = [lane EXCEPT ![d] = l]
    BY <1>3 DEF Refuse
  <2> HIDE DEF l
  <2> QED
    BY <1>3, <1>t, <1>l, <1>w, <2>1, <2>2, LaneRewritten DEF Refuse
<1>4. ASSUME NEW d \in Device, Release(d) \/ Forget(d)
      PROVE  IInv'
  BY <1>4, <1>t, LaneTakenBack DEF Release, Forget
<1>5. ASSUME NEW d \in Device, RecordDisconnected(d)
      PROVE  IInv'
  <2> DEFINE new == Successor(lane[d].machine, "connection-lost", NoMission)
             l == Lost(lane[d])
  <2>1. Legal(lane[d].machine, "connection-lost", NoMission) /\ lane' = [lane EXCEPT ![d] = l]
    BY <1>5 DEF RecordDisconnected
  <2>2. new.missionId = lane[d].machine.missionId /\ PhaseOf(d) # "idle"
    BY <1>l, <1>n, <2>1, MissionKept, IdleRefuses DEF PhaseOf
  <2>3. Confirmed(new, confirmedUploads)
    BY <1>l, <2>1, ConfirmedKept
  <2>4. lane[d].inFlightCount = 0
    <3>1. LiveFlights(d) = {}
      BY <1>5 DEF RecordDisconnected, LiveFlights
    <3> QED
      BY <3>1, FS_EmptySet DEF IInv, FlightsAreCounted
  <2>5. /\ l.epoch = lane[d].epoch
        /\ l.inFlightCount = lane[d].inFlightCount
        /\ l.machine = new
    BY <1>l, <2>4 DEF Lost, Lane
  <2> HIDE DEF l, new
  <2> QED
    BY <1>5, <1>t, <1>w, <2>1, <2>2, <2>3, <2>5, LaneRewritten DEF RecordDisconnected
\* A reported phase or outcome, of a lane that is not idle.
<1>r. ASSUME NEW d \in Device, NEW l, NEW e,
             lane' = [lane EXCEPT ![d] = l], UNCHANGED <<flights, confirmedUploads>>,
             l.epoch = lane[d].epoch, l.inFlightCount = lane[d].inFlightCount,
             e \notin {"stage-requested", "stop-succeeded", "upload-succeeded"},
             \/ l.machine = lane[d].machine
             \/ /\ Legal(lane[d].machine, e, NoMission)
                /\ l.machine = Successor(lane[d].machine, e, NoMission)
      PROVE  IInv'
  <2>1. CASE l.machine = lane[d].machine
    BY <1>r, <1>t, <1>l, <1>w, <2>1, LaneRewritten
  <2>2. CASE /\ Legal(lane[d].machine, e, NoMission)
             /\ l.machine = Successor(lane[d].machine, e, NoMission)
    <3>1. l.machine.missionId = lane[d].machine.missionId /\ PhaseOf(d) # "idle"
      BY <1>r, <1>l, <1>n, <2>2, MissionKept, IdleRefuses DEF PhaseOf
    <3>2. Confirmed(l.machine, confirmedUploads)
      BY <1>r, <1>l, <2>2, ConfirmedKept
    <3> QED
      BY <1>r, <1>t, <1>w, <3>1, <3>2, LaneRewritten
  <2> QED
    BY <1>r, <2>1, <2>2
<1>6. ASSUME NEW d \in Device, NEW route, NEW identity, NEW sequence, NEW milestone,
             RecordMilestone(d, route, identity, sequence, milestone)
      PROVE  IInv'
  <2> DEFINE l == Reached(lane[d], identity, sequence, milestone)
  <2>1. /\ l.epoch = lane[d].epoch
        /\ l.inFlightCount = lane[d].inFlightCount
        /\ l.machine = lane[d].machine
    BY <1>l DEF Reached, Lane
  <2>2. lane' = [lane EXCEPT ![d] = l] /\ UNCHANGED <<flights, confirmedUploads>>
    BY <1>6 DEF RecordMilestone
  <2> HIDE DEF l
  <2> QED
    BY <1>r, <2>1, <2>2
<1>7. ASSUME NEW d \in Device, NEW route, NEW identity, NEW sequence,
             \/ RecordStarted(d, route, identity, sequence)
             \/ RecordExecutionStarted(d, route, identity)
      PROVE  IInv'
  <2>1. PICK s : lane' = [lane EXCEPT ![d] = Running(lane[d], identity, s)]
    BY <1>7 DEF RecordStarted, RecordExecutionStarted
  <2> DEFINE l == Running(lane[d], identity, s)
  <2>2. /\ l.epoch = lane[d].epoch
        /\ l.inFlightCount = lane[d].inFlightCount
        /\ l.machine = Successor(lane[d].machine, "start-succeeded", NoMission)
    BY <1>l DEF Running, Lane
  <2>3. Legal(lane[d].machine, "start-succeeded", NoMission)
    BY <1>7 DEF RecordStarted, RecordExecutionStarted
  <2>4. lane' = [lane EXCEPT ![d] = l] /\ UNCHANGED <<flights, confirmedUploads>>
    BY <1>7, <2>1 DEF RecordStarted, RecordExecutionStarted
  <2>5. "start-succeeded" \notin {"stage-requested", "stop-succeeded", "upload-succeeded"}
    OBVIOUS
  <2> HIDE DEF l
  <2> QED
    BY <1>r, <2>2, <2>3, <2>4, <2>5
<1>8. ASSUME NEW d \in Device, NEW route, NEW identity, NEW outcome,
             RecordExecutionTerminal(d, route, identity, outcome)
      PROVE  IInv'
  <2> DEFINE e == TerminalEvent(outcome)
             l == Over(lane[d], outcome)
  <2>1. e \notin {"stage-requested", "stop-succeeded", "upload-succeeded"}
    BY DEF TerminalEvent
  <2>2. lane' = [lane EXCEPT ![d] = l] /\ UNCHANGED <<flights, confirmedUploads>>
    BY <1>8 DEF RecordExecutionTerminal
  <2>3. /\ l.epoch = lane[d].epoch
        /\ l.inFlightCount = lane[d].inFlightCount
        /\ l.machine = Successor(lane[d].machine, e, NoMission)
    BY <1>l DEF Over, Lane
  <2>4. Legal(lane[d].machine, e, NoMission)
    BY <1>8 DEF RecordExecutionTerminal, MayEnd
  <2> HIDE DEF l, e
  <2> QED
    BY <1>r, <2>1, <2>2, <2>3, <2>4
<1>9. ASSUME NEW f \in flights, NEW reply, Settle(f, reply)
      PROVE  IInv'
  <2>1. /\ f.device \in Device
        /\ flights' = flights \ {f}
        /\ confirmedUploads \subseteq confirmedUploads'
        /\ f.operation = "upload" /\ reply = "succeeded" => f.missionId \in confirmedUploads'
    BY <1>9 DEF Settle, IInv, TypeOK, Flight
  <2>2. CASE SettleCurrent(f, reply)
    <3> DEFINE old == lane[f.device].machine
               new == AfterReply(old, f, reply)
               ok == IF AnsweredOk(old, f, reply) THEN "ok" ELSE "failed"
               l == EndFlight(lane[f.device], new, ok)
    <3>1. Current(f) /\ lane' = [lane EXCEPT ![f.device] = l]
      BY <2>2 DEF SettleCurrent
    <3>2. /\ l.epoch = lane[f.device].epoch
          /\ l.inFlightCount = IF lane[f.device].inFlightCount > 0
                               THEN lane[f.device].inFlightCount - 1 ELSE 0
          /\ l.machine = new
      BY <1>l, <2>1 DEF EndFlight, Lane
    <3>3. /\ Confirmed(new, confirmedUploads')
          /\ old.phase = "idle" => new = old
          /\ new.phase = "idle" \/ new.missionId = old.missionId
      BY <2>1, <3>1, ReplyOutcome
    <3>4. new.phase = "idle" \/ (new.missionId = old.missionId /\ old.phase # "idle")
      BY <3>3
    <3> HIDE DEF l, new, ok
    <3> QED
      BY <1>t, <1>w, <2>1, <3>1, <3>2, <3>3, <3>4, FlightAnswered DEF PhaseOf
  <2>3. CASE SettleStale(f)
    <3>1. ~Current(f) /\ lane' = lane
      BY <2>3 DEF SettleStale
    <3>2. \A d \in Device : LiveFlights(d)' = LiveFlights(d)
      BY <2>1, <3>1 DEF LiveFlights, FlightsOf, Current
    <3>3. IsFiniteSet(flights')
      BY <2>1, FS_RemoveElement DEF IInv
    <3>4. FlightsAreCounted' /\ FlightsOfMission'
      BY <3>1, <3>2 DEF IInv, FlightsAreCounted, FlightsOfMission, PhaseOf
    <3>5. LanesConfirmed' /\ EpochsBehind'
      BY <2>1, <3>1 DEF IInv, LanesConfirmed, Confirmed, EpochsBehind
    <3> QED
      BY <1>t, <3>3, <3>4, <3>5 DEF IInv
  <2> QED
    BY <1>9, <2>2, <2>3 DEF Settle
<1>10. CASE UNCHANGED vars
  <2>1. \A d \in Device : LiveFlights(d)' = LiveFlights(d)
    BY <1>10 DEF vars, LiveFlights, FlightsOf, Current
  <2> QED
    BY <1>10, <1>t, <2>1
       DEF vars, IInv, FlightsAreCounted, FlightsOfMission, LanesConfirmed, EpochsBehind, PhaseOf
<1> QED
  BY <1>1, <1>2, <1>3, <1>4, <1>5, <1>6, <1>7, <1>8, <1>9, <1>10
     DEF Next, Operate, Observe, Resolve, RecordMissionPhase

\* The inductive invariant holds in every reachable state.
LEMMA Inductive ==
  ASSUME SettlesBeforeLoss
  PROVE  Spec => []IInv
<1>1. Init => IInv
  <2> SUFFICES ASSUME Init PROVE IInv
    OBVIOUS
  <2>1. TypeOK
    BY Zeroes, FreshLaneType DEF Init, TypeOK
  <2>2. flights = {} /\ \A d \in Device : LiveFlights(d) = {}
    BY DEF Init, LiveFlights, FlightsOf
  <2>3. FlightsAreCounted
    BY <2>2, FS_EmptySet DEF Init, FlightsAreCounted, FreshLane
  <2>4. LanesConfirmed
    BY DEF Init, LanesConfirmed, Confirmed, FreshLane, IdleMachine, Uploaded
  <2> QED
    BY <2>1, <2>2, <2>3, <2>4, FS_EmptySet DEF IInv, FlightsOfMission, EpochsBehind
<1>2. IInv /\ [Next]_vars => IInv'
  BY IStep
<1> QED
  BY <1>1, <1>2, PTL DEF Spec

\* The busy flag of a lane counts exactly the replies it still awaits.
THEOREM BusyIsCounted ==
  ASSUME SettlesBeforeLoss
  PROVE  Spec => []FlightsAreCounted
<1>1. IInv => FlightsAreCounted
  BY DEF IInv
<1> QED
  BY <1>1, Inductive, PTL

\* A lane shows a mission as uploaded, or anything later, only when the phone
\* confirmed the upload of that very mission.
THEOREM UploadsAreConfirmed ==
  ASSUME SettlesBeforeLoss
  PROVE  Spec => []UploadIsConfirmed
<1>1. IInv => UploadIsConfirmed
  BY DEF IInv, LanesConfirmed, Confirmed, UploadIsConfirmed, PhaseOf
<1> QED
  BY <1>1, Inductive, PTL

\* A late reply leaves alone a lane that carries another mission: its lane was
\* taken back, or is idle, and an idle machine refuses whatever a reply asks.
THEOREM LateRepliesInert ==
  ASSUME SettlesBeforeLoss
  PROVE  Spec => LateRepliesAreInert
<1> DEFINE Inert == \A f \in flights :
       /\ f \notin flights'
       /\ lane[f.device].machine.missionId # f.missionId
       => lane'[f.device].machine = lane[f.device].machine
<1>1. IInv /\ [Next]_vars => [Inert]_vars
  <2> SUFFICES ASSUME IInv, Next, NEW f \in flights, f \notin flights',
                      lane[f.device].machine.missionId # f.missionId
               PROVE  lane'[f.device].machine = lane[f.device].machine
    BY DEF Inert
  <2>1. PICK p \in Promise : Resolve(p)
    <3>1. ASSUME NEW d \in Device, Operate(d) PROVE flights \subseteq flights'
      BY <3>1 DEF Operate, Stage, Command, Refuse, Release, Forget, Await
    <3>2. ASSUME NEW d \in Device, Observe(d) PROVE flights' = flights
      BY <3>2 DEF Observe, RecordDisconnected, RecordMissionPhase, RecordMilestone,
                  RecordStarted, RecordExecutionStarted, RecordExecutionTerminal
    <3> QED
      BY <3>1, <3>2 DEF Next
  <2>2. PICK g \in flights : \E reply : Settle(g, reply)
    BY <2>1 DEF Resolve
  <2> PICK reply : Settle(g, reply)
    BY <2>2
  <2>3. g = f
    BY <2>2 DEF Settle
  <2>4. f.device \in Device /\ lane[f.device] \in Lane
    BY DEF IInv, TypeOK, Flight
  <2>5. CASE SettleStale(f)
    BY <2>5 DEF SettleStale
  <2>6. CASE SettleCurrent(f, reply)
    <3>1. Current(f)
      BY <2>6 DEF SettleCurrent
    <3>2. f \in LiveFlights(f.device)
      BY <3>1 DEF LiveFlights, FlightsOf
    <3>3. lane[f.device].machine.phase = "idle"
      BY <2>4, <3>2 DEF IInv, FlightsOfMission, PhaseOf
    <3>4. AfterReply(lane[f.device].machine, f, reply) = lane[f.device].machine
      <4>1. f.operation = "upload" /\ reply = "succeeded"
              => f.missionId \in confirmedUploads'
        BY <2>2, <2>3 DEF Settle
      <4>2. confirmedUploads \subseteq confirmedUploads'
        BY <2>2, <2>3 DEF Settle
      <4> QED
        BY <3>1, <3>3, <4>1, <4>2, ReplyOutcome
    <3>5. lane'[f.device] =
            EndFlight(lane[f.device], lane[f.device].machine,
              IF AnsweredOk(lane[f.device].machine, f, reply) THEN "ok" ELSE "failed")
      BY <2>4, <2>6, <3>4 DEF SettleCurrent, IInv, TypeOK
    <3> QED
      BY <2>4, <3>5 DEF EndFlight, Lane
  <2> QED
    BY <2>2, <2>3, <2>5, <2>6 DEF Settle
<1> QED
  BY <1>1, Inductive, PTL DEF Spec, LateRepliesAreInert

-----------------------------------------------------------------------------
(* What is awaited, and what is flown *)

\* The phase a rejected stop, and then a rejected pause, leads back to.
Unstopped(m) == IF m.phase = "stopping" THEN m.stoppedFrom ELSE m.phase
Unpaused(m) == IF Unstopped(m) = "pausing" THEN m.pausedFrom ELSE Unstopped(m)

\* The machine m still waits for the reply to f, or was overtaken by a stop or a
\* pause from which it can come back to waiting.
Awaits(m, f) ==
  /\ m.phase = "idle" => f.operation \in {"start", "pause", "resume"}
  /\ m.phase # "idle" =>
       /\ f.operation = "stage" => m.phase = "staging"
       /\ f.operation = "upload" => m.phase = "uploading" /\ f.from = "staged"
       /\ f.operation = "start" =>
            m.phase \in STOPPABLE /\ (m.startRetry <=> f.from # "uploaded")
       /\ f.operation = "pause" =>
            /\ Unstopped(m) = "pausing"
            /\ m.pausedFrom = f.from /\ f.from \in {"starting", "running"}
       /\ f.operation = "resume" => Unstopped(m) = "resuming" /\ f.from = "paused"
       /\ f.operation = "stop" => m.phase = "stopping" /\ m.stoppedFrom = f.from

\* A machine whose mission may be flying is one the operator can stop, and no
\* rejected first start brings it back to before the start.
Grounded(m, live, flying) ==
  m.missionId \in flying =>
    /\ m.phase \in STOPPABLE \cup {"completed", "failed"}
    /\ \A f \in live : f.operation = "start" /\ ~m.startRetry => Unpaused(m) # "starting"

\* Missions are told apart by their number: no two lanes carry the same, and an
\* awaited reply for the mission of a lane is one of that lane and current.
MissionsAreDistinct ==
  /\ \A d \in Device : /\ lane[d].machine.missionId <= staged
                       /\ PhaseOf(d) = "idle" <=> lane[d].machine.missionId = NoMission
  /\ \A d, e \in Device : /\ lane[d].machine.missionId = lane[e].machine.missionId
                          /\ lane[d].machine.missionId # NoMission
                          => d = e
  /\ \A f \in flights : /\ f.missionId # NoMission /\ f.missionId <= staged
                        /\ \A d \in Device : lane[d].machine.missionId = f.missionId
                                               => d = f.device /\ Current(f)
  /\ \A m \in maybeFlying : m # NoMission /\ m <= staged

FlyingInv ==
  /\ FlightsDoNotPileUp
  /\ MissionsAreDistinct
  /\ \A d \in Device : /\ \A f \in LiveFlights(d) : Awaits(lane[d].machine, f)
                       /\ Grounded(lane[d].machine, LiveFlights(d), maybeFlying)

\* The events after which the machine awaits f as before: another request that
\* may overtake it, a reported start, the replies to other operations.
Passing(m, e, f) ==
  \/ e \in {"pause-requested", "start-succeeded"}
  \/ e = "stop-requested" /\ m.phase # "stopping"
  \/ e \in {"pause-succeeded", "pause-rejected"} /\ f.operation # "pause"
  \/ e \in {"resume-succeeded", "resume-rejected"} /\ f.operation # "resume"
  \/ e \in {"stop-succeeded", "stop-rejected"} /\ f.operation # "stop"
  \/ e = "start-rejected" /\ f.operation # "start"
  \/ e = "stage-succeeded" /\ f.operation # "stage"
  \/ e \in {"upload-succeeded", "upload-rejected"} /\ f.operation # "upload"
  \/ e = "operation-failed" /\ f.operation \notin Ordinary

LEMMA AwaitsKept ==
  ASSUME NEW m \in Machine, NEW f \in Flight, NEW e, NEW id, Legal(m, e, id),
         Awaits(m, f), Passing(m, e, f),
         e = "operation-failed" => m.phase \in {"staging", "uploading"}
  PROVE  Awaits(Successor(m, e, id), f)
<1> DEFINE n == Successor(m, e, id)
<1>0. /\ f.operation \in {"stage", "upload", "start", "pause", "resume", "stop"}
      /\ m.phase \in LegalFrom(e) /\ e # "stage-requested"
  BY DEF Flight, Operations, Commands, Controls, Legal, Passing
<1>1. CASE e = "pause-requested"
  <2>1. m.phase \in {"running", "starting"} /\ n.phase = "pausing" /\ n.startRetry = m.startRetry
    BY <1>0, <1>1 DEF LegalFrom, Successor, Machine
  <2> QED
    BY <1>0, <2>1 DEF Awaits, Unstopped, STOPPABLE
<1>2. CASE e = "start-succeeded"
  <2>1. m.phase = "starting" /\ n.phase = "running" /\ n.startRetry = m.startRetry
    BY <1>0, <1>2 DEF LegalFrom, Successor, Machine
  <2> QED
    BY <1>0, <2>1 DEF Awaits, Unstopped, STOPPABLE
<1>3. CASE e = "stop-requested"
  <2>1. /\ m.phase \in STOPPABLE \ {"stopping"} /\ n.phase = "stopping" /\ n.stoppedFrom = m.phase
        /\ n.startRetry = m.startRetry /\ n.pausedFrom = m.pausedFrom
    BY <1>0, <1>3 DEF LegalFrom, Successor, Machine, Passing
  <2> QED
    BY <1>0, <2>1 DEF Awaits, Unstopped, STOPPABLE
<1>4. CASE e \in {"pause-succeeded", "pause-rejected"}
  <2>1. /\ m.phase = "pausing" /\ n.phase \in {"paused", "running", "starting"}
        /\ n.startRetry = m.startRetry /\ f.operation # "pause"
    BY <1>0, <1>4 DEF LegalFrom, Successor, Machine, Passing
  <2> QED
    BY <1>0, <2>1 DEF Awaits, Unstopped, STOPPABLE
<1>5. CASE e \in {"resume-succeeded", "resume-rejected"}
  <2>1. /\ m.phase = "resuming" /\ n.phase \in {"paused", "running"}
        /\ n.startRetry = m.startRetry /\ f.operation # "resume"
    BY <1>0, <1>5 DEF LegalFrom, Successor, Machine, Passing
  <2> QED
    BY <1>0, <2>1 DEF Awaits, Unstopped, STOPPABLE
<1>6. CASE e = "stop-succeeded"
  <2>1. m.phase = "stopping" /\ n.phase = "idle" /\ f.operation # "stop"
    BY <1>0, <1>6 DEF LegalFrom, Successor, Ended, Machine, Passing
  <2> QED
    BY <1>0, <2>1 DEF Awaits, Unstopped, STOPPABLE
<1>7. CASE e = "stop-rejected"
  <2>1. /\ m.phase = "stopping" /\ n.phase = m.stoppedFrom /\ m.stoppedFrom \in STOPPABLE
        /\ n.startRetry = m.startRetry /\ n.pausedFrom = m.pausedFrom /\ f.operation # "stop"
    BY <1>0, <1>7 DEF LegalFrom, Successor, Machine, Passing, Legal
  <2> QED
    BY <1>0, <2>1 DEF Awaits, Unstopped, STOPPABLE
<1>8. CASE e = "start-rejected"
  <2>1. m.phase = "starting" /\ f.operation # "start"
    BY <1>0, <1>8 DEF LegalFrom, Passing
  <2> QED
    BY <1>0, <2>1 DEF Awaits, Unstopped
<1>9. CASE e \in {"stage-succeeded", "upload-succeeded", "upload-rejected", "operation-failed"}
  <2>1. /\ m.phase \in {"staging", "uploading"}
        /\ m.phase = "staging" => f.operation # "stage"
        /\ m.phase = "uploading" => f.operation # "upload"
    BY <1>0, <1>9 DEF LegalFrom, Passing, Ordinary, Operations, Commands
  <2> QED
    BY <1>0, <2>1 DEF Awaits, Unstopped, STOPPABLE
<1> QED
  BY <1>1, <1>2, <1>3, <1>4, <1>5, <1>6, <1>7, <1>8, <1>9 DEF Passing

LEMMA GroundedKept ==
  ASSUME NEW m \in Machine, NEW e, NEW id, Legal(m, e, id), e # "stage-requested",
         NEW live, NEW flying, Grounded(m, live, flying),
         NEW live2, NEW flying2, NoMission \notin flying2,
         e # "start-succeeded" => (m.missionId \in flying2 => m.missionId \in flying),
         e # "start-requested" =>
           \A f \in live2 : f.operation = "start" => f \in live,
         e = "stop-requested" /\ m.phase = "stopping" =>
           \A f \in live2 : f.operation # "start",
         e = "start-rejected" => \E f \in live : f.operation = "start"
  PROVE  Grounded(Successor(m, e, id), live2, flying2)
<1> DEFINE n == Successor(m, e, id)
<1>0. m.phase \in LegalFrom(e) /\ e \in Events
  BY LegalEvents DEF Legal
<1>1. CASE e = "start-succeeded"
  <2>1. n.phase = "running"
    BY <1>1 DEF Successor, Machine
  <2> QED
    BY <2>1 DEF Grounded, Unpaused, Unstopped, STOPPABLE
<1>2. CASE e = "stop-succeeded"
  <2>1. n.missionId = NoMission
    BY <1>2 DEF Successor, Ended, Machine
  <2> QED
    BY <2>1 DEF Grounded
<1> SUFFICES ASSUME e \notin {"start-succeeded", "stop-succeeded"}, n.missionId \in flying2
             PROVE  /\ n.phase \in STOPPABLE \cup {"completed", "failed"}
                    /\ \A f \in live2 : f.operation = "start" /\ ~n.startRetry
                                          => Unpaused(n) # "starting"
  BY <1>1, <1>2 DEF Grounded
<1>3. n.missionId = m.missionId
  BY <1>0 DEF Machine, Successor, Ended, Events
<1>4. /\ m.phase \in STOPPABLE \cup {"completed", "failed"}
      /\ \A f \in live : f.operation = "start" /\ ~m.startRetry => Unpaused(m) # "starting"
  BY <1>3 DEF Grounded
<1>5. CASE e \in {"mission-completed", "operation-failed", "connection-lost"}
  <2>1. n.phase \in {"completed", "failed", "disconnected"}
    BY <1>5 DEF Successor, Ended, Machine
  <2> QED
    BY <2>1 DEF Unpaused, Unstopped, STOPPABLE
<1>6. CASE e \in {"start-requested", "start-rejected"}
  <2>1. CASE e = "start-requested"
    <3>1. n.phase = "starting" /\ n.startRetry
      BY <2>1, <1>4 DEF Successor, Machine, STOPPABLE
    <3> QED
      BY <3>1 DEF STOPPABLE
  <2>2. CASE e = "start-rejected"
    <3>1. m.phase = "starting"
      BY <1>0, <2>2 DEF LegalFrom
    <3>2. m.startRetry
      BY <1>4, <2>2, <3>1 DEF Unpaused, Unstopped
    <3>3. n.phase = "starting" /\ n.startRetry
      BY <2>2, <3>2 DEF Successor, Machine
    <3> QED
      BY <3>3 DEF STOPPABLE
  <2> QED
    BY <1>6, <2>1, <2>2
<1>7. CASE e \in {"pause-succeeded", "resume-requested", "resume-succeeded", "resume-rejected"}
  <2>1. n.phase \in {"paused", "resuming", "running"}
    BY <1>7 DEF Successor, Machine
  <2> QED
    BY <2>1 DEF Unpaused, Unstopped, STOPPABLE
<1>8. CASE e = "pause-requested"
  <2>1. /\ m.phase \in {"running", "starting"} /\ n.phase = "pausing"
        /\ n.pausedFrom = m.phase /\ n.startRetry = m.startRetry
    BY <1>0, <1>8 DEF LegalFrom, Successor, Machine
  <2> QED
    BY <1>4, <1>8, <2>1 DEF Unpaused, Unstopped, STOPPABLE
<1>9. CASE e = "pause-rejected"
  <2>1. /\ m.phase = "pausing" /\ n.startRetry = m.startRetry
        /\ n.phase = IF m.pausedFrom = "starting" THEN "starting" ELSE "running"
    BY <1>0, <1>9 DEF LegalFrom, Successor, Machine
  <2> QED
    BY <1>4, <1>9, <2>1 DEF Unpaused, Unstopped, STOPPABLE
<1>10. CASE e = "stop-requested"
  <2>1. /\ n.phase = "stopping" /\ n.stoppedFrom = m.phase
        /\ n.pausedFrom = m.pausedFrom /\ n.startRetry = m.startRetry
    BY <1>10 DEF Successor, Machine
  <2> QED
    BY <1>4, <1>10, <2>1 DEF Unpaused, Unstopped, STOPPABLE
<1>11. CASE e = "stop-rejected"
  <2>1. /\ m.phase = "stopping" /\ n.phase = m.stoppedFrom /\ m.stoppedFrom \in STOPPABLE
        /\ n.stoppedFrom = None /\ n.pausedFrom = m.pausedFrom /\ n.startRetry = m.startRetry
    BY <1>0, <1>11 DEF LegalFrom, Legal, Successor, Machine
  <2> QED
    BY <1>4, <1>11, <2>1 DEF Unpaused, Unstopped, None
<1>12. CASE e \in {"stage-succeeded", "upload-requested", "upload-succeeded", "upload-rejected"}
  BY <1>0, <1>4, <1>12 DEF LegalFrom, STOPPABLE
<1> QED
  BY <1>0, <1>5, <1>6, <1>7, <1>8, <1>9, <1>10, <1>11, <1>12 DEF Events

\* A step that rewrites the lane of d: what it must make sure of for the
\* missions to stay distinct ...
LEMMA DistinctKept ==
  ASSUME TypeOK, TypeOK', MissionsAreDistinct, NEW d \in Device, NEW l \in Lane,
         lane' = [lane EXCEPT ![d] = l],
         \/ /\ l.machine.missionId = lane[d].machine.missionId /\ l.epoch = lane[d].epoch
            /\ staged' = staged
         \/ l.machine.missionId = NoMission /\ staged' = staged
         \/ l.machine.missionId = staged + 1 /\ staged' = staged + 1,
         l.machine.phase = "idle" <=> l.machine.missionId = NoMission,
         \A f \in flights' :
           \/ f \in flights
           \/ /\ f.device = d /\ f.epoch = l.epoch
              /\ f.missionId = l.machine.missionId /\ f.missionId # NoMission,
         \A m \in maybeFlying' :
           \/ m \in maybeFlying
           \/ m # NoMission /\ m <= staged
  PROVE  MissionsAreDistinct'
<1>t. /\ staged \in Nat /\ staged' \in Nat /\ NoMission = 0
      /\ l.machine.missionId \in Nat
      /\ \A e \in Device : lane[e].machine.missionId \in Nat
      /\ \A f \in flights : f.missionId \in Nat /\ f.device \in Device
      /\ \A m \in maybeFlying : m \in Nat
  BY DispatcherAssumption DEF TypeOK, Lane, Machine, Flight, NoMission
<1>1. lane'[d] = l /\ \A e \in Device : e # d => lane'[e] = lane[e]
  BY DEF TypeOK
<1>2. staged <= staged' /\ l.machine.missionId <= staged'
  BY <1>t DEF MissionsAreDistinct
<1>3. \A e \in Device : /\ lane'[e].machine.missionId <= staged'
                        /\ PhaseOf(e)' = "idle" <=> lane'[e].machine.missionId = NoMission
  BY <1>t, <1>1, <1>2 DEF MissionsAreDistinct, PhaseOf
<1>4. ASSUME NEW a \in Device, NEW b \in Device,
             lane'[a].machine.missionId = lane'[b].machine.missionId,
             lane'[a].machine.missionId # NoMission
      PROVE  a = b
  <2>1. ASSUME NEW e \in Device, e # d PROVE l.machine.missionId # lane[e].machine.missionId
                                             \/ l.machine.missionId = NoMission
    BY <1>t, <2>1 DEF MissionsAreDistinct
  <2> QED
    BY <1>1, <1>4, <2>1 DEF MissionsAreDistinct
<1>5. ASSUME NEW f \in flights'
      PROVE  /\ f.missionId # NoMission /\ f.missionId <= staged'
             /\ \A e \in Device : lane'[e].machine.missionId = f.missionId
                                    => e = f.device /\ f.epoch = lane'[f.device].epoch
  <2>1. CASE f \in flights
    <3>1. f.missionId # NoMission /\ f.missionId <= staged
      BY <2>1 DEF MissionsAreDistinct
    <3>2. f.missionId <= staged'
      BY <1>t, <1>2, <2>1, <3>1
    <3>3. ASSUME NEW e \in Device, e # d, lane'[e].machine.missionId = f.missionId
          PROVE  e = f.device /\ f.epoch = lane'[f.device].epoch
      BY <1>1, <2>1, <3>3 DEF MissionsAreDistinct, Current
    <3>4. ASSUME l.machine.missionId = f.missionId
          PROVE  d = f.device /\ f.epoch = l.epoch
      <4>1. l.machine.missionId = lane[d].machine.missionId /\ l.epoch = lane[d].epoch
        BY <1>t, <2>1, <3>1, <3>4
      <4> QED
        BY <2>1, <3>4, <4>1 DEF MissionsAreDistinct, Current
    <3> QED
      BY <1>1, <3>1, <3>2, <3>3, <3>4
  <2>2. CASE /\ f.device = d /\ f.epoch = l.epoch
             /\ f.missionId = l.machine.missionId /\ f.missionId # NoMission
    <3>1. f.missionId <= staged'
      BY <1>2, <2>2
    <3>2. \A e \in Device : lane'[e].machine.missionId = f.missionId => e = d
      BY <1>1, <1>4, <2>2
    <3> QED
      BY <1>1, <2>2, <3>1, <3>2
  <2> QED
    BY <2>1, <2>2
<1>6. \A m \in maybeFlying' : m # NoMission /\ m <= staged'
  <2>1. \A m \in maybeFlying' : m # NoMission /\ m <= staged /\ m \in Nat
    BY <1>t DEF MissionsAreDistinct, TypeOK
  <2> QED
    BY <1>t, <1>2, <2>1
<1> QED
  BY <1>3, <1>4, <1>5, <1>6 DEF MissionsAreDistinct, Current

\* ... and for the rest, of which the other lanes are no part.
LEMMA FlyingRewritten ==
  ASSUME TypeOK, TypeOK', FlyingInv, NEW d \in Device, NEW l \in Lane,
         lane' = [lane EXCEPT ![d] = l],
         MissionsAreDistinct',
         \A f \in flights' : f.device # d => f \in flights,
         \A e \in Device : e # d /\ lane[e].machine.missionId \in maybeFlying'
                             => lane[e].machine.missionId \in maybeFlying,
         NEW live, LiveFlights(d)' \subseteq live,
         \A f, g \in live : f # g =>
           /\ f.operation # g.operation
           /\ ~(f.operation \in Ordinary /\ g.operation \in Ordinary),
         \A f \in live : Awaits(l.machine, f),
         Grounded(l.machine, live, maybeFlying')
  PROVE  FlyingInv'
<1>1. lane'[d] = l /\ \A e \in Device : e # d => lane'[e] = lane[e]
  BY DEF TypeOK
<1>2. \A e \in Device : e # d => LiveFlights(e)' \subseteq LiveFlights(e)
  BY <1>1 DEF LiveFlights, FlightsOf, Current
<1>3. FlightsDoNotPileUp'
  <2> SUFFICES ASSUME NEW e \in Device, NEW f \in LiveFlights(e)', NEW g \in LiveFlights(e)', f # g
               PROVE  /\ f.operation # g.operation
                      /\ ~(f.operation \in Ordinary /\ g.operation \in Ordinary)
    BY DEF FlightsDoNotPileUp
  <2> QED
    BY <1>2 DEF FlyingInv, FlightsDoNotPileUp
<1>4. ASSUME NEW e \in Device
      PROVE  /\ \A f \in LiveFlights(e)' : Awaits(lane'[e].machine, f)
             /\ Grounded(lane'[e].machine, LiveFlights(e)', maybeFlying')
  BY <1>1, <1>2 DEF FlyingInv, Grounded
<1> QED
  BY <1>3, <1>4 DEF FlyingInv

LEMMA FlyingBegun ==
  ASSUME TypeOK, TypeOK', FlyingInv, NEW d \in Device, NEW l \in Lane,
         NEW operation \in Operations, NEW mission \in Nat, mission # NoMission,
         Await(d, operation, mission), lane' = [lane EXCEPT ![d] = l],
         l.epoch = lane[d].epoch, l.machine.missionId = mission, l.machine.phase # "idle",
         \/ mission = lane[d].machine.missionId /\ staged' = staged
         \/ mission = staged + 1 /\ staged' = staged + 1,
         maybeFlying' = maybeFlying,
         \/ LiveFlights(d) = {}
         \/ operation \notin Ordinary /\ \A f \in LiveFlights(d) : f.operation # operation,
         \A f \in LiveFlights(d) : Awaits(l.machine, f),
         \A f \in Flight : f.operation = operation /\ f.from = PhaseOf(d) => Awaits(l.machine, f),
         \A live :
           (\A f \in live : f.operation = "start" => f \in LiveFlights(d) \/ operation = "start")
             => Grounded(l.machine, live, maybeFlying)
  PROVE  FlyingInv'
<1>1. PICK p \in Promise : flights' = flights \cup
        {[promise |-> p, device |-> d, operation |-> operation,
          missionId |-> mission, epoch |-> lane[d].epoch, from |-> PhaseOf(d)]}
  BY DEF Await, FreePromises
<1> DEFINE new == [promise |-> p, device |-> d, operation |-> operation,
                   missionId |-> mission, epoch |-> lane[d].epoch, from |-> PhaseOf(d)]
           live == LiveFlights(d) \cup {new}
<1>2. /\ new \in Flight /\ new.device = d /\ new.operation = operation
      /\ new.missionId = mission /\ new.epoch = l.epoch /\ new.from = PhaseOf(d)
  BY DEF TypeOK, Lane, Machine, PhaseOf, Flight
<1>3. flights' = flights \cup {new}
  BY <1>1
<1> HIDE DEF new
<1>4. LiveFlights(d)' \subseteq live
  BY <1>3 DEF LiveFlights, FlightsOf, Current, TypeOK
<1>5. \A f, g \in live : f # g =>
           /\ f.operation # g.operation
           /\ ~(f.operation \in Ordinary /\ g.operation \in Ordinary)
  BY <1>2 DEF FlyingInv, FlightsDoNotPileUp
<1>6. \A f \in live : Awaits(l.machine, f)
  BY <1>2
<1>7. Grounded(l.machine, live, maybeFlying')
  BY <1>2
<1>8. MissionsAreDistinct'
  <2>1. \A f \in flights' :
           \/ f \in flights
           \/ /\ f.device = d /\ f.epoch = l.epoch
              /\ f.missionId = l.machine.missionId /\ f.missionId # NoMission
    BY <1>2, <1>3
  <2> QED
    BY <2>1, DistinctKept DEF FlyingInv
<1>9. \A f \in flights' : f.device # d => f \in flights
  BY <1>2, <1>3
<1> HIDE DEF live
<1> QED
  BY <1>4, <1>5, <1>6, <1>7, <1>8, <1>9, FlyingRewritten

\* A step that only rewrites the lane of d, for its mission.
LEMMA FlyingReported ==
  ASSUME TypeOK, TypeOK', FlyingInv, NEW d \in Device, NEW l \in Lane,
         lane' = [lane EXCEPT ![d] = l], flights' \subseteq flights, staged' = staged,
         \/ l.machine.missionId = lane[d].machine.missionId /\ l.epoch = lane[d].epoch
         \/ l.machine.missionId = NoMission,
         l.machine.phase = "idle" <=> l.machine.missionId = NoMission,
         \A m \in maybeFlying' :
           m \in maybeFlying \/ (m = lane[d].machine.missionId /\ m # NoMission),
         \A f \in LiveFlights(d)' : f \in LiveFlights(d) /\ Awaits(l.machine, f),
         Grounded(l.machine, LiveFlights(d)', maybeFlying')
  PROVE  FlyingInv'
<1>1. MissionsAreDistinct'
  <2>1. \A m \in maybeFlying' : m \in maybeFlying \/ (m # NoMission /\ m <= staged)
    BY DEF FlyingInv, MissionsAreDistinct
  <2> QED
    BY <2>1, DistinctKept DEF FlyingInv
<1>2. \A e \in Device : e # d /\ lane[e].machine.missionId \in maybeFlying'
                          => lane[e].machine.missionId \in maybeFlying
  BY DEF FlyingInv, MissionsAreDistinct
<1>3. \A f, g \in LiveFlights(d)' : f # g =>
           /\ f.operation # g.operation
           /\ ~(f.operation \in Ordinary /\ g.operation \in Ordinary)
  BY DEF FlyingInv, FlightsDoNotPileUp
<1> QED
  BY <1>1, <1>2, <1>3, FlyingRewritten

\* A machine becomes idle, and its mission none, by a stop and nothing else.
LEMMA IdleByStop ==
  ASSUME NEW m \in Machine, NEW e, NEW id \in Nat, e # "stage-requested",
         Legal(m, e, id), m.phase = "idle" <=> m.missionId = NoMission
  PROVE  Successor(m, e, id).phase = "idle" <=> Successor(m, e, id).missionId = NoMission
<1> DEFINE n == Successor(m, e, id)
<1>0. e \in Events /\ m.phase \in LegalFrom(e)
  BY LegalEvents DEF Legal
<1>1. CASE e = "stop-succeeded"
  BY <1>1 DEF Successor, Ended, Machine
<1>2. CASE e # "stop-succeeded"
  <2>1. m.missionId # NoMission
    BY <1>2 DEF Legal
  <2>2. n.missionId = m.missionId
    BY <1>2, MissionKept
  <2>3. n.phase # "idle"
    <3>1. CASE e = "stop-rejected"
      BY <3>1 DEF Legal, Successor, Machine, STOPPABLE
    <3>2. CASE e = "pause-rejected" \/ e = "start-rejected"
      BY <3>2 DEF Successor, Machine
    <3> QED
      BY <1>0, <1>2, <3>1, <3>2 DEF Successor, Ended, Machine, Events
  <2> QED
    BY <2>1, <2>2, <2>3
<1> QED
  BY <1>1, <1>2

\* The event of a reply is one of the operation it answers.
LEMMA ReplyEventOf ==
  ASSUME NEW m, NEW id, NEW f \in Flight, NEW reply,
         NEW e, e = ReplyEvent(f.operation, reply), Legal(m, e, id)
  PROVE  /\ f.operation = "stage" => e \in {"stage-succeeded", "operation-failed"}
         /\ f.operation = "upload" =>
              e \in {"upload-succeeded", "upload-rejected", "operation-failed"}
         /\ f.operation = "start" => e = "start-rejected" /\ reply = "ACTION_REJECTED"
         /\ f.operation = "pause" => e \in {"pause-succeeded", "pause-rejected"}
         /\ f.operation = "resume" => e \in {"resume-succeeded", "resume-rejected"}
         /\ f.operation = "stop" => e \in {"stop-succeeded", "stop-rejected"}
<1>1. e # None
  BY LegalEvents DEF Events, None
<1> QED
  BY <1>1 DEF ReplyEvent

LEMMA FlyingSettled ==
  ASSUME IInv, FlyingInv, TypeOK', NEW f \in flights, NEW reply, Settle(f, reply)
  PROVE  FlyingInv'
<1> DEFINE d == f.device
           old == lane[d].machine
<1>t. /\ f \in Flight /\ d \in Device /\ f.missionId \in Nat /\ lane[d] \in Lane
      /\ old \in Machine /\ TypeOK /\ f.operation \in Operations
  BY DEF IInv, TypeOK, Flight, Lane
<1>s. /\ flights' = flights \ {f} /\ staged' = staged
      /\ maybeFlying' = maybeFlying \cup
           {m \in {f.missionId} : f.operation = "start" /\ reply # "ACTION_REJECTED"}
  BY DEF Settle
<1>m. f.missionId # NoMission /\ f.missionId <= staged
  BY DEF FlyingInv, MissionsAreDistinct
<1>i. old.phase = "idle" <=> old.missionId = NoMission
  BY <1>t DEF FlyingInv, MissionsAreDistinct, PhaseOf
\* The mission of the lane is untouched.
<1>1. ASSUME NEW l \in Lane, lane' = [lane EXCEPT ![d] = l],
             l.machine = old, l.epoch = lane[d].epoch
      PROVE  FlyingInv'
  <2>1. MissionsAreDistinct'
    <3>1. \A m \in maybeFlying' : m \in maybeFlying \/ (m # NoMission /\ m <= staged)
      BY <1>m, <1>s
    <3> QED
      BY <1>t, <1>1, <1>s, <1>i, <3>1, DistinctKept DEF FlyingInv
  <2>2. \A e \in Device : e # d /\ lane[e].machine.missionId \in maybeFlying'
                          => lane[e].machine.missionId \in maybeFlying
    BY <1>s DEF FlyingInv, MissionsAreDistinct
  <2>3. LiveFlights(d)' \subseteq LiveFlights(d) \ {f}
    BY <1>t, <1>s, <1>1 DEF LiveFlights, FlightsOf, Current, TypeOK
  <2>4. Grounded(old, LiveFlights(d)', maybeFlying')
    <3>1. CASE old.missionId \notin maybeFlying'
      BY <3>1 DEF Grounded
    <3>2. CASE old.missionId \in maybeFlying
      BY <1>t, <2>3, <3>2 DEF FlyingInv, Grounded
    <3>3. CASE old.missionId = f.missionId /\ f.operation = "start"
      <4>1. f \in LiveFlights(d)
        BY <1>t, <3>3 DEF LiveFlights, FlightsOf, FlyingInv, MissionsAreDistinct
      <4>2. old.phase \in STOPPABLE
        BY <1>t, <1>i, <1>m, <3>3, <4>1 DEF FlyingInv, Awaits
      <4>3. \A g \in LiveFlights(d)' : g.operation # "start"
        BY <1>t, <2>3, <3>3, <4>1 DEF FlyingInv, FlightsDoNotPileUp
      <4> QED
        BY <4>2, <4>3 DEF Grounded
    <3> QED
      BY <1>s, <3>1, <3>2, <3>3
  <2>5. \A g \in LiveFlights(d)' : Awaits(l.machine, g)
    BY <1>t, <1>1, <2>3 DEF FlyingInv
  <2>6. \A g, h \in LiveFlights(d)' : g # h =>
           /\ g.operation # h.operation
           /\ ~(g.operation \in Ordinary /\ h.operation \in Ordinary)
    BY <1>t, <2>3 DEF FlyingInv, FlightsDoNotPileUp
  <2> QED
    BY <1>t, <1>s, <1>1, <2>1, <2>2, <2>4, <2>5, <2>6, FlyingRewritten
<1>2. CASE SettleStale(f)
  <2>1. lane' = [lane EXCEPT ![d] = lane[d]]
    BY <1>t, <1>2 DEF SettleStale, TypeOK
  <2> QED
    BY <1>1, <1>t, <2>1
<1>3. CASE SettleCurrent(f, reply)
  <2> DEFINE new == AfterReply(old, f, reply)
             event == ReplyEvent(f.operation, reply)
             ok == IF AnsweredOk(old, f, reply) THEN "ok" ELSE "failed"
             l == EndFlight(lane[d], new, ok)
  <2>1. Current(f) /\ lane' = [lane EXCEPT ![d] = l]
    BY <1>3 DEF SettleCurrent
  <2>2. l.machine = new /\ l.epoch = lane[d].epoch
    BY <1>t DEF EndFlight, Lane
  <2>3. l \in Lane
    BY <1>t, <2>1 DEF TypeOK
  <2>4. CASE new = old
    <3> HIDE DEF new, l
    <3> QED
      BY <1>1, <2>1, <2>2, <2>3, <2>4
  <2>5. CASE new # old
    <3>1. new = Successor(old, event, f.missionId) /\ Legal(old, event, f.missionId)
      BY <2>5 DEF AfterReply, Transition
    <3>2. event # "stage-requested" /\ old.phase # "idle"
      BY <1>t, <3>1, ReplyEvents, IdleRefuses
    <3>3. f \in LiveFlights(d)
      BY <2>1 DEF LiveFlights, FlightsOf
    <3>e. /\ f.operation = "stage" => event \in {"stage-succeeded", "operation-failed"}
          /\ f.operation = "upload" =>
               event \in {"upload-succeeded", "upload-rejected", "operation-failed"}
          /\ f.operation = "start" => event = "start-rejected" /\ reply = "ACTION_REJECTED"
          /\ f.operation = "pause" => event \in {"pause-succeeded", "pause-rejected"}
          /\ f.operation = "resume" => event \in {"resume-succeeded", "resume-rejected"}
          /\ f.operation = "stop" => event \in {"stop-succeeded", "stop-rejected"}
      BY <1>t, <3>1, ReplyEventOf
    <3> HIDE DEF event, new, l
    <3>4. maybeFlying' = maybeFlying
      BY <1>s, <3>e
    <3>5. LiveFlights(d)' \subseteq LiveFlights(d) \ {f}
      BY <1>t, <1>s, <2>1, <2>2 DEF LiveFlights, FlightsOf, Current, TypeOK
    <3>6. Awaits(old, f) /\ f.operation \in {"stage", "upload", "start", "pause", "resume", "stop"}
      BY <1>t, <3>3 DEF FlyingInv, Operations, Commands, Controls
    <3>7. event = "operation-failed" => old.phase \in {"staging", "uploading"}
      BY <3>2, <3>6, <3>e DEF Awaits
    <3>8. ASSUME NEW g \in LiveFlights(d)' PROVE Awaits(new, g)
      <4>1. /\ g \in Flight /\ g.operation # f.operation /\ Awaits(old, g)
            /\ f.operation \in Ordinary => g.operation \notin Ordinary
        BY <1>t, <3>3, <3>5
           DEF FlyingInv, FlightsDoNotPileUp, LiveFlights, FlightsOf, TypeOK
      <4>2. Passing(old, event, g)
        BY <3>6, <3>e, <4>1 DEF Passing, Ordinary, Operations, Commands, Controls
      <4> QED
        BY <1>t, <3>1, <3>7, <4>1, <4>2, AwaitsKept
    <3>9. Grounded(new, LiveFlights(d)', maybeFlying')
      <4>1. NoMission \notin maybeFlying
        BY DEF FlyingInv, MissionsAreDistinct
      <4>2. event \notin {"start-requested", "stop-requested", "start-succeeded"}
        BY <3>6, <3>e
      <4>3. event = "start-rejected" => f.operation = "start"
        BY <3>6, <3>e
      <4>4. Grounded(old, LiveFlights(d), maybeFlying)
        BY <1>t DEF FlyingInv
      <4> QED
        BY <1>t, <3>1, <3>2, <3>3, <3>4, <3>5, <4>1, <4>2, <4>3, <4>4, GroundedKept
    <3>10. new.phase = "idle" <=> new.missionId = NoMission
      BY <1>t, <1>i, <3>1, <3>2, IdleByStop
    <3>11. new.missionId = old.missionId \/ new.missionId = NoMission
      <4>1. CASE event = "stop-succeeded"
        BY <1>t, <3>1, <4>1 DEF Successor, Ended, Machine
      <4>2. CASE event # "stop-succeeded"
        BY <1>t, <3>1, <3>2, <4>2, MissionKept
      <4> QED
        BY <4>1, <4>2
    <3> QED
      BY <1>t, <1>s, <2>1, <2>2, <2>3, <3>4, <3>5, <3>8, <3>9, <3>10, <3>11, FlyingReported
  <2> QED
    BY <2>4, <2>5
<1> QED
  BY <1>2, <1>3 DEF Settle

\* A lane that counts no flight has none, so nothing it awaited can come.
LEMMA NobodyLive ==
  ASSUME IInv, NEW d \in Device, lane[d].inFlightCount = 0
  PROVE  LiveFlights(d) = {}
<1>1. IsFiniteSet(LiveFlights(d))
  BY FS_Subset DEF IInv, LiveFlights, FlightsOf
<1> QED
  BY <1>1, FS_EmptySet DEF IInv, FlightsAreCounted

LEMMA FlyingCommanded ==
  ASSUME IInv, FlyingInv, TypeOK', NEW d \in Device, NEW operation \in Commands,
         Command(d, operation)
  PROVE  FlyingInv'
<1> DEFINE old == lane[d].machine
           event == RequestEvent(operation)
           new == Successor(old, event, NoMission)
           l == BeginFlight(lane[d], new)
<1>t. /\ TypeOK /\ lane[d] \in Lane /\ old \in Machine /\ NoMission \in Nat /\ old.missionId \in Nat
  BY DEF IInv, TypeOK, Lane, Machine, NoMission
<1>1. Legal(old, event, NoMission) /\ lane' = [lane EXCEPT ![d] = l]
  BY DEF Command
<1>2. event \notin {"stage-requested", "stop-succeeded", "start-succeeded", "start-rejected"}
  BY DEF RequestEvent, Commands, Controls
<1>3. new.missionId = old.missionId /\ old.phase # "idle" /\ old.missionId # NoMission
  BY <1>t, <1>1, <1>2, MissionKept, IdleRefuses DEF Legal
<1>4. new.phase # "idle"
  BY <1>t, <1>1, <1>2, <1>3, IdleByStop DEF FlyingInv, MissionsAreDistinct, PhaseOf
<1>5. l.epoch = lane[d].epoch /\ l.machine = new
  BY <1>t DEF BeginFlight, Lane
<1>6. l \in Lane /\ lane[d].inFlightCount \in Nat
  BY <1>t, <1>1 DEF TypeOK, Lane
<1>7. Busy(d) => /\ operation \in {"stop", "pause"} /\ operation \notin Ordinary
                 /\ operation = "stop" => old.phase \in STOPPABLE \ {"stopping"}
                 /\ operation = "pause" => old.phase \in {"starting", "running"}
  BY DEF Command, MayPreempt, PhaseOf, Ordinary
<1>8. ~Busy(d) => LiveFlights(d) = {}
  BY <1>6, NobodyLive DEF Busy
<1>9. \A f \in LiveFlights(d) : f \in Flight /\ Awaits(old, f) /\ Busy(d)
  BY <1>8 DEF FlyingInv, LiveFlights, FlightsOf, IInv, TypeOK
<1>e. /\ operation = "upload" => event = "upload-requested"
      /\ operation = "start" => event = "start-requested"
      /\ operation = "pause" => event = "pause-requested"
      /\ operation = "resume" => event = "resume-requested"
      /\ operation = "stop" => event = "stop-requested"
  BY DEF RequestEvent, Commands, Controls
<1> HIDE DEF event
<1>10. \/ LiveFlights(d) = {}
       \/ operation \notin Ordinary /\ \A f \in LiveFlights(d) : f.operation # operation
  <2>1. ASSUME NEW f \in LiveFlights(d) PROVE f.operation # operation
    BY <1>3, <1>7, <1>9 DEF Awaits, Unstopped
  <2> QED
    BY <1>7, <1>9, <2>1
<1>11. \A f \in LiveFlights(d) : Awaits(new, f)
  <2> SUFFICES ASSUME NEW f \in LiveFlights(d) PROVE Awaits(new, f)
    OBVIOUS
  <2>1. Passing(old, event, f) /\ event # "operation-failed"
    BY <1>e, <1>7, <1>9 DEF Passing
  <2> QED
    BY <1>t, <1>1, <1>9, <2>1, AwaitsKept
<1>12. ASSUME NEW f \in Flight, f.operation = operation, f.from = old.phase
       PROVE  Awaits(new, f)
  <2>0. old.phase \in LegalFrom(event)
    BY <1>1 DEF Legal
  <2>1. CASE operation = "upload"
    BY <1>e, <1>t, <1>12, <2>0, <2>1 DEF Awaits, Successor, Machine, LegalFrom
  <2>2. CASE operation = "start"
    BY <1>e, <1>t, <1>12, <2>0, <2>2 DEF Awaits, Successor, Machine, LegalFrom, STOPPABLE
  <2>3. CASE operation = "pause"
    BY <1>e, <1>t, <1>12, <2>0, <2>3 DEF Awaits, Unstopped, Successor, Machine, LegalFrom
  <2>4. CASE operation = "resume"
    BY <1>e, <1>t, <1>12, <2>0, <2>4 DEF Awaits, Unstopped, Successor, Machine, LegalFrom
  <2>5. CASE operation = "stop"
    BY <1>e, <1>t, <1>12, <2>0, <2>5 DEF Awaits, Successor, Machine, LegalFrom
  <2> QED
    BY <2>1, <2>2, <2>3, <2>4, <2>5 DEF Commands, Controls
<1>13. ASSUME NEW live,
              \A f \in live : f.operation = "start" => f \in LiveFlights(d) \/ operation = "start"
       PROVE  Grounded(new, live, maybeFlying)
  <2>1. NoMission \notin maybeFlying /\ Grounded(old, LiveFlights(d), maybeFlying)
    BY DEF FlyingInv, MissionsAreDistinct
  <2>2. event # "start-requested" => \A f \in live : f.operation = "start" => f \in LiveFlights(d)
    BY <1>13, <1>e
  <2>3. event = "stop-requested" /\ old.phase = "stopping" => \A f \in live : f.operation # "start"
    <3>1. event = "stop-requested" => operation = "stop"
      BY <1>e DEF Commands, Controls
    <3> QED
      BY <1>7, <1>8, <1>13, <3>1
  <2> QED
    BY <1>t, <1>1, <1>2, <2>1, <2>2, <2>3, GroundedKept
<1>14. /\ Await(d, operation, old.missionId) /\ operation \in Operations
       /\ staged' = staged /\ maybeFlying' = maybeFlying
  BY DEF Command, Operations
<1> HIDE DEF new, l
<1> QED
  BY <1>t, <1>1, <1>3, <1>4, <1>5, <1>6, <1>10, <1>11, <1>12, <1>13, <1>14, FlyingBegun DEF PhaseOf

\* Every step keeps what is awaited and what is flown in order.
LEMMA FlyingStep ==
  ASSUME SettlesBeforeLoss, IInv, FlyingInv, [Next]_vars
  PROVE  FlyingInv'
<1>t. TypeOK /\ TypeOK'
  BY TypeStep DEF IInv
<1>l. \A d \in Device : /\ lane[d] \in Lane /\ lane[d].machine \in Machine
                        /\ lane[d].machine.missionId \in Nat
                        /\ lane[d].epoch \in Nat
  BY <1>t, DispatcherAssumption DEF TypeOK, Lane, Machine
<1>w. \A d \in Device : \A l : lane' = [lane EXCEPT ![d] = l] => l \in Lane
  BY <1>t DEF TypeOK
<1>i. \A d \in Device : lane[d].machine.phase = "idle" <=> lane[d].machine.missionId = NoMission
  BY DEF FlyingInv, MissionsAreDistinct, PhaseOf
<1>n. NoMission \in Nat /\ NoMission \notin maybeFlying
  BY DEF FlyingInv, MissionsAreDistinct, NoMission
<1>1. ASSUME NEW d \in Device, NEW route \in Route, Stage(d, route)
      PROVE  FlyingInv'
  <2> DEFINE new == Successor(lane[d].machine, "stage-requested", staged + 1)
             l == BeginFlight(ForRoute(lane[d], route), new)
  <2>0. staged \in Nat /\ staged + 1 \in Nat /\ staged + 1 # NoMission
    BY <1>t, DispatcherAssumption DEF TypeOK, NoMission
  <2>1. new.phase = "staging" /\ new.missionId = staged + 1
    BY <1>l DEF Successor, Ended, Machine
  <2>2. l.epoch = lane[d].epoch /\ l.machine = new
    BY <1>l DEF BeginFlight, ForRoute, Lane
  <2>3. LiveFlights(d) = {}
    <3>1. lane[d].inFlightCount \in Nat
      BY <1>l DEF Lane
    <3> QED
      BY <1>1, <3>1, NobodyLive DEF Stage, Busy
  <2>4. lane' = [lane EXCEPT ![d] = l] /\ Await(d, "stage", staged + 1)
    BY <1>1 DEF Stage
  <2>5. \A f \in Flight : f.operation = "stage" => Awaits(new, f)
    BY <2>1 DEF Awaits
  <2>6. new.missionId \notin maybeFlying
    BY <2>0, <2>1 DEF FlyingInv, MissionsAreDistinct
  <2>7. \A live : Grounded(new, live, maybeFlying)
    BY <2>6 DEF Grounded
  <2>8. staged' = staged + 1 /\ maybeFlying' = maybeFlying /\ "stage" \in Operations
    BY <1>1 DEF Stage, Operations
  <2> HIDE DEF l, new
  <2>9. /\ l \in Lane /\ l.machine.missionId = staged + 1 /\ l.machine.phase # "idle"
        /\ \A f \in LiveFlights(d) : Awaits(l.machine, f)
        /\ \A f \in Flight : f.operation = "stage" /\ f.from = PhaseOf(d) => Awaits(l.machine, f)
        /\ \A live :
             (\A f \in live : f.operation = "start" => f \in LiveFlights(d) \/ "stage" = "start")
               => Grounded(l.machine, live, maybeFlying)
    BY <1>w, <2>1, <2>2, <2>3, <2>4, <2>5, <2>7
  <2> QED
    BY <1>t, <2>0, <2>2, <2>3, <2>4, <2>8, <2>9, FlyingBegun
<1>2. ASSUME NEW d \in Device, NEW operation \in Commands, Command(d, operation)
      PROVE  FlyingInv'
  BY <1>2, <1>t, FlyingCommanded
\* A lane rewritten with the machine it has.
<1>s. ASSUME NEW d \in Device, NEW l, lane' = [lane EXCEPT ![d] = l],
             UNCHANGED <<flights, staged, maybeFlying>>,
             l.machine = lane[d].machine, l.epoch = lane[d].epoch
      PROVE  FlyingInv'
  <2>1. LiveFlights(d)' = LiveFlights(d)
    BY <1>s, <1>t DEF LiveFlights, FlightsOf, Current, TypeOK
  <2>2. /\ \A f \in LiveFlights(d) : Awaits(l.machine, f)
        /\ Grounded(l.machine, LiveFlights(d), maybeFlying)
    BY <1>s DEF FlyingInv
  <2> QED
    BY <1>s, <1>t, <1>w, <1>i, <2>1, <2>2, FlyingReported
<1>3. ASSUME NEW d \in Device, Refuse(d)
      PROVE  FlyingInv'
  <2> DEFINE l == [lane[d] EXCEPT !.lastResult = "failed"]
  <2>1. l.machine = lane[d].machine /\ l.epoch = lane[d].epoch
    BY <1>l DEF Lane
  <2>2. lane' = [lane EXCEPT ![d] = l] /\ UNCHANGED <<flights, staged, maybeFlying>>
    BY <1>3 DEF Refuse
  <2> HIDE DEF l
  <2> QED
    BY <1>s, <2>1, <2>2
<1>4. ASSUME NEW d \in Device, Release(d) \/ Forget(d)
      PROVE  FlyingInv'
  <2>1. PICK exists : /\ lane' = [lane EXCEPT ![d] = FreshLane(exists, lane[d].epoch + 1)]
                      /\ UNCHANGED <<flights, staged, maybeFlying>>
    BY <1>4 DEF Release, Forget
  <2> DEFINE l == FreshLane(exists, lane[d].epoch + 1)
  <2>2. /\ l.machine.phase = "idle" /\ l.machine.missionId = NoMission
        /\ l.epoch = lane[d].epoch + 1
    BY DEF FreshLane, IdleMachine
  <2>3. lane' = [lane EXCEPT ![d] = l]
    BY <2>1
  <2> HIDE DEF l
  <2>4. LiveFlights(d)' = {}
    <3>1. lane'[d] = l
      BY <1>t, <2>3 DEF TypeOK
    <3>2. \A f \in flights : f.device = d => f.epoch # lane[d].epoch + 1
      <4> SUFFICES ASSUME NEW f \in flights, f.device = d PROVE f.epoch # lane[d].epoch + 1
        OBVIOUS
      <4>1. f.epoch <= lane[d].epoch /\ f.epoch \in Nat /\ lane[d].epoch \in Nat
        BY <1>t, <1>l, DispatcherAssumption DEF IInv, EpochsBehind, TypeOK, Flight
      <4> QED
        BY <4>1
    <3> QED
      BY <2>1, <2>2, <3>1, <3>2 DEF LiveFlights, FlightsOf, Current
  <2>5. Grounded(l.machine, {}, maybeFlying')
    BY <1>n, <2>1, <2>2 DEF Grounded
  <2> QED
    BY <1>t, <1>w, <2>1, <2>2, <2>3, <2>4, <2>5, FlyingReported
\* An event the machine accepts while nothing is awaited.
<1>o. ASSUME NEW d \in Device, NEW l, NEW e, lane' = [lane EXCEPT ![d] = l],
             UNCHANGED <<flights, staged, maybeFlying>>, l.epoch = lane[d].epoch,
             Legal(lane[d].machine, e, NoMission),
             e \in {"mission-completed", "operation-failed", "connection-lost"},
             l.machine = Successor(lane[d].machine, e, NoMission), LiveFlights(d) = {}
      PROVE  FlyingInv'
  <2>1. LiveFlights(d)' = {}
    BY <1>o, <1>t DEF LiveFlights, FlightsOf, Current, TypeOK
  <2>2. l.machine.missionId = lane[d].machine.missionId
    BY <1>o, <1>l, <1>n, MissionKept
  <2>3. l.machine.phase = "idle" <=> l.machine.missionId = NoMission
    BY <1>o, <1>l, <1>n, <1>i, IdleByStop
  <2>4. Grounded(l.machine, {}, maybeFlying')
    <3>1. Grounded(lane[d].machine, LiveFlights(d), maybeFlying)
      BY DEF FlyingInv
    <3> QED
      BY <1>o, <1>l, <1>n, <3>1, GroundedKept
  <2> QED
    BY <1>o, <1>t, <1>w, <2>1, <2>2, <2>3, <2>4, FlyingReported
<1>5. ASSUME NEW d \in Device, RecordDisconnected(d)
      PROVE  FlyingInv'
  <2> DEFINE l == Lost(lane[d])
  <2>1. l.epoch = lane[d].epoch
        /\ l.machine = Successor(lane[d].machine, "connection-lost", NoMission)
    BY <1>l DEF Lost, Lane
  <2>2. /\ lane' = [lane EXCEPT ![d] = l] /\ UNCHANGED <<flights, staged, maybeFlying>>
        /\ Legal(lane[d].machine, "connection-lost", NoMission) /\ LiveFlights(d) = {}
    BY <1>5 DEF RecordDisconnected, LiveFlights
  <2> HIDE DEF l
  <2> QED
    BY <1>o, <2>1, <2>2
<1>6. ASSUME NEW d \in Device, NEW route, NEW identity, NEW sequence, NEW milestone,
             RecordMilestone(d, route, identity, sequence, milestone)
      PROVE  FlyingInv'
  <2> DEFINE l == Reached(lane[d], identity, sequence, milestone)
  <2>1. l.machine = lane[d].machine /\ l.epoch = lane[d].epoch
    BY <1>l DEF Reached, Lane
  <2>2. lane' = [lane EXCEPT ![d] = l] /\ UNCHANGED <<flights, staged, maybeFlying>>
    BY <1>6 DEF RecordMilestone
  <2> HIDE DEF l
  <2> QED
    BY <1>s, <2>1, <2>2
<1>7. ASSUME NEW d \in Device, NEW route, NEW identity, NEW sequence,
             \/ RecordStarted(d, route, identity, sequence)
             \/ RecordExecutionStarted(d, route, identity)
      PROVE  FlyingInv'
  <2> DEFINE old == lane[d].machine
             new == Successor(old, "start-succeeded", NoMission)
  <2>1. PICK s : lane' = [lane EXCEPT ![d] = Running(lane[d], identity, s)]
    BY <1>7 DEF RecordStarted, RecordExecutionStarted
  <2> DEFINE l == Running(lane[d], identity, s)
  <2>2. l.epoch = lane[d].epoch /\ l.machine = new
    BY <1>l DEF Running, Lane
  <2>3. /\ Legal(old, "start-succeeded", NoMission) /\ UNCHANGED <<flights, staged>>
        /\ maybeFlying' = maybeFlying \cup {old.missionId}
    BY <1>7 DEF RecordStarted, RecordExecutionStarted
  <2>4. lane' = [lane EXCEPT ![d] = l]
    BY <2>1
  <2>5. new.missionId = old.missionId /\ old.missionId # NoMission
    BY <1>l, <1>n, <2>3, MissionKept DEF Legal
  <2>6. new.phase = "idle" <=> new.missionId = NoMission
    BY <1>l, <1>n, <1>i, <2>3, IdleByStop
  <2> HIDE DEF l
  <2>7. LiveFlights(d)' = LiveFlights(d)
    BY <1>t, <2>2, <2>3, <2>4 DEF LiveFlights, FlightsOf, Current, TypeOK
  <2>8. ASSUME NEW f \in LiveFlights(d) PROVE Awaits(new, f)
    <3>1. f \in Flight /\ Awaits(old, f)
      BY <1>t DEF FlyingInv, LiveFlights, FlightsOf, TypeOK
    <3>2. Passing(old, "start-succeeded", f)
      BY DEF Passing
    <3> QED
      BY <1>l, <2>3, <3>1, <3>2, AwaitsKept
  <2>9. Grounded(new, LiveFlights(d), maybeFlying')
    <3>1. Grounded(old, LiveFlights(d), maybeFlying) /\ NoMission \notin maybeFlying'
      BY <1>n, <2>3, <2>5 DEF FlyingInv
    <3> QED
      BY <1>l, <2>3, <3>1, GroundedKept
  <2> HIDE DEF new
  <2> QED
    BY <1>t, <1>w, <2>2, <2>3, <2>4, <2>5, <2>6, <2>7, <2>8, <2>9, FlyingReported
<1>8. ASSUME NEW d \in Device, NEW route, NEW identity, NEW outcome,
             RecordExecutionTerminal(d, route, identity, outcome)
      PROVE  FlyingInv'
  <2> DEFINE e == TerminalEvent(outcome)
             l == Over(lane[d], outcome)
  <2>1. e \in {"mission-completed", "operation-failed"}
    BY DEF TerminalEvent
  <2>2. lane' = [lane EXCEPT ![d] = l] /\ UNCHANGED <<flights, staged, maybeFlying>>
    BY <1>8 DEF RecordExecutionTerminal
  <2>3. l.epoch = lane[d].epoch /\ l.machine = Successor(lane[d].machine, e, NoMission)
    BY <1>l DEF Over, Lane
  <2>4. Legal(lane[d].machine, e, NoMission) /\ LiveFlights(d) = {}
    BY <1>8, NobodyLive DEF RecordExecutionTerminal, MayEnd
  <2> HIDE DEF l, e
  <2> QED
    BY <1>o, <2>1, <2>2, <2>3, <2>4
<1>9. ASSUME NEW f \in flights, NEW reply, Settle(f, reply)
      PROVE  FlyingInv'
  BY <1>9, <1>t, FlyingSettled
<1>10. CASE UNCHANGED vars
  <2>1. \A d \in Device : LiveFlights(d)' = LiveFlights(d)
    BY <1>10 DEF vars, LiveFlights, FlightsOf, Current
  <2>2. FlightsDoNotPileUp' /\ MissionsAreDistinct'
    BY <1>10, <2>1 DEF vars, FlyingInv, FlightsDoNotPileUp, MissionsAreDistinct, PhaseOf, Current
  <2> QED
    BY <1>10, <2>1, <2>2 DEF vars, FlyingInv
<1> QED
  BY <1>1, <1>2, <1>3, <1>4, <1>5, <1>6, <1>7, <1>8, <1>9, <1>10
     DEF Next, Operate, Observe, Resolve, RecordMissionPhase

LEMMA FlyingInductive ==
  ASSUME SettlesBeforeLoss
  PROVE  Spec => [](IInv /\ FlyingInv)
<1>1. Init => FlyingInv
  <2> SUFFICES ASSUME Init PROVE FlyingInv
    OBVIOUS
  <2>1. \A d \in Device : /\ LiveFlights(d) = {} /\ PhaseOf(d) = "idle"
                          /\ lane[d].machine.missionId = NoMission
    BY DEF Init, LiveFlights, FlightsOf, FreshLane, IdleMachine, PhaseOf
  <2>2. NoMission <= staged
    BY DEF Init, NoMission
  <2>3. FlightsDoNotPileUp /\ MissionsAreDistinct
    BY <2>1, <2>2 DEF Init, FlightsDoNotPileUp, MissionsAreDistinct
  <2> QED
    BY <2>1, <2>3 DEF Init, FlyingInv, Grounded
<1>2. IInv /\ FlyingInv /\ [Next]_vars => FlyingInv'
  BY FlyingStep
<1> QED
  BY <1>1, <1>2, Inductive, PTL DEF Spec

\* One ordinary operation per lane, and neither a stop nor a pause twice.
THEOREM FlightsAreSingle ==
  ASSUME SettlesBeforeLoss
  PROVE  Spec => []FlightsDoNotPileUp
<1>1. FlyingInv => FlightsDoNotPileUp
  BY DEF FlyingInv
<1> QED
  BY <1>1, FlyingInductive, PTL

\* Whatever may be flying can be stopped, whichever pauses, repeated starts and
\* rejections came in between.
THEOREM FlyingIsStoppable ==
  ASSUME SettlesBeforeLoss
  PROVE  Spec => []MaybeFlyingIsStoppable
<1>1. FlyingInv => MaybeFlyingIsStoppable
  BY DEF FlyingInv, Grounded, MaybeFlyingIsStoppable, PhaseOf
<1> QED
  BY <1>1, FlyingInductive, PTL

\* A rejected operation leaves the lane in the phase it was requested in.
THEOREM RejectionsRestore ==
  ASSUME SettlesBeforeLoss
  PROVE  Spec => RejectionRestores
<1> DEFINE Restored == \A f \in flights :
       /\ Settle(f, "ACTION_REJECTED")
       /\ Current(f)
       /\ f.operation # "stage"
       /\ PhaseOf(f.device) = Waiting(f.operation)
       => PhaseOf(f.device)' = IF f.operation = "start" /\ f.from # "uploaded"
                               THEN "starting" ELSE f.from
<1>1. IInv /\ FlyingInv => Restored
  <2> SUFFICES ASSUME IInv, FlyingInv, NEW f \in flights, Settle(f, "ACTION_REJECTED"),
                      Current(f), f.operation # "stage",
                      PhaseOf(f.device) = Waiting(f.operation)
               PROVE  PhaseOf(f.device)' = IF f.operation = "start" /\ f.from # "uploaded"
                                           THEN "starting" ELSE f.from
    OBVIOUS
  <2> DEFINE d == f.device
             m == lane[d].machine
             e == ReplyEvent(f.operation, "ACTION_REJECTED")
             new == AfterReply(m, f, "ACTION_REJECTED")
  <2>t. /\ d \in Device /\ m \in Machine /\ lane[d] \in Lane
        /\ f.operation \in {"upload", "start", "pause", "resume", "stop"}
    BY DEF IInv, TypeOK, Flight, Lane, Operations, Commands, Controls
  <2>1. Awaits(m, f)
    BY <2>t DEF FlyingInv, LiveFlights, FlightsOf
  <2>2. PhaseOf(d)' = new.phase
    <3> DEFINE ok == IF AnsweredOk(m, f, "ACTION_REJECTED") THEN "ok" ELSE "failed"
    <3>1. lane' = [lane EXCEPT ![d] = EndFlight(lane[d], new, ok)]
      BY DEF Settle, SettleStale, SettleCurrent
    <3> HIDE DEF new, ok
    <3>2. lane'[d] = EndFlight(lane[d], new, ok)
      BY <2>t, <3>1 DEF IInv, TypeOK
    <3>3. EndFlight(lane[d], new, ok).machine = new
      BY <2>t DEF EndFlight, Lane
    <3> QED
      BY <3>2, <3>3 DEF PhaseOf
  <2>3. m.phase = Waiting(f.operation) /\ m.phase # "idle"
    BY <2>t DEF PhaseOf, Waiting
  <2>4. m.missionId # NoMission
    BY <2>t, <2>3 DEF FlyingInv, MissionsAreDistinct, PhaseOf
  <2>5. Legal(m, e, f.missionId)
    BY <2>t, <2>1, <2>3, <2>4
       DEF Legal, LegalFrom, ReplyEvent, Waiting, Awaits, None, IInv, TypeOK, Flight, MissionPhases
  <2>6. new = Successor(m, e, f.missionId)
    BY <2>t, <2>3, <2>5 DEF AfterReply, Transition, Waiting
  <2>7. new.phase = IF f.operation = "start" /\ f.from # "uploaded" THEN "starting" ELSE f.from
    BY <2>t, <2>1, <2>3, <2>6 DEF Successor, ReplyEvent, Waiting, Awaits, Unstopped, Machine
  <2> QED
    BY <2>2, <2>7
<1> QED
  BY <1>1, FlyingInductive, PTL DEF RejectionRestores

-----------------------------------------------------------------------------
(* The facts of a snapshot *)

LEMMA NoFactIsTyped ==
  /\ NoFact \in Fact /\ NoFact.identity = NoIdentity /\ NoFact.sequence = 0
  /\ NoTelemetry \in Telemetry /\ NoTelemetry.outcome = None
  /\ NoRun \in Run /\ NoRun.mission = NoMission /\ NoRun.sequence = 0 /\ NoRun.outcome = None
BY Zeroes DEF NoFact, Fact, NoTelemetry, Telemetry, NoRun, Run, NoMission, NoIdentity, Outcomes

\* A connection without a fact presents none that is newer than the mark.
LEMMA NoFactIsStale ==
  ASSUME NEW applied \in Fact
  PROVE  StalePhase(NoFact, applied)
<1>1. NoFact.identity = 0 /\ NoFact.sequence = 0
  BY NoFactIsTyped DEF NoIdentity
<1>2. applied.identity \in Nat /\ applied.sequence \in Nat
  <2>1. applied.identity \in Identity \cup {0} /\ applied.sequence \in 0..MaxSequence
    BY DEF Fact, NoIdentity
  <2>2. Identity \subseteq Nat /\ MaxSequence \in Nat
    BY DispatcherAssumption
  <2>3. applied.identity \in Nat
    <3>1. CASE applied.identity = 0
      BY <3>1
    <3>2. CASE applied.identity \in Identity
      BY <2>2, <3>2
    <3> QED
      BY <2>1, <3>1, <3>2
  <2>4. applied.sequence \in Nat
    BY <2>1, <2>2
  <2> QED
    BY <2>3, <2>4
<1> QED
  BY <1>1, <1>2 DEF StalePhase

\* What a phase fact makes of a lane.
LEMMA PhaseApplied ==
  ASSUME NEW l \in Lane, NEW fact \in Fact, NEW applied \in Fact, Applies(l, fact, applied)
  PROVE  LET new == AfterPhase(l, fact, applied)
         IN  /\ new \in Lane
             /\ new.fileName = l.fileName /\ new.epoch = l.epoch
             /\ new.machine.missionId = l.machine.missionId
             /\ new.missionIdentity = fact.identity
             /\ fact.sequence > 0
             /\ l.fileName = StagedRoute[fact.mission]
             /\ l.machine.phase \in {"starting", "running"}
             /\ new.machine.phase \in {l.machine.phase, "running"}
<1>1. /\ l.machine \in Machine /\ l.missionPhaseSequence \in Nat
      /\ fact.identity \in Identity \cup {NoIdentity}
      /\ fact.sequence \in 0..MaxSequence
  BY DispatcherAssumption DEF Lane, Fact
<1>2. /\ l.fileName = StagedRoute[fact.mission]
      /\ l.machine.phase \in {"starting", "running"}
      /\ fact.sequence > l.missionPhaseSequence
  BY DEF Applies, Acceptable
<1>3. fact.sequence > 0
  BY <1>1, <1>2, DispatcherAssumption
<1>4. CASE Starts(l, fact)
  <2> DEFINE new == Running(l, fact.identity, fact.sequence)
  <2>1. AfterPhase(l, fact, applied) = new
    BY <1>4 DEF AfterPhase
  <2>2. new \in Lane
    BY <1>1, RunningType
  <2>3. /\ new.fileName = l.fileName /\ new.epoch = l.epoch
        /\ new.missionIdentity = fact.identity
        /\ new.machine = Successor(l.machine, "start-succeeded", NoMission)
    BY <1>1 DEF Running, Lane
  <2>4. new.machine.missionId = l.machine.missionId /\ new.machine.phase = "running"
    BY <1>1, <2>3 DEF Successor, Machine
  <2> QED
    BY <1>2, <1>3, <2>1, <2>2, <2>3, <2>4
<1>5. CASE ~Starts(l, fact)
  <2> DEFINE new == Reached(l, fact.identity, fact.sequence, Milestone(fact))
  <2>1. AfterPhase(l, fact, applied) = new
    BY <1>5 DEF AfterPhase
  <2>2. new \in Lane
    BY <1>1, ReachedType
  <2>3. /\ new.fileName = l.fileName /\ new.epoch = l.epoch
        /\ new.missionIdentity = fact.identity
        /\ new.machine = l.machine
    BY DEF Reached, Lane
  <2> QED
    BY <1>2, <1>3, <2>1, <2>2, <2>3
<1> QED
  BY <1>4, <1>5

\* What a reported outcome makes of a lane.
LEMMA TerminalApplied ==
  ASSUME NEW l \in Lane, NEW report \in Telemetry
  PROVE  LET new == AfterTerminal(l, report)
         IN  /\ new \in Lane
             /\ new.fileName = l.fileName /\ new.epoch = l.epoch
             /\ new.missionIdentity = l.missionIdentity
             /\ new.machine.missionId = l.machine.missionId
             /\ \/ new = l
                \/ /\ new.machine.phase = report.outcome
                   /\ report.outcome \in Outcomes
                   /\ l.fileName = StagedRoute[report.mission]
                   /\ l.machine.missionId # NoMission
<1> DEFINE ends == report.outcome # None
                     /\ MayEnd(l, StagedRoute[report.mission], report.identity, report.outcome)
<1>1. CASE ~ends
  BY <1>1 DEF AfterTerminal
<1>2. CASE ends
  <2> DEFINE new == Over(l, report.outcome)
             e == TerminalEvent(report.outcome)
  <2>1. AfterTerminal(l, report) = new
    BY <1>2 DEF AfterTerminal
  <2>2. l.machine \in Machine /\ NoMission \in Nat /\ report.outcome \in Outcomes
    BY <1>2 DEF Lane, Telemetry, NoMission
  <2>3. Legal(l.machine, e, NoMission) /\ l.fileName = StagedRoute[report.mission]
    BY <1>2 DEF MayEnd
  <2>4. e \in {"mission-completed", "operation-failed"}
    BY DEF TerminalEvent
  <2>5. Successor(l.machine, e, NoMission) \in Machine
    BY <2>2, <2>3, SuccessorType
  <2>6. /\ new.fileName = l.fileName /\ new.epoch = l.epoch
        /\ new.missionIdentity = l.missionIdentity
        /\ new.machine = Successor(l.machine, e, NoMission)
        /\ new \in Lane
    BY <2>5 DEF Over, Lane
  <2>7. Successor(l.machine, e, NoMission).missionId = l.machine.missionId
    BY <2>2, <2>3, <2>4, MissionKept
  <2>8. Successor(l.machine, e, NoMission).phase = report.outcome
    BY <2>2 DEF TerminalEvent, Outcomes, Successor, Ended, Machine
  <2>9. l.machine.missionId # NoMission
    BY <2>3, <2>4 DEF Legal
  <2> QED
    BY <2>1, <2>2, <2>3, <2>6, <2>7, <2>8, <2>9
<1> QED
  BY <1>1, <1>2

\* What a snapshot makes of one lane and of its mark, in three cases: the fact
\* is of no use to the lane, it is applied, and in both a reported outcome may
\* end the mission.
Untouched(l, new, applied, mark) ==
  new.missionIdentity = l.missionIdentity /\ mark = applied

Marked(l, new, fact, mark) ==
  /\ mark = fact
  /\ new.missionIdentity = fact.identity
  /\ fact.sequence > 0
  /\ l.fileName = StagedRoute[fact.mission]
  /\ l.machine.phase \in {"starting", "running"}

EndedBy(l, new, report) ==
  /\ new.machine.phase = report.outcome
  /\ report.outcome \in Outcomes
  /\ l.fileName = StagedRoute[report.mission]
  /\ l.machine.missionId # NoMission

Snapshot(l, new, fact, report, applied, mark) ==
  /\ new \in Lane
  /\ new.fileName = l.fileName /\ new.epoch = l.epoch
  /\ new.machine.missionId = l.machine.missionId
  /\ Untouched(l, new, applied, mark) \/ Marked(l, new, fact, mark)
  /\ \/ new.machine.phase = l.machine.phase
     \/ new.machine.phase = "running" /\ l.machine.phase = "starting"
     \/ EndedBy(l, new, report)
  /\ fact = NoFact /\ report.outcome = None => new = l /\ mark = applied

LEMMA ReceiveLane ==
  ASSUME NEW l \in Lane, NEW fact \in Fact, NEW report \in Telemetry, NEW applied \in Fact
  PROVE  Snapshot(l, AfterTerminal(AfterPhase(l, fact, applied), report), fact, report,
                  applied, IF Applies(l, fact, applied) THEN fact ELSE applied)
<1> DEFINE mid == AfterPhase(l, fact, applied)
           new == AfterTerminal(mid, report)
           mark == IF Applies(l, fact, applied) THEN fact ELSE applied
<1>1. report.outcome = None => new = mid
  BY DEF AfterTerminal
<1>2. CASE Applies(l, fact, applied)
  <2>1. /\ mid \in Lane
        /\ mid.fileName = l.fileName /\ mid.epoch = l.epoch
        /\ mid.machine.missionId = l.machine.missionId
        /\ mid.missionIdentity = fact.identity
        /\ fact.sequence > 0
        /\ l.fileName = StagedRoute[fact.mission]
        /\ l.machine.phase \in {"starting", "running"}
        /\ mid.machine.phase \in {l.machine.phase, "running"}
    BY <1>2, PhaseApplied
  <2>2. /\ new \in Lane
        /\ new.fileName = mid.fileName /\ new.epoch = mid.epoch
        /\ new.missionIdentity = mid.missionIdentity
        /\ new.machine.missionId = mid.machine.missionId
        /\ new = mid \/ /\ new.machine.phase = report.outcome
                        /\ report.outcome \in Outcomes
                        /\ mid.fileName = StagedRoute[report.mission]
                        /\ mid.machine.missionId # NoMission
    BY <2>1, TerminalApplied
  <2>3. fact # NoFact
    BY <2>1, NoFactIsTyped
  <2>4. mark = fact
    BY <1>2
  <2> HIDE DEF mid, new, mark
  <2>5. Marked(l, new, fact, mark)
    BY <2>1, <2>2, <2>4 DEF Marked
  <2>6. \/ new.machine.phase = l.machine.phase
        \/ new.machine.phase = "running" /\ l.machine.phase = "starting"
        \/ EndedBy(l, new, report)
    BY <2>1, <2>2 DEF EndedBy
  <2> QED
    BY <2>1, <2>2, <2>3, <2>5, <2>6 DEF Snapshot, new, mid, mark
<1>3. CASE ~Applies(l, fact, applied)
  <2>1. mid = l /\ mark = applied
    BY <1>3 DEF AfterPhase
  <2>2. /\ new \in Lane
        /\ new.fileName = l.fileName /\ new.epoch = l.epoch
        /\ new.missionIdentity = l.missionIdentity
        /\ new.machine.missionId = l.machine.missionId
        /\ new = l \/ /\ new.machine.phase = report.outcome
                      /\ report.outcome \in Outcomes
                      /\ l.fileName = StagedRoute[report.mission]
                      /\ l.machine.missionId # NoMission
    BY <2>1, TerminalApplied
  <2> HIDE DEF new, mark
  <2> QED
    BY <1>1, <2>1, <2>2 DEF Snapshot, Untouched, EndedBy, new, mark
<1> QED
  BY <1>2, <1>3

\* One run of receiveRelaySnapshot, seen from each phone.
LEMMA Received ==
  ASSUME ControlTypeOK, NEW facts \in [Device -> Fact], NEW reports \in [Device -> Telemetry],
         Receive(facts, reports)
  PROVE  /\ \A d \in Device : Snapshot(lane[d], lane'[d], facts[d], reports[d],
                                       appliedPhases[d], appliedPhases'[d])
         /\ appliedPhases' \in [Device -> Fact]
         /\ TypeOK'
<1>1. \A d \in Device : /\ lane[d] \in Lane /\ facts[d] \in Fact /\ reports[d] \in Telemetry
                        /\ appliedPhases[d] \in Fact
                        /\ lane[d].machine.missionId \in Nat
  BY DEF ControlTypeOK, TypeOK, Lane, Machine
<1>2. \A d \in Device :
        /\ lane'[d] = AfterTerminal(AfterPhase(lane[d], facts[d], appliedPhases[d]), reports[d])
        /\ appliedPhases'[d] = IF Applies(lane[d], facts[d], appliedPhases[d])
                               THEN facts[d] ELSE appliedPhases[d]
  BY DEF Receive
<1>3. \A d \in Device : Snapshot(lane[d], lane'[d], facts[d], reports[d],
                                 appliedPhases[d], appliedPhases'[d])
  BY <1>1, <1>2, ReceiveLane
<1>4. appliedPhases' \in [Device -> Fact]
  BY <1>1 DEF Receive
<1>5. lane' \in [Device -> Lane]
  <2>1. lane' = [d \in Device |-> lane'[d]]
    BY DEF Receive
  <2>2. \A d \in Device : lane'[d] \in Lane
    BY <1>3 DEF Snapshot
  <2> QED
    BY <2>1, <2>2
<1>6. maybeFlying' \subseteq Nat
  BY <1>1 DEF Receive, ControlTypeOK, TypeOK
<1> QED
  BY <1>3, <1>4, <1>5, <1>6 DEF Receive, ControlTypeOK, TypeOK

-----------------------------------------------------------------------------
(* Types *)

\* What the operator and the answers do to the dispatcher, it allows.
LEMMA DispatcherSteps ==
  ASSUME ControlTypeOK
  PROVE  /\ \A d \in Device : OperatorActs(d) \/ GraceExpires(d) \/ PhoneActs(d) => [Next]_vars
         /\ \A p \in Promise : AnswerTo(p) => [Next]_vars
<1>1. ASSUME NEW d \in Device, ControlStage(d) PROVE Next
  <2>1. staged + 1 \in 1..MaxMissions
    BY <1>1, DispatcherAssumption DEF ControlStage, ControlTypeOK, TypeOK
  <2>2. StagedRoute[staged + 1] \in Route
    BY <2>1, ControlAssumption
  <2> QED
    BY <1>1, <2>2 DEF ControlStage, Next, Operate
<1>2. ASSUME NEW d \in Device, OperatorActs(d), ~ControlStage(d) PROVE Next
  BY <1>2 DEF OperatorActs, ControlCommand, ControlRefuse, ControlRelease, ControlForget,
              Next, Operate
<1>3. ASSUME NEW d \in Device, GraceExpires(d) PROVE [Next]_vars
  BY <1>3 DEF GraceExpires, Next, Observe
<1>4. ASSUME NEW d \in Device, PhoneActs(d) PROVE UNCHANGED vars
  BY <1>4 DEF PhoneActs, PhoneBegins, PhoneAdvances, PhoneEnds
<1>5. ASSUME NEW p \in Promise, AnswerTo(p) PROVE Next
  BY <1>5 DEF AnswerTo, Answer, Next, Resolve
<1> QED
  BY <1>1, <1>2, <1>3, <1>4, <1>5

\* A phone reports only on a run it has begun.
PhonesRunMissions == \A d \in Device : phone[d].sequence > 0 => phone[d].mission # NoMission

LEMMA ControlTypeStep ==
  ASSUME ControlTypeOK, PhonesRunMissions, [ControlNext]_controlVars
  PROVE  ControlTypeOK'
<1>t. TypeOK
  BY DEF ControlTypeOK
<1>n. NoFact \in Fact /\ NoTelemetry \in Telemetry
  BY NoFactIsTyped
<1>1. ASSUME NEW d \in Device, OperatorActs(d)
      PROVE  ControlTypeOK'
  <2>1. TypeOK'
    BY <1>t, <1>1, DispatcherSteps, TypeStep
  <2>2. /\ UNCHANGED <<online, disconnectTimers, phaseFact, telemetry, phoneVars>>
        /\ appliedPhases' \in {appliedPhases, [appliedPhases EXCEPT ![d] = NoFact]}
    BY <1>1 DEF OperatorActs, ControlStage, ControlCommand, ControlRefuse, ControlRelease,
                ControlForget, relayVars
  <2> QED
    BY <1>n, <2>1, <2>2 DEF ControlTypeOK, phoneVars
<1>2. ASSUME NEW d \in Device, Pair(d)
      PROVE  ControlTypeOK'
  <2>1. TypeOK' /\ appliedPhases' \in [Device -> Fact]
    BY <1>2, Received DEF Pair, ControlTypeOK
  <2> QED
    BY <1>2, <2>1 DEF Pair, ControlTypeOK, phoneVars
<1>3. ASSUME NEW d \in Device, Close(d)
      PROVE  ControlTypeOK'
  <2>1. phaseFact' \in [Device -> Fact] /\ telemetry' \in [Device -> Telemetry]
    BY <1>3, <1>n DEF Close, ControlTypeOK
  <2>2. TypeOK' /\ appliedPhases' \in [Device -> Fact]
    BY <1>3, <2>1, Received DEF Close
  <2> QED
    BY <1>3, <2>1, <2>2 DEF Close, ControlTypeOK, phoneVars
<1>4. ASSUME NEW d \in Device, ReportPhase(d)
      PROVE  ControlTypeOK'
  <2> DEFINE fact == [mission |-> phone[d].mission, identity |-> phone[d].identity,
                      sequence |-> phone[d].sequence]
  <2>1. fact \in Fact
    BY DEF ControlTypeOK, Run, Fact
  <2>2. phaseFact' = [phaseFact EXCEPT ![d] = fact]
    BY <1>4 DEF ReportPhase
  <2>3. phaseFact' \in [Device -> Fact]
    BY <2>1, <2>2 DEF ControlTypeOK
  <2>4. TypeOK' /\ appliedPhases' \in [Device -> Fact]
    BY <1>4, <2>3, Received DEF ReportPhase, ControlTypeOK
  <2> QED
    BY <1>4, <2>3, <2>4 DEF ReportPhase, ControlTypeOK, phoneVars
<1>5. ASSUME NEW d \in Device, ReportTelemetry(d)
      PROVE  ControlTypeOK'
  <2> DEFINE report == IF phone[d].outcome = None THEN [NoTelemetry EXCEPT !.known = TRUE]
                       ELSE [known |-> TRUE, mission |-> phone[d].mission,
                             identity |-> phone[d].identity, outcome |-> phone[d].outcome]
  <2>1. report \in Telemetry
    <3>1. [NoTelemetry EXCEPT !.known = TRUE] \in Telemetry
      BY <1>n DEF Telemetry
    <3>2. [known |-> TRUE, mission |-> phone[d].mission, identity |-> phone[d].identity,
           outcome |-> phone[d].outcome] \in Telemetry
      BY DEF ControlTypeOK, Run, Telemetry
    <3> QED
      BY <3>1, <3>2
  <2>2. telemetry' = [telemetry EXCEPT ![d] = report]
    BY <1>5 DEF ReportTelemetry
  <2>3. telemetry' \in [Device -> Telemetry]
    BY <2>1, <2>2 DEF ControlTypeOK
  <2>4. TypeOK' /\ appliedPhases' \in [Device -> Fact]
    BY <1>5, <2>3, Received DEF ReportTelemetry, ControlTypeOK
  <2> QED
    BY <1>5, <2>3, <2>4 DEF ReportTelemetry, ControlTypeOK, phoneVars
<1>6. ASSUME NEW d \in Device, GraceExpires(d)
      PROVE  ControlTypeOK'
  <2>1. TypeOK'
    BY <1>t, <1>6, DispatcherSteps, TypeStep
  <2> QED
    BY <1>6, <1>n, <2>1 DEF GraceExpires, ControlTypeOK, phoneVars
<1>7. ASSUME NEW d \in Device, PhoneActs(d)
      PROVE  ControlTypeOK'
  <2>1. TypeOK' /\ UNCHANGED relayVars
    BY <1>t, <1>7, DispatcherSteps, TypeStep
       DEF PhoneActs, PhoneBegins, PhoneAdvances, PhoneEnds
  <2>2. phone[d] \in Run
    BY DEF ControlTypeOK
  <2>3. CASE PhoneBegins(d)
    <3>1. PICK m \in 1..MaxMissions : phone' = [phone EXCEPT ![d] =
              [mission |-> m, identity |-> phone[d].identity + 1, sequence |-> 0, outcome |-> None]]
            /\ named' = named \cup {<<m, phone[d].identity + 1>>}
      BY <2>3 DEF PhoneBegins
    <3>2. phone[d].identity + 1 \in Identity /\ ended' = ended
      BY <2>3 DEF PhoneBegins
    <3>3. m \in 0..MaxMissions
      BY DispatcherAssumption
    <3>4. [mission |-> m, identity |-> phone[d].identity + 1, sequence |-> 0, outcome |-> None] \in Run
      BY <3>2, <3>3, Zeroes DEF Run
    <3> QED
      BY <2>1, <3>1, <3>2, <3>4 DEF ControlTypeOK, relayVars
  <2>4. CASE PhoneAdvances(d)
    <3>1. phone[d].sequence + 1 \in 0..MaxSequence
      BY <2>2, <2>4, DispatcherAssumption DEF PhoneAdvances, Run
    <3>2. [phone[d] EXCEPT !.sequence = @ + 1] \in Run
      BY <2>2, <3>1 DEF Run
    <3>3. phone' = [phone EXCEPT ![d] = [phone[d] EXCEPT !.sequence = @ + 1]]
      BY <2>4 DEF PhoneAdvances
    <3> QED
      BY <2>1, <2>4, <3>2, <3>3 DEF PhoneAdvances, ControlTypeOK, relayVars
  <2>5. ASSUME NEW outcome \in Outcomes, PhoneEnds(d, outcome)
        PROVE  ControlTypeOK'
    <3>1. /\ [phone[d] EXCEPT !.outcome = outcome] \in Run
          /\ phone[d].mission \in 0..MaxMissions
      BY <2>2 DEF Run
    <3>n. phone[d].mission \in 1..MaxMissions
      BY <2>5, <3>1, DispatcherAssumption DEF PhonesRunMissions, PhoneEnds, NoMission
    <3>2. /\ phone' = [phone EXCEPT ![d] = [phone[d] EXCEPT !.outcome = outcome]]
          /\ ended' = ended \cup {<<phone[d].mission, outcome>>} /\ named' = named
      BY <2>5 DEF PhoneEnds
    <3> QED
      BY <2>1, <2>2, <3>1, <3>n, <3>2 DEF ControlTypeOK, relayVars
  <2> QED
    BY <1>7, <2>3, <2>4, <2>5 DEF PhoneActs
<1>8. ASSUME NEW p \in Promise, AnswerTo(p)
      PROVE  ControlTypeOK'
  <2>1. TypeOK'
    BY <1>t, <1>8, DispatcherSteps, TypeStep
  <2>f. PICK f \in flights : \E reply : Answer(f, reply)
    BY <1>8 DEF AnswerTo
  <2>2. PICK reply : Answer(f, reply)
    BY <2>f
  <2>3. /\ UNCHANGED <<online, disconnectTimers, phaseFact, telemetry, phoneVars>>
        /\ appliedPhases' \in {appliedPhases, [appliedPhases EXCEPT ![f.device] = NoFact]}
    BY <2>2 DEF Answer
  <2> QED
    BY <1>n, <2>1, <2>3 DEF ControlTypeOK, phoneVars
<1>9. CASE UNCHANGED controlVars
  BY <1>9 DEF controlVars, relayVars, phoneVars, vars, ControlTypeOK, TypeOK
<1> QED
  BY <1>1, <1>2, <1>3, <1>4, <1>5, <1>6, <1>7, <1>8, <1>9 DEF ControlNext, RelayActs

LEMMA PhonesRunStep ==
  ASSUME ControlTypeOK, PhonesRunMissions, [ControlNext]_controlVars
  PROVE  PhonesRunMissions'
<1>1. CASE phone' = phone
  BY <1>1 DEF PhonesRunMissions
<1>2. ASSUME NEW d \in Device, PhoneActs(d)
      PROVE  PhonesRunMissions'
  <2>1. PICK run : phone' = [phone EXCEPT ![d] = run] /\ (run.sequence > 0 => run.mission # NoMission)
    <3>1. CASE PhoneBegins(d)
      <4>1. PICK m : phone' = [phone EXCEPT ![d] =
              [mission |-> m, identity |-> phone[d].identity + 1, sequence |-> 0, outcome |-> None]]
        BY <3>1 DEF PhoneBegins
      <4> DEFINE run == [mission |-> m, identity |-> phone[d].identity + 1,
                         sequence |-> 0, outcome |-> None]
      <4>2. phone' = [phone EXCEPT ![d] = run] /\ ~(run.sequence > 0)
        BY <4>1
      <4> HIDE DEF run
      <4> QED
        BY <4>2
    <3>2. CASE PhoneAdvances(d)
      <4> DEFINE run == [phone[d] EXCEPT !.sequence = @ + 1]
      <4>1. phone' = [phone EXCEPT ![d] = run] /\ run.mission # NoMission
        BY <3>2 DEF PhoneAdvances, ControlTypeOK, Run
      <4> HIDE DEF run
      <4> QED
        BY <4>1
    <3>3. ASSUME NEW outcome \in Outcomes, PhoneEnds(d, outcome)
          PROVE \E run : /\ phone' = [phone EXCEPT ![d] = run]
                         /\ run.sequence > 0 => run.mission # NoMission
      <4> DEFINE run == [phone[d] EXCEPT !.outcome = outcome]
      <4>1. phone' = [phone EXCEPT ![d] = run] /\ run.mission = phone[d].mission
        BY <3>3 DEF PhoneEnds, ControlTypeOK, Run
      <4>2. run.mission # NoMission
        BY <3>3, <4>1 DEF PhoneEnds, PhonesRunMissions
      <4> HIDE DEF run
      <4> QED
        BY <4>1, <4>2
    <3> QED
      BY <1>2, <3>1, <3>2, <3>3 DEF PhoneActs
  <2> QED
    BY <2>1 DEF PhonesRunMissions, ControlTypeOK
<1> QED
  BY <1>1, <1>2 DEF ControlNext, OperatorActs, ControlStage, ControlCommand, ControlRefuse,
     ControlRelease, ControlForget, RelayActs, Pair, Close, ReportPhase, ReportTelemetry,
     GraceExpires, AnswerTo, Answer, phoneVars, controlVars

\* Every reachable state of mission control is well typed.
THEOREM ControlTypeCorrect == ControlSpec => []ControlTypeOK
<1>1. ControlInit => ControlTypeOK /\ PhonesRunMissions
  <2> SUFFICES ASSUME ControlInit PROVE ControlTypeOK /\ PhonesRunMissions
    OBVIOUS
  <2>1. TypeOK
    BY Zeroes, FreshLaneType DEF ControlInit, Init, TypeOK
  <2>2. \A d \in Device : phone[d] = NoRun
    BY DEF ControlInit
  <2>3. PhonesRunMissions
    BY <2>2, NoFactIsTyped DEF PhonesRunMissions
  <2> QED
    BY <2>1, <2>3, NoFactIsTyped DEF ControlInit, ControlTypeOK
<1>2. ControlTypeOK /\ PhonesRunMissions /\ [ControlNext]_controlVars
        => (ControlTypeOK /\ PhonesRunMissions)'
  BY ControlTypeStep, PhonesRunStep
<1> QED
  BY <1>1, <1>2, PTL DEF ControlSpec

-----------------------------------------------------------------------------
(* The inductive invariant *)

\* The phases of a lane whose mission has reached no phone yet or is over.
OffDuty == {"idle", "staging", "completed", "failed"}

LaneInv(d) ==
  \* a lane that is not idle carries a mission
  /\ PhaseOf(d) # "idle" => lane[d].machine.missionId # NoMission
  \* nothing is known of a connection that is closed
  /\ ~online[d] => phaseFact[d] = NoFact /\ telemetry[d] = NoTelemetry
  /\ d \in disconnectTimers => ~online[d]
  \* an active lane of a phone that is gone is timed, except while the stage
  \* call of a mission staged since is awaited, which the relay must refuse
  /\ ~online[d] /\ d \notin disconnectTimers /\ PhaseOf(d) \in DISCONNECTABLE
       => PhaseOf(d) = "staging" /\ \E f \in LiveFlights(d) : f.operation = "stage"
  \* a mark left by an earlier mission is gone before the next one can fly
  /\ \/ appliedPhases[d] = NoFact
     \/ appliedPhases[d].identity = lane[d].missionIdentity
     \/ PhaseOf(d) \in OffDuty

ControlInv ==
  /\ ControlTypeOK
  /\ PhonesRunMissions
  /\ \A d \in Device : LaneInv(d)

\* A step that leaves alone what the invariant says of a phone.
LEMMA LaneKept ==
  ASSUME NEW d \in Device, LaneInv(d),
         lane'[d].machine = lane[d].machine,
         lane'[d].missionIdentity = lane[d].missionIdentity,
         online'[d] = online[d], d \in disconnectTimers' <=> d \in disconnectTimers,
         phaseFact'[d] = phaseFact[d], telemetry'[d] = telemetry[d],
         appliedPhases'[d] \in {appliedPhases[d], NoFact},
         LiveFlights(d) \subseteq LiveFlights(d)'
  PROVE  LaneInv(d)'
BY DEF LaneInv, PhaseOf

\* Without a call to another epoch, a phone keeps the calls awaited of it.
LEMMA FlightsKept ==
  ASSUME TypeOK, NEW d \in Device, lane'[d].epoch = lane[d].epoch,
         FlightsOf(d) \subseteq flights'
  PROVE  LiveFlights(d) \subseteq LiveFlights(d)'
BY DEF LiveFlights, FlightsOf, Current

\* A snapshot, of whatever phone, seen from each phone.
LEMMA SnapshotStep ==
  ASSUME TypeOK, NEW d \in Device, LaneInv(d),
         Snapshot(lane[d], lane'[d], phaseFact'[d], telemetry'[d],
                  appliedPhases[d], appliedPhases'[d]),
         flights' = flights,
         ~online'[d] => phaseFact'[d] = NoFact /\ telemetry'[d] = NoTelemetry,
         d \in disconnectTimers' => ~online'[d],
         ~online'[d] /\ d \notin disconnectTimers' => ~online[d] /\ d \notin disconnectTimers
  PROVE  LaneInv(d)'
<1>1. LiveFlights(d) \subseteq LiveFlights(d)'
  BY FlightsKept DEF Snapshot, FlightsOf
<1>2. PhaseOf(d)' # "idle" => lane'[d].machine.missionId # NoMission
  BY DEF Snapshot, EndedBy, LaneInv, PhaseOf
<1>3. ~online'[d] => lane'[d] = lane[d]
  BY NoFactIsTyped DEF Snapshot
<1>4. ~online'[d] /\ d \notin disconnectTimers' /\ PhaseOf(d)' \in DISCONNECTABLE
        => PhaseOf(d)' = "staging" /\ \E f \in LiveFlights(d)' : f.operation = "stage"
  BY <1>1, <1>3 DEF LaneInv, PhaseOf
<1>5. \/ appliedPhases'[d] = NoFact
      \/ appliedPhases'[d].identity = lane'[d].missionIdentity
      \/ PhaseOf(d)' \in OffDuty
  <2>1. CASE Marked(lane[d], lane'[d], phaseFact'[d], appliedPhases'[d])
    BY <2>1 DEF Marked
  <2>2. CASE Untouched(lane[d], lane'[d], appliedPhases[d], appliedPhases'[d])
    BY <2>2 DEF Untouched, Snapshot, EndedBy, Outcomes, OffDuty, LaneInv, PhaseOf
  <2> QED
    BY <2>1, <2>2 DEF Snapshot
<1> QED
  BY <1>2, <1>4, <1>5 DEF LaneInv

\* What a reply makes of the machine of the lane that awaits it.
ReplyEffect(m, new, f, reply) ==
  /\ new.phase # "idle" => new.missionId = m.missionId
  /\ new.phase = "idle" => new.missionId = NoMission \/ new = m
  /\ reply = "UNCONFIRMED" => new = m \/ new.phase = "failed"
  /\ reply = "UNCONFIRMED" /\ f.operation = "stage" /\ m.phase = "staging"
       => new.phase = "failed"
  /\ m.phase \in OffDuty
       => \/ new.phase \in OffDuty
          \/ /\ new.phase = "staged"
             /\ f.operation = "stage" /\ reply = "succeeded"
  /\ new.phase = "disconnected" => m.phase \in {"disconnected", "stopping"}
  /\ new.phase = "completed" => m.phase = "completed"

LEMMA ReplyPhases ==
  ASSUME NEW m \in Machine, NEW f \in Flight, NEW reply,
         m.phase # "idle" => m.missionId # NoMission
  PROVE  ReplyEffect(m, AfterReply(m, f, reply), f, reply)
<1> DEFINE event == ReplyEvent(f.operation, reply)
           new == AfterReply(m, f, reply)
<1>t. /\ f.operation \in Operations /\ f.missionId \in Nat
      /\ m.phase \in MissionPhases /\ m.missionId \in Nat
      /\ m.stoppedFrom \in STOPPABLE \cup {None}
      /\ None \notin MissionPhases
  BY DEF Flight, Machine, MissionPhases, None
<1>e. /\ event \notin {"stage-requested", "mission-completed", "connection-lost"}
      /\ reply = "UNCONFIRMED" => event \in {"operation-failed", None}
      /\ event = "stage-succeeded" => f.operation = "stage" /\ reply = "succeeded"
      /\ reply = "UNCONFIRMED" /\ f.operation = "stage" => event = "operation-failed"
  <2>1. CASE f.operation \in {"stage", "upload", "start"}
    BY <2>1 DEF ReplyEvent, None
  <2>2. CASE f.operation = "pause"
    BY <2>2 DEF ReplyEvent, None
  <2>3. CASE f.operation = "resume"
    BY <2>3 DEF ReplyEvent, None
  <2>4. CASE f.operation = "stop"
    BY <2>4 DEF ReplyEvent, None
  <2> QED
    BY <1>t, <2>1, <2>2, <2>3, <2>4 DEF Operations, Commands, Controls
<1>1. CASE m.phase = "disconnected" \/ ~Legal(m, event, f.missionId)
  <2>1. new = m
    BY <1>1 DEF AfterReply, Transition
  <2>2. ~(reply = "UNCONFIRMED" /\ f.operation = "stage" /\ m.phase = "staging")
    <3> SUFFICES ASSUME reply = "UNCONFIRMED", f.operation = "stage", m.phase = "staging"
                 PROVE  FALSE
      OBVIOUS
    <3>1. Legal(m, "operation-failed", f.missionId)
      BY DEF Legal, LegalFrom, FAILUREABLE
    <3> QED
      BY <1>1, <1>e, <3>1
  <2> HIDE DEF new
  <2>3. ReplyEffect(m, new, f, reply)
    BY <2>1, <2>2 DEF ReplyEffect
  <2> QED
    BY <2>3 DEF new
<1>2. CASE m.phase # "disconnected" /\ Legal(m, event, f.missionId)
  <2>1. new = Successor(m, event, f.missionId)
    BY <1>2 DEF AfterReply, Transition
  <2>2. event \in Events
    BY <1>2, LegalEvents
  <2>3. event # None
    BY <2>2 DEF Events, None
  <2>4. new.phase # "idle" => new.missionId = m.missionId
    <3>1. CASE event = "stop-succeeded"
      BY <2>1, <3>1 DEF Successor, Ended, Machine
    <3>2. CASE event # "stop-succeeded"
      BY <1>2, <1>e, <1>t, <2>1, <3>2, MissionKept
    <3> QED
      BY <3>1, <3>2
  <2> HIDE DEF new, event
  <2> SUFFICES ReplyEffect(m, new, f, reply)
    BY DEF new
  <2>5. CASE event = "stop-succeeded"
    <3>1. /\ new.phase = "idle" /\ new.missionId = NoMission
          /\ m.phase = "stopping"
      BY <1>2, <2>1, <2>5 DEF Successor, Ended, Machine, Legal, LegalFrom
    <3>2. reply # "UNCONFIRMED"
      BY <1>e, <2>3, <2>5
    <3> QED
      BY <3>1, <3>2 DEF ReplyEffect, OffDuty
  <2>6. CASE event = "stop-rejected"
    <3>1. new.phase = m.stoppedFrom /\ m.stoppedFrom \in STOPPABLE /\ m.phase = "stopping"
      BY <1>2, <1>t, <2>1, <2>6 DEF Successor, Machine, Legal, LegalFrom
    <3>2. new.phase # "idle" /\ new.phase # "completed"
      BY <3>1 DEF STOPPABLE
    <3>3. reply # "UNCONFIRMED"
      BY <1>e, <2>3, <2>6
    <3> QED
      BY <2>4, <3>1, <3>2, <3>3 DEF ReplyEffect, OffDuty
  <2>7. CASE event = "operation-failed"
    <3>1. new.phase = "failed"
      BY <2>1, <2>7 DEF Successor, Ended, Machine
    <3> QED
      BY <2>4, <3>1 DEF ReplyEffect, OffDuty
  <2>8. CASE event = "stage-succeeded"
    <3>1. new.phase = "staged"
      BY <2>1, <2>8 DEF Successor, Machine
    <3>2. f.operation = "stage" /\ reply = "succeeded"
      BY <1>e, <2>8
    <3> QED
      BY <2>4, <3>1, <3>2 DEF ReplyEffect
  \* the rest neither begins nor ends anything on the ground
  <2>9. CASE event \in Events \ {"stop-succeeded", "stop-rejected", "operation-failed",
                                 "stage-succeeded"}
    <3>1. event \in {"upload-requested", "upload-succeeded", "upload-rejected",
                     "start-requested", "start-succeeded", "start-rejected",
                     "pause-requested", "pause-succeeded", "pause-rejected",
                     "resume-requested", "resume-succeeded", "resume-rejected",
                     "stop-requested"}
      BY <1>e, <2>9 DEF Events
    <3>2. m.phase \notin OffDuty
      BY <1>2, <3>1 DEF Legal, LegalFrom, OffDuty, STOPPABLE
    <3>3. new.phase \in MissionPhases \ {"idle", "disconnected", "completed"}
      BY <2>1, <3>1 DEF Successor, Machine, MissionPhases
    <3>4. reply # "UNCONFIRMED"
      BY <1>e, <2>3, <2>9
    <3> QED
      BY <2>4, <3>2, <3>3, <3>4 DEF ReplyEffect
  <2> QED
    BY <2>2, <2>5, <2>6, <2>7, <2>8, <2>9
<1> QED
  BY <1>1, <1>2

\* A step of one phone's lane, seen from the other phones.
LEMMA OthersKept ==
  ASSUME ControlInv, NEW d \in Device, NEW e \in Device, e # d,
         NEW l, lane' = [lane EXCEPT ![d] = l],
         FlightsOf(e) \subseteq flights',
         UNCHANGED <<online, phaseFact, telemetry>>,
         disconnectTimers' \in {disconnectTimers, disconnectTimers \ {d}},
         appliedPhases' \in {appliedPhases, [appliedPhases EXCEPT ![d] = NoFact]}
  PROVE  LaneInv(e)'
<1>1. /\ LaneInv(e) /\ TypeOK
      /\ lane \in [Device -> Lane] /\ appliedPhases \in [Device -> Fact]
  BY DEF ControlInv, ControlTypeOK, TypeOK
<1>2. lane'[e] = lane[e] /\ appliedPhases'[e] = appliedPhases[e]
  BY <1>1
<1>3. LiveFlights(e) \subseteq LiveFlights(e)'
  BY <1>1, <1>2, FlightsKept
<1> QED
  BY <1>1, <1>2, <1>3, LaneKept

\* The operator's steps, from the lane they are about.
LEMMA OperatorStep ==
  ASSUME ControlInv, NEW d \in Device, OperatorActs(d)
  PROVE  LaneInv(d)'
<1>l. /\ LaneInv(d) /\ TypeOK
      /\ lane \in [Device -> Lane] /\ lane[d] \in Lane
      /\ lane[d].machine \in Machine /\ lane[d].machine.missionId \in Nat
      /\ appliedPhases \in [Device -> Fact]
      /\ staged \in Nat
  BY DispatcherAssumption DEF ControlInv, ControlTypeOK, TypeOK, Lane, Machine
<1>1. CASE ControlStage(d)
  <2> DEFINE new == Successor(lane[d].machine, "stage-requested", staged + 1)
             l == BeginFlight(ForRoute(lane[d], StagedRoute[staged + 1]), new)
  <2>1. new.phase = "staging" /\ new.missionId = staged + 1
    BY <1>l DEF Successor, Ended, Machine
  <2>2. l.machine = new /\ l.epoch = lane[d].epoch
    BY <1>l DEF BeginFlight, ForRoute, Lane
  <2>3. /\ lane' = [lane EXCEPT ![d] = l] /\ Await(d, "stage", staged + 1)
        /\ UNCHANGED <<online, disconnectTimers, phaseFact, telemetry, appliedPhases>>
    BY <1>1 DEF ControlStage, Stage, relayVars
  <2> HIDE DEF l, new
  <2>4. lane'[d] = l
    BY <1>l, <2>3
  <2>5. PhaseOf(d)' = "staging" /\ lane'[d].machine.missionId # NoMission
    BY <1>l, <2>1, <2>2, <2>4 DEF PhaseOf, NoMission
  <2>6. \E f \in LiveFlights(d)' : f.operation = "stage"
    <3>1. PICK p \in FreePromises : flights' = flights \cup
            {[promise |-> p, device |-> d, operation |-> "stage",
              missionId |-> staged + 1, epoch |-> lane[d].epoch, from |-> PhaseOf(d)]}
      BY <2>3 DEF Await
    <3> DEFINE f == [promise |-> p, device |-> d, operation |-> "stage",
                     missionId |-> staged + 1, epoch |-> lane[d].epoch, from |-> PhaseOf(d)]
    <3>2. f \in flights' /\ f.device = d /\ f.operation = "stage" /\ f.epoch = lane[d].epoch
      BY <3>1
    <3> HIDE DEF f
    <3>3. f \in LiveFlights(d)'
      BY <2>2, <2>4, <3>2 DEF LiveFlights, FlightsOf, Current
    <3> QED
      BY <3>2, <3>3
  <2> QED
    BY <1>l, <2>3, <2>5, <2>6 DEF LaneInv, OffDuty
<1>2. ASSUME NEW operation \in Commands, ControlCommand(d, operation)
      PROVE  LaneInv(d)'
  <2> DEFINE e == RequestEvent(operation)
             new == Successor(lane[d].machine, e, NoMission)
             l == BeginFlight(lane[d], new)
  <2>1. online[d]
    BY <1>l, <1>2 DEF ControlCommand, LaneInv, NoTelemetry
  <2>2. e \in {"upload-requested", "start-requested", "pause-requested", "resume-requested",
               "stop-requested"}
    BY DEF RequestEvent, Commands, Controls
  <2>3. Legal(lane[d].machine, e, NoMission) /\ NoMission \in Nat
    BY <1>2 DEF ControlCommand, Command, NoMission
  <2>4. lane[d].machine.phase \notin OffDuty
    BY <2>2, <2>3 DEF Legal, LegalFrom, OffDuty, STOPPABLE
  <2>5. new.missionId # NoMission
    BY <1>l, <2>2, <2>3, MissionKept DEF Legal
  <2>6. l.machine = new /\ l.missionIdentity = lane[d].missionIdentity
    BY <1>l DEF BeginFlight, Lane
  <2>7. /\ lane' = [lane EXCEPT ![d] = l]
        /\ UNCHANGED <<online, disconnectTimers, phaseFact, telemetry, appliedPhases>>
    BY <1>2 DEF ControlCommand, Command, relayVars
  <2> HIDE DEF l, new
  <2>8. lane'[d] = l
    BY <1>l, <2>7
  <2> QED
    BY <1>l, <2>1, <2>4, <2>5, <2>6, <2>7, <2>8 DEF LaneInv, PhaseOf
<1>3. CASE ControlRefuse(d)
  <2> DEFINE l == [lane[d] EXCEPT !.lastResult = "failed"]
  <2>1. /\ l.machine = lane[d].machine /\ l.epoch = lane[d].epoch
        /\ l.missionIdentity = lane[d].missionIdentity
    BY <1>l DEF Lane
  <2>2. /\ lane' = [lane EXCEPT ![d] = l] /\ flights' = flights
        /\ UNCHANGED <<online, disconnectTimers, phaseFact, telemetry, appliedPhases>>
    BY <1>3 DEF ControlRefuse, Refuse, relayVars
  <2> HIDE DEF l
  <2>3. lane'[d] = l
    BY <1>l, <2>2
  <2>4. LiveFlights(d) \subseteq LiveFlights(d)'
    BY <1>l, <2>1, <2>2, <2>3, FlightsKept DEF FlightsOf
  <2> QED
    BY <1>l, <2>1, <2>2, <2>3, <2>4, LaneKept
<1>4. CASE ControlRelease(d) \/ ControlForget(d)
  <2>1. PICK exists : lane' = [lane EXCEPT ![d] = FreshLane(exists, lane[d].epoch + 1)]
    BY <1>4 DEF ControlRelease, ControlForget, Release, Forget
  <2>2. lane'[d] = FreshLane(exists, lane[d].epoch + 1)
    BY <1>l, <2>1
  <2>3. PhaseOf(d)' = "idle"
    BY <2>2 DEF FreshLane, IdleMachine, PhaseOf
  <2>4. UNCHANGED <<online, disconnectTimers, phaseFact, telemetry>>
    BY <1>4 DEF ControlRelease, ControlForget, relayVars
  <2> QED
    BY <1>l, <2>3, <2>4 DEF LaneInv, OffDuty, DISCONNECTABLE
<1> QED
  BY <1>1, <1>2, <1>3, <1>4 DEF OperatorActs

\* The end of a grace period, from the lane it ends.
LEMMA GraceStep ==
  ASSUME ControlInv, NEW d \in Device, GraceExpires(d)
  PROVE  LaneInv(d)'
<1>l. /\ LaneInv(d) /\ lane \in [Device -> Lane] /\ lane[d] \in Lane
      /\ lane[d].machine \in Machine /\ appliedPhases \in [Device -> Fact]
      /\ d \in disconnectTimers
  BY DEF ControlInv, ControlTypeOK, TypeOK, Lane, GraceExpires
<1>1. /\ appliedPhases'[d] = NoFact /\ d \notin disconnectTimers'
      /\ UNCHANGED <<online, phaseFact, telemetry>>
  BY <1>l DEF GraceExpires
<1>2. CASE RecordDisconnected(d)
  <2> DEFINE new == Successor(lane[d].machine, "connection-lost", NoMission)
             l == Lost(lane[d])
  <2>1. lane'[d] = l
    BY <1>l, <1>2 DEF RecordDisconnected
  <2>2. l.machine = new
    BY <1>l DEF Lost, Lane
  <2>3. new.phase = "disconnected" /\ new.missionId = lane[d].machine.missionId
    BY <1>l DEF Successor, Ended, Machine
  <2>4. lane[d].machine.missionId # NoMission
    BY <1>2 DEF RecordDisconnected, Legal
  <2> HIDE DEF l, new
  <2>5. PhaseOf(d)' = "disconnected" /\ lane'[d].machine.missionId # NoMission
    BY <2>1, <2>2, <2>3, <2>4 DEF PhaseOf
  <2>6. "disconnected" \notin DISCONNECTABLE
    BY DEF DISCONNECTABLE
  <2> QED
    BY <1>l, <1>1, <2>5, <2>6 DEF LaneInv
<1>3. CASE ~Legal(lane[d].machine, "connection-lost", NoMission) /\ UNCHANGED vars
  <2>1. PhaseOf(d)' = PhaseOf(d) /\ lane'[d] = lane[d]
    BY <1>3 DEF vars, PhaseOf
  <2>2. PhaseOf(d) \notin DISCONNECTABLE
    BY <1>l, <1>3 DEF Legal, LegalFrom, LaneInv, PhaseOf, DISCONNECTABLE
  <2> QED
    BY <1>l, <1>1, <2>1, <2>2 DEF LaneInv
<1> QED
  BY <1>2, <1>3 DEF GraceExpires

\* A reply, from the lane it is for.
LEMMA AnswerStep ==
  ASSUME ControlInv, NEW f \in flights, NEW reply, Answer(f, reply)
  PROVE  LaneInv(f.device)'
<1> DEFINE d == f.device
<1>l. /\ f \in Flight /\ d \in Device
      /\ LaneInv(d) /\ TypeOK /\ lane \in [Device -> Lane] /\ lane[d] \in Lane
      /\ lane[d].machine \in Machine /\ appliedPhases \in [Device -> Fact]
  BY DEF ControlInv, ControlTypeOK, TypeOK, Lane, Flight
<1>1. /\ UNCHANGED <<online, disconnectTimers, phaseFact, telemetry>>
      /\ online[d] \/ reply = "UNCONFIRMED"
      /\ flights' = flights \ {f}
      /\ appliedPhases'[d] \in {appliedPhases[d], NoFact}
  BY <1>l DEF Answer, Settle
<1>2. CASE SettleStale(f)
  <2>1. lane' = lane /\ f \notin LiveFlights(d)
    BY <1>2 DEF SettleStale, LiveFlights, FlightsOf
  <2>2. LiveFlights(d) \subseteq LiveFlights(d)'
    BY <1>1, <2>1 DEF LiveFlights, FlightsOf, Current
  <2> QED
    BY <1>l, <1>1, <2>1, <2>2, LaneKept
<1>3. CASE SettleCurrent(f, reply)
  <2> DEFINE old == lane[d].machine
             new == AfterReply(old, f, reply)
             ok == IF AnsweredOk(old, f, reply) THEN "ok" ELSE "failed"
             l == EndFlight(lane[d], new, ok)
  <2>1. lane'[d] = l
    BY <1>l, <1>3 DEF SettleCurrent
  <2>2. /\ l.machine = new /\ l.epoch = lane[d].epoch /\ l.lastResult = ok
        /\ l.missionIdentity = lane[d].missionIdentity
    BY <1>l DEF EndFlight, Lane
  <2>3. ReplyEffect(old, new, f, reply)
    BY <1>l, ReplyPhases DEF LaneInv, PhaseOf
  <2>4. f.operation = "stage" /\ reply = "succeeded" /\ old.phase # "disconnected"
          => appliedPhases'[d] = NoFact
    <3> SUFFICES ASSUME f.operation = "stage", reply = "succeeded", old.phase # "disconnected"
                 PROVE  appliedPhases'[d] = NoFact
      OBVIOUS
    <3>1. ok = "ok"
      BY DEF AnsweredOk
    <3>2. lane'[d].lastResult = "ok" /\ Current(f)
      BY <1>3, <2>1, <2>2, <3>1 DEF SettleCurrent
    <3> QED
      BY <1>l, <3>2 DEF Answer
  <2>5. "disconnected" \notin OffDuty /\ "idle" \notin DISCONNECTABLE
        /\ "failed" \notin DISCONNECTABLE /\ "staged" # "idle"
    BY DEF OffDuty, DISCONNECTABLE
  <2> HIDE DEF l, new, ok
  <2>6. PhaseOf(d)' # "idle" => lane'[d].machine.missionId # NoMission
    <3>2. old.phase = "idle" => new.phase = "idle"
      <4>1. CASE old.phase = "idle"
        <5>1. \A id : Legal(old, ReplyEvent(f.operation, reply), id)
                        => ReplyEvent(f.operation, reply) = "stage-requested"
          BY <4>1, IdleRefuses
        <5>2. ReplyEvent(f.operation, reply) # "stage-requested"
          BY <1>l, ReplyEvents DEF Flight
        <5> QED
          BY <4>1, <5>1, <5>2 DEF AfterReply, Transition, new
      <4> QED
        BY <4>1
    <3> QED
      BY <1>l, <2>1, <2>2, <2>3, <3>2 DEF ReplyEffect, LaneInv, PhaseOf
  <2>7. ~online[d] /\ d \notin disconnectTimers /\ PhaseOf(d)' \in DISCONNECTABLE
          => PhaseOf(d)' = "staging" /\ \E g \in LiveFlights(d)' : g.operation = "stage"
    <3> SUFFICES ASSUME ~online[d], d \notin disconnectTimers, PhaseOf(d)' \in DISCONNECTABLE
                 PROVE  PhaseOf(d)' = "staging" /\ \E g \in LiveFlights(d)' : g.operation = "stage"
      OBVIOUS
    <3>1. reply = "UNCONFIRMED"
      BY <1>1
    <3>2. new = old /\ PhaseOf(d)' = PhaseOf(d)
      BY <2>1, <2>2, <2>3, <2>5, <3>1 DEF ReplyEffect, PhaseOf
    <3>3. PICK g \in LiveFlights(d) : g.operation = "stage" /\ PhaseOf(d) = "staging"
      BY <1>l, <3>2 DEF LaneInv
    <3>4. g # f
      BY <2>3, <3>1, <3>2, <3>3 DEF ReplyEffect, PhaseOf
    <3>5. g \in LiveFlights(d)'
      BY <1>1, <2>1, <2>2, <3>3, <3>4 DEF LiveFlights, FlightsOf, Current
    <3> QED
      BY <3>2, <3>3, <3>5
  <2>8. \/ appliedPhases'[d] = NoFact
        \/ appliedPhases'[d].identity = lane'[d].missionIdentity
        \/ PhaseOf(d)' \in OffDuty
    BY <1>l, <1>1, <2>1, <2>2, <2>3, <2>4, <2>5 DEF ReplyEffect, LaneInv, PhaseOf
  <2> QED
    BY <1>l, <1>1, <2>6, <2>7, <2>8 DEF LaneInv
<1> QED
  BY <1>2, <1>3 DEF Answer, Settle

\* A relay event: the snapshot it publishes reaches every phone at once.
LEMMA RelayStep ==
  ASSUME ControlInv, NEW d \in Device, RelayActs(d)
  PROVE  \A e \in Device : LaneInv(e)'
<1>l. /\ TypeOK /\ \A e \in Device : LaneInv(e)
      /\ online \in [Device -> BOOLEAN]
      /\ phaseFact \in [Device -> Fact] /\ telemetry \in [Device -> Telemetry]
      /\ phaseFact' \in [Device -> Fact] /\ telemetry' \in [Device -> Telemetry]
  <2>1. ControlTypeOK'
    BY ControlTypeStep DEF ControlInv, ControlNext
  <2> QED
    BY <2>1 DEF ControlInv, ControlTypeOK
<1> SUFFICES ASSUME NEW e \in Device PROVE LaneInv(e)'
  OBVIOUS
<1>1. Receive(phaseFact', telemetry') /\ flights' = flights
  BY DEF RelayActs, Pair, Close, ReportPhase, ReportTelemetry, Receive
<1>2. Snapshot(lane[e], lane'[e], phaseFact'[e], telemetry'[e],
               appliedPhases[e], appliedPhases'[e])
  BY <1>l, <1>1, Received DEF ControlInv
<1>3. CASE Pair(d)
  <2>1. /\ online' = [online EXCEPT ![d] = TRUE] /\ disconnectTimers' = disconnectTimers \ {d}
        /\ UNCHANGED <<phaseFact, telemetry>>
    BY <1>3 DEF Pair
  <2>2. online'[e] = (online[e] \/ e = d)
    BY <1>l, <2>1
  <2> QED
    BY <1>l, <1>1, <1>2, <2>1, <2>2, SnapshotStep DEF LaneInv
<1>4. CASE Close(d)
  <2>1. /\ online' = [online EXCEPT ![d] = FALSE] /\ disconnectTimers' = disconnectTimers \cup {d}
        /\ phaseFact' = [phaseFact EXCEPT ![d] = NoFact]
        /\ telemetry' = [telemetry EXCEPT ![d] = NoTelemetry]
    BY <1>4 DEF Close
  <2>2. /\ online'[e] = (online[e] /\ e # d)
        /\ phaseFact'[e] = IF e = d THEN NoFact ELSE phaseFact[e]
        /\ telemetry'[e] = IF e = d THEN NoTelemetry ELSE telemetry[e]
    BY <1>l, <2>1
  <2> QED
    BY <1>l, <1>1, <1>2, <2>1, <2>2, SnapshotStep DEF LaneInv
<1>5. CASE ReportPhase(d) \/ ReportTelemetry(d)
  <2>1. online[d] /\ UNCHANGED <<online, disconnectTimers>>
    BY <1>5 DEF ReportPhase, ReportTelemetry
  <2>2. e # d => phaseFact'[e] = phaseFact[e] /\ telemetry'[e] = telemetry[e]
    <3>1. CASE ReportPhase(d)
      <4>1. PICK fact : phaseFact' = [phaseFact EXCEPT ![d] = fact] /\ telemetry' = telemetry
        BY <3>1 DEF ReportPhase
      <4> QED
        BY <1>l, <4>1
    <3>2. CASE ReportTelemetry(d)
      <4>1. PICK report : telemetry' = [telemetry EXCEPT ![d] = report] /\ phaseFact' = phaseFact
        BY <3>2 DEF ReportTelemetry
      <4> QED
        BY <1>l, <4>1
    <3> QED
      BY <1>5, <3>1, <3>2
  <2> QED
    BY <1>l, <1>1, <1>2, <2>1, <2>2, SnapshotStep DEF LaneInv
<1> QED
  BY <1>3, <1>4, <1>5 DEF RelayActs

LEMMA ControlStep ==
  ASSUME ControlInv, [ControlNext]_controlVars
  PROVE  ControlInv'
<1>t. ControlTypeOK' /\ PhonesRunMissions'
  BY ControlTypeStep, PhonesRunStep DEF ControlInv
<1> SUFFICES \A e \in Device : LaneInv(e)'
  BY <1>t DEF ControlInv
<1>k. ASSUME UNCHANGED <<vars, relayVars>> PROVE \A e \in Device : LaneInv(e)'
  BY <1>k DEF vars, relayVars, ControlInv, LaneInv, PhaseOf, LiveFlights, FlightsOf, Current
<1>1. ASSUME NEW d \in Device, OperatorActs(d), NEW e \in Device PROVE LaneInv(e)'
  <2>1. CASE e = d
    BY <1>1, <2>1, OperatorStep
  <2>2. CASE e # d
    <3>1. \E l : lane' = [lane EXCEPT ![d] = l]
      BY <1>1 DEF OperatorActs, ControlStage, ControlCommand, ControlRefuse, ControlRelease,
                  ControlForget, Stage, Command, Refuse, Release, Forget
    <3>2. flights \subseteq flights'
      BY <1>1 DEF OperatorActs, ControlStage, ControlCommand, ControlRefuse, ControlRelease,
                  ControlForget, Stage, Command, Refuse, Release, Forget, Await
    <3>3. /\ UNCHANGED <<online, phaseFact, telemetry, disconnectTimers>>
          /\ appliedPhases' \in {appliedPhases, [appliedPhases EXCEPT ![d] = NoFact]}
      BY <1>1 DEF OperatorActs, ControlStage, ControlCommand, ControlRefuse, ControlRelease,
                  ControlForget, relayVars
    <3> QED
      BY <2>2, <3>1, <3>2, <3>3, OthersKept DEF FlightsOf
  <2> QED
    BY <2>1, <2>2
<1>2. ASSUME NEW d \in Device, GraceExpires(d), NEW e \in Device PROVE LaneInv(e)'
  <2>1. CASE e = d
    BY <1>2, <2>1, GraceStep
  <2>2. CASE e # d
    <3>1. \E l : lane' = [lane EXCEPT ![d] = l]
      <4>1. CASE RecordDisconnected(d)
        BY <4>1 DEF RecordDisconnected
      <4>2. CASE lane' = lane
        <5>1. lane = [lane EXCEPT ![d] = lane[d]]
          BY DEF ControlInv, ControlTypeOK, TypeOK
        <5> QED
          BY <4>2, <5>1
      <4> QED
        BY <1>2, <4>1, <4>2 DEF GraceExpires, vars
    <3>2. flights' = flights
      BY <1>2 DEF GraceExpires, RecordDisconnected, vars
    <3>3. /\ UNCHANGED <<online, phaseFact, telemetry>>
          /\ disconnectTimers' = disconnectTimers \ {d}
          /\ appliedPhases' = [appliedPhases EXCEPT ![d] = NoFact]
      BY <1>2 DEF GraceExpires
    <3> QED
      BY <2>2, <3>1, <3>2, <3>3, OthersKept DEF FlightsOf
  <2> QED
    BY <2>1, <2>2
<1>3. ASSUME NEW p \in Promise, AnswerTo(p), NEW e \in Device PROVE LaneInv(e)'
  <2>f. PICK f \in flights : \E reply : Answer(f, reply)
    BY <1>3 DEF AnswerTo
  <2>1. PICK reply : Answer(f, reply)
    BY <2>f
  <2>2. f.device \in Device
    BY DEF ControlInv, ControlTypeOK, TypeOK, Flight
  <2>3. CASE e = f.device
    BY <2>1, <2>3, AnswerStep
  <2>4. CASE e # f.device
    <3>1. \E l : lane' = [lane EXCEPT ![f.device] = l]
      <4>1. CASE SettleCurrent(f, reply)
        BY <4>1 DEF SettleCurrent
      <4>2. CASE lane' = lane
        <5>1. lane = [lane EXCEPT ![f.device] = lane[f.device]]
          BY DEF ControlInv, ControlTypeOK, TypeOK
        <5> QED
          BY <4>2, <5>1
      <4> QED
        BY <2>1, <4>1, <4>2 DEF Answer, Settle, SettleStale
    <3>2. FlightsOf(e) \subseteq flights'
      BY <2>1, <2>4 DEF Answer, Settle, FlightsOf
    <3>3. /\ UNCHANGED <<online, phaseFact, telemetry, disconnectTimers>>
          /\ appliedPhases' \in {appliedPhases, [appliedPhases EXCEPT ![f.device] = NoFact]}
      BY <2>1 DEF Answer
    <3> QED
      BY <2>2, <2>4, <3>1, <3>2, <3>3, OthersKept
  <2> QED
    BY <2>3, <2>4
<1>4. ASSUME NEW d \in Device, PhoneActs(d) PROVE UNCHANGED <<vars, relayVars>>
  BY <1>4 DEF PhoneActs, PhoneBegins, PhoneAdvances, PhoneEnds
<1>5. CASE UNCHANGED controlVars
  BY <1>5, <1>k DEF controlVars
<1> QED
  BY <1>1, <1>2, <1>3, <1>4, <1>5, <1>k, RelayStep DEF ControlNext

LEMMA ControlInductive == ControlSpec => []ControlInv
<1>1. ControlInit => ControlInv
  <2> SUFFICES ASSUME ControlInit PROVE ControlInv
    OBVIOUS
  <2>1. TypeOK
    BY Zeroes, FreshLaneType DEF ControlInit, Init, TypeOK
  <2>2. \A d \in Device : phone[d] = NoRun
    BY DEF ControlInit
  <2>3. PhonesRunMissions
    BY <2>2, NoFactIsTyped DEF PhonesRunMissions
  <2>4. ControlTypeOK
    BY <2>1, NoFactIsTyped DEF ControlInit, ControlTypeOK
  <2>5. \A d \in Device : PhaseOf(d) = "idle"
    BY DEF ControlInit, Init, FreshLane, IdleMachine, PhaseOf
  <2>6. "idle" \in OffDuty /\ "idle" \notin DISCONNECTABLE
    BY DEF OffDuty, DISCONNECTABLE
  <2>7. \A d \in Device : LaneInv(d)
    BY <2>5, <2>6 DEF ControlInit, LaneInv
  <2> QED
    BY <2>3, <2>4, <2>7 DEF ControlInv
<1>2. ControlInv /\ [ControlNext]_controlVars => ControlInv'
  BY ControlStep
<1> QED
  BY <1>1, <1>2, PTL DEF ControlSpec

\* The grace timer runs only while the phone is gone, and a lane whose phone is
\* gone is timed until it is over (receiveRelaySnapshot arms and cancels).
THEOREM GoneAreTimed == ControlSpec => []GoneLanesAreTimed
<1>1. ControlInv => GoneLanesAreTimed
  BY DEF ControlInv, LaneInv, GoneLanesAreTimed, Settled, LiveFlights
<1> QED
  BY <1>1, ControlInductive, PTL

\* What is left of facts applied to an earlier mission never makes the facts of
\* the mission now being flown look stale.
THEOREM WatermarkHolds == ControlSpec => []WatermarkIsOfTheRun
<1>1. ControlInv => WatermarkIsOfTheRun
  BY DEF ControlInv, LaneInv, WatermarkIsOfTheRun, OffDuty
<1> QED
  BY <1>1, ControlInductive, PTL

\* A phone that is back within the grace period finds its lane in the phase it
\* left it: only the end of the grace period loses a mission.
THEOREM OnlyTheGoneLose == ControlSpec => OnlyTheGoneAreLost
<1> DEFINE Loses(d) == PhaseOf(d)' = "disconnected" /\ PhaseOf(d) \notin {"disconnected", "stopping"}
           Gone == \A d \in Device : Loses(d) => ~online[d]
<1>1. ControlInv /\ [ControlNext]_controlVars => [Gone]_controlVars
  <2> SUFFICES ASSUME ControlInv, ControlNext, NEW d \in Device, Loses(d)
               PROVE  ~online[d]
    OBVIOUS
  <2>l. /\ LaneInv(d) /\ lane \in [Device -> Lane] /\ lane[d] \in Lane
        /\ lane[d].machine \in Machine /\ NoMission \in Nat
        /\ lane'[d] # lane[d]
        /\ \A e \in Device : LaneInv(e)
    BY DEF ControlInv, ControlTypeOK, TypeOK, Lane, PhaseOf, NoMission
  <2>1. ASSUME NEW e \in Device, OperatorActs(e) PROVE FALSE
    <3>1. PICK l : lane' = [lane EXCEPT ![e] = l]
      BY <2>1 DEF OperatorActs, ControlStage, ControlCommand, ControlRefuse, ControlRelease,
                  ControlForget, Stage, Command, Refuse, Release, Forget
    <3>2. e = d
      BY <2>l, <3>1
    <3>3. CASE ControlStage(d)
      <4> DEFINE new == Successor(lane[d].machine, "stage-requested", staged + 1)
      <4>1. lane'[d].machine = new
        BY <2>l, <3>3 DEF ControlStage, Stage, BeginFlight, ForRoute, Lane
      <4>2. new.phase = "staging"
        BY <2>l DEF Successor, Ended, Machine
      <4> QED
        BY <4>1, <4>2 DEF PhaseOf
    <3>4. ASSUME NEW operation \in Commands, ControlCommand(d, operation) PROVE FALSE
      <4> DEFINE new == Successor(lane[d].machine, RequestEvent(operation), NoMission)
      <4>1. lane'[d].machine = new
        BY <2>l, <3>4 DEF ControlCommand, Command, BeginFlight, Lane
      <4>2. new.phase # "disconnected"
        BY <2>l DEF Successor, Machine, RequestEvent, Commands, Controls
      <4> QED
        BY <4>1, <4>2 DEF PhaseOf
    <3>5. CASE ControlRefuse(d)
      <4>1. lane'[d].machine = lane[d].machine
        BY <2>l, <3>5 DEF ControlRefuse, Refuse, Lane
      <4> QED
        BY <4>1 DEF PhaseOf
    <3>6. CASE ControlRelease(d) \/ ControlForget(d)
      <4>1. lane'[d].machine = IdleMachine
        BY <2>l, <3>6 DEF ControlRelease, ControlForget, Release, Forget, FreshLane
      <4> QED
        BY <4>1 DEF IdleMachine, PhaseOf
    <3> QED
      BY <2>1, <3>2, <3>3, <3>4, <3>5, <3>6 DEF OperatorActs
  <2>2. ASSUME NEW e \in Device, RelayActs(e) PROVE FALSE
    <3>1. phaseFact' \in [Device -> Fact] /\ telemetry' \in [Device -> Telemetry]
      <4>1. ControlTypeOK'
        BY ControlTypeStep DEF ControlInv
      <4> QED
        BY <4>1 DEF ControlTypeOK
    <3>2. Receive(phaseFact', telemetry')
      BY <2>2 DEF RelayActs, Pair, Close, ReportPhase, ReportTelemetry
    <3>3. Snapshot(lane[d], lane'[d], phaseFact'[d], telemetry'[d],
                   appliedPhases[d], appliedPhases'[d])
      BY <3>1, <3>2, Received DEF ControlInv
    <3> QED
      BY <3>3 DEF Snapshot, EndedBy, Outcomes, PhaseOf
  <2>3. ASSUME NEW e \in Device, GraceExpires(e) PROVE ~online[d]
    <3>1. e = d
      BY <2>l, <2>3 DEF GraceExpires, RecordDisconnected, vars
    <3> QED
      BY <2>l, <2>3, <3>1 DEF GraceExpires, LaneInv
  <2>4. ASSUME NEW e \in Device, PhoneActs(e) PROVE FALSE
    BY <2>l, <2>4 DEF PhoneActs, PhoneBegins, PhoneAdvances, PhoneEnds, vars
  <2>5. ASSUME NEW p \in Promise, AnswerTo(p) PROVE FALSE
    <3>f. PICK f \in flights : \E reply : Answer(f, reply)
      BY <2>5 DEF AnswerTo
    <3>1. PICK reply : Answer(f, reply)
      BY <3>f
    <3>2. f \in Flight /\ f.device \in Device
      BY DEF ControlInv, ControlTypeOK, TypeOK, Flight
    <3>3. SettleCurrent(f, reply) /\ f.device = d
      BY <2>l, <3>1, <3>2 DEF Answer, Settle, SettleCurrent, SettleStale
    <3> DEFINE new == AfterReply(lane[d].machine, f, reply)
    <3>4. lane'[d].machine = new
      BY <2>l, <3>3 DEF SettleCurrent, EndFlight, Lane
    <3>5. ReplyEffect(lane[d].machine, new, f, reply)
      BY <2>l, <3>2, ReplyPhases DEF LaneInv, PhaseOf
    <3> HIDE DEF new
    <3> QED
      BY <3>4, <3>5 DEF ReplyEffect, PhaseOf
  <2> QED
    BY <2>1, <2>2, <2>3, <2>4, <2>5 DEF ControlNext
<1> QED
  BY <1>1, ControlInductive, PTL DEF ControlSpec, OnlyTheGoneAreLost

-----------------------------------------------------------------------------
(* Runs and their missions, when no route is staged twice *)

NoRouteTwice ==
  \A m, n \in 1..MaxMissions : StagedRoute[m] = StagedRoute[n] => m = n

\* What a phone has said of a run is true of the run.
PhoneInv(d) ==
  /\ phone[d].mission # NoMission => <<phone[d].mission, phone[d].identity>> \in named
  /\ phone[d].outcome # None => <<phone[d].mission, phone[d].outcome>> \in ended
  /\ phaseFact[d].sequence > 0 => <<phaseFact[d].mission, phaseFact[d].identity>> \in named
  /\ telemetry[d].outcome # None => <<telemetry[d].mission, telemetry[d].outcome>> \in ended

\* A lane with a mission carries the mission's route, is locked to none but a
\* run of the mission, and shows it completed only after such a run was.
RunInv(d) ==
  lane[d].machine.missionId # NoMission =>
    /\ lane[d].machine.missionId \in 1..MaxMissions
    /\ lane[d].fileName = StagedRoute[lane[d].machine.missionId]
    /\ lane[d].missionIdentity # NoIdentity
         => <<lane[d].machine.missionId, lane[d].missionIdentity>> \in named
    /\ PhaseOf(d) = "completed" => <<lane[d].machine.missionId, "completed">> \in ended

RunsInv == ControlInv /\ \A d \in Device : PhoneInv(d) /\ RunInv(d)

\* Nothing said of a run is ever unsaid.
LEMMA SaidForEver ==
  ASSUME [ControlNext]_controlVars
  PROVE  named \subseteq named' /\ ended \subseteq ended'
BY DEF ControlNext, OperatorActs, ControlStage, ControlCommand, ControlRefuse, ControlRelease,
   ControlForget, RelayActs, Pair, Close, ReportPhase, ReportTelemetry, GraceExpires, AnswerTo,
   Answer, PhoneActs, PhoneBegins, PhoneAdvances, PhoneEnds, phoneVars, controlVars

LEMMA PhoneStep ==
  ASSUME ControlInv, [ControlNext]_controlVars, \A d \in Device : PhoneInv(d), NEW e \in Device
  PROVE  PhoneInv(e)'
<1>l. /\ phone \in [Device -> Run] /\ phone[e] \in Run
      /\ phaseFact \in [Device -> Fact] /\ telemetry \in [Device -> Telemetry]
      /\ PhoneInv(e) /\ named \subseteq named' /\ ended \subseteq ended'
  BY SaidForEver DEF ControlInv, ControlTypeOK
<1>1. CASE UNCHANGED <<phone, phaseFact, telemetry>>
  BY <1>l, <1>1 DEF PhoneInv
<1>2. ASSUME NEW d \in Device, PhoneBegins(d) PROVE PhoneInv(e)'
  <2>1. PICK m : /\ phone' = [phone EXCEPT ![d] =
                      [mission |-> m, identity |-> phone[d].identity + 1,
                       sequence |-> 0, outcome |-> None]]
                 /\ named' = named \cup {<<m, phone[d].identity + 1>>}
    BY <1>2 DEF PhoneBegins
  <2>2. CASE e = d
    <3>1. /\ phone'[e].mission = m /\ phone'[e].identity = phone[d].identity + 1
          /\ phone'[e].outcome = None
      BY <1>l, <2>1, <2>2
    <3> QED
      BY <1>2, <1>l, <2>1, <3>1 DEF PhoneBegins, PhoneInv, relayVars
  <2>3. CASE e # d
    BY <1>2, <1>l, <2>1, <2>3 DEF PhoneBegins, PhoneInv, relayVars
  <2> QED
    BY <2>2, <2>3
<1>3. ASSUME NEW d \in Device, PhoneAdvances(d) PROVE PhoneInv(e)'
  <2>1. phone' = [phone EXCEPT ![d] = [phone[d] EXCEPT !.sequence = @ + 1]]
    BY <1>3 DEF PhoneAdvances
  <2>2. /\ phone'[e].mission = phone[e].mission /\ phone'[e].identity = phone[e].identity
        /\ phone'[e].outcome = phone[e].outcome
    <3>1. CASE e = d
      BY <1>l, <2>1, <3>1 DEF Run
    <3>2. CASE e # d
      BY <1>l, <2>1, <3>2
    <3> QED
      BY <3>1, <3>2
  <2> QED
    BY <1>3, <1>l, <2>2 DEF PhoneAdvances, PhoneInv, relayVars
<1>4. ASSUME NEW d \in Device, NEW outcome \in Outcomes, PhoneEnds(d, outcome) PROVE PhoneInv(e)'
  <2>1. /\ phone' = [phone EXCEPT ![d] = [phone[d] EXCEPT !.outcome = outcome]]
        /\ ended' = ended \cup {<<phone[d].mission, outcome>>}
    BY <1>4 DEF PhoneEnds
  <2>2. CASE e = d
    <3>1. /\ phone'[e].mission = phone[e].mission /\ phone'[e].identity = phone[e].identity
          /\ phone'[e].outcome = outcome
      BY <1>l, <2>1, <2>2 DEF Run
    <3> QED
      BY <1>4, <1>l, <2>1, <2>2, <3>1 DEF PhoneEnds, PhoneInv, relayVars
  <2>3. CASE e # d
    BY <1>4, <1>l, <2>1, <2>3 DEF PhoneEnds, PhoneInv, relayVars
  <2> QED
    BY <2>2, <2>3
<1>5. ASSUME NEW d \in Device, Close(d) PROVE PhoneInv(e)'
  <2>1. /\ phaseFact'[e] \in {phaseFact[e], NoFact} /\ telemetry'[e] \in {telemetry[e], NoTelemetry}
        /\ UNCHANGED phone
    BY <1>5, <1>l DEF Close, phoneVars
  <2>2. ~(NoFact.sequence > 0) /\ NoTelemetry.outcome = None
    BY DEF NoFact, NoTelemetry
  <2> QED
    BY <1>l, <2>1, <2>2 DEF PhoneInv
<1>6. ASSUME NEW d \in Device, ReportPhase(d) PROVE PhoneInv(e)'
  <2> DEFINE fact == [mission |-> phone[d].mission, identity |-> phone[d].identity,
                      sequence |-> phone[d].sequence]
  <2>1. /\ phaseFact' = [phaseFact EXCEPT ![d] = fact] /\ phone[d].sequence > 0
        /\ UNCHANGED <<telemetry, phone>>
    BY <1>6 DEF ReportPhase, phoneVars
  <2>2. fact.mission = phone[d].mission /\ fact.identity = phone[d].identity
    OBVIOUS
  <2>3. phone[d].mission # NoMission /\ PhoneInv(d)
    BY <2>1 DEF ControlInv, PhonesRunMissions
  <2> HIDE DEF fact
  <2>4. phaseFact'[e] = IF e = d THEN fact ELSE phaseFact[e]
    BY <1>l, <2>1
  <2> QED
    BY <1>l, <2>1, <2>2, <2>3, <2>4 DEF PhoneInv
<1>7. ASSUME NEW d \in Device, ReportTelemetry(d) PROVE PhoneInv(e)'
  <2> DEFINE full == [known |-> TRUE, mission |-> phone[d].mission,
                      identity |-> phone[d].identity, outcome |-> phone[d].outcome]
             none == [NoTelemetry EXCEPT !.known = TRUE]
             report == IF phone[d].outcome = None THEN none ELSE full
  <2>1. /\ telemetry' = [telemetry EXCEPT ![d] = report]
        /\ UNCHANGED <<phaseFact, phone>>
    BY <1>7 DEF ReportTelemetry, phoneVars
  <2>2. full.mission = phone[d].mission /\ full.outcome = phone[d].outcome
    OBVIOUS
  <2>3. none.outcome = None
    BY DEF NoTelemetry
  <2> HIDE DEF full, none
  <2>4. telemetry'[e] = IF e = d THEN report ELSE telemetry[e]
    BY <1>l, <2>1
  <2>5. PhoneInv(d)
    OBVIOUS
  <2> QED
    BY <1>l, <2>1, <2>2, <2>3, <2>4, <2>5 DEF PhoneInv
<1>8. [ControlNext]_controlVars =>
        \/ UNCHANGED <<phone, phaseFact, telemetry>>
        \/ \E d \in Device : \/ PhoneActs(d) \/ Close(d)
                             \/ ReportPhase(d) \/ ReportTelemetry(d)
  BY DEF ControlNext, OperatorActs, ControlStage, ControlCommand, ControlRefuse, ControlRelease,
     ControlForget, RelayActs, Pair, GraceExpires, AnswerTo, Answer, relayVars, phoneVars, controlVars
<1> QED
  BY <1>1, <1>2, <1>3, <1>4, <1>5, <1>6, <1>7, <1>8 DEF PhoneActs

\* A step that leaves a lane its mission, its route and its lock.
LEMMA RunKept ==
  ASSUME NEW d \in Device, RunInv(d),
         lane'[d].machine.missionId \in {lane[d].machine.missionId, NoMission},
         lane'[d].machine.missionId # NoMission =>
           /\ lane'[d].fileName = lane[d].fileName
           /\ lane'[d].missionIdentity = lane[d].missionIdentity
           /\ PhaseOf(d)' = "completed" => PhaseOf(d) = "completed",
         named \subseteq named', ended \subseteq ended'
  PROVE  RunInv(d)'
BY DEF RunInv, PhaseOf

\* A snapshot locks a lane to a run of its mission, and ends it by such a run.
LEMMA RunSnapshot ==
  ASSUME NoRouteTwice, RunsInv, ControlTypeOK', NEW d \in Device, RunInv(d), PhoneInv(d)',
         Snapshot(lane[d], lane'[d], phaseFact'[d], telemetry'[d],
                  appliedPhases[d], appliedPhases'[d]),
         named \subseteq named', ended \subseteq ended'
  PROVE  RunInv(d)'
<1> DEFINE m == lane[d].machine.missionId
<1>0. LaneInv(d)
  BY DEF RunsInv, ControlInv
<1>1. /\ lane'[d].machine.missionId = m /\ lane'[d].fileName = lane[d].fileName
  BY DEF Snapshot
<1> SUFFICES ASSUME m # NoMission
             PROVE  /\ lane'[d].missionIdentity # NoIdentity
                         => <<m, lane'[d].missionIdentity>> \in named'
                    /\ PhaseOf(d)' = "completed" => <<m, "completed">> \in ended'
  BY <1>1 DEF RunInv, PhaseOf
<1>2. m \in 1..MaxMissions /\ lane[d].fileName = StagedRoute[m]
  BY DEF RunInv
<1> HIDE DEF m
<1>3. lane'[d].missionIdentity # NoIdentity => <<m, lane'[d].missionIdentity>> \in named'
  <2>1. CASE Untouched(lane[d], lane'[d], appliedPhases[d], appliedPhases'[d])
    BY <2>1 DEF Untouched, RunInv, m
  <2>2. CASE Marked(lane[d], lane'[d], phaseFact'[d], appliedPhases'[d])
    <3> DEFINE n == phaseFact'[d].mission
    <3>1. /\ lane'[d].missionIdentity = phaseFact'[d].identity
          /\ <<n, phaseFact'[d].identity>> \in named'
          /\ StagedRoute[n] = StagedRoute[m]
      BY <1>2, <2>2 DEF Marked, PhoneInv
    <3>2. n \in 1..MaxMissions
      BY <3>1 DEF ControlTypeOK
    <3>3. n = m
      BY <1>2, <3>1, <3>2 DEF NoRouteTwice
    <3> QED
      BY <3>1, <3>3
  <2> QED
    BY <2>1, <2>2 DEF Snapshot
<1>4. PhaseOf(d)' = "completed" => <<m, "completed">> \in ended'
  <2>1. CASE PhaseOf(d)' = PhaseOf(d)
    BY <2>1 DEF RunInv, m
  <2>2. CASE EndedBy(lane[d], lane'[d], telemetry'[d])
    <3> DEFINE n == telemetry'[d].mission
    <3>1. /\ PhaseOf(d)' = telemetry'[d].outcome /\ telemetry'[d].outcome \in Outcomes
          /\ StagedRoute[n] = StagedRoute[m]
      BY <1>2, <2>2 DEF EndedBy, PhaseOf
    <3>2. <<n, telemetry'[d].outcome>> \in ended'
      BY <3>1 DEF PhoneInv, Outcomes, None
    <3>3. n \in 1..MaxMissions
      BY <3>2 DEF ControlTypeOK
    <3>4. n = m
      BY <1>2, <3>1, <3>3 DEF NoRouteTwice
    <3> QED
      BY <3>1, <3>2, <3>4
  <2>3. CASE PhaseOf(d)' = "running"
    BY <2>3
  <2> QED
    BY <2>1, <2>2, <2>3 DEF Snapshot, PhaseOf
<1> QED
  BY <1>3, <1>4

LEMMA RunsStep ==
  ASSUME NoRouteTwice, RunsInv, [ControlNext]_controlVars
  PROVE  RunsInv'
<1>i. /\ ControlInv /\ ControlInv' /\ ControlTypeOK' /\ NoMission \in Nat
      /\ \A e \in Device : PhoneInv(e) /\ RunInv(e) /\ LaneInv(e) /\ PhoneInv(e)'
      /\ named \subseteq named' /\ ended \subseteq ended'
  BY ControlStep, PhoneStep, SaidForEver DEF RunsInv, ControlInv, NoMission
<1> SUFFICES ASSUME NEW d \in Device PROVE RunInv(d)'
  BY <1>i DEF RunsInv
<1>l. /\ lane \in [Device -> Lane] /\ lane[d] \in Lane /\ lane[d].machine \in Machine
      /\ TypeOK
  BY <1>i DEF ControlInv, ControlTypeOK, TypeOK, Lane
<1>k. ASSUME lane'[d] = lane[d] PROVE RunInv(d)'
  BY <1>i, <1>k, RunKept DEF PhaseOf
<1>1. ASSUME NEW e \in Device, OperatorActs(e) PROVE RunInv(d)'
  <2>1. PICK l0 : lane' = [lane EXCEPT ![e] = l0]
    BY <1>1 DEF OperatorActs, ControlStage, ControlCommand, ControlRefuse, ControlRelease,
                ControlForget, Stage, Command, Refuse, Release, Forget
  <2>2. CASE e # d
    BY <1>l, <1>k, <2>1, <2>2
  <2>3. CASE e = d /\ ControlStage(d)
    <3> DEFINE new == Successor(lane[d].machine, "stage-requested", staged + 1)
               l == BeginFlight(ForRoute(lane[d], StagedRoute[staged + 1]), new)
    <3>1. new.missionId = staged + 1 /\ new.phase = "staging"
      BY <1>l DEF Successor, Ended, Machine
    <3>2. /\ l.machine = new /\ l.fileName = StagedRoute[staged + 1]
          /\ l.missionIdentity = NoIdentity
      BY <1>l DEF BeginFlight, ForRoute, Lane
    <3>3. lane' = [lane EXCEPT ![d] = l]
      BY <2>3 DEF ControlStage, Stage
    <3>4. staged + 1 \in 1..MaxMissions
      BY <1>l, <2>3, DispatcherAssumption DEF ControlStage, TypeOK
    <3> HIDE DEF l, new
    <3>5. lane'[d] = l
      BY <1>l, <3>3
    <3> QED
      BY <3>1, <3>2, <3>4, <3>5 DEF RunInv, PhaseOf
  <2>4. ASSUME NEW operation \in Commands, ControlCommand(d, operation) PROVE RunInv(d)'
    <3> DEFINE ev == RequestEvent(operation)
               new == Successor(lane[d].machine, ev, NoMission)
               l == BeginFlight(lane[d], new)
    <3>1. ev \in {"upload-requested", "start-requested", "pause-requested", "resume-requested",
                  "stop-requested"}
      BY DEF RequestEvent, Commands, Controls
    <3>2. Legal(lane[d].machine, ev, NoMission) /\ lane' = [lane EXCEPT ![d] = l]
      BY <2>4 DEF ControlCommand, Command
    <3>3. new.missionId = lane[d].machine.missionId
      BY <1>i, <1>l, <3>1, <3>2, MissionKept
    <3>4. new.phase # "completed"
      BY <1>l, <3>1 DEF Successor, Machine
    <3>5. /\ l.machine = new /\ l.fileName = lane[d].fileName
          /\ l.missionIdentity = lane[d].missionIdentity
      BY <1>l DEF BeginFlight, Lane
    <3> HIDE DEF l, new
    <3>6. lane'[d] = l
      BY <1>l, <3>2
    <3> QED
      BY <1>i, <3>3, <3>4, <3>5, <3>6, RunKept DEF PhaseOf
  <2>5. CASE e = d /\ ControlRefuse(d)
    <3>1. /\ lane'[d].machine = lane[d].machine /\ lane'[d].fileName = lane[d].fileName
          /\ lane'[d].missionIdentity = lane[d].missionIdentity
      BY <1>l, <2>5 DEF ControlRefuse, Refuse, Lane
    <3> QED
      BY <1>i, <3>1, RunKept DEF PhaseOf
  <2>6. CASE e = d /\ (ControlRelease(d) \/ ControlForget(d))
    <3>1. lane'[d].machine = IdleMachine
      BY <1>l, <2>6 DEF ControlRelease, ControlForget, Release, Forget, FreshLane
    <3> QED
      BY <3>1 DEF IdleMachine, RunInv
  <2> QED
    BY <1>1, <2>2, <2>3, <2>4, <2>5, <2>6 DEF OperatorActs
<1>2. ASSUME NEW e \in Device, RelayActs(e) PROVE RunInv(d)'
  <2>1. phaseFact' \in [Device -> Fact] /\ telemetry' \in [Device -> Telemetry]
    BY <1>i DEF ControlTypeOK
  <2>2. Receive(phaseFact', telemetry')
    BY <1>2 DEF RelayActs, Pair, Close, ReportPhase, ReportTelemetry
  <2>3. Snapshot(lane[d], lane'[d], phaseFact'[d], telemetry'[d],
                 appliedPhases[d], appliedPhases'[d])
    BY <1>i, <2>1, <2>2, Received DEF ControlInv
  <2> QED
    BY <1>i, <2>3, RunSnapshot
<1>3. ASSUME NEW e \in Device, GraceExpires(e) PROVE RunInv(d)'
  <2>1. CASE lane'[d] = lane[d]
    BY <1>k, <2>1
  <2>2. CASE lane'[d] # lane[d]
    <3>1. RecordDisconnected(e)
      BY <1>3, <2>2 DEF GraceExpires, vars
    <3>2. lane' = [lane EXCEPT ![e] = Lost(lane[e])] /\ e = d
      BY <1>l, <2>2, <3>1 DEF RecordDisconnected
    <3> DEFINE l == Lost(lane[d])
               new == Successor(lane[d].machine, "connection-lost", NoMission)
    <3>3. lane'[d] = l
      BY <1>l, <3>2
    <3>4. /\ l.machine = new /\ l.fileName = lane[d].fileName
          /\ l.missionIdentity = lane[d].missionIdentity
      BY <1>l DEF Lost, Lane
    <3>5. new.phase = "disconnected" /\ new.missionId = lane[d].machine.missionId
      BY <1>l DEF Successor, Ended, Machine
    <3> HIDE DEF l, new
    <3> QED
      BY <1>i, <3>3, <3>4, <3>5, RunKept DEF PhaseOf
  <2> QED
    BY <2>1, <2>2
<1>4. ASSUME NEW p \in Promise, AnswerTo(p) PROVE RunInv(d)'
  <2>f. PICK f \in flights : \E reply : Answer(f, reply)
    BY <1>4 DEF AnswerTo
  <2>1. PICK reply : Answer(f, reply)
    BY <2>f
  <2>2. f \in Flight /\ f.device \in Device
    BY <1>l DEF TypeOK, Flight
  <2>3. CASE lane'[d] = lane[d]
    BY <1>k, <2>3
  <2>4. CASE lane'[d] # lane[d]
    <3>1. SettleCurrent(f, reply) /\ f.device = d
      BY <1>l, <2>1, <2>2, <2>4 DEF Answer, Settle, SettleCurrent, SettleStale
    <3> DEFINE new == AfterReply(lane[d].machine, f, reply)
    <3>2. /\ lane'[d].machine = new /\ lane'[d].fileName = lane[d].fileName
          /\ lane'[d].missionIdentity = lane[d].missionIdentity
      BY <1>l, <3>1 DEF SettleCurrent, EndFlight, Lane
    <3>3. ReplyEffect(lane[d].machine, new, f, reply)
      BY <1>i, <1>l, <2>2, ReplyPhases DEF LaneInv, PhaseOf
    <3> HIDE DEF new
    <3>4. new.missionId \in {lane[d].machine.missionId, NoMission}
      BY <3>3 DEF ReplyEffect
    <3>5. new.phase = "completed" => lane[d].machine.phase = "completed"
      BY <3>3 DEF ReplyEffect
    <3> QED
      BY <1>i, <3>2, <3>4, <3>5, RunKept DEF PhaseOf
  <2> QED
    BY <2>3, <2>4
<1>5. ASSUME NEW e \in Device, PhoneActs(e) PROVE lane' = lane
  BY <1>5 DEF PhoneActs, PhoneBegins, PhoneAdvances, PhoneEnds, vars
<1>6. CASE UNCHANGED controlVars
  BY <1>6, <1>k DEF controlVars, vars
<1> QED
  BY <1>1, <1>2, <1>3, <1>4, <1>5, <1>6, <1>k DEF ControlNext

LEMMA RunsInductive ==
  ASSUME NoRouteTwice
  PROVE  ControlSpec => []RunsInv
<1>1. ControlInit /\ ControlInv => RunsInv
  BY NoFactIsTyped
     DEF ControlInit, Init, FreshLane, IdleMachine, RunsInv, PhoneInv, RunInv, NoRun, NoFact,
         NoTelemetry
<1>2. RunsInv /\ [ControlNext]_controlVars => RunsInv'
  BY RunsStep
<1> QED
  BY <1>1, <1>2, ControlInductive, PTL DEF ControlSpec

\* When no route is staged twice, a lane is locked only to a run of its own
\* mission, whatever facts of earlier runs the snapshots still present, and a
\* mission is shown completed only after its phone ended it so.
THEOREM RunsOwn ==
  ASSUME NoRouteTwice
  PROVE  ControlSpec => []RunsAreOwn
<1>1. RunsInv => LockedToOwnRun
  BY DEF RunsInv, RunInv, LockedToOwnRun
<1>2. RunsInv => CompletedMissionsEnded
  BY DEF RunsInv, ControlInv, LaneInv, RunInv, CompletedMissionsEnded, PhaseOf
<1>3. RunsInv => RunsAreOwn
  BY <1>1, <1>2 DEF RunsAreOwn
<1> QED
  BY <1>3, RunsInductive, PTL
=============================================================================
