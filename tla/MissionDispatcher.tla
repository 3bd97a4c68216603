------------------------- MODULE MissionDispatcher -------------------------
(***************************************************************************)
(* The mission dispatcher                                                  *)
(* (src/modules/mission-control/mission-dispatcher): one lane per phone,   *)
(* and for each lane the operations whose answer is still awaited.         *)
(*                                                                         *)
(* Every operation is two atomic steps, the code before its await (Stage,  *)
(* Command) and the continuation after it (Settle); between them any other *)
(* call, reply or relay fact may run.  A flight is one such suspended      *)
(* call: the values its closure captured before the await.                 *)
(***************************************************************************)
EXTENDS MissionPhaseDomain, FiniteSets, TLC

CONSTANTS
  Device,            \* phones, one lane each
  Route,             \* routes of the library, named by their file
  NoRoute,           \* null
  Identity,          \* what the phone names a run with: (generation, revision)
  Promise,           \* replies that can be awaited at the same time
  MaxMissions,       \* missions staged in a behaviour
  MaxEpoch,          \* lanes taken back or forgotten in a behaviour
  MaxSequence,       \* sequence numbers of mission-phase facts
  SettlesBeforeLoss  \* the relay answers what it still owes a phone before
                     \* that phone's loss is recorded

ASSUME DispatcherAssumption ==
  /\ IsFiniteSet(Promise)
  /\ NoRoute \notin Route
  /\ Identity \subseteq Nat \ {0}
  /\ MaxMissions \in Nat
  /\ MaxEpoch \in Nat
  /\ MaxSequence \in Nat
  /\ SettlesBeforeLoss \in BOOLEAN

VARIABLES
  lane,              \* lanes, by device
  flights,           \* calls suspended at their await
  staged,            \* the last mission id createMissionId made
  confirmedUploads,  \* auxiliary: missions whose upload the phone confirmed
  maybeFlying        \* auxiliary: missions DJI may be executing

vars == <<lane, flights, staged, confirmedUploads, maybeFlying>>

Controls == {"pause", "resume", "stop"}
Commands == {"upload", "start"} \cup Controls
Operations == {"stage"} \cup Commands

\* What the gateway's promise resolves to.  UNCONFIRMED is every status that
\* proves nothing: timed-out, disconnected, transport-failed, a thrown call, a
\* rejection without a DJI outcome, RESULT_UNCONFIRMED.
Replies == {"succeeded", "ACTION_REJECTED", "INVOCATION_FAILED", "UNCONFIRMED"}

RepliesTo(operation) ==
  IF operation = "stage" THEN {"succeeded", "UNCONFIRMED"} ELSE Replies

Milestones == {"START_POINT_REACHED", "ROUTE_EXECUTION_STARTED"}
Outcomes == {"completed", "failed"}
NoIdentity == 0

\* lastResult, without the operation and the error code: what was answered.
Results == {None, "ok", "failed"}

Lane ==
  [exists : BOOLEAN, machine : Machine, fileName : Route \cup {NoRoute},
   missionIdentity : Identity \cup {NoIdentity},
   missionPhaseSequence : 0..MaxSequence,
   startPointReached : BOOLEAN, routeExecutionStarted : BOOLEAN,
   inFlightCount : Nat, epoch : 0..MaxEpoch, lastResult : Results]

\* epoch counts releases and, since a forgotten lane is another object, also
\* the lane objects: a flight belongs to the lane iff their epochs agree.
FreshLane(exists, epoch) ==
  [exists |-> exists, machine |-> IdleMachine, fileName |-> NoRoute,
   missionIdentity |-> NoIdentity, missionPhaseSequence |-> 0,
   startPointReached |-> FALSE, routeExecutionStarted |-> FALSE,
   inFlightCount |-> 0, epoch |-> epoch,
   lastResult |-> None]

Flight ==
  [promise : Promise, device : Device, operation : Operations,
   missionId : Nat, epoch : 0..MaxEpoch, from : MissionPhases]

Init ==
  /\ lane = [d \in Device |-> FreshLane(FALSE, 0)]
  /\ flights = {}
  /\ staged = 0
  /\ confirmedUploads = {}
  /\ maybeFlying = {}

PhaseOf(d) == lane[d].machine.phase
Busy(d) == lane[d].inFlightCount > 0
FlightsOf(d) == {f \in flights : f.device = d}
Current(f) == f.epoch = lane[f.device].epoch
LiveFlights(d) == {f \in FlightsOf(d) : Current(f)}
FreePromises == Promise \ {f.promise : f \in flights}

\* beginFlight() and endFlight(), with what else the caller writes.
BeginFlight(l, machine) ==
  [l EXCEPT !.machine = machine, !.inFlightCount = @ + 1]
EndFlightStillBusy(l, machine, result) ==  \* mutant: not counted down
  [l EXCEPT !.machine = machine, !.lastResult = result]
EndFlight(l, machine, result) ==
  [l EXCEPT !.machine = machine, !.lastResult = result,
            !.inFlightCount = IF @ > 0 THEN @ - 1 ELSE 0]

\* The closure of a call that is about to await.
Await(d, operation, mission) ==
  \E p \in FreePromises :
    flights' = flights \cup
      {[promise |-> p, device |-> d, operation |-> operation,
        missionId |-> mission, epoch |-> lane[d].epoch, from |-> PhaseOf(d)]}

-----------------------------------------------------------------------------
\* A new mission replaces whatever the lane showed before.
ForRoute(l, route) ==
  [l EXCEPT !.exists = TRUE, !.fileName = route, !.missionIdentity = NoIdentity,
            !.missionPhaseSequence = 0, !.startPointReached = FALSE,
            !.routeExecutionStarted = FALSE]

\* stage(), up to its await.
Stage(d, route) ==
  /\ ~Busy(d)
  /\ staged < MaxMissions
  /\ Legal(lane[d].machine, "stage-requested", staged + 1)
  /\ staged' = staged + 1
  /\ lane' = [lane EXCEPT ![d] =
       BeginFlight(ForRoute(lane[d], route),
                   Successor(lane[d].machine, "stage-requested", staged + 1))]
  /\ Await(d, "stage", staged + 1)
  /\ UNCHANGED <<confirmedUploads, maybeFlying>>

\* A stop may overtake whatever it would stop, a pause a start.
MayPreemptAnyStop(d, operation) ==  \* mutant: also a stop that is pending
  \/ operation = "stop" /\ PhaseOf(d) \in STOPPABLE
  \/ operation = "pause" /\ PhaseOf(d) \in {"starting", "running"}

MayPreempt(d, operation) ==
  \/ operation = "stop" /\ PhaseOf(d) \in STOPPABLE \ {"stopping"}
  \/ operation = "pause" /\ PhaseOf(d) \in {"starting", "running"}

RequestEvent(operation) ==
  CASE operation = "upload" -> "upload-requested"
    [] operation = "start"  -> "start-requested"
    [] operation = "pause"  -> "pause-requested"
    [] operation = "resume" -> "resume-requested"
    [] operation = "stop"   -> "stop-requested"

\* Mutant of the next: a repeated start does not remember that it is one.
CommandForgettingRetry(d, operation) ==
  /\ lane[d].exists
  /\ Busy(d) => MayPreempt(d, operation)
  /\ Legal(lane[d].machine, RequestEvent(operation), NoMission)
  /\ lane' = [lane EXCEPT ![d] = BeginFlight(lane[d],
       [Successor(lane[d].machine, RequestEvent(operation), NoMission)
          EXCEPT !.startRetry = FALSE])]
  /\ Await(d, operation, lane[d].machine.missionId)
  /\ UNCHANGED <<staged, confirmedUploads, maybeFlying>>

\* performCommand() up to its await, the preflight check passed.
Command(d, operation) ==
  /\ lane[d].exists
  /\ Busy(d) => MayPreempt(d, operation)
  /\ Legal(lane[d].machine, RequestEvent(operation), NoMission)
  /\ lane' = [lane EXCEPT ![d] =
       BeginFlight(lane[d],
                   Successor(lane[d].machine, RequestEvent(operation), NoMission))]
  /\ Await(d, operation, lane[d].machine.missionId)
  /\ UNCHANGED <<staged, confirmedUploads, maybeFlying>>

\* Every early return of an operation on a known lane: busy, illegal phase,
\* blocked by the preflight check, a dependency that throws or refuses.
Refuse(d) ==
  /\ lane[d].exists
  /\ lane' = [lane EXCEPT ![d] = [lane[d] EXCEPT !.lastResult = "failed"]]
  /\ UNCHANGED <<flights, staged, confirmedUploads, maybeFlying>>

\* The event a reply feeds to the machine; None when it only answers.
ReplyEvent(operation, reply) ==
  CASE operation = "stage" ->
         IF reply = "succeeded" THEN "stage-succeeded" ELSE "operation-failed"
    [] operation = "upload" ->
         (CASE reply = "succeeded" -> "upload-succeeded"
            [] reply \in {"ACTION_REJECTED", "INVOCATION_FAILED"} -> "upload-rejected"
            [] OTHER -> "operation-failed")
    [] operation = "start" ->
         IF reply = "ACTION_REJECTED" THEN "start-rejected" ELSE None
    [] OTHER ->
         IF reply = "UNCONFIRMED" THEN None
         ELSE CASE operation = "pause" ->
                     IF reply = "succeeded" THEN "pause-succeeded" ELSE "pause-rejected"
                [] operation = "resume" ->
                     IF reply = "succeeded" THEN "resume-succeeded" ELSE "resume-rejected"
                [] operation = "stop" ->
                     IF reply = "succeeded" THEN "stop-succeeded" ELSE "stop-rejected"

AfterReplyOptimistic(machine, f, reply) ==  \* mutant: no answer is a success
  IF machine.phase = "uploading" /\ f.operation = "upload" /\ reply = "UNCONFIRMED"
  THEN [machine EXCEPT !.phase = "uploaded"]
  ELSE Transition(machine, ReplyEvent(f.operation, reply), f.missionId)

AfterReplyFlying(machine, f, reply) ==  \* mutant: a rejected pause means flying
  IF machine.phase = "pausing" /\ f.operation = "pause" /\ reply = "ACTION_REJECTED"
  THEN [machine EXCEPT !.phase = "running", !.pausedFrom = None]
  ELSE Transition(machine, ReplyEvent(f.operation, reply), f.missionId)

\* A lane that lost its phone keeps saying so, whatever the reply.
AfterReply(machine, f, reply) ==
  IF machine.phase = "disconnected" THEN machine
  ELSE Transition(machine, ReplyEvent(f.operation, reply), f.missionId)

\* What the caller of the operation is told.
AnsweredOk(machine, f, reply) ==
  /\ machine.phase # "disconnected"
  /\ reply = "succeeded" \/ (f.operation = "start" /\ machine.phase # "starting")

\* The continuation after the await, of a call whose lane was not taken back.
SettleCurrent(f, reply) ==
  /\ Current(f)
  /\ LET l == lane[f.device]
         ok == AnsweredOk(l.machine, f, reply)
     IN  lane' = [lane EXCEPT ![f.device] =
           EndFlight(l, AfterReply(l.machine, f, reply), IF ok THEN "ok" ELSE "failed")]

\* ... and of one whose lane was released or forgotten meanwhile.
SettleStale(f) == ~Current(f) /\ UNCHANGED lane

Settle(f, reply) ==
  /\ SettleCurrent(f, reply) \/ SettleStale(f)
  /\ flights' = flights \ {f}
  /\ confirmedUploads' = confirmedUploads \cup
       {m \in {f.missionId} : f.operation = "upload" /\ reply = "succeeded"}
  /\ maybeFlying' = maybeFlying \cup
       {m \in {f.missionId} : f.operation = "start" /\ reply # "ACTION_REJECTED"}
  /\ UNCHANGED staged

-----------------------------------------------------------------------------
ReleaseKeepingEpoch(d) ==  \* mutant: replies still awaited count for the next
  /\ lane[d].exists
  /\ lane' = [lane EXCEPT ![d] = FreshLane(TRUE, @.epoch)]
  /\ UNCHANGED <<flights, staged, confirmedUploads, maybeFlying>>

\* release(): take the lane back; replies still awaited no longer count.
Release(d) ==
  /\ lane[d].exists
  /\ lane[d].epoch < MaxEpoch
  /\ lane' = [lane EXCEPT ![d] = FreshLane(TRUE, @.epoch + 1)]
  /\ UNCHANGED <<flights, staged, confirmedUploads, maybeFlying>>

\* forget(): drop a lane whose mission is over.
Forget(d) ==
  /\ lane[d].exists
  /\ lane[d].epoch < MaxEpoch
  /\ PhaseOf(d) \in {"idle", "completed", "failed", "disconnected"}
  /\ lane' = [lane EXCEPT ![d] = FreshLane(FALSE, @.epoch + 1)]
  /\ UNCHANGED <<flights, staged, confirmedUploads, maybeFlying>>

\* The lane keeps its route and identity, and no longer shows its milestones.
Lost(l) ==
  [l EXCEPT !.machine = Successor(l.machine, "connection-lost", NoMission),
            !.inFlightCount = 0, !.missionPhaseSequence = 0,
            !.startPointReached = FALSE, !.routeExecutionStarted = FALSE]

\* recordDisconnected(): the phone has been missing for the grace period.
RecordDisconnected(d) ==
  /\ SettlesBeforeLoss => FlightsOf(d) = {}
  /\ Legal(lane[d].machine, "connection-lost", NoMission)
  /\ lane' = [lane EXCEPT ![d] = Lost(lane[d])]
  /\ UNCHANGED <<flights, staged, confirmedUploads, maybeFlying>>

\* The lane is locked to the first run that reports to it.
MatchingIdentity(l, identity) == l.missionIdentity \in {NoIdentity, identity}

\* recordMissionPhase(): a milestone reported by the phone, in the two cases
\* in which the lane stays in its phase ...
Reached(l, identity, sequence, milestone) ==
  [l EXCEPT !.missionIdentity = identity, !.missionPhaseSequence = sequence,
            !.startPointReached = @ \/ milestone = "START_POINT_REACHED"]

\* ... and in which it starts running.
Running(l, identity, sequence) ==
  [l EXCEPT !.missionIdentity = identity, !.missionPhaseSequence = sequence,
            !.machine = Successor(l.machine, "start-succeeded", NoMission),
            !.routeExecutionStarted = TRUE]

AcceptableAnyFile(l, route, identity, sequence) ==  \* mutant: of any route
  /\ MatchingIdentity(l, identity)
  /\ l.machine.phase \in {"starting", "running"}
  /\ sequence > l.missionPhaseSequence

Acceptable(l, route, identity, sequence) ==
  /\ l.fileName = route
  /\ MatchingIdentity(l, identity)
  /\ l.machine.phase \in {"starting", "running"}
  /\ sequence > l.missionPhaseSequence

RecordMilestone(d, route, identity, sequence, milestone) ==
  /\ Acceptable(lane[d], route, identity, sequence)
  /\ milestone = "START_POINT_REACHED" \/ PhaseOf(d) = "running"
  /\ lane' = [lane EXCEPT ![d] = Reached(lane[d], identity, sequence, milestone)]
  /\ UNCHANGED <<flights, staged, confirmedUploads, maybeFlying>>

RecordStarted(d, route, identity, sequence) ==
  /\ Acceptable(lane[d], route, identity, sequence)
  /\ Legal(lane[d].machine, "start-succeeded", NoMission)
  /\ lane' = [lane EXCEPT ![d] = Running(lane[d], identity, sequence)]
  /\ maybeFlying' = maybeFlying \cup {lane[d].machine.missionId}
  /\ UNCHANGED <<flights, staged, confirmedUploads>>

RecordMissionPhase(d, route, identity, sequence, milestone) ==
  \/ RecordMilestone(d, route, identity, sequence, milestone)
  \/ /\ milestone = "ROUTE_EXECUTION_STARTED"
     /\ RecordStarted(d, route, identity, sequence)

\* recordExecutionStarted(): the same fact from a phone without sequences.
RecordExecutionStarted(d, route, identity) ==
  /\ lane[d].fileName = route
  /\ MatchingIdentity(lane[d], identity)
  /\ Legal(lane[d].machine, "start-succeeded", NoMission)
  /\ lane' = [lane EXCEPT ![d] = Running(lane[d], identity, lane[d].missionPhaseSequence)]
  /\ maybeFlying' = maybeFlying \cup {lane[d].machine.missionId}
  /\ UNCHANGED <<flights, staged, confirmedUploads>>

TerminalEventCompleting(outcome) == "mission-completed"  \* mutant: whatever the outcome

TerminalEvent(outcome) ==
  IF outcome = "completed" THEN "mission-completed" ELSE "operation-failed"

\* recordExecutionTerminal(): the run this lane is locked to is over.
MayEnd(l, route, identity, outcome) ==
  /\ l.missionIdentity = identity
  /\ l.inFlightCount = 0
  /\ l.fileName = route
  /\ Legal(l.machine, TerminalEvent(outcome), NoMission)

Over(l, outcome) ==
  [l EXCEPT !.machine = Successor(l.machine, TerminalEvent(outcome), NoMission)]

RecordExecutionTerminal(d, route, identity, outcome) ==
  /\ MayEnd(lane[d], route, identity, outcome)
  /\ lane' = [lane EXCEPT ![d] = Over(lane[d], outcome)]
  /\ UNCHANGED <<flights, staged, confirmedUploads, maybeFlying>>

-----------------------------------------------------------------------------
Operate(d) ==
  \/ \E route \in Route : Stage(d, route)
  \/ \E operation \in Commands : Command(d, operation)
  \/ Refuse(d)
  \/ Release(d)
  \/ Forget(d)

Observe(d) ==
  \/ RecordDisconnected(d)
  \/ \E route \in Route, identity \in Identity :
       \/ \E sequence \in 1..MaxSequence, milestone \in Milestones :
            RecordMissionPhase(d, route, identity, sequence, milestone)
       \/ RecordExecutionStarted(d, route, identity)
       \/ \E outcome \in Outcomes :
            RecordExecutionTerminal(d, route, identity, outcome)

Resolve(p) ==
  \E f \in flights : f.promise = p /\ \E reply \in RepliesTo(f.operation) : Settle(f, reply)

Next ==
  \/ \E d \in Device : Operate(d) \/ Observe(d)
  \/ \E p \in Promise : Resolve(p)

Spec == Init /\ [][Next]_vars

-----------------------------------------------------------------------------
\* Lanes, flights and the auxiliary sets keep their types: in particular every
\* value the machine's hidden variables hand back to the phase is a phase.
TypeOK ==
  /\ lane \in [Device -> Lane]
  /\ flights \subseteq Flight
  /\ staged \in 0..MaxMissions
  /\ confirmedUploads \subseteq Nat
  /\ maybeFlying \subseteq Nat

\* The busy flag of a lane counts exactly the replies it still awaits, so no
\* interleaving of preemption, loss and release leaves a lane busy with nobody
\* to free it, or free while DJI still owes it an answer.
FlightsAreCounted ==
  \A d \in Device : lane[d].inFlightCount = Cardinality(LiveFlights(d))

\* One ordinary operation per lane; a stop and a pause may overtake it, and
\* neither is ever sent a second time while the first is unanswered.
Ordinary == Operations \ {"stop", "pause"}
FlightsDoNotPileUp ==
  \A d \in Device : \A f, g \in LiveFlights(d) :
    f # g => /\ f.operation # g.operation
             /\ ~(f.operation \in Ordinary /\ g.operation \in Ordinary)

\* A lane shows a mission as uploaded, or anything later, only when the phone
\* confirmed the upload of that very mission, never of one staged before it.
Uploaded == {"uploaded", "starting", "running", "pausing", "paused", "resuming"}
UploadIsConfirmed ==
  \A d \in Device :
    PhaseOf(d) \in Uploaded => lane[d].machine.missionId \in confirmedUploads

\* A mission DJI may be executing (a start not rejected by DJI, or a reported
\* execution) is never shown in a phase from which the operator cannot stop it,
\* whatever pauses, repeated starts and rejections came in between.
MaybeFlyingIsStoppable ==
  \A d \in Device :
    lane[d].machine.missionId \in maybeFlying
      => PhaseOf(d) \in STOPPABLE \cup {"completed", "failed"}

Waiting(operation) ==
  CASE operation = "stage"  -> "staging"
    [] operation = "upload" -> "uploading"
    [] operation = "start"  -> "starting"
    [] operation = "pause"  -> "pausing"
    [] operation = "resume" -> "resuming"
    [] operation = "stop"   -> "stopping"

\* When DJI rejects an operation the lane is still waiting for, the lane goes
\* back to the phase that operation was requested in, although a stop may have
\* overtaken it and come back in between; a repeated start stays "starting".
RejectionRestores ==
  [][\A f \in flights :
       /\ Settle(f, "ACTION_REJECTED")
       /\ Current(f)
       /\ f.operation # "stage"
       /\ PhaseOf(f.device) = Waiting(f.operation)
       => PhaseOf(f.device)' = IF f.operation = "start" /\ f.from # "uploaded"
                               THEN "starting" ELSE f.from]_vars

\* A reply to an operation of a mission the lane no longer carries (taken back,
\* forgotten, stopped, staged anew) does not touch the mission it carries now.
LateRepliesAreInert ==
  [][\A f \in flights :
       /\ f \notin flights'
       /\ lane[f.device].machine.missionId # f.missionId
       => lane'[f.device].machine = lane[f.device].machine]_vars

\* A busy lane becomes free again: preemption cannot keep it busy for ever.
BusyEnds == \A d \in Device : Busy(d) ~> ~Busy(d)

-----------------------------------------------------------------------------
\* Said by the contracts and not kept by the code; see the README.

\* CONTRACT.md of mission-control: only a valid ROUTE_EXECUTION_STARTED fact
\* puts a lane into "running".
RunningMeansExecuting ==
  \A d \in Device : PhaseOf(d) = "running" => lane[d].routeExecutionStarted

\* CONTRACT.md of the mission dispatcher: DJI's rejection of the first start
\* restores "uploaded" and is answered WAYLINE_ACTION_REJECTED, a failure.
RejectedStartIsReported ==
  [][\A f \in flights :
       /\ Settle(f, "ACTION_REJECTED")
       /\ Current(f)
       /\ f.operation = "start"
       => lane'[f.device].lastResult = "failed"]_vars

-----------------------------------------------------------------------------
\* For the runs: promises are interchangeable, only their being distinct matters.
PromiseSymmetry == Permutations(Promise)
=============================================================================
