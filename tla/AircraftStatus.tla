---------------------------- MODULE AircraftStatus ----------------------------
(***************************************************************************)
(* What a monitor tile tells of one aircraft and what its buttons would    *)
(* send: the flight facts of the phone's report as the workflow's snapshot *)
(* passes them on (workflow-snapshot), and the separate readings of them   *)
(* in flight-now-status: the tile's status, the emergency hover, the route *)
(* button, the two direct buttons and the process line of the flight page. *)
(*                                                                         *)
(* The enumerations are cut to one member of each group the code tells     *)
(* apart.  A fact the report leaves out is Absent.                         *)
(***************************************************************************)
EXTENDS Naturals

CONSTANTS
  PhoneMission,   \* the missionExecution values told
  DjiMission      \* the missionDjiExecutionState values told

Absent == "absent"

AircraftAssumption ==
  /\ PhoneMission \subseteq {"NOT_STARTED", "STARTING", "EXECUTING", "PAUSED", "STOPPING", Absent}
  /\ DjiMission \subseteq {"IDLE", "PREPARING", "EXECUTING", "PAUSED", Absent}
  /\ Absent \in PhoneMission \cap DjiMission

Modes == {"AUTO_TAKEOFF", "AUTO_LANDING", "CONFIRM_LANDING", "GO_HOME", "GPS", Absent}

VARIABLES
  plane,          \* the flight facts of the latest report
  missionPhase,   \* the phase of the phone's mission lane
  routeStarted,   \* the lane's routeExecutionStarted
  landingIntent   \* landingIntents of the workflow

aircraftVars == <<plane, missionPhase, routeStarted, landingIntent>>

Switch == {"true", "false", Absent}
AircraftTypeOK ==
  /\ plane \in [flightController : {"CONNECTED", "DISCONNECTED", Absent},
       isFlying : Switch, motorsOn : Switch, mode : Modes, confirmNeeded : {"true", Absent},
       rth : {"COUNTING_DOWN", Absent}, phoneMission : PhoneMission, djiMission : DjiMission]
  /\ missionPhase \in {"idle", "uploaded", "starting", "running", "pausing", "paused", "resuming",
                       "stopping"}
  /\ routeStarted \in BOOLEAN /\ landingIntent \in {"requested", "stopped", Absent}

-----------------------------------------------------------------------------
(* connection() of the snapshot: a disconnected flight controller hides    *)
(* the flight facts, the mission facts stay.                               *)

Told == plane.flightController # "DISCONNECTED"
Flying == IF ~Told \/ plane.isFlying = Absent THEN "unknown"
          ELSE IF plane.isFlying = "true" THEN "flying" ELSE "grounded"
Motors == IF Told THEN plane.motorsOn ELSE Absent
Mode == IF Told THEN plane.mode ELSE Absent
ConfirmNeeded == Told /\ plane.confirmNeeded = "true"
CountingDown == Told /\ plane.rth = "COUNTING_DOWN"

OnGround == Flying = "grounded" /\ Motors = "false"
SpinningOnGround == Flying = "grounded" /\ Motors = "true"

\* landingPhase(): what the snapshot tells of a landing that was accepted.
LandingPhase ==
  IF landingIntent = Absent THEN "idle"
  ELSE IF landingIntent = "stopped" THEN "stopped"
  ELSE IF \/ plane.flightController # "CONNECTED"
          \/ Flying = "unknown" \/ Motors = Absent THEN "state-unknown"
  ELSE IF OnGround THEN "confirmed-grounded"
  ELSE IF ConfirmNeeded THEN "confirmation-required" ELSE "awaiting-msdk"

-----------------------------------------------------------------------------
(* flight-now-status                                                       *)

DJI_MISSION == {"PREPARING", "EXECUTING", "PAUSED"}
DJI_MISSION_IDLE == {"IDLE"}
PHONE_MISSION == {"STARTING", "EXECUTING", "PAUSED"}
WAYLINE_STOP_PHONE == PHONE_MISSION \cup {"STOPPING"}

ReturningHome == Mode = "GO_HOME" \/ (Flying = "flying" /\ CountingDown)
AskedToConfirm == ConfirmNeeded \/ Mode = "CONFIRM_LANDING"

MissionActive ==
  \/ plane.djiMission \in DJI_MISSION
  \/ plane.phoneMission \in PHONE_MISSION /\ plane.djiMission \notin DJI_MISSION_IDLE

\* monitorAircraftStatus(): the one label of the tile, first match.
AircraftLabel ==
  IF plane.flightController = "DISCONNECTED" THEN "unreachable"
  ELSE IF OnGround THEN "ground"
  ELSE IF AskedToConfirm THEN "goes on landing"
  ELSE IF Mode = "AUTO_LANDING" THEN "landing"
  ELSE IF ReturningHome THEN "returning"
  ELSE IF Flying = "flying" /\ MissionActive THEN "route"
  ELSE IF SpinningOnGround \/ Mode = "AUTO_TAKEOFF" THEN "take-off"
  ELSE IF Flying = "flying" THEN "hovering" ELSE "unconfirmed"

\* monitorHoverCommand(): what the emergency hover would send, first match.
WaylineToStop == plane.djiMission \in DJI_MISSION \/ plane.phoneMission \in WAYLINE_STOP_PHONE
HoverRouteFirst ==   \* mutant: a route is stopped before a return home is left
  IF plane.flightController = "DISCONNECTED" THEN "unreachable"
  ELSE IF OnGround THEN "nothing"
  ELSE IF WaylineToStop THEN "stop-route"
  ELSE IF AskedToConfirm \/ Mode = "AUTO_LANDING" THEN "stop-auto-landing"
  ELSE IF ReturningHome THEN "stop-go-home" ELSE "nothing"
HoverCommand ==
  IF plane.flightController = "DISCONNECTED" THEN "unreachable"
  ELSE IF OnGround THEN "nothing"
  ELSE IF AskedToConfirm \/ Mode = "AUTO_LANDING" THEN "stop-auto-landing"
  ELSE IF ReturningHome THEN "stop-go-home"
  ELSE IF WaylineToStop THEN "stop-route"
  ELSE IF SpinningOnGround \/ Mode = "AUTO_TAKEOFF" THEN "stop-takeoff"
  ELSE IF Flying = "flying" THEN "nothing" ELSE "unconfirmed"

\* monitorDirectFlight(): what the two direct buttons would send.
HomeButton == IF ~OnGround /\ ~AskedToConfirm /\ ReturningHome THEN "stop-go-home" ELSE "return-home"
LandButton == IF ~OnGround /\ AskedToConfirm THEN "confirm-landing" ELSE "land"

\* monitorRouteControl(): the face of the route button, first match.
PlaneExecuting == plane.djiMission = "EXECUTING" \/ plane.phoneMission = "EXECUTING"
PlanePaused == plane.djiMission = "PAUSED"
                 \/ (plane.phoneMission = "PAUSED" /\ plane.djiMission # "EXECUTING")
RouteControl ==
  IF missionPhase = "stopping" \/ plane.phoneMission = "STOPPING" THEN "stopping"
  ELSE IF missionPhase = "resuming" THEN IF PlaneExecuting THEN "pause" ELSE "resume"
  ELSE IF (PlanePaused /\ missionPhase # "starting") \/ missionPhase = "paused" THEN "resume"
  ELSE IF \/ PlaneExecuting \/ missionPhase \in {"pausing", "running"}
          \/ routeStarted /\ missionPhase = "starting" THEN "pause"
  ELSE IF missionPhase = "starting" \/ plane.phoneMission = "STARTING" THEN "await"
  ELSE "choose"

\* directProcessStatus(): the process line of the flight page.
ProcessLine ==
  IF OnGround THEN "ground"
  ELSE IF Motors = "true" /\ Flying # "flying" THEN "taking off"
  ELSE IF Flying # "flying" THEN "no process"
  ELSE IF Mode \in {"AUTO_LANDING", "CONFIRM_LANDING"} \/ ConfirmNeeded THEN "landing"
  ELSE IF Mode = "GO_HOME" \/ CountingDown THEN "returning" ELSE "flying"

-----------------------------------------------------------------------------
(* A report changes one fact; the lane and the intents follow commands.    *)

Parked == [flightController |-> "CONNECTED", isFlying |-> "false", motorsOn |-> "false",
  mode |-> "GPS", confirmNeeded |-> Absent, rth |-> Absent, phoneMission |-> Absent,
  djiMission |-> Absent]

AircraftInit ==
  /\ plane = Parked /\ missionPhase = "idle" /\ routeStarted = FALSE /\ landingIntent = Absent

Observes ==
  /\ \/ \E v \in {"CONNECTED", "DISCONNECTED", Absent} : plane' = [plane EXCEPT !.flightController = v]
     \/ \E v \in Switch : plane' = [plane EXCEPT !.isFlying = v]
     \/ \E v \in Switch : plane' = [plane EXCEPT !.motorsOn = v]
     \/ \E v \in Modes : plane' = [plane EXCEPT !.mode = v]
     \/ \E v \in {"true", Absent} : plane' = [plane EXCEPT !.confirmNeeded = v]
     \/ \E v \in {"COUNTING_DOWN", Absent} : plane' = [plane EXCEPT !.rth = v]
     \/ \E v \in PhoneMission : plane' = [plane EXCEPT !.phoneMission = v]
     \/ \E v \in DjiMission : plane' = [plane EXCEPT !.djiMission = v]
  /\ UNCHANGED <<missionPhase, routeStarted, landingIntent>>

\* The lane, one legal step at a time, and the phase events that set routeStarted.
LaneAdvances ==
  /\ \/ missionPhase = "idle" /\ missionPhase' = "uploaded" /\ routeStarted' = FALSE
     \/ missionPhase = "uploaded" /\ missionPhase' = "starting" /\ UNCHANGED routeStarted
     \/ missionPhase = "starting" /\ missionPhase' = "running" /\ UNCHANGED routeStarted
     \/ missionPhase = "starting" /\ routeStarted' = TRUE /\ UNCHANGED missionPhase
     \/ missionPhase \in {"starting", "running"} /\ missionPhase' = "pausing" /\ UNCHANGED routeStarted
     \/ missionPhase = "pausing" /\ missionPhase' = "paused" /\ UNCHANGED routeStarted
     \/ missionPhase = "paused" /\ missionPhase' = "resuming" /\ UNCHANGED routeStarted
     \/ missionPhase = "resuming" /\ missionPhase' = "running" /\ UNCHANGED routeStarted
     \/ missionPhase \in {"starting", "running", "pausing", "paused", "resuming"}
          /\ missionPhase' = "stopping"
          /\ UNCHANGED routeStarted
     \/ missionPhase = "stopping" /\ missionPhase' = "idle" /\ routeStarted' = FALSE
  /\ UNCHANGED <<plane, landingIntent>>

\* confirmFlightAction() succeeded: a landing, its stop, or another action.
FlightActionDone ==
  /\ landingIntent' \in {"requested", "stopped", Absent}
  /\ UNCHANGED <<plane, missionPhase, routeStarted>>



-----------------------------------------------------------------------------
(* Properties.                                                             *)

\* The tile shows one status, and next to it a button that must stop just that:
\* whatever the facts, a plane shown landing, going home, on a route or taking off
\* is one the emergency hover sends a command for, and for the first two the
\* command that ends what is shown; "nothing to do" is only answered for a plane
\* shown on the ground or hovering.  The direct buttons and the landing the
\* snapshot tells agree with the same label.
HoverStopsWhatIsShown ==
  /\ AircraftLabel \in {"landing", "goes on landing"} <=> HoverCommand = "stop-auto-landing"
  /\ AircraftLabel = "returning" <=> HoverCommand = "stop-go-home"
  /\ AircraftLabel = "route" => HoverCommand = "stop-route"
  /\ AircraftLabel = "take-off" => HoverCommand \in {"stop-takeoff", "stop-route"}
  /\ HoverCommand = "nothing" => AircraftLabel \in {"ground", "hovering"}
  /\ HomeButton = "stop-go-home" /\ AircraftLabel # "landing" => HoverCommand = "stop-go-home"
  /\ LandButton = "confirm-landing" <=> AircraftLabel = "goes on landing"
  /\ LandingPhase = "confirmation-required" => LandButton = "confirm-landing"
  /\ LandingPhase = "confirmed-grounded" => AircraftLabel = "ground" /\ ProcessLine = "ground"
  /\ ProcessLine = "landing" => HoverCommand = "stop-auto-landing"

\* The route button's own tooltip while the plane has not entered the route: to
\* call the mission off press the emergency hover.
AwaitIsStoppable == RouteControl = "await" => HoverCommand # "nothing"
=============================================================================
