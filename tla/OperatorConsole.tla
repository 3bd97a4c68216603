---------------------------- MODULE OperatorConsole ----------------------------
(***************************************************************************)
(* The console's view (src/production/operator-console/index.ts): which    *)
(* phone the mission buttons are about, and which of them are enabled.     *)
(* The view is projected from the page's last snapshot and the selection   *)
(* the page keeps; the page stores the selection each projection resolves, *)
(* and a paint projects a second time after the fetch before it.           *)
(***************************************************************************)
EXTENDS MissionPhaseDomain, FiniteSets

CONSTANTS
  Handset,        \* the phones that come and go
  Pilot,          \* the one whose mission lane is looked at
  Nobody          \* no selection

ConsoleAssumption == Pilot \in Handset /\ Nobody \notin Handset

VARIABLES
  present,        \* the phones the station lists
  listed,         \* the phones of the page's lastSnapshot
  chosen,         \* state.missionDeviceId
  cleared,        \* history: a selection was cleared and nothing picked since
  workspace,      \* state.workspace
  lane,           \* the Pilot's mission, as the snapshot has it
  msdkReady,      \* the Pilot's connection.msdk is "ready"
  executable      \* the selected route is an upload candidate

consoleVars == <<present, listed, chosen, cleared, workspace, lane, msdkReady, executable>>

Pages == {"devices", "routes", "flight", "monitor"}

ConsoleTypeOK ==
  /\ {present, listed} \subseteq SUBSET Handset /\ chosen \in Handset \cup {Nobody}
  /\ {cleared, msdkReady, executable} \subseteq BOOLEAN
  /\ workspace \in Pages /\ lane \in Machine

\* resolveSelection(): a phone that is gone clears the selection; with nothing
\* selected and one phone in the list, that phone is it.
ResolveSelection(devices, selected) ==
  CASE selected \in devices -> selected
    [] selected # Nobody /\ selected \notin devices -> Nobody
    [] OTHER -> IF Cardinality(devices) = 1 THEN CHOOSE d \in devices : TRUE ELSE Nobody

Project(devices) ==
  /\ chosen' = ResolveSelection(devices, chosen)
  /\ cleared' = (cleared \/ (chosen # Nobody /\ chosen \notin devices))

-----------------------------------------------------------------------------
(* evaluate()                                                              *)

MissionActions == {"stage", "upload", "start", "pause", "resume", "stop"}

\* workspaceOf(): the monitor page evaluates as the flight page does.
OnFlightPage == workspace \in {"flight", "monitor"}

\* flightDevice() accepts and the device is the Pilot.
PilotIsShown == OnFlightPage /\ chosen = Pilot /\ Pilot \in listed

\* The phases each action asks for.
StopNotWhileStopping ==   \* mutant: a stop that is under way cannot be repeated
  [stage  |-> {"idle", "completed", "failed", "disconnected"},
   upload |-> {"staged"},
   start  |-> {"uploaded", "starting", "pausing", "resuming"},
   pause  |-> {"running", "starting"},
   resume |-> {"paused"},
   stop   |-> {"starting", "running", "pausing", "paused", "resuming", "disconnected"}]
PhasesFor ==
  [stage  |-> {"idle", "completed", "failed", "disconnected"},
   upload |-> {"staged"},
   start  |-> {"uploaded", "starting", "pausing", "resuming"},
   pause  |-> {"running", "starting"},
   resume |-> {"paused"},
   stop   |-> {"starting", "running", "pausing", "paused", "resuming", "stopping",
               "disconnected"}]

\* missionActionsOf(): staging needs a route the plane can take, not the MSDK.
Enabled(action) ==
  /\ PilotIsShown
  /\ lane.phase \in PhasesFor[action]
  /\ IF action = "stage" THEN executable ELSE msdkReady

-----------------------------------------------------------------------------
ConsoleInit ==
  /\ present = {} /\ listed = {} /\ chosen = Nobody /\ cleared = FALSE
  /\ workspace = "devices" /\ lane = IdleMachine
  /\ msdkReady = FALSE /\ executable = FALSE

PhoneComes == \E d \in Handset \ present :
  present' = present \cup {d} /\ UNCHANGED <<listed, chosen, cleared, workspace, lane, msdkReady, executable>>
PhoneGoes == \E d \in present :
  /\ present' = present \ {d}
  /\ lane' = IF d = Pilot THEN Transition(lane, "connection-lost", NoMission) ELSE lane
  /\ msdkReady' = (d # Pilot /\ msdkReady)
  /\ UNCHANGED <<listed, chosen, cleared, workspace, executable>>

\* refreshData(): the snapshot is taken and projected.
Fetch == listed' = present /\ Project(present) /\ UNCHANGED <<present, workspace, lane, msdkReady, executable>>
\* paintOnce()
PaintOnce == Project(listed) /\ UNCHANGED <<present, listed, workspace, lane, msdkReady, executable>>

\* A select of the flight page, or a row of the devices page, is used.
Pick == \E d \in listed \cup {Nobody} :
  /\ d # chosen /\ chosen' = d /\ cleared' = FALSE
  /\ UNCHANGED <<present, listed, workspace, lane, msdkReady, executable>>
OpenPage == \E page \in Pages \ {workspace} :
  workspace' = page /\ UNCHANGED <<present, listed, chosen, cleared, lane, msdkReady, executable>>

\* The lane and the facts of the Pilot move at the station.
LaneEvents == {"stage-succeeded", "upload-requested", "upload-succeeded", "start-requested",
  "start-succeeded", "pause-requested", "pause-succeeded", "resume-requested", "resume-succeeded",
  "stop-requested", "stop-succeeded", "stop-rejected", "mission-completed", "operation-failed"}
LaneMovesOn ==
  /\ Pilot \in present
  /\ \/ \E event \in LaneEvents : lane' = Transition(lane, event, lane.missionId)
     \/ lane' = Transition(lane, "stage-requested", 1)
  /\ lane' # lane
  /\ UNCHANGED <<present, listed, chosen, cleared, workspace, msdkReady, executable>>
SdkChanges == Pilot \in present /\ msdkReady' = ~msdkReady
  /\ UNCHANGED <<present, listed, chosen, cleared, workspace, lane, executable>>
RouteChanges == executable' = ~executable
  /\ UNCHANGED <<present, listed, chosen, cleared, workspace, lane, msdkReady>>

ConsoleNext ==
  \/ PhoneComes \/ PhoneGoes \/ Fetch \/ PaintOnce \/ Pick \/ OpenPage
  \/ LaneMovesOn \/ SdkChanges \/ RouteChanges

ConsoleSpec == ConsoleInit /\ [][ConsoleNext]_consoleVars

-----------------------------------------------------------------------------
(* Properties.                                                             *)

EventOf(action) == [stage |-> "stage-requested", upload |-> "upload-requested",
  start |-> "start-requested", pause |-> "pause-requested", resume |-> "resume-requested",
  stop |-> "stop-requested"][action]

\* The console's list of phases per button and the mission machine's transitions
\* are kept apart; for the phone that is shown a button is enabled exactly when
\* the machine takes the request and the fact it needs is there.  A stop stays
\* offered through every phase the plane may be flying the route in.
ButtonsMatchTheLane ==
  \A action \in MissionActions :
    Enabled(action) <=>
      /\ PilotIsShown /\ Legal(lane, EventOf(action), lane.missionId)
      /\ IF action = "stage" THEN executable ELSE msdkReady

\* CONTRACT: a selected phone that went offline is cleared and the selection must
\* not move to another one.
ClearedIsNotMoved == cleared => chosen = Nobody
=============================================================================
