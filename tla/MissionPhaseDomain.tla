------------------------- MODULE MissionPhaseDomain -------------------------
(***************************************************************************)
(* The pure state machine behind one mission lane                          *)
(* (src/modules/mission-control/mission-phase-domain).  A machine is a     *)
(* record: the public phase and mission id, and the three variables the    *)
(* closure of create() hides (stoppedFrom, pausedFrom, startRetry).        *)
(* Texts are not modelled: the failure code accompanies "failed" and       *)
(* nothing reads it back, mission ids are numbers and 0 is null.           *)
(***************************************************************************)
EXTENDS Integers

NoMission == 0
None == "none"

MissionPhases ==
  {"idle", "staging", "staged", "uploading", "uploaded", "starting", "running",
   "pausing", "paused", "resuming", "stopping", "completed", "failed",
   "disconnected"}

STAGEABLE == {"idle", "completed", "failed", "disconnected"}

DISCONNECTABLE ==
  {"staging", "staged", "uploading", "uploaded", "starting", "running",
   "pausing", "paused", "resuming", "stopping"}

FAILUREABLE ==
  {"staging", "uploading", "starting", "running", "pausing", "paused",
   "resuming", "stopping", "disconnected"}

STOPPABLE ==
  {"starting", "running", "pausing", "paused", "resuming", "stopping",
   "disconnected"}

Machine ==
  [phase       : MissionPhases,
   missionId   : Nat,
   stoppedFrom : STOPPABLE \cup {None},
   pausedFrom  : {"starting", "running", None},
   startRetry  : BOOLEAN]

\* What create() returns and what the "reset" event restores.
IdleMachine ==
  [phase |-> "idle", missionId |-> NoMission, stoppedFrom |-> None,
   pausedFrom |-> None, startRetry |-> FALSE]

\* The phases in which the machine accepts an event.
LegalFrom(event) ==
  CASE event = "stage-requested"   -> STAGEABLE
    [] event = "stage-succeeded"   -> {"staging"}
    [] event = "upload-requested"  -> {"staged"}
    [] event = "upload-succeeded"  -> {"uploading"}
    [] event = "upload-rejected"   -> {"uploading"}
    [] event = "start-requested"   -> {"uploaded", "starting", "pausing", "resuming"}
    [] event = "start-succeeded"   -> {"starting"}
    [] event = "start-rejected"    -> {"starting"}
    [] event = "pause-requested"   -> {"running", "starting"}
    [] event = "pause-succeeded"   -> {"pausing"}
    [] event = "pause-rejected"    -> {"pausing"}
    [] event = "resume-requested"  -> {"paused"}
    [] event = "resume-succeeded"  -> {"resuming"}
    [] event = "resume-rejected"   -> {"resuming"}
    [] event = "stop-requested"    -> STOPPABLE
    [] event = "stop-succeeded"    -> {"stopping"}
    [] event = "stop-rejected"     -> {"stopping"}
    [] event = "mission-completed" -> {"starting", "running", "disconnected"}
    [] event = "operation-failed"  -> FAILUREABLE
    [] event = "connection-lost"   -> DISCONNECTABLE
    [] OTHER                       -> {}

\* transition() answers ok: the phase accepts the event, a stage confirmation
\* names the mission being staged, a rejected stop knows where it came from.
Legal(machine, event, mission) ==
  /\ machine.phase \in LegalFrom(event)
  /\ event # "stage-requested" => machine.missionId # NoMission
  /\ event = "stage-succeeded" => mission = machine.missionId
  /\ event = "stop-rejected" => machine.stoppedFrom # None

\* Ending a mission, or losing its phone, forgets where a stop or a repeated
\* start came from; where a pause came from is left as it was.
Ended(machine, phase) ==
  [machine EXCEPT !.phase = phase, !.stoppedFrom = None, !.startRetry = FALSE]

Successor(machine, event, mission) ==
  CASE event = "stage-requested" ->
         [Ended(machine, "staging") EXCEPT !.missionId = mission]
    [] event = "stage-succeeded" -> [machine EXCEPT !.phase = "staged"]
    [] event = "upload-requested" -> [machine EXCEPT !.phase = "uploading"]
    [] event = "upload-succeeded" -> [machine EXCEPT !.phase = "uploaded"]
    [] event = "upload-rejected" -> [machine EXCEPT !.phase = "staged"]
    [] event = "start-requested" ->
         [machine EXCEPT !.phase = "starting",
                         !.startRetry = machine.phase # "uploaded"]
    [] event = "start-succeeded" -> [machine EXCEPT !.phase = "running"]
    [] event = "start-rejected" ->
         [machine EXCEPT !.phase = IF machine.startRetry THEN "starting"
                                                         ELSE "uploaded"]
    [] event = "pause-requested" ->
         [machine EXCEPT !.phase = "pausing", !.pausedFrom = machine.phase]
    [] event = "pause-succeeded" ->
         [machine EXCEPT !.phase = "paused", !.pausedFrom = None]
    [] event = "pause-rejected" ->
         [machine EXCEPT !.phase = IF machine.pausedFrom = "starting"
                                   THEN "starting" ELSE "running",
                         !.pausedFrom = None]
    [] event = "resume-requested" -> [machine EXCEPT !.phase = "resuming"]
    [] event = "resume-succeeded" -> [machine EXCEPT !.phase = "running"]
    [] event = "resume-rejected" -> [machine EXCEPT !.phase = "paused"]
    [] event = "stop-requested" ->
         [machine EXCEPT !.phase = "stopping", !.stoppedFrom = machine.phase]
    [] event = "stop-succeeded" ->
         [Ended(machine, "idle") EXCEPT !.missionId = NoMission]
    [] event = "stop-rejected" ->
         [machine EXCEPT !.phase = machine.stoppedFrom, !.stoppedFrom = None]
    [] event = "mission-completed" -> Ended(machine, "completed")
    [] event = "operation-failed" -> Ended(machine, "failed")
    [] event = "connection-lost" -> Ended(machine, "disconnected")

\* transition(): an event the machine does not accept leaves it alone.
Transition(machine, event, mission) ==
  IF Legal(machine, event, mission) THEN Successor(machine, event, mission)
                                    ELSE machine
=============================================================================
