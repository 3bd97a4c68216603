----------------------------- MODULE DeviceLinks -----------------------------
(***************************************************************************)
(* What one phone's report of its links becomes, and what the parts of the *)
(* station that judge it answer: the adapter's projection, the workflow's  *)
(* snapshot, the capability gate and the readiness check that guard the    *)
(* commands, the link chain and its guidance, the console's own checks and *)
(* the stream buttons of both pages.  They are separate readings of the    *)
(* same few enumerations, each with its own idea of a missing one.         *)
(***************************************************************************)
EXTENDS Naturals

CONSTANTS
  Availability,   \* the sdkAvailability values told, Missing among them
  LinkState       \* the link states told, Missing among them

Missing == "missing"

DeviceLinksAssumption ==
  /\ Missing \in Availability \cap LinkState
  /\ Availability \subseteq {"STOPPED", "STARTING", "READY", "FAILED", Missing}
  /\ LinkState \subseteq {"CONNECTED", "DISCONNECTED", "UNKNOWN", Missing}

VARIABLES
  joined,         \* the relay has the phone's session
  report,         \* its latest payload, told or not yet
  lanWorks,       \* the desktop's address and media service
  streamLane,     \* the stream dispatcher's lane for the phone
  pathPhase,      \* the media pipeline's phase of its stream
  holdCleared     \* monitorStreamHoldCleared

deviceLinksVars == <<joined, report, lanWorks, streamLane, pathPhase, holdCleared>>

Links == {"remoteController", "flightController", "airLink", "camera"}
SourceGone == "sourceGone"   \* failed with SOURCE_UNAVAILABLE

DeviceLinksTypeOK ==
  /\ {joined, lanWorks, holdCleared, report.told, report.streaming} \subseteq BOOLEAN
  /\ report.sdk \in Availability /\ \A link \in Links : report[link] \in LinkState
  /\ streamLane \in {"idle", "starting", "streaming", "stopping", "failed", SourceGone}
  /\ pathPhase \in {"unavailable", "awaiting-ingest", "ready", "failed"}

-----------------------------------------------------------------------------
(* The report as the workflow hands it on.                                 *)

\* projectDeviceFacts() derives the older Booleans from the enumerations.
Derived(state) == CASE state = "CONNECTED" -> "true" [] state = "DISCONNECTED" -> "false"
                    [] OTHER -> Missing

Payload(r) ==
  [sdkAvailability |-> r.sdk,
   sdkRegistered   |-> CASE r.sdk = Missing -> Missing [] r.sdk = "READY" -> "true"
                        [] OTHER -> "false",
   remoteController |-> r.remoteController, flightController |-> r.flightController,
   airLink |-> r.airLink, camera |-> r.camera,
   remoteControllerConnected |-> Derived(r.remoteController),
   flightControllerConnected |-> Derived(r.flightController)]

Unknowing == [told |-> FALSE, sdk |-> Missing, streaming |-> FALSE, remoteController |-> Missing,
              flightController |-> Missing, airLink |-> Missing, camera |-> Missing]
EmptyPayload == Payload(Unknowing)
Facts == Payload(report)

\* completeDeviceFact(): what counts as control telemetry.
ControlFacts ==
  IF Missing \in {Facts.sdkAvailability, Facts.remoteController, Facts.flightController}
  THEN EmptyPayload ELSE Facts

\* linkState() and msdkState() of the snapshot: the value, unknown when missing.
Shown(value) == IF value = Missing THEN "UNKNOWN" ELSE value
Connection ==
  [relay |-> "online", msdk |-> Shown(Facts.sdkAvailability),
   airLink |-> Shown(Facts.airLink), camera |-> Shown(Facts.camera)]
Control ==
  [sdk |-> ControlFacts.sdkRegistered,
   remoteController |-> Shown(ControlFacts.remoteController),
   flightController |-> Shown(ControlFacts.flightController)]

-----------------------------------------------------------------------------
(* The judges.                                                             *)

SdkReady(p) == IF p.sdkAvailability = Missing THEN p.sdkRegistered = "true"
                                              ELSE p.sdkAvailability = "READY"
LinkIs(state, derived, flag, name) == state = name \/ (state = Missing /\ derived = flag)
Up(state, derived) == LinkIs(state, derived, "true", "CONNECTED")
Down(state, derived) == LinkIs(state, derived, "false", "DISCONNECTED")

\* CapabilityGate.evaluate(): is the operation enabled?
GateOnlyReady(operation, relay, p) ==   \* mutant: the video source is not asked for
  relay /\ SdkReady(p)
Gate(operation, relay, p) ==
  /\ relay /\ SdkReady(p)
  /\ operation = "live-stream" => p.airLink = "CONNECTED" /\ p.camera = "CONNECTED"
  /\ operation = "pairing" =>
       /\ Up(p.remoteController, p.remoteControllerConnected)
       /\ Down(p.flightController, p.flightControllerConnected)

\* HardwareReadiness.evaluate(): no blocker.
Readiness(target, relay, p) ==
  CASE target = "legacy-video" -> lanWorks
    [] target = "flight-control" -> relay /\ SdkReady(p)

\* LinkChain.evaluate()
Chain(relay, p) ==
  LET status(state, derived) == IF Up(state, derived) THEN "connected"
                                ELSE IF Down(state, derived) THEN "disconnected" ELSE "unknown"
      remote == IF relay /\ SdkReady(p)
                THEN status(p.remoteController, p.remoteControllerConnected) ELSE "unknown"
      aircraft == IF remote = "connected"
                  THEN status(p.flightController, p.flightControllerConnected) ELSE "unknown"
  IN [overall |-> IF ~relay THEN "offline" ELSE IF aircraft = "connected" THEN "ready"
                  ELSE "degraded",
      phone |-> IF relay THEN "connected" ELSE "disconnected",
      remote |-> remote, aircraft |-> aircraft]

\* hasConsistentStates(): DeviceGuidance refuses any other chain.
Consistent(chain) ==
  CASE chain.phone = "disconnected" ->
         chain.overall = "offline" /\ chain.remote = "unknown" /\ chain.aircraft = "unknown"
    [] chain.phone = "connected" /\ chain.remote # "connected" ->
         chain.overall = "degraded" /\ chain.aircraft = "unknown"
    [] OTHER -> chain.overall = IF chain.aircraft = "connected" THEN "ready" ELSE "degraded"

\* DeviceGuidance.evaluate()
Guidance(chain) ==
  IF ~Consistent(chain) THEN "INVALID_INPUT"
  ELSE IF chain.phone = "disconnected" THEN "CONNECT_PHONE"
  ELSE IF chain.remote = "disconnected" THEN "CONNECT_REMOTE_CONTROLLER"
  ELSE IF chain.aircraft = "connected" THEN "READY"
  ELSE IF chain.aircraft = "disconnected" THEN "CONNECT_AIRCRAFT" ELSE "WAIT_FOR_SDK"

\* telemetryBits() of a connection, as the console rebuilds telemetry from it.
Bits(msdk, remote, flight) ==
  [EmptyPayload EXCEPT !.sdkAvailability = IF msdk = "UNKNOWN" THEN Missing ELSE msdk,
     !.remoteController = IF remote = "UNKNOWN" THEN Missing ELSE remote,
     !.flightController = IF flight = "UNKNOWN" THEN Missing ELSE flight]

\* guidanceOf(): the chain of controlConnection(), the snapshot's control record,
\* which has neither a relay nor an msdk field.
ConsoleGuidance ==
  LET field(name) == IF name \in DOMAIN Control THEN Control[name] ELSE "UNKNOWN"
  IN Guidance(Chain(field("relay") = "online",
                    Bits(field("msdk"), field("remoteController"), field("flightController"))))

\* msdkInvocationIssue() and streamStartIssueOf() find nothing.
NoInvocationIssue == Connection.msdk = "READY"
NoStreamIssue ==
  NoInvocationIssue /\ Connection.airLink = "CONNECTED" /\ Connection.camera = "CONNECTED"

-----------------------------------------------------------------------------
(* The stream buttons.                                                     *)

StillStreaming == report.streaming
PathInUse == pathPhase \in {"ready", "awaiting-ingest"}

\* streamCanStartOf(), streamCanStopOf() and evaluate("stream-stop") of the flight page.
CanStart == streamLane \notin {"starting", "streaming"} /\ ~StillStreaming /\ NoStreamIssue
CanStop ==
  /\ streamLane # SourceGone
  /\ \/ StillStreaming \/ PathInUse
     \/ streamLane \in {"starting", "streaming", "stopping", "failed"}
StopAccepted == streamLane # SourceGone

\* monitorStreamToggle(): the one stream button of a tile.
ToggleForgettingTheHold ==   \* mutant: the cleared hold is not looked at
  IF streamLane # SourceGone /\ (streamLane \in {"starting", "streaming", "stopping"} \/ PathInUse)
  THEN "stop" ELSE IF NoStreamIssue THEN "start" ELSE "idle"
Toggle ==
  LET here == streamLane # SourceGone
      heldByPhone == here /\ StillStreaming /\ ~holdCleared
      session == here /\ (streamLane \in {"starting", "streaming", "stopping"} \/ PathInUse)
  IN IF heldByPhone \/ session THEN "stop" ELSE IF NoStreamIssue THEN "start" ELSE "idle"

-----------------------------------------------------------------------------
(* The phone, its lane and its path change.                                *)

DeviceLinksInit ==
  /\ joined = FALSE /\ report = Unknowing /\ lanWorks = TRUE
  /\ streamLane = "idle" /\ pathPhase = "unavailable" /\ holdCleared = FALSE

Joins == ~joined /\ joined' = TRUE /\ UNCHANGED <<report, lanWorks, streamLane, pathPhase, holdCleared>>
Leaves ==
  /\ joined /\ joined' = FALSE /\ report' = Unknowing
  /\ streamLane' = "idle" /\ pathPhase' = "unavailable"
  /\ UNCHANGED <<lanWorks, holdCleared>>
Reports ==
  /\ joined
  /\ LET last == [report EXCEPT !.told = TRUE]
     IN \/ \E sdk \in Availability : report' = [last EXCEPT !.sdk = sdk]
        \/ \E link \in Links, state \in LinkState : report' = [last EXCEPT ![link] = state]
        \/ report' = [last EXCEPT !.streaming = ~last.streaming]
  /\ UNCHANGED <<joined, lanWorks, streamLane, pathPhase, holdCleared>>
\* paintMonitorStreamButton(): a phone that no longer streams holds nothing, and
\* a stop answered by the phone clears its hold.
TilePainted ==
  /\ joined /\ ~StillStreaming /\ holdCleared' = FALSE
  /\ UNCHANGED <<joined, report, lanWorks, streamLane, pathPhase>>
TileStopped ==
  /\ joined /\ Toggle = "stop" /\ holdCleared' = TRUE /\ streamLane' \in {"idle", "failed"}
  /\ UNCHANGED <<joined, report, lanWorks, pathPhase>>
LaneMoves ==
  /\ joined
  /\ \/ streamLane' = "starting" /\ streamLane # "starting" /\ NoStreamIssue
     \/ streamLane = "starting" /\ streamLane' \in {"streaming", "failed"}
     \/ streamLane \in {"streaming", "failed"} /\ streamLane' = "stopping"
     \/ streamLane = "stopping" /\ streamLane' \in {"idle", "failed"}
     \/ streamLane \in {"starting", "streaming"} /\ streamLane' = SourceGone
  /\ UNCHANGED <<joined, report, lanWorks, pathPhase, holdCleared>>
PathMoves ==
  /\ joined /\ pathPhase' \in {"unavailable", "awaiting-ingest", "ready", "failed"} \ {pathPhase}
  /\ streamLane \in {"starting", "streaming"} \/ pathPhase' \in {"unavailable", "failed"}
  /\ UNCHANGED <<joined, report, lanWorks, streamLane, holdCleared>>
LanChanges == lanWorks' = ~lanWorks /\ UNCHANGED <<joined, report, streamLane, pathPhase, holdCleared>>

DeviceLinksNext ==
  Joins \/ Leaves \/ Reports \/ TilePainted \/ TileStopped \/ LaneMoves \/ PathMoves \/ LanChanges

DeviceLinksSpec == DeviceLinksInit /\ [][DeviceLinksNext]_deviceLinksVars
                     /\ WF_deviceLinksVars(Joins)

-----------------------------------------------------------------------------
(* Properties.                                                             *)

\* The command gate, the readiness check and the console's buttons read the same
\* report separately, and always come to the same verdict: no button is enabled
\* for a command the station's own gate refuses, nor greyed out for one it takes.
\* The guidance made from the same facts agrees with them too, and the pairing
\* the gate allows is exactly the case it answers with CONNECT_AIRCRAFT.
VerdictsAgree ==
  joined =>
    /\ Gate("direct-flight", report.told, Facts) <=> Readiness("flight-control", joined, Facts)
    /\ Gate("direct-flight", report.told, Facts) <=> NoInvocationIssue
    /\ Gate("live-stream", report.told, Facts) <=> NoStreamIssue
    /\ Gate("pairing", joined, Facts) <=> Guidance(Chain(joined, Facts)) = "CONNECT_AIRCRAFT"
    /\ Guidance(Chain(joined, Facts)) # "INVALID_INPUT"
    /\ Guidance(Chain(joined, Facts)) = "READY" => NoInvocationIssue

\* A phone that streams can be told to stop from the tile until it was told so
\* once or its source is gone, and neither page offers to start a stream the gate
\* would refuse or to stop one the console would refuse to stop.
StreamButtonsAreHonest ==
  joined =>
    /\ StillStreaming /\ ~holdCleared /\ streamLane # SourceGone => Toggle = "stop" /\ CanStop
    /\ Toggle = "start" \/ CanStart => Gate("live-stream", joined, Facts)
    /\ Toggle = "stop" \/ CanStop => StopAccepted
    /\ CanStop /\ Toggle # "stop" => streamLane = "failed" \/ StillStreaming

\* device-guidance's CONTRACT and link-chain's: CONNECT_PHONE is for a phone that
\* is not connected to the computer.
OnlineIsNotToldToConnect == joined => ConsoleGuidance # "CONNECT_PHONE"
=============================================================================
