------------------------------ MODULE MCConsole -------------------------------
(***************************************************************************)
(* What the operator sees and keeps, on small instances.  The parts do not *)
(* share state, so a behaviour moves one of them and leaves the others as  *)
(* they begin.  Variables of two parts that have one name get two names.   *)
(***************************************************************************)
EXTENDS Naturals, TLC

CONSTANTS
  p, q, NoOne, a, b, MaxRoutes, MaxIngests, MaxImports, MaxGraces, MaxVersions, MaxFrames, MaxWire,
  Armable, Single, MaxArmClicks, MaxTurns, MaxNotices, Availability, LinkState,
  PhoneMission, DjiMission, MaxClicks, MaxEpochs, MaxFailures, MaxPhotos,
  MaxDepth, MaxTokens, MaxChunk, MaxEvents, MaxExtra, Counts,
  LinkValue, PlainValue, InterruptCode, InterruptDescription, MaxSnapshots, Undefined, Refused, MaxSaves, MaxWaiting
Phone == {p, q}
Content == {a, b}
Qualified == {a}
Files == {a, b, "not qualified"}     \* two routes that can be assigned, and one that cannot
Edit(listen, relay, host) == [listen |-> listen, relay |-> relay, host |-> host]
NetworkEdit == {Edit(65535, 1024, "lan with leading zeros"), Edit(1023, Undefined, "lan"),
                Edit(Undefined, Undefined, "public")}
MapEdit == {[basemap |-> "tianditu-image", credential |-> "key with blanks around"],
            [basemap |-> "osm", credential |-> Undefined]}

VARIABLE part
\* Workflow, and RouteDesk over a catalog of its own behaviours
VARIABLES routes, selected, routeIds, ingests, present, assignments, grace, epochs, missions,
          selectedRoute, selectedVideo, ready
VARIABLES imports, desk, pickers, previewed, deskBehind, draft, plan, drawn, planBehind, map
\* Observations
VARIABLES modern, reporter, answering, wire, relaySession, latest, observation, telemetryRead
\* ArmPanel
VARIABLES turnedTo, armed, armTimer, held, noticed, atStation, lapsed, clicks, handlers, sent,
          turns, notices
\* DeviceLinks, OperatorConsole, AircraftStatus
VARIABLES joined, report, lanWorks, streamLane, pathPhase, holdCleared
VARIABLES online, listed, chosen, cleared, workspace, lane, msdkReady, executable
VARIABLES plane, missionPhase, routeStarted, landingIntent
\* Receipts
VARIABLES attached, epoch, view, presses, action, shown, open, queued, behind, marked, handset,
          fetched, failures, receipts
\* FrameCodec, IncidentWatch
VARIABLES stage, frame, text, composed, forwarded
VARIABLES seen, paired, logged, waiting, wayline, written
\* LocalSettings: the store, and the panel of a phone's settings
VARIABLES current, disk, waits, saves, captures, answered, restarted
VARIABLES panel, asked, told, pairing

Workflow == INSTANCE Workflow WITH Content <- Files, Qualified <- Content, Device <- Phone,
                                   NoDevice <- NoOne, MaxEpochs <- MaxGraces
Desk == INSTANCE RouteDesk WITH ingests <- imports, MaxIngests <- MaxImports
Observed == INSTANCE Observations WITH phone <- reporter
Arm == INSTANCE ArmPanel WITH MaxClicks <- MaxArmClicks
Links == INSTANCE DeviceLinks
Console == INSTANCE OperatorConsole WITH Handset <- Phone, Pilot <- p, Nobody <- NoOne,
                                         present <- online
Aircraft == INSTANCE AircraftStatus
Receipt == INSTANCE Receipts WITH online <- attached, clicks <- presses, phone <- handset
Codec == INSTANCE FrameCodec
Watch == INSTANCE IncidentWatch
Settings == INSTANCE LocalSettings WITH turns <- waits, Setting <- {a}

ASSUME ConsoleHolds ==
  /\ Workflow!CatalogAssumption /\ Workflow!WorkflowAssumption /\ Desk!CatalogAssumption
  /\ Observed!ObservationAssumption /\ Arm!ArmPanelAssumption /\ Links!DeviceLinksAssumption
  /\ Console!ConsoleAssumption /\ Aircraft!AircraftAssumption /\ Receipt!ReceiptsAssumption
  /\ Codec!CodecAssumption /\ Watch!WatchAssumption /\ Settings!SettingsAssumption

catalog == <<routes, selected, routeIds, ingests>>
phones == <<present, assignments, grace, epochs, missions, selectedRoute, selectedVideo, ready>>
desks == <<imports, desk, pickers, previewed, deskBehind, draft, plan, drawn, planBehind, map>>
observed == <<modern, reporter, answering, wire, relaySession, latest, observation, telemetryRead>>
arm == <<turnedTo, armed, armTimer, held, noticed, atStation, lapsed, clicks, handlers, sent,
         turns, notices>>
links == <<joined, report, lanWorks, streamLane, pathPhase, holdCleared>>
console == <<online, listed, chosen, cleared, workspace, lane, msdkReady, executable>>
aircraft == <<plane, missionPhase, routeStarted, landingIntent>>
receipt == <<attached, epoch, view, presses, action, shown, open, queued, behind, marked, handset,
             fetched, failures, receipts>>
codec == <<stage, frame, text, composed, forwarded>>
watch == <<seen, paired, logged, waiting, wayline, written>>
store == <<current, disk, waits, saves, captures, answered, restarted>>
asking == <<panel, asked, told, pairing>>
consoleRunVars ==
  <<part, catalog, phones, desks, observed, arm, links, console, aircraft, receipt, codec, watch,
    store, asking>>

\* The parts begin as their modules say; of those with a choice, the ones that rest take one.
PartsInit ==
  /\ Desk!RouteDeskInit /\ Workflow!WorkflowInit /\ Links!DeviceLinksInit /\ Console!ConsoleInit
  /\ Aircraft!AircraftInit /\ Receipt!ReceiptsInit /\ Watch!WatchInit /\ Settings!PanelInit
  /\ Observed!ObservationsInit /\ (part # "observations" => modern = FALSE)
  /\ Arm!ArmPanelInit /\ turnedTo = p     \* the phones are alike
  /\ Settings!StoreInit
  /\ part # "store" => disk.document.version = "missing"
  /\ IF part = "codec" THEN Codec!CodecInit
     ELSE /\ stage = "rejected" /\ frame = Codec!NoFrame /\ text = Codec!NoFrame
          /\ composed = Codec!NoFrame /\ forwarded = FALSE

\* A landing and the mission lane meet in no formula of AircraftStatus, nor do the three desks
\* of RouteDesk, nor the routes and the video of Workflow, nor the facts and the interrupts of
\* IncidentWatch: each is a part of its own.
Workflows == {"workflow", "video"}
Parts == Workflows \cup
         {"desk", "plan", "map", "observations", "arm", "links", "console", "landing",
          "flying", "receipts", "codec", "watch", "interrupts", "store", "panel"}
Init == part \in Parts /\ PartsInit

Next ==
  /\ UNCHANGED part
  /\ \/ /\ part \in Workflows /\ Workflow!WorkflowNext
        /\ part = "workflow" => ready' = {}
        /\ part = "video" => UNCHANGED catalog
        /\ UNCHANGED <<desks, observed, arm, links, console, aircraft,
                       receipt, codec, watch, store, asking>>
     \/ /\ \/ part = "desk" /\ Desk!DeskNext
           \/ part = "plan" /\ Desk!PlanNext
           \/ part = "map" /\ Desk!GeoMapNext
        /\ UNCHANGED <<ingests, phones, observed, arm, links, console, aircraft,
                       receipt, codec, watch, store, asking>>
     \/ /\ part = "observations" /\ Observed!ObservationsNext
        /\ UNCHANGED <<catalog, phones, desks, arm, links, console, aircraft,
                       receipt, codec, watch, store, asking>>
     \/ /\ part = "arm" /\ Arm!ArmPanelNext
        /\ UNCHANGED <<catalog, phones, desks, observed, links, console, aircraft,
                       receipt, codec, watch, store, asking>>
     \/ /\ part = "links" /\ Links!DeviceLinksNext
        /\ UNCHANGED <<catalog, phones, desks, observed, arm, console, aircraft,
                       receipt, codec, watch, store, asking>>
     \/ /\ part = "console" /\ Console!ConsoleNext
        /\ UNCHANGED <<catalog, phones, desks, observed, arm, links, aircraft,
                       receipt, codec, watch, store, asking>>
     \/ /\ \/ part = "landing" /\ (Aircraft!Observes \/ Aircraft!FlightActionDone)
           \/ part = "flying" /\ (Aircraft!Observes \/ Aircraft!LaneAdvances)
        /\ UNCHANGED <<catalog, phones, desks, observed, arm, links, console,
                       receipt, codec, watch, store, asking>>
     \/ /\ part = "receipts" /\ Receipt!ReceiptsNext
        /\ UNCHANGED <<catalog, phones, desks, observed, arm, links, console,
                       aircraft, codec, watch, store, asking>>
     \/ /\ part = "codec" /\ Codec!CodecNext
        /\ UNCHANGED <<catalog, phones, desks, observed, arm, links, console,
                       aircraft, receipt, watch, store, asking>>
     \/ /\ \/ part = "watch" /\ Watch!WatchNext /\ wayline' = wayline
           \/ part = "interrupts" /\ Watch!WatchNext /\ logged' = logged /\ waiting' = waiting
        /\ UNCHANGED <<catalog, phones, desks, observed, arm, links, console,
                       aircraft, receipt, codec, store, asking>>
     \/ /\ part = "store" /\ Settings!StoreNext
        /\ UNCHANGED <<catalog, phones, desks, observed, arm, links, console,
                       aircraft, receipt, codec, watch, asking>>
     \/ /\ part = "panel" /\ Settings!PanelNext
        /\ UNCHANGED <<catalog, phones, desks, observed, arm, links, console,
                       aircraft, receipt, codec, watch, store>>

Spec == Init /\ [][Next]_consoleRunVars

\* What is selected exists, and a phone keeps the route assigned to it while it is in reach,
\* whatever the catalog, the phones and the missions do: route-library and operation-workflow.
SelectionsStand == part \in Workflows => Workflow!SelectionsExist /\ Workflow!AssignmentsAreKept

\* A confirmation goes out once, for the action and the phone it was clicked for, and an
\* armed button is one a timer will disarm: the handlers of the flight buttons in main.ts.
ClicksGoOutAsMade == part = "arm" => Arm!SentAsClicked /\ Arm!ArmedIsTimed

\* What a phone is seen to report goes back in one case only, the answer to a read that was
\* asked while no frame was shown; every frame is known at once: admit, admitTelemetryRead and
\* refreshTelemetry of relay-operations-adapter.  And a phone keeps the route of a mission that
\* runs, unless it is lost: operation-workflow.
FactsAndRoutesHold == Observed!ObservationsMoveOn /\ Workflow!RouteIsNotChangedInFlight

\* Buttons, verdicts and receipts of the page say what the phone, the lanes and DJI are at:
\* the projections of operator-console and device-console, and operation-feedback.
PageTellsTheFacts ==
  /\ part = "links" => Links!VerdictsAgree /\ Links!StreamButtonsAreHonest
  /\ part = "console" => Console!ButtonsMatchTheLane
  /\ part \in {"landing", "flying"} => Aircraft!HoverStopsWhatIsShown
  /\ part = "receipts" => Receipt!ReceiptsAreHonest

\* What is saved, sent, drawn or written down is what was meant: settings come back as they
\* were saved, frames as they were sent, the map shows the routes and the plan of the desks,
\* and the journal pairs and unpairs as the snapshots did, and tells the last of what they told.
KeptAsMeant ==
  /\ part = "store" => Settings!SavedComesBack
  /\ part = "panel" => Settings!AnswersKeepToTheirDomain
  /\ part = "codec" => Codec!FramesSurvive
  /\ part \in {"desk", "plan", "map"} => Desk!WhatIsSaidIsDrawn
  /\ part \in {"watch", "interrupts"} => Watch!JournalTellsWhatHappened

\* operator-console/CONTRACT.md:71: a selection that was cleared because its phone left is not
\* moved to another phone.
ClearedIsNotMoved == Console!ClearedIsNotMoved

\* relay-operations-adapter/CONTRACT.md:109: an answer to telemetry.read never puts an older
\* state in the place of what a later frame told.
ReadsKeepFrames == Observed!ReadsKeepFrames

\* protocol-core/CONTRACT.md: encode refuses what exceeds the limits, as decode does.
EncodedIsDecodable == Codec!EncodedIsDecodable
=============================================================================
