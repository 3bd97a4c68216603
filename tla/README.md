# Sky Command: verification project

Sky Command is an Electron ground station (TypeScript, `src/src`) that flies DJI
drones through the operators' phones: each phone runs a companion app and keeps a
WebSocket to the station.  This directory holds TLA+ models of its core, TLC
configurations that check them on small instances, and proofs of most of their
safety properties for every instance.

Everything in the station runs on one JavaScript thread.  A step of a model is
therefore what runs between two awaits: a call up to its first await, a
continuation, a timer, a transport callback, including everything that is
published synchronously on the way.  What interleaves is what is awaited.

## The system

| Part (under `src/src`) | State it keeps | What is hard | Model |
|---|---|---|---|
| `relay-link/relay-server` | server state, listener, connections with phase, reserved identity, two queues of 16 | replacement during the handshake, capacity, queues at their limit, stop racing start | `RelayServer` |
| `relay-link` with `device-registry`, `command-tracker`, `mission-sender`, `telemetry-intake`, `mission-phase-intake` | devices, pending commands and missions with their sending loops, last facts | answers after a replacement, loops suspended on a send, timeouts | `RelayLink`, `RelayGateway` |
| `relay-link/media-intake`, diagnostic queue of `relay-link`, `node-diagnostic-store`, `photo-inbox` | the photo being received, reports queued, keys written | loss between two chunks, a write that ends after its session, an acknowledgement lost | `PhoneUploads` |
| `relay-link/protocol-core` | none: a codec | limits counted on the value and on the text | `FrameCodec` |
| `node-websocket-relay` | one socket with its probe and keepalive | a pong that answers the one or the other, ways to close | `SocketLink` |
| `mission-control/mission-phase-domain` | a phase machine per lane, with hidden return phases | pause or stop overtaking a start | `MissionPhaseDomain` |
| `mission-control/mission-dispatcher` | lanes: machine, busy counter, epoch, identity of the run | overlapping calls, late answers, loss and release in between | `MissionDispatcher` |
| `mission-control` | grace timers, mark of the last applied fact | reconnection within the grace period, facts repeated by every snapshot | `MissionControl` |
| `camera-photo-control` | a session per phone, photos stored | photo and answer in either order, answer after a loss, names used again | `PhotoLane` |
| `flight-control` | one pending confirmation per phone, busy flag | expiry, replacement, a loss while confirming | `FlightLane` |
| `live-stream-control` | a lane per phone, restarts queued behind a stop | loss or failure of the source while a command is awaited | `VideoLane` |
| `operation-workflow` | phones and links last seen, assignments with a grace period, selections | a loss clears every lane in the turn that answers its calls; absences and removals around assignments | `DeviceLanes`, `Workflow` |
| `relay-operations-adapter` | what is known of each phone, by session | raw frames and answers overtake each other | `Observations`, `DeviceCalls` |
| `route-library` | catalog, imports, route workspace | imports that end after others, failing halves of a synchronisation | `RouteCatalog`, `RouteDesk` |
| `route-library/importer` | what the handlers of a streaming XML parser collected so far, the entry of an archive that is expanded | contexts nested in one another, budgets reached in the middle, a cancellation between any two chunks | `RouteImporter` |
| `route-planning`, `geo-map` | the plan and its draft, what is drawn | the drawing and the plan disagree after a failure | `RouteDesk` |
| `device-console`, `hardware-readiness`, `operator-console` projections | none: verdicts on a snapshot | two verdicts on the same facts that disagree | `DeviceLinks`, `OperatorConsole`, `AircraftStatus` |
| `operator-console/action-arm`, the flight page | armed button, its timer, handlers awaiting | two clicks over one armed button and one confirmation | `ArmPanel` |
| the monitor page | tiles, one-click runs, rows of progress | a run over five awaits while other buttons act | `MonitorTiles` |
| players and refresh loop of the page | players, retry timers, the last snapshot | answers for a page that was left, a call that hangs | `Playback`, `RenderLoop` |
| `operation-feedback` | one receipt per action | which word is said of which outcome, late and queued ones | `Receipts` |
| `desktop-settings`, `device-console/device-settings-panel`, `pairing-controller`, `relay-device-settings` | settings in memory and on disk, pending requests | saves, loads and edits queued; answers that cross | `LocalSettings` |
| `electron-host/incident-journal` | a bounded queue, a batch being written; what was last told of each phone | queue full while a batch is written, flush | `IncidentJournal`, `IncidentWatch` |
| `desktop-runtime`, `desktop-application`, `app-shell`, `shutdown-sequence`, `launch` | lifecycles | dispose during start, a stage that hangs | `Station` |
| `media-pipeline` | two listeners, streams, player | failing opens and closes, sources invalidated | `MediaPipeline` |
| FLV port of `electron-host/media-ports` | what is skipped for a slow player | frames decodable after a skip | `FlvFilter` |
| `webrtc-media`, `low-latency-media`, `whip-stream-control` | MediaMTX process, sessions, WHIP lanes | exit during stop, overlapping stops and refreshes | `WebrtcMedia`, `LowLatency` |
| `desktop-shell`, `desktop-ui-gateway`, `cross-runtime-e2e`, scripts | none of their own | | not modelled |

A relay event is published synchronously by the server, handled by the relay
link, which publishes a snapshot synchronously, which mission control, the operation
workflow and the adapter apply at once.  Calls go the other way: mission control
awaits `sendCommand` and `sendMission` of the relay link through
`relay-operations-adapter`; the relay link awaits the writes of the server.  The page
lives in another process: it asks over ordered IPC and shows what it fetched last.

## Modules

**Missions.**  `MissionPhaseDomain` is a pure module: a machine is a record, `Legal` is
the table of legal events and `Successor` what each does.  `MissionDispatcher` keeps one
lane per phone and the set `flights` of calls whose answer is awaited.  An operation
is two steps, `Command` (or `Stage`) up to the await and `Settle` after it; `Release`,
`Forget` and the recorded facts are single steps.  The sets `confirmedUploads` and
`maybeFlying` are auxiliary: nothing reads them but properties.  `MissionControl` extends
it with the snapshots of the relay link, the grace timers and the phone, which is
external: it begins a mission it was told to start, passes two milestones and ends it.
`Receive` is `receiveRelaySnapshot`, applied by every event that publishes.

**Relay.**  `RelayServer` is the lifecycle and the connections; `settled` holds the sends
that are answered and whose caller has not continued.  Connection ids are used once.
`RelayLink` extends it with the stores and the sending loops; `Events` is what
`handleServerEvent` does for the connections a server step pairs or closes.
`RelayGateway` is what the relay link promises its callers, without connections: a call
addresses a phone that is there, is answered once, and no call outlives the presence
of its phone; `RelayLink!KeepsPromises` is the refinement.  `SocketLink` is one socket
beneath, `FrameCodec` what a frame goes through, `PhoneUploads` the photos and reports a
phone sends, with the phone that sends a report again until it is acknowledged; of the
events remembered beyond the limit the model leaves open which are forgotten (the oldest, in the code).

**Lanes of a phone.**  `DeviceCalls`, `VideoLane`, `PhotoLane` and `FlightLane` are what
else a phone is asked to do, composed by `DeviceLanes`.  A loss answers the calls of its
phone and records the loss in one turn, so that the calls continue after the record:
they are `late`, and run before any other turn (`Quiet`).  `Published` is the listener of
the operation workflow that runs within every publication of a video lane.

**Workflow and page.**  `Workflow` extends `RouteCatalog` with assignments, grace timers
and selections.  `Observations` has a phone whose device state changes, two ways on
which it is told, and `admit` and `admitTelemetryRead`.  An observation has two numbers: the one of
the record, which an answer leaves standing, and the one in the fact that is shown, which an
answer does not have and a later read takes as its `sequenceAtRequest`.  `DeviceLinks`, `OperatorConsole`
and `AircraftStatus` translate the projections as operators over one report or lane; the
state they have is the report, and every report comes by.  `ArmPanel` and `MonitorTiles`
keep one handler per click with the await it is at.  `Playback` and `RenderLoop` are the
timers, epochs and awaits of `main.ts` and `render-scheduler.ts`; a refresh awaits three calls at
once and then, on the page of the routes, the preview.  `Receipts` follows each
click from the page through the dispatchers' codes to the word it is given.

**Routes.**  `RouteDesk` has an import per slot of the catalog: it goes on from one await to the
next whatever the phase of the desk is by then, which a failed locate sets to ready.  `RouteImporter` reads one file: the container is looked at, the entries of an
archive are expanded one after the other within a budget, and the chosen document is read by the
handlers of the parser, one action per event (`OpenTag`, `Word`, `FieldText`, `Blank` and the
three ways to close an element).  `open` is auxiliary: it remembers in which context an
element was opened, where the code's counters only know how deep they are.

**Program.**  `Station` extends `MediaPipeline` with the runtime, the application, the
shell and the shutdown.  `LowLatency` extends `WebrtcMedia`.  `IncidentWatch` is what the
journal writes of a snapshot, `IncidentJournal` how it is queued and written.

The promise of `RelayGateway` is what the mission part assumes: `SettlesBeforeLoss` of
`MissionDispatcher` (a lane is declared lost only once what its phone is owed has
been answered) and `Settled` of `MissionControl` say it there.  With
`SettlesBeforeLoss = FALSE` TLC finds a lane that shows an upload nobody confirmed,
so the assumption is needed.

Comments that begin with *mutant* mark operators that stand for a plausible mistake; no
action uses them, and each refutes the property it is listed with in `PROJECT.json`.

## Runs

| Run | What it asks | Bounds |
|---|---|---|
| `MissionDispatcher` | busy counting, piling up, uploads, stoppability, restoration after a rejection, late answers | one phone, two missions, three calls awaited at once (a start, the pause and the stop that overtake it), one release |
| `MissionControl` | grace timers, marks and locks, who is declared lost | one phone, two missions of different routes, two runs, two milestones, two calls |
| `ControlLiveness` | absences end, executions are seen, busy lanes become free | one mission, two calls, one release |
| `RelayServer` | one place per phone and no more than there are, reconnection, nothing left by a stop | four connections of three phones for two places, a frame each way, three starts and three stops |
| `RelayLink` | registry, sends and loops, order of frames, refinement of `RelayGateway` | two connections of one phone, a command, two missions of a chunk, both queues at their limits |
| `DeviceLanes` | queued restarts, photo lanes neither stuck nor taken twice, nothing of a session in the next, photos kept, starts with a source, late answers | one phone, two sessions, two commands, two names and two digests, one confirmation, one queued restart |
| `Station` | listeners owned, sources dark once invalidated, disposal, what idles holds nothing, decodable frames and whole routes, quitting | two phones publishing, three listeners and closes that may fail, one retry of the page; a buffer of two; three MediaMTX sessions, or one beneath a WHIP lane with two commands; archives of three out of nine kinds of entries in three chunks, documents of nine elements with room for one waypoint |
| `Console` | selections, clicks, observations, routes of missions, what the page offers and says, what is kept | two phones, two routes out of files of which two qualify for assignment and one does not, two versions of a phone's state with two messages each way, two clicks on armed buttons, a fetch of two photos with three failures, two imports of the route desk at once, one frame of each type at and around the limits (counts of 2 to 17 tokens), four snapshots with interrupts of two codes and a description, either of which may be missing, two saves queued |
| `Background` | what the page shows of its own work, what is recorded, liveness | two versions of the host, one player page and one monitor slot, four and two clicks on tiles (a photo is the plain button), four pings and two probes, four records with room for two, two photos of two chunks, three events in three sessions |
| `SameRoute`, `StoredIsInTheInbox`, `ClearedIsNotMoved` | statements of the contracts and tests the code does not keep | as above |

`MCStation`, `MCConsole` and `MCBackground` compose parts that share no
state in the code.  A behaviour chooses one of them in `Init` (`part`) and the others
rest, so that their states add up instead of multiplying.  Parts that do interact are
composed in earnest: `MissionControl`, `RelayLink`, `DeviceLanes`, `Station`, `Workflow` and
`LowLatency` extend what they call.  The routes and the video of `Workflow` meet in none of
its formulas, nor do the facts and the interrupts of `IncidentWatch`; `Console` looks at them as
two parts each (`workflow` and `video`, `watch` and `interrupts`).  The theorem
about `Workflow` has its two in one behaviour.

The bounds name the cases: three calls are as many as one lane can have awaited
(one ordinary, a pause, a stop); two missions are what an answer or a fact of
"another mission" needs; a queue of two holds the frame being written and one
that waits; four connections for two places let a phone come back while its former connection
awaits its acknowledgement and a stranger asks for the place (the queues of a connection
overflow under `RelayLink`); a journal of two has one to drop and one to keep; two versions are
what a stale answer needs; a document of nine elements has a placemark in a skipped subtree of
another one, or a second waypoint where there is room for one.  Bounds of counters (`Max...`) are constants and appear in
guards only.  Deadlock is not checked because a behaviour that used its bounds up stops.

Fairness.  `ControlFairness`: every call is answered, because the relay link arms a timer
for each (`command-tracker`, `mission-sender`); a grace timer fires; a phone that is there
repeats its telemetry and sends the milestones it passes.  `StationFairness`: a stage of
the shutdown runs or times out, since `runStage` races the two.  In `Background`: timers
fire (the refresh tick, its five-second deadline, the retry of a player, the keepalive, the
probe), answers that IPC carries arrive, file writes end, the phone repeats what was not
acknowledged.  One strong fairness is assumed, that a refresh whose calls, the preview included, are answered in
time happens again and again; a host that never answers in time leaves the screen as it
is.  Nothing is assumed of the operator, of reconnections or of DJI.

## Proofs

Seven modules hold theorems, each for any phones, connections, missions, promises, photos and
bounds.  An invariant that a run checks is seldom inductive; the text says what its
proof adds.

`MissionControlProofs`, about the dispatcher (lemmas about the phase machine first):

* `TypeCorrect`: `Spec => []TypeOK`.
* `BusyIsCounted`, `UploadsAreConfirmed`, `LateRepliesInert`.  The inductive `IInv` adds that
  promises of flights are distinct, that every flight of the current epoch is the lane's,
  and that a lane in a phase after "uploaded" returns, through its hidden variables, only
  to phases whose mission was confirmed.
* `FlightsAreSingle`, `FlyingIsStoppable`, `RejectionsRestore`.  `FlyingInv` says what a lane
  with an answer awaited looks like: who waits for a stop or a pause to come back
  (`Unstopped`, `Unpaused`), to which phase a flight returns, and that a mission not
  yet started has nothing awaited that could fly it (`Grounded`).  Neither the number
  of flights nor the phase of a flying mission is inductive without it, since a pause and
  a stop overtake a start that comes back at any time.

and about mission control, with the relay's snapshots, grace timers and the phone:

* `ControlTypeCorrect`; `GoneAreTimed`, `WatermarkHolds` and `OnlyTheGoneLose` from
  `ControlInv`, a conjunction per phone (`LaneInv`) of what timers, marks, facts and the lane
  have to do with each other.
* `RunsOwn` from `RunsInv`: what the phone, the relay and the lane know of a run is true of
  it, and a lane carries the route of its mission.  It assumes `NoRouteTwice`; the run
  `SameRoute` shows that it is false without it.

`RelayLinkProofs`, about the server:

* `ServerTypeCorrect`, `PlacesHold` and `ReconnectsAreAdmitted` from `ServerInv`: who is open
  has an identity exactly when its hello was admitted, so that who was only accepted counts
  for none, and a connection nobody made yet has nothing.
* `StopsLeaveNothing` from `LifecycleInv`: what each state of the server says of starts that
  still listen, of the listener that is bound and of the stop that waits for either.  It assumes that stops do not overlap, see *Not modelled*.

and about the relay link, which extends it:

* `RegistryMirrors`, `SendsSettle`, `TransfersStayWhole` from `LinkInv`: who waits does so on a
  paired connection, only those write, and (`FlowInv`) of every frame in a queue or in
  `settled`, whose it is, that no loop has two, that what is queued continues what was
  sent last, and that behind a part of a mission under way only commands are queued.
* `LinkKeepsPromises`: the relay link implements `RelayGateway`.  The initial states
  map to initial ones; every step of the server and the link is a step of the gateway
  or leaves it alone, one lemma per kind of step.  What `MissionDispatcher` assumes of
  the relay is what this theorem says of it.

`DeviceLanesProofs`:

* `SessionsAreSeparate`.  `SessionInv`: confirmations and intents belong to the present
  session, and a call that is not late finds its phone online, which is why what an
  answer records is recorded for a phone that is there.
* `StartsAreChecked`: only `BeginStart` sends a start, and it asks for the source then;
  a loss renames calls without adding any.
* `RestartsAreOwed`: `QueuedRestartsAreOwed` is not inductive, because a lane that is
  busy stopping may take a restart at any time; `VideoInv` adds that such a lane has a
  stop awaited too.
* `PhotoLanesAreOwed`: `PhotoInv` adds that a call is late exactly when its generation
  is over, that the answer of the current generation is unique, and that a lane
  someone waits in has none.  A request then finds no call at all.
* `LateAnswersAreIgnored`: from these and `LateInv`, that a loss has recorded itself in
  every lane whose calls it cut off.
* `FetchesAreKept`: `StoreInv` adds that everything a session received is in the inbox or has
  a duplicate there, that a fetch that knows its delivery waits (so that no photo ends it
  while an answer is still to come), and that a lane that shows "stored" is free.

`StationProofs`:

* `PortsAreOwned` and `InvalidatedStaysDark` of the media pipeline by itself, from `PortInv`: what
  a start awaits is not bound yet, what is bound is owned until the disposal, and what is
  bound after it is a listener whose close() threw.
* `StationTypeCorrect`, `EndsComplete` and `StationKeepsMedia` of the
  program, from `OperationInv`: one operation at a time, what each layer awaits is under way in
  the layer beneath, and while nothing is, relay and application agree.
* `IdleReleases` of the WebRTC side (`ProcessInv`), and `WhipLanesAreAnswered` of the facade
  (`WhipInv`): a lane that waits is owed an answer to a command sent since it was last
  forgotten; the answers to earlier ones leave it alone.
* `WhatIsPassedOnStaysWhole`, of the FLV port and of the import.  `FlvInv` relates the filter
  to its player: a player misses frames only while frames are skipped for it, or between a
  decoder configuration and the key frame that follows it.  `ImporterInv` has four parts:
  `Course`, what each stage leaves untouched and which outcome it may have; `ArchiveInv`, that the
  budget holds and that what was expanded before the chosen document was checked; `Findings`,
  that no draft is missing but what overflowed; `Whereabouts`, that a skipped subtree and an
  element that is read began at an element still open.  The property says of the
  counters of the handlers only that they agree with the open elements; that an end tag
  takes back exactly what its start tag did (lemma `ComesOut`) is what makes it inductive, and for
  that the context of the outermost element has to be known.

`ConsoleProofs`, about the parts of `Console`:

* `SelectionsAlwaysStand` from `WorkflowInv`: ids are given once, what is assigned is in the catalog,
  and a phone with an assignment is there or has its timer, never both.
* `FactsAndRoutesAlwaysHold`, an action property, from `ObservationInv`: an observation is recorded
  under the newest complete frame that arrived (`Numbered`), one answer is on the way
  at most, frames arrive in the order of what they tell (`InOrder`), and the answer to a
  read that was asked while a frame was shown, and that no frame overtook, is not older than what
  was known (`AnswersAreNewer`).  Of other reads the property says that they alone may take a state back;
  they do, which breaks the contract (`ReadsKeepFrames`, see *Findings*).
* `ClicksAlwaysGoOutAsMade` from `ArmInv`: a confirmation the station still has was asked for once, for
  its phone, and was not sent (`StationKnows`, `SentOnce`), and a button that is armed without
  its timer has a handler that has still to set it (`TimerFollows`).
* `PageAlwaysTellsTheFacts` from an invariant per projection: `LinksInv`, `LaneInv`, `PlaneRecord`
  and `ReceiptInv`.  The projections are functions of one report, so that the
  proofs are about which reports there are and what the functions make of them.

`KeptProofs`, about the parts of `Console` that keep, send, draw or write down:

* `WhatIsMeantIsAlwaysKept`.  `StoreInv`: the saves that wait are later than the one on disk and in
  their order, without which a write could take an older document back.  `WatchInv`: a value
  that waits was told last, what the last snapshot told is written or waits, and what is retained
  of an interrupt is what a reader finds last of that part in the pairing.  An interrupt with both
  parts is written once for as long as it lasts; one that lacks a part is written on every
  snapshot, because `null` is neither `undefined` nor anything retained.
  `CodecInv`: a text at hand is the text of the frame it was written from, and what was read may be
  written.  `DesksHold` and `PanelInv` add only what their records are; the imports of the desk overlap.  The lemmas of
  the codec say that no frame without embedded JSON reaches the limits of the parser,
  that Base64 gives back its bytes, and that what is written is read as it was.

`BackgroundProofs`, about `Background`, one invariant per part that moves:

* `PageAlwaysTellsItsWork`.  `StepsFollow`: where a run stands is what its steps read, and it has not
  been started while it stands anywhere.  `RunRowsFollow` and `ButtonRowsFollow`: a handler
  that ended well has sent its command, and a button is named by its own row only, which is why
  two buttons can share a row.  `PlayersKept`: a monitor page that is not painted has asked for nothing.
* `RecordsAreAlwaysKept`.  `JournalKept`: ids ascend from the files over the batch to the queue, the
  JSON file ahead of the log while a batch is between them (`Lines`), the records of the log,
  of what waits, lost and failed are all there are (`Accounted`), and every loss is older than what is
  recorded later (`Outlasting`); that there is an earliest INFO is the well-ordering of the
  naturals (`Least`).  `Reports`: a report in the queue or the chain of writes follows
  what is in the file, so that its last event acknowledges all before it.  `Photos`: the names
  of an inbox are those of files.  `ProbesKept`: a probe is pending exactly when it is the active one, one that was measured was so by
  the pong of its own payload, and one that timed out did so by its own timer.

Assumptions.  `DispatcherAssumption`, `ServerAssumption`, `LinkAssumption`, `ConsoleHolds`,
`BackgroundAssumption` and `ImporterHolds` on the constants, which the runs evaluate; `SettlesBeforeLoss` in the theorems about flights, which
`LinkKeepsPromises` justifies; `StopsOverlap = FALSE` and `NoRouteTwice` where named above.
`LateAnswersAreIgnored` and what rests on `PhotoInv` need `Quiet`, the order in which JavaScript
runs continuations, which `LanesNext` states.

Model-checked only: `BusyEnds`, `AbsenceEnds`, `ExecutionIsSeen`, `QuitsEventually` and
`NothingHangs` (liveness is beyond the prover).  Every other property of a run that passes is
a theorem.  The type invariants (`...TypeOK`) that
no theorem names are stated in each module for the reader; TLC finds them to hold when a
configuration names them.

## Findings

* `SameRoute` (bug): a route staged a second time is locked to, and completed by, the
  run of the first, because the relay keeps presenting its fact and a confirmed
  stage clears the mark that made it stale.
* `StoredIsInTheInbox` (bug): a photo of a known name with another digest counts as
  stored and is not written.  `StoredIsKept` is what holds.
* `ClearedIsNotMoved` (code and contract differ): the flight page moves to the phone that
  is left when the chosen one goes.

Other statements of contracts and comments are written down in the modules and are not
properties of a run; TLC refutes each when a configuration names it (a run checks what the
code does keep instead):

| Definition | Says | What the code does |
|---|---|---|
| `MissionDispatcher!RunningMeansExecuting` | `mission-control/CONTRACT.md:40`, only a phase fact makes a lane "running" | a pause and a resume of a start do as well |
| `MissionDispatcher!RejectedStartIsReported` | `mission-dispatcher/CONTRACT.md:108`, a rejected first start is answered as rejected | `index.ts:280` answers ok once a pause or a stop overtook it |
| `DeviceLanes!StreamCommandsExclude` | `live-stream-control/CONTRACT.md:54`, one stream command at a time | `stream-dispatcher/index.ts:195` frees the lane when the source fails |
| `RouteDesk!OneImportAtATime` | `route-workspace/CONTRACT.md:25`, an import under way refuses a second | a failed locate makes the desk ready while one awaits, and `index.ts:183-197` goes on beside the second |
| `Observations!ReadsKeepFrames` | `relay-operations-adapter/CONTRACT.md:109`, an answer to `telemetry.read` never covers a frame of a higher number | `index.ts:730-731` takes the number from the fact that is shown, and there is none before the first frame nor after an answer was shown (`:564`); `:562` then lets the answer to the next read pass, whatever frame came meanwhile, until the next complete frame |
| `ArmPanel!AbandonedIsCancelled` | `action-arm`'s contract, an abandoned action is cancelled at the station | a repaint, or an answer later than the timer, leaves its confirmation there |
| `AircraftStatus!AwaitIsStoppable` | the button's own tooltip (`main.ts:1897`) | `flight-now-status/index.ts:232` offers nothing in that phase |
| `Receipts!NotCalledIsTrue` | `operator-console/CONTRACT.md:63`, a loss before the result reads as unconfirmed | `stream-dispatcher/index.ts:115` answers a code that reads as "DJI MSDK not called" |
| `IncidentJournal!EveryLossIsCounted` | `electron-host/CONTRACT.md`, every dropped record is counted in a later one | a dropped record that carried a count takes it along (with six records) |
| `RenderLoop!OneCallDoesNotBlockAnother` | the console's contract, the calls of a refresh do not affect one another | a call that hangs discards the snapshot that was answered |
| `FrameCodec!EncodedIsDecodable` | `protocol-core/CONTRACT.md`, encode refuses what exceeds the limits | `index.ts:305` counts a command's tokens without its name and a result from depth 1 |
| `RouteImporter!CandidateReads`, of every waypoint | `qualification/CONTRACT.md:126-131`, a WPML without a height is accepted with the warning `ALTITUDE_MISSING` | `xml.ts:217-219` and `231-236` name the coordinate as the source of a height it does not have, which `candidates.ts:40` refuses |
| `LowLatency!UnansweredKeepsTheLane` | `whip-stream-control`'s contract, a disconnection invalidates the results under way | after a reconnection the answer to the former command ends the new one |

## Not modelled

Geometry (orbits, obstacles, footprints), HTML and wording, the Cesium scene and the 3D map have
no state that events interleave on; of a route file, how its bytes become entries and events of the
parser is left to the libraries that do it, and numbers and names are not looked at; `webrtc-ports`,
`route-files` and `runtime-paths` only call Electron and the file system; `desktop-shell`
and `desktop-ui-gateway` register handlers and forward.  `measureLink` of the relay server,
the low latency stream actions of the workflow and `dispose` of mission and flight control
are left out.  `StopsOverlap` of `RelayServer` is FALSE in the runs and in
`StopsLeaveNothing`: the application awaits each stop before it starts or stops again; with TRUE
a second stop reports a listener of a later start as closed.

`webrtc-media`, `low-latency-media`, `whip-stream-control`, `route-workspace`,
`plan-workspace`, `geo-map` and `settings-store` are complete in the repository but not
wired into the released program; they are modelled by their own code and contracts.

## Plan

* `measureLink`, the low latency actions of the workflow, `dispose` of mission and flight
  control.
