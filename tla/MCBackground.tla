----------------------------- MODULE MCBackground -----------------------------
(***************************************************************************)
(* What goes on by itself while the operator works, on small instances:    *)
(* the page's refresh, players and tiles, the sockets, the journal and the *)
(* uploads of phones.  The parts do not share state, so a behaviour moves  *)
(* one of them and leaves the others as they begin.                        *)
(***************************************************************************)
EXTENDS Naturals

CONSTANTS
  p, q, None, MaxVersion, MaxStreak, MaxRunClicks, MaxButtonClicks, MaxPings, MaxProbes,
  MaxQueued, MaxRecords, Transfer, Name, Chunk, MaxChunks, MaxFrames, MaxEvents, MaxQueue,
  MaxKeys, MaxSessions
Phone == {p, q}

VARIABLE part
\* RenderLoop, Playback
VARIABLES host, fetch, pending, reading, last, painted
VARIABLES screen, flight, asking, monitors, cooling
\* MonitorTiles: the run of a route, or the buttons beside it
VARIABLES plan, runAt, accepted, busy, rows, railKind, confirmation, sent, control, face, clicked
\* SocketLink, IncidentJournal
VARIABLES open, closed, reason, notices, ticking, sequence, awaiting, probe, timers, answers,
          asked, wire, silent
VARIABLES queue, batch, at, dropped, json, log, recorded, lost, failed, flush
\* PhoneUploads: photos, and diagnostic reports
VARIABLES paired, active, inbox, disk, told, frames
VARIABLES session, sessions, made, acked, waiting, identities, writes, keys, file, acks

Render == INSTANCE RenderLoop
Players == INSTANCE Playback WITH NoPhone <- None, Slot <- {1}
Run == INSTANCE MonitorTiles WITH Direct <- {"hold"}, Plain <- {}, MaxClicks <- MaxRunClicks
Buttons == INSTANCE MonitorTiles
             WITH Direct <- {"hold", "home", "land"}, Plain <- {"photo"}, MaxClicks <- MaxButtonClicks
Socket == INSTANCE SocketLink
Journal == INSTANCE IncidentJournal
Uploads == INSTANCE PhoneUploads WITH queue <- waiting

ASSUME BackgroundAssumption ==
  /\ Render!RenderAssumption /\ Players!PlaybackAssumption
  /\ Run!TilesAssumption /\ Buttons!TilesAssumption
  /\ Socket!SocketAssumption /\ Journal!JournalAssumption /\ Uploads!UploadsAssumption

page == <<host, fetch, pending, reading, last, painted>>
players == <<screen, flight, asking, monitors, cooling>>
tiles == <<plan, runAt, accepted, busy, rows, railKind, confirmation, sent, control, face, clicked>>
socket == <<open, closed, reason, notices, ticking, sequence, awaiting, probe, timers, answers,
            asked, wire, silent>>
journal == <<queue, batch, at, dropped, json, log, recorded, lost, failed, flush>>
photos == <<paired, active, inbox, disk, told, frames>>
reports == <<session, sessions, made, acked, waiting, identities, writes, keys, file, acks>>
backgroundVars == <<part, page, players, tiles, socket, journal, photos, reports>>

Init ==
  /\ part \in {"page", "players", "run", "buttons", "socket", "journal", "photos", "reports"}
  /\ Render!RenderInit /\ Players!PlaybackInit
  /\ IF part = "run" THEN Run!TilesInit ELSE Buttons!TilesInit
  /\ Socket!SocketInit /\ Journal!JournalInit /\ Uploads!PhotosInit /\ Uploads!ReportsInit

Next ==
  /\ UNCHANGED part
  /\ \/ /\ part = "page" /\ Render!RenderNext
        /\ UNCHANGED <<players, tiles, socket, journal, photos, reports>>
     \/ /\ part = "players" /\ Players!PlaybackNext
        /\ UNCHANGED <<page, tiles, socket, journal, photos, reports>>
     \/ /\ part = "run" /\ Run!TilesNext
        /\ UNCHANGED <<page, players, socket, journal, photos, reports>>
     \/ /\ part = "buttons" /\ Buttons!TilesNext
        /\ UNCHANGED <<page, players, socket, journal, photos, reports>>
     \/ /\ part = "socket" /\ Socket!SocketNext
        /\ UNCHANGED <<page, players, tiles, journal, photos, reports>>
     \/ /\ part = "journal" /\ Journal!JournalNext
        /\ UNCHANGED <<page, players, tiles, socket, photos, reports>>
     \/ /\ part = "photos" /\ Uploads!PhotosNext
        /\ UNCHANGED <<page, players, tiles, socket, journal, reports>>
     \/ /\ part = "reports" /\ Uploads!ReportsNext
        /\ UNCHANGED <<page, players, tiles, socket, journal, photos>>

\* The fairness of each part; of the parts that would have a step to take while they rest,
\* and of the two that share the tiles, it is asked for where they move.
Fairness ==
  /\ Players!PlaybackFairness /\ Journal!JournalFairness /\ Uploads!ReportsFairness
  /\ WF_page(part = "page" /\ Render!Tick) /\ WF_page(Render!DeadlinePasses)
  /\ SF_page(part = "page" /\ Render!FetchCompletes /\ last' = host) /\ SF_page(Render!PreviewAnswered)
  /\ WF_socket(part = "socket" /\ Socket!Tick) /\ WF_socket(Socket!SocketCloses)
  /\ \A id \in 1..MaxProbes : WF_socket(Socket!ProbeTimesOut(id))
  /\ WF_tiles(Run!RunGoesOn \/ Run!RunFails)
  /\ \A kind \in Buttons!Kinds : WF_tiles(part = "buttons" /\ Buttons!HandlerSteps(kind))
Spec == Init /\ [][Next]_backgroundVars /\ Fairness

\* What the page shows of what it does itself is so: the steps of a route being started, the
\* rows of the buttons, and players on the page they belong to (main.ts).
PageTellsItsWork ==
  /\ part = "run" => Run!StepsTellTheRun /\ Run!RowsTellTheTruth
  /\ part = "buttons" => Buttons!RowsTellTheTruth
  /\ part = "players" => Players!RetryHasNoRival /\ Players!MonitorsStayOnTheirPage

\* What is recorded stays: incidents in their order and the worse ones first, photos and
\* reports before they are acknowledged, and each connection's measurements and its end.
RecordsAreKept ==
  /\ part = "journal" => Journal!JournalIsInOrder /\ Journal!WarningsOutlastInfos /\ Journal!FlushIsComplete
  /\ part = "photos" => Uploads!StoredPhotosAreKept
  /\ part = "reports" => Uploads!AckedIsPersisted
  /\ part = "socket" => Socket!ProbesAreTheirOwn /\ Socket!ClosedOnce

\* Nothing hangs: the screen catches up, stray players go, a flush returns, silent peers and
\* unanswered probes end, buttons come free and reports arrive.
NothingHangs ==
  /\ Render!ScreenCatchesUp
  /\ Players!StrayPlayersGo
  /\ Journal!FlushEnds
  /\ Socket!SilentPeersGo /\ Socket!ProbesEnd
  /\ []<>~Run!Running
  /\ Uploads!ReportsArrive
=============================================================================
