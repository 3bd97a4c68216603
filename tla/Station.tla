------------------------------- MODULE Station -------------------------------
(***************************************************************************)
(* The desktop program as a whole: the window shell (modules/app-shell),   *)
(* the application (production/desktop-application), its runtime           *)
(* (production/desktop-runtime), the media pipeline (MediaPipeline) and    *)
(* the relay the runtime starts and stops, and the shutdown sequence of    *)
(* the Electron host (production/electron-host).                           *)
(*                                                                         *)
(* A step is what runs between two awaits.  `at` names what a suspended    *)
(* operation awaits.  The application is the only caller of the runtime.   *)
(***************************************************************************)
EXTENDS MediaPipeline, Naturals, Sequences

CONSTANT
  MaxRetries    \* reloads of the page (retryCount of the renderer host)

ASSUME StationAssumption == MaxRetries \in 0..3

VARIABLES
  relay,        \* external: the relay link's listener
  runtime,      \* DesktopRuntime: its phase and what its operation awaits
  application,  \* DesktopApplication: the same
  disposal,     \* of the application: not asked, asked, or finished
  shell,        \* AppShell, its window, its lock and its page
  shutdown      \* of the host: its stage and whether all stages were clean

stationVars == <<relay, runtime, application, disposal, shell, shutdown>>

Unstarted == [phase |-> "idle", at |-> "nothing"]
Stages == <<"shell", "application", "journal", "quit">>

StationInit ==
  /\ MediaInit
  /\ relay = "stopped"
  /\ runtime = Unstarted
  /\ application = Unstarted
  /\ disposal = "none"
  /\ shell = [phase |-> "new", lock |-> "new", window |-> "new",
              page |-> "new", attempt |-> 0]
  /\ shutdown = [stage |-> 0, clean |-> TRUE, begun |-> FALSE]

Settled == application.at = "nothing"
Running == application.phase = "running"
HostLives == shutdown.stage < Len(Stages)

-----------------------------------------------------------------------------
(* Start *)

ApplicationStart ==
  /\ disposal = "none"
  /\ Settled /\ application.phase = "idle"
  /\ application' = [phase |-> "starting", at |-> "runtime"]
  /\ runtime' = [phase |-> "starting", at |-> "relay"]
  /\ relay' = "starting"
  /\ UNCHANGED <<mediaVars, disposal, shell, shutdown>>

\* Both operations end with the runtime's.
Ends(phase) ==
  /\ runtime' = [phase |-> phase, at |-> "nothing"]
  /\ application' = [phase |-> phase, at |-> "nothing"]

\* media.start(); it is refused while a listener of the pipeline is open.
MediaStart ==
  \/ Start \/ StartUnresolved
  \/ (pipeline.owned # {} \/ pipeline.phase \in {"disposed", "failed"}) /\ UNCHANGED mediaVars

RelayStarts ==
  /\ relay = "starting"
  /\ relay' = "listening"
  /\ runtime' = [runtime EXCEPT !.at = "media"]
  /\ MediaStart
  /\ UNCHANGED <<application, disposal, shell, shutdown>>

RelayStartFails ==
  /\ relay = "starting"
  /\ relay' = "stopped"
  /\ Ends("idle")
  /\ UNCHANGED <<mediaVars, disposal, shell, shutdown>>

MediaReturns == runtime.at = "media" /\ pipeline.awaits = "nothing"

MediaStartedKeepingRelay ==  \* mutant: the relay is not stopped with the media
  /\ MediaReturns
  /\ pipeline.phase # "running"
  /\ Ends("idle")
  /\ UNCHANGED <<mediaVars, relay, disposal, shell, shutdown>>

MediaStarted ==
  /\ MediaReturns
  /\ pipeline.phase = "running"
  /\ Ends("running")
  /\ UNCHANGED <<mediaVars, relay, disposal, shell, shutdown>>

\* The media are required, so the relay is stopped again.
MediaStartFailed ==
  /\ MediaReturns
  /\ pipeline.phase # "running"
  /\ runtime' = [runtime EXCEPT !.at = "relay"]
  /\ relay' = "stopping"
  /\ UNCHANGED <<mediaVars, application, disposal, shell, shutdown>>

-----------------------------------------------------------------------------
(* Stop *)

ApplicationStop ==
  /\ Settled /\ Running
  /\ application' = [phase |-> "stopping", at |-> "missions"]

Stopping ==
  /\ disposal = "none"
  /\ ApplicationStop
  /\ UNCHANGED <<mediaVars, relay, runtime, disposal, shell, shutdown>>

\* Every mission lane answered its stop, or failed to.
MissionsStopped ==
  /\ application.at = "missions"
  /\ application' = [application EXCEPT !.at = "runtime"]
  /\ runtime' = [phase |-> "stopping", at |-> "streams"]
  /\ UNCHANGED <<mediaVars, relay, disposal, shell, shutdown>>

StreamsStopped ==
  /\ runtime.at = "streams"
  /\ IF pipeline.phase \in {"running", "failed"} THEN Stop ELSE UNCHANGED mediaVars
  /\ runtime' = [runtime EXCEPT !.at = "relay"]
  /\ relay' = "stopping"
  /\ UNCHANGED <<application, disposal, shell, shutdown>>

RelayStopped ==
  /\ relay = "stopping"
  /\ relay' = "stopped"
  /\ Ends("idle")
  /\ UNCHANGED <<mediaVars, disposal, shell, shutdown>>

-----------------------------------------------------------------------------
(* Disposal of the application *)

AskDisposal == disposal' = IF disposal = "none" THEN "asked" ELSE disposal

ApplicationDispose ==
  /\ disposal = "none"
  /\ AskDisposal
  /\ UNCHANGED <<mediaVars, relay, runtime, application, shell, shutdown>>

DisposalStops ==
  /\ disposal = "asked"
  /\ ApplicationStop
  /\ UNCHANGED <<mediaVars, relay, runtime, disposal, shell, shutdown>>

\* The mission control, the routes, the confirmations, the runtime with the
\* media, and the operations go in one step.
DisposedNow ==
  /\ disposal' = "finished"
  /\ Dispose
  /\ runtime' = [runtime EXCEPT !.phase = "disposed"]
  /\ application' = [application EXCEPT !.phase = "disposed"]
  /\ UNCHANGED <<relay, shell, shutdown>>

DisposalAtOnce ==  \* mutant: the operation under way is not awaited
  disposal = "asked" /\ ~Running /\ DisposedNow

DisposalEnds ==
  disposal = "asked" /\ Settled /\ ~Running /\ DisposedNow

-----------------------------------------------------------------------------
(* The shell *)

ShellStart ==
  /\ shell.phase = "new" /\ shell.lock # "acquired"
  /\ \E window \in {"created", "failed"} :
       shell' = IF shell.lock = "released" \/ shell.window = "closed" THEN shell
                ELSE IF window = "created"
                THEN [shell EXCEPT !.lock = "acquired", !.window = "created",
                                   !.page = "loading", !.attempt = 1]
                ELSE [shell EXCEPT !.lock = "released"]
  /\ UNCHANGED <<mediaVars, relay, runtime, application, disposal, shutdown>>

PageLoads ==
  /\ shell.page = "loading"
  /\ shell' = [shell EXCEPT !.page = "loaded", !.phase = "ready"]
  /\ UNCHANGED <<mediaVars, relay, runtime, application, disposal, shutdown>>

RetriesLeft == shell.attempt <= MaxRetries

\* A page that does not load is tried again, or the window and the lock go.
PageFails ==
  /\ shell.page = "loading"
  /\ shell' = IF RetriesLeft THEN [shell EXCEPT !.attempt = @ + 1]
              ELSE [shell EXCEPT !.page = "new", !.window = "closed", !.lock = "released"]
  /\ IF RetriesLeft THEN UNCHANGED disposal ELSE AskDisposal
  /\ UNCHANGED <<mediaVars, relay, runtime, application, shutdown>>

\* The lock that is released disposes of the application (launch.ts).
ShellDispose ==
  /\ shell' = [shell EXCEPT !.phase = "disposed", !.page = "disposed",
                 !.window = IF @ = "created" THEN "closed" ELSE @,
                 !.lock = IF @ = "acquired" THEN "released" ELSE @]
  /\ IF shell.lock = "acquired" THEN AskDisposal ELSE UNCHANGED disposal

-----------------------------------------------------------------------------
(* Shutdown of the host: one stage after the other, each with its deadline *)

Stage(i) == shutdown.stage = i

WindowsClosed ==
  /\ ~shutdown.begun /\ shell.phase = "ready"
  /\ shutdown' = [shutdown EXCEPT !.begun = TRUE, !.stage = 1]
  /\ UNCHANGED <<mediaVars, relay, runtime, application, disposal, shell>>

ShellStageRuns ==
  /\ Stage(1)
  /\ ShellDispose
  /\ shutdown' = [shutdown EXCEPT !.stage = 2]
  /\ UNCHANGED <<mediaVars, relay, runtime, application>>

ApplicationStageEnds ==
  /\ Stage(2)
  /\ disposal = "finished"
  /\ shutdown' = [shutdown EXCEPT !.stage = 3]
  /\ UNCHANGED <<mediaVars, relay, runtime, application, disposal, shell>>

NeverTimesOut == FALSE /\ UNCHANGED <<mediaVars, stationVars>>  \* mutant: no deadline

StageTimesOut ==
  /\ Stage(2) \/ Stage(3)
  /\ shutdown' = [shutdown EXCEPT !.stage = @ + 1, !.clean = FALSE]
  /\ UNCHANGED <<mediaVars, relay, runtime, application, disposal, shell>>

JournalFlushed ==
  /\ Stage(3)
  /\ shutdown' = [shutdown EXCEPT !.stage = 4]
  /\ UNCHANGED <<mediaVars, relay, runtime, application, disposal, shell>>

-----------------------------------------------------------------------------

\* What the media pipeline does by itself while the station runs.
MediaSteps ==
  /\ \/ HttpFlvListens \/ HttpFlvFails
     \/ RtmpListens \/ RtmpFails
     \/ SelectPlayer \/ PlayerFails \/ ClearPlayer
     \/ Evaluate
     \/ \E d \in Device :
          \/ Publish(d) \/ Unpublish(d)
          \/ InvalidateStreamSource(d) \/ AllowStreamSource(d)
  /\ UNCHANGED stationVars

\* When the program has quit, nothing of it runs any longer.
StationNext ==
  /\ HostLives
  /\ \/ ApplicationStart \/ RelayStarts \/ RelayStartFails
     \/ MediaStarted \/ MediaStartFailed
     \/ Stopping \/ MissionsStopped \/ StreamsStopped \/ RelayStopped
     \/ ApplicationDispose \/ DisposalStops \/ DisposalEnds
     \/ ShellStart \/ PageLoads \/ PageFails
     \/ WindowsClosed \/ ShellStageRuns \/ ApplicationStageEnds
     \/ StageTimesOut \/ JournalFlushed
     \/ MediaSteps

StationSpec == StationInit /\ [][StationNext]_<<mediaVars, stationVars>>

\* A microtask runs, a timer fires; what is awaited of phones or sockets need
\* never come.
StationFairness ==
  /\ WF_<<mediaVars, stationVars>>(HostLives /\ ShellStageRuns)
  /\ WF_<<mediaVars, stationVars>>(HostLives /\ StageTimesOut)

-----------------------------------------------------------------------------

StationTypeOK ==
  /\ MediaTypeOK
  /\ relay \in {"stopped", "starting", "listening", "stopping"}
  /\ runtime \in [phase : {"idle", "starting", "running", "stopping", "disposed"},
                  at : {"nothing", "relay", "media", "streams"}]
  /\ application \in [phase : {"idle", "starting", "running", "stopping", "disposed"},
                      at : {"nothing", "missions", "runtime"}]
  /\ disposal \in {"none", "asked", "finished"}
  /\ shell \in [phase : {"new", "ready", "disposed"},
                lock : {"new", "acquired", "released"},
                window : {"new", "created", "closed"},
                page : {"new", "loading", "loaded", "disposed"},
                attempt : 0..MaxRetries + 1]
  /\ shutdown \in [stage : 0..Len(Stages), clean : BOOLEAN, begun : BOOLEAN]

\* When the application has been disposed of nothing of it is left: no operation
\* is suspended that would go on, the relay does not listen, and a port is bound
\* only if its close() threw.  dispose() may be called at any moment, also while
\* the start or the stop is suspended.
DisposalIsComplete ==
  disposal = "finished" =>
    /\ Settled
    /\ runtime.at = "nothing"
    /\ relay = "stopped"
    /\ \A s \in sockets : service[s].closeFailed

\* An application that is idle, be it after a stop or after a start of which one
\* half failed, has stopped the other half as well.
IdleIsStopped ==
  application = Unstarted /\ ~Disposed =>
    /\ relay = "stopped"
    /\ runtime.at = "nothing"
    /\ sockets \subseteq pipeline.owned

\* Each end of the application is complete: its disposal, a stop, a start that
\* failed half way (desktop-runtime).
EndsAreComplete == DisposalIsComplete /\ IdleIsStopped

\* Once the window is closed the process ends, though the aircraft's answer to
\* the stop of its mission, the relay and the journal may never return.
QuitsEventually == shutdown.begun ~> ~HostLives

=============================================================================
