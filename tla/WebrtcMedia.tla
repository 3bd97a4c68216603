----------------------------- MODULE WebrtcMedia -----------------------------
(***************************************************************************)
(* The WebRTC side path (modules/webrtc-media): one MediaMTX process, the  *)
(* monitor of its publishing paths, the health of each publisher and the   *)
(* WHEP player, put together by WebRtcMedia.  Nothing here holds a lock:   *)
(* evaluate() awaits the list of paths, MediaMTX ends when it likes.       *)
(***************************************************************************)
EXTENDS Naturals, Sequences

CONSTANTS
  Publisher,      \* device identifiers
  NoPublisher,    \* null
  MaxSessions,    \* starts looked at: a bound of the model
  MaxRefreshes    \* evaluations under way at once: a bound of the model

ASSUME WebrtcAssumption ==
  NoPublisher \notin Publisher /\ MaxSessions \in Nat /\ MaxRefreshes \in Nat

VARIABLES
  webrtc,     \* phase, session, stopRequested, stopFailed of the facade
  mtx,        \* the MediaMTX process, and the session its onExit belongs to
  monitor,    \* the path monitor: phase, and the devices of the last list
  health,     \* [Publisher -> "none" | the state of its health record]
  refreshes,  \* evaluations awaiting the paths, oldest first: the session of
              \* each, and the records that have moved past its "now"
  whep        \* the WHEP player
webrtcVars == <<webrtc, mtx, monitor, health, refreshes, whep>>

WebrtcTypeOK ==
  /\ webrtc \in [phase : {"idle", "running", "stopping", "failed", "disposed"},
                 session : 0..MaxSessions, stopRequested : BOOLEAN, stopFailed : BOOLEAN]
  /\ mtx \in [phase : {"idle", "running", "stopping", "failed", "disposed"},
              session : 0..MaxSessions]
  /\ monitor \in [phase : {"idle", "monitoring", "failed"}, previous : SUBSET Publisher]
  /\ health \in [Publisher -> {"none", "awaiting-publisher", "publisher-ready", "failed"}]
  /\ refreshes \in Seq([session : 1..MaxSessions, stale : SUBSET Publisher])
  /\ Len(refreshes) <= MaxRefreshes
  /\ whep \in [phase : {"idle", "connecting", "playing", "failed"},
               device : Publisher \cup {NoPublisher}]

WebrtcInit ==
  /\ webrtc = [phase |-> "idle", session |-> 0, stopRequested |-> FALSE, stopFailed |-> FALSE]
  /\ mtx = [phase |-> "idle", session |-> 0]
  /\ monitor = [phase |-> "idle", previous |-> {}]
  /\ health = [d \in Publisher |-> "none"]
  /\ refreshes = <<>>
  /\ whep = [phase |-> "idle", device |-> NoPublisher]

EmptyHealth == [d \in Publisher |-> "none"]
Tracked == {d \in Publisher : health[d] # "none"}

\* What the facade is after finishIdle().
FinishedIdle ==
  [webrtc EXCEPT !.phase = "idle", !.stopRequested = FALSE, !.stopFailed = FALSE]

\* WhepPlayback.clear: the generation moves on either way; the adapter may throw.
ClearsWhep(ok) == [phase |-> IF ok THEN "idle" ELSE "failed", device |-> NoPublisher]

\* MediaPathMonitor: start(), a list that arrives, one that cannot be had.
Watching == [phase |-> "monitoring", previous |-> {}]
Refreshed(listed) ==
  [phase |-> IF listed = monitor.previous THEN monitor.phase ELSE "monitoring", previous |-> listed]
FailedMonitor == [phase |-> "failed", previous |-> {}]
\* MediaPathMonitor.stop, refused unless it is monitoring.
StoppedMonitor ==
  IF monitor.phase = "monitoring" THEN [phase |-> "idle", previous |-> {}] ELSE monitor

\* MediaMtxProcess.start: a process that is there is left alone; launch() may throw,
\* hand back nothing to end the process with, or report its end before it returns.
MayLaunch == mtx.phase \in {"idle", "failed"}
Launches(session) ==
  IF MayLaunch THEN [phase : {"running", "failed"}, session : {session}] ELSE {mtx}

\* MediaMtxProcess.observeExit and dispose: an end that was asked for is no failure.
ExitedProcess == [mtx EXCEPT !.phase = IF @ = "running" THEN "failed" ELSE "idle"]
DisposedProcess == [mtx EXCEPT !.phase = "disposed"]

\* MediaMtxProcess.stop, on the phase: terminate() may throw, end the process
\* before it returns, or leave it ending.
Terminates ==
  CASE mtx.phase = "failed" -> {"idle"}
    [] mtx.phase = "running" -> {"idle", "stopping", "running"}
    [] OTHER -> {mtx.phase}

\* mutant: a process that was asked to end counts as ended.
GoneWhenAsked(phase) == phase \in {"idle", "stopping"}
\* What stop() and onExit ask of the process before the facade turns idle.
Gone(phase) == phase = "idle"

-----------------------------------------------------------------------------

\* start() without a usable LAN host.
StartHostUnavailable ==
  /\ webrtc.phase \in {"idle", "failed"}
  /\ webrtc' = [webrtc EXCEPT !.phase = "failed"]
  /\ UNCHANGED <<mtx, monitor, health, refreshes, whep>>

\* start(): the process is launched, or refuses, or the monitor does; what was
\* launched for nothing is terminated.
StartWebrtc ==
  /\ webrtc.phase \in {"idle", "failed"}
  /\ webrtc.session < MaxSessions
  /\ LET session == webrtc.session + 1
         Starting(phase, requested) ==
           [phase |-> phase, session |-> session, stopRequested |-> requested,
            stopFailed |-> FALSE]
         watched == monitor.phase = "monitoring"
     IN \/ \* process.start() refuses: it is still there, or could not be launched
           /\ mtx' \in Launches(session) /\ (MayLaunch => mtx'.phase = "failed")
           /\ webrtc' = Starting("failed", FALSE)
           /\ UNCHANGED monitor
        \/ \* the paths are watched already: the process is asked to end
           /\ MayLaunch /\ watched
           /\ mtx' \in [phase : {"idle", "stopping", "running"}, session : {session}]
           /\ webrtc' = Starting("failed", TRUE)
           /\ UNCHANGED monitor
        \/ /\ MayLaunch /\ ~watched
           /\ mtx' \in Launches(session) /\ mtx'.phase = "running"
           /\ monitor' = Watching
           /\ webrtc' = Starting("running", FALSE)
  /\ health' = EmptyHealth
  /\ UNCHANGED <<refreshes, whep>>

\* stop(): the player, the monitor and the process, each whatever the others did.
StopWebrtc ==
  /\ webrtc.phase \in {"running", "failed", "stopping"}
  /\ \E cleared \in BOOLEAN, ended \in Terminates :
       LET failed == ~cleared \/ (mtx.phase = "running" /\ ended = "running") IN
       /\ whep' = ClearsWhep(cleared)
       /\ monitor' = StoppedMonitor
       /\ mtx' = [mtx EXCEPT !.phase = ended]
       /\ webrtc' = IF failed
                    THEN [webrtc EXCEPT !.phase = "failed", !.stopRequested = TRUE, !.stopFailed = TRUE]
                    ELSE IF Gone(ended) THEN FinishedIdle
                    ELSE [webrtc EXCEPT !.phase = "stopping", !.stopRequested = TRUE, !.stopFailed = FALSE]
       /\ health' = IF ~failed /\ Gone(ended) THEN EmptyHealth ELSE health
  /\ UNCHANGED refreshes

\* MediaMTX ends, asked to or not.  Its exit is for the session that launched it.
ProcessExits ==
  /\ mtx.phase \in {"running", "stopping"}
  /\ mtx' = ExitedProcess
  /\ IF mtx.session # webrtc.session THEN UNCHANGED <<webrtc, health>>
     ELSE IF webrtc.stopRequested
     THEN IF ~webrtc.stopFailed /\ Gone(mtx'.phase)
          THEN webrtc' = FinishedIdle /\ health' = EmptyHealth
          ELSE UNCHANGED <<webrtc, health>>
     ELSE IF webrtc.phase = "running"
     THEN /\ webrtc' = [webrtc EXCEPT !.phase = "failed"]
          /\ health' = [d \in Publisher |-> IF d \in Tracked THEN "failed" ELSE "none"]
     ELSE UNCHANGED <<webrtc, health>>
  /\ UNCHANGED <<monitor, refreshes, whep>>

DisposeWebrtc ==
  /\ webrtc.phase # "disposed"
  /\ webrtc' = [webrtc EXCEPT !.phase = "disposed", !.stopRequested = TRUE, !.stopFailed = TRUE]
  /\ mtx' = DisposedProcess
  /\ monitor' = StoppedMonitor
  /\ health' = EmptyHealth
  /\ \E cleared \in BOOLEAN : whep' = ClearsWhep(cleared)
  /\ UNCHANGED refreshes

-----------------------------------------------------------------------------

EvaluateBegins ==
  /\ webrtc.phase = "running"
  /\ Len(refreshes) < MaxRefreshes
  /\ IF monitor.phase = "monitoring"
     THEN refreshes' = Append(refreshes, [session |-> webrtc.session, stale |-> {}]) /\ UNCHANGED webrtc
     ELSE webrtc' = [webrtc EXCEPT !.phase = "failed"] /\ UNCHANGED refreshes
  /\ UNCHANGED <<mtx, monitor, health, whep>>

Without(i) ==
  [j \in 1..(Len(refreshes) - 1) |-> IF j < i THEN refreshes[j] ELSE refreshes[j + 1]]

\* A record that moved past the "now" of an evaluation refuses what it observes.
Observed(i, listed, d) ==
  LET published == d \in listed \ monitor.previous
      unpublished == d \in monitor.previous \ listed
      deaf == d \in refreshes[i].stale
  IN CASE published /\ health[d] \in {"none", "failed"} -> "publisher-ready"
       [] published /\ health[d] = "awaiting-publisher" /\ ~deaf -> "publisher-ready"
       [] unpublished /\ health[d] = "publisher-ready" /\ ~deaf -> "awaiting-publisher"
       [] OTHER -> health[d]

\* WebRtcHealth.evaluate(): who has been awaited for long may be for too long.
Overdue(i, listed) ==
  {d \in Publisher : /\ health[d] = "awaiting-publisher"
                     /\ Observed(i, listed, d) = "awaiting-publisher" /\ d \notin refreshes[i].stale}

\* The paths arrive.  The monitor takes them whichever start() asked for them;
\* the facade drops those of an earlier session.  Who has been awaited for too
\* long fails.
EvaluateEnds(i) ==
  \E listed \in SUBSET Publisher :
    LET current == refreshes[i].session = webrtc.session /\ webrtc.phase = "running"
        told == {d \in Publisher : Observed(i, listed, d) # "none"}
    IN /\ monitor' = Refreshed(listed)
       /\ IF current
          THEN /\ \E late \in SUBSET Overdue(i, listed) :
                    health' = [d \in Publisher |-> IF d \in late THEN "failed" ELSE Observed(i, listed, d)]
               /\ refreshes' = [j \in DOMAIN Without(i) |->
                                  IF j < i THEN [Without(i)[j] EXCEPT !.stale = @ \cup told]
                                  ELSE Without(i)[j]]
          ELSE refreshes' = Without(i) /\ UNCHANGED health
       /\ UNCHANGED <<webrtc, mtx, whep>>

\* The list cannot be had.
EvaluateFails(i) ==
  /\ monitor' = FailedMonitor
  /\ webrtc' = IF refreshes[i].session = webrtc.session /\ webrtc.phase = "running"
               THEN [webrtc EXCEPT !.phase = "failed"] ELSE webrtc
  /\ refreshes' = Without(i)
  /\ UNCHANGED <<mtx, health, whep>>

-----------------------------------------------------------------------------

\* selectPlayer(): the bridge to the renderer may throw.
SelectWhep ==
  /\ webrtc.phase = "running"
  /\ \E d \in Publisher, phase \in {"connecting", "failed"} :
       /\ health[d] = "publisher-ready"
       /\ whep' = [phase |-> phase, device |-> d]
  /\ UNCHANGED <<webrtc, mtx, monitor, health, refreshes>>

ClearWhep ==
  /\ webrtc.phase # "disposed"
  /\ \E cleared \in BOOLEAN : whep' = ClearsWhep(cleared)
  /\ UNCHANGED <<webrtc, mtx, monitor, health, refreshes>>

\* The first frame of the current generation: its time is newer than the "now"
\* of every evaluation under way.
FirstFrame ==
  /\ whep.phase \in {"connecting", "playing"}
  /\ whep' = [whep EXCEPT !.phase = "playing"]
  /\ refreshes' = IF health[whep.device] = "publisher-ready"
                  THEN [i \in DOMAIN refreshes |-> [refreshes[i] EXCEPT !.stale = @ \cup {whep.device}]]
                  ELSE refreshes
  /\ UNCHANGED <<webrtc, mtx, monitor, health>>

WhepFails ==
  /\ whep.phase \in {"connecting", "playing"}
  /\ whep' = [whep EXCEPT !.phase = "failed"]
  /\ UNCHANGED <<webrtc, mtx, monitor, health, refreshes>>

WebrtcNext ==
  \/ StartHostUnavailable \/ StartWebrtc \/ StopWebrtc \/ ProcessExits \/ DisposeWebrtc
  \/ EvaluateBegins
  \/ \E i \in DOMAIN refreshes : EvaluateEnds(i) \/ EvaluateFails(i)
  \/ SelectWhep \/ ClearWhep \/ FirstFrame \/ WhepFails

WebrtcSpec == WebrtcInit /\ [][WebrtcNext]_webrtcVars

-----------------------------------------------------------------------------

\* Once the media side says it is idle, no MediaMTX it launched is left running
\* or waiting to end, whatever failed on the way: a start that was undone, a
\* stop in two halves, an exit that came late.
IdleIsReleased ==
  webrtc.phase = "idle" => mtx.phase \notin {"running", "stopping"}

=============================================================================
