------------------------------ MODULE LowLatency ------------------------------
(***************************************************************************)
(* The low-latency facade (production/low-latency-media) over the WebRTC   *)
(* media side and the WHIP commands to the phones                          *)
(* (modules/whip-stream-control).  Its operations await one command after  *)
(* another; any of them may run while another waits.                       *)
(***************************************************************************)
EXTENDS WebrtcMedia, FiniteSets

CONSTANTS
  MaxStarts,  \* starts of the media side under the facade: a bound of the model
  MaxSends,   \* commands under way at once: a bound of the model
  MaxWork     \* operations of the facade under way at once: a bound of the model

ASSUME LowLatencyAssumption == MaxStarts \in Nat /\ MaxSends \in Nat /\ MaxWork \in Nat

VARIABLES
  lanes,      \* [Publisher -> the phase of its WHIP lane, "none" before the first], and busy
  sends,      \* commands awaiting their result: device, operation, the
              \* operation of the facade that waits, and whether the lane is
              \* there still, with or without a disconnection since (a ghost)
  work,       \* what stop(), refresh() and dispose() have left to stop
  lowLatency  \* disposed, and stopCompleted
lowLatencyVars == <<webrtcVars, lanes, sends, work, lowLatency>>

Works == {"stop", "refresh", "dispose"}
Phases == {"idle", "starting", "streaming", "stopping", "failed", "disconnected"}
NoWork == [running |-> FALSE, todo |-> {}, waits |-> FALSE, clean |-> TRUE, active |-> FALSE]

LowLatencyTypeOK ==
  /\ WebrtcTypeOK
  /\ lanes \in [Publisher -> [phase : Phases \cup {"none"}, busy : BOOLEAN]]
  /\ \A i \in DOMAIN sends :
       sends[i] \in [device : Publisher, operation : {"start", "stop"},
                     by : Works \cup {"user"}, lane : {"live", "cut", "gone"}]
  /\ work \in [Works -> [running : BOOLEAN, todo : SUBSET Publisher, waits : BOOLEAN,
                         clean : BOOLEAN, active : BOOLEAN]]
  /\ lowLatency \in [disposed : BOOLEAN, stopCompleted : BOOLEAN]

LowLatencyInit ==
  /\ WebrtcInit
  /\ lanes = [d \in Publisher |-> [phase |-> "none", busy |-> FALSE]]
  /\ sends = <<>>
  /\ work = [w \in Works |-> NoWork]
  /\ lowLatency = [disposed |-> FALSE, stopCompleted |-> FALSE]

-----------------------------------------------------------------------------
\* whip-stream-control

Active(lane) == lane.phase \in {"starting", "streaming", "stopping"}
ActiveLanes == {d \in Publisher : Active(lanes[d])}

\* send(): the lane is busy and the command leaves.
Sends(d, operation, by) ==
  /\ Len(sends) < MaxSends
  /\ lanes' = [lanes EXCEPT ![d] =
       [phase |-> IF operation = "start" THEN "starting" ELSE "stopping", busy |-> TRUE]]
  /\ sends' = Append(sends, [device |-> d, operation |-> operation, by |-> by, lane |-> "live"])

\* start(): the media side must be running, or the lane fails at once.  A
\* start that the gate or a busy lane refuses changes nothing.
StartWhip(d) ==
  /\ ~lowLatency.disposed
  /\ ~lanes[d].busy
  /\ IF webrtc.phase = "running" THEN Sends(d, "start", "user")
     ELSE lanes' = [lanes EXCEPT ![d] = [phase |-> "failed", busy |-> FALSE]] /\ UNCHANGED sends
  /\ UNCHANGED <<webrtcVars, work, lowLatency>>

StopWhip(d) ==
  /\ ~lowLatency.disposed
  /\ ~lanes[d].busy
  /\ Sends(d, "stop", "user")
  /\ UNCHANGED <<webrtcVars, work, lowLatency>>

\* mutant: a failed command leaves the lane as it was.
FinishOnSuccess(lane, operation, ok) ==
  IF ok THEN [phase |-> IF operation = "start" THEN "streaming" ELSE "idle", busy |-> FALSE]
  ELSE [lane EXCEPT !.busy = FALSE]
\* finish(), unless the lane was disconnected.
Finish(lane, operation, ok) ==
  IF lane.phase = "disconnected" THEN lane
  ELSE [phase |-> IF ~ok THEN "failed" ELSE IF operation = "start" THEN "streaming" ELSE "idle",
        busy |-> FALSE]

SendsWithout(i) ==
  [j \in 1..(Len(sends) - 1) |-> IF j < i THEN sends[j] ELSE sends[j + 1]]

\* The phone's result, the relay's refusal or its timeout.  The lane takes it
\* if it is there; the operation of the facade that waited goes on.
Replied ==
  \E i \in DOMAIN sends, ok \in BOOLEAN :
    LET d == sends[i].device IN
    /\ lanes' = IF sends[i].lane = "gone" THEN lanes
                ELSE [lanes EXCEPT ![d] = Finish(lanes[d], sends[i].operation, ok)]
    /\ sends' = SendsWithout(i)
    /\ work' = IF sends[i].by = "user" THEN work
               ELSE [work EXCEPT ![sends[i].by].waits = FALSE,
                                 ![sends[i].by].clean =
                                   work[sends[i].by].clean /\ ok /\ sends[i].lane # "gone" /\ lanes[d].phase # "disconnected"]
    /\ UNCHANGED <<webrtcVars, lowLatency>>

RecordDisconnected(d) ==
  /\ lanes[d].phase # "none"
  /\ lanes' = [lanes EXCEPT ![d] = [phase |-> "disconnected", busy |-> FALSE]]
  /\ sends' = [i \in DOMAIN sends |->
       IF sends[i].device = d /\ sends[i].lane = "live" THEN [sends[i] EXCEPT !.lane = "cut"] ELSE sends[i]]
  /\ UNCHANGED <<webrtcVars, work, lowLatency>>

\* A lane that is forgotten takes the commands under way with it.
Forget(d) ==
  /\ lanes[d].phase \in {"idle", "failed", "disconnected"}
  /\ lanes' = [lanes EXCEPT ![d] = [phase |-> "none", busy |-> FALSE]]
  /\ sends' = [i \in DOMAIN sends |->
       IF sends[i].device = d THEN [sends[i] EXCEPT !.lane = "gone"] ELSE sends[i]]
  /\ UNCHANGED <<webrtcVars, work, lowLatency>>

-----------------------------------------------------------------------------
\* low-latency-media

Begins(w, todo) ==
  /\ ~work[w].running
  /\ Cardinality({v \in Works : work[v].running}) < MaxWork
  /\ work' = [work EXCEPT ![w] = [running |-> TRUE, todo |-> todo, waits |-> FALSE,
                               clean |-> TRUE, active |-> todo # {}]]

StartMedia ==
  /\ ~lowLatency.disposed
  /\ webrtc.session < MaxStarts
  /\ StartWebrtc \/ StartHostUnavailable
  /\ lowLatency' = IF webrtc'.phase = "running" THEN [lowLatency EXCEPT !.stopCompleted = FALSE]
                   ELSE lowLatency
  /\ UNCHANGED <<lanes, sends, work>>

StopMedia ==
  /\ ~lowLatency.disposed
  /\ Begins("stop", ActiveLanes)
  /\ UNCHANGED <<webrtcVars, lanes, sends, lowLatency>>

\* refresh(): the paths are awaited, or the evaluation fails at once - the media side
\* does not run, or its monitor has failed - and every stream is stopped.
Refresh ==
  /\ ~lowLatency.disposed
  /\ \/ EvaluateBegins /\ UNCHANGED <<webrtc, work>>
     \/ /\ \/ EvaluateBegins /\ UNCHANGED refreshes
           \/ webrtc.phase # "running" /\ UNCHANGED webrtcVars
        /\ Begins("refresh", ActiveLanes)
  /\ UNCHANGED <<lanes, sends, lowLatency>>

\* refresh() goes on: without the paths every stream is stopped, else those
\* whose publisher or player failed.
RefreshGoesOn(i) ==
  /\ EvaluateEnds(i) \/ EvaluateFails(i)
  /\ LET evaluated == webrtc'.phase = "running" /\ refreshes[i].session = webrtc.session
         failed == {d \in Publisher : health'[d] = "failed" \/ whep = [phase |-> "failed", device |-> d]}
     IN Begins("refresh", IF evaluated
                          THEN {d \in failed : lanes[d].phase \in {"starting", "streaming"}}
                          ELSE ActiveLanes)
  /\ UNCHANGED <<lanes, sends, lowLatency>>

\* The next stream to stop: sent and awaited, or refused because the lane is
\* busy or the gate is closed.
StopsNext(w) ==
  /\ work[w].running /\ ~work[w].waits
  /\ \E d \in work[w].todo :
       LET rest == [work[w] EXCEPT !.todo = @ \ {d}] IN
       \/ /\ ~lanes[d].busy
          /\ Sends(d, "stop", w)
          /\ work' = [work EXCEPT ![w] = [rest EXCEPT !.waits = TRUE]]
       \/ /\ work' = [work EXCEPT ![w] = [rest EXCEPT !.clean = FALSE]]
          /\ UNCHANGED <<lanes, sends>>
  /\ UNCHANGED <<webrtcVars, lowLatency>>

Done(w) == work[w].running /\ ~work[w].waits /\ work[w].todo = {}

\* media.stop(), which refuses when there is nothing to stop.
StopsWebrtc ==
  IF webrtc.phase \in {"running", "failed", "stopping"} THEN StopWebrtc ELSE UNCHANGED webrtcVars
StopWasOk == webrtc.phase \in {"running", "failed", "stopping"} /\ webrtc'.phase # "failed"

StopEnds ==
  /\ Done("stop")
  /\ IF work["stop"].clean /\ ~work["stop"].active /\ webrtc.phase = "idle"
     THEN lowLatency' = [lowLatency EXCEPT !.stopCompleted = TRUE] /\ UNCHANGED webrtcVars
     ELSE StopsWebrtc /\ lowLatency' = [lowLatency EXCEPT !.stopCompleted = StopWasOk]
  /\ work' = [work EXCEPT !["stop"] = NoWork]
  /\ UNCHANGED <<lanes, sends>>

RefreshEnds ==
  /\ Done("refresh")
  /\ work' = [work EXCEPT !["refresh"] = NoWork]
  /\ UNCHANGED <<webrtcVars, lanes, sends, lowLatency>>

DisposeMedia ==
  /\ ~lowLatency.disposed
  /\ Begins("dispose", IF lowLatency.stopCompleted THEN {} ELSE ActiveLanes)
  /\ UNCHANGED <<webrtcVars, lanes, sends, lowLatency>>

\* media.stop(), whose failures are ignored, and media.dispose() undo the same.
DisposeEnds ==
  /\ Done("dispose")
  /\ IF webrtc.phase = "disposed" THEN UNCHANGED webrtcVars ELSE DisposeWebrtc
  /\ lowLatency' = [lowLatency EXCEPT !.disposed = TRUE]
  /\ work' = [work EXCEPT !["dispose"] = NoWork]
  /\ UNCHANGED <<lanes, sends>>

\* The player and MediaMTX, with nothing of the facade in between.
MediaMoves ==
  /\ \/ ~lowLatency.disposed /\ (SelectWhep \/ ClearWhep)
     \/ FirstFrame \/ WhepFails \/ ProcessExits
  /\ UNCHANGED <<lanes, sends, work, lowLatency>>

LowLatencyNext ==
  \/ \E d \in Publisher : StartWhip(d) \/ StopWhip(d) \/ RecordDisconnected(d) \/ Forget(d)
  \/ Replied
  \/ StartMedia \/ StopMedia \/ StopEnds
  \/ Refresh \/ RefreshEnds
  \/ \E i \in DOMAIN refreshes : RefreshGoesOn(i)
  \/ DisposeMedia \/ DisposeEnds
  \/ \E w \in Works : StopsNext(w)
  \/ MediaMoves

LowLatencySpec == LowLatencyInit /\ [][LowLatencyNext]_lowLatencyVars

-----------------------------------------------------------------------------

\* A WHIP lane never waits for nobody: while it is starting or stopping some
\* command of its device is under way, whose end will move it on, also after
\* disconnections, overlapping stops and replies that come out of order.
WhipLanesAreOwed ==
  \A d \in Publisher :
    lanes[d].phase \in {"starting", "stopping"} => \E i \in DOMAIN sends : sends[i].device = d

\* What the low latency side has under way comes to an end: its lanes are owed
\* an answer (whip-stream-control), and once it is idle MediaMTX is gone
\* (webrtc-media).
UnderWayEnds == WhipLanesAreOwed /\ IdleIsReleased

\* "A disconnection invalidates the results under way": a lane whose own
\* command has not been answered stays busy, whatever answers arrive to the
\* commands of before a disconnection.
UnansweredKeepsTheLane ==
  \A i \in DOMAIN sends : sends[i].lane = "live" => lanes[sends[i].device].busy

=============================================================================
