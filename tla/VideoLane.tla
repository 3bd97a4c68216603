------------------------------ MODULE VideoLane ------------------------------
(***************************************************************************)
(* The RTMP stream of a phone: the stream dispatcher                       *)
(* (src/modules/live-stream-control/stream-dispatcher) with the listener   *)
(* that the operation workflow hangs on it.  Every publication of a lane   *)
(* runs synchronizeVideoSources() in the same turn, which may take the     *)
(* lane from the operation that published it.                              *)
(***************************************************************************)
EXTENDS DeviceCalls

CONSTANT MaxRestarts   \* start requests queued behind a stop

ASSUME VideoAssumption == MaxRestarts \in Nat

VARIABLE video         \* lanes, by device

VideoPhases == {"idle", "starting", "streaming", "stopping", "failed", "disconnected"}
Codes == {None, "SOURCE_UNAVAILABLE", "DISCONNECTED", "FAILURE"}

\* unavailable: the workflow keeps the phone in unavailableVideoSources.
VideoLanes ==
  [exists : BOOLEAN, phase : VideoPhases, busy : BOOLEAN, code : Codes,
   restarts : 0..MaxRestarts, unavailable : BOOLEAN]

VideoInit ==
  video = [d \in Device |->
    [exists |-> FALSE, phase |-> "idle", busy |-> FALSE, code |-> None,
     restarts |-> 0, unavailable |-> FALSE]]

Active(v) == v.phase \in {"starting", "streaming", "stopping"}
SourceAvailable(facts) == facts = Links

\* recordSourceUnavailable()
SourceUnavailable(v) ==
  IF Active(v)
  THEN [v EXCEPT !.phase = "failed", !.busy = FALSE, !.code = "SOURCE_UNAVAILABLE", !.restarts = 0]
  ELSE v

\* synchronizeVideoSources(), of a phone that is online.
Published(v, facts) ==
  IF SourceAvailable(facts) THEN [v EXCEPT !.unavailable = FALSE]
  ELSE IF v.unavailable \/ ~Active(v) THEN v
  ELSE [SourceUnavailable(v) EXCEPT !.unavailable = TRUE]

\* result() and the beginning of send().
Result(v, phase, code) ==
  [v EXCEPT !.exists = TRUE, !.busy = FALSE, !.phase = phase, !.code = code]
Sending(v, phase) ==
  [v EXCEPT !.exists = TRUE, !.busy = TRUE, !.phase = phase]

\* beginStart() for a lane that has become v, with the other calls awaited.
Refused(d, v, others) ==
  /\ video' = [video EXCEPT ![d] = [v EXCEPT !.exists = TRUE]]
  /\ calls' = others
  /\ UNCHANGED issued

MediaUnavailable(d, v, others) ==
  /\ video' = [video EXCEPT ![d] = Published(Result(v, "failed", "FAILURE"), links[d])]
  /\ calls' = others
  /\ UNCHANGED issued

BeginStartUnchecked(d, v, others) ==  \* mutant: what was checked once is not again
  \/ Refused(d, v, others)
  \/ ~v.busy /\ MediaUnavailable(d, v, others)
  \/ /\ ~v.busy
     /\ video' = [video EXCEPT ![d] = Published(Sending(v, "starting"), links[d])]
     /\ Issue(d, "live-stream.start", 0, 0, others)

BeginStart(d, v, others) ==
  \/ Refused(d, v, others)
  \/ /\ ~v.busy
     /\ SourceAvailable(links[d])
     /\ \/ MediaUnavailable(d, v, others)
        \/ /\ video' = [video EXCEPT ![d] = Published(Sending(v, "starting"), links[d])]
           /\ Issue(d, "live-stream.start", 0, 0, others)

\* start(): behind a stop it is queued, and otherwise begins.
StartStream(d) ==
  /\ online[d]
  /\ LET v == video[d]
     IN  IF v.busy /\ v.phase = "stopping"
         THEN /\ v.restarts < MaxRestarts
              /\ video' = [video EXCEPT ![d].restarts = @ + 1]
              /\ UNCHANGED <<calls, issued>>
         ELSE BeginStart(d, v, calls)
  /\ UNCHANGED <<online, session, links>>

\* stop(), up to its await: no gate, and the command is sent even if the
\* publication of "stopping" has just failed the lane.
StopStream(d) ==
  /\ online[d]
  /\ ~video[d].busy
  /\ video' = [video EXCEPT ![d] = Published(Sending(@, "stopping"), links[d])]
  /\ Issue(d, "live-stream.stop", 0, 0, calls)
  /\ UNCHANGED <<online, session, links>>

\* The lane after the await of send(), and whether the caller is told ok.
Overtaken(v) ==
  \/ v.phase = "disconnected"
  \/ v.phase = "failed" /\ v.code = "SOURCE_UNAVAILABLE"

AfterAwait(v, c, ok) ==
  IF Overtaken(v) THEN v
  ELSE IF ~ok THEN Published(Result(v, "failed", "FAILURE"), links[c.device])
  ELSE IF c.command = "live-stream.start"
  THEN Published(Result(v, "streaming", None), links[c.device])
  ELSE Published(Result(v, "idle", None), links[c.device])

ContinueStreamSuccessesOnly(c, ok) ==  \* mutant: a failed stop forgets the queue
  LET d == c.device
      v == AfterAwait(video[d], c, ok)
      told == ok /\ ~Overtaken(video[d])
      restarts == told /\ c.command = "live-stream.stop" /\ v.restarts > 0
  IN  IF restarts THEN BeginStart(d, [v EXCEPT !.restarts = 0], calls \ {c})
      ELSE video' = [video EXCEPT ![d] = v] /\ Ends(c)

\* ... followed by settleQueuedRestart() after a stop.
ContinueStream(c, ok) ==
  LET d == c.device
      v == AfterAwait(video[d], c, ok)
      told == ok /\ ~Overtaken(video[d])
  IN  IF c.command = "live-stream.start"
      THEN video' = [video EXCEPT ![d] = v] /\ Ends(c)
      ELSE IF told /\ v.restarts > 0
      THEN BeginStart(d, [v EXCEPT !.restarts = 0], calls \ {c})
      ELSE video' = [video EXCEPT ![d] = [v EXCEPT !.restarts = 0]] /\ Ends(c)

AnswerStream(c) ==
  /\ c.command \in StreamCommands
  /\ \E ok \in BOOLEAN : (c.late => ~ok) /\ ContinueStream(c, ok)
  /\ UNCHANGED <<online, session, links>>

\* The media pipeline still has a stream of a phone whose source is gone: the
\* workflow notes it on its next publication.
MediaOutlivesSource(d) ==
  /\ online[d]
  /\ ~SourceAvailable(links[d])
  /\ ~Active(video[d])
  /\ video' = [video EXCEPT ![d].unavailable = TRUE]
  /\ UNCHANGED callVars

\* recordDisconnected()
VideoDisconnected(v) ==
  IF ~v.exists THEN v
  ELSE [v EXCEPT !.phase = "disconnected", !.busy = FALSE, !.code = "DISCONNECTED", !.restarts = 0]
=============================================================================
