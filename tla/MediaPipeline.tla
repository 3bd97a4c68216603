---------------------------- MODULE MediaPipeline ----------------------------
(***************************************************************************)
(* The media pipeline (src/modules/media-pipeline): the HTTP-FLV and the   *)
(* RTMP listener, the streams the phones publish, and the player.          *)
(*                                                                         *)
(* start() awaits the one listener and then the other; every other         *)
(* operation runs between two awaits.  A stream is made ready in the step  *)
(* that finds it published, so a stream is or is not in `streams`.         *)
(***************************************************************************)
CONSTANTS
  Device,     \* phones
  NoDevice    \* null

ASSUME MediaAssumption == NoDevice \notin Device

VARIABLES
  pipeline,     \* phase, the listeners it owns (httpFlvListening,
                \* rtmpListening) and the listener start() awaits
  service,      \* HttpFlvServer and RtmpIngest
  sockets,      \* external: the ports that are bound
  hearing,      \* the RTMP port reports to the pipeline
  publishing,   \* external: the phones that publish
  ingest,       \* RtmpIngest: what it was told of each phone
  streams,      \* the phones whose stream can be played
  invalidatedSources,
  player        \* VideoPlayer

mediaVars ==
  <<pipeline, service, sockets, hearing, publishing, ingest, streams,
    invalidatedSources, player>>

Socket == {"httpFlv", "rtmp"}
PipelinePhases == {"idle", "starting", "running", "failed", "disposed"}

\* closeFailed: the diagnostic of a close() that threw.
Service ==
  [phase : {"idle", "starting", "listening", "failed"}, closeFailed : BOOLEAN]

ServiceIn(phase) == [phase |-> phase, closeFailed |-> FALSE]
NothingIngested == [d \in Device |-> "none"]
EmptyPlayer == [phase |-> "idle", deviceId |-> NoDevice]

MediaInit ==
  /\ pipeline = [phase |-> "idle", owned |-> {}, awaits |-> "nothing"]
  /\ service = [s \in Socket |-> ServiceIn("idle")]
  /\ sockets = {}
  /\ hearing = FALSE
  /\ publishing = {}
  /\ ingest = NothingIngested
  /\ streams = {}
  /\ invalidatedSources = {}
  /\ player = EmptyPlayer

Disposed == pipeline.phase = "disposed"

-----------------------------------------------------------------------------
(* The listeners *)

\* stop() of the services in S: those of `closed` close, the others throw.
Stopped(S, closed) ==
  /\ service' = [s \in Socket |->
       IF s \notin S THEN service[s]
       ELSE IF s \in closed THEN ServiceIn("idle")
       ELSE [phase |-> "listening", closeFailed |-> TRUE]]
  /\ sockets' = sockets \ closed
  /\ hearing' = (hearing /\ "rtmp" \notin S)
  /\ publishing' = IF "rtmp" \in closed THEN {} ELSE publishing
  /\ ingest' = IF "rtmp" \in closed THEN NothingIngested ELSE ingest

Listening(S) == {s \in S : service[s].phase = "listening"}

\* listen() of a service resolves.
Binds(s) ==
  /\ sockets' = sockets \cup {s}
  /\ service' = [service EXCEPT ![s] = ServiceIn("listening")]

\* A listener that comes up after the disposal is closed again.
ClosesLate(s) ==
  \E closed \in SUBSET {s} :
    /\ service' = [service EXCEPT ![s] =
         IF s \in closed THEN ServiceIn("idle")
         ELSE [phase |-> "listening", closeFailed |-> TRUE]]
    /\ sockets' = sockets \cup ({s} \ closed)

-----------------------------------------------------------------------------
(* start() *)

Start ==
  /\ pipeline.phase \notin {"disposed", "starting"}
  /\ pipeline.owned = {}
  /\ pipeline' = [pipeline EXCEPT !.phase = "starting", !.awaits = "httpFlv"]
  /\ service' = [service EXCEPT !["httpFlv"] = ServiceIn("starting")]
  /\ UNCHANGED <<sockets, hearing, publishing, ingest, streams, invalidatedSources, player>>

\* No address a phone could reach.
StartUnresolved ==
  /\ pipeline.phase \notin {"disposed", "starting", "failed"}
  /\ pipeline.owned = {}
  /\ pipeline' = [pipeline EXCEPT !.phase = "failed"]
  /\ UNCHANGED <<service, sockets, hearing, publishing, ingest, streams, invalidatedSources, player>>

HttpFlvListens ==
  /\ pipeline.awaits = "httpFlv"
  /\ IF Disposed
     THEN /\ ClosesLate("httpFlv")
          /\ pipeline' = [pipeline EXCEPT !.awaits = "nothing"]
     ELSE /\ sockets' = sockets \cup {"httpFlv"}
          /\ service' = [service EXCEPT !["httpFlv"] = ServiceIn("listening"),
                                        !["rtmp"] = ServiceIn("starting")]
          /\ pipeline' = [pipeline EXCEPT !.owned = {"httpFlv"}, !.awaits = "rtmp"]
  /\ UNCHANGED <<hearing, publishing, ingest, streams, invalidatedSources, player>>

HttpFlvFails ==
  /\ pipeline.awaits = "httpFlv"
  /\ service' = [service EXCEPT !["httpFlv"] = ServiceIn("failed")]
  /\ pipeline' = [pipeline EXCEPT !.awaits = "nothing",
                                  !.phase = IF Disposed THEN @ ELSE "failed"]
  /\ UNCHANGED <<sockets, hearing, publishing, ingest, streams, invalidatedSources, player>>

\* mutant: the start takes no notice of a disposal.
RtmpListensRegardless ==
  /\ pipeline.awaits = "rtmp"
  /\ Binds("rtmp")
  /\ hearing' = TRUE
  /\ pipeline' = [pipeline EXCEPT !.awaits = "nothing"]
  /\ UNCHANGED <<publishing, ingest, streams, invalidatedSources, player>>

RtmpListens ==
  /\ pipeline.awaits = "rtmp"
  /\ IF Disposed
     THEN /\ ClosesLate("rtmp")
          /\ pipeline' = [pipeline EXCEPT !.awaits = "nothing"]
          /\ UNCHANGED hearing
     ELSE /\ Binds("rtmp")
          /\ hearing' = TRUE
          /\ pipeline' = [phase |-> "running", owned |-> Socket, awaits |-> "nothing"]
  /\ UNCHANGED <<publishing, ingest, streams, invalidatedSources, player>>

\* The HTTP-FLV listener goes with the RTMP listener that did not come up.
RtmpFails ==
  /\ pipeline.awaits = "rtmp"
  /\ \E closed \in SUBSET Listening(pipeline.owned) :
       /\ service' = [s \in Socket |->
            IF s = "rtmp" THEN ServiceIn("failed")
            ELSE IF s \notin pipeline.owned THEN service[s]
            ELSE IF s \in closed THEN ServiceIn("idle")
            ELSE [phase |-> "listening", closeFailed |-> TRUE]]
       /\ sockets' = sockets \ closed
       /\ pipeline' = [phase |-> IF Disposed THEN "disposed" ELSE "failed",
                       owned |-> pipeline.owned \ closed, awaits |-> "nothing"]
  /\ streams' = {}
  /\ ingest' = NothingIngested
  /\ UNCHANGED <<hearing, publishing, invalidatedSources, player>>

-----------------------------------------------------------------------------
(* The player *)

Cleared(ok) == [phase |-> IF ok THEN "idle" ELSE "failed", deviceId |-> NoDevice]

SelectPlayer ==
  /\ pipeline.phase = "running"
  /\ \E d \in streams, ok \in BOOLEAN :
       player' = [phase |-> IF ok THEN "playing" ELSE "failed", deviceId |-> d]
  /\ UNCHANGED <<pipeline, service, sockets, hearing, publishing, ingest, streams, invalidatedSources>>

PlayerFails ==
  /\ player.phase = "playing"
  /\ player' = [player EXCEPT !.phase = "failed"]
  /\ UNCHANGED <<pipeline, service, sockets, hearing, publishing, ingest, streams, invalidatedSources>>

ClearPlayer ==
  /\ ~Disposed
  /\ \E ok \in BOOLEAN : player' = Cleared(ok)
  /\ UNCHANGED <<pipeline, service, sockets, hearing, publishing, ingest, streams, invalidatedSources>>

-----------------------------------------------------------------------------
(* stop() and dispose() *)

StopForgettingFailures ==  \* mutant: a listener that did not close is let go
  /\ pipeline.phase \in {"running", "failed"}
  /\ \E closed \in SUBSET Listening(pipeline.owned), ok \in BOOLEAN :
       /\ Stopped(pipeline.owned, closed)
       /\ player' = Cleared(ok)
       /\ pipeline' = [pipeline EXCEPT !.owned = {},
            !.phase = IF closed = pipeline.owned /\ ok THEN "idle" ELSE "failed"]
  /\ streams' = {}
  /\ UNCHANGED invalidatedSources

Stop ==
  /\ pipeline.phase \in {"running", "failed"}
  /\ \E closed \in SUBSET Listening(pipeline.owned), ok \in BOOLEAN :
       /\ Stopped(pipeline.owned, closed)
       /\ player' = Cleared(ok)
       /\ pipeline' = [pipeline EXCEPT !.owned = @ \ closed,
            !.phase = IF closed = pipeline.owned /\ ok THEN "idle" ELSE "failed"]
  /\ streams' = {}
  /\ UNCHANGED invalidatedSources

Dispose ==
  /\ ~Disposed
  /\ \E closed \in SUBSET Listening(pipeline.owned), ok \in BOOLEAN :
       /\ Stopped(pipeline.owned, closed)
       /\ player' = Cleared(ok)
  /\ pipeline' = [pipeline EXCEPT !.phase = "disposed", !.owned = {}]
  /\ streams' = {}
  /\ UNCHANGED invalidatedSources

-----------------------------------------------------------------------------
(* The streams *)

SyncStreamsOfAll(told, invalidated) ==  \* mutant: an invalidated source returns
  {d \in Device : told[d] = "active" \/ (told[d] = "none" /\ d \in streams)}

\* syncStreams: what is published is playable, unless invalidated.
SyncStreams(told, invalidated) ==
  {d \in Device :
     \/ d \in streams /\ (d \in invalidated \/ told[d] # "ended")
     \/ told[d] = "active" /\ d \notin invalidated}

Evaluate ==
  /\ pipeline.phase = "running"
  /\ streams' = SyncStreams(ingest, invalidatedSources)
  /\ UNCHANGED <<pipeline, service, sockets, hearing, publishing, ingest, invalidatedSources, player>>

\* onPublished and onUnpublished; a phone that is not heard still publishes.
Told(d, phase) ==
  /\ ingest' = IF hearing /\ (phase = "active" \/ ingest[d] = "active")
               THEN [ingest EXCEPT ![d] = phase] ELSE ingest
  /\ streams' = IF hearing THEN SyncStreams(ingest', invalidatedSources) ELSE streams
  /\ UNCHANGED <<pipeline, service, sockets, hearing, invalidatedSources, player>>

Publish(d) ==
  /\ "rtmp" \in sockets
  /\ d \notin publishing
  /\ publishing' = publishing \cup {d}
  /\ Told(d, "active")

Unpublish(d) ==
  /\ d \in publishing
  /\ publishing' = publishing \ {d}
  /\ Told(d, "ended")

InvalidateStreamSource(d) ==
  /\ ~Disposed
  /\ invalidatedSources' = invalidatedSources \cup {d}
  /\ streams' = streams \ {d}
  /\ \E ok \in BOOLEAN :
       player' = IF player.deviceId = d THEN Cleared(ok) ELSE player
  /\ UNCHANGED <<pipeline, service, sockets, hearing, publishing, ingest>>

AllowStreamSource(d) ==
  /\ ~Disposed
  /\ invalidatedSources' = invalidatedSources \ {d}
  /\ streams' = SyncStreams(ingest, invalidatedSources \ {d})
  /\ UNCHANGED <<pipeline, service, sockets, hearing, publishing, ingest, player>>

-----------------------------------------------------------------------------

MediaNext ==
  \/ Start \/ StartUnresolved
  \/ HttpFlvListens \/ HttpFlvFails
  \/ RtmpListens \/ RtmpFails
  \/ Stop \/ Dispose
  \/ SelectPlayer \/ PlayerFails \/ ClearPlayer
  \/ Evaluate
  \/ \E d \in Device :
       \/ Publish(d) \/ Unpublish(d)
       \/ InvalidateStreamSource(d) \/ AllowStreamSource(d)

MediaSpec == MediaInit /\ [][MediaNext]_mediaVars

-----------------------------------------------------------------------------

MediaTypeOK ==
  /\ pipeline \in [phase : PipelinePhases, owned : SUBSET Socket,
                   awaits : Socket \cup {"nothing"}]
  /\ service \in [Socket -> Service]
  /\ sockets \subseteq Socket
  /\ hearing \in BOOLEAN
  /\ publishing \subseteq Device
  /\ ingest \in [Device -> {"none", "active", "ended"}]
  /\ streams \subseteq Device
  /\ invalidatedSources \subseteq Device
  /\ player \in [phase : {"idle", "playing", "failed"}, deviceId : Device \cup {NoDevice}]

\* A port that is bound is one the pipeline can still close: it owns the
\* listener, so that stop() tries again what failed.  Only the disposal gives a
\* listener up, after a close() that threw; a start() that the disposal
\* overtakes closes what it opened.
ListenersAreOwned ==
  \A s \in sockets :
    \/ s \in pipeline.owned
    \/ Disposed /\ service[s].closeFailed

\* A source that was invalidated (the phone lost its aircraft or its camera) is
\* neither playable nor played until it is allowed again, whatever the phone
\* publishes, however often it starts and ends, and across restarts.
InvalidatedIsDark ==
  \A d \in invalidatedSources : d \notin streams /\ player.deviceId # d

=============================================================================
