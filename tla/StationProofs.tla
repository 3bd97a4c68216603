---------------------------- MODULE StationProofs ----------------------------
(***************************************************************************)
(* Theorems about the media pipeline, about the desktop program around it, *)
(* and about the WebRTC side with its facade and WHIP lanes, for any set   *)
(* of phones and any number of page reloads, sessions and commands.        *)
(***************************************************************************)
EXTENDS MCStation, Integers, SequenceTheorems, FiniteSetTheorems, TLAPS

-----------------------------------------------------------------------------
(* The media pipeline *)

LEMMA ServiceTypes ==
  /\ \A phase \in {"idle", "starting", "listening", "failed"} : ServiceIn(phase) \in Service
  /\ [phase |-> "listening", closeFailed |-> TRUE] \in Service
  /\ \A phase : ServiceIn(phase).closeFailed = FALSE
BY DEF Service, ServiceIn

LEMMA PlayerTypes ==
  ASSUME NEW ok \in BOOLEAN
  PROVE  Cleared(ok) \in [phase : {"idle", "playing", "failed"}, deviceId : Device \cup {NoDevice}]
BY DEF Cleared

\* stop() of some services, whichever of them close.
LEMMA StoppedType ==
  ASSUME MediaTypeOK, NEW S \in SUBSET Socket, NEW closed, Stopped(S, closed)
  PROVE  /\ service' \in [Socket -> Service]
         /\ sockets' \subseteq Socket
         /\ hearing' \in BOOLEAN
         /\ publishing' \subseteq Device
         /\ ingest' \in [Device -> {"none", "active", "ended"}]
<1>1. service' \in [Socket -> Service]
  BY ServiceTypes DEF MediaTypeOK, Stopped
<1>2. ingest' \in [Device -> {"none", "active", "ended"}]
  BY DEF MediaTypeOK, Stopped, NothingIngested
<1> QED
  BY <1>1, <1>2 DEF MediaTypeOK, Stopped

LEMMA SyncType ==
  ASSUME NEW told, NEW invalidated
  PROVE  SyncStreams(told, invalidated) \subseteq Device
BY DEF SyncStreams

LEMMA LateType ==
  ASSUME MediaTypeOK, NEW s \in Socket, ClosesLate(s)
  PROVE  service' \in [Socket -> Service] /\ sockets' \subseteq Socket
<1> PICK closed \in SUBSET {s} :
      /\ service' = [service EXCEPT ![s] =
           IF s \in closed THEN ServiceIn("idle")
           ELSE [phase |-> "listening", closeFailed |-> TRUE]]
      /\ sockets' = sockets \cup ({s} \ closed)
  BY DEF ClosesLate
<1> QED
  BY ServiceTypes DEF MediaTypeOK

LEMMA ListenersType ==
  ASSUME MediaTypeOK,
         \/ Start \/ StartUnresolved \/ HttpFlvListens \/ HttpFlvFails
         \/ RtmpListens \/ RtmpFails \/ Stop \/ Dispose
  PROVE  MediaTypeOK'
<1> DEFINE P == [phase : PipelinePhases, owned : SUBSET Socket, awaits : Socket \cup {"nothing"}]
<1>p. pipeline \in P
  BY DEF MediaTypeOK
<1>s. "httpFlv" \in Socket /\ "rtmp" \in Socket /\ \A x \in Socket : {x} \in SUBSET Socket
  BY DEF Socket
<1> HIDE DEF P
<1>1. CASE Start \/ StartUnresolved
  <2>1. pipeline' \in P
    <3>1. CASE Start
      BY <1>p, <3>1 DEF Start, P, Socket, PipelinePhases
    <3>2. CASE StartUnresolved
      BY <1>p, <3>2 DEF StartUnresolved, P, Socket, PipelinePhases
    <3> QED
      BY <1>1, <3>1, <3>2
  <2>2. service' \in [Socket -> Service]
    BY <1>1, ServiceTypes DEF Start, StartUnresolved, MediaTypeOK
  <2> QED
    BY <1>1, <2>1, <2>2 DEF Start, StartUnresolved, MediaTypeOK, P
<1>2. CASE HttpFlvListens
  <2>1. pipeline' \in P
    <3>1. CASE Disposed
      BY <1>2, <1>p, <3>1 DEF HttpFlvListens, P, Socket
    <3>2. CASE ~Disposed
      <4>1. pipeline' = [pipeline EXCEPT !.owned = {"httpFlv"}, !.awaits = "rtmp"]
        BY <1>2, <3>2 DEF HttpFlvListens
      <4>2. {"httpFlv"} \in SUBSET Socket /\ "rtmp" \in Socket
        BY <1>s
      <4> QED
        BY <1>p, <4>1, <4>2 DEF P
    <3> QED
      BY <3>1, <3>2
  <2>2. service' \in [Socket -> Service] /\ sockets' \subseteq Socket
    <3>1. CASE Disposed
      BY <1>2, <1>s, <3>1, LateType DEF HttpFlvListens
    <3>2. CASE ~Disposed
      BY <1>2, <1>s, <3>2, ServiceTypes DEF HttpFlvListens, MediaTypeOK
    <3> QED
      BY <3>1, <3>2
  <2> QED
    BY <1>2, <2>1, <2>2 DEF HttpFlvListens, MediaTypeOK, P
<1>3. CASE HttpFlvFails
  <2>1. pipeline' \in P
    BY <1>p, <1>3 DEF HttpFlvFails, P, PipelinePhases
  <2>2. service' \in [Socket -> Service]
    BY <1>3, ServiceTypes DEF HttpFlvFails, MediaTypeOK
  <2> QED
    BY <1>3, <2>1, <2>2 DEF HttpFlvFails, MediaTypeOK, P
<1>4. CASE RtmpListens
  <2>1. pipeline' \in P
    BY <1>4, <1>p DEF RtmpListens, P, Socket, PipelinePhases
  <2>2. service' \in [Socket -> Service] /\ sockets' \subseteq Socket /\ hearing' \in BOOLEAN
    <3>1. CASE Disposed
      BY <1>4, <1>s, <3>1, LateType DEF RtmpListens, MediaTypeOK
    <3>2. CASE ~Disposed
      BY <1>4, <1>s, <3>2, ServiceTypes DEF RtmpListens, Binds, MediaTypeOK
    <3> QED
      BY <3>1, <3>2
  <2> QED
    BY <1>4, <2>1, <2>2 DEF RtmpListens, MediaTypeOK, P
<1>5. CASE RtmpFails
  <2>1. PICK closed \in SUBSET Listening(pipeline.owned) :
       /\ service' = [s \in Socket |->
            IF s = "rtmp" THEN ServiceIn("failed")
            ELSE IF s \notin pipeline.owned THEN service[s]
            ELSE IF s \in closed THEN ServiceIn("idle")
            ELSE [phase |-> "listening", closeFailed |-> TRUE]]
       /\ sockets' = sockets \ closed
       /\ pipeline' = [phase |-> IF Disposed THEN "disposed" ELSE "failed",
                       owned |-> pipeline.owned \ closed, awaits |-> "nothing"]
    BY <1>5 DEF RtmpFails
  <2>2. pipeline' \in P
    BY <1>p, <2>1 DEF P, PipelinePhases
  <2>3. service' \in [Socket -> Service]
    BY <2>1, ServiceTypes DEF MediaTypeOK
  <2>4. ingest' \in [Device -> {"none", "active", "ended"}]
    BY <1>5 DEF RtmpFails, NothingIngested
  <2> QED
    BY <1>5, <2>1, <2>2, <2>3, <2>4 DEF RtmpFails, MediaTypeOK, P
<1>6. CASE Stop \/ Dispose
  <2>1. PICK closed \in SUBSET Listening(pipeline.owned), ok \in BOOLEAN :
          Stopped(pipeline.owned, closed) /\ player' = Cleared(ok)
    BY <1>6 DEF Stop, Dispose
  <2>2. pipeline' \in P
    <3>2. CASE Stop
      BY <1>p, <3>2 DEF Stop, P, PipelinePhases
    <3>3. CASE Dispose
      BY <1>p, <3>3 DEF Dispose, P, PipelinePhases
    <3> QED
      BY <1>6, <3>2, <3>3
  <2>3. pipeline.owned \in SUBSET Socket
    BY <1>p DEF P
  <2>4. streams' = {} /\ UNCHANGED invalidatedSources
    BY <1>6 DEF Stop, Dispose
  <2> QED
    BY <2>1, <2>2, <2>3, <2>4, StoppedType, PlayerTypes DEF MediaTypeOK, P
<1> QED
  BY <1>1, <1>2, <1>3, <1>4, <1>5, <1>6

Playing == \/ SelectPlayer \/ PlayerFails \/ ClearPlayer
Streaming ==
  \/ Evaluate
  \/ \E d \in Device : \/ Publish(d) \/ Unpublish(d)
                       \/ InvalidateStreamSource(d) \/ AllowStreamSource(d)

LEMMA StreamsType ==
  ASSUME MediaTypeOK, Playing \/ Streaming
  PROVE  MediaTypeOK'
<1> DEFINE Q == [phase : {"idle", "playing", "failed"}, deviceId : Device \cup {NoDevice}]
<1>1. CASE Playing
  <2>1. player' \in Q
    <3>1. CASE SelectPlayer
      <4>1. PICK d \in streams, ok \in BOOLEAN :
              player' = [phase |-> IF ok THEN "playing" ELSE "failed", deviceId |-> d]
        BY <3>1 DEF SelectPlayer
      <4> QED
        BY <4>1 DEF MediaTypeOK
    <3>2. CASE PlayerFails
      BY <3>2 DEF PlayerFails, MediaTypeOK
    <3>3. CASE ClearPlayer
      BY <3>3, PlayerTypes DEF ClearPlayer
    <3> QED
      BY <1>1, <3>1, <3>2, <3>3 DEF Playing
  <2> HIDE DEF Q
  <2>2. UNCHANGED <<pipeline, service, sockets, hearing, publishing, ingest, streams,
                    invalidatedSources>>
    BY <1>1 DEF Playing, SelectPlayer, PlayerFails, ClearPlayer
  <2> QED
    BY <2>1, <2>2 DEF MediaTypeOK, Q
<1>2. CASE Evaluate
  BY <1>2, SyncType DEF Evaluate, MediaTypeOK
<1>3. ASSUME NEW d \in Device, Publish(d) \/ Unpublish(d) PROVE MediaTypeOK'
  <2>1. PICK phase \in {"active", "ended"} : Told(d, phase)
    BY <1>3 DEF Publish, Unpublish
  <2>2. ingest' \in [Device -> {"none", "active", "ended"}]
    <3>1. ingest' \in {ingest, [ingest EXCEPT ![d] = phase]}
      BY <2>1 DEF Told
    <3> QED
      BY <3>1 DEF MediaTypeOK
  <2>3. streams' \subseteq Device
    <3>1. streams' \in {streams, SyncStreams(ingest', invalidatedSources)}
      BY <2>1 DEF Told
    <3> QED
      BY <3>1, SyncType DEF MediaTypeOK
  <2>4. publishing' \subseteq Device
    BY <1>3 DEF Publish, Unpublish, MediaTypeOK
  <2> QED
    BY <2>1, <2>2, <2>3, <2>4 DEF Told, MediaTypeOK
<1>4. ASSUME NEW d \in Device, InvalidateStreamSource(d) PROVE MediaTypeOK'
  <2>1. player' \in Q
    BY <1>4, PlayerTypes DEF InvalidateStreamSource, MediaTypeOK
  <2> HIDE DEF Q
  <2> QED
    BY <1>4, <2>1 DEF InvalidateStreamSource, MediaTypeOK, Q
<1>5. ASSUME NEW d \in Device, AllowStreamSource(d) PROVE MediaTypeOK'
  BY <1>5, SyncType DEF AllowStreamSource, MediaTypeOK
<1> QED
  BY <1>1, <1>2, <1>3, <1>4, <1>5 DEF Streaming

LEMMA MediaTypeStep ==
  ASSUME MediaTypeOK, [MediaNext]_mediaVars
  PROVE  MediaTypeOK'
<1>1. CASE UNCHANGED mediaVars
  BY <1>1 DEF mediaVars, MediaTypeOK
<1>2. CASE MediaNext
  BY <1>2, ListenersType, StreamsType DEF MediaNext, Playing, Streaming
<1> QED
  BY <1>1, <1>2

\* The ports: until the disposal each bound one is owned, and what start() still
\* awaits is not bound yet; after it only those whose close() threw are bound.
PortInv ==
  /\ ~Disposed => sockets \subseteq pipeline.owned
  /\ Disposed => pipeline.owned = {} /\ \A s \in sockets : service[s].closeFailed
  /\ pipeline.awaits = "httpFlv" => sockets = {} /\ pipeline.owned = {}
  /\ pipeline.awaits = "rtmp" => "rtmp" \notin sockets

LEMMA ClosingKeepsPorts ==
  ASSUME MediaTypeOK, PortInv, Stop \/ Dispose
  PROVE  PortInv'
<1>0. PICK closed : /\ Stopped(pipeline.owned, closed) /\ ~Disposed
                    /\ pipeline'.awaits = pipeline.awaits
                    /\ \/ pipeline'.phase = "disposed" /\ pipeline'.owned = {}
                       \/ /\ pipeline'.phase # "disposed"
                          /\ pipeline'.owned = pipeline.owned \ closed
  <2>1. CASE Stop
    <3>1. PICK closed \in SUBSET Listening(pipeline.owned), ok \in BOOLEAN :
       /\ Stopped(pipeline.owned, closed)
       /\ pipeline' = [pipeline EXCEPT !.owned = @ \ closed,
            !.phase = IF closed = pipeline.owned /\ ok THEN "idle" ELSE "failed"]
      BY <2>1 DEF Stop
    <3>2. /\ pipeline'.owned = pipeline.owned \ closed
          /\ pipeline'.awaits = pipeline.awaits
          /\ pipeline'.phase \in {"idle", "failed"}
      BY <3>1 DEF MediaTypeOK
    <3>3. ~Disposed
      BY <2>1 DEF Stop, Disposed
    <3> QED
      BY <3>1, <3>2, <3>3
  <2>2. CASE Dispose
    <3>1. PICK closed \in SUBSET Listening(pipeline.owned) : Stopped(pipeline.owned, closed)
      BY <2>2 DEF Dispose
    <3>2. /\ pipeline'.owned = {} /\ pipeline'.awaits = pipeline.awaits
          /\ pipeline'.phase = "disposed" /\ ~Disposed
      BY <2>2 DEF Dispose, MediaTypeOK
    <3> QED
      BY <3>1, <3>2
  <2> QED
    BY <2>1, <2>2
<1>1. sockets \subseteq pipeline.owned /\ sockets' = sockets \ closed /\ sockets \subseteq Socket
  BY <1>0 DEF PortInv, Stopped, MediaTypeOK
<1>2. \A s \in sockets' : service'[s].closeFailed
  BY <1>0, <1>1 DEF Stopped
<1> QED
  BY <1>0, <1>1, <1>2 DEF PortInv, Disposed

LEMMA PortStep ==
  ASSUME MediaTypeOK, PortInv, [MediaNext]_mediaVars
  PROVE  PortInv'
<1>p. /\ pipeline \in [phase : PipelinePhases, owned : SUBSET Socket, awaits : Socket \cup {"nothing"}]
      /\ service \in [Socket -> Service] /\ sockets \subseteq Socket
      /\ "httpFlv" \in Socket /\ "rtmp" \in Socket /\ "nothing" \notin Socket
  BY DEF MediaTypeOK, Socket
<1>0. ASSUME UNCHANGED <<pipeline, service, sockets>> PROVE PortInv'
  BY <1>0 DEF PortInv, Disposed
<1>1. CASE Start
  <2>1. /\ pipeline'.phase = "starting" /\ pipeline'.owned = pipeline.owned
        /\ pipeline'.awaits = "httpFlv"
    BY <1>1, <1>p DEF Start
  <2> QED
    BY <1>1, <2>1 DEF Start, PortInv, Disposed
<1>2. CASE StartUnresolved
  <2>1. /\ pipeline'.phase = "failed" /\ pipeline'.owned = pipeline.owned
        /\ pipeline'.awaits = pipeline.awaits
    BY <1>2, <1>p DEF StartUnresolved
  <2> QED
    BY <1>2, <2>1 DEF StartUnresolved, PortInv, Disposed
\* Whatever comes up after the disposal is closed again, or says it was not.
<1>l. ASSUME NEW s \in Socket, Disposed, ClosesLate(s), s \notin sockets,
             pipeline' = [pipeline EXCEPT !.awaits = "nothing"]
      PROVE  PortInv'
  <2>1. /\ pipeline'.phase = pipeline.phase /\ pipeline'.owned = pipeline.owned
        /\ pipeline'.awaits = "nothing"
    BY <1>l, <1>p
  <2>2. PICK closed \in SUBSET {s} :
    /\ service' = [service EXCEPT ![s] =
         IF s \in closed THEN ServiceIn("idle")
         ELSE [phase |-> "listening", closeFailed |-> TRUE]]
    /\ sockets' = sockets \cup ({s} \ closed)
    BY <1>l DEF ClosesLate
  <2>3. \A x \in sockets' : service'[x].closeFailed
    <3> SUFFICES ASSUME NEW x \in sockets' PROVE service'[x].closeFailed
      OBVIOUS
    <3>1. CASE x = s
      <4>1. s \notin closed
        BY <1>l, <2>2, <3>1
      <4>2. service'[x] = [phase |-> "listening", closeFailed |-> TRUE]
        BY <1>p, <2>2, <3>1, <4>1
      <4> QED
        BY <4>2
    <3>2. CASE x # s
      <4>1. x \in sockets /\ service'[x] = service[x]
        BY <1>p, <2>2, <3>2
      <4> QED
        BY <1>l, <4>1 DEF PortInv
    <3> QED
      BY <3>1, <3>2
  <2> QED
    BY <1>l, <1>p, <2>1, <2>3 DEF PortInv, Disposed
<1>3. CASE HttpFlvListens
  <2>1. CASE Disposed
    BY <1>3, <1>l, <1>p, <2>1 DEF HttpFlvListens, PortInv
  <2>2. CASE ~Disposed
    <3>1. /\ pipeline'.phase = pipeline.phase /\ pipeline'.owned = {"httpFlv"}
          /\ pipeline'.awaits = "rtmp" /\ sockets' = sockets \cup {"httpFlv"}
      BY <1>3, <1>p, <2>2 DEF HttpFlvListens
    <3> QED
      BY <1>3, <2>2, <3>1 DEF HttpFlvListens, PortInv, Disposed
  <2> QED
    BY <2>1, <2>2
<1>4. CASE HttpFlvFails
  <2>1. /\ pipeline'.phase = IF Disposed THEN pipeline.phase ELSE "failed"
        /\ pipeline'.owned = pipeline.owned /\ pipeline'.awaits = "nothing"
        /\ sockets' = sockets /\ sockets = {}
    BY <1>4, <1>p DEF HttpFlvFails, PortInv
  <2> QED
    BY <1>p, <2>1 DEF PortInv, Disposed
<1>5. CASE RtmpListens
  <2>1. CASE Disposed
    BY <1>5, <1>l, <1>p, <2>1 DEF RtmpListens, PortInv
  <2>2. CASE ~Disposed
    <3>1. /\ pipeline'.phase = "running" /\ pipeline'.owned = Socket
          /\ pipeline'.awaits = "nothing" /\ sockets' = sockets \cup {"rtmp"}
      BY <1>5, <2>2 DEF RtmpListens, Binds
    <3> QED
      BY <1>p, <3>1 DEF PortInv, Disposed
  <2> QED
    BY <2>1, <2>2
<1>6. CASE RtmpFails
  <2>1. PICK closed \in SUBSET Listening(pipeline.owned) :
       /\ service' = [s \in Socket |->
            IF s = "rtmp" THEN ServiceIn("failed")
            ELSE IF s \notin pipeline.owned THEN service[s]
            ELSE IF s \in closed THEN ServiceIn("idle")
            ELSE [phase |-> "listening", closeFailed |-> TRUE]]
       /\ sockets' = sockets \ closed
       /\ pipeline' = [phase |-> IF Disposed THEN "disposed" ELSE "failed",
                       owned |-> pipeline.owned \ closed, awaits |-> "nothing"]
    BY <1>6 DEF RtmpFails
  <2>2. /\ pipeline'.phase = IF Disposed THEN "disposed" ELSE "failed"
        /\ pipeline'.owned = pipeline.owned \ closed /\ pipeline'.awaits = "nothing"
    BY <2>1
  <2>3. CASE Disposed
    <3>1. pipeline.owned = {} /\ \A s \in sockets : service[s].closeFailed /\ s # "rtmp"
      BY <1>6, <2>3 DEF RtmpFails, PortInv
    <3>2. \A s \in sockets' : service'[s] = service[s]
      BY <1>p, <2>1, <3>1
    <3> QED
      BY <2>1, <2>2, <2>3, <3>1, <3>2 DEF PortInv, Disposed
  <2>4. CASE ~Disposed
    BY <1>p, <2>1, <2>2, <2>4 DEF PortInv, Disposed
  <2> QED
    BY <2>3, <2>4
<1>7. CASE Stop \/ Dispose
  BY <1>7, ClosingKeepsPorts
<1>8. CASE Playing \/ Streaming
  BY <1>0, <1>8 DEF Playing, SelectPlayer, PlayerFails, ClearPlayer, Streaming, Evaluate,
     Publish, Unpublish, Told, InvalidateStreamSource, AllowStreamSource
<1> QED
  BY <1>0, <1>1, <1>2, <1>3, <1>4, <1>5, <1>6, <1>7, <1>8 DEF MediaNext, mediaVars, Playing, Streaming

\* Only the player, the streams and the invalidations decide what is dark.
LEMMA DarkStep ==
  ASSUME MediaTypeOK, InvalidatedIsDark, [MediaNext]_mediaVars
  PROVE  InvalidatedIsDark'
<1>n. NoDevice \notin Device /\ invalidatedSources \subseteq Device /\ streams \subseteq Device
  BY MediaAssumption DEF MediaTypeOK
<1>c. \A ok : Cleared(ok).deviceId = NoDevice
  BY DEF Cleared
\* syncStreams brings no invalidated source back.
<1>s. ASSUME NEW told, NEW invalidated, invalidated \subseteq invalidatedSources,
             streams' = SyncStreams(told, invalidated)
      PROVE  \A d \in invalidated : d \notin streams'
  BY <1>s DEF SyncStreams, InvalidatedIsDark
<1>1. CASE UNCHANGED <<streams, invalidatedSources, player>>
  BY <1>1 DEF InvalidatedIsDark
<1>2. CASE SelectPlayer
  <2>1. PICK d \in streams, ok \in BOOLEAN :
          player' = [phase |-> IF ok THEN "playing" ELSE "failed", deviceId |-> d]
    BY <1>2 DEF SelectPlayer
  <2>2. player'.deviceId = d
    BY <2>1
  <2> QED
    BY <1>2, <2>2 DEF SelectPlayer, InvalidatedIsDark
<1>3. CASE PlayerFails
  <2>1. player'.deviceId = player.deviceId
    BY <1>3 DEF PlayerFails, MediaTypeOK
  <2> QED
    BY <1>3, <2>1 DEF PlayerFails, InvalidatedIsDark
<1>4. CASE ClearPlayer
  BY <1>4, <1>n, <1>c DEF ClearPlayer, InvalidatedIsDark
<1>5. CASE Stop \/ Dispose
  <2>1. streams' = {} /\ UNCHANGED invalidatedSources /\ player'.deviceId = NoDevice
    BY <1>5, <1>c DEF Stop, Dispose
  <2> QED
    BY <1>n, <2>1 DEF InvalidatedIsDark
<1>6. CASE RtmpFails
  BY <1>6 DEF RtmpFails, InvalidatedIsDark
<1>7. CASE Evaluate
  BY <1>7, <1>s DEF Evaluate, InvalidatedIsDark
<1>8. ASSUME NEW d \in Device, Publish(d) \/ Unpublish(d) PROVE InvalidatedIsDark'
  <2>1. /\ streams' \in {streams, SyncStreams(ingest', invalidatedSources)}
        /\ UNCHANGED <<invalidatedSources, player>>
    BY <1>8 DEF Publish, Unpublish, Told
  <2> QED
    BY <1>s, <2>1 DEF InvalidatedIsDark
<1>9. ASSUME NEW d \in Device, InvalidateStreamSource(d) PROVE InvalidatedIsDark'
  BY <1>9, <1>n, <1>c DEF InvalidateStreamSource, InvalidatedIsDark
<1>10. ASSUME NEW d \in Device, AllowStreamSource(d) PROVE InvalidatedIsDark'
  BY <1>10, <1>s DEF AllowStreamSource, InvalidatedIsDark
<1> QED
  BY <1>1, <1>2, <1>3, <1>4, <1>5, <1>6, <1>7, <1>8, <1>9, <1>10
     DEF MediaNext, mediaVars, Start, StartUnresolved, HttpFlvListens, HttpFlvFails, RtmpListens

LEMMA MediaInitially ==
  ASSUME MediaInit
  PROVE  MediaTypeOK /\ PortInv /\ InvalidatedIsDark
<1>1. MediaTypeOK
  BY ServiceTypes DEF MediaInit, MediaTypeOK, PipelinePhases, NothingIngested, EmptyPlayer
<1>2. PortInv
  BY DEF MediaInit, PortInv, Disposed
<1>3. InvalidatedIsDark
  BY DEF MediaInit, InvalidatedIsDark
<1> QED
  BY <1>1, <1>2, <1>3

LEMMA MediaInductive == MediaSpec => [](MediaTypeOK /\ PortInv /\ InvalidatedIsDark)
<1>1. MediaInit => MediaTypeOK /\ PortInv /\ InvalidatedIsDark
  BY MediaInitially
<1>2. MediaTypeOK /\ PortInv /\ InvalidatedIsDark /\ [MediaNext]_mediaVars
        => (MediaTypeOK /\ PortInv /\ InvalidatedIsDark)'
  BY MediaTypeStep, PortStep, DarkStep
<1> QED
  BY <1>1, <1>2, PTL DEF MediaSpec

\* Every port that is bound can still be closed by stop(), or is one the
\* disposal tried to close in vain.
THEOREM PortsAreOwned == MediaSpec => []ListenersAreOwned
<1>1. PortInv => ListenersAreOwned
  BY DEF PortInv, ListenersAreOwned
<1> QED
  BY <1>1, MediaInductive, PTL

\* What the phone lost is neither playable nor played until it is allowed again.
THEOREM InvalidatedStaysDark == MediaSpec => []InvalidatedIsDark
  BY MediaInductive, PTL

-----------------------------------------------------------------------------
(* The desktop program *)

\* One operation at a time: what the application awaits is the runtime, what the
\* runtime awaits is the relay or the media, and nobody awaited has finished.
OperationInv ==
  /\ runtime.at = "relay" <=> relay \in {"starting", "stopping"}
  /\ runtime.at \in {"media", "streams"} => relay = "listening"
  /\ application.at = "runtime" <=> runtime.at # "nothing"
  /\ application.at = "missions" => application.phase = "stopping" /\ relay = "listening"
  /\ application.at = "runtime" => application.phase \in {"starting", "stopping"}
  /\ Settled => /\ application.phase \in {"idle", "running", "disposed"}
                /\ relay = IF Running THEN "listening" ELSE "stopped"
  /\ disposal = "finished" <=> Disposed
  /\ disposal = "finished" => application.phase = "disposed" /\ Settled

StationInv ==
  /\ StationTypeOK
  /\ PortInv
  /\ InvalidatedIsDark
  /\ OperationInv

\* Whatever the station does to its media, the media pipeline allows.
LEMMA StationMedia ==
  ASSUME [StationNext]_<<mediaVars, stationVars>>
  PROVE  [MediaNext]_mediaVars
BY DEF StationNext, ApplicationStart, RelayStarts, MediaStart, RelayStartFails, MediaStarted,
   MediaStartFailed, Stopping, MissionsStopped, StreamsStopped, RelayStopped, ApplicationDispose,
   DisposalStops, DisposalEnds, DisposedNow, ShellStart, PageLoads, PageFails, WindowsClosed,
   ShellStageRuns, ApplicationStageEnds, StageTimesOut, JournalFlushed, MediaSteps, MediaNext

\* Only the end of the disposal disposes of the media.
LEMMA OnlyDisposalDisposes ==
  ASSUME MediaTypeOK,
         \/ UNCHANGED pipeline
         \/ Start \/ StartUnresolved \/ HttpFlvListens \/ HttpFlvFails
         \/ RtmpListens \/ RtmpFails \/ Stop
  PROVE  Disposed' = Disposed
<1>p. pipeline \in [phase : PipelinePhases, owned : SUBSET Socket, awaits : Socket \cup {"nothing"}]
  BY DEF MediaTypeOK
<1>1. CASE UNCHANGED pipeline
  BY <1>1 DEF Disposed
<1>2. CASE Start \/ StartUnresolved
  BY <1>2, <1>p DEF Start, StartUnresolved, Disposed
<1>3. CASE HttpFlvListens \/ HttpFlvFails
  BY <1>3, <1>p DEF HttpFlvListens, HttpFlvFails, Disposed
<1>4. CASE RtmpListens
  BY <1>4, <1>p DEF RtmpListens, Disposed
<1>5. CASE RtmpFails
  <2>1. PICK o : pipeline' = [phase |-> IF Disposed THEN "disposed" ELSE "failed",
                              owned |-> o, awaits |-> "nothing"]
    BY <1>5 DEF RtmpFails
  <2>2. pipeline'.phase = IF Disposed THEN "disposed" ELSE "failed"
    BY <2>1
  <2> QED
    BY <2>2 DEF Disposed
<1>6. CASE Stop
  <2>1. PICK o, ok : pipeline' = [pipeline EXCEPT !.owned = o,
                                    !.phase = IF ok THEN "idle" ELSE "failed"]
    <3>1. PICK closed, fine : pipeline' = [pipeline EXCEPT !.owned = @ \ closed,
            !.phase = IF closed = pipeline.owned /\ fine THEN "idle" ELSE "failed"]
      BY <1>6 DEF Stop
    <3> DEFINE o == pipeline.owned \ closed
               ok == closed = pipeline.owned /\ fine
    <3>2. pipeline' = [pipeline EXCEPT !.owned = o, !.phase = IF ok THEN "idle" ELSE "failed"]
      BY <3>1
    <3> HIDE DEF o, ok
    <3> QED
      BY <3>2
  <2>2. pipeline'.phase \in {"idle", "failed"}
    BY <1>p, <2>1
  <2> QED
    BY <1>6, <2>2 DEF Stop, Disposed
<1> QED
  BY <1>1, <1>2, <1>3, <1>4, <1>5, <1>6

RuntimeRec == [phase : {"idle", "starting", "running", "stopping", "disposed"},
               at : {"nothing", "relay", "media", "streams"}]
ApplicationRec == [phase : {"idle", "starting", "running", "stopping", "disposed"},
                   at : {"nothing", "missions", "runtime"}]

\* The operations of the application: start, stop and what they wait for.
Operating ==
  \/ ApplicationStart \/ RelayStarts \/ RelayStartFails
  \/ MediaStarted \/ MediaStartFailed
  \/ Stopping \/ MissionsStopped \/ StreamsStopped \/ RelayStopped
  \/ DisposalStops

LEMMA OperatingStep ==
  ASSUME StationTypeOK, OperationInv, Operating, [MediaNext]_mediaVars
  PROVE  /\ OperationInv'
         /\ relay' \in {"stopped", "starting", "listening", "stopping"}
         /\ runtime' \in RuntimeRec /\ application' \in ApplicationRec
         /\ UNCHANGED <<disposal, shell, shutdown>>
<1>t. runtime \in RuntimeRec /\ application \in ApplicationRec /\ MediaTypeOK
  BY DEF StationTypeOK, RuntimeRec, ApplicationRec
<1>d. Disposed' = Disposed
  BY <1>t, OnlyDisposalDisposes
     DEF Operating, ApplicationStart, RelayStarts, MediaStart, RelayStartFails, MediaStarted,
         MediaStartFailed, Stopping, MissionsStopped, StreamsStopped, RelayStopped,
         DisposalStops, mediaVars
<1>u. UNCHANGED <<disposal, shell, shutdown>>
  BY DEF Operating, ApplicationStart, RelayStarts, RelayStartFails, MediaStarted,
     MediaStartFailed, Stopping, MissionsStopped, StreamsStopped, RelayStopped, DisposalStops
\* What the step leaves of the runtime and of the application, field by field.
<1>e. ASSUME NEW phase \in {"idle", "running"}, Ends(phase)
      PROVE  /\ runtime'.phase = phase /\ runtime'.at = "nothing"
             /\ application'.phase = phase /\ application'.at = "nothing"
             /\ runtime' \in RuntimeRec /\ application' \in ApplicationRec
  BY <1>e DEF Ends, RuntimeRec, ApplicationRec
<1>k. ASSUME runtime' = [runtime EXCEPT !.at = "media"] \/ runtime' = [runtime EXCEPT !.at = "relay"]
      PROVE  /\ runtime' \in RuntimeRec
             /\ runtime' = [runtime EXCEPT !.at = "media"] => runtime'.at = "media"
             /\ runtime' = [runtime EXCEPT !.at = "relay"] => runtime'.at = "relay"
  BY <1>k, <1>t DEF RuntimeRec
<1>1. CASE ApplicationStart
  <2>1. /\ runtime'.at = "relay" /\ application'.at = "runtime" /\ application'.phase = "starting"
        /\ runtime' \in RuntimeRec /\ application' \in ApplicationRec
    BY <1>1 DEF ApplicationStart, RuntimeRec, ApplicationRec
  <2> QED
    BY <1>1, <1>d, <1>u, <2>1 DEF ApplicationStart, OperationInv, Settled, Running
<1>2. CASE RelayStarts
  <2>1. runtime'.at = "media" /\ runtime' \in RuntimeRec
    BY <1>2, <1>k DEF RelayStarts
  <2> QED
    BY <1>2, <1>d, <1>u, <1>t, <2>1 DEF RelayStarts, OperationInv, Settled, Running
<1>3. CASE RelayStartFails
  BY <1>3, <1>d, <1>u, <1>e DEF RelayStartFails, OperationInv, Settled, Running
<1>4. CASE MediaStarted
  BY <1>4, <1>d, <1>u, <1>e DEF MediaStarted, MediaReturns, OperationInv, Settled, Running
<1>5. CASE MediaStartFailed
  <2>1. runtime'.at = "relay" /\ runtime' \in RuntimeRec
    BY <1>5, <1>k DEF MediaStartFailed
  <2> QED
    BY <1>5, <1>d, <1>u, <1>t, <2>1
       DEF MediaStartFailed, MediaReturns, OperationInv, Settled, Running
<1>6. CASE Stopping \/ DisposalStops
  <2>1. /\ application'.at = "missions" /\ application'.phase = "stopping"
        /\ application' \in ApplicationRec
    BY <1>6 DEF Stopping, DisposalStops, ApplicationStop, ApplicationRec
  <2>2. /\ Settled /\ Running /\ UNCHANGED <<relay, runtime>> /\ disposal # "finished"
    BY <1>6 DEF Stopping, DisposalStops, ApplicationStop
  <2>3. runtime' \in RuntimeRec /\ relay' = "listening" /\ runtime'.at = "nothing"
    BY <1>t, <2>2 DEF OperationInv, Settled, RuntimeRec
  <2> QED
    BY <1>d, <1>u, <2>1, <2>2, <2>3 DEF OperationInv, Settled, Running
<1>7. CASE MissionsStopped
  <2>1. /\ application'.at = "runtime" /\ application'.phase = application.phase
        /\ application' \in ApplicationRec
        /\ runtime'.at = "streams" /\ runtime' \in RuntimeRec
    BY <1>7, <1>t DEF MissionsStopped, ApplicationRec, RuntimeRec
  <2> QED
    BY <1>7, <1>d, <1>u, <2>1 DEF MissionsStopped, OperationInv, Settled, Running
<1>8. CASE StreamsStopped
  <2>1. runtime'.at = "relay" /\ runtime' \in RuntimeRec
    BY <1>8, <1>k DEF StreamsStopped
  <2> QED
    BY <1>8, <1>d, <1>u, <1>t, <2>1 DEF StreamsStopped, OperationInv, Settled, Running
<1>9. CASE RelayStopped
  BY <1>9, <1>d, <1>u, <1>e DEF RelayStopped, OperationInv, Settled, Running
<1> QED
  BY <1>u, <1>1, <1>2, <1>3, <1>4, <1>5, <1>6, <1>7, <1>8, <1>9 DEF Operating

\* The end of the disposal, and the shutdown that waits for it.
LEMMA DisposalStep ==
  ASSUME StationTypeOK, OperationInv, DisposalEnds
  PROVE  /\ OperationInv' /\ disposal' = "finished"
         /\ runtime' \in RuntimeRec /\ application' \in ApplicationRec
         /\ UNCHANGED <<relay, shell, shutdown>>
<1>1. runtime \in RuntimeRec /\ application \in ApplicationRec
  BY DEF StationTypeOK, RuntimeRec, ApplicationRec
<1>2. /\ runtime' \in RuntimeRec /\ runtime'.at = runtime.at
      /\ application' \in ApplicationRec /\ application'.at = application.at
      /\ application'.phase = "disposed"
  BY <1>1 DEF DisposalEnds, DisposedNow, RuntimeRec, ApplicationRec
<1>3. Disposed'
  <2>1. pipeline' = [pipeline EXCEPT !.phase = "disposed", !.owned = {}]
    BY DEF DisposalEnds, DisposedNow, Dispose
  <2>2. pipeline'.phase = "disposed"
    BY <2>1 DEF StationTypeOK, MediaTypeOK
  <2> QED
    BY <2>2 DEF Disposed
<1> QED
  BY <1>2, <1>3 DEF DisposalEnds, DisposedNow, OperationInv, Settled, Running

\* The window, the page and the stages of the shutdown.
Attending ==
  \/ ApplicationDispose \/ ShellStart \/ PageLoads \/ PageFails
  \/ WindowsClosed \/ ShellStageRuns \/ ApplicationStageEnds
  \/ StageTimesOut \/ JournalFlushed

ShellRec == [phase : {"new", "ready", "disposed"}, lock : {"new", "acquired", "released"},
             window : {"new", "created", "closed"},
             page : {"new", "loading", "loaded", "disposed"}, attempt : 0..MaxRetries + 1]

LEMMA AttendingStep ==
  ASSUME StationTypeOK, OperationInv, Attending \/ MediaSteps
  PROVE  /\ OperationInv'
         /\ UNCHANGED <<relay, runtime, application>>
         /\ disposal' \in {"none", "asked", "finished"}
         /\ shell' \in ShellRec
         /\ shutdown' \in [stage : 0..4, clean : BOOLEAN, begun : BOOLEAN]
<1>t. /\ MaxRetries \in 0..3 /\ MediaTypeOK /\ shell \in ShellRec
      /\ disposal \in {"none", "asked", "finished"}
      /\ shutdown \in [stage : 0..4, clean : BOOLEAN, begun : BOOLEAN]
  BY StationAssumption DEF StationTypeOK, ShellRec, Stages
<1>u. UNCHANGED <<relay, runtime, application>>
  BY DEF Attending, ApplicationDispose, ShellStart, PageLoads, PageFails, WindowsClosed,
     ShellStageRuns, ApplicationStageEnds, StageTimesOut, JournalFlushed, MediaSteps, stationVars
<1>d. Disposed' = Disposed
  <2>1. CASE Attending
    BY <1>t, <2>1, OnlyDisposalDisposes
       DEF Attending, ApplicationDispose, ShellStart, PageLoads, PageFails, WindowsClosed,
           ShellStageRuns, ApplicationStageEnds, StageTimesOut, JournalFlushed, mediaVars
  <2>2. CASE MediaSteps
    BY <1>t, <2>2, OnlyDisposalDisposes
       DEF MediaSteps, SelectPlayer, PlayerFails, ClearPlayer, Evaluate, Publish, Unpublish,
           Told, InvalidateStreamSource, AllowStreamSource
  <2> QED
    BY <2>1, <2>2
<1>a. /\ disposal' \in {"none", "asked", "finished"}
      /\ disposal' = "finished" <=> disposal = "finished"
  BY <1>t DEF Attending, ApplicationDispose, AskDisposal, ShellStart, PageLoads, PageFails,
     WindowsClosed, ShellStageRuns, ShellDispose, ApplicationStageEnds, StageTimesOut,
     JournalFlushed, MediaSteps, stationVars
<1>s. shell' \in ShellRec
  <2>1. CASE UNCHANGED shell
    BY <1>t, <2>1
  <2>2. CASE ShellStart
    <3>1. PICK window : shell' =
            IF shell.lock = "released" \/ shell.window = "closed" THEN shell
            ELSE IF window = "created"
            THEN [shell EXCEPT !.lock = "acquired", !.window = "created",
                               !.page = "loading", !.attempt = 1]
            ELSE [shell EXCEPT !.lock = "released"]
      BY <2>2 DEF ShellStart
    <3>2. 1 \in 0..MaxRetries + 1
      BY <1>t
    <3> QED
      BY <1>t, <3>1, <3>2 DEF ShellRec
  <2>3. CASE PageLoads
    BY <1>t, <2>3 DEF PageLoads, ShellRec
  <2>4. CASE PageFails
    <3>1. shell.attempt \in 0..MaxRetries + 1
      BY <1>t DEF ShellRec
    <3>2. CASE RetriesLeft
      <4>1. shell.attempt + 1 \in 0..MaxRetries + 1
        BY <1>t, <3>1, <3>2 DEF RetriesLeft
      <4>2. shell' = [shell EXCEPT !.attempt = shell.attempt + 1]
        BY <2>4, <3>2 DEF PageFails
      <4> QED
        BY <1>t, <4>1, <4>2 DEF ShellRec
    <3>3. CASE ~RetriesLeft
      <4>1. shell' = [shell EXCEPT !.page = "new", !.window = "closed", !.lock = "released"]
        BY <2>4, <3>3 DEF PageFails
      <4> QED
        BY <1>t, <4>1 DEF ShellRec
    <3> QED
      BY <3>2, <3>3
  <2>5. CASE ShellStageRuns
    BY <1>t, <2>5 DEF ShellStageRuns, ShellDispose, ShellRec
  <2> QED
    BY <2>1, <2>2, <2>3, <2>4, <2>5
       DEF Attending, ApplicationDispose, WindowsClosed, ApplicationStageEnds, StageTimesOut,
           JournalFlushed, MediaSteps, stationVars
<1>h. shutdown' \in [stage : 0..4, clean : BOOLEAN, begun : BOOLEAN]
  <2>1. CASE UNCHANGED shutdown
    BY <1>t, <2>1
  <2>2. CASE WindowsClosed \/ ShellStageRuns \/ ApplicationStageEnds \/ JournalFlushed
    <3>1. PICK n \in {1, 2, 3, 4}, begun \in BOOLEAN :
            shutdown' = [shutdown EXCEPT !.begun = begun, !.stage = n]
      <4>1. \/ shutdown' = [shutdown EXCEPT !.begun = TRUE, !.stage = 1]
            \/ \E n \in {2, 3, 4} : shutdown' = [shutdown EXCEPT !.stage = n]
        BY <2>2 DEF WindowsClosed, ShellStageRuns, ApplicationStageEnds, JournalFlushed
      <4>2. ASSUME NEW n, shutdown' = [shutdown EXCEPT !.stage = n]
            PROVE  shutdown' = [shutdown EXCEPT !.begun = shutdown.begun, !.stage = n]
        BY <1>t, <4>2
      <4>3. shutdown.begun \in BOOLEAN
        BY <1>t
      <4> QED
        BY <4>1, <4>2, <4>3
    <3>2. n \in 0..4
      OBVIOUS
    <3> QED
      BY <1>t, <3>1, <3>2
  <2>3. CASE StageTimesOut
    <3>1. shutdown.stage + 1 \in 0..4
      BY <2>3 DEF StageTimesOut, Stage
    <3>2. shutdown' = [shutdown EXCEPT !.stage = shutdown.stage + 1, !.clean = FALSE]
      BY <2>3 DEF StageTimesOut
    <3> QED
      BY <1>t, <3>1, <3>2
  <2> QED
    BY <2>1, <2>2, <2>3
       DEF Attending, ApplicationDispose, ShellStart, PageLoads, PageFails, MediaSteps, stationVars
<1> QED
  BY <1>u, <1>d, <1>a, <1>s, <1>h DEF OperationInv, Settled, Running

LEMMA StationStep ==
  ASSUME StationInv, [StationNext]_<<mediaVars, stationVars>>
  PROVE  StationInv'
<1>m. MediaTypeOK' /\ PortInv' /\ InvalidatedIsDark'
  BY StationMedia, MediaTypeStep, PortStep, DarkStep DEF StationInv, StationTypeOK
<1>1. CASE UNCHANGED <<mediaVars, stationVars>>
  BY <1>m, <1>1
     DEF StationInv, StationTypeOK, OperationInv, Settled, Running, Disposed, mediaVars, stationVars
<1>2. CASE Operating
  <2>1. [MediaNext]_mediaVars
    BY StationMedia
  <2> QED
    BY <1>m, <1>2, <2>1, OperatingStep DEF StationInv, StationTypeOK, RuntimeRec, ApplicationRec
<1>3. CASE DisposalEnds
  BY <1>m, <1>3, DisposalStep DEF StationInv, StationTypeOK, RuntimeRec, ApplicationRec
<1>4. CASE Attending \/ MediaSteps
  <2>1. Len(Stages) = 4
    BY DEF Stages
  <2> QED
    BY <1>m, <1>4, <2>1, AttendingStep DEF StationInv, StationTypeOK, ShellRec
<1> QED
  BY <1>1, <1>2, <1>3, <1>4 DEF StationNext, Operating, Attending

LEMMA StationInductive == StationSpec => []StationInv
<1>1. StationInit => StationInv
  <2> SUFFICES ASSUME StationInit PROVE StationInv
    OBVIOUS
  <2>1. MediaTypeOK /\ PortInv /\ InvalidatedIsDark
    BY MediaInitially DEF StationInit
  <2>2. StationTypeOK
    BY <2>1, StationAssumption DEF StationInit, StationTypeOK, Unstarted, Stages
  <2>3. OperationInv
    BY DEF StationInit, OperationInv, Unstarted, Settled, Running, MediaInit, Disposed
  <2> QED
    BY <2>1, <2>2, <2>3 DEF StationInv
<1>2. StationInv /\ [StationNext]_<<mediaVars, stationVars>> => StationInv'
  BY StationStep
<1> QED
  BY <1>1, <1>2, PTL DEF StationSpec

\* Type correctness of the desktop program.
THEOREM StationTypeCorrect == StationSpec => []StationTypeOK
<1>1. StationInv => StationTypeOK
  BY DEF StationInv
<1> QED
  BY <1>1, StationInductive, PTL

\* Whenever dispose() is called, also while the start or the stop is suspended,
\* nothing goes on, listens or stays bound once it has returned; and a start of
\* which one half failed, and a stop, have stopped the other half.
THEOREM EndsComplete == StationSpec => []EndsAreComplete
<1>1. StationInv => DisposalIsComplete
  <2> SUFFICES ASSUME StationInv, disposal = "finished"
               PROVE  /\ Settled /\ runtime.at = "nothing" /\ relay = "stopped"
                      /\ \A s \in sockets : service[s].closeFailed
    BY DEF DisposalIsComplete
  <2>1. Settled /\ ~Running /\ Disposed /\ relay = "stopped"
    BY DEF StationInv, OperationInv, Running
  <2>2. runtime.at = "nothing"
    BY <2>1 DEF StationInv, OperationInv, Settled
  <2> QED
    BY <2>1, <2>2 DEF StationInv, PortInv
<1>2. StationInv => IdleIsStopped
  <2> SUFFICES ASSUME StationInv, application = Unstarted, ~Disposed
               PROVE  /\ relay = "stopped" /\ runtime.at = "nothing"
                      /\ sockets \subseteq pipeline.owned
    BY DEF IdleIsStopped
  <2>1. Settled /\ ~Running
    BY DEF Unstarted, Settled, Running
  <2> QED
    BY <2>1 DEF StationInv, OperationInv, Settled, PortInv
<1>3. StationInv => EndsAreComplete
  BY <1>1, <1>2 DEF EndsAreComplete
<1> QED
  BY <1>3, StationInductive, PTL

\* Under the desktop program the media keep what they promise by themselves.
THEOREM StationKeepsMedia == StationSpec => [](ListenersAreOwned /\ InvalidatedIsDark)
<1>1. StationInv => ListenersAreOwned /\ InvalidatedIsDark
  BY DEF StationInv, PortInv, ListenersAreOwned
<1> QED
  BY <1>1, StationInductive, PTL

-----------------------------------------------------------------------------
(* The WebRTC side and its WHIP lanes *)

\* The facade and its process are records; idle, it has none that runs.
ProcessInv ==
  /\ webrtc \in [phase : {"idle", "running", "stopping", "failed", "disposed"},
                 session : Nat, stopRequested : BOOLEAN, stopFailed : BOOLEAN]
  /\ mtx \in [phase : {"idle", "running", "stopping", "failed", "disposed"}, session : Nat]
  /\ IdleIsReleased

LEMMA StartReleases ==
  ASSUME ProcessInv, StartWebrtc
  PROVE  ProcessInv'
<1> DEFINE session == webrtc.session + 1
<1>1. session \in Nat
  BY DEF ProcessInv
<1> HIDE DEF session
<1>2. ASSUME NEW phase \in {"failed", "running"}, NEW requested \in BOOLEAN,
             webrtc' = [phase |-> phase, session |-> session, stopRequested |-> requested,
                        stopFailed |-> FALSE],
             \/ mtx' = mtx
             \/ mtx' \in [phase : {"idle", "running", "stopping", "failed"}, session : {session}]
      PROVE  ProcessInv'
  BY <1>1, <1>2 DEF ProcessInv, IdleIsReleased
<1>3. ASSUME NEW p \in Launches(session)
      PROVE  p = mtx \/ p \in [phase : {"idle", "running", "stopping", "failed"}, session : {session}]
  BY DEF Launches
<1> QED
  BY <1>2, <1>3 DEF StartWebrtc, session

LEMMA StopReleases ==
  ASSUME ProcessInv, StopWebrtc
  PROVE  ProcessInv'
<1>1. PICK ended \in Terminates :
        /\ mtx' = [mtx EXCEPT !.phase = ended]
        /\ \/ webrtc' = [webrtc EXCEPT !.phase = "failed", !.stopRequested = TRUE, !.stopFailed = TRUE]
           \/ Gone(ended) /\ webrtc' = FinishedIdle
           \/ webrtc' = [webrtc EXCEPT !.phase = "stopping", !.stopRequested = TRUE, !.stopFailed = FALSE]
  BY DEF StopWebrtc
<1>2. ended \in {"idle", "running", "stopping", "failed", "disposed"}
  BY DEF Terminates, ProcessInv
<1> QED
  BY <1>1, <1>2 DEF ProcessInv, IdleIsReleased, Gone, FinishedIdle

LEMMA ExitReleases ==
  ASSUME ProcessInv, ProcessExits
  PROVE  ProcessInv'
<1>1. mtx' \in [phase : {"idle", "failed"}, session : Nat]
  BY DEF ProcessExits, ExitedProcess, ProcessInv
<1>2. webrtc' \in {webrtc, FinishedIdle, [webrtc EXCEPT !.phase = "failed"]}
  BY DEF ProcessExits
<1> QED
  BY <1>1, <1>2 DEF ProcessInv, IdleIsReleased, FinishedIdle

\* The rest leaves the process alone, or disposes of it, and turns nothing idle.
LEMMA OthersRelease ==
  ASSUME ProcessInv,
         \/ StartHostUnavailable \/ DisposeWebrtc \/ EvaluateBegins
         \/ \E i \in DOMAIN refreshes : EvaluateEnds(i) \/ EvaluateFails(i)
         \/ SelectWhep \/ ClearWhep \/ FirstFrame \/ WhepFails \/ UNCHANGED webrtcVars
  PROVE  ProcessInv'
<1>1. \/ webrtc' = webrtc /\ mtx' = mtx
      \/ webrtc' = [webrtc EXCEPT !.phase = "failed"] /\ mtx' = mtx
      \/ /\ webrtc' = [webrtc EXCEPT !.phase = "disposed", !.stopRequested = TRUE, !.stopFailed = TRUE]
         /\ mtx' = [mtx EXCEPT !.phase = "disposed"]
  <2>1. CASE \E i \in DOMAIN refreshes : EvaluateEnds(i) \/ EvaluateFails(i)
    BY <2>1 DEF EvaluateEnds, EvaluateFails
  <2>2. CASE ~ \E i \in DOMAIN refreshes : EvaluateEnds(i) \/ EvaluateFails(i)
    BY <2>2 DEF StartHostUnavailable, DisposeWebrtc, DisposedProcess, EvaluateBegins, SelectWhep,
                ClearWhep, FirstFrame, WhepFails, webrtcVars
  <2> QED
    BY <2>1, <2>2
<1> QED
  BY <1>1 DEF ProcessInv, IdleIsReleased

LEMMA WebrtcReleases ==
  ASSUME ProcessInv, WebrtcNext \/ UNCHANGED webrtcVars
  PROVE  ProcessInv'
BY StartReleases, StopReleases, ExitReleases, OthersRelease DEF WebrtcNext

LEMMA WebrtcBegins == WebrtcInit => ProcessInv
BY DEF WebrtcInit, ProcessInv, IdleIsReleased

\* Once the media side says it is idle, no MediaMTX it launched is left running or
\* waiting to end, whatever failed in start() and stop() and whenever it exits.
THEOREM IdleReleases == WebrtcSpec => []IdleIsReleased
<1>1. ProcessInv /\ [WebrtcNext]_webrtcVars => ProcessInv'
  BY WebrtcReleases
<1>2. ProcessInv => IdleIsReleased
  BY DEF ProcessInv
<1> QED
  BY <1>1, <1>2, WebrtcBegins, PTL DEF WebrtcSpec

-----------------------------------------------------------------------------
\* A lane that starts or stops is owed the answer of a command sent since it was
\* last forgotten: the answers to those of before do not count.
LaneShape == [phase : Phases \cup {"none"}, busy : BOOLEAN]
SendShape == [device : Publisher, operation : {"start", "stop"},
              by : Works \cup {"user"}, lane : {"live", "cut", "gone"}]

OwedFor(d, under) == \E i \in DOMAIN under : under[i].device = d /\ under[i].lane # "gone"

WhipInv ==
  /\ lanes \in [Publisher -> LaneShape]
  /\ sends \in Seq(SendShape)
  /\ \A d \in Publisher : lanes[d].phase \in {"starting", "stopping"} => OwedFor(d, sends)

\* What is left of the commands when one is answered.
LEMMA WithoutSend ==
  ASSUME NEW i \in DOMAIN sends, sends \in Seq(SendShape)
  PROVE  /\ SendsWithout(i) \in Seq(SendShape)
         /\ \A j \in DOMAIN sends \ {i} : \E k \in DOMAIN SendsWithout(i) : SendsWithout(i)[k] = sends[j]
<1> DEFINE n == Len(sends)
           rest == SendsWithout(i)
<1>1. n \in Nat /\ DOMAIN sends = 1..n /\ i \in 1..n
  OBVIOUS
<1>2. rest = [j \in 1..(n - 1) |-> IF j < i THEN sends[j] ELSE sends[j + 1]]
  BY DEF SendsWithout
<1>3. DOMAIN rest = 1..(n - 1) /\ n - 1 \in Nat
  BY <1>1, <1>2
<1>4. \A j \in 1..(n - 1) : rest[j] \in SendShape
  BY <1>1, <1>2
<1>5. rest \in Seq(SendShape)
  BY <1>2, <1>3, <1>4
<1>6. ASSUME NEW j \in DOMAIN sends \ {i}
      PROVE  \E k \in DOMAIN rest : rest[k] = sends[j]
  <2>1. CASE j < i
    BY <1>1, <1>2, <2>1
  <2>2. CASE j > i
    <3>1. j - 1 \in 1..(n - 1) /\ ~(j - 1 < i) /\ (j - 1) + 1 = j
      BY <1>1, <2>2
    <3> QED
      BY <1>2, <3>1
  <2> QED
    BY <1>1, <2>1, <2>2
<1> QED
  BY <1>5, <1>6

\* One lane changes, and the commands of the others stay what they are.
LEMMA LaneChanges ==
  ASSUME WhipInv, NEW d \in Publisher, NEW l \in LaneShape,
         lanes' = [lanes EXCEPT ![d] = l], sends' \in Seq(SendShape),
         \A e \in Publisher \ {d} : OwedFor(e, sends) => OwedFor(e, sends'),
         l.phase \in {"starting", "stopping"} => OwedFor(d, sends')
  PROVE  WhipInv'
<1>1. lanes' \in [Publisher -> LaneShape]
  BY DEF WhipInv
<1>2. \A e \in Publisher : lanes'[e] = IF e = d THEN l ELSE lanes[e]
  BY DEF WhipInv
<1>3. \A e \in Publisher : lanes'[e].phase \in {"starting", "stopping"} => OwedFor(e, sends')
  BY <1>2 DEF WhipInv
<1> QED
  BY <1>1, <1>3 DEF WhipInv, OwedFor

LEMMA SendsOwe ==
  ASSUME WhipInv, NEW d \in Publisher, NEW operation \in {"start", "stop"},
         NEW by \in Works \cup {"user"}, Sends(d, operation, by)
  PROVE  WhipInv'
<1> DEFINE l == [phase |-> IF operation = "start" THEN "starting" ELSE "stopping", busy |-> TRUE]
           s == [device |-> d, operation |-> operation, by |-> by, lane |-> "live"]
<1>1. lanes' = [lanes EXCEPT ![d] = l] /\ sends' = Append(sends, s)
  BY DEF Sends
<1>2. l \in LaneShape /\ s \in SendShape /\ s.device = d /\ s.lane # "gone"
  BY DEF LaneShape, SendShape, Phases
<1> HIDE DEF l, s
<1>3. sends' \in Seq(SendShape) /\ sends \in Seq(SendShape)
  BY <1>1, <1>2 DEF WhipInv
<1>4. /\ DOMAIN sends' = 1..(Len(sends) + 1) /\ Len(sends) \in Nat
      /\ sends'[Len(sends) + 1] = s
      /\ \A i \in DOMAIN sends : i \in DOMAIN sends' /\ sends'[i] = sends[i]
  BY <1>1, <1>3
<1>5. OwedFor(d, sends') /\ \A e \in Publisher : OwedFor(e, sends) => OwedFor(e, sends')
  BY <1>2, <1>4 DEF OwedFor
<1> QED
  BY <1>1, <1>2, <1>3, <1>5, LaneChanges

\* The answer to a command of a forgotten lane is not what a lane waits for, and
\* any other ends the waiting.
LEMMA RepliedOwes ==
  ASSUME WhipInv, Replied
  PROVE  WhipInv'
<1> PICK i \in DOMAIN sends, ok \in BOOLEAN :
      /\ lanes' = IF sends[i].lane = "gone" THEN lanes
                  ELSE [lanes EXCEPT ![sends[i].device] =
                          Finish(lanes[sends[i].device], sends[i].operation, ok)]
      /\ sends' = SendsWithout(i)
  BY DEF Replied
<1> DEFINE d == sends[i].device
<1>0. sends \in Seq(SendShape) /\ sends[i] \in SendShape /\ d \in Publisher /\ lanes[d] \in LaneShape
  <2>1. sends \in Seq(SendShape) /\ lanes \in [Publisher -> LaneShape]
    BY DEF WhipInv
  <2>2. sends[i] \in SendShape
    BY <2>1
  <2>3. d \in Publisher
    BY <2>2 DEF SendShape
  <2> QED
    BY <2>1, <2>2, <2>3
<1>1. /\ sends' \in Seq(SendShape)
      /\ \A j \in DOMAIN sends \ {i} : \E k \in DOMAIN sends' : sends'[k] = sends[j]
  BY <1>0, WithoutSend
<1>2. \A e \in Publisher : OwedFor(e, sends) /\ (e # d \/ sends[i].lane = "gone") => OwedFor(e, sends')
  BY <1>1 DEF OwedFor
<1>3. CASE sends[i].lane = "gone"
  <2>1. UNCHANGED lanes /\ lanes \in [Publisher -> LaneShape]
    BY <1>3 DEF WhipInv
  <2>2. \A e \in Publisher : lanes[e].phase \in {"starting", "stopping"} => OwedFor(e, sends')
    BY <1>2, <1>3 DEF WhipInv
  <2> QED
    BY <1>1, <2>1, <2>2 DEF WhipInv, OwedFor
<1>4. CASE sends[i].lane # "gone"
  <2> DEFINE l == Finish(lanes[d], sends[i].operation, ok)
  <2>1. l \in LaneShape /\ l.phase \notin {"starting", "stopping"}
    BY <1>0 DEF Finish, LaneShape, Phases
  <2>2. lanes' = [lanes EXCEPT ![d] = l]
    BY <1>4
  <2> HIDE DEF l
  <2> QED
    BY <1>0, <1>1, <1>2, <2>1, <2>2, LaneChanges
<1> QED
  BY <1>3, <1>4

\* A lane that is disconnected or forgotten waits for nothing; the commands of the
\* others keep their lane.
LEMMA LeavesOwes ==
  ASSUME WhipInv, NEW d \in Publisher, RecordDisconnected(d) \/ Forget(d)
  PROVE  WhipInv'
<1>1. PICK l \in LaneShape :
        lanes' = [lanes EXCEPT ![d] = l] /\ l.phase \notin {"starting", "stopping"}
  <2>1. /\ [phase |-> "disconnected", busy |-> FALSE] \in LaneShape
        /\ [phase |-> "none", busy |-> FALSE] \in LaneShape
    BY DEF LaneShape, Phases
  <2> QED
    BY <2>1 DEF RecordDisconnected, Forget
<1>2. sends \in Seq(SendShape)
  BY DEF WhipInv
<1>3. /\ DOMAIN sends' = DOMAIN sends
      /\ \A i \in DOMAIN sends :
           \/ sends'[i] = sends[i]
           \/ /\ sends[i].device = d
              /\ sends'[i] \in {[sends[i] EXCEPT !.lane = "cut"], [sends[i] EXCEPT !.lane = "gone"]}
  BY DEF RecordDisconnected, Forget
<1>4. \A i \in DOMAIN sends : sends[i] \in SendShape
  BY <1>2
<1>5. \A i \in DOMAIN sends :
        /\ sends'[i] \in SendShape /\ sends'[i].device = sends[i].device
        /\ sends[i].device # d => sends'[i] = sends[i]
  BY <1>3, <1>4 DEF SendShape
<1>6. DOMAIN sends = 1..Len(sends) /\ Len(sends) \in Nat
  BY <1>2
<1>7. sends' \in [DOMAIN sends -> SendShape]
  <2>1. \A s \in SendShape : /\ [s EXCEPT !.lane = "cut"] \in SendShape
                             /\ [s EXCEPT !.lane = "gone"] \in SendShape
    BY DEF SendShape
  <2>2. CASE RecordDisconnected(d)
    BY <2>1, <2>2, <1>4 DEF RecordDisconnected
  <2>3. CASE Forget(d)
    BY <2>1, <2>3, <1>4 DEF Forget
  <2> QED
    BY <2>2, <2>3
<1>8. sends' \in Seq(SendShape)
  BY <1>6, <1>7
<1>9. \A e \in Publisher \ {d} : OwedFor(e, sends) => OwedFor(e, sends')
  BY <1>3, <1>5 DEF OwedFor
<1> QED
  BY <1>1, <1>8, <1>9, LaneChanges

\* What does not touch lanes and commands, or sends one.
LEMMA MediaOwes ==
  ASSUME WhipInv, UNCHANGED <<lanes, sends>>
  PROVE  WhipInv'
BY DEF WhipInv, OwedFor

LEMMA RequestsOwe ==
  ASSUME WhipInv, NEW d \in Publisher, StartWhip(d) \/ StopWhip(d)
  PROVE  WhipInv'
<1>1. CASE Sends(d, "start", "user") \/ Sends(d, "stop", "user")
  BY <1>1, SendsOwe
<1>2. CASE lanes' = [lanes EXCEPT ![d] = [phase |-> "failed", busy |-> FALSE]] /\ UNCHANGED sends
  <2>1. [phase |-> "failed", busy |-> FALSE] \in LaneShape /\ sends \in Seq(SendShape)
    BY DEF LaneShape, Phases, WhipInv
  <2> QED
    BY <1>2, <2>1, LaneChanges
<1> QED
  BY <1>1, <1>2 DEF StartWhip, StopWhip

LEMMA StopsNextOwes ==
  ASSUME WhipInv, NEW w \in Works, work[w].todo \subseteq Publisher, StopsNext(w)
  PROVE  WhipInv'
<1> PICK d \in work[w].todo : Sends(d, "stop", w) \/ UNCHANGED <<lanes, sends>>
  BY DEF StopsNext
<1>1. CASE Sends(d, "stop", w)
  BY <1>1, SendsOwe
<1> QED
  BY <1>1, MediaOwes

\* What an operation of the facade has left to stop are lanes of phones.
WorkShape ==
  [running : BOOLEAN, todo : SUBSET Publisher, waits : BOOLEAN, clean : BOOLEAN, active : BOOLEAN]

LEMMA WorkKept ==
  ASSUME work \in [Works -> WorkShape], WhipInv, [LowLatencyNext]_lowLatencyVars
  PROVE  work' \in [Works -> WorkShape]
<1>1. ASSUME NEW w \in Works, NEW todo \in SUBSET Publisher, Begins(w, todo)
      PROVE  work' \in [Works -> WorkShape]
  BY <1>1 DEF Begins, WorkShape
<1>2. ASSUME NEW w \in Works, NEW left \in WorkShape, work' = [work EXCEPT ![w] = left]
      PROVE  work' \in [Works -> WorkShape]
  BY <1>2
<1>3. NoWork \in WorkShape /\ "stop" \in Works /\ "refresh" \in Works /\ "dispose" \in Works
  BY DEF NoWork, WorkShape, Works
<1>4. ActiveLanes \subseteq Publisher
  BY DEF ActiveLanes
<1>5. CASE StopMedia
  BY <1>1, <1>3, <1>4, <1>5 DEF StopMedia
<1>6. CASE DisposeMedia
  BY <1>1, <1>3, <1>4, <1>6 DEF DisposeMedia
<1>7. ASSUME NEW i \in DOMAIN refreshes, RefreshGoesOn(i)
      PROVE  work' \in [Works -> WorkShape]
  <2>1. PICK todo \in SUBSET Publisher : Begins("refresh", todo)
    BY <1>4, <1>7 DEF RefreshGoesOn
  <2> QED
    BY <1>1, <1>3, <2>1
<1>8. CASE StopEnds \/ RefreshEnds \/ DisposeEnds
  BY <1>2, <1>3, <1>8 DEF StopEnds, RefreshEnds, DisposeEnds
<1>9. ASSUME NEW w \in Works, StopsNext(w)
      PROVE  work' \in [Works -> WorkShape]
  <2> DEFINE rest(d) == [work[w] EXCEPT !.todo = @ \ {d}]
  <2>1. PICK d \in work[w].todo :
          \/ work' = [work EXCEPT ![w] = [rest(d) EXCEPT !.waits = TRUE]]
          \/ work' = [work EXCEPT ![w] = [rest(d) EXCEPT !.clean = FALSE]]
    BY <1>9 DEF StopsNext
  <2>2. rest(d) \in WorkShape
    BY DEF WorkShape
  <2> HIDE DEF rest
  <2>3. /\ [rest(d) EXCEPT !.waits = TRUE] \in WorkShape
        /\ [rest(d) EXCEPT !.clean = FALSE] \in WorkShape
    BY <2>2 DEF WorkShape
  <2> QED
    BY <1>2, <2>1, <2>3
<1>10. CASE Replied
  <2>1. \A i \in DOMAIN sends : sends[i] \in SendShape
    BY DEF WhipInv
  <2>2. PICK i \in DOMAIN sends, clean \in BOOLEAN :
          work' = IF sends[i].by = "user" THEN work
                  ELSE [work EXCEPT ![sends[i].by].waits = FALSE, ![sends[i].by].clean = clean]
    BY <1>10 DEF Replied
  <2>3. sends[i].by \in Works \cup {"user"}
    BY <2>1 DEF SendShape
  <2> QED
    BY <2>2, <2>3 DEF WorkShape
<1>11. CASE UNCHANGED work
  BY <1>11
<1>12. CASE \/ StartMedia \/ MediaMoves
            \/ \E d \in Publisher : StartWhip(d) \/ StopWhip(d) \/ RecordDisconnected(d) \/ Forget(d)
  BY <1>12 DEF StartMedia, MediaMoves, StartWhip, StopWhip, RecordDisconnected, Forget
<1>13. CASE Refresh
  <2>1. UNCHANGED work \/ Begins("refresh", ActiveLanes)
    BY <1>13 DEF Refresh
  <2> QED
    BY <1>1, <1>3, <1>4, <1>11, <2>1
<1> QED
  BY <1>5, <1>6, <1>7, <1>8, <1>9, <1>10, <1>11, <1>12, <1>13 DEF LowLatencyNext, lowLatencyVars

\* What the facade does is done by the lanes, by the WebRTC side or by itself.
LEMMA LowLatencyOwes ==
  ASSUME WhipInv, work \in [Works -> WorkShape], [LowLatencyNext]_lowLatencyVars
  PROVE  WhipInv'
<1>1. \A w \in Works : work[w].todo \subseteq Publisher
  BY DEF WorkShape
<1>2. CASE \/ StartMedia \/ StopMedia \/ StopEnds \/ Refresh \/ RefreshEnds
           \/ \E i \in DOMAIN refreshes : RefreshGoesOn(i)
           \/ DisposeMedia \/ DisposeEnds \/ MediaMoves \/ UNCHANGED lowLatencyVars
  <2>1. UNCHANGED <<lanes, sends>>
    BY <1>2 DEF StartMedia, StopMedia, StopEnds, Refresh, RefreshEnds, RefreshGoesOn, DisposeMedia,
                DisposeEnds, MediaMoves, lowLatencyVars
  <2> QED
    BY <2>1, MediaOwes
<1> QED
  BY <1>1, <1>2, RequestsOwe, LeavesOwes, RepliedOwes, StopsNextOwes DEF LowLatencyNext

LEMMA LowLatencyReleases ==
  ASSUME ProcessInv, [LowLatencyNext]_lowLatencyVars
  PROVE  ProcessInv'
<1>1. CASE \/ StartMedia \/ Refresh \/ MediaMoves
           \/ \E i \in DOMAIN refreshes : RefreshGoesOn(i)
  BY <1>1, StartReleases, ExitReleases, OthersRelease DEF StartMedia, Refresh, MediaMoves, RefreshGoesOn
<1>2. CASE StopEnds
  BY <1>2, StopReleases, OthersRelease DEF StopEnds, StopsWebrtc
<1>3. CASE DisposeEnds
  BY <1>3, OthersRelease DEF DisposeEnds
<1>4. CASE UNCHANGED webrtcVars
  BY <1>4, OthersRelease
<1>5. CASE \/ Replied \/ StopMedia \/ RefreshEnds \/ DisposeMedia
           \/ \E w \in Works : StopsNext(w)
           \/ \E d \in Publisher : StartWhip(d) \/ StopWhip(d) \/ RecordDisconnected(d) \/ Forget(d)
  BY <1>4, <1>5 DEF Replied, StopMedia, RefreshEnds, DisposeMedia, StopsNext, StartWhip, StopWhip,
                    RecordDisconnected, Forget
<1> QED
  BY <1>1, <1>2, <1>3, <1>4, <1>5 DEF LowLatencyNext, lowLatencyVars

\* A WHIP lane never waits for nobody, however stops and disconnections overlap and
\* in whatever order the answers come; and the WebRTC side beneath keeps its promise
\* also when the facade drives it.
THEOREM WhipLanesAreAnswered == LowLatencySpec => []UnderWayEnds
<1> DEFINE Inv == WhipInv /\ ProcessInv /\ work \in [Works -> WorkShape]
<1>1. LowLatencyInit => Inv
  <2> SUFFICES ASSUME LowLatencyInit PROVE Inv
    OBVIOUS
  <2>1. ProcessInv
    BY WebrtcBegins DEF LowLatencyInit
  <2>2. work \in [Works -> WorkShape]
    BY DEF LowLatencyInit, NoWork, WorkShape
  <2>3. WhipInv
    <3>1. lanes \in [Publisher -> LaneShape] /\ \A d \in Publisher : lanes[d].phase = "none"
      BY DEF LowLatencyInit, LaneShape
    <3>2. sends \in Seq(SendShape)
      BY DEF LowLatencyInit
    <3> QED
      BY <3>1, <3>2 DEF WhipInv
  <2> QED
    BY <2>1, <2>2, <2>3
<1>2. Inv /\ [LowLatencyNext]_lowLatencyVars => Inv'
  BY LowLatencyOwes, LowLatencyReleases, WorkKept
<1>3. Inv => UnderWayEnds
  BY DEF WhipInv, ProcessInv, WhipLanesAreOwed, UnderWayEnds, OwedFor
<1> QED
  BY <1>1, <1>2, <1>3, PTL DEF LowLatencySpec
-----------------------------------------------------------------------------
(* What a player of the FLV port is sent                                   *)

FilterRecord ==
  [route : {"pending", "avc", "hevc"}, prelude : Seq(Chunks), skipUntilKeyframe : BOOLEAN,
   deliveredSync : BOOLEAN, reported : BOOLEAN, transcode : {"none", "running", "ended"}]
PlayerRecord ==
  [pending : Nat, header : BOOLEAN, broken : BOOLEAN, last : Chunks \cup {"nothing"}]

\* A muxer has not sent a frame before the route is decided, and between a decoder
\* configuration and its key frame sends nothing else; a frame is missed only while
\* frames are skipped, or between those two.
FirstChunks == {"other", "config"}
AnyChunks == {"other", "config", "key", "inter", "sei"}
FlvInv ==
  /\ source \in [codec : Codecs, next : SUBSET Chunks]
  /\ filter \in FilterRecord /\ client \in PlayerRecord
  /\ source.codec = "hevc" => source.next \subseteq {"header", "other", "hevc"}
  /\ source.codec = "avc" => source.next \in {{"header"}, FirstChunks, {"key"}, AnyChunks}
  /\ filter.route = "pending" =>
       /\ source.codec = "avc" => source.next \in {{"header"}, FirstChunks}
       /\ source.next # {"header"} => "header" \in ToSet(filter.prelude)
       /\ ~client.broken /\ ~filter.skipUntilKeyframe
       /\ \A k \in DOMAIN filter.prelude : filter.prelude[k] \notin Video
  /\ filter.route = "avc" => source.codec = "avc" /\ client.header /\ source.next # {"header"}
  /\ filter.route = "hevc" => source.codec = "hevc"
  /\ filter.route = "avc" /\ client.broken /\ ~filter.skipUntilKeyframe => source.next = {"key"}

LEMMA FlvBegins == FlvInit => FlvInv
BY DEF FlvInit, FlvInv, FilterRecord, PlayerRecord, Codecs, Chunks, FirstChunks, AnyChunks, Video, ToSet

\* What writeAvc() makes of a player that misses frames only while some are skipped.
WriterRecord == [filter : FilterRecord, client : PlayerRecord]

LEMMA PressedType ==
  ASSUME NEW f \in FilterRecord,
         NEW n \in Nat
  PROVE  /\ Pressed(f, n) \in FilterRecord
         /\ Pressed(f, n).route = f.route /\ Pressed(f, n).prelude = f.prelude
         /\ Pressed(f, n).transcode = f.transcode
         /\ f.skipUntilKeyframe => Pressed(f, n).skipUntilKeyframe
BY DEF Pressed, FilterRecord

LEMMA SyncedType ==
  ASSUME NEW f \in FilterRecord,
         NEW chunk
  PROVE  /\ Synced(f, chunk) \in FilterRecord
         /\ Synced(f, chunk).route = f.route /\ Synced(f, chunk).prelude = f.prelude
         /\ Synced(f, chunk).transcode = f.transcode
         /\ f.skipUntilKeyframe /\ ~IsAvcSyncTag(chunk) => Synced(f, chunk).skipUntilKeyframe
BY DEF Synced, FilterRecord

LEMMA WrittenAvc ==
  ASSUME NEW at \in WriterRecord, NEW chunk \in Chunks,
         chunk = "inter" /\ ~at.filter.skipUntilKeyframe => ~at.client.broken /\ at.client.header
  PROVE  /\ WriteAvc(at, chunk) \in WriterRecord
         /\ WriteAvc(at, chunk).filter.route = at.filter.route
         /\ WriteAvc(at, chunk).filter.prelude = at.filter.prelude
         /\ WriteAvc(at, chunk).filter.transcode = at.filter.transcode
         /\ at.client.header => WriteAvc(at, chunk).client.header
         /\ WriteAvc(at, chunk).client.broken /\ ~WriteAvc(at, chunk).filter.skipUntilKeyframe
              => \/ chunk \in {"config", "hevc"}
                 \/ chunk # "key" /\ at.client.broken /\ ~at.filter.skipUntilKeyframe
<1>0. at.filter \in FilterRecord /\ at.client \in PlayerRecord
  BY DEF WriterRecord
<1>1. CASE Passes(at.filter, chunk)
  <2> DEFINE f == Pressed(Synced(at.filter, chunk), at.client.pending + 1)
             c == Received(at.client, chunk)
  <2>1. WriteAvc(at, chunk) = [filter |-> f, client |-> c]
    BY <1>1 DEF WriteAvc
  <2>2. /\ f \in FilterRecord /\ f.route = at.filter.route /\ f.prelude = at.filter.prelude
        /\ f.transcode = at.filter.transcode
        /\ at.filter.skipUntilKeyframe /\ ~IsAvcSyncTag(chunk) => f.skipUntilKeyframe
    <3>1. at.client.pending + 1 \in Nat
      BY <1>0 DEF PlayerRecord
    <3> DEFINE s == Synced(at.filter, chunk)
    <3>2. /\ s \in FilterRecord
          /\ s.route = at.filter.route /\ s.prelude = at.filter.prelude
          /\ s.transcode = at.filter.transcode
          /\ at.filter.skipUntilKeyframe /\ ~IsAvcSyncTag(chunk) => s.skipUntilKeyframe
      BY <1>0, SyncedType
    <3> HIDE DEF s
    <3> DEFINE g == Pressed(s, at.client.pending + 1)
    <3>3. /\ g \in FilterRecord /\ g.route = s.route /\ g.prelude = s.prelude
          /\ g.transcode = s.transcode /\ (s.skipUntilKeyframe => g.skipUntilKeyframe)
      BY <3>1, <3>2, PressedType
    <3>4. g = f
      BY DEF s
    <3> QED
      BY <3>2, <3>3, <3>4
  <2>3. /\ c \in PlayerRecord
        /\ at.client.header => c.header
        /\ c.broken = (at.client.broken /\ chunk # "key")
    <3>1. ~(chunk = "inter" /\ (at.client.broken \/ ~at.client.header))
      BY <1>1 DEF Passes, Video, Chunks, IsAvcSyncTag
    <3> QED
      BY <1>0, <3>1 DEF Received, PlayerRecord
  <2>4. c.broken /\ ~f.skipUntilKeyframe => \/ chunk \in {"config", "hevc"}
                                            \/ /\ chunk # "key" /\ at.client.broken
                                               /\ ~at.filter.skipUntilKeyframe
    BY <2>2, <2>3 DEF IsAvcSyncTag
  <2> HIDE DEF f, c
  <2> QED
    BY <2>1, <2>2, <2>3, <2>4 DEF WriterRecord
<1>2. CASE ~Passes(at.filter, chunk)
  <2>1. WriteAvc(at, chunk) = [at EXCEPT !.client.broken = @ \/ chunk # "sei"]
    BY <1>2 DEF WriteAvc
  <2> QED
    BY <1>0, <1>2, <2>1 DEF WriterRecord, FilterRecord, PlayerRecord, Passes, KeepAvcVideoTag
<1> QED
  BY <1>1, <1>2

LEMMA PreludePlayed ==
  ASSUME FlvInv, filter.route = "pending"
  PROVE  /\ PreludeWritten \in PlayerRecord
         /\ PreludeWritten.header <=> (client.header \/ "header" \in ToSet(filter.prelude))
         /\ ~PreludeWritten.broken
<1>0. filter.prelude \in Seq(Chunks) /\ client \in PlayerRecord /\ ~client.broken
  BY DEF FlvInv, FilterRecord
<1>1. CASE filter.prelude = <<>>
  BY <1>0, <1>1 DEF PreludeWritten, ToSet, PlayerRecord
<1>2. CASE filter.prelude # <<>>
  <2> DEFINE h == client.header \/ "header" \in ToSet(filter.prelude)
  <2>1. Last(filter.prelude) \in Chunks /\ Len(filter.prelude) \in Nat
    BY <1>0, <1>2 DEF Last
  <2>2. PreludeWritten = [client EXCEPT !.pending = @ + Len(filter.prelude), !.header = h,
                                        !.last = Last(filter.prelude)]
    BY <1>2 DEF PreludeWritten
  <2>3. h \in BOOLEAN
    OBVIOUS
  <2> HIDE DEF h
  <2>4. PreludeWritten \in PlayerRecord /\ PreludeWritten.header = h /\ ~PreludeWritten.broken
    <3> DEFINE n == client.pending + Len(filter.prelude)
    <3>1. n \in Nat
      BY <1>0, <2>1 DEF PlayerRecord
    <3>2. PreludeWritten = [client EXCEPT !.pending = n, !.header = h, !.last = Last(filter.prelude)]
      BY <2>2
    <3> HIDE DEF n
    <3> QED
      BY <1>0, <2>1, <2>3, <3>1, <3>2 DEF PlayerRecord
  <2> QED
    BY <2>4 DEF h
<1> QED
  BY <1>1, <1>2

LEMMA FollowsWhat ==
  ASSUME FlvInv, NEW chunk \in source.next
  PROVE  /\ Follows(chunk) \subseteq Chunks
         /\ source.codec = "hevc" => Follows(chunk) \subseteq {"header", "other", "hevc"}
         /\ source.codec = "avc" =>
              /\ chunk # "hevc"
              /\ Follows(chunk) = (IF chunk = "other" THEN source.next
                                   ELSE IF chunk = "header" THEN FirstChunks
                                   ELSE IF chunk = "config" THEN {"key"} ELSE AnyChunks)
BY DEF FlvInv, Follows, Codecs, Chunks, FirstChunks, AnyChunks

LEMMA FlvWriteStep ==
  ASSUME FlvInv, NEW chunk \in source.next,
         filter' = Outcome(chunk).filter, client' = Outcome(chunk).client,
         source' = [source EXCEPT !.next = Follows(chunk)]
  PROVE  FlvInv'
<1> DEFINE here == [filter |-> filter, client |-> client]
<1>s. <<>> \in Seq(Chunks)
  OBVIOUS
<1>0. /\ filter \in FilterRecord /\ client \in PlayerRecord /\ chunk \in Chunks
      /\ source \in [codec : Codecs, next : SUBSET Chunks]
      /\ here \in WriterRecord
  BY DEF FlvInv, WriterRecord
<1>1. /\ source' \in [codec : Codecs, next : SUBSET Chunks] /\ source'.codec = source.codec
      /\ source'.next = Follows(chunk)
      /\ source.codec = "hevc" => source'.next \subseteq {"header", "other", "hevc"}
      /\ source.codec = "avc" => source'.next \in {{"header"}, FirstChunks, {"key"}, AnyChunks}
  <2>1. /\ source'.codec = source.codec /\ source'.next = Follows(chunk)
        /\ source' \in [codec : Codecs, next : SUBSET Chunks]
    BY <1>0, FollowsWhat
  <2>2. source.codec = "avc" => source'.next \in {{"header"}, FirstChunks, {"key"}, AnyChunks}
    BY <2>1, FollowsWhat DEF FlvInv
  <2> QED
    BY <2>1, <2>2, FollowsWhat
<1>2. CASE filter.route = "pending" /\ chunk \notin Video
  <2>1. Outcome(chunk) = [here EXCEPT !.filter.prelude = Append(@, chunk)]
    BY <1>2 DEF Outcome, Video, Chunks
  <2>2. /\ filter' = [filter EXCEPT !.prelude = Append(@, chunk)] /\ client' = client
    BY <2>1
  <2>3. /\ filter' \in FilterRecord /\ filter'.route = "pending" /\ ~filter'.skipUntilKeyframe
        /\ filter'.prelude = Append(filter.prelude, chunk) /\ filter.prelude \in Seq(Chunks)
    <3>1. ~filter.skipUntilKeyframe
      BY <1>2 DEF FlvInv
    <3>2. filter.prelude \in Seq(Chunks) /\ Append(filter.prelude, chunk) \in Seq(Chunks)
      BY <1>0 DEF FilterRecord
    <3> QED
      BY <1>0, <1>2, <2>2, <3>1, <3>2 DEF FilterRecord
  <2>4. /\ \A k \in DOMAIN filter'.prelude : filter'.prelude[k] \notin Video
        /\ ToSet(filter'.prelude) = ToSet(filter.prelude) \cup {chunk}
    <3>1. /\ DOMAIN filter'.prelude = 1..(Len(filter.prelude) + 1)
          /\ DOMAIN filter.prelude = 1..Len(filter.prelude)
          /\ \A k \in 1..Len(filter.prelude) : filter'.prelude[k] = filter.prelude[k]
          /\ filter'.prelude[Len(filter.prelude) + 1] = chunk
          /\ Len(filter.prelude) \in Nat
      BY <2>3
    <3> QED
      BY <1>2, <3>1 DEF FlvInv, ToSet
  <2>5. source.codec = "avc" => source'.next \in {{"header"}, FirstChunks}
    <3>1. chunk \in {"header", "other"}
      BY <1>0, <1>2 DEF Video
    <3> QED
      BY <1>1, <1>2, <3>1, FollowsWhat DEF FlvInv
  <2>6. source'.next # {"header"} => "header" \in ToSet(filter'.prelude)
    <3>1. CASE chunk = "other"
      BY <1>1, <1>2, <2>4, <3>1 DEF FlvInv, Follows
    <3>2. CASE chunk = "header"
      BY <2>4, <3>2
    <3> QED
      BY <1>0, <1>2, <3>1, <3>2 DEF Video
  <2> QED
    BY <1>0, <1>1, <1>2, <2>2, <2>3, <2>4, <2>5, <2>6 DEF FlvInv
<1>3. CASE filter.route = "pending" /\ chunk = "hevc"
  <2>1. filter' = [filter EXCEPT !.route = "hevc", !.prelude = <<>>,
                                 !.transcode = IF Ffmpeg THEN "running" ELSE "none"]
        /\ client' = client
    BY <1>3 DEF Outcome, RoutesHevc, Video
  <2>2. source.codec = "hevc"
    BY <1>0, <1>3, FollowsWhat DEF Codecs
  <2>3. filter' \in FilterRecord /\ filter'.route = "hevc"
    BY <1>s, <1>0, <2>1 DEF FilterRecord
  <2> QED
    BY <1>0, <1>1, <2>1, <2>2, <2>3 DEF FlvInv
<1>4. CASE filter.route = "pending" /\ chunk \in Video \ {"hevc"}
  <2> DEFINE at == [filter |-> [filter EXCEPT !.route = "avc", !.prelude = <<>>],
                    client |-> PreludeWritten]
  <2>1. Outcome(chunk) = WriteAvc(at, chunk)
    BY <1>4 DEF Outcome, RoutesAvc
  <2>2. /\ at \in WriterRecord /\ at.filter.route = "avc" /\ ~at.filter.skipUntilKeyframe
        /\ at.client.header <=> (client.header \/ "header" \in ToSet(filter.prelude))
        /\ ~at.client.broken
    <3>1. [filter EXCEPT !.route = "avc", !.prelude = <<>>] \in FilterRecord
      BY <1>s, <1>0 DEF FilterRecord
    <3>2. /\ [filter EXCEPT !.route = "avc", !.prelude = <<>>].route = "avc"
          /\ [filter EXCEPT !.route = "avc", !.prelude = <<>>].skipUntilKeyframe
               = filter.skipUntilKeyframe
      BY <1>0 DEF FilterRecord
    <3> QED
      BY <1>4, <3>1, <3>2, PreludePlayed DEF WriterRecord, FlvInv
  <2>3. source.codec = "avc" /\ source.next = FirstChunks /\ chunk = "config"
    <3>1. source.codec = "avc"
      BY <1>0, <1>4 DEF FlvInv, Codecs, Video
    <3>2. source.next = FirstChunks
      BY <1>4, <3>1 DEF FlvInv, Video
    <3> QED
      BY <1>4, <3>1, <3>2 DEF FirstChunks, Video
  <2>4. at.client.header
    BY <1>4, <2>2, <2>3 DEF FlvInv, FirstChunks
  <2> HIDE DEF at
  <2>5. /\ WriteAvc(at, chunk) \in WriterRecord /\ WriteAvc(at, chunk).filter.route = "avc"
        /\ WriteAvc(at, chunk).client.header
    BY <1>0, <2>2, <2>3, <2>4, WrittenAvc
  <2>6. filter' \in FilterRecord /\ client' \in PlayerRecord /\ filter'.route = "avc" /\ client'.header
    BY <2>1, <2>5 DEF WriterRecord
  <2>7. source'.next = {"key"}
    BY <1>1, <2>3, FollowsWhat
  <2> QED
    BY <1>1, <2>3, <2>6, <2>7 DEF FlvInv
<1>5. CASE filter.route = "hevc" /\ filter.transcode = "running"
  <2>1. filter' = filter /\ client' = client
    BY <1>5 DEF Outcome
  <2> QED
    BY <1>0, <1>1, <1>5, <2>1 DEF FlvInv
<1>6. CASE \/ filter.route = "hevc" /\ filter.transcode # "running"
           \/ filter.route = "avc"
  <2>1. Outcome(chunk) = WriteAvc(here, chunk)
    BY <1>6 DEF Outcome
  <2>2. chunk = "inter" /\ ~filter.skipUntilKeyframe => ~client.broken /\ client.header
    BY <1>0, <1>6 DEF FlvInv
  <2>3. here.filter = filter /\ here.client = client
    OBVIOUS
  <2> HIDE DEF here
  <2>4. /\ WriteAvc(here, chunk) \in WriterRecord
        /\ WriteAvc(here, chunk).filter.route = filter.route
        /\ client.header => WriteAvc(here, chunk).client.header
        /\ WriteAvc(here, chunk).client.broken /\ ~WriteAvc(here, chunk).filter.skipUntilKeyframe
             => \/ chunk \in {"config", "hevc"}
                \/ chunk # "key" /\ client.broken /\ ~filter.skipUntilKeyframe
    BY <1>0, <2>2, <2>3, WrittenAvc
  <2>5. /\ filter' \in FilterRecord /\ client' \in PlayerRecord /\ filter'.route = filter.route
        /\ client.header => client'.header
        /\ client'.broken /\ ~filter'.skipUntilKeyframe
             => \/ chunk \in {"config", "hevc"}
                \/ chunk # "key" /\ client.broken /\ ~filter.skipUntilKeyframe
    BY <2>1, <2>4 DEF WriterRecord
  <2>6. CASE filter.route = "hevc"
    BY <1>0, <1>1, <2>5, <2>6 DEF FlvInv
  <2>7. CASE filter.route = "avc"
    <3>1. source.codec = "avc" /\ client.header /\ source.next # {"header"}
      BY <2>7 DEF FlvInv
    <3>2. source'.next # {"header"}
      BY <1>1, <3>1, FollowsWhat DEF FirstChunks, AnyChunks
    <3>3. client'.broken /\ ~filter'.skipUntilKeyframe => source'.next = {"key"}
      <4> SUFFICES ASSUME client'.broken, ~filter'.skipUntilKeyframe PROVE source'.next = {"key"}
        OBVIOUS
      <4>1. CASE chunk = "config"
        BY <1>1, <3>1, <4>1, FollowsWhat
      <4>2. CASE chunk # "config"
        BY <2>5, <2>7, <3>1, <4>2, FollowsWhat DEF FlvInv
      <4> QED
        BY <4>1, <4>2
    <3> QED
      BY <1>1, <2>5, <2>7, <3>1, <3>2, <3>3 DEF FlvInv
  <2> QED
    BY <1>6, <2>6, <2>7
<1> QED
  BY <1>0, <1>2, <1>3, <1>4, <1>5, <1>6 DEF FilterRecord

LEMMA FlvStep ==
  ASSUME FlvInv, [FlvNext]_flvVars
  PROVE  FlvInv'
<1>0. /\ filter \in FilterRecord /\ client \in PlayerRecord
      /\ source \in [codec : Codecs, next : SUBSET Chunks]
  BY DEF FlvInv
<1>1. CASE Write
  BY <1>1, FlvWriteStep DEF Write
<1>2. CASE Transcodes
  BY <1>0, <1>2 DEF FlvInv, Transcodes, Received, PlayerRecord, Chunks
<1>3. CASE TranscodeEnds
  BY <1>0, <1>3 DEF FlvInv, TranscodeEnds, FilterRecord
<1>4. CASE Reads
  <2>1. client' \in PlayerRecord /\ client'.header = client.header /\ client'.broken = client.broken
    BY <1>0, <1>4 DEF Reads, PlayerRecord
  <2> QED
    BY <1>4, <2>1 DEF FlvInv, Reads
<1>5. CASE UNCHANGED flvVars
  BY <1>5 DEF FlvInv, flvVars
<1> QED
  BY <1>1, <1>2, <1>3, <1>4, <1>5 DEF FlvNext

-----------------------------------------------------------------------------
(* What an import hands over                                               *)

Targets == {"nothing", "line", "point"} \cup Fields
ContextRecord ==
  [depth : Nat, excluded : Nat, lines : Int, points : Seq(Int),
   reading : [target : Targets, at : Nat, of : Nat]]

\* What is skipped began at an element that is open, and so did what is read.
Placed(c) ==
  /\ c \in ContextRecord
  /\ c.excluded # 0 => c.excluded <= c.depth
  /\ c.reading # Nothing => c.reading.at \in 1..c.depth

LEMMA ReadingInType ==
  ASSUME NEW c, Placed(c), NEW kind, NEW tag
  PROVE  /\ ReadingIn(c, kind, tag) \in [target : Targets, at : Nat, of : Nat]
         /\ c.reading # Nothing => ReadingIn(c, kind, tag) = c.reading
         /\ c.reading = Nothing => \/ ReadingIn(c, kind, tag) = Nothing
                                   \/ /\ ReadingIn(c, kind, tag).at = c.depth + 1
                                      /\ ReadingIn(c, kind, tag) # Nothing
                                      /\ tag \in {"coordinates"} \cup Fields
         /\ c.reading = Nothing /\ ReadingIn(c, kind, tag).target = "line" => kind = "kml"
<1>0. /\ c.depth \in Nat /\ c.points \in Seq(Int) /\ Len(c.points) \in Nat
      /\ c.reading \in [target : Targets, at : Nat, of : Nat]
  BY DEF Placed, ContextRecord
<1>1. CASE c.reading # Nothing
  BY <1>0, <1>1 DEF ReadingIn
<1>2. CASE c.reading = Nothing
  <2> DEFINE Into(target) == [target |-> target, at |-> c.depth + 1, of |-> Len(c.points)]
  <2>1. \/ ReadingIn(c, kind, tag) = Into("line") /\ tag = "coordinates" /\ kind = "kml"
        \/ ReadingIn(c, kind, tag) = Into("point") /\ tag = "coordinates"
        \/ ReadingIn(c, kind, tag) = Into(tag) /\ tag \in Fields
        \/ ReadingIn(c, kind, tag) = Nothing
    BY <1>2 DEF ReadingIn, Fields
  <2>2. \A target \in Targets : /\ Into(target) \in [target : Targets, at : Nat, of : Nat]
                                /\ Into(target).at = c.depth + 1 /\ Into(target) # Nothing
                                /\ Into(target).target = target
    BY <1>0 DEF Nothing
  <2>3. Nothing \in [target : Targets, at : Nat, of : Nat] /\ Nothing.target = "nothing"
    BY DEF Nothing, Targets
  <2> HIDE DEF Into
  <2> QED
    BY <1>2, <2>1, <2>2, <2>3 DEF Targets, Fields
<1> QED
  BY <1>1, <1>2

LEMMA SameContext ==
  ASSUME NEW c \in ContextRecord, NEW d \in ContextRecord,
         c.depth = d.depth, c.excluded = d.excluded, c.lines = d.lines, c.points = d.points,
         c.reading = d.reading
  PROVE  c = d
<1>1. c = [depth |-> c.depth, excluded |-> c.excluded, lines |-> c.lines, points |-> c.points,
           reading |-> c.reading]
  BY DEF ContextRecord
<1>2. d = [depth |-> d.depth, excluded |-> d.excluded, lines |-> d.lines, points |-> d.points,
           reading |-> d.reading]
  BY DEF ContextRecord
<1> QED
  BY <1>1, <1>2

\* An end tag takes back what its start tag did.
LEMMA ComesOut ==
  ASSUME NEW c, Placed(c), NEW kind, NEW tag
  PROVE  Placed(Entered(c, kind, tag)) /\ Left(Entered(c, kind, tag), tag) = c
<1> DEFINE e == Entered(c, kind, tag)
<1>0. /\ c \in ContextRecord /\ c.depth \in Nat /\ c.excluded \in Nat /\ c.lines \in Int
      /\ c.points \in Seq(Int) /\ c.reading \in [target : Targets, at : Nat, of : Nat]
      /\ c.excluded # 0 => c.excluded <= c.depth
      /\ c.reading # Nothing => c.reading.at \in 1..c.depth
  BY DEF Placed, ContextRecord
<1>1. CASE c.excluded # 0
  <2>1. e = [c EXCEPT !.depth = c.depth + 1, !.excluded = c.excluded]
    BY <1>0, <1>1 DEF Entered, ContextRecord
  <2> HIDE DEF e
  <2>2. /\ e \in ContextRecord /\ e.depth = c.depth + 1 /\ e.excluded = c.excluded
        /\ e.lines = c.lines /\ e.points = c.points /\ e.reading = c.reading
    <3>1. c.depth + 1 \in Nat
      BY <1>0
    <3> QED
      BY <1>0, <2>1, <3>1 DEF ContextRecord
  <2>3. Left(e, tag) = [e EXCEPT !.depth = e.depth - 1, !.excluded = e.excluded]
    <3>1. e.excluded # 0 /\ e.depth # e.excluded
      BY <1>0, <1>1, <2>2
    <3>2. Left(e, tag) = [e EXCEPT !.depth = @ - 1,
                                   !.excluded = IF e.depth = e.excluded THEN 0 ELSE @]
      BY <3>1 DEF Left
    <3> QED
      BY <3>1, <3>2
  <2>4. Left(e, tag) = c
    <3>1. e.depth - 1 = c.depth
      BY <1>0, <2>2
    <3>2. Left(e, tag) = [e EXCEPT !.depth = c.depth, !.excluded = c.excluded]
      BY <2>2, <2>3, <3>1
    <3> DEFINE l == [e EXCEPT !.depth = c.depth, !.excluded = c.excluded]
    <3>d. l = [e EXCEPT !.depth = c.depth, !.excluded = c.excluded]
      OBVIOUS
    <3> HIDE DEF l
    <3>3. /\ l \in ContextRecord /\ l.depth = c.depth /\ l.excluded = c.excluded
          /\ l.lines = c.lines /\ l.points = c.points /\ l.reading = c.reading
      BY <1>0, <2>2, <3>d DEF ContextRecord
    <3>4. l = c
      BY <1>0, <3>3, SameContext
    <3> QED
      BY <3>2, <3>4, <3>d
  <2>5. Placed(e)
    BY <1>0, <2>2 DEF Placed
  <2> QED
    BY <2>4, <2>5 DEF e
<1>2. CASE c.excluded = 0 /\ StartsExcludedSubtree(tag)
  <2>1. e = [c EXCEPT !.depth = c.depth + 1, !.excluded = c.depth + 1]
    BY <1>2 DEF Entered
  <2> HIDE DEF e
  <2>2. /\ e \in ContextRecord /\ e.depth = c.depth + 1 /\ e.excluded = c.depth + 1
        /\ e.lines = c.lines /\ e.points = c.points /\ e.reading = c.reading
    <3>1. c.depth + 1 \in Nat
      BY <1>0
    <3> QED
      BY <1>0, <2>1, <3>1 DEF ContextRecord
  <2>3. Left(e, tag) = [e EXCEPT !.depth = e.depth - 1, !.excluded = 0]
    BY <1>0, <1>2, <2>2 DEF Left
  <2>4. Left(e, tag) = c
    <3>1. e.depth - 1 = c.depth
      BY <1>0, <2>2
    <3>2. Left(e, tag) = [e EXCEPT !.depth = c.depth, !.excluded = c.excluded]
      BY <1>2, <2>2, <2>3, <3>1
    <3> DEFINE l == [e EXCEPT !.depth = c.depth, !.excluded = c.excluded]
    <3>d. l = [e EXCEPT !.depth = c.depth, !.excluded = c.excluded]
      OBVIOUS
    <3> HIDE DEF l
    <3>3. /\ l \in ContextRecord /\ l.depth = c.depth /\ l.excluded = c.excluded
          /\ l.lines = c.lines /\ l.points = c.points /\ l.reading = c.reading
      BY <1>0, <2>2, <3>d DEF ContextRecord
    <3>4. l = c
      BY <1>0, <3>3, SameContext
    <3> QED
      BY <3>2, <3>4, <3>d
  <2>5. Placed(e)
    BY <1>0, <2>2 DEF Placed
  <2> QED
    BY <2>4, <2>5 DEF e
<1>3. CASE c.excluded = 0 /\ ~StartsExcludedSubtree(tag)
  <2> DEFINE into == CASE tag = "Placemark" -> Append(c.points, 0)
                       [] tag = "Point" /\ c.points # <<>> ->
                            [c.points EXCEPT ![Len(c.points)] = @ + 1]
                       [] OTHER -> c.points
             out == CASE tag = "Placemark" -> SubSeq(into, 1, Len(into) - 1)
                      [] tag = "Point" /\ into # <<>> -> [into EXCEPT ![Len(into)] = @ - 1]
                      [] OTHER -> into
             r == ReadingIn(c, kind, tag)
             n == IF tag = "LineString" THEN 1 ELSE 0
  <2>1. e = [depth |-> c.depth + 1, excluded |-> 0, lines |-> c.lines + n, points |-> into,
             reading |-> r]
    BY <1>3 DEF Entered
  <2>2. into \in Seq(Int) /\ out = c.points
    <3>1. CASE tag = "Placemark"
      <4>1. into = Append(c.points, 0) /\ out = SubSeq(into, 1, Len(into) - 1)
        BY <3>1
      <4>2. /\ Len(into) - 1 = Len(c.points) /\ into \in Seq(Int)
            /\ out \in Seq(Int) /\ Len(out) = Len(c.points)
            /\ \A k \in 1..Len(c.points) : out[k] = c.points[k]
        <5>1. /\ into \in Seq(Int) /\ Len(into) = Len(c.points) + 1
              /\ \A k \in 1..Len(c.points) : into[k] = c.points[k]
          BY <1>0, <4>1
        <5>2. /\ Len(into) - 1 = Len(c.points) /\ Len(c.points) \in Nat
              /\ \A k \in 1..Len(c.points) : into[k] \in Int
          BY <1>0, <5>1
        <5>3. out = SubSeq(into, 1, Len(c.points))
          BY <4>1, <5>2
        <5> HIDE DEF into, out
        <5> QED
          BY <5>1, <5>2, <5>3, SubSeqProperties
      <4> HIDE DEF into, out
      <4> QED
        BY <1>0, <4>2, SeqEqual
    <3>2. CASE tag = "Point" /\ c.points # <<>>
      <4>1. into = [c.points EXCEPT ![Len(c.points)] = @ + 1]
        BY <3>2
      <4>2. /\ Len(c.points) \in 1..Len(c.points) /\ into \in Seq(Int)
            /\ Len(into) = Len(c.points) /\ into # <<>>
        BY <1>0, <3>2, <4>1
      <4>3. out = [into EXCEPT ![Len(into)] = @ - 1]
        BY <3>2, <4>2
      <4>4. /\ out \in Seq(Int) /\ Len(out) = Len(c.points)
            /\ \A k \in 1..Len(c.points) : out[k] = c.points[k]
        <5>1. /\ \A k \in 1..Len(c.points) :
                    into[k] = IF k = Len(c.points) THEN c.points[k] + 1 ELSE c.points[k]
              /\ \A k \in 1..Len(c.points) : c.points[k] \in Int /\ into[k] \in Int
          BY <1>0, <4>1, <4>2
        <5> HIDE DEF into
        <5>2. out = [into EXCEPT ![Len(c.points)] = into[Len(c.points)] - 1]
          BY <4>2, <4>3
        <5> HIDE DEF out
        <5>3. /\ out \in Seq(Int) /\ Len(out) = Len(c.points)
              /\ \A k \in 1..Len(c.points) :
                    out[k] = IF k = Len(c.points) THEN into[k] - 1 ELSE into[k]
          BY <1>0, <4>2, <5>1, <5>2
        <5>4. ASSUME NEW k \in 1..Len(c.points) PROVE out[k] = c.points[k]
          <6>1. c.points[k] \in Int /\ into[k] \in Int
            BY <5>1
          <6>2. CASE k = Len(c.points)
            BY <5>1, <5>3, <6>1, <6>2
          <6>3. CASE k # Len(c.points)
            BY <5>1, <5>3, <6>1, <6>3
          <6> QED
            BY <6>2, <6>3
        <5> QED
          BY <5>3, <5>4
      <4> HIDE DEF into, out
      <4> QED
        BY <1>0, <4>2, <4>4, SeqEqual
    <3>3. CASE tag # "Placemark" /\ ~(tag = "Point" /\ c.points # <<>>)
      <4>1. into = c.points
        BY <3>3
      <4>2. out = into
        BY <3>3, <4>1
      <4> QED
        BY <1>0, <4>1, <4>2
    <3> QED
      BY <3>1, <3>2, <3>3
  <2>3. r \in [target : Targets, at : Nat, of : Nat] /\ n \in Int
    BY ReadingInType
  <2>4. Placed(e)
    <3>1. e \in ContextRecord
      BY <1>0, <2>1, <2>2, <2>3 DEF ContextRecord
    <3>2. r # Nothing => r.at \in 1..(c.depth + 1)
      BY <1>0, <2>3, ReadingInType
    <3> HIDE DEF r, into, n
    <3> QED
      BY <1>0, <2>1, <3>1, <3>2 DEF Placed
  <2>5. (IF r.at = c.depth + 1 THEN Nothing ELSE r) = c.reading
    BY <1>0, <2>3, ReadingInType DEF Nothing
  <2>6. Left(e, tag) = [depth |-> (c.depth + 1) - 1, excluded |-> 0, lines |-> (c.lines + n) - n,
                        points |-> out, reading |-> IF r.at = c.depth + 1 THEN Nothing ELSE r]
    BY <2>1 DEF Left
  <2> HIDE DEF r, into, out, n
  <2>7. Left(e, tag) = c
    BY <1>0, <1>3, <2>2, <2>3, <2>5, <2>6 DEF ContextRecord
  <2> QED
    BY <2>4, <2>7
<1> QED
  BY <1>1, <1>2, <1>3

SomeText == Texts \cup {"none"}
TupleRecord == [altitude : BOOLEAN, malformed : BOOLEAN, given : BOOLEAN]
PlacemarkRecord ==
  [elements : Nat, tuples : Nat, first : TupleRecord, fields : [Fields -> Seq(SomeText)]]
Sources == {"missing", "coordinate"} \cup Fields
Candidate ==
  [sequence : SomeText, placed : BOOLEAN, altitude : [source : Sources, given : BOOLEAN],
   malformed : BOOLEAN]
\* What qualification reads, and a WPML coordinate that names itself as the source of no height.
Handed(kind) ==
  {c \in Candidate : \/ CandidateReads(kind, c)
                     \/ kind = "wpml" /\ c.altitude = [source |-> "coordinate", given |-> FALSE]}

LEMMA FallbackType ==
  ASSUME NEW placemark \in PlacemarkRecord
  PROVE  /\ Fallback(placemark).source \in Sources
         /\ Fallback(placemark).given \in BOOLEAN
         /\ Fallback(placemark).malformed \in BOOLEAN
         /\ Fallback(placemark).given <=> Fallback(placemark).source # "missing"
<1> DEFINE says == {i \in DOMAIN Heights : placemark.fields[Heights[i]] # <<>>
                                      /\ placemark.fields[Heights[i]][1] # "none"}
           wrong == \E i \in DOMAIN Heights : Disagree(placemark.fields[Heights[i]])
<1>1. Fallback(placemark) = [source |-> IF says = {} THEN "missing" ELSE Heights[Min(says)],
                             given |-> says # {}, malformed |-> wrong]
  BY DEF Fallback
<1>2. wrong \in BOOLEAN /\ (says # {}) \in BOOLEAN
  OBVIOUS
<1>3. says # {} => Heights[Min(says)] \in Fields /\ Heights[Min(says)] # "missing"
  <2> SUFFICES ASSUME says # {} PROVE Heights[Min(says)] \in Fields /\ Heights[Min(says)] # "missing"
    OBVIOUS
  <2>1. says \subseteq 1..3
    BY DEF Heights
  <2> HIDE DEF says
  <2>2. \E x \in says : \A y \in says : x <= y
    <3>1. CASE 1 \in says
      BY <2>1, <3>1
    <3>2. CASE 1 \notin says /\ 2 \in says
      BY <2>1, <3>2
    <3>3. CASE 1 \notin says /\ 2 \notin says
      <4>1. \A y \in says : y = 3
        BY <2>1, <3>3
      <4>2. 3 \in says
        BY <4>1
      <4> QED
        BY <4>1, <4>2
    <3> QED
      BY <3>1, <3>2, <3>3
  <2>3. Min(says) \in says
    BY <2>2 DEF Min
  <2>4. Min(says) \in 1..3
    BY <2>1, <2>3
  <2> HIDE DEF Min
  <2> QED
    BY <2>4 DEF Heights, Fields
<1> DEFINE src == IF says = {} THEN "missing" ELSE Heights[Min(says)]
           given == says # {}
<1>4. src \in Sources /\ (given <=> src # "missing")
  BY <1>3 DEF Sources
<1>5. Fallback(placemark) = [source |-> src, given |-> given, malformed |-> wrong]
  BY <1>1
<1>6. given \in BOOLEAN /\ wrong \in BOOLEAN
  OBVIOUS
<1> HIDE DEF src, given, wrong
<1> QED
  BY <1>4, <1>5, <1>6

LEMMA TupleDraftType ==
  ASSUME NEW kind \in {"kml", "wpml"}, NEW tuple \in TupleRecord, NEW fallback,
         fallback.source \in Sources, fallback.given \in BOOLEAN, fallback.malformed \in BOOLEAN,
         fallback.given <=> fallback.source # "missing",
         NEW sequence \in SomeText, NEW force \in BOOLEAN, kind = "kml" => sequence = "none"
  PROVE  TupleDraft(kind, tuple, fallback, sequence, force) \in Handed(kind)
<1> DEFINE a == Altitude(kind, tuple, fallback)
           m == force \/ tuple.malformed \/ fallback.malformed
           d == TupleDraft(kind, tuple, fallback, sequence, force)
<1>1. tuple.altitude \in BOOLEAN /\ tuple.malformed \in BOOLEAN /\ m \in BOOLEAN
  BY DEF TupleRecord
<1>2. /\ a \in [source : Sources, given : BOOLEAN]
      /\ \/ a.given <=> a.source # "missing"
         \/ kind = "wpml" /\ a = [source |-> "coordinate", given |-> FALSE]
  <2>1. "coordinate" \in Sources
    BY DEF Sources
  <2>2. CASE kind = "kml" /\ tuple.altitude
    BY <2>1, <2>2 DEF Altitude
  <2>3. CASE kind = "kml" /\ ~tuple.altitude
    BY <2>3 DEF Altitude
  <2>4. CASE kind = "wpml" /\ fallback.given
    BY <2>4 DEF Altitude
  <2>5. CASE kind = "wpml" /\ ~fallback.given
    <3>1. a = [source |-> "coordinate", given |-> tuple.altitude]
      BY <2>5 DEF Altitude
    <3>2. CASE tuple.altitude
      BY <2>1, <3>1, <3>2
    <3>3. CASE ~tuple.altitude
      BY <1>1, <2>1, <2>5, <3>1, <3>3
    <3> QED
      BY <3>2, <3>3
  <2> QED
    BY <2>2, <2>3, <2>4, <2>5
<1>3. d = [sequence |-> sequence, placed |-> TRUE, altitude |-> a, malformed |-> m]
  BY DEF TupleDraft
<1> HIDE DEF a, m, d
<1>4. d \in Candidate
  BY <1>1, <1>2, <1>3 DEF Candidate
<1>5. d.altitude = a /\ d.sequence = sequence
  BY <1>3
<1> QED
  BY <1>2, <1>4, <1>5 DEF Handed, CandidateReads, d

LEMMA PlacemarkDraftType ==
  ASSUME NEW kind \in {"kml", "wpml"}, NEW placemark \in PlacemarkRecord, Counts(kind, placemark)
  PROVE  PlacemarkDraft(kind, placemark) \in Handed(kind)
<1> DEFINE f == Fallback(placemark)
<1>0. /\ placemark.fields \in [Fields -> Seq(SomeText)] /\ placemark.first \in TupleRecord
      /\ placemark.tuples \in Nat
      /\ "index" \in Fields /\ "none" \in SomeText
  BY DEF PlacemarkRecord, Fields, SomeText
<1>1. Sequence(placemark) \in SomeText
  BY <1>0 DEF Sequence
<1>2. /\ f.source \in Sources /\ f.given \in BOOLEAN /\ f.malformed \in BOOLEAN
      /\ f.given <=> f.source # "missing"
  BY FallbackType
<1>3. CASE placemark.tuples = 0
  <2>1. kind = "wpml"
    BY <1>0, <1>3 DEF Counts
  <2> DEFINE d == EmptyDraft(placemark)
  <2>2. d = [sequence |-> Sequence(placemark), placed |-> FALSE,
             altitude |-> [source |-> f.source, given |-> f.given], malformed |-> TRUE]
    BY DEF EmptyDraft
  <2> HIDE DEF d, f
  <2>3. d \in Candidate
    BY <1>1, <1>2, <2>2 DEF Candidate
  <2>4. d.altitude.given = f.given /\ d.altitude.source = f.source
    BY <2>2
  <2>5. d \in Handed(kind)
    BY <1>2, <2>1, <2>3, <2>4 DEF Handed, CandidateReads
  <2> QED
    BY <1>3, <2>5 DEF PlacemarkDraft, d
<1>4. CASE placemark.tuples # 0
  <2> DEFINE force == placemark.elements # 1 \/ placemark.tuples # 1
                        \/ Disagree(placemark.fields["index"])
             sequence == IF kind = "kml" THEN "none" ELSE Sequence(placemark)
  <2>1. PlacemarkDraft(kind, placemark) = TupleDraft(kind, placemark.first, f, sequence, force)
    BY <1>4 DEF PlacemarkDraft
  <2>2. force \in BOOLEAN /\ sequence \in SomeText /\ (kind = "kml" => sequence = "none")
    BY <1>0, <1>1
  <2> HIDE DEF f, force, sequence
  <2> QED
    BY <1>0, <1>2, <2>1, <2>2, TupleDraftType
<1> QED
  BY <1>3, <1>4

LEMMA LineDraftType ==
  ASSUME capture.tuple \in TupleRecord
  PROVE  LineDraft \in Handed("kml")
<1>1. /\ Missing.source \in Sources /\ Missing.given \in BOOLEAN /\ Missing.malformed \in BOOLEAN
      /\ Missing.given <=> Missing.source # "missing"
      /\ "none" \in SomeText
  BY DEF Missing, Sources, SomeText
<1> QED
  BY <1>1, TupleDraftType DEF LineDraft

Errors == IntakeErrors \cup
  {"ARCHIVE_ENTRY_LIMIT", "UNSAFE_ARCHIVE_PATH", "CORRUPT_KMZ", "ENCRYPTED_KMZ",
   "ARCHIVE_EXPANSION_LIMIT", "ROUTE_DOCUMENT_MISSING", "INVALID_XML", "TOO_MANY_WAYPOINTS",
   "EXTERNAL_ENTITY_FORBIDDEN"}
ImportRecord ==
  [stage : {"called", "detect", "list", "expand", "closing", "parse", "paused", "digest", "ended"},
   format : {"kml", "kmz"}, kind : {"kml", "wpml"}, companion : BOOLEAN,
   outcome : {"none", "parsed", "cancelled"} \cup Errors]
ArchiveRecord == [entries : Seq(Entry), next : Nat, written : Nat, used : Nat, chosen : Nat]
FoundRecord(kind) ==
  [lines : Seq(Handed("kml")), points : Seq(Handed(kind)), sawLine : BOOLEAN,
   overflow : BOOLEAN, due : Nat, namespace : BOOLEAN, waylines : Nat, elements : Nat]

\* Nothing was read before the document is parsed.
Rests ==
  open = <<>> /\ context = Outside /\ placemarks = <<>> /\ capture = NoCapture /\ found = NothingFound

\* The course of an import, and what its outcome may be where.
Course ==
  /\ import \in ImportRecord /\ cancellation \in {"clear", "aborted", "unreadable"}
  /\ import.outcome # "none" => import.stage \in {"closing", "ended"}
  /\ import.outcome = "parsed" => import.stage = "ended"
  /\ import.outcome = "cancelled" => cancellation = "aborted"
  /\ import.stage \in {"list", "expand", "closing"} => import.format = "kmz"
  /\ import.companion => import.format = "kmz" /\ import.kind = "wpml"
  /\ import.format = "kml" => import.kind = "kml"
  /\ import.stage = "digest" \/ import.outcome = "parsed" => ~found.overflow \/ found.sawLine
  /\ import.stage \notin {"parse", "paused", "digest", "ended"} => Rests

\* What a file is expanded for, and how far that is.
Checked ==
  /\ \A i, j \in Entries : Same(i, j) => i = j
  /\ \A i \in Entries : archive.entries[i].kind \in {"file", "directory"}
  /\ archive.chosen # 0 => archive.chosen \in Entries /\ archive.entries[archive.chosen].kind = "file"
  /\ archive.chosen # 0 /\ archive.next > archive.chosen =>
       archive.entries[archive.chosen].actual = archive.entries[archive.chosen].declared
ArchiveInv ==
  /\ archive \in ArchiveRecord
  /\ Len(archive.entries) <= MaxEntries
  /\ archive.used <= MaxExpanded
  /\ archive.next \in 1..(Len(archive.entries) + 1)
  /\ import.stage \in {"called", "detect", "list"} => archive.next = 1
  /\ import.stage = "expand" => Checked
  /\ import.stage = "closing" /\ import.outcome = "none" =>
       Checked /\ archive.chosen # 0 /\ archive.next = Len(archive.entries) + 1

\* What was found is within the limits, and none is missing but what overflowed.
Findings ==
  /\ placemarks \in Seq(PlacemarkRecord)
  /\ capture \in [tuple : TupleRecord, text : SomeText]
  /\ found \in FoundRecord(import.kind)
  /\ Len(found.lines) <= MaxWaypoints /\ Len(found.points) <= MaxWaypoints
  /\ found.sawLine => import.kind = "kml"
  /\ ~found.overflow => Len(found.points) = found.due
  /\ import.kind = "kml" => found.waylines = 0

\* Where the parser is.
Whereabouts ==
  /\ open \in Seq([tag : Tag, before : ContextRecord])
  /\ Placed(context)
  /\ \A k \in 1..Len(open) : Placed(open[k].before)
  /\ open # <<>> => open[1].before = Outside
  /\ WhereItIs

ImporterInv == Course /\ ArchiveInv /\ Findings /\ Whereabouts

LEMMA RestsInOrder ==
  Rests /\ MaxWaypoints \in Nat => Findings /\ Whereabouts
<1> SUFFICES ASSUME Rests, MaxWaypoints \in Nat PROVE Findings /\ Whereabouts
  OBVIOUS
<1>1. NoTuple \in TupleRecord /\ "none" \in SomeText
  BY DEF NoTuple, TupleRecord, SomeText
<1>2. /\ <<>> \in Seq(PlacemarkRecord) /\ <<>> \in Seq(Handed("kml"))
      /\ <<>> \in Seq(Handed(import.kind)) /\ <<>> \in Seq([tag : Tag, before : ContextRecord])
      /\ <<>> \in Seq(Int)
  OBVIOUS
<1>3. NoCapture \in [tuple : TupleRecord, text : SomeText]
  BY <1>1 DEF NoCapture
<1>4. NothingFound \in FoundRecord(import.kind)
  BY <1>2 DEF NothingFound, FoundRecord
<1>5. Findings
  BY <1>2, <1>3, <1>4 DEF Rests, Findings, NothingFound
<1>6. Nothing \in [target : Targets, at : Nat, of : Nat]
  BY DEF Nothing, Targets
<1>7. Outside \in ContextRecord
  BY <1>2, <1>6 DEF Outside, ContextRecord
<1>8. Placed(Outside)
  BY <1>7 DEF Placed, Outside
<1>9. Whereabouts
  BY <1>2, <1>8 DEF Rests, Whereabouts, WhereItIs, Outside
<1> QED
  BY <1>5, <1>9

LEMMA ImporterBegins ==
  ASSUME ImporterAssumption, ImporterInit
  PROVE  ImporterInv
<1>1. Rests
  BY DEF ImporterInit, Rests
<1>2. Findings /\ Whereabouts
  BY <1>1, RestsInOrder DEF ImporterAssumption
<1>3. /\ import \in ImportRecord /\ import.stage = "called" /\ import.kind = "kml"
      /\ import.companion = FALSE /\ import.outcome = "none"
  BY DEF ImporterInit, ImportRecord
<1>4. Course
  <2>1. cancellation = "clear"
    BY DEF ImporterInit
  <2> QED
    BY <1>1, <1>3, <2>1 DEF Course
<1>5. <<>> \in Seq(Entry)
  OBVIOUS
<1>6. ArchiveInv
  BY <1>3, <1>5 DEF ImporterInit, ArchiveInv, NoArchive, ArchiveRecord, ImporterAssumption
<1> QED
  BY <1>2, <1>4, <1>6 DEF ImporterInv

\* What is parsed is as it was.
LEMMA ParserStays ==
  ASSUME Findings, Whereabouts, UNCHANGED parsing, import'.kind = import.kind
  PROVE  Findings' /\ Whereabouts'
<1>1. Findings'
  BY DEF Findings, parsing
<1>2. Whereabouts'
  BY DEF Whereabouts, WhereItIs, parsing
<1> QED
  BY <1>1, <1>2

\* An import that fails leaves nothing.
LEMMA FailingKeeps ==
  ASSUME ImporterAssumption, ImporterInv, NEW error \in Errors \cup {"cancelled"}, Fails(error),
         error = "cancelled" => cancellation = "aborted", UNCHANGED cancellation
  PROVE  ImporterInv'
<1>1. Rests'
  BY DEF Fails, Rests
<1>2. Findings' /\ Whereabouts'
  <2>1. (Rests /\ MaxWaypoints \in Nat => Findings /\ Whereabouts)'
    BY RestsInOrder, PTL
  <2> QED
    BY <1>1, <2>1 DEF ImporterAssumption
<1>3. /\ import' \in ImportRecord /\ import'.outcome = error
      /\ import'.stage = (IF import.stage \in ArchiveStages THEN "closing" ELSE "ended")
      /\ import'.format = import.format /\ import'.kind = import.kind
      /\ import'.companion = import.companion
  <2>1. import \in ImportRecord
    BY DEF ImporterInv, Course
  <2> QED
    BY <2>1 DEF Fails, Concludes, ImportRecord
<1>e. error # "none" /\ error # "parsed"
  BY DEF Errors, IntakeErrors
<1>4. Course'
  BY <1>1, <1>e, <1>3 DEF ImporterInv, Course, ArchiveStages
<1>5. <<>> \in Seq(Entry) /\ archive' = NoArchive
  BY DEF Fails
<1>6. ArchiveInv'
  BY <1>e, <1>3, <1>5 DEF ArchiveInv, NoArchive, ArchiveRecord, ImporterAssumption, ArchiveStages
<1> QED
  BY <1>2, <1>4, <1>6 DEF ImporterInv

LEMMA CancelledKeeps ==
  ASSUME ImporterAssumption, ImporterInv, Cancelled
  PROVE  ImporterInv'
<1>1. CASE cancellation = "aborted"
  <2>1. Fails("cancelled") /\ UNCHANGED cancellation
    BY <1>1 DEF Cancelled
  <2> QED
    BY <1>1, <2>1, FailingKeeps
<1>2. CASE cancellation # "aborted"
  <2>1. Fails("DOMAIN_INVARIANT_VIOLATION") /\ UNCHANGED cancellation
    BY <1>2 DEF Cancelled
  <2>2. "DOMAIN_INVARIANT_VIOLATION" \in Errors
    BY DEF Errors, IntakeErrors
  <2> QED
    BY <2>1, <2>2, FailingKeeps
<1> QED
  BY <1>1, <1>2

\* A step to another stage, with nothing read so far or nothing changed.
LEMMA GoesKeeps ==
  ASSUME ImporterInv, NEW stage, Goes(stage), UNCHANGED cancellation,
         stage \in {"detect", "list", "parse", "paused", "digest", "ended"},
         stage \in {"detect", "list"} => import.stage = "called",
         stage = "list" => import.format = "kmz",
         import.outcome # "none" => stage = "ended" /\ import.outcome # "parsed",
         stage = "digest" => ~found.overflow \/ found.sawLine
  PROVE  ImporterInv'
<1>1. /\ import' \in ImportRecord /\ import'.stage = stage
      /\ import'.format = import.format /\ import'.kind = import.kind
      /\ import'.companion = import.companion /\ import'.outcome = import.outcome
  <2>1. import \in ImportRecord
    BY DEF ImporterInv, Course
  <2> QED
    BY <2>1 DEF Goes, ImportRecord
<1>2. Findings' /\ Whereabouts'
  BY <1>1, ParserStays DEF ImporterInv, Goes
<1>3. Course'
  BY <1>1 DEF ImporterInv, Course, Goes, parsing, Rests
<1>4. ArchiveInv'
  BY <1>1 DEF ImporterInv, ArchiveInv, Goes
<1> QED
  BY <1>2, <1>3, <1>4 DEF ImporterInv

\* The intake errors, and what else an import fails with.
LEMMA NotZipKeeps ==
  ASSUME ImporterAssumption, ImporterInv, NEW error \in Errors, NotZip(error)
  PROVE  ImporterInv'
<1>1. error # "cancelled"
  BY DEF Errors, IntakeErrors
<1> QED
  BY <1>1, FailingKeeps DEF NotZip

LEMMA ZipErrors ==
  /\ {"ARCHIVE_ENTRY_LIMIT", "CORRUPT_KMZ", "ARCHIVE_EXPANSION_LIMIT", "FORMAT_MISMATCH"} \subseteq Errors
  /\ {"INVALID_XML", "EXTERNAL_ENTITY_FORBIDDEN", "TOO_MANY_WAYPOINTS"} \subseteq Errors
  /\ IntakeErrors \subseteq Errors /\ SelectionError \in Errors
  /\ MetadataError = "none" \/ MetadataError \in Errors
BY DEF Errors, IntakeErrors, SelectionError, MetadataError

LEMMA CancelKeeps ==
  ASSUME ImporterInv, Cancel
  PROVE  ImporterInv'
<1>1. Findings' /\ Whereabouts'
  BY ParserStays DEF ImporterInv, Cancel
<1>2. Course'
  BY DEF ImporterInv, Course, Cancel, parsing, Rests
<1>3. ArchiveInv'
  BY DEF ImporterInv, ArchiveInv, Cancel, Checked, Entries, Same
<1> QED
  BY <1>1, <1>2, <1>3 DEF ImporterInv

LEMMA IntakeKeeps ==
  ASSUME ImporterAssumption, ImporterInv, Intake
  PROVE  ImporterInv'
<1>0. import.stage = "called" /\ import.outcome = "none"
  BY DEF Intake, ImporterInv, Course
<1>1. CASE Cancelled
  BY <1>1, CancelledKeeps
<1>2. CASE ~Cancelled
  <2>1. UNCHANGED cancellation
    BY <1>2 DEF Intake
  <2>2. ASSUME NEW error \in IntakeErrors, Fails(error) PROVE ImporterInv'
    BY <2>1, <2>2, ZipErrors, NotZipKeeps DEF NotZip
  <2>3. CASE import.format = "kmz" /\ Goes("list")
    BY <1>0, <2>1, <2>3, GoesKeeps
  <2>4. CASE Goes("detect")
    BY <1>0, <2>1, <2>4, GoesKeeps
  <2> QED
    BY <1>2, <2>2, <2>3, <2>4 DEF Intake
<1> QED
  BY <1>1, <1>2

LEMMA DetectKeeps ==
  ASSUME ImporterAssumption, ImporterInv, Detect
  PROVE  ImporterInv'
<1>0. import.stage = "detect" /\ import.outcome = "none"
  BY DEF Detect, ImporterInv, Course
<1>1. CASE Cancelled
  BY <1>1, CancelledKeeps
<1>2. CASE ~Cancelled
  <2>1. UNCHANGED cancellation
    BY <1>2 DEF Detect
  <2>2. CASE Fails("FORMAT_MISMATCH")
    BY <2>1, <2>2, ZipErrors, NotZipKeeps DEF NotZip
  <2>3. CASE Goes("parse")
    BY <1>0, <2>1, <2>3, GoesKeeps
  <2> QED
    BY <1>2, <2>2, <2>3 DEF Detect
<1> QED
  BY <1>1, <1>2

\* A step that only moves on in the archive.
LEMMA ArchiveMoves ==
  ASSUME ImporterInv, UNCHANGED <<import, cancellation, parsing>>, ArchiveInv'
  PROVE  ImporterInv'
<1>1. Findings' /\ Whereabouts'
  BY ParserStays DEF ImporterInv
<1>2. Course'
  BY DEF ImporterInv, Course, parsing, Rests
<1> QED
  BY <1>1, <1>2 DEF ImporterInv

LEMMA ListsKeeps ==
  ASSUME ImporterAssumption, ImporterInv, Lists
  PROVE  ImporterInv'
<1>1. CASE Cancelled
  BY <1>1, CancelledKeeps
<1>2. ASSUME NEW entry \in Entry, Len(archive.entries) = MaxEntries, NotZip("ARCHIVE_ENTRY_LIMIT")
      PROVE  ImporterInv'
  BY <1>2, ZipErrors, NotZipKeeps
<1>3. ASSUME NEW entry \in Entry, Len(archive.entries) # MaxEntries,
             archive' = [archive EXCEPT !.entries = Append(@, entry)],
             UNCHANGED <<import, cancellation, parsing>>
      PROVE  ImporterInv'
  <2>0. archive \in ArchiveRecord /\ MaxEntries \in Nat /\ Len(archive.entries) <= MaxEntries
    BY DEF ImporterInv, ArchiveInv, ImporterAssumption
  <2>1. archive.entries \in Seq(Entry) /\ Len(archive.entries) \in Nat
    BY <2>0 DEF ArchiveRecord
  <2>2. Append(archive.entries, entry) \in Seq(Entry)
        /\ Len(Append(archive.entries, entry)) = Len(archive.entries) + 1
    BY <2>1
  <2>3. /\ archive' \in ArchiveRecord /\ Len(archive'.entries) = Len(archive.entries) + 1
        /\ archive'.next = archive.next /\ archive'.used = archive.used
    BY <1>3, <2>0, <2>2 DEF ArchiveRecord
  <2>4. import.stage = "list" /\ archive.next = 1
    BY DEF ImporterInv, ArchiveInv, Lists
  <2>5. ArchiveInv'
    BY <1>3, <2>0, <2>1, <2>3, <2>4 DEF ImporterInv, ArchiveInv
  <2> QED
    BY <1>3, <2>5, ArchiveMoves
<1> QED
  BY <1>1, <1>2, <1>3 DEF Lists

LEMMA RankRange ==
  ASSUME NEW entry
  PROVE  Rank(entry) \in 1..8 /\ (entry.kind = "directory" => Rank(entry) = 8)
<1>1. CASE entry.kind = "directory"
  BY <1>1 DEF Rank
<1>2. CASE entry.kind # "directory" /\ entry.name = "waylines.wpml"
  BY <1>2 DEF Rank
<1>3. CASE entry.kind # "directory" /\ entry.name = "template.kml"
  BY <1>3 DEF Rank
<1>4. CASE entry.kind # "directory" /\ entry.name \notin {"waylines.wpml", "template.kml"}
  BY <1>4 DEF Rank
<1> QED
  BY <1>1, <1>2, <1>3, <1>4

LEMMA LeastOfEight ==
  ASSUME NEW S, S \subseteq 1..8, S # {}
  PROVE  Min(S) \in S
<1>1. \E x \in S : \A y \in S : x <= y
  <2>1. CASE 1 \in S
    BY <2>1
  <2>2. CASE 1 \notin S /\ 2 \in S
    BY <2>2
  <2>3. CASE 1 \notin S /\ 2 \notin S /\ 3 \in S
    BY <2>3
  <2>4. CASE 1 \notin S /\ 2 \notin S /\ 3 \notin S /\ 4 \in S
    BY <2>4
  <2>5. CASE 1 \notin S /\ 2 \notin S /\ 3 \notin S /\ 4 \notin S /\ 5 \in S
    BY <2>5
  <2>6. CASE 1 \notin S /\ 2 \notin S /\ 3 \notin S /\ 4 \notin S /\ 5 \notin S /\ 6 \in S
    BY <2>6
  <2>7. CASE /\ 1 \notin S /\ 2 \notin S /\ 3 \notin S /\ 4 \notin S /\ 5 \notin S /\ 6 \notin S
             /\ 7 \in S
    BY <2>7
  <2>8. CASE /\ 1 \notin S /\ 2 \notin S /\ 3 \notin S /\ 4 \notin S /\ 5 \notin S /\ 6 \notin S
             /\ 7 \notin S
    <3>1. \A y \in S : y = 8
      BY <2>8
    <3>2. 8 \in S
      BY <3>1
    <3> QED
      BY <3>1, <3>2
  <2> QED
    BY <2>1, <2>2, <2>3, <2>4, <2>5, <2>6, <2>7, <2>8
<1> QED
  BY <1>1 DEF Min

\* The document chosen is a file of the archive.
LEMMA ChosenIsListed ==
  ASSUME archive.entries \in Seq(Entry), Selected # 0
  PROVE  Selected \in Entries /\ archive.entries[Selected].kind # "directory"
<1> DEFINE ranks == {Rank(archive.entries[k]) : k \in Entries}
<1>1. Entries # {} /\ Best # 8 /\ ~(Cardinality(Candidates) > 1) /\ Selected = Min(Candidates)
  BY DEF Selected
<1>2. Best \in ranks
  <2>1. ranks \subseteq 1..8
    BY RankRange
  <2>2. ranks # {}
    BY <1>1
  <2> QED
    BY <2>1, <2>2, LeastOfEight DEF Best
<1>3. Candidates # {} /\ Candidates \subseteq Entries
  BY <1>2 DEF Candidates
<1>4. \E x : Candidates = {x}
  <2>1. Entries = 1..Len(archive.entries) /\ Len(archive.entries) \in Int
    BY DEF Entries
  <2>2. IsFiniteSet(Candidates)
    <3>1. IsFiniteSet(Entries)
      BY <2>1, FS_Interval
    <3> QED
      BY <1>3, <3>1, FS_Subset
  <2>3. Cardinality(Candidates) \in Nat /\ Cardinality(Candidates) # 0
    BY <1>3, <2>2, FS_CardinalityType, FS_EmptySet
  <2>4. Cardinality(Candidates) = 1
    BY <1>1, <2>3
  <2> QED
    BY <2>2, <2>4, FS_Singleton
<1>5. PICK x : Candidates = {x}
  BY <1>4
<1>6. x \in Entries /\ x \in Int
  BY <1>3, <1>5 DEF Entries
<1>7. Min({x}) = x
  BY <1>6 DEF Min
<1>8. Rank(archive.entries[x]) # 8
  BY <1>1, <1>5 DEF Candidates
<1> QED
  BY <1>1, <1>5, <1>6, <1>7, <1>8, RankRange

LEMMA NothingIsWrong ==
  ASSUME MetadataError = "none"
  PROVE  \A k \in Entries : ~Bad(k) /\ ~Closed(k)
<1> DEFINE bad == {k \in Entries : Bad(k)}
           closed == {k \in Entries : Closed(k)}
<1>1. bad = {} /\ closed = {}
  <2>1. CASE bad # {}
    BY <2>1 DEF MetadataError
  <2>2. CASE bad = {} /\ closed # {}
    BY <2>2 DEF MetadataError
  <2> QED
    BY <2>1, <2>2
<1> QED
  BY <1>1

LEMMA ListEndsKeeps ==
  ASSUME ImporterAssumption, ImporterInv, ListEnds
  PROVE  ImporterInv'
<1>1. CASE Cancelled
  BY <1>1, CancelledKeeps
<1>2. CASE MetadataError # "none" /\ NotZip(MetadataError)
  BY <1>2, ZipErrors, NotZipKeeps
<1>3. CASE MetadataError = "none" /\ ~Cancelled
  <2>0. /\ import' = [import EXCEPT !.stage = "expand"]
        /\ archive' = [archive EXCEPT !.chosen = Selected]
        /\ cancellation' = cancellation /\ parsing' = parsing
        /\ import.stage = "list" /\ import.outcome = "none"
    BY <1>3 DEF ListEnds, ImporterInv, Course
  <2>1. /\ archive \in ArchiveRecord /\ archive.entries \in Seq(Entry) /\ archive.next = 1
        /\ Entries = 1..Len(archive.entries) /\ Len(archive.entries) \in Nat
    BY <2>0 DEF ImporterInv, ArchiveInv, ArchiveRecord, Entries
  <2>2. \A k \in Entries : ~Bad(k) /\ ~Closed(k)
    BY <1>3, NothingIsWrong
  <2>3. \A k \in Entries : archive.entries[k].kind \in {"file", "directory"}
    <3> SUFFICES ASSUME NEW k \in Entries PROVE archive.entries[k].kind \in {"file", "directory"}
      OBVIOUS
    <3>1. archive.entries[k] \in Entry
      BY <2>1
    <3>2. archive.entries[k] \in [dir : STRING, name : STRING, kind : Kinds, declared : Nat, actual : Nat]
      BY <3>1 DEF ImporterAssumption
    <3>3. archive.entries[k].kind \in Kinds
      BY <3>2
    <3> QED
      BY <2>2, <3>3 DEF Kinds, Bad, Closed
  <2>4. \A i, j \in Entries : Same(i, j) => i = j
    <3> SUFFICES ASSUME NEW i \in Entries, NEW j \in Entries, Same(i, j), i # j PROVE FALSE
      OBVIOUS
    <3>1. i \in Nat /\ j \in Nat /\ i >= 1 /\ j >= 1 /\ Same(j, i)
      BY <2>1 DEF Same
    <3>2. i \in 1..(j - 1) \/ j \in 1..(i - 1)
      BY <3>1
    <3> QED
      BY <2>2, <3>1, <3>2 DEF Bad
  <2>5. Selected # 0 => /\ Selected \in Entries /\ archive.entries[Selected].kind = "file"
                        /\ Selected \in Nat
    BY <2>1, <2>3, ChosenIsListed
  <2>6. Selected = 0 \/ Selected \in 1..Len(archive.entries)
    BY <2>1, <2>5
  <2>7. /\ archive' \in ArchiveRecord /\ archive'.entries = archive.entries
        /\ archive'.chosen = Selected /\ archive'.next = 1 /\ archive'.used = archive.used
    <3>1. Selected \in Nat
      BY <2>1, <2>6
    <3> QED
      BY <2>0, <2>1, <3>1 DEF ArchiveRecord
  <2>8. Checked'
    <3>1. Entries' = Entries /\ \A i, j : Same(i, j)' <=> Same(i, j)
      BY <2>7 DEF Entries, Same
    <3>2. Selected # 0 => ~(1 > Selected)
      BY <2>1, <2>6
    <3> QED
      BY <2>3, <2>4, <2>5, <2>7, <3>1, <3>2 DEF Checked
  <2>9. /\ import' \in ImportRecord /\ import'.stage = "expand" /\ import'.format = import.format
        /\ import'.kind = import.kind /\ import'.companion = import.companion
        /\ import'.outcome = import.outcome
    BY <2>0 DEF ImporterInv, Course, ImportRecord
  <2>10. ArchiveInv'
    BY <2>1, <2>7, <2>8, <2>9 DEF ImporterInv, ArchiveInv
  <2>11. Course'
    BY <2>0, <2>9 DEF ImporterInv, Course, parsing, Rests
  <2>12. Findings' /\ Whereabouts'
    BY <2>0, <2>9, ParserStays DEF ImporterInv
  <2> QED
    BY <2>10, <2>11, <2>12 DEF ImporterInv
<1> QED
  BY <1>1, <1>2, <1>3 DEF ListEnds

LEMMA WritesKeeps ==
  ASSUME ImporterAssumption, ImporterInv, Writes
  PROVE  ImporterInv'
<1>0. "ARCHIVE_EXPANSION_LIMIT" \in Errors /\ "CORRUPT_KMZ" \in Errors
  BY ZipErrors
<1>1. CASE Cancelled
  BY <1>1, CancelledKeeps
<1>2. CASE NotZip("ARCHIVE_EXPANSION_LIMIT") \/ NotZip("CORRUPT_KMZ")
  BY <1>0, <1>2, NotZipKeeps
<1>3. CASE /\ archive.used # MaxExpanded
           /\ archive' = [archive EXCEPT !.written = @ + 1, !.used = @ + 1]
           /\ UNCHANGED <<import, cancellation, parsing>>
  <2>1. /\ archive \in ArchiveRecord /\ MaxExpanded \in Nat /\ archive.used <= MaxExpanded
        /\ import.stage = "expand"
    BY DEF ImporterInv, ArchiveInv, ImporterAssumption, Writes, Expanding
  <2>2. archive.written \in Nat /\ archive.used \in Nat
    BY <2>1 DEF ArchiveRecord
  <2>3. archive.written + 1 \in Nat /\ archive.used + 1 \in Nat /\ archive.used + 1 <= MaxExpanded
    BY <1>3, <2>1, <2>2
  <2>4. /\ archive' \in ArchiveRecord /\ archive'.used = archive.used + 1
        /\ archive'.entries = archive.entries /\ archive'.next = archive.next
        /\ archive'.chosen = archive.chosen
    BY <1>3, <2>1, <2>3 DEF ArchiveRecord
  <2>5. Checked'
    BY <2>1, <2>4 DEF ImporterInv, ArchiveInv, Checked, Entries, Same
  <2>6. ArchiveInv'
    BY <1>3, <2>1, <2>3, <2>4, <2>5 DEF ImporterInv, ArchiveInv
  <2> QED
    BY <1>3, <2>6, ArchiveMoves
<1> QED
  BY <1>1, <1>2, <1>3 DEF Writes

LEMMA EntryEndsKeeps ==
  ASSUME ImporterAssumption, ImporterInv, EntryEnds
  PROVE  ImporterInv'
<1>0. "CORRUPT_KMZ" \in Errors
  BY ZipErrors
<1>1. CASE NotZip("CORRUPT_KMZ")
  BY <1>0, <1>1, NotZipKeeps
<1>2. CASE /\ archive.next = archive.chosen => archive.written = Current.declared
           /\ archive' = [archive EXCEPT !.next = @ + 1, !.written = 0]
           /\ UNCHANGED <<import, cancellation, parsing>>
  <2>1. /\ archive \in ArchiveRecord /\ import.stage = "expand" /\ archive.next \in Entries
        /\ Checked
    BY DEF ImporterInv, ArchiveInv, EntryEnds, Expanding
  <2>2. /\ archive.next \in 1..Len(archive.entries) /\ Len(archive.entries) \in Nat
        /\ archive.chosen \in Nat
    BY <2>1 DEF ArchiveRecord, Entries
  <2>3. /\ archive' \in ArchiveRecord /\ archive'.next = archive.next + 1
        /\ archive'.entries = archive.entries /\ archive'.used = archive.used
        /\ archive'.chosen = archive.chosen
    <3>1. archive.next + 1 \in Nat
      BY <2>2
    <3> QED
      BY <1>2, <2>1, <3>1 DEF ArchiveRecord
  <2>4. archive.chosen # 0 /\ archive.next + 1 > archive.chosen =>
          archive.entries[archive.chosen].actual = archive.entries[archive.chosen].declared
    <3>1. CASE archive.next = archive.chosen /\ archive.chosen # 0
      <4>1. Current.kind = "file"
        BY <2>1, <3>1 DEF Checked, Current
      <4> QED
        BY <1>2, <3>1, <4>1 DEF EntryEnds, Current
    <3>2. CASE archive.next # archive.chosen
      BY <2>1, <2>2, <3>2 DEF Checked
    <3> QED
      BY <3>1, <3>2
  <2>5. Checked'
    BY <2>1, <2>3, <2>4 DEF Checked, Entries, Same
  <2>6. ArchiveInv'
    BY <1>2, <2>1, <2>2, <2>3, <2>5 DEF ImporterInv, ArchiveInv
  <2> QED
    BY <1>2, <2>6, ArchiveMoves
<1> QED
  BY <1>1, <1>2 DEF EntryEnds

LEMMA ExpandedKeeps ==
  ASSUME ImporterAssumption, ImporterInv, Expanded
  PROVE  ImporterInv'
<1>1. CASE NotZip(SelectionError)
  BY <1>1, ZipErrors, NotZipKeeps
<1>2. CASE archive.chosen # 0
  <2> DEFINE wpml == archive.entries[archive.chosen].name = "waylines.wpml"
             companion == wpml /\ Companion(archive.chosen)
             kind == IF wpml THEN "wpml" ELSE "kml"
  <2>1. /\ import' = [import EXCEPT !.stage = "closing", !.kind = kind, !.companion = companion]
        /\ UNCHANGED <<cancellation, archive, parsing>>
        /\ archive.next = Len(archive.entries) + 1
        /\ import.stage = "expand" /\ import.outcome = "none" /\ import.format = "kmz"
    BY <1>2 DEF Expanded, ImporterInv, Course
  <2>2. companion \in BOOLEAN /\ kind \in {"kml", "wpml"} /\ (companion => kind = "wpml")
    BY DEF Companion
  <2> HIDE DEF wpml, companion, kind
  <2>3. /\ import' \in ImportRecord /\ import'.stage = "closing" /\ import'.format = "kmz"
        /\ import'.kind = kind /\ import'.companion = companion /\ import'.outcome = "none"
    <3>1. import \in ImportRecord
      BY DEF ImporterInv, Course
    <3> QED
      BY <2>1, <2>2, <3>1 DEF ImportRecord
  <2>4. Rests' /\ cancellation' \in {"clear", "aborted", "unreadable"}
    BY <2>1 DEF ImporterInv, Course, Rests, parsing
  <2>5. Findings' /\ Whereabouts'
    <3>1. (Rests /\ MaxWaypoints \in Nat => Findings /\ Whereabouts)'
      BY RestsInOrder, PTL
    <3> QED
      BY <2>4, <3>1 DEF ImporterAssumption
  <2>6. Course'
    BY <2>2, <2>3, <2>4 DEF Course
  <2>7. ArchiveInv'
    BY <1>2, <2>1, <2>3 DEF ImporterInv, ArchiveInv, Checked, Entries, Same
  <2> QED
    BY <2>5, <2>6, <2>7 DEF ImporterInv
<1> QED
  BY <1>1, <1>2 DEF Expanded

LEMMA ClosesKeeps ==
  ASSUME ImporterAssumption, ImporterInv, Closes
  PROVE  ImporterInv'
<1>0. import.stage = "closing" /\ import.outcome # "parsed"
  BY DEF Closes, ImporterInv, Course
<1>1. CASE import.outcome # "none"
  BY <1>0, <1>1, GoesKeeps DEF Closes
<1>2. CASE Cancelled
  BY <1>2, CancelledKeeps
<1>3. CASE import.outcome = "none" /\ ~Cancelled
  <2>1. /\ import' = [import EXCEPT !.stage = "parse"] /\ archive' = NoArchive
        /\ UNCHANGED <<cancellation, parsing>>
    BY <1>3 DEF Closes
  <2>2. /\ import' \in ImportRecord /\ import'.stage = "parse" /\ import'.format = import.format
        /\ import'.kind = import.kind /\ import'.companion = import.companion
        /\ import'.outcome = import.outcome
    BY <2>1 DEF ImporterInv, Course, ImportRecord
  <2>3. Findings' /\ Whereabouts'
    BY <2>1, <2>2, ParserStays DEF ImporterInv
  <2>4. Course'
    BY <1>3, <2>1, <2>2 DEF ImporterInv, Course
  <2>5. <<>> \in Seq(Entry)
    OBVIOUS
  <2>6. ArchiveInv'
    BY <2>1, <2>2, <2>5 DEF ArchiveInv, NoArchive, ArchiveRecord, ImporterAssumption
  <2> QED
    BY <2>3, <2>4, <2>6 DEF ImporterInv
<1> QED
  BY <1>1, <1>2, <1>3

\* A step of the parser.
LEMMA ReaderMoves ==
  ASSUME ImporterInv, Parsing, UNCHANGED <<import, cancellation, archive>>,
         Findings', Whereabouts'
  PROVE  ImporterInv'
<1>1. import.stage = "parse" /\ import.outcome = "none"
  BY DEF Parsing, ImporterInv, Course
<1>2. Course'
  BY <1>1 DEF ImporterInv, Course
<1>3. ArchiveInv'
  BY <1>1 DEF ImporterInv, ArchiveInv
<1> QED
  BY <1>2, <1>3 DEF ImporterInv

LEMMA EnteredWhat ==
  ASSUME NEW c, Placed(c), NEW kind, NEW tag, NEW e, e = Entered(c, kind, tag)
  PROVE  /\ e.depth = c.depth + 1
         /\ Len(e.points) = IF tag = "Placemark" /\ e.excluded = 0
                            THEN Len(c.points) + 1 ELSE Len(c.points)
         /\ e.excluded = 0 => c.excluded = 0 /\ e.reading = ReadingIn(c, kind, tag)
         /\ e.excluded # 0 => e.reading = c.reading
<1>0. /\ c \in ContextRecord /\ c.depth \in Nat /\ c.excluded \in Nat /\ c.points \in Seq(Int)
      /\ Len(c.points) \in Nat
  BY DEF Placed, ContextRecord
<1>1. CASE c.excluded # 0
  <2>1. e = [c EXCEPT !.depth = @ + 1]
    BY <1>1 DEF Entered
  <2>2. /\ e.depth = c.depth + 1 /\ e.excluded = c.excluded /\ e.points = c.points
        /\ e.reading = c.reading
    BY <1>0, <2>1 DEF ContextRecord
  <2> QED
    BY <1>1, <2>2
<1>2. CASE c.excluded = 0 /\ StartsExcludedSubtree(tag)
  <2>1. e = [c EXCEPT !.depth = @ + 1, !.excluded = c.depth + 1]
    BY <1>2 DEF Entered
  <2>2. /\ e.depth = c.depth + 1 /\ e.excluded = c.depth + 1 /\ e.points = c.points
        /\ e.reading = c.reading
    BY <1>0, <2>1 DEF ContextRecord
  <2>3. e.excluded # 0
    BY <1>0, <2>2
  <2> QED
    BY <2>2, <2>3
<1>3. CASE c.excluded = 0 /\ ~StartsExcludedSubtree(tag)
  <2> DEFINE into == CASE tag = "Placemark" -> Append(c.points, 0)
                       [] tag = "Point" /\ c.points # <<>> ->
                            [c.points EXCEPT ![Len(c.points)] = @ + 1]
                       [] OTHER -> c.points
             r == ReadingIn(c, kind, tag)
             n == c.lines + (IF tag = "LineString" THEN 1 ELSE 0)
  <2>1. e = [depth |-> c.depth + 1, excluded |-> 0, lines |-> n, points |-> into, reading |-> r]
    BY <1>3 DEF Entered
  <2>2. Len(into) = IF tag = "Placemark" THEN Len(c.points) + 1 ELSE Len(c.points)
    <3>1. CASE tag = "Placemark"
      BY <1>0, <3>1
    <3>2. CASE tag = "Point" /\ c.points # <<>>
      <4>1. into = [c.points EXCEPT ![Len(c.points)] = @ + 1]
        BY <3>2
      <4>2. Len(into) = Len(c.points)
        BY <1>0, <4>1
      <4> QED
        BY <3>2, <4>2
    <3>3. CASE tag # "Placemark" /\ ~(tag = "Point" /\ c.points # <<>>)
      BY <3>3
    <3> QED
      BY <3>1, <3>2, <3>3
  <2> HIDE DEF into, r, n
  <2>3. e.depth = c.depth + 1 /\ e.excluded = 0 /\ e.points = into /\ e.reading = r
    BY <2>1
  <2> QED
    BY <1>3, <2>2, <2>3 DEF r
<1> QED
  BY <1>1, <1>2, <1>3

LEMMA OpenTagKeeps ==
  ASSUME ImporterAssumption, ImporterInv, NEW tag \in Tag, OpenTag(tag)
  PROVE  ImporterInv'
<1>0. /\ Parsing /\ UNCHANGED cancellation
      /\ {"INVALID_XML"} \subseteq Errors
  BY ZipErrors DEF OpenTag
<1>1. CASE Fails("INVALID_XML")
  BY <1>0, <1>1, NotZipKeeps DEF NotZip
<1>2. CASE ~Fails("INVALID_XML")
  <2> DEFINE saw == Reading = Nothing /\ context'.reading.target = "line"
             more == IF tag = "waylineId" /\ import.kind = "wpml" THEN 1 ELSE 0
             wpml == IsWpml(tag)
  <2>1. /\ open' = Append(open, [tag |-> tag, before |-> context])
        /\ context' = Entered(context, import.kind, tag)
        /\ placemarks' = IF tag = "Placemark" /\ context'.excluded = 0
                         THEN Append(placemarks, NewPlacemark) ELSE placemarks
        /\ found' = [found EXCEPT !.elements = @ + 1, !.namespace = @ \/ wpml,
                                  !.sawLine = @ \/ saw, !.waylines = @ + more]
        /\ UNCHANGED <<import, archive, capture>>
    BY <1>2 DEF OpenTag
  <2>2. /\ Placed(context) /\ open \in Seq([tag : Tag, before : ContextRecord])
        /\ context \in ContextRecord /\ context.points \in Seq(Int) /\ WhereItIs
        /\ \A k \in 1..Len(open) : Placed(open[k].before)
    BY DEF ImporterInv, Whereabouts, Placed, ContextRecord
  <2>3. /\ Placed(context')
        /\ Len(context'.points) = (IF tag = "Placemark" /\ context'.excluded = 0
                                   THEN Len(context.points) + 1 ELSE Len(context.points))
        /\ context'.excluded = 0 => context'.reading = ReadingIn(context, import.kind, tag)
        /\ context'.excluded # 0 => context'.reading = Reading
    BY <2>1, <2>2, ComesOut, EnteredWhat DEF Reading
  <2>4. Whereabouts'
    <3> DEFINE element == [tag |-> tag, before |-> context]
    <3>0. element \in [tag : Tag, before : ContextRecord] /\ element.tag = tag /\ element.before = context
      BY <2>2
    <3> HIDE DEF element
    <3>1. /\ open' \in Seq([tag : Tag, before : ContextRecord]) /\ Len(open') = Len(open) + 1
          /\ open'[Len(open) + 1] = element
          /\ \A k \in 1..Len(open) : open'[k] = open[k]
          /\ Len(open) \in Nat
      BY <2>1, <2>2, <3>0 DEF element
    <3>2. \A k \in 1..Len(open') : Placed(open'[k].before)
      BY <2>2, <3>0, <3>1
    <3>3. \A k \in DOMAIN open' :
            Entered(open'[k].before, import.kind, open'[k].tag)
              = (IF k = Len(open') THEN context' ELSE open'[k + 1].before)
      <4> SUFFICES ASSUME NEW k \in 1..(Len(open) + 1)
                   PROVE  Entered(open'[k].before, import.kind, open'[k].tag)
                            = (IF k = Len(open) + 1 THEN context' ELSE open'[k + 1].before)
        BY <3>1
      <4>1. CASE k = Len(open) + 1
        BY <2>1, <3>0, <3>1, <4>1
      <4>2. CASE k \in 1..Len(open) /\ k = Len(open)
        BY <2>2, <3>0, <3>1, <4>2 DEF WhereItIs
      <4>3. CASE k \in 1..Len(open) /\ k # Len(open)
        <5>1. k + 1 \in 1..Len(open) /\ k # Len(open) + 1
          BY <3>1, <4>3
        <5> QED
          BY <2>2, <3>1, <4>3, <5>1 DEF WhereItIs
      <4> QED
        BY <3>1, <4>1, <4>2, <4>3
    <3>4. Len(placemarks') = Len(context'.points)
      <4>1. placemarks \in Seq(PlacemarkRecord) /\ Len(placemarks) = Len(context.points)
        BY <2>2 DEF ImporterInv, Findings, WhereItIs
      <4> QED
        BY <2>1, <2>3, <4>1
    <3>5. open' # <<>>
      BY <3>1
    <3>6. open'[1].before = Outside
      <4>1. CASE open = <<>>
        BY <2>2, <3>0, <3>1, <4>1 DEF WhereItIs
      <4>2. CASE open # <<>>
        <5>1. 1 \in 1..Len(open)
          BY <2>2, <4>2
        <5> QED
          BY <3>1, <4>2, <5>1 DEF ImporterInv, Whereabouts
      <4> QED
        BY <4>1, <4>2
    <3> QED
      BY <2>1, <2>3, <3>1, <3>2, <3>3, <3>4, <3>5, <3>6 DEF Whereabouts, WhereItIs
  <2>5. Findings'
    <3>1. saw => import.kind = "kml"
      <4>1. CASE saw
        <5>1. Reading = Nothing /\ context'.reading.target = "line" /\ Nothing.target # "line"
          BY <4>1 DEF Nothing
        <5>2. context'.reading = ReadingIn(context, import.kind, tag)
          BY <2>3, <5>1
        <5> QED
          BY <2>2, <5>1, <5>2, ReadingInType DEF Reading
      <4> QED
        BY <4>1
    <3>2. saw \in BOOLEAN /\ wpml \in BOOLEAN /\ more \in Nat /\ (import.kind = "kml" => more = 0)
      BY DEF IsWpml
    <3> HIDE DEF saw, wpml, more
    <3>3. /\ found \in FoundRecord(import.kind) /\ found.elements \in Nat /\ found.waylines \in Nat
          /\ found.namespace \in BOOLEAN /\ found.sawLine \in BOOLEAN
      BY DEF ImporterInv, Findings, FoundRecord
    <3>4. /\ found.elements + 1 \in Nat /\ found.waylines + more \in Nat
          /\ (found.namespace \/ wpml) \in BOOLEAN /\ (found.sawLine \/ saw) \in BOOLEAN
      BY <3>2, <3>3
    <3>5. /\ found' \in FoundRecord(import.kind)
          /\ found'.lines = found.lines /\ found'.points = found.points
          /\ found'.overflow = found.overflow /\ found'.due = found.due
          /\ found'.sawLine = (found.sawLine \/ saw)
          /\ found'.waylines = found.waylines + more
      BY <2>1, <3>3, <3>4 DEF FoundRecord
    <3>6. placemarks' \in Seq(PlacemarkRecord)
      <4>1. NoTuple \in TupleRecord
        BY DEF NoTuple, TupleRecord
      <4>2. [f \in Fields |-> <<>>] \in [Fields -> Seq(SomeText)]
        OBVIOUS
      <4>3. NewPlacemark \in PlacemarkRecord
        BY <4>1, <4>2 DEF NewPlacemark, PlacemarkRecord
      <4>4. placemarks \in Seq(PlacemarkRecord)
        BY DEF ImporterInv, Findings
      <4> QED
        BY <2>1, <4>3, <4>4
    <3>7. import.kind = "kml" => found'.waylines = 0
      BY <3>2, <3>3, <3>5 DEF ImporterInv, Findings
    <3> QED
      BY <2>1, <3>1, <3>5, <3>6, <3>7 DEF ImporterInv, Findings
  <2> QED
    BY <1>0, <2>1, <2>4, <2>5, ReaderMoves
<1> QED
  BY <1>1, <1>2

LEMMA WordKeeps ==
  ASSUME ImporterAssumption, ImporterInv, NEW tuple \in Tuple, Word(tuple)
  PROVE  ImporterInv'
<1>1. tuple \in TupleRecord
  BY DEF ImporterAssumption, TupleRecord
<1>2. capture' \in [tuple : TupleRecord, text : SomeText]
  BY <1>1 DEF ImporterInv, Findings, Word
<1>3. found \in FoundRecord(import.kind) /\ found.elements + 1 \in Nat
  BY DEF ImporterInv, Findings, FoundRecord
<1>4. /\ found' \in FoundRecord(import.kind) /\ found'.lines = found.lines
      /\ found'.points = found.points /\ found'.overflow = found.overflow /\ found'.due = found.due
      /\ found'.sawLine = found.sawLine /\ found'.waylines = found.waylines
  BY <1>3 DEF Word, FoundRecord
<1>5. Findings'
  BY <1>2, <1>4 DEF ImporterInv, Findings, Word
<1>6. Whereabouts'
  BY DEF ImporterInv, Whereabouts, WhereItIs, Word
<1> QED
  BY <1>5, <1>6, ReaderMoves DEF Word

LEMMA FieldTextKeeps ==
  ASSUME ImporterInv, NEW text \in Texts, FieldText(text)
  PROVE  ImporterInv'
<1>1. capture' \in [tuple : TupleRecord, text : SomeText]
  BY DEF ImporterInv, Findings, FieldText, SomeText
<1>2. Findings'
  BY <1>1 DEF ImporterInv, Findings, FieldText
<1>3. Whereabouts'
  BY DEF ImporterInv, Whereabouts, WhereItIs, FieldText
<1> QED
  BY <1>2, <1>3, ReaderMoves DEF FieldText

LEMMA TupledType ==
  ASSUME NEW placemark \in PlacemarkRecord, capture.tuple \in TupleRecord
  PROVE  Tupled(placemark) \in PlacemarkRecord
<1>1. placemark.tuples + 1 \in Nat /\ placemark.first \in TupleRecord
  BY DEF PlacemarkRecord
<1> DEFINE first == IF placemark.first.given THEN placemark.first ELSE capture.tuple
<1>2. first \in TupleRecord /\ Tupled(placemark) = [placemark EXCEPT !.tuples = @ + 1, !.first = first]
  BY <1>1 DEF Tupled
<1> HIDE DEF first
<1> QED
  BY <1>1, <1>2 DEF PlacemarkRecord

LEMMA WithElementType ==
  ASSUME NEW placemark \in PlacemarkRecord, capture.tuple \in TupleRecord
  PROVE  WithElement(placemark) \in PlacemarkRecord
<1> DEFINE told == IF capture.tuple.given THEN Tupled(placemark) ELSE placemark
<1>1. told \in PlacemarkRecord
  BY TupledType
<1>2. WithElement(placemark) = [told EXCEPT !.elements = @ + 1]
  BY DEF WithElement
<1> HIDE DEF told
<1>3. told.elements + 1 \in Nat
  BY <1>1 DEF PlacemarkRecord
<1> QED
  BY <1>1, <1>2, <1>3 DEF PlacemarkRecord

LEMMA PutInSequence ==
  ASSUME NEW S, NEW s \in Seq(S), NEW i, NEW v, i \in 1..Len(s) => v \in S
  PROVE  [s EXCEPT ![i] = v] \in Seq(S) /\ Len([s EXCEPT ![i] = v]) = Len(s)
<1>1. CASE i \in 1..Len(s)
  BY <1>1
<1>2. CASE i \notin 1..Len(s)
  <2>1. [s EXCEPT ![i] = v] = s
    BY <1>2
  <2> QED
    BY <2>1
<1> QED
  BY <1>1, <1>2

\* What emitCurrent() adds is of the form that is handed over.
LEMMA EmitKeeps ==
  ASSUME ImporterAssumption, Findings, Emit, ~TooManyLines, UNCHANGED import,
         capture' \in [tuple : TupleRecord, text : SomeText]
  PROVE  Findings' /\ Len(placemarks') = Len(placemarks)
<1>0. /\ capture.tuple \in TupleRecord /\ placemarks \in Seq(PlacemarkRecord)
      /\ found \in FoundRecord(import.kind) /\ found.lines \in Seq(Handed("kml"))
      /\ MaxWaypoints \in Nat /\ Len(found.lines) <= MaxWaypoints
  BY DEF Findings, FoundRecord, ImporterAssumption
<1>1. CASE ~capture.tuple.given
  BY <1>1 DEF Emit, Findings
<1>2. CASE capture.tuple.given /\ Reading.target = "line"
  <2>1. found' = [found EXCEPT !.lines = Append(@, LineDraft)] /\ UNCHANGED placemarks
    BY <1>2 DEF Emit
  <2>2. LineDraft \in Handed("kml") /\ Len(found.lines) # MaxWaypoints
    BY <1>0, <1>2, LineDraftType DEF TooManyLines
  <2>3. /\ Append(found.lines, LineDraft) \in Seq(Handed("kml"))
        /\ Len(Append(found.lines, LineDraft)) = Len(found.lines) + 1 /\ Len(found.lines) \in Nat
    BY <1>0, <2>2
  <2> HIDE DEF LineDraft
  <2>4. /\ found' \in FoundRecord(import.kind) /\ found'.lines = Append(found.lines, LineDraft)
        /\ found'.points = found.points /\ found'.overflow = found.overflow
        /\ found'.due = found.due /\ found'.sawLine = found.sawLine
        /\ found'.waylines = found.waylines
    BY <1>0, <2>1, <2>3 DEF FoundRecord
  <2>5. Len(found'.lines) <= MaxWaypoints
    BY <1>0, <2>2, <2>3, <2>4
  <2> QED
    BY <2>1, <2>4, <2>5 DEF Findings
<1>3. CASE capture.tuple.given /\ Reading.target # "line"
  <2>1. placemarks' = [placemarks EXCEPT ![Reading.of] = Tupled(@)] /\ UNCHANGED found
    BY <1>3 DEF Emit
  <2>2. placemarks' \in Seq(PlacemarkRecord) /\ Len(placemarks') = Len(placemarks)
    <3>1. placemarks' = [placemarks EXCEPT ![Reading.of] = Tupled(placemarks[Reading.of])]
      BY <2>1
    <3>2. Reading.of \in 1..Len(placemarks) => Tupled(placemarks[Reading.of]) \in PlacemarkRecord
      BY <1>0, TupledType
    <3> QED
      BY <1>0, <3>1, <3>2, PutInSequence
  <2> QED
    BY <2>1, <2>2 DEF Findings
<1> QED
  BY <1>1, <1>2, <1>3

LEMMA BlankKeeps ==
  ASSUME ImporterAssumption, ImporterInv, Blank
  PROVE  ImporterInv'
<1>1. CASE Fails("TOO_MANY_WAYPOINTS")
  BY <1>1, ZipErrors, NotZipKeeps DEF NotZip, Blank
<1>2. CASE ~Fails("TOO_MANY_WAYPOINTS")
  <2>1. /\ ~TooManyLines /\ Emit /\ capture' = [capture EXCEPT !.tuple = NoTuple] /\ Parsing
        /\ UNCHANGED <<import, cancellation, archive, open, context>>
    BY <1>2 DEF Blank
  <2>2. NoTuple \in TupleRecord
    BY DEF NoTuple, TupleRecord
  <2>3. capture' \in [tuple : TupleRecord, text : SomeText]
    BY <2>1, <2>2 DEF ImporterInv, Findings
  <2>4. Findings' /\ Len(placemarks') = Len(placemarks)
    BY <2>1, <2>3, EmitKeeps DEF ImporterInv
  <2>5. Whereabouts'
    BY <2>1, <2>4 DEF ImporterInv, Whereabouts, WhereItIs
  <2> QED
    BY <2>1, <2>4, <2>5, ReaderMoves
<1> QED
  BY <1>1, <1>2

\* Where an end tag leads.
LEMMA ComingOut ==
  ASSUME Whereabouts, open # <<>>, Closing, UNCHANGED import
  PROVE  /\ Placed(context') /\ context = Entered(context', import.kind, Top)
         /\ open' \in Seq([tag : Tag, before : ContextRecord])
         /\ \A k \in 1..Len(open') : Placed(open'[k].before)
         /\ open' # <<>> => open'[1].before = Outside
         /\ open' = <<>> => context' = Outside
         /\ \A k \in DOMAIN open' :
              Entered(open'[k].before, import'.kind, open'[k].tag)
                = (IF k = Len(open') THEN context' ELSE open'[k + 1].before)
<1> DEFINE n == Len(open)
<1>1. /\ open \in Seq([tag : Tag, before : ContextRecord]) /\ n \in Nat /\ n >= 1
      /\ \A k \in 1..n : Placed(open[k].before)
      /\ open[1].before = Outside /\ WhereItIs
  BY DEF Whereabouts
<1>2. Placed(open[n].before) /\ context = Entered(open[n].before, import.kind, Top)
  BY <1>1 DEF WhereItIs, Top
<1>3. context' = open[n].before
  BY <1>2, ComesOut DEF Closing
<1>4. /\ open' = SubSeq(open, 1, n - 1) /\ open' \in Seq([tag : Tag, before : ContextRecord])
      /\ Len(open') = n - 1 /\ \A k \in 1..(n - 1) : open'[k] = open[k]
  <2>1. open' = SubSeq(open, 1, n - 1)
    BY DEF Closing
  <2> DEFINE Element == [tag : Tag, before : ContextRecord]
  <2>2. open \in Seq(Element) /\ n - 1 \in Nat /\ \A k \in 1..(n - 1) : k \in 1..n
    BY <1>1
  <2> HIDE DEF Element
  <2>3. \A k \in 1..n : open[k] \in Element
    BY <2>2
  <2>4. \A k \in 1..(n - 1) : open[k] \in Element
    BY <2>2, <2>3
  <2>5. open' \in Seq(Element) /\ Len(open') = n - 1 /\ \A k \in 1..(n - 1) : open'[k] = open[k]
    <3> DEFINE m == n - 1
    <3>0. n \in Nat /\ n >= 1
      BY <1>1
    <3> HIDE DEF n
    <3>1. m \in Int /\ m >= 0 /\ (1 <= m => m - 1 + 1 = m) /\ (~(1 <= m) => m = 0) /\ 1 \in Int
      BY <3>0
    <3>2. \A k \in 1..(m - 1 + 1) : k \in 1..m /\ 1 + k - 1 = k
      BY <3>1
    <3>3. \A k \in 1..m : open[k] \in Element
      BY <2>4
    <3>4. open' = SubSeq(open, 1, m)
      BY <2>1
    <3> HIDE DEF m, n
    <3>5. /\ open' \in Seq(Element) /\ Len(open') = m
          /\ \A k \in 1..(m - 1 + 1) : open'[k] = open[1 + k - 1]
      BY <3>1, <3>3, <3>4, SubSeqProperties
    <3>6. \A k \in 1..m : open'[k] = open[k]
      BY <3>1, <3>2, <3>5
    <3> QED
      BY <3>5, <3>6 DEF m
  <2> QED
    BY <2>1, <2>5 DEF Element
<1>5. open' # <<>> => open'[1].before = Outside
  <2> SUFFICES ASSUME open' # <<>> PROVE open'[1].before = Outside
    OBVIOUS
  <2>1. n - 1 >= 1
    BY <1>1, <1>4
  <2> QED
    BY <1>1, <1>4, <2>1
<1>6. open' = <<>> => context' = Outside
  <2> SUFFICES ASSUME open' = <<>> PROVE context' = Outside
    OBVIOUS
  <2>1. n = 1
    BY <1>1, <1>4
  <2> QED
    BY <1>1, <1>3, <2>1
<1>7. ASSUME NEW k \in 1..(n - 1)
      PROVE  Entered(open'[k].before, import.kind, open'[k].tag)
               = (IF k = n - 1 THEN context' ELSE open'[k + 1].before)
  <2>1. k \in 1..n /\ k # n /\ open'[k] = open[k]
    BY <1>1, <1>4
  <2>2. Entered(open[k].before, import.kind, open[k].tag) = open[k + 1].before
    BY <1>1, <2>1 DEF WhereItIs
  <2>3. CASE k = n - 1
    BY <1>1, <1>3, <2>1, <2>2, <2>3
  <2>4. CASE k # n - 1
    <3>1. k + 1 \in 1..(n - 1)
      BY <1>1, <2>4
    <3> QED
      BY <1>4, <2>1, <2>2, <2>4, <3>1
  <2> QED
    BY <2>3, <2>4
<1>8. \A k \in 1..(n - 1) : Placed(open'[k].before)
  BY <1>1, <1>4
<1> HIDE DEF n
<1> QED
  BY <1>2, <1>3, <1>4, <1>5, <1>6, <1>7, <1>8

\* Only the end of a placemark ends the last of them.
LEMMA OutOfElement ==
  ASSUME Whereabouts, open # <<>>, Closing, UNCHANGED import,
         Len(placemarks') = IF Top = "Placemark" /\ context.excluded = 0
                            THEN Len(placemarks) - 1 ELSE Len(placemarks)
  PROVE  Whereabouts'
<1>1. /\ Placed(context') /\ context = Entered(context', import.kind, Top)
      /\ open' \in Seq([tag : Tag, before : ContextRecord])
      /\ \A k \in 1..Len(open') : Placed(open'[k].before)
      /\ open' # <<>> => open'[1].before = Outside
      /\ open' = <<>> => context' = Outside
      /\ \A k \in DOMAIN open' :
           Entered(open'[k].before, import'.kind, open'[k].tag)
             = (IF k = Len(open') THEN context' ELSE open'[k + 1].before)
  BY ComingOut
<1>2. Len(context'.points) \in Nat /\ Len(placemarks) = Len(context.points)
  BY <1>1 DEF Placed, ContextRecord, Whereabouts, WhereItIs
<1>3. Len(context.points) = IF Top = "Placemark" /\ context.excluded = 0
                            THEN Len(context'.points) + 1 ELSE Len(context'.points)
  BY <1>1, EnteredWhat
<1>4. Len(placemarks') = Len(context'.points)
  BY <1>2, <1>3
<1> QED
  BY <1>1, <1>4 DEF Whereabouts, WhereItIs

LEMMA CapturedElement ==
  ASSUME Whereabouts, open # <<>>, Closing, UNCHANGED import, EndsCapture
  PROVE  Top # "Placemark"
<1>1. Placed(context') /\ context = Entered(context', import.kind, Top)
  BY ComingOut
<1>2. /\ context.depth = context'.depth + 1 /\ context.excluded = 0
      /\ context.reading = ReadingIn(context', import.kind, Top)
      /\ context.reading.at = context.depth /\ context'.depth \in Nat
  BY <1>1, EnteredWhat DEF EndsCapture, Reading, Placed, ContextRecord
<1>3. CASE context'.reading # Nothing
  <2>1. context.reading = context'.reading /\ context'.reading.at \in 1..context'.depth
    BY <1>1, <1>2, <1>3, ReadingInType DEF Placed
  <2> QED
    BY <1>2, <2>1
<1>4. CASE context'.reading = Nothing
  <2>1. context.reading # Nothing
    BY <1>2 DEF Nothing
  <2>2. Top \in {"coordinates"} \cup Fields
    BY <1>1, <1>2, <1>4, <2>1, ReadingInType
  <2> QED
    BY <2>2 DEF Fields
<1> QED
  BY <1>3, <1>4

LEMMA CloseCapturedKeeps ==
  ASSUME ImporterAssumption, ImporterInv, CloseCaptured
  PROVE  ImporterInv'
<1>0. "TOO_MANY_WAYPOINTS" \in Errors
  BY ZipErrors
<1>1. CASE Fails("TOO_MANY_WAYPOINTS")
  BY <1>0, <1>1, NotZipKeeps DEF NotZip, CloseCaptured
<1>2. CASE ~Fails("TOO_MANY_WAYPOINTS")
  <2>1. /\ ~TooManyLines /\ Closing /\ capture' = NoCapture /\ Parsing /\ open # <<>> /\ EndsCapture
        /\ UNCHANGED <<import, cancellation, archive>>
    BY <1>2 DEF CloseCaptured
  <2>2. NoCapture \in [tuple : TupleRecord, text : SomeText]
    BY DEF NoCapture, NoTuple, TupleRecord, SomeText
  <2>3. /\ placemarks \in Seq(PlacemarkRecord) /\ Whereabouts /\ Findings
        /\ capture.tuple \in TupleRecord /\ capture.text \in SomeText
    BY DEF ImporterInv, Findings
  <2>4. Findings' /\ Len(placemarks') = Len(placemarks)
    <3>1. CASE Reading.target = "line" /\ Emit
      BY <2>1, <2>2, <2>3, <3>1, EmitKeeps
    <3>2. CASE /\ Reading.target = "point" /\ UNCHANGED found
               /\ placemarks' = [placemarks EXCEPT ![Reading.of] = WithElement(@)]
      <4>1. placemarks' = [placemarks EXCEPT ![Reading.of] = WithElement(placemarks[Reading.of])]
        BY <3>2
      <4>2. Reading.of \in 1..Len(placemarks) => WithElement(placemarks[Reading.of]) \in PlacemarkRecord
        BY <2>3, WithElementType
      <4>3. placemarks' \in Seq(PlacemarkRecord) /\ Len(placemarks') = Len(placemarks)
        BY <2>3, <4>1, <4>2, PutInSequence
      <4> QED
        BY <2>1, <2>2, <2>3, <3>2, <4>3 DEF Findings
    <3>3. CASE /\ Reading.target \in Fields /\ UNCHANGED found
               /\ placemarks' = [placemarks EXCEPT ![Reading.of].fields[Reading.target] =
                                    Append(@, capture.text)]
      <4> DEFINE old == placemarks[Reading.of]
                 texts == [old.fields EXCEPT ![Reading.target] = Append(@, capture.text)]
                 new == [old EXCEPT !.fields = texts]
      <4>1. placemarks' = [placemarks EXCEPT ![Reading.of] = new]
        BY <3>3
      <4>2. Reading.of \in 1..Len(placemarks) => new \in PlacemarkRecord
        <5> SUFFICES ASSUME Reading.of \in 1..Len(placemarks) PROVE new \in PlacemarkRecord
          OBVIOUS
        <5>1. old \in PlacemarkRecord
          BY <2>3
        <5> HIDE DEF old
        <5>2. old.fields \in [Fields -> Seq(SomeText)]
          BY <5>1 DEF PlacemarkRecord
        <5>3. Append(old.fields[Reading.target], capture.text) \in Seq(SomeText)
          <6>1. old.fields[Reading.target] \in Seq(SomeText)
            BY <3>3, <5>2
          <6> QED
            BY <2>3, <6>1
        <5>4. texts \in [Fields -> Seq(SomeText)]
          BY <5>2, <5>3
        <5> HIDE DEF texts
        <5> QED
          BY <5>1, <5>4 DEF PlacemarkRecord
      <4> HIDE DEF new
      <4>3. placemarks' \in Seq(PlacemarkRecord) /\ Len(placemarks') = Len(placemarks)
        <5> DEFINE i == Reading.of
        <5>1. placemarks' = [placemarks EXCEPT ![i] = new] /\ (i \in 1..Len(placemarks) => new \in PlacemarkRecord)
          BY <4>1, <4>2
        <5>2. placemarks \in Seq(PlacemarkRecord)
          BY <2>3
        <5> HIDE DEF i
        <5> QED
          BY <5>1, <5>2, PutInSequence
      <4> QED
        BY <2>1, <2>2, <2>3, <3>3, <4>3 DEF Findings
    <3> QED
      BY <1>2, <3>1, <3>2, <3>3 DEF CloseCaptured
  <2>5. Top # "Placemark"
    BY <2>1, <2>3, CapturedElement
  <2>6. Whereabouts'
    BY <2>1, <2>3, <2>4, <2>5, OutOfElement
  <2> QED
    BY <2>1, <2>4, <2>6, ReaderMoves
<1> QED
  BY <1>1, <1>2

LEMMA ClosePlacemarkKeeps ==
  ASSUME ImporterAssumption, ImporterInv, ClosePlacemark
  PROVE  ImporterInv'
<1> DEFINE done == placemarks[Len(placemarks)]
           draft == PlacemarkDraft(import.kind, done)
           drafted == Append(found.points, draft)
           full == Len(drafted) > MaxWaypoints
           kept == IF full THEN found.points ELSE drafted
<1>0. "TOO_MANY_WAYPOINTS" \in Errors
  BY ZipErrors
<1>1. CASE Fails("TOO_MANY_WAYPOINTS")
  BY <1>0, <1>1, NotZipKeeps DEF NotZip, ClosePlacemark
<1>2. CASE ~Fails("TOO_MANY_WAYPOINTS")
  <2>1. /\ Closing /\ Parsing /\ open # <<>> /\ context.excluded = 0 /\ Top = "Placemark"
        /\ placemarks' = SubSeq(placemarks, 1, Len(placemarks) - 1)
        /\ found' = IF ~Counts(import.kind, done) THEN found
                    ELSE [found EXCEPT !.points = kept, !.overflow = @ \/ full, !.due = @ + 1]
        /\ Counts(import.kind, done) /\ full => import.kind # "wpml"
        /\ UNCHANGED <<import, cancellation, archive, capture>>
    BY <1>2 DEF ClosePlacemark
  <2>2. /\ placemarks \in Seq(PlacemarkRecord) /\ Whereabouts /\ Findings
        /\ found \in FoundRecord(import.kind) /\ found.points \in Seq(Handed(import.kind))
        /\ found.due \in Nat /\ found.overflow \in BOOLEAN /\ MaxWaypoints \in Nat
        /\ Len(found.points) <= MaxWaypoints /\ import.kind \in {"kml", "wpml"}
    BY DEF ImporterInv, Findings, FoundRecord, ImporterAssumption, Course, ImportRecord
  <2>3. Len(placemarks) >= 1
    <3>1. Placed(context') /\ context = Entered(context', import.kind, Top)
      BY <2>1, <2>2, ComingOut
    <3>2. Len(context.points) = Len(context'.points) + 1 /\ Len(context'.points) \in Nat
      <4>1. Len(context.points) = IF Top = "Placemark" /\ context.excluded = 0
                                  THEN Len(context'.points) + 1 ELSE Len(context'.points)
        BY <3>1, EnteredWhat
      <4>2. Len(context'.points) \in Nat
        BY <3>1 DEF Placed, ContextRecord
      <4> QED
        BY <2>1, <4>1, <4>2
    <3> QED
      BY <2>2, <3>2 DEF Whereabouts, WhereItIs
  <2>4. placemarks' \in Seq(PlacemarkRecord) /\ Len(placemarks') = Len(placemarks) - 1
    <3> DEFINE n == Len(placemarks)
               m == n - 1
    <3>0. n \in Nat /\ n >= 1 /\ \A k \in 1..n : placemarks[k] \in PlacemarkRecord
      BY <2>2, <2>3
    <3>3. placemarks' = SubSeq(placemarks, 1, m)
      BY <2>1
    <3> HIDE DEF n
    <3>1. /\ m \in Int /\ m >= 0 /\ (1 <= m => m - 1 + 1 = m) /\ (~(1 <= m) => m = 0) /\ 1 \in Int
          /\ \A k \in 1..m : k \in 1..n
      BY <3>0
    <3>2. \A k \in 1..m : placemarks[k] \in PlacemarkRecord
      BY <3>0, <3>1
    <3> HIDE DEF m
    <3>4. placemarks' \in Seq(PlacemarkRecord) /\ Len(placemarks') = m
      BY <3>1, <3>2, <3>3, SubSeqProperties
    <3> QED
      BY <3>4 DEF m, n
  <2>5. Whereabouts'
    BY <2>1, <2>2, <2>4, OutOfElement
  <2>6. Findings'
    <3>1. CASE ~Counts(import.kind, done)
      BY <2>1, <2>2, <2>4, <3>1 DEF Findings
    <3>2. CASE Counts(import.kind, done)
      <4>1. draft \in Handed(import.kind)
        <5>1. done \in PlacemarkRecord
          BY <2>2, <2>3
        <5> QED
          BY <2>2, <3>2, <5>1, PlacemarkDraftType
      <4> HIDE DEF draft, done
      <4>2. /\ drafted \in Seq(Handed(import.kind)) /\ Len(drafted) = Len(found.points) + 1
            /\ Len(found.points) \in Nat
        BY <2>2, <4>1
      <4>3. full \in BOOLEAN /\ (~full => Len(drafted) <= MaxWaypoints)
        BY <2>2, <4>2
      <4> HIDE DEF drafted, full
      <4>4. /\ kept \in Seq(Handed(import.kind)) /\ Len(kept) <= MaxWaypoints
            /\ ~full => Len(kept) = Len(found.points) + 1
            /\ found.due + 1 \in Nat /\ (found.overflow \/ full) \in BOOLEAN
        BY <2>2, <4>2, <4>3
      <4>5. found' = [found EXCEPT !.points = kept, !.overflow = @ \/ full, !.due = @ + 1]
        BY <2>1, <3>2
      <4> HIDE DEF kept
      <4>6. /\ found' \in FoundRecord(import.kind) /\ found'.points = kept
            /\ found'.overflow = (found.overflow \/ full) /\ found'.due = found.due + 1
            /\ found'.lines = found.lines /\ found'.sawLine = found.sawLine
            /\ found'.waylines = found.waylines
        BY <2>2, <4>4, <4>5 DEF FoundRecord
      <4>7. ~found'.overflow => Len(found'.points) = found'.due
        BY <2>2, <4>4, <4>6 DEF Findings
      <4> QED
        BY <2>1, <2>2, <2>4, <4>4, <4>6, <4>7 DEF Findings
    <3> QED
      BY <3>1, <3>2
  <2> QED
    BY <2>1, <2>5, <2>6, ReaderMoves
<1> QED
  BY <1>1, <1>2

LEMMA CloseOtherKeeps ==
  ASSUME ImporterInv, CloseOther
  PROVE  ImporterInv'
<1>1. Findings'
  BY DEF ImporterInv, Findings, CloseOther
<1>2. Whereabouts'
  BY OutOfElement DEF ImporterInv, CloseOther
<1> QED
  BY <1>1, <1>2, ReaderMoves DEF CloseOther

LEMMA OtherReadingKeeps ==
  ASSUME ImporterAssumption, ImporterInv,
         NotXml \/ ChunkEnds \/ NextChunk \/ DocumentEnds
  PROVE  ImporterInv'
<1>0. import.stage \in {"parse", "paused"} /\ import.outcome = "none"
  BY DEF NotXml, ChunkEnds, NextChunk, DocumentEnds, Parsing, ImporterInv, Course
<1>1. CASE NotXml
  <2>1. PICK error \in {"INVALID_XML", "EXTERNAL_ENTITY_FORBIDDEN"} : NotZip(error)
    BY <1>1 DEF NotXml, NotZip
  <2> QED
    BY <2>1, ZipErrors, NotZipKeeps
<1>2. CASE ChunkEnds
  BY <1>0, <1>2, GoesKeeps DEF ChunkEnds
<1>3. CASE NextChunk /\ Cancelled
  BY <1>3, CancelledKeeps
<1>4. CASE NextChunk /\ ~Cancelled
  BY <1>0, <1>4, GoesKeeps DEF NextChunk
<1>5. CASE DocumentEnds /\ ~found.sawLine /\ found.overflow
  <2>1. NotZip("TOO_MANY_WAYPOINTS") /\ "TOO_MANY_WAYPOINTS" \in Errors
    BY <1>5, ZipErrors DEF DocumentEnds, NotZip
  <2> QED
    BY <2>1, NotZipKeeps
<1>6. CASE DocumentEnds /\ ~(~found.sawLine /\ found.overflow)
  BY <1>0, <1>6, GoesKeeps DEF DocumentEnds
<1> QED
  BY <1>1, <1>2, <1>3, <1>4, <1>5, <1>6

LEMMA DigestsKeeps ==
  ASSUME ImporterAssumption, ImporterInv, Digests
  PROVE  ImporterInv'
<1>1. CASE Cancelled
  BY <1>1, CancelledKeeps
<1>2. CASE ~Cancelled
  <2>1. /\ import' = [import EXCEPT !.outcome = "parsed", !.stage = "ended"]
        /\ UNCHANGED <<cancellation, archive, parsing>> /\ import.stage = "digest"
    BY <1>2 DEF Digests, Concludes, ArchiveStages
  <2>2. /\ import' \in ImportRecord /\ import'.stage = "ended" /\ import'.format = import.format
        /\ import'.kind = import.kind /\ import'.companion = import.companion
        /\ import'.outcome = "parsed"
    BY <2>1 DEF ImporterInv, Course, ImportRecord
  <2>3. Findings' /\ Whereabouts'
    BY <2>1, <2>2, ParserStays DEF ImporterInv
  <2>4. Course'
    BY <2>1, <2>2 DEF ImporterInv, Course, parsing
  <2>5. ArchiveInv'
    BY <2>1, <2>2 DEF ImporterInv, ArchiveInv
  <2> QED
    BY <2>3, <2>4, <2>5 DEF ImporterInv
<1> QED
  BY <1>1, <1>2

LEMMA ImporterStep ==
  ASSUME ImporterAssumption, ImporterInv, [ImporterNext]_importerVars
  PROVE  ImporterInv'
<1>1. CASE Cancel \/ Intake \/ Detect \/ Lists \/ ListEnds
  BY <1>1, CancelKeeps, IntakeKeeps, DetectKeeps, ListsKeeps, ListEndsKeeps
<1>2. CASE Writes \/ EntryEnds \/ Expanded \/ Closes
  BY <1>2, WritesKeeps, EntryEndsKeeps, ExpandedKeeps, ClosesKeeps
<1>3. CASE NextEntry \/ ZipFails
  <2>1. CASE NextEntry
    BY <2>1, CancelledKeeps DEF NextEntry
  <2>2. CASE ZipFails
    BY <2>2, ZipErrors, NotZipKeeps DEF ZipFails
  <2> QED
    BY <1>3, <2>1, <2>2
<1>4. CASE \/ \E tag \in Tag : OpenTag(tag)
           \/ \E tuple \in Tuple : Word(tuple)
           \/ \E text \in Texts : FieldText(text)
  BY <1>4, OpenTagKeeps, WordKeeps, FieldTextKeeps
<1>5. CASE Blank \/ CloseCaptured \/ ClosePlacemark \/ CloseOther
  BY <1>5, BlankKeeps, CloseCapturedKeeps, ClosePlacemarkKeeps, CloseOtherKeeps
<1>6. CASE NotXml \/ ChunkEnds \/ NextChunk \/ DocumentEnds
  BY <1>6, OtherReadingKeeps
<1>7. CASE Digests
  BY <1>7, DigestsKeeps
<1>8. CASE UNCHANGED importerVars
  <2>1. Findings' /\ Whereabouts'
    BY <1>8, ParserStays DEF ImporterInv, importerVars, parsing
  <2>2. Course' /\ ArchiveInv'
    BY <1>8 DEF ImporterInv, Course, Rests, ArchiveInv, Checked, Entries, Same, importerVars
  <2> QED
    BY <2>1, <2>2 DEF ImporterInv
<1> QED
  BY <1>1, <1>2, <1>3, <1>4, <1>5, <1>6, <1>7, <1>8 DEF ImporterNext

LEMMA ImporterReads ==
  ASSUME ImporterAssumption, ImporterInv
  PROVE  RoutesAreReadWhole
<1>1. WhereItIs
  BY DEF ImporterInv, Whereabouts
<1>2. GivenUpIsAsked
  BY DEF ImporterInv, Course, GivenUpIsAsked
<1>3. AllWaypoints
  BY DEF ImporterInv, Course, Findings, AllWaypoints, Waypoints
<1>4. ArchiveIsWhole
  <2> SUFFICES ASSUME import.stage = "closing", import.outcome = "none"
               PROVE  /\ archive.next = Len(archive.entries) + 1
                      /\ archive.used <= MaxExpanded /\ Len(archive.entries) <= MaxEntries
                      /\ archive.entries[archive.chosen].actual
                           = archive.entries[archive.chosen].declared
                      /\ \A i, j \in Entries : Same(i, j) => i = j
    BY DEF ArchiveIsWhole
  <2>1. /\ ArchiveInv /\ Checked /\ archive.chosen # 0 /\ archive.next = Len(archive.entries) + 1
        /\ archive.entries \in Seq(Entry)
    BY DEF ImporterInv, ArchiveInv, ArchiveRecord
  <2>2. archive.chosen \in 1..Len(archive.entries) /\ Len(archive.entries) \in Nat
    BY <2>1 DEF Checked, Entries
  <2>3. archive.next > archive.chosen
    BY <2>1, <2>2
  <2> QED
    BY <2>1, <2>3 DEF ArchiveInv, Checked
<1>5. HandedOverReads
  <2>0. /\ found \in FoundRecord(import.kind) /\ Findings /\ Course
        /\ found.lines \in Seq(Handed("kml")) /\ found.points \in Seq(Handed(import.kind))
        /\ import.kind \in {"kml", "wpml"}
    BY DEF ImporterInv, Findings, FoundRecord, Course, ImportRecord
  <2>1. DocumentReads
    BY <2>0 DEF Findings, Course, DocumentReads, Waypoints
  <2>2. ASSUME NEW i \in DOMAIN Waypoints PROVE Waypoints[i] \in Handed(import.kind)
    <3>1. CASE found.sawLine
      <4>1. import.kind = "kml" /\ Waypoints = found.lines
        BY <2>0, <3>1 DEF Findings, Waypoints
      <4> QED
        BY <2>0, <2>2, <4>1
    <3>2. CASE ~found.sawLine
      <4>1. Waypoints = found.points
        BY <3>2 DEF Waypoints
      <4> QED
        BY <2>0, <2>2, <4>1
    <3> QED
      BY <3>1, <3>2
  <2> QED
    BY <2>1, <2>2 DEF HandedOverReads, Handed
<1> QED
  BY <1>1, <1>2, <1>3, <1>4, <1>5 DEF RoutesAreReadWhole

-----------------------------------------------------------------------------
(* The program: what it passes on, of pictures and of routes, is whole.    *)

PassingInv == FlvInv /\ ImporterInv

LEMMA PassingStep ==
  ASSUME PassingInv, [Next]_stationRunVars
  PROVE  PassingInv'
<1>1. [FlvNext]_flvVars /\ [ImporterNext]_importerVars
  BY DEF Next, stationRunVars
<1> QED
  BY <1>1, ImporterHolds, FlvStep, ImporterStep DEF PassingInv

LEMMA PassingInductive == Spec => []PassingInv
<1>1. Init => PassingInv
  BY ImporterHolds, FlvBegins, ImporterBegins DEF Init, PassingInv
<1> QED
  BY <1>1, PassingStep, PTL DEF Spec

\* No picture reaches the player of a live stream before what it is decoded with
\* (FlvPreludeFilter), and an import hands over all of the waypoints of a file that
\* was expanded and parsed to its end, and nothing else (importRoute()).
THEOREM WhatIsPassedOnStaysWhole == Spec => []WhatIsPassedOnIsWhole
<1>1. PassingInv => WhatIsPassedOnIsWhole
  <2> SUFFICES ASSUME PassingInv PROVE WhatIsPassedOnIsWhole
    OBVIOUS
  <2>1. RoutesAreReadWhole
    BY ImporterHolds, ImporterReads DEF PassingInv
  <2>2. InterFramesAreDecodable
    <3>1. client \in PlayerRecord
      BY DEF PassingInv, FlvInv
    <3>2. client.last \in Chunks \cup {"nothing"}
      BY <3>1 DEF PlayerRecord
    <3> QED
      BY <3>2 DEF InterFramesAreDecodable, Chunks, Video
  <2> QED
    BY <2>1, <2>2 DEF WhatIsPassedOnIsWhole
<1> QED
  BY <1>1, PassingInductive, PTL
=============================================================================
