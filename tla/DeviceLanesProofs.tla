-------------------------- MODULE DeviceLanesProofs --------------------------
(***************************************************************************)
(* The lanes of a phone, for any phones, photos and bounds: nothing the    *)
(* operator asked of one session acts in the next (SessionsAreSeparate), a *)
(* stream starts only while its source is available (StartsAreChecked), a  *)
(* queued restart is owed the answer of a stop (RestartsAreOwed), a photo  *)
(* lane is locked by nothing that will not free it (PhotoLanesAreOwed) and *)
(* shows as stored what was kept (FetchesAreKept), and late answers change *)
(* nothing (LateAnswersAreIgnored).                                        *)
(*                                                                         *)
(* What a step does to the calls awaited is the only thing the lanes have  *)
(* in common, so it is proved once (IssueKeepsCalls and the lemmas after   *)
(* it); each invariant then needs the steps of its own lane, Connect and   *)
(* Lose alone.                                                             *)
(***************************************************************************)
EXTENDS DeviceLanes, TLAPS

\* A call is the record Issue made, but for late.
Shaped(c) ==
  c = [id |-> c.id, device |-> c.device, command |-> c.command, sentIn |-> c.sentIn,
       generation |-> c.generation, requestedIn |-> c.requestedIn, late |-> c.late]

GoodCalls ==
  \A c \in calls :
    Shaped(c) /\ (c.command \in FlightCommands => c.requestedIn = c.sentIn)

Askings == [id : Nat, action : FlightCommands, requestedIn : Nat]

FlightShape ==
  /\ online \in [Device -> BOOLEAN]
  /\ session \in [Device -> Nat]
  /\ confirmation \in [Device -> Askings \cup {None}]
  /\ landingIntent \in [Device -> {"requested", "stopped", None}]
  /\ requests \in Nat

AskedNow ==
  \A d \in Device :
    /\ confirmation[d] # None => online[d] /\ confirmation[d].requestedIn = session[d]
    /\ landingIntent[d] # None => online[d]

\* An answer that is not late finds its phone there.
NotLateIsThere == \A c \in calls : c.device \in Device /\ (~c.late => online[c.device])

-----------------------------------------------------------------------------
CallsInv == GoodCalls /\ NotLateIsThere

SessionInv == FlightShape /\ AskedNow /\ CallsInv

\* A command sent to a phone that is there, for the session it is in.
LEMMA IssueKeepsCalls ==
  ASSUME CallsInv, NEW d \in Device, online[d],
         NEW command, NEW generation, NEW requestedIn, NEW others \in SUBSET calls,
         command \in FlightCommands => requestedIn = session[d],
         Issue(d, command, generation, requestedIn, others),
         UNCHANGED <<online, session>>
  PROVE  CallsInv'
<1> DEFINE new ==
      [id |-> issued + 1, device |-> d, command |-> command, sentIn |-> session[d],
       generation |-> generation, requestedIn |-> requestedIn, late |-> FALSE]
<1>1. calls' = others \cup {new}
  BY DEF Issue
<1>2. Shaped(new)
  BY DEF Shaped
<1>3. /\ new.device = d /\ new.command = command /\ new.late = FALSE
      /\ new.requestedIn = requestedIn /\ new.sentIn = session[d]
  OBVIOUS
<1> HIDE DEF new
<1>4. GoodCalls'
  BY <1>1, <1>2, <1>3 DEF CallsInv, GoodCalls, Shaped
<1>5. NotLateIsThere'
  BY <1>1, <1>3 DEF CallsInv, NotLateIsThere
<1> QED
  BY <1>4, <1>5 DEF CallsInv

\* A call that has continued.
LEMMA FewerCallsKeepCalls ==
  ASSUME CallsInv, calls' \subseteq calls, UNCHANGED online
  PROVE  CallsInv'
BY DEF CallsInv, GoodCalls, NotLateIsThere, Shaped

\* A start that may send its command.
LEMMA BeginStartKeepsCalls ==
  ASSUME CallsInv, NEW d \in Device, online[d], NEW v, NEW others \in SUBSET calls,
         BeginStart(d, v, others), UNCHANGED <<online, session>>
  PROVE  CallsInv'
<1>1. CASE calls' = others
  BY <1>1, FewerCallsKeepCalls
<1>2. CASE Issue(d, "live-stream.start", 0, 0, others)
  <2>1. "live-stream.start" \notin FlightCommands
    BY DEF FlightCommands
  <2> QED
    BY <1>2, <2>1, IssueKeepsCalls
<1> QED
  BY <1>1, <1>2 DEF BeginStart, Refused, MediaUnavailable

\* A phone that is lost: its calls are late.
LEMMA LoseKeepsCalls ==
  ASSUME CallsInv, FlightShape, NEW d \in Device, Lose(d)
  PROVE  CallsInv'
<1> DEFINE lateOf(c) == IF c.device = d THEN [c EXCEPT !.late = TRUE] ELSE c
<1>1. calls' = {lateOf(c) : c \in calls} /\ online' = [online EXCEPT ![d] = FALSE]
  BY DEF Lose, Cancelled
<1>2. ASSUME NEW c \in calls
      PROVE  /\ Shaped(lateOf(c))
             /\ lateOf(c).device = c.device /\ lateOf(c).command = c.command
             /\ lateOf(c).requestedIn = c.requestedIn /\ lateOf(c).sentIn = c.sentIn
             /\ c.device = d => lateOf(c).late
             /\ c.device # d => lateOf(c).late = c.late
  <2>1. c = [id |-> c.id, device |-> c.device, command |-> c.command, sentIn |-> c.sentIn,
             generation |-> c.generation, requestedIn |-> c.requestedIn, late |-> c.late]
    BY DEF CallsInv, GoodCalls, Shaped
  <2>2. CASE c.device = d
    <3>1. lateOf(c) = [id |-> c.id, device |-> c.device, command |-> c.command, sentIn |-> c.sentIn,
                       generation |-> c.generation, requestedIn |-> c.requestedIn, late |-> TRUE]
      BY <2>1, <2>2
    <3> HIDE DEF lateOf
    <3> QED
      BY <3>1, <2>2 DEF Shaped
  <2>3. CASE c.device # d
    BY <2>1, <2>3 DEF Shaped
  <2> QED
    BY <2>2, <2>3
<1> HIDE DEF lateOf
<1>3. GoodCalls'
  BY <1>1, <1>2 DEF CallsInv, GoodCalls, Shaped
<1>4. NotLateIsThere'
  BY <1>1, <1>2 DEF CallsInv, NotLateIsThere, FlightShape
<1> QED
  BY <1>3, <1>4 DEF CallsInv

-----------------------------------------------------------------------------
\* The flight lane, while phones neither come nor go.
LEMMA FlightRequestKeeps ==
  ASSUME SessionInv, NEW d \in Device, FlightRequest(d)
  PROVE  SessionInv'
<1>1. ASSUME NEW action \in FlightCommands, RequestFlight(d, action)
      PROVE  SessionInv'
  <2> DEFINE asked == [id |-> requests + 1, action |-> action, requestedIn |-> session[d]]
  <2>1. /\ online[d] /\ UNCHANGED <<online, session, landingIntent, calls>>
        /\ confirmation' = [confirmation EXCEPT ![d] = asked]
        /\ requests' = requests + 1
    BY <1>1 DEF RequestFlight, callVars
  <2>2. asked \in Askings /\ asked.requestedIn = session[d] /\ requests' \in Nat
    BY <2>1 DEF SessionInv, FlightShape, Askings
  <2> HIDE DEF asked
  <2>3. FlightShape'
    BY <2>1, <2>2 DEF SessionInv, FlightShape
  <2>4. AskedNow'
    BY <2>1, <2>2 DEF SessionInv, FlightShape, AskedNow
  <2>5. CallsInv'
    BY <2>1, FewerCallsKeepCalls DEF SessionInv
  <2> QED
    BY <2>3, <2>4, <2>5 DEF SessionInv
<1>2. ASSUME UNCHANGED <<online, session, landingIntent, requests, calls>>,
             \/ confirmation' = confirmation
             \/ confirmation' = [confirmation EXCEPT ![d] = None]
      PROVE  SessionInv'
  <2>1. FlightShape' /\ AskedNow'
    BY <1>2 DEF SessionInv, FlightShape, AskedNow
  <2>2. CallsInv'
    BY <1>2, FewerCallsKeepCalls DEF SessionInv
  <2> QED
    BY <2>1, <2>2 DEF SessionInv
<1>3. CASE ExpireConfirmation(d)
  BY <1>2, <1>3 DEF ExpireConfirmation, callVars
<1>4. ASSUME NEW id \in 0..requests, RefuseFlight(d, id) \/ CancelFlight(d, id)
      PROVE  SessionInv'
  <2>1. UNCHANGED <<online, session, landingIntent, requests, calls>>
    BY <1>4 DEF RefuseFlight, CancelFlight, callVars
  <2>2. confirmation' = [confirmation EXCEPT ![d] = IF Holds(d, id) THEN None ELSE @]
    BY <1>4 DEF RefuseFlight, CancelFlight
  <2>3. confirmation' = confirmation \/ confirmation' = [confirmation EXCEPT ![d] = None]
    BY <2>2 DEF SessionInv, FlightShape
  <2> QED
    BY <1>2, <2>1, <2>3
<1>5. ASSUME NEW id \in 0..requests, ConfirmFlight(d, id)
      PROVE  SessionInv'
  <2>1. /\ online[d] /\ confirmation[d] # None
        /\ UNCHANGED <<online, session, landingIntent, requests>>
        /\ confirmation' = [confirmation EXCEPT ![d] = None]
        /\ Issue(d, confirmation[d].action, 0, confirmation[d].requestedIn, calls)
    BY <1>5 DEF ConfirmFlight, Holds
  <2>2. confirmation[d].requestedIn = session[d]
    BY <2>1 DEF SessionInv, AskedNow
  <2>3. CallsInv'
    BY <2>1, <2>2, IssueKeepsCalls DEF SessionInv
  <2>4. FlightShape' /\ AskedNow'
    BY <2>1 DEF SessionInv, FlightShape, AskedNow
  <2> QED
    BY <2>3, <2>4 DEF SessionInv
<1> QED
  BY <1>1, <1>3, <1>4, <1>5 DEF FlightRequest

\* The other lanes only touch the calls.
LEMMA OtherLanesKeep ==
  ASSUME SessionInv, CallsInv', UNCHANGED <<online, session, flightVars>>
  PROVE  SessionInv'
BY DEF SessionInv, FlightShape, AskedNow, flightVars

LEMMA StreamRequestKeeps ==
  ASSUME SessionInv, NEW d \in Device, StreamRequest(d)
  PROVE  SessionInv'
<1>1. UNCHANGED <<online, session, flightVars>>
  BY DEF StreamRequest, StartStream, StopStream, MediaOutlivesSource, callVars
<1>2. CASE StartStream(d)
  <2>1. online[d] /\ (calls' = calls \/ BeginStart(d, video[d], calls))
    BY <1>2 DEF StartStream
  <2>2. CallsInv'
    BY <1>1, <2>1, BeginStartKeepsCalls, FewerCallsKeepCalls DEF SessionInv
  <2> QED
    BY <1>1, <2>2, OtherLanesKeep
<1>3. CASE StopStream(d)
  <2>1. online[d] /\ Issue(d, "live-stream.stop", 0, 0, calls)
    BY <1>3 DEF StopStream
  <2>2. "live-stream.stop" \notin FlightCommands
    BY DEF FlightCommands
  <2>3. CallsInv'
    BY <1>1, <2>1, <2>2, IssueKeepsCalls DEF SessionInv
  <2> QED
    BY <1>1, <2>3, OtherLanesKeep
<1>4. CASE MediaOutlivesSource(d)
  <2>1. CallsInv'
    BY <1>1, <1>4, FewerCallsKeepCalls DEF MediaOutlivesSource, callVars, SessionInv
  <2> QED
    BY <1>1, <2>1, OtherLanesKeep
<1> QED
  BY <1>2, <1>3, <1>4 DEF StreamRequest

LEMMA PhotoRequestKeeps ==
  ASSUME SessionInv, NEW d \in Device, PhotoRequest(d)
  PROVE  SessionInv'
<1>1. UNCHANGED <<online, session, flightVars>>
  BY DEF PhotoRequest, Capture, Fetch, StoredTimeout, PhotoArrives, callVars
<1>2. "camera.photo.capture" \notin FlightCommands /\ "camera.photo.fetch" \notin FlightCommands
  BY DEF FlightCommands
<1>3. CASE Capture(d)
  <2>1. online[d] /\ Issue(d, "camera.photo.capture", photo[d].generation + 1, 0, calls)
    BY <1>3 DEF Capture
  <2> QED
    BY <1>1, <1>2, <2>1, IssueKeepsCalls, OtherLanesKeep DEF SessionInv
<1>4. CASE Fetch(d)
  <2>1. online[d] /\ Issue(d, "camera.photo.fetch", photo[d].generation + 1, 0, calls)
    BY <1>4 DEF Fetch
  <2> QED
    BY <1>1, <1>2, <2>1, IssueKeepsCalls, OtherLanesKeep DEF SessionInv
<1>5. CASE UNCHANGED callVars
  BY <1>1, <1>5, FewerCallsKeepCalls, OtherLanesKeep DEF callVars, SessionInv
<1> QED
  BY <1>3, <1>4, <1>5 DEF PhotoRequest, StoredTimeout, PhotoArrives

\* An answer is applied to a phone that is there, unless it is late.
LEMMA AnswerKeeps ==
  ASSUME SessionInv, NEW c \in calls, Answer(c)
  PROVE  SessionInv'
<1>1. c.device \in Device /\ (~c.late => online[c.device])
  BY DEF SessionInv, CallsInv, NotLateIsThere
<1>2. CASE AnswerStream(c) /\ UNCHANGED flightVars
  <2>1. PICK ok \in BOOLEAN : (c.late => ~ok) /\ ContinueStream(c, ok)
    BY <1>2 DEF AnswerStream
  <2>2. UNCHANGED <<online, session>>
    BY <1>2 DEF AnswerStream
  <2>3. CASE Ends(c)
    <3>1. CallsInv'
      BY <2>2, <2>3, FewerCallsKeepCalls DEF Ends, SessionInv
    <3> QED
      BY <1>2, <2>2, <3>1, OtherLanesKeep
  <2>4. CASE ok /\ \E v : BeginStart(c.device, v, calls \ {c})
    <3>1. PICK v : BeginStart(c.device, v, calls \ {c})
      BY <2>4
    <3>2. online[c.device]
      BY <1>1, <2>1, <2>4
    <3>3. CallsInv'
      BY <1>1, <2>2, <3>1, <3>2, BeginStartKeepsCalls DEF SessionInv
    <3> QED
      BY <1>2, <2>2, <3>3, OtherLanesKeep
  <2>5. Ends(c) \/ (ok /\ \E v : BeginStart(c.device, v, calls \ {c}))
    <3> DEFINE after == AfterAwait(video[c.device], c, ok)
               told == ok /\ ~Overtaken(video[c.device])
    <3>1. CASE c.command # "live-stream.start" /\ told /\ after.restarts > 0
      <4>1. BeginStart(c.device, [after EXCEPT !.restarts = 0], calls \ {c})
        BY <2>1, <3>1, Zenon DEF ContinueStream
      <4> QED
        BY <3>1, <4>1
    <3>2. CASE ~(c.command # "live-stream.start" /\ told /\ after.restarts > 0)
      BY <2>1, <3>2, Zenon DEF ContinueStream
    <3> QED
      BY <3>1, <3>2
  <2> QED
    BY <2>3, <2>4, <2>5
<1>3. CASE AnswerPhoto(c) /\ UNCHANGED <<video, flightVars>>
  <2>1. Ends(c) /\ UNCHANGED <<online, session, flightVars>>
    BY <1>3 DEF AnswerPhoto
  <2>2. CallsInv'
    BY <2>1, FewerCallsKeepCalls DEF Ends, SessionInv
  <2> QED
    BY <2>1, <2>2, OtherLanesKeep
<1>4. CASE AnswerFlight(c)
  <2>1. /\ Ends(c) /\ UNCHANGED <<online, session, confirmation, requests>>
        /\ \/ UNCHANGED landingIntent
           \/ /\ ~c.late
              /\ landingIntent' = [landingIntent EXCEPT ![c.device] = IntentAfter(c.command)]
    BY <1>4 DEF AnswerFlight
  <2>2. IntentAfter(c.command) \in {"requested", "stopped", None}
    BY DEF IntentAfter
  <2>3. CallsInv'
    BY <2>1, FewerCallsKeepCalls DEF Ends, SessionInv
  <2>4. FlightShape' /\ AskedNow'
    BY <1>1, <2>1, <2>2 DEF SessionInv, FlightShape, AskedNow
  <2> QED
    BY <2>3, <2>4 DEF SessionInv
<1> QED
  BY <1>2, <1>3, <1>4 DEF Answer

LEMMA TurnKeeps ==
  ASSUME SessionInv, NEW d \in Device, Turn(d)
  PROVE  SessionInv'
<1>1. CASE Connect(d)
  <2>1. /\ ~online[d] /\ online' = [online EXCEPT ![d] = TRUE]
        /\ session' = [session EXCEPT ![d] = @ + 1]
        /\ UNCHANGED <<calls, confirmation, landingIntent, requests>>
    BY <1>1 DEF Connect, flightVars
  <2>2. confirmation[d] = None /\ landingIntent[d] = None
    BY <2>1 DEF SessionInv, AskedNow
  <2>3. FlightShape'
    BY <2>1 DEF SessionInv, FlightShape
  <2>4. AskedNow'
    BY <2>1, <2>2 DEF SessionInv, FlightShape, AskedNow
  <2>5. CallsInv'
    BY <2>1 DEF SessionInv, CallsInv, GoodCalls, NotLateIsThere, FlightShape, Shaped
  <2> QED
    BY <2>3, <2>4, <2>5 DEF SessionInv
<1>2. CASE \E facts \in SUBSET Links : Telemetry(d, facts)
  <2>1. UNCHANGED <<online, session, calls, flightVars>>
    BY <1>2 DEF Telemetry
  <2>2. CallsInv'
    BY <2>1, FewerCallsKeepCalls DEF SessionInv
  <2> QED
    BY <2>1, <2>2, OtherLanesKeep
<1>3. CASE Lose(d)
  <2>1. /\ online' = [online EXCEPT ![d] = FALSE]
        /\ confirmation' = [confirmation EXCEPT ![d] = None]
        /\ landingIntent' = [landingIntent EXCEPT ![d] = None]
        /\ UNCHANGED <<session, requests>>
    BY <1>3 DEF Lose, ClearFlightConfirm
  <2>2. FlightShape' /\ AskedNow'
    BY <2>1 DEF SessionInv, FlightShape, AskedNow
  <2>3. CallsInv'
    BY <1>3, LoseKeepsCalls DEF SessionInv
  <2> QED
    BY <2>2, <2>3 DEF SessionInv
<1> QED
  BY <1>1, <1>2, <1>3, StreamRequestKeeps, PhotoRequestKeeps, FlightRequestKeeps DEF Turn

-----------------------------------------------------------------------------
LEMMA SessionInvHolds == LanesSpec => []SessionInv
<1>1. LanesInit => SessionInv
  BY DEF LanesInit, CallsInit, FlightInit, SessionInv, FlightShape, AskedNow, CallsInv,
         GoodCalls, NotLateIsThere
<1>2. SessionInv /\ [LanesNext]_laneVars => SessionInv'
  <2> SUFFICES ASSUME SessionInv, [LanesNext]_laneVars PROVE SessionInv'
    OBVIOUS
  <2>1. CASE LanesNext
    BY <2>1, TurnKeeps, AnswerKeeps DEF LanesNext
  <2>2. CASE UNCHANGED laneVars
    <3>1. UNCHANGED <<online, session, calls, flightVars>>
      BY <2>2 DEF laneVars, callVars
    <3>2. CallsInv'
      BY <3>1, FewerCallsKeepCalls DEF SessionInv
    <3> QED
      BY <3>1, <3>2, OtherLanesKeep
  <2> QED
    BY <2>1, <2>2
<1> QED
  BY <1>1, <1>2, PTL DEF LanesSpec

\* No confirmation and no landing intent outlives the session of its phone, and a
\* dangerous action is sent in the session in which it was requested: what
\* onDisconnects() and confirm() promise together.
THEOREM SessionsAreSeparate == LanesSpec => []NothingOutlivesTheSession
<1>1. SessionInv => NothingOutlivesTheSession
  BY DEF SessionInv, AskedNow, CallsInv, GoodCalls, NothingOutlivesTheSession
<1> QED
  BY <1>1, SessionInvHolds, PTL
-----------------------------------------------------------------------------
\* What a step does to the calls awaited: a command goes out, calls continue, or
\* a loss answers those of its phone.
Sends ==
  \E d \in Device, others \in SUBSET calls : \E command, generation, requestedIn :
    /\ Issue(d, command, generation, requestedIn, others)
    /\ command = "live-stream.start" => SourceAvailable(links[d])

OnlyContinues == calls' \subseteq calls /\ issued' = issued

LEMMA BeginStartSends ==
  ASSUME NEW d \in Device, NEW v, NEW others \in SUBSET calls, BeginStart(d, v, others)
  PROVE  Sends \/ OnlyContinues
<1>1. CASE calls' = others /\ UNCHANGED issued
  BY <1>1 DEF OnlyContinues
<1>2. CASE SourceAvailable(links[d]) /\ Issue(d, "live-stream.start", 0, 0, others)
  BY <1>2 DEF Sends
<1> QED
  BY <1>1, <1>2 DEF BeginStart, Refused, MediaUnavailable

LEMMA TurnSends ==
  ASSUME SessionInv, NEW d \in Device, Turn(d), ~Lose(d)
  PROVE  Sends \/ OnlyContinues
<1>1. CASE UNCHANGED <<calls, issued>>
  BY <1>1 DEF OnlyContinues
<1>2. CASE StreamRequest(d)
  <2>1. CASE StartStream(d)
    BY <1>1, <2>1, BeginStartSends DEF StartStream
  <2>2. CASE StopStream(d)
    <3>1. Issue(d, "live-stream.stop", 0, 0, calls) /\ "live-stream.stop" # "live-stream.start"
      BY <2>2 DEF StopStream
    <3> QED
      BY <3>1 DEF Sends
  <2>3. CASE MediaOutlivesSource(d)
    BY <1>1, <2>3 DEF MediaOutlivesSource, callVars
  <2> QED
    BY <1>2, <2>1, <2>2, <2>3 DEF StreamRequest
<1>3. CASE PhotoRequest(d)
  <2>1. CASE Capture(d)
    <3>1. /\ Issue(d, "camera.photo.capture", photo[d].generation + 1, 0, calls)
          /\ "camera.photo.capture" # "live-stream.start"
      BY <2>1 DEF Capture
    <3> QED
      BY <3>1 DEF Sends
  <2>2. CASE Fetch(d)
    <3>1. /\ Issue(d, "camera.photo.fetch", photo[d].generation + 1, 0, calls)
          /\ "camera.photo.fetch" # "live-stream.start"
      BY <2>2 DEF Fetch
    <3> QED
      BY <3>1 DEF Sends
  <2> QED
    BY <1>1, <1>3, <2>1, <2>2 DEF PhotoRequest, StoredTimeout, PhotoArrives, callVars
<1>4. CASE FlightRequest(d)
  <2>1. ASSUME NEW id \in 0..requests, ConfirmFlight(d, id)
        PROVE  Sends
    <3>1. /\ Issue(d, confirmation[d].action, 0, confirmation[d].requestedIn, calls)
          /\ confirmation[d] # None
      BY <2>1 DEF ConfirmFlight, Holds
    <3>2. confirmation[d].action \in FlightCommands
      BY <3>1 DEF SessionInv, FlightShape, Askings
    <3>3. "live-stream.start" \notin FlightCommands
      BY DEF FlightCommands
    <3> QED
      BY <3>1, <3>2, <3>3 DEF Sends
  <2> QED
    BY <1>1, <1>4, <2>1
    DEF FlightRequest, RequestFlight, ExpireConfirmation, RefuseFlight, CancelFlight, callVars
<1> QED
  BY <1>1, <1>2, <1>3, <1>4 DEF Turn, Connect, Telemetry

LEMMA AnswerSends ==
  ASSUME SessionInv, NEW c \in calls, Answer(c)
  PROVE  Sends \/ OnlyContinues
<1>1. CASE Ends(c)
  BY <1>1 DEF Ends, OnlyContinues
<1>2. CASE \E ok \in BOOLEAN : ContinueStream(c, ok)
  <2>1. PICK ok \in BOOLEAN : ContinueStream(c, ok)
    BY <1>2
  <2>2. Ends(c) \/ \E v : BeginStart(c.device, v, calls \ {c})
    <3> DEFINE after == AfterAwait(video[c.device], c, ok)
               told == ok /\ ~Overtaken(video[c.device])
    <3>1. CASE c.command # "live-stream.start" /\ told /\ after.restarts > 0
      <4>1. BeginStart(c.device, [after EXCEPT !.restarts = 0], calls \ {c})
        BY <2>1, <3>1, Zenon DEF ContinueStream
      <4> QED
        BY <4>1
    <3>2. CASE ~(c.command # "live-stream.start" /\ told /\ after.restarts > 0)
      BY <2>1, <3>2, Zenon DEF ContinueStream
    <3> QED
      BY <3>1, <3>2
  <2>3. c.device \in Device
    BY DEF SessionInv, CallsInv, NotLateIsThere
  <2> QED
    BY <1>1, <2>2, <2>3, BeginStartSends
<1> QED
  BY <1>1, <1>2 DEF Answer, AnswerStream, AnswerPhoto, AnswerFlight

LEMMA StepsSend ==
  ASSUME SessionInv, LanesNext
  PROVE  Sends \/ OnlyContinues \/ \E d \in Device : Lose(d)
BY TurnSends, AnswerSends DEF LanesNext

-----------------------------------------------------------------------------
\* Ids are given in order, so that a call is new exactly when its id is.
IdsInv ==
  /\ issued \in Nat
  /\ \A c \in calls : c.id \in Nat /\ c.id <= issued

LEMMA LoseKeepsIds ==
  ASSUME SessionInv, NEW d \in Device, Lose(d)
  PROVE  \A c \in calls' : \E b \in calls :
           b.id = c.id /\ b.device = c.device /\ b.command = c.command
<1> DEFINE lateOf(c) == IF c.device = d THEN [c EXCEPT !.late = TRUE] ELSE c
<1>1. calls' = {lateOf(c) : c \in calls}
  BY DEF Lose, Cancelled
<1>2. ASSUME NEW c \in calls
      PROVE  /\ lateOf(c).id = c.id /\ lateOf(c).device = c.device
             /\ lateOf(c).command = c.command
  <2>1. c = [id |-> c.id, device |-> c.device, command |-> c.command, sentIn |-> c.sentIn,
             generation |-> c.generation, requestedIn |-> c.requestedIn, late |-> c.late]
    BY DEF SessionInv, CallsInv, GoodCalls, Shaped
  <2> QED
    BY <2>1
<1> HIDE DEF lateOf
<1> QED
  BY <1>1, <1>2

LEMMA IdsInvKeeps ==
  ASSUME SessionInv, IdsInv, [LanesNext]_laneVars
  PROVE  /\ IdsInv'
         /\ \A c \in calls' :
              c.id > issued /\ c.command = "live-stream.start" => SourceAvailable(links[c.device])
<1>1. CASE Sends
  <2>1. PICK d \in Device, others \in SUBSET calls : \E command, generation, requestedIn :
          /\ Issue(d, command, generation, requestedIn, others)
          /\ command = "live-stream.start" => SourceAvailable(links[d])
    BY <1>1 DEF Sends
  <2>2. PICK command, generation, requestedIn :
          /\ Issue(d, command, generation, requestedIn, others)
          /\ command = "live-stream.start" => SourceAvailable(links[d])
    BY <2>1
  <2> DEFINE new ==
        [id |-> issued + 1, device |-> d, command |-> command, sentIn |-> session[d],
         generation |-> generation, requestedIn |-> requestedIn, late |-> FALSE]
  <2>3. calls' = others \cup {new} /\ issued' = issued + 1
    BY <2>2 DEF Issue
  <2>4. new.id = issued + 1 /\ new.device = d /\ new.command = command
    OBVIOUS
  <2> HIDE DEF new
  <2> QED
    BY <2>2, <2>3, <2>4 DEF IdsInv
<1>2. CASE OnlyContinues \/ UNCHANGED <<calls, issued>>
  BY <1>2 DEF OnlyContinues, IdsInv
<1>3. ASSUME NEW d \in Device, Lose(d)
      PROVE  /\ IdsInv'
             /\ \A c \in calls' : ~(c.id > issued)
  <2>1. \A c \in calls' : \E b \in calls : b.id = c.id
    BY <1>3, LoseKeepsIds
  <2>2. issued' = issued
    BY <1>3 DEF Lose
  <2> QED
    BY <2>1, <2>2 DEF IdsInv
<1>4. CASE LanesNext
  BY <1>1, <1>2, <1>3, <1>4, StepsSend
<1>5. CASE UNCHANGED laneVars
  BY <1>2, <1>5 DEF laneVars, callVars
<1> QED
  BY <1>4, <1>5

\* A stream is started only while telemetry shows its source, also when the start
\* was queued behind a stop: beginStart() checks again what start() would.
THEOREM StartsAreChecked == LanesSpec => StartsHaveASource
<1>1. LanesInit => IdsInv
  BY DEF LanesInit, CallsInit, IdsInv
<1>2. SessionInv /\ IdsInv /\ [LanesNext]_laneVars
        => IdsInv' /\ [\A c \in calls' : c.id > issued /\ c.command = "live-stream.start"
                          => SourceAvailable(links[c.device])]_laneVars
  BY IdsInvKeeps
<1> QED
  BY <1>1, <1>2, SessionInvHolds, PTL DEF LanesSpec, StartsHaveASource

-----------------------------------------------------------------------------
\* Queued restarts.  A start is queued behind a lane that is busy stopping, so what
\* is inductive is that such a lane, too, has a stop that will continue.
Lane ==
  [exists : BOOLEAN, phase : VideoPhases, busy : BOOLEAN, code : Codes,
   restarts : Nat, unavailable : BOOLEAN]

OwesAStop(v) == v.restarts > 0 \/ (v.busy /\ v.phase = "stopping")
StopAwaited(d) == \E c \in calls : c.device = d /\ c.command = "live-stream.stop"

VideoInv ==
  /\ video \in [Device -> Lane]
  /\ \A d \in Device : OwesAStop(video[d]) => StopAwaited(d)

LEMMA SourceUnavailableLane ==
  ASSUME NEW v \in Lane
  PROVE  SourceUnavailable(v) \in Lane /\ (OwesAStop(SourceUnavailable(v)) => OwesAStop(v))
<1>1. CASE Active(v)
  <2> DEFINE w == [v EXCEPT !.phase = "failed", !.busy = FALSE, !.code = "SOURCE_UNAVAILABLE", !.restarts = 0]
  <2>1. w \in Lane /\ w.busy = FALSE /\ w.restarts = 0
    BY DEF Lane, VideoPhases, Codes
  <2>2. SourceUnavailable(v) = w
    BY <1>1 DEF SourceUnavailable
  <2> HIDE DEF w
  <2> QED
    BY <2>1, <2>2 DEF OwesAStop
<1>2. CASE ~Active(v)
  BY <1>2 DEF SourceUnavailable
<1> QED
  BY <1>1, <1>2

LEMMA DisconnectedLane ==
  ASSUME NEW v \in Lane
  PROVE  VideoDisconnected(v) \in Lane /\ (OwesAStop(VideoDisconnected(v)) => OwesAStop(v))
<1>1. CASE v.exists
  <2> DEFINE w == [v EXCEPT !.phase = "disconnected", !.busy = FALSE, !.code = "DISCONNECTED", !.restarts = 0]
  <2>1. w \in Lane /\ w.busy = FALSE /\ w.restarts = 0
    BY DEF Lane, VideoPhases, Codes
  <2>2. VideoDisconnected(v) = w
    BY <1>1 DEF VideoDisconnected
  <2> HIDE DEF w
  <2> QED
    BY <2>1, <2>2 DEF OwesAStop
<1>2. CASE ~v.exists
  BY <1>2 DEF VideoDisconnected
<1> QED
  BY <1>1, <1>2

\* The listener takes promises from a lane and makes none.
LEMMA PublishedLane ==
  ASSUME NEW v \in Lane, NEW facts
  PROVE  Published(v, facts) \in Lane /\ (OwesAStop(Published(v, facts)) => OwesAStop(v))
<1>1. ASSUME NEW w \in Lane, NEW u \in BOOLEAN
      PROVE  /\ [w EXCEPT !.unavailable = u] \in Lane
             /\ OwesAStop([w EXCEPT !.unavailable = u]) => OwesAStop(w)
  BY DEF Lane, OwesAStop
<1>2. CASE SourceAvailable(facts)
  BY <1>1, <1>2 DEF Published
<1>3. CASE ~SourceAvailable(facts) /\ (v.unavailable \/ ~Active(v))
  BY <1>3 DEF Published
<1>4. CASE ~SourceAvailable(facts) /\ ~(v.unavailable \/ ~Active(v))
  <2>1. Published(v, facts) = [SourceUnavailable(v) EXCEPT !.unavailable = TRUE]
    BY <1>4 DEF Published
  <2>2. /\ SourceUnavailable(v) \in Lane
        /\ OwesAStop(SourceUnavailable(v)) => OwesAStop(v)
    BY SourceUnavailableLane
  <2> QED
    BY <1>1, <2>1, <2>2
<1> QED
  BY <1>2, <1>3, <1>4

LEMMA ResultLane ==
  ASSUME NEW v \in Lane, NEW phase \in VideoPhases, NEW code \in Codes
  PROVE  /\ Result(v, phase, code) \in Lane
         /\ Result(v, phase, code).restarts = v.restarts
         /\ Result(v, phase, code).busy = FALSE
BY DEF Result, Lane

LEMMA SendingLane ==
  ASSUME NEW v \in Lane, NEW phase \in VideoPhases
  PROVE  /\ Sending(v, phase) \in Lane
         /\ Sending(v, phase).restarts = v.restarts
         /\ Sending(v, phase).phase = phase
BY DEF Sending, Lane

LEMMA AfterAwaitLane ==
  ASSUME NEW v \in Lane, NEW c, NEW ok \in BOOLEAN
  PROVE  /\ AfterAwait(v, c, ok) \in Lane
         /\ OwesAStop(AfterAwait(v, c, ok)) => v.restarts > 0
         /\ ~(AfterAwait(v, c, ok).busy /\ AfterAwait(v, c, ok).phase = "stopping")
<1>1. CASE Overtaken(v)
  <2>1. AfterAwait(v, c, ok) = v
    BY <1>1 DEF AfterAwait
  <2>2. v.phase # "stopping"
    BY <1>1 DEF Overtaken
  <2> QED
    BY <2>1, <2>2 DEF OwesAStop
<1>2. CASE ~Overtaken(v)
  <2>1. ASSUME NEW phase \in VideoPhases, NEW code \in Codes, NEW facts
        PROVE  /\ Published(Result(v, phase, code), facts) \in Lane
               /\ OwesAStop(Published(Result(v, phase, code), facts)) => v.restarts > 0
               /\ ~Published(Result(v, phase, code), facts).busy
    <3> DEFINE w == Result(v, phase, code)
    <3>1. w \in Lane /\ w.restarts = v.restarts /\ w.busy = FALSE
      BY ResultLane
    <3> HIDE DEF w
    <3>2. Published(w, facts) \in Lane /\ (OwesAStop(Published(w, facts)) => OwesAStop(w))
      BY <3>1, PublishedLane
    <3>3. ~Published(w, facts).busy
      BY <3>1 DEF Published, SourceUnavailable, Lane
    <3>4. OwesAStop(w) => v.restarts > 0
      BY <3>1 DEF OwesAStop
    <3>5. /\ Published(w, facts) \in Lane
          /\ OwesAStop(Published(w, facts)) => v.restarts > 0
          /\ ~Published(w, facts).busy
      BY <3>2, <3>3, <3>4
    <3> QED
      BY <3>5 DEF w
  <2>2. /\ "failed" \in VideoPhases /\ "streaming" \in VideoPhases /\ "idle" \in VideoPhases
        /\ "FAILURE" \in Codes /\ None \in Codes
    BY DEF VideoPhases, Codes
  <2>3. \E phase \in VideoPhases, code \in Codes :
          AfterAwait(v, c, ok) = Published(Result(v, phase, code), links[c.device])
    BY <1>2, <2>2 DEF AfterAwait
  <2> QED
    BY <2>1, <2>3
<1> QED
  BY <1>1, <1>2

\* A step that makes one lane w and keeps the stops of the others.
LEMMA LaneBecomes ==
  ASSUME VideoInv, NEW d \in Device, NEW w \in Lane,
         video' = [video EXCEPT ![d] = w],
         OwesAStop(w) => StopAwaited(d)',
         \A e \in Device \ {d} : StopAwaited(e) => StopAwaited(e)'
  PROVE  VideoInv'
<1>1. video' \in [Device -> Lane]
  BY DEF VideoInv
<1>2. ASSUME NEW e \in Device, OwesAStop(video'[e])
      PROVE  StopAwaited(e)'
  <2>1. CASE e = d
    BY <1>2, <2>1 DEF VideoInv
  <2>2. CASE e # d
    <3>1. video'[e] = video[e]
      BY <2>2 DEF VideoInv
    <3> QED
      BY <1>2, <2>2, <3>1 DEF VideoInv
  <2> QED
    BY <2>1, <2>2
<1>3. \A e \in Device : OwesAStop(video[e])' => StopAwaited(e)'
  BY <1>2 DEF OwesAStop
<1> QED
  BY <1>1, <1>3 DEF VideoInv

\* A step that leaves the streams alone.
LEMMA LanesStay ==
  ASSUME VideoInv, UNCHANGED video,
         \A e \in Device : StopAwaited(e) => StopAwaited(e)'
  PROVE  VideoInv'
BY DEF VideoInv, OwesAStop

LEMMA IssueKeepsStops ==
  ASSUME NEW d, NEW command, NEW generation, NEW requestedIn, NEW others,
         Issue(d, command, generation, requestedIn, others)
  PROVE  others \subseteq calls'
BY DEF Issue

LEMMA IssueAwaits ==
  ASSUME NEW d, NEW generation, NEW requestedIn, NEW others,
         Issue(d, "live-stream.stop", generation, requestedIn, others)
  PROVE  StopAwaited(d)'
<1> DEFINE new ==
      [id |-> issued + 1, device |-> d, command |-> "live-stream.stop", sentIn |-> session[d],
       generation |-> generation, requestedIn |-> requestedIn, late |-> FALSE]
<1>1. calls' = others \cup {new} /\ new.device = d /\ new.command = "live-stream.stop"
  BY DEF Issue
<1> HIDE DEF new
<1> QED
  BY <1>1 DEF StopAwaited

\* beginStart() promises no stop that the lane did not owe before.
LEMMA BeginStartLane ==
  ASSUME NEW d \in Device, NEW v \in Lane, NEW others, BeginStart(d, v, others)
  PROVE  /\ others \subseteq calls'
         /\ \E w \in Lane : /\ video' = [video EXCEPT ![d] = w]
                            /\ OwesAStop(w) => OwesAStop(v)
<1>1. CASE Refused(d, v, others)
  <2> DEFINE w == [v EXCEPT !.exists = TRUE]
  <2>1. w \in Lane /\ (OwesAStop(w) => OwesAStop(v))
    BY DEF Lane, OwesAStop
  <2>2. calls' = others /\ video' = [video EXCEPT ![d] = w]
    BY <1>1 DEF Refused
  <2> HIDE DEF w
  <2> QED
    BY <2>1, <2>2
<1>2. CASE MediaUnavailable(d, v, others)
  <2> DEFINE r == Result(v, "failed", "FAILURE")
             w == Published(r, links[d])
  <2>1. r \in Lane /\ r.restarts = v.restarts /\ r.busy = FALSE
    BY ResultLane DEF VideoPhases, Codes
  <2>2. calls' = others /\ video' = [video EXCEPT ![d] = w]
    BY <1>2 DEF MediaUnavailable
  <2> HIDE DEF r
  <2>3. w \in Lane /\ (OwesAStop(w) => OwesAStop(r))
    BY <2>1, PublishedLane
  <2>4. OwesAStop(r) => OwesAStop(v)
    BY <2>1 DEF OwesAStop
  <2> HIDE DEF w
  <2> QED
    BY <2>2, <2>3, <2>4
<1>3. CASE /\ video' = [video EXCEPT ![d] = Published(Sending(v, "starting"), links[d])]
           /\ Issue(d, "live-stream.start", 0, 0, others)
  <2> DEFINE r == Sending(v, "starting")
             w == Published(r, links[d])
  <2>1. r \in Lane /\ r.restarts = v.restarts /\ r.phase = "starting"
    BY SendingLane DEF VideoPhases
  <2>2. others \subseteq calls' /\ video' = [video EXCEPT ![d] = w]
    BY <1>3, IssueKeepsStops
  <2> HIDE DEF r
  <2>3. w \in Lane /\ (OwesAStop(w) => OwesAStop(r))
    BY <2>1, PublishedLane
  <2>4. OwesAStop(r) => OwesAStop(v)
    BY <2>1 DEF OwesAStop
  <2> HIDE DEF w
  <2> QED
    BY <2>2, <2>3, <2>4
<1> QED
  BY <1>1, <1>2, <1>3 DEF BeginStart

LEMMA StreamRequestKeepsVideo ==
  ASSUME VideoInv, NEW d \in Device, StreamRequest(d)
  PROVE  VideoInv'
<1> DEFINE v == video[d]
<1>0. v \in Lane /\ (OwesAStop(v) => StopAwaited(d))
  BY DEF VideoInv
<1>1. CASE StartStream(d) /\ v.busy /\ v.phase = "stopping"
  <2> DEFINE w == [v EXCEPT !.restarts = @ + 1]
  <2>1. video' = [video EXCEPT ![d] = w] /\ UNCHANGED calls
    BY <1>1 DEF StartStream, VideoInv
  <2>2. v.restarts + 1 \in Nat
    BY <1>0 DEF Lane
  <2>3. w \in Lane
    BY <1>0, <2>2 DEF Lane
  <2>4. StopAwaited(d)
    BY <1>0, <1>1 DEF OwesAStop
  <2>5. \A e \in Device : StopAwaited(e) => StopAwaited(e)'
    BY <2>1 DEF StopAwaited
  <2> HIDE DEF w
  <2> QED
    BY <2>1, <2>3, <2>4, <2>5, LaneBecomes
<1>2. CASE StartStream(d) /\ ~(v.busy /\ v.phase = "stopping")
  <2>1. BeginStart(d, v, calls)
    BY <1>2, Zenon DEF StartStream
  <2>2. /\ calls \subseteq calls'
        /\ \E w \in Lane : /\ video' = [video EXCEPT ![d] = w]
                           /\ OwesAStop(w) => OwesAStop(v)
    BY <1>0, <2>1, BeginStartLane
  <2>3. \A e \in Device : StopAwaited(e) => StopAwaited(e)'
    BY <2>2 DEF StopAwaited
  <2> QED
    BY <1>0, <2>2, <2>3, LaneBecomes
<1>3. CASE StopStream(d)
  <2> DEFINE w == Published(Sending(v, "stopping"), links[d])
  <2>1. /\ video' = [video EXCEPT ![d] = w]
        /\ Issue(d, "live-stream.stop", 0, 0, calls)
    BY <1>3 DEF StopStream
  <2>2. Sending(v, "stopping") \in Lane
    BY <1>0, SendingLane DEF VideoPhases
  <2>3. w \in Lane
    BY <2>2, PublishedLane
  <2>4. StopAwaited(d)' /\ \A e \in Device : StopAwaited(e) => StopAwaited(e)'
    BY <2>1, IssueAwaits, IssueKeepsStops DEF StopAwaited
  <2> HIDE DEF w
  <2> QED
    BY <2>1, <2>3, <2>4, LaneBecomes
<1>4. CASE MediaOutlivesSource(d)
  <2> DEFINE w == [v EXCEPT !.unavailable = TRUE]
  <2>1. video' = [video EXCEPT ![d] = w] /\ UNCHANGED calls
    BY <1>4 DEF MediaOutlivesSource, callVars
  <2>2. w \in Lane /\ (OwesAStop(w) => OwesAStop(v))
    BY <1>0 DEF Lane, OwesAStop
  <2>3. \A e \in Device : StopAwaited(e) => StopAwaited(e)'
    BY <2>1 DEF StopAwaited
  <2> HIDE DEF w
  <2> QED
    BY <1>0, <2>1, <2>2, <2>3, LaneBecomes
<1> QED
  BY <1>1, <1>2, <1>3, <1>4 DEF StreamRequest

LEMMA AnswerKeepsVideo ==
  ASSUME SessionInv, VideoInv, NEW c \in calls, Answer(c)
  PROVE  VideoInv'
<1> DEFINE d == c.device
           v == video[d]
<1>0. d \in Device /\ v \in Lane /\ (OwesAStop(v) => StopAwaited(d))
  BY DEF SessionInv, CallsInv, NotLateIsThere, VideoInv
<1>1. ASSUME calls \ {c} \subseteq calls', c.command # "live-stream.stop"
      PROVE  \A e \in Device : StopAwaited(e) => StopAwaited(e)'
  BY <1>1 DEF StopAwaited
<1>2. ASSUME calls \ {c} \subseteq calls'
      PROVE  \A e \in Device \ {d} : StopAwaited(e) => StopAwaited(e)'
  BY <1>2 DEF StopAwaited
<1>3. CASE AnswerPhoto(c) /\ UNCHANGED video
  <2>1. calls' = calls \ {c} /\ c.command # "live-stream.stop"
    BY <1>3 DEF AnswerPhoto, Ends, PhotoCommands
  <2> QED
    BY <1>1, <1>3, <2>1, LanesStay
<1>4. CASE AnswerFlight(c) /\ UNCHANGED video
  <2>1. calls' = calls \ {c} /\ c.command # "live-stream.stop"
    BY <1>4 DEF AnswerFlight, Ends, FlightCommands
  <2> QED
    BY <1>1, <1>4, <2>1, LanesStay
<1>5. CASE AnswerStream(c)
  <2>1. PICK ok \in BOOLEAN : ContinueStream(c, ok)
    BY <1>5 DEF AnswerStream
  <2> DEFINE after == AfterAwait(v, c, ok)
             told == ok /\ ~Overtaken(v)
             settled == [after EXCEPT !.restarts = 0]
  <2>2. /\ after \in Lane
        /\ OwesAStop(after) => v.restarts > 0
        /\ ~(after.busy /\ after.phase = "stopping")
    BY <1>0, AfterAwaitLane
  <2>3. CASE c.command = "live-stream.start"
    <3>1. video' = [video EXCEPT ![d] = after] /\ calls' = calls \ {c}
      BY <2>1, <2>3, Zenon DEF ContinueStream, Ends
    <3>2. OwesAStop(after) => StopAwaited(d)
      BY <1>0, <2>2 DEF OwesAStop
    <3>3. \A e \in Device : StopAwaited(e) => StopAwaited(e)'
      BY <1>1, <2>3, <3>1
    <3> HIDE DEF after
    <3> QED
      BY <1>0, <2>2, <3>1, <3>2, <3>3, LaneBecomes
  <2>4. settled \in Lane /\ ~OwesAStop(settled)
    <3> HIDE DEF after
    <3> QED
      BY <2>2 DEF Lane, OwesAStop
  <2>5. CASE c.command # "live-stream.start" /\ told /\ after.restarts > 0
    <3>1. BeginStart(d, settled, calls \ {c})
      BY <2>1, <2>5, Zenon DEF ContinueStream
    <3> HIDE DEF settled
    <3>2. /\ calls \ {c} \subseteq calls'
          /\ \E w \in Lane : /\ video' = [video EXCEPT ![d] = w]
                             /\ OwesAStop(w) => OwesAStop(settled)
      BY <1>0, <2>4, <3>1, BeginStartLane
    <3> QED
      BY <1>0, <1>2, <2>4, <3>2, LaneBecomes
  <2>6. CASE c.command # "live-stream.start" /\ ~(told /\ after.restarts > 0)
    <3>1. video' = [video EXCEPT ![d] = settled] /\ calls' = calls \ {c}
      BY <2>1, <2>6, Zenon DEF ContinueStream, Ends
    <3> HIDE DEF settled
    <3> QED
      BY <1>0, <1>2, <2>4, <3>1, LaneBecomes
  <2> QED
    BY <2>3, <2>5, <2>6
<1> QED
  BY <1>3, <1>4, <1>5 DEF Answer

LEMMA TurnKeepsVideo ==
  ASSUME SessionInv, VideoInv, NEW d \in Device, Turn(d)
  PROVE  VideoInv'
<1>1. ASSUME calls \subseteq calls'
      PROVE  \A e \in Device : StopAwaited(e) => StopAwaited(e)'
  BY <1>1 DEF StopAwaited
<1>2. ASSUME NEW facts, video' = [video EXCEPT ![d] = Published(@, facts)], calls' = calls
      PROVE  VideoInv'
  <2> DEFINE w == Published(video[d], facts)
  <2>1. video[d] \in Lane /\ (OwesAStop(video[d]) => StopAwaited(d))
    BY DEF VideoInv
  <2>2. w \in Lane /\ (OwesAStop(w) => OwesAStop(video[d]))
    BY <2>1, PublishedLane
  <2>3. video' = [video EXCEPT ![d] = w]
    BY <1>2 DEF VideoInv
  <2> HIDE DEF w
  <2> QED
    BY <1>1, <1>2, <2>1, <2>2, <2>3, LaneBecomes
<1>3. CASE Connect(d) \/ \E facts \in SUBSET Links : Telemetry(d, facts)
  BY <1>2, <1>3 DEF Connect, Telemetry
<1>4. CASE Lose(d)
  <2> DEFINE v == video[d]
             w == VideoDisconnected(v)
  <2>1. \A e \in Device : StopAwaited(e) => StopAwaited(e)'
    <3> DEFINE lateOf(c) == IF c.device = d THEN [c EXCEPT !.late = TRUE] ELSE c
    <3>1. calls' = {lateOf(c) : c \in calls}
      BY <1>4 DEF Lose, Cancelled
    <3>2. ASSUME NEW c \in calls
          PROVE  lateOf(c).device = c.device /\ lateOf(c).command = c.command
      <4>1. c = [id |-> c.id, device |-> c.device, command |-> c.command, sentIn |-> c.sentIn,
                 generation |-> c.generation, requestedIn |-> c.requestedIn, late |-> c.late]
        BY DEF SessionInv, CallsInv, GoodCalls, Shaped
      <4> QED
        BY <4>1
    <3> HIDE DEF lateOf
    <3> QED
      BY <3>1, <3>2 DEF StopAwaited
  <2>2. v \in Lane /\ (OwesAStop(v) => StopAwaited(d))
    BY DEF VideoInv
  <2>3. w \in Lane /\ (OwesAStop(w) => OwesAStop(v))
    BY <2>2, DisconnectedLane
  <2>4. video' = [video EXCEPT ![d] = w]
    BY <1>4 DEF Lose
  <2> HIDE DEF w
  <2> QED
    BY <2>1, <2>2, <2>3, <2>4, LaneBecomes
<1>5. CASE PhotoRequest(d) \/ FlightRequest(d)
  <2>1. UNCHANGED video
    BY <1>5 DEF PhotoRequest, FlightRequest
  <2>2. calls \subseteq calls'
    BY <1>5, IssueKeepsStops
    DEF PhotoRequest, FlightRequest, Capture, Fetch, StoredTimeout, PhotoArrives, RequestFlight,
        ExpireConfirmation, ConfirmFlight, RefuseFlight, CancelFlight, callVars
  <2> QED
    BY <1>1, <2>1, <2>2, LanesStay
<1> QED
  BY <1>3, <1>4, <1>5, StreamRequestKeepsVideo DEF Turn

LEMMA VideoInvHolds == LanesSpec => []VideoInv
<1>1. LanesInit => VideoInv
  BY DEF LanesInit, VideoInit, VideoInv, Lane, VideoPhases, Codes, OwesAStop
<1>2. SessionInv /\ VideoInv /\ [LanesNext]_laneVars => VideoInv'
  <2> SUFFICES ASSUME SessionInv, VideoInv, [LanesNext]_laneVars PROVE VideoInv'
    OBVIOUS
  <2>1. CASE LanesNext
    BY <2>1, TurnKeepsVideo, AnswerKeepsVideo DEF LanesNext
  <2>2. CASE UNCHANGED laneVars
    <3>1. UNCHANGED <<video, calls>>
      BY <2>2 DEF laneVars, callVars
    <3> QED
      BY <3>1, LanesStay DEF StopAwaited
  <2> QED
    BY <2>1, <2>2
<1> QED
  BY <1>1, <1>2, SessionInvHolds, PTL DEF LanesSpec

\* Whoever waits for a stream to restart is owed an answer: the lane he waits in
\* keeps a stop whose continuation settles the queue.
THEOREM RestartsAreOwed == LanesSpec => []QueuedRestartsAreOwed
<1>1. VideoInv => QueuedRestartsAreOwed
  BY DEF VideoInv, QueuedRestartsAreOwed, OwesAStop, StopAwaited, CallsOf
<1> QED
  BY <1>1, VideoInvHolds, PTL

-----------------------------------------------------------------------------
(* Answers and generations: a photo lane is busy exactly while something   *)
(* that will free it is on its way, and the calls a loss cut off change    *)
(* nothing the loss recorded.                                              *)
(*                                                                         *)
(* The invariant is that a call is late exactly when its generation is     *)
(* over, so that the calls of a former generation are gone before the next *)
(* request begins one.                                                     *)

Sessions ==
  [busy : BOOLEAN, phase : PhotoPhases, generation : Nat, waiting : BOOLEAN,
   delivered : Photo \cup {None}, received : SUBSET Photo]

PhotoCalls(d) == {c \in calls : c.device = d /\ c.command \in PhotoCommands}

\* The calls of a device and its session p.
Matches(p, owed) ==
  /\ \A c \in owed : /\ c.generation \in Nat /\ c.generation <= p.generation
                     /\ c.late \in BOOLEAN
                     /\ c.late <=> c.generation # p.generation
                     /\ c.late => ~p.busy
  /\ p.busy <=> p.waiting \/ \E c \in owed : c.generation = p.generation
  /\ p.waiting => \A c \in owed : c.generation # p.generation
  /\ \A b, c \in owed : b.generation = p.generation /\ c.generation = p.generation => b = c

PhotoInv ==
  /\ photo \in [Device -> Sessions]
  /\ \A d \in Device : Matches(photo[d], PhotoCalls(d))

-----------------------------------------------------------------------------
LEMMA ReleaseSession ==
  ASSUME NEW p \in Sessions
  PROVE  /\ Release(p) \in Sessions /\ Release(p).generation = p.generation
         /\ Release(p).phase = p.phase /\ ~Release(p).busy /\ ~Release(p).waiting
BY DEF Release, Sessions

LEMMA FinishSession ==
  ASSUME NEW p \in Sessions, NEW ok \in BOOLEAN
  PROVE  /\ Finish(p, ok) \in Sessions /\ Finish(p, ok).generation = p.generation
         /\ Finish(p, ok).busy = p.busy /\ Finish(p, ok).waiting = p.waiting
BY DEF Finish, Sessions, PhotoPhases

LEMMA ReleasedFinish ==
  ASSUME NEW p \in Sessions, NEW ok \in BOOLEAN
  PROVE  /\ Release(Finish(p, ok)) \in Sessions
         /\ Release(Finish(p, ok)).generation = p.generation
         /\ ~Release(Finish(p, ok)).busy /\ ~Release(Finish(p, ok)).waiting
<1>1. Finish(p, ok) \in Sessions /\ Finish(p, ok).generation = p.generation
  BY FinishSession
<1> QED
  BY <1>1, ReleaseSession

LEMMA DeliveredSession ==
  ASSUME NEW p \in Sessions, NEW file \in Photo
  PROVE  /\ Delivered(p, file) \in Sessions
         /\ Delivered(p, file).generation = p.generation
         /\ p.busy => (Delivered(p, file).busy <=> Delivered(p, file).waiting)
<1> DEFINE q == [p EXCEPT !.delivered = file]
<1>1. q \in Sessions /\ q.generation = p.generation /\ q.busy = p.busy
  BY DEF Sessions
<1>2. Delivered(p, file) = IF HasMatchingDelivery(q) THEN Release(Finish(q, TRUE))
                           ELSE [q EXCEPT !.waiting = TRUE]
  BY DEF Delivered
<1> HIDE DEF q
<1>3. CASE HasMatchingDelivery(q)
  BY <1>1, <1>2, <1>3, ReleasedFinish
<1>4. CASE ~HasMatchingDelivery(q)
  <2> DEFINE w == [q EXCEPT !.waiting = TRUE]
  <2>1. w \in Sessions /\ w.generation = q.generation /\ w.busy = q.busy /\ w.waiting = TRUE
    BY <1>1 DEF Sessions
  <2>2. Delivered(p, file) = w
    BY <1>2, <1>4
  <2> HIDE DEF w
  <2> QED
    BY <1>1, <2>1, <2>2
<1> QED
  BY <1>3, <1>4

LEMMA AnswersSession ==
  ASSUME NEW p \in Sessions, NEW c, NEW q \in Answers(p, c)
  PROVE  /\ q \in Sessions /\ q.generation = p.generation
         /\ p.busy => (q.busy <=> q.waiting)
<1>1. CASE q = Release(Finish(p, FALSE))
  BY <1>1, ReleasedFinish
<1>2. CASE q = Captured(p)
  <2> DEFINE w == [p EXCEPT !.phase = "captured", !.delivered = None, !.received = {}]
  <2>1. w \in Sessions /\ w.generation = p.generation
    BY DEF Sessions, PhotoPhases
  <2>2. q = Release(w)
    BY <1>2 DEF Captured
  <2> HIDE DEF w
  <2> QED
    BY <2>1, <2>2, ReleaseSession
<1>3. CASE \E file \in Photo : q = Delivered(p, file)
  BY <1>3, DeliveredSession
<1> QED
  BY <1>1, <1>2, <1>3 DEF Answers

\* A photo that arrives leaves a session as busy as it was, or frees one that waits.
LEMMA RecordStoredSession ==
  ASSUME NEW p \in Sessions, NEW file \in Photo
  PROVE  LET q == RecordStored(p, file)
         IN  /\ q \in Sessions /\ q.generation = p.generation
             /\ \/ q.busy = p.busy /\ q.waiting = p.waiting
                \/ p.waiting /\ ~q.busy /\ ~q.waiting
<1> DEFINE r == [p EXCEPT !.received = {f \in @ : f.fileName # file.fileName} \cup {file}]
<1>1. r \in Sessions /\ r.generation = p.generation /\ r.busy = p.busy /\ r.waiting = p.waiting
  BY DEF Sessions
<1>2. RecordStored(p, file) \in {p, r, Finish(r, TRUE)}
        \/ (r.waiting /\ RecordStored(p, file) = Release(Finish(r, TRUE)))
  BY DEF RecordStored, Received
<1> HIDE DEF r
<1> QED
  BY ZenonT(60), <1>1, <1>2, FinishSession, ReleasedFinish

LEMMA BegunSession ==
  ASSUME NEW p \in Sessions, NEW phase \in PhotoPhases
  PROVE  /\ Begun(p, phase) \in Sessions
         /\ Begun(p, phase).busy /\ Begun(p, phase).waiting = p.waiting
         /\ Begun(p, phase).generation = p.generation + 1
         /\ Begun(p, phase).phase = phase
<1>1. ASSUME NEW n \in Nat
      PROVE  LET q == [p EXCEPT !.busy = TRUE, !.generation = n, !.phase = phase]
             IN  /\ q \in Sessions /\ q.busy /\ q.waiting = p.waiting
                 /\ q.generation = n /\ q.phase = phase
  BY DEF Sessions
<1>2. p.generation + 1 \in Nat
  BY DEF Sessions
<1> QED
  BY <1>1, <1>2 DEF Begun

LEMMA DisconnectedSession ==
  ASSUME NEW p \in Sessions
  PROVE  /\ PhotoDisconnected(p) \in Sessions
         /\ PhotoDisconnected(p).generation = p.generation + 1
         /\ ~PhotoDisconnected(p).busy /\ ~PhotoDisconnected(p).waiting
<1> DEFINE w == [p EXCEPT !.generation = @ + 1, !.phase = "disconnected"]
<1>1. p.generation + 1 \in Nat
  BY DEF Sessions
<1>2. w \in Sessions /\ w.generation = p.generation + 1
  BY <1>1 DEF Sessions, PhotoPhases
<1>3. PhotoDisconnected(p) = Release(w)
  BY DEF PhotoDisconnected
<1> HIDE DEF w
<1> QED
  BY <1>2, <1>3, ReleaseSession

-----------------------------------------------------------------------------
LEMMA SessionBecomes ==
  ASSUME PhotoInv, NEW d \in Device, NEW q \in Sessions,
         photo' = [photo EXCEPT ![d] = q],
         Matches(q, PhotoCalls(d)'),
         \A e \in Device \ {d} : PhotoCalls(e)' = PhotoCalls(e)
  PROVE  PhotoInv'
<1>1. photo' \in [Device -> Sessions]
  BY DEF PhotoInv
<1>2. ASSUME NEW e \in Device
      PROVE  Matches(photo'[e], PhotoCalls(e)')
  <2>1. CASE e = d
    <3>1. photo'[e] = q
      BY <2>1 DEF PhotoInv
    <3> QED
      BY <2>1, <3>1
  <2>2. CASE e # d
    <3>1. photo'[e] = photo[e]
      BY <2>2 DEF PhotoInv
    <3> QED
      BY <2>2, <3>1 DEF PhotoInv
  <2> QED
    BY <2>1, <2>2
<1>3. \A e \in Device : Matches(photo[e], PhotoCalls(e))'
  BY <1>2 DEF Matches
<1> QED
  BY <1>1, <1>3 DEF PhotoInv

LEMMA SessionsStay ==
  ASSUME PhotoInv, UNCHANGED photo, \A e \in Device : PhotoCalls(e)' = PhotoCalls(e)
  PROVE  PhotoInv'
<1>1. \A e \in Device : Matches(photo[e], PhotoCalls(e))'
  BY DEF PhotoInv, Matches
<1> QED
  BY <1>1 DEF PhotoInv

\* The other lanes neither send nor answer a photo command.
LEMMA OtherCommands ==
  ASSUME NEW d, NEW command, NEW generation, NEW requestedIn, NEW others \in SUBSET calls,
         command \notin PhotoCommands, \A c \in calls \ others : c.command \notin PhotoCommands,
         calls' = others \/ Issue(d, command, generation, requestedIn, others)
  PROVE  \A e \in Device : PhotoCalls(e)' = PhotoCalls(e)
<1> DEFINE new ==
      [id |-> issued + 1, device |-> d, command |-> command, sentIn |-> session[d],
       generation |-> generation, requestedIn |-> requestedIn, late |-> FALSE]
<1>1. calls' = others \/ calls' = others \cup {new}
  BY DEF Issue
<1>2. new.command = command
  OBVIOUS
<1> HIDE DEF new
<1> QED
  BY <1>1, <1>2 DEF PhotoCalls

LEMMA OtherStart ==
  ASSUME NEW d, NEW v, NEW others \in SUBSET calls, BeginStart(d, v, others),
         \A c \in calls \ others : c.command \notin PhotoCommands
  PROVE  \A e \in Device : PhotoCalls(e)' = PhotoCalls(e)
<1>1. "live-stream.start" \notin PhotoCommands
  BY DEF PhotoCommands
<1>2. calls' = others \/ Issue(d, "live-stream.start", 0, 0, others)
  BY DEF BeginStart, Refused, MediaUnavailable
<1> QED
  BY <1>1, <1>2, OtherCommands

\* A request that begins a generation finds no call of another.
LEMMA RequestMatches ==
  ASSUME PhotoInv, Quiet, NEW d \in Device, ~photo[d].busy,
         NEW command \in PhotoCommands, NEW q \in Sessions,
         photo' = [photo EXCEPT ![d] = q],
         q.busy, ~q.waiting, q.generation = photo[d].generation + 1,
         Issue(d, command, photo[d].generation + 1, 0, calls)
  PROVE  PhotoInv'
<1> DEFINE new ==
      [id |-> issued + 1, device |-> d, command |-> command, sentIn |-> session[d],
       generation |-> photo[d].generation + 1, requestedIn |-> 0, late |-> FALSE]
<1>1. calls' = calls \cup {new}
  BY DEF Issue
<1>2. new.device = d /\ new.command = command /\ new.generation = q.generation /\ new.late = FALSE
  OBVIOUS
<1> HIDE DEF new
<1>3. Matches(photo[d], PhotoCalls(d))
  BY DEF PhotoInv
<1>4. PhotoCalls(d) = {}
  BY <1>3 DEF Matches, Quiet, PhotoCalls
<1>5. PhotoCalls(d)' = {new}
  BY <1>1, <1>2, <1>4 DEF PhotoCalls
<1>6. \A e \in Device \ {d} : PhotoCalls(e)' = PhotoCalls(e)
  BY <1>1, <1>2 DEF PhotoCalls
<1>7. q.generation \in Nat
  BY DEF Sessions
<1>8. Matches(q, {new})
  <2>1. new.generation \in Nat /\ new.generation <= q.generation
    BY <1>2, <1>7
  <2>2. \E c \in {new} : c.generation = q.generation
    BY <1>2
  <2> QED
    BY <1>2, <2>1, <2>2 DEF Matches
<1> QED
  BY <1>5, <1>6, <1>8, SessionBecomes

LEMMA PhotoRequestMatches ==
  ASSUME PhotoInv, Quiet, NEW d \in Device, PhotoRequest(d)
  PROVE  PhotoInv'
<1> DEFINE p == photo[d]
<1>0. p \in Sessions /\ p.generation + 1 \in Nat /\ Matches(p, PhotoCalls(d))
  BY DEF PhotoInv, Sessions
<1>1. CASE Capture(d)
  <2> DEFINE q == Begun(p, "capturing")
  <2>1. ~p.busy /\ photo' = [photo EXCEPT ![d] = q]
        /\ Issue(d, "camera.photo.capture", p.generation + 1, 0, calls)
    BY <1>1 DEF Capture
  <2>2. ~p.waiting
    BY <1>0, <2>1 DEF Matches
  <2>3. q \in Sessions /\ q.busy /\ ~q.waiting /\ q.generation = p.generation + 1
    BY <1>0, <2>2, BegunSession DEF PhotoPhases
  <2> HIDE DEF q
  <2> QED
    BY <2>1, <2>3, RequestMatches DEF PhotoCommands
<1>2. CASE Fetch(d)
  <2> DEFINE b == Begun(p, "fetching")
             q == [b EXCEPT !.delivered = None, !.received = {}]
  <2>1. ~p.busy /\ photo' = [photo EXCEPT ![d] = q]
        /\ Issue(d, "camera.photo.fetch", p.generation + 1, 0, calls)
    BY <1>2 DEF Fetch
  <2>2. ~p.waiting
    BY <1>0, <2>1 DEF Matches
  <2>3. b \in Sessions /\ b.busy /\ ~b.waiting /\ b.generation = p.generation + 1
    BY <1>0, <2>2, BegunSession DEF PhotoPhases
  <2> HIDE DEF b
  <2>4. q \in Sessions /\ q.busy /\ ~q.waiting /\ q.generation = p.generation + 1
    BY <2>3 DEF Sessions
  <2> HIDE DEF q
  <2> QED
    BY <2>1, <2>4, RequestMatches DEF PhotoCommands
<1>3. ASSUME NEW q \in Sessions, photo' = [photo EXCEPT ![d] = q], UNCHANGED calls,
             q.generation = p.generation,
             \/ q.busy = p.busy /\ q.waiting = p.waiting
             \/ p.waiting /\ ~q.busy /\ ~q.waiting
      PROVE  PhotoInv'
  <2>1. Matches(q, PhotoCalls(d))
    BY <1>0, <1>3 DEF Matches
  <2>2. \A e \in Device : PhotoCalls(e)' = PhotoCalls(e)
    BY <1>3 DEF PhotoCalls
  <2> QED
    BY <1>3, <2>1, <2>2, SessionBecomes
<1>4. CASE StoredTimeout(d)
  <2>1. p.waiting /\ photo' = [photo EXCEPT ![d] = Release(Finish(p, FALSE))] /\ UNCHANGED calls
    BY <1>4 DEF StoredTimeout, callVars
  <2> QED
    BY <1>0, <1>3, <2>1, ReleasedFinish
<1>5. ASSUME NEW file \in Photo, PhotoArrives(d, file)
      PROVE  PhotoInv'
  <2>1. photo' = [photo EXCEPT ![d] = RecordStored(p, file)] /\ UNCHANGED calls
    BY <1>5 DEF PhotoArrives, callVars
  <2> QED
    BY <1>0, <1>3, <2>1, RecordStoredSession
<1> QED
  BY <1>1, <1>2, <1>4, <1>5 DEF PhotoRequest

LEMMA AnswerMatches ==
  ASSUME SessionInv, PhotoInv, NEW c \in calls, Answer(c)
  PROVE  PhotoInv'
<1> DEFINE d == c.device
           p == photo[d]
<1>0. d \in Device /\ p \in Sessions /\ Matches(p, PhotoCalls(d))
  BY DEF SessionInv, CallsInv, NotLateIsThere, PhotoInv
<1>1. CASE AnswerStream(c) /\ UNCHANGED photoVars
  <2>1. c.command \notin PhotoCommands
    BY <1>1 DEF AnswerStream, StreamCommands, PhotoCommands
  <2>2. PICK ok \in BOOLEAN : ContinueStream(c, ok)
    BY <1>1 DEF AnswerStream
  <2>3. calls' = calls \ {c} \/ \E v : BeginStart(d, v, calls \ {c})
    <3> DEFINE after == AfterAwait(video[d], c, ok)
               told == ok /\ ~Overtaken(video[d])
    <3>1. CASE c.command # "live-stream.start" /\ told /\ after.restarts > 0
      <4>1. BeginStart(d, [after EXCEPT !.restarts = 0], calls \ {c})
        BY <2>2, <3>1, Zenon DEF ContinueStream
      <4> QED
        BY <4>1
    <3>2. CASE ~(c.command # "live-stream.start" /\ told /\ after.restarts > 0)
      BY <2>2, <3>2, Zenon DEF ContinueStream, Ends
    <3> QED
      BY <3>1, <3>2
  <2>4. \A e \in Device : PhotoCalls(e)' = PhotoCalls(e)
    <3>1. CASE calls' = calls \ {c}
      BY <2>1, <3>1 DEF PhotoCalls
    <3>2. CASE \E v : BeginStart(d, v, calls \ {c})
      BY <2>1, <3>2, OtherStart
    <3> QED
      BY <2>3, <3>1, <3>2
  <2> QED
    BY <1>1, <2>4, SessionsStay DEF photoVars
<1>2. CASE AnswerFlight(c) /\ UNCHANGED photoVars
  <2>1. calls' = calls \ {c} /\ c.command \notin PhotoCommands
    BY <1>2 DEF AnswerFlight, Ends, FlightCommands, PhotoCommands
  <2>2. \A e \in Device : PhotoCalls(e)' = PhotoCalls(e)
    BY <2>1 DEF PhotoCalls
  <2> QED
    BY <1>2, <2>2, SessionsStay DEF photoVars
<1>3. CASE AnswerPhoto(c)
  <2>1. PICK q \in AfterPhotoAwait(p, c) : photo' = [photo EXCEPT ![d] = q]
    BY <1>3 DEF AnswerPhoto
  <2>2. calls' = calls \ {c} /\ c \in PhotoCalls(d)
    BY <1>3 DEF AnswerPhoto, Ends, PhotoCalls
  <2>3. PhotoCalls(d)' = PhotoCalls(d) \ {c} /\ \A e \in Device \ {d} : PhotoCalls(e)' = PhotoCalls(e)
    BY <2>2 DEF PhotoCalls
  <2>4. CASE c.generation # p.generation
    <3>1. q = Release(p)
      BY <2>1, <2>4 DEF AfterPhotoAwait
    <3>2. q \in Sessions /\ q.generation = p.generation /\ ~q.busy /\ ~q.waiting
      BY <1>0, <3>1, ReleaseSession
    <3>3. Matches(q, PhotoCalls(d) \ {c})
      BY <1>0, <2>2, <2>4, <3>2 DEF Matches
    <3> QED
      BY <1>0, <2>1, <2>3, <3>2, <3>3, SessionBecomes
  <2>5. CASE c.generation = p.generation
    <3>1. p.busy
      BY <1>0, <2>2, <2>5 DEF Matches
    <3>2. q \in Sessions /\ q.generation = p.generation /\ (q.busy <=> q.waiting)
      BY <1>0, <2>1, <2>5, <3>1, AnswersSession DEF AfterPhotoAwait
    <3>3. \A b \in PhotoCalls(d) \ {c} : b.generation # p.generation
      BY <1>0, <2>2, <2>5 DEF Matches
    <3>4. PhotoCalls(d) \ {c} = {}
      BY <1>0, <3>1, <3>3 DEF Matches
    <3>5. Matches(q, PhotoCalls(d) \ {c})
      BY <3>2, <3>4 DEF Matches
    <3> QED
      BY <1>0, <2>1, <2>3, <3>2, <3>5, SessionBecomes
  <2> QED
    BY <2>4, <2>5
<1> QED
  BY <1>1, <1>2, <1>3 DEF Answer

\* A loss begins a generation, and every call of the former ones is late.
LEMMA LoseMatches ==
  ASSUME SessionInv, PhotoInv, NEW d \in Device, Lose(d)
  PROVE  PhotoInv'
<1> DEFINE p == photo[d]
           q == PhotoDisconnected(p)
           lateOf(c) == IF c.device = d THEN [c EXCEPT !.late = TRUE] ELSE c
<1>0. p \in Sessions /\ Matches(p, PhotoCalls(d))
  BY DEF PhotoInv
<1>1. photo' = [photo EXCEPT ![d] = q] /\ calls' = {lateOf(c) : c \in calls}
  BY DEF Lose, Cancelled
<1>2. q \in Sessions /\ q.generation = p.generation + 1 /\ ~q.busy /\ ~q.waiting
  BY <1>0, DisconnectedSession
<1> HIDE DEF q
<1>3. ASSUME NEW c \in calls
      PROVE  /\ lateOf(c).device = c.device /\ lateOf(c).command = c.command
             /\ lateOf(c).generation = c.generation
             /\ c.device = d => lateOf(c).late = TRUE
             /\ c.device # d => lateOf(c) = c
  <2>1. c = [id |-> c.id, device |-> c.device, command |-> c.command, sentIn |-> c.sentIn,
             generation |-> c.generation, requestedIn |-> c.requestedIn, late |-> c.late]
    BY DEF SessionInv, CallsInv, GoodCalls, Shaped
  <2> QED
    BY <2>1
<1> HIDE DEF lateOf
<1>4. \A e \in Device \ {d} : PhotoCalls(e)' = PhotoCalls(e)
  BY <1>1, <1>3 DEF PhotoCalls
<1>5. ASSUME NEW c \in PhotoCalls(d)'
      PROVE  /\ c.late = TRUE /\ c.generation \in Nat
             /\ c.generation <= q.generation /\ c.generation # q.generation
  <2>1. PICK b \in calls : c = lateOf(b)
    BY <1>1, <1>5 DEF PhotoCalls
  <2>2. b \in PhotoCalls(d) /\ c.late = TRUE /\ c.generation = b.generation
    BY <1>3, <1>5, <2>1 DEF PhotoCalls
  <2>3. b.generation \in Nat /\ b.generation <= p.generation /\ p.generation \in Nat
    BY <1>0, <2>2 DEF Matches, Sessions
  <2> QED
    BY <1>2, <2>2, <2>3
<1>6. Matches(q, PhotoCalls(d)')
  BY <1>2, <1>5 DEF Matches
<1> QED
  BY <1>1, <1>2, <1>4, <1>6, SessionBecomes

\* The turns of the other lanes.
LEMMA OtherTurnMatches ==
  ASSUME SessionInv, PhotoInv, NEW d \in Device, StreamRequest(d) \/ FlightRequest(d)
  PROVE  PhotoInv'
<1>0. UNCHANGED photo
  BY DEF StreamRequest, FlightRequest, photoVars
<1>1. \A command \in FlightCommands \cup StreamCommands : command \notin PhotoCommands
  BY DEF FlightCommands, StreamCommands, PhotoCommands
<1>2. CASE UNCHANGED calls
  BY <1>0, <1>2, SessionsStay DEF PhotoCalls
<1>3. ASSUME NEW v, BeginStart(d, v, calls)
      PROVE  PhotoInv'
  BY <1>0, <1>3, OtherStart, SessionsStay
<1>4. ASSUME NEW command \in FlightCommands \cup StreamCommands, NEW requestedIn,
             Issue(d, command, 0, requestedIn, calls)
      PROVE  PhotoInv'
  <2>1. \A e \in Device : PhotoCalls(e)' = PhotoCalls(e)
    BY <1>1, <1>4, OtherCommands
  <2> QED
    BY <1>0, <2>1, SessionsStay
<1>5. CASE StreamRequest(d)
  <2>1. \/ UNCHANGED calls \/ \E v : BeginStart(d, v, calls)
        \/ Issue(d, "live-stream.stop", 0, 0, calls)
    BY <1>5 DEF StreamRequest, StartStream, StopStream, MediaOutlivesSource, callVars
  <2> QED
    BY <1>2, <1>3, <1>4, <2>1 DEF StreamCommands
<1>6. CASE FlightRequest(d)
  <2>1. \/ UNCHANGED calls
        \/ /\ confirmation[d] # None
           /\ Issue(d, confirmation[d].action, 0, confirmation[d].requestedIn, calls)
    BY <1>6 DEF FlightRequest, RequestFlight, ExpireConfirmation, ConfirmFlight, RefuseFlight,
                CancelFlight, Holds, callVars
  <2>2. confirmation[d] # None => confirmation[d].action \in FlightCommands
    BY DEF SessionInv, FlightShape, Askings
  <2> QED
    BY <1>2, <1>4, <2>1, <2>2
<1> QED
  BY <1>5, <1>6

LEMMA TurnMatches ==
  ASSUME SessionInv, PhotoInv, Quiet, NEW d \in Device, Turn(d)
  PROVE  PhotoInv'
<1>1. CASE Connect(d) \/ \E facts \in SUBSET Links : Telemetry(d, facts)
  <2>1. UNCHANGED <<photo, calls>>
    BY <1>1 DEF Connect, Telemetry, photoVars
  <2> QED
    BY <2>1, SessionsStay DEF PhotoCalls
<1> QED
  BY <1>1, LoseMatches, OtherTurnMatches, PhotoRequestMatches DEF Turn

LEMMA PhotoInvHolds == LanesSpec => []PhotoInv
<1>1. LanesInit => PhotoInv
  <2> SUFFICES ASSUME LanesInit PROVE PhotoInv
    OBVIOUS
  <2>1. photo \in [Device -> Sessions] /\ \A d \in Device : ~photo[d].busy /\ ~photo[d].waiting
    BY DEF LanesInit, PhotoInit, Sessions, PhotoPhases
  <2>2. \A d : PhotoCalls(d) = {}
    BY DEF LanesInit, CallsInit, PhotoCalls
  <2> QED
    BY <2>1, <2>2 DEF PhotoInv, Matches
<1>2. SessionInv /\ PhotoInv /\ [LanesNext]_laneVars => PhotoInv'
  <2> SUFFICES ASSUME SessionInv, PhotoInv, [LanesNext]_laneVars PROVE PhotoInv'
    OBVIOUS
  <2>1. CASE LanesNext
    BY <2>1, TurnMatches, AnswerMatches DEF LanesNext
  <2>2. CASE UNCHANGED laneVars
    <3>1. UNCHANGED <<photo, calls>>
      BY <2>2 DEF laneVars, callVars, photoVars
    <3> QED
      BY <3>1, SessionsStay DEF PhotoCalls
  <2> QED
    BY <2>1, <2>2
<1> QED
  BY <1>1, <1>2, SessionInvHolds, PTL DEF LanesSpec

\* A photo lane is busy exactly while an answer to its last command or the timer
\* of its waiter is still to come: it is never locked for good.
THEOREM PhotoLanesAreOwed == LanesSpec => []PhotoBusyIsOwed
<1>1. PhotoInv => PhotoBusyIsOwed
  <2> SUFFICES ASSUME PhotoInv, NEW d \in Device
               PROVE  photo[d].busy <=>
                        \/ \E c \in CallsOf(d, PhotoCommands) : c.generation = photo[d].generation
                        \/ photo[d].waiting
    BY DEF PhotoBusyIsOwed
  <2>1. CallsOf(d, PhotoCommands) = PhotoCalls(d)
    BY DEF CallsOf, PhotoCalls
  <2>2. Matches(photo[d], PhotoCalls(d))
    BY DEF PhotoInv
  <2> QED
    BY <2>1, <2>2 DEF Matches
<1> QED
  BY <1>1, PhotoInvHolds, PTL

-----------------------------------------------------------------------------
\* A stream command was sent for a lane that exists, and a loss has recorded
\* itself in the lane whose calls it cut off.
LateInv ==
  \A c \in calls : c.command \in StreamCommands =>
    /\ video[c.device].exists
    /\ c.late => video[c.device].phase = "disconnected"

LEMMA PublishedExists ==
  ASSUME NEW v \in Lane, NEW facts
  PROVE  Published(v, facts).exists = v.exists
<1>1. SourceUnavailable(v) \in Lane /\ SourceUnavailable(v).exists = v.exists
  BY SourceUnavailableLane DEF SourceUnavailable, Lane
<1>2. ASSUME NEW w \in Lane, NEW u
      PROVE  [w EXCEPT !.unavailable = u].exists = w.exists
  BY DEF Lane
<1> QED
  BY <1>1, <1>2 DEF Published

LEMMA MadeExists ==
  ASSUME NEW v \in Lane, NEW phase \in VideoPhases, NEW code \in Codes
  PROVE  Result(v, phase, code).exists = TRUE /\ Sending(v, phase).exists = TRUE
BY DEF Result, Sending, Lane

LEMMA AfterAwaitExists ==
  ASSUME NEW v \in Lane, NEW c, NEW ok, v.exists
  PROVE  AfterAwait(v, c, ok).exists
<1>1. ASSUME NEW phase \in VideoPhases, NEW code \in Codes, NEW facts
      PROVE  Published(Result(v, phase, code), facts).exists
  <2>1. Result(v, phase, code) \in Lane /\ Result(v, phase, code).exists
    BY ResultLane, MadeExists
  <2> QED
    BY <2>1, PublishedExists
<1> QED
  BY <1>1 DEF AfterAwait, VideoPhases, Codes

\* Whatever becomes of a start, its lane exists.
LEMMA BeginStartExists ==
  ASSUME NEW d \in Device, NEW v \in Lane, NEW others, BeginStart(d, v, others)
  PROVE  \E w : video' = [video EXCEPT ![d] = w] /\ w.exists
<1>1. CASE Refused(d, v, others)
  <2> DEFINE w == [v EXCEPT !.exists = TRUE]
  <2>1. w.exists = TRUE
    BY DEF Lane
  <2>2. video' = [video EXCEPT ![d] = w]
    BY <1>1 DEF Refused
  <2> HIDE DEF w
  <2> QED
    BY <2>1, <2>2
<1>2. CASE MediaUnavailable(d, v, others)
  <2> DEFINE w == Published(Result(v, "failed", "FAILURE"), links[d])
  <2>1. Result(v, "failed", "FAILURE") \in Lane /\ Result(v, "failed", "FAILURE").exists
    BY ResultLane, MadeExists DEF VideoPhases, Codes
  <2>2. w.exists
    BY <2>1, PublishedExists
  <2>3. video' = [video EXCEPT ![d] = w]
    BY <1>2 DEF MediaUnavailable
  <2> HIDE DEF w
  <2> QED
    BY <2>2, <2>3
<1>3. CASE video' = [video EXCEPT ![d] = Published(Sending(v, "starting"), links[d])]
  <2> DEFINE w == Published(Sending(v, "starting"), links[d])
  <2>1. Sending(v, "starting") \in Lane /\ Sending(v, "starting").exists
    BY SendingLane, MadeExists DEF VideoPhases, Codes
  <2>2. w.exists
    BY <2>1, PublishedExists
  <2>3. video' = [video EXCEPT ![d] = w]
    BY <1>3
  <2> HIDE DEF w
  <2> QED
    BY <2>2, <2>3
<1> QED
  BY <1>1, <1>2, <1>3 DEF BeginStart

LEMMA IssueAdds ==
  ASSUME NEW d, NEW command, NEW generation, NEW requestedIn, NEW others \in SUBSET calls,
         Issue(d, command, generation, requestedIn, others)
  PROVE  \A c \in calls' \ calls : c.device = d /\ c.command = command /\ c.late = FALSE
<1> DEFINE new ==
      [id |-> issued + 1, device |-> d, command |-> command, sentIn |-> session[d],
       generation |-> generation, requestedIn |-> requestedIn, late |-> FALSE]
<1>1. calls' = others \cup {new}
  BY DEF Issue
<1>2. new.device = d /\ new.command = command /\ new.late = FALSE
  OBVIOUS
<1> HIDE DEF new
<1> QED
  BY <1>1, <1>2

\* A step that adds no late call, while none is awaited, and undoes no lane.
LEMMA QuietStep ==
  ASSUME SessionInv, LateInv, Quiet,
         \A e \in Device : video[e].exists => video'[e].exists,
         \A c \in calls' \ calls :
           c.late = FALSE /\ (c.command \in StreamCommands => video'[c.device].exists)
  PROVE  LateInv'
<1>1. \A c \in calls : c.device \in Device
  BY DEF SessionInv, CallsInv, NotLateIsThere
<1> QED
  BY <1>1 DEF LateInv, Quiet

LEMMA LaneStep ==
  ASSUME SessionInv, VideoInv, LateInv, Quiet, NEW d \in Device, NEW w,
         video' = [video EXCEPT ![d] = w], video[d].exists => w.exists,
         \A c \in calls' \ calls : c.late = FALSE /\ c.device = d /\ w.exists
  PROVE  LateInv'
<1>1. \A e \in Device : video'[e] = IF e = d THEN w ELSE video[e]
  BY DEF VideoInv
<1> QED
  BY <1>1, QuietStep

LEMMA BeginStartKeepsLate ==
  ASSUME SessionInv, VideoInv, LateInv, Quiet, NEW d \in Device, NEW v \in Lane,
         NEW others \in SUBSET calls, BeginStart(d, v, others)
  PROVE  LateInv'
<1>1. PICK w : video' = [video EXCEPT ![d] = w] /\ w.exists
  BY BeginStartExists
<1>2. calls' = others \/ Issue(d, "live-stream.start", 0, 0, others)
  BY DEF BeginStart, Refused, MediaUnavailable
<1>3. \A c \in calls' \ calls : c.late = FALSE /\ c.device = d
  BY <1>2, IssueAdds
<1> QED
  BY <1>1, <1>3, LaneStep

LEMMA StreamRequestKeepsLate ==
  ASSUME SessionInv, VideoInv, LateInv, Quiet, NEW d \in Device, StreamRequest(d)
  PROVE  LateInv'
<1> DEFINE v == video[d]
<1>0. v \in Lane
  BY DEF VideoInv
<1>1. CASE StartStream(d) /\ v.busy /\ v.phase = "stopping"
  <2> DEFINE w == [v EXCEPT !.restarts = @ + 1]
  <2>1. video' = [video EXCEPT ![d] = w] /\ UNCHANGED calls
    BY <1>1 DEF StartStream, VideoInv
  <2>2. w.exists = v.exists
    BY <1>0 DEF Lane
  <2> HIDE DEF w
  <2> QED
    BY <2>1, <2>2, LaneStep
<1>2. CASE StartStream(d) /\ ~(v.busy /\ v.phase = "stopping")
  <2>1. BeginStart(d, v, calls)
    BY <1>2, Zenon DEF StartStream
  <2> QED
    BY <1>0, <2>1, BeginStartKeepsLate
<1>3. CASE StopStream(d)
  <2> DEFINE w == Published(Sending(v, "stopping"), links[d])
  <2>1. /\ video' = [video EXCEPT ![d] = w]
        /\ Issue(d, "live-stream.stop", 0, 0, calls)
    BY <1>3 DEF StopStream
  <2>2. Sending(v, "stopping") \in Lane /\ Sending(v, "stopping").exists
    BY <1>0, SendingLane, MadeExists DEF VideoPhases, Codes
  <2>3. w.exists
    BY <2>2, PublishedExists
  <2> HIDE DEF w
  <2> QED
    BY <2>1, <2>3, IssueAdds, LaneStep
<1>4. CASE MediaOutlivesSource(d)
  <2> DEFINE w == [v EXCEPT !.unavailable = TRUE]
  <2>1. video' = [video EXCEPT ![d] = w] /\ UNCHANGED calls
    BY <1>4 DEF MediaOutlivesSource, callVars
  <2>2. w.exists = v.exists
    BY <1>0 DEF Lane
  <2> HIDE DEF w
  <2> QED
    BY <2>1, <2>2, LaneStep
<1> QED
  BY <1>1, <1>2, <1>3, <1>4 DEF StreamRequest

LEMMA LoseKeepsLate ==
  ASSUME SessionInv, VideoInv, LateInv, Quiet, NEW d \in Device, Lose(d)
  PROVE  LateInv'
<1> DEFINE v == video[d]
           w == VideoDisconnected(v)
           lateOf(c) == IF c.device = d THEN [c EXCEPT !.late = TRUE] ELSE c
<1>1. video' = [video EXCEPT ![d] = w] /\ calls' = {lateOf(c) : c \in calls}
  BY DEF Lose, Cancelled
<1>2. v \in Lane /\ (v.exists => w.exists /\ w.phase = "disconnected")
  BY DEF VideoInv, Lane, VideoDisconnected
<1> HIDE DEF w
<1>3. ASSUME NEW c \in calls
      PROVE  /\ lateOf(c).device = c.device /\ lateOf(c).command = c.command
             /\ c.device # d => lateOf(c) = c
  <2>1. c = [id |-> c.id, device |-> c.device, command |-> c.command, sentIn |-> c.sentIn,
             generation |-> c.generation, requestedIn |-> c.requestedIn, late |-> c.late]
    BY DEF SessionInv, CallsInv, GoodCalls, Shaped
  <2> QED
    BY <2>1
<1> HIDE DEF lateOf
<1>4. ASSUME NEW b \in calls, b.command \in StreamCommands
      PROVE  /\ video'[b.device].exists
             /\ lateOf(b).late => video'[b.device].phase = "disconnected"
  <2>1. b.device \in Device /\ video[b.device].exists
    BY <1>4 DEF SessionInv, CallsInv, NotLateIsThere, LateInv
  <2>2. CASE b.device = d
    <3>1. video'[b.device] = w
      BY <1>1, <2>2 DEF VideoInv
    <3> QED
      BY <1>2, <2>1, <2>2, <3>1
  <2>3. CASE b.device # d
    <3>1. video'[b.device] = video[b.device] /\ ~lateOf(b).late
      BY <1>1, <1>3, <2>1, <2>3 DEF VideoInv, Quiet
    <3> QED
      BY <2>1, <3>1
  <2> QED
    BY <2>2, <2>3
<1> QED
  BY <1>1, <1>3, <1>4 DEF LateInv

LEMMA TurnKeepsLate ==
  ASSUME SessionInv, VideoInv, LateInv, Quiet, NEW d \in Device, Turn(d)
  PROVE  LateInv'
<1>1. CASE Connect(d) \/ \E facts \in SUBSET Links : Telemetry(d, facts)
  <2>1. PICK facts : video' = [video EXCEPT ![d] = Published(@, facts)] /\ calls' = calls
    BY <1>1 DEF Connect, Telemetry
  <2>2. /\ video[d] \in Lane
        /\ video' = [video EXCEPT ![d] = Published(video[d], facts)]
    BY <2>1 DEF VideoInv
  <2>3. Published(video[d], facts).exists = video[d].exists
    BY <2>2, PublishedExists
  <2> QED
    BY <2>1, <2>2, <2>3, LaneStep
<1>2. CASE PhotoRequest(d) \/ FlightRequest(d)
  <2>1. UNCHANGED video
    BY <1>2 DEF PhotoRequest, FlightRequest
  <2>2. \/ UNCHANGED calls
        \/ \E command \in PhotoCommands \cup FlightCommands : \E generation, requestedIn :
             Issue(d, command, generation, requestedIn, calls)
    <3>1. CASE PhotoRequest(d)
      BY <3>1 DEF PhotoRequest, Capture, Fetch, StoredTimeout, PhotoArrives, callVars, PhotoCommands
    <3>2. CASE FlightRequest(d)
      <4>1. \/ UNCHANGED calls
            \/ /\ confirmation[d] # None
               /\ Issue(d, confirmation[d].action, 0, confirmation[d].requestedIn, calls)
        BY <3>2 DEF FlightRequest, RequestFlight, ExpireConfirmation, ConfirmFlight, RefuseFlight,
                    CancelFlight, Holds, callVars
      <4>2. confirmation[d] # None => confirmation[d].action \in FlightCommands
        BY DEF SessionInv, FlightShape, Askings
      <4> QED
        BY <4>1, <4>2
    <3> QED
      BY <1>2, <3>1, <3>2
  <2>3. \A c \in calls' \ calls : c.late = FALSE /\ c.command \notin StreamCommands
    BY <2>2, IssueAdds DEF PhotoCommands, FlightCommands, StreamCommands
  <2> QED
    BY <2>1, <2>3, QuietStep
<1> QED
  BY <1>1, <1>2, StreamRequestKeepsLate, LoseKeepsLate DEF Turn

\* The answer to a call that a loss cut off: what its step changes is no phase, no
\* landing intent, no inbox and no lane that exists.
Ignored ==
  /\ UNCHANGED inbox
  /\ \A d \in Device :
       /\ video'[d].phase = video[d].phase /\ video'[d].exists = video[d].exists
       /\ photo'[d].phase = photo[d].phase
       /\ landingIntent'[d] = landingIntent[d]

LEMMA LateAnswer ==
  ASSUME SessionInv, VideoInv, PhotoInv, LateInv, NEW c \in calls, c.late, Answer(c)
  PROVE  Ignored /\ calls' = calls \ {c}
<1> DEFINE d == c.device
<1>0. d \in Device /\ video[d] \in Lane /\ photo[d] \in Sessions
  BY DEF SessionInv, CallsInv, NotLateIsThere, VideoInv, PhotoInv
<1>1. CASE AnswerStream(c) /\ UNCHANGED <<photoVars, flightVars>>
  <2>1. ContinueStream(c, FALSE)
    BY <1>1 DEF AnswerStream
  <2>2. video[d].phase = "disconnected"
    BY <1>1 DEF AnswerStream, LateInv
  <2>3. AfterAwait(video[d], c, FALSE) = video[d]
    BY <2>2 DEF AfterAwait, Overtaken
  <2>4. /\ calls' = calls \ {c}
        /\ \/ video' = [video EXCEPT ![d] = video[d]]
           \/ video' = [video EXCEPT ![d] = [video[d] EXCEPT !.restarts = 0]]
    BY <2>1, <2>3, Zenon DEF ContinueStream, Ends
  <2>5. /\ [video[d] EXCEPT !.restarts = 0].phase = video[d].phase
        /\ [video[d] EXCEPT !.restarts = 0].exists = video[d].exists
    BY <1>0 DEF Lane
  <2>6. \A e \in Device : video'[e].phase = video[e].phase /\ video'[e].exists = video[e].exists
    BY <1>0, <2>4, <2>5 DEF VideoInv
  <2> QED
    BY <1>1, <2>4, <2>6 DEF Ignored, photoVars, flightVars
<1>2. CASE AnswerPhoto(c) /\ UNCHANGED <<video, flightVars>>
  <2>1. c \in PhotoCalls(d)
    BY <1>2 DEF AnswerPhoto, PhotoCalls
  <2>2. c.generation # photo[d].generation
    BY <1>0, <2>1 DEF PhotoInv, Matches
  <2>3. photo' = [photo EXCEPT ![d] = Release(photo[d])] /\ calls' = calls \ {c} /\ UNCHANGED inbox
    BY <1>2, <2>2 DEF AnswerPhoto, AfterPhotoAwait, Ends
  <2>4. Release(photo[d]).phase = photo[d].phase
    BY <1>0, ReleaseSession
  <2>5. \A e \in Device : photo'[e].phase = photo[e].phase
    BY <2>3, <2>4 DEF PhotoInv
  <2> QED
    BY <1>2, <2>3, <2>5 DEF Ignored, flightVars
<1>3. CASE AnswerFlight(c) /\ UNCHANGED <<video, photoVars>>
  BY <1>3 DEF AnswerFlight, Ends, Ignored, photoVars
<1> QED
  BY <1>1, <1>2, <1>3 DEF Answer

LEMMA AnswerKeepsLate ==
  ASSUME SessionInv, VideoInv, PhotoInv, LateInv, NEW c \in calls, Quiet \/ c.late, Answer(c)
  PROVE  LateInv'
<1> DEFINE d == c.device
           v == video[d]
<1>0. \A b \in calls : b.device \in Device
  BY DEF SessionInv, CallsInv, NotLateIsThere
<1>1. v \in Lane
  BY <1>0 DEF VideoInv
<1>2. CASE c.late
  <2>1. Ignored /\ calls' = calls \ {c}
    BY <1>2, LateAnswer
  <2> QED
    BY <1>0, <2>1 DEF Ignored, LateInv
<1>3. CASE Quiet /\ UNCHANGED video /\ calls' = calls \ {c}
  BY <1>3, QuietStep
<1>4. CASE Quiet /\ AnswerStream(c)
  <2>1. PICK ok \in BOOLEAN : ContinueStream(c, ok)
    BY <1>4 DEF AnswerStream
  <2> DEFINE after == AfterAwait(v, c, ok)
             told == ok /\ ~Overtaken(v)
             settled == [after EXCEPT !.restarts = 0]
  <2>2. after \in Lane /\ after.exists
    BY <1>1, <1>4, AfterAwaitLane, AfterAwaitExists DEF LateInv, AnswerStream
  <2>3. settled \in Lane /\ settled.exists
    <3> HIDE DEF after
    <3> QED
      BY <2>2 DEF Lane
  <2>4. CASE c.command # "live-stream.start" /\ told /\ after.restarts > 0
    <3>1. BeginStart(d, settled, calls \ {c})
      BY <2>1, <2>4, Zenon DEF ContinueStream
    <3> HIDE DEF settled
    <3> QED
      BY <1>0, <1>4, <2>3, <3>1, BeginStartKeepsLate
  <2>5. CASE ~(c.command # "live-stream.start" /\ told /\ after.restarts > 0)
    <3>1. /\ calls' = calls \ {c}
          /\ video' = [video EXCEPT ![d] = after] \/ video' = [video EXCEPT ![d] = settled]
      BY <2>1, <2>5, Zenon DEF ContinueStream, Ends
    <3> HIDE DEF settled, after
    <3> QED
      BY <1>0, <1>4, <2>2, <2>3, <3>1, LaneStep
  <2> QED
    BY <2>4, <2>5
<1> QED
  BY <1>2, <1>3, <1>4 DEF Answer, AnswerPhoto, AnswerFlight, Ends

\* A call that a loss cut off continues before anything else happens, and what it
\* finds changed changes nothing the loss recorded.
THEOREM LateAnswersAreIgnored == LanesSpec => LateResultsAreIgnored
<1> DEFINE Inv == SessionInv /\ VideoInv /\ PhotoInv /\ LateInv
<1>1. LanesInit => LateInv
  BY DEF LanesInit, CallsInit, LateInv
<1>2. Inv /\ [LanesNext]_laneVars => LateInv'
  <2> SUFFICES ASSUME Inv, [LanesNext]_laneVars PROVE LateInv'
    OBVIOUS
  <2>1. CASE LanesNext
    BY <2>1, TurnKeepsLate, AnswerKeepsLate DEF LanesNext
  <2>2. CASE UNCHANGED laneVars
    BY <2>2 DEF laneVars, callVars, LateInv
  <2> QED
    BY <2>1, <2>2
<1>3. Inv /\ [LanesNext]_laneVars =>
        [~Quiet => UNCHANGED inbox /\ \A d \in Device :
             /\ video'[d].phase = video[d].phase
             /\ photo'[d].phase = photo[d].phase
             /\ landingIntent'[d] = landingIntent[d]]_laneVars
  <2> SUFFICES ASSUME Inv, LanesNext, ~Quiet PROVE Ignored
    BY DEF Ignored
  <2>1. PICK c \in calls : c.late /\ Answer(c)
    BY DEF LanesNext
  <2> QED
    BY <2>1, LateAnswer
<1>4. LanesSpec => []VideoInv
  BY VideoInvHolds
<1> QED
  BY <1>1, <1>2, <1>3, <1>4, SessionInvHolds, PhotoInvHolds, PTL
     DEF LanesSpec, LateResultsAreIgnored

-----------------------------------------------------------------------------
\* What a session p says is stored, box holds or has a duplicate of.
Has(box, file) ==
  \E stored \in box : stored.fileName = file.fileName \/ stored.sha256 = file.sha256

\* A fetch whose delivery is known waits for the photo, so that whatever stores
\* it also frees the lane: a lane that says "stored" owes no answer that could
\* name another photo.
Keeps(p, box) ==
  /\ \A file \in p.received : Has(box, file)
  /\ p.phase = "fetching" /\ p.delivered # None => p.waiting
  /\ p.phase = "stored" => ~p.busy /\ Has(box, p.delivered)

StoreInv ==
  /\ inbox \in [Device -> SUBSET Photo]
  /\ \A d \in Device : Keeps(photo[d], inbox[d])

LEMMA BoxGrows ==
  ASSUME NEW p, NEW box, NEW more, box \subseteq more, Keeps(p, box)
  PROVE  Keeps(p, more)
BY DEF Keeps, Has

LEMMA ReleaseKeeps ==
  ASSUME NEW p \in Sessions, NEW box, Keeps(p, box), p.phase = "fetching" => ~p.waiting
  PROVE  Keeps(Release(p), box)
BY DEF Release, Keeps, Sessions

\* A session that ends, in whatever phase but "fetching".
LEMMA EndedKeeps ==
  ASSUME NEW p \in Sessions, NEW box, \A file \in p.received : Has(box, file),
         NEW phase \in PhotoPhases \ {"fetching"},
         phase = "stored" => Has(box, p.delivered)
  PROVE  Keeps(Release([p EXCEPT !.phase = phase]), box)
<1> DEFINE q == [p EXCEPT !.phase = phase]
<1>1. /\ q \in Sessions /\ q.phase = phase /\ q.received = p.received
      /\ q.delivered = p.delivered
  BY DEF Sessions
<1> HIDE DEF q
<1>2. /\ Release(q).phase = phase /\ Release(q).received = p.received
      /\ Release(q).delivered = p.delivered /\ Release(q).busy = FALSE
  BY <1>1 DEF Release, Sessions
<1>3. ASSUME NEW r, r.phase = phase, r.received = p.received, r.delivered = p.delivered,
             r.busy = FALSE
      PROVE  Keeps(r, box)
  <2>1. \A file \in r.received : Has(box, file)
    BY <1>3
  <2>2. r.phase # "fetching"
    BY <1>3
  <2>3. r.phase = "stored" => Has(box, r.delivered)
    BY <1>3
  <2> QED
    BY <1>3, <2>1, <2>2, <2>3 DEF Keeps
<1>4. Keeps(Release(q), box)
  BY <1>2, <1>3
<1> QED
  BY <1>4 DEF q

LEMMA DeliveredKeeps ==
  ASSUME NEW p \in Sessions, NEW box, Keeps(p, box), p.busy, NEW file \in Photo
  PROVE  Keeps(Delivered(p, file), box)
<1> DEFINE q == [p EXCEPT !.delivered = file]
<1>1. /\ q \in Sessions /\ q.delivered = file /\ q.received = p.received
      /\ q.phase = p.phase /\ q.busy = p.busy
  BY DEF Sessions
<1>2. Delivered(p, file) = IF HasMatchingDelivery(q) THEN Release(Finish(q, TRUE))
                           ELSE [q EXCEPT !.waiting = TRUE]
  BY DEF Delivered
<1> HIDE DEF q
<1>3. CASE HasMatchingDelivery(q)
  <2>1. Has(box, q.delivered)
    BY <1>1, <1>3 DEF HasMatchingDelivery, Keeps
  <2>2. Finish(q, TRUE) = [q EXCEPT !.phase = "stored"]
    BY DEF Finish
  <2>3. \A f \in q.received : Has(box, f)
    BY <1>1 DEF Keeps
  <2>4. Keeps(Release([q EXCEPT !.phase = "stored"]), box)
    BY <1>1, <2>1, <2>3, EndedKeeps DEF PhotoPhases
  <2> QED
    BY <1>2, <1>3, <2>2, <2>4
<1>4. CASE ~HasMatchingDelivery(q)
  <2> DEFINE w == [q EXCEPT !.waiting = TRUE]
  <2>1. w.waiting = TRUE /\ w.phase = q.phase /\ w.received = q.received
    BY <1>1 DEF Sessions
  <2>2. Delivered(p, file) = w
    BY <1>2, <1>4
  <2> HIDE DEF w
  <2> QED
    BY <1>1, <2>1, <2>2 DEF Keeps
<1> QED
  BY <1>3, <1>4

LEMMA AnswersKeep ==
  ASSUME NEW p \in Sessions, NEW box, Keeps(p, box), p.busy, NEW c, NEW q \in Answers(p, c)
  PROVE  Keeps(q, box)
<1>1. CASE q = Release(Finish(p, FALSE))
  <2>1. Finish(p, FALSE) = [p EXCEPT !.phase = "failed"]
    BY DEF Finish
  <2> QED
    BY <1>1, <2>1, EndedKeeps DEF Keeps, PhotoPhases
<1>2. CASE q = Captured(p)
  <2> DEFINE w == [p EXCEPT !.phase = "captured", !.delivered = None, !.received = {}]
  <2>1. w \in Sessions /\ w.phase = "captured" /\ w.received = {}
    BY DEF Sessions, PhotoPhases
  <2>2. q = Release(w)
    BY <1>2 DEF Captured
  <2> HIDE DEF w
  <2>3. q.phase = "captured" /\ q.received = {}
    BY <2>1, <2>2 DEF Release, Sessions
  <2> QED
    BY <2>3 DEF Keeps
<1>3. CASE \E file \in Photo : q = Delivered(p, file)
  BY <1>3, DeliveredKeeps
<1> QED
  BY <1>1, <1>2, <1>3 DEF Answers

\* A photo that arrives frees the lane if it settles the fetch: the fetch that
\* knows its delivery is one that waits.
LEMMA RecordStoredKeeps ==
  ASSUME NEW p \in Sessions, NEW box, Keeps(p, box), NEW file \in Photo, Has(box, file)
  PROVE  Keeps(RecordStored(p, file), box)
<1> DEFINE r == [p EXCEPT !.received = {f \in @ : f.fileName # file.fileName} \cup {file}]
<1>1. /\ r \in Sessions /\ r.busy = p.busy /\ r.waiting = p.waiting /\ r.phase = p.phase
      /\ r.delivered = p.delivered
      /\ r.received = {f \in p.received : f.fileName # file.fileName} \cup {file}
  BY DEF Sessions
<1>2. \A f \in r.received : Has(box, f)
  BY <1>1 DEF Keeps
<1>3. RecordStored(p, file) =
        IF ~Expected(p, file) THEN p
        ELSE IF ~HasMatchingDelivery(r) THEN r
        ELSE IF r.waiting THEN Release(Finish(r, TRUE)) ELSE Finish(r, TRUE)
  BY DEF RecordStored, Received
<1> HIDE DEF r
<1>4. Keeps(r, box)
  BY <1>1, <1>2 DEF Keeps
<1>5. CASE Expected(p, file) /\ HasMatchingDelivery(r)
  <2>1. r.waiting /\ Has(box, r.delivered)
    BY <1>1, <1>2, <1>5 DEF Expected, HasMatchingDelivery, Keeps
  <2>2. Finish(r, TRUE) = [r EXCEPT !.phase = "stored"]
    BY DEF Finish
  <2>3. Keeps(Release([r EXCEPT !.phase = "stored"]), box)
    BY <1>1, <1>2, <2>1, EndedKeeps DEF PhotoPhases
  <2> QED
    BY <1>3, <1>5, <2>1, <2>2, <2>3
<1> QED
  BY <1>3, <1>4, <1>5

-----------------------------------------------------------------------------
\* A step of one session, whose box only grows.
LEMMA StoreStep ==
  ASSUME PhotoInv, StoreInv, NEW d \in Device, NEW q, NEW more \in SUBSET Photo,
         photo' = [photo EXCEPT ![d] = q], inbox' = [inbox EXCEPT ![d] = more],
         Keeps(q, more)
  PROVE  StoreInv'
<1>1. inbox' \in [Device -> SUBSET Photo]
  BY DEF StoreInv
<1>2. \A e \in Device :
        /\ photo'[e] = IF e = d THEN q ELSE photo[e]
        /\ inbox'[e] = IF e = d THEN more ELSE inbox[e]
  BY DEF PhotoInv, StoreInv
<1>3. \A e \in Device : Keeps(photo'[e], inbox'[e])
  BY <1>2 DEF StoreInv
<1>4. \A e \in Device : Keeps(photo[e], inbox[e])'
  BY <1>3 DEF Keeps, Has
<1> QED
  BY <1>1, <1>4 DEF StoreInv

\* A step that leaves the inbox alone.
LEMMA SameBox ==
  ASSUME PhotoInv, StoreInv, NEW d \in Device, NEW q,
         photo' = [photo EXCEPT ![d] = q], UNCHANGED inbox, Keeps(q, inbox[d])
  PROVE  StoreInv'
<1>1. inbox[d] \in SUBSET Photo /\ inbox' = [inbox EXCEPT ![d] = inbox[d]]
  BY DEF StoreInv
<1> QED
  BY <1>1, StoreStep

LEMMA PhotoRequestStores ==
  ASSUME PhotoInv, StoreInv, NEW d \in Device, PhotoRequest(d)
  PROVE  StoreInv'
<1> DEFINE p == photo[d]
<1>0. p \in Sessions /\ Keeps(p, inbox[d]) /\ inbox[d] \in SUBSET Photo
  BY DEF PhotoInv, StoreInv
<1>1. CASE Capture(d)
  <2> DEFINE q == Begun(p, "capturing")
  <2>1. photo' = [photo EXCEPT ![d] = q] /\ UNCHANGED inbox
    BY <1>1 DEF Capture
  <2>2. q.phase = "capturing" /\ q.received = p.received
    BY <1>0 DEF Begun, Sessions
  <2> HIDE DEF q
  <2>3. Keeps(q, inbox[d])
    BY <1>0, <2>2 DEF Keeps
  <2> QED
    BY <2>1, <2>3, SameBox
<1>2. CASE Fetch(d)
  <2> DEFINE b == Begun(p, "fetching")
             q == [b EXCEPT !.delivered = None, !.received = {}]
  <2>1. photo' = [photo EXCEPT ![d] = q] /\ UNCHANGED inbox
    BY <1>2 DEF Fetch
  <2>2. b \in Sessions /\ b.phase = "fetching"
    BY <1>0, BegunSession DEF PhotoPhases
  <2> HIDE DEF b
  <2>3. q.phase = "fetching" /\ q.received = {} /\ q.delivered = None
    BY <2>2 DEF Sessions
  <2> HIDE DEF q
  <2>4. Keeps(q, inbox[d])
    BY <2>3 DEF Keeps
  <2> QED
    BY <2>1, <2>4, SameBox
<1>3. CASE StoredTimeout(d)
  <2>1. photo' = [photo EXCEPT ![d] = Release(Finish(p, FALSE))] /\ UNCHANGED inbox
    BY <1>3 DEF StoredTimeout
  <2>2. Finish(p, FALSE) = [p EXCEPT !.phase = "failed"]
    BY DEF Finish
  <2>3. Keeps(Release(Finish(p, FALSE)), inbox[d])
    <3>1. \A f \in p.received : Has(inbox[d], f)
      BY <1>0 DEF Keeps
    <3>2. "failed" \in PhotoPhases \ {"fetching"} /\ "failed" # "stored"
      BY DEF PhotoPhases
    <3>3. Keeps(Release([p EXCEPT !.phase = "failed"]), inbox[d])
      <4> HIDE DEF p
      <4> QED
        BY <1>0, <3>1, <3>2, EndedKeeps
    <3> QED
      BY <2>2, <3>3
  <2> QED
    BY <2>1, <2>3, SameBox
<1>4. ASSUME NEW file \in Photo, PhotoArrives(d, file)
      PROVE  StoreInv'
  <2> DEFINE more == IF Duplicate(d, file) THEN inbox[d] ELSE inbox[d] \cup {file}
  <2>1. photo' = [photo EXCEPT ![d] = RecordStored(p, file)] /\ inbox' = [inbox EXCEPT ![d] = more]
    BY <1>4 DEF PhotoArrives
  <2>2. more \in SUBSET Photo /\ inbox[d] \subseteq more /\ Has(more, file)
    BY <1>0 DEF Duplicate, Has
  <2> HIDE DEF more
  <2>3. Keeps(p, more)
    BY <1>0, <2>2, BoxGrows
  <2>4. Keeps(RecordStored(p, file), more)
    BY <1>0, <2>2, <2>3, RecordStoredKeeps
  <2> QED
    BY <2>1, <2>2, <2>4, StoreStep
<1> QED
  BY <1>1, <1>2, <1>3, <1>4 DEF PhotoRequest

LEMMA AnswerStores ==
  ASSUME SessionInv, PhotoInv, StoreInv, NEW c \in calls, AnswerPhoto(c)
  PROVE  StoreInv'
<1> DEFINE d == c.device
           p == photo[d]
<1>0. d \in Device /\ p \in Sessions /\ Matches(p, PhotoCalls(d)) /\ Keeps(p, inbox[d])
  BY DEF SessionInv, CallsInv, NotLateIsThere, PhotoInv, StoreInv
<1>1. PICK q \in AfterPhotoAwait(p, c) : photo' = [photo EXCEPT ![d] = q]
  BY DEF AnswerPhoto
<1>2. c \in PhotoCalls(d) /\ UNCHANGED inbox
  BY DEF AnswerPhoto, PhotoCalls
<1>3. CASE c.generation # p.generation
  <2>1. q = Release(p)
    BY <1>1, <1>3 DEF AfterPhotoAwait
  <2>2. ~p.waiting
    BY <1>0, <1>2, <1>3 DEF Matches
  <2>3. Keeps(q, inbox[d])
    BY <1>0, <2>1, <2>2, ReleaseKeeps
  <2> QED
    BY <1>0, <1>1, <1>2, <2>3, SameBox
<1>4. CASE c.generation = p.generation
  <2>1. p.busy
    BY <1>0, <1>2, <1>4 DEF Matches
  <2>2. Keeps(q, inbox[d])
    BY <1>0, <1>1, <1>4, <2>1, AnswersKeep DEF AfterPhotoAwait
  <2> QED
    BY <1>0, <1>1, <1>2, <2>2, SameBox
<1> QED
  BY <1>3, <1>4

LEMMA LoseStores ==
  ASSUME PhotoInv, StoreInv, NEW d \in Device, Lose(d)
  PROVE  StoreInv'
<1> DEFINE p == photo[d]
           w == [p EXCEPT !.generation = @ + 1, !.phase = "disconnected"]
<1>0. p \in Sessions /\ Keeps(p, inbox[d]) /\ p.generation + 1 \in Nat
  BY DEF PhotoInv, StoreInv, Sessions
<1>1. photo' = [photo EXCEPT ![d] = Release(w)] /\ UNCHANGED inbox
  BY DEF Lose, PhotoDisconnected
<1>2. w \in Sessions /\ w.phase = "disconnected" /\ w.received = p.received
  BY <1>0 DEF Sessions, PhotoPhases
<1> HIDE DEF w
<1>3. Release(w).phase = "disconnected" /\ Release(w).received = p.received
  BY <1>2 DEF Release, Sessions
<1>4. Keeps(Release(w), inbox[d])
  BY <1>0, <1>3 DEF Keeps
<1> QED
  BY <1>1, <1>4, SameBox

\* A fetch that succeeded left the photo in the inbox, or another of its name or of
\* its digest that was there before: nothing a later command, a loss or an answer
\* that comes after them does can put another photo in the place of the stored one.
THEOREM FetchesAreKept == LanesSpec => []StoredIsKept
<1>1. LanesInit => StoreInv
  <2> SUFFICES ASSUME LanesInit PROVE StoreInv
    OBVIOUS
  <2>1. \A d \in Device : photo[d].phase = "idle" /\ photo[d].received = {}
    BY DEF LanesInit, PhotoInit
  <2>2. inbox \in [Device -> SUBSET Photo]
    BY DEF LanesInit, PhotoInit
  <2> QED
    BY <2>1, <2>2 DEF StoreInv, Keeps
<1>2. SessionInv /\ PhotoInv /\ StoreInv /\ [LanesNext]_laneVars => StoreInv'
  <2> SUFFICES ASSUME SessionInv, PhotoInv, StoreInv, [LanesNext]_laneVars PROVE StoreInv'
    OBVIOUS
  <2>1. CASE UNCHANGED photoVars
    BY <2>1 DEF photoVars, StoreInv, Keeps, Has
  <2>2. ASSUME NEW d \in Device, Turn(d)
        PROVE  StoreInv'
    <3>1. CASE Lose(d)
      BY <3>1, LoseStores
    <3>2. CASE PhotoRequest(d)
      BY <3>2, PhotoRequestStores
    <3>3. CASE \/ Connect(d) \/ StreamRequest(d) \/ FlightRequest(d)
               \/ \E facts \in SUBSET Links : Telemetry(d, facts)
      BY <2>1, <3>3 DEF Connect, StreamRequest, FlightRequest, Telemetry
    <3> QED
      BY <2>2, <3>1, <3>2, <3>3 DEF Turn
  <2>3. ASSUME NEW c \in calls, Answer(c)
        PROVE  StoreInv'
    BY <2>1, <2>3, AnswerStores DEF Answer
  <2>4. CASE UNCHANGED laneVars
    BY <2>1, <2>4 DEF laneVars
  <2> QED
    BY <2>2, <2>3, <2>4 DEF LanesNext
<1>3. StoreInv => StoredIsKept
  BY DEF StoreInv, StoredIsKept, Keeps, Has, Duplicate
<1> QED
  BY <1>1, <1>2, <1>3, SessionInvHolds, PhotoInvHolds, PTL DEF LanesSpec
=============================================================================
