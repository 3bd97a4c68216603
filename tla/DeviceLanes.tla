----------------------------- MODULE DeviceLanes -----------------------------
(***************************************************************************)
(* The operation workflow (src/production/operation-workflow) over the     *)
(* lanes of a phone: what a loss does to its stream, its photos and its    *)
(* flight confirmation in one turn, and how the calls it cut off continue. *)
(*                                                                         *)
(* The relay closes a phone's old connection before it registers the new   *)
(* one, and the workflow hears of both, so a new session is always a loss  *)
(* followed by a connection.                                               *)
(***************************************************************************)
EXTENDS VideoLane, PhotoLane, FlightLane, TLC

laneVars == <<callVars, video, photoVars, flightVars>>

LanesInit == CallsInit /\ VideoInit /\ PhotoInit /\ FlightInit

\* A connection is paired; it has no telemetry yet.
Connect(d) ==
  /\ ~online[d]
  /\ session[d] < MaxSessions
  /\ online' = [online EXCEPT ![d] = TRUE]
  /\ session' = [session EXCEPT ![d] = @ + 1]
  /\ video' = [video EXCEPT ![d] = Published(@, {})]
  /\ UNCHANGED <<links, calls, issued, photoVars, flightVars>>

Telemetry(d, facts) ==
  /\ online[d]
  /\ links' = [links EXCEPT ![d] = facts]
  /\ video' = [video EXCEPT ![d] = Published(@, facts)]
  /\ UNCHANGED <<online, session, calls, issued, photoVars, flightVars>>

\* connection-closed, and onDisconnects() in the same turn.
Lose(d) ==
  /\ online[d]
  /\ online' = [online EXCEPT ![d] = FALSE]
  /\ links' = [links EXCEPT ![d] = {}]
  /\ calls' = Cancelled(d)
  /\ ClearFlightConfirm(d)
  /\ landingIntent' = [landingIntent EXCEPT ![d] = None]
  /\ video' = [video EXCEPT ![d] = VideoDisconnected(@)]
  /\ photo' = [photo EXCEPT ![d] = PhotoDisconnected(@)]
  /\ UNCHANGED <<session, issued, inbox, requests>>

Answer(c) ==
  \/ AnswerStream(c) /\ UNCHANGED <<photoVars, flightVars>>
  \/ AnswerPhoto(c) /\ UNCHANGED <<video, flightVars>>
  \/ AnswerFlight(c) /\ UNCHANGED <<video, photoVars>>

StreamRequest(d) ==
  /\ StartStream(d) \/ StopStream(d) \/ MediaOutlivesSource(d)
  /\ UNCHANGED <<photoVars, flightVars>>

PhotoRequest(d) ==
  /\ Capture(d) \/ Fetch(d) \/ StoredTimeout(d) \/ \E file \in Photo : PhotoArrives(d, file)
  /\ UNCHANGED <<video, flightVars>>

FlightRequest(d) ==
  /\ \/ \E action \in FlightCommands : RequestFlight(d, action)
     \/ ExpireConfirmation(d)
     \/ \E id \in 0..requests : ConfirmFlight(d, id) \/ RefuseFlight(d, id) \/ CancelFlight(d, id)
  /\ UNCHANGED <<video, photoVars>>

\* A turn of one phone, or a call that continues: of the calls awaited any, the
\* late ones before anything else.
Turn(d) ==
  \/ Connect(d)
  \/ \E facts \in SUBSET Links : Telemetry(d, facts)
  \/ Lose(d)
  \/ StreamRequest(d)
  \/ PhotoRequest(d)
  \/ FlightRequest(d)

LanesNext ==
  \/ Quiet /\ \E d \in Device : Turn(d)
  \/ \E c \in calls : (Quiet \/ c.late) /\ Answer(c)

LanesSpec == LanesInit /\ [][LanesNext]_laneVars

-----------------------------------------------------------------------------
\* The lanes keep their types; a photo lane has one digest of a name.
LanesTypeOK ==
  /\ CallsTypeOK
  /\ video \in [Device -> VideoLanes]
  /\ photo \in [Device -> PhotoSession]
  /\ \A d \in Device : \A p, q \in photo[d].received : p.fileName = q.fileName => p = q
  /\ inbox \in [Device -> SUBSET Photo]
  /\ confirmation \in [Device -> Confirmation \cup {None}]
  /\ pending \in [Device -> 1..MaxRequests \cup {None}]
  /\ landingIntent \in [Device -> {"requested", "stopped", None}]
  /\ requests \in 0..MaxRequests

\* Whoever waits for a stream to restart is owed an answer: the stop he is
\* queued behind has still to continue, whatever overtook it.
QueuedRestartsAreOwed ==
  \A d \in Device :
    video[d].restarts > 0 => CallsOf(d, {"live-stream.stop"}) # {}

\* A photo lane is busy exactly while an answer to its last command or the
\* timer of its waiter is still to come, so it is never locked for good and
\* never takes a second command.
PhotoBusyIsOwed ==
  \A d \in Device :
    photo[d].busy <=>
      \/ \E c \in CallsOf(d, PhotoCommands) : c.generation = photo[d].generation
      \/ photo[d].waiting

\* Nothing the operator asked of one session acts in the next: no confirmation,
\* no landing intent, and no flight command confirmed later than that.
NothingOutlivesTheSession ==
  /\ \A d \in Device :
       /\ confirmation[d] # None => online[d] /\ confirmation[d].requestedIn = session[d]
       /\ landingIntent[d] # None => online[d]
  /\ \A c \in calls : c.command \in FlightCommands => c.requestedIn = c.sentIn

\* A fetch that succeeded left the photo in the inbox, or another of its name or
\* of its digest that was there before.
StoredIsKept ==
  \A d \in Device : photo[d].phase = "stored" => Duplicate(d, photo[d].delivered)

\* A stream is started only while its source is available, also when the start
\* was requested long before, behind a stop.
StartsHaveASource ==
  [][\A c \in calls' :
       c.id > issued /\ c.command = "live-stream.start" => SourceAvailable(links[c.device])]_laneVars

\* The calls a loss cut off do not change what the loss recorded.
LateResultsAreIgnored ==
  [][~Quiet => UNCHANGED inbox /\ \A d \in Device :
       /\ video'[d].phase = video[d].phase
       /\ photo'[d].phase = photo[d].phase
       /\ landingIntent'[d] = landingIntent[d]]_laneVars

-----------------------------------------------------------------------------
\* Said by the contracts and not kept by the code; see the README.

\* CONTRACT.md of the stream dispatcher: the operations of one phone exclude
\* each other.
StreamCommandsExclude ==
  \A d \in Device : Cardinality(CallsOf(d, StreamCommands)) <= 1

\* CONTRACT.md of camera photo control: a successful fetch means that the inbox
\* holds the delivered photo under its name and with its digest.
StoredIsInTheInbox ==
  \A d \in Device : photo[d].phase = "stored" => photo[d].delivered \in inbox[d]

-----------------------------------------------------------------------------
\* For the runs: file names and digests are interchangeable.
PhotoSymmetry == Permutations(FileName) \cup Permutations(Digest)
=============================================================================
