-------------------------------- MODULE Receipts --------------------------------
(***************************************************************************)
(* What the operator reads under a button of what became of his click:     *)
(* the page's run() and its receipts by action, the wrappers of            *)
(* operation-workflow, the code each dispatcher of the station ends a call *)
(* with, and operationFeedback(), which reads the code back as what DJI    *)
(* said.                                                                   *)
(*                                                                         *)
(* One phone.  Codes that the page does not tell apart share one name: the *)
(* four ..._ACTION_REJECTED are "ACTION_REJECTED", the ..._UNCONFIRMED are *)
(* "UNCONFIRMED", the WAYLINE_..._FAILED are "WAYLINE_FAILED"; "none" is a *)
(* result without a code.                                                  *)
(***************************************************************************)
EXTENDS Naturals, FiniteSets

CONSTANTS
  MaxClicks,      \* clicks that the page lets through, of a behaviour
  MaxEpochs,      \* sessions of the phone
  MaxFailures,    \* failures in a row that a fetch goes on after: three
  MaxPhotos       \* photos that are fetched before the phone repeats a name

ReceiptsAssumption == MaxClicks \in Nat /\ MaxEpochs \in Nat /\ MaxFailures \in Nat /\ MaxPhotos \in Nat \ {0}

Flight == {"flight-land"}
Mission == {"mission-stage", "mission-upload", "mission-start", "mission-stop"}
Stream == {"stream-start", "stream-stop"}
Photo == {"photo-capture", "photo-fetch"}
Action == Flight \cup Mission \cup Stream \cup Photo
Ids == 1..MaxClicks

VARIABLES
  online,         \* the phone is in the relay's registry
  epoch,          \* connectionEpoch of its session
  view,           \* the epoch the page's cached projection shows, 0 for no device
  clicks,         \* clicks that went through
  action,         \* their actions
  shown,          \* the epoch each one's handler captured
  open,           \* clicks whose call the station awaits
  queued,         \* the start that waits for the stop in flight
  behind,         \* history: starts that waited for a stop that failed
  marked,         \* stream calls in flight whose source went
  phone,          \* what the phone and DJI did with each
  fetched,        \* photos a fetch has got so far
  failures,       \* consecutiveFailures of a fetch
  receipts        \* feedbackByAction

receiptVars == <<online, epoch, view, clicks, action, shown, open, queued, behind, marked, phone, fetched, failures, receipts>>
sessionVars == <<online, epoch, view>>

NoReceipt == [id |-> 0, epoch |-> 0, outcome |-> "none"]
Finals == {"onSuccess", "transferred", "onFailure", "threw", "refused", "nothing", "wrong-mode", "not-delivered"}
Outcomes == {"none", "onSuccess", "onFailure", "unconfirmed", "refused", "not-called", "completed"}

ReceiptsTypeOK ==
  /\ online \in BOOLEAN /\ epoch \in 0..MaxEpochs /\ view \in 0..MaxEpochs /\ clicks \in 0..MaxClicks
  /\ action \in [Ids -> Action \cup {"none"}] /\ shown \in [Ids -> 0..MaxEpochs]
  /\ open \subseteq Ids /\ queued \subseteq Ids /\ behind \subseteq Ids /\ marked \subseteq open
  /\ phone \in [Ids -> Finals \cup {"none", "asked", "called"}]
  /\ fetched \in [Ids -> 0..MaxPhotos] /\ failures \in [Ids -> 0..MaxFailures]
  /\ receipts \in [Action -> [id : 0..MaxClicks, epoch : 0..MaxEpochs, outcome : Outcomes]]

ReceiptsInit ==
  /\ online = FALSE /\ epoch = 0 /\ view = 0 /\ clicks = 0
  /\ action = [i \in Ids |-> "none"] /\ shown = [i \in Ids |-> 0]
  /\ open = {} /\ queued = {} /\ behind = {} /\ marked = {}
  /\ phone = [i \in Ids |-> "none"] /\ fetched = [i \in Ids |-> 0] /\ failures = [i \in Ids |-> 0]
  /\ receipts = [a \in Action |-> NoReceipt]

-----------------------------------------------------------------------------
(* Codes and how they read.                                                *)

FeedbackGuessing(a, code) ==   \* mutant: no answer reads as DJI's refusal
  IF code \in {"ACTION_REJECTED", "UNCONFIRMED"} THEN "onFailure"
  ELSE IF code \in {"INVOCATION_FAILED", "TRANSFER_FAILED", "DEPENDENCY_FAILURE", "WAYLINE_FAILED"}
  THEN "unconfirmed"
  ELSE IF code \in {"RELAY_REJECTED", "CAMERA_MODE_NOT_PHOTO"} THEN "refused"
  ELSE IF code \notin {"none", "SUCCEEDED", "CAPTURED"} THEN "not-called"
  ELSE IF code # "none" /\ a # "mission-stage" THEN "onSuccess" ELSE "completed"

Feedback(a, code) ==
  IF code = "ACTION_REJECTED" THEN "onFailure"
  ELSE IF code \in {"UNCONFIRMED", "INVOCATION_FAILED", "TRANSFER_FAILED", "DEPENDENCY_FAILURE",
                    "WAYLINE_FAILED"} THEN "unconfirmed"
  ELSE IF code \in {"RELAY_REJECTED", "CAMERA_MODE_NOT_PHOTO"} THEN "refused"
  ELSE IF code \notin {"none", "SUCCEEDED", "CAPTURED"} THEN "not-called"
  ELSE IF code # "none" /\ a # "mission-stage" THEN "onSuccess" ELSE "completed"

\* What a call that DJI did not accept ends with: how is a final word of the phone, or
\* "timed-out", or "disconnected" once the lane has been told that the phone is gone.
FlightCode(how) ==
  CASE how = "onFailure" -> "ACTION_REJECTED" [] how = "threw" -> "INVOCATION_FAILED"
    [] how = "refused" -> "RELAY_REJECTED"    [] OTHER -> "UNCONFIRMED"
MissionCode(a, how) ==
  IF a = "mission-stage" THEN "MISSION_TRANSFER_FAILED"
  ELSE IF how = "onFailure" THEN "ACTION_REJECTED"
  ELSE IF how = "threw" /\ a # "mission-start" THEN "INVOCATION_FAILED"
  ELSE IF a = "mission-upload" THEN "WAYLINE_FAILED" ELSE "UNCONFIRMED"
StreamCode(how) ==
  CASE how = "onFailure" -> "ACTION_REJECTED" [] how = "threw" -> "INVOCATION_FAILED"
    [] how = "refused" -> "RELAY_REJECTED"    [] how = "disconnected" -> "DISCONNECTED"
    [] OTHER -> "UNCONFIRMED"
PhotoCode(how) ==
  CASE how = "onFailure" -> "ACTION_REJECTED" [] how = "threw" -> "INVOCATION_FAILED"
    [] how = "refused" -> "RELAY_REJECTED"    [] how = "disconnected" -> "DISCONNECTED"
    [] how = "wrong-mode" -> "CAMERA_MODE_NOT_PHOTO" [] how = "nothing" -> "NOTHING_TO_FETCH"
    [] how = "not-delivered" -> "TRANSFER_FAILED"    [] OTHER -> "UNCONFIRMED"

FailureCode(a, how) ==
  CASE a \in Flight -> FlightCode(how) [] a \in Mission -> MissionCode(a, how)
    [] a \in Stream -> StreamCode(how) [] OTHER -> PhotoCode(how)

SuccessCode(a) ==
  CASE a \in Flight \cup {"photo-fetch"} -> "SUCCEEDED" [] a = "photo-capture" -> "CAPTURED" [] OTHER -> "none"

\* A start whose phase the phone's reports or a stop have moved on is done, whatever
\* its answer; a stream call whose source went is told only that.
Codes(i, how) ==
  IF i \in marked /\ how # "disconnected" THEN {"SOURCE_UNAVAILABLE"}
  ELSE IF how \in {"onSuccess", "transferred"} THEN {SuccessCode(action[i])}
  ELSE {FailureCode(action[i], how)} \cup IF action[i] = "mission-start" /\ how # "disconnected" THEN {"none"} ELSE {}

\* captureFeedback(), with the epoch that the click's handler had read.
Receipt(i, code) == [id |-> i, epoch |-> shown[i], outcome |-> Feedback(action[i], code)]

-----------------------------------------------------------------------------
(* The page and the station.                                               *)

Lanes == {Flight, Mission, Stream, Photo}
Busy(a) == \E lane \in Lanes, i \in open \ marked : {a, action[i]} \subseteq lane
Preempts(a) == a = "mission-stop" /\ \E i \in open : action[i] = "mission-start"
Waits(a) == a = "stream-start" /\ \E i \in open \ marked : action[i] = "stream-stop"

Taken(a) ==
  /\ clicks < MaxClicks /\ clicks' = clicks + 1
  /\ action' = [action EXCEPT ![clicks'] = a] /\ shown' = [shown EXCEPT ![clicks'] = view]

\* The page's own check, or the station's, refuses: nothing is sent.
ClickRefused(a) ==
  /\ view # 0 /\ Taken(a)
  /\ \E code \in {"DESKTOP_BLOCKED", "PREFLIGHT_BLOCKED"}
                   \cup (IF online THEN {} ELSE {"DEVICE_OFFLINE"})
                   \cup (IF Busy(a) THEN {"OPERATION_IN_PROGRESS"} ELSE {}) :
       receipts' = [receipts EXCEPT ![a] = [id |-> clicks', epoch |-> view, outcome |-> Feedback(a, code)]]
  /\ UNCHANGED <<sessionVars, open, queued, behind, marked, phone, fetched, failures>>

ClickSent(a) ==
  /\ view # 0 /\ online /\ (Busy(a) => Preempts(a)) /\ Taken(a)
  /\ open' = open \cup {clicks'} /\ phone' = [phone EXCEPT ![clicks'] = "asked"]
  /\ marked' = IF a \in Stream THEN {} ELSE marked
  /\ UNCHANGED <<sessionVars, queued, behind, fetched, failures, receipts>>

\* start() behind a stop in flight.  Bound: one waits; more would share its outcome.
ClickQueued(a) ==
  /\ view # 0 /\ online /\ Waits(a) /\ queued = {} /\ Taken(a)
  /\ queued' = {clicks'}
  /\ UNCHANGED <<sessionVars, open, behind, marked, phone, fetched, failures, receipts>>

\* The call i ends with a code, and settles the start queued behind it.
Settled(i, code) ==
  /\ open' = open \ {i} /\ marked' = marked \ {i}
  /\ IF action[i] # "stream-stop" \/ queued = {}
     THEN /\ receipts' = [receipts EXCEPT ![action[i]] = Receipt(i, code)]
          /\ UNCHANGED <<queued, behind>>
     ELSE \E q \in queued :
            /\ queued' = IF code = "none" THEN queued ELSE {}
            /\ behind' = IF code = "none" THEN behind ELSE behind \cup {q}
            /\ receipts' = IF code = "none" THEN [receipts EXCEPT !["stream-stop"] = Receipt(i, code)]
                           ELSE [receipts EXCEPT !["stream-stop"] = Receipt(i, code),
                                                 !["stream-start"] = Receipt(q, code)]

\* beginStart() for the queued start, in the turn of the stop's answer: refused or sent.
QueueMoves ==
  \E q \in queued :
    /\ ~(\E i \in open \ marked : action[i] \in Stream)
    /\ queued' = {}
    /\ \/ /\ receipts' = [receipts EXCEPT !["stream-start"] = Receipt(q, "CAPABILITY_BLOCKED")]
          /\ UNCHANGED <<open, phone>>
       \/ /\ online /\ open' = open \cup {q} /\ phone' = [phone EXCEPT ![q] = "asked"]
          /\ UNCHANGED receipts
    /\ UNCHANGED <<sessionVars, clicks, action, shown, behind, marked, fetched, failures>>

\* fetchPhoto(): photo after photo, until the phone has none or repeats itself, or the
\* fourth failure in a row after a first success.
FetchGoesOn(i, how) ==
  /\ fetched' = [fetched EXCEPT ![i] = IF how = "onSuccess" THEN @ + 1 ELSE @]
  /\ failures' = [failures EXCEPT ![i] = IF how = "onSuccess" THEN 0 ELSE @ + 1]
  /\ phone' = [phone EXCEPT ![i] = "asked"]
  /\ UNCHANGED <<open, queued, behind, marked, receipts>>
FetchEnds(i, how) ==
  /\ UNCHANGED <<phone, failures>>
  /\ IF how = "onSuccess"
     THEN fetched' = [fetched EXCEPT ![i] = MaxPhotos] /\ Settled(i, "SUCCEEDED")
     ELSE UNCHANGED fetched /\ Settled(i, IF fetched[i] > 0 THEN "SUCCEEDED" ELSE PhotoCode(how))
Fetches(i, how) ==
  LET another == IF how = "onSuccess" THEN fetched[i] + 1 < MaxPhotos
                 ELSE fetched[i] > 0 /\ how \notin {"nothing", "disconnected"} /\ failures[i] < MaxFailures
  IN  IF another THEN FetchGoesOn(i, how) ELSE FetchEnds(i, how)

Ends(i, how) ==
  /\ IF action[i] = "photo-fetch" THEN Fetches(i, how)
     ELSE /\ \E code \in Codes(i, how) : Settled(i, code)
          /\ UNCHANGED <<phone, fetched, failures>>
  /\ UNCHANGED <<sessionVars, clicks, action, shown>>

AnswerArrives(i) == online /\ i \in open /\ phone[i] \in Finals /\ Ends(i, phone[i])
TimesOut(i) == i \in open /\ Ends(i, "timed-out")

\* The phone leaves: the lanes are told, and each call ends in that turn.
LostCode(i) == IF action[i] = "photo-fetch" /\ fetched[i] > 0 THEN "SUCCEEDED" ELSE FailureCode(action[i], "disconnected")
SessionLost ==
  /\ online /\ online' = FALSE
  /\ LET ended == open \cup queued
     IN  receipts' = [a \in Action |->
           IF \E i \in ended : action[i] = a
           THEN LET i == CHOOSE i \in ended : action[i] = a /\ \A j \in ended : action[j] = a => j <= i
                IN  Receipt(i, LostCode(i))
           ELSE receipts[a]]
  /\ open' = {} /\ queued' = {} /\ marked' = {}
  /\ UNCHANGED <<epoch, view, clicks, action, shown, behind, phone, fetched, failures>>

SessionBegins ==
  /\ ~online /\ epoch < MaxEpochs /\ online' = TRUE /\ epoch' = epoch + 1
  /\ UNCHANGED <<view, clicks, action, shown, open, queued, behind, marked, phone, fetched, failures, receipts>>

\* recordSourceUnavailable() while a stream call is in flight: the queued start is told.
SourceGoes ==
  /\ online /\ \E i \in open \ marked : action[i] \in Stream
  /\ marked' = {i \in open : action[i] \in Stream}
  /\ queued' = {}
  /\ receipts' = IF queued = {} THEN receipts
                 ELSE [receipts EXCEPT !["stream-start"] = Receipt(CHOOSE q \in queued : TRUE, "SOURCE_UNAVAILABLE")]
  /\ UNCHANGED <<sessionVars, clicks, action, shown, open, behind, phone, fetched, failures>>

\* The page fetches a projection: the device with its epoch, or none.
FetchView ==
  /\ view' = IF online THEN epoch ELSE 0
  /\ UNCHANGED <<online, epoch, clicks, action, shown, open, queued, behind, marked, phone, fetched, failures, receipts>>

-----------------------------------------------------------------------------
(* The phone, which goes on with what it has begun.                        *)

PhoneSteps(i) ==
  /\ \/ phone[i] = "asked" /\ phone' = [phone EXCEPT ![i] = "refused"]
     \/ phone[i] = "asked" /\ action[i] # "mission-stage" /\ phone' = [phone EXCEPT ![i] = "called"]
     \/ phone[i] = "asked" /\ action[i] = "mission-stage" /\ phone' = [phone EXCEPT ![i] = "transferred"]
     \/ phone[i] = "asked" /\ action[i] = "photo-capture" /\ phone' = [phone EXCEPT ![i] = "wrong-mode"]
     \/ phone[i] = "asked" /\ action[i] = "photo-fetch" /\ phone' = [phone EXCEPT ![i] = "nothing"]
     \/ phone[i] = "called" /\ \E how \in {"onSuccess", "onFailure", "threw"} : phone' = [phone EXCEPT ![i] = how]
     \/ phone[i] = "called" /\ action[i] = "photo-fetch" /\ phone' = [phone EXCEPT ![i] = "not-delivered"]
  /\ UNCHANGED <<sessionVars, clicks, action, shown, open, queued, behind, marked, fetched, failures, receipts>>

ReceiptsNext ==
  \/ (\E a \in Action : ClickRefused(a) \/ ClickSent(a) \/ ClickQueued(a))
  \/ QueueMoves \/ SessionLost \/ SessionBegins \/ SourceGoes \/ FetchView
  \/ \E i \in Ids : AnswerArrives(i) \/ TimesOut(i) \/ PhoneSteps(i)

ReceiptsSpec == ReceiptsInit /\ [][ReceiptsNext]_receiptVars

-----------------------------------------------------------------------------
(* Properties.                                                             *)

\* renderOperationFeedback(): only the receipts of the session the page shows.
Visible(a) == receipts[a].id # 0 /\ receipts[a].epoch = view

\* A receipt that reads "onSuccess" stands for DJI's own success, at least of one photo
\* of a fetch; one that reads "onFailure" for DJI's refusal of that click, or of the stop
\* its start had waited for.  No timeout, loss, refusal by the phone or late phase reads
\* as a word of DJI's.
ReceiptsAreHonest ==
  \A a \in Action :
    LET r == receipts[a]
    IN  /\ r.outcome = "onSuccess" => phone[r.id] = "onSuccess" \/ fetched[r.id] > 0
        /\ r.outcome = "onFailure" => phone[r.id] = "onFailure" \/ r.id \in behind

\* "MSDK callback: unconfirmed" is what failing, timing out or losing the phone before
\* DJI's result reads as for a flight, route or stream button (operator-console/
\* CONTRACT.md:63); "DJI MSDK not called" is for what was not called.
NotCalledIsTrue ==
  \A a \in Action \ Photo :
    Visible(a) /\ receipts[a].outcome = "not-called" => phone[receipts[a].id] \notin {"called", "onSuccess", "onFailure"}
=============================================================================
