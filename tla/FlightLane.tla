----------------------------- MODULE FlightLane -----------------------------
(***************************************************************************)
(* Dangerous flight actions (src/modules/flight-control and its callers in *)
(* the operation workflow): an action is requested, confirmed under the id  *)
(* the request was given, and sent.                                        *)
(***************************************************************************)
EXTENDS DeviceCalls

CONSTANT MaxRequests   \* confirmations requested in a behaviour

ASSUME FlightAssumption == MaxRequests \in Nat

VARIABLES
  confirmation,        \* the pending confirmation of DangerousActionConfirm
  pending,             \* the workflow's own note of its id
  landingIntent,       \* landingIntents
  requests             \* confirmation ids made

flightVars == <<confirmation, pending, landingIntent, requests>>

Confirmation == [id : 1..MaxRequests, action : FlightCommands, requestedIn : 0..MaxSessions]

FlightInit ==
  /\ confirmation = [d \in Device |-> None]
  /\ pending = [d \in Device |-> None]
  /\ landingIntent = [d \in Device |-> None]
  /\ requests = 0

\* request(), the check passed: it replaces the pending confirmation.
RequestFlight(d, action) ==
  /\ online[d]
  /\ requests < MaxRequests
  /\ requests' = requests + 1
  /\ confirmation' = [confirmation EXCEPT ![d] =
       [id |-> requests + 1, action |-> action, requestedIn |-> session[d]]]
  /\ pending' = [pending EXCEPT ![d] = requests + 1]
  /\ UNCHANGED <<landingIntent, callVars>>

\* removeExpired()
ExpireConfirmation(d) ==
  /\ confirmation[d] # None
  /\ confirmation' = [confirmation EXCEPT ![d] = None]
  /\ UNCHANGED <<pending, landingIntent, requests, callVars>>

Holds(d, id) == confirmation[d] # None /\ confirmation[d].id = id
Busy(d) == CallsOf(d, FlightCommands) # {}

\* confirm(): it consumes the confirmation and sends the action, the lane free
\* and the second check passed ...
ConfirmFlight(d, id) ==
  /\ online[d]
  /\ Holds(d, id)
  /\ ~Busy(d)
  /\ confirmation' = [confirmation EXCEPT ![d] = None]
  /\ Issue(d, confirmation[d].action, 0, confirmation[d].requestedIn, calls)
  /\ UNCHANGED <<pending, landingIntent, requests, online, session, links>>

\* ... or is answered at once: not the pending id, busy, blocked.  The workflow
\* forgets the id it noted all the same.
RefuseFlight(d, id) ==
  /\ online[d]
  /\ confirmation' = [confirmation EXCEPT ![d] = IF Holds(d, id) THEN None ELSE @]
  /\ pending' = [pending EXCEPT ![d] = None]
  /\ UNCHANGED <<landingIntent, requests, callVars>>

CancelFlight(d, id) ==
  /\ confirmation' = [confirmation EXCEPT ![d] = IF Holds(d, id) THEN None ELSE @]
  /\ pending' = [pending EXCEPT ![d] = None]
  /\ UNCHANGED <<landingIntent, requests, callVars>>

IntentAfter(action) ==
  CASE action = "flight.land" -> "requested"
    [] action = "flight.stop-auto-landing" -> "stopped"
    [] OTHER -> None

\* confirmFlightAction() after its await.  The id it forgets may be the one of a
\* later request.
AnswerFlight(c) ==
  /\ c.command \in FlightCommands
  /\ pending' = [pending EXCEPT ![c.device] = None]
  /\ \/ UNCHANGED landingIntent
     \/ /\ ~c.late
        /\ landingIntent' = [landingIntent EXCEPT ![c.device] = IntentAfter(c.command)]
  /\ Ends(c)
  /\ UNCHANGED <<confirmation, requests, online, session, links>>

ClearFlightConfirmNoted(d) ==  \* mutant: only the id the workflow noted
  /\ confirmation' = [confirmation EXCEPT ![d] =
       IF pending[d] # None /\ Holds(d, pending[d]) THEN None ELSE @]
  /\ pending' = [pending EXCEPT ![d] = None]

\* clearFlightConfirm()
ClearFlightConfirm(d) ==
  /\ confirmation' = [confirmation EXCEPT ![d] = None]
  /\ pending' = [pending EXCEPT ![d] = None]
=============================================================================
