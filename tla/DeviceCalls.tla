----------------------------- MODULE DeviceCalls -----------------------------
(***************************************************************************)
(* What the lanes of a phone have in common                                *)
(* (src/production/relay-operations-adapter): the session the relay holds  *)
(* with the phone, the last telemetry of that session, and the commands    *)
(* sent over it whose answer is awaited.                                   *)
(*                                                                         *)
(* JavaScript runs a turn to its end, and the continuations of the         *)
(* promises it resolved before the next turn.  A loss records the phone as *)
(* gone in the turn that answers its calls; those calls continue (Late)    *)
(* before anything else happens (Quiet).                                   *)
(***************************************************************************)
EXTENDS Naturals, FiniteSets

CONSTANTS
  Device,        \* phones
  None,          \* undefined, null
  MaxCalls,      \* commands sent in a behaviour
  MaxSessions    \* sessions of a phone in a behaviour

ASSUME CallsAssumption == MaxCalls \in Nat /\ MaxSessions \in Nat

VARIABLES
  online,        \* phones in the registry of the relay
  session,       \* sessions a phone has had
  links,         \* hardware links its last telemetry shows CONNECTED
  calls,         \* commands whose continuation has not run
  issued         \* commands sent

callVars == <<online, session, links, calls, issued>>

PhotoCommands == {"camera.photo.capture", "camera.photo.fetch"}
StreamCommands == {"live-stream.start", "live-stream.stop"}
FlightCommands == {"flight.takeoff", "flight.land", "flight.stop-auto-landing"}
Commands == PhotoCommands \cup StreamCommands \cup FlightCommands

\* The hardware links a lane asks for.  What telemetry says of the SDK is left
\* out: any request may be refused for want of it.
Links == {"airLink", "camera"}

\* A call with what its closure captured: the generation of a photo session,
\* the session in which a flight confirmation was requested.
Call ==
  [id : 1..MaxCalls, device : Device, command : Commands, sentIn : 1..MaxSessions,
   generation : Nat, requestedIn : 0..MaxSessions, late : BOOLEAN]

CallsInit ==
  /\ online = [d \in Device |-> FALSE]
  /\ session = [d \in Device |-> 0]
  /\ links = [d \in Device |-> {}]
  /\ calls = {}
  /\ issued = 0

CallsTypeOK ==
  /\ online \in [Device -> BOOLEAN]
  /\ session \in [Device -> 0..MaxSessions]
  /\ links \in [Device -> SUBSET Links]
  /\ calls \subseteq Call
  /\ issued \in 0..MaxCalls

Quiet == \A c \in calls : ~c.late
CallsOf(d, commands) == {c \in calls : c.device = d /\ c.command \in commands}

\* sendCommand(), with the calls awaited besides.
Issue(d, command, generation, requestedIn, others) ==
  /\ issued < MaxCalls
  /\ issued' = issued + 1
  /\ calls' = others \cup
       {[id |-> issued + 1, device |-> d, command |-> command, sentIn |-> session[d],
         generation |-> generation, requestedIn |-> requestedIn, late |-> FALSE]}

Ends(c) == calls' = calls \ {c} /\ UNCHANGED issued

\* The relay answers "disconnected" whatever it still owes the phone.
Cancelled(d) == {IF c.device = d THEN [c EXCEPT !.late = TRUE] ELSE c : c \in calls}
=============================================================================
