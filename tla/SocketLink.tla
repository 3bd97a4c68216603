------------------------------- MODULE SocketLink -------------------------------
(***************************************************************************)
(* One phone's socket as the relay server sees it                          *)
(* (adapters/node-websocket-relay): the keepalive that pings every         *)
(* interval and gives up on a peer that left the last ping unanswered, the *)
(* single-flight round-trip probe with a payload and a timer of its own,   *)
(* and the one close notification, whichever of the peer, an error, a bad  *)
(* frame, the keepalive or the listener ends it first.                     *)
(*                                                                         *)
(* A ping's payload is its purpose and sequence number; the number alone   *)
(* names it here.  Pings and pongs keep their order, a peer may stop       *)
(* answering for good, and a probe's timer callback may already be under   *)
(* way when its probe ends (ping.timeout.clear is best-effort).            *)
(***************************************************************************)
EXTENDS Naturals, FiniteSets, Sequences

CONSTANTS
  MaxPings,       \* pings of a behaviour
  MaxProbes       \* round-trip measurements asked for in a behaviour

SocketAssumption == MaxPings \in Nat /\ MaxProbes \in Nat

VARIABLES
  open,           \* readyState is OPEN
  closed,         \* the adapter's closed flag
  reason,         \* what the close listeners were told, "" before
  notices,        \* history: how often they were told
  ticking,        \* pingTimer is set
  sequence,       \* pingSequence
  awaiting,       \* awaitingPong: a sequence number, 0 for null
  probe,          \* activeProbe: [payload, id]; payload 0 for null
  timers,         \* probe timers not fired: ids of probes
  answers,        \* per probe id, how it ended (history: by which pong, by whose timer)
  asked,          \* history: probes started
  wire,           \* pongs on their way back, and pings the peer has not read
  silent          \* the peer answers no more

socketVars == <<open, closed, reason, notices, ticking, sequence, awaiting, probe, timers, answers, asked, wire, silent>>

Idle == [payload |-> 0, id |-> 0]
Ends == {"measured", "timed-out", "unavailable"}
Reasons == {"peer-closed", "transport-error", "keepalive-timeout", "server-closed"}

SocketTypeOK ==
  /\ open \in BOOLEAN /\ closed \in BOOLEAN /\ ticking \in BOOLEAN /\ silent \in BOOLEAN
  /\ reason \in Reasons \cup {""} /\ notices \in 0..2 /\ sequence \in 0..MaxPings /\ awaiting \in 0..MaxPings
  /\ probe \in [payload : 0..MaxPings, id : 0..MaxProbes]
  /\ timers \subseteq 1..MaxProbes /\ asked \in 0..MaxProbes
  /\ answers \in [1..MaxProbes -> [end : Ends \cup {"none", "pending"}, payload : 0..MaxPings,
                                   pong : 0..MaxPings, timer : 0..MaxProbes]]
  /\ wire \in Seq(1..MaxPings)

Outcome(end, payload) == [end |-> end, payload |-> payload, pong |-> 0, timer |-> 0]
Unasked == Outcome("none", 0)
SocketInit ==
  /\ open = TRUE /\ closed = FALSE /\ reason = "" /\ notices = 0 /\ ticking = TRUE
  /\ sequence = 0 /\ awaiting = 0 /\ probe = Idle /\ timers = {}
  /\ answers = [id \in 1..MaxProbes |-> Unasked] /\ asked = 0 /\ wire = <<>> /\ silent = FALSE

-----------------------------------------------------------------------------
(* Ends.                                                                   *)

\* finishProbe(): the timer is cleared, or is already running (best effort).
FinishProbe(end, pong) ==
  IF probe = Idle THEN UNCHANGED <<probe, timers, answers>>
  ELSE /\ probe' = Idle
       /\ timers' \in {timers \ {probe.id}, timers}
       /\ answers' = [answers EXCEPT ![probe.id].end = end, ![probe.id].pong = pong]

\* notifyClose() and shutdown(): the first reason stands.
NotifyTwice(why) ==   \* mutant: the adapter forgets that it has notified
  /\ closed' = TRUE /\ reason' = why /\ notices' = (IF notices < 2 THEN notices + 1 ELSE 2) /\ ticking' = FALSE
  /\ FinishProbe("unavailable", 0)
NotifyClose(why) ==
  IF closed THEN UNCHANGED <<closed, reason, notices, ticking, probe, timers, answers>>
  ELSE /\ closed' = TRUE /\ reason' = why /\ notices' = notices + 1 /\ ticking' = FALSE
       /\ FinishProbe("unavailable", 0)
Shutdown(why) == NotifyClose(why) /\ open' = FALSE

Bad(why) == Shutdown(why) /\ UNCHANGED <<sequence, awaiting, asked, wire, silent>>

\* A text frame or an error on the socket; the listener closes; the phone closes, the
\* socket going before the adapter hears of it.
FrameIsText == open /\ Bad("transport-error")
SocketFails == open /\ Bad("transport-error")
ListenerCloses == Bad("server-closed") /\ ~closed
PeerLeaves ==
  /\ open /\ open' = FALSE
  /\ UNCHANGED <<closed, reason, notices, ticking, sequence, awaiting, probe, timers, answers, asked, wire, silent>>
SocketCloses ==
  /\ ~open /\ notices < 2 /\ NotifyClose("peer-closed")
  /\ UNCHANGED <<open, sequence, awaiting, asked, wire, silent>>

-----------------------------------------------------------------------------
(* Pings.                                                                  *)

Sends(payload) == wire' = IF open THEN Append(wire, payload) ELSE wire

\* The interval: an unanswered ping is the end, otherwise the next one goes out.
TickPingsOn ==   \* mutant: the interval pings on over an unanswered ping
  /\ ticking /\ ~closed /\ sequence < MaxPings
  /\ sequence' = sequence + 1 /\ awaiting' = sequence'
  /\ \/ Sends(sequence') /\ UNCHANGED <<open, closed, reason, notices, ticking, probe, timers, answers, asked, silent>>
     \/ Shutdown("transport-error") /\ UNCHANGED <<asked, wire, silent>>
Tick ==
  /\ ticking /\ ~closed
  /\ IF awaiting # 0
     THEN Shutdown("keepalive-timeout") /\ UNCHANGED <<sequence, awaiting, asked, wire, silent>>
     ELSE /\ sequence < MaxPings /\ sequence' = sequence + 1 /\ awaiting' = sequence'
          /\ \/ Sends(sequence') /\ UNCHANGED <<open, closed, reason, notices, ticking, probe, timers, answers, asked, silent>>
             \/ ~open /\ Shutdown("transport-error") /\ UNCHANGED <<asked, wire, silent>>

\* probeLink(): a probe under way is shared.
ProbeLink ==
  /\ asked < MaxProbes /\ sequence < MaxPings /\ probe = Idle
  /\ asked' = asked + 1
  /\ IF closed \/ ~open
     THEN /\ answers' = [answers EXCEPT ![asked'] = Outcome("unavailable", 0)]
          /\ UNCHANGED <<sequence, probe, timers, wire>>
     ELSE /\ sequence' = sequence + 1 /\ Sends(sequence')
          /\ probe' = [payload |-> sequence', id |-> asked']
          /\ timers' = timers \cup {asked'}
          /\ answers' = [answers EXCEPT ![asked'] = Outcome("pending", sequence')]
  /\ UNCHANGED <<open, closed, reason, notices, ticking, awaiting, silent>>

\* The probe's timer: only its own probe is timed out.
ProbeTimesOutAnother(id) ==   \* mutant: whatever probe is active is timed out
  /\ id \in timers
  /\ IF probe = Idle THEN timers' = timers \ {id} /\ UNCHANGED <<probe, answers>>
     ELSE /\ probe' = Idle /\ timers' = timers \ {id, probe.id}
          /\ answers' = [answers EXCEPT ![probe.id].end = "timed-out", ![probe.id].timer = id]
  /\ UNCHANGED <<open, closed, reason, notices, ticking, sequence, awaiting, asked, wire, silent>>
ProbeTimesOut(id) ==
  /\ id \in timers /\ timers' = timers \ {id}
  /\ IF probe.id = id
     THEN probe' = Idle /\ answers' = [answers EXCEPT ![id].end = "timed-out", ![id].timer = id]
     ELSE UNCHANGED <<probe, answers>>
  /\ UNCHANGED <<open, closed, reason, notices, ticking, sequence, awaiting, asked, wire, silent>>

PongOfAnyPing(payload) ==   \* mutant: any pong measures the probe under way
  IF probe # Idle THEN FinishProbe("measured", payload) /\ UNCHANGED awaiting
  ELSE /\ awaiting' = IF payload = awaiting THEN 0 ELSE awaiting
       /\ UNCHANGED <<probe, timers, answers>>
\* on("pong"): the probe's payload first, then the keepalive's.
Pong(payload) ==
  IF payload = probe.payload
  THEN FinishProbe("measured", payload) /\ UNCHANGED awaiting
  ELSE /\ awaiting' = IF payload = awaiting THEN 0 ELSE awaiting
       /\ UNCHANGED <<probe, timers, answers>>
PongArrives ==
  /\ wire # <<>> /\ ~silent /\ wire' = Tail(wire)
  /\ IF closed THEN UNCHANGED <<awaiting, probe, timers, answers>> ELSE Pong(Head(wire))
  /\ UNCHANGED <<open, closed, reason, notices, ticking, sequence, asked, silent>>

PeerFallsSilent ==
  /\ ~silent /\ silent' = TRUE
  /\ UNCHANGED <<open, closed, reason, notices, ticking, sequence, awaiting, probe, timers, answers, asked, wire>>

SocketNext ==
  \/ FrameIsText \/ SocketFails \/ ListenerCloses \/ PeerLeaves \/ SocketCloses
  \/ Tick \/ ProbeLink \/ (\E id \in 1..MaxProbes : ProbeTimesOut(id)) \/ PongArrives \/ PeerFallsSilent

\* Timers fire; the socket library tells of a socket that has gone.
SocketFairness ==
  /\ WF_socketVars(Tick) /\ WF_socketVars(SocketCloses)
  /\ \A id \in 1..MaxProbes : WF_socketVars(ProbeTimesOut(id))
SocketSpec == SocketInit /\ [][SocketNext]_socketVars /\ SocketFairness

-----------------------------------------------------------------------------
(* Properties.                                                             *)

\* A measurement is the answer of its own ping: whatever pongs are late and whichever
\* timers of earlier probes still fire, a probe that was measured was so by the pong of its
\* own payload, one that reads timed out ran out its own time, and at most one probe is
\* under way, with its timer armed.
ProbesAreTheirOwn ==
  /\ \A id \in 1..MaxProbes :
       /\ answers[id].end = "measured" => answers[id].pong = answers[id].payload
       /\ answers[id].end = "timed-out" => answers[id].timer = id
  /\ \A id \in 1..MaxProbes : answers[id].end = "pending" <=> probe.id = id
  /\ probe # Idle => probe.id \in timers /\ answers[probe.id].payload = probe.payload

\* The relay server is told once that a connection has gone, and a connection it was
\* told of pings no more.
ClosedOnce == notices <= 1 /\ (notices = 1 <=> closed) /\ (closed => ~ticking /\ probe = Idle)

\* A peer that stops answering does not keep its place for good: the second interval
\* after its last answer closes it, or something else has by then; and no probe stays
\* unanswered.
SilentPeersGo == []<>(silent /\ awaiting # 0 => closed)
ProbesEnd == []<>(\A id \in 1..MaxProbes : answers[id].end # "pending")
=============================================================================
