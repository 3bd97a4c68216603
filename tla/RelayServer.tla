----------------------------- MODULE RelayServer -----------------------------
(***************************************************************************)
(* The relay server (src/modules/relay-link/relay-server): the listener    *)
(* and the connections of the phones.                                      *)
(*                                                                         *)
(* A step is what runs between two awaits: a transport callback, a timer,  *)
(* a call, or the continuation of one of the four suspended things, the    *)
(* pairing acknowledgement, the outbound write, listen() and close().      *)
(* Events are published synchronously, so who listens to them reacts in    *)
(* the same step (see RelayLink).                                          *)
(***************************************************************************)
EXTENDS Naturals, Sequences, FiniteSets, Functions, TLC

CONSTANTS
  Connection,       \* ids of createConnectionId, each used once
  Device,           \* phones
  NoDevice,         \* null
  Bytes,            \* encoded frames, each sent once
  Payload,          \* what a frame that is routed to the subscribers carries
  maxConnections,
  MAX_PENDING_INBOUND_FRAMES,
  MAX_PENDING_OUTBOUND_SENDS,
  MaxArrivals,      \* frames that arrive on a connection
  MaxStarts,        \* listens in a behaviour
  MaxStops,         \* stops in a behaviour
  StopsOverlap      \* the server may be started or stopped while a stop is pending

ASSUME ServerAssumption ==
  /\ IsFiniteSet(Connection)
  /\ NoDevice \notin Device
  /\ maxConnections \in Nat \ {0}
  /\ MAX_PENDING_INBOUND_FRAMES \in Nat
  /\ MAX_PENDING_OUTBOUND_SENDS \in Nat \ {0}
  /\ MaxArrivals \in Nat
  /\ MaxStarts \in Nat
  /\ MaxStops \in Nat
  /\ StopsOverlap \in BOOLEAN

VARIABLES
  state,            \* of the server
  listener,         \* the listener start() committed, by start; 0 is null
  startOperation,   \* the start whose listen is awaited; 0 is null
  listening,        \* starts whose listen() is awaited
  bound,            \* external: listeners of the transport, by start
  starts,           \* starts made
  stops,            \* pending stops and what each awaits
  stopped,          \* stops made
  connections,      \* every connection, open or not
  settled           \* sends settled whose caller has not continued yet

lifecycleVars == <<state, listener, startOperation, listening, bound, starts, stops, stopped>>
serverVars == <<lifecycleVars, connections, settled>>

ServerStates == {"stopped", "starting", "listening", "stopping"}
Phases == {"awaiting-hello", "paired"}

\* Inbound frames: a hello of a phone, one that is routed, a diagnostic report
\* (routed as well, but the first to be dropped), one the codec ignores, one it
\* rejects.
Frame ==
  [type : {"hello"}, device : Device]
    \cup [type : {"routed"}, payload : Payload]
    \cup [type : {"diagnostic-report", "ignored", "rejected"}]

\* InternalConnection.  The head of outbound is the frame being written;
\* pairing says that the inbound loop awaits the pairing acknowledgement.
Link ==
  [accepted : BOOLEAN, closed : BOOLEAN, phase : Phases,
   reservedDeviceId : Device \cup {NoDevice}, pairing : BOOLEAN,
   inbound : Seq(Frame), outbound : Seq(Bytes), arrivals : 0..MaxArrivals]

Unused ==
  [accepted |-> FALSE, closed |-> FALSE, phase |-> "awaiting-hello",
   reservedDeviceId |-> NoDevice, pairing |-> FALSE,
   inbound |-> <<>>, outbound |-> <<>>, arrivals |-> 0]

\* What a send is answered with, ok or not.
Settlement == [connection : Connection, bytes : Bytes, ok : BOOLEAN]

ServerInit ==
  /\ state = "stopped"
  /\ listener = 0
  /\ startOperation = 0
  /\ listening = {}
  /\ bound = {}
  /\ starts = 0
  /\ stops = {}
  /\ stopped = 0
  /\ connections = [c \in Connection |-> Unused]
  /\ settled = {}

\* In the connections map.
Open(c) == connections[c].accepted /\ ~connections[c].closed
OpenConnections == {c \in Connection : Open(c)}
Paired(c) == Open(c) /\ connections[c].phase = "paired"

-----------------------------------------------------------------------------
(* finish() *)

\* The connections are closed, their queues emptied, and every send they still
\* owe an answer is answered NOT_CONNECTED.
Closed(link) == [link EXCEPT !.closed = TRUE, !.inbound = <<>>, !.outbound = <<>>]

WithoutPaired(gone) ==  \* mutant: one that still pairs is overlooked
  [c \in Connection |->
     IF c \in gone /\ ~connections[c].pairing THEN Closed(connections[c]) ELSE connections[c]]

Without(gone) ==
  [c \in Connection |-> IF c \in gone THEN Closed(connections[c]) ELSE connections[c]]

Failed(c, b) == [connection |-> c, bytes |-> b, ok |-> FALSE]

Owed(gone) == UNION {{Failed(c, b) : b \in Range(connections[c].outbound)} : c \in gone}

FinishSilently(gone) ==  \* mutant: what waits to be written is forgotten
  connections' = Without(gone) /\ UNCHANGED settled

Finish(gone) ==
  /\ connections' = Without(gone)
  /\ settled' = settled \cup Owed(gone)

-----------------------------------------------------------------------------
(* Inbound *)

AcceptAny(c) ==  \* mutant: one connection too many, whatever the others do
  /\ ~connections[c].accepted
  /\ bound # {}
  /\ state = "listening"
  /\ Cardinality(OpenConnections) <= maxConnections + 1
  /\ connections' = [connections EXCEPT ![c].accepted = TRUE]
  /\ UNCHANGED <<lifecycleVars, settled>>

\* accept(): a connection beyond maxConnections is let in only to say hello.
Accept(c) ==
  /\ ~connections[c].accepted
  /\ bound # {}
  /\ state = "listening"
  /\ Cardinality(OpenConnections) >= maxConnections
       => \A e \in OpenConnections : connections[e].phase = "paired"
  /\ Cardinality(OpenConnections) < maxConnections + 1
  /\ connections' = [connections EXCEPT ![c].accepted = TRUE]
  /\ UNCHANGED <<lifecycleVars, settled>>

HandshakeTimeout(c) ==
  /\ Open(c)
  /\ connections[c].phase = "awaiting-hello"
  /\ Finish({c})
  /\ UNCHANGED lifecycleVars

\* onClose and onError.
PeerCloses(c) ==
  /\ Open(c)
  /\ Finish({c})
  /\ UNCHANGED lifecycleVars

\* enqueueInbound()
FrameArrives(c, frame) ==
  /\ Open(c)
  /\ connections[c].arrivals < MaxArrivals
  /\ IF Len(connections[c].inbound) < MAX_PENDING_INBOUND_FRAMES
     THEN /\ connections' = [connections EXCEPT ![c].arrivals = @ + 1,
                                                ![c].inbound = Append(@, frame)]
          /\ UNCHANGED settled
     ELSE /\ frame.type # "diagnostic-report"
          /\ Finish({c})
  /\ UNCHANGED lifecycleVars

\* drainInbound() takes the next frame, unless it still awaits a pairing.
Takes(c, frame) ==
  /\ Open(c)
  /\ ~connections[c].pairing
  /\ connections[c].inbound # <<>>
  /\ frame = Head(connections[c].inbound)

\* handleDecoded(), a frame that ends the connection: anything but a hello at
\* first, a hello afterwards, whatever the codec rejects.
Violates(c, frame) ==
  /\ Takes(c, frame)
  /\ \/ frame.type = "rejected"
     \/ connections[c].phase = "awaiting-hello" /\ frame.type # "hello"
     \/ connections[c].phase = "paired" /\ frame.type = "hello"
  /\ Finish({c})
  /\ UNCHANGED lifecycleVars

\* ... one that is published to the subscribers, or ignored.
Routes(c, frame) ==
  /\ Takes(c, frame)
  /\ connections[c].phase = "paired"
  /\ frame.type \in {"routed", "diagnostic-report", "ignored"}
  /\ connections' = [connections EXCEPT ![c].inbound = Tail(@)]
  /\ UNCHANGED <<lifecycleVars, settled>>

\* ... and the hello: it replaces the connections that hold its identity, then
\* reserves the identity before the acknowledgement is awaited.
HoldersOf(d) == {e \in OpenConnections : connections[e].reservedDeviceId = d}
Holders == {e \in OpenConnections : connections[e].reservedDeviceId # NoDevice}

Reserved(links, c, d) ==
  [links EXCEPT ![c].inbound = Tail(@), ![c].reservedDeviceId = d, ![c].pairing = TRUE]

HelloCountingFirst(c, frame) ==  \* mutant: capacity is counted before replacing
  LET replaced == HoldersOf(frame.device)
      full == Cardinality(Holders) >= maxConnections
  IN  /\ Takes(c, frame)
      /\ connections[c].phase = "awaiting-hello"
      /\ frame.type = "hello"
      /\ IF full THEN Finish(replaced \cup {c})
         ELSE /\ connections' = Reserved(Without(replaced), c, frame.device)
              /\ settled' = settled \cup Owed(replaced)
      /\ UNCHANGED lifecycleVars

Hello(c, frame) ==
  /\ Takes(c, frame)
  /\ connections[c].phase = "awaiting-hello"
  /\ frame.type = "hello"
  /\ LET replaced == HoldersOf(frame.device)
         full == Cardinality(Holders \ replaced) >= maxConnections
     IN  IF full THEN Finish(replaced \cup {c})
         ELSE /\ connections' = Reserved(Without(replaced), c, frame.device)
              /\ settled' = settled \cup Owed(replaced)
  /\ UNCHANGED lifecycleVars

PairsAnyway(c) ==  \* mutant: that it was closed meanwhile is not looked at
  /\ connections[c].pairing
  /\ connections' = [connections EXCEPT ![c].pairing = FALSE, ![c].phase = "paired"]
  /\ UNCHANGED <<lifecycleVars, settled>>

\* The acknowledgement is written; the connection may be gone by then.
Pairs(c) ==
  /\ connections[c].pairing
  /\ connections' = [connections EXCEPT
       ![c].pairing = FALSE, ![c].phase = IF Open(c) THEN "paired" ELSE @]
  /\ UNCHANGED <<lifecycleVars, settled>>

PairingFails(c) ==
  /\ connections[c].pairing
  /\ connections' = [connections EXCEPT ![c] = [Closed(@) EXCEPT !.pairing = FALSE]]
  /\ UNCHANGED <<lifecycleVars, settled>>

-----------------------------------------------------------------------------
(* Outbound *)

Overflows(c) == Len(connections[c].outbound) >= MAX_PENDING_OUTBOUND_SENDS

AfterSendDropping(c, b) ==  \* mutant: a frame too many is dropped
  IF ~Paired(c) \/ Overflows(c) THEN connections
  ELSE [connections EXCEPT ![c].outbound = Append(@, b)]

\* send(): the connections after it, and the sends it settles at once.
AfterSend(c, b) ==
  IF ~Paired(c) THEN connections
  ELSE IF Overflows(c) THEN Without({c})
  ELSE [connections EXCEPT ![c].outbound = Append(@, b)]

RefusedBySend(c, b) ==
  IF ~Paired(c) THEN {Failed(c, b)}
  ELSE IF Overflows(c) THEN Owed({c}) \cup {Failed(c, b)}
  ELSE {}

Send(c, b) ==
  /\ connections' = AfterSend(c, b)
  /\ settled' = settled \cup RefusedBySend(c, b)
  /\ UNCHANGED lifecycleVars

\* drainOutbound(): the transport took the frame, or did not.
Written(c) ==
  /\ Open(c)
  /\ connections[c].outbound # <<>>
  /\ connections' = [connections EXCEPT ![c].outbound = Tail(@)]
  /\ settled' = settled \cup
       {[connection |-> c, bytes |-> Head(connections[c].outbound), ok |-> TRUE]}
  /\ UNCHANGED lifecycleVars

WriteFails(c) ==
  /\ Open(c)
  /\ connections[c].outbound # <<>>
  /\ Finish({c})
  /\ UNCHANGED lifecycleVars

-----------------------------------------------------------------------------
(* start() and stop() *)

Start ==
  /\ state = "stopped"
  /\ starts < MaxStarts
  /\ StopsOverlap \/ stops = {}
  /\ state' = "starting"
  /\ starts' = starts + 1
  /\ startOperation' = starts + 1
  /\ listening' = listening \cup {starts + 1}
  /\ UNCHANGED <<listener, bound, stops, stopped, connections, settled>>

ListenEnds(n) ==
  /\ n \in listening
  /\ listening' = listening \ {n}
  /\ startOperation' = IF startOperation = n THEN 0 ELSE startOperation
  /\ \/ /\ state' = "listening"
        /\ listener' = n
        /\ bound' = bound \cup {n}
     \/ /\ state' = "stopped"
        /\ listener' = 0
        /\ UNCHANGED bound
  /\ UNCHANGED <<starts, stops, stopped, connections, settled>>

\* stop() once no start is pending: "stopping", everything finished, and
\* "stopped" when the listener it took, if any, is closed.
StopsKeepingConnections(id, others) ==  \* mutant
  /\ listener' = 0
  /\ IF listener = 0 THEN state' = "stopped" /\ stops' = others
     ELSE /\ state' = "stopping"
          /\ stops' = others \cup {[id |-> id, awaits |-> "close", of |-> listener]}
  /\ UNCHANGED <<startOperation, listening, bound, starts, connections, settled>>

Stops(id, others) ==
  /\ Finish(OpenConnections)
  /\ listener' = 0
  /\ IF listener = 0 THEN state' = "stopped" /\ stops' = others
     ELSE /\ state' = "stopping"
          /\ stops' = others \cup {[id |-> id, awaits |-> "close", of |-> listener]}
  /\ UNCHANGED <<startOperation, listening, bound, starts>>

StopNow ==  \* mutant: a pending start is not awaited
  /\ state # "stopped"
  /\ stopped < MaxStops
  /\ StopsOverlap \/ stops = {}
  /\ stopped' = stopped + 1
  /\ Stops(stopped + 1, stops)

Stop ==
  /\ state # "stopped"
  /\ stopped < MaxStops
  /\ StopsOverlap \/ stops = {}
  /\ stopped' = stopped + 1
  /\ IF state = "starting" /\ startOperation # 0
     THEN /\ stops' = stops \cup {[id |-> stopped + 1, awaits |-> "start", of |-> startOperation]}
          /\ UNCHANGED <<state, listener, startOperation, listening, bound, starts,
                         connections, settled>>
     ELSE Stops(stopped + 1, stops)

StopResumes(s) ==
  /\ s \in stops
  /\ s.awaits = "start"
  /\ s.of \notin listening
  /\ IF state = "stopped"
     THEN /\ stops' = stops \ {s}
          /\ UNCHANGED <<state, listener, startOperation, listening, bound, starts,
                         connections, settled>>
     ELSE Stops(s.id, stops \ {s})
  /\ UNCHANGED stopped

ListenerCloses(s) ==
  /\ s \in stops
  /\ s.awaits = "close"
  /\ stops' = stops \ {s}
  /\ bound' = bound \ {s.of}
  /\ state' = "stopped"
  /\ UNCHANGED <<listener, startOperation, listening, starts, stopped, connections, settled>>

-----------------------------------------------------------------------------
\* The caller of a send continues (RelayLink says what it does then).
Continues(s) ==
  /\ s \in settled
  /\ settled' = settled \ {s}
  /\ UNCHANGED <<lifecycleVars, connections>>

\* Frames not sent before.
Sent == UNION {Range(connections[c].outbound) : c \in Connection} \cup {s.bytes : s \in settled}

Handles(c) ==
  \/ \E frame \in Range(connections[c].inbound) :
       Violates(c, frame) \/ Hello(c, frame) \/ Routes(c, frame)
  \/ Pairs(c)
  \/ PairingFails(c)

Lifecycle ==
  \/ Start
  \/ Stop
  \/ \E n \in listening : ListenEnds(n)
  \/ \E s \in stops : StopResumes(s) \/ ListenerCloses(s)

ServerNext ==
  \/ Lifecycle
  \/ \E c \in Connection :
       \/ Accept(c)
       \/ HandshakeTimeout(c)
       \/ PeerCloses(c)
       \/ \E frame \in Frame : FrameArrives(c, frame)
       \/ Handles(c)
       \/ \E b \in Bytes \ Sent : Send(c, b)
       \/ Written(c)
       \/ WriteFails(c)
  \/ \E s \in settled : Continues(s)

ServerSpec == ServerInit /\ [][ServerNext]_serverVars

-----------------------------------------------------------------------------
\* The server's state keeps its types, and no queue outgrows its limit.
ServerTypeOK ==
  /\ state \in ServerStates
  /\ listener \in 0..MaxStarts
  /\ startOperation \in 0..MaxStarts
  /\ listening \subseteq 1..MaxStarts
  /\ bound \subseteq 1..MaxStarts
  /\ starts \in 0..MaxStarts
  /\ stops \subseteq [id : 1..MaxStops, awaits : {"start", "close"}, of : 1..MaxStarts]
  /\ stopped \in 0..MaxStops
  /\ connections \in [Connection -> Link]
  /\ settled \subseteq Settlement
  /\ \A c \in Connection :
       /\ Len(connections[c].inbound) <= MAX_PENDING_INBOUND_FRAMES
       /\ Len(connections[c].outbound) <= MAX_PENDING_OUTBOUND_SENDS

\* No two open connections hold the identity of the same phone, not even while both still
\* wait for their pairing acknowledgement; at most maxConnections phones hold one, and at most
\* one connection more is open, however accepts, replacements and pairings interleave.
PlacesAreKept ==
  /\ \A c, e \in OpenConnections :
       c # e /\ connections[c].reservedDeviceId # NoDevice
         => connections[c].reservedDeviceId # connections[e].reservedDeviceId
  /\ Cardinality(Holders) <= maxConnections
  /\ Cardinality(OpenConnections) <= maxConnections + 1

\* A phone that comes back while its old connection is still held is never turned away for
\* capacity.
AdmitsReconnects ==
  \A c \in Connection, d \in Device :
    Hello(c, [type |-> "hello", device |-> d]) /\ HoldersOf(d) # {}
      => connections'[c].pairing /\ ~connections'[c].closed

ReconnectIsAdmitted == [][AdmitsReconnects]_serverVars

\* Connections are open only while the server listens, so none survives a stop that raced a
\* start or an accept; and once every start and stop is over, the state tells whether a
\* listener is bound: one that nobody knows of could not be stopped any more.
StopLeavesNothing ==
  /\ state # "listening" => OpenConnections = {}
  /\ listening = {} /\ stops = {} => (state = "listening" <=> bound # {}) /\ bound \subseteq {listener}

\* Connections, phones and frames are interchangeable.
ServerSymmetry == Permutations(Connection) \cup Permutations(Device) \cup Permutations(Bytes)
=============================================================================
