---------------------------- MODULE RelayLinkProofs ----------------------------
(***************************************************************************)
(* Theorems about the relay server and the relay link that extends it, for *)
(* any connections, phones, frames, commands, missions, chunks, places and *)
(* queue lengths.                                                          *)
(***************************************************************************)
EXTENDS RelayLink, SequenceTheorems, FiniteSetTheorems, TLAPS

-----------------------------------------------------------------------------
(* The server by itself. *)

\* Who is open holds an identity exactly when its hello was admitted.
IdentityIsAdmitted ==
  \A c \in OpenConnections :
    connections[c].reservedDeviceId # NoDevice
      <=> connections[c].pairing \/ connections[c].phase = "paired"

\* What each state of the server says of its listeners, and of the stop that is pending.
StartsAreAwaited == \A s \in stops : s.awaits = "start"

Stopped ==
  /\ state = "stopped"
  /\ listening = {} /\ startOperation = 0 /\ listener = 0 /\ bound = {}
  /\ StartsAreAwaited
Starting ==
  /\ state = "starting"
  /\ startOperation # 0 /\ listening = {startOperation} /\ listener = 0 /\ bound = {}
  /\ StartsAreAwaited /\ \A s \in stops : s.of = startOperation
Listening ==
  /\ state = "listening"
  /\ listening = {} /\ startOperation = 0 /\ listener # 0 /\ bound = {listener}
  /\ StartsAreAwaited
Stopping ==
  /\ state = "stopping"
  /\ listening = {} /\ startOperation = 0 /\ listener = 0
  /\ \A s \in stops : s.awaits = "close" /\ bound = {s.of}
  /\ stops # {}

LifecycleInv ==
  /\ \A r, s \in stops : r = s
  /\ Stopped \/ Starting \/ Listening \/ Stopping
  /\ state # "listening" => OpenConnections = {}

\* A connection nobody made yet has nothing.
UnusedIsFresh == \A c \in Connection : ~connections[c].accepted => connections[c] = Unused

LinksTypeOK ==
  /\ connections \in [Connection -> Link]
  /\ settled \subseteq Settlement
  /\ \A c \in Connection :
       /\ Len(connections[c].inbound) <= MAX_PENDING_INBOUND_FRAMES
       /\ Len(connections[c].outbound) <= MAX_PENDING_OUTBOUND_SENDS
LifecycleTypeOK ==
  /\ state \in ServerStates
  /\ listener \in 0..MaxStarts
  /\ startOperation \in 0..MaxStarts
  /\ listening \subseteq 1..MaxStarts
  /\ bound \subseteq 1..MaxStarts
  /\ starts \in 0..MaxStarts
  /\ stops \subseteq [id : 1..MaxStops, awaits : {"start", "close"}, of : 1..MaxStarts]
  /\ stopped \in 0..MaxStops

ServerInv ==
  /\ LinksTypeOK /\ LifecycleTypeOK
  /\ UnusedIsFresh /\ IdentityIsAdmitted /\ PlacesAreKept

-----------------------------------------------------------------------------
(* What becomes of a connection.                                           *)

LEMMA UnusedType == Unused \in Link
BY ServerAssumption, EmptySeq DEF Unused, Link, Phases

LEMMA ClosedType ==
  ASSUME NEW link \in Link
  PROVE  /\ Closed(link) \in Link
         /\ Closed(link).closed /\ Closed(link).accepted = link.accepted
         /\ Closed(link).reservedDeviceId = link.reservedDeviceId
         /\ Closed(link).phase = link.phase /\ Closed(link).pairing = link.pairing
         /\ Closed(link).inbound = <<>> /\ Closed(link).outbound = <<>>
BY EmptySeq DEF Closed, Link

LEMMA OwedType ==
  ASSUME LinksTypeOK, NEW gone \in SUBSET Connection
  PROVE  Owed(gone) \subseteq Settlement
<1> SUFFICES ASSUME NEW c \in gone, NEW b \in Range(connections[c].outbound)
             PROVE  Failed(c, b) \in Settlement
  BY DEF Owed
<1>1. connections[c].outbound \in Seq(Bytes)
  BY DEF LinksTypeOK, Link
<1>2. b \in Bytes
  BY <1>1 DEF Range
<1> QED
  BY <1>2 DEF Failed, Settlement

LEMMA WithoutType ==
  ASSUME LinksTypeOK, NEW gone \in SUBSET Connection
  PROVE  /\ Without(gone) \in [Connection -> Link]
         /\ \A c \in Connection :
              /\ Len(Without(gone)[c].inbound) <= MAX_PENDING_INBOUND_FRAMES
              /\ Len(Without(gone)[c].outbound) <= MAX_PENDING_OUTBOUND_SENDS
BY ClosedType, EmptySeq, ServerAssumption DEF LinksTypeOK, Without

LEMMA FinishType ==
  ASSUME LinksTypeOK, NEW gone \in SUBSET Connection, Finish(gone)
  PROVE  LinksTypeOK'
BY WithoutType, OwedType DEF Finish, LinksTypeOK

-----------------------------------------------------------------------------
(* Types.                                                                  *)

\* A hello comes from a connection that holds no identity yet.
LEMMA HelloIsFirst ==
  ASSUME LinksTypeOK, IdentityIsAdmitted, NEW c \in Connection, NEW frame, Hello(c, frame)
  PROVE  /\ frame \in Frame /\ frame.type = "hello" /\ frame.device \in Device
         /\ connections[c].reservedDeviceId = NoDevice /\ c \notin HoldersOf(frame.device)
         /\ Open(c) /\ ~connections[c].pairing /\ connections[c].inbound # <<>>
<1>1. /\ connections[c].inbound \in Seq(Frame) /\ connections[c].inbound # <<>>
      /\ frame = Head(connections[c].inbound) /\ frame.type = "hello"
      /\ Open(c) /\ ~connections[c].pairing /\ connections[c].phase = "awaiting-hello"
  BY DEF Hello, Takes, LinksTypeOK, Link
<1>2. frame \in Frame
  BY <1>1, HeadTailProperties
<1>3. frame.device \in Device
  BY <1>1, <1>2 DEF Frame
<1>4. connections[c].reservedDeviceId = NoDevice
  BY <1>1 DEF IdentityIsAdmitted, OpenConnections
<1> QED
  BY <1>1, <1>2, <1>3, <1>4, ServerAssumption DEF HoldersOf

LEMMA HelloType ==
  ASSUME LinksTypeOK, IdentityIsAdmitted, NEW c \in Connection, NEW frame, Hello(c, frame)
  PROVE  LinksTypeOK'
<1> DEFINE replaced == HoldersOf(frame.device)
<1>1. connections[c].inbound \in Seq(Frame) /\ connections[c].inbound # <<>>
  BY HelloIsFirst DEF LinksTypeOK, Link
<1>2. frame.device \in Device /\ c \notin replaced
  BY HelloIsFirst
<1>3. replaced \subseteq Connection /\ replaced \cup {c} \subseteq Connection
  BY DEF HoldersOf, OpenConnections
<1>4. CASE Finish(replaced \cup {c})
  BY <1>3, <1>4, FinishType
<1>5. CASE /\ connections' = Reserved(Without(replaced), c, frame.device)
           /\ settled' = settled \cup Owed(replaced)
  <2>1. /\ Without(replaced)[c] = connections[c] /\ Without(replaced)[c] \in Link
        /\ Without(replaced) \in [Connection -> Link]
    BY <1>2, <1>3, WithoutType DEF Without
  <2>2. Tail(connections[c].inbound) \in Seq(Frame)
    BY <1>1, HeadTailProperties
  <2>3. Len(Tail(connections[c].inbound)) <= MAX_PENDING_INBOUND_FRAMES
    BY <1>1, HeadTailProperties, LenProperties, ServerAssumption DEF LinksTypeOK
  <2>4. connections' \in [Connection -> Link]
    BY <1>2, <1>5, <2>1, <2>2 DEF Reserved, Link
  <2>5. \A e \in Connection : /\ connections'[e].outbound = Without(replaced)[e].outbound
                              /\ e # c => connections'[e] = Without(replaced)[e]
                              /\ connections'[c].inbound = Tail(connections[c].inbound)
    BY <1>5, <2>1 DEF Reserved, Link
  <2> QED
    BY <1>3, <1>5, <2>3, <2>4, <2>5, OwedType, WithoutType DEF LinksTypeOK
<1> QED
  BY <1>4, <1>5 DEF Hello

LEMMA OneLinkType ==
  ASSUME LinksTypeOK, NEW c \in Connection, NEW link \in Link,
         Len(link.inbound) <= MAX_PENDING_INBOUND_FRAMES,
         Len(link.outbound) <= MAX_PENDING_OUTBOUND_SENDS,
         connections' = [connections EXCEPT ![c] = link], settled' \subseteq Settlement
  PROVE  LinksTypeOK'
BY DEF LinksTypeOK

\* Nobody opens and nobody is given an identity, as in every step but two.
Fades ==
  \A c \in Connection :
    /\ connections'[c].accepted = connections[c].accepted
    /\ connections'[c].reservedDeviceId = connections[c].reservedDeviceId
    /\ connections[c].closed => connections'[c].closed
    /\ ~connections'[c].closed =>
         (connections'[c].pairing \/ connections'[c].phase = "paired"
            <=> connections[c].pairing \/ connections[c].phase = "paired")
    /\ ~connections[c].accepted => connections'[c] = connections[c]

LEMMA FinishFades ==
  ASSUME LinksTypeOK, NEW gone \in SUBSET OpenConnections, Finish(gone)
  PROVE  LinksTypeOK' /\ Fades
<1>1. gone \in SUBSET Connection
  BY DEF OpenConnections
<1>2. LinksTypeOK'
  BY <1>1, FinishType
<1>3. ASSUME NEW c \in Connection
      PROVE  \/ connections'[c] = connections[c]
             \/ connections[c].accepted /\ connections'[c] = Closed(connections[c])
  BY <1>3 DEF Finish, Without, OpenConnections, Open
<1>4. \A c \in Connection : connections[c] \in Link
  BY DEF LinksTypeOK
<1> QED
  BY <1>2, <1>3, <1>4, ClosedType DEF Fades

LEMMA FadesKeepsCapacity ==
  ASSUME LinksTypeOK, LinksTypeOK', PlacesAreKept, Fades
  PROVE  PlacesAreKept'
<1>1. OpenConnections' \subseteq OpenConnections
  BY DEF Fades, OpenConnections, Open
<1>2. Holders' \subseteq Holders
  BY <1>1 DEF Fades, Holders, OpenConnections
<1>3. IsFiniteSet(OpenConnections) /\ IsFiniteSet(Holders)
  BY ServerAssumption, FS_Subset DEF OpenConnections, Holders
<1>4. Cardinality(OpenConnections') <= Cardinality(OpenConnections)
  BY <1>1, <1>3, FS_Subset
<1>5. Cardinality(Holders') <= Cardinality(Holders)
  BY <1>2, <1>3, FS_Subset
<1>6. /\ Cardinality(OpenConnections) \in Nat /\ Cardinality(OpenConnections') \in Nat
      /\ Cardinality(Holders) \in Nat /\ Cardinality(Holders') \in Nat
  BY <1>1, <1>2, <1>3, FS_Subset, FS_CardinalityType
<1>7. \A c, e \in OpenConnections' :
        c # e /\ connections'[c].reservedDeviceId # NoDevice
          => connections'[c].reservedDeviceId # connections'[e].reservedDeviceId
  BY <1>1 DEF PlacesAreKept, Fades, OpenConnections
<1>8. Cardinality(OpenConnections') <= maxConnections + 1 /\ Cardinality(Holders') <= maxConnections
  BY <1>4, <1>5, <1>6, ServerAssumption DEF PlacesAreKept
<1> QED
  BY <1>7, <1>8 DEF PlacesAreKept

LEMMA FadesKeeps ==
  ASSUME ServerInv, LinksTypeOK', LifecycleTypeOK', Fades
  PROVE  ServerInv'
<1>1. UnusedIsFresh'
  BY DEF ServerInv, UnusedIsFresh, Fades
<1>2. IdentityIsAdmitted'
  BY DEF ServerInv, IdentityIsAdmitted, Fades, OpenConnections, Open
<1> QED
  BY <1>1, <1>2, FadesKeepsCapacity DEF ServerInv

-----------------------------------------------------------------------------
(* The steps of a connection.                                              *)

\* One link changes: it stays within its limits, and fades or stays.
LEMMA OneLinkFades ==
  ASSUME LinksTypeOK, UnusedIsFresh, NEW c \in Connection, connections[c].accepted,
         NEW link \in Link,
         Len(link.inbound) <= MAX_PENDING_INBOUND_FRAMES,
         Len(link.outbound) <= MAX_PENDING_OUTBOUND_SENDS,
         link.accepted, link.reservedDeviceId = connections[c].reservedDeviceId,
         connections[c].closed => link.closed,
         ~link.closed => (link.pairing \/ link.phase = "paired"
                            <=> connections[c].pairing \/ connections[c].phase = "paired"),
         connections' = [connections EXCEPT ![c] = link], settled' \subseteq Settlement
  PROVE  LinksTypeOK' /\ Fades
<1>1. LinksTypeOK'
  BY OneLinkType
<1>2. \A e \in Connection : connections'[e] = IF e = c THEN link ELSE connections[e]
  BY DEF LinksTypeOK
<1>3. link.accepted = connections[c].accepted
  BY DEF LinksTypeOK, Link
<1> QED
  BY <1>1, <1>2, <1>3 DEF Fades

LEMMA ArrivalFades ==
  ASSUME LinksTypeOK, UnusedIsFresh, NEW c \in Connection, NEW frame \in Frame,
         FrameArrives(c, frame)
  PROVE  LinksTypeOK' /\ Fades
<1> DEFINE link == [connections[c] EXCEPT !.arrivals = @ + 1, !.inbound = Append(@, frame)]
<1>1. connections[c] \in Link /\ Open(c) /\ connections[c].arrivals < MaxArrivals
  BY DEF FrameArrives, LinksTypeOK
<1>2. CASE Finish({c})
  BY <1>1, <1>2, FinishFades DEF OpenConnections
<1>3. CASE /\ Len(connections[c].inbound) < MAX_PENDING_INBOUND_FRAMES
           /\ connections' = [connections EXCEPT ![c].arrivals = @ + 1, ![c].inbound = Append(@, frame)]
           /\ UNCHANGED settled
  <2>1. /\ Append(connections[c].inbound, frame) \in Seq(Frame)
        /\ Len(Append(connections[c].inbound, frame)) = Len(connections[c].inbound) + 1
        /\ Len(connections[c].inbound) \in Nat
    BY <1>1, AppendProperties, LenProperties DEF Link
  <2>2. connections[c].arrivals + 1 \in 0..MaxArrivals
    BY <1>1, ServerAssumption DEF Link
  <2>3. link \in Link
    BY <1>1, <2>1, <2>2 DEF Link
  <2>4. /\ link.accepted = connections[c].accepted /\ link.closed = connections[c].closed
        /\ link.reservedDeviceId = connections[c].reservedDeviceId
        /\ link.phase = connections[c].phase /\ link.pairing = connections[c].pairing
        /\ link.outbound = connections[c].outbound
        /\ Len(link.inbound) <= MAX_PENDING_INBOUND_FRAMES
    BY <1>1, <1>3, <2>1, ServerAssumption DEF Link
  <2>5. connections' = [connections EXCEPT ![c] = link]
    BY <1>1, <1>3 DEF LinksTypeOK
  <2> HIDE DEF link
  <2> QED
    BY <1>1, <1>3, <2>3, <2>4, <2>5, OneLinkFades DEF LinksTypeOK, Open
<1> QED
  BY <1>2, <1>3 DEF FrameArrives

LEMMA RoutesFades ==
  ASSUME LinksTypeOK, UnusedIsFresh, NEW c \in Connection, NEW frame, Routes(c, frame)
  PROVE  LinksTypeOK' /\ Fades
<1> DEFINE link == [connections[c] EXCEPT !.inbound = Tail(@)]
<1>1. connections[c] \in Link /\ Open(c) /\ connections[c].inbound # <<>>
  BY DEF Routes, Takes, LinksTypeOK
<1>2. /\ Tail(connections[c].inbound) \in Seq(Frame)
      /\ Len(Tail(connections[c].inbound)) = Len(connections[c].inbound) - 1
      /\ Len(connections[c].inbound) \in Nat
  BY <1>1, HeadTailProperties, LenProperties DEF Link
<1>3. link \in Link
  BY <1>1, <1>2 DEF Link
<1>4. /\ link.accepted = connections[c].accepted /\ link.closed = connections[c].closed
      /\ link.reservedDeviceId = connections[c].reservedDeviceId
      /\ link.phase = connections[c].phase /\ link.pairing = connections[c].pairing
      /\ link.outbound = connections[c].outbound
      /\ Len(link.inbound) <= MAX_PENDING_INBOUND_FRAMES
  BY <1>1, <1>2, ServerAssumption DEF Link, LinksTypeOK
<1>5. connections' = [connections EXCEPT ![c] = link] /\ UNCHANGED settled
  BY <1>1 DEF LinksTypeOK, Routes
<1> HIDE DEF link
<1> QED
  BY <1>1, <1>3, <1>4, <1>5, OneLinkFades DEF LinksTypeOK, Open

LEMMA PairingFades ==
  ASSUME LinksTypeOK, UnusedIsFresh, NEW c \in Connection, Pairs(c) \/ PairingFails(c)
  PROVE  LinksTypeOK' /\ Fades
<1>1. connections[c] \in Link /\ connections[c].pairing /\ UNCHANGED settled
  BY DEF Pairs, PairingFails, LinksTypeOK
<1>2. connections[c].accepted
  BY <1>1 DEF UnusedIsFresh, Unused
<1>3. CASE Pairs(c)
  <2> DEFINE link == [connections[c] EXCEPT !.pairing = FALSE, !.phase = IF Open(c) THEN "paired" ELSE @]
  <2>1. connections' = [connections EXCEPT ![c] = link]
    BY <1>1, <1>3 DEF LinksTypeOK, Pairs
  <2>2. link \in Link
    BY <1>1 DEF Link, Phases
  <2>3. /\ link.accepted = connections[c].accepted /\ link.closed = connections[c].closed
        /\ link.reservedDeviceId = connections[c].reservedDeviceId
        /\ ~link.closed => link.phase = "paired"
        /\ link.outbound = connections[c].outbound /\ link.inbound = connections[c].inbound
    BY <1>1, <1>2 DEF Link, Open
  <2> HIDE DEF link
  <2> QED
    BY <1>1, <1>2, <2>1, <2>2, <2>3, OneLinkFades DEF LinksTypeOK
<1>4. CASE PairingFails(c)
  <2> DEFINE link == [Closed(connections[c]) EXCEPT !.pairing = FALSE]
  <2>1. connections' = [connections EXCEPT ![c] = link]
    BY <1>1, <1>4 DEF LinksTypeOK, PairingFails
  <2>2. Closed(connections[c]) \in Link
    BY <1>1, ClosedType
  <2>3. link \in Link
    BY <2>2 DEF Link
  <2>4. /\ link.accepted = connections[c].accepted /\ link.closed
        /\ link.reservedDeviceId = connections[c].reservedDeviceId
        /\ link.outbound = <<>> /\ link.inbound = <<>>
    BY <1>1, <2>2, ClosedType DEF Link
  <2>5. Len(<<>>) <= MAX_PENDING_INBOUND_FRAMES /\ Len(<<>>) <= MAX_PENDING_OUTBOUND_SENDS
    BY ServerAssumption
  <2> HIDE DEF link
  <2> QED
    BY <1>1, <1>2, <2>1, <2>3, <2>4, <2>5, OneLinkFades DEF LinksTypeOK
<1> QED
  BY <1>3, <1>4

LEMMA RefusedType ==
  ASSUME LinksTypeOK, NEW c \in Connection, NEW b \in Bytes
  PROVE  RefusedBySend(c, b) \subseteq Settlement
<1>1. Failed(c, b) \in Settlement /\ Owed({c}) \subseteq Settlement
  BY OwedType DEF LinksTypeOK, Failed, Settlement
<1> QED
  BY <1>1 DEF RefusedBySend

\* Whoever sends, and whatever becomes of the answers.
LEMMA AfterSendFades ==
  ASSUME LinksTypeOK, UnusedIsFresh, NEW c \in Connection, NEW b \in Bytes,
         connections' = AfterSend(c, b), settled' \subseteq Settlement
  PROVE  LinksTypeOK' /\ Fades
<1>1. connections[c] \in Link
  BY DEF LinksTypeOK
<1>2. settled' \subseteq Settlement
  OBVIOUS
<1>3. CASE connections' = connections
  BY <1>2, <1>3 DEF LinksTypeOK, Fades
<1>4. CASE Paired(c) /\ connections' = Without({c})
  <2>1. Without({c}) = [connections EXCEPT ![c] = Closed(connections[c])]
    BY DEF Without, LinksTypeOK
  <2>2. connections[c].accepted /\ Len(<<>>) <= MAX_PENDING_INBOUND_FRAMES
        /\ Len(<<>>) <= MAX_PENDING_OUTBOUND_SENDS
    BY <1>4, ServerAssumption DEF Paired, Open
  <2> QED
    BY <1>1, <1>2, <1>4, <2>1, <2>2, ClosedType, OneLinkFades
<1>5. CASE /\ Paired(c) /\ ~Overflows(c)
           /\ connections' = [connections EXCEPT ![c].outbound = Append(@, b)]
  <2> DEFINE link == [connections[c] EXCEPT !.outbound = Append(@, b)]
  <2>1. /\ Append(connections[c].outbound, b) \in Seq(Bytes)
        /\ Len(Append(connections[c].outbound, b)) = Len(connections[c].outbound) + 1
        /\ Len(connections[c].outbound) \in Nat
    BY <1>1, AppendProperties, LenProperties DEF Link
  <2>2. link \in Link
    BY <1>1, <2>1 DEF Link
  <2>3. /\ link.accepted = connections[c].accepted /\ link.closed = connections[c].closed
        /\ link.reservedDeviceId = connections[c].reservedDeviceId
        /\ link.phase = connections[c].phase /\ link.pairing = connections[c].pairing
        /\ link.inbound = connections[c].inbound
        /\ Len(link.outbound) <= MAX_PENDING_OUTBOUND_SENDS
    BY <1>1, <1>5, <2>1, ServerAssumption DEF Link, Overflows
  <2>4. connections' = [connections EXCEPT ![c] = link]
    BY <1>1, <1>5 DEF LinksTypeOK
  <2> HIDE DEF link
  <2> QED
    BY <1>1, <1>2, <1>5, <2>2, <2>3, <2>4, OneLinkFades DEF LinksTypeOK, Open, Paired
<1> QED
  BY <1>3, <1>4, <1>5 DEF AfterSend

LEMMA SendFades ==
  ASSUME LinksTypeOK, UnusedIsFresh, NEW c \in Connection, NEW b \in Bytes, Send(c, b)
  PROVE  LinksTypeOK' /\ Fades
<1>1. settled' \subseteq Settlement
  BY RefusedType DEF Send, LinksTypeOK
<1> QED
  BY <1>1, AfterSendFades DEF Send

LEMMA WrittenFades ==
  ASSUME LinksTypeOK, UnusedIsFresh, NEW c \in Connection, Written(c)
  PROVE  LinksTypeOK' /\ Fades
<1> DEFINE link == [connections[c] EXCEPT !.outbound = Tail(@)]
<1>1. connections[c] \in Link /\ Open(c) /\ connections[c].outbound # <<>>
  BY DEF Written, LinksTypeOK
<1>2. /\ Tail(connections[c].outbound) \in Seq(Bytes) /\ Head(connections[c].outbound) \in Bytes
      /\ Len(Tail(connections[c].outbound)) = Len(connections[c].outbound) - 1
      /\ Len(connections[c].outbound) \in Nat
  BY <1>1, HeadTailProperties, LenProperties DEF Link
<1>3. link \in Link
  BY <1>1, <1>2 DEF Link
<1>4. /\ link.accepted = connections[c].accepted /\ link.closed = connections[c].closed
      /\ link.reservedDeviceId = connections[c].reservedDeviceId
      /\ link.phase = connections[c].phase /\ link.pairing = connections[c].pairing
      /\ link.inbound = connections[c].inbound
      /\ Len(link.outbound) <= MAX_PENDING_OUTBOUND_SENDS
  BY <1>1, <1>2, ServerAssumption DEF Link, LinksTypeOK
<1>5. connections' = [connections EXCEPT ![c] = link]
  BY <1>1 DEF LinksTypeOK, Written
<1>6. [connection |-> c, bytes |-> Head(connections[c].outbound), ok |-> TRUE] \in Settlement
  BY <1>2 DEF Settlement
<1>7. settled' \subseteq Settlement
  BY <1>6 DEF LinksTypeOK, Written
<1> HIDE DEF link
<1> QED
  BY <1>1, <1>3, <1>4, <1>5, <1>7, OneLinkFades DEF LinksTypeOK, Open

\* What a connection does, or suffers, short of being accepted and saying hello.
Ordinary(c) ==
  \/ HandshakeTimeout(c) \/ PeerCloses(c) \/ WriteFails(c) \/ Written(c)
  \/ Pairs(c) \/ PairingFails(c)
  \/ \E frame : Violates(c, frame) \/ Routes(c, frame)
  \/ \E frame \in Frame : FrameArrives(c, frame)
  \/ \E b \in Bytes : Send(c, b)

LEMMA OrdinaryFades ==
  ASSUME LinksTypeOK, UnusedIsFresh, NEW c \in Connection, Ordinary(c)
  PROVE  LinksTypeOK' /\ Fades /\ UNCHANGED lifecycleVars
<1>1. LinksTypeOK' /\ Fades
  <2>1. CASE Open(c) /\ Finish({c})
    BY <2>1, FinishFades DEF OpenConnections
  <2>2. CASE Pairs(c) \/ PairingFails(c)
    BY <2>2, PairingFades
  <2>3. CASE \E frame : Routes(c, frame)
    BY <2>3, RoutesFades
  <2>4. CASE \E frame \in Frame : FrameArrives(c, frame)
    BY <2>4, ArrivalFades
  <2>5. CASE \E b \in Bytes : Send(c, b)
    BY <2>5, SendFades
  <2>6. CASE Written(c)
    BY <2>6, WrittenFades
  <2> QED
    BY <2>1, <2>2, <2>3, <2>4, <2>5, <2>6
    DEF Ordinary, HandshakeTimeout, PeerCloses, WriteFails, Violates, Takes
<1>2. UNCHANGED lifecycleVars
  BY DEF Ordinary, HandshakeTimeout, PeerCloses, WriteFails, Violates, Written, Pairs, PairingFails,
         Routes, FrameArrives, Send
<1> QED
  BY <1>1, <1>2

-----------------------------------------------------------------------------
(* The two steps that give something away: a place, and an identity.       *)

LEMMA AcceptKeeps ==
  ASSUME ServerInv, NEW c \in Connection, Accept(c)
  PROVE  ServerInv'
<1> DEFINE link == [Unused EXCEPT !.accepted = TRUE]
<1>1. connections[c] = Unused /\ ~Open(c)
  BY DEF ServerInv, UnusedIsFresh, Accept, Unused, Open
<1>2. /\ link \in Link /\ link.accepted /\ ~link.closed /\ link.reservedDeviceId = NoDevice
      /\ link.phase = "awaiting-hello" /\ link.pairing = FALSE
      /\ link.inbound = <<>> /\ link.outbound = <<>>
  BY UnusedType DEF Unused, Link
<1>3. connections' = [connections EXCEPT ![c] = link] /\ UNCHANGED <<lifecycleVars, settled>>
  BY <1>1 DEF Accept, ServerInv, LinksTypeOK
<1> HIDE DEF link
<1>4. Len(<<>>) <= MAX_PENDING_INBOUND_FRAMES /\ Len(<<>>) <= MAX_PENDING_OUTBOUND_SENDS
  BY ServerAssumption
<1>5. LinksTypeOK' /\ LifecycleTypeOK'
  BY <1>2, <1>3, <1>4, OneLinkType DEF ServerInv, LinksTypeOK, LifecycleTypeOK, lifecycleVars
<1>6. \A e \in Connection : connections'[e] = IF e = c THEN link ELSE connections[e]
  BY <1>3 DEF ServerInv, LinksTypeOK
<1>7. OpenConnections' = OpenConnections \cup {c} /\ c \notin OpenConnections /\ Holders' = Holders
  BY <1>1, <1>2, <1>6 DEF OpenConnections, Open, Holders
<1>8. UnusedIsFresh' /\ IdentityIsAdmitted'
  BY <1>2, <1>6, <1>7 DEF ServerInv, UnusedIsFresh, IdentityIsAdmitted, OpenConnections
<1>9. PlacesAreKept'
  <2>1. IsFiniteSet(OpenConnections)
    BY ServerAssumption, FS_Subset DEF OpenConnections
  <2>2. Cardinality(OpenConnections') = Cardinality(OpenConnections) + 1
    BY <1>7, <2>1, FS_AddElement
  <2>3. Cardinality(OpenConnections') <= maxConnections + 1
    BY <2>1, <2>2, FS_CardinalityType, ServerAssumption DEF Accept
  <2>4. \A d, e \in OpenConnections' :
          d # e /\ connections'[d].reservedDeviceId # NoDevice
            => connections'[d].reservedDeviceId # connections'[e].reservedDeviceId
    BY <1>2, <1>6, <1>7 DEF ServerInv, PlacesAreKept, OpenConnections
  <2> QED
    BY <1>7, <2>3, <2>4 DEF ServerInv, PlacesAreKept
<1> QED
  BY <1>5, <1>8, <1>9 DEF ServerInv

\* A hello finishes the holders of its identity before the places are counted.
LEMMA HelloKeeps ==
  ASSUME ServerInv, NEW c \in Connection, NEW frame, Hello(c, frame)
  PROVE  ServerInv'
<1> DEFINE d == frame.device
           replaced == HoldersOf(d)
<1>1. LinksTypeOK' /\ LifecycleTypeOK'
  BY HelloType DEF ServerInv, Hello, LifecycleTypeOK, lifecycleVars
<1>2. /\ d \in Device /\ d # NoDevice /\ c \notin replaced /\ connections[c].reservedDeviceId = NoDevice
      /\ Open(c)
  BY HelloIsFirst, ServerAssumption DEF ServerInv
<1>3. replaced \subseteq OpenConnections /\ OpenConnections \subseteq Connection
  BY DEF HoldersOf, OpenConnections
<1>4. CASE Finish(replaced \cup {c})
  <2>1. replaced \cup {c} \in SUBSET OpenConnections
    BY <1>2, <1>3 DEF OpenConnections
  <2> QED
    BY <1>1, <1>4, <2>1, FinishFades, FadesKeeps DEF ServerInv
<1>5. CASE /\ ~(Cardinality(Holders \ replaced) >= maxConnections)
           /\ connections' = Reserved(Without(replaced), c, d)
  <2>1. \A e \in Connection :
          /\ e \in replaced => connections'[e] = Closed(connections[e])
          /\ e \notin replaced /\ e # c => connections'[e] = connections[e]
    BY <1>2, <1>5 DEF Reserved, Without
  <2>2. /\ connections'[c].reservedDeviceId = d /\ connections'[c].pairing
        /\ connections'[c].accepted /\ ~connections'[c].closed
    <3>1. Without(replaced)[c] = connections[c] /\ Without(replaced) \in [Connection -> Link]
      BY <1>2, <1>3, WithoutType DEF Without, ServerInv
    <3> QED
      BY <1>2, <1>5, <3>1 DEF Reserved, Link, Open
  <2>3. \A e \in Connection : /\ Closed(connections[e]).closed /\ connections[e] \in Link
                              /\ Closed(connections[e]).accepted = connections[e].accepted
    BY ClosedType DEF ServerInv, LinksTypeOK
  <2>4. OpenConnections' = OpenConnections \ replaced /\ c \in OpenConnections'
    BY <1>2, <2>1, <2>2, <2>3 DEF OpenConnections, Open
  <2>5. Holders' \subseteq (Holders \ replaced) \cup {c}
    BY <2>1, <2>4 DEF Holders, OpenConnections
  <2>6. UnusedIsFresh'
    BY <1>2, <1>3, <2>1, <2>2, <2>3 DEF ServerInv, UnusedIsFresh, OpenConnections, Open
  <2>7. IdentityIsAdmitted'
    BY <1>2, <2>1, <2>2, <2>4 DEF ServerInv, IdentityIsAdmitted, OpenConnections
  <2>8. IsFiniteSet(OpenConnections) /\ IsFiniteSet(Holders) /\ IsFiniteSet(Holders \ replaced)
    BY ServerAssumption, FS_Subset DEF OpenConnections, Holders
  <2>9. Cardinality(OpenConnections') <= maxConnections + 1
    <3>1. /\ Cardinality(OpenConnections') <= Cardinality(OpenConnections)
          /\ Cardinality(OpenConnections') \in Nat /\ Cardinality(OpenConnections) \in Nat
      BY <2>4, <2>8, FS_Subset, FS_CardinalityType
    <3> QED
      BY <3>1, ServerAssumption DEF ServerInv, PlacesAreKept
  <2>10. Cardinality(Holders') <= maxConnections
    <3> DEFINE rest == Holders \ replaced
    <3> HIDE DEF rest
    <3>1. IsFiniteSet(rest) /\ Cardinality(rest) \in Nat
      BY <2>8, FS_CardinalityType DEF rest
    <3>2. /\ Cardinality(rest \cup {c}) <= Cardinality(rest) + 1
          /\ IsFiniteSet(rest \cup {c})
      BY SMTT(30), <3>1, FS_AddElement
    <3>3. /\ Cardinality(Holders') <= Cardinality(rest \cup {c})
          /\ Cardinality(Holders') \in Nat /\ Cardinality(rest \cup {c}) \in Nat
      BY <2>5, <3>2, FS_Subset, FS_CardinalityType DEF rest
    <3>4. ~(Cardinality(rest) >= maxConnections)
      BY <1>5 DEF rest
    <3> QED
      BY <3>1, <3>2, <3>3, <3>4, ServerAssumption
  <2>11. ASSUME NEW e \in OpenConnections', NEW f \in OpenConnections', e # f,
                connections'[e].reservedDeviceId # NoDevice
         PROVE  connections'[e].reservedDeviceId # connections'[f].reservedDeviceId
    <3>1. e \in OpenConnections /\ f \in OpenConnections /\ e \notin replaced /\ f \notin replaced
      BY <2>4
    <3>2. connections[e].reservedDeviceId # d /\ connections[f].reservedDeviceId # d
      BY <3>1 DEF HoldersOf
    <3> QED
      BY <1>3, <2>1, <2>2, <2>11, <3>1, <3>2 DEF ServerInv, PlacesAreKept
  <2>12. PlacesAreKept'
    BY <2>9, <2>10, <2>11 DEF PlacesAreKept
  <2> QED
    BY <1>1, <2>6, <2>7, <2>12 DEF ServerInv
<1> QED
  BY <1>4, <1>5 DEF Hello

-----------------------------------------------------------------------------
(* Starts and stops.                                                       *)

LEMMA StopsType ==
  ASSUME LifecycleTypeOK, NEW id \in 1..MaxStops, NEW others \in SUBSET stops, Stops(id, others),
         stopped' \in 0..MaxStops
  PROVE  LifecycleTypeOK'
<1>1. listener # 0 => listener \in 1..MaxStarts
  BY ServerAssumption DEF LifecycleTypeOK
<1>2. others \subseteq [id : 1..MaxStops, awaits : {"start", "close"}, of : 1..MaxStarts]
  BY DEF LifecycleTypeOK
<1>3. stops' \subseteq [id : 1..MaxStops, awaits : {"start", "close"}, of : 1..MaxStarts]
  BY <1>1, <1>2 DEF Stops
<1> QED
  BY <1>3, ServerAssumption DEF Stops, LifecycleTypeOK, ServerStates

LEMMA LifecycleType ==
  ASSUME LifecycleTypeOK, Lifecycle
  PROVE  /\ LifecycleTypeOK'
         /\ Finish(OpenConnections) \/ UNCHANGED <<connections, settled>>
<1>1. CASE Start
  BY <1>1, ServerAssumption DEF Start, LifecycleTypeOK, ServerStates
<1>2. CASE Stop
  <2>1. stopped + 1 \in 1..MaxStops /\ stopped' = stopped + 1
    BY <1>2, ServerAssumption DEF Stop, LifecycleTypeOK
  <2>2. CASE Stops(stopped + 1, stops)
    <3>1. stopped' \in 0..MaxStops
      BY <2>1, ServerAssumption
    <3>2. LifecycleTypeOK'
      BY <2>1, <2>2, <3>1, StopsType
    <3> QED
      BY <2>2, <3>2 DEF Stops
  <2>3. CASE /\ startOperation # 0
             /\ stops' = stops \cup {[id |-> stopped + 1, awaits |-> "start", of |-> startOperation]}
             /\ UNCHANGED <<state, listener, startOperation, listening, bound, starts, connections, settled>>
    BY <2>1, <2>3, ServerAssumption DEF LifecycleTypeOK
  <2> QED
    BY <1>2, <2>2, <2>3 DEF Stop
<1>3. ASSUME NEW n \in listening, ListenEnds(n)
      PROVE  LifecycleTypeOK' /\ UNCHANGED <<connections, settled>>
  <2>1. /\ n \in 1..MaxStarts /\ n \in 0..MaxStarts
        /\ listening' \subseteq 1..MaxStarts /\ startOperation' \in 0..MaxStarts
        /\ 0 \in 0..MaxStarts /\ bound \subseteq 1..MaxStarts
    BY <1>3, ServerAssumption DEF ListenEnds, LifecycleTypeOK
  <2>2. state' \in ServerStates
    BY <1>3 DEF ListenEnds, ServerStates
  <2>3. listener' \in 0..MaxStarts /\ bound' \subseteq 1..MaxStarts
    BY <1>3, <2>1 DEF ListenEnds
  <2> QED
    BY <1>3, <2>1, <2>2, <2>3 DEF ListenEnds, LifecycleTypeOK
<1>4. ASSUME NEW s \in stops, StopResumes(s)
      PROVE  /\ LifecycleTypeOK'
             /\ Finish(OpenConnections) \/ UNCHANGED <<connections, settled>>
  <2>1. CASE Stops(s.id, stops \ {s})
    <3>1. s.id \in 1..MaxStops /\ stopped' \in 0..MaxStops
      BY <1>4 DEF LifecycleTypeOK, StopResumes
    <3> QED
      BY <2>1, <3>1, StopsType DEF Stops
  <2>2. CASE /\ stops' = stops \ {s}
             /\ UNCHANGED <<state, listener, startOperation, listening, bound, starts, connections, settled>>
    BY <1>4, <2>2 DEF LifecycleTypeOK, StopResumes
  <2> QED
    BY <1>4, <2>1, <2>2 DEF StopResumes
<1>5. ASSUME NEW s \in stops, ListenerCloses(s)
      PROVE  LifecycleTypeOK' /\ UNCHANGED <<connections, settled>>
  BY <1>5 DEF ListenerCloses, LifecycleTypeOK, ServerStates
<1> QED
  BY <1>1, <1>2, <1>3, <1>4, <1>5 DEF Lifecycle, Start

-----------------------------------------------------------------------------
(* The theorems.                                                           *)

\* What a step of the server is.
LEMMA StepIs ==
  ASSUME ServerNext
  PROVE  \/ Lifecycle
         \/ \E c \in Connection : Accept(c) \/ Ordinary(c) \/ \E frame : Hello(c, frame)
         \/ \E s \in settled : Continues(s)
BY DEF ServerNext, Ordinary, Handles

LEMMA LifecycleKeepsServer ==
  ASSUME ServerInv, Lifecycle
  PROVE  ServerInv'
<1>1. LifecycleTypeOK' /\ (Finish(OpenConnections) \/ UNCHANGED <<connections, settled>>)
  BY LifecycleType DEF ServerInv
<1>2. LinksTypeOK' /\ Fades
  BY <1>1, FinishFades DEF ServerInv, LinksTypeOK, Fades
<1> QED
  BY <1>1, <1>2, FadesKeeps

LEMMA OrdinaryKeepsServer ==
  ASSUME ServerInv, NEW c \in Connection, Ordinary(c)
  PROVE  ServerInv'
<1>1. LinksTypeOK' /\ Fades /\ UNCHANGED lifecycleVars
  BY OrdinaryFades DEF ServerInv
<1>2. LifecycleTypeOK'
  BY <1>1 DEF ServerInv, LifecycleTypeOK, lifecycleVars
<1> QED
  BY <1>1, <1>2, FadesKeeps

LEMMA RestKeepsServer ==
  ASSUME ServerInv, UNCHANGED <<lifecycleVars, connections>>, settled' \subseteq settled
  PROVE  ServerInv'
<1>1. LinksTypeOK' /\ LifecycleTypeOK' /\ Fades
  BY DEF ServerInv, LinksTypeOK, LifecycleTypeOK, lifecycleVars, Fades
<1> QED
  BY <1>1, FadesKeeps

LEMMA ServerInitInv == ServerInit => ServerInv
<1> SUFFICES ASSUME ServerInit PROVE ServerInv
  OBVIOUS
<1>1. LinksTypeOK /\ LifecycleTypeOK
  BY UnusedType, ServerAssumption DEF ServerInit, LinksTypeOK, LifecycleTypeOK, ServerStates, Unused
<1>2. OpenConnections = {} /\ Holders = {}
  BY DEF ServerInit, OpenConnections, Open, Unused, Holders
<1>3. PlacesAreKept
  BY <1>2, FS_EmptySet, ServerAssumption DEF PlacesAreKept
<1> QED
  BY <1>1, <1>2, <1>3 DEF ServerInit, ServerInv, UnusedIsFresh, IdentityIsAdmitted

LEMMA ServerInvHolds == ServerSpec => []ServerInv
<1>1. ServerInv /\ [ServerNext]_serverVars => ServerInv'
  <2> SUFFICES ASSUME ServerInv, [ServerNext]_serverVars PROVE ServerInv'
    OBVIOUS
  <2>1. CASE Lifecycle
    BY <2>1, LifecycleKeepsServer
  <2>2. ASSUME NEW c \in Connection, Accept(c) PROVE ServerInv'
    BY <2>2, AcceptKeeps
  <2>3. ASSUME NEW c \in Connection, NEW frame, Hello(c, frame) PROVE ServerInv'
    BY <2>3, HelloKeeps
  <2>4. ASSUME NEW c \in Connection, Ordinary(c) PROVE ServerInv'
    BY <2>4, OrdinaryKeepsServer
  <2>5. CASE \/ \E s \in settled : Continues(s)
             \/ UNCHANGED serverVars
    BY <2>5, RestKeepsServer DEF Continues, serverVars
  <2> QED
    BY <2>1, <2>2, <2>3, <2>4, <2>5, StepIs
<1> QED
  BY <1>1, ServerInitInv, PTL DEF ServerSpec

\* The server's state keeps its types, and no queue outgrows its limit.
THEOREM ServerTypeCorrect == ServerSpec => []ServerTypeOK
<1>1. ServerInv => ServerTypeOK
  BY DEF ServerInv, LinksTypeOK, LifecycleTypeOK, ServerTypeOK
<1> QED
  BY <1>1, ServerInvHolds, PTL

\* No two connections hold one phone's identity, no more phones hold one than there are
\* places, and one connection more at most is open: accept() and the hello, for any number
\* of places and connections.
THEOREM PlacesHold == ServerSpec => []PlacesAreKept
<1>1. ServerInv => PlacesAreKept
  BY DEF ServerInv
<1> QED
  BY <1>1, ServerInvHolds, PTL

\* A phone that comes back while its old connection is still held is admitted: its hello
\* gives up the place it then takes.
THEOREM ReconnectsAreAdmitted == ServerSpec => ReconnectIsAdmitted
<1>1. ASSUME ServerInv, NEW c \in Connection, NEW d \in Device,
             Hello(c, [type |-> "hello", device |-> d]), HoldersOf(d) # {}
      PROVE  connections'[c].pairing /\ ~connections'[c].closed
  <2> DEFINE replaced == HoldersOf(d)
  <2>1. /\ c \notin replaced /\ Open(c) /\ d # NoDevice /\ connections[c] \in Link
    BY <1>1, HelloIsFirst, ServerAssumption DEF ServerInv, LinksTypeOK
  <2>2. PICK e \in replaced : e \in Holders
    BY <1>1, <2>1 DEF HoldersOf, Holders
  <2>3. IsFiniteSet(Holders)
    BY ServerAssumption, FS_Subset DEF Holders, OpenConnections
  <2>4. ~(Cardinality(Holders \ replaced) >= maxConnections)
    <3> DEFINE fewer == Holders \ {e}
    <3> HIDE DEF fewer
    <3>1. IsFiniteSet(fewer) /\ Cardinality(fewer) = Cardinality(Holders) - 1
      BY <2>2, <2>3, FS_RemoveElement DEF fewer
    <3>2. Cardinality(Holders \ replaced) <= Cardinality(fewer)
      BY <2>2, <3>1, FS_Subset DEF fewer
    <3>3. /\ Cardinality(Holders) \in Nat /\ Cardinality(fewer) \in Nat
          /\ Cardinality(Holders \ replaced) \in Nat
      BY <2>3, <3>1, FS_CardinalityType, FS_Subset
    <3>4. Cardinality(Holders) <= maxConnections
      BY <1>1 DEF ServerInv, PlacesAreKept
    <3> QED
      BY <3>1, <3>2, <3>3, <3>4, ServerAssumption
  <2>5. connections' = Reserved(Without(replaced), c, d)
    BY <1>1, <2>4 DEF Hello
  <2>6. Without(replaced)[c] = connections[c] /\ Without(replaced) \in [Connection -> Link]
    BY <1>1, <2>1, WithoutType DEF Without, HoldersOf, OpenConnections, ServerInv
  <2> QED
    BY <2>1, <2>5, <2>6 DEF Reserved, Link, Open
<1>2. ServerInv => AdmitsReconnects
  BY <1>1 DEF AdmitsReconnects
<1>3. ServerInv /\ [ServerNext]_serverVars => [AdmitsReconnects]_serverVars
  BY <1>2
<1> QED
  BY <1>3, ServerInvHolds, PTL DEF ServerSpec, ReconnectIsAdmitted

-----------------------------------------------------------------------------
(* A stop leaves nothing, when starts and stops await a pending stop.      *)

LEMMA OpenFades ==
  ASSUME Fades, NEW c \in OpenConnections'
  PROVE  c \in OpenConnections
BY DEF Fades, OpenConnections, Open

LEMMA FinishLeavesNone ==
  ASSUME LinksTypeOK, Finish(OpenConnections)
  PROVE  OpenConnections' = {}
BY ClosedType DEF Finish, Without, OpenConnections, Open, LinksTypeOK

\* Whoever stops the server takes the stop it continues, the only one there is, with him.
LEMMA StopsKeeps ==
  ASSUME LinksTypeOK, LifecycleInv, NEW id, NEW others, Stops(id, others),
         others = {}, Stopped \/ Listening
  PROVE  LifecycleInv'
<1>1. OpenConnections' = {}
  BY FinishLeavesNone DEF Stops
<1>2. CASE Stopped
  BY <1>1, <1>2 DEF Stops, Stopped, LifecycleInv, StartsAreAwaited
<1>3. CASE Listening
  <2> DEFINE awaited == [id |-> id, awaits |-> "close", of |-> listener]
  <2>1. /\ stops' = {awaited} /\ state' = "stopping" /\ listener' = 0
        /\ listening' = {} /\ startOperation' = 0 /\ bound' = {listener}
    BY <1>3 DEF Stops, Listening
  <2>2. awaited.awaits = "close" /\ awaited.of = listener
    OBVIOUS
  <2> HIDE DEF awaited
  <2>3. Stopping' /\ (\A r, s \in stops' : r = s)
    BY <2>1, <2>2 DEF Stopping
  <2> QED
    BY <1>1, <2>3 DEF LifecycleInv
<1> QED
  BY <1>2, <1>3

LEMMA LifecycleKeeps ==
  ASSUME ServerInv, LifecycleInv, ~StopsOverlap, Lifecycle
  PROVE  LifecycleInv'
<1>1. UNCHANGED connections => OpenConnections' = OpenConnections
  BY DEF OpenConnections, Open
<1>2. CASE Start
  <2>1. Stopped /\ stops = {}
    BY <1>2 DEF Start, LifecycleInv, Starting, Listening, Stopping
  <2>2. Starting'
    BY <1>2, <2>1, ServerAssumption DEF Start, Stopped, Starting, StartsAreAwaited, ServerInv, LifecycleTypeOK
  <2> QED
    BY <1>1, <1>2, <2>1, <2>2 DEF Start, LifecycleInv
<1>3. CASE Stop
  <2>1. stops = {} /\ ~Stopped /\ ~Stopping
    BY <1>3 DEF Stop, Stopped, Stopping
  <2>2. CASE Starting
    <3>1. /\ stops' = {[id |-> stopped + 1, awaits |-> "start", of |-> startOperation]}
          /\ UNCHANGED <<state, listener, startOperation, listening, bound, connections>>
      BY <1>3, <2>1, <2>2 DEF Stop, Starting
    <3>2. Starting'
      BY <2>2, <3>1 DEF Starting, StartsAreAwaited
    <3> QED
      BY <1>1, <3>1, <3>2 DEF LifecycleInv
  <2>3. CASE Listening
    <3>1. Stops(stopped + 1, stops)
      BY <1>3, <2>3 DEF Stop, Listening
    <3> QED
      BY <2>1, <2>3, <3>1, StopsKeeps DEF ServerInv
  <2> QED
    BY <2>1, <2>2, <2>3 DEF LifecycleInv
<1>4. ASSUME NEW n \in listening, ListenEnds(n) PROVE LifecycleInv'
  <2>1. Starting /\ n = startOperation /\ listening' = {} /\ startOperation' = 0 /\ n # 0
    BY <1>4 DEF LifecycleInv, Stopped, Starting, Listening, Stopping, ListenEnds
  <2>2. UNCHANGED <<stops, connections>> /\ StartsAreAwaited'
    BY <1>4, <2>1 DEF ListenEnds, Starting, StartsAreAwaited
  <2>3. OpenConnections' = {}
    BY <1>1, <2>1, <2>2 DEF LifecycleInv, Starting
  <2>4. Stopped' \/ Listening'
    BY <1>4, <2>1, <2>2 DEF ListenEnds, Starting, Stopped, Listening
  <2> QED
    BY <2>2, <2>3, <2>4 DEF LifecycleInv
<1>5. ASSUME NEW s \in stops, StopResumes(s) PROVE LifecycleInv'
  <2>1. (Stopped \/ Listening) /\ stops \ {s} = {}
    BY <1>5 DEF LifecycleInv, Starting, Stopping, StopResumes
  <2>2. CASE Stops(s.id, stops \ {s})
    BY <2>1, <2>2, StopsKeeps DEF ServerInv
  <2>3. CASE /\ stops' = stops \ {s} /\ state = "stopped"
             /\ UNCHANGED <<state, listener, startOperation, listening, bound, starts, connections, settled>>
    <3>1. Stopped /\ stops' = {}
      BY <2>1, <2>3 DEF Listening
    <3> QED
      BY <1>1, <2>3, <3>1 DEF LifecycleInv, Stopped, StartsAreAwaited
  <2> QED
    BY <1>5, <2>2, <2>3 DEF StopResumes
<1>6. ASSUME NEW s \in stops, ListenerCloses(s) PROVE LifecycleInv'
  <2>1. Stopping /\ stops = {s} /\ bound = {s.of}
    BY <1>6 DEF LifecycleInv, Stopped, Starting, Listening, Stopping, StartsAreAwaited, ListenerCloses
  <2>2. stops' = {} /\ bound' = {} /\ state' = "stopped"
        /\ UNCHANGED <<listener, startOperation, listening, connections>>
    BY <1>6, <2>1 DEF ListenerCloses
  <2> QED
    BY <1>1, <2>1, <2>2 DEF LifecycleInv, Stopping, Stopped, StartsAreAwaited
<1> QED
  BY <1>2, <1>3, <1>4, <1>5, <1>6 DEF Lifecycle

LEMMA RestKeepsLifecycle ==
  ASSUME LifecycleInv, UNCHANGED lifecycleVars, OpenConnections' \subseteq OpenConnections \/ state = "listening"
  PROVE  LifecycleInv'
<1>1. UNCHANGED <<state, listener, startOperation, listening, bound, stops>>
  BY DEF lifecycleVars
<1>2. state' # "listening" => OpenConnections' = {}
  BY <1>1 DEF LifecycleInv
<1> QED
  BY <1>1, <1>2 DEF LifecycleInv, Stopped, Starting, Listening, Stopping, StartsAreAwaited

\* Connections are open only while the server listens, and a listener is bound that the
\* state does not tell of only while a start or a stop is pending: for any number of starts
\* and stops, each awaited before the next, that race accepts, hellos and sends.
THEOREM StopsLeaveNothing ==
  ASSUME StopsOverlap = FALSE
  PROVE  ServerSpec => []StopLeavesNothing
<1>1. ServerInit => LifecycleInv
  BY DEF ServerInit, LifecycleInv, Stopped, StartsAreAwaited, OpenConnections, Open, Unused
<1>2. ServerInv /\ LifecycleInv /\ [ServerNext]_serverVars => LifecycleInv'
  <2> SUFFICES ASSUME ServerInv, LifecycleInv, [ServerNext]_serverVars PROVE LifecycleInv'
    OBVIOUS
  <2>1. CASE Lifecycle
    BY <2>1, LifecycleKeeps
  <2>2. ASSUME NEW c \in Connection, Accept(c) PROVE LifecycleInv'
    BY <2>2, RestKeepsLifecycle DEF Accept
  <2>3. ASSUME NEW c \in Connection, NEW frame, Hello(c, frame) PROVE LifecycleInv'
    <3> DEFINE replaced == HoldersOf(frame.device)
    <3>1. replaced \in SUBSET Connection /\ connections[c].accepted = TRUE /\ ~connections[c].closed
      BY <2>3, HelloIsFirst DEF HoldersOf, OpenConnections, Open, ServerInv, LinksTypeOK, Link
    <3>2. /\ connections \in [Connection -> Link] /\ Without(replaced) \in [Connection -> Link]
          /\ Without(replaced \cup {c}) \in [Connection -> Link]
      BY <3>1, WithoutType DEF ServerInv, LinksTypeOK
    <3>3. ASSUME NEW e \in OpenConnections' PROVE e \in OpenConnections
      <4>1. connections'[e].accepted /\ ~connections'[e].closed /\ e \in Connection
        BY DEF OpenConnections, Open
      <4>2. CASE connections' = Without(replaced \cup {c})
        BY <3>2, <4>1, <4>2, ClosedType DEF Without, OpenConnections, Open
      <4>3. CASE connections' = Reserved(Without(replaced), c, frame.device)
        <5>1. CASE e = c
          BY <3>1, <5>1 DEF OpenConnections, Open
        <5>2. CASE e # c
          <6>1. connections'[e] = Without(replaced)[e]
            BY <3>2, <4>1, <4>3, <5>2 DEF Reserved
          <6> QED
            BY <3>2, <4>1, <6>1, ClosedType DEF Without, OpenConnections, Open
        <5> QED
          BY <5>1, <5>2
      <4> QED
        BY <2>3, <4>2, <4>3 DEF Hello, Finish
    <3> QED
      BY <2>3, <3>3, RestKeepsLifecycle DEF Hello
  <2>4. ASSUME NEW c \in Connection, Ordinary(c) PROVE LifecycleInv'
    <3>1. Fades /\ UNCHANGED lifecycleVars
      BY <2>4, OrdinaryFades DEF ServerInv
    <3> QED
      BY <3>1, OpenFades, RestKeepsLifecycle
  <2>5. CASE \/ \E s \in settled : Continues(s)
             \/ UNCHANGED serverVars
    <3>1. UNCHANGED connections /\ UNCHANGED lifecycleVars
      BY <2>5 DEF Continues, serverVars
    <3> QED
      BY <3>1, RestKeepsLifecycle DEF OpenConnections, Open
  <2> QED
    BY <2>1, <2>2, <2>3, <2>4, <2>5, StepIs
<1>3. LifecycleInv => StopLeavesNothing
  BY DEF LifecycleInv, StopLeavesNothing, Stopped, Starting, Listening, Stopping
<1> QED
  BY <1>1, <1>2, <1>3, ServerInvHolds, PTL DEF ServerSpec

-----------------------------------------------------------------------------
(* The flow of frames: what waits to be written on each connection (out),  *)
(* the sends whose answer is on its way (sett), the calls and what left    *)
(* last.  A step of the link changes them one after the other.             *)

FlowTypeOK(out, sett, cmds, miss, last) ==
  /\ out \in [Connection -> Seq(Frames)]
  /\ sett \subseteq [connection : Connection, bytes : Frames, ok : BOOLEAN]
  /\ cmds \in [Command -> Calls]
  /\ miss \in [Mission -> Calls]
  /\ last \in [Connection -> Frames \cup {MissionFrame({}, 0)}]

UnusedAreNew(cmds, miss) ==
  /\ \A k \in Command : cmds[k].status = "unused" => cmds[k] = NoCall
  /\ \A m \in Mission : miss[m].status = "unused" => miss[m] = NoCall

\* A frame under way on a connection is the one its call awaits there,
IsOf(b, c, cmds, miss) ==
  /\ b.part = 0 => cmds[b.call].connection = c /\ cmds[b.call].status # "unused"
  /\ b.part > 0 => miss[b.call].connection = c /\ miss[b.call].part = b.part

FramesAreOfCalls(out, sett, cmds, miss) ==
  /\ \A c \in Connection : \A i \in 1..Len(out[c]) : IsOf(out[c][i], c, cmds, miss)
  /\ \A s \in sett : IsOf(s.bytes, s.connection, cmds, miss)

\* there is one of it,
FramesAreUnique(out, sett) ==
  /\ \A c \in Connection : \A i, j \in 1..Len(out[c]) : out[c][i] = out[c][j] => i = j
  /\ \A c \in Connection : \A i \in 1..Len(out[c]) : \A s \in sett : s.bytes # out[c][i]
  /\ \A s, t \in sett : s.bytes = t.bytes => s = t

\* and a sending loop has one.
LoopsAreAwaited(out, sett, miss) ==
  \A m \in Mission : miss[m].part > 0 =>
    \/ /\ miss[m].connection \in Connection
       /\ \E i \in 1..Len(out[miss[m].connection]) :
            out[miss[m].connection][i] = MissionFrame(m, miss[m].part)
    \/ \E s \in sett : s.bytes = MissionFrame(m, miss[m].part)

\* One mission waits on a connection.
OneTransfer(miss) ==
  \A m, n \in Mission :
    miss[m].status = "waiting" /\ WaitsOn(miss[n], miss[m].connection) => m = n

\* Before a frame that is not the first of its mission, the one before it left last.
Follows(out, last) ==
  \A c \in Connection : \A i \in 1..Len(out[c]) :
    out[c][i].part > 1 =>
      /\ last[c] = MissionFrame(out[c][i].call, out[c][i].part - 1)
      /\ \A j \in 1..Len(out[c]) : j < i => out[c][j].part = 0

\* What is queued behind a frame of a mission that waits are commands,
BehindAreCommands(out, miss) ==
  \A c \in Connection : \A i, j \in 1..Len(out[c]) :
    i < j /\ out[c][i].part > 0 /\ out[c][j].part > 0
      => miss[out[c][i].call].status # "waiting"

\* and nothing else was sent since the frame it waits for left.
NothingBetween(out, sett, miss, last) ==
  \A s \in sett : s.bytes.part > 0 /\ miss[s.bytes.call].status = "waiting" =>
    /\ last[s.connection] = s.bytes
    /\ \A i \in 1..Len(out[s.connection]) : out[s.connection][i].part = 0

FlowInv(out, sett, cmds, miss, last) ==
  /\ FlowTypeOK(out, sett, cmds, miss, last)
  /\ UnusedAreNew(cmds, miss)
  /\ FramesAreOfCalls(out, sett, cmds, miss)
  /\ FramesAreUnique(out, sett)
  /\ LoopsAreAwaited(out, sett, miss)
  /\ OneTransfer(miss)
  /\ Follows(out, last)
  /\ BehindAreCommands(out, miss)
  /\ NothingBetween(out, sett, miss, last)

-----------------------------------------------------------------------------
(* Frames                                                                  *)

LEMMA FrameIs ==
  ASSUME NEW b \in Frames
  PROVE  /\ b = MissionFrame(b.call, b.part) /\ b.part \in Nat
         /\ b.part = 0 => b.call \in Command /\ b = CommandFrame(b.call)
         /\ b.part > 0 => b.call \in Mission /\ b.part \in 1..LastPart
BY LinkAssumption DEF Frames, MissionFrame, CommandFrame, LastPart

LEMMA FrameType ==
  /\ \A k \in Command : CommandFrame(k) \in Frames
  /\ \A m \in Mission, i \in 1..LastPart : MissionFrame(m, i) \in Frames
BY DEF Frames, MissionFrame, CommandFrame

LEMMA AppendIs ==
  ASSUME NEW q \in Seq(Frames), NEW b \in Frames
  PROVE  /\ Append(q, b) \in Seq(Frames)
         /\ Len(q) \in Nat /\ Len(Append(q, b)) = Len(q) + 1
         /\ \A i \in 1..Len(q) : Append(q, b)[i] = q[i] /\ q[i] \in Frames
         /\ Append(q, b)[Len(q) + 1] = b
OBVIOUS

LEMMA TailIs ==
  ASSUME NEW q \in Seq(Frames), q # <<>>
  PROVE  /\ Tail(q) \in Seq(Frames) /\ Head(q) \in Frames /\ Head(q) = q[1]
         /\ Len(q) \in Nat /\ Len(q) > 0 /\ Len(Tail(q)) = Len(q) - 1
         /\ \A i \in 1..Len(Tail(q)) : Tail(q)[i] = q[i + 1]
         /\ \A i \in 1..Len(q) : q[i] \in Frames
OBVIOUS

\* What a frame under way says, spelled out.
LEMMA UnderWay ==
  ASSUME NEW out, NEW sett, NEW cmds, NEW miss, NEW last, FlowInv(out, sett, cmds, miss, last)
  PROVE  /\ \A c \in Connection : \A i \in 1..Len(out[c]) : out[c][i] \in Frames
         /\ \A s \in sett : s.bytes \in Frames /\ s.connection \in Connection
BY DEF FlowInv, FlowTypeOK

-----------------------------------------------------------------------------
(* Connections close.                                                      *)

CutOut(out, gone) == [c \in Connection |-> IF c \in gone THEN <<>> ELSE out[c]]
OwedOf(out, gone) == UNION {{Failed(c, out[c][i]) : i \in 1..Len(out[c])} : c \in gone}
CancelledOn(calls, gone) ==
  [k \in DOMAIN calls |->
     IF calls[k].status = "waiting" /\ calls[k].connection \in gone
     THEN [calls[k] EXCEPT !.status = "disconnected"] ELSE calls[k]]

\* What a cancellation leaves alone, and what it ends.
LEMMA CancelledIs ==
  ASSUME NEW S, NEW calls \in [S -> Calls], NEW gone
  PROVE  /\ CancelledOn(calls, gone) \in [S -> Calls]
         /\ \A k \in S : LET call == CancelledOn(calls, gone)[k]
                         IN  /\ call.connection = calls[k].connection /\ call.part = calls[k].part
                             /\ call.status = "waiting"
                                  <=> calls[k].status = "waiting" /\ calls[k].connection \notin gone
                             /\ call.status # "waiting" \/ call.status = calls[k].status
                             /\ call.status = "unused" <=> calls[k].status = "unused"
                             /\ call.status = "unused" => call = calls[k]
                             /\ call.status \in Over
                                  <=> \/ calls[k].status \in Over
                                      \/ calls[k].status = "waiting" /\ calls[k].connection \in gone
<1>1. ASSUME NEW call \in Calls
      PROVE  /\ [call EXCEPT !.status = "disconnected"] \in Calls
             /\ [call EXCEPT !.status = "disconnected"].connection = call.connection
             /\ [call EXCEPT !.status = "disconnected"].part = call.part
             /\ [call EXCEPT !.status = "disconnected"].status = "disconnected"
  BY DEF Calls, Over
<1> QED
  BY <1>1 DEF CancelledOn, Over

LEMMA FlowCut ==
  ASSUME NEW out, NEW sett, NEW cmds, NEW miss, NEW last,
         FlowInv(out, sett, cmds, miss, last), NEW gone \in SUBSET Connection
  PROVE  FlowInv(CutOut(out, gone), sett \cup OwedOf(out, gone),
                 CancelledOn(cmds, gone), CancelledOn(miss, gone), last)
<1> DEFINE out2 == CutOut(out, gone)
           owed == OwedOf(out, gone)
           cmds2 == CancelledOn(cmds, gone)
           miss2 == CancelledOn(miss, gone)
<1>1. /\ out \in [Connection -> Seq(Frames)] /\ cmds \in [Command -> Calls] /\ miss \in [Mission -> Calls]
      /\ sett \subseteq [connection : Connection, bytes : Frames, ok : BOOLEAN]
  BY DEF FlowInv, FlowTypeOK
<1>2. \A c \in Connection : out2[c] = IF c \in gone THEN <<>> ELSE out[c]
  BY DEF CutOut
<1>3. ASSUME NEW s \in owed
      PROVE  /\ s.connection \in gone /\ ~s.ok
             /\ \E i \in 1..Len(out[s.connection]) : s = Failed(s.connection, out[s.connection][i])
             /\ s.bytes \in Frames /\ s \in [connection : Connection, bytes : Frames, ok : BOOLEAN]
  <2>1. PICK c \in gone : \E i \in 1..Len(out[c]) : s = Failed(c, out[c][i])
    BY DEF OwedOf
  <2>2. PICK i \in 1..Len(out[c]) : s = Failed(c, out[c][i])
    BY <2>1
  <2>3. c \in Connection /\ out[c][i] \in Frames
    BY <1>1, <2>2
  <2>4. s.connection = c /\ s.bytes = out[c][i] /\ s.ok = FALSE
    BY <2>2 DEF Failed
  <2>5. s \in [connection : Connection, bytes : Frames, ok : BOOLEAN]
    BY <2>2, <2>3 DEF Failed
  <2> QED
    BY <2>2, <2>3, <2>4, <2>5
<1>4. \A c \in gone : \A i \in 1..Len(out[c]) : Failed(c, out[c][i]) \in owed
  BY DEF OwedOf
<1>5. /\ cmds2 \in [Command -> Calls] /\ miss2 \in [Mission -> Calls]
      /\ \A k \in Command : cmds2[k].connection = cmds[k].connection
      /\ \A m \in Mission : /\ miss2[m].connection = miss[m].connection /\ miss2[m].part = miss[m].part
                            /\ miss2[m].status = "waiting"
                                 <=> miss[m].status = "waiting" /\ miss[m].connection \notin gone
  BY <1>1, CancelledIs
<1>6. /\ \A k \in Command : cmds2[k].status = "unused" => cmds2[k] = cmds[k]
      /\ \A m \in Mission : miss2[m].status = "unused" => miss2[m] = miss[m]
  BY <1>1, CancelledIs
<1>7. /\ \A c \in Connection : \A i \in 1..Len(out[c]) : out[c][i] \in Frames
      /\ \A s \in sett : s.bytes \in Frames /\ s.connection \in Connection
  BY UnderWay
<1>8. \A b \in Frames : \A c : IsOf(b, c, cmds, miss) => IsOf(b, c, cmds2, miss2)
  BY <1>5, <1>6, FrameIs DEF IsOf
<1> HIDE DEF out2, owed, cmds2, miss2
<1>9. FlowTypeOK(out2, sett \cup owed, cmds2, miss2, last) /\ UnusedAreNew(cmds2, miss2)
  <2>1. out2 \in [Connection -> Seq(Frames)]
    BY <1>1, EmptySeq DEF CutOut, out2
  <2> QED
    BY <2>1, <1>1, <1>3, <1>5, <1>6 DEF FlowInv, FlowTypeOK, UnusedAreNew
<1>10. ASSUME NEW c \in Connection, NEW i \in 1..Len(out2[c])
       PROVE  c \notin gone /\ out2[c] = out[c] /\ i \in 1..Len(out[c])
  BY <1>2
<1>11. FramesAreOfCalls(out2, sett \cup owed, cmds2, miss2)
  <2>1. ASSUME NEW s \in owed PROVE IsOf(s.bytes, s.connection, cmds, miss)
    BY <1>3 DEF Failed, FlowInv, FramesAreOfCalls
  <2> QED
    BY <2>1, <1>3, <1>7, <1>8, <1>10 DEF FlowInv, FramesAreOfCalls
<1>12. \A s \in owed : \A t \in sett : s.bytes # t.bytes
  BY <1>3 DEF Failed, FlowInv, FramesAreUnique
<1>13. ASSUME NEW s \in owed, NEW t \in owed, s.bytes = t.bytes PROVE s = t
  <2>1. s.connection = t.connection
    BY SMTT(30), <1>3, <1>13, <1>7, FrameIs DEF Failed, FlowInv, FramesAreOfCalls, IsOf
  <2> QED
    BY <2>1, <1>3, <1>13 DEF Failed, FlowInv, FramesAreUnique
<1>14. ASSUME NEW c \in Connection, NEW i \in 1..Len(out2[c]), NEW s \in owed
       PROVE  s.bytes # out2[c][i]
  <2>1. c \notin gone /\ IsOf(out[c][i], c, cmds, miss) /\ out[c][i] \in Frames
    BY <1>7, <1>10 DEF FlowInv, FramesAreOfCalls
  <2>2. IsOf(s.bytes, s.connection, cmds, miss) /\ s.connection \in gone
    BY <1>3 DEF Failed, FlowInv, FramesAreOfCalls
  <2> QED
    BY <2>1, <2>2, <1>10, FrameIs DEF IsOf
<1>15. FramesAreUnique(out2, sett \cup owed)
  BY <1>10, <1>12, <1>13, <1>14 DEF FlowInv, FramesAreUnique
<1>16. LoopsAreAwaited(out2, sett \cup owed, miss2)
  <2> SUFFICES ASSUME NEW m \in Mission, miss2[m].part > 0
               PROVE  \/ /\ miss2[m].connection \in Connection
                         /\ \E i \in 1..Len(out2[miss2[m].connection]) :
                              out2[miss2[m].connection][i] = MissionFrame(m, miss2[m].part)
                      \/ \E s \in sett \cup owed : s.bytes = MissionFrame(m, miss2[m].part)
    BY DEF LoopsAreAwaited
  <2> DEFINE c == miss[m].connection
  <2>1. CASE \E s \in sett : s.bytes = MissionFrame(m, miss[m].part)
    BY <1>5, <2>1
  <2>2. CASE c \in Connection /\ \E i \in 1..Len(out[c]) : out[c][i] = MissionFrame(m, miss[m].part)
    <3>1. CASE c \in gone
      <4>1. PICK i \in 1..Len(out[c]) : out[c][i] = MissionFrame(m, miss[m].part)
        BY <2>2
      <4>2. Failed(c, out[c][i]) \in owed /\ Failed(c, out[c][i]).bytes = out[c][i]
        BY <1>4, <3>1 DEF Failed
      <4> QED
        BY <1>5, <4>1, <4>2
    <3>2. CASE c \notin gone
      BY <1>2, <1>5, <2>2, <3>2
    <3> QED
      BY <3>1, <3>2
  <2> QED
    BY <1>5, <2>1, <2>2 DEF FlowInv, LoopsAreAwaited
<1>17. OneTransfer(miss2)
  BY <1>5 DEF FlowInv, OneTransfer, WaitsOn
<1>18. Follows(out2, last)
  BY <1>2, <1>10 DEF FlowInv, Follows
<1>19. BehindAreCommands(out2, miss2)
  BY SMTT(30), <1>5, <1>7, <1>10, FrameIs DEF FlowInv, BehindAreCommands
<1>20. NothingBetween(out2, sett \cup owed, miss2, last)
  <2> SUFFICES ASSUME NEW s \in sett \cup owed, s.bytes.part > 0, miss2[s.bytes.call].status = "waiting"
               PROVE  /\ last[s.connection] = s.bytes
                      /\ \A i \in 1..Len(out2[s.connection]) : out2[s.connection][i].part = 0
    BY DEF NothingBetween
  <2>1. s.bytes \in Frames /\ s.bytes.call \in Mission /\ s.connection \in Connection
    BY <1>3, <1>7, FrameIs
  <2>2. miss[s.bytes.call].status = "waiting" /\ miss[s.bytes.call].connection \notin gone
    BY <1>5, <2>1
  <2>3. miss[s.bytes.call].connection = s.connection
    BY <1>3 DEF Failed, FlowInv, FramesAreOfCalls, IsOf
  <2>4. s \in sett
    BY <1>3, <2>2, <2>3
  <2> QED
    BY <1>2, <2>1, <2>2, <2>3, <2>4 DEF FlowInv, NothingBetween
<1> QED
  BY <1>9, <1>11, <1>15, <1>16, <1>17, <1>18, <1>19, <1>20 DEF FlowInv, out2, owed, cmds2, miss2

-----------------------------------------------------------------------------
(* A frame is sent.                                                        *)

Appended(out, c, b) == [out EXCEPT ![c] = Append(@, b)]

\* The frame is new, its call awaits it, and if it is a mission's, that mission is the one
\* that waits on the connection, and the frame before it left last.
Sends(out, sett2, cmds2, miss2, last, c, b) ==
  /\ b \in Frames /\ IsOf(b, c, cmds2, miss2)
  /\ \A e \in Connection : \A i \in 1..Len(out[e]) :
       out[e][i] # b /\ IsOf(out[e][i], e, cmds2, miss2)
  /\ \A s \in sett2 : s.bytes # b /\ IsOf(s.bytes, s.connection, cmds2, miss2)
  /\ b.part > 0 =>
       /\ miss2[b.call].status = "waiting"
       /\ \A i \in 1..Len(out[c]) : out[c][i].part > 0 =>
            b.part = 1 /\ miss2[out[c][i].call].status # "waiting"
  /\ b.part > 1 => last[c] = MissionFrame(b.call, b.part - 1)

\* The other missions are as before, and await what they did.
OthersAwait(sett, sett2, miss, miss2, c, b) ==
  \A m \in Mission :
    \/ miss2[m] = miss[m] /\ \A s \in sett \ sett2 : s.bytes # MissionFrame(m, miss[m].part)
    \/ m = b.call /\ b.part > 0

LEMMA FlowAppend ==
  ASSUME NEW out, NEW sett, NEW cmds, NEW miss, NEW last,
         FlowInv(out, sett, cmds, miss, last),
         NEW sett2 \in SUBSET sett, NEW cmds2 \in [Command -> Calls], NEW miss2 \in [Mission -> Calls],
         NEW c \in Connection, NEW b,
         UnusedAreNew(cmds2, miss2), OneTransfer(miss2),
         Sends(out, sett2, cmds2, miss2, last, c, b), OthersAwait(sett, sett2, miss, miss2, c, b)
  PROVE  FlowInv(Appended(out, c, b), sett2, cmds2, miss2, last)
<1> DEFINE out2 == Appended(out, c, b)
<1>1. /\ out \in [Connection -> Seq(Frames)] /\ b \in Frames
      /\ sett \subseteq [connection : Connection, bytes : Frames, ok : BOOLEAN]
  BY DEF FlowInv, FlowTypeOK, Sends
<1>2. out2 \in [Connection -> Seq(Frames)] /\ \A e \in Connection : e # c => out2[e] = out[e]
  BY <1>1, AppendIs DEF Appended
<1>3. out2[c] = Append(out[c], b)
  BY <1>1 DEF Appended
<1>4. /\ Len(out[c]) \in Nat /\ Len(out2[c]) = Len(out[c]) + 1 /\ out2[c][Len(out[c]) + 1] = b
      /\ \A i \in 1..Len(out[c]) : out2[c][i] = out[c][i]
  BY <1>1, <1>3, AppendIs
<1> HIDE DEF out2
<1>5. ASSUME NEW e \in Connection, NEW i \in 1..Len(out2[e])
      PROVE  \/ i \in 1..Len(out[e]) /\ out2[e][i] = out[e][i]
             \/ e = c /\ i = Len(out[c]) + 1 /\ out2[e][i] = b
  BY <1>2, <1>4
<1>6. /\ \A e \in Connection : \A i \in 1..Len(out[e]) : out[e][i] \in Frames
      /\ \A s \in sett : s.bytes \in Frames /\ s.connection \in Connection
  BY UnderWay
<1>7. FlowTypeOK(out2, sett2, cmds2, miss2, last)
  BY <1>1, <1>2 DEF FlowInv, FlowTypeOK
<1>8. FramesAreOfCalls(out2, sett2, cmds2, miss2)
  BY <1>5 DEF FramesAreOfCalls, Sends
<1>9. FramesAreUnique(out2, sett2)
  <2>1. ASSUME NEW e \in Connection, NEW i \in 1..Len(out2[e]), NEW j \in 1..Len(out2[e]),
               out2[e][i] = out2[e][j]
        PROVE  i = j
    <3>1. CASE i \in 1..Len(out[e]) /\ j \in 1..Len(out[e])
      <4>1. out2[e][i] = out[e][i] /\ out2[e][j] = out[e][j]
        BY <1>2, <1>4, <3>1
      <4> QED
        BY <2>1, <3>1, <4>1 DEF FlowInv, FramesAreUnique
    <3>2. CASE e = c /\ i = Len(out[c]) + 1 /\ j = Len(out[c]) + 1
      BY <3>2
    <3>3. CASE e = c /\ i \in 1..Len(out[c]) /\ j = Len(out[c]) + 1
      BY <1>4, <2>1, <3>3 DEF Sends
    <3>4. CASE e = c /\ j \in 1..Len(out[c]) /\ i = Len(out[c]) + 1
      BY <1>4, <2>1, <3>4 DEF Sends
    <3> QED
      BY <1>5, <3>1, <3>2, <3>3, <3>4
  <2>2. ASSUME NEW e \in Connection, NEW i \in 1..Len(out2[e]), NEW s \in sett2
        PROVE  s.bytes # out2[e][i]
    BY SMTT(30), <1>5 DEF FlowInv, FramesAreUnique, Sends
  <2> QED
    BY <2>1, <2>2 DEF FlowInv, FramesAreUnique
<1>10. LoopsAreAwaited(out2, sett2, miss2)
  <2> SUFFICES ASSUME NEW m \in Mission, miss2[m].part > 0
               PROVE  \/ /\ miss2[m].connection \in Connection
                         /\ \E i \in 1..Len(out2[miss2[m].connection]) :
                              out2[miss2[m].connection][i] = MissionFrame(m, miss2[m].part)
                      \/ \E s \in sett2 : s.bytes = MissionFrame(m, miss2[m].part)
    BY DEF LoopsAreAwaited
  <2>1. CASE m = b.call /\ b.part > 0
    <3>1. miss2[m].connection = c /\ b = MissionFrame(m, miss2[m].part)
      BY <1>1, <2>1, FrameIs DEF Sends, IsOf
    <3> QED
      BY <1>4, <3>1
  <2>2. CASE miss2[m] = miss[m] /\ \A s \in sett \ sett2 : s.bytes # MissionFrame(m, miss[m].part)
    <3>1. CASE \E s \in sett : s.bytes = MissionFrame(m, miss[m].part)
      BY <2>2, <3>1
    <3>2. CASE /\ miss[m].connection \in Connection
               /\ \E i \in 1..Len(out[miss[m].connection]) :
                    out[miss[m].connection][i] = MissionFrame(m, miss[m].part)
      <4>1. PICK i \in 1..Len(out[miss[m].connection]) :
                   out[miss[m].connection][i] = MissionFrame(m, miss[m].part)
        BY <3>2
      <4>2. i \in 1..Len(out2[miss[m].connection]) /\ out2[miss[m].connection][i] = out[miss[m].connection][i]
        <5>1. CASE miss[m].connection = c
          BY <1>4, <4>1, <5>1
        <5>2. CASE miss[m].connection # c
          BY <1>2, <3>2, <4>1, <5>2
        <5> QED
          BY <5>1, <5>2
      <4> QED
        BY <2>2, <3>2, <4>1, <4>2
    <3> QED
      BY <2>2, <3>1, <3>2 DEF FlowInv, LoopsAreAwaited
  <2> QED
    BY <2>1, <2>2 DEF OthersAwait
\* Whoever is under way is not the mission of the new frame.
<1>11. ASSUME NEW f \in Frames, NEW e, f.part > 0, IsOf(f, e, cmds2, miss2), f # b
       PROVE  ~(f.call = b.call /\ b.part > 0) /\ miss2[f.call] = miss[f.call]
  <2>1. f.call \in Mission /\ f = MissionFrame(f.call, f.part) /\ b = MissionFrame(b.call, b.part)
    BY <1>1, <1>11, FrameIs
  <2>2. ~(f.call = b.call /\ b.part > 0)
    BY <1>11, <2>1 DEF IsOf, Sends
  <2> QED
    BY <2>1, <2>2 DEF OthersAwait
<1>12. Follows(out2, last)
  <2> SUFFICES ASSUME NEW e \in Connection, NEW i \in 1..Len(out2[e]), out2[e][i].part > 1
               PROVE  /\ last[e] = MissionFrame(out2[e][i].call, out2[e][i].part - 1)
                      /\ \A j \in 1..Len(out2[e]) : j < i => out2[e][j].part = 0
    BY DEF Follows
  <2>1. CASE i \in 1..Len(out[e]) /\ out2[e][i] = out[e][i]
    <3>1. \A j \in 1..Len(out2[e]) : j < i => j \in 1..Len(out[e]) /\ out2[e][j] = out[e][j]
      BY <1>2, <1>4, <2>1
    <3> QED
      BY <2>1, <3>1 DEF FlowInv, Follows
  <2>2. CASE e = c /\ i = Len(out[c]) + 1 /\ out2[e][i] = b
    <3>1. \A j \in 1..Len(out2[e]) : j < i => j \in 1..Len(out[c]) /\ out2[e][j] = out[c][j]
      BY <1>4, <2>2
    <3>2. \A j \in 1..Len(out[c]) : out[c][j].part = 0
      BY <1>1, <1>6, <2>2, FrameIs DEF Sends
    <3> QED
      BY <1>1, <2>2, <3>1, <3>2, FrameIs DEF Sends
  <2> QED
    BY <1>5, <2>1, <2>2
<1>13. BehindAreCommands(out2, miss2)
  <2> SUFFICES ASSUME NEW e \in Connection, NEW i \in 1..Len(out2[e]), NEW j \in 1..Len(out2[e]),
                      i < j, out2[e][i].part > 0, out2[e][j].part > 0
               PROVE  miss2[out2[e][i].call].status # "waiting"
    BY DEF BehindAreCommands
  <2>1. i \in 1..Len(out[e]) /\ out2[e][i] = out[e][i] /\ out[e][i] \in Frames
    <3>1. CASE e = c
      BY <1>4, <1>6, <3>1
    <3>2. CASE e # c
      BY <1>2, <1>6, <3>2
    <3> QED
      BY <3>1, <3>2
  <2>2. miss2[out[e][i].call] = miss[out[e][i].call]
    BY <1>11, <2>1 DEF Sends
  <2>3. CASE j \in 1..Len(out[e]) /\ out2[e][j] = out[e][j]
    BY <2>1, <2>2, <2>3 DEF FlowInv, BehindAreCommands
  <2>4. CASE e = c /\ out2[e][j] = b
    BY <2>1, <2>4 DEF Sends
  <2> QED
    BY <1>5, <2>3, <2>4
<1>14. NothingBetween(out2, sett2, miss2, last)
  <2> SUFFICES ASSUME NEW s \in sett2, s.bytes.part > 0, miss2[s.bytes.call].status = "waiting"
               PROVE  /\ last[s.connection] = s.bytes
                      /\ \A i \in 1..Len(out2[s.connection]) : out2[s.connection][i].part = 0
    BY DEF NothingBetween
  <2>1. /\ s.bytes \in Frames /\ s.bytes.call \in Mission /\ s.connection \in Connection
        /\ miss2[s.bytes.call].connection = s.connection
        /\ ~(s.bytes.call = b.call /\ b.part > 0) /\ miss2[s.bytes.call] = miss[s.bytes.call]
    <3>1. s.bytes \in Frames /\ s.bytes.call \in Mission /\ s.connection \in Connection
      BY <1>6, FrameIs
    <3>2. s.bytes # b /\ IsOf(s.bytes, s.connection, cmds2, miss2)
      BY DEF Sends
    <3>3. ~(s.bytes.call = b.call /\ b.part > 0) /\ miss2[s.bytes.call] = miss[s.bytes.call]
      BY <1>11, <3>1, <3>2
    <3> QED
      BY <3>1, <3>2, <3>3 DEF IsOf
  <2>2. /\ last[s.connection] = s.bytes
        /\ \A i \in 1..Len(out[s.connection]) : out[s.connection][i].part = 0
    BY <2>1 DEF FlowInv, NothingBetween
  <2>3. s.connection = c => b.part = 0
    <3> SUFFICES ASSUME s.connection = c, b.part # 0 PROVE FALSE
      OBVIOUS
    <3>1. b.part > 0 /\ b.call \in Mission
      BY <1>1, FrameIs
    <3>2. miss2[b.call].connection = c /\ miss2[b.call].status = "waiting"
      BY <3>1 DEF Sends, IsOf
    <3> QED
      BY <2>1, <3>1, <3>2 DEF OneTransfer, WaitsOn
  <2> QED
    BY <1>5, <2>1, <2>2, <2>3
<1> QED
  BY <1>7, <1>8, <1>9, <1>10, <1>12, <1>13, <1>14 DEF FlowInv, out2

\* sendCommand: a new command.
LEMMA FlowCommand ==
  ASSUME NEW out, NEW sett, NEW cmds, NEW miss, NEW last,
         FlowInv(out, sett, cmds, miss, last),
         NEW k \in Command, cmds[k].status = "unused", NEW c \in Connection
  PROVE  FlowInv(Appended(out, c, CommandFrame(k)), sett,
                 [cmds EXCEPT ![k] = [status |-> "waiting", connection |-> c, part |-> 0]], miss, last)
<1> DEFINE call == [status |-> "waiting", connection |-> c, part |-> 0]
           cmds2 == [cmds EXCEPT ![k] = call]
           b == CommandFrame(k)
<1>1. cmds \in [Command -> Calls] /\ miss \in [Mission -> Calls] /\ b \in Frames /\ b.part = 0 /\ b.call = k
  BY FrameType DEF FlowInv, FlowTypeOK, CommandFrame
<1>2. call \in Calls /\ call.status = "waiting" /\ call.connection = c
  <2>1. 0 \in 0..LastPart
    BY LinkAssumption DEF LastPart
  <2> QED
    BY <2>1 DEF Calls
<1> HIDE DEF call, b
<1>3. cmds2 \in [Command -> Calls] /\ cmds2[k] = call /\ \A n \in Command : n # k => cmds2[n] = cmds[n]
  BY <1>1, <1>2
<1> HIDE DEF cmds2
<1>4. UnusedAreNew(cmds2, miss) /\ OneTransfer(miss) /\ OthersAwait(sett, sett, miss, miss, c, b)
  BY <1>2, <1>3 DEF FlowInv, UnusedAreNew, OthersAwait
<1>5. ASSUME NEW f \in Frames, NEW e, IsOf(f, e, cmds, miss)
      PROVE  f # b /\ IsOf(f, e, cmds2, miss)
  BY <1>1, <1>3, <1>5, FrameIs DEF IsOf
<1>6. Sends(out, sett, cmds2, miss, last, c, b)
  <2>1. /\ \A e \in Connection : \A i \in 1..Len(out[e]) : out[e][i] \in Frames /\ IsOf(out[e][i], e, cmds, miss)
        /\ \A s \in sett : s.bytes \in Frames /\ IsOf(s.bytes, s.connection, cmds, miss)
    BY UnderWay DEF FlowInv, FramesAreOfCalls
  <2>2. IsOf(b, c, cmds2, miss)
    BY <1>1, <1>2, <1>3 DEF IsOf
  <2> QED
    BY <1>1, <1>5, <2>1, <2>2 DEF Sends
<1> QED
  BY <1>1, <1>3, <1>4, <1>6, FlowAppend DEF call, cmds2, b

\* sendMission: a new mission, while no other waits on the connection.
LEMMA FlowMission ==
  ASSUME NEW out, NEW sett, NEW cmds, NEW miss, NEW last,
         FlowInv(out, sett, cmds, miss, last),
         NEW m \in Mission, miss[m].status = "unused", NEW c \in Connection,
         \A n \in Mission : ~WaitsOn(miss[n], c)
  PROVE  FlowInv(Appended(out, c, MissionFrame(m, 1)), sett, cmds,
                 [miss EXCEPT ![m] = [status |-> "waiting", connection |-> c, part |-> 1]], last)
<1> DEFINE call == [status |-> "waiting", connection |-> c, part |-> 1]
           miss2 == [miss EXCEPT ![m] = call]
           b == MissionFrame(m, 1)
<1>1. /\ cmds \in [Command -> Calls] /\ miss \in [Mission -> Calls] /\ b \in Frames
      /\ b.part = 1 /\ b.call = m /\ miss[m].part = 0
  BY FrameType, LinkAssumption DEF FlowInv, FlowTypeOK, MissionFrame, UnusedAreNew, NoCall, LastPart
<1>2. call \in Calls /\ call.status = "waiting" /\ call.connection = c /\ call.part = 1
  BY LinkAssumption DEF Calls, NoCall, LastPart
<1> HIDE DEF call, b
<1>3. miss2 \in [Mission -> Calls] /\ miss2[m] = call /\ \A n \in Mission : n # m => miss2[n] = miss[n]
  BY <1>1, <1>2
<1> HIDE DEF miss2
<1>4. UnusedAreNew(cmds, miss2) /\ OneTransfer(miss2) /\ OthersAwait(sett, sett, miss, miss2, c, b)
  <2>1. UnusedAreNew(cmds, miss2)
    BY <1>2, <1>3 DEF FlowInv, UnusedAreNew
  <2>2. OneTransfer(miss2)
    BY <1>2, <1>3 DEF FlowInv, OneTransfer, WaitsOn
  <2> QED
    BY <1>1, <1>3, <2>1, <2>2 DEF OthersAwait
<1>5. ASSUME NEW f \in Frames, NEW e, IsOf(f, e, cmds, miss)
      PROVE  f # b /\ IsOf(f, e, cmds, miss2) /\ (f.part > 0 => f.call # m /\ f.call \in Mission)
  BY <1>1, <1>3, <1>5, FrameIs DEF IsOf
<1>6. Sends(out, sett, cmds, miss2, last, c, b)
  <2>1. /\ \A e \in Connection : \A i \in 1..Len(out[e]) : out[e][i] \in Frames /\ IsOf(out[e][i], e, cmds, miss)
        /\ \A s \in sett : s.bytes \in Frames /\ IsOf(s.bytes, s.connection, cmds, miss)
    BY UnderWay DEF FlowInv, FramesAreOfCalls
  <2>2. IsOf(b, c, cmds, miss2)
    BY <1>1, <1>2, <1>3 DEF IsOf
  <2>3. ASSUME NEW i \in 1..Len(out[c]), out[c][i].part > 0
        PROVE  miss2[out[c][i].call].status # "waiting"
    <3> DEFINE n == out[c][i].call
    <3>1. out[c][i] \in Frames /\ IsOf(out[c][i], c, cmds, miss)
      BY <2>1
    <3>2. n # m /\ n \in Mission
      BY <1>5, <2>3, <3>1
    <3>3. miss2[n] = miss[n] /\ miss[n].connection = c
      BY <1>3, <2>3, <3>1, <3>2 DEF IsOf
    <3> QED
      BY <3>2, <3>3 DEF WaitsOn
  <2> QED
    BY <1>1, <1>2, <1>3, <1>5, <2>1, <2>2, <2>3 DEF Sends
<1> QED
  BY <1>1, <1>3, <1>4, <1>6, FlowAppend DEF call, miss2, b

\* The sending loop continues with the next frame.
LEMMA FlowNext ==
  ASSUME NEW out, NEW sett, NEW cmds, NEW miss, NEW last,
         FlowInv(out, sett, cmds, miss, last),
         NEW s \in sett, s.bytes.part > 0, s.bytes.part < LastPart, miss[s.bytes.call].status = "waiting"
  PROVE  FlowInv(Appended(out, s.connection, MissionFrame(s.bytes.call, s.bytes.part + 1)), sett \ {s},
                 cmds, [miss EXCEPT ![s.bytes.call].part = s.bytes.part + 1], last)
<1> DEFINE m == s.bytes.call
           c == s.connection
           part == s.bytes.part
           miss2 == [miss EXCEPT ![m].part = part + 1]
           b == MissionFrame(m, part + 1)
<1>1. /\ s.bytes \in Frames /\ m \in Mission /\ c \in Connection /\ part \in 1..LastPart
      /\ s.bytes = MissionFrame(m, part)
      /\ cmds \in [Command -> Calls] /\ miss \in [Mission -> Calls]
  BY UnderWay, FrameIs DEF FlowInv, FlowTypeOK
<1>2. miss[m].connection = c /\ miss[m].part = part /\ miss[m] \in Calls
  BY <1>1 DEF FlowInv, FramesAreOfCalls, IsOf
<1>3. LastPart \in Nat /\ part \in Nat /\ part + 1 \in 1..LastPart /\ part + 1 \in 0..LastPart
  BY <1>1, LinkAssumption DEF LastPart
<1>4. b \in Frames /\ b.part = part + 1 /\ b.call = m
  BY <1>1, <1>3, FrameType DEF MissionFrame
<1>5. /\ miss2 \in [Mission -> Calls] /\ miss2[m].status = "waiting" /\ miss2[m].connection = c
      /\ miss2[m].part = part + 1
      /\ \A n \in Mission : n # m => miss2[n] = miss[n]
  BY <1>1, <1>2, <1>3 DEF Calls
<1>6. last[c] = s.bytes /\ \A i \in 1..Len(out[c]) : out[c][i].part = 0
  BY <1>1 DEF FlowInv, NothingBetween
<1> HIDE DEF miss2, b
<1>7. UnusedAreNew(cmds, miss2) /\ OneTransfer(miss2)
  BY <1>1, <1>2, <1>5 DEF FlowInv, UnusedAreNew, OneTransfer, WaitsOn
<1>8. OthersAwait(sett, sett \ {s}, miss, miss2, c, b)
  <2>1. \A n \in Mission : n # m => s.bytes # MissionFrame(n, miss[n].part)
    BY <1>1 DEF MissionFrame
  <2> QED
    BY <1>3, <1>4, <1>5, <2>1 DEF OthersAwait
<1>9. ASSUME NEW f \in Frames, NEW e, IsOf(f, e, cmds, miss), f # s.bytes
      PROVE  f # b /\ IsOf(f, e, cmds, miss2) /\ (f.part > 0 => f.call # m)
  BY <1>1, <1>2, <1>3, <1>4, <1>5, <1>9, FrameIs DEF IsOf
<1>10. Sends(out, sett \ {s}, cmds, miss2, last, c, b)
  <2>1. /\ \A e \in Connection : \A i \in 1..Len(out[e]) :
             out[e][i] \in Frames /\ IsOf(out[e][i], e, cmds, miss) /\ out[e][i] # s.bytes
        /\ \A t \in sett \ {s} : t.bytes \in Frames /\ IsOf(t.bytes, t.connection, cmds, miss) /\ t.bytes # s.bytes
    BY UnderWay DEF FlowInv, FramesAreOfCalls, FramesAreUnique
  <2>2. IsOf(b, c, cmds, miss2)
    BY <1>3, <1>4, <1>5 DEF IsOf
  <2>3. last[c] = MissionFrame(b.call, b.part - 1)
    BY <1>1, <1>3, <1>4, <1>6
  <2>4. \A e \in Connection : \A i \in 1..Len(out[e]) :
           out[e][i] # b /\ IsOf(out[e][i], e, cmds, miss2)
    BY <1>9, <2>1
  <2>5. \A t \in sett \ {s} : t.bytes # b /\ IsOf(t.bytes, t.connection, cmds, miss2)
    BY <1>9, <2>1
  <2>6. /\ miss2[b.call].status = "waiting"
        /\ \A i \in 1..Len(out[c]) : ~(out[c][i].part > 0)
    BY <1>4, <1>5, <1>6
  <2> HIDE DEF c, part, m
  <2> QED
    BY <1>4, <2>2, <2>3, <2>4, <2>5, <2>6 DEF Sends
<1> QED
  BY <1>1, <1>4, <1>5, <1>7, <1>8, <1>10, FlowAppend DEF miss2, b

-----------------------------------------------------------------------------
(* A frame leaves, a caller continues, a call is over.                     *)

LEMMA FlowWritten ==
  ASSUME NEW out, NEW sett, NEW cmds, NEW miss, NEW last,
         FlowInv(out, sett, cmds, miss, last),
         NEW c \in Connection, out[c] # <<>>
  PROVE  FlowInv([out EXCEPT ![c] = Tail(@)],
                 sett \cup {[connection |-> c, bytes |-> Head(out[c]), ok |-> TRUE]}, cmds, miss,
                 IF Head(out[c]).part > 0 THEN [last EXCEPT ![c] = Head(out[c])] ELSE last)
<1> DEFINE b == Head(out[c])
           s == [connection |-> c, bytes |-> b, ok |-> TRUE]
           out2 == [out EXCEPT ![c] = Tail(@)]
           sett2 == sett \cup {s}
           last2 == IF b.part > 0 THEN [last EXCEPT ![c] = b] ELSE last
<1>1. /\ out \in [Connection -> Seq(Frames)] /\ last \in [Connection -> Frames \cup {MissionFrame({}, 0)}]
      /\ sett \subseteq [connection : Connection, bytes : Frames, ok : BOOLEAN]
  BY DEF FlowInv, FlowTypeOK
<1>2. /\ Tail(out[c]) \in Seq(Frames) /\ b \in Frames /\ b = out[c][1]
      /\ Len(out[c]) \in Nat /\ Len(out[c]) > 0 /\ Len(Tail(out[c])) = Len(out[c]) - 1
      /\ \A i \in 1..Len(Tail(out[c])) : Tail(out[c])[i] = out[c][i + 1]
  BY <1>1, TailIs
<1>3. /\ out2 \in [Connection -> Seq(Frames)] /\ out2[c] = Tail(out[c])
      /\ \A e \in Connection : e # c => out2[e] = out[e]
  BY <1>1, <1>2
<1>4. s.connection = c /\ s.bytes = b /\ s \in [connection : Connection, bytes : Frames, ok : BOOLEAN]
  BY <1>2
<1>5. /\ last2 \in [Connection -> Frames \cup {MissionFrame({}, 0)}]
      /\ b.part > 0 => last2[c] = b
      /\ b.part = 0 => last2[c] = last[c]
      /\ \A e \in Connection : e # c => last2[e] = last[e]
  BY <1>1, <1>2
<1> HIDE DEF b, s, out2, last2
<1>6. ASSUME NEW e \in Connection, NEW i \in 1..Len(out2[e])
      PROVE  \/ e # c /\ out2[e] = out[e]
             \/ e = c /\ i + 1 \in 1..Len(out[c]) /\ i + 1 # 1 /\ out2[e][i] = out[c][i + 1]
  <2>1. CASE e # c
    BY <1>3, <2>1
  <2>2. CASE e = c
    <3>1. i \in 1..Len(Tail(out[c])) /\ out2[e] = Tail(out[c])
      BY <1>3, <2>2
    <3> QED
      BY <1>2, <2>2, <3>1
  <2> QED
    BY <2>1, <2>2
<1>7. 1 \in 1..Len(out[c])
  BY <1>2
<1>8. /\ \A e \in Connection : \A i \in 1..Len(out[e]) : out[e][i] \in Frames
      /\ \A t \in sett : t.bytes \in Frames /\ t.connection \in Connection
  BY UnderWay
<1>9. IsOf(b, c, cmds, miss)
  BY <1>2, <1>7 DEF FlowInv, FramesAreOfCalls
<1>10. FlowTypeOK(out2, sett2, cmds, miss, last2)
  BY <1>1, <1>3, <1>4, <1>5 DEF FlowInv, FlowTypeOK
<1>11. FramesAreOfCalls(out2, sett2, cmds, miss)
  <2>1. ASSUME NEW e \in Connection, NEW i \in 1..Len(out2[e]) PROVE IsOf(out2[e][i], e, cmds, miss)
    BY <1>6 DEF FlowInv, FramesAreOfCalls
  <2> QED
    BY <2>1, <1>4, <1>9 DEF FlowInv, FramesAreOfCalls
<1>12. FramesAreUnique(out2, sett2)
  <2>1. ASSUME NEW e \in Connection, NEW i \in 1..Len(out2[e]), NEW j \in 1..Len(out2[e]),
               out2[e][i] = out2[e][j]
        PROVE  i = j
    <3>1. CASE e = c
      <4>1. /\ i + 1 \in 1..Len(out[c]) /\ out2[e][i] = out[c][i + 1]
            /\ j + 1 \in 1..Len(out[c]) /\ out2[e][j] = out[c][j + 1]
        BY <1>6, <3>1
      <4>2. i + 1 = j + 1
        BY <2>1, <4>1 DEF FlowInv, FramesAreUnique
      <4> QED
        BY <4>2
    <3>2. CASE e # c
      BY <1>3, <2>1, <3>2 DEF FlowInv, FramesAreUnique
    <3> QED
      BY <3>1, <3>2
  <2>2. ASSUME NEW e \in Connection, NEW i \in 1..Len(out2[e]), NEW t \in sett
        PROVE  t.bytes # out2[e][i]
    <3>1. CASE e # c
      BY <1>3, <3>1 DEF FlowInv, FramesAreUnique
    <3>2. CASE e = c
      <4>1. i + 1 \in 1..Len(out[c]) /\ out2[e][i] = out[c][i + 1]
        BY <1>6, <3>2
      <4> QED
        BY <4>1 DEF FlowInv, FramesAreUnique
    <3> QED
      BY <3>1, <3>2
  <2>3. ASSUME NEW e \in Connection, NEW i \in 1..Len(out2[e])
        PROVE  b # out2[e][i]
    <3>1. CASE e = c
      BY <1>2, <1>6, <1>7, <3>1 DEF FlowInv, FramesAreUnique
    <3>2. CASE e # c
      <4>1. IsOf(out2[e][i], e, cmds, miss) /\ out2[e][i] \in Frames
        BY <1>6, <1>8, <3>2 DEF FlowInv, FramesAreOfCalls
      <4> QED
        BY <1>2, <1>9, <3>2, <4>1, FrameIs DEF IsOf
    <3> QED
      BY <3>1, <3>2
  <2>4. \A t \in sett : t.bytes # b
    BY <1>2, <1>7 DEF FlowInv, FramesAreUnique
  <2> QED
    BY <2>1, <2>2, <2>3, <2>4, <1>4 DEF FlowInv, FramesAreUnique
<1>13. LoopsAreAwaited(out2, sett2, miss)
  <2> SUFFICES ASSUME NEW m \in Mission, miss[m].part > 0
               PROVE  \/ /\ miss[m].connection \in Connection
                         /\ \E i \in 1..Len(out2[miss[m].connection]) :
                              out2[miss[m].connection][i] = MissionFrame(m, miss[m].part)
                      \/ \E t \in sett2 : t.bytes = MissionFrame(m, miss[m].part)
    BY DEF LoopsAreAwaited
  <2>1. CASE \E t \in sett : t.bytes = MissionFrame(m, miss[m].part)
    BY <2>1
  <2>2. CASE /\ miss[m].connection \in Connection
             /\ \E i \in 1..Len(out[miss[m].connection]) :
                  out[miss[m].connection][i] = MissionFrame(m, miss[m].part)
    <3>1. PICK i \in 1..Len(out[miss[m].connection]) :
                 out[miss[m].connection][i] = MissionFrame(m, miss[m].part)
      BY <2>2
    <3>2. CASE miss[m].connection # c
      BY <1>3, <2>2, <3>1, <3>2
    <3>3. CASE miss[m].connection = c /\ i = 1
      BY <1>2, <1>4, <3>1, <3>3
    <3>4. CASE miss[m].connection = c /\ i # 1
      <4>1. i - 1 \in 1..Len(out2[c]) /\ out2[c][i - 1] = out[c][i]
        BY <1>2, <1>3, <3>1, <3>4
      <4> QED
        BY <3>1, <3>4, <4>1
    <3> QED
      BY <3>2, <3>3, <3>4
  <2> QED
    BY <2>1, <2>2 DEF FlowInv, LoopsAreAwaited
<1>14. Follows(out2, last2)
  <2> SUFFICES ASSUME NEW e \in Connection, NEW i \in 1..Len(out2[e]), out2[e][i].part > 1
               PROVE  /\ last2[e] = MissionFrame(out2[e][i].call, out2[e][i].part - 1)
                      /\ \A j \in 1..Len(out2[e]) : j < i => out2[e][j].part = 0
    BY DEF Follows
  <2>1. CASE e # c
    BY <1>3, <1>5, <2>1 DEF FlowInv, Follows
  <2>2. CASE e = c
    <3>1. i + 1 \in 1..Len(out[c]) /\ out2[e][i] = out[c][i + 1] /\ 1 < i + 1
      BY <1>6, <2>2
    <3>2. /\ last[c] = MissionFrame(out[c][i + 1].call, out[c][i + 1].part - 1)
          /\ \A j \in 1..Len(out[c]) : j < i + 1 => out[c][j].part = 0
      BY <3>1 DEF FlowInv, Follows
    <3>3. b.part = 0
      BY <1>2, <1>7, <3>1, <3>2
    <3>4. ASSUME NEW j \in 1..Len(out2[e]), j < i PROVE out2[e][j].part = 0
      <4>1. j + 1 \in 1..Len(out[c]) /\ out2[e][j] = out[c][j + 1] /\ j + 1 < i + 1
        BY <1>6, <2>2, <3>4
      <4> QED
        BY <3>2, <4>1
    <3> QED
      BY <1>5, <2>2, <3>1, <3>2, <3>3, <3>4
  <2> QED
    BY <2>1, <2>2
<1>15. BehindAreCommands(out2, miss)
  <2> SUFFICES ASSUME NEW e \in Connection, NEW i \in 1..Len(out2[e]), NEW j \in 1..Len(out2[e]),
                      i < j, out2[e][i].part > 0, out2[e][j].part > 0
               PROVE  miss[out2[e][i].call].status # "waiting"
    BY DEF BehindAreCommands
  <2>1. CASE e # c
    BY <1>3, <2>1 DEF FlowInv, BehindAreCommands
  <2>2. CASE e = c
    <3>1. /\ i + 1 \in 1..Len(out[c]) /\ out2[e][i] = out[c][i + 1]
          /\ j + 1 \in 1..Len(out[c]) /\ out2[e][j] = out[c][j + 1] /\ i + 1 < j + 1
      BY <1>6, <2>2
    <3> QED
      BY <3>1 DEF FlowInv, BehindAreCommands
  <2> QED
    BY <2>1, <2>2
<1>16. NothingBetween(out2, sett2, miss, last2)
  <2> SUFFICES ASSUME NEW t \in sett2, t.bytes.part > 0, miss[t.bytes.call].status = "waiting"
               PROVE  /\ last2[t.connection] = t.bytes
                      /\ \A i \in 1..Len(out2[t.connection]) : out2[t.connection][i].part = 0
    BY DEF NothingBetween
  <2>1. CASE t \in sett
    <3>1. /\ last[t.connection] = t.bytes /\ t.connection \in Connection
          /\ \A i \in 1..Len(out[t.connection]) : out[t.connection][i].part = 0
      BY <1>8, <2>1 DEF FlowInv, NothingBetween
    <3>2. t.connection = c => b.part = 0
      BY <1>2, <1>7, <3>1
    <3>3. last2[t.connection] = t.bytes
      BY <1>5, <3>1, <3>2
    <3>4. ASSUME NEW i \in 1..Len(out2[t.connection]) PROVE out2[t.connection][i].part = 0
      BY <1>6, <3>1
    <3> QED
      BY <3>3, <3>4
  <2>2. CASE t = s
    <3>1. t.connection = c /\ t.bytes = b /\ b.part > 0 /\ last2[c] = b
      BY <1>4, <1>5, <2>2
    <3>2. ASSUME NEW i \in 1..Len(out2[c]) PROVE out2[c][i].part = 0
      <4>1. i + 1 \in 1..Len(out[c]) /\ out2[c][i] = out[c][i + 1] /\ 1 < i + 1 /\ out[c][i + 1] \in Frames
        BY <1>6, <1>8
      <4>2. ~(out[c][i + 1].part > 0)
        BY <1>2, <1>7, <3>1, <4>1 DEF FlowInv, BehindAreCommands
      <4> QED
        BY <4>1, <4>2, FrameIs
    <3> QED
      BY <3>1, <3>2
  <2> QED
    BY <2>1, <2>2
<1> QED
  BY <1>10, <1>11, <1>12, <1>13, <1>14, <1>15, <1>16 DEF FlowInv, b, s, out2, last2

\* The caller of a command's send continues, or a sending loop ends: its frame is not under
\* way any more.
LEMMA FlowEnds ==
  ASSUME NEW out, NEW sett, NEW cmds, NEW miss, NEW last,
         FlowInv(out, sett, cmds, miss, last), NEW s \in sett,
         NEW cmds2 \in [Command -> Calls], NEW miss2 \in [Mission -> Calls],
         \A k \in Command : /\ cmds2[k].connection = cmds[k].connection
                            /\ cmds2[k].status = "unused" <=> cmds[k].status = "unused"
                            /\ cmds2[k].status = "unused" => cmds2[k] = cmds[k],
         \A m \in Mission : /\ miss2[m].connection = miss[m].connection
                            /\ miss2[m].status = "waiting" => miss[m].status = "waiting"
                            /\ miss2[m].status = "unused" <=> miss[m].status = "unused"
                            /\ miss2[m].status = "unused" => miss2[m] = miss[m]
                            /\ miss2[m].part = IF m = s.bytes.call /\ s.bytes.part > 0
                                               THEN 0 ELSE miss[m].part
  PROVE  FlowInv(out, sett \ {s}, cmds2, miss2, last)
<1> DEFINE sett2 == sett \ {s}
<1>1. /\ \A c \in Connection : \A i \in 1..Len(out[c]) : out[c][i] \in Frames /\ out[c][i] # s.bytes
      /\ \A t \in sett : t.bytes \in Frames /\ t.connection \in Connection
      /\ \A t \in sett2 : t \in sett /\ t.bytes # s.bytes
  BY UnderWay DEF FlowInv, FramesAreUnique
<1>2. ASSUME NEW f \in Frames, NEW c, IsOf(f, c, cmds, miss), f # s.bytes
      PROVE  IsOf(f, c, cmds2, miss2)
  <2>1. CASE f.part = 0
    BY <1>2, <2>1, FrameIs DEF IsOf
  <2>2. CASE f.part > 0
    <3>1. f.call \in Mission /\ f = MissionFrame(f.call, miss[f.call].part)
      BY <1>2, <2>2, FrameIs DEF IsOf
    <3>2. IsOf(s.bytes, s.connection, cmds, miss) /\ s.bytes \in Frames
      BY <1>1 DEF FlowInv, FramesAreOfCalls
    <3>3. ~(f.call = s.bytes.call /\ s.bytes.part > 0)
      BY <1>2, <3>1, <3>2, FrameIs DEF IsOf
    <3> QED
      BY <1>2, <2>2, <3>1, <3>3 DEF IsOf
  <2> QED
    BY <2>1, <2>2, FrameIs
<1> HIDE DEF sett2
<1>3. FlowTypeOK(out, sett2, cmds2, miss2, last) /\ UnusedAreNew(cmds2, miss2)
  BY <1>1 DEF FlowInv, FlowTypeOK, UnusedAreNew
<1>4. FramesAreOfCalls(out, sett2, cmds2, miss2)
  BY <1>1, <1>2 DEF FlowInv, FramesAreOfCalls
<1>5. FramesAreUnique(out, sett2)
  BY <1>1 DEF FlowInv, FramesAreUnique
<1>6. LoopsAreAwaited(out, sett2, miss2)
  <2> SUFFICES ASSUME NEW m \in Mission, miss2[m].part > 0
               PROVE  \/ /\ miss2[m].connection \in Connection
                         /\ \E i \in 1..Len(out[miss2[m].connection]) :
                              out[miss2[m].connection][i] = MissionFrame(m, miss2[m].part)
                      \/ \E t \in sett2 : t.bytes = MissionFrame(m, miss2[m].part)
    BY DEF LoopsAreAwaited
  <2>1. /\ ~(m = s.bytes.call /\ s.bytes.part > 0)
        /\ miss2[m].part = miss[m].part /\ miss2[m].connection = miss[m].connection
    OBVIOUS
  <2>2. s.bytes # MissionFrame(m, miss[m].part)
    BY <2>1 DEF MissionFrame
  <2> QED
    BY <2>1, <2>2 DEF FlowInv, LoopsAreAwaited, sett2
<1>7. OneTransfer(miss2)
  BY DEF FlowInv, OneTransfer, WaitsOn
<1>8. Follows(out, last)
  BY DEF FlowInv
<1>9. BehindAreCommands(out, miss2)
  BY <1>1, FrameIs DEF FlowInv, BehindAreCommands
<1>10. NothingBetween(out, sett2, miss2, last)
  BY <1>1, FrameIs DEF FlowInv, NothingBetween
<1> QED
  BY <1>3, <1>4, <1>5, <1>6, <1>7, <1>8, <1>9, <1>10 DEF FlowInv, sett2

\* A call is answered or times out.
LEMMA FlowAnswered ==
  ASSUME NEW out, NEW sett, NEW cmds, NEW miss, NEW last,
         FlowInv(out, sett, cmds, miss, last),
         NEW cmds2 \in [Command -> Calls], NEW miss2 \in [Mission -> Calls],
         \A k \in Command : /\ cmds2[k].connection = cmds[k].connection
                            /\ cmds2[k].status = "unused" <=> cmds[k].status = "unused"
                            /\ cmds2[k].status = "unused" => cmds2[k] = cmds[k],
         \A m \in Mission : /\ miss2[m].connection = miss[m].connection /\ miss2[m].part = miss[m].part
                            /\ miss2[m].status = "waiting" => miss[m].status = "waiting"
                            /\ miss2[m].status = "unused" => miss2[m] = miss[m]
  PROVE  FlowInv(out, sett, cmds2, miss2, last)
<1>1. /\ \A c \in Connection : \A i \in 1..Len(out[c]) : out[c][i] \in Frames
      /\ \A t \in sett : t.bytes \in Frames /\ t.connection \in Connection
  BY UnderWay
<1>2. \A f \in Frames : \A c : IsOf(f, c, cmds, miss) => IsOf(f, c, cmds2, miss2)
  BY FrameIs DEF IsOf
<1>3. FlowTypeOK(out, sett, cmds2, miss2, last) /\ UnusedAreNew(cmds2, miss2)
  BY DEF FlowInv, FlowTypeOK, UnusedAreNew
<1>4. FramesAreOfCalls(out, sett, cmds2, miss2)
  BY <1>1, <1>2 DEF FlowInv, FramesAreOfCalls
<1>5. LoopsAreAwaited(out, sett, miss2)
  BY DEF FlowInv, LoopsAreAwaited
<1>6. OneTransfer(miss2)
  BY DEF FlowInv, OneTransfer, WaitsOn
<1>7. BehindAreCommands(out, miss2)
  BY <1>1, FrameIs DEF FlowInv, BehindAreCommands
<1>8. NothingBetween(out, sett, miss2, last)
  BY <1>1, FrameIs DEF FlowInv, NothingBetween
<1> QED
  BY <1>3, <1>4, <1>5, <1>6, <1>7, <1>8 DEF FlowInv

-----------------------------------------------------------------------------
(* The state of the link.                                                  *)

Outbounds == [c \in Connection |-> connections[c].outbound]
Flows == FlowInv(Outbounds, settled, commands, missions, lastPart)

\* Only who is paired writes, and nobody pairs twice.
OnlyPairedWrite ==
  \A c \in Connection :
    /\ connections[c].outbound # <<>> => Paired(c)
    /\ connections[c].pairing => connections[c].phase # "paired"

\* A call that waits does so on a connection that is there.
PairedOnes == {c \in Connection : Paired(c)}
WaitOn(S, calls, there) == \A k \in S : calls[k].status = "waiting" => calls[k].connection \in there
WaitersArePaired == WaitOn(Command, commands, PairedOnes) /\ WaitOn(Mission, missions, PairedOnes)

FailuresAreClosures == \A s \in settled : ~s.ok => connections[s.connection].closed

LinkInv ==
  /\ ServerInv /\ Flows
  /\ OnlyPairedWrite /\ RegistryMirrorsServer /\ WaitersArePaired /\ FailuresAreClosures

\* What a step does to a connection: it pairs, or is closed for good.
Goes(old, new) ==
  /\ old.closed => new.closed
  /\ old.accepted => new.accepted
  /\ old.phase = "paired" /\ ~new.closed
       => new.phase = "paired" /\ new.reservedDeviceId = old.reservedDeviceId
  /\ new.phase = "paired" /\ old.phase # "paired" => old.pairing /\ old.accepted /\ ~new.closed
  /\ new.pairing => new.phase # "paired"

\* ... and unless it writes, what it had to write is kept or, when it is closed, forgotten.
Keeps(old, new) == new.outbound = IF new.closed THEN <<>> ELSE old.outbound

Cuts ==
  /\ \A c \in Connection : Goes(connections[c], connections'[c]) /\ Keeps(connections[c], connections'[c])
  /\ settled' = settled \cup Owed(ClosedNow)

\* A connection nothing happens to.
LEMMA Stays ==
  ASSUME OnlyPairedWrite, NEW c \in Connection
  PROVE  Goes(connections[c], connections[c]) /\ Keeps(connections[c], connections[c])
BY DEF OnlyPairedWrite, Goes, Keeps, Paired, Open

\* ... and one that is closed.
LEMMA Closes ==
  ASSUME LinksTypeOK, OnlyPairedWrite, NEW c \in Connection, Open(c)
  PROVE  /\ Goes(connections[c], Closed(connections[c])) /\ Keeps(connections[c], Closed(connections[c]))
         /\ Closed(connections[c]).closed
<1>1. connections[c] \in Link
  BY DEF LinksTypeOK
<1> QED
  BY <1>1, ClosedType DEF Goes, Keeps, Open, Link, OnlyPairedWrite

LEMMA NothingOwed == Owed({}) = {}
BY DEF Owed

LEMMA FinishCuts ==
  ASSUME LinksTypeOK, OnlyPairedWrite, NEW gone \in SUBSET OpenConnections, Finish(gone)
  PROVE  Cuts
<1>1. \A c \in Connection : connections'[c] = IF c \in gone THEN Closed(connections[c]) ELSE connections[c]
  BY DEF Finish, Without
<1>2. \A c \in gone : c \in Connection /\ Open(c) /\ ~connections[c].closed /\ Closed(connections[c]).closed
  BY Closes DEF OpenConnections, Open
<1>3. ClosedNow = gone
  BY <1>1, <1>2 DEF ClosedNow
<1>4. ASSUME NEW c \in Connection
      PROVE  Goes(connections[c], connections'[c]) /\ Keeps(connections[c], connections'[c])
  BY <1>1, <1>2, Closes, Stays
<1> QED
  BY <1>3, <1>4 DEF Cuts, Finish

\* One connection changes, and if it is closed it had nothing to write.
LEMMA OneCuts ==
  ASSUME LinksTypeOK, OnlyPairedWrite, NEW c \in Connection, NEW link,
         connections' = [connections EXCEPT ![c] = link], UNCHANGED settled,
         Goes(connections[c], link), Keeps(connections[c], link),
         link.closed /\ ~connections[c].closed => connections[c].outbound = <<>>
  PROVE  Cuts
<1>1. \A e \in Connection : connections'[e] = IF e = c THEN link ELSE connections[e]
  BY DEF LinksTypeOK
<1>2. Owed(ClosedNow) = {}
  <2> SUFFICES ASSUME NEW e \in ClosedNow PROVE Range(connections[e].outbound) = {}
    BY DEF Owed
  <2>1. connections[e].outbound = <<>>
    BY <1>1 DEF ClosedNow
  <2> QED
    BY <2>1 DEF Range
<1>3. \A e \in Connection : Goes(connections[e], connections'[e]) /\ Keeps(connections[e], connections'[e])
  BY <1>1, Stays
<1> QED
  BY <1>2, <1>3 DEF Cuts

LEMMA NothingCuts ==
  ASSUME OnlyPairedWrite, UNCHANGED <<connections, settled>>
  PROVE  Cuts
<1>1. ClosedNow = {}
  BY DEF ClosedNow
<1> QED
  BY <1>1, Stays, NothingOwed DEF Cuts

-----------------------------------------------------------------------------
(* The steps of the server that write nothing cut.                         *)

LEMMA AcceptCuts ==
  ASSUME ServerInv, OnlyPairedWrite, NEW c \in Connection, Accept(c)
  PROVE  Cuts
<1> DEFINE link == [Unused EXCEPT !.accepted = TRUE]
<1>1. connections[c] = Unused /\ connections' = [connections EXCEPT ![c] = link] /\ UNCHANGED settled
  BY DEF Accept, ServerInv, UnusedIsFresh, LinksTypeOK
<1>2. Goes(Unused, link) /\ Keeps(Unused, link) /\ ~link.closed
  BY DEF Unused, Goes, Keeps
<1> QED
  BY <1>1, <1>2, OneCuts DEF ServerInv

LEMMA HelloCuts ==
  ASSUME ServerInv, OnlyPairedWrite, NEW c \in Connection, NEW frame, Hello(c, frame)
  PROVE  Cuts
<1> DEFINE replaced == HoldersOf(frame.device)
<1>1. /\ c \notin replaced /\ Open(c) /\ connections[c].phase = "awaiting-hello"
      /\ replaced \subseteq OpenConnections /\ c \in OpenConnections
  BY HelloIsFirst DEF ServerInv, Hello, HoldersOf, OpenConnections
<1>2. CASE Finish(replaced \cup {c})
  BY <1>1, <1>2, FinishCuts DEF ServerInv
<1>3. CASE /\ connections' = Reserved(Without(replaced), c, frame.device)
           /\ settled' = settled \cup Owed(replaced)
  <2> DEFINE link == [connections[c] EXCEPT !.inbound = Tail(@), !.reservedDeviceId = frame.device,
                                            !.pairing = TRUE]
  <2>1. connections[c] \in Link /\ connections[c].outbound = <<>>
    BY <1>1 DEF ServerInv, LinksTypeOK, OnlyPairedWrite, Paired
  <2>2. \A e \in Connection : connections'[e] = IF e = c THEN link
                                                ELSE IF e \in replaced THEN Closed(connections[e])
                                                ELSE connections[e]
    BY <1>1, <1>3 DEF Reserved, Without
  <2>3. /\ link.closed = connections[c].closed /\ link.accepted = connections[c].accepted
        /\ link.phase = connections[c].phase /\ link.outbound = connections[c].outbound
    BY <2>1 DEF Link
  <2>4. Goes(connections[c], link) /\ Keeps(connections[c], link) /\ ~link.closed
    BY <1>1, <2>1, <2>3 DEF Goes, Keeps, Open
  <2>5. \A e \in replaced : e \in Connection /\ Open(e) /\ ~connections[e].closed /\ Closed(connections[e]).closed
    BY <1>1, Closes DEF OpenConnections, Open, ServerInv
  <2> HIDE DEF link
  <2>6. ClosedNow = replaced
    BY <1>1, <2>2, <2>4, <2>5 DEF ClosedNow
  <2>7. ASSUME NEW e \in Connection
        PROVE  Goes(connections[e], connections'[e]) /\ Keeps(connections[e], connections'[e])
    BY <2>2, <2>4, <2>5, Closes, Stays DEF ServerInv
  <2> QED
    BY <1>3, <2>6, <2>7 DEF Cuts
<1> QED
  BY <1>2, <1>3 DEF Hello

LEMMA PairingCuts ==
  ASSUME ServerInv, OnlyPairedWrite, NEW c \in Connection, Pairs(c) \/ PairingFails(c)
  PROVE  Cuts
<1>1. /\ connections[c] \in Link /\ connections[c].pairing /\ UNCHANGED settled
      /\ connections[c].phase # "paired" /\ connections[c].outbound = <<>>
  BY DEF Pairs, PairingFails, ServerInv, LinksTypeOK, OnlyPairedWrite, Paired
<1>2. connections[c].accepted
  BY <1>1 DEF ServerInv, UnusedIsFresh, Unused
<1>3. CASE Pairs(c)
  <2> DEFINE link == [connections[c] EXCEPT !.pairing = FALSE, !.phase = IF Open(c) THEN "paired" ELSE @]
  <2>1. connections' = [connections EXCEPT ![c] = link]
    BY <1>1, <1>3 DEF Pairs, ServerInv, LinksTypeOK
  <2>2. /\ link.closed = connections[c].closed /\ link.accepted = connections[c].accepted
        /\ link.outbound = connections[c].outbound /\ link.pairing = FALSE
        /\ link.phase = IF Open(c) THEN "paired" ELSE connections[c].phase
    BY <1>1 DEF Link
  <2>3. Goes(connections[c], link) /\ Keeps(connections[c], link)
    BY <1>1, <1>2, <2>2 DEF Goes, Keeps, Open
  <2> HIDE DEF link
  <2> QED
    BY <1>1, <2>1, <2>3, OneCuts DEF ServerInv
<1>4. CASE PairingFails(c)
  <2> DEFINE link == [Closed(connections[c]) EXCEPT !.pairing = FALSE]
  <2>1. connections' = [connections EXCEPT ![c] = link]
    BY <1>1, <1>4 DEF PairingFails, ServerInv, LinksTypeOK
  <2>2. /\ link.closed = TRUE /\ link.accepted = connections[c].accepted
        /\ link.outbound = <<>> /\ link.pairing = FALSE /\ link.phase = connections[c].phase
    BY <1>1, ClosedType DEF Link
  <2>3. Goes(connections[c], link) /\ Keeps(connections[c], link)
    BY <1>1, <2>2 DEF Goes, Keeps
  <2> HIDE DEF link
  <2> QED
    BY <1>1, <2>1, <2>3, OneCuts DEF ServerInv
<1> QED
  BY <1>3, <1>4

LEMMA InboundCuts ==
  ASSUME ServerInv, OnlyPairedWrite, NEW c \in Connection, NEW inbound, NEW arrivals, UNCHANGED settled,
         connections' = [connections EXCEPT ![c] = [connections[c] EXCEPT !.inbound = inbound, !.arrivals = arrivals]]
  PROVE  Cuts
<1> DEFINE link == [connections[c] EXCEPT !.inbound = inbound, !.arrivals = arrivals]
<1>1. connections[c] \in Link
  BY DEF ServerInv, LinksTypeOK
<1>2. /\ link.closed = connections[c].closed /\ link.accepted = connections[c].accepted
      /\ link.outbound = connections[c].outbound /\ link.pairing = connections[c].pairing
      /\ link.phase = connections[c].phase /\ link.reservedDeviceId = connections[c].reservedDeviceId
  BY <1>1 DEF Link
<1>3. Goes(connections[c], link) /\ Keeps(connections[c], link)
  BY <1>2, Stays DEF Goes, Keeps
<1> HIDE DEF link
<1> QED
  BY <1>2, <1>3, OneCuts DEF ServerInv, link

LEMMA ServerStepCuts ==
  ASSUME ServerInv, OnlyPairedWrite,
         \/ ServerStep
         \/ \E c \in Connection : \E frame : FrameArrives(c, frame) \/ Routes(c, frame)
  PROVE  Cuts
<1>1. CASE Lifecycle
  BY <1>1, LifecycleType, FinishCuts, NothingCuts DEF ServerInv
<1>2. ASSUME NEW c \in Connection, Accept(c) PROVE Cuts
  BY <1>2, AcceptCuts
<1>3. ASSUME NEW c \in Connection, NEW frame, Hello(c, frame) PROVE Cuts
  BY <1>3, HelloCuts
<1>4. ASSUME NEW c \in Connection, Pairs(c) \/ PairingFails(c) PROVE Cuts
  BY <1>4, PairingCuts
<1>5. ASSUME NEW c \in Connection, Open(c), Finish({c}) PROVE Cuts
  BY <1>5, FinishCuts DEF OpenConnections, ServerInv
<1>6. ASSUME NEW c \in Connection, NEW frame, Routes(c, frame) PROVE Cuts
  <2>1. /\ UNCHANGED settled
        /\ connections' = [connections EXCEPT ![c] =
             [connections[c] EXCEPT !.inbound = Tail(connections[c].inbound), !.arrivals = connections[c].arrivals]]
    BY ZenonT(60), <1>6 DEF Routes, ServerInv, LinksTypeOK, Link
  <2> QED
    BY <2>1, InboundCuts
<1>7. ASSUME NEW c \in Connection, NEW frame, FrameArrives(c, frame), ~Finish({c}) PROVE Cuts
  <2>1. /\ UNCHANGED settled
        /\ connections' = [connections EXCEPT ![c] =
             [connections[c] EXCEPT !.inbound = Append(connections[c].inbound, frame),
                                    !.arrivals = connections[c].arrivals + 1]]
    BY <1>7 DEF FrameArrives, ServerInv, LinksTypeOK, Link
  <2> QED
    BY <2>1, InboundCuts
<1> QED
  BY <1>1, <1>2, <1>3, <1>4, <1>5, <1>6, <1>7
  DEF ServerStep, HandshakeTimeout, PeerCloses, WriteFails, Violates, Takes, FrameArrives

-----------------------------------------------------------------------------
(* What the events of a step keep.                                         *)

LEMMA WaitCut ==
  ASSUME NEW S, NEW calls \in [S -> Calls], NEW there, NEW gone, NEW there2,
         there \ gone \subseteq there2, WaitOn(S, calls, there)
  PROVE  WaitOn(S, CancelledOn(calls, gone), there2)
BY CancelledIs DEF WaitOn

LEMMA PairedStay ==
  ASSUME \A c \in Connection : Goes(connections[c], connections'[c])
  PROVE  PairedOnes \ ClosedNow \subseteq PairedOnes'
<1> SUFFICES ASSUME NEW c \in PairedOnes, c \notin ClosedNow PROVE c \in PairedOnes'
  OBVIOUS
<1>1. Goes(connections[c], connections'[c]) /\ ~connections'[c].closed
  BY DEF PairedOnes, ClosedNow, Paired, Open
<1> QED
  BY <1>1 DEF PairedOnes, Goes, Paired, Open

\* Who pairs holds an identity no other connection that stays open holds.
LEMMA NewcomersRegister ==
  ASSUME ServerInv', NEW c \in PairedOnes', NEW e \in PairedOnes', c # e
  PROVE  connections'[c].reservedDeviceId # connections'[e].reservedDeviceId
<1>1. c \in OpenConnections' /\ e \in OpenConnections' /\ connections'[c].phase = "paired"
  BY DEF PairedOnes, OpenConnections, Paired
<1>2. connections'[c].reservedDeviceId # NoDevice
  BY <1>1 DEF ServerInv, IdentityIsAdmitted
<1> QED
  BY <1>1, <1>2 DEF ServerInv, PlacesAreKept

LEMMA EventsMirror ==
  ASSUME RegistryMirrorsServer, ServerInv, ServerInv',
         \A c \in Connection : Goes(connections[c], connections'[c]), Events
  PROVE  RegistryMirrorsServer'
<1> DEFINE kept == {r \in registry : r.connection \notin ClosedNow}
<1>1. /\ registry = {Registered(c, connections[c].reservedDeviceId) : c \in PairedOnes}
      /\ facts \subseteq {r.connection : r \in registry}
  BY DEF RegistryMirrorsServer, PairedOnes
<1>2. ASSUME NEW r \in kept
      PROVE  r.connection \in PairedOnes' /\ r = Registered(r.connection, connections'[r.connection].reservedDeviceId)
             /\ r.device = connections'[r.connection].reservedDeviceId
  <2>1. PICK c \in PairedOnes : r = Registered(c, connections[c].reservedDeviceId)
    BY <1>1
  <2>2. r.connection = c /\ c \notin ClosedNow /\ r.device = connections[c].reservedDeviceId
    BY <2>1 DEF Registered
  <2>3. c \in PairedOnes' /\ Goes(connections[c], connections'[c]) /\ ~connections'[c].closed
        /\ connections[c].phase = "paired"
    BY <2>2, PairedStay DEF PairedOnes, ClosedNow, Paired, Open
  <2> QED
    BY <2>1, <2>2, <2>3 DEF Goes
<1>3. ASSUME NEW p \in PairedNow PROVE p \in PairedOnes' /\ p \notin PairedOnes
  BY DEF PairedNow, PairedOnes, Paired, Open, Goes
<1>4. ASSUME NEW p \in PairedNow, NEW r \in kept
      PROVE  r.connection # p /\ r.device # connections'[p].reservedDeviceId
  <2>1. r.connection # p
    <3>1. \E c \in PairedOnes : r = Registered(c, connections[c].reservedDeviceId)
      BY <1>1
    <3> QED
      BY <1>3, <3>1 DEF Registered
  <2> QED
    BY <1>2, <1>3, <2>1, NewcomersRegister
<1>5. registry' = kept \cup {Registered(c, connections'[c].reservedDeviceId) : c \in PairedNow}
  <2>1. {p \in PairedNow : \A r \in kept :
           r.connection # p /\ r.device # connections'[p].reservedDeviceId} = PairedNow
    BY <1>4
  <2> QED
    BY <2>1 DEF Events
<1>6. ASSUME NEW c \in PairedOnes', c \notin PairedNow
      PROVE  Registered(c, connections'[c].reservedDeviceId) \in kept
  <2>1. c \in PairedOnes /\ c \notin ClosedNow /\ connections'[c].reservedDeviceId = connections[c].reservedDeviceId
    <3>1. connections[c].phase = "paired" /\ ~connections'[c].closed /\ c \in Connection
      BY <1>6 DEF PairedOnes, PairedNow, Paired, Open
    <3>2. connections[c].accepted
      BY <3>1 DEF ServerInv, UnusedIsFresh, Unused
    <3> QED
      BY <3>1, <3>2 DEF PairedOnes, ClosedNow, Paired, Open, Goes
  <2>2. Registered(c, connections[c].reservedDeviceId) \in registry
    BY <1>1, <2>1
  <2> QED
    BY <2>1, <2>2 DEF Registered
<1>7. registry' = {Registered(c, connections'[c].reservedDeviceId) : c \in PairedOnes'}
  <2>1. ASSUME NEW r \in registry' PROVE \E c \in PairedOnes' : r = Registered(c, connections'[c].reservedDeviceId)
    BY <1>2, <1>3, <1>5
  <2>2. ASSUME NEW c \in PairedOnes' PROVE Registered(c, connections'[c].reservedDeviceId) \in registry'
    BY <1>5, <1>6
  <2> QED
    BY <2>1, <2>2
<1>8. facts' \subseteq {r.connection : r \in registry'}
  <2> SUFFICES ASSUME NEW c \in facts' PROVE \E r \in registry' : c = r.connection
    OBVIOUS
  <2>1. c \in facts /\ c \notin ClosedNow
    BY DEF Events
  <2>2. PICK r \in registry : c = r.connection
    BY <1>1, <2>1
  <2>3. r \in kept
    BY <2>1, <2>2
  <2> QED
    BY <1>5, <2>2, <2>3
<1> QED
  BY <1>7, <1>8 DEF RegistryMirrorsServer, PairedOnes

-----------------------------------------------------------------------------
(* The steps of the link.                                                  *)

LEMMA LinkTypes ==
  ASSUME LinkInv
  PROVE  /\ commands \in [Command -> Calls] /\ missions \in [Mission -> Calls]
         /\ connections \in [Connection -> Link] /\ LinksTypeOK /\ settled \subseteq Settlement
         /\ lastPart \in [Connection -> Frames \cup {MissionFrame({}, 0)}]
         /\ \A c \in Connection : /\ Outbounds[c] = connections[c].outbound
                                  /\ connections[c] \in Link /\ connections[c].outbound \in Seq(Frames)
BY LinkAssumption DEF LinkInv, Flows, FlowInv, FlowTypeOK, ServerInv, LinksTypeOK, Outbounds, Link

LEMMA OwedIs ==
  ASSUME LinkInv, NEW gone \in SUBSET Connection
  PROVE  Owed(gone) = OwedOf(Outbounds, gone)
<1>1. \A c \in gone : Range(connections[c].outbound) = {Outbounds[c][i] : i \in 1..Len(Outbounds[c])}
  BY LinkTypes DEF Range
<1>2. ASSUME NEW s \in Owed(gone) PROVE s \in OwedOf(Outbounds, gone)
  <2>1. PICK c \in gone : s \in {Failed(c, b) : b \in Range(connections[c].outbound)}
    BY DEF Owed
  <2>2. PICK b \in Range(connections[c].outbound) : s = Failed(c, b)
    BY <2>1
  <2>3. PICK i \in 1..Len(Outbounds[c]) : b = Outbounds[c][i]
    BY <1>1, <2>2
  <2> QED
    BY <2>2, <2>3 DEF OwedOf
<1>3. ASSUME NEW s \in OwedOf(Outbounds, gone) PROVE s \in Owed(gone)
  <2>1. PICK c \in gone : s \in {Failed(c, Outbounds[c][i]) : i \in 1..Len(Outbounds[c])}
    BY DEF OwedOf
  <2>2. PICK i \in 1..Len(Outbounds[c]) : s = Failed(c, Outbounds[c][i])
    BY <2>1
  <2>3. Outbounds[c][i] \in Range(connections[c].outbound)
    BY <1>1, <2>2
  <2> QED
    BY <2>2, <2>3 DEF Owed
<1> QED
  BY <1>2, <1>3

LEMMA CutsKeepPaired ==
  ASSUME OnlyPairedWrite, \A c \in Connection : Goes(connections[c], connections'[c]) /\ Keeps(connections[c], connections'[c])
  PROVE  OnlyPairedWrite'
BY DEF OnlyPairedWrite, Goes, Keeps, Paired, Open

LEMMA CutsKeepOutbounds ==
  ASSUME OnlyPairedWrite, \A c \in Connection : Goes(connections[c], connections'[c]) /\ Keeps(connections[c], connections'[c])
  PROVE  Outbounds' = CutOut(Outbounds, ClosedNow)
<1>1. ASSUME NEW c \in Connection
      PROVE  connections'[c].outbound = IF c \in ClosedNow THEN <<>> ELSE connections[c].outbound
  BY DEF Keeps, ClosedNow, OnlyPairedWrite, Paired, Open, Goes
<1> QED
  BY <1>1 DEF Outbounds, CutOut

LEMMA CutsKeepClosures ==
  ASSUME LinkInv, Cuts
  PROVE  FailuresAreClosures'
<1> SUFFICES ASSUME NEW s \in settled', ~s.ok PROVE connections'[s.connection].closed
  BY DEF FailuresAreClosures
<1>1. CASE s \in settled
  BY <1>1, LinkTypes DEF LinkInv, FailuresAreClosures, Cuts, Goes, Settlement
<1>2. CASE s \in Owed(ClosedNow)
  BY <1>2 DEF Owed, Failed, ClosedNow
<1> QED
  BY <1>1, <1>2 DEF Cuts

\* A step that writes nothing: connections pair or close, and the calls of those that close
\* are cancelled.
LEMMA CutsKeep ==
  ASSUME LinkInv, ServerInv', Cuts, Events,
         commands' = Cancelled(commands), missions' = Cancelled(missions), UNCHANGED lastPart
  PROVE  LinkInv'
<1>1. ClosedNow \in SUBSET Connection
  BY DEF ClosedNow
<1>2. /\ commands' = CancelledOn(commands, ClosedNow)
      /\ missions' = CancelledOn(missions, ClosedNow)
  BY DEF Cancelled, CancelledOn, WaitsOn
<1>3. Flows'
  <2>1. Outbounds' = CutOut(Outbounds, ClosedNow)
    BY CutsKeepOutbounds DEF LinkInv, Cuts
  <2>2. settled' = settled \cup OwedOf(Outbounds, ClosedNow)
    BY <1>1, OwedIs DEF Cuts
  <2>3. FlowInv(CutOut(Outbounds, ClosedNow), settled \cup OwedOf(Outbounds, ClosedNow),
                CancelledOn(commands, ClosedNow), CancelledOn(missions, ClosedNow), lastPart)
    BY <1>1, FlowCut DEF LinkInv, Flows
  <2> QED
    BY <1>2, <2>1, <2>2, <2>3 DEF Flows
<1>4. WaitersArePaired'
  <2>1. PairedOnes \ ClosedNow \subseteq PairedOnes'
    BY PairedStay DEF Cuts
  <2>2. commands \in [Command -> Calls] /\ missions \in [Mission -> Calls]
    BY LinkTypes
  <2>3. /\ WaitOn(Command, CancelledOn(commands, ClosedNow), PairedOnes')
        /\ WaitOn(Mission, CancelledOn(missions, ClosedNow), PairedOnes')
    BY <2>1, <2>2, WaitCut DEF LinkInv, WaitersArePaired
  <2> QED
    BY <1>2, <2>3 DEF WaitersArePaired
<1>5. OnlyPairedWrite'
  BY CutsKeepPaired DEF LinkInv, Cuts
<1>6. RegistryMirrorsServer'
  BY EventsMirror DEF LinkInv, Cuts
<1> QED
  BY <1>3, <1>4, <1>5, <1>6, CutsKeepClosures DEF LinkInv

\* A step that writes a frame on a connection that is there, after which the calls are cmds
\* and miss and the answers under way sett: it is queued, or one too many closes the connection.
LEMMA SendKeeps ==
  ASSUME LinkInv, NEW sett \in SUBSET settled, NEW cmds \in [Command -> Calls], NEW miss \in [Mission -> Calls],
         NEW c \in PairedOnes, NEW b \in Frames,
         FlowInv(Appended(Outbounds, c, b), sett, cmds, miss, lastPart),
         WaitOn(Command, cmds, PairedOnes), WaitOn(Mission, miss, PairedOnes),
         connections' = AfterSend(c, b), settled' = sett \cup RefusedBySend(c, b), UNCHANGED lifecycleVars,
         Events, commands' = Cancelled(cmds), missions' = Cancelled(miss), UNCHANGED lastPart
  PROVE  LinkInv'
<1>1. /\ connections[c] \in Link /\ c \in Connection /\ Paired(c) /\ Open(c) /\ ~connections[c].closed
      /\ ServerInv /\ OnlyPairedWrite /\ LinksTypeOK
  BY LinkTypes DEF PairedOnes, Paired, Open, LinkInv
<1>2. ServerInv'
  <2>1. LinksTypeOK' /\ Fades
    BY <1>1, LinkTypes, RefusedType, AfterSendFades, LinkAssumption DEF ServerInv
  <2>2. LifecycleTypeOK'
    BY <1>1 DEF ServerInv, LifecycleTypeOK, lifecycleVars
  <2> QED
    BY <1>1, <2>1, <2>2, FadesKeeps
<1>3. /\ commands' = CancelledOn(cmds, ClosedNow)
      /\ missions' = CancelledOn(miss, ClosedNow)
  BY DEF Cancelled, CancelledOn, WaitsOn
<1>4. /\ Goes(connections[c], Closed(connections[c])) /\ Closed(connections[c]).closed
      /\ Closed(connections[c]).outbound = <<>>
  BY <1>1, Closes, ClosedType
<1>5. CASE Overflows(c)
  <2>1. /\ connections' = Without({c}) /\ settled' = sett \cup (Owed({c}) \cup {Failed(c, b)})
    BY <1>1, <1>5 DEF AfterSend, RefusedBySend
  <2>2. \A e \in Connection : connections'[e] = IF e = c THEN Closed(connections[e]) ELSE connections[e]
    BY <2>1 DEF Without
  <2>3. ClosedNow = {c}
    BY <1>1, <1>4, <2>2 DEF ClosedNow
  <2>4. \A e \in Connection : Goes(connections[e], connections'[e]) /\ Keeps(connections[e], connections'[e])
    BY <1>1, <2>2, Closes, Stays
  <2>5. Outbounds' = CutOut(Appended(Outbounds, c, b), {c})
    <3>1. Outbounds' = CutOut(Outbounds, {c})
      BY <1>1, <2>3, <2>4, CutsKeepOutbounds
    <3> QED
      BY <3>1 DEF CutOut, Appended, Outbounds
  <2>6. settled' = sett \cup OwedOf(Appended(Outbounds, c, b), {c})
    <3> DEFINE all == Appended(Outbounds, c, b)[c]
    <3>1. Owed({c}) = {Failed(c, Outbounds[c][i]) : i \in 1..Len(Outbounds[c])}
      BY <1>1, OwedIs DEF OwedOf
    <3>2. /\ all = Append(Outbounds[c], b) /\ Outbounds[c] \in Seq(Frames)
      BY <1>1, LinkTypes DEF Appended, Outbounds
    <3>3. /\ Len(Outbounds[c]) \in Nat /\ Len(all) = Len(Outbounds[c]) + 1
          /\ all[Len(Outbounds[c]) + 1] = b /\ \A i \in 1..Len(Outbounds[c]) : all[i] = Outbounds[c][i]
      BY <3>2, AppendIs
    <3>4. OwedOf(Appended(Outbounds, c, b), {c}) = {Failed(c, all[i]) : i \in 1..Len(all)}
      BY DEF OwedOf
    <3> HIDE DEF all
    <3>5. {Failed(c, all[i]) : i \in 1..Len(all)}
            = {Failed(c, Outbounds[c][i]) : i \in 1..Len(Outbounds[c])} \cup {Failed(c, b)}
      <4>1. 1..Len(all) = 1..Len(Outbounds[c]) \cup {Len(Outbounds[c]) + 1}
        BY <3>3
      <4> QED
        BY <3>3, <4>1
    <3> QED
      BY <2>1, <3>1, <3>4, <3>5
  <2>7. Flows'
    <3>1. {c} \in SUBSET Connection
      BY <1>1
    <3>2. FlowInv(CutOut(Appended(Outbounds, c, b), {c}), sett \cup OwedOf(Appended(Outbounds, c, b), {c}),
                  CancelledOn(cmds, {c}), CancelledOn(miss, {c}), lastPart)
      BY <3>1, FlowCut
    <3> QED
      BY <1>3, <2>3, <2>5, <2>6, <3>2 DEF Flows
  <2>8. WaitersArePaired'
    BY <1>3, <2>4, PairedStay, WaitCut DEF WaitersArePaired
  <2>9. FailuresAreClosures'
    <3> SUFFICES ASSUME NEW s \in settled', ~s.ok PROVE connections'[s.connection].closed
      BY DEF FailuresAreClosures
    <3>1. CASE s \in settled
      BY <2>4, <3>1, LinkTypes DEF LinkInv, FailuresAreClosures, Goes, Settlement
    <3>2. CASE s \in Owed({c}) \cup {Failed(c, b)}
      <4>1. s.connection = c
        BY <3>2 DEF Owed, Failed
      <4> QED
        BY <1>1, <1>4, <2>2, <4>1
    <3> QED
      BY <2>1, <3>1, <3>2
  <2>10. OnlyPairedWrite' /\ RegistryMirrorsServer'
    BY <1>1, <1>2, <2>4, CutsKeepPaired, EventsMirror DEF LinkInv
  <2> QED
    BY <1>2, <2>7, <2>8, <2>9, <2>10 DEF LinkInv
<1>6. CASE ~Overflows(c)
  <2> DEFINE link == [connections[c] EXCEPT !.outbound = Append(@, b)]
  <2>1. connections' = [connections EXCEPT ![c] = link] /\ settled' = sett
    BY <1>1, <1>6 DEF AfterSend, RefusedBySend, LinksTypeOK
  <2>2. /\ link.closed = connections[c].closed /\ link.accepted = connections[c].accepted
        /\ link.outbound = Append(connections[c].outbound, b) /\ link.pairing = connections[c].pairing
        /\ link.phase = connections[c].phase /\ link.reservedDeviceId = connections[c].reservedDeviceId
    BY <1>1 DEF Link
  <2> HIDE DEF link
  <2>3. /\ \A e \in Connection : connections'[e] = IF e = c THEN link ELSE connections[e]
        /\ ClosedNow = {}
    BY <1>1, <2>1, <2>2 DEF LinksTypeOK, ClosedNow
  <2>4. \A e \in Connection : Goes(connections[e], connections'[e])
    BY <1>1, <2>2, <2>3, Stays DEF Goes
  <2>5. Outbounds' = Appended(Outbounds, c, b)
    BY <1>1, <2>2, <2>3 DEF Outbounds, Appended
  <2>6. commands' = cmds /\ missions' = miss
    BY <1>3, <2>3 DEF CancelledOn
  <2>7. PairedOnes \subseteq PairedOnes'
    BY <2>3, <2>4, PairedStay
  <2>8. WaitersArePaired' /\ Flows'
    BY <2>1, <2>5, <2>6, <2>7 DEF WaitersArePaired, WaitOn, Flows
  <2>9. FailuresAreClosures'
    BY <2>1, <2>4, LinkTypes DEF LinkInv, FailuresAreClosures, Goes, Settlement
  <2>10. OnlyPairedWrite'
    BY <1>1, <2>2, <2>3 DEF OnlyPairedWrite, Paired, Open
  <2>11. RegistryMirrorsServer'
    BY <1>1, <1>2, <2>4, EventsMirror DEF LinkInv
  <2> QED
    BY <1>2, <2>8, <2>9, <2>10, <2>11 DEF LinkInv
<1> QED
  BY <1>5, <1>6

\* A call that is no more than it was: not asked anew, and waiting only if it did.
Dwindles(S, calls, calls2) ==
  /\ calls2 \in [S -> Calls]
  /\ \A k \in S : /\ calls2[k].connection = calls[k].connection
                  /\ calls2[k].status = "waiting" => calls[k].status = "waiting"
                  /\ calls2[k].status = "unused" <=> calls[k].status = "unused"
                  /\ calls2[k].status = "unused" => calls2[k] = calls[k]

\* A step that is no event: nobody pairs, nobody leaves.
LEMMA QuietKeeps ==
  ASSUME LinkInv, ServerInv', Flows',
         \A c \in Connection :
           /\ connections'[c].accepted = connections[c].accepted
           /\ connections'[c].closed = connections[c].closed
           /\ connections'[c].phase = connections[c].phase
           /\ connections'[c].pairing = connections[c].pairing
           /\ connections'[c].reservedDeviceId = connections[c].reservedDeviceId
           /\ connections'[c].outbound # <<>> => connections[c].outbound # <<>>,
         Dwindles(Command, commands, commands'), Dwindles(Mission, missions, missions'),
         \A s \in settled' : ~s.ok => s \in settled,
         UNCHANGED registry, facts' \subseteq facts \cup PairedOnes
  PROVE  LinkInv'
<1>1. PairedOnes' = PairedOnes
  BY DEF PairedOnes, Paired, Open
<1>2. WaitersArePaired'
  BY <1>1 DEF LinkInv, WaitersArePaired, WaitOn, Dwindles
<1>3. OnlyPairedWrite'
  BY DEF LinkInv, OnlyPairedWrite, Paired, Open
<1>4. FailuresAreClosures'
  BY LinkTypes DEF LinkInv, FailuresAreClosures, Settlement
<1>5. RegistryMirrorsServer'
  <2>1. /\ registry = {Registered(c, connections[c].reservedDeviceId) : c \in PairedOnes}
        /\ facts \subseteq {r.connection : r \in registry}
    BY DEF LinkInv, RegistryMirrorsServer, PairedOnes
  <2>2. registry' = {Registered(c, connections'[c].reservedDeviceId) : c \in PairedOnes'}
    BY <1>1, <2>1 DEF PairedOnes
  <2>3. PairedOnes \subseteq {r.connection : r \in registry}
    <3> SUFFICES ASSUME NEW c \in PairedOnes PROVE \E r \in registry : c = r.connection
      OBVIOUS
    <3>1. Registered(c, connections[c].reservedDeviceId) \in registry
      BY <2>1
    <3> QED
      BY <3>1 DEF Registered
  <2>4. facts' \subseteq {r.connection : r \in registry'}
    BY <2>1, <2>3
  <2> QED
    BY <2>2, <2>4 DEF RegistryMirrorsServer, PairedOnes
<1> QED
  BY <1>2, <1>3, <1>4, <1>5 DEF LinkInv

LEMMA DwindlesOrNot ==
  ASSUME LinkInv
  PROVE  Dwindles(Command, commands, commands) /\ Dwindles(Mission, missions, missions)
BY LinkTypes DEF Dwindles

\* A call given another status than unused, waiting only if it was.
LEMMA StatusIs ==
  ASSUME NEW S, NEW calls \in [S -> Calls], NEW k \in S, calls[k].status # "unused",
         NEW status \in Over, NEW calls2, calls2 = [calls EXCEPT ![k].status = status]
  PROVE  /\ Dwindles(S, calls, calls2)
         /\ \A n \in S : calls2[n].part = calls[n].part
<1> DEFINE call == [calls[k] EXCEPT !.status = status]
<1>1. /\ call \in Calls /\ call.connection = calls[k].connection /\ call.part = calls[k].part
      /\ call.status = status /\ status # "unused" /\ status # "waiting"
  BY DEF Calls, Over
<1>2. calls2 = [calls EXCEPT ![k] = call]
  OBVIOUS
<1> HIDE DEF call
<1>3. calls2 \in [S -> Calls] /\ \A n \in S : calls2[n] = IF n = k THEN call ELSE calls[n]
  BY <1>1, <1>2
<1> QED
  BY <1>1, <1>3 DEF Dwindles

LEMMA TimeoutKeeps ==
  ASSUME LinkInv, (\E k \in Command : CommandTimesOut(k)) \/ (\E m \in Mission : MissionTimesOut(m))
  PROVE  LinkInv'
<1>1. /\ UNCHANGED <<lifecycleVars, connections, settled, registry, facts, lastPart>>
      /\ Dwindles(Command, commands, commands') /\ Dwindles(Mission, missions, missions')
      /\ \A m \in Mission : missions'[m].part = missions[m].part
  <2>1. "timed-out" \in Over /\ "waiting" # "unused"
    BY DEF Over
  <2>2. ASSUME NEW k \in Command, CommandTimesOut(k)
        PROVE  Dwindles(Command, commands, commands') /\ UNCHANGED missions
    BY <2>1, <2>2, LinkTypes, StatusIs DEF CommandTimesOut
  <2>3. ASSUME NEW m \in Mission, MissionTimesOut(m)
        PROVE  /\ Dwindles(Mission, missions, missions') /\ UNCHANGED commands
               /\ \A n \in Mission : missions'[n].part = missions[n].part
    <3>1. /\ missions \in [Mission -> Calls] /\ missions[m].status # "unused" /\ UNCHANGED commands
          /\ missions' = [missions EXCEPT ![m].status = "timed-out"]
      BY <2>1, <2>3, LinkTypes DEF MissionTimesOut
    <3>2. Dwindles(Mission, missions, missions')
      BY <2>1, <3>1, StatusIs
    <3>3. \A n \in Mission : missions'[n].part = missions[n].part
      BY <3>1 DEF Calls
    <3> QED
      BY <3>1, <3>2, <3>3
  <2>4. UNCHANGED <<lifecycleVars, connections, settled, registry, facts, lastPart>>
    BY DEF CommandTimesOut, MissionTimesOut, serverVars
  <2> QED
    BY <2>2, <2>3, <2>4, DwindlesOrNot
<1>2. ServerInv'
  BY <1>1, RestKeepsServer DEF LinkInv
<1>3. Outbounds' = Outbounds
  BY <1>1 DEF Outbounds
<1>4. FlowInv(Outbounds, settled, commands', missions', lastPart)
  BY <1>1, FlowAnswered DEF LinkInv, Flows, Dwindles
<1>5. Flows'
  BY <1>1, <1>3, <1>4 DEF Flows
<1> QED
  BY <1>1, <1>2, <1>5, QuietKeeps

\* The transport took a frame.
LEMMA FrameLeavesKeeps ==
  ASSUME LinkInv, NEW c \in Connection, FrameLeaves(c)
  PROVE  LinkInv'
<1> DEFINE b == Head(connections[c].outbound)
           s == [connection |-> c, bytes |-> b, ok |-> TRUE]
           link == [connections[c] EXCEPT !.outbound = Tail(@)]
<1>1. /\ Open(c) /\ connections[c].outbound # <<>> /\ connections[c] \in Link
      /\ connections' = [connections EXCEPT ![c] = link] /\ settled' = settled \cup {s}
      /\ UNCHANGED <<lifecycleVars, registry, commands, missions, facts>>
      /\ lastPart' = IF b.part > 0 THEN [lastPart EXCEPT ![c] = b] ELSE lastPart
  BY LinkTypes DEF FrameLeaves, Written
<1>2. /\ link.outbound = Tail(connections[c].outbound) /\ link.closed = connections[c].closed
      /\ link.accepted = connections[c].accepted /\ link.phase = connections[c].phase
      /\ link.pairing = connections[c].pairing /\ link.reservedDeviceId = connections[c].reservedDeviceId
  BY <1>1 DEF Link
<1> HIDE DEF link
<1>3. \A e \in Connection : connections'[e] = IF e = c THEN link ELSE connections[e]
  BY <1>1, LinkTypes
<1>4. ServerInv'
  BY OrdinaryKeepsServer DEF LinkInv, FrameLeaves, Ordinary
<1>5. Flows'
  <2>1. Outbounds[c] = connections[c].outbound /\ Outbounds' = [Outbounds EXCEPT ![c] = Tail(@)]
    BY <1>2, <1>3 DEF Outbounds
  <2>2. FlowInv([Outbounds EXCEPT ![c] = Tail(@)], settled \cup {s}, commands, missions,
                IF b.part > 0 THEN [lastPart EXCEPT ![c] = b] ELSE lastPart)
    BY <1>1, <2>1, FlowWritten DEF LinkInv, Flows
  <2> QED
    BY <1>1, <2>1, <2>2 DEF Flows
<1> QED
  BY <1>1, <1>2, <1>3, <1>4, <1>5, DwindlesOrNot, QuietKeeps

\* A frame is handed to the subscribers: a call pending on the connection is answered, or a
\* fact is noted.
LEMMA ResolvedIs ==
  ASSUME NEW S, NEW calls \in [S -> Calls], NEW c, NEW answer \in Answers
  PROVE  /\ Dwindles(S, calls, Resolved(calls, c, answer))
         /\ \A k \in S : Resolved(calls, c, answer)[k].part = calls[k].part
<1> DEFINE status == IF answer.ok THEN "succeeded" ELSE "rejected"
<1>1. status \in Over
  BY DEF Over
<1> HIDE DEF status
<1>2. \A call \in Calls : /\ [call EXCEPT !.status = status] \in Calls
                          /\ [call EXCEPT !.status = status].connection = call.connection
                          /\ [call EXCEPT !.status = status].part = call.part
                          /\ [call EXCEPT !.status = status].status = status
  BY <1>1 DEF Calls
<1>3. status # "unused" /\ status # "waiting"
  BY <1>1 DEF Over
<1>4. /\ DOMAIN Resolved(calls, c, answer) = S
      /\ \A k \in S : Resolved(calls, c, answer)[k] =
           IF k = answer.call /\ WaitsOn(calls[k], c) THEN [calls[k] EXCEPT !.status = status] ELSE calls[k]
  BY DEF Resolved, status
<1>5. Resolved(calls, c, answer) \in [S -> Calls]
  BY <1>2 DEF Resolved, status
<1> DEFINE after == Resolved(calls, c, answer)
<1> HIDE DEF after
<1>6. ASSUME NEW k \in S
      PROVE  /\ after[k].connection = calls[k].connection /\ after[k].part = calls[k].part
             /\ after[k].status = "waiting" => calls[k].status = "waiting"
             /\ after[k].status = "unused" <=> calls[k].status = "unused"
             /\ after[k].status = "unused" => after[k] = calls[k]
  <2>1. CASE k = answer.call /\ WaitsOn(calls[k], c)
    <3>1. after[k] = [calls[k] EXCEPT !.status = status] /\ calls[k] \in Calls
      BY <1>4, <2>1 DEF after
    <3>2. calls[k].status = "waiting" /\ after[k].status = status
      BY <1>2, <2>1, <3>1 DEF WaitsOn
    <3> QED
      BY <1>2, <1>3, <3>1, <3>2
  <2>2. CASE ~(k = answer.call /\ WaitsOn(calls[k], c))
    BY <1>4, <2>2 DEF after
  <2> QED
    BY <2>1, <2>2
<1> QED
  BY <1>5, <1>6 DEF Dwindles, after

LEMMA FrameRoutedKeeps ==
  ASSUME LinkInv, NEW c \in Connection, NEW frame, FrameRouted(c, frame)
  PROVE  LinkInv'
<1> DEFINE link == [connections[c] EXCEPT !.inbound = Tail(@)]
<1>1. /\ connections[c] \in Link /\ c \in PairedOnes
      /\ connections' = [connections EXCEPT ![c] = link]
      /\ UNCHANGED <<lifecycleVars, settled, registry, lastPart>>
      /\ facts' \subseteq facts \cup {c}
  BY LinkTypes DEF FrameRouted, Routes, Takes, PairedOnes, Paired
<1>2. /\ link.outbound = connections[c].outbound /\ link.closed = connections[c].closed
      /\ link.accepted = connections[c].accepted /\ link.phase = connections[c].phase
      /\ link.pairing = connections[c].pairing /\ link.reservedDeviceId = connections[c].reservedDeviceId
  BY <1>1 DEF Link
<1> HIDE DEF link
<1>3. \A e \in Connection : connections'[e] = IF e = c THEN link ELSE connections[e]
  BY <1>1, LinkTypes
<1>4. ServerInv'
  BY OrdinaryKeepsServer DEF LinkInv, FrameRouted, Ordinary
<1>5. /\ Dwindles(Command, commands, commands') /\ Dwindles(Mission, missions, missions')
      /\ \A m \in Mission : missions'[m].part = missions[m].part
  <2>1. CASE UNCHANGED <<commands, missions>>
    BY <2>1, DwindlesOrNot
  <2>2. CASE /\ frame.payload \in Answers
             /\ commands' = Resolved(commands, c, frame.payload)
             /\ missions' = Resolved(missions, c, frame.payload)
    BY <2>2, LinkTypes, ResolvedIs
  <2> QED
    BY <2>1, <2>2 DEF FrameRouted
<1>6. Flows'
  <2>1. Outbounds' = Outbounds
    BY <1>2, <1>3 DEF Outbounds
  <2>2. FlowInv(Outbounds, settled, commands', missions', lastPart)
    BY <1>5, FlowAnswered DEF LinkInv, Flows, Dwindles
  <2> QED
    BY <1>1, <2>1, <2>2 DEF Flows
<1>7. \A e \in Connection :
           /\ connections'[e].accepted = connections[e].accepted
           /\ connections'[e].closed = connections[e].closed
           /\ connections'[e].phase = connections[e].phase
           /\ connections'[e].pairing = connections[e].pairing
           /\ connections'[e].reservedDeviceId = connections[e].reservedDeviceId
           /\ connections'[e].outbound # <<>> => connections[e].outbound # <<>>
  BY <1>2, <1>3
<1>8. facts' \subseteq facts \cup PairedOnes
  BY <1>1
<1> QED
  BY <1>1, <1>4, <1>5, <1>6, <1>7, <1>8, QuietKeeps

-----------------------------------------------------------------------------
(* Callers continue.                                                       *)

LEMMA ContinuesKeepsServer ==
  ASSUME LinkInv, NEW s, Continues(s)
  PROVE  ServerInv'
BY RestKeepsServer DEF Continues, LinkInv

LEMMA CommandSentKeeps ==
  ASSUME LinkInv, NEW s, CommandSent(s)
  PROVE  LinkInv'
<1>1. /\ s \in settled /\ s.bytes.part = 0 /\ settled' = settled \ {s}
      /\ UNCHANGED <<connections, registry, missions, facts, lastPart>>
  BY DEF CommandSent, Continues
<1>2. Dwindles(Command, commands, commands')
  <2>1. \A call \in Calls : /\ [call EXCEPT !.status = "disconnected"] \in Calls
                            /\ [call EXCEPT !.status = "disconnected"].connection = call.connection
                            /\ [call EXCEPT !.status = "disconnected"].status = "disconnected"
    BY DEF Calls, Over
  <2> QED
    BY <2>1, LinkTypes DEF CommandSent, Dwindles, WaitsOn
<1>3. Outbounds' = Outbounds
  BY <1>1 DEF Outbounds
<1>4. FlowInv(Outbounds, settled \ {s}, commands', missions, lastPart)
  BY <1>1, <1>2, FlowEnds, LinkTypes DEF LinkInv, Flows, Dwindles
<1>5. Flows'
  BY <1>1, <1>3, <1>4 DEF Flows
<1> QED
  BY <1>1, <1>2, <1>5, ContinuesKeepsServer, DwindlesOrNot, QuietKeeps DEF CommandSent

\* The loop of a frame that was sent: its mission waits on the connection of the frame, unless
\* it is over.
LEMMA LoopIs ==
  ASSUME LinkInv, NEW s \in settled, s.bytes.part > 0
  PROVE  /\ s.bytes \in Frames /\ s.bytes.call \in Mission /\ s.bytes = MissionFrame(s.bytes.call, s.bytes.part)
         /\ s.connection \in Connection /\ missions[s.bytes.call].connection = s.connection
         /\ missions[s.bytes.call].part = s.bytes.part /\ missions[s.bytes.call].status # "unused"
         /\ missions[s.bytes.call] \in Calls
<1>1. s.bytes \in Frames /\ s.connection \in Connection
  BY UnderWay DEF LinkInv, Flows
<1>2. IsOf(s.bytes, s.connection, commands, missions)
  BY DEF LinkInv, Flows, FlowInv, FramesAreOfCalls
<1>3. s.bytes.call \in Mission /\ s.bytes = MissionFrame(s.bytes.call, s.bytes.part)
  BY <1>1, FrameIs
<1>4. missions[s.bytes.call] \in Calls
  BY <1>3, LinkTypes
<1>5. missions[s.bytes.call].part = s.bytes.part /\ missions[s.bytes.call].connection = s.connection
  BY <1>2 DEF IsOf
<1>6. missions[s.bytes.call].status # "unused"
  BY <1>3, <1>5 DEF LinkInv, Flows, FlowInv, UnusedAreNew, NoCall
<1> QED
  BY <1>1, <1>3, <1>4, <1>5, <1>6

LEMMA LoopEndsKeeps ==
  ASSUME LinkInv, NEW s \in settled, s.bytes.part > 0, NEW status \in Over \cup {"waiting"},
         status = "waiting" => missions[s.bytes.call].status = "waiting",
         LoopEnds(s.bytes.call, s, status), UNCHANGED lastPart
  PROVE  LinkInv'
<1> DEFINE m == s.bytes.call
           call == [missions[m] EXCEPT !.part = 0, !.status = status]
<1>1. /\ m \in Mission /\ missions[m].status # "unused" /\ missions[m] \in Calls
      /\ missions \in [Mission -> Calls]
  BY LoopIs, LinkTypes
<1>2. /\ call \in Calls /\ call.status = status /\ call.part = 0
      /\ call.connection = missions[m].connection
  <2>1. 0 \in 0..LastPart
    BY LinkAssumption DEF LastPart
  <2> QED
    BY <1>1, <2>1 DEF Calls
<1>3. /\ settled' = settled \ {s} /\ UNCHANGED <<connections, registry, commands, facts, lastPart>>
      /\ missions' = [missions EXCEPT ![m] = call]
  BY DEF LoopEnds, Continues
<1> HIDE DEF call
<1>4. \A n \in Mission : missions'[n] = IF n = m THEN call ELSE missions[n]
  BY <1>1, <1>3
<1>5. Dwindles(Mission, missions, missions')
  <2>1. missions' \in [Mission -> Calls]
    BY <1>1, <1>2, <1>3
  <2>2. status # "unused"
    BY DEF Over
  <2> QED
    BY <1>1, <1>2, <1>4, <2>1, <2>2 DEF Dwindles
<1>6. Outbounds' = Outbounds
  BY <1>3 DEF Outbounds
<1>7. \A n \in Mission : missions'[n].part = IF n = s.bytes.call /\ s.bytes.part > 0 THEN 0 ELSE missions[n].part
  BY <1>2, <1>4
<1>8. FlowInv(Outbounds, settled \ {s}, commands, missions', lastPart)
  BY <1>5, <1>7, DwindlesOrNot, FlowEnds DEF LinkInv, Flows, Dwindles
<1>9. Flows'
  BY <1>3, <1>6, <1>8 DEF Flows
<1> QED
  BY <1>3, <1>5, <1>9, ContinuesKeepsServer, DwindlesOrNot, QuietKeeps DEF LoopEnds

LEMMA LoopSendsKeeps ==
  ASSUME LinkInv, NEW s \in settled, s.bytes.part > 0, s.bytes.part < LastPart,
         missions[s.bytes.call].status = "waiting", LoopSends(s.bytes.call, s), UNCHANGED lastPart
  PROVE  LinkInv'
<1> DEFINE m == s.bytes.call
           c == s.connection
           b == MissionFrame(m, s.bytes.part + 1)
           miss == [missions EXCEPT ![m].part = b.part]
<1>1. /\ m \in Mission /\ missions[m].connection = c /\ missions[m].part = s.bytes.part
      /\ missions \in [Mission -> Calls] /\ commands \in [Command -> Calls] /\ s.bytes \in Frames
  BY LoopIs, LinkTypes
<1>2. c \in PairedOnes
  BY <1>1 DEF LinkInv, WaitersArePaired, WaitOn
<1>3. s.bytes.part + 1 \in 1..LastPart /\ s.bytes.part + 1 \in 0..LastPart /\ b.part = s.bytes.part + 1
  BY <1>1, FrameIs, LinkAssumption DEF LastPart, MissionFrame
<1>4. b \in Frames
  BY <1>1, <1>3, FrameType
<1>5. miss \in [Mission -> Calls]
  BY <1>1, <1>3 DEF Calls
<1>6. WaitOn(Mission, miss, PairedOnes)
  BY <1>1, <1>3 DEF LinkInv, WaitersArePaired, WaitOn, Calls
<1>7. FlowInv(Appended(Outbounds, c, b), settled \ {s}, commands, miss, lastPart)
  BY <1>3, FlowNext DEF LinkInv, Flows
<1> HIDE DEF miss, b
<1>8. /\ connections' = AfterSend(c, b) /\ settled' = (settled \ {s}) \cup RefusedBySend(c, b)
      /\ UNCHANGED lifecycleVars /\ Events
      /\ commands' = Cancelled(commands) /\ missions' = Cancelled(miss)
  BY DEF LoopSends, miss, b
<1> QED
  BY <1>1, <1>2, <1>4, <1>5, <1>6, <1>7, <1>8, SendKeeps DEF LinkInv, WaitersArePaired

LEMMA PartSentKeeps ==
  ASSUME LinkInv, NEW s, PartSent(s)
  PROVE  LinkInv'
<1> DEFINE status == missions[s.bytes.call].status
<1>1. s \in settled /\ s.bytes.part > 0 /\ LoopContinues(s.bytes.call, s) /\ UNCHANGED lastPart
  BY DEF PartSent
<1>2. status \in Over \cup {"waiting"}
  BY <1>1, LoopIs DEF Calls
<1> HIDE DEF status
<1>3. \/ LoopEnds(s.bytes.call, s, status)
      \/ status = "waiting" /\ LoopEnds(s.bytes.call, s, "transport-failed")
      \/ status = "waiting" /\ s.bytes.part < LastPart /\ LoopSends(s.bytes.call, s)
      \/ status = "waiting" /\ LoopEnds(s.bytes.call, s, "waiting")
  BY <1>1 DEF LoopContinues, status
<1>4. "transport-failed" \in Over
  BY DEF Over
<1> QED
  BY <1>1, <1>2, <1>3, <1>4, LoopEndsKeeps, LoopSendsKeeps DEF status

-----------------------------------------------------------------------------
(* Calls.                                                                  *)

LEMMA RegisteredArePaired ==
  ASSUME LinkInv, NEW c, NEW r \in registry, r.connection = c
  PROVE  c \in PairedOnes /\ r.device = connections[c].reservedDeviceId
<1>1. PICK e \in PairedOnes : r = Registered(e, connections[e].reservedDeviceId)
  BY DEF LinkInv, RegistryMirrorsServer, PairedOnes
<1> QED
  BY <1>1 DEF Registered

LEMMA SendCommandKeeps ==
  ASSUME LinkInv, NEW k \in Command, NEW c \in Connection, SendCommand(k, c)
  PROVE  LinkInv'
<1> DEFINE call == [status |-> "waiting", connection |-> c, part |-> 0]
           cmds == [commands EXCEPT ![k] = call]
           b == CommandFrame(k)
<1>1. c \in PairedOnes /\ commands[k].status = "unused" /\ b \in Frames
  BY RegisteredArePaired, FrameType DEF SendCommand
<1>2. commands \in [Command -> Calls] /\ missions \in [Mission -> Calls] /\ 0 \in 0..LastPart
  BY LinkTypes, LinkAssumption DEF LastPart
<1>3. cmds \in [Command -> Calls]
  BY <1>2 DEF Calls
<1>4. WaitOn(Command, cmds, PairedOnes)
  BY <1>1, <1>2 DEF LinkInv, WaitersArePaired, WaitOn
<1>5. FlowInv(Appended(Outbounds, c, b), settled, cmds, missions, lastPart)
  BY <1>1, FlowCommand DEF LinkInv, Flows
<1> HIDE DEF cmds, b
<1>6. /\ connections' = AfterSend(c, b) /\ settled' = settled \cup RefusedBySend(c, b)
      /\ UNCHANGED lifecycleVars /\ Events /\ UNCHANGED lastPart
      /\ commands' = Cancelled(cmds) /\ missions' = Cancelled(missions)
  BY DEF SendCommand, Send, cmds, b
<1> QED
  BY <1>1, <1>2, <1>3, <1>4, <1>5, <1>6, SendKeeps DEF LinkInv, WaitersArePaired

LEMMA SendMissionKeeps ==
  ASSUME LinkInv, NEW m \in Mission, NEW c \in Connection, SendMission(m, c)
  PROVE  LinkInv'
<1>1. /\ c \in PairedOnes /\ missions[m].status = "unused" /\ missions[m] = NoCall
      /\ commands \in [Command -> Calls] /\ missions \in [Mission -> Calls]
  BY RegisteredArePaired, LinkTypes DEF SendMission, LinkInv, Flows, FlowInv, UnusedAreNew
<1>2. CASE Active(c) # {}
  <2> DEFINE call == [missions[m] EXCEPT !.status = "rejected"]
  <2>1. /\ missions' = [missions EXCEPT ![m] = call]
        /\ UNCHANGED <<lifecycleVars, connections, settled, registry, commands, facts, lastPart>>
    BY <1>1, <1>2 DEF SendMission, serverVars
  <2>2. /\ call \in Calls /\ call.status = "rejected" /\ call.connection = missions[m].connection
        /\ call.part = 0 /\ missions[m].part = 0
    <3>1. missions[m] \in Calls /\ "rejected" \in Over
      BY <1>1 DEF Over
    <3> QED
      BY <1>1, <3>1 DEF Calls, NoCall
  <2> HIDE DEF call
  <2>3. missions' \in [Mission -> Calls] /\ \A n \in Mission : missions'[n] = IF n = m THEN call ELSE missions[n]
    BY <1>1, <2>1, <2>2
  <2>4. ServerInv' /\ Outbounds' = Outbounds
    BY <2>1, RestKeepsServer DEF LinkInv, Outbounds
  <2>5. FlowInv(Outbounds, settled, commands, missions', lastPart)
    <3>1. \A n \in Mission : /\ missions'[n].connection = missions[n].connection
                             /\ missions'[n].part = missions[n].part
                             /\ missions'[n].status = "waiting" => missions[n].status = "waiting"
                             /\ missions'[n].status = "unused" => missions'[n] = missions[n]
      BY <2>2, <2>3
    <3> QED
      BY <1>1, <2>3, <3>1, FlowAnswered DEF LinkInv, Flows
  <2>6. WaitersArePaired' /\ OnlyPairedWrite' /\ FailuresAreClosures' /\ RegistryMirrorsServer'
    <3>1. WaitOn(Mission, missions', PairedOnes)
      BY <2>2, <2>3 DEF LinkInv, WaitersArePaired, WaitOn
    <3> QED
      BY <2>1, <3>1
      DEF LinkInv, WaitersArePaired, OnlyPairedWrite, FailuresAreClosures, RegistryMirrorsServer,
          PairedOnes, Paired, Open, WaitOn
  <2>7. Flows'
    BY <2>1, <2>4, <2>5 DEF Flows
  <2> QED
    BY <2>4, <2>6, <2>7 DEF LinkInv
<1>3. CASE Active(c) = {}
  <2> DEFINE call == [status |-> "waiting", connection |-> c, part |-> 1]
             miss == [missions EXCEPT ![m] = call]
             b == MissionFrame(m, 1)
  <2>1. 1 \in 1..LastPart /\ 1 \in 0..LastPart
    BY LinkAssumption DEF LastPart
  <2>2. b \in Frames /\ miss \in [Mission -> Calls]
    BY <1>1, <2>1, FrameType DEF Calls
  <2>3. WaitOn(Mission, miss, PairedOnes)
    BY <1>1 DEF LinkInv, WaitersArePaired, WaitOn
  <2>4. \A n \in Mission : ~WaitsOn(missions[n], c)
    BY <1>3 DEF Active
  <2>5. FlowInv(Appended(Outbounds, c, b), settled, commands, miss, lastPart)
    BY <1>1, <2>4, FlowMission DEF LinkInv, Flows
  <2> HIDE DEF miss, b
  <2>6. /\ connections' = AfterSend(c, b) /\ settled' = settled \cup RefusedBySend(c, b)
        /\ UNCHANGED lifecycleVars /\ Events /\ UNCHANGED lastPart
        /\ commands' = Cancelled(commands) /\ missions' = Cancelled(miss)
    BY <1>3 DEF SendMission, Send, miss, b
  <2> QED
    BY <1>1, <2>2, <2>3, <2>5, <2>6, SendKeeps DEF LinkInv, WaitersArePaired
<1> QED
  BY <1>2, <1>3

-----------------------------------------------------------------------------
(* The theorems.                                                           *)

\* Every step of the link that is no answer, no timeout and no continuation.
LEMMA ServesKeeps ==
  ASSUME LinkInv, Serves \/ \E c \in Connection, frame \in Frame : PhoneSends(c, frame)
  PROVE  LinkInv'
<1>1. CASE Serves
  <2>1. ServerInv'
    <3>1. CASE Lifecycle
      BY <3>1, LifecycleKeepsServer DEF LinkInv
    <3>2. ASSUME NEW c \in Connection, Accept(c) PROVE ServerInv'
      BY <3>2, AcceptKeeps DEF LinkInv
    <3>3. ASSUME NEW c \in Connection, NEW frame, Hello(c, frame) PROVE ServerInv'
      BY <3>3, HelloKeeps DEF LinkInv
    <3>4. ASSUME NEW c \in Connection, Ordinary(c) PROVE ServerInv'
      BY <3>4, OrdinaryKeepsServer DEF LinkInv
    <3> QED
      BY <1>1, <3>1, <3>2, <3>3, <3>4 DEF Serves, ServerStep, Ordinary
  <2>2. Cuts
    BY <1>1, ServerStepCuts DEF LinkInv, Serves
  <2> QED
    BY <1>1, <2>1, <2>2, CutsKeep DEF Serves
<1>2. ASSUME NEW c \in Connection, NEW frame \in Frame, PhoneSends(c, frame)
      PROVE  LinkInv'
  <2>1. ServerInv'
    BY <1>2, OrdinaryKeepsServer DEF LinkInv, PhoneSends, Ordinary
  <2>2. Cuts
    BY <1>2, ServerStepCuts DEF LinkInv, PhoneSends
  <2> QED
    BY <1>2, <2>1, <2>2, CutsKeep DEF PhoneSends
<1> QED
  BY <1>1, <1>2

LEMMA LinkInitInv == LinkInit => LinkInv
<1> SUFFICES ASSUME LinkInit PROVE LinkInv
  OBVIOUS
<1>1. ServerInv /\ \A c \in Connection : connections[c] = Unused
  BY ServerInitInv DEF LinkInit, ServerInit
<1>2. /\ settled = {} /\ registry = {} /\ facts = {}
      /\ \A k \in Command : commands[k] = NoCall
      /\ \A m \in Mission : missions[m] = NoCall
  BY DEF LinkInit, ServerInit
<1>3. \A c \in Connection : Outbounds[c] = <<>> /\ Len(Outbounds[c]) = 0
  BY <1>1 DEF Outbounds, Unused
<1>4. PairedOnes = {}
  BY <1>1 DEF PairedOnes, Paired, Open, Unused
<1>5. NoCall \in Calls /\ NoCall.part = 0 /\ NoCall.status = "unused"
  BY LinkAssumption DEF NoCall, Calls, LastPart
<1>6. FlowTypeOK(Outbounds, settled, commands, missions, lastPart)
  <2>1. Outbounds \in [Connection -> Seq(Frames)]
    BY <1>3, EmptySeq DEF Outbounds
  <2>2. commands \in [Command -> Calls] /\ missions \in [Mission -> Calls]
    BY <1>5 DEF LinkInit
  <2> QED
    BY <1>2, <2>1, <2>2 DEF FlowTypeOK, LinkInit
<1>7. Flows
  BY <1>2, <1>3, <1>5, <1>6
  DEF Flows, FlowInv, UnusedAreNew, FramesAreOfCalls, FramesAreUnique, LoopsAreAwaited, OneTransfer,
      Follows, BehindAreCommands, NothingBetween
<1>8. OnlyPairedWrite /\ FailuresAreClosures
  BY <1>1, <1>2 DEF OnlyPairedWrite, FailuresAreClosures, Unused
<1>9. WaitersArePaired
  BY <1>2, <1>5 DEF WaitersArePaired, WaitOn
<1>10. RegistryMirrorsServer
  BY <1>2, <1>4 DEF RegistryMirrorsServer, PairedOnes
<1> QED
  BY <1>1, <1>7, <1>8, <1>9, <1>10 DEF LinkInv

LEMMA LinkInvHolds == LinkSpec => []LinkInv
<1>1. LinkInv /\ [LinkNext]_linkVars => LinkInv'
  <2> SUFFICES ASSUME LinkInv, [LinkNext]_linkVars PROVE LinkInv'
    OBVIOUS
  <2>1. CASE UNCHANGED linkVars
    <3>1. ServerInv'
      BY <2>1, RestKeepsServer DEF linkVars, serverVars, LinkInv
    <3> QED
      BY <2>1, <3>1
      DEF linkVars, serverVars, LinkInv, Flows, Outbounds, OnlyPairedWrite, FailuresAreClosures,
          WaitersArePaired, RegistryMirrorsServer, PairedOnes, Paired, Open, WaitOn
  <2> QED
    BY <2>1, ServesKeeps, FrameRoutedKeeps, FrameLeavesKeeps, SendCommandKeeps, SendMissionKeeps,
       CommandSentKeeps, PartSentKeeps, TimeoutKeeps DEF LinkNext
<1> QED
  BY <1>1, LinkInitInv, PTL DEF LinkSpec

\* The phones the link shows are exactly those that are paired, and what is known of a phone
\* goes with its connection (handleServerEvent), for any number of connections and phones.
THEOREM RegistryMirrors == LinkSpec => []RegistryMirrorsServer
<1>1. LinkInv => RegistryMirrorsServer
  BY DEF LinkInv
<1> QED
  BY <1>1, LinkInvHolds, PTL

\* No sending loop is left suspended, and only sends on closed connections fail (sendMission,
\* drainOutbound), however closes, overflows and timeouts interleave.
THEOREM SendsSettle == LinkSpec => []SendsAreSettled
<1>1. LinkInv => SendsAreSettled
  <2> SUFFICES ASSUME LinkInv PROVE SendsAreSettled
    OBVIOUS
  <2>1. ASSUME NEW m \in Mission, missions[m].part > 0
        PROVE  \/ MissionFrame(m, missions[m].part) \in Range(connections[missions[m].connection].outbound)
               \/ \E s \in settled : s.bytes = MissionFrame(m, missions[m].part)
    <3>1. CASE /\ missions[m].connection \in Connection
               /\ \E i \in 1..Len(Outbounds[missions[m].connection]) :
                    Outbounds[missions[m].connection][i] = MissionFrame(m, missions[m].part)
      BY <3>1, LinkTypes DEF Range
    <3> QED
      BY <2>1, <3>1 DEF LinkInv, Flows, FlowInv, LoopsAreAwaited
  <2> QED
    BY <2>1 DEF LinkInv, FailuresAreClosures, SendsAreSettled
<1> QED
  BY <1>1, LinkInvHolds, PTL

\* What a phone gets of a mission is its frames in order (the sending loop of sendMission and
\* drainOutbound): what leaves after a frame that is not a mission's first left right before it.
THEOREM TransfersStayWhole == LinkSpec => TransfersDoNotInterleave
<1> DEFINE InOrder == \A c \in Connection :
             lastPart'[c] # lastPart[c] /\ lastPart'[c].part > 1
               => lastPart[c] = [lastPart'[c] EXCEPT !.part = @ - 1]
<1>1. ASSUME LinkInv, NEW c \in Connection, FrameLeaves(c) PROVE InOrder
  <2> DEFINE b == Head(connections[c].outbound)
  <2>1. /\ connections[c].outbound # <<>> /\ connections[c].outbound \in Seq(Frames)
        /\ Outbounds[c] = connections[c].outbound
        /\ lastPart \in [Connection -> Frames \cup {MissionFrame({}, 0)}]
    BY <1>1, LinkTypes DEF FrameLeaves, Written
  <2>2. b \in Frames /\ b = Outbounds[c][1] /\ 1 \in 1..Len(Outbounds[c])
    BY <2>1, TailIs
  <2>3. b.part > 1 => lastPart[c] = MissionFrame(b.call, b.part - 1)
    BY <1>1, <2>2 DEF LinkInv, Flows, FlowInv, Follows
  <2>4. b = MissionFrame(b.call, b.part)
    BY <2>2, FrameIs
  <2>5. [b EXCEPT !.part = @ - 1] = MissionFrame(b.call, b.part - 1)
    BY <2>4 DEF MissionFrame
  <2>6. lastPart' = [lastPart EXCEPT ![c] = b] \/ lastPart' = lastPart
    BY <1>1 DEF FrameLeaves
  <2> HIDE DEF b
  <2>7. ASSUME NEW e \in Connection PROVE lastPart'[e] = lastPart[e] \/ (e = c /\ lastPart'[e] = b)
    <3>1. CASE lastPart' = [lastPart EXCEPT ![c] = b]
      BY <2>1, <3>1
    <3> QED
      BY <2>6, <3>1
  <2> SUFFICES ASSUME NEW e \in Connection, lastPart'[e] # lastPart[e], lastPart'[e].part > 1
               PROVE  lastPart[e] = [lastPart'[e] EXCEPT !.part = @ - 1]
    OBVIOUS
  <2>8. e = c /\ lastPart'[e] = b
    BY <2>7
  <2>9. [lastPart'[e] EXCEPT !.part = @ - 1] = [b EXCEPT !.part = @ - 1]
    BY <2>8
  <2> QED
    BY <2>3, <2>5, <2>8, <2>9
<1>2. LinkInv /\ [LinkNext]_linkVars => [InOrder]_linkVars
  <2> SUFFICES ASSUME LinkInv, LinkNext PROVE InOrder
    OBVIOUS
  <2>1. CASE UNCHANGED lastPart
    BY <2>1
  <2> QED
    BY <1>1, <2>1
    DEF LinkNext, Serves, PhoneSends, FrameRouted, SendCommand, SendMission, CommandSent, PartSent,
        CommandTimesOut, MissionTimesOut
<1> QED
  BY <1>2, LinkInvHolds, PTL DEF LinkSpec, TransfersDoNotInterleave

-----------------------------------------------------------------------------
(* The link keeps the gateway's promises.                                  *)

AllCalls == Command \cup Mission
Asked == [k \in AllCalls |-> CallOf(k)]
There == {r.device : r \in registry}
WaitingFor(calls, links) ==
  [k \in AllCalls |-> IF calls[k].status = "waiting" THEN links[calls[k].connection].reservedDeviceId
                      ELSE NoDevice]
AnsweredIn(calls) == {k \in AllCalls : calls[k].status \in Over}

\* The phones that leave in a step.
GoneNow == {connections[c].reservedDeviceId : c \in PairedOnes \cap ClosedNow}

LEMMA GatewayState ==
  /\ WaitingFor(Asked, connections)
       = [k \in Command \cup Mission |->
            IF CallOf(k).status = "waiting" THEN connections[CallOf(k).connection].reservedDeviceId
            ELSE NoDevice]
  /\ AnsweredIn(Asked) = {k \in Command \cup Mission : CallOf(k).status \in Over}
  /\ WaitingFor(Asked, connections)'
       = [k \in Command \cup Mission |->
            IF CallOf(k).status = "waiting" THEN connections[CallOf(k).connection].reservedDeviceId
            ELSE NoDevice]'
  /\ AnsweredIn(Asked)' = {k \in Command \cup Mission : CallOf(k).status \in Over}'
BY DEF WaitingFor, Asked, AnsweredIn, AllCalls, CallOf

LEMMA AskedIs ==
  ASSUME LinkInv
  PROVE  /\ Asked \in [AllCalls -> Calls]
         /\ \A k \in Command : Asked[k] = commands[k]
         /\ \A k \in Mission : Asked[k] = missions[k]
         /\ WaitOn(AllCalls, Asked, PairedOnes)
<1>1. /\ DOMAIN Asked = AllCalls /\ Asked = [k \in AllCalls |-> Asked[k]]
      /\ \A k \in Command : Asked[k] = commands[k]
      /\ \A k \in Mission : Asked[k] = missions[k]
  BY LinkAssumption DEF Asked, AllCalls, CallOf
<1>2. \A k \in AllCalls : Asked[k] \in Calls
  BY <1>1, LinkTypes DEF AllCalls
<1>3. WaitOn(AllCalls, Asked, PairedOnes)
  BY <1>1 DEF LinkInv, WaitersArePaired, WaitOn, AllCalls
<1> QED
  BY <1>1, <1>2, <1>3

\* Every phone that is there has one connection.
LEMMA ThereIs ==
  ASSUME LinkInv
  PROVE  /\ There = {connections[c].reservedDeviceId : c \in PairedOnes}
         /\ \A c \in PairedOnes : /\ c \in Connection /\ connections[c].reservedDeviceId \in Device
                                  /\ connections[c].reservedDeviceId # NoDevice
         /\ \A c, e \in PairedOnes :
              connections[c].reservedDeviceId = connections[e].reservedDeviceId => c = e
<1>1. registry = {Registered(c, connections[c].reservedDeviceId) : c \in PairedOnes}
  BY DEF LinkInv, RegistryMirrorsServer, PairedOnes
<1>2. \A c \in PairedOnes : Registered(c, connections[c].reservedDeviceId).device = connections[c].reservedDeviceId
  BY DEF Registered
<1>3. ASSUME NEW c \in PairedOnes
      PROVE  /\ c \in Connection /\ c \in OpenConnections /\ connections[c].phase = "paired"
             /\ connections[c] \in Link
  BY LinkTypes DEF PairedOnes, Paired, OpenConnections
<1>4. ASSUME NEW c \in PairedOnes
      PROVE  connections[c].reservedDeviceId \in Device /\ connections[c].reservedDeviceId # NoDevice
  <2>1. connections[c].reservedDeviceId # NoDevice
    BY <1>3 DEF LinkInv, ServerInv, IdentityIsAdmitted
  <2> QED
    BY <1>3, <2>1 DEF Link
<1>5. ASSUME NEW c \in PairedOnes, NEW e \in PairedOnes,
             connections[c].reservedDeviceId = connections[e].reservedDeviceId
      PROVE  c = e
  BY <1>3, <1>4, <1>5 DEF LinkInv, ServerInv, PlacesAreKept
<1>6. There = {connections[c].reservedDeviceId : c \in PairedOnes}
  <2>1. ASSUME NEW d \in There PROVE \E c \in PairedOnes : d = connections[c].reservedDeviceId
    BY <1>1, <1>2 DEF There
  <2>2. ASSUME NEW c \in PairedOnes PROVE connections[c].reservedDeviceId \in There
    BY <1>1, <1>2 DEF There
  <2> QED
    BY <2>1, <2>2
<1> QED
  BY <1>3, <1>4, <1>5, <1>6

LEMMA ThereIsThen == LinkInv' => (There = {connections[c].reservedDeviceId : c \in PairedOnes})'
<1>1. LinkInv => There = {connections[c].reservedDeviceId : c \in PairedOnes}
  BY ThereIs
<1> QED
  BY <1>1, PTL

\* When connections close, the phones of those that had paired leave, and the calls that wait
\* for them are over.
LEMMA ClosedLeave ==
  ASSUME LinkInv, LinkInv', NEW calls \in [AllCalls -> Calls], WaitOn(AllCalls, calls, PairedOnes),
         \A c \in Connection : Goes(connections[c], connections'[c]), PairedNow = {},
         Asked' = CancelledOn(calls, ClosedNow)
  PROVE  /\ GoneNow \subseteq There /\ There' = There \ GoneNow
         /\ WaitingFor(Asked, connections)' =
              [k \in AllCalls |-> IF WaitingFor(calls, connections)[k] \in GoneNow THEN NoDevice
                                  ELSE WaitingFor(calls, connections)[k]]
         /\ AnsweredIn(Asked)' = AnsweredIn(calls) \cup {k \in AllCalls : WaitingFor(calls, connections)[k] \in GoneNow}
<1> DEFINE before == WaitingFor(calls, connections)
           D(c) == connections[c].reservedDeviceId
<1>1. /\ There = {D(c) : c \in PairedOnes} /\ \A c, e \in PairedOnes : D(c) = D(e) => c = e
      /\ \A c \in PairedOnes : c \in Connection /\ D(c) # NoDevice
  BY ThereIs
<1>2. There' = {connections'[c].reservedDeviceId : c \in PairedOnes'}
  BY ThereIsThen
<1>3. PairedOnes' = PairedOnes \ ClosedNow
  <2>1. PairedOnes \ ClosedNow \subseteq PairedOnes'
    BY PairedStay
  <2>2. ASSUME NEW c \in PairedOnes' PROVE c \in PairedOnes \ ClosedNow
    <3>1. /\ c \in Connection /\ connections'[c].phase = "paired" /\ ~connections'[c].closed
          /\ connections[c].phase = "paired" /\ ~connections[c].closed
      BY DEF PairedOnes, Paired, Open, PairedNow, Goes
    <3>2. connections[c].accepted
      BY <3>1 DEF LinkInv, ServerInv, UnusedIsFresh, Unused
    <3> QED
      BY <3>1, <3>2 DEF PairedOnes, Paired, Open, ClosedNow
  <2> QED
    BY <2>1, <2>2
<1>4. \A c \in PairedOnes \ ClosedNow : connections'[c].reservedDeviceId = D(c)
  BY <1>1 DEF Goes, PairedOnes, Paired, Open, ClosedNow
<1>5. GoneNow = {D(c) : c \in PairedOnes \cap ClosedNow}
  BY DEF GoneNow
<1>6. GoneNow \subseteq There /\ There' = There \ GoneNow
  BY <1>1, <1>2, <1>3, <1>4, <1>5
<1>7. /\ Asked' \in [AllCalls -> Calls]
      /\ \A k \in AllCalls : /\ Asked'[k].connection = calls[k].connection
                             /\ Asked'[k].status = "waiting"
                                  <=> calls[k].status = "waiting" /\ calls[k].connection \notin ClosedNow
                             /\ Asked'[k].status \in Over
                                  <=> \/ calls[k].status \in Over
                                      \/ calls[k].status = "waiting" /\ calls[k].connection \in ClosedNow
  BY CancelledIs
<1>8. ASSUME NEW k \in AllCalls
      PROVE  /\ before[k] \in GoneNow <=> calls[k].status = "waiting" /\ calls[k].connection \in ClosedNow
             /\ calls[k].status = "waiting" => calls[k].connection \in PairedOnes
             /\ before[k] = IF calls[k].status = "waiting" THEN D(calls[k].connection) ELSE NoDevice
  <2>1. before[k] = IF calls[k].status = "waiting" THEN D(calls[k].connection) ELSE NoDevice
    BY DEF WaitingFor
  <2>2. calls[k].status = "waiting" => calls[k].connection \in PairedOnes
    BY DEF WaitOn
  <2> QED
    BY <1>1, <1>5, <2>1, <2>2
<1> HIDE DEF before
<1>9. WaitingFor(Asked, connections)' =
        [k \in AllCalls |-> IF before[k] \in GoneNow THEN NoDevice ELSE before[k]]
  <2>1. ASSUME NEW k \in AllCalls
        PROVE  (IF Asked'[k].status = "waiting" THEN connections'[Asked'[k].connection].reservedDeviceId
                ELSE NoDevice)
                 = IF before[k] \in GoneNow THEN NoDevice ELSE before[k]
    BY <1>4, <1>7, <1>8
  <2> QED
    BY <2>1 DEF WaitingFor, AllCalls
<1>10. AnsweredIn(Asked)' = AnsweredIn(calls) \cup {k \in AllCalls : before[k] \in GoneNow}
  BY <1>7, <1>8 DEF AnsweredIn, AllCalls
<1> QED
  BY <1>6, <1>9, <1>10 DEF before

\* What a step of the gateway is, in the terms of the link.
GatewayStep == [Gateway!GatewayNext]_(Gateway!gatewayVars)
Waits == WaitingFor(Asked, connections)
Answereds == AnsweredIn(Asked)

LEMMA NothingHappens ==
  ASSUME There' = There, Waits' = Waits, Answereds' = Answereds
  PROVE  GatewayStep
<1>1. UNCHANGED Gateway!gatewayVars
  BY GatewayState DEF Gateway!gatewayVars, There, Waits, Answereds
<1> QED
  BY <1>1 DEF GatewayStep

LEMMA PhonesLeave ==
  ASSUME NEW gone \in SUBSET Device, NEW cause \in {{}} \cup {{k} : k \in AllCalls},
         gone # {}, gone \subseteq There, There' = There \ gone,
         \A k \in cause : Waits[k] = NoDevice /\ k \notin Answereds,
         Waits' = [k \in AllCalls |-> IF Waits[k] \in gone THEN NoDevice ELSE Waits[k]],
         Answereds' = (Answereds \cup cause) \cup {k \in AllCalls : Waits[k] \in gone}
  PROVE  GatewayStep
<1>1. Gateway!Leave(gone, cause)
  BY GatewayState DEF Gateway!Leave, Gateway!Unused, There, Waits, Answereds, AllCalls
<1>2. cause = {} \/ \E k \in Command \cup Mission : cause = {k}
  BY DEF AllCalls
<1>3. Gateway!GatewayNext
  BY <1>1, <1>2 DEF Gateway!GatewayNext
<1> QED
  BY <1>3 DEF GatewayStep

LEMMA PhoneConnects ==
  ASSUME NEW d \in Device, d \notin There, There' = There \cup {d}, Waits' = Waits, Answereds' = Answereds
  PROVE  GatewayStep
<1>1. Gateway!Connect(d)
  BY GatewayState DEF Gateway!Connect, There, Waits, Answereds
<1> QED
  BY <1>1 DEF Gateway!GatewayNext, GatewayStep

LEMMA CallAsks ==
  ASSUME NEW k \in AllCalls, NEW d \in Device, Waits[k] = NoDevice, k \notin Answereds, d \in There,
         There' = There, Waits' = [Waits EXCEPT ![k] = d], Answereds' = Answereds
  PROVE  GatewayStep
<1>1. Gateway!Asks(k, d)
  BY GatewayState DEF Gateway!Asks, Gateway!Unused, There, Waits, Answereds, AllCalls
<1> QED
  BY <1>1 DEF Gateway!GatewayNext, GatewayStep, AllCalls

LEMMA CallRefused ==
  ASSUME NEW k \in AllCalls, Waits[k] = NoDevice, k \notin Answereds,
         There' = There, Waits' = Waits, Answereds' = Answereds \cup {k}
  PROVE  GatewayStep
<1>1. Gateway!Refused(k)
  BY GatewayState DEF Gateway!Refused, Gateway!Unused, There, Waits, Answereds, AllCalls
<1> QED
  BY <1>1 DEF Gateway!GatewayNext, GatewayStep, AllCalls

LEMMA CallAnswered ==
  ASSUME NEW k \in AllCalls, Waits[k] # NoDevice,
         There' = There, Waits' = [Waits EXCEPT ![k] = NoDevice], Answereds' = Answereds \cup {k}
  PROVE  GatewayStep
<1>1. Gateway!Answered(k)
  BY GatewayState DEF Gateway!Answered, There, Waits, Answereds, AllCalls
<1> QED
  BY <1>1 DEF Gateway!GatewayNext, GatewayStep, AllCalls

\* Phones leave, or nobody does: the calls were calls before the events of the step.
LEMMA LeavesOrNot ==
  ASSUME LinkInv, LinkInv', NEW calls \in [AllCalls -> Calls], WaitOn(AllCalls, calls, PairedOnes),
         \A c \in Connection : Goes(connections[c], connections'[c]), PairedNow = {},
         Asked' = CancelledOn(calls, ClosedNow),
         WaitingFor(calls, connections) = Waits, AnsweredIn(calls) = Answereds
  PROVE  GatewayStep
<1>1. /\ GoneNow \subseteq There /\ There' = There \ GoneNow
      /\ Waits' = [k \in AllCalls |-> IF Waits[k] \in GoneNow THEN NoDevice ELSE Waits[k]]
      /\ Answereds' = Answereds \cup {k \in AllCalls : Waits[k] \in GoneNow}
  BY ClosedLeave DEF Waits, Answereds
<1>2. Waits = [k \in AllCalls |-> Waits[k]]
  BY DEF Waits, WaitingFor
<1>3. GoneNow \in SUBSET Device
  BY ThereIs DEF GoneNow
<1>4. CASE GoneNow = {}
  <2>1. There' = There /\ Answereds' = Answereds /\ Waits' = Waits
    BY <1>1, <1>2, <1>4
  <2> QED
    BY <2>1, NothingHappens
<1>5. CASE GoneNow # {}
  <2> DEFINE cause == {}
  <2>1. /\ Answereds' = (Answereds \cup cause) \cup {k \in AllCalls : Waits[k] \in GoneNow}
        /\ cause \in {{}} \cup {{k} : k \in AllCalls}
        /\ \A k \in cause : Waits[k] = NoDevice /\ k \notin Answereds
    BY <1>1
  <2> HIDE DEF cause
  <2> QED
    BY <1>1, <1>3, <1>5, <2>1, PhonesLeave
<1> QED
  BY <1>4, <1>5

LEMMA AskedCancelled ==
  ASSUME NEW cmds \in [Command -> Calls], NEW miss \in [Mission -> Calls], NEW calls \in [AllCalls -> Calls],
         \A k \in Command : calls[k] = cmds[k], \A k \in Mission : calls[k] = miss[k],
         commands' = Cancelled(cmds), missions' = Cancelled(miss)
  PROVE  Asked' = CancelledOn(calls, ClosedNow)
<1>1. /\ \A k \in Command : commands'[k] = CancelledOn(calls, ClosedNow)[k]
      /\ \A k \in Mission : missions'[k] = CancelledOn(calls, ClosedNow)[k]
  BY DEF Cancelled, CancelledOn, WaitsOn, AllCalls
<1> QED
  BY <1>1 DEF Asked, AllCalls, CallOf, CancelledOn

\* A connection pairs: it opened when its phone was not there.
LEMMA PairsConnects ==
  ASSUME LinkInv, LinkInv', NEW c \in Connection, Pairs(c), Events,
         commands' = Cancelled(commands), missions' = Cancelled(missions)
  PROVE  GatewayStep
<1> DEFINE D(e) == connections[e].reservedDeviceId
<1>1. \A e \in Connection : /\ connections'[e].closed = connections[e].closed
                            /\ connections'[e].accepted = connections[e].accepted
                            /\ connections'[e].reservedDeviceId = connections[e].reservedDeviceId
                            /\ connections'[e].phase =
                                 IF e = c /\ Open(c) THEN "paired" ELSE connections[e].phase
  BY LinkTypes DEF Pairs, Link
<1>2. ClosedNow = {}
  BY <1>1 DEF ClosedNow
<1>3. Asked \in [AllCalls -> Calls] /\ Asked' = CancelledOn(Asked, ClosedNow)
  BY AskedIs, LinkTypes, AskedCancelled
<1>4. Asked' = Asked
  BY <1>2, <1>3 DEF CancelledOn
<1>5. Waits' = Waits /\ Answereds' = Answereds
  <2>1. ASSUME NEW k \in AllCalls, Asked[k].status = "waiting" PROVE Asked[k].connection \in Connection
    BY <2>1, AskedIs, ThereIs DEF WaitOn
  <2> QED
    BY <1>1, <1>4, <2>1 DEF Waits, Answereds, WaitingFor, AnsweredIn, AllCalls
<1>6. /\ There = {D(e) : e \in PairedOnes}
      /\ There' = {connections'[e].reservedDeviceId : e \in PairedOnes'}
  BY ThereIs, ThereIsThen
<1>7. PairedOnes' = IF Open(c) THEN PairedOnes \cup {c} ELSE PairedOnes
  BY <1>1 DEF PairedOnes, Paired, Open
<1>8. There' = IF Open(c) THEN There \cup {D(c)} ELSE There
  <2>1. \A e \in PairedOnes' : e \in Connection
    BY DEF PairedOnes
  <2> QED
    BY <1>1, <1>6, <1>7, <2>1
<1>9. CASE ~Open(c)
  BY <1>5, <1>8, <1>9, NothingHappens
<1>10. CASE Open(c)
  <2>1. c \notin PairedOnes
    BY DEF Pairs, LinkInv, OnlyPairedWrite, PairedOnes, Paired
  <2>2. D(c) \notin There
    <3> SUFFICES ASSUME NEW e \in PairedOnes, D(e) = D(c) PROVE FALSE
      BY <1>6
    <3>1. e \in PairedOnes' /\ c \in PairedOnes' /\ e # c
      BY <1>7, <1>10, <2>1
    <3>2. ServerInv'
      BY DEF LinkInv
    <3> QED
      BY <1>1, <3>1, <3>2, NewcomersRegister DEF PairedOnes
  <2>3. D(c) \in Device
    <3>1. c \in OpenConnections /\ connections[c].pairing /\ connections[c] \in Link
      BY <1>10, LinkTypes DEF Pairs, OpenConnections
    <3>2. D(c) # NoDevice
      BY <3>1 DEF LinkInv, ServerInv, IdentityIsAdmitted
    <3> QED
      BY <3>1, <3>2 DEF Link
  <2> QED
    BY <1>5, <1>8, <1>10, <2>2, <2>3, PhoneConnects
<1> QED
  BY <1>9, <1>10

LEMMA AskedBefore ==
  ASSUME LinkInv, commands' = Cancelled(commands), missions' = Cancelled(missions)
  PROVE  Asked \in [AllCalls -> Calls] /\ Asked' = CancelledOn(Asked, ClosedNow)
BY AskedIs, LinkTypes, AskedCancelled

\* Only a pairing makes a connection paired.
LEMMA OthersPairNobody ==
  ASSUME LinkInv,
         \/ Lifecycle
         \/ \E c \in Connection :
              \/ Accept(c) \/ HandshakeTimeout(c) \/ PeerCloses(c) \/ PairingFails(c) \/ WriteFails(c)
              \/ \E frame : Violates(c, frame) \/ Hello(c, frame) \/ FrameArrives(c, frame)
  PROVE  PairedNow = {}
<1> SUFFICES ASSUME NEW c \in Connection PROVE connections'[c].phase = connections[c].phase
  BY DEF PairedNow
<1>1. connections[c] \in Link /\ Closed(connections[c]).phase = connections[c].phase /\ connections \in [Connection -> Link]
  BY LinkTypes, ClosedType
<1>2. ASSUME NEW gone, Finish(gone) PROVE connections'[c].phase = connections[c].phase
  BY <1>1, <1>2 DEF Finish, Without
<1>3. CASE Lifecycle
  <2>1. Finish(OpenConnections) \/ UNCHANGED connections
    BY <1>3, LifecycleType DEF LinkInv, ServerInv
  <2> QED
    BY <1>2, <2>1
<1>4. ASSUME NEW e \in Connection, Accept(e) PROVE connections'[c].phase = connections[c].phase
  BY <1>1, <1>4 DEF Accept, Link
<1>5. ASSUME NEW e \in Connection, PairingFails(e) PROVE connections'[c].phase = connections[c].phase
  BY <1>1, <1>5, ClosedType DEF PairingFails, Link
<1>6. ASSUME NEW e \in Connection, NEW frame, Hello(e, frame) PROVE connections'[c].phase = connections[c].phase
  <2>1. CASE Finish(HoldersOf(frame.device) \cup {e})
    BY <1>2, <2>1
  <2>2. CASE connections' = Reserved(Without(HoldersOf(frame.device)), e, frame.device)
    <3> DEFINE links == Without(HoldersOf(frame.device))
    <3>1. links \in [Connection -> Link] /\ links[c].phase = connections[c].phase
      BY <1>1, ClosedType, LinkTypes DEF Without
    <3> HIDE DEF links
    <3>2. \A link \in Link : \A inbound, d :
            [link EXCEPT !.inbound = inbound, !.reservedDeviceId = d, !.pairing = TRUE].phase = link.phase
      BY DEF Link
    <3> QED
      BY <2>2, <3>1, <3>2 DEF Reserved, links, Link
  <2> QED
    BY <1>6, <2>1, <2>2 DEF Hello
<1>7. ASSUME NEW e \in Connection, NEW frame, FrameArrives(e, frame), ~Finish({e})
      PROVE  connections'[c].phase = connections[c].phase
  <2> DEFINE link == [connections[e] EXCEPT !.inbound = Append(connections[e].inbound, frame),
                                            !.arrivals = connections[e].arrivals + 1]
  <2>1. connections' = [connections EXCEPT ![e] = link] /\ link.phase = connections[e].phase
    BY ZenonT(60), <1>7, LinkTypes DEF FrameArrives, Link
  <2> HIDE DEF link
  <2> QED
    BY <1>1, <2>1
<1> QED
  BY <1>2, <1>3, <1>4, <1>5, <1>6, <1>7
  DEF HandshakeTimeout, PeerCloses, WriteFails, Violates, FrameArrives

LEMMA ServesRefines ==
  ASSUME LinkInv, LinkInv', Serves \/ \E c \in Connection, frame \in Frame : PhoneSends(c, frame)
  PROVE  GatewayStep
<1>1. Events /\ commands' = Cancelled(commands) /\ missions' = Cancelled(missions)
  BY DEF Serves, PhoneSends
<1>2. CASE \E c \in Connection : Pairs(c)
  BY <1>1, <1>2, PairsConnects
<1>3. CASE ~\E c \in Connection : Pairs(c)
  <2>1. PairedNow = {}
    BY <1>3, OthersPairNobody DEF Serves, ServerStep, PhoneSends
  <2>2. \A c \in Connection : Goes(connections[c], connections'[c])
    BY ServerStepCuts DEF LinkInv, Serves, PhoneSends, Cuts
  <2> QED
    BY <1>1, <2>1, <2>2, AskedIs, AskedBefore, LeavesOrNot DEF Waits, Answereds
<1> QED
  BY <1>2, <1>3

\* A step that is no event leaves the phones; what it does to the calls is all that counts.
LEMMA QuietIs ==
  ASSUME LinkInv, UNCHANGED registry,
         \A c \in Connection : connections'[c].reservedDeviceId = connections[c].reservedDeviceId,
         \A k \in AllCalls : /\ Asked'[k].connection = Asked[k].connection
                             /\ Asked'[k].status = "waiting" => Asked[k].status = "waiting"
  PROVE  /\ There' = There
         /\ \A k \in AllCalls : Waits'[k] = IF Asked'[k].status = "waiting" THEN Waits[k] ELSE NoDevice
         /\ Waits' = [k \in AllCalls |-> Waits'[k]] /\ Waits = [k \in AllCalls |-> Waits[k]]
         /\ \A k \in AllCalls : Waits[k] # NoDevice <=> Asked[k].status = "waiting"
<1>1. \A k \in AllCalls : /\ Waits[k] = IF Asked[k].status = "waiting"
                                        THEN connections[Asked[k].connection].reservedDeviceId ELSE NoDevice
                          /\ Waits'[k] = IF Asked'[k].status = "waiting"
                                         THEN connections'[Asked'[k].connection].reservedDeviceId ELSE NoDevice
  BY DEF Waits, WaitingFor, AllCalls
<1>2. \A k \in AllCalls : Asked[k].status = "waiting" =>
        /\ Asked[k].connection \in Connection
        /\ connections[Asked[k].connection].reservedDeviceId # NoDevice
  BY AskedIs, ThereIs DEF WaitOn
<1>3. There' = There
  BY DEF There
<1>4. Waits' = [k \in AllCalls |-> Waits'[k]] /\ Waits = [k \in AllCalls |-> Waits[k]]
  BY DEF Waits, WaitingFor, AllCalls
<1> QED
  BY <1>1, <1>2, <1>3, <1>4

\* One call is over, or none.
LEMMA OneOverRefines ==
  ASSUME LinkInv, UNCHANGED registry,
         \A c \in Connection : connections'[c].reservedDeviceId = connections[c].reservedDeviceId,
         NEW k \in AllCalls, Asked'[k].connection = Asked[k].connection,
         \/ Asked'[k].status = Asked[k].status
         \/ Asked[k].status = "waiting" /\ Asked'[k].status \in Over,
         \A n \in AllCalls : n = k \/ (/\ Asked'[n].connection = Asked[n].connection
                                       /\ Asked'[n].status = Asked[n].status)
  PROVE  GatewayStep
<1>1. /\ There' = There
      /\ \A n \in AllCalls : Waits'[n] = IF Asked'[n].status = "waiting" THEN Waits[n] ELSE NoDevice
      /\ Waits' = [n \in AllCalls |-> Waits'[n]] /\ Waits = [n \in AllCalls |-> Waits[n]]
      /\ \A n \in AllCalls : Waits[n] # NoDevice <=> Asked[n].status = "waiting"
  BY QuietIs DEF Over
<1>2. \A n \in AllCalls : n \in Answereds <=> Asked[n].status \in Over
  BY DEF Answereds, AnsweredIn
<1>3. \A n : n \in Answereds' <=> n \in AllCalls /\ Asked'[n].status \in Over
  BY DEF Answereds, AnsweredIn, AllCalls
<1>4. Answereds \subseteq AllCalls
  BY DEF Answereds, AnsweredIn
<1>5. CASE Asked'[k].status = Asked[k].status
  <2>1. \A n \in AllCalls : Waits'[n] = Waits[n]
    BY <1>1, <1>5
  <2>2. Waits' = Waits
    BY <1>1, <2>1
  <2>3. Answereds' = Answereds
    BY <1>2, <1>3, <1>4, <1>5
  <2> QED
    BY <1>1, <2>2, <2>3, NothingHappens
<1>6. CASE Asked[k].status = "waiting" /\ Asked'[k].status \in Over
  <2>1. Asked'[k].status # "waiting"
    BY <1>6 DEF Over
  <2>2. \A n \in AllCalls : Waits'[n] = IF n = k THEN NoDevice ELSE Waits[n]
    BY <1>1, <2>1
  <2>3. Waits' = [Waits EXCEPT ![k] = NoDevice]
    BY <1>1, <2>2
  <2>4. Answereds' = Answereds \cup {k}
    BY <1>2, <1>3, <1>4, <1>6
  <2> QED
    BY <1>1, <1>6, <2>3, <2>4, CallAnswered
<1> QED
  BY <1>5, <1>6

LEMMA AskedThen ==
  /\ \A k \in Command : Asked[k] = commands[k] /\ Asked'[k] = commands'[k]
  /\ \A k \in Mission : Asked[k] = missions[k] /\ Asked'[k] = missions'[k]
BY LinkAssumption DEF Asked, AllCalls, CallOf

LEMMA FrameLeavesRefines ==
  ASSUME LinkInv, NEW c \in Connection, FrameLeaves(c)
  PROVE  GatewayStep
<1>1. UNCHANGED <<registry, commands, missions>>
  BY DEF FrameLeaves
<1>2. \A e \in Connection : connections'[e].reservedDeviceId = connections[e].reservedDeviceId
  BY LinkTypes DEF FrameLeaves, Written, Link
<1>3. \A k \in AllCalls : Asked'[k] = Asked[k]
  BY <1>1, AskedThen DEF AllCalls
<1>4. CASE AllCalls = {}
  BY <1>1, <1>4, NothingHappens DEF There, Waits, WaitingFor, Answereds, AnsweredIn, AllCalls
<1>5. ASSUME NEW k \in AllCalls PROVE GatewayStep
  BY <1>1, <1>2, <1>3, OneOverRefines
<1> QED
  BY <1>4, <1>5

LEMMA FrameRoutedRefines ==
  ASSUME LinkInv, NEW c \in Connection, NEW frame, FrameRouted(c, frame)
  PROVE  GatewayStep
<1>1. /\ UNCHANGED registry
      /\ \A e \in Connection : connections'[e].reservedDeviceId = connections[e].reservedDeviceId
  BY LinkTypes DEF FrameRouted, Routes, Link
<1>2. CASE UNCHANGED <<commands, missions>>
  <2>1. \A k \in AllCalls : Asked'[k] = Asked[k]
    BY <1>2, AskedThen DEF AllCalls
  <2>2. CASE AllCalls = {}
    BY <1>1, <2>2, NothingHappens DEF There, Waits, WaitingFor, Answereds, AnsweredIn, AllCalls
  <2>3. ASSUME NEW k \in AllCalls PROVE GatewayStep
    BY <1>1, <2>1, OneOverRefines
  <2> QED
    BY <2>2, <2>3
<1>3. CASE /\ frame.payload \in Answers
           /\ commands' = Resolved(commands, c, frame.payload)
           /\ missions' = Resolved(missions, c, frame.payload)
  <2> DEFINE answer == frame.payload
             k == answer.call
             status == IF answer.ok THEN "succeeded" ELSE "rejected"
  <2>1. k \in AllCalls /\ status \in Over
    BY <1>3 DEF Answers, AllCalls, Over
  <2> HIDE DEF status
  <2>2. ASSUME NEW n \in AllCalls
        PROVE  Asked'[n] = IF n = k /\ WaitsOn(Asked[n], c) THEN [Asked[n] EXCEPT !.status = status] ELSE Asked[n]
    BY ZenonT(60), <1>3, AskedThen, LinkTypes DEF Resolved, AllCalls, status
  <2>3. \A n \in AllCalls : /\ Asked[n] \in Calls
                            /\ [Asked[n] EXCEPT !.status = status].status = status
                            /\ [Asked[n] EXCEPT !.status = status].connection = Asked[n].connection
    BY AskedIs DEF Calls
  <2> HIDE DEF k
  <2>4. /\ Asked'[k].connection = Asked[k].connection
        /\ \/ Asked'[k].status = Asked[k].status
           \/ Asked[k].status = "waiting" /\ Asked'[k].status \in Over
        /\ \A n \in AllCalls : n = k \/ (/\ Asked'[n].connection = Asked[n].connection
                                         /\ Asked'[n].status = Asked[n].status)
    BY <2>1, <2>2, <2>3 DEF WaitsOn
  <2> QED
    BY <1>1, <2>1, <2>4, OneOverRefines
<1> QED
  BY <1>2, <1>3 DEF FrameRouted

\* A command that could not be sent: its connection is closed, so that nothing waits on it.
LEMMA CommandSentRefines ==
  ASSUME LinkInv, NEW s, CommandSent(s)
  PROVE  GatewayStep
<1>1. /\ s \in settled /\ UNCHANGED <<connections, registry, missions>>
      /\ commands \in [Command -> Calls]
  BY LinkTypes DEF CommandSent, Continues
<1>2. \A k \in Command : ~(~s.ok /\ WaitsOn(commands[k], s.connection))
  BY <1>1 DEF LinkInv, FailuresAreClosures, WaitersArePaired, WaitOn, WaitsOn, PairedOnes, Paired, Open
<1>3. commands' = commands
  BY <1>1, <1>2 DEF CommandSent
<1>4. There' = There /\ Waits' = Waits /\ Answereds' = Answereds
  BY <1>1, <1>3 DEF There, Waits, Answereds, WaitingFor, AnsweredIn, AllCalls, Asked, CallOf
<1> QED
  BY <1>4, NothingHappens

LEMMA TimeoutRefines ==
  ASSUME LinkInv, (\E k \in Command : CommandTimesOut(k)) \/ (\E m \in Mission : MissionTimesOut(m))
  PROVE  GatewayStep
<1>1. UNCHANGED <<registry, connections>> /\ "timed-out" \in Over
  BY DEF CommandTimesOut, MissionTimesOut, serverVars, Over
<1>2. \A call \in Calls : /\ [call EXCEPT !.status = "timed-out"].status = "timed-out"
                          /\ [call EXCEPT !.status = "timed-out"].connection = call.connection
  BY DEF Calls
<1>3. /\ commands \in [Command -> Calls] /\ missions \in [Mission -> Calls] /\ Command \cap Mission = {}
  BY LinkTypes, LinkAssumption
<1>4. ASSUME NEW k \in AllCalls, Asked[k].status = "waiting", Asked'[k] = [Asked[k] EXCEPT !.status = "timed-out"],
             \A n \in AllCalls : n = k \/ Asked'[n] = Asked[n]
      PROVE  GatewayStep
  <2>1. Asked[k] \in Calls
    BY AskedIs
  <2>2. Asked'[k].status \in Over /\ Asked'[k].connection = Asked[k].connection
    BY <1>1, <1>2, <1>4, <2>1
  <2> QED
    BY <1>1, <1>4, <2>2, OneOverRefines
<1>5. ASSUME NEW k \in Command, CommandTimesOut(k) PROVE GatewayStep
  <2>1. /\ commands'[k] = [commands[k] EXCEPT !.status = "timed-out"] /\ commands[k].status = "waiting"
        /\ \A n \in Command : n = k \/ commands'[n] = commands[n]
        /\ missions' = missions
    BY <1>3, <1>5 DEF CommandTimesOut
  <2> QED
    BY <1>3, <1>4, <2>1, AskedThen DEF AllCalls
<1>6. ASSUME NEW k \in Mission, MissionTimesOut(k) PROVE GatewayStep
  <2>1. /\ missions'[k] = [missions[k] EXCEPT !.status = "timed-out"] /\ missions[k].status = "waiting"
        /\ \A n \in Mission : n = k \/ missions'[n] = missions[n]
        /\ commands' = commands
    BY <1>3, <1>6 DEF MissionTimesOut
  <2> QED
    BY <1>3, <1>4, <2>1, AskedThen DEF AllCalls
<1> QED
  BY <1>5, <1>6

LEMMA LoopEndsRefines ==
  ASSUME LinkInv, NEW s \in settled, s.bytes.part > 0, NEW status \in Over \cup {"waiting"},
         \/ status = missions[s.bytes.call].status
         \/ missions[s.bytes.call].status = "waiting" /\ status \in Over,
         LoopEnds(s.bytes.call, s, status)
  PROVE  GatewayStep
<1> DEFINE m == s.bytes.call
           call == [missions[m] EXCEPT !.part = 0, !.status = status]
<1>1. /\ m \in Mission /\ missions[m] \in Calls /\ missions \in [Mission -> Calls]
  BY LoopIs, LinkTypes
<1>2. call.status = status /\ call.connection = missions[m].connection
  BY <1>1 DEF Calls
<1>3. UNCHANGED <<connections, registry, commands>> /\ missions' = [missions EXCEPT ![m] = call]
  BY DEF LoopEnds, Continues
<1> HIDE DEF call, m
<1>4. missions'[m] = call /\ \A n \in Mission : n = m \/ missions'[n] = missions[n]
  BY <1>1, <1>3
<1>5. /\ m \in AllCalls /\ Asked'[m].connection = Asked[m].connection
      /\ \/ Asked'[m].status = Asked[m].status
         \/ Asked[m].status = "waiting" /\ Asked'[m].status \in Over
      /\ \A n \in AllCalls : n = m \/ Asked'[n] = Asked[n]
  BY <1>1, <1>2, <1>3, <1>4, AskedThen DEF AllCalls, m
<1> QED
  BY <1>3, <1>5, OneOverRefines

\* What a send does to the connections: nobody pairs, and only an overflow closes one.
LEMMA SendGoes ==
  ASSUME LinkInv, NEW c \in PairedOnes, NEW b, connections' = AfterSend(c, b)
  PROVE  /\ PairedNow = {} /\ \A e \in Connection : Goes(connections[e], connections'[e])
         /\ ClosedNow = IF Overflows(c) THEN {c} ELSE {}
<1>1. /\ connections[c] \in Link /\ c \in Connection /\ Paired(c) /\ Open(c) /\ ~connections[c].closed
      /\ OnlyPairedWrite /\ LinksTypeOK /\ connections \in [Connection -> Link]
  BY LinkTypes DEF PairedOnes, Paired, Open, LinkInv
<1>2. \A e \in Connection : Goes(connections[e], connections[e])
  BY <1>1, Stays
<1>3. CASE Overflows(c)
  <2>1. \A e \in Connection : connections'[e] = IF e = c THEN Closed(connections[e]) ELSE connections[e]
    BY <1>1, <1>3 DEF AfterSend, Without
  <2>2. /\ Goes(connections[c], Closed(connections[c])) /\ Closed(connections[c]).closed
        /\ Closed(connections[c]).phase = connections[c].phase
    BY <1>1, Closes, ClosedType
  <2> QED
    BY <1>1, <1>2, <1>3, <2>1, <2>2 DEF PairedNow, ClosedNow
<1>4. CASE ~Overflows(c)
  <2> DEFINE link == [connections[c] EXCEPT !.outbound = Append(@, b)]
  <2>1. connections' = [connections EXCEPT ![c] = link]
    BY <1>1, <1>4 DEF AfterSend
  <2>2. /\ link.closed = connections[c].closed /\ link.accepted = connections[c].accepted
        /\ link.pairing = connections[c].pairing /\ link.phase = connections[c].phase
        /\ link.reservedDeviceId = connections[c].reservedDeviceId
    BY <1>1 DEF Link
  <2> HIDE DEF link
  <2>3. \A e \in Connection : connections'[e] = IF e = c THEN link ELSE connections[e]
    BY <1>1, <2>1
  <2>4. Goes(connections[c], link)
    BY <1>1, <1>2, <2>2 DEF Goes
  <2> QED
    BY <1>1, <1>2, <1>4, <2>2, <2>3, <2>4 DEF PairedNow, ClosedNow
<1> QED
  BY <1>3, <1>4

LEMMA LoopSendsRefines ==
  ASSUME LinkInv, LinkInv', NEW s \in settled, s.bytes.part > 0, s.bytes.part < LastPart,
         missions[s.bytes.call].status = "waiting", LoopSends(s.bytes.call, s)
  PROVE  GatewayStep
<1> DEFINE m == s.bytes.call
           i == s.bytes.part + 1
           miss == [missions EXCEPT ![m].part = i]
           calls == [Asked EXCEPT ![m].part = i]
           b == MissionFrame(m, i)
<1>1. /\ m \in Mission /\ m \in AllCalls /\ missions \in [Mission -> Calls] /\ commands \in [Command -> Calls]
      /\ Asked \in [AllCalls -> Calls] /\ missions[m].connection = s.connection
  BY LoopIs, LinkTypes, AskedIs DEF AllCalls
<1>2. s.connection \in PairedOnes
  BY <1>1 DEF LinkInv, WaitersArePaired, WaitOn
<1>3. i \in 0..LastPart /\ b.part = i
  <2>1. s.bytes \in Frames
    BY LoopIs
  <2> QED
    BY <2>1, FrameIs, LinkAssumption DEF LastPart, MissionFrame
<1>4. /\ connections' = AfterSend(s.connection, b) /\ Events
      /\ commands' = Cancelled(commands) /\ missions' = Cancelled(miss)
  BY <1>3 DEF LoopSends
<1> HIDE DEF i, b, m
<1>5. /\ miss \in [Mission -> Calls] /\ calls \in [AllCalls -> Calls]
      /\ \A k \in AllCalls : calls[k].status = Asked[k].status /\ calls[k].connection = Asked[k].connection
  BY <1>1, <1>3 DEF Calls
<1>6. /\ \A k \in Command : calls[k] = commands[k]
      /\ \A k \in Mission : calls[k] = miss[k]
  BY <1>1, AskedThen, LinkAssumption DEF AllCalls
<1> HIDE DEF miss, calls
<1>7. Asked' = CancelledOn(calls, ClosedNow)
  BY <1>1, <1>4, <1>5, <1>6, AskedCancelled
<1>8. /\ WaitOn(AllCalls, calls, PairedOnes)
      /\ WaitingFor(calls, connections) = Waits /\ AnsweredIn(calls) = Answereds
  BY <1>5, AskedIs DEF WaitOn, WaitingFor, AnsweredIn, Waits, Answereds
<1>9. PairedNow = {} /\ \A e \in Connection : Goes(connections[e], connections'[e])
  BY <1>2, <1>4, SendGoes
<1> QED
  BY <1>5, <1>7, <1>8, <1>9, LeavesOrNot

LEMMA PartSentRefines ==
  ASSUME LinkInv, LinkInv', NEW s, PartSent(s)
  PROVE  GatewayStep
<1> DEFINE status == missions[s.bytes.call].status
<1>1. s \in settled /\ s.bytes.part > 0 /\ LoopContinues(s.bytes.call, s)
  BY DEF PartSent
<1>2. status \in Over \cup {"waiting"}
  BY <1>1, LoopIs DEF Calls
<1> HIDE DEF status
<1>3. \/ LoopEnds(s.bytes.call, s, status)
      \/ status = "waiting" /\ LoopEnds(s.bytes.call, s, "transport-failed")
      \/ status = "waiting" /\ s.bytes.part < LastPart /\ LoopSends(s.bytes.call, s)
      \/ status = "waiting" /\ LoopEnds(s.bytes.call, s, "waiting")
  BY <1>1 DEF LoopContinues, status
<1>4. "transport-failed" \in Over
  BY DEF Over
<1> QED
  BY <1>1, <1>2, <1>3, <1>4, LoopEndsRefines, LoopSendsRefines DEF status

\* A call is asked: it waits for its phone, or closes the connection and with it the phone's.
LEMMA AskRefines ==
  ASSUME LinkInv, LinkInv', NEW k \in AllCalls, Asked[k].status = "unused", NEW c \in PairedOnes, NEW b,
         connections' = AfterSend(c, b),
         NEW calls \in [AllCalls -> Calls], calls[k].status = "waiting", calls[k].connection = c,
         \A n \in AllCalls : n = k \/ calls[n] = Asked[n],
         Asked' = CancelledOn(calls, ClosedNow)
  PROVE  GatewayStep
<1> DEFINE d == connections[c].reservedDeviceId
           before == WaitingFor(calls, connections)
<1>1. d \in Device /\ d # NoDevice /\ d \in There
  BY ThereIs
<1>2. WaitOn(AllCalls, calls, PairedOnes)
  BY AskedIs DEF WaitOn
<1>3. /\ PairedNow = {} /\ \A e \in Connection : Goes(connections[e], connections'[e])
      /\ ClosedNow = IF Overflows(c) THEN {c} ELSE {}
  BY SendGoes
<1>4. /\ There' = There \ GoneNow
      /\ Waits' = [n \in AllCalls |-> IF before[n] \in GoneNow THEN NoDevice ELSE before[n]]
      /\ Answereds' = AnsweredIn(calls) \cup {n \in AllCalls : before[n] \in GoneNow}
  BY <1>2, <1>3, ClosedLeave DEF Waits, Answereds
<1>5. /\ \A n \in AllCalls : before[n] = IF n = k THEN d ELSE Waits[n]
      /\ Waits = [n \in AllCalls |-> Waits[n]] /\ Waits[k] = NoDevice
  BY DEF WaitingFor, Waits
<1>6. AnsweredIn(calls) = Answereds /\ k \notin Answereds
  BY DEF AnsweredIn, Answereds, Over
<1> HIDE DEF before, d
<1>7. CASE ~Overflows(c)
  <2>1. GoneNow = {}
    BY <1>3, <1>7 DEF GoneNow
  <2>2. \A n \in AllCalls : Waits'[n] = IF n = k THEN d ELSE Waits[n]
    BY <1>4, <1>5, <2>1
  <2>3. Waits' = [Waits EXCEPT ![k] = d]
    BY <1>4, <1>5, <2>2
  <2>4. There' = There /\ Answereds' = Answereds
    BY <1>4, <1>6, <2>1
  <2> QED
    BY <1>1, <1>5, <1>6, <2>3, <2>4, CallAsks
<1>8. CASE Overflows(c)
  <2> DEFINE cause == {k}
  <2>1. GoneNow = {d}
    BY <1>3, <1>8 DEF GoneNow, d
  <2>2. \A n \in AllCalls : Waits'[n] = IF Waits[n] \in GoneNow THEN NoDevice ELSE Waits[n]
    BY <1>1, <1>4, <1>5, <2>1
  <2>3. Waits' = [n \in AllCalls |-> IF Waits[n] \in GoneNow THEN NoDevice ELSE Waits[n]]
    BY <1>4, <2>2
  <2>4. Answereds' = (Answereds \cup cause) \cup {n \in AllCalls : Waits[n] \in GoneNow}
    BY <1>1, <1>4, <1>5, <1>6, <2>1
  <2>5. /\ cause \in {{}} \cup {{n} : n \in AllCalls}
        /\ \A n \in cause : Waits[n] = NoDevice /\ n \notin Answereds
    BY <1>5, <1>6
  <2>6. GoneNow \in SUBSET Device /\ GoneNow # {} /\ GoneNow \subseteq There
    BY <1>1, <2>1
  <2> HIDE DEF cause
  <2> QED
    BY <1>4, <2>3, <2>4, <2>5, <2>6, PhonesLeave
<1> QED
  BY <1>7, <1>8

LEMMA UnusedIs ==
  ASSUME LinkInv, NEW k \in AllCalls, Asked[k].status = "unused"
  PROVE  Waits[k] = NoDevice /\ k \notin Answereds
BY DEF Waits, WaitingFor, Answereds, AnsweredIn, Over

LEMMA SendCommandRefines ==
  ASSUME LinkInv, LinkInv', NEW k \in Command, NEW c \in Connection, SendCommand(k, c)
  PROVE  GatewayStep
<1> DEFINE call == [status |-> "waiting", connection |-> c, part |-> 0]
           cmds == [commands EXCEPT ![k] = call]
           calls == [Asked EXCEPT ![k] = call]
<1>1. c \in PairedOnes /\ Asked[k].status = "unused" /\ k \in AllCalls
  BY RegisteredArePaired, AskedThen DEF SendCommand, AllCalls
<1>2. /\ commands \in [Command -> Calls] /\ missions \in [Mission -> Calls]
      /\ Asked \in [AllCalls -> Calls] /\ call \in Calls
      /\ call.status = "waiting" /\ call.connection = c
  BY LinkTypes, AskedIs, LinkAssumption DEF LastPart, Calls
<1>3. /\ connections' = AfterSend(c, CommandFrame(k))
      /\ commands' = Cancelled(cmds) /\ missions' = Cancelled(missions)
  BY DEF SendCommand, Send
<1> HIDE DEF call
<1>4. /\ cmds \in [Command -> Calls] /\ calls \in [AllCalls -> Calls]
      /\ calls[k] = call /\ \A n \in AllCalls : n = k \/ calls[n] = Asked[n]
  BY <1>1, <1>2
<1>5. /\ \A n \in Command : calls[n] = cmds[n]
      /\ \A n \in Mission : calls[n] = missions[n]
  BY <1>1, <1>2, AskedThen, LinkAssumption DEF AllCalls
<1> HIDE DEF cmds, calls
<1>6. Asked' = CancelledOn(calls, ClosedNow)
  BY <1>2, <1>3, <1>4, <1>5, AskedCancelled
<1> QED
  BY <1>1, <1>2, <1>3, <1>4, <1>6, AskRefines

LEMMA SendMissionRefines ==
  ASSUME LinkInv, LinkInv', NEW m \in Mission, NEW c \in Connection, SendMission(m, c)
  PROVE  GatewayStep
<1>1. c \in PairedOnes /\ Asked[m].status = "unused" /\ m \in AllCalls
  BY RegisteredArePaired, AskedThen DEF SendMission, AllCalls
<1>2. /\ commands \in [Command -> Calls] /\ missions \in [Mission -> Calls]
      /\ Asked \in [AllCalls -> Calls]
  BY LinkTypes, AskedIs
<1>3. CASE Active(c) # {}
  <2>1. /\ UNCHANGED <<connections, registry, commands>>
        /\ missions' = [missions EXCEPT ![m].status = "rejected"]
    BY <1>3 DEF SendMission, serverVars
  <2>2. /\ Asked'[m].status = "rejected" /\ \A n \in AllCalls : n = m \/ Asked'[n] = Asked[n]
    <3>1. missions'[m].status = "rejected" /\ \A n \in Mission : n = m \/ missions'[n] = missions[n]
      BY <1>2, <2>1 DEF Calls
    <3> QED
      BY <2>1, <3>1, AskedThen DEF AllCalls
  <2>3. There' = There /\ Waits' = Waits
    <3>1. There' = There
      BY <2>1 DEF There
    <3>2. Waits' = Waits
      BY <1>1, <2>1, <2>2 DEF Waits, WaitingFor, AllCalls
    <3> QED
      BY <3>1, <3>2
  <2>4. Answereds' = Answereds \cup {m}
    BY <1>1, <2>2 DEF Answereds, AnsweredIn, Over, AllCalls
  <2> QED
    BY <1>1, <2>3, <2>4, UnusedIs, CallRefused
<1>4. CASE Active(c) = {}
  <2> DEFINE call == [status |-> "waiting", connection |-> c, part |-> 1]
             miss == [missions EXCEPT ![m] = call]
             calls == [Asked EXCEPT ![m] = call]
  <2>1. call \in Calls /\ call.status = "waiting" /\ call.connection = c
    BY LinkAssumption DEF LastPart, Calls
  <2>2. /\ connections' = AfterSend(c, MissionFrame(m, 1))
        /\ commands' = Cancelled(commands) /\ missions' = Cancelled(miss)
    BY <1>4 DEF SendMission, Send
  <2> HIDE DEF call
  <2>3. /\ miss \in [Mission -> Calls] /\ calls \in [AllCalls -> Calls]
        /\ calls[m] = call /\ \A n \in AllCalls : n = m \/ calls[n] = Asked[n]
    BY <1>1, <1>2, <2>1
  <2>4. /\ \A n \in Command : calls[n] = commands[n]
        /\ \A n \in Mission : calls[n] = miss[n]
    BY <1>1, <1>2, AskedThen, LinkAssumption DEF AllCalls
  <2> HIDE DEF miss, calls
  <2>5. Asked' = CancelledOn(calls, ClosedNow)
    BY <1>2, <2>2, <2>3, <2>4, AskedCancelled
  <2> QED
    BY <1>1, <2>1, <2>2, <2>3, <2>5, AskRefines
<1> QED
  BY <1>3, <1>4

\* What the callers of the link may rely on (RelayGateway), for any numbers of connections,
\* phones, commands, missions and chunks: a call addresses a phone that is there, is answered
\* once, and never outlives the presence of its phone (sendCommand, sendMission,
\* handleServerEvent).
THEOREM LinkKeepsPromises == LinkSpec => KeepsPromises
<1>1. LinkInit => Gateway!GatewayInit
  BY LinkAssumption DEF LinkInit, Gateway!GatewayInit, CallOf, NoCall, Over
<1>2. LinkInv /\ LinkInv' /\ [LinkNext]_linkVars => GatewayStep
  <2> SUFFICES ASSUME LinkInv, LinkInv', [LinkNext]_linkVars PROVE GatewayStep
    OBVIOUS
  <2>1. CASE UNCHANGED linkVars
    <3>1. There' = There /\ Waits' = Waits /\ Answereds' = Answereds
      BY <2>1 DEF linkVars, serverVars, There, Waits, Answereds, WaitingFor, AnsweredIn, AllCalls, Asked, CallOf
    <3> QED
      BY <3>1, NothingHappens
  <2> QED
    BY <2>1, ServesRefines, FrameRoutedRefines, FrameLeavesRefines, SendCommandRefines, SendMissionRefines,
       CommandSentRefines, PartSentRefines, TimeoutRefines DEF LinkNext
<1> QED
  BY <1>1, <1>2, LinkInvHolds, PTL DEF LinkSpec, KeepsPromises, Gateway!GatewaySpec, GatewayStep
=============================================================================
