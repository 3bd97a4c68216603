----------------------------- MODULE RelayGateway -----------------------------
(***************************************************************************)
(* What the relay link promises to those who call it (sendCommand and      *)
(* sendMission of src/modules/relay-link): phones come and go, a call      *)
(* addresses a phone that is there, it is answered once, and no call       *)
(* outlives the presence of its phone.                                     *)
(***************************************************************************)
CONSTANTS
  Call,
  Device,
  NoDevice

VARIABLES
  connected,   \* phones that are there
  waiting,     \* the phone each call waits for
  answered     \* calls that have been answered

gatewayVars == <<connected, waiting, answered>>

GatewayInit ==
  /\ connected = {}
  /\ waiting = [k \in Call |-> NoDevice]
  /\ answered = {}

Unused(k) == waiting[k] = NoDevice /\ k \notin answered

Connect(d) ==
  /\ connected' = connected \cup {d}
  /\ d \notin connected
  /\ UNCHANGED <<waiting, answered>>

\* Phones leave; every call that waits for one of them is answered, and so is
\* the call that made its phone leave, if one did.
Leave(gone, cause) ==
  /\ gone # {}
  /\ gone \subseteq connected
  /\ \A k \in cause : Unused(k)
  /\ connected' = connected \ gone
  /\ waiting' = [k \in Call |-> IF waiting[k] \in gone THEN NoDevice ELSE waiting[k]]
  /\ answered' = answered \cup cause \cup {k \in Call : waiting[k] \in gone}

Asks(k, d) ==
  /\ Unused(k)
  /\ d \in connected
  /\ waiting' = [waiting EXCEPT ![k] = d]
  /\ UNCHANGED <<connected, answered>>

Refused(k) ==
  /\ Unused(k)
  /\ answered' = answered \cup {k}
  /\ UNCHANGED <<connected, waiting>>

Answered(k) ==
  /\ waiting[k] # NoDevice
  /\ waiting' = [waiting EXCEPT ![k] = NoDevice]
  /\ answered' = answered \cup {k}
  /\ UNCHANGED connected

GatewayNext ==
  \/ \E d \in Device : Connect(d)
  \/ \E gone \in SUBSET Device : Leave(gone, {}) \/ \E k \in Call : Leave(gone, {k})
  \/ \E k \in Call : Refused(k) \/ Answered(k) \/ \E d \in Device : Asks(k, d)

GatewaySpec == GatewayInit /\ [][GatewayNext]_gatewayVars
=============================================================================
