----------------------------- MODULE Observations -----------------------------
(***************************************************************************)
(* What the station takes for the present state of a phone                 *)
(* (src/production/relay-operations-adapter): the telemetry frames it sends *)
(* unasked and its answers to telemetry.read are made at different moments  *)
(* and arrive over one connection, and only the newest must be shown.      *)
(***************************************************************************)
EXTENDS Naturals, Sequences

CONSTANTS
  MaxVersions,    \* changes of the phone's state: a bound of the model
  MaxFrames,      \* frames of a session: a bound of the model
  MaxWire         \* messages on the connection at once: a bound of the model

ObservationAssumption ==
  MaxVersions \in Nat /\ MaxFrames \in Nat /\ MaxWire \in Nat

VARIABLES
  modern,         \* external: the phone numbers its frames (telemetrySequence)
  phone,          \* external: its state, the revision of its devices, frames sent
  answering,      \* external: the state an answer was made of, not sent yet
  wire,           \* the connection, in order
  relaySession,   \* the session the relay has with the phone, 0 without
  latest,         \* latestTelemetry of the relay
  observation,    \* observations: the fact, and the frame number it is compared by
  telemetryRead   \* a telemetry.read awaited: its session, sequenceAtRequest
observationVars ==
  <<modern, phone, answering, wire, relaySession, latest, observation, telemetryRead>>

\* A state of the phone as told: sequence 0 for none; a fact that lacks a link
\* is not complete.
Fact == [version : 0..MaxVersions, revision : 1..MaxVersions + 1, sequence : 0..MaxFrames,
         complete : BOOLEAN]
NoFact == [version |-> 0, revision |-> 1, sequence |-> 0, complete |-> FALSE]
Sessions == 0..2
NoFrame == [session |-> 0, fact |-> NoFact]
NoObservation == [session |-> 0, sequence |-> 0, fact |-> NoFact]
NotReading == [session |-> 0, sequence |-> 0]

ObservationsTypeOK ==
  /\ modern \in BOOLEAN
  /\ phone \in [version : 0..MaxVersions, revision : 1..MaxVersions + 1, frames : 0..MaxFrames]
  /\ answering \in [asked : BOOLEAN, made : BOOLEAN, fact : Fact]
  /\ wire \in Seq([kind : {"frame", "answer"}, fact : Fact])
  /\ relaySession \in Sessions
  /\ latest \in [session : Sessions, fact : Fact]
  /\ observation \in [session : Sessions, sequence : 0..MaxFrames, fact : Fact]
  /\ telemetryRead \in [session : Sessions, sequence : 0..MaxFrames]

NotAnswering == [asked |-> FALSE, made |-> FALSE, fact |-> NoFact]

ObservationsInit ==
  /\ modern \in BOOLEAN
  /\ phone = [version |-> 0, revision |-> 1, frames |-> 0]
  /\ answering = NotAnswering
  /\ wire = <<>>
  /\ relaySession = 1
  /\ latest = NoFrame
  /\ observation = NoObservation
  /\ telemetryRead = NotReading

-----------------------------------------------------------------------------
\* The phone: its state changes, that of its devices with a new revision; a
\* frame is made and sent at once, an answer is made first and sent later.

PhoneChanges ==
  /\ phone.version < MaxVersions
  /\ \E devices \in BOOLEAN :
       phone' = [phone EXCEPT !.version = @ + 1, !.revision = IF devices THEN @ + 1 ELSE @]
  /\ UNCHANGED <<modern, answering, wire, relaySession, latest, observation, telemetryRead>>

Told(sequence, complete) ==
  [version |-> phone.version, revision |-> phone.revision,
   sequence |-> sequence, complete |-> complete]

SendFrame ==
  /\ relaySession # 0
  /\ phone.frames < MaxFrames
  /\ Len(wire) < MaxWire
  /\ phone' = [phone EXCEPT !.frames = @ + 1]
  /\ \E complete \in BOOLEAN :
       wire' = Append(wire, [kind |-> "frame",
                             fact |-> Told(IF modern THEN phone'.frames ELSE 0, complete)])
  /\ UNCHANGED <<modern, answering, relaySession, latest, observation, telemetryRead>>

MakeAnswer ==
  /\ answering.asked
  /\ answering' = [asked |-> FALSE, made |-> TRUE, fact |-> Told(0, TRUE)]
  /\ UNCHANGED <<modern, phone, wire, relaySession, latest, observation, telemetryRead>>

SendAnswer ==
  /\ answering.made
  /\ Len(wire) < MaxWire
  /\ wire' = Append(wire, [kind |-> "answer", fact |-> answering.fact])
  /\ answering' = NotAnswering
  /\ UNCHANGED <<modern, phone, relaySession, latest, observation, telemetryRead>>

-----------------------------------------------------------------------------
\* Admission.

Ours(o) == o.session = relaySession /\ relaySession # 0

Recorded(sequence, fact) == [session |-> relaySession, sequence |-> sequence, fact |-> fact]

\* admit(): a frame replaces what the session knows, o, unless it is older.
Admit(o, fact) ==
  LET older == \/ o.sequence # 0 /\ fact.sequence <= o.sequence
               \/ o.sequence = 0 /\ fact.sequence = 0 /\ o.fact.revision > fact.revision
  IN  IF ~fact.complete \/ (Ours(o) /\ older) THEN o ELSE Recorded(fact.sequence, fact)

\* admitTelemetryRead(), of an answer: it tells no frame number, and is recorded under
\* that of the frame it follows.
AdmitReadUnconditionally(o, fact, sequenceAtRequest) ==   \* mutant: the frames that came meanwhile are not asked for
  IF ~Ours(o) THEN Recorded(0, fact)
  ELSE IF o.fact.revision > fact.revision THEN o
  ELSE Recorded(o.sequence, fact)
AdmitRead(o, fact, sequenceAtRequest) ==
  IF ~Ours(o) THEN Recorded(0, fact)
  ELSE IF o.fact.revision > fact.revision THEN o
  ELSE IF sequenceAtRequest # 0 /\ o.sequence > sequenceAtRequest THEN o
  ELSE Recorded(o.sequence, fact)

\* currentObservation(), which every publication runs: what is of another
\* session is dropped, and the relay's latest frame is admitted.
Kept(o) == IF Ours(o) THEN o ELSE NoObservation
Current(o, raw) ==
  IF relaySession # 0 /\ raw.session = relaySession THEN Admit(Kept(o), raw.fact) ELSE Kept(o)

\* What telemetry() shows the caller: the observation, or a frame that is not
\* complete; nothing while the latest frame is one of a former session.
Shown ==
  IF latest.session \notin {0, relaySession} THEN NoFact
  ELSE IF Current(observation, latest) = NoObservation THEN latest.fact
  ELSE Current(observation, latest).fact

\* refreshTelemetry(), up to its await: the number is that of the fact shown, which
\* an answer has none of.
AskTelemetry ==
  /\ relaySession # 0
  /\ telemetryRead = NotReading
  /\ telemetryRead' = [session |-> relaySession, sequence |-> Shown.sequence]
  /\ answering' = [answering EXCEPT !.asked = TRUE]
  /\ observation' = Current(observation, latest)
  /\ UNCHANGED <<modern, phone, wire, relaySession, latest>>

FrameArrives ==
  /\ wire # <<>>
  /\ Head(wire).kind = "frame"
  /\ wire' = Tail(wire)
  /\ latest' = [session |-> relaySession, fact |-> Head(wire).fact]
  /\ observation' = Current(observation, latest')
  /\ UNCHANGED <<modern, phone, answering, relaySession, telemetryRead>>

\* The answer of a command, of the session it was asked in.
AnswerArrives ==
  /\ wire # <<>>
  /\ Head(wire).kind = "answer"
  /\ wire' = Tail(wire)
  /\ telemetryRead' = NotReading
  /\ observation' = IF telemetryRead.session # relaySession THEN observation
                    ELSE Current(AdmitRead(Kept(observation), Head(wire).fact, telemetryRead.sequence), latest)
  /\ UNCHANGED <<modern, phone, answering, relaySession, latest>>

\* An answer that comes when no read awaits it is of no command.
Answer == {i \in DOMAIN wire : wire[i].kind = "answer"}
Unheard(i) == SubSeq(wire, 1, i - 1) \o SubSeq(wire, i + 1, Len(wire))

\* The phone refuses, or the deadline of the command passes.
ReadFails ==
  /\ telemetryRead # NotReading
  /\ telemetryRead' = NotReading
  /\ answering' = NotAnswering
  /\ wire' = IF Answer = {} THEN wire ELSE Unheard(CHOOSE i \in Answer : TRUE)
  /\ UNCHANGED <<modern, phone, relaySession, latest, observation>>

\* The connection is lost: what was on it is gone, a read fails.
SessionEnds ==
  /\ relaySession # 0
  /\ relaySession' = 0
  /\ wire' = <<>>
  /\ answering' = NotAnswering
  /\ telemetryRead' = NotReading
  /\ observation' = NoObservation
  /\ UNCHANGED <<modern, phone, latest>>

SessionBegins ==
  /\ relaySession = 0
  /\ observation.session = 0
  /\ latest.session < 2
  /\ relaySession' = 2
  /\ phone' = [phone EXCEPT !.frames = 0]
  /\ UNCHANGED <<modern, answering, wire, latest, observation, telemetryRead>>

ObservationsNext ==
  \/ PhoneChanges \/ SendFrame \/ MakeAnswer \/ SendAnswer
  \/ AskTelemetry \/ FrameArrives \/ AnswerArrives \/ ReadFails
  \/ SessionEnds \/ SessionBegins

-----------------------------------------------------------------------------

SameSession == observation.session # 0 /\ observation'.session = observation.session
Back == observation'.fact.version < observation.fact.version
Answered == telemetryRead # NotReading /\ telemetryRead' = NotReading

\* What is known of a phone moves on within a session, whatever the order of frames and
\* answers.  Without numbers the revision of its devices never falls.  With numbers the frame
\* an observation is recorded under never falls, a complete frame is known as soon as it
\* arrives, and an older state comes back in one case only: the answer to a read that was
\* asked while no frame was shown - none had come, or the answer to an earlier read was
\* shown - puts itself in the place of a frame that came meanwhile (admit, admitTelemetryRead
\* and refreshTelemetry).  That case breaks the contract: ReadsKeepFrames.
ObservationsMoveOn ==
  [][/\ SameSession =>
          /\ ~modern => observation'.fact.revision >= observation.fact.revision
          /\ modern => observation'.sequence >= observation.sequence
          /\ modern /\ Back => Answered /\ telemetryRead.sequence = 0
     /\ modern /\ latest' # latest /\ latest'.fact.complete => observation'.fact = latest'.fact]_observationVars

\* The contract of the adapter: an answer "不能覆盖更高序号的订阅事实", never puts an older state in
\* the place of what a later frame told.
ReadsKeepFrames ==
  [][SameSession /\ modern /\ Answered /\ observation.fact.sequence > telemetryRead.sequence
       => ~Back]_observationVars
=============================================================================
