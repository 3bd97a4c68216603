------------------------------ MODULE FrameCodec ------------------------------
(***************************************************************************)
(* The codec of the relay's frames (src/modules/relay-link/protocol-core). *)
(* A frame is checked in memory before it is written, and what is read is  *)
(* parsed and then checked again.  The nesting and the number of tokens of *)
(* JSON a frame carries are limited twice: by clonedJson(), which counts   *)
(* from the place it believes the value will have in the frame, and by the *)
(* parser, which counts the whole text.                                    *)
(*                                                                         *)
(* A field is "good", "bad" (of another kind, or refused for what it says) *)
(* or "absent"; JSON is what the two counters see of it.                   *)
(***************************************************************************)
EXTENDS Naturals, Sequences, FiniteSets

CONSTANTS
  MaxDepth,     \* maxJsonNestingDepth
  MaxTokens,    \* maxJsonTokens
  MaxChunk,     \* maxMissionChunkBytes
  MaxEvents,    \* maxDiagnosticEventsPerReport
  MaxExtra,     \* tokens of members of a text that nobody reads
  Counts        \* the numbers of tokens of the JSON that is looked at

CodecAssumption ==
  /\ {MaxDepth, MaxChunk, MaxEvents} \subseteq Nat \ {0} /\ MaxExtra \in Nat
  /\ Counts \subseteq Nat /\ MaxTokens \in Nat /\ MaxTokens >= 14   \* a frame without embedded JSON is not limited

VARIABLES
  stage,        \* "composed", "arrived", "written", "refused", "decoded", "ignored" or "rejected"
  frame,        \* the frame in memory
  text,         \* the text of a frame
  composed,     \* history: the frame the text was written from, or NoFrame
  forwarded     \* the frame came off the wire

codecVars == <<stage, frame, text, composed, forwarded>>

-----------------------------------------------------------------------------
(* What frames are made of.                                                *)

Results == {"command-result", "mission-result", "media-result"}
Chunks == {"mission-chunk", "media-chunk"}
Types == Results \cup Chunks \cup {"hello", "paired", "telemetry", "command", "mission-begin",
  "mission-complete", "mission-phase", "diagnostic-report", "diagnostic-ack", "media-begin",
  "media-complete"}

\* The plain fields normalizeFrame() reads of each type; the name of a command
\* stands among the command's own fields.
FieldsOf(type) ==
  CASE type = "hello" -> {"deviceId", "protocolVersion"}
    [] type = "paired" -> {"sessionId", "protocolVersion"}
    [] type = "command" -> {"id", "name"}
    [] type \in Results -> {"id", "ok", "detail"}
    [] type \in {"mission-begin", "media-begin"} -> {"id", "fileName", "size", "sha256"}
    [] type \in Chunks \cup {"mission-complete", "media-complete"} -> {"id"}
    [] type = "mission-phase" -> {"missionRevision", "deviceGeneration", "sequence", "phase", "fileName"}
    [] type = "diagnostic-report" -> {"runId"}
    [] type = "diagnostic-ack" -> {"runId", "acknowledgedSequence"}
    [] OTHER -> {}
JsonOf(type) ==
  CASE type = "telemetry" -> {"payload", "capabilities"}
    [] type = "command" -> {"fields"}
    [] type = "command-result" -> {"result"}
    [] OTHER -> {}

Optional(type) == IF type = "paired" THEN {"protocolVersion"} ELSE {}

Json == [object : {TRUE}, depth : 1..MaxDepth + 1, tokens : Counts, names : {"good", "bad"}]
Scalar == [object |-> FALSE, depth |-> 0, tokens |-> 1, names |-> "good"]
NoJson == [object |-> FALSE, depth |-> 0, tokens |-> 0, names |-> "good"]
Carried(type) ==   \* a container costs two tokens
  {j \in Json : j.tokens >= 2 * j.depth} \cup {Scalar} \cup (IF type = "command-result" THEN {NoJson} ELSE {})

NoFrame == [type |-> "none"]

-----------------------------------------------------------------------------
(* validate()                                                              *)

\* clonedJson(): the value begins at the given depth, with tokens spent before it.
Cloned(json, depth, spent) ==
  /\ json.names = "good" /\ spent + json.tokens <= MaxTokens
  /\ json.depth > 0 => depth + json.depth - 1 <= MaxDepth

\* Telemetry counts the frame around it, a command its own braces, which the 9
\* has counted already, and not its name; a result counts nothing but itself.
ShortBudget(f) ==   \* mutant: the names of the two members of telemetry are forgotten
  CASE f.type = "telemetry" -> /\ Cloned(f.json["payload"], 2, 4)
                               /\ Cloned(f.json["capabilities"], 2, 4 + f.json["payload"].tokens)
    [] f.type = "command" -> Cloned(f.json["fields"], 2, 7)
    [] OTHER -> Cloned(f.json["result"], 1, 0)
JsonAccepted(f) ==
  CASE f.type = "telemetry" -> /\ Cloned(f.json["payload"], 2, 6)
                               /\ Cloned(f.json["capabilities"], 2, 6 + f.json["payload"].tokens)
    [] f.type = "command" -> Cloned(f.json["fields"], 2, 7)
    [] OTHER -> Cloned(f.json["result"], 1, 0)

\* validateDiagnosticReport(): the sequences rise from 1 on.
ReportAccepted(events) ==
  /\ Len(events) \in 1..MaxEvents
  /\ \A i \in DOMAIN events : events[i] > (IF i = 1 THEN 0 ELSE events[i - 1])

validate(f) ==
  /\ f.type \in Types
  /\ \A name \in FieldsOf(f.type) :
       f.field[name] = "good" \/ (name \in Optional(f.type) /\ f.field[name] = "absent")
  /\ \A name \in JsonOf(f.type) : f.json[name].object \/ (name = "result" /\ f.json[name] = NoJson)
  /\ JsonOf(f.type) # {} => JsonAccepted(f)
  /\ f.type \in Chunks => f.data \in 1..MaxChunk
  /\ f.type = "diagnostic-report" => ReportAccepted(f.events)

-----------------------------------------------------------------------------
(* encode()                                                                *)

\* base64Encode(): four characters for three bytes, the last group padded.
Base64(bytes) == [chars |-> 4 * ((bytes + 2) \div 3), padding |-> (3 - (bytes % 3)) % 3, canonical |-> TRUE]
MaxChars == Base64(MaxChunk).chars

\* encodeText()
VersionWritten(f) ==   \* mutant: a "paired" without a version is written with null
  [type |-> f.type, json |-> f.json, events |-> f.events, large |-> f.large,
   field |-> [name \in FieldsOf(f.type) |-> IF f.field[name] = "absent" THEN "bad" ELSE f.field[name]],
   data |-> Base64(f.data), extra |-> 0, twice |-> FALSE]
Text(f) ==
  [type |-> f.type, json |-> f.json, events |-> f.events, large |-> f.large, field |-> f.field,
   data |-> Base64(f.data), extra |-> 0, twice |-> FALSE]

encode(f) == validate(f) /\ ~f.large

-----------------------------------------------------------------------------
(* decode()                                                                *)

\* StrictJsonParser: braces cost two tokens, each name and each scalar one.  The
\* events of a report are not counted: all of them are far from the limit.
Member(t, name) ==
  IF name \in DOMAIN t.json /\ t.json[name] # NoJson THEN 1 + t.json[name].tokens ELSE 0
Tokens(t) ==
  4 + 2 * Cardinality({name \in DOMAIN t.field : t.field[name] # "absent"})
    + Member(t, "payload") + Member(t, "capabilities") + Member(t, "fields") + Member(t, "result")
    + (IF t.type \in Chunks THEN 2 ELSE 0) + t.extra
Parses(t) ==
  /\ ~t.twice /\ \A name \in DOMAIN t.json : t.json[name].names = "good"
  /\ \A name \in DOMAIN t.json : 1 + t.json[name].depth <= MaxDepth
  /\ Tokens(t) <= MaxTokens

\* base64Decode()
Bytes(data) == (data.chars \div 4) * 3 - data.padding

\* decodeKnown() takes a result without a detail for one with an empty detail.
Candidate(t) ==
  [type |-> t.type, json |-> t.json, events |-> t.events, large |-> t.large, data |-> Bytes(t.data),
   field |-> [name \in FieldsOf(t.type) |->
                IF t.type \in Results /\ name = "detail" /\ t.field[name] = "absent" THEN "good"
                ELSE t.field[name]]]

\* "decoded", "ignored" (a type this side does not know) or "rejected"
decode(t) ==
  IF t.large \/ ~Parses(t) THEN "rejected"
  ELSE IF t.type = "later" THEN "ignored"
  ELSE IF /\ t.type \in Chunks => t.data.canonical /\ t.data.chars <= MaxChars
          /\ validate(Candidate(t))
       THEN "decoded" ELSE "rejected"

-----------------------------------------------------------------------------
\* One field at most is not good.
FieldValues(type) ==
  {[name \in FieldsOf(type) |-> "good"]} \cup
  {[name \in FieldsOf(type) |-> IF name = wrong THEN how ELSE "good"] :
     wrong \in FieldsOf(type), how \in {"bad", "absent"}}
EventValues(type) ==
  IF type = "diagnostic-report" THEN UNION {[1..n -> 0..MaxEvents] : n \in 0..MaxEvents + 1} ELSE {<<>>}

\* A frame the station makes, or a text a phone writes: any frame, with a member
\* nobody reads, a name given twice, or data not written the one way it can be.
CodecInit ==
  /\ composed = NoFrame /\ forwarded = FALSE
  /\ \E type \in Types \cup {"later"} :
     \E field \in FieldValues(type), json \in [JsonOf(type) -> Carried(type)],
        events \in EventValues(type), large \in (IF JsonOf(type) = {} THEN {FALSE} ELSE BOOLEAN),
        data \in (IF type \in Chunks THEN 0..MaxChunk + 1 ELSE {0}) :
       LET made == [type |-> type, field |-> field, json |-> json, events |-> events,
                    data |-> data, large |-> large]
       IN \/ stage = "composed" /\ text = NoFrame /\ frame = made
          \/ /\ stage = "arrived" /\ frame = NoFrame
             /\ \E extra \in {0, MaxExtra}, twice \in BOOLEAN, canonical \in BOOLEAN :
                  /\ type \notin Chunks => canonical
                  /\ text = [Text(made) EXCEPT !.extra = extra, !.twice = twice, !.data.canonical = canonical]

Encode ==
  /\ stage = "composed"
  /\ IF encode(frame) THEN /\ stage' = "written" /\ text' = Text(frame) /\ composed' = frame
                      ELSE stage' = "refused" /\ UNCHANGED <<text, composed>>
  /\ UNCHANGED <<frame, forwarded>>
Decode ==
  /\ stage \in {"arrived", "written"}
  /\ stage' = decode(text)
  /\ frame' = IF stage' = "decoded" THEN Candidate(text) ELSE NoFrame
  /\ UNCHANGED <<text, composed, forwarded>>
\* What was decoded is written again.
Forward ==
  /\ stage = "decoded" /\ composed = NoFrame /\ ~forwarded
  /\ stage' = "composed" /\ forwarded' = TRUE
  /\ UNCHANGED <<frame, text, composed>>

CodecNext == Encode \/ Decode \/ Forward

CodecTypeOK ==
  /\ stage \in {"composed", "arrived", "written", "refused", "decoded", "ignored", "rejected"}
  /\ forwarded \in BOOLEAN
  /\ stage \in {"written", "decoded"} => frame.type \in Types

-----------------------------------------------------------------------------
(* Properties.                                                             *)

\* A frame that was written is read, and is the frame that was written; what was
\* read can be written again, and read again.  For a command or a result made here
\* only when the text is within the parser's limits (see EncodedIsDecodable); a
\* result that came without a detail is written with one, and is then longer.
FramesSurvive ==
  /\ composed # NoFrame /\ stage \notin {"written", "composed"} =>
       \/ stage = "decoded" /\ frame = composed
       \/ composed.type \in {"command", "command-result"} /\ ~Parses(text)
  /\ forwarded => stage # "refused"
  /\ forwarded /\ composed # NoFrame /\ composed.type # "command-result" =>
       stage \in {"written", "decoded"}

\* CONTRACT: encode refuses a frame beyond the limits.  What it writes the other
\* side of the same codec can therefore read.
EncodedIsDecodable == stage = "written" => decode(text) = "decoded"
=============================================================================
