--------------------------- MODULE LocalSettings ---------------------------
(***************************************************************************)
(* The settings a user of the station edits.                               *)
(*                                                                         *)
(* The station's own settings (settings-store, with network-settings and   *)
(* map-settings): one snapshot in memory, patched at once by an edit, and  *)
(* one document on disk, read and written by loads and saves that take     *)
(* their turn in a promise chain.  An edit may come between the call of a  *)
(* load and its turn.  The disk is the adapter's: a write replaces the     *)
(* document as a whole or fails, and the program may be restarted between  *)
(* any two steps, also while a write is on its way.                        *)
(*                                                                         *)
(* The settings of a phone (device-settings-panel over                     *)
(* relay-device-settings) and its pairing request (pairing-controller):    *)
(* one outstanding request for each phone and domain, whose answer is      *)
(* merged into whatever the panel holds when it arrives.                   *)
(***************************************************************************)
EXTENDS Integers, Sequences

CONSTANTS
    Undefined,      \* a field the input does not have
    Refused,        \* the verdict on a field that is not acceptable
    NetworkEdit,    \* the edits of the network settings: [listen, relay, host], left out or not
    MapEdit,        \* the edits of the map settings: [basemap, credential]
    MaxSaves,       \* bound: saves called in a behaviour
    MaxWaiting,     \* bound: loads and saves waiting for their turn
    Setting         \* values a phone reports for a domain of its settings

Port == 1024 .. 65535

(* A field that is left out and the verdict "refused" are no values of a field. *)
SettingsAssumption ==
    /\ {Undefined, Refused} \cap Port = {}
    /\ Refused \notin {"none", "lan", "key", "tianditu-vector", "tianditu-image"}
    /\ MaxSaves \in Nat /\ MaxWaiting \in Nat

(***************************************************************************)
(* network-settings and map-settings: what an input becomes.  A field that *)
(* is left out takes the value the settings have; in a whole document only *)
(* the relay's port may be left out.                                       *)
(***************************************************************************)
ReadPort(v) == IF v \in Port THEN v ELSE Refused

ReadHost(v) == CASE v = "none" -> "none"
                 [] v \in {"lan", "lan with leading zeros"} -> "lan"
                 [] OTHER -> Refused

ReadBasemap(v) == IF v \in {"tianditu-vector", "tianditu-image"} THEN v ELSE Refused

ReadCredential(v) == CASE v = "none" -> "none"
                       [] v \in {"key", "key with blanks around"} -> "key"
                       [] OTHER -> Refused

Network(in) == [listen |-> ReadPort(in.listen),
                relay |-> IF in.relay = Undefined THEN 8080 ELSE ReadPort(in.relay),
                host |-> ReadHost(in.host)]

Map(in) == [basemap |-> ReadBasemap(in.basemap), credential |-> ReadCredential(in.credential)]

Acceptable(value) == \A field \in DOMAIN value : value[field] # Refused

Patched(value, in) == [field \in DOMAIN value |-> IF in[field] = Undefined THEN value[field] ELSE in[field]]

(***************************************************************************)
(* settings-store: the document and what becomes of it.                    *)
(***************************************************************************)
DefaultNetwork == [listen |-> 19500, relay |-> 8080, host |-> "none"]
DefaultMap == [basemap |-> "tianditu-vector", credential |-> "none"]
DefaultSettings == [network |-> DefaultNetwork, map |-> DefaultMap]

Recovered(reason) == [status |-> "recovered", reason |-> reason, settings |-> DefaultSettings]

Loaded(settings) ==
    IF Acceptable(settings.network) /\ Acceptable(settings.map)
    THEN [status |-> "loaded", reason |-> "none", settings |-> settings]
    ELSE Recovered("corrupt")

Serialize(settings) == [version |-> "one", content |-> settings]

Decode(document) ==
    CASE document.version = "missing" -> Recovered("missing")
      [] document.version \in {"no document", "no number"} -> Recovered("corrupt")
      [] document.version = "another number" -> Recovered("unsupported-version")
      [] document.version = "one" ->
            Loaded([network |-> Network(document.content.network), map |-> Map(document.content.map)])
      [] document.version = "zero" ->
            Loaded([network |-> Network([listen |-> IF document.content.port = Undefined
                                                    THEN DefaultNetwork.listen ELSE document.content.port,
                                         relay |-> Undefined,
                                         host |-> IF document.content.host = Undefined
                                                  THEN DefaultNetwork.host ELSE document.content.host]),
                    map |-> DefaultMap])

(* Documents a station may find: none, one of another program or a later version, one written
   before the relay's port was a setting, one of version zero, its own. *)
PortsFound == {Undefined, 1023, 65535}
FoundDocuments ==
    [version : {"missing", "no document", "no number", "another number"}, content : {"anything"}]
    \cup [version : {"zero"},
          content : [port : PortsFound, host : {Undefined, "lan with leading zeros", "public"}]]
    \cup [version : {"one"},
          content : [network : [listen : PortsFound, relay : {Undefined}, host : {"none"}],
                     map : {DefaultMap}]]

VARIABLES
    current,        \* the settings in memory
    disk,           \* the document, and the number of the save that wrote it (0 for one found)
    turns,          \* the loads and saves that are not done, in the order of their calls
    saves,          \* how many saves were called
    captures,       \* the settings each save captured (for the properties)
    answered,       \* the latest save that was told it succeeded (for the properties)
    restarted       \* whether the program was restarted: once is enough

storeVars == <<current, disk, turns, saves, captures, answered, restarted>>

StoreInit ==
    /\ current = DefaultSettings
    /\ \E document \in FoundDocuments : disk = [document |-> document, save |-> 0]
    /\ turns = <<>>
    /\ saves = 0
    /\ captures = <<>>
    /\ answered = 0
    /\ restarted = FALSE

UpdateNetwork ==
    \E edit \in NetworkEdit :
        LET next == Network(Patched(current.network, edit))
        IN  /\ Acceptable(next)
            /\ current' = [current EXCEPT !.network = next]
            /\ UNCHANGED <<disk, turns, saves, captures, answered, restarted>>

UpdateMap ==
    \E edit \in MapEdit :
        LET next == Map(Patched(current.map, edit))
        IN  /\ Acceptable(next)
            /\ current' = [current EXCEPT !.map = next]
            /\ UNCHANGED <<disk, turns, saves, captures, answered, restarted>>

Load ==
    /\ Len(turns) < MaxWaiting
    /\ turns' = Append(turns, [op |-> "load", save |-> 0])
    /\ UNCHANGED <<current, disk, saves, captures, answered, restarted>>

(* save() captures the settings at its call, not at its turn. *)
Captured == current

Save ==
    /\ Len(turns) < MaxWaiting
    /\ saves < MaxSaves
    /\ saves' = saves + 1
    /\ captures' = Append(captures, Captured)
    /\ turns' = Append(turns, [op |-> "save", save |-> saves + 1])
    /\ UNCHANGED <<current, disk, answered, restarted>>

AtWorkAll == DOMAIN turns   \* mutant: nothing waits for its turn

(* The chain: an operation begins when the one before it has ended, however it ended. *)
AtWork == {i \in DOMAIN turns : i = 1}

Done(i) == [j \in 1 .. Len(turns) - 1 |-> IF j < i THEN turns[j] ELSE turns[j + 1]]

LoadEnds ==
    \E i \in AtWork :
        /\ turns[i].op = "load"
        /\ current' = Decode(disk.document).settings
        /\ turns' = Done(i)
        /\ UNCHANGED <<disk, saves, captures, answered, restarted>>

LoadFails ==
    \E i \in AtWork :
        /\ turns[i].op = "load"
        /\ turns' = Done(i)
        /\ UNCHANGED <<current, disk, saves, captures, answered, restarted>>

Written(save) == [document |-> Serialize(captures[save]), save |-> save]

SaveEnds ==
    \E i \in AtWork :
        /\ turns[i].op = "save"
        /\ disk' = Written(turns[i].save)
        /\ answered' = turns[i].save
        /\ turns' = Done(i)
        /\ UNCHANGED <<current, saves, captures, restarted>>

SaveFails ==
    \E i \in AtWork :
        /\ turns[i].op = "save"
        /\ turns' = Done(i)
        /\ UNCHANGED <<current, disk, saves, captures, answered, restarted>>

(* The program is started again: what was at work has reached the disk or not, the rest has not. *)
Restart ==
    /\ ~restarted
    /\ restarted' = TRUE
    /\ current' = DefaultSettings
    /\ turns' = <<>>
    /\ \/ UNCHANGED disk
       \/ \E i \in AtWork : turns[i].op = "save" /\ disk' = Written(turns[i].save)
    /\ UNCHANGED <<saves, captures, answered>>

StoreNext ==
    \/ UpdateNetwork \/ UpdateMap \/ Load \/ Save
    \/ LoadEnds \/ LoadFails \/ SaveEnds \/ SaveFails
    \/ Restart

-----------------------------------------------------------------------------
(* The settings of a phone. *)

VARIABLES
    panel,          \* the panel's state for the phone
    asked,          \* the request each domain waits for: what was asked, and what the panel showed then
    told,           \* the last settings the phone answered with, by domain (for the properties)
    pairing         \* the pairing request: its phase, and whether the relay still owes an answer

panelVars == <<panel, asked, told, pairing>>

Domain == {"transmission", "camera"}
Patch == {"read", "values", "field left undefined"}
Nothing == [patch |-> "none", on |-> "none"]

PanelInit ==
    /\ panel = [value |-> [d \in Domain |-> "none"], pending |-> [d \in Domain |-> FALSE], failure |-> "none"]
    /\ asked = [d \in Domain |-> Nothing]
    /\ told = [d \in Domain |-> "none"]
    /\ pairing = [phase |-> "idle", owed |-> FALSE, notice |-> "none"]

(* A patch with no field, a foreign field or a malformed value is refused at once, as is a request
   for a domain that is waiting; neither leaves a trace. *)
Ask(d, patch) ==
    /\ ~panel.pending[d]
    /\ panel' = [panel EXCEPT !.pending[d] = TRUE, !.failure = "none"]
    /\ asked' = [asked EXCEPT ![d] = [patch |-> patch, on |-> panel.value]]
    /\ UNCHANGED <<told, pairing>>

(* An undefined field passes the panel; the adapter then refuses a transmission patch, and sends
   the camera's without the field. *)
Sent(d) == asked[d].patch # "field left undefined" \/ d = "camera"

(* The relay's status as the adapter reads it: anything but "succeeded" with settings that can be
   decoded is a failure of some kind. *)
Outcome(d) == IF Sent(d) THEN {"timed-out", "transport-failed", "rejected", "succeeded"} ELSE {"rejected"}

MergedIntoTheAsked(d) == [panel EXCEPT !.value = asked[d].on]   \* mutant: the panel the request was made on

(* What the answer is merged into: the panel as it is when the answer comes. *)
MergedInto(d) == panel

AnswerFails(d) ==
    /\ asked[d] # Nothing
    /\ \E reason \in Outcome(d) \ {"succeeded"} :
          panel' = [MergedInto(d) EXCEPT !.pending[d] = FALSE, !.failure = reason]
    /\ asked' = [asked EXCEPT ![d] = Nothing]
    /\ UNCHANGED <<told, pairing>>

AnswerSucceeds(d) ==
    /\ asked[d] # Nothing
    /\ "succeeded" \in Outcome(d)
    /\ \E v \in Setting :
          /\ panel' = [MergedInto(d) EXCEPT !.pending[d] = FALSE, !.failure = "none", !.value[d] = v]
          /\ told' = [told EXCEPT ![d] = v]
    /\ asked' = [asked EXCEPT ![d] = Nothing]
    /\ UNCHANGED pairing

RequestPairing ==
    \E phase \in {"starting", "stopping", "refreshing"} :
        /\ pairing.phase = "idle"
        /\ pairing' = [phase |-> phase, owed |-> TRUE, notice |-> "none"]
        /\ UNCHANGED <<panel, asked, told>>

PairingAnswers ==
    \E notice \in {"none", "TIMEOUT", "REJECTED", "ADAPTER_FAILED"} :
        /\ pairing.owed
        /\ pairing' = [phase |-> "idle", owed |-> FALSE, notice |-> notice]
        /\ UNCHANGED <<panel, asked, told>>

PanelNext ==
    \/ \E d \in Domain : (\E patch \in Patch : Ask(d, patch)) \/ AnswerFails(d) \/ AnswerSucceeds(d)
    \/ RequestPairing \/ PairingAnswers

-----------------------------------------------------------------------------
SettingsTypeOK ==
    /\ Acceptable(current.network) /\ Acceptable(current.map)
    /\ saves \in 0 .. MaxSaves /\ Len(captures) = saves /\ answered \in 0 .. saves
    /\ Len(turns) <= MaxWaiting
    /\ panel.pending \in [Domain -> BOOLEAN]
    /\ told \in [Domain -> Setting \cup {"none"}]

(* What was saved comes back.  However saves, failures of the disk and a restart interleave, the
   disk never falls behind the last save whose caller was told that it succeeded, and what a load
   makes of a document the store wrote is exactly the settings of the moment its save was called.
   (settings-store enqueue and save: one write at a time, in the order of the calls, of what was
   captured at the call.) *)
SavedComesBack ==
    /\ answered <= disk.save
    /\ disk.save > 0 => Decode(disk.document) =
                            [status |-> "loaded", reason |-> "none", settings |-> captures[disk.save]]

(* The panel shows for each domain the settings the phone last answered with for it, and a domain
   is pending exactly while its answer is owed: two requests whose answers cross do not undo each
   other.  (device-settings-panel updateState: an answer is spread over the state of the moment.) *)
AnswersKeepToTheirDomain ==
    /\ \A d \in Domain : panel.value[d] = told[d] /\ (panel.pending[d] <=> asked[d] # Nothing)
    /\ (pairing.phase # "idle") <=> pairing.owed
=============================================================================
