------------------------------ MODULE KeptProofs ------------------------------
(***************************************************************************)
(* What is saved, sent, drawn and written down is what was meant: the      *)
(* settings, the frames, the desks and the journal, for any limits, any    *)
(* settings and any number of saves and snapshots.                         *)
(***************************************************************************)
EXTENDS MCConsole, Integers, Sequences, FiniteSetTheorems, TLAPS

-----------------------------------------------------------------------------
(* The desks and their maps *)

Basemaps == {"none", "tianditu-vector", "tianditu-image"}
MapRecord ==
  [phase : {"new", "ready", "disposed"}, layers : SUBSET Desk!Layer, basemap : Basemaps,
   model : {"none", "hangzhou"}]

\* A notice is all that changes without a sync, and a sync takes over what the catalog became.
LEMMA DeskFollows ==
  ASSUME DOMAIN desk = {"phase", "routes", "selected", "notice"}, Desk!DeskShowsTheCatalog, Desk!DeskNext
  PROVE  /\ DOMAIN desk' = {"phase", "routes", "selected", "notice"}
         /\ Desk!DeskShowsTheCatalog'
<1> USE DEF Desk!DeskShowsTheCatalog
<1>1. ASSUME Desk!SyncLibrary
      PROVE  /\ DOMAIN desk' = {"phase", "routes", "selected", "notice"}
             /\ Desk!DeskShowsTheCatalog'
  <2>1. CASE Desk!Synced
    <3>1. /\ DOMAIN desk' = {"phase", "routes", "selected", "notice"}
          /\ desk'.routes = Desk!Ids' /\ desk'.selected = selected' /\ previewed' = selected'
      BY <2>1 DEF Desk!Synced, Desk!Ids
    <3> QED
      BY <3>1
  <2>2. CASE Desk!FailedSync
    <3>1. DOMAIN desk' = DOMAIN desk /\ deskBehind' = TRUE
      BY <2>2 DEF Desk!FailedSync
    <3> QED
      BY <3>1
  <2> QED
    BY <1>1, <2>1, <2>2 DEF Desk!SyncLibrary
<1>2. ASSUME UNCHANGED <<previewed, deskBehind, routes, selected>>,
             NEW phase, NEW notice,
             desk' = [desk EXCEPT !.phase = phase, !.notice = notice]
      PROVE  /\ DOMAIN desk' = {"phase", "routes", "selected", "notice"}
             /\ Desk!DeskShowsTheCatalog'
  BY <1>2 DEF Desk!Ids
<1>3. ASSUME NEW i \in 1..MaxImports, Desk!OpenPicker(i)
      PROVE  /\ DOMAIN desk' = {"phase", "routes", "selected", "notice"}
             /\ Desk!DeskShowsTheCatalog'
  BY <1>3, <1>2 DEF Desk!OpenPicker, Desk!catalogVars
<1>4. ASSUME NEW notice, Desk!Notice(notice)
      PROVE  /\ DOMAIN desk' = {"phase", "routes", "selected", "notice"}
             /\ Desk!DeskShowsTheCatalog'
  BY <1>4, <1>2 DEF Desk!Notice, Desk!catalogVars
<1>5. ASSUME NEW i \in 1..MaxImports, Desk!FilePicked(i)
      PROVE  /\ DOMAIN desk' = {"phase", "routes", "selected", "notice"}
             /\ Desk!DeskShowsTheCatalog'
  <2>1. PICK content : Desk!Ingest(i, content)
    BY <1>5 DEF Desk!FilePicked
  <2> QED
    BY <1>5, <2>1 DEF Desk!FilePicked, Desk!Ingest, Desk!Ids
<1>6. ASSUME NEW i \in 1..MaxImports, Desk!ImportFails(i)
      PROVE  /\ DOMAIN desk' = {"phase", "routes", "selected", "notice"}
             /\ Desk!DeskShowsTheCatalog'
  BY <1>6, <1>2 DEF Desk!ImportFails, Desk!IngestFails
<1>7. CASE Desk!SelectRoute \/ Desk!RemoveRoute
  BY <1>7, <1>1, <1>4 DEF Desk!SelectRoute, Desk!RemoveRoute, Desk!OfRoute
<1> QED
  BY <1>1, <1>3, <1>4, <1>5, <1>6, <1>7 DEF Desk!DeskNext, Desk!NothingPicked, Desk!ImportSucceeds,
     Desk!LocateFails

\* The engine's map, whatever its scene throws.
LEMMA MapFollows ==
  ASSUME map \in MapRecord, Desk!MapFactsAgree, Desk!GeoMapNext
  PROVE  map' \in MapRecord /\ Desk!MapFactsAgree'
<1> USE DEF Desk!MapFactsAgree, MapRecord, Basemaps, Desk!Layer
<1>1. CASE Desk!InitializeMap
  BY <1>1 DEF Desk!InitializeMap
<1>2. CASE Desk!ApplyBasemap
  <2>1. PICK kind \in {"tianditu-vector", "tianditu-image"} :
          map' = [map EXCEPT !.layers = @ \cup {"basemap"}, !.basemap = kind]
    BY <1>2 DEF Desk!ApplyBasemap, Desk!Draw
  <2>2. /\ map'.phase = map.phase /\ map'.model = map.model /\ map'.basemap = kind
        /\ map'.layers = map.layers \cup {"basemap"} /\ DOMAIN map' = DOMAIN map
    BY <2>1
  <2>3. map' \in MapRecord
    BY <2>1
  <2> QED
    BY <2>2, <2>3
<1>3. CASE Desk!ShowCityModel
  BY <1>3 DEF Desk!ShowCityModel, Desk!Draw
<1>4. CASE Desk!HideCityModel
  BY <1>4 DEF Desk!HideCityModel
<1>5. CASE Desk!DisposeMap
  BY <1>5 DEF Desk!DisposeMap
<1> QED
  BY <1>1, <1>2, <1>3, <1>4, <1>5 DEF Desk!GeoMapNext

DeskParts == {"desk", "plan", "map"}
DesksHold ==
  /\ DOMAIN desk = {"phase", "routes", "selected", "notice"}
  /\ map \in MapRecord
  /\ Desk!WhatIsSaidIsDrawn

LEMMA DesksAlwaysHold == Spec => [](part \in DeskParts => DesksHold)
<1> USE DEF DesksHold, Desk!WhatIsSaidIsDrawn
<1>1. Init => DesksHold
  BY DEF Init, PartsInit, Desk!RouteDeskInit, Desk!CatalogInit, Desk!DeskShowsTheCatalog, Desk!Ids,
         Desk!ToSet, Desk!PlanIsDrawn, Desk!MapFactsAgree, Desk!NoRoute, MapRecord, Basemaps, Desk!Layer
<1>2. ASSUME DesksHold, Desk!DeskNext PROVE DesksHold'
  <2>1. UNCHANGED <<map, plan, drawn, planBehind>>
    BY <1>2 DEF Desk!DeskNext, Desk!OpenPicker, Desk!NothingPicked, Desk!FilePicked, Desk!ImportSucceeds,
         Desk!ImportFails, Desk!GoesOn, Desk!SelectRoute, Desk!RemoveRoute, Desk!OfRoute,
         Desk!LocateFails, Desk!Deciding, Desk!planVars, Desk!mapVars
  <2> QED
    BY <1>2, <2>1, DeskFollows DEF Desk!PlanIsDrawn, Desk!MapFactsAgree
<1>3. ASSUME DesksHold, Desk!PlanNext PROVE DesksHold'
  <2>1. UNCHANGED <<desk, previewed, deskBehind, routes, selected, map>>
    BY <1>3 DEF Desk!PlanNext, Desk!SetPoint, Desk!SetParameters, Desk!BuildOrbit, Desk!ClearPlan,
         Desk!Drafting, Desk!catalogVars, Desk!deskVars, Desk!mapVars
  <2>2. Desk!PlanIsDrawn'
    BY <1>3 DEF Desk!PlanNext, Desk!SetPoint, Desk!SetParameters, Desk!BuildOrbit, Desk!ClearPlan,
         Desk!PlanIsDrawn, Desk!Shown, Desk!Unsure
  <2> QED
    BY <1>3, <2>1, <2>2 DEF Desk!DeskShowsTheCatalog, Desk!Ids, Desk!MapFactsAgree
<1>4. ASSUME DesksHold, Desk!GeoMapNext PROVE DesksHold'
  <2>1. UNCHANGED <<desk, previewed, deskBehind, routes, selected, plan, drawn, planBehind>>
    BY <1>4 DEF Desk!GeoMapNext, Desk!InitializeMap, Desk!ApplyBasemap, Desk!ShowCityModel,
         Desk!HideCityModel, Desk!DisposeMap, Desk!Draw, Desk!Mapping, Desk!catalogVars,
         Desk!deskVars, Desk!planVars
  <2> QED
    BY <1>4, <2>1, MapFollows DEF Desk!DeskShowsTheCatalog, Desk!Ids, Desk!PlanIsDrawn
<1>5. ASSUME DesksHold, UNCHANGED <<catalog, desks>> PROVE DesksHold'
  BY <1>5 DEF catalog, desks, Desk!DeskShowsTheCatalog, Desk!Ids, Desk!PlanIsDrawn, Desk!MapFactsAgree
<1>6. [Next]_consoleRunVars =>
        /\ UNCHANGED part
        /\ part \in DeskParts => Desk!DeskNext \/ Desk!PlanNext \/ Desk!GeoMapNext \/ UNCHANGED <<catalog, desks>>
  BY DEF Next, Workflows, consoleRunVars, DeskParts
<1> DEFINE Held == part \in DeskParts => DesksHold
<1>7. Held /\ [Next]_consoleRunVars => Held'
  BY <1>2, <1>3, <1>4, <1>5, <1>6 DEF DeskParts
<1> QED
  BY <1>1, <1>7, PTL DEF Spec

-----------------------------------------------------------------------------
(* The panel of a phone's settings *)

PanelRecord == [value : [Settings!Domain -> {a, "none"}], pending : [Settings!Domain -> BOOLEAN],
                failure : {"none", "timed-out", "transport-failed", "rejected"}]
PanelInv ==
  /\ panel \in PanelRecord /\ told \in [Settings!Domain -> {a, "none"}]
  /\ DOMAIN asked = Settings!Domain
  /\ Settings!AnswersKeepToTheirDomain

LEMMA AskStep ==
  ASSUME PanelInv, NEW d \in Settings!Domain, NEW patch \in Settings!Patch, Settings!Ask(d, patch)
  PROVE  PanelInv'
<1> DEFINE next == [panel EXCEPT !.pending[d] = TRUE, !.failure = "none"]
<1>1. panel' = next /\ asked' = [asked EXCEPT ![d] = [patch |-> patch, on |-> panel.value]]
      /\ told' = told /\ pairing' = pairing
  BY DEF Settings!Ask
<1>2. /\ next \in PanelRecord /\ next.value = panel.value
      /\ next.pending = [panel.pending EXCEPT ![d] = TRUE]
  BY DEF PanelInv, PanelRecord
<1> HIDE DEF next
<1>3. [patch |-> patch, on |-> panel.value] # Settings!Nothing
  BY DEF Settings!Patch, Settings!Nothing
<1>4. ASSUME NEW e \in Settings!Domain
      PROVE  (panel.value[e] = told[e])' /\ (panel.pending[e] <=> asked[e] # Settings!Nothing)'
  BY <1>1, <1>2, <1>3 DEF PanelInv, PanelRecord, Settings!AnswersKeepToTheirDomain, Settings!Nothing
<1> QED
  BY <1>1, <1>2, <1>4 DEF PanelInv, Settings!AnswersKeepToTheirDomain

\* An answer settles its own domain in the panel of the moment.
LEMMA SettleStep ==
  ASSUME PanelInv, NEW d \in Settings!Domain, asked[d] # Settings!Nothing,
         NEW v \in {a, "none"},
         panel' \in PanelRecord, panel'.value = [panel.value EXCEPT ![d] = v],
         panel'.pending = [panel.pending EXCEPT ![d] = FALSE],
         told' = [told EXCEPT ![d] = v],
         asked' = [asked EXCEPT ![d] = Settings!Nothing],
         pairing' = pairing
  PROVE  PanelInv'
<1>3. ASSUME NEW e \in Settings!Domain
      PROVE  (panel.value[e] = told[e])' /\ (panel.pending[e] <=> asked[e] # Settings!Nothing)'
  <2>1. CASE e = d
    BY <2>1 DEF PanelInv, PanelRecord, Settings!AnswersKeepToTheirDomain, Settings!Nothing
  <2>2. CASE e # d
    <3>1. panel'.value[e] = panel.value[e] /\ told'[e] = told[e]
          /\ panel'.pending[e] = panel.pending[e] /\ asked'[e] = asked[e]
      BY <2>2 DEF PanelInv, PanelRecord
    <3> QED
      BY <3>1 DEF PanelInv, Settings!AnswersKeepToTheirDomain, Settings!Nothing
  <2> QED
    BY <2>1, <2>2
<1>4. told' \in [Settings!Domain -> {a, "none"}] /\ DOMAIN asked' = Settings!Domain
  BY DEF PanelInv
<1> QED
  BY <1>3, <1>4 DEF PanelInv, Settings!AnswersKeepToTheirDomain

LEMMA AnswerStep ==
  ASSUME PanelInv, NEW d \in Settings!Domain, Settings!AnswerFails(d) \/ Settings!AnswerSucceeds(d)
  PROVE  PanelInv'
<1>1. CASE Settings!AnswerFails(d)
  <2>1. PICK reason \in {"timed-out", "transport-failed", "rejected"} :
          panel' = [panel EXCEPT !.pending[d] = FALSE, !.failure = reason]
    BY <1>1 DEF Settings!AnswerFails, Settings!MergedInto, Settings!Outcome
  <2> DEFINE next == [panel EXCEPT !.pending[d] = FALSE, !.failure = reason]
  <2>2. /\ next \in PanelRecord /\ next.value = panel.value
        /\ next.pending = [panel.pending EXCEPT ![d] = FALSE]
    BY DEF PanelInv, PanelRecord
  <2>3. panel' = next
    BY <2>1
  <2> HIDE DEF next
  <2>4. panel.value[d] = told[d] /\ told[d] \in {a, "none"}
    BY DEF PanelInv, Settings!AnswersKeepToTheirDomain
  <2>5. panel.value = [panel.value EXCEPT ![d] = told[d]]
    BY <2>4 DEF PanelInv, PanelRecord
  <2>6. told' = [told EXCEPT ![d] = told[d]]
    BY <1>1 DEF Settings!AnswerFails, PanelInv
  <2> QED
    BY <1>1, <2>2, <2>3, <2>4, <2>5, <2>6, SettleStep DEF Settings!AnswerFails
<1>2. CASE Settings!AnswerSucceeds(d)
  <2>1. /\ panel' = [panel EXCEPT !.pending[d] = FALSE, !.failure = "none", !.value[d] = a]
        /\ told' = [told EXCEPT ![d] = a]
    BY <1>2 DEF Settings!AnswerSucceeds, Settings!MergedInto
  <2> DEFINE next == [panel EXCEPT !.pending[d] = FALSE, !.failure = "none", !.value[d] = a]
  <2>2. /\ next \in PanelRecord
        /\ next.value = [panel.value EXCEPT ![d] = a]
        /\ next.pending = [panel.pending EXCEPT ![d] = FALSE]
    BY DEF PanelInv, PanelRecord
  <2>3. panel' = next
    BY <2>1
  <2> HIDE DEF next
  <2> QED
    BY <1>2, <2>1, <2>2, <2>3, SettleStep DEF Settings!AnswerSucceeds
<1> QED
  BY <1>1, <1>2

LEMMA PanelStep == ASSUME PanelInv, Settings!PanelNext PROVE PanelInv'
<1>1. CASE Settings!RequestPairing \/ Settings!PairingAnswers
  <2>1. panel' = panel /\ told' = told /\ asked' = asked
    BY <1>1 DEF Settings!RequestPairing, Settings!PairingAnswers
  <2>2. (pairing'.phase # "idle") <=> pairing'.owed
    BY <1>1 DEF Settings!RequestPairing, Settings!PairingAnswers
  <2> QED
    BY <2>1, <2>2 DEF PanelInv, Settings!AnswersKeepToTheirDomain, Settings!Nothing
<1> QED
  BY <1>1, AskStep, AnswerStep DEF Settings!PanelNext

LEMMA PanelAlwaysAnswers == Spec => [](part = "panel" => Settings!AnswersKeepToTheirDomain)
<1>1. Init => PanelInv
  BY DEF Init, PartsInit, Settings!PanelInit, PanelInv, PanelRecord, Settings!AnswersKeepToTheirDomain,
         Settings!Domain
<1>2. PanelInv /\ [Next]_consoleRunVars => PanelInv'
  <2>1. [Next]_consoleRunVars => Settings!PanelNext \/ UNCHANGED asking
    BY DEF Next, consoleRunVars
  <2>2. PanelInv /\ UNCHANGED asking => PanelInv'
    BY DEF PanelInv, asking, Settings!AnswersKeepToTheirDomain, Settings!Nothing
  <2> QED
    BY <2>1, <2>2, PanelStep
<1>3. PanelInv => Settings!AnswersKeepToTheirDomain
  BY DEF PanelInv
<1> QED
  BY <1>1, <1>2, <1>3, PTL DEF Spec

-----------------------------------------------------------------------------
(* The settings in memory and on disk *)

NetworkRecord == [listen : Settings!Port, relay : Settings!Port, host : {"none", "lan"}]
MapSettings == [basemap : {"tianditu-vector", "tianditu-image"}, credential : {"none", "key"}]
SettingsRecord == [network : NetworkRecord, map : MapSettings]

LEMMA SettingsAssumed ==
  /\ Undefined \notin Settings!Port /\ Refused \notin Settings!Port
  /\ Refused \notin {"none", "lan", "key", "tianditu-vector", "tianditu-image"}
BY ConsoleHolds DEF Settings!SettingsAssumption

LEMMA DefaultsArePorts == {19500, 8080} \subseteq Settings!Port
BY SMT DEF Settings!Port

LEMMA FieldsAreChecked ==
  ASSUME NEW v
  PROVE  /\ Settings!ReadPort(v) # Refused => Settings!ReadPort(v) \in Settings!Port
         /\ Settings!ReadHost(v) # Refused => Settings!ReadHost(v) \in {"none", "lan"}
         /\ v \in Settings!Port => Settings!ReadPort(v) = v
<1>1. Settings!ReadHost(v) # Refused => Settings!ReadHost(v) \in {"none", "lan"}
  BY DEF Settings!ReadHost
<1>2. Settings!ReadPort(v) # Refused => Settings!ReadPort(v) \in Settings!Port
  BY DEF Settings!ReadPort
<1>3. v \in Settings!Port => Settings!ReadPort(v) = v
  BY DEF Settings!ReadPort
<1> QED
  BY <1>1, <1>2, <1>3

\* Whatever is read, what no field of which is refused is within its range.
LEMMA NetworkIsChecked ==
  ASSUME NEW in, Settings!Acceptable(Settings!Network(in))
  PROVE  Settings!Network(in) \in NetworkRecord
<1> DEFINE n == Settings!Network(in)
<1>1. n = [listen |-> n.listen, relay |-> n.relay, host |-> n.host]
  BY DEF Settings!Network
<1>2. n.listen # Refused /\ n.relay # Refused /\ n.host # Refused
  BY <1>1 DEF Settings!Acceptable, Settings!Network
<1>3. n.listen \in Settings!Port
  <2>1. n.listen = Settings!ReadPort(in.listen)
    BY DEF Settings!Network
  <2> QED
    BY <1>2, <2>1, FieldsAreChecked
<1>4. n.relay \in Settings!Port
  <2>1. CASE in.relay = Undefined
    <3>1. n.relay = 8080
      BY <2>1 DEF Settings!Network
    <3> QED
      BY <3>1, DefaultsArePorts
  <2>2. CASE in.relay # Undefined
    <3>1. n.relay = Settings!ReadPort(in.relay)
      BY <2>2 DEF Settings!Network
    <3> QED
      BY <1>2, <3>1, FieldsAreChecked
  <2> QED
    BY <2>1, <2>2
<1>5. n.host \in {"none", "lan"}
  <2>1. n.host = Settings!ReadHost(in.host)
    BY DEF Settings!Network
  <2> QED
    BY <1>2, <2>1, FieldsAreChecked
<1> HIDE DEF n
<1>6. n \in NetworkRecord
  BY <1>1, <1>3, <1>4, <1>5 DEF NetworkRecord
<1> QED
  BY <1>6 DEF n

LEMMA MapIsChecked ==
  ASSUME NEW in, Settings!Acceptable(Settings!Map(in))
  PROVE  Settings!Map(in) \in MapSettings
<1> DEFINE m == Settings!Map(in)
<1>1. m = [basemap |-> m.basemap, credential |-> m.credential]
  BY DEF Settings!Map
<1>2. m.basemap # Refused /\ m.credential # Refused
  BY <1>1 DEF Settings!Acceptable, Settings!Map
<1>3. m.basemap \in {"tianditu-vector", "tianditu-image"}
  BY <1>2 DEF Settings!Map, Settings!ReadBasemap
<1>4. m.credential \in {"none", "key"}
  BY <1>2 DEF Settings!Map, Settings!ReadCredential
<1> HIDE DEF m
<1>5. m \in MapSettings
  BY <1>1, <1>3, <1>4 DEF MapSettings
<1> QED
  BY <1>5 DEF m

\* Settings are what is read of them, and nothing in them is refused.
LEMMA SettingsAreRead ==
  ASSUME NEW s \in SettingsRecord
  PROVE  /\ Settings!Network(s.network) = s.network /\ Settings!Acceptable(s.network)
         /\ Settings!Map(s.map) = s.map /\ Settings!Acceptable(s.map)
<1> DEFINE n == s.network
           m == s.map
<1>1. n \in NetworkRecord /\ m \in MapSettings
  BY DEF SettingsRecord
<1> HIDE DEF n, m
<1>2. n = [listen |-> n.listen, relay |-> n.relay, host |-> n.host]
  BY <1>1 DEF NetworkRecord
<1>3. m = [basemap |-> m.basemap, credential |-> m.credential]
  BY <1>1 DEF MapSettings
<1>4. Settings!ReadPort(n.listen) = n.listen /\ Settings!ReadPort(n.relay) = n.relay
  BY <1>1, FieldsAreChecked DEF NetworkRecord
<1>5. Settings!ReadHost(n.host) = n.host
  BY <1>1 DEF NetworkRecord, Settings!ReadHost
<1>6. n.relay # Undefined
  BY <1>1, SettingsAssumed DEF NetworkRecord
<1>7. Settings!Network(n) = n
  BY <1>2, <1>4, <1>5, <1>6 DEF Settings!Network
<1>8. Settings!Map(m) = m
  BY <1>1, <1>3 DEF Settings!Map, MapSettings, Settings!ReadBasemap, Settings!ReadCredential
<1>9. Settings!Acceptable(n) /\ Settings!Acceptable(m)
  BY <1>1, SettingsAssumed DEF Settings!Acceptable, NetworkRecord, MapSettings
<1> QED
  BY <1>7, <1>8, <1>9 DEF n, m

LEMMA DefaultsAreSettings == Settings!DefaultSettings \in SettingsRecord
BY DefaultsArePorts DEF Settings!DefaultSettings, Settings!DefaultNetwork, Settings!DefaultMap, SettingsRecord,
       NetworkRecord, MapSettings

Versions == {"missing", "no document", "no number", "another number", "one", "zero"}

LEMMA LoadedIsChecked ==
  ASSUME NEW n, NEW m
  PROVE  Settings!Loaded([network |-> Settings!Network(n), map |-> Settings!Map(m)]).settings
           \in SettingsRecord
<1> DEFINE x == Settings!Network(n)
           y == Settings!Map(m)
<1>1. CASE Settings!Acceptable(x) /\ Settings!Acceptable(y)
  <2>1. x \in NetworkRecord /\ y \in MapSettings
    BY <1>1, NetworkIsChecked, MapIsChecked
  <2> HIDE DEF x, y
  <2>2. Settings!Loaded([network |-> x, map |-> y]).settings = [network |-> x, map |-> y]
    BY <1>1 DEF Settings!Loaded
  <2>3. [network |-> x, map |-> y] \in SettingsRecord
    BY <2>1 DEF SettingsRecord
  <2> QED
    BY <2>2, <2>3 DEF x, y
<1>2. CASE ~(Settings!Acceptable(x) /\ Settings!Acceptable(y))
  <2> HIDE DEF x, y
  <2>1. Settings!Loaded([network |-> x, map |-> y]).settings = Settings!DefaultSettings
    BY <1>2 DEF Settings!Loaded, Settings!Recovered
  <2> QED
    BY <2>1, DefaultsAreSettings DEF x, y
<1> QED
  BY <1>1, <1>2

\* A load leaves settings that were checked, whatever the document is.
LEMMA DecodedIsChecked ==
  ASSUME NEW document, document.version \in Versions
  PROVE  Settings!Decode(document).settings \in SettingsRecord
<1>1. CASE document.version \notin {"one", "zero"}
  <2>1. Settings!Decode(document).settings = Settings!DefaultSettings
    BY <1>1 DEF Versions, Settings!Decode, Settings!Recovered
  <2> QED
    BY <2>1, DefaultsAreSettings
<1>2. CASE document.version = "one"
  BY <1>2, LoadedIsChecked DEF Settings!Decode
<1>3. CASE document.version = "zero"
  <2> DEFINE n == [listen |-> IF document.content.port = Undefined
                              THEN Settings!DefaultNetwork.listen ELSE document.content.port,
                   relay |-> Undefined,
                   host |-> IF document.content.host = Undefined
                            THEN Settings!DefaultNetwork.host ELSE document.content.host]
  <2>1. Settings!Decode(document)
          = Settings!Loaded([network |-> Settings!Network(n), map |-> Settings!DefaultMap])
    BY <1>3 DEF Settings!Decode
  <2>2. Settings!Map(Settings!DefaultMap) = Settings!DefaultMap
    BY DefaultsAreSettings, SettingsAreRead DEF Settings!DefaultSettings
  <2> QED
    BY <2>1, <2>2, LoadedIsChecked
<1> QED
  BY <1>1, <1>2, <1>3 DEF Versions

\* What a save writes is loaded as what it captured.
LEMMA SerializedIsDecoded ==
  ASSUME NEW s \in SettingsRecord
  PROVE  Settings!Decode(Settings!Serialize(s)) = [status |-> "loaded", reason |-> "none", settings |-> s]
<1>1. s = [network |-> s.network, map |-> s.map]
  BY DEF SettingsRecord
<1> QED
  BY <1>1, SettingsAreRead DEF Settings!Decode, Settings!Serialize, Settings!Loaded

TurnRecord == [op : {"load", "save"}, save : Nat]

\* The saves that wait for their turn are later than the one on disk, and in their order.
StoreInv ==
  /\ current \in SettingsRecord /\ captures \in Seq(SettingsRecord) /\ saves = Len(captures)
  /\ waits \in Seq(TurnRecord)
  /\ \A i \in 1..Len(waits) : waits[i].op = "save" => waits[i].save > disk.save /\ waits[i].save <= saves
  /\ \A i, j \in 1..Len(waits) :
       i < j /\ waits[i].op = "save" /\ waits[j].op = "save" => waits[i].save < waits[j].save
  /\ answered \in Nat /\ disk.save \in Nat /\ answered <= disk.save /\ disk.save <= saves
  /\ disk.document.version \in Versions
  /\ disk.save > 0 => disk.document = Settings!Serialize(captures[disk.save])
StoreRests == UNCHANGED <<disk, waits, saves, captures, answered>>

LEMMA TurnIs ==
  ASSUME StoreInv, NEW i \in 1..Len(waits)
  PROVE  waits[i] \in TurnRecord /\ waits[i].save \in Nat
<1>1. waits[i] \in TurnRecord
  BY DEF StoreInv
<1> QED
  BY <1>1 DEF TurnRecord

LEMMA SavedIsDecoded == StoreInv => Settings!SavedComesBack
<1> SUFFICES ASSUME StoreInv PROVE Settings!SavedComesBack
  OBVIOUS
<1>1. ASSUME disk.save > 0
      PROVE  Settings!Decode(disk.document)
               = [status |-> "loaded", reason |-> "none", settings |-> captures[disk.save]]
  <2>1. captures[disk.save] \in SettingsRecord
    BY <1>1 DEF StoreInv
  <2> QED
    BY <1>1, <2>1, SerializedIsDecoded DEF StoreInv
<1> QED
  BY <1>1 DEF StoreInv, Settings!SavedComesBack

LEMMA CurrentChanges ==
  ASSUME StoreInv, StoreRests, current' \in SettingsRecord
  PROVE  StoreInv'
BY DEF StoreInv, StoreRests, Settings!Serialize

LEMMA UpdateStep ==
  ASSUME StoreInv, Settings!UpdateNetwork \/ Settings!UpdateMap
  PROVE  StoreInv'
<1>1. CASE Settings!UpdateNetwork
  <2>1. PICK in : /\ Settings!Acceptable(Settings!Network(in))
                  /\ current' = [current EXCEPT !.network = Settings!Network(in)]
                  /\ StoreRests
    BY <1>1 DEF Settings!UpdateNetwork, StoreRests
  <2>2. Settings!Network(in) \in NetworkRecord
    BY <2>1, NetworkIsChecked
  <2> DEFINE n == Settings!Network(in)
  <2> HIDE DEF n
  <2>3. [current EXCEPT !.network = n] \in SettingsRecord
    BY <2>2 DEF StoreInv, SettingsRecord, n
  <2> QED
    BY <2>1, <2>3, CurrentChanges DEF n
<1>2. CASE Settings!UpdateMap
  <2>1. PICK in : /\ Settings!Acceptable(Settings!Map(in))
                  /\ current' = [current EXCEPT !.map = Settings!Map(in)]
                  /\ StoreRests
    BY <1>2 DEF Settings!UpdateMap, StoreRests
  <2>2. Settings!Map(in) \in MapSettings
    BY <2>1, MapIsChecked
  <2> DEFINE m == Settings!Map(in)
  <2> HIDE DEF m
  <2>3. [current EXCEPT !.map = m] \in SettingsRecord
    BY <2>2 DEF StoreInv, SettingsRecord, m
  <2> QED
    BY <2>1, <2>3, CurrentChanges DEF m
<1> QED
  BY <1>1, <1>2

LEMMA CallStep ==
  ASSUME StoreInv, Settings!Load \/ Settings!Save
  PROVE  StoreInv'
<1> USE DEF Settings!Serialize
<1>1. ASSUME NEW t \in TurnRecord, waits' = Append(waits, t)
      PROVE  /\ waits' \in Seq(TurnRecord) /\ Len(waits') = Len(waits) + 1
             /\ waits'[Len(waits) + 1] = t /\ \A i \in 1..Len(waits) : waits'[i] = waits[i]
  BY <1>1 DEF StoreInv
<1>2. CASE Settings!Load
  <2> DEFINE t == [op |-> "load", save |-> 0]
  <2>1. t \in TurnRecord /\ t.op # "save"
    BY DEF TurnRecord
  <2>2. waits' = Append(waits, t) /\ UNCHANGED <<current, disk, saves, captures, answered>>
    BY <1>2 DEF Settings!Load
  <2> HIDE DEF t
  <2> QED
    BY <1>1, <2>1, <2>2 DEF StoreInv
<1>3. CASE Settings!Save
  <2> DEFINE t == [op |-> "save", save |-> saves + 1]
  <2>1. t \in TurnRecord /\ t.op = "save" /\ t.save = saves + 1
    BY DEF TurnRecord, StoreInv
  <2>2. /\ waits' = Append(waits, t) /\ saves' = saves + 1
        /\ captures' = Append(captures, current) /\ UNCHANGED <<current, disk, answered>>
    BY <1>3 DEF Settings!Save, Settings!Captured
  <2> HIDE DEF t
  <2>3. /\ captures' \in Seq(SettingsRecord) /\ Len(captures') = Len(captures) + 1
        /\ \A i \in 1..Len(captures) : captures'[i] = captures[i]
    BY <2>2 DEF StoreInv
  <2>4. /\ \A i \in 1..Len(waits') :
             waits'[i].op = "save" => waits'[i].save > disk.save /\ waits'[i].save <= saves + 1
        /\ \A i, j \in 1..Len(waits') :
             i < j /\ waits'[i].op = "save" /\ waits'[j].op = "save" => waits'[i].save < waits'[j].save
    <3>1. waits' \in Seq(TurnRecord) /\ Len(waits') = Len(waits) + 1
          /\ waits'[Len(waits) + 1] = t /\ \A i \in 1..Len(waits) : waits'[i] = waits[i]
      BY <1>1, <2>1, <2>2
    <3>2. \A i \in 1..Len(waits) : waits[i] \in TurnRecord /\ waits[i].save \in Nat
      BY TurnIs
    <3>3. \A i \in 1..Len(waits') : i = Len(waits) + 1 \/ i \in 1..Len(waits)
      BY <3>1 DEF StoreInv
    <3>4. ASSUME NEW i \in 1..Len(waits'), waits'[i].op = "save"
          PROVE  waits'[i].save > disk.save /\ waits'[i].save <= saves + 1
      <4>1. CASE i = Len(waits) + 1
        BY <2>1, <3>1, <4>1 DEF StoreInv
      <4>2. CASE i \in 1..Len(waits)
        BY <3>1, <3>2, <3>4, <4>2 DEF StoreInv
      <4> QED
        BY <3>3, <4>1, <4>2
    <3>5. ASSUME NEW i \in 1..Len(waits'), NEW j \in 1..Len(waits'),
                 i < j, waits'[i].op = "save", waits'[j].op = "save"
          PROVE  waits'[i].save < waits'[j].save
      <4>1. i \in 1..Len(waits) /\ waits'[i] = waits[i]
        BY <3>1, <3>3, <3>5 DEF StoreInv
      <4>2. CASE j = Len(waits) + 1
        <5>1. waits[i].save <= saves /\ waits[i].save \in Nat /\ saves \in Nat
          BY <3>2, <3>5, <4>1 DEF StoreInv
        <5> QED
          BY <2>1, <3>1, <4>1, <4>2, <5>1
      <4>3. CASE j \in 1..Len(waits)
        BY <3>1, <3>5, <4>1, <4>3 DEF StoreInv
      <4> QED
        BY <3>3, <4>2, <4>3
    <3> QED
      BY <3>4, <3>5
  <2>5. disk.save > 0 => disk.document = Settings!Serialize(captures'[disk.save])
    BY <2>3 DEF StoreInv
  <2> QED
    BY <1>1, <2>1, <2>2, <2>3, <2>4, <2>5 DEF StoreInv
<1> QED
  BY <1>2, <1>3

\* A turn that is over leaves the others in their order.
LEMMA TurnIsOver ==
  ASSUME StoreInv, Settings!AtWork # {}
  PROVE  /\ Settings!AtWork = {1} /\ 1 \in 1..Len(waits) /\ waits[1] \in TurnRecord
         /\ Settings!Done(1) \in Seq(TurnRecord) /\ Len(Settings!Done(1)) = Len(waits) - 1
         /\ \A j \in 1..(Len(waits) - 1) :
              Settings!Done(1)[j] = waits[j + 1] /\ j + 1 \in 1..Len(waits)
<1>1. Settings!AtWork = {1} /\ 1 \in 1..Len(waits)
  BY DEF StoreInv, Settings!AtWork
<1>2. waits \in Seq(TurnRecord) /\ Len(waits) - 1 \in Nat
  BY <1>1 DEF StoreInv
<1>3. Settings!Done(1) = [j \in 1..(Len(waits) - 1) |-> IF j < 1 THEN waits[j] ELSE waits[j + 1]]
  BY DEF Settings!Done
<1>4. \A j \in 1..(Len(waits) - 1) :
        (IF j < 1 THEN waits[j] ELSE waits[j + 1]) = waits[j + 1] /\ j + 1 \in 1..Len(waits)
    /\ waits[j + 1] \in TurnRecord
  BY <1>2
<1> QED
  BY <1>1, <1>2, <1>3, <1>4

LEMMA EndStep ==
  ASSUME StoreInv,
         \/ Settings!LoadEnds \/ Settings!LoadFails \/ Settings!SaveFails
  PROVE  StoreInv'
<1>1. /\ Settings!AtWork # {} /\ UNCHANGED <<disk, saves, captures, answered>>
      /\ current' = current \/ current' = Settings!Decode(disk.document).settings
  BY DEF Settings!LoadEnds, Settings!LoadFails, Settings!SaveFails
<1>2. waits' = Settings!Done(1)
  BY <1>1, TurnIsOver DEF Settings!LoadEnds, Settings!LoadFails, Settings!SaveFails
<1>3. current' \in SettingsRecord
  BY <1>1, DecodedIsChecked DEF StoreInv
<1>4. /\ waits' \in Seq(TurnRecord) /\ Len(waits') = Len(waits) - 1
      /\ \A j \in 1..(Len(waits) - 1) : waits'[j] = waits[j + 1] /\ j + 1 \in 1..Len(waits)
  BY <1>1, <1>2, TurnIsOver
<1>5. /\ \A i \in 1..Len(waits') :
           waits'[i].op = "save" => waits'[i].save > disk.save /\ waits'[i].save <= saves
      /\ \A i, j \in 1..Len(waits') :
           i < j /\ waits'[i].op = "save" /\ waits'[j].op = "save" => waits'[i].save < waits'[j].save
  <2>1. ASSUME NEW i \in 1..Len(waits'), waits'[i].op = "save"
        PROVE  waits'[i].save > disk.save /\ waits'[i].save <= saves
    BY <1>4, <2>1 DEF StoreInv
  <2>2. ASSUME NEW i \in 1..Len(waits'), NEW j \in 1..Len(waits'),
               i < j, waits'[i].op = "save", waits'[j].op = "save"
        PROVE  waits'[i].save < waits'[j].save
    <3>1. /\ i + 1 \in 1..Len(waits) /\ j + 1 \in 1..Len(waits) /\ i + 1 < j + 1
          /\ waits'[i] = waits[i + 1] /\ waits'[j] = waits[j + 1]
      BY <1>4, <2>2 DEF StoreInv
    <3> QED
      BY <2>2, <3>1 DEF StoreInv
  <2> QED
    BY <2>1, <2>2
<1> QED
  BY <1>1, <1>3, <1>4, <1>5 DEF StoreInv, Settings!Serialize

\* The save at work is on disk, and all that wait are later.
LEMMA WrittenIsLatest ==
  ASSUME StoreInv, Settings!AtWork # {}, waits[1].op = "save",
         disk' = Settings!Written(waits[1].save)
  PROVE  /\ waits[1].save \in 1..saves
         /\ disk'.save = waits[1].save /\ disk'.document.version \in Versions
         /\ disk'.document = Settings!Serialize(captures[disk'.save])
         /\ disk'.save > disk.save
<1>1. 1 \in 1..Len(waits) /\ waits[1].save \in Nat
  BY TurnIsOver, TurnIs
<1>2. waits[1].save > disk.save /\ waits[1].save <= saves /\ disk.save \in Nat /\ saves \in Nat
  BY <1>1 DEF StoreInv
<1>3. /\ disk'.save = waits[1].save /\ disk'.document.version = "one"
      /\ disk'.document = Settings!Serialize(captures[waits[1].save])
  BY DEF Settings!Written, Settings!Serialize
<1> QED
  BY <1>1, <1>2, <1>3 DEF Versions

LEMMA SaveEndsStep == ASSUME StoreInv, Settings!SaveEnds PROVE StoreInv'
<1>1. Settings!AtWork # {}
  BY DEF Settings!SaveEnds
<1>2. /\ waits[1].op = "save" /\ disk' = Settings!Written(waits[1].save)
      /\ answered' = waits[1].save /\ waits' = Settings!Done(1)
      /\ UNCHANGED <<current, saves, captures>>
  BY <1>1, TurnIsOver DEF Settings!SaveEnds
<1>3. \A i \in 1..Len(waits') :
        waits'[i].op = "save" => waits'[i].save > disk'.save /\ waits'[i].save <= saves
  <2>1. ASSUME NEW i \in 1..(Len(waits) - 1), waits[i + 1].op = "save"
        PROVE  waits[i + 1].save > waits[1].save /\ waits[i + 1].save <= saves
    <3>1. i + 1 \in 1..Len(waits) /\ 1 \in 1..Len(waits) /\ 1 < i + 1
      BY <1>1, TurnIsOver DEF StoreInv
    <3>2. waits[1].save \in Nat /\ waits[i + 1].save \in Nat
      BY <3>1, TurnIs
    <3> QED
      BY <1>2, <2>1, <3>1, <3>2 DEF StoreInv
  <2> QED
    BY <1>1, <1>2, <2>1, TurnIsOver, WrittenIsLatest
<1>4. /\ waits' \in Seq(TurnRecord)
      /\ \A i, j \in 1..Len(waits') :
           i < j /\ waits'[i].op = "save" /\ waits'[j].op = "save" => waits'[i].save < waits'[j].save
  <2>1. /\ waits' \in Seq(TurnRecord) /\ Len(waits') = Len(waits) - 1
        /\ \A j \in 1..(Len(waits) - 1) : waits'[j] = waits[j + 1] /\ j + 1 \in 1..Len(waits)
    BY <1>1, <1>2, TurnIsOver
  <2>2. Len(waits) \in Nat
    BY DEF StoreInv
  <2>3. ASSUME NEW i \in 1..(Len(waits) - 1), NEW j \in 1..(Len(waits) - 1),
               i < j, waits'[i].op = "save", waits'[j].op = "save"
        PROVE  waits'[i].save < waits'[j].save
    <3>1. /\ i + 1 \in 1..Len(waits) /\ j + 1 \in 1..Len(waits) /\ i + 1 < j + 1
          /\ waits'[i] = waits[i + 1] /\ waits'[j] = waits[j + 1]
      BY <2>1, <2>2, <2>3
    <3> QED
      BY <2>3, <3>1 DEF StoreInv
  <2> QED
    BY <2>1, <2>3
<1>5. answered' \in Nat /\ disk'.save \in Nat /\ answered' <= disk'.save /\ disk'.save <= saves
  BY <1>1, <1>2, WrittenIsLatest DEF StoreInv
<1> QED
  BY <1>1, <1>2, <1>3, <1>4, <1>5, WrittenIsLatest DEF StoreInv, Settings!Serialize

LEMMA RestartStep == ASSUME StoreInv, Settings!Restart PROVE StoreInv'
<1>1. current' \in SettingsRecord /\ waits' = <<>> /\ UNCHANGED <<saves, captures, answered>>
  BY DefaultsAreSettings DEF Settings!Restart
<1>2. <<>> \in Seq(TurnRecord)
  OBVIOUS
<1>3. CASE UNCHANGED disk
  BY <1>1, <1>2, <1>3 DEF StoreInv, Settings!Serialize
<1>4. CASE \E i \in Settings!AtWork : waits[i].op = "save" /\ disk' = Settings!Written(waits[i].save)
  <2>1. Settings!AtWork # {} /\ waits[1].op = "save" /\ disk' = Settings!Written(waits[1].save)
    BY <1>4, TurnIsOver
  <2>2. disk'.save \in Nat /\ disk'.save > disk.save /\ disk'.save <= saves
    BY <2>1, WrittenIsLatest DEF StoreInv
  <2>3. answered <= disk'.save
    BY <2>2 DEF StoreInv
  <2> QED
    BY <1>1, <1>2, <2>1, <2>2, <2>3, WrittenIsLatest DEF StoreInv, Settings!Serialize
<1> QED
  BY <1>3, <1>4 DEF Settings!Restart

LEMMA StoreStep == ASSUME StoreInv, Settings!StoreNext PROVE StoreInv'
BY UpdateStep, CallStep, EndStep, SaveEndsStep, RestartStep DEF Settings!StoreNext

LEMMA SavesAlwaysComeBack == Spec => []Settings!SavedComesBack
<1>1. Init => StoreInv
  <2>1. Settings!StoreInit => disk.save = 0 /\ disk.document.version \in Versions
    <3>1. ASSUME NEW document \in Settings!FoundDocuments PROVE document.version \in Versions
      BY DEF Settings!FoundDocuments, Versions
    <3> QED
      BY <3>1 DEF Settings!StoreInit
  <2>2. <<>> \in Seq(TurnRecord) /\ <<>> \in Seq(SettingsRecord)
    OBVIOUS
  <2> QED
    BY <2>1, <2>2, DefaultsAreSettings DEF Init, PartsInit, Settings!StoreInit, StoreInv
<1>2. StoreInv /\ [Next]_consoleRunVars => StoreInv'
  <2>1. [Next]_consoleRunVars => Settings!StoreNext \/ UNCHANGED store
    BY DEF Next, consoleRunVars
  <2>2. StoreInv /\ UNCHANGED store => StoreInv'
    BY DEF StoreInv, store, Settings!Serialize
  <2> QED
    BY <2>1, <2>2, StoreStep
<1> QED
  BY <1>1, <1>2, SavedIsDecoded, PTL DEF Spec

-----------------------------------------------------------------------------
(* What is written of a handset *)

RowRecord ==
  [what : {"PAIRED", "UNPAIRED", "link", "plain", "INTERRUPT"},
   value : LinkValue \cup PlainValue \cup Watch!Interrupt \cup {"none"}, at : Nat]
Sides == {"code", "description"}

\* What rows say of the pairing, and a row that is written when it may be.
Says(rows) ==
  \E k \in 1..Len(rows) :
    rows[k].what = "PAIRED" /\ \A l \in (k + 1)..Len(rows) : rows[l].what # "UNPAIRED"
SaysBefore(rows, r) ==
  \E k \in 1..(r - 1) :
    rows[k].what = "PAIRED" /\ \A l \in (k + 1)..(r - 1) : rows[l].what # "UNPAIRED"
Alternate(rows) ==
  \A r \in 1..Len(rows) : /\ rows[r].what = "PAIRED" => ~SaysBefore(rows, r)
                          /\ rows[r].what = "UNPAIRED" => SaysBefore(rows, r)

\* The last of the snapshots that told the link told it, and the handset is there since.
ToldIn(snaps, i, value) ==
  \E j \in 1..i : /\ snaps[j].link = value /\ value # "missing"
                  /\ \A k \in (j + 1)..i : snaps[k].link = "missing"
                  /\ \A k \in j..i : snaps[k].here
RowIsTrue(snaps, row) ==
  /\ row.at \in 1..Len(snaps)
  /\ row.what = "link" => ToldIn(snaps, row.at - 1, row.value) /\ snaps[row.at].here
  /\ row.what = "INTERRUPT" /\ row.at > 1 /\ snaps[row.at - 1].interrupt = row.value
       => "missing" \in {row.value.code, row.value.description}
AllTrue(snaps, rows) == \A r \in 1..Len(rows) : RowIsTrue(snaps, rows[r])

\* Of a part of the interrupts of the present pairing, the rows tell this value last.
ReadIn(rows, side, value) ==
  \E r \in 1..Len(rows) :
    /\ rows[r].what = "INTERRUPT" /\ Watch!Part(rows[r].value, side) = value
    /\ \A l \in (r + 1)..Len(rows) :
         /\ rows[l].what \notin {"PAIRED", "UNPAIRED"}
         /\ rows[l].what = "INTERRUPT" => Watch!Part(rows[l].value, side) \in {"missing", value}

WatchTypes ==
  /\ seen \in Seq(Watch!Snapshot) /\ written \in Seq(RowRecord) /\ paired \in BOOLEAN
  /\ logged \in [link : LinkValue, plain : PlainValue] /\ waiting \in LinkValue
  /\ wayline \in Watch!Interrupt

\* A value that waits was told last; what the last snapshot told is logged or waits; what is
\* retained of an interrupt was read last in this pairing.
WatchInv ==
  /\ WatchTypes
  /\ Alternate(written) /\ (paired <=> Says(written))
  /\ AllTrue(seen, written)
  /\ waiting # "missing" => ToldIn(seen, Len(seen), waiting)
  /\ \A side \in Sides : Watch!Part(wayline, side) # "missing" =>
       paired /\ ReadIn(written, side, Watch!Part(wayline, side))
  /\ LET i == Len(seen) IN i > 0 =>
       /\ paired <=> seen[i].here
       /\ seen[i].link # "missing" => logged.link = seen[i].link \/ waiting = seen[i].link
       /\ \A side \in Sides : Watch!Part(seen[i].interrupt, side) # "missing" =>
            Watch!Part(wayline, side) = Watch!Part(seen[i].interrupt, side)
       /\ i > 1 /\ seen[i].link = seen[i - 1].link /\ seen[i].link # "missing"
            => logged.link = seen[i].link

LEMMA WatchAssumed ==
  /\ {"unknown", "missing"} \subseteq LinkValue /\ "missing" \in PlainValue
  /\ "missing" \in InterruptCode /\ "missing" \in InterruptDescription
BY ConsoleHolds DEF Watch!WatchAssumption

LEMMA RowAdded ==
  ASSUME NEW rows \in Seq(RowRecord), NEW row \in RowRecord
  PROVE  /\ rows \o <<row>> \in Seq(RowRecord) /\ Len(rows \o <<row>>) = Len(rows) + 1
         /\ \A r \in 1..Len(rows) : (rows \o <<row>>)[r] = rows[r]
         /\ (rows \o <<row>>)[Len(rows) + 1] = row
<1> <<row>> \in Seq(RowRecord) /\ Len(<<row>>) = 1 /\ <<row>>[1] = row
  OBVIOUS
<1> QED
  OBVIOUS

\* Rows(condition, ...) appended.
LEMMA RowsFollow ==
  ASSUME NEW rows \in Seq(RowRecord), NEW snaps, NEW condition \in BOOLEAN, NEW what, NEW value,
         Alternate(rows), AllTrue(snaps, rows),
         condition => /\ Watch!Row(what, value) \in RowRecord
                      /\ RowIsTrue(snaps, Watch!Row(what, value))
                      /\ what = "PAIRED" => ~Says(rows)
                      /\ what = "UNPAIRED" => Says(rows)
  PROVE  LET all == rows \o Watch!Rows(condition, what, value) IN
         /\ all \in Seq(RowRecord) /\ Alternate(all) /\ AllTrue(snaps, all)
         /\ Says(all) <=> IF condition /\ what \in {"PAIRED", "UNPAIRED"} THEN what = "PAIRED"
                          ELSE Says(rows)
<1> DEFINE row == Watch!Row(what, value)
           all == rows \o Watch!Rows(condition, what, value)
           n == Len(rows)
<1>1. CASE ~condition
  <2>1. rows \o <<>> = rows
    OBVIOUS
  <2> QED
    BY <1>1, <2>1 DEF Watch!Rows
<1>2. CASE condition
  <2>1. row.what = what
    BY DEF Watch!Row
  <2>2. all = rows \o <<row>>
    BY <1>2 DEF Watch!Rows
  <2> HIDE DEF row, all
  <2>3. /\ all \in Seq(RowRecord) /\ Len(all) = n + 1 /\ all[n + 1] = row
        /\ \A r \in 1..n : all[r] = rows[r]
    BY <1>2, <2>2, RowAdded DEF row
  <2>4. n \in Nat
    OBVIOUS
  <2> HIDE DEF n
  <2>5. \A r \in 1..n : SaysBefore(all, r) <=> SaysBefore(rows, r)
    BY <2>3, <2>4 DEF SaysBefore
  <2>6. SaysBefore(all, n + 1) <=> Says(rows)
    <3>1. (n + 1) - 1 = n
      BY <2>4
    <3>2. \A k \in 1..n : (\A l \in (k + 1)..n : all[l].what # "UNPAIRED")
                            <=> (\A l \in (k + 1)..n : rows[l].what # "UNPAIRED")
      BY <2>3, <2>4
    <3> QED
      BY <2>3, <3>1, <3>2 DEF SaysBefore, Says, n
  <2>7. \A r \in 1..(n + 1) : r \in 1..n \/ r = n + 1
    BY <2>4
  <2>8. Alternate(all)
    <3>1. ASSUME NEW r \in 1..(n + 1)
          PROVE  /\ all[r].what = "PAIRED" => ~SaysBefore(all, r)
                 /\ all[r].what = "UNPAIRED" => SaysBefore(all, r)
      <4>1. CASE r \in 1..n
        BY <2>3, <2>5, <4>1 DEF Alternate, n
      <4>2. CASE r = n + 1
        BY <1>2, <2>1, <2>3, <2>6, <4>2
      <4> QED
        BY <2>7, <4>1, <4>2
    <3> QED
      BY <2>3, <3>1 DEF Alternate
  <2>9. AllTrue(snaps, all)
    <3>1. ASSUME NEW r \in 1..(n + 1) PROVE RowIsTrue(snaps, all[r])
      <4>1. CASE r \in 1..n
        BY <2>3, <4>1 DEF AllTrue, n
      <4>2. CASE r = n + 1
        BY <1>2, <2>3, <4>2 DEF row
      <4> QED
        BY <2>7, <4>1, <4>2
    <3> QED
      BY <2>3, <3>1 DEF AllTrue
  <2>10. Says(all) <=> what = "PAIRED" \/ (what # "UNPAIRED" /\ Says(rows))
    <3>1. ASSUME what = "PAIRED" PROVE Says(all)
      <4>1. n + 1 \in 1..Len(all) /\ all[n + 1].what = "PAIRED" /\ (n + 1 + 1)..Len(all) = {}
        BY <2>1, <2>3, <2>4, <3>1
      <4> QED
        BY <4>1 DEF Says
    <3>2. ASSUME what # "PAIRED", what # "UNPAIRED", Says(rows) PROVE Says(all)
      <4>1. PICK k \in 1..n : rows[k].what = "PAIRED" /\ \A l \in (k + 1)..n : rows[l].what # "UNPAIRED"
        BY <3>2 DEF Says, n
      <4>2. k \in 1..Len(all) /\ all[k].what = "PAIRED"
        BY <2>3, <2>4, <4>1
      <4>3. \A l \in (k + 1)..Len(all) : all[l].what # "UNPAIRED"
        BY <2>1, <2>3, <2>4, <3>2, <4>1
      <4> QED
        BY <4>2, <4>3 DEF Says
    <3>3. ASSUME what # "PAIRED", Says(all) PROVE what # "UNPAIRED" /\ Says(rows)
      <4>1. PICK k \in 1..(n + 1) :
              all[k].what = "PAIRED" /\ \A l \in (k + 1)..(n + 1) : all[l].what # "UNPAIRED"
        BY <2>3, <3>3 DEF Says
      <4>2. k \in 1..n
        BY <2>1, <2>3, <2>7, <3>3, <4>1
      <4>3. n + 1 \in (k + 1)..(n + 1)
        BY <2>4, <4>2
      <4>4. what # "UNPAIRED"
        BY <2>1, <2>3, <4>1, <4>3
      <4>5. \A l \in (k + 1)..n : rows[l].what # "UNPAIRED"
        BY <2>3, <2>4, <4>1, <4>2
      <4>6. rows[k].what = "PAIRED"
        BY <2>3, <4>1, <4>2
      <4> QED
        BY <4>2, <4>4, <4>5, <4>6 DEF Says, n
    <3> QED
      BY <3>1, <3>2, <3>3
  <2> QED
    BY <1>2, <2>3, <2>8, <2>9, <2>10 DEF all
<1> QED
  BY <1>1, <1>2

\* What was read last stays so as rows that say nothing else are appended, and is what an
\* appended interrupt says.
LEMMA ReadFollows ==
  ASSUME NEW rows \in Seq(RowRecord), NEW condition \in BOOLEAN, NEW what, NEW value,
         NEW side, NEW v, condition => Watch!Row(what, value) \in RowRecord,
         \/ /\ ReadIn(rows, side, v)
            /\ condition => /\ what \notin {"PAIRED", "UNPAIRED"}
                            /\ what = "INTERRUPT" => Watch!Part(value, side) \in {"missing", v}
         \/ condition /\ what = "INTERRUPT" /\ Watch!Part(value, side) = v
  PROVE  ReadIn(rows \o Watch!Rows(condition, what, value), side, v)
<1> DEFINE row == Watch!Row(what, value)
           all == rows \o Watch!Rows(condition, what, value)
           n == Len(rows)
<1>1. CASE ~condition
  <2>1. rows \o <<>> = rows
    OBVIOUS
  <2> QED
    BY <1>1, <2>1 DEF Watch!Rows
<1>2. CASE condition
  <2>1. row.what = what /\ row.value = value
    BY DEF Watch!Row
  <2>2. all = rows \o <<row>>
    BY <1>2 DEF Watch!Rows
  <2> HIDE DEF row, all
  <2>3. /\ Len(all) = n + 1 /\ all[n + 1] = row
        /\ \A r \in 1..n : all[r] = rows[r]
    BY <1>2, <2>2, RowAdded DEF row
  <2>4. n \in Nat
    OBVIOUS
  <2>5. CASE what = "INTERRUPT" /\ Watch!Part(value, side) = v
    <3>1. n + 1 \in 1..Len(all) /\ (n + 1 + 1)..Len(all) = {}
      BY <2>3, <2>4
    <3> QED
      BY <2>1, <2>3, <2>5, <3>1 DEF ReadIn, all
  <2>6. CASE /\ ReadIn(rows, side, v) /\ what \notin {"PAIRED", "UNPAIRED"}
             /\ what = "INTERRUPT" => Watch!Part(value, side) \in {"missing", v}
    <3>1. PICK r \in 1..n :
            /\ rows[r].what = "INTERRUPT" /\ Watch!Part(rows[r].value, side) = v
            /\ \A l \in (r + 1)..n :
                 /\ rows[l].what \notin {"PAIRED", "UNPAIRED"}
                 /\ rows[l].what = "INTERRUPT" => Watch!Part(rows[l].value, side) \in {"missing", v}
      BY <2>6 DEF ReadIn
    <3> HIDE DEF n
    <3>2. r \in 1..Len(all) /\ all[r] = rows[r]
      BY <2>3, <2>4, <3>1
    <3>3. ASSUME NEW l \in (r + 1)..Len(all)
          PROVE  /\ all[l].what \notin {"PAIRED", "UNPAIRED"}
                 /\ all[l].what = "INTERRUPT" => Watch!Part(all[l].value, side) \in {"missing", v}
      <4>1. CASE l = n + 1
        BY <2>1, <2>3, <2>6, <4>1
      <4>2. CASE l # n + 1
        <5>1. l \in (r + 1)..n /\ l \in 1..n
          BY <2>3, <2>4, <3>1, <4>2
        <5>2. all[l] = rows[l]
          BY <2>3, <5>1
        <5> QED
          BY <3>1, <5>1, <5>2
      <4> QED
        BY <4>1, <4>2
    <3> QED
      BY <3>1, <3>2, <3>3 DEF ReadIn, all
  <2> QED
    BY <1>2, <2>5, <2>6 DEF all
<1> QED
  BY <1>1, <1>2

LEMMA SnapshotAdded ==
  ASSUME WatchTypes, NEW snapshot \in Watch!Snapshot, seen' = Append(seen, snapshot)
  PROVE  /\ seen' \in Seq(Watch!Snapshot) /\ Len(seen') = Len(seen) + 1 /\ Len(seen) \in Nat
         /\ seen'[Len(seen) + 1] = snapshot
         /\ \A i \in 1..Len(seen) : seen'[i] = seen[i]
BY DEF WatchTypes

\* What was told and written stays so as snapshots go by.
LEMMA RowsStayTrue ==
  ASSUME WatchTypes, AllTrue(seen, written), NEW snapshot \in Watch!Snapshot,
         seen' = Append(seen, snapshot)
  PROVE  AllTrue(seen', written)
<1> DEFINE n == Len(seen)
<1>1. n \in Nat /\ Len(seen') = n + 1 /\ \A i \in 1..n : seen'[i] = seen[i]
  BY SnapshotAdded
<1>2. ASSUME NEW r \in 1..Len(written) PROVE RowIsTrue(seen', written[r])
  <2> DEFINE row == written[r]
  <2>1. RowIsTrue(seen, row)
    BY DEF AllTrue
  <2> HIDE DEF row, n
  <2>2. row.at \in 1..n
    BY <2>1 DEF RowIsTrue, n
  <2>3. row.at \in 1..Len(seen')
    BY <1>1, <2>2
  <2>4. ASSUME row.what = "link" PROVE ToldIn(seen', row.at - 1, row.value) /\ seen'[row.at].here
    <3>1. ToldIn(seen, row.at - 1, row.value) /\ seen[row.at].here
      BY <2>1, <2>4 DEF RowIsTrue
    <3>2. \A i \in 1..(row.at - 1) : seen'[i] = seen[i]
      BY <1>1, <2>2
    <3>3. row.at - 1 \in Nat
      BY <1>1, <2>2
    <3>4. ToldIn(seen', row.at - 1, row.value)
      <4>1. PICK j \in 1..(row.at - 1) :
              /\ seen[j].link = row.value /\ row.value # "missing"
              /\ \A k \in (j + 1)..(row.at - 1) : seen[k].link = "missing"
              /\ \A k \in j..(row.at - 1) : seen[k].here
        BY <3>1 DEF ToldIn
      <4>2. /\ seen'[j].link = row.value
            /\ \A k \in (j + 1)..(row.at - 1) : seen'[k].link = "missing"
            /\ \A k \in j..(row.at - 1) : seen'[k].here
        <5> DEFINE m == row.at - 1
        <5>1. m \in Nat /\ j \in 1..m /\ \A i \in 1..m : seen'[i] = seen[i]
          BY <3>2, <3>3, <4>1
        <5>2. /\ seen[j].link = row.value
              /\ \A k \in (j + 1)..m : seen[k].link = "missing"
              /\ \A k \in j..m : seen[k].here
          BY <4>1
        <5> HIDE DEF m
        <5>3. ASSUME NEW k \in j..m PROVE k \in 1..m /\ seen'[k] = seen[k]
          <6>1. k \in 1..m
            BY <5>1
          <6> QED
            BY <5>1, <6>1
        <5>4. \A k \in (j + 1)..m : k \in j..m
          BY <5>1
        <5>5. j \in j..m
          BY <5>1
        <5> QED
          BY <5>2, <5>3, <5>4, <5>5 DEF m
      <4> QED
        BY <4>1, <4>2 DEF ToldIn
    <3> QED
      BY <1>1, <2>2, <3>1, <3>4
  <2>5. ASSUME row.what = "INTERRUPT", row.at > 1, seen'[row.at - 1].interrupt = row.value
        PROVE  "missing" \in {row.value.code, row.value.description}
    <3>1. row.at - 1 \in 1..n
      BY <1>1, <2>2, <2>5
    <3> QED
      BY <1>1, <2>1, <2>5, <3>1 DEF RowIsTrue
  <2> QED
    BY <2>3, <2>4, <2>5 DEF RowIsTrue, row
<1> QED
  BY <1>2 DEF AllTrue

\* A link that was told before is told still when a snapshot of the handset leaves it out.
LEMMA ToldStays ==
  ASSUME WatchTypes, NEW snapshot \in Watch!Snapshot, seen' = Append(seen, snapshot),
         NEW value, ToldIn(seen, Len(seen), value)
  PROVE  /\ ToldIn(seen', Len(seen), value)
         /\ seen[Len(seen)].here /\ Len(seen) > 0
         /\ snapshot.here /\ snapshot.link = "missing" => ToldIn(seen', Len(seen'), value)
<1> DEFINE n == Len(seen)
<1>1. n \in Nat /\ Len(seen') = n + 1 /\ (\A i \in 1..n : seen'[i] = seen[i]) /\ seen'[n + 1] = snapshot
  BY SnapshotAdded
<1>2. PICK j \in 1..n : /\ seen[j].link = value /\ value # "missing"
                        /\ \A k \in (j + 1)..n : seen[k].link = "missing"
                        /\ \A k \in j..n : seen[k].here
  BY DEF ToldIn
<1> HIDE DEF n
<1>3. /\ seen'[j].link = value
      /\ \A k \in (j + 1)..n : seen'[k].link = "missing"
      /\ \A k \in j..n : seen'[k].here
  BY <1>1, <1>2
<1>4. ToldIn(seen', n, value)
  BY <1>2, <1>3 DEF ToldIn
<1>5. seen[n].here /\ n > 0
  BY <1>1, <1>2
<1>6. ASSUME snapshot.here, snapshot.link = "missing" PROVE ToldIn(seen', n + 1, value)
  <2>1. j \in 1..(n + 1)
    BY <1>1
  <2>2. \A k \in (j + 1)..(n + 1) : seen'[k].link = "missing"
    BY <1>1, <1>3, <1>6
  <2>3. \A k \in j..(n + 1) : seen'[k].here
    BY <1>1, <1>3, <1>6
  <2> QED
    BY <1>2, <1>3, <2>1, <2>2, <2>3 DEF ToldIn
<1> QED
  BY <1>1, <1>4, <1>5, <1>6 DEF n

LEMMA ListedRows ==
  ASSUME WatchInv, NEW snapshot \in Watch!Snapshot, seen' = Append(seen, snapshot),
         Watch!Listed(snapshot)
  PROVE  /\ written' \in Seq(RowRecord) /\ Alternate(written') /\ AllTrue(seen', written')
         /\ Says(written')
         /\ \A side \in Sides : Watch!Part(wayline', side) # "missing" =>
              ReadIn(written', side, Watch!Part(wayline', side))
<1> DEFINE n == Len(seen)
           R1 == Watch!Rows(~paired, "PAIRED", "none")
           R2 == Watch!Rows(Watch!LinkIsWritten(snapshot.link), "link", snapshot.link)
           R3 == Watch!Rows(snapshot.plain \notin {"missing", logged.plain}, "plain", snapshot.plain)
           R4 == Watch!Rows(Watch!InterruptIsWritten(snapshot.interrupt), "INTERRUPT", snapshot.interrupt)
           w1 == written \o R1
           w2 == w1 \o R2
           w3 == w2 \o R3
           w4 == w3 \o R4
<1>1. n \in Nat /\ Len(seen') = n + 1 /\ (\A i \in 1..n : seen'[i] = seen[i]) /\ seen'[n + 1] = snapshot
  BY SnapshotAdded DEF WatchInv
<1>2. /\ snapshot.here /\ snapshot.link \in LinkValue /\ snapshot.plain \in PlainValue
      /\ snapshot.interrupt \in Watch!Interrupt
  BY DEF Watch!Snapshot, Watch!Listed
<1>3. written \in Seq(RowRecord) /\ Alternate(written) /\ AllTrue(seen', written) /\ (paired <=> Says(written))
      /\ paired \in BOOLEAN
  BY RowsStayTrue DEF WatchInv, WatchTypes
<1>4. ASSUME NEW what \in {"PAIRED", "link", "plain", "INTERRUPT"},
             NEW value \in LinkValue \cup PlainValue \cup Watch!Interrupt \cup {"none"}
      PROVE  /\ Watch!Row(what, value) \in RowRecord
             /\ Watch!Row(what, value) = [what |-> what, value |-> value, at |-> n + 1]
  BY <1>1 DEF Watch!Row, RowRecord
<1>5. written' = w4
  BY DEF Watch!Listed
<1> HIDE DEF n
<1>6. /\ w1 \in Seq(RowRecord) /\ Alternate(w1) /\ AllTrue(seen', w1) /\ Says(w1)
  <2>1. RowIsTrue(seen', Watch!Row("PAIRED", "none")) /\ Watch!Row("PAIRED", "none") \in RowRecord
    BY <1>1, <1>4 DEF RowIsTrue
  <2>2. (~paired) \in BOOLEAN
    OBVIOUS
  <2> QED
    BY <1>3, <2>1, <2>2, RowsFollow
<1> HIDE DEF w1
<1>7. /\ w2 \in Seq(RowRecord) /\ Alternate(w2) /\ AllTrue(seen', w2) /\ Says(w2)
  <2> DEFINE row == Watch!Row("link", snapshot.link)
             condition == Watch!LinkIsWritten(snapshot.link)
  <2>1. row \in RowRecord /\ row = [what |-> "link", value |-> snapshot.link, at |-> n + 1]
    BY <1>2, <1>4
  <2>2. ASSUME condition PROVE RowIsTrue(seen', row)
    <3>1. snapshot.link = waiting /\ waiting # "missing"
      BY <2>2 DEF Watch!LinkIsWritten
    <3>2. ToldIn(seen', n, snapshot.link)
      BY <3>1, ToldStays DEF WatchInv, n
    <3>3. (n + 1) - 1 = n /\ n + 1 \in 1..Len(seen')
      BY <1>1
    <3> QED
      BY <1>1, <1>2, <2>1, <3>2, <3>3 DEF RowIsTrue
  <2>3. condition \in BOOLEAN
    BY DEF Watch!LinkIsWritten
  <2> HIDE DEF condition
  <2> QED
    BY <1>6, <2>1, <2>2, <2>3, RowsFollow DEF condition
<1> HIDE DEF w2
<1>8. /\ w3 \in Seq(RowRecord) /\ Alternate(w3) /\ AllTrue(seen', w3) /\ Says(w3)
  <2> DEFINE row == Watch!Row("plain", snapshot.plain)
             condition == snapshot.plain \notin {"missing", logged.plain}
  <2>1. row \in RowRecord /\ row = [what |-> "plain", value |-> snapshot.plain, at |-> n + 1]
    BY <1>2, <1>4
  <2>2. RowIsTrue(seen', row)
    BY <1>1, <2>1 DEF RowIsTrue
  <2>3. condition \in BOOLEAN
    OBVIOUS
  <2> HIDE DEF condition
  <2> QED
    BY <1>7, <2>1, <2>2, <2>3, RowsFollow DEF condition
<1> HIDE DEF w3
<1>9. /\ w4 \in Seq(RowRecord) /\ Alternate(w4) /\ AllTrue(seen', w4) /\ Says(w4)
  <2> DEFINE row == Watch!Row("INTERRUPT", snapshot.interrupt)
             condition == Watch!InterruptIsWritten(snapshot.interrupt)
  <2>1. row \in RowRecord /\ row = [what |-> "INTERRUPT", value |-> snapshot.interrupt, at |-> n + 1]
    BY <1>2, <1>4
  <2>2. ASSUME condition PROVE RowIsTrue(seen', row)
    <3>1. ASSUME n + 1 > 1, seen'[n].interrupt = snapshot.interrupt
          PROVE  "missing" \in {snapshot.interrupt.code, snapshot.interrupt.description}
      <4>1. n \in 1..n /\ n > 0 /\ seen[n].interrupt = snapshot.interrupt
        BY <1>1, <3>1
      <4>2. \A side \in Sides : Watch!Part(snapshot.interrupt, side) # "missing" =>
              Watch!Part(wayline, side) = Watch!Part(snapshot.interrupt, side)
        BY <4>1 DEF WatchInv, n
      <4>3. /\ snapshot.interrupt.code # "missing" => wayline.code = snapshot.interrupt.code
            /\ snapshot.interrupt.description # "missing"
                 => wayline.description = snapshot.interrupt.description
        BY <4>2 DEF Watch!Part, Sides
      <4> QED
        BY <2>2, <4>3 DEF Watch!InterruptIsWritten, Watch!Differs
    <3>2. (n + 1) - 1 = n /\ n + 1 \in 1..Len(seen')
      BY <1>1
    <3> QED
      BY <1>1, <2>1, <3>1, <3>2 DEF RowIsTrue
  <2>3. condition \in BOOLEAN
    BY DEF Watch!InterruptIsWritten
  <2> HIDE DEF condition
  <2> QED
    BY <1>8, <2>1, <2>2, <2>3, RowsFollow DEF condition
<1>10. ASSUME NEW side \in Sides, Watch!Part(wayline', side) # "missing"
       PROVE  ReadIn(w4, side, Watch!Part(wayline', side))
  <2> DEFINE v == Watch!Part(wayline', side)
             says == Watch!Part(snapshot.interrupt, side)
             condition == Watch!InterruptIsWritten(snapshot.interrupt)
             linked == Watch!LinkIsWritten(snapshot.link)
             phased == snapshot.plain \notin {"missing", logged.plain}
  <2>1. /\ v = IF says = "missing" THEN Watch!Part(wayline, side) ELSE says
        /\ says # "missing" /\ ~condition => says = Watch!Part(wayline, side)
    BY DEF Sides, Watch!Listed, Watch!Part, Watch!Retained, Watch!InterruptIsWritten, Watch!Differs,
           Watch!NoInterrupt
  <2>2. /\ condition => Watch!Row("INTERRUPT", snapshot.interrupt) \in RowRecord
        /\ linked => Watch!Row("link", snapshot.link) \in RowRecord
        /\ phased => Watch!Row("plain", snapshot.plain) \in RowRecord
    BY <1>2, <1>4
  <2>3. condition \in BOOLEAN /\ linked \in BOOLEAN /\ phased \in BOOLEAN
    BY DEF Watch!InterruptIsWritten, Watch!LinkIsWritten
  <2>4. Watch!Part(wayline, side) # "missing"
          => paired /\ ReadIn(written, side, Watch!Part(wayline, side))
    BY DEF WatchInv
  <2> HIDE DEF condition, linked, phased, v, says
  <2>5. CASE condition /\ says # "missing"
    <3>1. says = v
      BY <2>1, <2>5
    <3> QED
      BY <1>8, <2>2, <2>3, <2>5, <3>1, ReadFollows DEF condition, v, says
  <2>6. CASE ~(condition /\ says # "missing")
    <3>1. v = Watch!Part(wayline, side) /\ v # "missing" /\ (condition => says = "missing")
      BY <1>10, <2>1, <2>6 DEF v
    <3>2. paired /\ ReadIn(written, side, v)
      BY <2>4, <3>1
    <3>3. ReadIn(w1, side, v)
      BY <1>3, <3>2, ReadFollows DEF w1
    <3>4. ReadIn(w2, side, v)
      BY <1>6, <2>2, <2>3, <3>3, ReadFollows DEF w2, linked
    <3>5. ReadIn(w3, side, v)
      BY <1>7, <2>2, <2>3, <3>4, ReadFollows DEF w3, phased
    <3> QED
      BY <1>8, <2>2, <2>3, <3>1, <3>5, ReadFollows DEF condition, v, says
  <2> QED
    BY <2>5, <2>6
<1> HIDE DEF w4
<1> QED
  BY <1>5, <1>9, <1>10

LEMMA ListedStep ==
  ASSUME WatchInv, NEW snapshot \in Watch!Snapshot, seen' = Append(seen, snapshot),
         Watch!Listed(snapshot)
  PROVE  WatchInv'
<1> DEFINE n == Len(seen)
           L == snapshot.link
<1>1. /\ n \in Nat /\ Len(seen') = n + 1 /\ (\A i \in 1..n : seen'[i] = seen[i]) /\ seen'[n + 1] = snapshot
      /\ seen' \in Seq(Watch!Snapshot)
  BY SnapshotAdded DEF WatchInv
<1>2. /\ snapshot.here /\ L \in LinkValue /\ snapshot.plain \in PlainValue
      /\ snapshot.interrupt \in Watch!Interrupt
  BY DEF Watch!Snapshot, Watch!Listed
<1>3. waiting' = IF L = "missing" THEN waiting
                 ELSE IF L \in {logged.link, "unknown", waiting} THEN "missing" ELSE L
  BY DEF Watch!Listed, Watch!WaitingAfter
<1>4. /\ logged'.link = IF L = "unknown" \/ (L \notin {"missing", "unknown", logged.link} /\ L = waiting)
                        THEN L ELSE logged.link
      /\ logged' \in [link : LinkValue, plain : PlainValue]
  BY <1>2 DEF Watch!Listed, Watch!LinkLogged, Watch!LinkIsWritten, WatchInv, WatchTypes
<1>5. /\ wayline' \in Watch!Interrupt /\ paired' = TRUE
      /\ \A side \in Sides : Watch!Part(snapshot.interrupt, side) # "missing" =>
           Watch!Part(wayline', side) = Watch!Part(snapshot.interrupt, side)
  BY <1>2 DEF Watch!Listed, Watch!Interrupt, Watch!Retained, Watch!Part, Sides, WatchInv, WatchTypes
<1>6. waiting' \in LinkValue
  BY <1>2, <1>3, WatchAssumed DEF WatchInv, WatchTypes
<1>7. waiting' # "missing" => ToldIn(seen', n + 1, waiting')
  <2>1. CASE L = "missing"
    BY <1>1, <1>2, <1>3, <2>1, ToldStays DEF WatchInv
  <2>2. ASSUME L # "missing", waiting' # "missing" PROVE ToldIn(seen', n + 1, waiting')
    <3>1. waiting' = L
      BY <1>3, <2>2
    <3> HIDE DEF n, L
    <3>2. n + 1 \in 1..(n + 1) /\ (n + 1 + 1)..(n + 1) = {} /\ \A k \in (n + 1)..(n + 1) : k = n + 1
      BY <1>1
    <3>3. seen'[n + 1].link = L /\ seen'[n + 1].here
      BY <1>1, <1>2 DEF L
    <3> QED
      BY <2>2, <3>1, <3>2, <3>3 DEF ToldIn
  <2> QED
    BY <2>1, <2>2
<1>8. L # "missing" => logged'.link = L \/ waiting' = L
  BY <1>3, <1>4
<1>9. n + 1 > 1 /\ L = seen'[n].link /\ L # "missing" => logged'.link = L
  <2> SUFFICES ASSUME n + 1 > 1, L = seen'[n].link, L # "missing" PROVE logged'.link = L
    OBVIOUS
  <2>1. n \in 1..n /\ n > 0
    BY <1>1
  <2>2. logged.link = L \/ waiting = L
    BY <1>1, <2>1 DEF WatchInv
  <2> QED
    BY <1>4, <2>2
<1> HIDE DEF L
<1>10. WatchTypes'
  BY <1>1, <1>4, <1>5, <1>6, ListedRows DEF WatchTypes
<1>11. LET i == Len(seen') IN i > 0 =>
       /\ paired' <=> seen'[i].here
       /\ seen'[i].link # "missing" => logged'.link = seen'[i].link \/ waiting' = seen'[i].link
       /\ \A side \in Sides : Watch!Part(seen'[i].interrupt, side) # "missing" =>
            Watch!Part(wayline', side) = Watch!Part(seen'[i].interrupt, side)
       /\ i > 1 /\ seen'[i].link = seen'[i - 1].link /\ seen'[i].link # "missing"
            => logged'.link = seen'[i].link
  <2>1. (n + 1) - 1 = n
    BY <1>1
  <2> QED
    BY <1>1, <1>2, <1>5, <1>8, <1>9, <2>1 DEF L
<1> QED
  BY <1>1, <1>5, <1>7, <1>10, <1>11, ListedRows DEF WatchInv

LEMMA UnlistedStep ==
  ASSUME WatchInv, NEW snapshot \in Watch!Snapshot, seen' = Append(seen, snapshot),
         Watch!Unlisted(snapshot), snapshot.link = "missing", snapshot.interrupt = Watch!NoInterrupt
  PROVE  WatchInv'
<1> DEFINE n == Len(seen)
<1>1. /\ n \in Nat /\ Len(seen') = n + 1 /\ (\A i \in 1..n : seen'[i] = seen[i]) /\ seen'[n + 1] = snapshot
      /\ seen' \in Seq(Watch!Snapshot)
  BY SnapshotAdded DEF WatchInv
<1>2. ~snapshot.here /\ paired' = FALSE
  BY DEF Watch!Unlisted
<1>3. /\ written' \in Seq(RowRecord) /\ Alternate(written') /\ AllTrue(seen', written')
      /\ ~Says(written')
  <2>1. written \in Seq(RowRecord) /\ Alternate(written) /\ AllTrue(seen', written) /\ (paired <=> Says(written))
        /\ paired \in BOOLEAN
    BY RowsStayTrue DEF WatchInv, WatchTypes
  <2>2. RowIsTrue(seen', Watch!Row("UNPAIRED", "none")) /\ Watch!Row("UNPAIRED", "none") \in RowRecord
    BY <1>1 DEF RowIsTrue, Watch!Row, RowRecord
  <2>3. written' = written \o Watch!Rows(paired, "UNPAIRED", "none")
    BY DEF Watch!Unlisted
  <2> QED
    BY <2>1, <2>2, <2>3, RowsFollow
<1>4. ~paired => waiting = "missing"
  <2>1. ASSUME waiting # "missing" PROVE paired
    <3>1. seen[n].here /\ n > 0
      BY <2>1, ToldStays DEF WatchInv
    <3> QED
      BY <3>1 DEF WatchInv
  <2> QED
    BY <2>1
<1>5. /\ waiting' = "missing" /\ waiting' \in LinkValue
      /\ logged' \in [link : LinkValue, plain : PlainValue] /\ wayline' \in Watch!Interrupt
  BY <1>4, WatchAssumed DEF Watch!Unlisted, Watch!Nothing, Watch!NoInterrupt, Watch!Interrupt,
                            WatchInv, WatchTypes
<1>7. \A side \in Sides : /\ Watch!Part(wayline', side) = "missing"
                          /\ Watch!Part(snapshot.interrupt, side) = "missing"
  BY DEF Watch!Unlisted, Watch!NoInterrupt, Watch!Part, Sides, WatchInv
<1>6. WatchTypes'
  BY <1>1, <1>2, <1>3, <1>5 DEF WatchTypes
<1> QED
  BY <1>1, <1>2, <1>3, <1>5, <1>6, <1>7 DEF WatchInv

LEMMA JournalTells == WatchInv => Watch!JournalTellsWhatHappened
<1> SUFFICES ASSUME WatchInv PROVE Watch!JournalTellsWhatHappened
  OBVIOUS
<1>1. ASSUME NEW r PROVE Watch!TellsPaired(r) <=> SaysBefore(written, r)
  BY DEF Watch!TellsPaired, SaysBefore
<1>2. Watch!TellsPaired(Len(written) + 1) <=> paired
  <2>1. Len(written) \in Nat /\ (Len(written) + 1) - 1 = Len(written)
    BY DEF WatchInv, WatchTypes
  <2> QED
    BY <2>1 DEF WatchInv, Watch!TellsPaired, Says
<1>3. ASSUME NEW r \in 1..Len(written)
      PROVE  /\ written[r].what = "PAIRED" => ~Watch!TellsPaired(r)
             /\ written[r].what = "UNPAIRED" => Watch!TellsPaired(r)
  BY <1>1 DEF WatchInv, Alternate
<1>4. ASSUME NEW r \in 1..Len(written), written[r].what = "link"
      PROVE  Watch!ToldBefore(written[r].at, written[r].value)
  <2> DEFINE i == written[r].at
             value == written[r].value
  <2>1. i \in 1..Len(seen) /\ ToldIn(seen, i - 1, value) /\ seen[i].here /\ Len(seen) \in Nat
    BY <1>4 DEF WatchInv, WatchTypes, AllTrue, RowIsTrue
  <2> HIDE DEF i, value
  <2>2. PICK j \in 1..(i - 1) : /\ seen[j].link = value /\ value # "missing"
                                /\ \A k \in (j + 1)..(i - 1) : seen[k].link = "missing"
                                /\ \A k \in j..(i - 1) : seen[k].here
    BY <2>1 DEF ToldIn
  <2>3. \A k \in j..i : seen[k].here
    BY <2>1, <2>2
  <2> QED
    BY <2>2, <2>3 DEF Watch!ToldBefore, i, value
<1>5. ASSUME NEW r \in 1..Len(written), written[r].what = "INTERRUPT", written[r].at > 1,
             seen[written[r].at - 1].interrupt = written[r].value
      PROVE  "missing" \in {written[r].value.code, written[r].value.description}
  BY <1>5 DEF WatchInv, AllTrue, RowIsTrue
<1>6. DOMAIN written = 1..Len(written) /\ Len(seen) \in Nat
  BY DEF WatchInv, WatchTypes
<1>7. LET i == Len(seen) IN
        i > 1 /\ seen[i].here /\ seen[i].link = seen[i - 1].link /\ seen[i].link # "missing"
          => logged.link = seen[i].link
  BY <1>6 DEF WatchInv
<1>8. ASSUME NEW side \in Sides, Len(seen) > 0,
             Watch!Part(seen[Len(seen)].interrupt, side) # "missing"
      PROVE  Watch!LastRead(side, Watch!Part(seen[Len(seen)].interrupt, side))
  <2>1. ReadIn(written, side, Watch!Part(seen[Len(seen)].interrupt, side))
    BY <1>8 DEF WatchInv
  <2> QED
    BY <1>6, <2>1 DEF ReadIn, Watch!LastRead
<1> QED
  BY <1>2, <1>3, <1>4, <1>5, <1>6, <1>7, <1>8 DEF Watch!JournalTellsWhatHappened, Sides

LEMMA JournalAlwaysTells == Spec => []Watch!JournalTellsWhatHappened
<1>1. Init => WatchInv
  <2>1. <<>> \in Seq(RowRecord) /\ <<>> \in Seq(Watch!Snapshot) /\ Len(<<>>) = 0
    OBVIOUS
  <2> SUFFICES ASSUME Watch!WatchInit PROVE WatchInv
    BY DEF Init, PartsInit
  <2>2. /\ seen = <<>> /\ written = <<>> /\ paired = FALSE /\ waiting = "missing"
        /\ wayline = [code |-> "missing", description |-> "missing"]
        /\ logged = [link |-> "missing", plain |-> "missing"]
    BY DEF Watch!WatchInit, Watch!Nothing, Watch!NoInterrupt
  <2>3. WatchTypes /\ \A side \in Sides : Watch!Part(wayline, side) = "missing"
    BY <2>1, <2>2, WatchAssumed DEF WatchTypes, Watch!Interrupt, Watch!Part, Sides
  <2>4. Alternate(written) /\ AllTrue(seen, written) /\ ~Says(written)
    BY <2>1, <2>2 DEF Alternate, AllTrue, Says
  <2> QED
    BY <2>1, <2>2, <2>3, <2>4 DEF WatchInv
<1>2. ASSUME WatchInv, Watch!WatchNext PROVE WatchInv'
  BY <1>2, ListedStep, UnlistedStep DEF Watch!WatchNext, Watch!Publish, Watch!Unlisted
<1>3. WatchInv /\ UNCHANGED watch => WatchInv'
  BY DEF watch, WatchInv, WatchTypes
<1>4. [Next]_consoleRunVars => Watch!WatchNext \/ UNCHANGED watch
  BY DEF Next, consoleRunVars
<1>5. WatchInv /\ [Next]_consoleRunVars => WatchInv'
  BY <1>2, <1>3, <1>4
<1> QED
  BY <1>1, <1>5, JournalTells, PTL DEF Spec

-----------------------------------------------------------------------------
(* Frames and their texts *)

LEMMA CodecAssumed ==
  /\ MaxDepth \in Nat /\ MaxDepth > 0 /\ MaxChunk \in Nat /\ MaxChunk > 0 /\ MaxExtra \in Nat
  /\ Counts \subseteq Nat /\ MaxTokens \in Nat /\ MaxTokens >= 14
BY ConsoleHolds DEF Codec!CodecAssumption

LEMMA FiveAtMost ==
  ASSUME NEW S, NEW u, NEW v, NEW w, NEW x, NEW y, S \subseteq {u, v, w, x, y}
  PROVE  Codec!Cardinality(S) \in 0..5
<1>1. IsFiniteSet({}) /\ Cardinality({}) = 0
  BY FS_EmptySet
<1>2. IsFiniteSet({u}) /\ Cardinality({u}) \in 0..1
  <2>1. IsFiniteSet({u}) /\ Cardinality({u}) = 1
    BY FS_Singleton, Zenon
  <2> QED
    BY <2>1
<1>3. IsFiniteSet({u, v}) /\ Cardinality({u, v}) \in 0..2
  <2>1. {u, v} = {u} \cup {v}
    OBVIOUS
  <2> QED
    BY <1>2, <2>1, FS_AddElement
<1>4. IsFiniteSet({u, v, w}) /\ Cardinality({u, v, w}) \in 0..3
  <2>1. {u, v, w} = {u, v} \cup {w}
    OBVIOUS
  <2> QED
    BY <1>3, <2>1, FS_AddElement
<1>5. IsFiniteSet({u, v, w, x}) /\ Cardinality({u, v, w, x}) \in 0..4
  <2>1. {u, v, w, x} = {u, v, w} \cup {x}
    OBVIOUS
  <2> QED
    BY <1>4, <2>1, FS_AddElement
<1>6. IsFiniteSet({u, v, w, x, y}) /\ Cardinality({u, v, w, x, y}) \in 0..5
  <2>1. {u, v, w, x, y} = {u, v, w, x} \cup {y}
    OBVIOUS
  <2> QED
    BY <1>5, <2>1, FS_AddElement
<1>7. Cardinality(S) \in Nat /\ Cardinality(S) <= Cardinality({u, v, w, x, y})
  BY <1>6, FS_Subset, FS_CardinalityType
<1>8. Codec!Cardinality(S) = Cardinality(S)
  BY DEF Codec!Cardinality, Cardinality
<1> QED
  BY <1>6, <1>7, <1>8

\* No frame has more than five plain fields, and a chunk has one.
LEMMA FieldsAreFew ==
  ASSUME NEW type \in Codec!Types, NEW S, S \subseteq Codec!FieldsOf(type)
  PROVE  /\ Codec!Cardinality(S) \in 0..5
         /\ type \in Codec!Chunks => Codec!Cardinality(S) \in 0..1
<1>1. Codec!FieldsOf("hello") \subseteq {"deviceId", "protocolVersion", "deviceId", "deviceId", "deviceId"}
  BY DEF Codec!FieldsOf, Codec!Results, Codec!Chunks
<1>2. Codec!FieldsOf("paired") \subseteq {"sessionId", "protocolVersion", "sessionId", "sessionId", "sessionId"}
  BY DEF Codec!FieldsOf, Codec!Results, Codec!Chunks
<1>3. Codec!FieldsOf("command") \subseteq {"id", "name", "id", "id", "id"}
  BY DEF Codec!FieldsOf, Codec!Results, Codec!Chunks
<1>4. /\ Codec!FieldsOf("command-result") \subseteq {"id", "ok", "detail", "id", "id"}
      /\ Codec!FieldsOf("mission-result") \subseteq {"id", "ok", "detail", "id", "id"}
      /\ Codec!FieldsOf("media-result") \subseteq {"id", "ok", "detail", "id", "id"}
  BY DEF Codec!FieldsOf, Codec!Results, Codec!Chunks
<1>5. /\ Codec!FieldsOf("mission-begin") \subseteq {"id", "fileName", "size", "sha256", "id"}
      /\ Codec!FieldsOf("media-begin") \subseteq {"id", "fileName", "size", "sha256", "id"}
  BY DEF Codec!FieldsOf, Codec!Results, Codec!Chunks
<1>6. /\ Codec!FieldsOf("mission-chunk") = {"id"} /\ Codec!FieldsOf("media-chunk") = {"id"}
      /\ Codec!FieldsOf("mission-complete") = {"id"} /\ Codec!FieldsOf("media-complete") = {"id"}
  BY DEF Codec!FieldsOf, Codec!Results, Codec!Chunks
<1>7. Codec!FieldsOf("mission-phase")
        \subseteq {"missionRevision", "deviceGeneration", "sequence", "phase", "fileName"}
  BY DEF Codec!FieldsOf, Codec!Results, Codec!Chunks
<1>8. Codec!FieldsOf("diagnostic-report") \subseteq {"runId", "runId", "runId", "runId", "runId"}
  BY DEF Codec!FieldsOf, Codec!Results, Codec!Chunks
<1>9. Codec!FieldsOf("diagnostic-ack") \subseteq {"runId", "acknowledgedSequence", "runId", "runId", "runId"}
  BY DEF Codec!FieldsOf, Codec!Results, Codec!Chunks
<1>10. Codec!FieldsOf("telemetry") = {}
  BY DEF Codec!FieldsOf, Codec!Results, Codec!Chunks
<1>11. \E u, v, w, x, y : Codec!FieldsOf(type) \subseteq {u, v, w, x, y}
  <2>1. type \in {"hello", "paired", "command", "command-result", "mission-result", "media-result",
                  "mission-begin", "media-begin", "mission-chunk", "media-chunk", "mission-complete",
                  "media-complete", "mission-phase", "diagnostic-report", "diagnostic-ack", "telemetry"}
    BY DEF Codec!Types, Codec!Results, Codec!Chunks
  <2>2. CASE type \in {"hello", "paired", "command"}
    BY <1>1, <1>2, <1>3, <2>2
  <2>3. CASE type \in {"command-result", "mission-result", "media-result"}
    BY <1>4, <2>3
  <2>4. CASE type \in {"mission-begin", "media-begin"}
    BY <1>5, <2>4
  <2>5. CASE type \in {"mission-chunk", "media-chunk", "mission-complete", "media-complete"}
    <3>1. Codec!FieldsOf(type) \subseteq {"id", "id", "id", "id", "id"}
      BY <1>6, <2>5
    <3> QED
      BY <3>1
  <2>6. CASE type \in {"mission-phase", "diagnostic-report", "diagnostic-ack"}
    BY <1>7, <1>8, <1>9, <2>6
  <2>7. CASE type = "telemetry"
    <3>1. Codec!FieldsOf(type) \subseteq {"id", "id", "id", "id", "id"}
      BY <1>10, <2>7
    <3> QED
      BY <3>1
  <2> QED
    BY <2>1, <2>2, <2>3, <2>4, <2>5, <2>6, <2>7
<1>12. Codec!Cardinality(S) \in 0..5
  BY <1>11, FiveAtMost
<1>13. ASSUME type \in Codec!Chunks PROVE Codec!Cardinality(S) \in 0..1
  <2>1. S \subseteq {"id"}
    BY <1>6, <1>13 DEF Codec!Chunks
  <2>2. S = {} \/ S = {"id"}
    BY <2>1
  <2>3. Codec!Cardinality(S) = Cardinality(S)
    BY DEF Codec!Cardinality, Cardinality
  <2> QED
    BY <2>2, <2>3, FS_EmptySet, FS_Singleton
<1> QED
  BY <1>12, <1>13

LEMMA BytesComeBack ==
  ASSUME NEW d \in Nat
  PROVE  /\ Codec!Bytes(Codec!Base64(d)) = d
         /\ Codec!Bytes([Codec!Base64(d) EXCEPT !.canonical = FALSE]) = d
         /\ d <= MaxChunk => Codec!Base64(d).chars <= Codec!MaxChars
BY CodecAssumed DEF Codec!Bytes, Codec!Base64, Codec!MaxChars

JsonRecord == [object : BOOLEAN, depth : Nat, tokens : Nat, names : {"good", "bad"}]
Same(f) == [type |-> f.type, field |-> f.field, json |-> f.json, events |-> f.events, data |-> f.data,
            large |-> f.large]

\* A frame in memory, and a text, of a type with what frames of the type have.
IsFrame(f) ==
  /\ f = Same(f)
  /\ f.type \in Codec!Types \cup {"later"}
  /\ f.field = [name \in Codec!FieldsOf(f.type) |-> f.field[name]]
  /\ DOMAIN f.json = Codec!JsonOf(f.type) /\ \A name \in Codec!JsonOf(f.type) : f.json[name] \in JsonRecord
  /\ f.data \in Nat /\ f.large \in BOOLEAN
IsText(t) ==
  /\ t.type \in Codec!Types \cup {"later"}
  /\ DOMAIN t.field = Codec!FieldsOf(t.type)
  /\ DOMAIN t.json = Codec!JsonOf(t.type) /\ \A name \in Codec!JsonOf(t.type) : t.json[name] \in JsonRecord
  /\ \E d \in Nat : t.data \in {Codec!Base64(d), [Codec!Base64(d) EXCEPT !.canonical = FALSE]}
  /\ t.extra \in Nat /\ t.large \in BOOLEAN

Limited == {"command", "command-result"}   \* the types that may exceed the limits of the parser

LEMMA TextIs ==
  ASSUME NEW f
  PROVE  /\ Codec!Text(f).type = f.type /\ Codec!Text(f).json = f.json /\ Codec!Text(f).events = f.events
         /\ Codec!Text(f).large = f.large /\ Codec!Text(f).field = f.field
         /\ Codec!Text(f).data = Codec!Base64(f.data) /\ Codec!Text(f).extra = 0
         /\ Codec!Text(f).twice = FALSE
BY DEF Codec!Text

\* What is written is read as it was.
LEMMA CandidateIs ==
  ASSUME NEW f, IsFrame(f), Codec!encode(f)
  PROVE  Codec!Candidate(Codec!Text(f)) = f
<1> DEFINE t == Codec!Text(f)
           read == [name \in Codec!FieldsOf(f.type) |->
                      IF f.type \in Codec!Results /\ name = "detail" /\ f.field[name] = "absent"
                      THEN "good" ELSE f.field[name]]
<1>1. Codec!Candidate(t) = [type |-> f.type, json |-> f.json, events |-> f.events, large |-> f.large,
                            data |-> Codec!Bytes(Codec!Base64(f.data)), field |-> read]
  BY TextIs DEF Codec!Candidate
<1>2. Codec!Bytes(Codec!Base64(f.data)) = f.data
  BY BytesComeBack DEF IsFrame
<1>3. ASSUME NEW name \in Codec!FieldsOf(f.type), f.type \in Codec!Results, name = "detail"
      PROVE  f.field[name] # "absent"
  BY <1>3 DEF Codec!encode, Codec!validate, Codec!Optional, Codec!Results
<1>4. read = [name \in Codec!FieldsOf(f.type) |-> f.field[name]]
  BY <1>3
<1>5. read = f.field
  BY <1>4 DEF IsFrame
<1> HIDE DEF read, t
<1>6. Codec!Candidate(t) = Same(f)
  BY <1>1, <1>2, <1>5 DEF Same
<1> QED
  BY <1>6 DEF IsFrame, t

LEMMA WrittenIsDecoded ==
  ASSUME NEW f, IsFrame(f), Codec!encode(f)
  PROVE  Codec!decode(Codec!Text(f)) = IF Codec!Parses(Codec!Text(f)) THEN "decoded" ELSE "rejected"
<1>1. Codec!validate(f) /\ f.type \in Codec!Types /\ f.large = FALSE /\ f.type # "later"
  BY DEF Codec!encode, Codec!validate, IsFrame, Codec!Types, Codec!Results, Codec!Chunks
<1>2. Codec!Base64(f.data).canonical = TRUE
  BY DEF Codec!Base64
<1>3. f.type \in Codec!Chunks => Codec!Base64(f.data).chars <= Codec!MaxChars
  <2>1. f.type \in Codec!Chunks => f.data \in Nat /\ f.data <= MaxChunk
    BY <1>1, CodecAssumed DEF Codec!validate, IsFrame
  <2> QED
    BY <2>1, BytesComeBack
<1> QED
  BY <1>1, <1>2, <1>3, CandidateIs, TextIs DEF Codec!decode

\* The tokens of a text, and the few of one without embedded JSON.
LEMMA TokensAre ==
  ASSUME NEW t, IsText(t), t.type \in Codec!Types
  PROVE  /\ \A name : Codec!Member(t, name) \in Nat
         /\ Codec!Tokens(t) \in Nat
         /\ Codec!JsonOf(t.type) = {} /\ t.extra = 0 => Codec!Tokens(t) <= 14
<1> DEFINE card == Codec!Cardinality({name \in DOMAIN t.field : t.field[name] # "absent"})
<1>1. card \in 0..5 /\ (t.type \in Codec!Chunks => card \in 0..1)
  BY FieldsAreFew DEF IsText
<1>2. ASSUME NEW name PROVE Codec!Member(t, name) \in Nat
  BY DEF Codec!Member, IsText, JsonRecord
<1>3. ASSUME NEW name, Codec!JsonOf(t.type) = {} PROVE Codec!Member(t, name) = 0
  BY <1>3 DEF Codec!Member, IsText
<1>4. Codec!Tokens(t) = 4 + 2 * card + Codec!Member(t, "payload") + Codec!Member(t, "capabilities")
                        + Codec!Member(t, "fields") + Codec!Member(t, "result")
                        + (IF t.type \in Codec!Chunks THEN 2 ELSE 0) + t.extra
  BY DEF Codec!Tokens
<1>5. t.extra \in Nat
  BY DEF IsText
<1> HIDE DEF card
<1>6. Codec!Tokens(t) \in Nat
  BY <1>1, <1>2, <1>4, <1>5
<1>7. ASSUME Codec!JsonOf(t.type) = {}, t.extra = 0 PROVE Codec!Tokens(t) <= 14
  BY <1>1, <1>3, <1>4, <1>7
<1> QED
  BY <1>2, <1>6, <1>7

LEMMA TextOfAFrame ==
  ASSUME NEW f, IsFrame(f)
  PROVE  IsText(Codec!Text(f))
<1>1. DOMAIN f.field = Codec!FieldsOf(f.type)
  BY DEF IsFrame
<1>2. f.data \in Nat /\ Codec!Base64(f.data) \in {Codec!Base64(f.data), [Codec!Base64(f.data) EXCEPT !.canonical = FALSE]}
  BY DEF IsFrame
<1>3. \E d \in Nat : Codec!Base64(f.data) \in {Codec!Base64(d), [Codec!Base64(d) EXCEPT !.canonical = FALSE]}
  BY <1>2
<1> DEFINE t == Codec!Text(f)
<1>4. /\ t.type = f.type /\ t.json = f.json /\ t.large = f.large /\ t.field = f.field
      /\ t.data = Codec!Base64(f.data) /\ t.extra = 0
  BY TextIs
<1> HIDE DEF t
<1>5. \E d \in Nat : t.data \in {Codec!Base64(d), [Codec!Base64(d) EXCEPT !.canonical = FALSE]}
  BY <1>3, <1>4
<1>6. /\ t.type \in Codec!Types \cup {"later"} /\ t.extra \in Nat /\ t.large \in BOOLEAN
      /\ DOMAIN t.field = Codec!FieldsOf(t.type)
  BY <1>1, <1>4 DEF IsFrame
<1>7. DOMAIN t.json = Codec!JsonOf(t.type) /\ \A name \in Codec!JsonOf(t.type) : t.json[name] \in JsonRecord
  BY <1>4 DEF IsFrame
<1> QED
  BY <1>5, <1>6, <1>7 DEF IsText, t

\* What may be written may be read, but for a command and its result.
LEMMA WrittenParses ==
  ASSUME NEW f, IsFrame(f), Codec!encode(f), f.type \notin Limited
  PROVE  Codec!Parses(Codec!Text(f))
<1> DEFINE t == Codec!Text(f)
<1>1. /\ Codec!validate(f) /\ f.type \in Codec!Types
      /\ t.json = f.json /\ t.type = f.type /\ t.extra = 0 /\ t.twice = FALSE
  BY TextIs DEF Codec!encode, Codec!validate
<1>2. IsText(t)
  BY TextOfAFrame
<1>3. CASE Codec!JsonOf(f.type) = {}
  <2>1. Codec!Tokens(t) <= MaxTokens
    BY <1>1, <1>2, <1>3, TokensAre, CodecAssumed
  <2>2. DOMAIN t.json = {}
    BY <1>1, <1>3 DEF IsFrame
  <2> HIDE DEF t
  <2> QED
    BY <1>1, <2>1, <2>2 DEF Codec!Parses, t
<1>4. CASE f.type = "telemetry"
  <2>1. Codec!JsonOf(f.type) = {"payload", "capabilities"} /\ Codec!FieldsOf(f.type) = {}
    BY <1>4 DEF Codec!JsonOf, Codec!FieldsOf, Codec!Results, Codec!Chunks
  <2> DEFINE P == f.json["payload"]
             C == f.json["capabilities"]
  <2>2. P \in JsonRecord /\ C \in JsonRecord /\ DOMAIN f.json = {"payload", "capabilities"}
    BY <2>1 DEF IsFrame
  <2>3. Codec!Cloned(P, 2, 6) /\ Codec!Cloned(C, 2, 6 + P.tokens)
    BY <1>1, <1>4, <2>1 DEF Codec!validate, Codec!JsonAccepted
  <2>4. P.names = "good" /\ C.names = "good" /\ 1 + P.depth <= MaxDepth /\ 1 + C.depth <= MaxDepth
        /\ 6 + P.tokens + C.tokens <= MaxTokens
    <3>1. P.depth \in Nat /\ C.depth \in Nat /\ P.tokens \in Nat /\ C.tokens \in Nat
      BY <2>2 DEF JsonRecord
    <3> HIDE DEF P, C
    <3> QED
      BY <2>3, <3>1, CodecAssumed DEF Codec!Cloned
  <2>5. Codec!Tokens(t) <= 6 + P.tokens + C.tokens
    <3> DEFINE card == Codec!Cardinality({name \in DOMAIN t.field : t.field[name] # "absent"})
    <3>1. card = 0
      <4>1. {name \in DOMAIN t.field : t.field[name] # "absent"} = {}
        BY <1>1, <1>2, <2>1 DEF IsText
      <4>2. Codec!Cardinality({}) = Cardinality({})
        BY DEF Codec!Cardinality, Cardinality
      <4> QED
        BY <4>1, <4>2, FS_EmptySet
    <3>2. P.tokens \in Nat /\ C.tokens \in Nat
      BY <2>2 DEF JsonRecord
    <3>3. /\ Codec!Member(t, "payload") \in {0, 1 + P.tokens}
          /\ Codec!Member(t, "capabilities") \in {0, 1 + C.tokens}
          /\ Codec!Member(t, "fields") = 0 /\ Codec!Member(t, "result") = 0
      BY <1>1, <2>2 DEF Codec!Member
    <3>4. t.type \notin Codec!Chunks
      BY <1>1, <1>4 DEF Codec!Chunks
    <3>5. Codec!Tokens(t) = 4 + 2 * card + Codec!Member(t, "payload") + Codec!Member(t, "capabilities")
                            + Codec!Member(t, "fields") + Codec!Member(t, "result") + 0 + 0
      BY <1>1, <3>4 DEF Codec!Tokens
    <3> HIDE DEF card, t, P, C
    <3> QED
      BY <3>1, <3>2, <3>3, <3>5
  <2>6. Codec!Tokens(t) \in Nat /\ P.tokens \in Nat /\ C.tokens \in Nat
    BY <1>1, <1>2, <2>2, TokensAre DEF JsonRecord
  <2>7. Codec!Tokens(t) <= MaxTokens
    <3> HIDE DEF t, P, C
    <3> QED
      BY <2>4, <2>5, <2>6, CodecAssumed
  <2>8. \A name \in DOMAIN t.json : t.json[name].names = "good" /\ 1 + t.json[name].depth <= MaxDepth
    BY <1>1, <2>2, <2>4
  <2> QED
    <3> HIDE DEF t
    <3>1. /\ ~t.twice /\ \A name \in DOMAIN t.json : t.json[name].names = "good"
          /\ \A name \in DOMAIN t.json : 1 + t.json[name].depth <= MaxDepth
      BY <1>1, <2>8
    <3> QED
      BY <3>1, <2>7 DEF Codec!Parses, t
<1>5. Codec!JsonOf(f.type) = {} \/ f.type = "telemetry"
  BY DEF Codec!JsonOf, Limited
<1> QED
  BY <1>3, <1>4, <1>5

\* What was read may be written, and read again unless it is a result that came without its detail.
LEMMA ReadIsWritten ==
  ASSUME NEW t, IsText(t), Codec!decode(t) = "decoded"
  PROVE  LET f == Codec!Candidate(t) IN
         /\ IsFrame(f) /\ Codec!encode(f)
         /\ f.type # "command-result" => Codec!Parses(Codec!Text(f))
<1> DEFINE f == Codec!Candidate(t)
           read == [name \in Codec!FieldsOf(t.type) |->
                      IF t.type \in Codec!Results /\ name = "detail" /\ t.field[name] = "absent"
                      THEN "good" ELSE t.field[name]]
<1>1. t.large = FALSE /\ Codec!Parses(t) /\ Codec!validate(f)
  BY DEF Codec!decode, IsText
<1>2. /\ f.type = t.type /\ f.json = t.json /\ f.events = t.events /\ f.large = t.large
      /\ f.data = Codec!Bytes(t.data) /\ f.field = read /\ f = Same(f)
  BY DEF Codec!Candidate, Same
<1>3. Codec!encode(f)
  BY <1>1, <1>2 DEF Codec!encode
<1>4. f.data \in Nat
  <2>1. PICK d \in Nat : t.data \in {Codec!Base64(d), [Codec!Base64(d) EXCEPT !.canonical = FALSE]}
    BY DEF IsText
  <2>2. Codec!Bytes(t.data) = d
    BY <2>1, BytesComeBack
  <2> QED
    BY <1>2, <2>2
<1>5. f.field = [name \in Codec!FieldsOf(f.type) |-> f.field[name]]
  <2>1. read = [name \in Codec!FieldsOf(t.type) |-> read[name]]
    OBVIOUS
  <2> HIDE DEF f, read
  <2> QED
    BY <1>2, <2>1
<1> HIDE DEF f
<1>6. IsFrame(f)
  BY <1>2, <1>4, <1>5 DEF IsFrame, IsText
<1>7. ASSUME f.type = "command" PROVE Codec!Parses(Codec!Text(f))
  <2> DEFINE again == Codec!Text(f)
             C1 == Codec!Cardinality({name \in DOMAIN t.field : t.field[name] # "absent"})
             C2 == Codec!Cardinality({name \in DOMAIN again.field : again.field[name] # "absent"})
  <2>1. again.json = t.json /\ again.type = t.type /\ again.extra = 0 /\ again.twice = FALSE /\ again.field = read
    BY <1>2, TextIs
  <2>2. \A name \in Codec!FieldsOf(t.type) : read[name] = t.field[name]
    BY <1>2, <1>7 DEF Codec!Results
  <2>3. DOMAIN again.field = DOMAIN t.field
    BY <2>1 DEF IsText
  <2> HIDE DEF again, read
  <2>4. {name \in DOMAIN again.field : again.field[name] # "absent"}
          = {name \in DOMAIN t.field : t.field[name] # "absent"}
    BY <2>1, <2>2, <2>3 DEF IsText
  <2>5. C1 = C2
    BY <2>4
  <2>6. \A name : Codec!Member(again, name) = Codec!Member(t, name)
    BY <2>1 DEF Codec!Member
  <2>7. IsText(again)
    BY <1>6, TextOfAFrame DEF again
  <2>8. t.type \in Codec!Types
    BY <1>2, <1>7 DEF Codec!Types
  <2>9. /\ Codec!Tokens(t) = 4 + 2 * C1 + Codec!Member(t, "payload") + Codec!Member(t, "capabilities")
                             + Codec!Member(t, "fields") + Codec!Member(t, "result")
                             + (IF t.type \in Codec!Chunks THEN 2 ELSE 0) + t.extra
        /\ Codec!Tokens(again) = 4 + 2 * C2 + Codec!Member(again, "payload") + Codec!Member(again, "capabilities")
                             + Codec!Member(again, "fields") + Codec!Member(again, "result")
                             + (IF again.type \in Codec!Chunks THEN 2 ELSE 0) + again.extra
    BY DEF Codec!Tokens
  <2>10. C1 \in Nat /\ t.extra \in Nat /\ \A name : Codec!Member(t, name) \in Nat
    <3>1. C1 \in 0..5
      BY <2>8, FieldsAreFew DEF IsText
    <3> QED
      BY <2>8, <3>1, TokensAre DEF IsText
  <2> HIDE DEF C1, C2
  <2>11. Codec!Tokens(again) <= Codec!Tokens(t) /\ Codec!Tokens(again) \in Nat /\ Codec!Tokens(t) \in Nat
    BY <2>1, <2>5, <2>6, <2>9, <2>10
  <2>12. Codec!Tokens(again) <= MaxTokens
    BY <1>1, <2>11, CodecAssumed DEF Codec!Parses
  <2> QED
    BY <1>1, <2>1, <2>12 DEF Codec!Parses, again
<1>8. f.type \notin Limited => Codec!Parses(Codec!Text(f))
  BY <1>3, <1>6, WrittenParses
<1> QED
  BY <1>3, <1>6, <1>7, <1>8 DEF f, Limited

\* What came off the wire may be written, and read again but for a result without its detail.
Forwardable(f) == Codec!encode(f) /\ (f.type # "command-result" => Codec!Parses(Codec!Text(f)))

\* The text a frame was written into is still at hand, so that what it is read as can be told.
CodecInv ==
  /\ forwarded \in BOOLEAN
  /\ stage \in {"composed", "arrived", "written", "refused", "decoded", "ignored", "rejected"}
  /\ stage = "composed" => IsFrame(frame) /\ composed = Codec!NoFrame /\ (forwarded => Forwardable(frame))
  /\ stage = "arrived" => IsText(text)
  /\ stage \in {"arrived", "refused", "ignored"} => composed = Codec!NoFrame /\ ~forwarded
  /\ stage = "written" => composed # Codec!NoFrame
  /\ stage \in {"decoded", "rejected"} /\ composed = Codec!NoFrame => ~forwarded
  /\ stage = "decoded" /\ composed = Codec!NoFrame => IsFrame(frame) /\ Forwardable(frame)
  /\ composed # Codec!NoFrame =>
       /\ IsFrame(composed) /\ Codec!encode(composed) /\ text = Codec!Text(composed)
       /\ forwarded => Forwardable(composed)
       /\ stage = "decoded" => frame = composed
       /\ stage = "rejected" => ~Codec!Parses(text)

LEMMA FramesSurvived == CodecInv => Codec!FramesSurvive
<1> SUFFICES ASSUME CodecInv PROVE Codec!FramesSurvive
  OBVIOUS
<1>1. ASSUME composed # Codec!NoFrame, stage \notin {"written", "composed"}
      PROVE  \/ stage = "decoded" /\ frame = composed
             \/ composed.type \in {"command", "command-result"} /\ ~Codec!Parses(text)
  <2>1. (stage = "decoded" /\ frame = composed) \/ (stage = "rejected" /\ ~Codec!Parses(text))
    BY <1>1 DEF CodecInv
  <2>2. IsFrame(composed) /\ Codec!encode(composed) /\ text = Codec!Text(composed)
    BY <1>1 DEF CodecInv
  <2>3. composed.type \notin Limited => Codec!Parses(text)
    BY <2>2, WrittenParses
  <2> QED
    BY <2>1, <2>3 DEF Limited
<1>2. forwarded => stage # "refused"
  BY DEF CodecInv
<1>3. ASSUME forwarded, composed # Codec!NoFrame, composed.type # "command-result"
      PROVE  stage \in {"written", "decoded"}
  <2>1. Codec!Parses(text)
    BY <1>3 DEF CodecInv, Forwardable
  <2> QED
    BY <1>3, <2>1 DEF CodecInv
<1> QED
  BY <1>1, <1>2, <1>3 DEF Codec!FramesSurvive

LEMMA MadeAreFrames ==
  ASSUME NEW type \in Codec!Types \cup {"later"}, NEW field \in Codec!FieldValues(type),
         NEW json \in [Codec!JsonOf(type) -> Codec!Carried(type)], NEW events,
         NEW large \in BOOLEAN, NEW data \in Nat
  PROVE  IsFrame([type |-> type, field |-> field, json |-> json, events |-> events,
                  data |-> data, large |-> large])
<1> DEFINE made == [type |-> type, field |-> field, json |-> json, events |-> events,
                    data |-> data, large |-> large]
<1>1. made.type = type /\ made.field = field /\ made.json = json /\ made.data = data /\ made.large = large
      /\ made = Same(made)
  BY DEF Same
<1>2. field = [name \in Codec!FieldsOf(type) |-> field[name]]
  BY DEF Codec!FieldValues
<1>3. Codec!Carried(type) \subseteq JsonRecord
  <2>1. Codec!Json \subseteq JsonRecord
    <3>1. ASSUME NEW j \in Codec!Json PROVE j \in JsonRecord
      <4>1. /\ j = [object |-> j.object, depth |-> j.depth, tokens |-> j.tokens, names |-> j.names]
            /\ j.object \in {TRUE} /\ j.depth \in 1..(MaxDepth + 1) /\ j.tokens \in Counts
            /\ j.names \in {"good", "bad"}
        BY <3>1 DEF Codec!Json
      <4>2. j.depth \in Nat /\ j.tokens \in Nat
        BY <4>1, CodecAssumed
      <4>3. j.object \in BOOLEAN
        BY <4>1, Zenon
      <4> QED
        BY <4>1, <4>2, <4>3 DEF JsonRecord
    <3> QED
      BY <3>1
  <2>2. Codec!Scalar \in JsonRecord /\ Codec!NoJson \in JsonRecord
    BY DEF Codec!Scalar, Codec!NoJson, JsonRecord
  <2> QED
    BY <2>1, <2>2 DEF Codec!Carried
<1>4. DOMAIN json = Codec!JsonOf(type) /\ \A name \in Codec!JsonOf(type) : json[name] \in JsonRecord
  BY <1>3
<1> HIDE DEF made
<1>5. IsFrame(made)
  BY <1>1, <1>2, <1>4 DEF IsFrame
<1> QED
  BY <1>5 DEF made

LEMMA CodecBegins == Codec!CodecInit => CodecInv
<1> SUFFICES ASSUME Codec!CodecInit PROVE CodecInv
  OBVIOUS
<1>1. PICK type \in Codec!Types \cup {"later"} :
      \E field \in Codec!FieldValues(type), json \in [Codec!JsonOf(type) -> Codec!Carried(type)],
         events \in Codec!EventValues(type),
         large \in (IF Codec!JsonOf(type) = {} THEN {FALSE} ELSE BOOLEAN),
         data \in (IF type \in Codec!Chunks THEN 0..(MaxChunk + 1) ELSE {0}) :
        LET made == [type |-> type, field |-> field, json |-> json, events |-> events,
                     data |-> data, large |-> large]
        IN \/ stage = "composed" /\ text = Codec!NoFrame /\ frame = made
           \/ /\ stage = "arrived" /\ frame = Codec!NoFrame
              /\ \E extra \in {0, MaxExtra}, twice \in BOOLEAN, canonical \in BOOLEAN :
                   /\ type \notin Codec!Chunks => canonical
                   /\ text = [Codec!Text(made) EXCEPT !.extra = extra, !.twice = twice,
                                                      !.data.canonical = canonical]
  BY DEF Codec!CodecInit
<1>2. composed = Codec!NoFrame /\ forwarded = FALSE
  BY DEF Codec!CodecInit
<1>3. PICK field \in Codec!FieldValues(type), json \in [Codec!JsonOf(type) -> Codec!Carried(type)],
           events \in Codec!EventValues(type),
           large \in (IF Codec!JsonOf(type) = {} THEN {FALSE} ELSE BOOLEAN),
           data \in (IF type \in Codec!Chunks THEN 0..(MaxChunk + 1) ELSE {0}) :
        LET made == [type |-> type, field |-> field, json |-> json, events |-> events,
                     data |-> data, large |-> large]
        IN \/ stage = "composed" /\ text = Codec!NoFrame /\ frame = made
           \/ /\ stage = "arrived" /\ frame = Codec!NoFrame
              /\ \E extra \in {0, MaxExtra}, twice \in BOOLEAN, canonical \in BOOLEAN :
                   /\ type \notin Codec!Chunks => canonical
                   /\ text = [Codec!Text(made) EXCEPT !.extra = extra, !.twice = twice,
                                                      !.data.canonical = canonical]
  BY <1>1
<1> DEFINE made == [type |-> type, field |-> field, json |-> json, events |-> events,
                    data |-> data, large |-> large]
<1>4. IsFrame(made)
  <2>1. large \in BOOLEAN
    BY Zenon
  <2>2. data \in 0..(MaxChunk + 1) \/ data = 0
    BY Zenon
  <2>3. data \in Nat
    BY <2>2, CodecAssumed
  <2> QED
    BY <2>1, <2>3, MadeAreFrames
<1> HIDE DEF made
<1>5. CASE stage = "composed" /\ frame = made
  BY <1>2, <1>4, <1>5 DEF CodecInv
<1>6. ASSUME stage = "arrived", NEW extra \in {0, MaxExtra}, NEW twice \in BOOLEAN, NEW canonical \in BOOLEAN,
             text = [Codec!Text(made) EXCEPT !.extra = extra, !.twice = twice,
                                             !.data.canonical = canonical]
      PROVE  CodecInv
  <2> DEFINE t == Codec!Text(made)
  <2>1. IsText(t)
    BY <1>4, TextOfAFrame
  <2>2. t = [type |-> made.type, json |-> made.json, events |-> made.events, large |-> made.large,
             field |-> made.field, data |-> Codec!Base64(made.data), extra |-> 0, twice |-> FALSE]
    BY DEF Codec!Text
  <2>3. /\ text.type = t.type /\ text.json = t.json /\ text.large = t.large /\ text.field = t.field
        /\ text.extra = extra /\ text.data = [t.data EXCEPT !.canonical = canonical]
    BY <1>6, <2>2
  <2>4. made.data \in Nat /\ t.data = Codec!Base64(made.data)
    BY <1>4, <2>2 DEF IsFrame
  <2>5. [Codec!Base64(made.data) EXCEPT !.canonical = TRUE] = Codec!Base64(made.data)
    <3>1. \A c, g, x : [[chars |-> c, padding |-> g, canonical |-> x] EXCEPT !.canonical = x]
                         = [chars |-> c, padding |-> g, canonical |-> x]
      OBVIOUS
    <3> QED
      BY <3>1 DEF Codec!Base64
  <2> HIDE DEF t
  <2>6. text.data \in {Codec!Base64(made.data), [Codec!Base64(made.data) EXCEPT !.canonical = FALSE]}
    BY <2>3, <2>4, <2>5
  <2>7. IsText(text)
    <3>1. \E d \in Nat : text.data \in {Codec!Base64(d), [Codec!Base64(d) EXCEPT !.canonical = FALSE]}
      BY <2>4, <2>6
    <3>2. text.extra \in Nat
      BY <2>3, CodecAssumed
    <3> QED
      BY <2>1, <2>3, <3>1, <3>2 DEF IsText
  <2> QED
    BY <1>2, <1>6, <2>7 DEF CodecInv
<1> QED
  BY <1>3, <1>5, <1>6 DEF made

LEMMA CodecStep == ASSUME CodecInv, Codec!CodecNext PROVE CodecInv'
<1>1. CASE Codec!Encode
  <2>1. stage = "composed" /\ IsFrame(frame) /\ composed = Codec!NoFrame /\ UNCHANGED <<frame, forwarded>>
        /\ forwarded \in BOOLEAN /\ (forwarded => Forwardable(frame))
    BY <1>1 DEF Codec!Encode, CodecInv
  <2>2. CASE Codec!encode(frame)
    <3>1. stage' = "written" /\ text' = Codec!Text(frame) /\ composed' = frame
      BY <1>1, <2>2 DEF Codec!Encode
    <3>2. frame # Codec!NoFrame
      <4>1. Codec!NoFrame.type = "none"
        BY DEF Codec!NoFrame
      <4>2. frame.type \in Codec!Types
        BY <2>2 DEF Codec!encode, Codec!validate
      <4> QED
        BY <4>1, <4>2 DEF Codec!Types, Codec!Results, Codec!Chunks
    <3> QED
      BY <2>1, <2>2, <3>1, <3>2 DEF CodecInv
  <2>3. CASE ~Codec!encode(frame)
    <3>1. stage' = "refused" /\ UNCHANGED <<text, composed>> /\ ~forwarded
      BY <1>1, <2>1, <2>3 DEF Codec!Encode, Forwardable
    <3> QED
      BY <2>1, <3>1 DEF CodecInv
  <2> QED
    BY <2>2, <2>3
<1>2. CASE Codec!Decode
  <2>1. /\ stage' = Codec!decode(text) /\ UNCHANGED <<text, composed, forwarded>>
        /\ stage' = "decoded" => frame' = Codec!Candidate(text)
    BY <1>2 DEF Codec!Decode
  <2>2. stage' \in {"decoded", "ignored", "rejected"}
    BY <2>1 DEF Codec!decode
  <2>3. CASE stage = "arrived"
    <3>1. IsText(text) /\ composed = Codec!NoFrame /\ ~forwarded
      BY <2>3 DEF CodecInv
    <3>2. stage' = "decoded" => IsFrame(frame') /\ Forwardable(frame')
      BY <2>1, <3>1, ReadIsWritten DEF Forwardable
    <3> QED
      BY <2>1, <2>2, <3>1, <3>2 DEF CodecInv
  <2>4. CASE stage = "written"
    <3>1. /\ composed # Codec!NoFrame /\ IsFrame(composed) /\ Codec!encode(composed)
          /\ text = Codec!Text(composed) /\ (forwarded => Forwardable(composed)) /\ forwarded \in BOOLEAN
      BY <2>4 DEF CodecInv
    <3>2. stage' = IF Codec!Parses(text) THEN "decoded" ELSE "rejected"
      BY <2>1, <3>1, WrittenIsDecoded
    <3>3. stage' = "decoded" => frame' = composed
      BY <2>1, <3>1, CandidateIs
    <3> QED
      BY <2>1, <3>1, <3>2, <3>3 DEF CodecInv
  <2> QED
    BY <1>2, <2>3, <2>4 DEF Codec!Decode
<1>3. CASE Codec!Forward
  BY <1>3 DEF Codec!Forward, CodecInv
<1> QED
  BY <1>1, <1>2, <1>3 DEF Codec!CodecNext

LEMMA FramesAlwaysSurvive == Spec => []Codec!FramesSurvive
<1>1. Init => CodecInv
  <2>1. Init => Codec!CodecInit \/ (stage = "rejected" /\ composed = Codec!NoFrame /\ forwarded = FALSE)
    BY DEF Init, PartsInit
  <2> QED
    BY <2>1, CodecBegins DEF CodecInv
<1>2. [Next]_consoleRunVars => Codec!CodecNext \/ UNCHANGED codec
  BY DEF Next, consoleRunVars
<1>3. CodecInv /\ UNCHANGED codec => CodecInv'
  BY DEF CodecInv, codec
<1>4. CodecInv /\ [Next]_consoleRunVars => CodecInv'
  BY <1>2, <1>3, CodecStep
<1> QED
  BY <1>1, <1>4, FramesSurvived, PTL DEF Spec

\* Settings, answers, frames, what the map draws and what the journal says are what was meant,
\* in every state: relay-device-settings, the settings files of the desktop, protocol-core, the
\* desks of operator-console and handset-incident-writer.
THEOREM WhatIsMeantIsAlwaysKept == Spec => []KeptAsMeant
<1>1. (part \in DeskParts => DesksHold)
      => (part \in {"desk", "plan", "map"} => Desk!WhatIsSaidIsDrawn)
  BY DEF DeskParts, DesksHold
<1>2. /\ Settings!SavedComesBack /\ (part = "panel" => Settings!AnswersKeepToTheirDomain)
      /\ Codec!FramesSurvive /\ Watch!JournalTellsWhatHappened
      /\ (part \in {"desk", "plan", "map"} => Desk!WhatIsSaidIsDrawn)
      => KeptAsMeant
  BY DEF KeptAsMeant
<1> QED
  BY <1>1, <1>2, SavesAlwaysComeBack, PanelAlwaysAnswers, FramesAlwaysSurvive, JournalAlwaysTells,
     DesksAlwaysHold, PTL
=============================================================================
