----------------------------- MODULE RouteDesk -----------------------------
(***************************************************************************)
(* Where routes are picked, planned and drawn: route-workspace over the    *)
(* catalog of RouteCatalog, plan-workspace over the orbit planner, and     *)
(* geo-map over map-engine-adapter.  Each of them tells its view what it   *)
(* believes the map shows while it calls a map that may throw, and may     *)
(* throw after it has drawn.                                               *)
(***************************************************************************)
EXTENDS RouteCatalog

VARIABLES
  desk,           \* the snapshot of route-workspace: phase, routes, selected route, notice
  pickers,        \* importFromPicker() under way, by slot of its import: what it awaits
  previewed,      \* the route whose preview the map shows, 0 for none
  deskBehind,     \* whether the last attempt to follow the catalog failed (for the properties)
  draft,          \* plan-workspace: center, edge and parameters as they are edited
  plan,           \* the draft the workspace's plan was built from, or NoPlan
  drawn,          \* the plan the map shows
  planBehind,     \* whether the last call for the plan's layer threw (for the properties)
  map             \* geo-map and its engine: phase, layers, basemap, city model
deskVars == <<desk, pickers, previewed, deskBehind>>
planVars == <<draft, plan, drawn, planBehind>>
mapVars == <<map>>
routeDeskVars == <<catalogVars, deskVars, planVars, mapVars>>

Point == {"here", "near", "far away"}
Altitude == {80, 500}
NoPlan == [center |-> "none", edge |-> "none", altitude |-> 0]

RouteDeskInit ==
  /\ CatalogInit
  /\ desk = [phase |-> "ready", routes |-> {}, selected |-> NoRoute, notice |-> "none"]
  /\ pickers = [i \in 1..MaxIngests |-> "none"]
  /\ previewed = NoRoute
  /\ deskBehind = FALSE
  /\ draft = [center |-> "none", edge |-> "none", altitude |-> 80]
  /\ plan = NoPlan /\ drawn = NoPlan
  /\ planBehind = FALSE
  /\ map = [phase |-> "new", layers |-> {}, basemap |-> "none", model |-> "none"]

-----------------------------------------------------------------------------
(* route-workspace.  Its operations run over the catalog as it has become: *)
(* the phase refuses a click, and stops nothing that awaits already.       *)

FailedSync ==
  /\ desk' = [desk EXCEPT !.phase = "ready", !.notice = "ADAPTER_FAILED"]
  /\ previewed' \in {previewed, selected'}
  /\ deskBehind' = TRUE

RoutesOnly ==   \* mutant: the list is taken over, the preview is not
  /\ desk' = [desk EXCEPT !.phase = "ready", !.routes = {r.id : r \in ToSet(routes')}]
  /\ UNCHANGED <<previewed, deskBehind>>

Synced ==
  /\ desk' = [phase |-> "ready", routes |-> {r.id : r \in ToSet(routes')}, selected |-> selected', notice |-> "none"]
  /\ previewed' = selected'
  /\ deskBehind' = FALSE

\* syncLibrary() with what follows it.
SyncLibrary == Synced \/ FailedSync

Notice(notice) ==
  /\ desk' = [desk EXCEPT !.phase = "ready", !.notice = notice]
  /\ UNCHANGED <<previewed, deskBehind, catalogVars>>

Deciding == desk.phase = "ready" /\ UNCHANGED <<pickers, planVars, mapVars>>

\* importFromPicker() goes on from one await to the next, whatever the phase is by then.
GoesOn(i, from, to) ==
  /\ pickers[i] = from
  /\ pickers' = [pickers EXCEPT ![i] = to]
  /\ UNCHANGED <<planVars, mapVars>>

OpenPicker(i) ==
  /\ desk.phase = "ready"
  /\ GoesOn(i, "none", "picking")
  /\ desk' = [desk EXCEPT !.phase = "picking", !.notice = "none"]
  /\ UNCHANGED <<previewed, deskBehind, catalogVars>>

NothingPicked(i) ==
  /\ GoesOn(i, "picking", "none")
  /\ Notice("none") \/ Notice("ADAPTER_FAILED")

FilePicked(i) ==
  /\ GoesOn(i, "picking", "importing")
  /\ \E content \in Content : Ingest(i, content)
  /\ desk' = [desk EXCEPT !.phase = "importing"]
  /\ UNCHANGED <<previewed, deskBehind>>

ImportSucceeds(i) == GoesOn(i, "importing", "none") /\ IngestEnds(i) /\ SyncLibrary

ImportFails(i) ==
  /\ GoesOn(i, "importing", "none")
  /\ IngestFails(i)
  /\ \E notice \in {"REJECTED", "ADAPTER_FAILED"} : desk' = [desk EXCEPT !.phase = "ready", !.notice = notice]
  /\ UNCHANGED <<previewed, deskBehind>>

\* A click on a route: the catalog first, which may not have the route any more.
OfRoute(operation(_)) ==
  /\ Deciding
  /\ \E id \in RouteId : IF id \in Ids THEN operation(id) /\ SyncLibrary ELSE Notice("ROUTE_NOT_FOUND")

SelectRoute == OfRoute(SelectInCatalog)
RemoveRoute == OfRoute(RemoveFromCatalog)

\* locateSelected() draws nothing; only its failure is told, in any phase, and makes the
\* desk ready: a click, also one for a second import, is then taken beside the first.
LocateFails ==
  /\ desk.selected # NoRoute
  /\ Notice("ADAPTER_FAILED")
  /\ UNCHANGED <<pickers, planVars, mapVars>>

-----------------------------------------------------------------------------
(* plan-workspace. *)

Drafting == UNCHANGED <<catalogVars, deskVars, mapVars>>

SetPoint ==
  /\ Drafting
  /\ \E end \in {"center", "edge"}, p \in Point : draft' = [draft EXCEPT ![end] = p]
  /\ UNCHANGED <<plan, drawn, planBehind>>

SetParameters ==
  /\ Drafting
  /\ \E altitude \in Altitude : draft' = [draft EXCEPT !.altitude = altitude]
  /\ UNCHANGED <<plan, drawn, planBehind>>

\* planOrbit(): the radius is at least a meter and at most two thousand.
Plannable ==
  /\ draft.center # "none" /\ draft.edge # "none"
  /\ draft.center # draft.edge
  /\ "far away" \notin {draft.center, draft.edge}

Shown(next) == drawn' = next /\ planBehind' = FALSE
Unsure(next) == drawn' \in {drawn, next} /\ planBehind' = TRUE

\* A plan that cannot be made leaves the one there is, and the map as it is.
BuildOrbit ==
  /\ Drafting
  /\ Plannable
  /\ plan' = draft
  /\ Shown(draft) \/ Unsure(draft)
  /\ UNCHANGED draft

ClearPlan ==
  /\ Drafting
  /\ plan' = NoPlan
  /\ Shown(NoPlan) \/ Unsure(NoPlan)
  /\ UNCHANGED draft

-----------------------------------------------------------------------------
(* geo-map. *)

Mapping == UNCHANGED <<catalogVars, deskVars, planVars>>
Layer == {"basemap", "city-model"}

InitializeMap ==
  /\ Mapping
  /\ map.phase = "new"
  /\ map' = [map EXCEPT !.phase = "ready"]

\* replaceLayer(); a scene that throws leaves what is believed of it as it was.
Draw(believed) ==
  /\ Mapping
  /\ map.phase = "ready"
  /\ map' = believed

ApplyBasemap ==
  \E kind \in {"tianditu-vector", "tianditu-image"} :
     Draw([map EXCEPT !.layers = @ \cup {"basemap"}, !.basemap = kind])

ShowCityModel ==
  Draw([map EXCEPT !.layers = @ \cup {"city-model"}, !.model = "hangzhou"])

HideCityModel ==
  /\ Mapping
  /\ map.phase = "ready"
  /\ map' = [map EXCEPT !.layers = @ \ {"city-model"}, !.model = "none"]

DisposeMap ==
  /\ Mapping
  /\ map.phase # "disposed"
  /\ map' = [phase |-> "disposed", layers |-> {}, basemap |-> "none", model |-> "none"]

DeskNext ==
  \/ \E i \in 1..MaxIngests :
       OpenPicker(i) \/ NothingPicked(i) \/ FilePicked(i) \/ ImportSucceeds(i) \/ ImportFails(i)
  \/ SelectRoute \/ RemoveRoute \/ LocateFails

PlanNext == SetPoint \/ SetParameters \/ BuildOrbit \/ ClearPlan

GeoMapNext == InitializeMap \/ ApplyBasemap \/ ShowCityModel \/ HideCityModel \/ DisposeMap

-----------------------------------------------------------------------------
RouteDeskTypeOK ==
  /\ CatalogTypeOK
  /\ desk.phase \in {"ready", "picking", "importing"}
  /\ pickers \in [1..MaxIngests -> {"none", "picking", "importing"}]
  /\ desk.routes \subseteq RouteId /\ {desk.selected, previewed} \subseteq RouteId \cup {NoRoute}
  /\ map.phase \in {"new", "ready", "disposed"}
  /\ map.layers \subseteq Layer

(* What the desk says is drawn is drawn.  Through imports that await and overlap, clicks on routes
   that are gone and maps that throw, the desk lists the catalog's routes and the map previews its selection
   from every sync that went through to the next that did not; the map shows the plan of the plan
   workspace in the same sense, and a map the adapter calls ready has the basemap and the model it
   names.  (route-workspace syncLibrary, plan-workspace buildOrbit, geo-map.) *)
DeskShowsTheCatalog ==
  ~deskBehind => desk.routes = Ids /\ desk.selected = selected /\ previewed = selected

PlanIsDrawn == ~planBehind => drawn = plan

MapFactsAgree ==
  /\ "basemap" \in map.layers <=> map.basemap # "none"
  /\ "city-model" \in map.layers <=> map.model # "none"

WhatIsSaidIsDrawn == DeskShowsTheCatalog /\ PlanIsDrawn /\ MapFactsAgree

\* route-workspace/CONTRACT.md: "进行中再次导入返回 `busy`，不得调用端口" - while an import is under way
\* a second one is refused.
OneImportAtATime == \A i, j \in 1..MaxIngests : "none" \notin {pickers[i], pickers[j]} => i = j
=============================================================================
