------------------------------- MODULE Workflow -------------------------------
(***************************************************************************)
(* What the operation workflow (src/production/operation-workflow) keeps of *)
(* a phone over the life of its session: the route assigned to it, with the *)
(* grace period that outlasts a short loss, and the video selected.  Its   *)
(* routes are those of RouteCatalog; the lanes of a phone are DeviceLanes.  *)
(***************************************************************************)
EXTENDS RouteCatalog

CONSTANTS
  Device,         \* phones
  NoDevice,
  MaxEpochs       \* grace periods of a phone that run out: a bound of the model

WorkflowAssumption == NoDevice \notin Device /\ MaxEpochs \in Nat

VARIABLES
  present,        \* phones the relay has, and previousOnline: they change together
  assignments,    \* the route assigned, NoRoute without
  grace,          \* reconnectGrace: phones whose timer runs
  epochs,         \* connectionEpochs
  missions,       \* external: the route of the mission lane, NoRoute when it is stable
  selectedRoute,  \* selectedRouteId of the workflow
  selectedVideo,  \* selectedVideoDeviceId
  ready           \* external: phones whose media stream is ready
phoneVars == <<present, assignments, grace, epochs, missions, selectedVideo, ready>>
workflowVars == <<catalogVars, phoneVars, selectedRoute>>

WorkflowTypeOK ==
  /\ CatalogTypeOK
  /\ present \in SUBSET Device
  /\ assignments \in [Device -> RouteId \cup {NoRoute}]
  /\ grace \in SUBSET Device
  /\ epochs \in [Device -> 0..MaxEpochs]
  /\ missions \in [Device -> RouteId \cup {NoRoute}]
  /\ selectedRoute \in RouteId \cup {NoRoute}
  /\ selectedVideo \in Device \cup {NoDevice}
  /\ ready \in SUBSET Device

WorkflowInit ==
  /\ CatalogInit
  /\ present = {}
  /\ assignments = [d \in Device |-> NoRoute]
  /\ grace = {}
  /\ epochs = [d \in Device |-> 0]
  /\ missions = [d \in Device |-> NoRoute]
  /\ selectedRoute = NoRoute
  /\ selectedVideo = NoDevice
  /\ ready = {}

-----------------------------------------------------------------------------
\* Routes.  An import selects its route in the catalog; the workflow's own
\* selection follows when the page asks for it (route-select).

Imports ==
  /\ \E i \in 1..MaxIngests :
       \/ \E content \in Content : Ingest(i, content)
       \/ CancelIngest(i) \/ IngestFails(i) \/ IngestEnds(i)
  /\ UNCHANGED <<phoneVars, selectedRoute>>

SelectRoute(id) ==
  /\ SelectInCatalog(id)
  /\ selectedRoute' = id
  /\ UNCHANGED phoneVars

RoutesInUse == {assignments[d] : d \in Device}

\* mutant: only the phones that are there keep their route.
RemoveRouteOfTheAbsent(id) ==
  /\ \A d \in present : assignments[d] # id
  /\ RemoveFromCatalog(id)
  /\ selectedRoute' = IF selectedRoute = id THEN selected' ELSE selectedRoute
  /\ UNCHANGED phoneVars

RemoveRoute(id) ==
  /\ id \notin RoutesInUse
  /\ RemoveFromCatalog(id)
  /\ selectedRoute' = IF selectedRoute = id THEN selected' ELSE selectedRoute
  /\ UNCHANGED phoneVars

-----------------------------------------------------------------------------
\* Phones.

StableTask(d) == missions[d] = NoRoute

AssignAtAnyTime(d, id) ==  \* mutant: a mission under way is not looked at
  /\ d \in present
  /\ id \in Ids
  /\ RouteOf(id).content \in Qualified
  /\ assignments' = [assignments EXCEPT ![d] = id]
  /\ UNCHANGED <<catalogVars, present, grace, epochs, missions, selectedRoute, selectedVideo, ready>>

AssignRoute(d, id) ==
  /\ d \in present
  /\ StableTask(d)
  /\ id \in Ids
  /\ RouteOf(id).content \in Qualified
  /\ assignments' = [assignments EXCEPT ![d] = id]
  /\ UNCHANGED <<catalogVars, present, grace, epochs, missions, selectedRoute, selectedVideo, ready>>

ClearAssignment(d) ==
  /\ StableTask(d)
  /\ assignments' = [assignments EXCEPT ![d] = NoRoute]
  /\ UNCHANGED <<catalogVars, present, grace, epochs, missions, selectedRoute, selectedVideo, ready>>

\* stage(): the mission lane takes the assigned route.
StageMission(d) ==
  /\ d \in present
  /\ assignments[d] # NoRoute
  /\ StableTask(d)
  /\ missions' = [missions EXCEPT ![d] = assignments[d]]
  /\ UNCHANGED <<catalogVars, present, assignments, grace, epochs, selectedRoute, selectedVideo, ready>>

\* The mission ends, fails, is released or is written off as disconnected.
MissionSettles(d) ==
  /\ ~StableTask(d)
  /\ missions' = [missions EXCEPT ![d] = NoRoute]
  /\ UNCHANGED <<catalogVars, present, assignments, grace, epochs, selectedRoute, selectedVideo, ready>>

\* mutant: a phone that comes back within its grace keeps the timer.
ComesBackTimed(d) ==
  /\ d \notin present
  /\ present' = present \cup {d}
  /\ UNCHANGED <<catalogVars, assignments, grace, epochs, missions, selectedRoute, selectedVideo, ready>>

ComesBack(d) ==
  /\ d \notin present
  /\ present' = present \cup {d}
  /\ grace' = grace \ {d}
  /\ UNCHANGED <<catalogVars, assignments, epochs, missions, selectedRoute, selectedVideo, ready>>

VideoKeptSelected(d) ==   \* mutant: only the stream is invalidated
  ready' = ready \ {d} /\ UNCHANGED selectedVideo

VideoForgotten(d) ==
  /\ selectedVideo' = IF selectedVideo = d THEN NoDevice ELSE selectedVideo
  /\ ready' = ready \ {d}      \* invalidateStreamSource

\* onDisconnects() for a phone that is gone, or has another session.
GoesAway(d) ==
  /\ d \in present
  /\ present' = present \ {d}
  /\ grace' = grace \cup {d}
  /\ VideoForgotten(d)
  /\ UNCHANGED <<catalogVars, assignments, epochs, missions, selectedRoute>>

SessionReplaced(d) ==
  /\ d \in present
  /\ VideoForgotten(d)
  /\ UNCHANGED <<catalogVars, present, assignments, grace, epochs, missions, selectedRoute>>

\* The timer of fifteen seconds.
GraceEnds(d) ==
  /\ d \in grace
  /\ epochs[d] < MaxEpochs
  /\ grace' = grace \ {d}
  /\ IF d \in present THEN UNCHANGED <<assignments, epochs>>
     ELSE /\ assignments' = [assignments EXCEPT ![d] = NoRoute]
          /\ epochs' = [epochs EXCEPT ![d] = @ + 1]
  /\ UNCHANGED <<catalogVars, present, missions, selectedRoute, selectedVideo, ready>>

MediaReady(d) ==
  /\ d \in present
  /\ ready' = ready \cup {d}
  /\ UNCHANGED <<catalogVars, present, assignments, grace, epochs, missions, selectedRoute, selectedVideo>>

SelectVideo(d) ==
  /\ d \in present \cap ready
  /\ selectedVideo' = d
  /\ UNCHANGED <<catalogVars, present, assignments, grace, epochs, missions, selectedRoute, ready>>

\* clearVideo(), or the source of the selected phone is gone.
ClearVideo ==
  /\ selectedVideo # NoDevice
  /\ \/ selectedVideo' = NoDevice /\ UNCHANGED ready
     \/ VideoForgotten(selectedVideo)
  /\ UNCHANGED <<catalogVars, present, assignments, grace, epochs, missions, selectedRoute>>

WorkflowNext ==
  \/ Imports
  \/ \E id \in RouteId : SelectRoute(id) \/ RemoveRoute(id)
  \/ \E d \in Device :
       \/ \E id \in RouteId : AssignRoute(d, id)
       \/ ClearAssignment(d) \/ StageMission(d) \/ MissionSettles(d)
       \/ ComesBack(d) \/ GoesAway(d) \/ SessionReplaced(d) \/ GraceEnds(d)
       \/ MediaReady(d) \/ SelectVideo(d)
  \/ ClearVideo

-----------------------------------------------------------------------------

\* What is assigned can be flown: an assigned route is in the catalog and is an
\* upload candidate, also while its phone is away; a phone that is away with a
\* route has a timer that will take it; and one that is there has none, so that
\* a timer of an old loss never takes the route of a phone that came back.
AssignmentsAreKept ==
  \A d \in Device :
    /\ assignments[d] # NoRoute =>
         /\ assignments[d] \in Ids
         /\ RouteOf(assignments[d]).content \in Qualified
         /\ d \in present \cup grace
    /\ ~(d \in present /\ d \in grace)

\* The selections name what is there: the route of the page is in the catalog,
\* however imports and removals changed the catalog's own selection meanwhile,
\* and the video selected is of a phone that is connected.
SelectionsExist ==
  /\ CatalogIsSound
  /\ selectedRoute # NoRoute => selectedRoute \in Ids
  /\ selectedVideo # NoDevice => selectedVideo \in present

\* A route is not changed under a mission: while the mission of a phone that has
\* not been lost runs, the phone keeps the very route it was staged with.
RouteStays(d) ==
  missions[d] # NoRoute /\ missions'[d] = missions[d] /\ assignments[d] # NoRoute
    => assignments'[d] = assignments[d] \/ epochs'[d] > epochs[d]
RoutesStay == \A d \in Device : RouteStays(d)
RouteIsNotChangedInFlight == [][RoutesStay]_workflowVars
=============================================================================
