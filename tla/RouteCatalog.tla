----------------------------- MODULE RouteCatalog -----------------------------
(***************************************************************************)
(* The routes of the session (src/modules/route-library): files are        *)
(* ingested by steps that await and can be cancelled between them, and the  *)
(* catalog keeps each content once, with one of its routes selected.       *)
(***************************************************************************)
EXTENDS Naturals, SequencesExt

CONSTANTS
  Content,        \* file contents, told apart by their SHA-256
  Qualified,      \* the contents that are upload candidates
  MaxRoutes,      \* route ids given: a bound of the model
  MaxIngests      \* imports under way at once: a bound of the model

CatalogAssumption ==
  Qualified \subseteq Content /\ MaxRoutes \in Nat /\ MaxIngests \in Nat

VARIABLES
  routes,         \* the routes, in the order they came: [id, content]
  selected,       \* selectedRouteId of the catalog, 0 for none
  routeIds,       \* ids given so far
  ingests         \* imports under way, by slot
catalogVars == <<routes, selected, routeIds, ingests>>

RouteId == 1..MaxRoutes
NoRoute == 0
NoIngest == [content |-> "none", cancelled |-> FALSE]

Ids == {r.id : r \in ToSet(routes)}
Catalogued(content) == {r \in ToSet(routes) : r.content = content}
RouteOf(id) == CHOOSE r \in ToSet(routes) : r.id = id

CatalogTypeOK ==
  /\ routes \in Seq([id : RouteId, content : Content])
  /\ selected \in RouteId \cup {NoRoute}
  /\ routeIds \in 0..MaxRoutes
  /\ ingests \in [1..MaxIngests -> [content : Content \cup {"none"}, cancelled : BOOLEAN]]

CatalogInit ==
  /\ routes = <<>>
  /\ selected = NoRoute
  /\ routeIds = 0
  /\ ingests = [i \in 1..MaxIngests |-> NoIngest]

-----------------------------------------------------------------------------

\* importFile(), up to its first await; a cancellation that came before it is
\* noticed at once, and so is one that comes later, at the end of a step.
Ingest(i, content) ==
  /\ ingests[i] = NoIngest
  /\ ingests' = [ingests EXCEPT ![i].content = content]
  /\ UNCHANGED <<routes, selected, routeIds>>

CancelIngest(i) ==
  /\ ingests[i] # NoIngest
  /\ ingests' = [ingests EXCEPT ![i].cancelled = TRUE]
  /\ UNCHANGED <<routes, selected, routeIds>>

IngestOver(i) == ingests' = [ingests EXCEPT ![i] = NoIngest]

\* Rejected (the container, the archive, the XML, the digest) or cancelled.
IngestFails(i) ==
  /\ ingests[i] # NoIngest
  /\ IngestOver(i)
  /\ UNCHANGED <<routes, selected, routeIds>>

\* add() of a content the catalog has: its route is selected.
AddDuplicate(route) ==
  /\ selected' = route.id
  /\ UNCHANGED <<routes, routeIds>>

\* add() of a new one, under a fresh id.
AddNew(content) ==
  /\ routeIds < MaxRoutes
  /\ routeIds' = routeIds + 1
  /\ routes' = Append(routes, [id |-> routeIds', content |-> content])
  /\ selected' = routeIds'

\* The last step read the digest and saw no cancellation: whether the catalog
\* has the content is asked only now, in the turn that adds it.
IngestEnds(i) ==
  LET content == ingests[i].content IN
  /\ ingests[i] # NoIngest
  /\ ~ingests[i].cancelled
  /\ IngestOver(i)
  /\ IF Catalogued(content) = {} THEN AddNew(content)
     ELSE AddDuplicate(CHOOSE r \in Catalogued(content) : TRUE)

SelectInCatalog(id) ==
  /\ id \in Ids
  /\ selected' = id
  /\ UNCHANGED <<routes, routeIds, ingests>>

PlaceOf(id) == CHOOSE i \in DOMAIN routes : routes[i].id = id

\* The neighbour after, then before, of the one that goes.
Replacement(i) ==
  IF i < Len(routes) THEN routes[i + 1].id
  ELSE IF i > 1 THEN routes[i - 1].id ELSE NoRoute

RemoveFromCatalog(id) ==
  /\ id \in Ids
  /\ selected' = IF selected = id THEN Replacement(PlaceOf(id)) ELSE selected
  /\ routes' = RemoveAt(routes, PlaceOf(id))
  /\ UNCHANGED <<routeIds, ingests>>

-----------------------------------------------------------------------------

\* However imports of the same file overlap, with one another and with removals,
\* the catalog has each content once, and its selection is one of its routes, or
\* none when it is empty.
CatalogIsSound ==
  /\ \A i, j \in DOMAIN routes :
       routes[i].content = routes[j].content \/ routes[i].id = routes[j].id => i = j
  /\ IF routes = <<>> THEN selected = NoRoute ELSE selected \in Ids
=============================================================================
