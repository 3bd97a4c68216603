---------------------------- MODULE ConsoleProofs ----------------------------
(***************************************************************************)
(* Theorems about what the operator sees and keeps, for any phones, routes *)
(* and imports, and any number of clicks, sessions and messages.           *)
(***************************************************************************)
EXTENDS MCConsole, Integers, Sequences, TLAPS

-----------------------------------------------------------------------------
(* Sequences *)

LEMMA RemovedAt ==
  ASSUME NEW S, NEW seq \in Seq(S), NEW i \in 1..Len(seq)
  PROVE  /\ Workflow!RemoveAt(seq, i) \in Seq(S)
         /\ Len(Workflow!RemoveAt(seq, i)) = Len(seq) - 1
         /\ \A k \in 1..(Len(seq) - 1) :
              Workflow!RemoveAt(seq, i)[k] = IF k < i THEN seq[k] ELSE seq[k + 1]
<1> DEFINE before == SubSeq(seq, 1, i - 1)
           after == SubSeq(seq, i + 1, Len(seq))
<1>1. /\ before \in Seq(S) /\ Len(before) = i - 1
      /\ \A k \in 1..(i - 1) : before[k] = seq[k]
  OBVIOUS
<1>2. /\ after \in Seq(S) /\ Len(after) = Len(seq) - i
      /\ \A k \in 1..(Len(seq) - i) : after[k] = seq[i + k]
  OBVIOUS
<1>3. Workflow!RemoveAt(seq, i) = before \o after
  BY DEF Workflow!RemoveAt
<1> HIDE DEF before, after
<1>4. before \o after \in Seq(S) /\ Len(before \o after) = Len(seq) - 1
  BY <1>1, <1>2
<1>5. ASSUME NEW k \in 1..(Len(seq) - 1)
      PROVE  (before \o after)[k] = IF k < i THEN seq[k] ELSE seq[k + 1]
  <2>1. (before \o after)[k] = IF k <= i - 1 THEN before[k] ELSE after[k - (i - 1)]
    BY <1>1, <1>2
  <2> QED
    BY <1>1, <1>2, <2>1
<1> QED
  BY <1>3, <1>4, <1>5

-----------------------------------------------------------------------------
(* The catalog of the routes *)

RouteRecord == [id : Nat, content : Files]

IngestsTypeOK ==
  ingests \in [1..MaxIngests -> [content : Files \cup {"none"}, cancelled : BOOLEAN]]

\* An id is given once, so that a new route has one that no other has.
CatalogInv ==
  /\ routes \in Seq(RouteRecord) /\ routeIds \in Nat
  /\ \A i \in 1..Len(routes) : routes[i].id \in 1..routeIds
  /\ Workflow!CatalogIsSound

\* The route of an id, with a content of the set.
Kept(id, contents) ==
  \E i \in 1..Len(routes) : routes[i].id = id /\ routes[i].content \in contents

LEMMA IdsAreKept ==
  ASSUME routes \in Seq(RouteRecord)
  PROVE  /\ Workflow!Ids = {routes[i].id : i \in 1..Len(routes)}
         /\ \A id : id \in Workflow!Ids <=> Kept(id, Files)
<1>1. Workflow!Ids = {routes[i].id : i \in 1..Len(routes)}
  BY DEF Workflow!Ids, Workflow!ToSet
<1>2. \A i \in 1..Len(routes) : routes[i].content \in Files
  <2>1. \A i \in 1..Len(routes) : routes[i] \in RouteRecord
    OBVIOUS
  <2> QED
    BY <2>1 DEF RouteRecord
<1>3. ASSUME NEW id PROVE id \in Workflow!Ids <=> Kept(id, Files)
  <2>1. id \in Workflow!Ids <=> \E i \in 1..Len(routes) : routes[i].id = id
    BY <1>1
  <2> QED
    BY <2>1, <1>2 DEF Kept
<1> QED
  BY <1>1, <1>3

\* The route of an id is the only one that has it.
LEMMA TheRoute ==
  ASSUME CatalogInv, NEW i \in 1..Len(routes)
  PROVE  /\ Workflow!RouteOf(routes[i].id) = routes[i]
         /\ Workflow!PlaceOf(routes[i].id) = i
<1>1. \A j, k \in 1..Len(routes) : routes[j].id = routes[k].id => j = k
  BY DEF CatalogInv, Workflow!CatalogIsSound
<1>2. Workflow!PlaceOf(routes[i].id) \in 1..Len(routes)
      /\ routes[Workflow!PlaceOf(routes[i].id)].id = routes[i].id
  BY DEF Workflow!PlaceOf, CatalogInv
<1>3. Workflow!RouteOf(routes[i].id) \in Workflow!ToSet(routes)
      /\ Workflow!RouteOf(routes[i].id).id = routes[i].id
  <2>1. routes[i] \in Workflow!ToSet(routes)
    BY DEF Workflow!ToSet, CatalogInv
  <2> QED
    BY <2>1 DEF Workflow!RouteOf
<1>4. PICK j \in 1..Len(routes) : Workflow!RouteOf(routes[i].id) = routes[j]
  BY <1>3 DEF Workflow!ToSet, CatalogInv
<1> QED
  BY <1>1, <1>2, <1>3, <1>4

\* A route that comes has a new content and a new id, and is selected.
LEMMA CatalogGrows ==
  ASSUME CatalogInv, NEW content \in Files, Workflow!Catalogued(content) = {},
         Workflow!AddNew(content)
  PROVE  /\ CatalogInv'
         /\ \A id, contents : Kept(id, contents) => Kept(id, contents)'
<1> DEFINE route == [id |-> routeIds + 1, content |-> content]
<1>1. routes' = Append(routes, route) /\ routeIds' = routeIds + 1 /\ selected' = routeIds + 1
  BY DEF Workflow!AddNew
<1>2. route \in RouteRecord /\ route.id = routeIds + 1 /\ route.content = content
  BY DEF RouteRecord, CatalogInv
<1> HIDE DEF route
<1>3. /\ routes' \in Seq(RouteRecord) /\ Len(routes') = Len(routes) + 1
      /\ \A i \in 1..Len(routes) : routes'[i] = routes[i]
      /\ routes'[Len(routes) + 1] = route
  BY <1>1, <1>2 DEF CatalogInv
<1>4. \A i \in 1..Len(routes) : routes[i].content # content
  BY DEF Workflow!Catalogued, Workflow!ToSet, CatalogInv
<1>5. \A i \in 1..Len(routes') :
        routes'[i].id \in 1..routeIds' /\ (i = Len(routes) + 1 <=> routes'[i].id = routeIds + 1)
  BY <1>1, <1>2, <1>3 DEF CatalogInv
<1>6. Workflow!CatalogIsSound'
  <2>1. \A i, j \in 1..Len(routes') :
          routes'[i].content = routes'[j].content \/ routes'[i].id = routes'[j].id => i = j
    <3> TAKE i, j \in 1..Len(routes')
    <3>1. CASE i \in 1..Len(routes) /\ j \in 1..Len(routes)
      <4>1. \A k, l \in 1..Len(routes) :
              routes[k].content = routes[l].content \/ routes[k].id = routes[l].id => k = l
        BY DEF CatalogInv, Workflow!CatalogIsSound
      <4> QED
        BY <3>1, <1>3, <4>1
    <3>2. CASE ~(i \in 1..Len(routes) /\ j \in 1..Len(routes))
      <4>1. /\ i = Len(routes) + 1 \/ j = Len(routes) + 1
            /\ i \in 1..Len(routes) \/ i = Len(routes) + 1
            /\ j \in 1..Len(routes) \/ j = Len(routes) + 1
        BY <3>2, <1>3 DEF CatalogInv
      <4>2. \A k \in 1..Len(routes) :
              routes'[k].content # content /\ routes'[k].id # routes'[Len(routes) + 1].id
        BY <1>2, <1>3, <1>4, <1>5 DEF CatalogInv
      <4>3. routes'[Len(routes) + 1].content = content
        BY <1>2, <1>3
      <4> QED
        BY <4>1, <4>2, <4>3
    <3> QED
      BY <3>1, <3>2
  <2>2. selected' \in Workflow!Ids' /\ routes' # <<>>
    <3>1. Len(routes) + 1 \in 1..Len(routes')
      BY <1>3 DEF CatalogInv
    <3> QED
      BY <3>1, <1>1, <1>2, <1>3 DEF Workflow!Ids, Workflow!ToSet
  <2> QED
    BY <2>1, <2>2, <1>3 DEF Workflow!CatalogIsSound
<1>7. \A id, contents : Kept(id, contents) => Kept(id, contents)'
  <2>1. \A i \in 1..Len(routes) : i \in 1..Len(routes') /\ routes'[i] = routes[i]
    BY <1>3 DEF CatalogInv
  <2> QED
    BY <2>1 DEF Kept
<1> QED
  BY <1>1, <1>3, <1>5, <1>6, <1>7 DEF CatalogInv

LEMMA ImportAdds ==
  ASSUME CatalogInv, IngestsTypeOK, NEW i \in 1..MaxIngests,
         \/ \E content \in Files : Workflow!Ingest(i, content)
         \/ Workflow!CancelIngest(i) \/ Workflow!IngestFails(i) \/ Workflow!IngestEnds(i)
  PROVE  /\ CatalogInv' /\ IngestsTypeOK'
         /\ \A id, contents : Kept(id, contents) => Kept(id, contents)'
<1>1. IngestsTypeOK'
  <2>1. Workflow!NoIngest \in [content : Files \cup {"none"}, cancelled : BOOLEAN]
    BY DEF Workflow!NoIngest
  <2>2. ASSUME NEW content \in Files, Workflow!Ingest(i, content) PROVE IngestsTypeOK'
    BY <2>2 DEF IngestsTypeOK, Workflow!Ingest
  <2>3. CASE Workflow!CancelIngest(i)
    BY <2>3 DEF IngestsTypeOK, Workflow!CancelIngest
  <2>4. CASE Workflow!IngestOver(i)
    BY <2>1, <2>4 DEF IngestsTypeOK, Workflow!IngestOver
  <2> QED
    BY <2>2, <2>3, <2>4 DEF Workflow!IngestFails, Workflow!IngestEnds
<1>2. CASE UNCHANGED <<routes, selected, routeIds>>
  BY <1>1, <1>2 DEF CatalogInv, Kept, Workflow!CatalogIsSound, Workflow!Ids, Workflow!ToSet
<1>3. CASE Workflow!IngestEnds(i)
  <2>1. PICK content \in Files :
          IF Workflow!Catalogued(content) = {} THEN Workflow!AddNew(content)
          ELSE Workflow!AddDuplicate(CHOOSE r \in Workflow!Catalogued(content) : TRUE)
    <3>1. ingests[i].content \in Files
      BY <1>3 DEF IngestsTypeOK, Workflow!IngestEnds, Workflow!NoIngest
    <3> QED
      BY <3>1, <1>3 DEF Workflow!IngestEnds
  <2>2. CASE Workflow!Catalogued(content) = {}
    BY <1>1, <2>1, <2>2, CatalogGrows
  <2>3. CASE Workflow!Catalogued(content) # {}
    <3>1. PICK r \in Workflow!ToSet(routes) : selected' = r.id /\ UNCHANGED <<routes, routeIds>>
      BY <2>1, <2>3 DEF Workflow!AddDuplicate, Workflow!Catalogued
    <3>2. selected' \in Workflow!Ids' /\ routes # <<>>
      BY <3>1 DEF Workflow!Ids, Workflow!ToSet
    <3> QED
      BY <1>1, <3>1, <3>2 DEF CatalogInv, Kept, Workflow!CatalogIsSound
  <2> QED
    BY <2>2, <2>3
<1> QED
  BY <1>2, <1>3 DEF Workflow!Ingest, Workflow!CancelIngest, Workflow!IngestFails

LEMMA SelectionMoves ==
  ASSUME CatalogInv, NEW id, Workflow!SelectInCatalog(id)
  PROVE  /\ CatalogInv' /\ Kept(id, Files)'
         /\ \A other, contents : Kept(other, contents) => Kept(other, contents)'
<1>1. Workflow!Ids' = Workflow!Ids /\ selected' \in Workflow!Ids /\ routes # <<>>
  BY DEF Workflow!SelectInCatalog, Workflow!Ids, Workflow!ToSet
<1>2. Kept(id, Files)
  BY IdsAreKept DEF Workflow!SelectInCatalog, CatalogInv
<1> QED
  BY <1>1, <1>2 DEF Workflow!SelectInCatalog, CatalogInv, Kept, Workflow!CatalogIsSound

\* A removal takes one route, and the selection moves to one that is left.
LEMMA CatalogShrinks ==
  ASSUME CatalogInv, NEW id, Workflow!RemoveFromCatalog(id)
  PROVE  /\ CatalogInv'
         /\ \A other, contents : other # id /\ Kept(other, contents) => Kept(other, contents)'
         /\ selected' = Workflow!NoRoute \/ Kept(selected, Files)'
<1>1. PICK i \in 1..Len(routes) : routes[i].id = id
  BY IdsAreKept DEF Workflow!RemoveFromCatalog, CatalogInv, Kept
<1>2. Workflow!PlaceOf(id) = i
  BY <1>1, TheRoute
<1>3. /\ routes' \in Seq(RouteRecord) /\ Len(routes') = Len(routes) - 1
      /\ \A k \in 1..(Len(routes) - 1) : routes'[k] = IF k < i THEN routes[k] ELSE routes[k + 1]
  BY <1>2, RemovedAt DEF Workflow!RemoveFromCatalog, CatalogInv
<1>4. Len(routes) \in Nat /\ \A k \in 1..Len(routes') :
        \E j \in 1..Len(routes) : routes'[k] = routes[j] /\ j = IF k < i THEN k ELSE k + 1
  <2>1. Len(routes) \in Nat
    BY DEF CatalogInv
  <2> QED
    BY <2>1, <1>3
<1>5. \A j \in 1..Len(routes) : j # i => \E k \in 1..Len(routes') : routes'[k] = routes[j]
  <2> SUFFICES ASSUME NEW j \in 1..Len(routes), j # i
               PROVE  \E k \in 1..Len(routes') : routes'[k] = routes[j]
    OBVIOUS
  <2>1. CASE j < i
    BY <2>1, <1>3, <1>4
  <2>2. CASE j > i
    <3>1. j - 1 \in 1..Len(routes') /\ routes'[j - 1] = routes[j]
      BY <2>2, <1>3, <1>4
    <3> QED
      BY <3>1
  <2> QED
    BY <2>1, <2>2
<1>6. \A other, contents : other # id /\ Kept(other, contents) => Kept(other, contents)'
  BY <1>1, <1>5 DEF Kept
<1>7. \A k \in 1..Len(routes') : routes'[k].id \in 1..routeIds'
  BY <1>4 DEF CatalogInv, Workflow!RemoveFromCatalog
<1>8. \A k, l \in 1..Len(routes') :
        routes'[k].content = routes'[l].content \/ routes'[k].id = routes'[l].id => k = l
  <2>1. \A j, m \in 1..Len(routes) :
          routes[j].content = routes[m].content \/ routes[j].id = routes[m].id => j = m
    BY DEF CatalogInv, Workflow!CatalogIsSound
  <2> SUFFICES ASSUME NEW k \in 1..Len(routes'), NEW l \in 1..Len(routes'),
                      routes'[k].content = routes'[l].content \/ routes'[k].id = routes'[l].id
               PROVE  k = l
    OBVIOUS
  <2>2. PICK j \in 1..Len(routes) : routes'[k] = routes[j] /\ j = IF k < i THEN k ELSE k + 1
    BY <1>4
  <2>3. PICK m \in 1..Len(routes) : routes'[l] = routes[m] /\ m = IF l < i THEN l ELSE l + 1
    BY <1>4
  <2>4. j = m
    BY <2>1, <2>2, <2>3
  <2>5. k \in Nat /\ l \in Nat /\ i \in Nat
    BY <1>3, <1>4
  <2> QED
    BY <2>2, <2>3, <2>4, <2>5
<1>9. /\ routes' = <<>> => selected' = Workflow!NoRoute
      /\ routes' # <<>> => \E k \in 1..Len(routes') : routes'[k].id = selected'
  <2>1. selected \in Workflow!Ids
    BY <1>1 DEF CatalogInv, Workflow!CatalogIsSound
  <2>2. CASE selected # id
    <3>1. Kept(selected, Files)
      BY <2>1, IdsAreKept DEF CatalogInv
    <3>2. Kept(selected, Files)' /\ selected' = selected
      BY <2>2, <3>1, <1>6 DEF Workflow!RemoveFromCatalog
    <3> QED
      BY <3>2, <1>3 DEF Kept
  <2>3. CASE selected = id
    <3>1. selected' = Workflow!Replacement(i)
      BY <2>3, <1>2 DEF Workflow!RemoveFromCatalog
    <3>2. CASE i < Len(routes)
      <4>1. i \in 1..Len(routes') /\ routes'[i] = routes[i + 1]
        BY <3>2, <1>3, <1>4
      <4> QED
        BY <3>1, <3>2, <4>1, <1>3 DEF Workflow!Replacement
    <3>3. CASE i = Len(routes) /\ i > 1
      <4>1. i - 1 \in 1..Len(routes') /\ routes'[i - 1] = routes[i - 1]
        BY <3>3, <1>3, <1>4
      <4> QED
        BY <3>1, <3>3, <4>1, <1>3, <1>4 DEF Workflow!Replacement
    <3>4. CASE i = Len(routes) /\ i = 1
      <4>1. Len(routes) = 1
        BY <3>4
      <4>2. Len(routes') = 0
        BY <4>1, <1>3
      <4> QED
        BY <3>1, <3>4, <4>2, <1>3 DEF Workflow!Replacement
    <3> QED
      BY <3>2, <3>3, <3>4, <1>4
  <2> QED
    BY <2>2, <2>3
<1>10. Workflow!CatalogIsSound'
  <2>1. \A k \in 1..Len(routes') : routes'[k].id \in Workflow!Ids'
    BY <1>3 DEF Workflow!Ids, Workflow!ToSet
  <2> QED
    BY <1>3, <1>8, <1>9, <2>1 DEF Workflow!CatalogIsSound
<1>11. CatalogInv'
  BY <1>3, <1>7, <1>10 DEF CatalogInv, Workflow!RemoveFromCatalog
<1>12. routes' # <<>> => Kept(selected, Files)'
  <2>1. \A k \in 1..Len(routes') : routes'[k].content \in Files
    <3>1. \A k \in 1..Len(routes') : routes'[k] \in RouteRecord
      BY <1>3
    <3> QED
      BY <3>1 DEF RouteRecord
  <2> QED
    BY <2>1, <1>9 DEF Kept
<1> QED
  BY <1>6, <1>9, <1>11, <1>12

-----------------------------------------------------------------------------
(* The phones and the routes assigned to them *)

PhonesTypeOK ==
  /\ assignments \in [Phone -> Nat] /\ epochs \in [Phone -> Nat]
  /\ IngestsTypeOK

\* An assigned route can be flown and is watched over; a selected one exists.
RoutesAreKept ==
  /\ \A d \in Phone : assignments[d] # Workflow!NoRoute => Kept(assignments[d], Content)
  /\ selectedRoute # Workflow!NoRoute => Kept(selectedRoute, Files)

PhonesAreWatched ==
  /\ \A d \in Phone : assignments[d] # Workflow!NoRoute => d \in present \cup grace
  /\ \A d \in Phone : ~(d \in present /\ d \in grace)
  /\ selectedVideo # NoOne => selectedVideo \in present

WorkflowInv == CatalogInv /\ PhonesTypeOK /\ RoutesAreKept /\ PhonesAreWatched

LEMMA WorkflowBegins ==
  ASSUME Workflow!WorkflowInit
  PROVE  WorkflowInv
<1>1. CatalogInv
  BY DEF Workflow!WorkflowInit, Workflow!CatalogInit, CatalogInv, Workflow!CatalogIsSound
<1>2. PhonesTypeOK
  <2>1. IngestsTypeOK
    BY DEF Workflow!WorkflowInit, Workflow!CatalogInit, Workflow!NoIngest, IngestsTypeOK
  <2> QED
    BY <2>1 DEF Workflow!WorkflowInit, Workflow!NoRoute, PhonesTypeOK
<1> QED
  BY <1>1, <1>2 DEF Workflow!WorkflowInit, WorkflowInv, RoutesAreKept, PhonesAreWatched

LEMMA RoutesStep ==
  ASSUME WorkflowInv,
         \/ Workflow!Imports
         \/ \E id \in Workflow!RouteId : Workflow!SelectRoute(id) \/ Workflow!RemoveRoute(id)
  PROVE  WorkflowInv'
<1>1. UNCHANGED <<present, assignments, grace, epochs, missions, selectedVideo, ready>>
  BY DEF Workflow!Imports, Workflow!SelectRoute, Workflow!RemoveRoute, Workflow!phoneVars
<1>2. PhonesAreWatched'
  BY <1>1 DEF WorkflowInv, PhonesAreWatched
<1>3. CASE Workflow!Imports
  <2>1. PICK i \in 1..MaxIngests :
          \/ \E content \in Files : Workflow!Ingest(i, content)
          \/ Workflow!CancelIngest(i) \/ Workflow!IngestFails(i) \/ Workflow!IngestEnds(i)
    BY <1>3 DEF Workflow!Imports
  <2>2. CatalogInv /\ IngestsTypeOK
    BY DEF WorkflowInv, PhonesTypeOK
  <2>3. /\ CatalogInv' /\ IngestsTypeOK'
        /\ \A id, contents : Kept(id, contents) => Kept(id, contents)'
    BY <2>1, <2>2, ImportAdds
  <2> QED
    BY <1>1, <1>2, <1>3, <2>3 DEF Workflow!Imports, WorkflowInv, PhonesTypeOK, RoutesAreKept
<1>4. ASSUME NEW id, Workflow!SelectRoute(id) PROVE WorkflowInv'
  <2>1. /\ CatalogInv' /\ Kept(id, Files)' /\ selectedRoute' = id /\ UNCHANGED ingests
        /\ \A other, contents : Kept(other, contents) => Kept(other, contents)'
    BY <1>4, SelectionMoves DEF Workflow!SelectRoute, WorkflowInv, Workflow!SelectInCatalog
  <2> QED
    BY <1>1, <1>2, <2>1 DEF WorkflowInv, PhonesTypeOK, RoutesAreKept, IngestsTypeOK
<1>5. ASSUME NEW id, Workflow!RemoveRoute(id) PROVE WorkflowInv'
  <2>1. /\ CatalogInv' /\ UNCHANGED ingests
        /\ \A other, contents : other # id /\ Kept(other, contents) => Kept(other, contents)'
        /\ selected' = Workflow!NoRoute \/ Kept(selected, Files)'
    BY <1>5, CatalogShrinks DEF Workflow!RemoveRoute, WorkflowInv, Workflow!RemoveFromCatalog
  <2>2. \A d \in Phone : assignments[d] # id
    BY <1>5 DEF Workflow!RemoveRoute, Workflow!RoutesInUse
  <2>3. selectedRoute' = IF selectedRoute = id THEN selected' ELSE selectedRoute
    BY <1>5 DEF Workflow!RemoveRoute
  <2>4. RoutesAreKept'
    BY <1>1, <2>1, <2>2, <2>3 DEF WorkflowInv, RoutesAreKept, Kept
  <2> QED
    BY <1>1, <1>2, <2>1, <2>4 DEF WorkflowInv, PhonesTypeOK, IngestsTypeOK
<1> QED
  BY <1>3, <1>4, <1>5

PhoneStep(d) ==
  \/ \E id \in Workflow!RouteId : Workflow!AssignRoute(d, id)
  \/ Workflow!ClearAssignment(d) \/ Workflow!StageMission(d) \/ Workflow!MissionSettles(d)
  \/ Workflow!ComesBack(d) \/ Workflow!GoesAway(d) \/ Workflow!SessionReplaced(d)
  \/ Workflow!GraceEnds(d) \/ Workflow!MediaReady(d) \/ Workflow!SelectVideo(d)

LEMMA CatalogRests ==
  ASSUME CatalogInv, IngestsTypeOK, UNCHANGED Workflow!catalogVars
  PROVE  /\ CatalogInv' /\ IngestsTypeOK'
         /\ \A id, contents : Kept(id, contents) <=> Kept(id, contents)'
BY DEF CatalogInv, IngestsTypeOK, Kept, Workflow!catalogVars, Workflow!CatalogIsSound,
       Workflow!Ids, Workflow!ToSet

LEMMA PhonesStep ==
  ASSUME WorkflowInv, NEW d \in Phone, PhoneStep(d)
  PROVE  WorkflowInv'
<1>1. UNCHANGED Workflow!catalogVars /\ UNCHANGED selectedRoute
  BY DEF PhoneStep, Workflow!AssignRoute, Workflow!ClearAssignment, Workflow!StageMission,
         Workflow!MissionSettles, Workflow!ComesBack, Workflow!GoesAway, Workflow!SessionReplaced,
         Workflow!GraceEnds, Workflow!MediaReady, Workflow!SelectVideo
<1>2. /\ CatalogInv' /\ IngestsTypeOK'
      /\ \A id, contents : Kept(id, contents) <=> Kept(id, contents)'
  BY <1>1, CatalogRests DEF WorkflowInv, PhonesTypeOK
<1>3. ASSUME UNCHANGED <<assignments, epochs>> PROVE PhonesTypeOK' /\ RoutesAreKept'
  BY <1>1, <1>2, <1>3 DEF WorkflowInv, PhonesTypeOK, RoutesAreKept
<1>4. ASSUME NEW id \in Workflow!RouteId, Workflow!AssignRoute(d, id) PROVE WorkflowInv'
  <2>1. /\ id \in Workflow!Ids /\ Workflow!RouteOf(id).content \in Content
        /\ assignments' = [assignments EXCEPT ![d] = id] /\ d \in present
        /\ UNCHANGED <<present, grace, epochs, selectedVideo>>
    BY <1>4 DEF Workflow!AssignRoute
  <2>2. PICK i \in 1..Len(routes) : routes[i].id = id
    BY <2>1, IdsAreKept DEF Kept, WorkflowInv, CatalogInv
  <2>3. Kept(id, Content)
    BY <2>1, <2>2, TheRoute DEF Kept, WorkflowInv
  <2>4. id \in Nat
    BY DEF Workflow!RouteId
  <2>5. PhonesTypeOK' /\ PhonesAreWatched'
    BY <1>2, <2>1, <2>4 DEF WorkflowInv, PhonesTypeOK, PhonesAreWatched
  <2>6. RoutesAreKept'
    BY <1>1, <1>2, <2>1, <2>3 DEF WorkflowInv, PhonesTypeOK, RoutesAreKept
  <2> QED
    BY <1>2, <2>5, <2>6 DEF WorkflowInv
<1>5. CASE Workflow!ClearAssignment(d) \/ Workflow!GraceEnds(d)
  <2>1. /\ \A other \in Phone : assignments'[other] \in {assignments[other], Workflow!NoRoute}
        /\ PhonesTypeOK'
    <3>1. CASE Workflow!ClearAssignment(d)
      BY <1>2, <3>1 DEF Workflow!ClearAssignment, WorkflowInv, PhonesTypeOK, Workflow!NoRoute
    <3>2. CASE Workflow!GraceEnds(d)
      BY <1>2, <3>2 DEF Workflow!GraceEnds, WorkflowInv, PhonesTypeOK, Workflow!NoRoute
    <3> QED
      BY <1>5, <3>1, <3>2
  <2>2. RoutesAreKept'
    BY <1>1, <1>2, <2>1 DEF WorkflowInv, RoutesAreKept, Workflow!NoRoute
  <2>3. PhonesAreWatched'
    <3>1. CASE Workflow!ClearAssignment(d)
      BY <2>1, <3>1 DEF Workflow!ClearAssignment, WorkflowInv, PhonesAreWatched, Workflow!NoRoute
    <3>2. CASE Workflow!GraceEnds(d)
      BY <2>1, <3>2 DEF Workflow!GraceEnds, WorkflowInv, PhonesAreWatched, PhonesTypeOK,
                        Workflow!NoRoute
    <3> QED
      BY <1>5, <3>1, <3>2
  <2> QED
    BY <1>2, <2>1, <2>2, <2>3 DEF WorkflowInv
<1>6. CASE \/ Workflow!StageMission(d) \/ Workflow!MissionSettles(d) \/ Workflow!ComesBack(d)
           \/ Workflow!GoesAway(d) \/ Workflow!SessionReplaced(d) \/ Workflow!MediaReady(d)
           \/ Workflow!SelectVideo(d)
  <2>1. UNCHANGED <<assignments, epochs>>
    BY <1>6 DEF Workflow!StageMission, Workflow!MissionSettles, Workflow!ComesBack,
                Workflow!GoesAway, Workflow!SessionReplaced, Workflow!MediaReady, Workflow!SelectVideo
  <2>2. PhonesAreWatched'
    <3>1. CASE Workflow!ComesBack(d)
      BY <2>1, <3>1 DEF Workflow!ComesBack, WorkflowInv, PhonesAreWatched
    <3>2. CASE Workflow!GoesAway(d)
      BY <2>1, <3>2 DEF Workflow!GoesAway, Workflow!VideoForgotten, WorkflowInv, PhonesAreWatched
    <3>3. CASE Workflow!SessionReplaced(d)
      BY <2>1, <3>3 DEF Workflow!SessionReplaced, Workflow!VideoForgotten, WorkflowInv,
                        PhonesAreWatched
    <3>4. CASE \/ Workflow!StageMission(d) \/ Workflow!MissionSettles(d) \/ Workflow!MediaReady(d)
               \/ Workflow!SelectVideo(d)
      BY <2>1, <3>4 DEF Workflow!StageMission, Workflow!MissionSettles, Workflow!MediaReady,
                        Workflow!SelectVideo, WorkflowInv, PhonesAreWatched
    <3> QED
      BY <1>6, <3>1, <3>2, <3>3, <3>4
  <2> QED
    BY <1>2, <1>3, <2>1, <2>2 DEF WorkflowInv
<1> QED
  BY <1>4, <1>5, <1>6 DEF PhoneStep

LEMMA WorkflowStep ==
  ASSUME WorkflowInv, Workflow!WorkflowNext
  PROVE  WorkflowInv'
<1>1. CASE Workflow!ClearVideo
  <2>1. /\ CatalogInv' /\ IngestsTypeOK'
        /\ \A id, contents : Kept(id, contents) <=> Kept(id, contents)'
    BY <1>1, CatalogRests DEF WorkflowInv, PhonesTypeOK, Workflow!ClearVideo
  <2> QED
    BY <1>1, <2>1 DEF Workflow!ClearVideo, Workflow!VideoForgotten, WorkflowInv, PhonesTypeOK,
                      RoutesAreKept, PhonesAreWatched
<1> QED
  BY <1>1, RoutesStep, PhonesStep DEF Workflow!WorkflowNext, PhoneStep

LEMMA WorkflowRests ==
  ASSUME WorkflowInv, UNCHANGED <<catalog, phones>>
  PROVE  WorkflowInv'
<1>1. UNCHANGED <<routes, selected, routeIds, ingests>>
  BY DEF catalog
<1>2. UNCHANGED <<present, assignments, grace, epochs, selectedRoute, selectedVideo>>
  BY DEF phones
<1>3. /\ CatalogInv' /\ IngestsTypeOK'
      /\ \A id, contents : Kept(id, contents) <=> Kept(id, contents)'
  BY <1>1, CatalogRests DEF WorkflowInv, PhonesTypeOK, Workflow!catalogVars
<1> QED
  BY <1>2, <1>3 DEF WorkflowInv, PhonesTypeOK, RoutesAreKept, PhonesAreWatched

LEMMA WorkflowInvHolds == Spec => [](part \in Workflows => WorkflowInv)
<1>1. Init => (part \in Workflows => WorkflowInv)
  BY WorkflowBegins DEF Init, PartsInit
<1>2. (part \in Workflows => WorkflowInv) /\ [Next]_consoleRunVars
        => (part \in Workflows => WorkflowInv)'
  <2> SUFFICES ASSUME part \in Workflows => WorkflowInv, [Next]_consoleRunVars,
                      (part \in Workflows)'
               PROVE  WorkflowInv'
    OBVIOUS
  <2>1. part \in Workflows
    BY DEF Next, consoleRunVars, Workflows
  <2>2. CASE Workflow!WorkflowNext
    BY <2>1, <2>2, WorkflowStep
  <2>3. CASE UNCHANGED <<catalog, phones>>
    BY <2>1, <2>3, WorkflowRests
  <2> QED
    BY <2>1, <2>2, <2>3 DEF Next, consoleRunVars, Workflows
<1> QED
  BY <1>1, <1>2, PTL DEF Spec

LEMMA WorkflowInvMeans ==
  ASSUME WorkflowInv
  PROVE  Workflow!SelectionsExist /\ Workflow!AssignmentsAreKept
<1>1. \A id : id \in Workflow!Ids <=> Kept(id, Files)
  BY IdsAreKept DEF WorkflowInv, CatalogInv
<1>2. Workflow!SelectionsExist
  BY <1>1 DEF WorkflowInv, CatalogInv, RoutesAreKept, PhonesAreWatched, Workflow!SelectionsExist
<1>3. ASSUME NEW d \in Phone, assignments[d] # Workflow!NoRoute
      PROVE  /\ assignments[d] \in Workflow!Ids
             /\ Workflow!RouteOf(assignments[d]).content \in Content
  <2>1. PICK i \in 1..Len(routes) :
          routes[i].id = assignments[d] /\ routes[i].content \in Content
    BY <1>3 DEF WorkflowInv, RoutesAreKept, Kept
  <2>2. Workflow!RouteOf(assignments[d]) = routes[i]
    BY <2>1, TheRoute DEF WorkflowInv
  <2>3. Kept(assignments[d], Files)
    BY <2>1 DEF Kept, Content, Files
  <2> QED
    BY <1>1, <2>1, <2>2, <2>3
<1>4. Workflow!AssignmentsAreKept
  BY <1>3 DEF Workflow!AssignmentsAreKept, WorkflowInv, PhonesAreWatched
<1> QED
  BY <1>2, <1>4

\* What is selected exists, and a route assigned to a phone is one that can be flown,
\* whatever imports, removals and losses of phones come in between.
THEOREM SelectionsAlwaysStand == Spec => []SelectionsStand
<1>1. (part \in Workflows => WorkflowInv) => SelectionsStand
  BY WorkflowInvMeans DEF SelectionsStand
<1> QED
  BY <1>1, WorkflowInvHolds, PTL

-----------------------------------------------------------------------------
(* What the relay knows of a phone *)

ToldFact == [version : Nat, revision : Nat, sequence : Nat, complete : BOOLEAN]
Message == [kind : {"frame", "answer"}, fact : ToldFact]
ObservationRecord == [session : Nat, sequence : Nat, fact : ToldFact]
AtNone == [session |-> 0, sequence |-> 0, fact |-> Observed!NoFact]

ObservationTypes ==
  /\ reporter \in [version : Nat, revision : Nat, frames : Nat]
  /\ answering \in [asked : BOOLEAN, made : BOOLEAN, fact : ToldFact]
  /\ wire \in Seq(Message)
  /\ relaySession \in Nat
  /\ latest \in [session : Nat, fact : ToldFact]
  /\ observation \in ObservationRecord
  /\ telemetryRead \in [session : Nat, sequence : Nat]

InWire == 1..Len(wire)
Answers == {i \in InWire : wire[i].kind = "answer"}
Reading == telemetryRead # Observed!NotReading

\* One read, and one answer to it, at a time; nothing outlives its session.
OneAtATime ==
  /\ answering.asked => ~answering.made
  /\ answering.asked \/ answering.made => Answers = {} /\ Reading
  /\ \A i, j \in Answers : i = j
  /\ Answers # {} => Reading
  /\ Reading => telemetryRead.session = relaySession
  /\ relaySession = 0 => wire = <<>> /\ ~Reading
  /\ observation = AtNone \/ (observation.session = relaySession /\ relaySession # 0)

\* An answer has no number, also where it is recorded under one, and a phone without
\* numbers numbers nothing.
Unnumbered ==
  /\ answering.fact.sequence = 0 /\ \A i \in Answers : wire[i].fact.sequence = 0
  /\ observation.fact.sequence \in {0, observation.sequence}
  /\ latest.session = 0 => latest.fact.sequence = 0
  /\ ~modern =>
       /\ observation.sequence = 0 /\ latest.fact.sequence = 0
       /\ \A i \in InWire : wire[i].fact.sequence = 0

\* The number of the last frame that arrived.
LastSequence == IF latest.session = relaySession THEN latest.fact.sequence ELSE 0

\* With numbers, frames arrive in the order of what they tell, and what is known is
\* the last complete one, or an answer that is newer.
Numbered ==
  modern =>
    /\ relaySession # 0 /\ latest.session = relaySession =>
         /\ latest.fact.sequence \in 1..reporter.frames
         /\ latest.fact.complete =>
              observation.session = relaySession /\ observation.sequence = latest.fact.sequence
    /\ \A i \in InWire \ Answers :
         wire[i].fact.sequence > LastSequence /\ wire[i].fact.sequence <= reporter.frames
    /\ \A i, j \in InWire \ Answers : i < j => wire[i].fact.sequence < wire[j].fact.sequence
    /\ relaySession # 0 =>
         observation.sequence <= LastSequence /\ telemetryRead.sequence <= LastSequence

InOrder ==
  modern =>
    /\ observation.fact.version <= reporter.version
    /\ answering.fact.version <= reporter.version
    /\ \A i \in InWire : wire[i].fact.version <= reporter.version
    /\ \A i \in InWire \ Answers : wire[i].fact.version >= observation.fact.version
    /\ \A i \in InWire, j \in InWire \ Answers : i < j => wire[i].fact.version <= wire[j].fact.version

\* The answer to a read that no frame overtook is not older than what was known.
AnswersAreNewer ==
  modern /\ Reading /\ telemetryRead.sequence # 0
         /\ observation.sequence <= telemetryRead.sequence =>
    /\ answering.made => answering.fact.version >= observation.fact.version
    /\ \A i \in Answers : wire[i].fact.version >= observation.fact.version

ObservationInv ==
  ObservationTypes /\ OneAtATime /\ Unnumbered /\ Numbered /\ InOrder /\ AnswersAreNewer

LEMMA ObservationsBegin ==
  ASSUME Observed!ObservationsInit
  PROVE  ObservationInv
BY DEF Observed!ObservationsInit, Observed!NotAnswering, Observed!NoFact, Observed!NoFrame,
       Observed!NoObservation, Observed!NotReading, ObservationRecord, ObservationInv, ObservationTypes, ToldFact, OneAtATime, Unnumbered,
       Numbered, InOrder, AnswersAreNewer, InWire, Answers, Reading, AtNone, LastSequence

\* What is known is of the session, or nothing.
LEMMA NothingIsDropped ==
  ASSUME OneAtATime
  PROVE  Observed!Kept(observation) = observation
BY DEF OneAtATime, Observed!Kept, Observed!Ours, Observed!NoObservation, AtNone

\* The relay's last frame was admitted when it arrived: to admit it again changes nothing.
LEMMA ReadmissionIsIdle ==
  ASSUME ObservationTypes, Numbered, modern, NEW o \in ObservationRecord,
         observation.session = relaySession =>
           o.session = relaySession /\ o.sequence = observation.sequence,
         o = AtNone \/ (o.session = relaySession /\ relaySession # 0)
  PROVE  Observed!Current(o, latest) = o
<1>1. Observed!Kept(o) = o
  BY DEF Observed!Kept, Observed!Ours, Observed!NoObservation, AtNone
<1>2. CASE relaySession # 0 /\ latest.session = relaySession
  <2>1. CASE latest.fact.complete
    <3>1. Observed!Ours(o) /\ o.sequence = latest.fact.sequence /\ latest.fact.sequence # 0
      BY <1>2, <2>1 DEF Numbered, Observed!Ours
    <3>2. latest.fact.sequence \in Nat
      BY DEF ObservationTypes, ToldFact
    <3> QED
      BY <1>1, <1>2, <3>1, <3>2 DEF Observed!Current, Observed!Admit
  <2>2. CASE ~latest.fact.complete
    BY <1>1, <1>2, <2>2 DEF Observed!Current, Observed!Admit
  <2> QED
    BY <2>1, <2>2
<1>3. CASE ~(relaySession # 0 /\ latest.session = relaySession)
  BY <1>1, <1>3 DEF Observed!Current
<1> QED
  BY <1>2, <1>3

\* A phone without numbers is protected by its revision.
LEMMA AdmissionByRevision ==
  ASSUME NEW o \in ObservationRecord, NEW raw \in [session : Nat, fact : ToldFact],
         Observed!Ours(o), o.sequence = 0, raw.fact.sequence = 0
  PROVE  /\ Observed!Current(o, raw) \in ObservationRecord
         /\ Observed!Current(o, raw).sequence = 0
         /\ Observed!Current(o, raw).fact.revision >= o.fact.revision
<1>1. Observed!Kept(o) = o
  BY DEF Observed!Kept
<1>2. o.fact \in ToldFact /\ raw.fact \in ToldFact
  BY DEF ObservationRecord
<1>3. o.fact.revision \in Nat /\ raw.fact.revision \in Nat
  BY <1>2 DEF ToldFact
<1>4. relaySession \in Nat
  BY DEF Observed!Ours, ObservationRecord
<1>5. CASE /\ relaySession # 0 /\ raw.session = relaySession /\ raw.fact.complete
           /\ ~(o.fact.revision > raw.fact.revision)
  <2>1. Observed!Current(o, raw)
          = [session |-> relaySession, sequence |-> raw.fact.sequence, fact |-> raw.fact]
    BY <1>1, <1>5 DEF Observed!Current, Observed!Admit, Observed!Recorded
  <2> QED
    BY <1>2, <1>3, <1>4, <1>5, <2>1 DEF ObservationRecord
<1>6. CASE ~(/\ relaySession # 0 /\ raw.session = relaySession /\ raw.fact.complete
             /\ ~(o.fact.revision > raw.fact.revision))
  <2>1. Observed!Current(o, raw) = o
    BY <1>1, <1>6 DEF Observed!Current, Observed!Admit
  <2> QED
    BY <1>3, <2>1
<1> QED
  BY <1>5, <1>6

LEMMA CurrentIs ==
  ASSUME NEW o, NEW raw
  PROVE  Observed!Current(o, raw) \in {o, AtNone, Observed!Recorded(raw.fact.sequence, raw.fact)}
BY DEF Observed!Current, Observed!Kept, Observed!Admit, Observed!NoObservation, AtNone

LEMMA ToldIsTyped ==
  ASSUME ObservationTypes, NEW sequence \in Nat, NEW complete \in BOOLEAN
  PROVE  /\ Observed!Told(sequence, complete) \in ToldFact
         /\ Observed!Told(sequence, complete).version = reporter.version
         /\ Observed!Told(sequence, complete).sequence = sequence
         /\ Observed!NoFact \in ToldFact /\ AtNone \in ObservationRecord
BY DEF Observed!Told, ObservationTypes, ObservationRecord, ToldFact, Observed!NoFact, AtNone

\* The numbers of the facts.
LEMMA FactsAreNumbers ==
  ASSUME ObservationTypes
  PROVE  /\ observation.fact.version \in Nat /\ observation.sequence \in Nat
         /\ latest.fact.sequence \in Nat /\ answering.fact.version \in Nat
         /\ reporter.version \in Nat /\ reporter.frames \in Nat /\ reporter.revision \in Nat
         /\ telemetryRead.sequence \in Nat /\ LastSequence \in Nat /\ Len(wire) \in Nat
         /\ \A i \in InWire : /\ wire[i].fact.version \in Nat /\ wire[i].fact.sequence \in Nat
                              /\ wire[i].kind \in {"frame", "answer"} /\ wire[i].fact \in ToldFact
<1>1. /\ observation.fact \in ToldFact /\ latest.fact \in ToldFact /\ answering.fact \in ToldFact
      /\ observation.sequence \in Nat
  BY DEF ObservationTypes, ObservationRecord
<1>2. \A i \in InWire : wire[i] \in Message
  BY DEF ObservationTypes, InWire
<1>3. \A i \in InWire : wire[i].fact \in ToldFact /\ wire[i].kind \in {"frame", "answer"}
  BY <1>2 DEF Message
<1>4. \A fact \in ToldFact : fact.version \in Nat /\ fact.sequence \in Nat
  BY DEF ToldFact
<1>5. /\ reporter.version \in Nat /\ reporter.frames \in Nat /\ reporter.revision \in Nat
      /\ telemetryRead.sequence \in Nat /\ Len(wire) \in Nat
  BY DEF ObservationTypes
<1> QED
  BY <1>1, <1>3, <1>4, <1>5 DEF LastSequence

LEMMA PhoneChangesStep ==
  ASSUME ObservationInv, Observed!PhoneChanges
  PROVE  ObservationInv'
<1>1. /\ reporter'.version = reporter.version + 1 /\ reporter'.frames = reporter.frames
      /\ reporter' \in [version : Nat, revision : Nat, frames : Nat]
      /\ UNCHANGED <<modern, answering, wire, relaySession, latest, observation, telemetryRead>>
  <2>1. reporter \in [version : Nat, revision : Nat, frames : Nat]
    BY DEF ObservationInv, ObservationTypes
  <2>2. PICK devices \in BOOLEAN :
          reporter' = [reporter EXCEPT !.version = @ + 1, !.revision = IF devices THEN @ + 1 ELSE @]
    BY DEF Observed!PhoneChanges
  <2>3. reporter' \in [version : Nat, revision : Nat, frames : Nat]
    <3>1. reporter' = [version |-> reporter.version + 1, frames |-> reporter.frames,
                       revision |-> IF devices THEN reporter.revision + 1 ELSE reporter.revision]
      BY <2>1, <2>2
    <3>2. reporter.version + 1 \in Nat /\ reporter.revision + 1 \in Nat
          /\ reporter.revision \in Nat /\ reporter.frames \in Nat
      BY <2>1
    <3>3. (IF devices THEN reporter.revision + 1 ELSE reporter.revision) \in Nat
      BY <3>2
    <3> QED
      BY <3>1, <3>2, <3>3
  <2> QED
    BY <2>1, <2>2, <2>3 DEF Observed!PhoneChanges
<1>2. ObservationTypes' /\ OneAtATime' /\ Unnumbered' /\ Numbered' /\ AnswersAreNewer'
  BY <1>1 DEF ObservationInv, ObservationTypes, OneAtATime, Unnumbered, Numbered, AnswersAreNewer,
              InWire, Answers, Reading, LastSequence
<1>3. InOrder'
  <2>1. /\ reporter.version \in Nat /\ observation.fact.version \in Nat /\ answering.fact.version \in Nat
        /\ \A i \in InWire : wire[i].fact.version \in Nat
    BY FactsAreNumbers DEF ObservationInv
  <2>2. InWire' = InWire /\ Answers' = Answers
    BY <1>1 DEF InWire, Answers
  <2>3. InOrder
    BY DEF ObservationInv
  <2>4. ASSUME modern
        PROVE  /\ observation.fact.version <= reporter'.version
               /\ answering.fact.version <= reporter'.version
               /\ \A i \in InWire : wire[i].fact.version <= reporter'.version
    BY <1>1, <2>1, <2>3, <2>4 DEF InOrder
  <2> QED
    BY <1>1, <2>2, <2>3, <2>4 DEF InOrder
<1> QED
  BY <1>2, <1>3 DEF ObservationInv

LEMMA MakeAnswerStep ==
  ASSUME ObservationInv, Observed!MakeAnswer
  PROVE  ObservationInv'
<1>1. /\ answering.asked /\ answering'.made /\ ~answering'.asked
      /\ answering' \in [asked : BOOLEAN, made : BOOLEAN, fact : ToldFact]
      /\ answering'.fact.version = reporter.version /\ answering'.fact.sequence = 0
      /\ UNCHANGED <<modern, reporter, wire, relaySession, latest, observation, telemetryRead>>
  <2>1. ObservationTypes
    BY DEF ObservationInv
  <2>2. answering' = [asked |-> FALSE, made |-> TRUE, fact |-> Observed!Told(0, TRUE)]
    BY DEF Observed!MakeAnswer
  <2>3. Observed!Told(0, TRUE) \in ToldFact
        /\ Observed!Told(0, TRUE).version = reporter.version /\ Observed!Told(0, TRUE).sequence = 0
    BY <2>1, ToldIsTyped
  <2>4. /\ answering' \in [asked : BOOLEAN, made : BOOLEAN, fact : ToldFact]
        /\ answering'.made /\ ~answering'.asked /\ answering'.fact = Observed!Told(0, TRUE)
    BY <2>2, <2>3
  <2>5. /\ answering.asked
        /\ UNCHANGED <<modern, reporter, wire, relaySession, latest, observation, telemetryRead>>
    BY DEF Observed!MakeAnswer
  <2> QED
    BY <2>3, <2>4, <2>5
<1>2. ObservationTypes' /\ OneAtATime' /\ Unnumbered' /\ Numbered'
  BY <1>1 DEF ObservationInv, ObservationTypes, OneAtATime, Unnumbered, Numbered,
              InWire, Answers, Reading, LastSequence
<1>3. InOrder' /\ AnswersAreNewer'
  BY <1>1, FactsAreNumbers DEF ObservationInv, OneAtATime, InOrder, AnswersAreNewer, InWire, Answers,
                               Reading
<1> QED
  BY <1>2, <1>3 DEF ObservationInv

\* A message goes onto the connection after those that are there.
LEMMA WireGrows ==
  ASSUME ObservationTypes, NEW kind \in {"frame", "answer"}, NEW fact \in ToldFact,
         wire' = Append(wire, [kind |-> kind, fact |-> fact])
  PROVE  /\ wire' \in Seq(Message)
         /\ Len(wire') = Len(wire) + 1
         /\ \A i \in InWire : i \in InWire' /\ wire'[i] = wire[i]
         /\ \A i \in InWire' : i \in InWire \/ i = Len(wire) + 1
         /\ wire'[Len(wire) + 1].kind = kind /\ wire'[Len(wire) + 1].fact = fact
         /\ Answers' = IF kind = "answer" THEN Answers \cup {Len(wire) + 1} ELSE Answers
<1> DEFINE message == [kind |-> kind, fact |-> fact]
<1>0. message \in Message
      /\ message.kind = kind /\ message.fact = fact
  BY DEF Message
<1> HIDE DEF message
<1>1. /\ wire' \in Seq(Message)
      /\ Len(wire') = Len(wire) + 1 /\ Len(wire) \in Nat
      /\ \A i \in 1..Len(wire) : wire'[i] = wire[i]
      /\ wire'[Len(wire) + 1] = message
  BY <1>0 DEF ObservationTypes, message
<1>2. /\ \A i \in InWire : i \in InWire' /\ wire'[i] = wire[i]
      /\ \A i \in InWire' : i \in InWire \/ i = Len(wire) + 1
      /\ Len(wire) + 1 \in InWire' /\ Len(wire) + 1 \notin InWire
  BY <1>1 DEF InWire
<1>3. Answers' = IF kind = "answer" THEN Answers \cup {Len(wire) + 1} ELSE Answers
  <2>1. Answers' = {i \in InWire' : wire'[i].kind = "answer"}
    BY DEF Answers
  <2> QED
    BY <1>0, <1>1, <1>2, <2>1 DEF Answers
<1> QED
  BY <1>0, <1>1, <1>2, <1>3

LEMMA SendFrameStep ==
  ASSUME ObservationInv, Observed!SendFrame
  PROVE  ObservationInv'
<1>0. ObservationTypes
  BY DEF ObservationInv
<1>1. /\ UNCHANGED <<modern, answering, relaySession, latest, observation, telemetryRead>>
      /\ relaySession # 0
  BY DEF Observed!SendFrame
<1>2. /\ reporter' \in [version : Nat, revision : Nat, frames : Nat]
      /\ reporter'.version = reporter.version /\ reporter'.frames = reporter.frames + 1
  <2>1. reporter \in [version : Nat, revision : Nat, frames : Nat]
    BY <1>0 DEF ObservationTypes
  <2>2. reporter' = [reporter EXCEPT !.frames = @ + 1]
    BY DEF Observed!SendFrame
  <2>3. reporter' = [version |-> reporter.version, revision |-> reporter.revision,
                     frames |-> reporter.frames + 1]
    BY <2>1, <2>2
  <2>4. reporter.version \in Nat /\ reporter.revision \in Nat /\ reporter.frames + 1 \in Nat
    BY <2>1
  <2> QED
    BY <2>3, <2>4
<1>3. PICK complete \in BOOLEAN :
        wire' = Append(wire, [kind |-> "frame",
                  fact |-> Observed!Told(IF modern THEN reporter'.frames ELSE 0, complete)])
  BY DEF Observed!SendFrame
<1> DEFINE sequence == IF modern THEN reporter.frames + 1 ELSE 0
           fact == Observed!Told(sequence, complete)
<1>4. sequence \in Nat
  BY <1>0, FactsAreNumbers
<1>5. fact \in ToldFact /\ fact.version = reporter.version /\ fact.sequence = sequence
  BY <1>0, <1>4, ToldIsTyped
<1>6. wire' = Append(wire, [kind |-> "frame", fact |-> fact])
  BY <1>2, <1>3
<1> HIDE DEF fact
<1> DEFINE n == Len(wire) + 1
<1>7. /\ wire' \in Seq(Message) /\ Len(wire') = n
      /\ \A i \in InWire : i \in InWire' /\ wire'[i] = wire[i]
      /\ \A i \in InWire' : i \in InWire \/ i = n
      /\ wire'[n].kind = "frame" /\ wire'[n].fact = fact /\ Answers' = Answers
  BY <1>0, <1>5, <1>6, WireGrows
<1>8. Len(wire) \in Nat /\ \A i \in InWire : i <= Len(wire)
  BY <1>0, FactsAreNumbers DEF InWire
<1>9. Answers \subseteq InWire /\ \A i \in Answers : wire'[i] = wire[i]
  BY <1>7 DEF Answers
<1>10. ObservationTypes'
  BY <1>0, <1>1, <1>2, <1>7 DEF ObservationTypes
<1>11. OneAtATime'
  BY <1>1, <1>7 DEF ObservationInv, OneAtATime, Reading
<1>12. Unnumbered'
  BY <1>1, <1>5, <1>7, <1>9 DEF ObservationInv, Unnumbered
<1>13. ASSUME modern PROVE Numbered'
  <2>1. LastSequence' = LastSequence
    BY <1>1 DEF LastSequence
  <2>2. sequence = reporter.frames + 1 /\ LastSequence <= reporter.frames
    BY <1>0, <1>1, <1>13, FactsAreNumbers DEF ObservationInv, Numbered, LastSequence
  <2>3. \A i \in InWire \ Answers :
          wire[i].fact.sequence > LastSequence /\ wire[i].fact.sequence <= reporter.frames
    <3>1. relaySession # 0 /\ Numbered
      BY <1>1 DEF ObservationInv
    <3> QED
      BY <1>13, <3>1 DEF Numbered
  <2>4. \A i \in InWire' \ Answers' :
           wire'[i].fact.sequence > LastSequence' /\ wire'[i].fact.sequence <= reporter'.frames
    <3>1. /\ reporter.frames \in Nat /\ LastSequence \in Nat
          /\ \A i \in InWire : wire[i].fact.sequence \in Nat
      BY <1>0, FactsAreNumbers
    <3>2. \A i \in InWire \ Answers :
            wire[i].fact.sequence > LastSequence /\ wire[i].fact.sequence <= reporter.frames
      BY <2>3
    <3> SUFFICES ASSUME NEW i \in InWire' \ Answers'
                 PROVE  /\ wire'[i].fact.sequence > LastSequence
                        /\ wire'[i].fact.sequence <= reporter.frames + 1
      BY <1>2, <2>1
    <3>3. CASE i = n
      BY <1>5, <1>7, <2>2, <3>1, <3>3
    <3>4. CASE i \in InWire
      <4>1. i \in InWire \ Answers /\ wire'[i] = wire[i]
        BY <1>7, <3>4
      <4> QED
        BY <3>1, <3>2, <4>1
    <3> QED
      BY <1>7, <3>3, <3>4
  <2>5. \A i, j \in InWire' \ Answers' : i < j => wire'[i].fact.sequence < wire'[j].fact.sequence
    <3> SUFFICES ASSUME NEW i \in InWire' \ Answers', NEW j \in InWire' \ Answers', i < j
                 PROVE  wire'[i].fact.sequence < wire'[j].fact.sequence
      OBVIOUS
    <3>1. i \in InWire \ Answers
      BY <1>7, <1>8 DEF InWire
    <3>2. CASE j = n
      <4>1. wire'[i] = wire[i] /\ wire[i].fact.sequence <= reporter.frames
        BY <1>7, <2>3, <3>1
      <4>2. wire'[j].fact.sequence = reporter.frames + 1
        BY <1>5, <1>7, <2>2, <3>2
      <4>3. reporter.frames \in Nat /\ wire[i].fact.sequence \in Nat
        BY <1>0, <3>1, FactsAreNumbers
      <4> QED
        BY <4>1, <4>2, <4>3
    <3>3. CASE j \in InWire
      BY <1>7, <1>13, <3>1, <3>3 DEF ObservationInv, Numbered
    <3> QED
      BY <1>7, <3>2, <3>3
  <2> QED
    BY <1>0, <1>1, <1>2, <1>13, <2>1, <2>4, <2>5, FactsAreNumbers DEF ObservationInv, Numbered
<1>14. ASSUME modern PROVE InOrder'
  <2>1. \A i \in InWire' : wire'[i].fact.version <= reporter'.version
    BY <1>0, <1>2, <1>5, <1>7, <1>14, FactsAreNumbers DEF ObservationInv, InOrder
  <2>2. \A i \in InWire' \ Answers' : wire'[i].fact.version >= observation'.fact.version
    BY <1>0, <1>1, <1>5, <1>7, <1>14, FactsAreNumbers DEF ObservationInv, InOrder
  <2>3. \A i \in InWire', j \in InWire' \ Answers' :
          i < j => wire'[i].fact.version <= wire'[j].fact.version
    <3> SUFFICES ASSUME NEW i \in InWire', NEW j \in InWire' \ Answers', i < j
                 PROVE  wire'[i].fact.version <= wire'[j].fact.version
      OBVIOUS
    <3>1. i \in InWire
      BY <1>7, <1>8 DEF InWire
    <3>2. CASE j = n
      BY <1>5, <1>7, <1>14, <3>1, <3>2 DEF ObservationInv, InOrder
    <3>3. CASE j \in InWire
      BY <1>7, <1>14, <3>1, <3>3 DEF ObservationInv, InOrder
    <3> QED
      BY <1>7, <3>2, <3>3
  <2> QED
    BY <1>1, <1>2, <1>14, <2>1, <2>2, <2>3 DEF ObservationInv, InOrder
<1>15. AnswersAreNewer'
  BY <1>1, <1>7, <1>9 DEF ObservationInv, AnswersAreNewer, Reading
<1>16. Numbered' /\ InOrder'
  BY <1>1, <1>13, <1>14 DEF Numbered, InOrder
<1> QED
  BY <1>10, <1>11, <1>12, <1>15, <1>16 DEF ObservationInv

LEMMA SendAnswerStep ==
  ASSUME ObservationInv, Observed!SendAnswer
  PROVE  ObservationInv'
<1>0. ObservationTypes
  BY DEF ObservationInv
<1>1. /\ UNCHANGED <<modern, reporter, relaySession, latest, observation, telemetryRead>>
      /\ answering.made /\ answering' = Observed!NotAnswering
      /\ wire' = Append(wire, [kind |-> "answer", fact |-> answering.fact])
  BY DEF Observed!SendAnswer
<1> DEFINE n == Len(wire) + 1
<1>2. answering.fact \in ToldFact
  BY <1>0 DEF ObservationTypes
<1>3. Answers = {} /\ Reading
  BY <1>1 DEF ObservationInv, OneAtATime
<1>4. /\ wire' \in Seq(Message) /\ Len(wire') = n
      /\ \A i \in InWire : i \in InWire' /\ wire'[i] = wire[i]
      /\ \A i \in InWire' : i \in InWire \/ i = n
      /\ wire'[n].fact = answering.fact /\ Answers' = {n}
  BY <1>0, <1>1, <1>2, <1>3, WireGrows
<1>5. Len(wire) \in Nat /\ \A i \in InWire : i <= Len(wire)
  BY <1>0, FactsAreNumbers DEF InWire
<1>6. /\ ~answering'.asked /\ ~answering'.made
      /\ answering' \in [asked : BOOLEAN, made : BOOLEAN, fact : ToldFact]
      /\ answering'.fact.sequence = 0 /\ answering'.fact.version = 0
  <2>1. Observed!NoFact \in ToldFact /\ Observed!NoFact.sequence = 0 /\ Observed!NoFact.version = 0
    BY DEF Observed!NoFact, ToldFact
  <2> HIDE DEF Observed!NoFact
  <2> QED
    BY <1>1, <2>1 DEF Observed!NotAnswering
<1>7. ObservationTypes'
  BY <1>0, <1>1, <1>4, <1>6 DEF ObservationTypes
<1>8. OneAtATime'
  BY <1>1, <1>3, <1>4, <1>6 DEF ObservationInv, OneAtATime, Reading
<1>9. Unnumbered'
  BY <1>1, <1>4, <1>6 DEF ObservationInv, Unnumbered
<1>10. InWire' \ Answers' = InWire \ Answers
  BY <1>3, <1>4, <1>5
<1>11. Numbered'
  <2>1. LastSequence' = LastSequence
    BY <1>1 DEF LastSequence
  <2>2. \A i \in InWire \ Answers : wire'[i] = wire[i]
    BY <1>4
  <2>3. Numbered
    BY DEF ObservationInv
  <2> QED
    BY <1>1, <1>10, <2>1, <2>2, <2>3 DEF Numbered
<1>12. ASSUME modern PROVE InOrder'
  <2>1. \A i \in InWire' : wire'[i].fact.version <= reporter'.version
    BY <1>1, <1>4, <1>12 DEF ObservationInv, InOrder
  <2>2. \A i \in InWire', j \in InWire' \ Answers' :
          i < j => wire'[i].fact.version <= wire'[j].fact.version
    <3> SUFFICES ASSUME NEW i \in InWire', NEW j \in InWire \ Answers, i < j
                 PROVE  wire'[i].fact.version <= wire'[j].fact.version
      BY <1>10
    <3>1. i \in InWire
      BY <1>4, <1>5 DEF InWire
    <3> QED
      BY <1>4, <1>12, <3>1 DEF ObservationInv, InOrder
  <2>3. answering'.fact.version <= reporter'.version
    BY <1>0, <1>1, <1>6, FactsAreNumbers
  <2> QED
    BY <1>1, <1>4, <1>10, <1>12, <2>1, <2>2, <2>3 DEF ObservationInv, InOrder
<1>13. AnswersAreNewer'
  BY <1>1, <1>3, <1>4, <1>6 DEF ObservationInv, AnswersAreNewer, Reading
<1>14. InOrder'
  BY <1>1, <1>12 DEF InOrder
<1> QED
  BY <1>7, <1>8, <1>9, <1>11, <1>13, <1>14 DEF ObservationInv

OfTheSession(o) == o = AtNone \/ (o.session = relaySession /\ relaySession # 0)

LEMMA AdmissionIsTyped ==
  ASSUME ObservationTypes, OneAtATime,
         NEW o \in ObservationRecord, NEW raw \in [session : Nat, fact : ToldFact],
         OfTheSession(o)
  PROVE  /\ Observed!Current(o, raw) \in ObservationRecord
         /\ OfTheSession(Observed!Current(o, raw))
         /\ o.sequence = 0 /\ raw.fact.sequence = 0 => Observed!Current(o, raw).sequence = 0
         /\ o.fact.sequence \in {0, o.sequence}
              => Observed!Current(o, raw).fact.sequence \in {0, Observed!Current(o, raw).sequence}
<1> DEFINE new == Observed!Recorded(raw.fact.sequence, raw.fact)
<1>1. /\ AtNone \in ObservationRecord /\ AtNone.fact.sequence = 0 /\ AtNone.sequence = 0
      /\ OfTheSession(AtNone)
  BY DEF AtNone, Observed!NoFact, ObservationRecord, ToldFact, OfTheSession
<1>2. /\ new \in ObservationRecord /\ new.fact = raw.fact /\ new.sequence = raw.fact.sequence
      /\ new.session = relaySession
  <2>1. raw.fact \in ToldFact /\ relaySession \in Nat
    BY DEF ObservationTypes
  <2>2. raw.fact.sequence \in Nat
    BY <2>1 DEF ToldFact
  <2> QED
    BY <2>1, <2>2 DEF ObservationRecord, Observed!Recorded
<1> HIDE DEF new
<1>3. CASE relaySession = 0
  <2>1. Observed!Current(o, raw) \in {o, AtNone}
    BY <1>3 DEF Observed!Current, Observed!Kept, Observed!NoObservation, AtNone
  <2> QED
    BY <1>1, <2>1
<1>4. CASE relaySession # 0
  <2>1. OfTheSession(new)
    BY <1>2, <1>4 DEF OfTheSession
  <2>2. Observed!Current(o, raw) \in {o, AtNone, new}
    BY CurrentIs DEF new
  <2> QED
    BY <1>1, <1>2, <2>1, <2>2
<1> QED
  BY <1>3, <1>4

LEMMA AskTelemetryStep ==
  ASSUME ObservationInv, Observed!AskTelemetry
  PROVE  ObservationInv'
<1>0. ObservationTypes /\ OneAtATime /\ Unnumbered /\ Numbered
  BY DEF ObservationInv
<1>1. /\ UNCHANGED <<modern, reporter, wire, relaySession, latest>>
      /\ relaySession # 0 /\ ~Reading
      /\ telemetryRead' = [session |-> relaySession, sequence |-> Observed!Shown.sequence]
      /\ answering' = [answering EXCEPT !.asked = TRUE]
      /\ observation' = Observed!Current(observation, latest)
  BY DEF Observed!AskTelemetry, Reading
<1>2. /\ observation \in ObservationRecord /\ latest \in [session : Nat, fact : ToldFact]
      /\ OfTheSession(observation)
  BY <1>0 DEF ObservationTypes, OneAtATime, OfTheSession
<1>3. /\ observation' \in ObservationRecord /\ OfTheSession(observation')
      /\ observation.sequence = 0 /\ latest.fact.sequence = 0 => observation'.sequence = 0
      /\ observation'.fact.sequence \in {0, observation'.sequence}
  <2>1. observation.fact.sequence \in {0, observation.sequence}
    BY <1>0 DEF Unnumbered
  <2> QED
    BY <1>0, <1>1, <1>2, <2>1, AdmissionIsTyped
<1>4. ASSUME modern PROVE observation' = observation
  BY <1>0, <1>1, <1>2, <1>4, ReadmissionIsIdle DEF OfTheSession
<1>5. /\ Observed!Shown \in ToldFact
      /\ \/ Observed!Shown.sequence = 0 \/ Observed!Shown = observation'.fact
         \/ Observed!Shown = latest.fact /\ latest.session = relaySession
  <2>1. Observed!NoFact \in ToldFact /\ Observed!NoFact.sequence = 0
    BY DEF Observed!NoFact, ToldFact
  <2>2. latest.fact \in ToldFact /\ observation'.fact \in ToldFact
    BY <1>2, <1>3 DEF ObservationRecord
  <2>3. latest.session = 0 => latest.fact.sequence = 0
    BY <1>0 DEF Unnumbered
  <2>4. \/ Observed!Shown = Observed!NoFact \/ Observed!Shown = observation'.fact
        \/ Observed!Shown = latest.fact /\ latest.session \in {0, relaySession}
    BY <1>1 DEF Observed!Shown
  <2> QED
    BY <2>1, <2>2, <2>3, <2>4
<1>6. /\ Observed!Shown.sequence \in Nat /\ telemetryRead'.session = relaySession
      /\ telemetryRead'.sequence = Observed!Shown.sequence
      /\ telemetryRead' \in [session : Nat, sequence : Nat] /\ Reading'
  <2>1. Observed!Shown.sequence \in Nat
    BY <1>5 DEF ToldFact
  <2> QED
    BY <1>0, <1>1, <2>1 DEF ObservationTypes, Reading, Observed!NotReading
<1>7. /\ answering' \in [asked : BOOLEAN, made : BOOLEAN, fact : ToldFact]
      /\ answering'.asked /\ ~answering'.made /\ answering'.fact = answering.fact /\ Answers = {}
  BY <1>0, <1>1 DEF ObservationTypes, OneAtATime
<1>8. Answers' = {} /\ InWire' = InWire
  BY <1>1, <1>7 DEF Answers, InWire
<1>9. ObservationTypes'
  BY <1>0, <1>1, <1>3, <1>6, <1>7 DEF ObservationTypes
<1>10. OneAtATime'
  BY <1>0, <1>1, <1>3, <1>6, <1>7, <1>8 DEF OneAtATime, OfTheSession
<1>11. Unnumbered'
  BY <1>0, <1>1, <1>3, <1>7, <1>8 DEF Unnumbered
<1>12. ASSUME modern PROVE Numbered'
  <2>1. LastSequence' = LastSequence /\ telemetryRead'.sequence <= LastSequence
    <3>1. Observed!Shown.sequence <= LastSequence
      <4>1. observation'.fact.sequence \in {0, observation.sequence} /\ observation.sequence <= LastSequence
        BY <1>0, <1>1, <1>3, <1>4, <1>12 DEF Numbered
      <4>2. latest.session = relaySession => LastSequence = latest.fact.sequence
        BY DEF LastSequence
      <4>3. LastSequence \in Nat /\ latest.fact.sequence \in Nat
        BY <1>0, FactsAreNumbers
      <4> QED
        BY <1>5, <4>1, <4>2, <4>3
    <3> QED
      BY <1>1, <1>6, <3>1 DEF LastSequence
  <2> QED
    BY <1>0, <1>1, <1>4, <1>7, <1>8, <1>12, <2>1 DEF Numbered
<1>13. Numbered' /\ InOrder'
  <2>1. ASSUME modern PROVE InOrder'
    BY <1>1, <1>4, <1>7, <1>8, <2>1 DEF ObservationInv, InOrder
  <2> QED
    BY <1>1, <1>12, <2>1 DEF Numbered, InOrder
<1>14. AnswersAreNewer'
  BY <1>7, <1>8 DEF AnswersAreNewer
<1> QED
  BY <1>9, <1>10, <1>11, <1>13, <1>14 DEF ObservationInv

LEMMA SessionStep ==
  ASSUME ObservationInv, Observed!SessionEnds \/ Observed!SessionBegins
  PROVE  ObservationInv'
<1>0. ObservationTypes /\ OneAtATime /\ Unnumbered /\ Numbered
  BY DEF ObservationInv
<1>1. /\ Observed!NoFact \in ToldFact /\ Observed!NoFact.sequence = 0 /\ Observed!NoFact.version = 0
      /\ AtNone.fact = Observed!NoFact /\ AtNone.sequence = 0 /\ AtNone \in ObservationRecord
  BY DEF Observed!NoFact, ToldFact, AtNone, ObservationRecord
<1>2. wire' = <<>> /\ Answers' = {} /\ InWire' = {} /\ UNCHANGED <<modern, latest>>
  <2>1. wire' = <<>> /\ UNCHANGED <<modern, latest>>
    BY <1>0 DEF Observed!SessionEnds, Observed!SessionBegins, OneAtATime
  <2> QED
    BY <2>1 DEF Answers, InWire
<1>3. CASE Observed!SessionEnds
  <2>1. /\ relaySession' = 0 /\ answering' = Observed!NotAnswering /\ UNCHANGED reporter
        /\ telemetryRead' = Observed!NotReading /\ observation' = AtNone
    BY <1>3 DEF Observed!SessionEnds, Observed!NoObservation, AtNone
  <2>2. /\ ~answering'.asked /\ ~answering'.made /\ answering'.fact = Observed!NoFact
        /\ answering' \in [asked : BOOLEAN, made : BOOLEAN, fact : ToldFact]
        /\ telemetryRead' \in [session : Nat, sequence : Nat] /\ ~Reading'
    BY <1>1, <2>1 DEF Observed!NotAnswering, Observed!NotReading, Reading
  <2>3. ObservationTypes'
    BY <1>0, <1>1, <1>2, <2>1, <2>2 DEF ObservationTypes
  <2>4. OneAtATime' /\ Unnumbered' /\ Numbered' /\ AnswersAreNewer'
    BY <1>0, <1>1, <1>2, <2>1, <2>2 DEF OneAtATime, Unnumbered, Numbered, AnswersAreNewer
  <2>5. InOrder'
    BY <1>0, <1>1, <1>2, <2>1, <2>2, FactsAreNumbers DEF InOrder
  <2> QED
    BY <2>3, <2>4, <2>5 DEF ObservationInv
<1>4. CASE Observed!SessionBegins
  <2>1. /\ relaySession = 0 /\ relaySession' = 2 /\ ~Reading /\ latest.session < 2
        /\ observation = AtNone /\ ~answering.asked /\ ~answering.made
        /\ UNCHANGED <<answering, observation, telemetryRead>>
        /\ telemetryRead.sequence = 0
    BY <1>0, <1>4 DEF Observed!SessionBegins, OneAtATime, Reading, Observed!NotReading
  <2>2. /\ reporter' \in [version : Nat, revision : Nat, frames : Nat]
        /\ reporter'.version = reporter.version
    BY <1>0, <1>4 DEF Observed!SessionBegins, ObservationTypes
  <2>3. ObservationTypes'
    BY <1>0, <1>2, <2>1, <2>2 DEF ObservationTypes
  <2>4. latest.session # 2 /\ LastSequence' = 0
    BY <1>0, <1>2, <2>1 DEF ObservationTypes, LastSequence
  <2>5. OneAtATime' /\ Unnumbered' /\ AnswersAreNewer'
    BY <1>0, <1>2, <2>1 DEF OneAtATime, Unnumbered, AnswersAreNewer, Reading
  <2>6. Numbered'
    BY <1>1, <1>2, <2>1, <2>4 DEF Numbered
  <2>7. InOrder'
    BY <1>2, <2>1, <2>2 DEF ObservationInv, InOrder
  <2> QED
    BY <2>3, <2>5, <2>6, <2>7 DEF ObservationInv
<1> QED
  BY <1>3, <1>4

\* The connection without one of its messages, and where the others were.
WithoutMessage(k) ==
  /\ k \in InWire /\ wire' \in Seq(Message) /\ Len(wire') = Len(wire) - 1
  /\ \A i \in 1..(Len(wire) - 1) : wire'[i] = IF i < k THEN wire[i] ELSE wire[i + 1]
Was(i, k) == IF i < k THEN i ELSE i + 1

LEMMA HeadTaken ==
  ASSUME ObservationTypes, wire # <<>>, wire' = Tail(wire)
  PROVE  WithoutMessage(1) /\ Head(wire) = wire[1] /\ wire[1] \in Message
<1>1. Len(wire) \in Nat /\ Len(wire) > 0
  BY DEF ObservationTypes
<1>2. /\ wire' \in Seq(Message) /\ Len(wire') = Len(wire) - 1
      /\ \A i \in 1..(Len(wire) - 1) : wire'[i] = wire[i + 1]
  BY <1>1 DEF ObservationTypes
<1>3. Head(wire) = wire[1] /\ wire[1] \in Message
  BY <1>1 DEF ObservationTypes
<1> QED
  BY <1>1, <1>2, <1>3 DEF WithoutMessage, InWire

LEMMA AnswerDropped ==
  ASSUME ObservationTypes, NEW k \in InWire, wire' = Observed!Unheard(k)
  PROVE  WithoutMessage(k)
<1>1. /\ wire \in Seq(Message) /\ k \in 1..Len(wire)
  BY DEF ObservationTypes, InWire
<1>2. /\ Workflow!RemoveAt(wire, k) \in Seq(Message)
      /\ Len(Workflow!RemoveAt(wire, k)) = Len(wire) - 1
      /\ \A i \in 1..(Len(wire) - 1) :
           Workflow!RemoveAt(wire, k)[i] = IF i < k THEN wire[i] ELSE wire[i + 1]
  BY <1>1, RemovedAt
<1>3. wire' = Workflow!RemoveAt(wire, k)
  BY DEF Observed!Unheard, Workflow!RemoveAt
<1> QED
  BY <1>2, <1>3 DEF WithoutMessage

\* What is left stands in the order it stood in.
LEMMA OrderIsKept ==
  ASSUME ObservationTypes, NEW k, WithoutMessage(k)
  PROVE  /\ \A i \in InWire' : /\ Was(i, k) \in InWire \ {k} /\ wire'[i] = wire[Was(i, k)]
                               /\ i \in Answers' <=> Was(i, k) \in Answers
         /\ \A i, j \in InWire' : i < j => Was(i, k) < Was(j, k)
         /\ \A i, j \in InWire' : Was(i, k) = Was(j, k) => i = j
         /\ Answers' \subseteq InWire' /\ wire' \in Seq(Message)
<1>1. Len(wire) \in Nat /\ k \in 1..Len(wire) /\ InWire' = 1..(Len(wire) - 1)
  BY DEF ObservationTypes, WithoutMessage, InWire
<1>2. \A i \in InWire' : Was(i, k) \in InWire \ {k} /\ wire'[i] = wire[Was(i, k)]
  BY <1>1 DEF WithoutMessage, Was, InWire
<1>3. \A i \in InWire' : i \in Answers' <=> Was(i, k) \in Answers
  BY <1>2 DEF Answers
<1>4. \A i, j \in InWire' : i < j => Was(i, k) < Was(j, k)
  BY <1>1 DEF Was
<1>5. \A i, j \in InWire' : Was(i, k) = Was(j, k) => i = j
  BY <1>1 DEF Was
<1> QED
  BY <1>2, <1>3, <1>4, <1>5 DEF Answers, WithoutMessage

\* What holds of the messages still holds when one of them is gone.
LEMMA ShorterWire ==
  ASSUME ObservationInv, NEW k, WithoutMessage(k), UNCHANGED <<modern, reporter>>
  PROVE  /\ \A i, j \in Answers' : i = j
         /\ k \in Answers => Answers' = {}
         /\ \A i \in Answers' : wire'[i].fact.sequence = 0
         /\ ~modern => \A i \in InWire' : wire'[i].fact.sequence = 0
         /\ modern =>
              /\ \A i, j \in InWire' \ Answers' : i < j => wire'[i].fact.sequence < wire'[j].fact.sequence
              /\ \A i \in InWire' : wire'[i].fact.version <= reporter'.version
              /\ \A i \in InWire', j \in InWire' \ Answers' :
                   i < j => wire'[i].fact.version <= wire'[j].fact.version
<1>0. ObservationTypes /\ OneAtATime
  BY DEF ObservationInv
<1>1. /\ \A i \in InWire' : /\ Was(i, k) \in InWire \ {k} /\ wire'[i] = wire[Was(i, k)]
                            /\ i \in Answers' <=> Was(i, k) \in Answers
      /\ \A i, j \in InWire' : i < j => Was(i, k) < Was(j, k)
      /\ \A i, j \in InWire' : Was(i, k) = Was(j, k) => i = j
      /\ Answers' \subseteq InWire'
  BY <1>0, OrderIsKept
<1>2. /\ \A i, j \in Answers' : i = j
      /\ k \in Answers => Answers' = {}
      /\ \A i \in Answers' : wire'[i].fact.sequence = 0
  BY <1>0, <1>1 DEF OneAtATime, ObservationInv, Unnumbered
<1>3. ~modern => \A i \in InWire' : wire'[i].fact.sequence = 0
  BY <1>1 DEF ObservationInv, Unnumbered
<1>4. ASSUME modern
      PROVE  /\ \A i, j \in InWire' \ Answers' : i < j => wire'[i].fact.sequence < wire'[j].fact.sequence
             /\ \A i \in InWire' : wire'[i].fact.version <= reporter'.version
             /\ \A i \in InWire', j \in InWire' \ Answers' :
                  i < j => wire'[i].fact.version <= wire'[j].fact.version
  BY <1>1, <1>4 DEF ObservationInv, Numbered, InOrder
<1> QED
  BY <1>2, <1>3, <1>4

LEMMA ReadFailsStep ==
  ASSUME ObservationInv, Observed!ReadFails
  PROVE  ObservationInv'
<1>0. ObservationTypes /\ OneAtATime /\ Unnumbered /\ Numbered /\ InOrder
  BY DEF ObservationInv
<1>1. /\ UNCHANGED <<modern, reporter, relaySession, latest, observation>>
      /\ telemetryRead' = Observed!NotReading /\ answering' = Observed!NotAnswering
      /\ wire' = IF Observed!Answer = {} THEN wire
                 ELSE Observed!Unheard(CHOOSE i \in Observed!Answer : TRUE)
  BY DEF Observed!ReadFails
<1>2. Observed!Answer = Answers
  BY <1>0 DEF Observed!Answer, Answers, InWire, ObservationTypes
<1>3. /\ ~answering'.asked /\ ~answering'.made /\ ~Reading'
      /\ answering' \in [asked : BOOLEAN, made : BOOLEAN, fact : ToldFact]
      /\ answering'.fact.sequence = 0 /\ answering'.fact.version = 0
      /\ telemetryRead' \in [session : Nat, sequence : Nat] /\ telemetryRead'.sequence = 0
  <2>1. Observed!NoFact \in ToldFact /\ Observed!NoFact.sequence = 0 /\ Observed!NoFact.version = 0
    BY DEF Observed!NoFact, ToldFact
  <2> HIDE DEF Observed!NoFact
  <2> QED
    BY <1>1, <2>1 DEF Observed!NotAnswering, Observed!NotReading, Reading
\* What is asked of the messages, and that there is no answer among them.
<1> DEFINE Shorter ==
      /\ wire' \in Seq(Message) /\ Answers' = {}
      /\ \A i \in InWire' : \E j \in InWire : wire'[i] = wire[j] /\ j \notin Answers
      /\ ~modern => \A i \in InWire' : wire'[i].fact.sequence = 0
      /\ modern =>
           /\ \A i, j \in InWire' : i < j => wire'[i].fact.sequence < wire'[j].fact.sequence
           /\ \A i \in InWire' : wire'[i].fact.version <= reporter'.version
           /\ \A i, j \in InWire' : i < j => wire'[i].fact.version <= wire'[j].fact.version
<1>4. Shorter
  <2>1. CASE Answers = {}
    <3>1. wire' = wire /\ InWire' = InWire /\ Answers' = Answers
      BY <1>1, <1>2, <2>1 DEF InWire, Answers
    <3> QED
      BY <1>0, <1>1, <2>1, <3>1 DEF ObservationTypes, Unnumbered, Numbered, InOrder
  <2>2. CASE Answers # {}
    <3>1. PICK k \in Answers : wire' = Observed!Unheard(k)
      BY <1>1, <1>2, <2>2
    <3>2. WithoutMessage(k)
      BY <1>0, <3>1, AnswerDropped DEF Answers
    <3>3. \A i \in InWire' : wire'[i] = wire[Was(i, k)] /\ Was(i, k) \in InWire /\ Was(i, k) \notin Answers
      BY <1>0, <3>1, <3>2, OrderIsKept, ShorterWire DEF OneAtATime
    <3> QED
      BY <1>1, <3>1, <3>2, <3>3, ShorterWire DEF WithoutMessage
  <2> QED
    BY <2>1, <2>2
<1> HIDE DEF Shorter
<1>5. ObservationTypes'
  BY <1>0, <1>1, <1>3, <1>4 DEF ObservationTypes, Shorter
<1>6. OneAtATime'
  <2>1. relaySession = 0 => wire' = <<>>
    BY <1>0, <1>1, <1>2 DEF OneAtATime, Answers, InWire
  <2> QED
    BY <1>0, <1>1, <1>3, <1>4, <2>1 DEF OneAtATime, Shorter
<1>7. Unnumbered'
  BY <1>0, <1>1, <1>3, <1>4 DEF Unnumbered, Shorter
<1>8. ASSUME modern PROVE Numbered'
  <2>1. LastSequence' = LastSequence
    BY <1>1 DEF LastSequence
  <2>2. \A i \in InWire' \ Answers' :
          wire'[i].fact.sequence > LastSequence' /\ wire'[i].fact.sequence <= reporter'.frames
    BY <1>0, <1>1, <1>4, <1>8, <2>1 DEF Numbered, Shorter
  <2>3. relaySession # 0 =>
          observation.sequence <= LastSequence /\ telemetryRead'.sequence <= LastSequence
    BY <1>0, <1>3, <1>8, FactsAreNumbers DEF Numbered
  <2>4. \A i, j \in InWire' : i < j => wire'[i].fact.sequence < wire'[j].fact.sequence
    BY <1>4, <1>8 DEF Shorter
  <2> QED
    BY <1>0, <1>1, <1>8, <2>1, <2>2, <2>3, <2>4 DEF Numbered
<1>9. ASSUME modern PROVE InOrder'
  <2>1. \A i \in InWire' \ Answers' : wire'[i].fact.version >= observation'.fact.version
    BY <1>0, <1>1, <1>4, <1>9 DEF InOrder, Shorter
  <2>2. answering'.fact.version <= reporter'.version
    BY <1>0, <1>1, <1>3, FactsAreNumbers
  <2> QED
    BY <1>0, <1>1, <1>4, <1>9, <2>1, <2>2 DEF InOrder, Shorter
<1>10. Numbered' /\ InOrder' /\ AnswersAreNewer'
  BY <1>1, <1>3, <1>8, <1>9 DEF Numbered, InOrder, AnswersAreNewer
<1> QED
  BY <1>5, <1>6, <1>7, <1>10 DEF ObservationInv

LEMMA FrameArrivesStep ==
  ASSUME ObservationInv, Observed!FrameArrives
  PROVE  /\ ObservationInv'
         /\ modern =>
              /\ observation'.fact.version >= observation.fact.version
              /\ observation'.sequence >= observation.sequence
              /\ latest'.fact.complete => observation'.fact = latest'.fact
<1>0. ObservationTypes /\ OneAtATime /\ Unnumbered /\ Numbered /\ InOrder /\ AnswersAreNewer
  BY DEF ObservationInv
<1> DEFINE message == wire[1]
<1>1. /\ UNCHANGED <<modern, reporter, answering, relaySession, telemetryRead>>
      /\ wire # <<>> /\ Head(wire).kind = "frame" /\ wire' = Tail(wire)
      /\ latest' = [session |-> relaySession, fact |-> Head(wire).fact]
      /\ observation' = Observed!Current(observation, latest')
  BY DEF Observed!FrameArrives
<1>2. WithoutMessage(1) /\ Head(wire) = message /\ message \in Message
  BY <1>0, <1>1, HeadTaken
<1>3. 1 \in InWire /\ 1 \notin Answers /\ message.fact \in ToldFact
  BY <1>1, <1>2 DEF WithoutMessage, Answers, Message
<1>4. /\ latest' \in [session : Nat, fact : ToldFact]
      /\ latest'.session = relaySession /\ latest'.fact = message.fact
  BY <1>0, <1>1, <1>2, <1>3 DEF ObservationTypes
<1>5. /\ observation \in ObservationRecord /\ OfTheSession(observation)
      /\ relaySession # 0
  BY <1>0, <1>1 DEF ObservationTypes, OneAtATime, OfTheSession
<1>6. /\ observation' \in ObservationRecord /\ OfTheSession(observation')
      /\ observation.sequence = 0 /\ message.fact.sequence = 0 => observation'.sequence = 0
      /\ observation'.fact.sequence \in {0, observation'.sequence}
  <2>1. observation.fact.sequence \in {0, observation.sequence}
    BY <1>0 DEF Unnumbered
  <2> QED
    BY <1>0, <1>1, <1>4, <1>5, <2>1, AdmissionIsTyped
\* A frame with a number is newer than what is known; only an incomplete one is not taken.
<1>7. ASSUME modern
      PROVE  observation' = IF message.fact.complete
                            THEN Observed!Recorded(message.fact.sequence, message.fact)
                            ELSE observation
  <2>1. Observed!Kept(observation) = observation
    BY <1>0, NothingIsDropped
  <2>2. observation' = Observed!Admit(observation, message.fact)
    BY <1>1, <1>4, <1>5, <2>1 DEF Observed!Current
  <2>3. ~(message.fact.sequence <= observation.sequence) /\ message.fact.sequence # 0
    BY <1>0, <1>3, <1>5, <1>7, FactsAreNumbers DEF Numbered
  <2> QED
    BY <2>2, <2>3 DEF Observed!Admit
<1>8. /\ \A i \in InWire' : /\ Was(i, 1) \in InWire \ {1} /\ wire'[i] = wire[Was(i, 1)]
                            /\ i \in Answers' <=> Was(i, 1) \in Answers
      /\ Answers' \subseteq InWire' /\ wire' \in Seq(Message)
      /\ \A i \in InWire' : Was(i, 1) > 1
  <2>1. \A i \in InWire' : Was(i, 1) > 1
    BY DEF Was, InWire
  <2> QED
    BY <1>0, <1>2, <2>1, OrderIsKept
<1>9. ObservationTypes'
  BY <1>0, <1>1, <1>4, <1>6, <1>8 DEF ObservationTypes
<1>10. OneAtATime'
  <2>1. Answers = {} => Answers' = {}
    BY <1>8
  <2>2. \A i, j \in Answers' : i = j
    BY <1>1, <1>2, ShorterWire
  <2> QED
    BY <1>0, <1>1, <1>5, <1>6, <1>8, <2>1, <2>2 DEF OneAtATime, OfTheSession, Reading
<1>11. Unnumbered'
  <2>1. \A i \in Answers' : wire'[i].fact.sequence = 0
    BY <1>1, <1>2, ShorterWire
  <2>2. ASSUME ~modern
        PROVE  /\ observation'.sequence = 0 /\ latest'.fact.sequence = 0
               /\ \A i \in InWire' : wire'[i].fact.sequence = 0
    <3>1. message.fact.sequence = 0 /\ observation.sequence = 0
      BY <1>0, <1>3, <2>2 DEF Unnumbered
    <3>2. \A i \in InWire' : wire'[i].fact.sequence = 0
      BY <1>1, <1>2, <2>2, ShorterWire
    <3> QED
      BY <1>4, <1>6, <3>1, <3>2
  <2> QED
    BY <1>0, <1>1, <1>4, <1>5, <1>6, <2>1, <2>2 DEF Unnumbered
<1>12. ASSUME modern PROVE Numbered' /\ AnswersAreNewer'
  <2>1. /\ LastSequence' = message.fact.sequence /\ LastSequence < message.fact.sequence
        /\ message.fact.sequence \in 1..reporter.frames
    BY <1>0, <1>1, <1>3, <1>4, <1>12, FactsAreNumbers DEF Numbered, LastSequence
  <2>2. \A i \in InWire' \ Answers' :
          wire'[i].fact.sequence > LastSequence' /\ wire'[i].fact.sequence <= reporter'.frames
    BY <1>0, <1>1, <1>3, <1>8, <1>12, <2>1 DEF Numbered
  <2>3. \A i, j \in InWire' \ Answers' : i < j => wire'[i].fact.sequence < wire'[j].fact.sequence
    BY <1>1, <1>2, <1>12, ShorterWire
  <2>4. observation'.sequence <= LastSequence' /\ telemetryRead'.sequence <= LastSequence'
        /\ (message.fact.complete => observation'.session = relaySession
                                   /\ observation'.sequence = message.fact.sequence)
        /\ telemetryRead.sequence < message.fact.sequence
    <3>1. /\ observation.sequence <= LastSequence /\ telemetryRead.sequence <= LastSequence
      BY <1>0, <1>5, <1>12 DEF Numbered
    <3>2. /\ observation.sequence \in Nat /\ telemetryRead.sequence \in Nat
          /\ LastSequence \in Nat /\ message.fact.sequence \in Nat
      BY <1>0, <2>1, FactsAreNumbers
    <3>3. message.fact.complete =>
            observation'.session = relaySession /\ observation'.sequence = message.fact.sequence
      BY <1>7, <1>12 DEF Observed!Recorded
    <3>4. ~message.fact.complete => observation' = observation
      BY <1>7, <1>12
    <3>5. telemetryRead' = telemetryRead
      BY <1>1
    <3> HIDE DEF message
    <3> QED
      BY <2>1, <3>1, <3>2, <3>3, <3>4, <3>5
  <2>5. Numbered'
    BY <1>1, <1>4, <2>1, <2>2, <2>3, <2>4 DEF Numbered
  <2>6. AnswersAreNewer'
    <3>1. CASE message.fact.complete
      BY <1>0, <1>1, <1>12, <2>1, <2>4, <3>1, FactsAreNumbers DEF AnswersAreNewer
    <3>2. CASE ~message.fact.complete
      BY <1>0, <1>1, <1>7, <1>8, <1>12, <3>2 DEF AnswersAreNewer, Reading
    <3> QED
      BY <3>1, <3>2
  <2> QED
    BY <2>5, <2>6
<1>c. ASSUME modern
      PROVE  observation'.fact = IF message.fact.complete THEN message.fact ELSE observation.fact
  BY <1>7, <1>c DEF Observed!Recorded
<1>13. ASSUME modern PROVE InOrder' /\ observation'.fact.version >= observation.fact.version
  <2>1. \A i \in InWire' \ Answers' : wire'[i].fact.version >= observation'.fact.version
    <3> SUFFICES ASSUME NEW i \in InWire' \ Answers'
                 PROVE  wire'[i].fact.version >= observation'.fact.version
      OBVIOUS
    <3>1. Was(i, 1) \in InWire \ Answers /\ wire'[i] = wire[Was(i, 1)] /\ 1 < Was(i, 1)
      BY <1>8
    <3>2. /\ wire[Was(i, 1)].fact.version >= observation.fact.version
          /\ wire[1].fact.version <= wire[Was(i, 1)].fact.version
          /\ wire[1].fact.version \in Nat /\ wire[Was(i, 1)].fact.version \in Nat
      BY <1>0, <1>3, <1>13, <3>1, FactsAreNumbers DEF InOrder
    <3> QED
      BY <1>c, <1>13, <3>1, <3>2
  <2>2. /\ observation'.fact.version <= reporter'.version
        /\ observation'.fact.version >= observation.fact.version
    BY <1>0, <1>1, <1>3, <1>c, <1>13, FactsAreNumbers DEF InOrder
  <2>3. /\ \A i \in InWire' : wire'[i].fact.version <= reporter'.version
        /\ \A i \in InWire', j \in InWire' \ Answers' :
             i < j => wire'[i].fact.version <= wire'[j].fact.version
    BY <1>1, <1>2, <1>13, ShorterWire
  <2> QED
    BY <1>0, <1>1, <1>13, <2>1, <2>2, <2>3 DEF InOrder
<1>14. Numbered' /\ InOrder' /\ AnswersAreNewer'
  BY <1>1, <1>12, <1>13 DEF Numbered, InOrder, AnswersAreNewer
<1>15. ASSUME modern
       PROVE  /\ observation'.sequence >= observation.sequence
              /\ latest'.fact.complete => observation'.fact = latest'.fact
  <2>1. /\ observation.sequence \in Nat /\ message.fact.sequence \in Nat
        /\ ~message.fact.complete => observation' = observation
        /\ message.fact.complete => observation'.sequence = message.fact.sequence
    BY <1>0, <1>3, <1>7, <1>15, FactsAreNumbers DEF Observed!Recorded
  <2>2. observation.sequence < message.fact.sequence
    BY <1>0, <1>3, <1>5, <1>15, <2>1, FactsAreNumbers DEF Numbered
  <2> HIDE DEF message
  <2> QED
    BY <1>4, <1>c, <1>15, <2>1, <2>2
<1> QED
  BY <1>9, <1>10, <1>11, <1>13, <1>14, <1>15 DEF ObservationInv

\* An answer is admitted unless a later frame is known to have overtaken it, and is
\* recorded under the number of what it replaces.
LEMMA ReadIs ==
  ASSUME ObservationTypes, OneAtATime, NEW fact \in ToldFact, NEW s \in Nat, relaySession # 0
  PROVE  LET o == Observed!AdmitRead(observation, fact, s) IN
         /\ o \in ObservationRecord /\ OfTheSession(o) /\ o.sequence = observation.sequence
         /\ o = observation \/ (o.session = relaySession /\ o.fact = fact)
         /\ observation.session = relaySession =>
              /\ o.session = relaySession
              /\ o.fact.revision >= observation.fact.revision
              /\ s # 0 /\ observation.sequence > s => o = observation
<1> DEFINE o == Observed!AdmitRead(observation, fact, s)
           new == Observed!Recorded(observation.sequence, fact)
<1>1. /\ observation \in ObservationRecord /\ OfTheSession(observation)
      /\ observation.fact \in ToldFact /\ relaySession \in Nat
      /\ observation.sequence \in Nat
  BY DEF ObservationTypes, ObservationRecord, OneAtATime, OfTheSession
<1>2. observation.fact.revision \in Nat /\ fact.revision \in Nat
  BY <1>1 DEF ToldFact
<1>3. /\ new \in ObservationRecord /\ OfTheSession(new) /\ new.session = relaySession
      /\ new.sequence = observation.sequence /\ new.fact = fact
  BY <1>1 DEF Observed!Recorded, ObservationRecord, OfTheSession
<1>4. CASE observation.session # relaySession
  <2>1. observation.sequence = 0
    BY <1>1, <1>4 DEF OfTheSession, AtNone
  <2>2. o = new
    BY <1>4, <2>1 DEF Observed!AdmitRead, Observed!Ours
  <2> HIDE DEF new, o
  <2> QED
    BY <1>3, <1>4, <2>2 DEF o
<1>5. CASE observation.session = relaySession
  <2>1. o = IF \/ observation.fact.revision > fact.revision
               \/ s # 0 /\ observation.sequence > s
            THEN observation ELSE new
    BY <1>5 DEF Observed!AdmitRead, Observed!Ours
  <2> HIDE DEF new
  <2> HIDE DEF o
  <2>2. CASE o = observation
    <3>1. o.fact.revision >= observation.fact.revision
      BY <1>2, <2>2
    <3> QED
      BY <1>1, <1>5, <2>2, <3>1 DEF o
  <2>3. CASE o # observation
    <3>1. o = new /\ ~(observation.fact.revision > fact.revision)
          /\ ~(s # 0 /\ observation.sequence > s)
      BY <2>1, <2>3
    <3>2. fact.revision >= observation.fact.revision
      BY <1>2, <3>1
    <3> QED
      BY <1>3, <1>5, <3>1, <3>2 DEF o
  <2> QED
    BY <2>2, <2>3
<1> QED
  BY <1>4, <1>5

LEMMA AnswerArrivesStep ==
  ASSUME ObservationInv, Observed!AnswerArrives
  PROVE  /\ ObservationInv' /\ Reading /\ ~Reading'
         /\ observation.session = relaySession =>
              /\ ~modern => observation'.fact.revision >= observation.fact.revision
              /\ modern => observation'.sequence >= observation.sequence
              /\ modern /\ telemetryRead.sequence # 0
                   => observation'.fact.version >= observation.fact.version
<1>0. ObservationTypes /\ OneAtATime /\ Unnumbered /\ Numbered /\ InOrder /\ AnswersAreNewer
  BY DEF ObservationInv
<1> DEFINE answer == wire[1]
           s == telemetryRead.sequence
           o == Observed!AdmitRead(observation, answer.fact, s)
<1>1. /\ UNCHANGED <<modern, reporter, answering, relaySession, latest>>
      /\ wire # <<>> /\ Head(wire).kind = "answer" /\ wire' = Tail(wire)
      /\ telemetryRead' = Observed!NotReading
      /\ observation' = IF telemetryRead.session # relaySession THEN observation
           ELSE Observed!Current(Observed!AdmitRead(Observed!Kept(observation), Head(wire).fact,
                                                    telemetryRead.sequence), latest)
  BY DEF Observed!AnswerArrives
<1>2. WithoutMessage(1) /\ Head(wire) = answer /\ answer \in Message
  BY <1>0, <1>1, HeadTaken
<1>3. 1 \in InWire /\ 1 \in Answers /\ answer.fact \in ToldFact
  BY <1>1, <1>2 DEF WithoutMessage, Answers, Message
<1>4. /\ Reading /\ telemetryRead.session = relaySession /\ relaySession # 0
      /\ ~answering.asked /\ ~answering.made /\ s \in Nat
  BY <1>0, <1>1, <1>3, FactsAreNumbers DEF OneAtATime
<1>5. observation' = Observed!Current(o, latest)
  <2>1. Observed!Kept(observation) = observation
    BY <1>0, NothingIsDropped
  <2> QED
    BY <1>1, <1>2, <1>4, <2>1
<1>6. /\ o \in ObservationRecord /\ OfTheSession(o) /\ o.sequence = observation.sequence
      /\ o = observation \/ (o.session = relaySession /\ o.fact = answer.fact)
      /\ observation.session = relaySession =>
           /\ o.session = relaySession
           /\ o.fact.revision >= observation.fact.revision
           /\ s # 0 /\ observation.sequence > s => o = observation
  BY <1>0, <1>3, <1>4, ReadIs
<1> HIDE DEF o
<1>7. latest \in [session : Nat, fact : ToldFact]
  BY <1>0 DEF ObservationTypes
<1>8. /\ observation' \in ObservationRecord /\ OfTheSession(observation')
      /\ o.sequence = 0 /\ latest.fact.sequence = 0 => observation'.sequence = 0
      /\ observation'.fact.sequence \in {0, observation'.sequence}
  <2>1. o.fact.sequence \in {0, o.sequence}
    BY <1>0, <1>3, <1>6 DEF Unnumbered
  <2> QED
    BY <1>0, <1>5, <1>6, <1>7, <2>1, AdmissionIsTyped
<1>9. ASSUME modern PROVE observation' = o
  BY <1>0, <1>5, <1>6, <1>9, ReadmissionIsIdle DEF OfTheSession
<1>10. /\ Answers' = {} /\ wire' \in Seq(Message) /\ ~Reading'
       /\ \A i \in InWire' : /\ Was(i, 1) \in InWire \ Answers /\ wire'[i] = wire[Was(i, 1)]
                             /\ 1 < Was(i, 1)
       /\ telemetryRead' \in [session : Nat, sequence : Nat] /\ telemetryRead'.sequence = 0
  <2>1. Answers' = {}
    BY <1>1, <1>2, <1>3, ShorterWire
  <2>2. \A i \in InWire' : Was(i, 1) > 1
    BY DEF Was, InWire
  <2> QED
    BY <1>0, <1>1, <1>2, <2>1, <2>2, OrderIsKept DEF Reading, Observed!NotReading
<1>11. ObservationTypes'
  BY <1>0, <1>1, <1>8, <1>10 DEF ObservationTypes
<1>12. OneAtATime'
  BY <1>0, <1>1, <1>4, <1>8, <1>10 DEF OneAtATime, OfTheSession
<1>13. ASSUME ~modern PROVE o.sequence = 0 /\ latest.fact.sequence = 0
  BY <1>0, <1>3, <1>6, <1>13 DEF Unnumbered
<1>14. Unnumbered'
  BY <1>0, <1>1, <1>2, <1>8, <1>13, ShorterWire DEF Unnumbered
<1>15. ASSUME modern PROVE Numbered'
  <2>1. LastSequence' = LastSequence
    BY <1>1 DEF LastSequence
  <2>2. \A i \in InWire' \ Answers' :
          wire'[i].fact.sequence > LastSequence' /\ wire'[i].fact.sequence <= reporter'.frames
    BY <1>0, <1>1, <1>10, <1>15, <2>1 DEF Numbered
  <2>3. \A i, j \in InWire' \ Answers' : i < j => wire'[i].fact.sequence < wire'[j].fact.sequence
    BY <1>1, <1>2, <1>15, ShorterWire
  <2>4. /\ observation.session = relaySession => observation'.session = relaySession
        /\ observation'.sequence = observation.sequence
    BY <1>6, <1>9, <1>15
  <2>5. observation'.sequence <= LastSequence
    BY <1>0, <1>4, <1>15, <2>4 DEF Numbered
  <2>6. relaySession # 0 /\ latest.session = relaySession /\ latest.fact.complete
          => observation'.session = relaySession /\ observation'.sequence = latest.fact.sequence
    BY <1>0, <1>15, <2>4 DEF Numbered
  <2>7. 0 <= LastSequence
    BY <1>0, FactsAreNumbers
  <2> QED
    BY <1>0, <1>1, <1>10, <1>15, <2>1, <2>2, <2>3, <2>5, <2>6, <2>7 DEF Numbered
<1>16. ASSUME modern PROVE InOrder'
  <2>1. o = observation \/ o.fact.version = answer.fact.version
    BY <1>6
  <2>2. observation'.fact.version <= reporter'.version
    BY <1>0, <1>1, <1>3, <1>9, <1>16, <2>1 DEF InOrder
  <2>3. \A i \in InWire' \ Answers' : wire'[i].fact.version >= observation'.fact.version
    <3> SUFFICES ASSUME NEW i \in InWire' PROVE wire'[i].fact.version >= observation'.fact.version
      OBVIOUS
    <3>1. /\ wire'[i].fact.version >= observation.fact.version
          /\ answer.fact.version <= wire'[i].fact.version
          /\ answer.fact.version \in Nat /\ wire'[i].fact.version \in Nat
      BY <1>0, <1>3, <1>10, <1>16, FactsAreNumbers DEF InOrder
    <3> QED
      BY <1>9, <1>16, <2>1, <3>1
  <2>4. /\ \A i \in InWire' : wire'[i].fact.version <= reporter'.version
        /\ \A i \in InWire', j \in InWire' \ Answers' :
             i < j => wire'[i].fact.version <= wire'[j].fact.version
    BY <1>1, <1>2, <1>16, ShorterWire
  <2> QED
    BY <1>0, <1>1, <1>16, <2>2, <2>3, <2>4 DEF InOrder
<1>17. ObservationInv'
  <2>1. Numbered' /\ InOrder' /\ AnswersAreNewer'
    BY <1>1, <1>10, <1>15, <1>16 DEF Numbered, InOrder, AnswersAreNewer
  <2> QED
    BY <1>11, <1>12, <1>14, <2>1 DEF ObservationInv
<1>18. ASSUME observation.session = relaySession, ~modern
       PROVE  observation'.fact.revision >= observation.fact.revision
  <2>1. /\ Observed!Ours(o) /\ o.fact.revision >= observation.fact.revision
        /\ o.sequence = 0 /\ latest.fact.sequence = 0
    BY <1>4, <1>6, <1>13, <1>18 DEF Observed!Ours
  <2>2. Observed!Current(o, latest).fact.revision >= o.fact.revision
    BY <1>6, <1>7, <2>1, AdmissionByRevision
  <2>3. \A fact \in ToldFact : fact.revision \in Nat
    BY DEF ToldFact
  <2>4. o.fact \in ToldFact /\ observation.fact \in ToldFact /\ observation'.fact \in ToldFact
    BY <1>0, <1>6, <1>8 DEF ObservationTypes, ObservationRecord
  <2> QED
    BY <1>5, <2>1, <2>2, <2>3, <2>4
<1>19. ASSUME observation.session = relaySession, modern, s # 0
       PROVE  observation'.fact.version >= observation.fact.version
  <2>1. CASE observation.sequence > s
    BY <1>0, <1>6, <1>9, <1>19, <2>1, FactsAreNumbers
  <2>2. CASE ~(observation.sequence > s)
    <3>1. answer.fact.version >= observation.fact.version
      BY <1>0, <1>3, <1>4, <1>19, <2>2, FactsAreNumbers DEF AnswersAreNewer
    <3> QED
      BY <1>0, <1>6, <1>9, <1>19, <3>1, FactsAreNumbers
  <2> QED
    BY <2>1, <2>2
<1>20. ASSUME modern PROVE observation'.sequence >= observation.sequence
  BY <1>0, <1>6, <1>9, <1>20, FactsAreNumbers
<1> QED
  BY <1>4, <1>10, <1>17, <1>18, <1>19, <1>20

ObservedVars == <<modern, reporter, answering, wire, relaySession, latest, observation, telemetryRead>>

LEMMA ObservationStep ==
  ASSUME ObservationInv, Observed!ObservationsNext
  PROVE  ObservationInv'
BY PhoneChangesStep, SendFrameStep, MakeAnswerStep, SendAnswerStep, AskTelemetryStep,
   FrameArrivesStep, AnswerArrivesStep, ReadFailsStep, SessionStep DEF Observed!ObservationsNext

LEMMA ObservationRests ==
  ASSUME ObservationInv, UNCHANGED ObservedVars
  PROVE  ObservationInv'
BY DEF ObservedVars, ObservationInv, ObservationTypes, OneAtATime, Unnumbered, Numbered, InOrder,
       AnswersAreNewer, InWire, Answers, Reading, LastSequence

LEMMA ObservationInvHolds == Spec => [](part = "observations" => ObservationInv)
<1>1. Init => (part = "observations" => ObservationInv)
  BY ObservationsBegin DEF Init, PartsInit
<1>2. (part = "observations" => ObservationInv) /\ [Next]_consoleRunVars
        => (part = "observations" => ObservationInv)'
  <2> SUFFICES ASSUME part = "observations" => ObservationInv, [Next]_consoleRunVars,
                      part' = "observations"
               PROVE  ObservationInv'
    OBVIOUS
  <2>1. part = "observations"
    BY DEF Next, consoleRunVars
  <2>2. CASE Observed!ObservationsNext
    BY <2>1, <2>2, ObservationStep
  <2>3. CASE UNCHANGED observed
    BY <2>1, <2>3, ObservationRests DEF observed, ObservedVars
  <2> QED
    BY <2>1, <2>2, <2>3 DEF Next, consoleRunVars
<1> QED
  BY <1>1, <1>2, PTL DEF Spec

\* What a step may do to what is known of a phone.
MovesOn ==
  /\ observation.session # 0 /\ observation'.session = observation.session =>
       /\ ~modern => observation'.fact.revision >= observation.fact.revision
       /\ modern => observation'.sequence >= observation.sequence
       /\ modern /\ observation'.fact.version < observation.fact.version
            => Reading /\ ~Reading' /\ telemetryRead.sequence = 0
  /\ modern /\ latest' # latest /\ latest'.fact.complete => observation'.fact = latest'.fact

LEMMA OthersMoveOn ==
  ASSUME ObservationInv, UNCHANGED <<observation, latest>>
  PROVE  MovesOn
<1>1. observation.fact \in ToldFact /\ observation.sequence \in Nat
  BY DEF ObservationInv, ObservationTypes, ObservationRecord
<1>2. observation.fact.revision \in Nat /\ observation.fact.version \in Nat
  BY <1>1 DEF ToldFact
<1> QED
  BY <1>1, <1>2 DEF MovesOn

LEMMA ObservationsStepMovesOn ==
  ASSUME ObservationInv, Observed!ObservationsNext
  PROVE  MovesOn
<1>0. ObservationTypes /\ OneAtATime /\ Unnumbered /\ Numbered /\ ObservationInv'
  BY ObservationStep DEF ObservationInv
<1>n. \A fact \in ToldFact : fact.revision \in Nat /\ fact.version \in Nat
  BY DEF ToldFact
<1>1. CASE \/ Observed!PhoneChanges \/ Observed!SendFrame \/ Observed!MakeAnswer
           \/ Observed!SendAnswer \/ Observed!ReadFails \/ Observed!SessionBegins
  BY <1>1, OthersMoveOn DEF Observed!PhoneChanges, Observed!SendFrame, Observed!MakeAnswer,
     Observed!SendAnswer, Observed!ReadFails, Observed!SessionBegins
<1>2. CASE Observed!SessionEnds
  BY <1>2 DEF Observed!SessionEnds, Observed!NoObservation, MovesOn
<1>t. /\ observation.fact \in ToldFact /\ observation'.fact \in ToldFact
      /\ observation.sequence \in Nat /\ observation'.sequence \in Nat
  BY <1>0 DEF ObservationInv, ObservationTypes, ObservationRecord
<1>3. CASE Observed!AskTelemetry \/ Observed!FrameArrives
  <2>1. PICK raw \in [session : Nat, fact : ToldFact] :
          /\ observation' = Observed!Current(observation, raw)
          /\ ~modern => raw.fact.sequence = 0
    <3>1. CASE Observed!AskTelemetry
      BY <1>0, <3>1 DEF Observed!AskTelemetry, ObservationTypes, Unnumbered
    <3>2. CASE Observed!FrameArrives
      BY <1>0, <3>2 DEF Observed!FrameArrives, ObservationInv, ObservationTypes, Unnumbered
    <3> QED
      BY <1>3, <3>1, <3>2
  <2>2. ASSUME ~modern, observation.session # 0
        PROVE  observation'.fact.revision >= observation.fact.revision
    <3>1. Observed!Ours(observation) /\ observation.sequence = 0
          /\ observation \in ObservationRecord
      BY <1>0, <2>2 DEF Observed!Ours, OneAtATime, AtNone, Unnumbered, ObservationTypes
    <3> QED
      BY <2>1, <2>2, <3>1, AdmissionByRevision
  <2>3. ASSUME modern
        PROVE  /\ observation'.fact.version >= observation.fact.version
               /\ observation'.sequence >= observation.sequence
               /\ latest' # latest /\ latest'.fact.complete => observation'.fact = latest'.fact
    <3>1. CASE Observed!FrameArrives
      BY <2>3, <3>1, FrameArrivesStep
    <3>2. CASE Observed!AskTelemetry
      <4>1. observation' = observation /\ latest' = latest
        BY <1>0, <2>3, <3>2, ReadmissionIsIdle DEF Observed!AskTelemetry, ObservationTypes, OneAtATime
      <4> QED
        BY <1>n, <1>t, <4>1
    <3> QED
      BY <1>3, <3>1, <3>2
  <2> QED
    BY <1>n, <1>t, <2>2, <2>3 DEF MovesOn
<1>4. CASE Observed!AnswerArrives
  <2>1. ASSUME observation.session # 0 PROVE observation.session = relaySession
    BY <1>0, <2>1 DEF OneAtATime, AtNone
  <2>2. latest' = latest
    BY <1>4 DEF Observed!AnswerArrives
  <2> QED
    BY <1>4, <1>n, <1>t, <2>1, <2>2, AnswerArrivesStep DEF MovesOn
<1> QED
  BY <1>1, <1>2, <1>3, <1>4 DEF Observed!ObservationsNext

LEMMA KnowledgeMovesOn == Spec => Observed!ObservationsMoveOn
<1> DEFINE Moves ==
      /\ Observed!SameSession =>
           /\ ~modern => observation'.fact.revision >= observation.fact.revision
           /\ modern => observation'.sequence >= observation.sequence
           /\ modern /\ Observed!Back => Observed!Answered /\ telemetryRead.sequence = 0
      /\ modern /\ latest' # latest /\ latest'.fact.complete => observation'.fact = latest'.fact
<1>1. (part = "observations" => ObservationInv) /\ [Next]_consoleRunVars
        => [Moves]_Observed!observationVars
  <2> SUFFICES ASSUME part = "observations" => ObservationInv, [Next]_consoleRunVars,
                      ~UNCHANGED Observed!observationVars
               PROVE  Moves
    OBVIOUS
  <2>1. part = "observations" /\ Observed!ObservationsNext
    BY DEF Next, consoleRunVars, observed, Observed!observationVars
  <2>2. MovesOn
    BY <2>1, ObservationsStepMovesOn
  <2> QED
    BY <2>2 DEF MovesOn, Observed!SameSession, Observed!Back, Observed!Answered, Reading
<1> QED
  BY <1>1, ObservationInvHolds, PTL DEF Spec, Observed!ObservationsMoveOn

LEMMA RoutesStayInFlight == Spec => Workflow!RouteIsNotChangedInFlight
<1>1. (part \in Workflows => WorkflowInv) /\ [Next]_consoleRunVars 
        => [Workflow!RoutesStay]_Workflow!workflowVars
  <2> SUFFICES ASSUME part \in Workflows => WorkflowInv, [Next]_consoleRunVars PROVE Workflow!RoutesStay
    OBVIOUS
  <2>1. CASE assignments' = assignments
    BY <2>1 DEF Workflow!RoutesStay, Workflow!RouteStays
  <2>2. CASE part \in Workflows /\ Workflow!WorkflowNext
    <3>1. assignments \in [Phone -> Nat] /\ epochs \in [Phone -> Nat]
      BY <2>2 DEF WorkflowInv, PhonesTypeOK
    <3>2. ASSUME NEW d \in Phone,
                 Workflow!ClearAssignment(d) \/ \E id \in Workflow!RouteId : Workflow!AssignRoute(d, id)
          PROVE  Workflow!RoutesStay
      BY <3>1, <3>2 DEF Workflow!ClearAssignment, Workflow!AssignRoute, Workflow!StableTask,
                       Workflow!RoutesStay, Workflow!RouteStays
    <3>3. ASSUME NEW d \in Phone, Workflow!GraceEnds(d) PROVE Workflow!RoutesStay
      BY <3>1, <3>3 DEF Workflow!GraceEnds, Workflow!RoutesStay, Workflow!RouteStays
    <3>4. \/ assignments' = assignments
          \/ \E d \in Phone : \/ Workflow!ClearAssignment(d) \/ Workflow!GraceEnds(d)
                              \/ \E id \in Workflow!RouteId : Workflow!AssignRoute(d, id)
      BY <2>2 DEF Workflow!WorkflowNext, Workflow!Imports, Workflow!SelectRoute, Workflow!RemoveRoute,
         Workflow!StageMission, Workflow!MissionSettles, Workflow!ComesBack, Workflow!GoesAway,
         Workflow!SessionReplaced, Workflow!MediaReady, Workflow!SelectVideo, Workflow!ClearVideo,
         Workflow!phoneVars
    <3> QED
      BY <2>1, <3>2, <3>3, <3>4
  <2> QED
    BY <2>1, <2>2 DEF Next, consoleRunVars, phones
<1> QED
  BY <1>1, WorkflowInvHolds, PTL DEF Spec, Workflow!RouteIsNotChangedInFlight

\* What is known of a phone moves on: it is recorded under the newest complete frame, which
\* is known as soon as it arrives, and only the answer to a read that was asked while no frame
\* was shown puts an older state in its place.  A mission keeps the route it was staged with.
THEOREM FactsAndRoutesAlwaysHold == Spec => FactsAndRoutesHold
BY KnowledgeMovesOn, RoutesStayInFlight DEF FactsAndRoutesHold

-----------------------------------------------------------------------------
(* The buttons of the flight page *)

ClickRecord == [action : Arm!Actions, phone : Phone, age : Nat]
HandlerRecord == [step : Arm!Steps, of : Nat]
Known(c) == c \in 1..Len(clicks)

ArmTypes ==
  /\ turnedTo \in Phone
  /\ clicks \in Seq(ClickRecord) /\ Len(clicks) <= MaxArmClicks
  /\ handlers \in [0..MaxArmClicks -> HandlerRecord]
  /\ atStation \in [Phone -> Nat]
  /\ sent \subseteq [asked : Nat, by : Nat]
  /\ held # 0 => Known(held)
  /\ noticed # 0 => Known(noticed)
  /\ \A k \in 1..MaxArmClicks : handlers[k].step # "done" => Known(k)

\* A confirmation the station still has was asked for once, for its phone, and was not sent.
StationKnows ==
  \A d \in Phone : atStation[d] # 0 =>
    /\ Known(atStation[d]) /\ clicks[atStation[d]].phone = d
    /\ handlers[atStation[d]].step # "cancelled"
    /\ \A s \in sent : s.asked # atStation[d]

SentOnce ==
  /\ \A s \in sent :
       /\ Known(s.asked) /\ Known(s.by) /\ handlers[s.asked].step # "cancelled"
       /\ clicks[s.asked].action = clicks[s.by].action /\ clicks[s.asked].phone = clicks[s.by].phone
       /\ clicks[s.by].action \in Armable => s.asked < s.by
  /\ \A s, t \in sent : s.asked = t.asked => s = t

\* A request of an armed button ends with setting its timer.
WillSettle(k) ==
  handlers[k].step \in {"asked", "refused", "settle"} /\ clicks[k].action \in Armable
TimerFollows == armTimer = armed \/ \E k \in 1..MaxArmClicks : WillSettle(k)

ArmInv == ArmTypes /\ StationKnows /\ SentOnce /\ TimerFollows
ArmVars == <<turnedTo, armed, armTimer, held, noticed, atStation, lapsed, clicks, handlers, sent,
             turns, notices>>

LEMMA ArmAssumed == MaxArmClicks \in Nat /\ Armable \cap Single = {}
BY ConsoleHolds DEF Arm!ArmPanelAssumption

LEMMA ArmBegins ==
  ASSUME Arm!ArmPanelInit
  PROVE  ArmInv
<1>1. ArmTypes
  <2>1. [step |-> "done", of |-> 0] \in HandlerRecord
    BY DEF HandlerRecord, Arm!Steps
  <2>2. handlers \in [0..MaxArmClicks -> HandlerRecord]
    BY <2>1 DEF Arm!ArmPanelInit, Arm!ClickOr0
  <2>3. \A k \in 1..MaxArmClicks : handlers[k].step = "done"
    BY ArmAssumed DEF Arm!ArmPanelInit, Arm!ClickOr0
  <2> QED
    BY <2>2, <2>3, ArmAssumed DEF Arm!ArmPanelInit, ArmTypes
<1> QED
  BY <1>1 DEF Arm!ArmPanelInit, ArmInv, StationKnows, SentOnce, TimerFollows

\* Clicks are only added, and an old one keeps its button and its phone.
ClicksKeep ==
  /\ clicks' \in Seq(ClickRecord)
  /\ \A c : Known(c) => /\ Known(c)' /\ clicks'[c].action = clicks[c].action
                        /\ clicks'[c].phone = clicks[c].phone

LEMMA ClickAdds ==
  ASSUME ArmTypes, NEW act \in Arm!Actions, Arm!Clicks(act)
  PROVE  /\ ClicksKeep /\ Len(clicks') <= MaxArmClicks
         /\ ~Known(Arm!ThisClick) /\ Arm!ThisClick \in 1..Len(clicks') /\ Arm!ThisClick \in 1..MaxArmClicks
         /\ clicks'[Arm!ThisClick].action = act /\ clicks'[Arm!ThisClick].phone = turnedTo
         /\ \A c : Known(c) => c < Arm!ThisClick
<1> DEFINE click == [action |-> act, phone |-> turnedTo, age |-> 0]
<1>1. click \in ClickRecord /\ click.action = act /\ click.phone = turnedTo
  BY DEF ClickRecord, ArmTypes
<1>2. Len(clicks) < MaxArmClicks /\ clicks' = Append(clicks, click)
  BY DEF Arm!Clicks, Arm!Fresh
<1> HIDE DEF click
<1>3. /\ clicks' \in Seq(ClickRecord) /\ Len(clicks') = Len(clicks) + 1 /\ Len(clicks) \in Nat
      /\ \A c \in 1..Len(clicks) : clicks'[c] = clicks[c]
      /\ clicks'[Len(clicks) + 1] = click
  BY <1>1, <1>2 DEF ArmTypes
<1>4. ClicksKeep
  <2>1. \A c \in 1..Len(clicks) : c \in 1..Len(clicks')
    BY <1>3
  <2> QED
    BY <1>3, <2>1 DEF ClicksKeep, Known
<1>5. /\ Len(clicks') <= MaxArmClicks /\ Arm!ThisClick = Len(clicks) + 1
      /\ Arm!ThisClick \in 1..MaxArmClicks
  BY <1>2, <1>3, ArmAssumed DEF Arm!ThisClick
<1>6. ~Known(Arm!ThisClick) /\ Arm!ThisClick \in 1..Len(clicks') /\ \A c : Known(c) => c < Arm!ThisClick
  BY <1>3, <1>5 DEF Known, Arm!ThisClick
<1> QED
  BY <1>1, <1>3, <1>4, <1>5, <1>6

LEMMA ClickGrows ==
  ASSUME ArmTypes, NEW k \in 1..Len(clicks), Arm!Grows(k)
  PROVE  ClicksKeep /\ Len(clicks') = Len(clicks)
<1>1. clicks[k] \in ClickRecord
  BY DEF ArmTypes
<1>2. [clicks[k] EXCEPT !.age = @ + 1] \in ClickRecord
  BY <1>1 DEF ClickRecord
<1>3. clicks' = [clicks EXCEPT ![k] = [clicks[k] EXCEPT !.age = @ + 1]]
  BY DEF Arm!Grows
<1>4. clicks' \in Seq(ClickRecord) /\ Len(clicks') = Len(clicks)
  BY <1>2, <1>3 DEF ArmTypes
<1>5. \A c \in 1..Len(clicks) :
        clicks'[c].action = clicks[c].action /\ clicks'[c].phone = clicks[c].phone
  BY <1>1, <1>3 DEF ClickRecord, ArmTypes
<1> QED
  BY <1>4, <1>5 DEF ClicksKeep, Known

LEMMA HandlerMoves ==
  ASSUME ArmTypes, NEW k \in 0..MaxArmClicks, NEW step \in Arm!Steps, NEW c \in Nat,
         Arm!At(k, step, c)
  PROVE  /\ handlers' \in [0..MaxArmClicks -> HandlerRecord]
         /\ handlers'[k].step = step /\ handlers'[k].of = c
         /\ \A j \in 0..MaxArmClicks : j # k => handlers'[j] = handlers[j]
BY DEF Arm!At, ArmTypes, HandlerRecord

\* A handler that has asked, or never will, does not come to ask.
HandlersGoOn ==
  \A j : Known(j) /\ handlers[j].step # "cancelled" => handlers'[j].step # "cancelled"

LEMMA StationForgets ==
  ASSUME StationKnows, SentOnce, ClicksKeep, HandlersGoOn, UNCHANGED sent,
         \A d \in Phone : atStation'[d] \in {atStation[d], 0}
  PROVE  StationKnows' /\ SentOnce'
<1>1. StationKnows'
  BY DEF StationKnows, ClicksKeep, HandlersGoOn
<1>2. SentOnce'
  <2>1. \A s \in sent' :
       /\ (s.asked \in 1..Len(clicks')) /\ (s.by \in 1..Len(clicks'))
       /\ handlers'[s.asked].step # "cancelled"
       /\ clicks'[s.asked].action = clicks'[s.by].action /\ clicks'[s.asked].phone = clicks'[s.by].phone
       /\ clicks'[s.by].action \in Armable => s.asked < s.by
    BY DEF SentOnce, ClicksKeep, HandlersGoOn, Known
  <2> QED
    BY <2>1 DEF SentOnce, Known
<1> QED
  BY <1>1, <1>2

LEMMA AskIsNew ==
  ASSUME ArmTypes, StationKnows, SentOnce, ClicksKeep, HandlersGoOn, UNCHANGED sent,
         NEW k \in 1..Len(clicks'), NEW d \in Phone, clicks'[k].phone = d,
         handlers'[k].step # "cancelled", \A s \in sent : s.asked # k,
         atStation' = [atStation EXCEPT ![d] = k]
  PROVE  StationKnows' /\ SentOnce'
<1>1. SentOnce'
  <2>1. \A s \in sent' :
       /\ (s.asked \in 1..Len(clicks')) /\ (s.by \in 1..Len(clicks'))
       /\ handlers'[s.asked].step # "cancelled"
       /\ clicks'[s.asked].action = clicks'[s.by].action /\ clicks'[s.asked].phone = clicks'[s.by].phone
       /\ clicks'[s.by].action \in Armable => s.asked < s.by
    BY DEF SentOnce, ClicksKeep, HandlersGoOn, Known
  <2> QED
    BY <2>1 DEF SentOnce, Known
<1>2. ASSUME NEW e \in Phone, atStation'[e] # 0
      PROVE  /\ atStation'[e] \in 1..Len(clicks') /\ clicks'[atStation'[e]].phone = e
             /\ handlers'[atStation'[e]].step # "cancelled"
             /\ \A s \in sent' : s.asked # atStation'[e]
  <2>1. CASE e = d
    <3>1. atStation'[e] = k
      BY <2>1 DEF ArmTypes
    <3> QED
      BY <2>1, <3>1
  <2>2. CASE e # d
    <3>1. atStation'[e] = atStation[e]
      BY <2>2 DEF ArmTypes
    <3>2. Known(atStation[e]) /\ clicks[atStation[e]].phone = e
          /\ handlers[atStation[e]].step # "cancelled" /\ \A s \in sent : s.asked # atStation[e]
      BY <1>2, <3>1 DEF StationKnows
    <3> QED
      BY <3>1, <3>2 DEF ClicksKeep, HandlersGoOn, Known
  <2> QED
    BY <2>1, <2>2
<1> QED
  BY <1>1, <1>2 DEF StationKnows, Known

\* What is confirmed leaves the station, and had not been sent.
LEMMA ConfirmSendsOnce ==
  ASSUME ArmTypes, StationKnows, SentOnce, ClicksKeep, HandlersGoOn,
         NEW k \in 1..Len(clicks'), NEW c, Known(c), Arm!Confirms(k, c),
         clicks'[k].action = clicks[c].action, clicks'[k].phone = clicks[c].phone,
         clicks[c].action \in Armable => c < k
  PROVE  StationKnows' /\ SentOnce' /\ sent' \subseteq [asked : Nat, by : Nat]
<1> DEFINE d == clicks[c].phone
<1>1. d \in Phone /\ c # 0 /\ c \in Nat /\ k \in Nat
  <2>1. c \in 1..Len(clicks) /\ clicks \in Seq(ClickRecord) /\ clicks' \in Seq(ClickRecord)
    BY DEF ArmTypes, Known, ClicksKeep
  <2>2. Len(clicks) \in Nat /\ Len(clicks') \in Nat /\ clicks[c] \in ClickRecord
    BY <2>1
  <2> QED
    BY <2>1, <2>2 DEF ClickRecord
<1>2. CASE UNCHANGED sent
  <2>1. \A e \in Phone : atStation'[e] \in {atStation[e], 0}
    BY <1>1 DEF Arm!Confirms, Arm!PhoneOf, ArmTypes
  <2> QED
    BY <1>2, <2>1, StationForgets DEF ArmTypes
<1>3. CASE ~UNCHANGED sent
  <2> DEFINE new == [asked |-> c, by |-> k]
  <2>1. /\ atStation[d] = c /\ atStation' = [atStation EXCEPT ![d] = 0] /\ sent' = sent \cup {new}
    BY <1>3 DEF Arm!Confirms, Arm!PhoneOf
  <2>2. new.asked = c /\ new.by = k /\ new \in [asked : Nat, by : Nat]
    BY <1>1
  <2> HIDE DEF new
  <2>3. /\ handlers[c].step # "cancelled" /\ \A s \in sent : s.asked # c
        /\ \A e \in Phone : e # d => atStation[e] # c
    BY <1>1, <2>1 DEF StationKnows
  <2>4. \A s \in sent' :
       /\ (s.asked \in 1..Len(clicks')) /\ (s.by \in 1..Len(clicks'))
       /\ handlers'[s.asked].step # "cancelled"
       /\ clicks'[s.asked].action = clicks'[s.by].action /\ clicks'[s.asked].phone = clicks'[s.by].phone
       /\ clicks'[s.by].action \in Armable => s.asked < s.by
    <3> SUFFICES ASSUME NEW s \in sent'
                 PROVE  /\ (s.asked \in 1..Len(clicks')) /\ (s.by \in 1..Len(clicks'))
                        /\ handlers'[s.asked].step # "cancelled"
                        /\ clicks'[s.asked].action = clicks'[s.by].action
                        /\ clicks'[s.asked].phone = clicks'[s.by].phone
                        /\ clicks'[s.by].action \in Armable => s.asked < s.by
      OBVIOUS
    <3>1. CASE s = new
      BY <2>2, <2>3, <3>1 DEF ClicksKeep, HandlersGoOn, Known
    <3>2. CASE s \in sent
      BY <3>2 DEF SentOnce, ClicksKeep, HandlersGoOn, Known
    <3> QED
      BY <2>1, <3>1, <3>2
  <2>5. \A s, t \in sent' : s.asked = t.asked => s = t
    BY <2>1, <2>2, <2>3 DEF SentOnce
  <2>6. SentOnce'
    BY <2>4, <2>5 DEF SentOnce, Known
  <2>7. ASSUME NEW e \in Phone, atStation'[e] # 0
        PROVE  /\ atStation'[e] \in 1..Len(clicks') /\ clicks'[atStation'[e]].phone = e
               /\ handlers'[atStation'[e]].step # "cancelled"
               /\ \A s \in sent' : s.asked # atStation'[e]
    <3>1. e # d /\ atStation'[e] = atStation[e]
      BY <1>1, <2>1, <2>7 DEF ArmTypes
    <3>2. Known(atStation[e]) /\ clicks[atStation[e]].phone = e
          /\ handlers[atStation[e]].step # "cancelled" /\ \A s \in sent : s.asked # atStation[e]
      BY <2>7, <3>1 DEF StationKnows
    <3> QED
      BY <2>1, <2>2, <2>3, <3>1, <3>2 DEF ClicksKeep, HandlersGoOn, Known
  <2> QED
    BY <2>1, <2>2, <2>6, <2>7 DEF StationKnows, Known, ArmTypes
<1> QED
  BY <1>2, <1>3

LEMMA ArmTypesFollow ==
  ASSUME ArmTypes, ClicksKeep, Len(clicks') <= MaxArmClicks, turnedTo' \in Phone,
         handlers' \in [0..MaxArmClicks -> HandlerRecord],
         \A k \in 1..MaxArmClicks : handlers'[k].step # "done" => k \in 1..Len(clicks'),
         atStation' \in [Phone -> Nat], sent' \subseteq [asked : Nat, by : Nat],
         held' \in {0} \cup 1..Len(clicks'), noticed' \in {0} \cup 1..Len(clicks')
  PROVE  ArmTypes'
BY DEF ArmTypes, ClicksKeep, Known

LEMMA ClicksRest ==
  ASSUME ArmTypes, UNCHANGED clicks
  PROVE  ClicksKeep /\ Len(clicks') <= MaxArmClicks
BY DEF ArmTypes, ClicksKeep, Known

\* What the page holds or saw is a click that was made.
LEMMA HeldIsAClick ==
  ASSUME ArmTypes, ClicksKeep
  PROVE  held \in {0} \cup 1..Len(clicks') /\ noticed \in {0} \cup 1..Len(clicks')
BY DEF ArmTypes, ClicksKeep, Known

LEMMA OneHandlerMoves ==
  ASSUME ArmTypes, ClicksKeep, NEW k \in 0..MaxArmClicks, NEW step \in Arm!Steps, NEW c \in Nat,
         Arm!At(k, step, c), k # 0 => k \in 1..Len(clicks')
  PROVE  /\ handlers' \in [0..MaxArmClicks -> HandlerRecord]
         /\ handlers'[k].step = step
         /\ \A j \in 1..MaxArmClicks : handlers'[j].step # "done" => j \in 1..Len(clicks')
         /\ (step # "cancelled" \/ ~Known(k)) => HandlersGoOn
<1>1. /\ handlers' \in [0..MaxArmClicks -> HandlerRecord]
      /\ handlers'[k].step = step /\ handlers'[k].of = c
      /\ \A j \in 0..MaxArmClicks : j # k => handlers'[j] = handlers[j]
  BY HandlerMoves
<1>2. ASSUME NEW j \in 1..MaxArmClicks, handlers'[j].step # "done" PROVE j \in 1..Len(clicks')
  <2>1. j \in 0..MaxArmClicks /\ j # 0
    BY ArmAssumed
  <2>2. CASE j = k
    BY <2>1, <2>2
  <2>3. CASE j # k
    BY <1>1, <1>2, <2>1, <2>3 DEF ArmTypes, ClicksKeep, Known
  <2> QED
    BY <2>2, <2>3
<1>3. \A j : Known(j) => j \in 0..MaxArmClicks
  BY ArmAssumed DEF ArmTypes, Known
<1>4. ASSUME step # "cancelled" \/ ~Known(k) PROVE HandlersGoOn
  BY <1>1, <1>3, <1>4 DEF HandlersGoOn
<1> QED
  BY <1>1, <1>2, <1>4

LEMMA TimerRests ==
  ASSUME ArmTypes, TimerFollows, ClicksKeep, UNCHANGED <<armed, armTimer>>,
         NEW k \in 0..MaxArmClicks,
         \A j \in 0..MaxArmClicks : j # k => handlers'[j] = handlers[j],
         k \in 1..MaxArmClicks /\ WillSettle(k) => handlers'[k].step = "settle"
  PROVE  TimerFollows'
<1>1. CASE armTimer = armed
  BY <1>1 DEF TimerFollows
<1>2. CASE \E j \in 1..MaxArmClicks : WillSettle(j)
  <2>1. PICK j \in 1..MaxArmClicks : WillSettle(j)
    BY <1>2
  <2>2. Known(j)
    BY <2>1 DEF WillSettle, ArmTypes
  <2>3. clicks'[j].action \in Armable
    BY <2>1, <2>2 DEF WillSettle, ClicksKeep
  <2>4. handlers'[j].step \in {"asked", "refused", "settle"}
    BY <2>1, ArmAssumed DEF WillSettle
  <2> QED
    BY <2>3, <2>4 DEF TimerFollows, WillSettle
<1> QED
  BY <1>1, <1>2 DEF TimerFollows

\* Steps that move no handler and leave the station as it is or forgetting.
LEMMA OthersStep ==
  ASSUME ArmInv, UNCHANGED <<handlers, sent>>, turnedTo' \in Phone,
         ClicksKeep, Len(clicks') <= MaxArmClicks,
         atStation' \in [Phone -> Nat], \A d \in Phone : atStation'[d] \in {atStation[d], 0},
         held' \in {0} \cup 1..Len(clicks'), noticed' \in {0} \cup 1..Len(clicks'),
         UNCHANGED <<armed, armTimer>> \/ armTimer' = armed'
  PROVE  ArmInv'
<1>1. ArmTypes /\ StationKnows /\ SentOnce /\ TimerFollows
  BY DEF ArmInv
<1>2. HandlersGoOn
  BY DEF HandlersGoOn
<1>3. StationKnows' /\ SentOnce'
  BY <1>1, <1>2, StationForgets
<1>4. ArmTypes'
  <2>1. \A k \in 1..MaxArmClicks : handlers'[k].step # "done" => k \in 1..Len(clicks')
    BY <1>1 DEF ArmTypes, ClicksKeep, Known
  <2> QED
    BY <1>1, <2>1, ArmTypesFollow DEF ArmTypes
<1>5. TimerFollows'
  <2>1. CASE UNCHANGED <<armed, armTimer>>
    <3>1. 0 \in 0..MaxArmClicks
      BY ArmAssumed
    <3> QED
      BY <1>1, <2>1, <3>1, TimerRests, ArmAssumed
  <2>2. CASE armTimer' = armed'
    BY <2>2 DEF TimerFollows
  <2> QED
    BY <2>1, <2>2
<1> QED
  BY <1>3, <1>4, <1>5 DEF ArmInv

\* A request of a click that has not asked before: taken as the pending one, or refused.
LEMMA AsksStep ==
  ASSUME ArmTypes, StationKnows, SentOnce, ClicksKeep, UNCHANGED sent,
         NEW k \in 1..MaxArmClicks, k \in 1..Len(clicks'), NEW c \in Nat,
         Known(k) => handlers[k].step = "cancelled",
         Arm!Asks(k, clicks'[k].phone, c)
  PROVE  /\ StationKnows' /\ SentOnce'
         /\ handlers' \in [0..MaxArmClicks -> HandlerRecord] /\ atStation' \in [Phone -> Nat]
         /\ \A j \in 1..MaxArmClicks : handlers'[j].step # "done" => j \in 1..Len(clicks')
         /\ handlers'[k].step \in {"asked", "refused"}
<1>1. k \in 0..MaxArmClicks /\ k \in Nat /\ k # 0
  BY ArmAssumed
<1>2. PICK step \in {"asked", "refused"} :
        /\ Arm!At(k, step, c)
        /\ atStation' = IF step = "asked" THEN [atStation EXCEPT ![clicks'[k].phone] = k]
                        ELSE atStation
  BY DEF Arm!Asks
<1>3. step \in Arm!Steps /\ step # "cancelled"
  BY <1>2 DEF Arm!Steps
<1>4. /\ handlers' \in [0..MaxArmClicks -> HandlerRecord] /\ handlers'[k].step = step
      /\ \A j \in 1..MaxArmClicks : handlers'[j].step # "done" => j \in 1..Len(clicks')
      /\ HandlersGoOn
  BY <1>1, <1>2, <1>3, OneHandlerMoves
<1>5. clicks'[k].phone \in Phone
  <2>1. clicks'[k] \in ClickRecord
    BY DEF ClicksKeep
  <2> QED
    BY <2>1 DEF ClickRecord
<1>6. \A s \in sent : s.asked # k
  BY DEF SentOnce
<1>7. StationKnows' /\ SentOnce' /\ atStation' \in [Phone -> Nat]
  <2>1. CASE step = "asked"
    <3>1. atStation' = [atStation EXCEPT ![clicks'[k].phone] = k]
      BY <1>2, <2>1
    <3> QED
      BY <1>1, <1>3, <1>4, <1>5, <1>6, <3>1, AskIsNew DEF ArmTypes
  <2>2. CASE step # "asked"
    <3>1. UNCHANGED atStation
      BY <1>2, <2>2
    <3> QED
      BY <1>4, <3>1, StationForgets DEF ArmTypes
  <2> QED
    BY <2>1, <2>2
<1> QED
  BY <1>2, <1>4, <1>7

\* A cancellation of a confirmation the page holds, by a click that is new or by the timer.
LEMMA CancelsStep ==
  ASSUME ArmTypes, StationKnows, SentOnce, ClicksKeep, UNCHANGED sent,
         NEW k \in 0..MaxArmClicks, k # 0 => k \in 1..Len(clicks'), ~Known(k),
         NEW c \in Nat, Known(c), Arm!Cancels(k, c)
  PROVE  /\ StationKnows' /\ SentOnce'
         /\ handlers' \in [0..MaxArmClicks -> HandlerRecord] /\ atStation' \in [Phone -> Nat]
         /\ \A j \in 1..MaxArmClicks : handlers'[j].step # "done" => j \in 1..Len(clicks')
<1> DEFINE hit == atStation[clicks[c].phone] = c
<1>1. /\ atStation' = (IF hit THEN [atStation EXCEPT ![clicks[c].phone] = 0] ELSE atStation)
      /\ Arm!At(k, "cancelled", IF hit THEN c ELSE 0)
  BY DEF Arm!Cancels, Arm!PhoneOf
<1>2. "cancelled" \in Arm!Steps /\ (IF hit THEN c ELSE 0) \in Nat
  BY DEF Arm!Steps
<1>3. /\ handlers' \in [0..MaxArmClicks -> HandlerRecord] /\ HandlersGoOn
      /\ \A j \in 1..MaxArmClicks : handlers'[j].step # "done" => j \in 1..Len(clicks')
  BY <1>1, <1>2, OneHandlerMoves
<1>4. atStation' \in [Phone -> Nat] /\ \A e \in Phone : atStation'[e] \in {atStation[e], 0}
  BY <1>1 DEF ArmTypes
<1> QED
  BY <1>3, <1>4, StationForgets

LEMMA ClickArmStep ==
  ASSUME ArmInv, NEW act \in Arm!Actions, Arm!ClickArm(act)
  PROVE  ArmInv'
<1> DEFINE k == Arm!ThisClick
<1>1. ArmTypes /\ StationKnows /\ SentOnce /\ TimerFollows
  BY DEF ArmInv
<1>2. /\ ClicksKeep /\ Len(clicks') <= MaxArmClicks
      /\ ~Known(k) /\ k \in 1..Len(clicks') /\ k \in 1..MaxArmClicks
      /\ clicks'[k].action = act /\ clicks'[k].phone = turnedTo
  BY <1>1, ClickAdds DEF Arm!ClickArm
<1>3. UNCHANGED <<turnedTo, noticed, sent>> /\ act \in Armable
  BY DEF Arm!ClickArm
<1>4. k \in 0..MaxArmClicks /\ k \in Nat /\ k # 0
  BY <1>2, ArmAssumed
<1>5. held \in {0} \cup 1..Len(clicks') /\ noticed \in {0} \cup 1..Len(clicks')
  BY <1>1, <1>2, HeldIsAClick
<1> HIDE DEF k
<1>6. CASE held # 0 /\ Arm!Cancels(k, held) /\ held' = 0 /\ UNCHANGED <<armed, armTimer>>
  <2>1. Known(held) /\ held \in Nat
    BY <1>1, <1>6 DEF ArmTypes, Known
  <2>2. /\ StationKnows' /\ SentOnce'
        /\ handlers' \in [0..MaxArmClicks -> HandlerRecord] /\ atStation' \in [Phone -> Nat]
        /\ \A j \in 1..MaxArmClicks : handlers'[j].step # "done" => j \in 1..Len(clicks')
    BY <1>1, <1>2, <1>3, <1>4, <1>6, <2>1, CancelsStep
  <2>3. ArmTypes'
    BY <1>1, <1>2, <1>3, <1>5, <1>6, <2>2, ArmTypesFollow DEF ArmTypes
  <2>4. TimerFollows'
    <3>1. \A j \in 0..MaxArmClicks : j # k => handlers'[j] = handlers[j]
      BY <1>1, <1>6 DEF Arm!Cancels, Arm!At, ArmTypes
    <3>2. ~WillSettle(k)
      BY <1>1, <1>2 DEF ArmTypes, WillSettle
    <3> QED
      BY <1>1, <1>2, <1>4, <1>6, <3>1, <3>2, TimerRests
  <2> QED
    BY <2>2, <2>3, <2>4 DEF ArmInv
<1>7. CASE Arm!Asks(k, turnedTo, 0) /\ armed' = k /\ UNCHANGED held
  <2>1. /\ StationKnows' /\ SentOnce'
        /\ handlers' \in [0..MaxArmClicks -> HandlerRecord] /\ atStation' \in [Phone -> Nat]
        /\ \A j \in 1..MaxArmClicks : handlers'[j].step # "done" => j \in 1..Len(clicks')
        /\ handlers'[k].step \in {"asked", "refused"}
    BY <1>1, <1>2, <1>3, <1>4, <1>7, AsksStep
  <2>2. ArmTypes'
    BY <1>1, <1>2, <1>3, <1>5, <1>7, <2>1, ArmTypesFollow DEF ArmTypes
  <2>3. TimerFollows'
    BY <1>2, <1>3, <2>1 DEF TimerFollows, WillSettle
  <2> QED
    BY <2>1, <2>2, <2>3 DEF ArmInv
<1> QED
  BY <1>6, <1>7 DEF Arm!ClickArm, k

LEMMA ClickConfirmStep ==
  ASSUME ArmInv, NEW act \in Arm!Actions, Arm!ClickConfirm(act)
  PROVE  ArmInv'
<1> DEFINE k == Arm!ThisClick
<1>1. ArmTypes /\ StationKnows /\ SentOnce /\ TimerFollows
  BY DEF ArmInv
<1>2. /\ ClicksKeep /\ Len(clicks') <= MaxArmClicks
      /\ ~Known(k) /\ k \in 1..Len(clicks') /\ k \in 1..MaxArmClicks
      /\ clicks'[k].action = act /\ clicks'[k].phone = turnedTo
      /\ \A c : Known(c) => c < k
  BY <1>1, ClickAdds DEF Arm!ClickConfirm
<1>3. /\ UNCHANGED <<turnedTo, held, noticed>> /\ Arm!Confirms(k, held)
      /\ held # 0 /\ clicks[held].action = act /\ clicks[held].phone = turnedTo
      /\ armed' = 0 /\ armTimer' = 0
  BY DEF Arm!ClickConfirm, Arm!Matches, Arm!Live, Arm!PhoneOf, Arm!ActionOf, Arm!Disarmed
<1>4. k \in 0..MaxArmClicks /\ k # 0 /\ Known(held) /\ held \in Nat
  BY <1>1, <1>2, <1>3, ArmAssumed DEF ArmTypes, Known
<1>5. held \in {0} \cup 1..Len(clicks') /\ noticed \in {0} \cup 1..Len(clicks')
  BY <1>1, <1>2, HeldIsAClick
<1> HIDE DEF k
<1>6. /\ handlers' \in [0..MaxArmClicks -> HandlerRecord] /\ HandlersGoOn
      /\ \A j \in 1..MaxArmClicks : handlers'[j].step # "done" => j \in 1..Len(clicks')
  <2>1. PICK c \in {held, 0} : Arm!At(k, "confirmed", c)
    BY <1>3 DEF Arm!Confirms
  <2>2. c \in Nat /\ "confirmed" \in Arm!Steps
    BY <1>4 DEF Arm!Steps
  <2> QED
    BY <1>1, <1>2, <1>4, <2>1, <2>2, OneHandlerMoves
<1>7. StationKnows' /\ SentOnce' /\ sent' \subseteq [asked : Nat, by : Nat]
  BY <1>1, <1>2, <1>3, <1>4, <1>6, ConfirmSendsOnce
<1>8. atStation' \in [Phone -> Nat]
  BY <1>1, <1>3 DEF Arm!Confirms, ArmTypes
<1>9. ArmTypes'
  BY <1>1, <1>2, <1>3, <1>5, <1>6, <1>7, <1>8, ArmTypesFollow DEF ArmTypes
<1> QED
  BY <1>3, <1>7, <1>9 DEF ArmInv, TimerFollows

LEMMA ClickSingleStep ==
  ASSUME ArmInv, NEW act \in Arm!Actions, Arm!ClickSingle(act)
  PROVE  ArmInv'
<1> DEFINE k == Arm!ThisClick
<1>1. ArmTypes /\ StationKnows /\ SentOnce /\ TimerFollows
  BY DEF ArmInv
<1>2. /\ ClicksKeep /\ Len(clicks') <= MaxArmClicks
      /\ ~Known(k) /\ k \in 1..Len(clicks') /\ k \in 1..MaxArmClicks
      /\ clicks'[k].action = act /\ clicks'[k].phone = turnedTo
  BY <1>1, ClickAdds DEF Arm!ClickSingle
<1>3. UNCHANGED <<turnedTo, noticed, sent>>
  BY DEF Arm!ClickSingle
<1>4. k \in 0..MaxArmClicks /\ k \in Nat /\ k # 0
  BY <1>2, ArmAssumed
<1>5. /\ held \in {0} \cup 1..Len(clicks') /\ noticed \in {0} \cup 1..Len(clicks')
      /\ held \in Nat
  BY <1>1, <1>2, HeldIsAClick DEF ArmTypes, Known
<1> HIDE DEF k
<1>6. CASE held # 0 /\ Arm!Cancels(k, held) /\ held' = 0 /\ UNCHANGED <<armed, armTimer>>
  <2>1. Known(held) /\ held \in Nat
    BY <1>1, <1>6 DEF ArmTypes, Known
  <2>2. /\ StationKnows' /\ SentOnce'
        /\ handlers' \in [0..MaxArmClicks -> HandlerRecord] /\ atStation' \in [Phone -> Nat]
        /\ \A j \in 1..MaxArmClicks : handlers'[j].step # "done" => j \in 1..Len(clicks')
    BY <1>1, <1>2, <1>3, <1>4, <1>6, <2>1, CancelsStep
  <2>3. ArmTypes'
    BY <1>1, <1>2, <1>3, <1>5, <1>6, <2>2, ArmTypesFollow DEF ArmTypes
  <2>4. TimerFollows'
    <3>1. \A j \in 0..MaxArmClicks : j # k => handlers'[j] = handlers[j]
      BY <1>1, <1>6 DEF Arm!Cancels, Arm!At, ArmTypes
    <3>2. ~WillSettle(k)
      BY <1>1, <1>2 DEF ArmTypes, WillSettle
    <3> QED
      BY <1>1, <1>2, <1>4, <1>6, <3>1, <3>2, TimerRests
  <2> QED
    BY <2>2, <2>3, <2>4 DEF ArmInv
<1>7. CASE Arm!Asks(k, turnedTo, held) /\ Arm!Disarmed /\ UNCHANGED held
  <2>1. /\ StationKnows' /\ SentOnce'
        /\ handlers' \in [0..MaxArmClicks -> HandlerRecord] /\ atStation' \in [Phone -> Nat]
        /\ \A j \in 1..MaxArmClicks : handlers'[j].step # "done" => j \in 1..Len(clicks')
    BY <1>1, <1>2, <1>3, <1>4, <1>5, <1>7, AsksStep
  <2>2. ArmTypes'
    BY <1>1, <1>2, <1>3, <1>5, <1>7, <2>1, ArmTypesFollow DEF ArmTypes
  <2>3. TimerFollows'
    BY <1>7 DEF TimerFollows, Arm!Disarmed
  <2> QED
    BY <2>1, <2>2, <2>3 DEF ArmInv
<1> QED
  BY <1>6, <1>7 DEF Arm!ClickSingle, k

LEMMA ExpireStep ==
  ASSUME ArmInv, Arm!Expire
  PROVE  ArmInv'
<1>1. ArmTypes /\ StationKnows /\ SentOnce /\ TimerFollows
  BY DEF ArmInv
<1>2. UNCHANGED <<turnedTo, noticed, clicks, sent>>
  BY DEF Arm!Expire
<1>3. ClicksKeep /\ Len(clicks') <= MaxArmClicks
  BY <1>1, <1>2, ClicksRest
<1>4. held \in {0} \cup 1..Len(clicks') /\ noticed \in {0} \cup 1..Len(clicks')
  BY <1>1, <1>3, HeldIsAClick
<1>5. CASE held # 0 /\ Arm!Cancels(0, held) /\ held' = 0 /\ UNCHANGED <<armed, armTimer>>
  <2>1. Known(held) /\ held \in Nat /\ ~Known(0) /\ 0 \in 0..MaxArmClicks
    BY <1>1, <1>5, ArmAssumed DEF ArmTypes, Known
  <2>2. /\ StationKnows' /\ SentOnce'
        /\ handlers' \in [0..MaxArmClicks -> HandlerRecord] /\ atStation' \in [Phone -> Nat]
        /\ \A j \in 1..MaxArmClicks : handlers'[j].step # "done" => j \in 1..Len(clicks')
    BY <1>1, <1>2, <1>3, <1>5, <2>1, CancelsStep
  <2>3. ArmTypes'
    BY <1>1, <1>2, <1>3, <1>4, <1>5, <2>2, ArmTypesFollow DEF ArmTypes
  <2>4. TimerFollows'
    <3>1. \A j \in 0..MaxArmClicks : j # 0 => handlers'[j] = handlers[j]
      BY <1>1, <1>5 DEF Arm!Cancels, Arm!At, ArmTypes
    <3> QED
      BY <1>1, <1>3, <1>5, <2>1, <3>1, TimerRests
  <2> QED
    BY <2>2, <2>3, <2>4 DEF ArmInv
<1>6. CASE Arm!Disarmed /\ UNCHANGED <<handlers, held, atStation>>
  BY <1>1, <1>2, <1>3, <1>4, <1>6, OthersStep DEF Arm!Disarmed, ArmTypes
<1> QED
  BY <1>5, <1>6 DEF Arm!Expire

\* Steps of a handler that asks nothing and cancels nothing.
LEMMA HandlerStep ==
  ASSUME ArmInv, UNCHANGED <<turnedTo, noticed, clicks, sent, atStation>>,
         NEW k \in 1..MaxArmClicks, NEW step \in Arm!Steps \ {"cancelled"}, NEW c \in Nat,
         Arm!At(k, step, c), Known(k), held' \in {0, held, k},
         \/ armTimer' = armed'
         \/ UNCHANGED <<armed, armTimer>> /\ (WillSettle(k) => step = "settle")
  PROVE  ArmInv'
<1>1. ArmTypes /\ StationKnows /\ SentOnce /\ TimerFollows
  BY DEF ArmInv
<1>2. ClicksKeep /\ Len(clicks') <= MaxArmClicks
  BY <1>1, ClicksRest
<1>3. k \in 0..MaxArmClicks /\ k \in 1..Len(clicks')
  BY ArmAssumed DEF Known
<1>4. /\ handlers' \in [0..MaxArmClicks -> HandlerRecord] /\ handlers'[k].step = step
      /\ \A j \in 1..MaxArmClicks : handlers'[j].step # "done" => j \in 1..Len(clicks')
      /\ HandlersGoOn
  BY <1>1, <1>2, <1>3, OneHandlerMoves
<1>5. StationKnows' /\ SentOnce'
  BY <1>1, <1>2, <1>4, StationForgets
<1>6. ArmTypes'
  <2>1. held \in {0} \cup 1..Len(clicks') /\ noticed \in {0} \cup 1..Len(clicks')
    BY <1>1, <1>2, HeldIsAClick
  <2> QED
    BY <1>1, <1>2, <1>3, <1>4, <2>1, ArmTypesFollow DEF ArmTypes
<1>7. TimerFollows'
  <2>1. CASE armTimer' = armed'
    BY <2>1 DEF TimerFollows
  <2>2. CASE UNCHANGED <<armed, armTimer>> /\ (WillSettle(k) => step = "settle")
    <3>1. \A j \in 0..MaxArmClicks : j # k => handlers'[j] = handlers[j]
      BY <1>1 DEF Arm!At, ArmTypes
    <3> QED
      BY <1>1, <1>2, <1>3, <1>4, <2>2, <3>1, TimerRests
  <2> QED
    BY <2>1, <2>2
<1> QED
  BY <1>5, <1>6, <1>7 DEF ArmInv

\* A handler that is under way is that of a click, or of the timer.
LEMMA HandlerIs ==
  ASSUME ArmTypes, NEW k \in 0..MaxArmClicks
  PROVE  /\ handlers[k].of \in Nat /\ handlers[k] \in HandlerRecord
         /\ k # 0 /\ handlers[k].step # "done" => k \in 1..MaxArmClicks /\ Known(k)
BY ArmAssumed DEF ArmTypes, HandlerRecord

LEMMA HearAskedStep ==
  ASSUME ArmInv, NEW k \in 1..MaxArmClicks, Arm!HearAsked(k)
  PROVE  ArmInv'
<1>1. ArmTypes /\ k \in 0..MaxArmClicks /\ k # 0
  BY ArmAssumed DEF ArmInv
<1>2. handlers[k].of \in Nat /\ Known(k) /\ "settle" \in Arm!Steps \ {"cancelled"}
  BY <1>1, HandlerIs DEF Arm!HearAsked, Arm!Stands, Arm!Steps
<1> QED
  BY <1>1, <1>2, HandlerStep DEF Arm!HearAsked

LEMMA HearConfirmedStep ==
  ASSUME ArmInv, NEW k \in 1..MaxArmClicks, Arm!HearConfirmed(k)
  PROVE  ArmInv'
<1>1. ArmTypes /\ k \in 0..MaxArmClicks /\ k # 0 /\ 0 \in Nat
  BY ArmAssumed DEF ArmInv
<1>2. Known(k) /\ "done" \in Arm!Steps \ {"cancelled"}
  BY <1>1, HandlerIs DEF Arm!HearConfirmed, Arm!Stands, Arm!Steps
<1>3. ~WillSettle(k)
  BY DEF WillSettle, Arm!HearConfirmed, Arm!Stands
<1> QED
  BY <1>1, <1>2, <1>3, HandlerStep DEF Arm!HearConfirmed

LEMMA SettleArmedStep ==
  ASSUME ArmInv, NEW k \in 1..MaxArmClicks, Arm!SettleArmed(k)
  PROVE  ArmInv'
<1>1. ArmTypes /\ k \in 0..MaxArmClicks /\ k # 0 /\ 0 \in Nat
  BY ArmAssumed DEF ArmInv
<1>2. Known(k) /\ "done" \in Arm!Steps \ {"cancelled"}
  BY <1>1, HandlerIs DEF Arm!SettleArmed, Arm!Stands, Arm!Steps
<1>3. armTimer' = armed'
  BY DEF Arm!SettleArmed, Arm!Disarmed
<1> QED
  BY <1>1, <1>2, <1>3, HandlerStep DEF Arm!SettleArmed

LEMMA SettleSingleStep ==
  ASSUME ArmInv, NEW k \in 1..MaxArmClicks, Arm!SettleSingle(k)
  PROVE  ArmInv'
<1>1. ArmTypes /\ StationKnows /\ SentOnce /\ TimerFollows /\ k \in 0..MaxArmClicks /\ k # 0
  BY ArmAssumed DEF ArmInv
<1>2. Known(k)
  BY <1>1, HandlerIs DEF Arm!SettleSingle, Arm!Stands
<1>3. clicks[k].action \in Single /\ ~WillSettle(k)
  BY ArmAssumed DEF Arm!SettleSingle, Arm!ActionOf, WillSettle
<1>4. UNCHANGED <<turnedTo, armed, armTimer, held, noticed, clicks>>
  BY DEF Arm!SettleSingle
<1>5. CASE Arm!SameClickDispatch(held, handlers[k].of, Arm!PhoneOf(k), Arm!ActionOf(k))
  <2>1. /\ held # 0 /\ clicks[held].action = clicks[k].action
        /\ clicks[held].phone = clicks[k].phone /\ Arm!Confirms(k, held)
    BY <1>5 DEF Arm!SettleSingle, Arm!SameClickDispatch, Arm!Matches, Arm!Live, Arm!PhoneOf,
                Arm!ActionOf
  <2>2. Known(held) /\ held \in Nat
    BY <1>1, <2>1 DEF ArmTypes, Known
  <2>3. ClicksKeep /\ Len(clicks') <= MaxArmClicks /\ k \in 1..Len(clicks')
    BY <1>1, <1>2, <1>4, ClicksRest DEF Known
  <2>4. held \in {0} \cup 1..Len(clicks') /\ noticed \in {0} \cup 1..Len(clicks')
    BY <1>1, <2>3, HeldIsAClick
  <2>5. /\ handlers' \in [0..MaxArmClicks -> HandlerRecord] /\ HandlersGoOn
        /\ \A j \in 1..MaxArmClicks : handlers'[j].step # "done" => j \in 1..Len(clicks')
    <3>1. PICK c \in {held, 0} : Arm!At(k, "confirmed", c)
      BY <2>1 DEF Arm!Confirms
    <3>2. c \in Nat /\ "confirmed" \in Arm!Steps
      BY <2>2 DEF Arm!Steps
    <3> QED
      BY <1>1, <2>3, <3>1, <3>2, OneHandlerMoves
  <2>6. clicks[held].action \in Armable => held < k
    BY <1>3, <2>1, ArmAssumed
  <2>7. StationKnows' /\ SentOnce' /\ sent' \subseteq [asked : Nat, by : Nat]
    BY <1>1, <1>4, <2>1, <2>2, <2>3, <2>5, <2>6, ConfirmSendsOnce
  <2>8. atStation' \in [Phone -> Nat]
    BY <1>1, <2>1 DEF Arm!Confirms, ArmTypes
  <2>9. ArmTypes'
    BY <1>1, <1>4, <2>3, <2>4, <2>5, <2>7, <2>8, ArmTypesFollow DEF ArmTypes
  <2>10. TimerFollows'
    <3>1. \A j \in 0..MaxArmClicks : j # k => handlers'[j] = handlers[j]
      BY <1>1, <2>1 DEF Arm!Confirms, Arm!At, ArmTypes
    <3> QED
      BY <1>1, <1>3, <1>4, <2>3, <3>1, TimerRests
  <2> QED
    BY <2>7, <2>9, <2>10 DEF ArmInv
<1>6. CASE Arm!At(k, "done", 0) /\ UNCHANGED <<atStation, sent>>
  <2>1. "done" \in Arm!Steps \ {"cancelled"} /\ 0 \in Nat
    BY DEF Arm!Steps
  <2> QED
    BY <1>2, <1>3, <1>4, <1>6, <2>1, HandlerStep
<1> QED
  BY <1>5, <1>6 DEF Arm!SettleSingle

LEMMA HearCancelledStep ==
  ASSUME ArmInv, NEW k \in 0..MaxArmClicks, Arm!HearCancelled(k)
  PROVE  ArmInv'
<1>1. ArmTypes /\ StationKnows /\ SentOnce /\ TimerFollows
  BY DEF ArmInv
<1>2. /\ handlers[k].step = "cancelled" /\ held' \in {0, held}
      /\ UNCHANGED <<turnedTo, noticed, clicks, sent>>
  BY DEF Arm!HearCancelled, Arm!Stands
<1>3. ClicksKeep /\ Len(clicks') <= MaxArmClicks
  BY <1>1, <1>2, ClicksRest
<1>4. /\ held \in {0} \cup 1..Len(clicks') /\ noticed \in {0} \cup 1..Len(clicks')
      /\ held \in Nat /\ held' \in Nat
  BY <1>1, <1>2, <1>3, HeldIsAClick DEF ArmTypes, Known
<1>5. CASE k = 0
  <2>1. Arm!At(0, "done", 0) /\ Arm!Disarmed /\ UNCHANGED atStation
    BY <1>5 DEF Arm!HearCancelled
  <2>2. "done" \in Arm!Steps /\ 0 \in Nat /\ 0 \in 0..MaxArmClicks
    BY ArmAssumed DEF Arm!Steps
  <2>3. /\ handlers' \in [0..MaxArmClicks -> HandlerRecord] /\ HandlersGoOn
        /\ \A j \in 1..MaxArmClicks : handlers'[j].step # "done" => j \in 1..Len(clicks')
    BY <1>1, <1>3, <2>1, <2>2, OneHandlerMoves
  <2>4. StationKnows' /\ SentOnce'
    BY <1>1, <1>2, <1>3, <2>1, <2>3, StationForgets
  <2>5. ArmTypes'
    BY <1>1, <1>2, <1>3, <1>4, <2>1, <2>3, ArmTypesFollow DEF ArmTypes
  <2> QED
    BY <2>1, <2>4, <2>5 DEF ArmInv, TimerFollows, Arm!Disarmed
<1>6. CASE k # 0
  <2>1. k \in 1..MaxArmClicks /\ Known(k) /\ k \in 1..Len(clicks')
    BY <1>1, <1>2, <1>6, HandlerIs DEF Known
  <2>2. PICK c \in {0, held'} :
          /\ Arm!Asks(k, clicks'[k].phone, c)
          /\ (clicks[k].action \in Armable /\ armed' = k) \/ Arm!Disarmed
    BY <1>2, <1>6 DEF Arm!HearCancelled, Arm!PhoneOf, Arm!ActionOf
  <2>3. c \in Nat
    BY <1>4, <2>2
  <2>4. /\ StationKnows' /\ SentOnce'
        /\ handlers' \in [0..MaxArmClicks -> HandlerRecord] /\ atStation' \in [Phone -> Nat]
        /\ \A j \in 1..MaxArmClicks : handlers'[j].step # "done" => j \in 1..Len(clicks')
        /\ handlers'[k].step \in {"asked", "refused"}
    BY <1>1, <1>2, <1>3, <2>1, <2>2, <2>3, AsksStep
  <2>5. ArmTypes'
    BY <1>1, <1>2, <1>3, <1>4, <2>4, ArmTypesFollow DEF ArmTypes
  <2>6. TimerFollows'
    BY <1>2, <2>1, <2>2, <2>4 DEF TimerFollows, WillSettle, Arm!Disarmed
  <2> QED
    BY <2>4, <2>5, <2>6 DEF ArmInv
<1> QED
  BY <1>5, <1>6

LEMMA PageStep ==
  ASSUME ArmInv,
         \/ Arm!Paint \/ Arm!Notice
         \/ \E k \in 1..Len(clicks) : Arm!Grows(k)
         \/ \E d \in Phone : Arm!Turn(d) \/ Arm!Lapse(d)
  PROVE  ArmInv'
<1>1. ArmTypes /\ StationKnows
  BY DEF ArmInv
<1>2. ASSUME UNCHANGED clicks PROVE ClicksKeep /\ Len(clicks') <= MaxArmClicks
  BY <1>1, <1>2, ClicksRest
<1>3. ASSUME ClicksKeep
      PROVE  held \in {0} \cup 1..Len(clicks') /\ noticed \in {0} \cup 1..Len(clicks')
  BY <1>1, <1>3, HeldIsAClick
<1>4. atStation \in [Phone -> Nat] /\ turnedTo \in Phone
  BY <1>1 DEF ArmTypes
<1>5. CASE Arm!Paint
  <2>1. held' \in {held, noticed, 0}
    BY <1>5 DEF Arm!Paint, Arm!Adopted
  <2> QED
    BY <1>2, <1>3, <1>4, <1>5, <2>1, OthersStep DEF Arm!Paint, Arm!Disarmed
<1>6. CASE Arm!Notice
  <2>1. noticed' \in {0} \cup 1..Len(clicks')
    BY <1>1, <1>4, <1>6 DEF Arm!Notice, StationKnows, Known
  <2> QED
    BY <1>2, <1>3, <1>4, <1>6, <2>1, OthersStep DEF Arm!Notice
<1>7. ASSUME NEW k \in 1..Len(clicks), Arm!Grows(k) PROVE ArmInv'
  <2>1. ClicksKeep /\ Len(clicks') <= MaxArmClicks
    BY <1>1, <1>7, ClickGrows DEF ArmTypes
  <2> QED
    BY <1>3, <1>4, <1>7, <2>1, OthersStep DEF Arm!Grows
<1>8. ASSUME NEW d \in Phone, Arm!Turn(d) PROVE ArmInv'
  BY <1>2, <1>3, <1>4, <1>8, OthersStep DEF Arm!Turn
<1>9. ASSUME NEW d \in Phone, Arm!Lapse(d) PROVE ArmInv'
  <2>1. atStation' \in [Phone -> Nat] /\ \A e \in Phone : atStation'[e] \in {atStation[e], 0}
    BY <1>4, <1>9 DEF Arm!Lapse
  <2> QED
    BY <1>2, <1>3, <1>4, <1>9, <2>1, OthersStep DEF Arm!Lapse
<1> QED
  BY <1>5, <1>6, <1>7, <1>8, <1>9

LEMMA ArmStep ==
  ASSUME ArmInv, Arm!ArmPanelNext
  PROVE  ArmInv'
BY ClickArmStep, ClickConfirmStep, ClickSingleStep, ExpireStep, HearCancelledStep, HearAskedStep,
   HearConfirmedStep, SettleArmedStep, SettleSingleStep, PageStep
   DEF Arm!ArmPanelNext, Arm!TimerFires, Arm!TurnTab, Arm!ClickOr0, Arm!Click

LEMMA ArmRests ==
  ASSUME ArmInv, UNCHANGED ArmVars
  PROVE  ArmInv'
BY DEF ArmInv, ArmVars, ArmTypes, StationKnows, SentOnce, TimerFollows, WillSettle, Known

LEMMA ArmInvHolds == Spec => [](part = "arm" => ArmInv)
<1>1. Init => (part = "arm" => ArmInv)
  BY ArmBegins DEF Init, PartsInit
<1>2. (part = "arm" => ArmInv) /\ [Next]_consoleRunVars => (part = "arm" => ArmInv)'
  <2>1. ASSUME part = "arm" => ArmInv, [Next]_consoleRunVars, part' = "arm"
        PROVE  ArmInv'
    <3>1. part = "arm"
      BY <2>1 DEF Next, consoleRunVars
    <3>2. CASE Arm!ArmPanelNext
      BY <2>1, <3>1, <3>2, ArmStep
    <3>3. CASE UNCHANGED consoleRunVars
      BY <2>1, <3>1, <3>3, ArmRests DEF consoleRunVars, arm, ArmVars
    <3> QED
      BY <2>1, <3>1, <3>2, <3>3 DEF Next, Workflows
  <2> QED
    BY <2>1
<1> QED
  BY <1>1, <1>2, PTL DEF Spec

LEMMA ArmInvMeans ==
  ASSUME ArmInv
  PROVE  Arm!SentAsClicked /\ Arm!ArmedIsTimed
<1>1. Arm!SentAsClicked
  <2>1. \A s \in sent :
          /\ clicks[s.asked].action = clicks[s.by].action
          /\ clicks[s.asked].phone = clicks[s.by].phone
          /\ clicks[s.by].action \in Armable => s.asked < s.by
          /\ \A t \in sent : t.asked = s.asked => t = s
    BY DEF ArmInv, SentOnce
  <2> QED
    BY <2>1 DEF Arm!SentAsClicked, Arm!ActionOf, Arm!PhoneOf
<1>2. Arm!ArmedIsTimed
  BY ArmAssumed DEF ArmInv, TimerFollows, WillSettle, Arm!ArmedIsTimed, Arm!Idle, Arm!Stands,
                    Arm!ClickOr0
<1> QED
  BY <1>1, <1>2

\* However clicks, timers, snapshots and answers interleave, a confirmation goes out once, for
\* the button and the phone of the click that asked for it, an armable action by a later click
\* than that, and a button left armed has its own timer: renderer/main.ts 2894-2984.
THEOREM ClicksAlwaysGoOutAsMade == Spec => []ClicksGoOutAsMade
<1>1. (part = "arm" => ArmInv) => ClicksGoOutAsMade
  BY ArmInvMeans DEF ClicksGoOutAsMade
<1> QED
  BY <1>1, ArmInvHolds, PTL

-----------------------------------------------------------------------------
(* One aircraft on a monitor tile *)

PlaneRecord ==
  [flightController : {"CONNECTED", "DISCONNECTED", Aircraft!Absent},
   isFlying : Aircraft!Switch, motorsOn : Aircraft!Switch, mode : Aircraft!Modes,
   confirmNeeded : {"true", Aircraft!Absent}, rth : {"COUNTING_DOWN", Aircraft!Absent},
   phoneMission : PhoneMission, djiMission : DjiMission]

LEMMA AircraftAssumed ==
  /\ Aircraft!Absent \in PhoneMission /\ Aircraft!Absent \in DjiMission
BY ConsoleHolds DEF Aircraft!AircraftAssumption

LEMMA PlaneParked == Aircraft!AircraftInit => plane \in PlaneRecord
BY AircraftAssumed DEF Aircraft!AircraftInit, Aircraft!Parked, PlaneRecord, Aircraft!Switch,
                       Aircraft!Modes, Aircraft!Absent

LEMMA PlaneObserved ==
  ASSUME plane \in PlaneRecord, Aircraft!Observes
  PROVE  plane' \in PlaneRecord
BY DEF Aircraft!Observes, PlaneRecord

LEMMA HoverFollows ==
  ASSUME plane \in PlaneRecord
  PROVE  Aircraft!HoverStopsWhatIsShown
<1>1. Aircraft!MissionActive => Aircraft!WaylineToStop
  BY DEF Aircraft!MissionActive, Aircraft!WaylineToStop, Aircraft!WAYLINE_STOP_PHONE
<1>2. plane.flightController = "DISCONNECTED" =>
        /\ ~Aircraft!OnGround /\ ~Aircraft!AskedToConfirm /\ ~Aircraft!ReturningHome
        /\ Aircraft!Mode = "absent" /\ Aircraft!Flying = "unknown" /\ Aircraft!Motors = "absent"
  BY DEF Aircraft!OnGround, Aircraft!AskedToConfirm, Aircraft!ReturningHome, Aircraft!Mode,
         Aircraft!Flying, Aircraft!Told, Aircraft!ConfirmNeeded, Aircraft!Absent, Aircraft!Motors
<1>3. Aircraft!OnGround => Aircraft!Flying = "grounded"
  BY DEF Aircraft!OnGround
<1>4. /\ Aircraft!AircraftLabel \in {"landing", "goes on landing"} <=> Aircraft!HoverCommand = "stop-auto-landing"
      /\ Aircraft!AircraftLabel = "returning" <=> Aircraft!HoverCommand = "stop-go-home"
      /\ Aircraft!AircraftLabel = "route" => Aircraft!HoverCommand = "stop-route"
      /\ Aircraft!AircraftLabel = "take-off" => Aircraft!HoverCommand \in {"stop-takeoff", "stop-route"}
      /\ Aircraft!HoverCommand = "nothing" => Aircraft!AircraftLabel \in {"ground", "hovering"}
  BY <1>1, <1>2 DEF Aircraft!AircraftLabel, Aircraft!HoverCommand
<1>5. Aircraft!HomeButton = "stop-go-home" /\ Aircraft!AircraftLabel # "landing" => Aircraft!HoverCommand = "stop-go-home"
  BY <1>2 DEF Aircraft!AircraftLabel, Aircraft!HoverCommand, Aircraft!HomeButton
<1>6. Aircraft!LandButton = "confirm-landing" <=> Aircraft!AircraftLabel = "goes on landing"
  BY <1>2 DEF Aircraft!AircraftLabel, Aircraft!LandButton
<1>7. Aircraft!LandingPhase = "confirmation-required" => Aircraft!LandButton = "confirm-landing"
  BY DEF Aircraft!LandingPhase, Aircraft!LandButton, Aircraft!AskedToConfirm
<1>8. Aircraft!LandingPhase = "confirmed-grounded"
        => Aircraft!AircraftLabel = "ground" /\ Aircraft!ProcessLine = "ground"
  <2>1. Aircraft!LandingPhase = "confirmed-grounded"
          => Aircraft!OnGround /\ plane.flightController = "CONNECTED"
    BY DEF Aircraft!LandingPhase
  <2> QED
    BY <2>1 DEF Aircraft!AircraftLabel, Aircraft!ProcessLine
<1>9. Aircraft!ProcessLine = "landing" => Aircraft!HoverCommand = "stop-auto-landing"
  <2>1. Aircraft!ProcessLine = "landing" =>
          /\ Aircraft!Flying = "flying"
          /\ Aircraft!Mode \in {"AUTO_LANDING", "CONFIRM_LANDING"} \/ Aircraft!ConfirmNeeded
    BY DEF Aircraft!ProcessLine
  <2> QED
    BY <1>2, <1>3, <2>1 DEF Aircraft!HoverCommand, Aircraft!AskedToConfirm
<1> QED
  BY <1>4, <1>5, <1>6, <1>7, <1>8, <1>9, Zenon DEF Aircraft!HoverStopsWhatIsShown

LEMMA HoverAlwaysStops == Spec => [](part \in {"landing", "flying"} => Aircraft!HoverStopsWhatIsShown)
<1>1. Init => plane \in PlaneRecord
  BY PlaneParked DEF Init, PartsInit
<1>2. plane \in PlaneRecord /\ [Next]_consoleRunVars => (plane \in PlaneRecord)'
  <2>1. [Next]_consoleRunVars => Aircraft!Observes \/ UNCHANGED plane
    BY DEF Next, consoleRunVars, aircraft, Aircraft!LaneAdvances, Aircraft!FlightActionDone
  <2> QED
    BY <2>1, PlaneObserved
<1>3. plane \in PlaneRecord => Aircraft!HoverStopsWhatIsShown
  BY HoverFollows
<1> QED
  BY <1>1, <1>2, <1>3, PTL DEF Spec

-----------------------------------------------------------------------------
(* The mission buttons *)

LaneEvents == Console!LaneEvents \cup {"connection-lost"}
Named(m) == m.phase # "idle" => m.missionId # 0

\* A lane that is not idle has a mission, and only staging takes an idle one on.
LEMMA LaneKeepsItsMission ==
  ASSUME NEW m \in Console!Machine, Named(m), NEW e \in LaneEvents, NEW id \in Nat,
         Console!Legal(m, e, id)
  PROVE  Console!Successor(m, e, id) \in Console!Machine /\ Named(Console!Successor(m, e, id))
<1> USE DEF Console!NoMission, Console!None
<1>1. /\ Console!STOPPABLE \subseteq Console!MissionPhases /\ "idle" \notin Console!STOPPABLE
      /\ m.phase \in Console!MissionPhases /\ m.phase \in Console!LegalFrom(e)
      /\ e # "stage-requested" /\ m.missionId # 0 /\ m.missionId \in Nat
  BY DEF Console!STOPPABLE, Console!MissionPhases, Console!Machine, Console!Legal, LaneEvents,
         Console!LaneEvents
<1>2. CASE e = "stop-requested"
  BY <1>1, <1>2 DEF Console!Machine, Console!LegalFrom, Console!Successor, Console!MissionPhases,
                    Named
<1>3. CASE e = "stop-rejected"
  <2>1. m.stoppedFrom \in Console!STOPPABLE
    BY <1>3 DEF Console!Machine, Console!Legal
  <2> QED
    BY <1>1, <1>3, <2>1 DEF Console!Machine, Console!Successor, Named
<1>4. CASE e = "pause-requested"
  BY <1>1, <1>4 DEF Console!Machine, Console!LegalFrom, Console!Successor, Console!MissionPhases,
                    Named
<1>5. CASE e \in {"stop-succeeded", "mission-completed", "operation-failed", "connection-lost"}
  <2>1. ASSUME NEW ph \in Console!MissionPhases, NEW n \in Nat, ph # "idle" => n # 0
        PROVE  LET s == [Console!Ended(m, ph) EXCEPT !.missionId = n]
               IN  s \in Console!Machine /\ Named(s)
    BY <2>1 DEF Console!Machine, Console!Ended, Named
  <2>2. ASSUME NEW ph \in Console!MissionPhases
        PROVE  Console!Ended(m, ph) \in Console!Machine /\ Named(Console!Ended(m, ph))
    BY <1>1 DEF Console!Machine, Console!Ended, Named
  <2>3. {"idle", "completed", "failed", "disconnected"} \subseteq Console!MissionPhases /\ 0 \in Nat
    BY DEF Console!MissionPhases
  <2> QED
    BY <1>5, <2>1, <2>2, <2>3 DEF Console!Successor
<1>6. CASE e \in {"start-requested", "start-succeeded"}
  BY <1>1, <1>6 DEF Console!Machine, Console!Successor, Console!MissionPhases, Named
<1>7. CASE e \in {"pause-succeeded", "resume-requested", "resume-succeeded"}
  BY <1>1, <1>7 DEF Console!Machine, Console!Successor, Console!MissionPhases, Named
<1>8. CASE e \in {"stage-succeeded", "upload-requested", "upload-succeeded"}
  BY <1>1, <1>8 DEF Console!Machine, Console!Successor, Console!MissionPhases, Named
<1> QED
  BY <1>2, <1>3, <1>4, <1>5, <1>6, <1>7, <1>8 DEF LaneEvents, Console!LaneEvents

LEMMA StagingNamesTheLane ==
  ASSUME NEW m \in Console!Machine
  PROVE  /\ Console!Successor(m, "stage-requested", 1) \in Console!Machine
         /\ Named(Console!Successor(m, "stage-requested", 1))
<1>1. Console!Ended(m, "staging") \in Console!Machine
  BY DEF Console!Machine, Console!Ended, Console!MissionPhases, Console!None
<1>2. Console!Ended(m, "staging").phase = "staging"
  BY DEF Console!Machine, Console!Ended
<1>3. Console!Successor(m, "stage-requested", 1) = [Console!Ended(m, "staging") EXCEPT !.missionId = 1]
  BY DEF Console!Successor
<1> QED
  BY <1>1, <1>2, <1>3 DEF Console!Machine, Named

LaneInv == lane \in Console!Machine /\ Named(lane)

LEMMA LaneAlwaysNamed == Spec => []LaneInv
<1>1. Init => LaneInv
  BY DEF Init, PartsInit, Console!ConsoleInit, Console!IdleMachine, Console!Machine,
         Console!MissionPhases, Console!NoMission, Console!None, LaneInv, Named
<1>2. ASSUME LaneInv, Console!LaneMovesOn PROVE LaneInv'
  <2>1. ASSUME NEW e \in Console!LaneEvents, lane' = Console!Transition(lane, e, lane.missionId)
        PROVE  LaneInv'
    <3>1. lane.missionId \in Nat /\ e \in LaneEvents
      BY <1>2 DEF LaneInv, Console!Machine, LaneEvents
    <3> QED
      BY <1>2, <2>1, <3>1, LaneKeepsItsMission DEF LaneInv, Console!Transition
  <2>2. CASE lane' = Console!Transition(lane, "stage-requested", 1)
    BY <1>2, <2>2, StagingNamesTheLane DEF LaneInv, Console!Transition
  <2> QED
    BY <1>2, <2>1, <2>2 DEF Console!LaneMovesOn
<1>3. ASSUME LaneInv, Console!PhoneGoes PROVE LaneInv'
  <2>1. CASE UNCHANGED lane
    BY <1>3, <2>1 DEF LaneInv
  <2>2. CASE lane' = Console!Transition(lane, "connection-lost", Console!NoMission)
    <3>1. Console!NoMission \in Nat /\ "connection-lost" \in LaneEvents
      BY DEF Console!NoMission, LaneEvents
    <3> QED
      BY <1>3, <2>2, <3>1, LaneKeepsItsMission DEF LaneInv, Console!Transition
  <2> QED
    BY <1>3, <2>1, <2>2 DEF Console!PhoneGoes
<1>4. [Next]_consoleRunVars => Console!LaneMovesOn \/ Console!PhoneGoes \/ UNCHANGED lane
  BY DEF Next, consoleRunVars, console, Console!ConsoleNext, Console!PhoneComes, Console!Fetch,
         Console!PaintOnce, Console!Pick, Console!OpenPage, Console!SdkChanges, Console!RouteChanges
<1>5. LaneInv /\ UNCHANGED lane => LaneInv'
  BY DEF LaneInv
<1>6. LaneInv /\ [Next]_consoleRunVars => LaneInv'
  BY <1>2, <1>3, <1>4, <1>5
<1> QED
  BY <1>1, <1>6, PTL DEF Spec

\* The page's list of phases of each button is the machine's.
LEMMA PhasesAreTheMachines ==
  ASSUME NEW act \in Console!MissionActions
  PROVE  /\ Console!PhasesFor[act] = Console!LegalFrom(Console!EventOf(act))
         /\ Console!EventOf(act) \notin {"stage-succeeded", "stop-rejected"}
         /\ Console!EventOf(act) = "stage-requested" \/ "idle" \notin Console!PhasesFor[act]
BY DEF Console!MissionActions, Console!PhasesFor, Console!LegalFrom, Console!EventOf,
       Console!STAGEABLE, Console!STOPPABLE

LEMMA ButtonsAlwaysMatch == Spec => []Console!ButtonsMatchTheLane
<1>1. ASSUME LaneInv PROVE Console!ButtonsMatchTheLane
  <2>1. ASSUME NEW act \in Console!MissionActions
        PROVE  lane.phase \in Console!PhasesFor[act]
                 <=> Console!Legal(lane, Console!EventOf(act), lane.missionId)
    BY <1>1, PhasesAreTheMachines DEF LaneInv, Named, Console!Legal, Console!NoMission
  <2> QED
    BY <2>1 DEF Console!ButtonsMatchTheLane, Console!Enabled
<1> QED
  BY <1>1, LaneAlwaysNamed, PTL

-----------------------------------------------------------------------------
(* The links of a phone *)

ReportRecord ==
  [told : BOOLEAN, sdk : Availability, streaming : BOOLEAN, remoteController : LinkState,
   flightController : LinkState, airLink : LinkState, camera : LinkState]

\* What was not told yet is not ready.
LinksInv == report \in ReportRecord /\ (~report.told => report.sdk = "missing")

LEMMA LinksAssumed ==
  /\ "missing" \in Availability /\ "missing" \in LinkState
  /\ Availability \subseteq {"STOPPED", "STARTING", "READY", "FAILED", "missing"}
  /\ LinkState \subseteq {"CONNECTED", "DISCONNECTED", "UNKNOWN", "missing"}
BY ConsoleHolds DEF Links!DeviceLinksAssumption, Links!Missing

LEMMA LinksInvHolds == Spec => []LinksInv
<1>1. Links!Unknowing \in ReportRecord /\ Links!Unknowing.sdk = "missing"
  BY LinksAssumed DEF Links!Unknowing, ReportRecord, Links!Missing
<1>2. Init => LinksInv
  BY <1>1 DEF Init, PartsInit, Links!DeviceLinksInit, LinksInv
<1>3. ASSUME LinksInv, Links!Reports PROVE LinksInv'
  <2> DEFINE last == [report EXCEPT !.told = TRUE]
  <2>1. last \in ReportRecord /\ last.told
    BY <1>3 DEF LinksInv, ReportRecord
  <2> HIDE DEF last
  <2>2. \/ \E sdk \in Availability : report' = [last EXCEPT !.sdk = sdk]
        \/ \E link \in Links!Links, state \in LinkState : report' = [last EXCEPT ![link] = state]
        \/ report' = [last EXCEPT !.streaming = ~last.streaming]
    BY <1>3 DEF Links!Reports, last
  <2>3. ASSUME NEW sdk \in Availability, report' = [last EXCEPT !.sdk = sdk] PROVE LinksInv'
    BY <2>1, <2>3 DEF LinksInv, ReportRecord
  <2>4. ASSUME NEW link \in Links!Links, NEW state \in LinkState,
               report' = [last EXCEPT ![link] = state]
        PROVE  LinksInv'
    BY <2>1, <2>4 DEF LinksInv, ReportRecord, Links!Links
  <2>5. CASE report' = [last EXCEPT !.streaming = ~last.streaming]
    BY <2>1, <2>5 DEF LinksInv, ReportRecord
  <2> QED
    BY <2>2, <2>3, <2>4, <2>5
<1>4. LinksInv /\ (UNCHANGED report \/ report' = Links!Unknowing) => LinksInv'
  BY <1>1 DEF LinksInv
<1>5. [Next]_consoleRunVars => Links!Reports \/ UNCHANGED report \/ report' = Links!Unknowing
  BY DEF Next, consoleRunVars, links, Links!DeviceLinksNext, Links!Joins, Links!Leaves,
         Links!TilePainted, Links!TileStopped, Links!LaneMoves, Links!PathMoves, Links!LanChanges
<1>6. LinksInv /\ [Next]_consoleRunVars => LinksInv'
  BY <1>3, <1>4, <1>5
<1> QED
  BY <1>2, <1>6, PTL DEF Spec

\* The one fact the judges are about, and the two links they look at.
LEMMA FactsRead ==
  ASSUME LinksInv
  PROVE  /\ Links!SdkReady(Links!Facts) <=> report.sdk = "READY"
         /\ Links!Up(Links!Facts.remoteController, Links!Facts.remoteControllerConnected)
              <=> report.remoteController = "CONNECTED"
         /\ Links!Down(Links!Facts.remoteController, Links!Facts.remoteControllerConnected)
              <=> report.remoteController = "DISCONNECTED"
         /\ Links!Up(Links!Facts.flightController, Links!Facts.flightControllerConnected)
              <=> report.flightController = "CONNECTED"
         /\ Links!Down(Links!Facts.flightController, Links!Facts.flightControllerConnected)
              <=> report.flightController = "DISCONNECTED"
         /\ Links!Facts.airLink = report.airLink /\ Links!Facts.camera = report.camera
         /\ report.sdk = "READY" => report.told
BY LinksAssumed DEF LinksInv, ReportRecord, Links!SdkReady, Links!Up, Links!Down, Links!LinkIs,
  Links!Facts, Links!Payload, Links!Derived, Links!Missing

LEMMA IssuesRead ==
  ASSUME LinksInv
  PROVE  /\ Links!NoInvocationIssue <=> report.sdk = "READY"
         /\ Links!NoStreamIssue <=> /\ report.sdk = "READY"
                                    /\ report.airLink = "CONNECTED" /\ report.camera = "CONNECTED"
BY LinksAssumed DEF LinksInv, ReportRecord, Links!NoInvocationIssue, Links!NoStreamIssue,
  Links!Connection, Links!Shown, Links!Facts, Links!Payload, Links!Missing

LEMMA LinksAgree ==
  ASSUME LinksInv
  PROVE  Links!VerdictsAgree /\ Links!StreamButtonsAreHonest
<1> DEFINE chain == Links!Chain(joined, Links!Facts)
<1>1. ASSUME joined
      PROVE  /\ chain.phone = "connected"
             /\ chain.remote = IF report.sdk # "READY" THEN "unknown"
                  ELSE IF report.remoteController = "CONNECTED" THEN "connected"
                  ELSE IF report.remoteController = "DISCONNECTED" THEN "disconnected"
                  ELSE "unknown"
             /\ chain.aircraft = IF chain.remote # "connected" THEN "unknown"
                  ELSE IF report.flightController = "CONNECTED" THEN "connected"
                  ELSE IF report.flightController = "DISCONNECTED" THEN "disconnected"
                  ELSE "unknown"
             /\ chain.overall = IF chain.aircraft = "connected" THEN "ready" ELSE "degraded"
  BY <1>1, FactsRead DEF Links!Chain
<1> HIDE DEF chain
<1>2. ASSUME joined
      PROVE  /\ Links!Guidance(chain) # "INVALID_INPUT"
             /\ Links!Guidance(chain) = "READY" <=> chain.aircraft = "connected"
             /\ Links!Guidance(chain) = "CONNECT_AIRCRAFT" <=> chain.aircraft = "disconnected"
  BY <1>1, <1>2 DEF Links!Guidance, Links!Consistent
<1>3. ASSUME joined
      PROVE  /\ Links!Gate("direct-flight", report.told, Links!Facts) <=> report.sdk = "READY"
             /\ Links!Readiness("flight-control", joined, Links!Facts) <=> report.sdk = "READY"
             /\ \A relay \in {report.told, joined} :
                  Links!Gate("live-stream", relay, Links!Facts) <=> Links!NoStreamIssue
             /\ Links!Gate("pairing", joined, Links!Facts) <=>
                  /\ report.sdk = "READY" /\ report.remoteController = "CONNECTED"
                  /\ report.flightController = "DISCONNECTED"
  BY <1>3, FactsRead, IssuesRead DEF Links!Gate, Links!Readiness
<1>4. Links!VerdictsAgree
  BY <1>1, <1>2, <1>3, IssuesRead DEF Links!VerdictsAgree, chain
<1>5. Links!StreamButtonsAreHonest
  BY <1>3, IssuesRead DEF Links!StreamButtonsAreHonest, Links!Toggle, Links!CanStart, Links!CanStop,
    Links!StopAccepted, Links!StillStreaming, Links!PathInUse, Links!SourceGone
<1> QED
  BY <1>4, <1>5

-----------------------------------------------------------------------------
(* The receipts *)

Words == {"onSuccess", "onFailure"}
HandsetStates == Receipt!Finals \cup {"none", "asked", "called"}
ReceiptRecord == [id : Nat, epoch : Nat, outcome : Receipt!Outcomes]

ReceiptTypes ==
  /\ presses \in Nat /\ presses <= MaxClicks /\ epoch \in Nat /\ view \in Nat
  /\ shown \in [1..MaxClicks -> Nat]
  /\ action \in [1..MaxClicks -> Receipt!Action \cup {"none"}]
  /\ open \subseteq 1..presses /\ queued \subseteq 1..presses /\ open \cap queued = {}
  /\ \A i \in open : action[i] \in Receipt!Action
  /\ \A i \in queued : action[i] = "stream-start"
  /\ handset \in [1..MaxClicks -> HandsetStates]
  /\ \A i \in 1..MaxClicks :
       /\ i > presses => handset[i] = "none"
       /\ handset[i] = "transferred" => action[i] = "mission-stage"
  /\ fetched \in [1..MaxClicks -> Nat]
  /\ receipts \in [Receipt!Action -> ReceiptRecord]

\* A word of DJI's in a receipt is one that was said of it.
Honest(r, word, got, late) ==
  /\ r.outcome \in Words => r.id # 0
  /\ r.outcome = "onSuccess" => word[r.id] = "onSuccess" \/ got[r.id] > 0
  /\ r.outcome = "onFailure" => word[r.id] = "onFailure" \/ r.id \in late

\* A receipt is of a click that is over.
ReceiptsHold ==
  \A x \in Receipt!Action :
    /\ receipts[x].id \in 0..presses /\ receipts[x].id \notin open \cup queued
    /\ Honest(receipts[x], handset, fetched, behind)

ReceiptInv == ReceiptTypes /\ ReceiptsHold
ReceiptVars == <<attached, epoch, view, presses, action, shown, open, queued, behind, marked, handset,
                 fetched, failures, receipts>>

LEMMA ReceiptsAssumed == MaxClicks \in Nat /\ MaxPhotos \in Nat /\ MaxPhotos > 0
BY ConsoleHolds DEF Receipt!ReceiptsAssumption

LEMMA ReceiptsBegin == Receipt!ReceiptsInit => ReceiptInv
<1>1. "none" \in HandsetStates /\ Receipt!NoReceipt \in ReceiptRecord /\ Receipt!NoReceipt.id = 0
      /\ Receipt!NoReceipt.outcome \notin Words
  BY DEF HandsetStates, Receipt!NoReceipt, ReceiptRecord, Receipt!Outcomes, Words
<1>2. ASSUME Receipt!ReceiptsInit PROVE ReceiptTypes
  <2>1. /\ presses = 0 /\ epoch = 0 /\ view = 0 /\ open = {} /\ queued = {}
        /\ action = [i \in 1..MaxClicks |-> "none"] /\ shown = [i \in 1..MaxClicks |-> 0]
        /\ handset = [i \in 1..MaxClicks |-> "none"] /\ fetched = [i \in 1..MaxClicks |-> 0]
        /\ receipts = [x \in Receipt!Action |-> Receipt!NoReceipt]
    BY <1>2 DEF Receipt!ReceiptsInit, Receipt!Ids
  <2>2. /\ shown \in [1..MaxClicks -> Nat] /\ action \in [1..MaxClicks -> Receipt!Action \cup {"none"}]
        /\ handset \in [1..MaxClicks -> HandsetStates] /\ fetched \in [1..MaxClicks -> Nat]
        /\ receipts \in [Receipt!Action -> ReceiptRecord]
        /\ \A i \in 1..MaxClicks : handset[i] = "none"
    BY <1>1, <2>1
  <2>3. \A i \in 1..MaxClicks : (i > presses => handset[i] = "none")
          /\ (handset[i] = "transferred" => action[i] = "mission-stage")
    BY <2>2
  <2>4. presses \in Nat /\ presses <= MaxClicks /\ epoch \in Nat /\ view \in Nat
    BY <2>1, ReceiptsAssumed
  <2> HIDE DEF HandsetStates, ReceiptRecord
  <2> QED
    BY <2>1, <2>2, <2>3, <2>4 DEF ReceiptTypes
<1>3. ASSUME Receipt!ReceiptsInit PROVE ReceiptsHold
  <2>1. /\ presses = 0 /\ open = {} /\ queued = {}
        /\ \A x \in Receipt!Action : receipts[x] = Receipt!NoReceipt
    BY <1>3 DEF Receipt!ReceiptsInit
  <2> QED
    BY <1>1, <2>1 DEF ReceiptsHold, Honest, Words
<1> QED
  BY <1>2, <1>3 DEF ReceiptInv

LEMMA ClickIds ==
  ASSUME ReceiptTypes
  PROVE  /\ presses \in Nat /\ presses <= MaxClicks /\ 1..presses \subseteq 1..MaxClicks
         /\ open \subseteq 1..MaxClicks /\ queued \subseteq 1..MaxClicks
<1>1. presses \in Nat /\ presses <= MaxClicks /\ open \subseteq 1..presses /\ queued \subseteq 1..presses
  BY DEF ReceiptTypes
<1>2. 1..presses \subseteq 1..MaxClicks
  BY <1>1, ReceiptsAssumed
<1> QED
  BY <1>1, <1>2

\* Clicks that are over keep the word that was said of them.
LEMMA ReceiptsFollow ==
  ASSUME ReceiptInv, presses' \in Nat, presses <= presses',
         open' \cup queued' \subseteq open \cup queued \cup (presses + 1)..presses',
         behind \subseteq behind',
         \A i \in (1..presses) \ (open \cup queued) :
           /\ handset[i] \in Words => handset'[i] = handset[i]
           /\ fetched[i] > 0 => fetched'[i] > 0,
         \A x \in Receipt!Action :
           \/ receipts'[x] = receipts[x]
           \/ /\ receipts'[x].id \in 0..presses' /\ receipts'[x].id \notin open' \cup queued'
              /\ Honest(receipts'[x], handset', fetched', behind')
  PROVE  ReceiptsHold'
<1> SUFFICES ASSUME NEW x \in Receipt!Action
             PROVE  /\ receipts'[x].id \in 0..presses' /\ receipts'[x].id \notin open' \cup queued'
                    /\ Honest(receipts'[x], handset', fetched', behind')
  BY DEF ReceiptsHold
<1>1. CASE receipts'[x] = receipts[x]
  <2> DEFINE r == receipts[x]
  <2>1. /\ r.id \in 0..presses /\ r.id \notin open \cup queued
        /\ Honest(r, handset, fetched, behind) /\ presses \in Nat
    BY DEF ReceiptInv, ReceiptTypes, ReceiptsHold
  <2> HIDE DEF r
  <2>2. r.id \in 0..presses' /\ r.id \notin open' \cup queued'
    BY <2>1
  <2>3. Honest(r, handset', fetched', behind')
    <3>1. ASSUME r.id # 0 PROVE r.id \in (1..presses) \ (open \cup queued)
      BY <2>1, <3>1
    <3> QED
      BY <2>1, <3>1 DEF Honest, Words
  <2> QED
    BY <1>1, <2>2, <2>3 DEF r
<1>2. CASE ~(receipts'[x] = receipts[x])
  BY <1>2
<1> QED
  BY <1>1, <1>2

\* Only DJI's words read as such.
LEMMA CodeReads ==
  ASSUME NEW x, NEW code
  PROVE  /\ Receipt!Feedback(x, code) \in Receipt!Outcomes
         /\ Receipt!Feedback(x, code) = "onFailure" => code = "ACTION_REJECTED"
         /\ Receipt!Feedback(x, code) = "onSuccess" => code \in {"SUCCEEDED", "CAPTURED"}
BY DEF Receipt!Feedback, Receipt!Outcomes

LEMMA ReceiptIs ==
  ASSUME ReceiptTypes, NEW i \in 1..MaxClicks, NEW code
  PROVE  /\ Receipt!Receipt(i, code) \in ReceiptRecord /\ Receipt!Receipt(i, code).id = i
         /\ Receipt!Receipt(i, code).outcome = Receipt!Feedback(action[i], code)
<1>1. i \in Nat /\ shown[i] \in Nat
  <2>1. shown \in [1..MaxClicks -> Nat]
    BY DEF ReceiptTypes
  <2> QED
    BY <2>1, ReceiptsAssumed
<1> QED
  BY <1>1, CodeReads DEF Receipt!Receipt, ReceiptRecord

\* A failure reads as DJI's own only when DJI answered it, and never as a success.
LEMMA FailureReads ==
  ASSUME NEW x, NEW how
  PROVE  /\ Receipt!FailureCode(x, how) = "ACTION_REJECTED" => how = "onFailure"
         /\ Receipt!FailureCode(x, how) \notin {"none", "SUCCEEDED", "CAPTURED"}
         /\ Receipt!PhotoCode(how) = "ACTION_REJECTED" => how = "onFailure"
         /\ Receipt!PhotoCode(how) \notin {"none", "SUCCEEDED", "CAPTURED"}
<1>1. ASSUME NEW code \in {Receipt!FlightCode(how), Receipt!MissionCode(x, how),
                           Receipt!StreamCode(how), Receipt!PhotoCode(how)}
      PROVE  (code = "ACTION_REJECTED" => how = "onFailure") /\ code \notin {"none", "SUCCEEDED", "CAPTURED"}
  BY DEF Receipt!FlightCode, Receipt!MissionCode, Receipt!StreamCode, Receipt!PhotoCode
<1>2. Receipt!FailureCode(x, how) \in {Receipt!FlightCode(how), Receipt!MissionCode(x, how),
                                       Receipt!StreamCode(how), Receipt!PhotoCode(how)}
  BY DEF Receipt!FailureCode, Receipt!Flight, Receipt!Mission, Receipt!Stream
<1> QED
  BY <1>1, <1>2

LEMMA CodesAreHonest ==
  ASSUME ReceiptTypes, NEW i \in open, NEW how, how \in {handset[i], "timed-out"},
         NEW code \in Receipt!Codes(i, how)
  PROVE  /\ code = "ACTION_REJECTED" => handset[i] = "onFailure"
         /\ code \in {"SUCCEEDED", "CAPTURED"} =>
              handset[i] = "onSuccess" /\ action[i] # "stream-stop"
<1>1. i \in 1..MaxClicks
  BY ClickIds
<1>2. CASE how \in {"onSuccess", "transferred"} /\ code = Receipt!SuccessCode(action[i])
  <2>1. how = handset[i] /\ (how = "transferred" => action[i] = "mission-stage")
    BY <1>1, <1>2 DEF ReceiptTypes
  <2>2. /\ Receipt!SuccessCode(action[i]) # "ACTION_REJECTED"
        /\ action[i] \in {"mission-stage", "stream-stop"} => Receipt!SuccessCode(action[i]) = "none"
    BY DEF Receipt!SuccessCode, Receipt!Flight
  <2> QED
    BY <1>2, <2>1, <2>2
<1>3. CASE code \in {"SOURCE_UNAVAILABLE", Receipt!FailureCode(action[i], how), "none"}
  BY <1>3, FailureReads
<1> QED
  BY <1>2, <1>3 DEF Receipt!Codes

\* A call ends with a code, which is DJI's word only if DJI said it.
LEMMA SettledStep ==
  ASSUME ReceiptInv, NEW i \in open, NEW code, Receipt!Settled(i, code),
         UNCHANGED <<attached, epoch, view, presses, action, shown, handset>>,
         fetched' \in [1..MaxClicks -> Nat],
         \A j \in 1..MaxClicks : fetched[j] > 0 => fetched'[j] > 0,
         code = "ACTION_REJECTED" => handset[i] = "onFailure",
         code \in {"SUCCEEDED", "CAPTURED"} =>
           (handset[i] = "onSuccess" \/ fetched'[i] > 0) /\ action[i] # "stream-stop"
  PROVE  ReceiptInv'
<1>1. ReceiptTypes /\ presses \in Nat /\ presses <= MaxClicks /\ i \in 1..presses
  BY DEF ReceiptInv, ReceiptTypes
<1>2. i \in 1..MaxClicks /\ queued \subseteq 1..MaxClicks /\ i \notin queued
  BY <1>1, ClickIds DEF ReceiptTypes
<1>3. /\ open' = open \ {i} /\ queued' \subseteq queued /\ behind \subseteq behind'
      /\ \/ receipts' = [receipts EXCEPT ![action[i]] = Receipt!Receipt(i, code)]
         \/ /\ action[i] = "stream-stop"
            /\ receipts' = [receipts EXCEPT !["stream-stop"] = Receipt!Receipt(i, code)]
         \/ \E item \in queued :
              /\ action[i] = "stream-stop" /\ queued' = {} /\ behind' = behind \cup {item}
              /\ receipts' = [receipts EXCEPT !["stream-stop"] = Receipt!Receipt(i, code),
                                              !["stream-start"] = Receipt!Receipt(item, code)]
  BY DEF Receipt!Settled
<1>4. /\ Receipt!Receipt(i, code) \in ReceiptRecord /\ Receipt!Receipt(i, code).id = i
      /\ Honest(Receipt!Receipt(i, code), handset', fetched', behind')
  BY <1>1, <1>2, ReceiptIs, CodeReads DEF Honest, Words
<1>5. ASSUME NEW item \in queued, behind' = behind \cup {item}, action[i] = "stream-stop"
      PROVE  /\ Receipt!Receipt(item, code) \in ReceiptRecord /\ Receipt!Receipt(item, code).id = item
             /\ Honest(Receipt!Receipt(item, code), handset', fetched', behind')
  <2>1. item \in 1..MaxClicks /\ item # 0
    <3>1. item \in 1..MaxClicks
      BY <1>2
    <3> QED
      BY <3>1, ReceiptsAssumed
  <2> QED
    BY <1>1, <1>5, <2>1, ReceiptIs, CodeReads DEF Honest, Words
<1>6. receipts' \in [Receipt!Action -> ReceiptRecord]
  <2>1. receipts \in [Receipt!Action -> ReceiptRecord]
    BY <1>1 DEF ReceiptTypes
  <2>2. \A item \in queued : behind' = behind \cup {item} /\ action[i] = "stream-stop"
          => Receipt!Receipt(item, code) \in ReceiptRecord
    BY <1>5
  <2> QED
    BY <1>3, <1>4, <2>1, <2>2
<1>7. \A x \in Receipt!Action :
           \/ receipts'[x] = receipts[x]
           \/ /\ receipts'[x].id \in 0..presses' /\ receipts'[x].id \notin open' \cup queued'
              /\ Honest(receipts'[x], handset', fetched', behind')
  <2> SUFFICES ASSUME NEW x \in Receipt!Action, receipts'[x] # receipts[x]
               PROVE  /\ receipts'[x].id \in 0..presses' /\ receipts'[x].id \notin open' \cup queued'
                      /\ Honest(receipts'[x], handset', fetched', behind')
    OBVIOUS
  <2>1. \/ receipts'[x] = Receipt!Receipt(i, code)
        \/ \E item \in queued :
             /\ action[i] = "stream-stop" /\ queued' = {} /\ behind' = behind \cup {item}
             /\ receipts'[x] = Receipt!Receipt(item, code)
    BY <1>1, <1>3 DEF ReceiptTypes
  <2>2. CASE receipts'[x] = Receipt!Receipt(i, code)
    BY <1>1, <1>2, <1>3, <1>4, <2>2
  <2>3. ASSUME NEW item \in queued, action[i] = "stream-stop", queued' = {}, behind' = behind \cup {item},
               receipts'[x] = Receipt!Receipt(item, code)
        PROVE  /\ receipts'[x].id \in 0..presses' /\ receipts'[x].id \notin open' \cup queued'
               /\ Honest(receipts'[x], handset', fetched', behind')
    <3>1. item \in 1..presses /\ item \notin open
      BY <1>1 DEF ReceiptTypes
    <3>2. /\ Receipt!Receipt(item, code).id = item
          /\ Honest(Receipt!Receipt(item, code), handset', fetched', behind')
      BY <1>5, <2>3
    <3>3. item \in 0..presses' /\ item \notin open' \cup queued'
      BY <1>1, <1>3, <2>3, <3>1
    <3> QED
      BY <2>3, <3>2, <3>3
  <2> QED
    BY <2>1, <2>2, <2>3
<1>8. ReceiptsHold'
  <2>1. \A j \in (1..presses) \ (open \cup queued) :
           /\ handset[j] \in Words => handset'[j] = handset[j]
           /\ fetched[j] > 0 => fetched'[j] > 0
    BY <1>1, ReceiptsAssumed
  <2> QED
    BY <1>1, <1>3, <1>7, <2>1, ReceiptsFollow
<1>9. ReceiptTypes'
  BY <1>1, <1>3, <1>6 DEF ReceiptTypes
<1> QED
  BY <1>8, <1>9 DEF ReceiptInv

LEMMA ClickTaken ==
  ASSUME ReceiptTypes, NEW x \in Receipt!Action, Receipt!Taken(x)
  PROVE  /\ presses' = presses + 1 /\ presses' \in 1..MaxClicks /\ presses' \notin 1..presses
         /\ shown' \in [1..MaxClicks -> Nat]
         /\ action' \in [1..MaxClicks -> Receipt!Action \cup {"none"}]
         /\ action'[presses'] = x
         /\ \A i \in 1..presses : action'[i] = action[i]
         /\ handset[presses'] = "none"
<1>1. /\ presses \in Nat /\ view \in Nat /\ shown \in [1..MaxClicks -> Nat]
      /\ action \in [1..MaxClicks -> Receipt!Action \cup {"none"}]
      /\ \A i \in 1..MaxClicks : i > presses => handset[i] = "none"
  BY DEF ReceiptTypes
<1>2. /\ presses < MaxClicks /\ presses' = presses + 1
      /\ action' = [action EXCEPT ![presses'] = x] /\ shown' = [shown EXCEPT ![presses'] = view]
  BY DEF Receipt!Taken
<1>3. presses' \in 1..MaxClicks /\ presses' \notin 1..presses /\ presses' > presses
  BY <1>1, <1>2, ReceiptsAssumed
<1>4. \A i \in 1..presses : i \in 1..MaxClicks /\ i # presses'
  BY <1>1, <1>2, <1>3, ReceiptsAssumed
<1> QED
  BY <1>1, <1>2, <1>3, <1>4

\* A click that is refused, sent or queued: what is told of it is no word of DJI's.
LEMMA ClickStep ==
  ASSUME ReceiptInv, NEW x \in Receipt!Action,
         Receipt!ClickRefused(x) \/ Receipt!ClickSent(x) \/ Receipt!ClickQueued(x)
  PROVE  ReceiptInv'
<1>1. ReceiptTypes /\ Receipt!Taken(x)
  BY DEF ReceiptInv, Receipt!ClickRefused, Receipt!ClickSent, Receipt!ClickQueued
<1>2. /\ presses' = presses + 1 /\ presses' \in 1..MaxClicks /\ presses' \notin 1..presses
      /\ shown' \in [1..MaxClicks -> Nat]
      /\ action' \in [1..MaxClicks -> Receipt!Action \cup {"none"}]
      /\ action'[presses'] = x /\ handset[presses'] = "none"
      /\ \A i \in 1..presses : action'[i] = action[i]
  BY <1>1, ClickTaken
<1>3. /\ presses \in Nat /\ presses' \in Nat /\ presses <= presses' /\ presses' <= MaxClicks
      /\ 1..presses \subseteq 1..presses' /\ presses' \in 1..presses' /\ presses' # 0
      /\ (presses + 1)..presses' = {presses'}
  BY <1>2, ReceiptsAssumed DEF ReceiptInv, ReceiptTypes
<1>4. open \subseteq 1..presses /\ queued \subseteq 1..presses /\ open \cap queued = {}
  BY <1>1 DEF ReceiptTypes
<1>5. /\ UNCHANGED <<epoch, view, behind, fetched>> /\ presses' \notin open \cup queued
      /\ open' \in {open, open \cup {presses'}} /\ queued' \in {queued, {presses'}}
      /\ open' = open \/ queued' = queued
      /\ queued' # queued => x = "stream-start"
      /\ handset' \in {handset, [handset EXCEPT ![presses'] = "asked"]}
      /\ \/ UNCHANGED receipts
         \/ /\ open' = open /\ queued' = queued
            /\ \E code \in {"DESKTOP_BLOCKED", "PREFLIGHT_BLOCKED", "DEVICE_OFFLINE",
                            "OPERATION_IN_PROGRESS"} :
                 receipts' = [receipts EXCEPT ![x] =
                   [id |-> presses', epoch |-> view, outcome |-> Receipt!Feedback(x, code)]]
  BY <1>2, <1>4 DEF Receipt!ClickRefused, Receipt!ClickSent, Receipt!ClickQueued, Receipt!Waits,
                    Receipt!sessionVars
<1>6. /\ receipts' \in [Receipt!Action -> ReceiptRecord]
      /\ \A y \in Receipt!Action :
           \/ receipts'[y] = receipts[y]
           \/ /\ receipts'[y].id \in 0..presses' /\ receipts'[y].id \notin open' \cup queued'
              /\ Honest(receipts'[y], handset', fetched', behind')
  <2>1. CASE UNCHANGED receipts
    BY <1>1, <2>1 DEF ReceiptTypes
  <2>2. ASSUME NEW code \in {"DESKTOP_BLOCKED", "PREFLIGHT_BLOCKED", "DEVICE_OFFLINE",
                             "OPERATION_IN_PROGRESS"},
               open' = open, queued' = queued,
               receipts' = [receipts EXCEPT ![x] =
                 [id |-> presses', epoch |-> view, outcome |-> Receipt!Feedback(x, code)]]
        PROVE  /\ receipts' \in [Receipt!Action -> ReceiptRecord]
               /\ \A y \in Receipt!Action :
                    \/ receipts'[y] = receipts[y]
                    \/ /\ receipts'[y].id \in 0..presses' /\ receipts'[y].id \notin open' \cup queued'
                       /\ Honest(receipts'[y], handset', fetched', behind')
    <3> DEFINE r == [id |-> presses', epoch |-> view, outcome |-> Receipt!Feedback(x, code)]
    <3>1. Receipt!Feedback(x, code) \in Receipt!Outcomes /\ Receipt!Feedback(x, code) \notin Words
      BY CodeReads DEF Words
    <3>2. r \in ReceiptRecord /\ r.id = presses' /\ r.outcome \notin Words
      BY <1>1, <1>3, <3>1 DEF ReceiptRecord, ReceiptTypes
    <3> HIDE DEF r
    <3>3. Honest(r, handset', fetched', behind')
      BY <3>2 DEF Honest, Words
    <3>4. receipts \in [Receipt!Action -> ReceiptRecord] /\ receipts' = [receipts EXCEPT ![x] = r]
      BY <1>1, <2>2 DEF ReceiptTypes, r
    <3>5. r.id \in 0..presses' /\ r.id \notin open' \cup queued'
      BY <1>3, <1>5, <2>2, <3>2
    <3> QED
      BY <3>2, <3>3, <3>4, <3>5
  <2> QED
    BY <1>5, <2>1, <2>2
<1>7. open' \cup queued' \subseteq open \cup queued \cup (presses + 1)..presses'
  BY <1>3, <1>5
<1>8. \A i \in (1..presses) \ (open \cup queued) :
           /\ handset[i] \in Words => handset'[i] = handset[i]
           /\ fetched[i] > 0 => fetched'[i] > 0
  <2>1. \A i \in 1..presses : i # presses' /\ i \in 1..MaxClicks
    BY <1>1, <1>2, ClickIds
  <2>2. handset \in [1..MaxClicks -> HandsetStates]
    BY <1>1 DEF ReceiptTypes
  <2> QED
    BY <1>5, <2>1, <2>2
<1>9. ReceiptsHold'
  <2>1. behind \subseteq behind'
    BY <1>5
  <2> QED
    BY <1>3, <1>6, <1>7, <1>8, <2>1, ReceiptsFollow
<1>10. /\ open' \subseteq 1..presses' /\ queued' \subseteq 1..presses' /\ open' \cap queued' = {}
       /\ \A i \in open' : action'[i] \in Receipt!Action
       /\ \A i \in queued' : action'[i] = "stream-start"
  <2>1. open' \subseteq 1..presses' /\ queued' \subseteq 1..presses' /\ open' \cap queued' = {}
    BY <1>3, <1>4, <1>5
  <2>2. /\ \A i \in open : action[i] \in Receipt!Action
        /\ \A i \in queued : action[i] = "stream-start"
    BY <1>1 DEF ReceiptTypes
  <2>3. \A i \in open \cup queued : action'[i] = action[i]
    BY <1>2, <1>4
  <2> QED
    BY <1>2, <1>5, <2>1, <2>2, <2>3
<1>11. /\ handset' \in [1..MaxClicks -> HandsetStates] /\ fetched' \in [1..MaxClicks -> Nat]
       /\ \A i \in 1..MaxClicks : /\ i > presses' => handset'[i] = "none"
                                  /\ handset'[i] = "transferred" => action'[i] = "mission-stage"
  <2>1. "asked" \in HandsetStates
    BY DEF HandsetStates
  <2>2. /\ handset \in [1..MaxClicks -> HandsetStates] /\ fetched \in [1..MaxClicks -> Nat]
        /\ \A i \in 1..MaxClicks : /\ i > presses => handset[i] = "none"
                                   /\ handset[i] = "transferred" => action[i] = "mission-stage"
    BY <1>1 DEF ReceiptTypes
  <2>3. handset' \in [1..MaxClicks -> HandsetStates] /\ fetched' \in [1..MaxClicks -> Nat]
    BY <1>2, <1>5, <2>1, <2>2
  <2>4. ASSUME NEW i \in 1..MaxClicks
        PROVE  /\ i > presses' => handset'[i] = "none"
               /\ handset'[i] = "transferred" => action'[i] = "mission-stage"
    <3>1. CASE i = presses'
      <4>1. handset'[i] \in {"none", "asked"}
        BY <1>2, <1>5, <2>2, <3>1
      <4>2. ~(i > presses')
        BY <1>3, <3>1
      <4> QED
        BY <4>1, <4>2
    <3>2. CASE i > presses'
      <4>1. i > presses /\ i # presses'
        BY <1>3, <3>2, ReceiptsAssumed
      <4>2. handset'[i] = handset[i]
        BY <1>2, <1>5, <2>2, <4>1
      <4>3. handset[i] = "none"
        BY <2>2, <4>1
      <4> QED
        BY <4>2, <4>3
    <3>3. CASE i \in 1..presses
      <4>1. handset'[i] = handset[i] /\ action'[i] = action[i] /\ i # presses'
        BY <1>2, <1>5, <2>2, <3>3
      <4>2. ~(i > presses')
        BY <1>2, <1>3, <3>3
      <4> QED
        BY <2>2, <4>1, <4>2
    <3> QED
      BY <1>2, <1>3, <3>1, <3>2, <3>3, ReceiptsAssumed
  <2> QED
    BY <2>3, <2>4
<1>12. ReceiptTypes'
  BY <1>1, <1>2, <1>3, <1>5, <1>6, <1>10, <1>11 DEF ReceiptTypes
<1> QED
  BY <1>9, <1>12 DEF ReceiptInv

\* A new receipt that says nothing of DJI's.
LEMMA QuietReceipt ==
  ASSUME ReceiptTypes, NEW i \in open \cup queued, NEW code,
         code \notin {"ACTION_REJECTED", "SUCCEEDED", "CAPTURED"}, NEW word, NEW got, NEW late
  PROVE  /\ Receipt!Receipt(i, code) \in ReceiptRecord /\ Receipt!Receipt(i, code).id = i
         /\ Honest(Receipt!Receipt(i, code), word, got, late)
<1>1. i \in 1..MaxClicks
  BY ClickIds
<1> QED
  BY <1>1, ReceiptIs, CodeReads DEF Honest, Words

\* Steps between clicks: what is open or waits is taken on or ends, quietly or with a photo.
LEMMA QuietStep ==
  ASSUME ReceiptInv, UNCHANGED <<presses, action, shown, fetched, behind>>,
         epoch' \in Nat, view' \in Nat, queued' \subseteq queued,
         open' \subseteq open \cup queued, open' \cap queued' = {},
         handset' \in [1..MaxClicks -> HandsetStates],
         \A i \in 1..MaxClicks :
           \/ handset'[i] = handset[i]
           \/ /\ i \in open \cup queued \/ handset[i] \in {"asked", "called"}
              /\ handset[i] # "none" \/ i \in queued
              /\ handset'[i] = "transferred" => action[i] = "mission-stage",
         receipts' \in [Receipt!Action -> ReceiptRecord],
         \A x \in Receipt!Action :
           \/ receipts'[x] = receipts[x]
           \/ /\ receipts'[x].id \in open \cup queued /\ receipts'[x].id \notin open' \cup queued'
              /\ Honest(receipts'[x], handset', fetched', behind')
  PROVE  ReceiptInv'
<1>1. /\ ReceiptTypes /\ presses \in Nat /\ 1..presses \subseteq 1..MaxClicks
      /\ open \subseteq 1..presses /\ queued \subseteq 1..presses
  BY ClickIds DEF ReceiptInv, ReceiptTypes
<1>2. ReceiptsHold'
  <2>1. \A i \in (1..presses) \ (open \cup queued) : handset[i] \in Words => handset'[i] = handset[i]
    BY <1>1 DEF Words
  <2>2. \A x \in Receipt!Action :
           \/ receipts'[x] = receipts[x]
           \/ /\ receipts'[x].id \in 0..presses' /\ receipts'[x].id \notin open' \cup queued'
              /\ Honest(receipts'[x], handset', fetched', behind')
    <3>1. open \cup queued \subseteq 0..presses'
      BY <1>1
    <3> QED
      BY <3>1
  <2>3. open' \cup queued' \subseteq open \cup queued \cup (presses + 1)..presses'
    OBVIOUS
  <2>4. presses <= presses'
    BY <1>1
  <2> QED
    BY <1>1, <2>1, <2>2, <2>3, <2>4, ReceiptsFollow
<1>3. ReceiptTypes'
  <2>1. \A i \in 1..MaxClicks : /\ i > presses => handset'[i] = "none"
                                /\ handset'[i] = "transferred" => action[i] = "mission-stage"
    <3> SUFFICES ASSUME NEW i \in 1..MaxClicks, handset'[i] # handset[i]
                 PROVE  /\ i > presses => handset'[i] = "none"
                        /\ handset'[i] = "transferred" => action[i] = "mission-stage"
      BY <1>1 DEF ReceiptTypes
    <3>1. handset[i] = "none" => i \in queued
      OBVIOUS
    <3>2. i > presses => handset[i] = "none"
      BY <1>1 DEF ReceiptTypes
    <3>3. ~(i > presses)
      BY <1>1, <3>1, <3>2
    <3> QED
      BY <3>3
  <2>2. /\ open' \subseteq 1..presses /\ queued' \subseteq 1..presses
        /\ \A i \in open' : action[i] \in Receipt!Action
        /\ \A i \in queued' : action[i] = "stream-start"
    <3>1. "stream-start" \in Receipt!Action
      BY DEF Receipt!Action, Receipt!Stream
    <3> QED
      BY <1>1, <3>1 DEF ReceiptTypes
  <2> QED
    BY <1>1, <2>1, <2>2 DEF ReceiptTypes
<1> QED
  BY <1>2, <1>3 DEF ReceiptInv

LEMMA QueueStep == ASSUME ReceiptInv, Receipt!QueueMoves PROVE ReceiptInv'
<1>1. ReceiptTypes
  BY DEF ReceiptInv
<1>2. PICK item \in queued :
        /\ queued' = {} /\ UNCHANGED <<attached, epoch, view, presses, action, shown, behind, fetched>>
        /\ \/ /\ receipts' = [receipts EXCEPT !["stream-start"] = Receipt!Receipt(item, "CAPABILITY_BLOCKED")]
              /\ UNCHANGED <<open, handset>>
           \/ /\ open' = open \cup {item} /\ handset' = [handset EXCEPT ![item] = "asked"]
              /\ UNCHANGED receipts
  BY DEF Receipt!QueueMoves, Receipt!sessionVars
<1>3. /\ epoch' \in Nat /\ view' \in Nat /\ handset \in [1..MaxClicks -> HandsetStates]
      /\ receipts \in [Receipt!Action -> ReceiptRecord] /\ item \notin open
  BY <1>1, <1>2 DEF ReceiptTypes
<1>4. CASE /\ receipts' = [receipts EXCEPT !["stream-start"] = Receipt!Receipt(item, "CAPABILITY_BLOCKED")]
           /\ UNCHANGED <<open, handset>>
  <2>1. /\ Receipt!Receipt(item, "CAPABILITY_BLOCKED") \in ReceiptRecord
        /\ Receipt!Receipt(item, "CAPABILITY_BLOCKED").id = item
        /\ Honest(Receipt!Receipt(item, "CAPABILITY_BLOCKED"), handset', fetched', behind')
    BY <1>1, QuietReceipt
  <2> QED
    BY <1>2, <1>3, <1>4, <2>1, QuietStep
<1>5. CASE open' = open \cup {item} /\ handset' = [handset EXCEPT ![item] = "asked"] /\ UNCHANGED receipts
  <2>1. "asked" \in HandsetStates
    BY DEF HandsetStates
  <2> QED
    BY <1>2, <1>3, <1>5, <2>1, QuietStep
<1> QED
  BY <1>2, <1>4, <1>5

\* A phone that is lost ends every call in the same turn: none reads as a word of DJI's, but
\* for photos that have come.
LEMMA LostStep == ASSUME ReceiptInv, Receipt!SessionLost PROVE ReceiptInv'
<1>1. ReceiptTypes
  BY DEF ReceiptInv
<1>2. /\ open' = {} /\ queued' = {}
      /\ UNCHANGED <<epoch, view, presses, action, shown, behind, handset, fetched>>
      /\ epoch' \in Nat /\ view' \in Nat /\ handset' \in [1..MaxClicks -> HandsetStates]
      /\ receipts \in [Receipt!Action -> ReceiptRecord]
  BY <1>1 DEF Receipt!SessionLost, ReceiptTypes
<1>3. \A x \in Receipt!Action :
        receipts'[x] = receipts[x] \/
        \E i \in open \cup queued : receipts'[x] = Receipt!Receipt(i, Receipt!LostCode(i))
  BY DEF Receipt!SessionLost
<1>4. ASSUME NEW i \in open \cup queued
      PROVE  /\ Receipt!Receipt(i, Receipt!LostCode(i)) \in ReceiptRecord
             /\ Receipt!Receipt(i, Receipt!LostCode(i)).id = i
             /\ Honest(Receipt!Receipt(i, Receipt!LostCode(i)), handset', fetched', behind')
  <2>1. CASE action[i] = "photo-fetch" /\ fetched[i] > 0
    <3>1. i \in 1..MaxClicks /\ i # 0
      BY <1>1, ClickIds, ReceiptsAssumed
    <3>2. Receipt!LostCode(i) = "SUCCEEDED"
      BY <2>1 DEF Receipt!LostCode
    <3> QED
      BY <1>1, <1>2, <2>1, <3>1, <3>2, ReceiptIs, CodeReads DEF Honest, Words
  <2>2. CASE ~(action[i] = "photo-fetch" /\ fetched[i] > 0)
    <3>1. Receipt!LostCode(i) = Receipt!FailureCode(action[i], "disconnected")
      BY <2>2 DEF Receipt!LostCode
    <3> QED
      BY <1>1, <3>1, FailureReads, QuietReceipt
  <2> QED
    BY <2>1, <2>2
<1>5. receipts' \in [Receipt!Action -> ReceiptRecord]
  <2>1. \A x \in Receipt!Action : receipts'[x] \in ReceiptRecord
    BY <1>2, <1>3, <1>4
  <2>2. receipts' = [x \in Receipt!Action |-> receipts'[x]]
    BY DEF Receipt!SessionLost
  <2> QED
    BY <2>1, <2>2
<1>6. \A x \in Receipt!Action :
        \/ receipts'[x] = receipts[x]
        \/ /\ receipts'[x].id \in open \cup queued /\ receipts'[x].id \notin open' \cup queued'
           /\ Honest(receipts'[x], handset', fetched', behind')
  BY <1>2, <1>3, <1>4
<1> QED
  BY <1>2, <1>5, <1>6, QuietStep

LEMMA SourceStep == ASSUME ReceiptInv, Receipt!SourceGoes PROVE ReceiptInv'
<1>1. ReceiptTypes
  BY DEF ReceiptInv
<1>2. /\ queued' = {} /\ UNCHANGED <<attached, epoch, view, presses, action, shown, open, behind, handset, fetched>>
      /\ \/ UNCHANGED receipts
         \/ \E item \in queued :
              receipts' = [receipts EXCEPT !["stream-start"] = Receipt!Receipt(item, "SOURCE_UNAVAILABLE")]
  BY DEF Receipt!SourceGoes, Receipt!sessionVars
<1>3. /\ epoch' \in Nat /\ view' \in Nat /\ handset' \in [1..MaxClicks -> HandsetStates]
      /\ receipts \in [Receipt!Action -> ReceiptRecord] /\ open \cap queued = {}
  BY <1>1, <1>2 DEF ReceiptTypes
<1>4. \A item \in queued :
        /\ Receipt!Receipt(item, "SOURCE_UNAVAILABLE") \in ReceiptRecord
        /\ Receipt!Receipt(item, "SOURCE_UNAVAILABLE").id = item
        /\ Honest(Receipt!Receipt(item, "SOURCE_UNAVAILABLE"), handset', fetched', behind')
  BY <1>1, QuietReceipt
<1> QED
  BY <1>2, <1>3, <1>4, QuietStep

\* The session, the page's view and the phone on its own touch no receipt.
LEMMA AsideStep ==
  ASSUME ReceiptInv, \/ Receipt!SessionBegins \/ Receipt!FetchView
                     \/ \E i \in 1..MaxClicks : Receipt!PhoneSteps(i)
  PROVE  ReceiptInv'
<1>1. ReceiptTypes
  BY DEF ReceiptInv
<1>2. /\ UNCHANGED <<presses, action, shown, open, queued, behind, fetched, receipts>>
      /\ epoch' \in {epoch, epoch + 1} /\ view' \in {view, epoch, 0}
      /\ \/ UNCHANGED handset
         \/ \E i \in 1..MaxClicks, state \in HandsetStates :
              /\ handset[i] \in {"asked", "called"} /\ handset' = [handset EXCEPT ![i] = state]
              /\ state = "transferred" => action[i] = "mission-stage"
  <2>1. CASE Receipt!SessionBegins \/ Receipt!FetchView
    BY <2>1 DEF Receipt!SessionBegins, Receipt!FetchView
  <2>2. ASSUME NEW i \in 1..MaxClicks, Receipt!PhoneSteps(i)
        PROVE  \E state \in HandsetStates :
                 /\ handset[i] \in {"asked", "called"} /\ handset' = [handset EXCEPT ![i] = state]
                 /\ state = "transferred" => action[i] = "mission-stage"
    BY <2>2 DEF Receipt!PhoneSteps, HandsetStates, Receipt!Finals
  <2> QED
    BY <2>1, <2>2 DEF Receipt!PhoneSteps, Receipt!sessionVars
<1>3. /\ epoch \in Nat /\ view \in Nat /\ handset \in [1..MaxClicks -> HandsetStates]
      /\ receipts \in [Receipt!Action -> ReceiptRecord] /\ open \cap queued = {}
  BY <1>1 DEF ReceiptTypes
<1>4. epoch' \in Nat /\ view' \in Nat /\ handset' \in [1..MaxClicks -> HandsetStates]
  BY <1>2, <1>3
<1>5. \A i \in 1..MaxClicks :
           \/ handset'[i] = handset[i]
           \/ /\ handset[i] \in {"asked", "called"}
              /\ handset'[i] = "transferred" => action[i] = "mission-stage"
  BY <1>2, <1>3
<1> QED
  BY <1>2, <1>3, <1>4, <1>5, QuietStep

LEMMA EndsStep ==
  ASSUME ReceiptInv, NEW i \in open, NEW how, how \in {handset[i], "timed-out"}, Receipt!Ends(i, how)
  PROVE  ReceiptInv'
<1>1. ReceiptTypes /\ i \in 1..MaxClicks /\ fetched \in [1..MaxClicks -> Nat]
      /\ handset \in [1..MaxClicks -> HandsetStates] /\ fetched[i] \in Nat
  BY ClickIds DEF ReceiptInv, ReceiptTypes
<1>2. UNCHANGED <<attached, epoch, view, presses, action, shown>>
  BY DEF Receipt!Ends, Receipt!sessionVars
<1>3. CASE action[i] # "photo-fetch"
  <2>1. PICK code \in Receipt!Codes(i, how) : Receipt!Settled(i, code) /\ UNCHANGED <<handset, fetched>>
    BY <1>3 DEF Receipt!Ends
  <2>2. /\ code = "ACTION_REJECTED" => handset[i] = "onFailure"
        /\ code \in {"SUCCEEDED", "CAPTURED"} => handset[i] = "onSuccess" /\ action[i] # "stream-stop"
    BY <1>1, CodesAreHonest
  <2> QED
    BY <1>1, <1>2, <2>1, <2>2, SettledStep
<1>4. CASE action[i] = "photo-fetch" /\ Receipt!FetchEnds(i, how)
  <2>1. UNCHANGED handset /\ action[i] # "stream-stop"
    BY <1>4 DEF Receipt!FetchEnds
  <2>2. CASE how = "onSuccess"
    <3>1. fetched' = [fetched EXCEPT ![i] = MaxPhotos] /\ Receipt!Settled(i, "SUCCEEDED")
      BY <1>4, <2>2 DEF Receipt!FetchEnds
    <3>2. /\ fetched' \in [1..MaxClicks -> Nat] /\ fetched'[i] > 0
          /\ \A j \in 1..MaxClicks : fetched[j] > 0 => fetched'[j] > 0
      BY <1>1, <3>1, ReceiptsAssumed
    <3> QED
      BY <1>2, <2>1, <3>1, <3>2, SettledStep
  <2>3. CASE how # "onSuccess"
    <3>1. UNCHANGED fetched
      BY <1>4, <2>3 DEF Receipt!FetchEnds
    <3>2. CASE fetched[i] > 0
      <4>1. Receipt!Settled(i, "SUCCEEDED")
        BY <1>4, <2>3, <3>2 DEF Receipt!FetchEnds
      <4> QED
        BY <1>1, <1>2, <2>1, <3>1, <3>2, <4>1, SettledStep
    <3>3. CASE ~(fetched[i] > 0)
      <4>1. Receipt!Settled(i, Receipt!PhotoCode(how))
        BY <1>4, <2>3, <3>3 DEF Receipt!FetchEnds
      <4>2. /\ Receipt!PhotoCode(how) = "ACTION_REJECTED" => handset[i] = "onFailure"
            /\ Receipt!PhotoCode(how) \notin {"SUCCEEDED", "CAPTURED"}
        BY FailureReads
      <4> QED
        BY <1>1, <1>2, <2>1, <3>1, <4>1, <4>2, SettledStep
    <3> QED
      BY <3>2, <3>3
  <2> QED
    BY <2>2, <2>3
<1>5. CASE action[i] = "photo-fetch" /\ Receipt!FetchGoesOn(i, how)
  <2>1. /\ fetched' = [fetched EXCEPT ![i] = IF how = "onSuccess" THEN @ + 1 ELSE @]
        /\ handset' = [handset EXCEPT ![i] = "asked"]
        /\ UNCHANGED <<open, queued, behind, receipts>>
    BY <1>5 DEF Receipt!FetchGoesOn
  <2>2. /\ fetched' \in [1..MaxClicks -> Nat] /\ handset' \in [1..MaxClicks -> HandsetStates]
        /\ \A j \in 1..MaxClicks : j # i => handset'[j] = handset[j] /\ fetched'[j] = fetched[j]
        /\ handset'[i] = "asked"
    BY <1>1, <2>1 DEF HandsetStates
  <2>3. ReceiptsHold'
    <3>1. \A j \in (1..presses) \ (open \cup queued) :
           /\ handset[j] \in Words => handset'[j] = handset[j]
           /\ fetched[j] > 0 => fetched'[j] > 0
      BY <1>1, <2>2, ClickIds
    <3>2. presses' \in Nat /\ presses <= presses' /\ behind \subseteq behind'
          /\ open' \cup queued' \subseteq open \cup queued \cup (presses + 1)..presses'
      BY <1>1, <1>2, <2>1, ClickIds
    <3> QED
      BY <2>1, <3>1, <3>2, ReceiptsFollow
  <2>4. ReceiptTypes'
    <3>1. \A j \in 1..MaxClicks :
            /\ j > presses => handset'[j] = "none"
            /\ handset'[j] = "transferred" => action[j] = "mission-stage"
      <4>1. i \in 1..presses /\ presses \in Nat
        BY <1>1 DEF ReceiptTypes
      <4>2. ~(i > presses)
        BY <4>1
      <4>3. \A j \in 1..MaxClicks :
              /\ j > presses => handset[j] = "none"
              /\ handset[j] = "transferred" => action[j] = "mission-stage"
        BY <1>1 DEF ReceiptTypes
      <4> QED
        BY <2>2, <4>2, <4>3
    <3> QED
      BY <1>1, <1>2, <2>1, <2>2, <3>1 DEF ReceiptTypes
  <2> QED
    BY <2>3, <2>4 DEF ReceiptInv
<1> QED
  BY <1>3, <1>4, <1>5 DEF Receipt!Ends, Receipt!Fetches

LEMMA ReceiptStep ==
  ASSUME ReceiptInv, Receipt!ReceiptsNext
  PROVE  ReceiptInv'
<1>1. ASSUME NEW i \in Receipt!Ids, Receipt!AnswerArrives(i) \/ Receipt!TimesOut(i) PROVE ReceiptInv'
  BY <1>1, EndsStep DEF Receipt!AnswerArrives, Receipt!TimesOut
<1> QED
  BY <1>1, ClickStep, QueueStep, LostStep, SourceStep, AsideStep DEF Receipt!ReceiptsNext, Receipt!Ids

LEMMA ReceiptRests ==
  ASSUME ReceiptInv, UNCHANGED ReceiptVars
  PROVE  ReceiptInv'
BY DEF ReceiptInv, ReceiptVars, ReceiptTypes, ReceiptsHold

LEMMA ReceiptsAlwaysHonest == Spec => []Receipt!ReceiptsAreHonest
<1>1. Init => ReceiptInv
  BY ReceiptsBegin DEF Init, PartsInit
<1>2. ReceiptInv /\ [Next]_consoleRunVars => ReceiptInv'
  <2>1. [Next]_consoleRunVars => Receipt!ReceiptsNext \/ UNCHANGED ReceiptVars
    BY DEF Next, consoleRunVars, receipt, ReceiptVars
  <2> QED
    BY <2>1, ReceiptStep, ReceiptRests
<1>3. ReceiptInv => Receipt!ReceiptsAreHonest
  BY DEF ReceiptInv, ReceiptsHold, Honest, Words, Receipt!ReceiptsAreHonest
<1> QED
  BY <1>1, <1>2, <1>3, PTL DEF Spec

\* Verdicts, buttons and receipts of the page agree with what the phone, its lane and DJI are
\* at, in every state: device-console, operator-console, flight-now-status, operation-feedback.
THEOREM PageAlwaysTellsTheFacts == Spec => []PageTellsTheFacts
<1>1. Spec => [](Links!VerdictsAgree /\ Links!StreamButtonsAreHonest)
  BY LinksInvHolds, LinksAgree, PTL
<1>2. /\ Links!VerdictsAgree /\ Links!StreamButtonsAreHonest
      /\ Console!ButtonsMatchTheLane
      /\ part \in {"landing", "flying"} => Aircraft!HoverStopsWhatIsShown
      /\ Receipt!ReceiptsAreHonest
      => PageTellsTheFacts
  BY DEF PageTellsTheFacts
<1> QED
  BY <1>1, <1>2, ButtonsAlwaysMatch, HoverAlwaysStops, ReceiptsAlwaysHonest, PTL
=============================================================================
