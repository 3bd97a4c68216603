------------------------------- MODULE MCStation -------------------------------
(***************************************************************************)
(* The desktop program on small instances.  Its parts do not share state,  *)
(* so a behaviour moves one of them and leaves the others as they begin.   *)
(***************************************************************************)
EXTENDS Station, FlvFilter, LowLatency, RouteImporter

VARIABLE part
stationRunVars == <<part, mediaVars, stationVars, flvVars, lowLatencyVars, importerVars>>

ASSUME ImporterHolds == ImporterAssumption

\* The WebRTC side alone is looked at with more sessions than under its facade.
Webrtc == INSTANCE WebrtcMedia WITH MaxSessions <- 3, MaxRefreshes <- 2

PartsInit == StationInit /\ LowLatencyInit

Init ==
  /\ part \in {"media", "station", "flv", "webrtc", "lowlatency", "import"}
  /\ PartsInit
  /\ FlvInit /\ (part # "flv" => source.codec = "avc")
  /\ ImporterInit /\ (part # "import" => import.format = "kml")

Next ==
  /\ UNCHANGED part
  /\ \/ /\ part = "media" /\ MediaNext
        /\ UNCHANGED <<stationVars, flvVars, lowLatencyVars, importerVars>>
     \/ /\ part = "station" /\ StationNext
        /\ UNCHANGED <<flvVars, lowLatencyVars, importerVars>>
     \/ /\ part = "flv" /\ FlvNext
        /\ UNCHANGED <<mediaVars, stationVars, lowLatencyVars, importerVars>>
     \/ /\ part = "webrtc" /\ Webrtc!WebrtcNext
        /\ UNCHANGED <<mediaVars, stationVars, flvVars, lanes, sends, work, lowLatency, importerVars>>
     \/ /\ part = "lowlatency" /\ LowLatencyNext
        /\ UNCHANGED <<mediaVars, stationVars, flvVars, importerVars>>
     \/ /\ part = "import" /\ ImporterNext
        /\ UNCHANGED <<mediaVars, stationVars, flvVars, lowLatencyVars>>

Spec == Init /\ [][Next]_stationRunVars /\ (part = "station" => StationFairness)

-----------------------------------------------------------------------------
(* The archives and documents of the run. *)

At(dir, name, kind, declared, actual) ==
  [dir |-> dir, name |-> name, kind |-> kind, declared |-> declared, actual |-> actual]

\* Documents of different ranks, and twice of one rank; a file longer than it says,
\* and entries that end the import.
SomeEntries ==
  {At("wpmz", "waylines.wpml", "file", 1, 1), At("a", "waylines.wpml", "file", 1, 1),
   At("b", "waylines.wpml", "file", 1, 1), At("wpmz", "template.kml", "file", 1, 1),
   At("none", "route.kml", "file", 1, 2), At("none", "other", "file", 1, 1),
   At("none", "other", "directory", 0, 0), At("none", "other", "unsafe", 0, 0),
   At("none", "other", "encrypted", 1, 1)}

SomeTags ==
  {"kml", "Placemark", "Point", "LineString", "coordinates", "executeHeight", "Polygon"}

\* A placemark within a subtree that is skipped, and a line next to a point.
SomeNests ==
  {<<"kml", "Placemark">>, <<"Placemark", "Point">>, <<"Placemark", "LineString">>,
   <<"Placemark", "executeHeight">>, <<"Placemark", "Polygon">>, <<"Polygon", "Placemark">>,
   <<"Point", "coordinates">>, <<"LineString", "coordinates">>}

SomeTuples == [altitude : BOOLEAN, malformed : {FALSE}, given : {TRUE}]

-----------------------------------------------------------------------------

\* What a player is sent can be decoded, and what a route file holds is read whole:
\* neither a picture nor a waypoint is made up from a part of what it needs.
WhatIsPassedOnIsWhole == InterFramesAreDecodable /\ RoutesAreReadWhole

=============================================================================
