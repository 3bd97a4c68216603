----------------------------- MODULE RouteImporter -----------------------------
(***************************************************************************)
(* How a route file becomes a list of waypoints                            *)
(* (src/modules/route-library/importer, and what qualification accepts of  *)
(* it): the container is looked at, every entry of a KMZ is expanded within *)
(* a budget, and the document chosen is read by the handlers of a          *)
(* streaming XML parser.  Whoever imports may cancel between any two       *)
(* chunks.                                                                 *)
(*                                                                         *)
(* A text is one of Texts, which may hold "too long", or "none" when it is *)
(* empty; what the parser makes of an element depends on its tag alone.    *)
(***************************************************************************)
EXTENDS Naturals, Sequences, FiniteSets, FiniteSetsExt

CONSTANTS
  Entry,          \* what a KMZ may hold: [dir, name, kind, declared, actual]
  MaxEntries,     \* maxArchiveEntries
  MaxExpanded,    \* maxExpandedBytes, in chunks
  MaxWaypoints,   \* maxWaypoints
  Tag,            \* the tags of a document
  Nests,          \* <<outer, inner>>: what a document puts in what: a bound of the model
  Tuple,          \* what tuples of coordinates tell, and
  Texts,          \* what can stand in a field: bounds of the model
  MaxElements     \* elements and tuples of a document: a bound of the model

Kinds == {"file", "directory", "unsafe", "encrypted", "special"}
ImporterAssumption ==
  /\ {MaxEntries, MaxExpanded, MaxWaypoints} \subseteq Nat \ {0} /\ MaxElements \in Nat
  /\ Nests \subseteq Tag \X Tag
  /\ Tuple \subseteq [altitude : BOOLEAN, malformed : BOOLEAN, given : {TRUE}]
  /\ Entry \subseteq [dir : STRING, name : STRING, kind : Kinds, declared : Nat, actual : Nat]
  /\ Texts \subseteq STRING /\ "none" \notin Texts

VARIABLES
  import,         \* stage, format, kind of the document chosen, and what became of it
  cancellation,   \* the caller's token: "clear", "aborted" or "unreadable"
  archive,        \* the entries, the one that is expanded, what of it, and the budget used
  open,           \* history: elements not closed yet, with the context they were opened in
  context,        \* the variables of the handlers that say where the parser is
  placemarks,     \* what the open placemarks have collected
  capture,        \* the text being captured
  found           \* lineDrafts, pointDrafts, and what is known of the document
importerVars == <<import, cancellation, archive, open, context, placemarks, capture, found>>

-----------------------------------------------------------------------------
(* Elements.                                                               *)

Heights == <<"executeHeight", "ellipsoidHeight", "height">>     \* in order of preference
Fields == {"index", "executeHeight", "ellipsoidHeight", "height"}
\* EXCLUDED_KML_SUBTREES, and elements of the WPML namespace that are not read.
StartsExcludedSubtree(tag) == tag \in {"Polygon", "waylineId"}
IsWpml(tag) == tag \in Fields \cup {"waylineId"}

Nothing == [target |-> "nothing", at |-> 0, of |-> 0]
Outside == [depth |-> 0, excluded |-> 0, lines |-> 0, points |-> <<>>, reading |-> Nothing]

\* What the opentag handler makes of where the parser is.
ReadingIn(c, kind, tag) ==
  LET inPoint == c.points # <<>> /\ c.points[Len(c.points)] > 0
      inLine == kind = "kml" /\ c.lines > 0
      Into(target) == [target |-> target, at |-> c.depth + 1, of |-> Len(c.points)]
  IN
  CASE c.reading # Nothing -> c.reading
    [] c.reading = Nothing /\ tag = "coordinates" /\ inLine -> Into("line")
    [] c.reading = Nothing /\ tag = "coordinates" /\ ~inLine /\ inPoint -> Into("point")
    [] c.reading = Nothing /\ tag \in Fields /\ c.points # <<>> -> Into(tag)
    [] OTHER -> Nothing

Entered(c, kind, tag) ==
  IF c.excluded # 0 THEN [c EXCEPT !.depth = @ + 1]
  ELSE IF StartsExcludedSubtree(tag) THEN [c EXCEPT !.depth = @ + 1, !.excluded = c.depth + 1]
  ELSE [depth |-> c.depth + 1, excluded |-> 0,
        lines |-> c.lines + (IF tag = "LineString" THEN 1 ELSE 0),
        points |-> CASE tag = "Placemark" -> Append(c.points, 0)
                     [] tag = "Point" /\ c.points # <<>> ->
                          [c.points EXCEPT ![Len(c.points)] = @ + 1]
                     [] OTHER -> c.points,
        reading |-> ReadingIn(c, kind, tag)]

\* mutant: any end tag ends what is skipped.
LeftAtFirstEnd(c, tag) == [c EXCEPT !.depth = @ - 1, !.excluded = 0]

\* And the closetag handler.
Left(c, tag) ==
  IF c.excluded # 0
  THEN [c EXCEPT !.depth = @ - 1, !.excluded = IF c.depth = c.excluded THEN 0 ELSE @]
  ELSE [depth |-> c.depth - 1, excluded |-> 0,
        lines |-> c.lines - (IF tag = "LineString" THEN 1 ELSE 0),
        points |-> CASE tag = "Placemark" -> SubSeq(c.points, 1, Len(c.points) - 1)
                     [] tag = "Point" /\ c.points # <<>> ->
                          [c.points EXCEPT ![Len(c.points)] = @ - 1]
                     [] OTHER -> c.points,
        reading |-> IF c.reading.at = c.depth THEN Nothing ELSE c.reading]

-----------------------------------------------------------------------------
(* Waypoint candidates.                                                    *)

NoTuple == [altitude |-> FALSE, malformed |-> FALSE, given |-> FALSE]

NewPlacemark ==
  [elements |-> 0, tuples |-> 0, first |-> NoTuple, fields |-> [f \in Fields |-> <<>>]]

Missing == [source |-> "missing", given |-> FALSE, malformed |-> FALSE]

Disagree(values) == \E i \in DOMAIN values : values[i] # values[1] \/ values[i] = "too long"

\* chooseField(): the first height that says something.
Fallback(placemark) ==
  LET says == {i \in DOMAIN Heights : placemark.fields[Heights[i]] # <<>>
                                      /\ placemark.fields[Heights[i]][1] # "none"}
  IN  [source |-> IF says = {} THEN "missing" ELSE Heights[Min(says)], given |-> says # {},
       malformed |-> \E i \in DOMAIN Heights : Disagree(placemark.fields[Heights[i]])]

\* chooseTextField() of the index.
Sequence(placemark) ==
  IF placemark.fields["index"] = <<>> THEN "none" ELSE placemark.fields["index"][1]

\* coordinateFirst() and fallbackFirst(): a coordinate is the source of what it does not give.
Altitude(kind, tuple, fallback) ==
  LET ofCoordinate == [source |-> "coordinate", given |-> tuple.altitude] IN
  IF kind = "kml"
  THEN IF tuple.altitude THEN ofCoordinate ELSE [source |-> fallback.source, given |-> fallback.given]
  ELSE IF fallback.given THEN [source |-> fallback.source, given |-> TRUE] ELSE ofCoordinate

TupleDraft(kind, tuple, fallback, sequence, forceMalformed) ==
  [sequence |-> sequence, placed |-> TRUE, altitude |-> Altitude(kind, tuple, fallback),
   malformed |-> forceMalformed \/ tuple.malformed \/ fallback.malformed]

\* What a placemark without coordinates leaves in a WPML document.
EmptyDraft(placemark) ==
  [sequence |-> Sequence(placemark), placed |-> FALSE,
   altitude |-> [source |-> Fallback(placemark).source, given |-> Fallback(placemark).given],
   malformed |-> TRUE]

PlacemarkDraft(kind, placemark) ==
  IF placemark.tuples = 0 THEN EmptyDraft(placemark)
  ELSE TupleDraft(kind, placemark.first, Fallback(placemark),
                  IF kind = "kml" THEN "none" ELSE Sequence(placemark),
                  placemark.elements # 1 \/ placemark.tuples # 1
                    \/ Disagree(placemark.fields["index"]))

\* A placemark counts in a WPML document, and in a KML with coordinates.
Counts(kind, placemark) == kind = "wpml" \/ placemark.tuples > 0

-----------------------------------------------------------------------------
(* Outcomes.                                                               *)

ArchiveStages == {"list", "expand"}
NoArchive == [entries |-> <<>>, next |-> 1, written |-> 0, used |-> 0, chosen |-> 0]
NoCapture == [tuple |-> NoTuple, text |-> "none"]
NothingFound == [lines |-> <<>>, points |-> <<>>, sawLine |-> FALSE, overflow |-> FALSE,
                 due |-> 0, namespace |-> FALSE, waylines |-> 0, elements |-> 0]

ImporterInit ==
  /\ import \in [stage : {"called"}, format : {"kml", "kmz"}, kind : {"kml"}, companion : {FALSE},
                 outcome : {"none"}]
  /\ cancellation = "clear"
  /\ archive = NoArchive
  /\ open = <<>> /\ context = Outside /\ placemarks = <<>>
  /\ capture = NoCapture
  /\ found = NothingFound

parsing == <<open, context, placemarks, capture, found>>

\* readKmz() closes the archive before its outcome is seen; elsewhere it is seen at once.
Concludes(outcome) ==
  import' = [import EXCEPT !.outcome = outcome,
                           !.stage = IF @ \in ArchiveStages THEN "closing" ELSE "ended"]

\* An error leaves nothing of what was read.
Fails(error) ==
  /\ Concludes(error)
  /\ archive' = NoArchive
  /\ open' = <<>> /\ context' = Outside /\ placemarks' = <<>>
  /\ capture' = NoCapture /\ found' = NothingFound

\* throwIfCancelled(): the steps of an import begin with it.
Cancelled ==
  /\ cancellation # "clear"
  /\ Fails(IF cancellation = "aborted" THEN "cancelled" ELSE "DOMAIN_INVARIANT_VIOLATION")
  /\ UNCHANGED cancellation
NotCancelled == cancellation = "clear"

Goes(stage) == import' = [import EXCEPT !.stage = stage] /\ UNCHANGED <<archive, parsing>>

\* The caller's side: it runs while the import awaits.
Cancel ==
  /\ import.stage \notin {"parse", "ended"}     \* elsewhere it awaits
  /\ cancellation = "clear"
  /\ cancellation' \in {"aborted", "unreadable"}
  /\ UNCHANGED <<import, archive, parsing>>

IntakeErrors == {"DOMAIN_INVARIANT_VIOLATION", "INVALID_FILE_NAME", "UNSUPPORTED_FORMAT",
                 "EMPTY_FILE", "FILE_TOO_LARGE", "FORMAT_MISMATCH"}

\* intakeFile() and the prefix of detectContainer().
Intake ==
  /\ import.stage = "called"
  /\ \/ Cancelled
     \/ /\ NotCancelled
        /\ \/ \E error \in IntakeErrors : Fails(error)
           \/ import.format = "kmz" /\ Goes("list")
           \/ Goes("detect")
        /\ UNCHANGED cancellation

\* detectXmlEncoding(): a KMZ that is XML is a mismatch too.
Detect ==
  /\ import.stage = "detect"
  /\ \/ Cancelled
     \/ /\ NotCancelled
        /\ Fails("FORMAT_MISMATCH") \/ (import.format = "kml" /\ Goes("parse"))
        /\ UNCHANGED cancellation

-----------------------------------------------------------------------------
(* readKmz()                                                               *)

NotZip(error) == Fails(error) /\ UNCHANGED cancellation
Entries == DOMAIN archive.entries
FilesUpTo(k) == {i \in Entries : i <= k /\ archive.entries[i].kind # "directory"}

Lists ==
  /\ import.stage = "list"
  /\ \/ Cancelled
     \/ NotCancelled /\ \E entry \in Entry :
          IF Len(archive.entries) = MaxEntries THEN NotZip("ARCHIVE_ENTRY_LIMIT")
          ELSE /\ archive' = [archive EXCEPT !.entries = Append(@, entry)]
               /\ UNCHANGED <<import, cancellation, parsing>>

Same(i, j) == archive.entries[i].dir = archive.entries[j].dir /\ archive.entries[i].name = archive.entries[j].name
\* mutant: a path may be listed twice.
BadAlone(k) == archive.entries[k].kind = "unsafe"
Bad(k) == archive.entries[k].kind = "unsafe" \/ \E j \in 1..(k - 1) : Same(j, k)
Closed(k) == archive.entries[k].kind \in {"encrypted", "special"}
First(S) == archive.entries[Min(S)].kind

Declared == MapThenSumSet(LAMBDA i : archive.entries[i].declared, FilesUpTo(Len(archive.entries)))
\* What is found wrong before anything is expanded.
MetadataError ==
  LET bad == {k \in Entries : Bad(k)}
      closed == {k \in Entries : Closed(k)}
  IN  CASE bad # {} -> IF First(bad) = "unsafe" THEN "UNSAFE_ARCHIVE_PATH" ELSE "CORRUPT_KMZ"
        [] bad = {} /\ closed # {} ->
             IF First(closed) = "encrypted" THEN "ENCRYPTED_KMZ" ELSE "CORRUPT_KMZ"
        [] bad = {} /\ closed = {} /\ Declared > MaxExpanded -> "ARCHIVE_EXPANSION_LIMIT"
        [] OTHER -> "none"

\* uniqueOrAmbiguous(): a rank is asked only when those before it are empty.
Rank(entry) ==
  CASE entry.kind = "directory" -> 8
    [] entry.kind # "directory" /\ entry.name = "waylines.wpml" ->
         (CASE entry.dir = "wpmz" -> 1 [] entry.dir = "none" -> 2 [] OTHER -> 3)
    [] entry.kind # "directory" /\ entry.name = "template.kml" ->
         (CASE entry.dir = "wpmz" -> 4 [] entry.dir = "none" -> 5 [] OTHER -> 6)
    [] entry.kind # "directory" /\ entry.name = "route.kml" -> 7
    [] OTHER -> 8
Best == Min({Rank(archive.entries[k]) : k \in Entries})
Candidates == {k \in Entries : Rank(archive.entries[k]) = Best}

\* selectDocument(): 0 when there is none, or more than one of the best rank.
Selected ==
  IF Entries = {} \/ Best = 8 \/ Cardinality(Candidates) > 1 THEN 0 ELSE Min(Candidates)
SelectionError ==
  IF Entries = {} \/ Best = 8 THEN "ROUTE_DOCUMENT_MISSING" ELSE "CORRUPT_KMZ"

\* The entries are all listed: the first of the loops over them sees a cancellation.
ListEnds ==
  /\ import.stage = "list"
  /\ \/ Entries # {} /\ Cancelled
     \/ /\ Entries = {} \/ NotCancelled
        /\ IF MetadataError # "none" THEN NotZip(MetadataError)
           ELSE /\ import' = [import EXCEPT !.stage = "expand"]
                /\ archive' = [archive EXCEPT !.chosen = Selected]
                /\ UNCHANGED <<cancellation, parsing>>

Expanding == import.stage = "expand" /\ archive.next \in Entries
Current == archive.entries[archive.next]

\* count() and the writer of the document chosen, which must have the declared length.
Writes ==
  /\ Expanding /\ Current.kind = "file" /\ archive.written < Current.actual
  /\ \/ Cancelled
     \/ /\ NotCancelled
        /\ IF archive.used = MaxExpanded THEN NotZip("ARCHIVE_EXPANSION_LIMIT")
           ELSE IF archive.next = archive.chosen /\ archive.written = Current.declared
           THEN NotZip("CORRUPT_KMZ")
           ELSE /\ archive' = [archive EXCEPT !.written = @ + 1, !.used = @ + 1]
                /\ UNCHANGED <<import, cancellation, parsing>>

EntryEnds ==
  /\ Expanding /\ (Current.kind = "file" => archive.written = Current.actual)
  /\ archive.written = 0 => NotCancelled
  /\ IF archive.next = archive.chosen /\ archive.written # Current.declared THEN NotZip("CORRUPT_KMZ")
     ELSE /\ archive' = [archive EXCEPT !.next = @ + 1, !.written = 0]
          /\ UNCHANGED <<import, cancellation, parsing>>

\* The loop looks at the token before the next entry.
NextEntry == Expanding /\ archive.written = 0 /\ Cancelled

\* The archive library gives up.
ZipFails == import.stage \in ArchiveStages /\ NotZip("CORRUPT_KMZ")

\* hasCompanionTemplate()
Companion(chosen) ==
  \E k \in Entries : /\ archive.entries[k].kind # "directory"
                      /\ archive.entries[k].name = "template.kml"
                      /\ archive.entries[k].dir = archive.entries[chosen].dir

Expanded ==
  /\ import.stage = "expand" /\ archive.next = Len(archive.entries) + 1
  /\ IF archive.chosen = 0 THEN NotZip(SelectionError)
     ELSE LET wpml == archive.entries[archive.chosen].name = "waylines.wpml" IN
          /\ import' = [import EXCEPT !.stage = "closing", !.kind = IF wpml THEN "wpml" ELSE "kml",
                                      !.companion = wpml /\ Companion(archive.chosen)]
          /\ UNCHANGED <<cancellation, archive, parsing>>

\* closeQuietly()
Closes ==
  /\ import.stage = "closing"
  /\ IF import.outcome # "none"
     THEN Goes("ended") /\ UNCHANGED cancellation
     ELSE \/ Cancelled
          \/ /\ NotCancelled /\ import' = [import EXCEPT !.stage = "parse"]
             /\ archive' = NoArchive
             /\ UNCHANGED <<cancellation, parsing>>

-----------------------------------------------------------------------------
(* parseXmlBytes(): the handlers run within a chunk, without an await.      *)

Parsing == import.stage = "parse"
Top == open[Len(open)].tag
Reading == context.reading
Captures == context.excluded = 0 /\ Reading # Nothing
\* The element that ends is the one that is being read.
EndsCapture == context.excluded = 0 /\ Reading.at = context.depth

OpenTag(tag) ==
  /\ Parsing /\ found.elements < MaxElements
  /\ IF open = <<>> THEN found.elements = 0     \* one root
     ELSE <<open[Len(open)].tag, tag>> \in Nests
  /\ IF open = <<>> /\ tag # "kml" THEN Fails("INVALID_XML")
     ELSE /\ open' = Append(open, [tag |-> tag, before |-> context])
          /\ context' = Entered(context, import.kind, tag)
          /\ placemarks' = IF tag = "Placemark" /\ context'.excluded = 0
                           THEN Append(placemarks, NewPlacemark) ELSE placemarks
          /\ found' = [found EXCEPT
               !.elements = @ + 1, !.namespace = @ \/ IsWpml(tag),
               !.sawLine = @ \/ (Reading = Nothing /\ context'.reading.target = "line"),
               !.waylines = @ + (IF tag = "waylineId" /\ import.kind = "wpml" THEN 1 ELSE 0)]
          /\ UNCHANGED <<import, archive, capture>>
  /\ UNCHANGED cancellation

\* A word of coordinates begins, however many chunks it comes in.
Word(tuple) ==
  /\ Parsing /\ found.elements < MaxElements
  /\ Captures /\ Reading.target \in {"line", "point"} /\ ~capture.tuple.given
  /\ capture' = [capture EXCEPT !.tuple = tuple]
  /\ found' = [found EXCEPT !.elements = @ + 1]
  /\ UNCHANGED <<import, cancellation, archive, open, context, placemarks>>

\* The text of a field.
FieldText(text) ==
  /\ Parsing /\ Captures /\ Reading.target \in Fields /\ capture.text = "none"
  /\ capture' = [capture EXCEPT !.text = text]
  /\ UNCHANGED <<import, cancellation, archive, open, context, placemarks, found>>

\* emitCurrent()
Tupled(placemark) ==
  [placemark EXCEPT !.tuples = @ + 1, !.first = IF @.given THEN @ ELSE capture.tuple]
\* The end of <coordinates>.
WithElement(placemark) ==
  LET told == IF capture.tuple.given THEN Tupled(placemark) ELSE placemark
  IN  [told EXCEPT !.elements = @ + 1]
LineDraft == TupleDraft("kml", capture.tuple, Missing, "none", FALSE)
TooManyLines == Reading.target = "line" /\ capture.tuple.given /\ Len(found.lines) = MaxWaypoints

Emit ==
  IF ~capture.tuple.given THEN UNCHANGED <<placemarks, found>>
  ELSE IF Reading.target = "line"
  THEN found' = [found EXCEPT !.lines = Append(@, LineDraft)] /\ UNCHANGED placemarks
  ELSE placemarks' = [placemarks EXCEPT ![Reading.of] = Tupled(@)] /\ UNCHANGED found

Blank ==
  /\ Parsing /\ Captures /\ Reading.target \in {"line", "point"} /\ capture.tuple.given
  /\ IF TooManyLines THEN Fails("TOO_MANY_WAYPOINTS")
     ELSE /\ Emit /\ capture' = [capture EXCEPT !.tuple = NoTuple]
          /\ UNCHANGED <<import, archive, open, context>>
  /\ UNCHANGED cancellation

Closing == open' = SubSeq(open, 1, Len(open) - 1) /\ context' = Left(context, Top)

\* The end of the element that is read.
CloseCaptured ==
  /\ Parsing /\ open # <<>> /\ EndsCapture
  /\ IF TooManyLines THEN Fails("TOO_MANY_WAYPOINTS")
     ELSE /\ Closing /\ capture' = NoCapture
          /\ \/ Reading.target = "line" /\ Emit
             \/ /\ Reading.target = "point"
                /\ placemarks' = [placemarks EXCEPT ![Reading.of] = WithElement(@)]
                /\ UNCHANGED found
             \/ /\ Reading.target \in Fields
                /\ placemarks' = [placemarks EXCEPT ![Reading.of].fields[Reading.target] =
                                    Append(@, capture.text)]
                /\ UNCHANGED found
          /\ UNCHANGED <<import, archive>>
  /\ UNCHANGED cancellation

\* A placemark leaves its draft.  One too many ends the import of a WPML document;
\* in a KML the points may not be wanted, and are only cut.
ClosePlacemark ==
  LET done == placemarks[Len(placemarks)]
      drafted == Append(found.points, PlacemarkDraft(import.kind, done))
      full == Len(drafted) > MaxWaypoints
  IN
  /\ Parsing /\ open # <<>> /\ ~EndsCapture /\ context.excluded = 0 /\ Top = "Placemark"
  /\ IF Counts(import.kind, done) /\ full /\ import.kind = "wpml" THEN Fails("TOO_MANY_WAYPOINTS")
     ELSE /\ Closing
          /\ placemarks' = SubSeq(placemarks, 1, Len(placemarks) - 1)
          /\ found' = IF ~Counts(import.kind, done) THEN found
                      ELSE [found EXCEPT !.points = IF full THEN @ ELSE drafted,
                                         !.overflow = @ \/ full, !.due = @ + 1]
          /\ UNCHANGED <<import, archive, capture>>
  /\ UNCHANGED cancellation

CloseOther ==
  /\ Parsing /\ open # <<>> /\ ~EndsCapture
  /\ context.excluded # 0 \/ Top # "Placemark"
  /\ Closing
  /\ UNCHANGED <<import, cancellation, archive, placemarks, capture, found>>

\* The text is not XML, is in another encoding than it says, has a document type or an XInclude.
NotXml ==
  /\ Parsing /\ \E error \in {"INVALID_XML", "EXTERNAL_ENTITY_FORBIDDEN"} : Fails(error)
  /\ UNCHANGED cancellation

\* yieldAndCheck() after a chunk, wherever it was cut.
ChunkEnds ==
  /\ Parsing /\ Goes("paused")
  /\ UNCHANGED cancellation
NextChunk ==
  /\ import.stage = "paused"
  /\ \/ Cancelled
     \/ NotCancelled /\ Goes("parse") /\ UNCHANGED cancellation

DocumentEnds ==
  /\ Parsing /\ open = <<>> /\ found.elements > 0
  /\ IF ~found.sawLine /\ found.overflow THEN Fails("TOO_MANY_WAYPOINTS")
     ELSE Goes("digest")
  /\ UNCHANGED cancellation

\* calculateSha256(), the last check, and parsedOutcome().
Digests ==
  /\ import.stage = "digest"
  /\ \/ Cancelled
     \/ NotCancelled /\ Concludes("parsed") /\ UNCHANGED <<cancellation, archive, parsing>>

ImporterNext ==
  \/ Cancel \/ Intake \/ Detect
  \/ Lists \/ ListEnds \/ Writes \/ EntryEnds \/ NextEntry \/ ZipFails \/ Expanded \/ Closes
  \/ \E tag \in Tag : OpenTag(tag)
  \/ \E tuple \in Tuple : Word(tuple)
  \/ \E text \in Texts : FieldText(text)
  \/ Blank \/ CloseCaptured \/ ClosePlacemark \/ CloseOther \/ NotXml
  \/ ChunkEnds \/ NextChunk \/ DocumentEnds \/ Digests

ImporterSpec == ImporterInit /\ [][ImporterNext]_importerVars

-----------------------------------------------------------------------------
(* qualify(): the form of a document and of a candidate it reads.         *)

Waypoints == IF found.sawLine THEN found.lines ELSE found.points

CandidateReads(kind, candidate) ==
  /\ candidate.altitude.given <=> candidate.altitude.source # "missing"
  /\ kind = "kml" => candidate.sequence = "none"

DocumentReads ==
  /\ Len(Waypoints) <= MaxWaypoints
  /\ import.companion => import.format = "kmz" /\ import.kind = "wpml"
  /\ import.format = "kml" => import.kind = "kml"
  /\ import.kind = "kml" => found.waylines = 0

-----------------------------------------------------------------------------
(* Properties.                                                             *)

\* Where the parser believes to be is where the elements that are open put it: an
\* end tag takes back what its start tag did, also within what is skipped.
WhereItIs ==
  /\ open = <<>> => context = Outside
  /\ \A k \in DOMAIN open :
       Entered(open[k].before, import.kind, open[k].tag)
         = (IF k = Len(open) THEN context ELSE open[k + 1].before)
  /\ Len(placemarks) = Len(context.points)

\* No waypoint is lost: the list has all the tuples of the lines, or a candidate
\* for each placemark that counts.
AllWaypoints ==
  import.outcome = "parsed" /\ ~found.sawLine => Len(Waypoints) = found.due

\* A document is read only when the whole archive around it was expanded within
\* the budget, each path once, and it has the length it was listed with.
ArchiveIsWhole ==
  import.stage = "closing" /\ import.outcome = "none" =>
    /\ archive.next = Len(archive.entries) + 1
    /\ archive.used <= MaxExpanded /\ Len(archive.entries) <= MaxEntries
    /\ archive.entries[archive.chosen].actual = archive.entries[archive.chosen].declared
    /\ \A i, j \in Entries : Same(i, j) => i = j

\* An import is given up only when that was asked for.
GivenUpIsAsked == import.outcome = "cancelled" => cancellation = "aborted"

\* What is handed over has the form that qualification reads.  The exception is in
\* the code: a WPML coordinate without a height names itself as the source of one.
HandedOverReads ==
  import.outcome = "parsed" =>
    /\ DocumentReads
    /\ \A i \in DOMAIN Waypoints :
         \/ CandidateReads(import.kind, Waypoints[i])
         \/ import.kind = "wpml" /\ Waypoints[i].altitude = [source |-> "coordinate", given |-> FALSE]

RoutesAreReadWhole ==
  WhereItIs /\ AllWaypoints /\ ArchiveIsWhole /\ GivenUpIsAsked /\ HandedOverReads
=============================================================================
