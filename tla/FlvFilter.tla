------------------------------ MODULE FlvFilter ------------------------------
(***************************************************************************)
(* What one player of the HTTP-FLV listener is written                     *)
(* (production/electron-host/media-ports.ts, filterSeiOnlyWrites): AVC     *)
(* passes without the tags that carry no picture, and skips to the next    *)
(* key frame when the player does not keep up; HEVC goes through FFmpeg.   *)
(***************************************************************************)
EXTENDS Naturals, Sequences, SequencesExt

CONSTANTS
  Limit,        \* MAX_FLV_PENDING_BYTES, in chunks
  MaxPending,   \* chunks a player may leave unread: a bound of the model
  Ffmpeg        \* there is an ffmpeg.exe

ASSUME FlvAssumption == Limit \in Nat \ {0} /\ MaxPending \in Nat /\ Ffmpeg \in BOOLEAN

VARIABLES
  source,       \* external: the stream and what it sends next
  filter,       \* the filter of the response
  client        \* external: chunks not read yet; whether the player has the
                \* header, misses a frame since the last key frame, and what
                \* it got last: "undecodable" for an inter frame it cannot use
flvVars == <<source, filter, client>>

Codecs == {"avc", "hevc"}
\* "other" is a tag without video: audio, or the script tag.
Chunks == {"header", "other", "config", "key", "inter", "sei", "hevc"}
Video == Chunks \ {"header", "other"}

FlvInit ==
  /\ source \in {[codec |-> codec, next |-> {"header"}] : codec \in Codecs}
  /\ filter = [route |-> "pending", prelude |-> <<>>, skipUntilKeyframe |-> FALSE,
               deliveredSync |-> FALSE, reported |-> FALSE, transcode |-> "none"]
  /\ client = [pending |-> 0, header |-> FALSE, broken |-> FALSE, last |-> "nothing"]

\* What a muxer sends after a chunk: a decoder configuration comes with a key
\* frame, an inter frame refers to the frames before it, and a tag without video
\* comes anywhere but between a configuration and its frame.
Follows(chunk) ==
  CASE chunk = "other" -> source.next
    [] chunk = "header" -> {"other", IF source.codec = "hevc" THEN "hevc" ELSE "config"}
    [] chunk = "config" -> {"key"}
    [] chunk = "hevc" -> {"other", "hevc"}
    [] OTHER -> {"other", "config", "key", "inter", "sei"}

KeepAvcVideoTag(chunk) == chunk # "sei"
IsAvcSyncTag(chunk) == chunk \in {"config", "key", "hevc"}

\* writeAvc, on the filter and the player together.
Passes(f, chunk) ==
  chunk \notin Video \/ (KeepAvcVideoTag(chunk) /\ (~f.skipUntilKeyframe \/ IsAvcSyncTag(chunk)))

Received(c, chunk) ==
  [pending |-> c.pending + 1, header |-> c.header \/ chunk = "header",
   broken |-> c.broken /\ chunk # "key",
   last |-> IF chunk = "inter" /\ (c.broken \/ ~c.header) THEN "undecodable" ELSE chunk]

\* mutant: the skip ends when the player has caught up.
CatchesUp(f, pending) ==
  [f EXCEPT !.skipUntilKeyframe = f.deliveredSync /\ pending >= Limit]

\* The player's queue is looked at after each write.
Pressed(f, pending) ==
  IF f.deliveredSync /\ pending >= Limit
  THEN [f EXCEPT !.skipUntilKeyframe = TRUE, !.reported = TRUE]
  ELSE IF 2 * pending < Limit THEN [f EXCEPT !.reported = FALSE] ELSE f

Synced(f, chunk) ==
  IF chunk \in Video /\ IsAvcSyncTag(chunk)
  THEN [f EXCEPT !.skipUntilKeyframe = FALSE, !.deliveredSync = TRUE] ELSE f

WriteAvc(at, chunk) ==
  IF Passes(at.filter, chunk)
  THEN [filter |-> Pressed(Synced(at.filter, chunk), at.client.pending + 1),
        client |-> Received(at.client, chunk)]
  ELSE [at EXCEPT !.client.broken = @ \/ chunk # "sei"]

\* The loop of writeAvc over what came before the first video tag: none of it is
\* video, so that each chunk passes, and nothing is skipped before a sync tag.
PreludeWritten ==
  IF filter.prelude = <<>> THEN client
  ELSE [client EXCEPT !.pending = @ + Len(filter.prelude),
                      !.header = @ \/ "header" \in ToSet(filter.prelude),
                      !.last = Last(filter.prelude)]

\* The first video tag decides the route; what came before it is written first,
\* or fed to FFmpeg.
RoutesAvc(chunk) ==
  WriteAvc([filter |-> [filter EXCEPT !.route = "avc", !.prelude = <<>>], client |-> PreludeWritten],
           chunk)

RoutesHevc ==
  [filter |-> [filter EXCEPT !.route = "hevc", !.prelude = <<>>,
                             !.transcode = IF Ffmpeg THEN "running" ELSE "none"],
   client |-> client]

Outcome(chunk) ==
  LET here == [filter |-> filter, client |-> client] IN
  CASE filter.route = "pending" /\ chunk \notin Video ->
         [here EXCEPT !.filter.prelude = Append(@, chunk)]
    [] filter.route = "pending" /\ chunk = "hevc" -> RoutesHevc
    [] filter.route = "pending" /\ chunk \in Video \ {"hevc"} -> RoutesAvc(chunk)
    [] filter.route = "hevc" /\ filter.transcode = "running" -> here
    [] OTHER -> WriteAvc(here, chunk)

Write ==
  /\ client.pending < MaxPending
  /\ Len(filter.prelude) < MaxPending
  /\ \E chunk \in source.next :
       /\ filter' = Outcome(chunk).filter
       /\ client' = Outcome(chunk).client
       /\ source' = [source EXCEPT !.next = Follows(chunk)]

\* FFmpeg writes H.264, its header first, past the filter.
Transcodes ==
  /\ filter.transcode = "running"
  /\ client.pending < MaxPending
  /\ client' = Received(client, IF client.header THEN "key" ELSE "header")
  /\ UNCHANGED <<source, filter>>

TranscodeEnds ==
  /\ filter.transcode = "running"
  /\ filter' = [filter EXCEPT !.transcode = "ended"]
  /\ UNCHANGED <<source, client>>

Reads ==
  /\ client.pending > 0
  /\ client' = [client EXCEPT !.pending = @ - 1]
  /\ UNCHANGED <<source, filter>>

FlvNext == Write \/ Transcodes \/ TranscodeEnds \/ Reads

-----------------------------------------------------------------------------

FlvTypeOK ==
  /\ source \in [codec : Codecs, next : SUBSET Chunks]
  /\ filter \in [route : {"pending", "avc", "hevc"}, prelude : Seq(Chunks),
                 skipUntilKeyframe : BOOLEAN, deliveredSync : BOOLEAN, reported : BOOLEAN,
                 transcode : {"none", "running", "ended"}]
  /\ client \in [pending : 0..(2 * MaxPending), header : BOOLEAN, broken : BOOLEAN,
                 last : Chunks \cup {"nothing", "undecodable"}]

\* An inter frame reaches the player only together with all it refers to: the
\* stream's header and every frame since the last key frame, also when frames
\* were skipped, and skipped again, because the player did not keep up.
InterFramesAreDecodable == client.last # "undecodable"

=============================================================================
