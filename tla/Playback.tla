------------------------------- MODULE Playback -------------------------------
(***************************************************************************)
(* The players of the operator console                                     *)
(* (production/operator-console/renderer/main.ts): the one of the flight   *)
(* page, which reloads and reattaches itself when the picture fails, and   *)
(* those of the monitor page, one per slot.  Every paint asks the host for *)
(* the URL and goes on when it is there, unless another paint came first.  *)
(***************************************************************************)
EXTENDS Naturals

CONSTANTS
  Phone,        \* device identifiers; a URL belongs to one of them
  NoPhone,      \* null
  Slot,         \* the slots of the monitor page
  MaxStreak     \* flvFatalStreak beyond the soft reloads: a bound of the model

PlaybackAssumption == NoPhone \notin Phone /\ MaxStreak \in Nat

VARIABLES
  screen,     \* the page chosen, the page painted last, and what the projection
              \* says: the stream phone, if its video is ready, if its source is
              \* gone; who is in each slot
  flight,     \* flvPlayer with attachedUrl, flvRecoverTimer, flvFatalStreak,
              \* lastPlaybackIdentity, selectedPlaybackDeviceId
  asking,     \* what the last ensurePlayback awaits: its phone and answer
  monitors,   \* [Slot -> player, and the phone its last request is for]
  cooling     \* slots whose monitorRetryAt lies ahead
playbackVars == <<screen, flight, asking, monitors, cooling>>

MaybePhone == Phone \cup {NoPhone}
SoftReloads == 3

PlaybackTypeOK ==
  /\ screen \in [workspace : {"flight", "monitor"}, painted : {"flight", "monitor"},
                 phone : MaybePhone, ready : BOOLEAN, unavailable : BOOLEAN,
                 slots : [Slot -> MaybePhone]]
  /\ flight \in [player : MaybePhone, timer : MaybePhone, streak : 0..(SoftReloads + MaxStreak),
                 identity : MaybePhone, selected : MaybePhone]
  /\ asking \in [phone : MaybePhone, step : {"none", "playback", "select"}]
  /\ monitors \in [Slot -> [player : MaybePhone, asked : MaybePhone]]
  /\ cooling \in SUBSET Slot

NotAsking == [phone |-> NoPhone, step |-> "none"]
NoMonitors == [s \in Slot |-> [player |-> NoPhone, asked |-> NoPhone]]

PlaybackInit ==
  /\ screen = [workspace |-> "flight", painted |-> "flight", phone |-> NoPhone, ready |-> FALSE,
               unavailable |-> FALSE, slots |-> [s \in Slot |-> NoPhone]]
  /\ flight = [player |-> NoPhone, timer |-> NoPhone, streak |-> 0, identity |-> NoPhone,
               selected |-> NoPhone]
  /\ asking = NotAsking
  /\ monitors = NoMonitors
  /\ cooling = {}

-----------------------------------------------------------------------------
\* The flight player

\* mutant: the player is taken away, its retry stays.
DetachPlayer(f) == [f EXCEPT !.player = NoPhone, !.identity = NoPhone, !.selected = NoPhone]
\* detachVideo
Detached(f) ==
  [f EXCEPT !.player = NoPhone, !.timer = NoPhone, !.identity = NoPhone, !.selected = NoPhone]

\* A fresh player, or none when mpegts.js does not start.
Attached(f, url, started) ==
  [Detached(f) EXCEPT !.player = IF started THEN url ELSE NoPhone]

Struck(f) == [f EXCEPT !.streak = IF @ = SoftReloads + MaxStreak THEN @ ELSE @ + 1]

\* The recovery of a player that fails: three soft reloads, then a new player
\* after a while, unless the monitor page is chosen.
Recovered(f, started) ==
  LET struck == Struck(f) IN
  IF struck.streak <= SoftReloads /\ started THEN Attached(struck, f.player, TRUE)
  ELSE [Detached(struck) EXCEPT !.timer = IF screen.workspace = "monitor" THEN NoPhone ELSE f.player]

\* The watchdog: no first frame in time, or no progress of the picture.
PictureStuck ==
  /\ flight.player # NoPhone
  /\ flight.timer = NoPhone
  /\ \E started \in BOOLEAN : flight' = Recovered(flight, started)
  /\ UNCHANGED <<screen, asking, monitors, cooling>>

\* mpegts.js reports an error, which counts only off the monitor page.
PlayerError ==
  /\ flight.player # NoPhone
  /\ screen.workspace # "monitor"
  /\ \E started \in BOOLEAN : flight' = Recovered(flight, started)
  /\ UNCHANGED <<screen, asking, monitors, cooling>>

\* A frame was painted: notePaintProgress.
PictureMoves ==
  /\ flight.player # NoPhone
  /\ flight' = [flight EXCEPT !.streak = 0]
  /\ UNCHANGED <<screen, asking, monitors, cooling>>

ReattachTimer ==
  /\ flight.timer # NoPhone
  /\ \E started \in BOOLEAN : flight' = Attached(flight, flight.timer, started)
  /\ UNCHANGED <<screen, asking, monitors, cooling>>

\* The operator presses stop: the player goes before the command is sent.
StreamStopPressed ==
  /\ flight' = Detached(flight)
  /\ UNCHANGED <<screen, asking, monitors, cooling>>

-----------------------------------------------------------------------------
\* Painting

\* The host, the operator: the projection and the page change at any time.
ProjectionChanges ==
  /\ \/ \E phone \in MaybePhone, video \in {"ready", "gone", "not yet"} :
          screen' = [screen EXCEPT !.phone = phone, !.ready = video = "ready" /\ phone # NoPhone,
                                   !.unavailable = video = "gone"]
     \/ \E slots \in [Slot -> MaybePhone] : screen' = [screen EXCEPT !.slots = slots]
  /\ UNCHANGED <<flight, asking, monitors, cooling>>

ChooseWorkspace(page) ==
  /\ screen' = [screen EXCEPT !.workspace = page]
  /\ UNCHANGED <<flight, asking, monitors, cooling>>

\* renderFlight() of every paint, whichever page it is for.
AfterRenderFlight == IF screen.unavailable THEN Detached(flight) ELSE flight

\* mutant: a paint with nothing to play forgets the player it has.
EnsureForgets ==
  LET f == AfterRenderFlight IN
  IF ~screen.ready THEN flight' = [f EXCEPT !.identity = NoPhone] /\ asking' = NotAsking
  ELSE flight' = f /\ asking' = [phone |-> screen.phone, step |-> "playback"]
\* ensurePlayback up to its first await; a request under way is outdated.
EnsurePlayback ==
  LET f == AfterRenderFlight IN
  IF ~screen.ready
  THEN /\ flight' = IF f.player # NoPhone THEN Detached(f) ELSE [f EXCEPT !.identity = NoPhone]
       /\ asking' = NotAsking
  ELSE IF f.identity = screen.phone /\ f.player # NoPhone
  THEN flight' = f /\ asking' = NotAsking
  ELSE flight' = f /\ asking' = [phone |-> screen.phone, step |-> "playback"]

\* mutant: the requests of the monitor page are not outdated.
StillAsked == [s \in Slot |-> [monitors[s] EXCEPT !.player = NoPhone]]
\* The paint of another page releases every slot and outdates what they asked.
ReleasedMonitors == NoMonitors

PaintFlight ==
  /\ screen.workspace = "flight"
  /\ EnsurePlayback
  /\ monitors' = ReleasedMonitors
  /\ screen' = [screen EXCEPT !.painted = "flight"]
  /\ UNCHANGED cooling

\* ensureMonitorPlayback: a slot without a playable phone is released; a slot
\* that cools down or plays its phone already is left alone.
PaintMonitor ==
  /\ screen.workspace = "monitor"
  /\ LET f == AfterRenderFlight IN
     flight' = IF f.player # NoPhone THEN Detached(f) ELSE f
  /\ asking' = NotAsking
  /\ monitors' = [s \in Slot |->
       LET wanted == screen.slots[s] IN
       CASE wanted = NoPhone -> NoMonitors[s]
         [] wanted # NoPhone /\ (s \in cooling \/ monitors[s].player = wanted) ->
              [monitors[s] EXCEPT !.asked = NoPhone]
         [] OTHER -> [monitors[s] EXCEPT !.asked = wanted]]
  /\ screen' = [screen EXCEPT !.painted = "monitor"]
  /\ UNCHANGED cooling

-----------------------------------------------------------------------------
\* Answers of the host

\* The URL of the flight page: attached, unless the player has it already, and
\* selected if it was not.
PlaybackAnswered ==
  /\ asking.step = "playback"
  /\ IF screen.workspace = "monitor" THEN flight' = flight /\ asking' = NotAsking
     ELSE \E url, started \in BOOLEAN :
            LET f == IF ~url \/ flight.player = asking.phone THEN flight
                     ELSE Attached(flight, asking.phone, started)
            IN /\ flight' = IF url /\ f.player = asking.phone /\ f.selected = asking.phone
                            THEN [f EXCEPT !.identity = asking.phone] ELSE f
               /\ asking' = IF url /\ f.player = asking.phone /\ f.selected # asking.phone
                            THEN [asking EXCEPT !.step = "select"] ELSE NotAsking
  /\ UNCHANGED <<screen, monitors, cooling>>

SelectAnswered ==
  /\ asking.step = "select"
  /\ \E accepted \in BOOLEAN :
       flight' = IF accepted /\ screen.workspace # "monitor"
                 THEN [flight EXCEPT !.selected = asking.phone, !.identity = asking.phone]
                 ELSE flight
  /\ asking' = NotAsking
  /\ UNCHANGED <<screen, monitors, cooling>>

\* The URL of a slot: dropped when the page has changed.
MonitorAnswered(s) ==
  /\ monitors[s].asked # NoPhone
  /\ IF screen.workspace # "monitor" THEN monitors' = [monitors EXCEPT ![s].asked = NoPhone]
     ELSE \E url \in BOOLEAN :
            monitors' = [monitors EXCEPT ![s] =
              [player |-> IF url THEN monitors[s].asked ELSE NoPhone, asked |-> NoPhone]]
  /\ UNCHANGED <<screen, flight, asking, cooling>>

\* A slot's player fails or stands still: released, and left alone for a while.
MonitorFails(s) ==
  /\ monitors[s].player # NoPhone
  /\ monitors' = [monitors EXCEPT ![s].player = NoPhone]
  /\ cooling' = cooling \cup {s}
  /\ UNCHANGED <<screen, flight, asking>>

CooledDown(s) ==
  /\ s \in cooling
  /\ cooling' = cooling \ {s}
  /\ UNCHANGED <<screen, flight, asking, monitors>>

PlaybackNext ==
  \/ PictureStuck \/ PlayerError \/ PictureMoves \/ ReattachTimer \/ StreamStopPressed
  \/ ProjectionChanges \/ \E page \in {"flight", "monitor"} : ChooseWorkspace(page)
  \/ PaintFlight \/ PaintMonitor \/ PlaybackAnswered \/ SelectAnswered
  \/ \E s \in Slot : MonitorAnswered(s) \/ MonitorFails(s) \/ CooledDown(s)

\* The background refresh paints every second; timers fire.
PlaybackFairness ==
  /\ WF_playbackVars(PaintFlight \/ PaintMonitor)
  /\ WF_playbackVars(ReattachTimer)

-----------------------------------------------------------------------------

\* One stream is never fetched twice by the flight page: while a retry waits for
\* its time there is no player, whatever errors, stalls, reloads and paints came
\* in which order.
RetryHasNoRival == flight.timer # NoPhone => flight.player = NoPhone

\* While the flight page is the one painted no monitor slot plays, also when the
\* answer to a request of an earlier monitor page arrives after the operator has
\* gone away and come back.
MonitorsStayOnTheirPage ==
  screen.painted = "flight" => \A s \in Slot : monitors[s].player = NoPhone

\* A retry of the flight page may fire when the operator has left, or when there
\* is nothing to play any more, and attach a stray player; the next paints take
\* it away for good.
Off == screen.workspace = "monitor" \/ ~screen.ready
StrayPlayersGo == []<>(~Off \/ flight.player = NoPhone)

=============================================================================
