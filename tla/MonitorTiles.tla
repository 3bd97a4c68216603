------------------------------ MODULE MonitorTiles ------------------------------
(***************************************************************************)
(* One tile of the monitor page (renderer/main.ts): the route button with  *)
(* its pick, the one-click run behind it that releases, assigns, stages,   *)
(* uploads and starts in turn, and the other buttons, each with a handler  *)
(* of its own that awaits the station while every other one stays          *)
(* clickable.  What they do shows in one row per kind of work, on one rail *)
(* that shows the work clicked last.                                       *)
(*                                                                         *)
(* The two direct buttons and the hover share the single confirmation the  *)
(* station keeps for a phone: each requests and then confirms, and a later *)
(* request replaces an earlier one.                                        *)
(***************************************************************************)
EXTENDS Naturals, FiniteSets

CONSTANTS
  Direct,         \* buttons that request and confirm: "hold", "home", "land"
  Plain,          \* buttons of one call: "action", "photo", "stream"
  MaxClicks       \* clicks of a behaviour

TilesAssumption ==
  /\ Direct \subseteq {"hold", "home", "land"} /\ Plain \subseteq {"action", "photo", "stream"}
  /\ MaxClicks \in Nat

Kinds == Direct \cup Plain
Nothing == "nothing"

VARIABLES
  plan,           \* monitorRoutePlans: route picked, rail, button and the three steps
  runAt,          \* where runMonitorRoute stands
  accepted,       \* history: the calls of this run the station accepted
  busy,           \* per button: where its handler stands (the Busy sets)
  rows,           \* the progress row of each kind of work: title and state
  railKind,       \* monitorRailKind, or Nothing when the rail shows no phone
  confirmation,   \* the button whose confirmation the station holds
  sent,           \* history: per button, its last click's command went out
  control,        \* monitorRouteControl of the latest snapshot
  face,           \* dataset.monitorRouteMode as last painted
  clicked

tileVars == <<plan, runAt, accepted, busy, rows, railKind, confirmation, sent, control, face, clicked>>

Calls == <<"release", "assign", "stage", "upload", "start">>
StepStates == {"pending", "running", "done", "failed"}
Controls == {"choose", "await", "pause", "resume", "stopping"}

\* The home and the land button write the same row.
RowOf(kind) == CASE kind \in {"home", "land"} -> "direct" [] kind = "action" -> "mission" [] OTHER -> kind
RowNames == {RowOf(kind) : kind \in Kinds}

TilesTypeOK ==
  /\ plan \in [route : BOOLEAN, rail : {"pick", "status"}, button : {"choose", "execute", "busy"},
               phone : StepStates, aircraft : StepStates, execute : StepStates]
  /\ runAt \in {"none", "painting"} \cup {Calls[i] : i \in 1..5} /\ accepted \subseteq {Calls[i] : i \in 1..5}
  /\ busy \in [Kinds -> {"free", "painting", "calling", "requested", "confirming", "good", "bad"}]
  /\ rows \in [RowNames -> [title : Kinds \cup {Nothing}, state : StepStates]]
  /\ railKind \in RowNames \cup {"route", Nothing}
  /\ confirmation \in Direct \cup {"page", Nothing} /\ sent \in [Kinds -> BOOLEAN]
  /\ control \in Controls /\ face \in Controls \cup {"exit", "execute", "busy"} /\ clicked \in 0..MaxClicks

TilesInit ==
  /\ plan = [route |-> FALSE, rail |-> "pick", button |-> "choose",
             phone |-> "pending", aircraft |-> "pending", execute |-> "pending"]
  /\ runAt = "none" /\ accepted = {}
  /\ busy = [kind \in Kinds |-> "free"]
  /\ rows = [name \in RowNames |-> [title |-> Nothing, state |-> "pending"]]
  /\ railKind = Nothing /\ confirmation = Nothing
  /\ sent = [kind \in Kinds |-> FALSE]
  /\ control = "choose" /\ face = "choose" /\ clicked = 0

Running == plan.button = "busy"
Picking == ~Running /\ railKind = "route" /\ plan.rail = "pick"
Clicks == clicked < MaxClicks /\ clicked' = clicked + 1
Row(name, kind, state) == rows' = [rows EXCEPT ![name] = [title |-> kind, state |-> state]]

-----------------------------------------------------------------------------
(* The route button and the pick.                                          *)

\* paintMonitorRouteButton()
Failed == "failed" \in {plan.phone, plan.aircraft, plan.execute}
PaintRoute ==
  LET live == IF control = "await" /\ Failed THEN "choose" ELSE control
      picked == Picking /\ plan.route
  IN /\ plan' = IF live # "choose" /\ railKind = "route" THEN [plan EXCEPT !.rail = "status"] ELSE plan
     /\ face' = CASE Running -> "busy"
                  [] ~Running /\ live # "choose" -> live
                  [] OTHER -> CASE picked -> "execute"
                                [] Picking /\ ~picked -> "exit"
                                [] OTHER -> "choose"
     /\ UNCHANGED <<runAt, accepted, busy, rows, railKind, confirmation, sent, control, clicked>>

\* A click on the button while it shows no control of a mission under way.
RouteClickable == face \in {"choose", "exit", "execute"} /\ ~Running
OpenPick ==
  /\ RouteClickable /\ ~Picking /\ Clicks
  /\ \E assigned \in BOOLEAN : plan' = [plan EXCEPT !.rail = "pick", !.route = plan.route \/ assigned]
  /\ railKind' = "route"
  /\ UNCHANGED <<runAt, accepted, busy, rows, confirmation, sent, control, face>>
\* Nothing picked: the rail goes back to the row it showed, or to nothing.
LeavePick ==
  /\ RouteClickable /\ Picking /\ ~plan.route /\ Clicks
  /\ \/ plan' = [plan EXCEPT !.rail = "status"] /\ UNCHANGED railKind
     \/ \E name \in RowNames : rows[name].title # Nothing /\ railKind' = name /\ UNCHANGED plan
     \/ railKind' = Nothing /\ UNCHANGED plan
  /\ UNCHANGED <<runAt, accepted, busy, rows, confirmation, sent, control, face>>
ExecuteKeepsSteps ==   \* mutant: a new run does not reset the steps of the last
  /\ RouteClickable /\ Picking /\ plan.route /\ Clicks
  /\ plan' = [plan EXCEPT !.button = "busy", !.rail = "status", !.phone = "running"]
  /\ runAt' = "release" /\ accepted' = {} /\ railKind' = "route"
  /\ UNCHANGED <<busy, rows, confirmation, sent, control, face>>
Execute ==
  /\ RouteClickable /\ Picking /\ plan.route /\ Clicks
  /\ plan' = [plan EXCEPT !.button = "busy", !.rail = "status", !.phone = "running",
                          !.aircraft = "pending", !.execute = "pending"]
  /\ runAt' = "release" /\ accepted' = {} /\ railKind' = "route"
  /\ UNCHANGED <<busy, rows, confirmation, sent, control, face>>
\* A route of the rail is clicked.
PickRoute ==
  /\ railKind = "route" /\ plan.rail = "pick" /\ ~Running /\ Clicks
  /\ plan' = [plan EXCEPT !.route = ~plan.route, !.button = IF plan.route THEN "choose" ELSE "execute"]
  /\ UNCHANGED <<runAt, accepted, busy, rows, railKind, confirmation, sent, control, face>>

-----------------------------------------------------------------------------
(* runMonitorRoute(): one call after the other, the first failure ends it. *)

CallAt(i) == runAt = Calls[i]
StepAt(i) == CASE i \in 1..3 -> "phone" [] i = 4 -> "aircraft" [] i = 5 -> "execute"
FailLeavesBusy(step) ==   \* mutant: a failed run leaves its button busy
  [plan EXCEPT ![step] = "failed"]
FailAt(step) == [plan EXCEPT ![step] = "failed", !.button = "choose"]

RunGoesOn == \E i \in 1..5 :
  /\ CallAt(i)
  /\ accepted' = accepted \cup {Calls[i]}
  /\ runAt' = IF i = 5 THEN "none" ELSE Calls[i + 1]
  /\ plan' = CASE i <= 2 -> plan
               [] i = 3 -> [plan EXCEPT !.phone = "done", !.aircraft = "running"]
               [] i = 4 -> [plan EXCEPT !.aircraft = "done", !.execute = "running"]
               [] i = 5 -> [plan EXCEPT !.execute = "done", !.button = "choose"]
  /\ UNCHANGED <<busy, rows, railKind, confirmation, sent, control, face, clicked>>
\* Refused, unreachable route, or an invocation that throws.
RunFails == \E i \in 1..5 :
  /\ CallAt(i)
  /\ plan' = FailAt(StepAt(i)) /\ runAt' = "none"
  /\ UNCHANGED <<accepted, busy, rows, railKind, confirmation, sent, control, face, clicked>>

-----------------------------------------------------------------------------
(* The other buttons.                                                      *)

Handler(kind, step) == busy' = [busy EXCEPT ![kind] = step]

\* A free button is clicked; the hover may have nothing to send, and a photo no
\* handset to ask, before any call.
Click(kind) ==
  /\ busy[kind] = "free" /\ Clicks
  /\ kind = "action" => face \in {"pause", "resume"}
  /\ Handler(kind, "painting") /\ Row(RowOf(kind), kind, "running")
  /\ railKind' = RowOf(kind) /\ sent' = [sent EXCEPT ![kind] = FALSE]
  /\ UNCHANGED <<plan, runAt, accepted, confirmation, control, face>>
NothingToHold ==
  /\ "hold" \in Kinds /\ busy["hold"] = "free" /\ Clicks
  /\ \E state \in {"done", "failed"} : Row("hold", Nothing, state)
  /\ railKind' = "hold" /\ sent' = [sent EXCEPT !["hold"] = FALSE]
  /\ UNCHANGED <<plan, runAt, accepted, busy, confirmation, control, face>>

\* The render before the call is over.  The station's part of a request is done
\* as the page makes it; the answer comes back later.
Invoke(kind) ==
  /\ busy[kind] = "painting"
  /\ \/ kind \in Plain \cup {"hold"} /\ Handler(kind, "calling") /\ UNCHANGED confirmation
     \/ kind \in Direct /\ Handler(kind, "requested") /\ confirmation' = kind
     \/ kind \in Direct /\ Handler(kind, "bad") /\ UNCHANGED confirmation
  /\ UNCHANGED <<plan, runAt, accepted, rows, railKind, sent, control, face, clicked>>
CallEnds(kind) ==
  /\ busy[kind] = "calling"
  /\ \/ Handler(kind, "good") /\ sent' = [sent EXCEPT ![kind] = TRUE]
     \/ Handler(kind, "bad") /\ UNCHANGED sent
  /\ UNCHANGED <<plan, runAt, accepted, rows, railKind, confirmation, control, face, clicked>>

\* confirmMonitorFlight(): the confirmation named is the one this click asked for.
ConfirmWhatIsThere(kind) ==   \* mutant: any pending confirmation will do
  /\ busy[kind] = "requested"
  /\ \/ confirmation # Nothing /\ Handler(kind, "good") /\ confirmation' = Nothing
          /\ sent' = IF confirmation \in Kinds THEN [sent EXCEPT ![confirmation] = TRUE] ELSE sent
     \/ confirmation' = (IF confirmation = kind THEN Nothing ELSE confirmation)
          /\ Handler(kind, "bad") /\ UNCHANGED sent
  /\ UNCHANGED <<plan, runAt, accepted, rows, railKind, control, face, clicked>>
Confirm(kind) ==
  /\ busy[kind] = "requested"
  /\ \/ confirmation = kind /\ confirmation' = Nothing /\ Handler(kind, "good")
          /\ sent' = [sent EXCEPT ![kind] = TRUE]
     \/ confirmation' = (IF confirmation = kind THEN Nothing ELSE confirmation)
          /\ Handler(kind, "bad") /\ UNCHANGED sent
  /\ UNCHANGED <<plan, runAt, accepted, rows, railKind, control, face, clicked>>

\* The answer is shown and the button is free again.
Finish(kind) ==
  /\ busy[kind] \in {"good", "bad"}
  /\ Row(RowOf(kind), kind, IF busy[kind] = "good" THEN "done" ELSE "failed")
  /\ Handler(kind, "free")
  /\ UNCHANGED <<plan, runAt, accepted, railKind, confirmation, sent, control, face, clicked>>

\* The flight page asks for the same phone, or a confirmation runs out.
OthersAsk ==
  /\ confirmation' \in {"page", Nothing} /\ confirmation # Nothing
  /\ UNCHANGED <<plan, runAt, accepted, busy, rows, railKind, sent, control, face, clicked>>
ControlChanges ==
  /\ control' \in Controls
  /\ UNCHANGED <<plan, runAt, accepted, busy, rows, railKind, confirmation, sent, face, clicked>>

HandlerSteps(kind) == Invoke(kind) \/ CallEnds(kind) \/ Confirm(kind) \/ Finish(kind)
TilesNext ==
  \/ PaintRoute \/ OpenPick \/ LeavePick \/ Execute \/ PickRoute \/ RunGoesOn \/ RunFails
  \/ \E kind \in Kinds : Click(kind) \/ HandlerSteps(kind)
  \/ NothingToHold \/ OthersAsk \/ ControlChanges

\* Every command ends: answered, refused, timed out or failed with the session.
TilesFairness ==
  /\ WF_tileVars(RunGoesOn \/ RunFails)
  /\ \A kind \in Kinds : WF_tileVars(HandlerSteps(kind))
TilesSpec == TilesInit /\ [][TilesNext]_tileVars /\ TilesFairness

-----------------------------------------------------------------------------
(* Properties.                                                             *)

\* The rail is how the operator follows a flight being started.  Whatever is
\* clicked meanwhile, a busy route button means one run in flight whose steps read
\* done, running, pending in that order; "execute" reads done only when this run's
\* own stage, upload and start were each accepted, and a failed step is the only
\* one with nothing accepted after it.
StepsTellTheRun ==
  /\ Running <=> runAt # "none"
  /\ Running =>
       CASE plan.phone = "running" -> plan.aircraft = "pending" /\ plan.execute = "pending"
         [] plan.aircraft = "running" -> plan.phone = "done" /\ plan.execute = "pending"
         [] OTHER -> plan.phone = "done" /\ plan.aircraft = "done" /\ plan.execute = "running"
  /\ plan.phone = "done" => "stage" \in accepted
  /\ plan.aircraft = "done" => "upload" \in accepted
  /\ plan.execute = "done" => {"stage", "upload", "start"} \subseteq accepted
  /\ Failed => plan.execute # "done" /\ "start" \notin accepted

\* A row that reads done names a command that went out by the confirmation its own
\* click asked for, though three buttons share the one the station holds; a row
\* that reads running has a handler under way.
RowsTellTheTruth == \A name \in RowNames :
  LET kind == rows[name].title
  IN kind # Nothing =>
       /\ rows[name].state = "done" => sent[kind] \/ busy[kind] # "free"
       /\ rows[name].state = "running" => busy[kind] # "free"

\* No button stays dead: what was clicked ends and its button can be clicked again.
TilesComeFree == []<>~Running /\ \A kind \in Kinds : []<>(busy[kind] = "free")
=============================================================================
