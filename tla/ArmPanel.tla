------------------------------- MODULE ArmPanel -------------------------------
(***************************************************************************)
(* The direct-flight buttons of the flight page                            *)
(* (src/production/operator-console/action-arm and the click handlers of   *)
(* renderer/main.ts): take-off, landing and return-to-home are sent by a   *)
(* second click on the armed button, the single actions within one click.  *)
(* A handler awaits the station several times, so several clicks are under *)
(* way at once over one armed button and one confirmation the page holds.  *)
(*                                                                         *)
(* Clicks are numbered, a confirmation is known by the click that asked    *)
(* for it, and 0 is null.  The station's side is the one pending           *)
(* confirmation flight-control keeps for a phone.                          *)
(***************************************************************************)
EXTENDS Naturals, Sequences

CONSTANTS
  Phone,          \* the phones the panel can be turned to
  Armable,        \* ARMABLE_ACTIONS
  Single,         \* SAME_CLICK_FLIGHT_CONFIRM
  MaxClicks,      \* clicks of a behaviour
  MaxTurns,       \* selections of another phone
  MaxNotices      \* snapshots

ArmPanelAssumption ==
  Armable \cap Single = {} /\ {MaxClicks, MaxTurns, MaxNotices} \subseteq Nat

VARIABLES
  turnedTo,       \* state.missionDeviceId
  armed,          \* armedCommand, the click that armed the button
  armTimer,       \* armExpiryTimer, the armed click it was set for
  held,           \* pendingFlightConfirmation
  noticed,        \* the confirmation the last snapshot shows
  atStation,      \* each phone's pending confirmation
  lapsed,         \* the confirmations past expiresAtMs
  clicks,         \* action, phone and age of every click
  handlers,       \* where the handler of each click stands; 0 is expireArmedCommand
  sent,           \* which confirmation went out by which click
  turns, notices

armPanelVars == <<turnedTo, armed, armTimer, held, noticed, atStation, lapsed, clicks,
                  handlers, sent, turns, notices>>

Click == 1..MaxClicks
ClickOr0 == 0..MaxClicks
Actions == Armable \cup Single
Steps == {"done", "cancelled", "asked", "refused", "settle", "confirmed"}

\* The age of a click: below ARM_SETTLE_MS, below ARM_HOLD_MS, past it.
Fresh == 0
Ripe == 1
Stale == 2

ArmPanelTypeOK ==
  /\ turnedTo \in Phone
  /\ {armed, armTimer, held, noticed} \subseteq ClickOr0
  /\ atStation \in [Phone -> ClickOr0]
  /\ lapsed \subseteq Click
  /\ clicks \in Seq([action : Actions, phone : Phone, age : Fresh..Stale])
  /\ Len(clicks) <= MaxClicks
  /\ handlers \in [ClickOr0 -> [step : Steps, of : ClickOr0]]
  /\ sent \subseteq [asked : Click, by : Click]
  /\ turns \in 0..MaxTurns /\ notices \in 0..MaxNotices

ActionOf(c) == clicks[c].action
PhoneOf(c) == clicks[c].phone
Live(c) == c # 0 /\ c \notin lapsed     \* liveConfirmation()

\* confirmationMatchesClick()
Matches(c, phone, action) == Live(c) /\ PhoneOf(c) = phone /\ ActionOf(c) = action

\* sameClickConfirmDispatch(): a match that was not held before this click asked.
SameClickAny(c, previous, phone, action) ==   \* mutant: anything newly held
  Live(c) /\ c # previous
SameClickDispatch(c, previous, phone, action) == Matches(c, phone, action) /\ c # previous

\* adoptPendingConfirmation()
Adopted(local, snapshot) == IF Live(local) THEN local ELSE IF Live(snapshot) THEN snapshot ELSE 0

Disarmed == armed' = 0 /\ armTimer' = 0
At(k, step, c) == handlers' = [handlers EXCEPT ![k] = [step |-> step, of |-> c]]
Stands(k, step) == handlers[k].step = step

ArmPanelInit ==
  /\ turnedTo \in Phone
  /\ armed = 0 /\ armTimer = 0 /\ held = 0 /\ noticed = 0
  /\ atStation = [p \in Phone |-> 0]
  /\ lapsed = {} /\ clicks = <<>> /\ sent = {}
  /\ handlers = [k \in ClickOr0 |-> [step |-> "done", of |-> 0]]
  /\ turns = 0 /\ notices = 0

Clicks(action) ==
  /\ Len(clicks) < MaxClicks
  /\ clicks' = Append(clicks, [action |-> action, phone |-> turnedTo, age |-> Fresh])
ThisClick == Len(clicks) + 1

\* What the page invokes is taken in the order it was invoked, and the station's
\* part of it is done before it takes the next; the answer comes back later.
Cancels(k, c) ==
  LET hit == atStation[PhoneOf(c)] = c
  IN /\ atStation' = IF hit THEN [atStation EXCEPT ![PhoneOf(c)] = 0] ELSE atStation
     /\ At(k, "cancelled", IF hit THEN c ELSE 0)

\* A request makes k the pending confirmation, or is blocked by the page or refused.
Asks(k, phone, previous) ==
  \/ At(k, "asked", previous) /\ atStation' = [atStation EXCEPT ![phone] = k]
  \/ At(k, "refused", previous) /\ UNCHANGED atStation

\* confirm() uses up the pending confirmation it names, sent or refused.
Confirms(k, c) ==
  LET hit == atStation[PhoneOf(c)] = c
  IN /\ atStation' = IF hit THEN [atStation EXCEPT ![PhoneOf(c)] = 0] ELSE atStation
     /\ \/ /\ hit /\ At(k, "confirmed", c)
           /\ sent' = sent \cup {[asked |-> c, by |-> k]}
        \/ At(k, "confirmed", 0) /\ UNCHANGED sent

\* interpretArmClick() says "arm": nothing armed, another action, or held too long.
ArmsAnew(action) == armed # 0 => (ActionOf(armed) # action \/ clicks[armed].age = Stale)

\* The first click.  Another armed action's confirmation is cancelled first, and
\* until that is answered the other button stays armed.
ClickArm(action) ==
  /\ action \in Armable /\ ArmsAnew(action)
  /\ Clicks(action)
  /\ IF armed # 0 /\ ActionOf(armed) # action /\ held # 0
     THEN Cancels(ThisClick, held) /\ held' = 0 /\ UNCHANGED armed
     ELSE Asks(ThisClick, turnedTo, 0) /\ armed' = ThisClick /\ UNCHANGED held
  /\ UNCHANGED <<turnedTo, armTimer, noticed, lapsed, sent, turns, notices>>

\* The second click, dispatched only with a confirmation that matches it; before
\* ARM_SETTLE_MS, or without a match, a click changes nothing.
ClickConfirm(action) ==
  /\ action \in Armable /\ ~ArmsAnew(action) /\ clicks[armed].age = Ripe
  /\ Matches(held, turnedTo, action)
  /\ Clicks(action)
  /\ Confirms(ThisClick, held)
  /\ Disarmed
  /\ UNCHANGED <<turnedTo, held, noticed, lapsed, turns, notices>>

\* A single action: whatever is armed is cancelled and disarmed before it asks.
ClickSingle(action) ==
  /\ action \in Single
  /\ Clicks(action)
  /\ IF armed # 0 /\ held # 0
     THEN Cancels(ThisClick, held) /\ held' = 0 /\ UNCHANGED <<armed, armTimer>>
     ELSE Asks(ThisClick, turnedTo, held) /\ Disarmed /\ UNCHANGED held
  /\ UNCHANGED <<turnedTo, noticed, lapsed, sent, turns, notices>>

\* expireArmedCommand(), by its timer or by a change of tab.
Expire ==
  /\ armed # 0 /\ Stands(0, "done")
  /\ IF held # 0
     THEN Cancels(0, held) /\ held' = 0 /\ UNCHANGED <<armed, armTimer>>
     ELSE Disarmed /\ UNCHANGED <<handlers, held, atStation>>
  /\ UNCHANGED <<turnedTo, noticed, lapsed, clicks, sent, turns, notices>>

TimerFires == armTimer # 0 /\ clicks[armTimer].age = Stale /\ Expire
TurnTab == Expire

\* run(): an accepted cancel or confirm clears whatever the page holds by then.
HearCancelled(k) ==
  /\ Stands(k, "cancelled")
  /\ held' = IF handlers[k].of # 0 THEN 0 ELSE held
  /\ IF k = 0
     THEN At(k, "done", 0) /\ Disarmed /\ UNCHANGED atStation
     ELSE IF ActionOf(k) \in Armable
     THEN Asks(k, PhoneOf(k), 0) /\ armed' = k /\ UNCHANGED armTimer
     ELSE Asks(k, PhoneOf(k), held') /\ Disarmed
  /\ UNCHANGED <<turnedTo, noticed, lapsed, clicks, sent, turns, notices>>

HearConfirmed(k) ==
  /\ Stands(k, "confirmed")
  /\ held' = IF handlers[k].of # 0 THEN 0 ELSE held
  /\ At(k, "done", 0)
  /\ UNCHANGED <<turnedTo, armed, armTimer, noticed, atStation, lapsed, clicks, sent,
                 turns, notices>>

HearAsked(k) ==
  /\ Stands(k, "asked") \/ Stands(k, "refused")
  /\ held' = IF Stands(k, "asked") THEN k ELSE held
  /\ At(k, "settle", handlers[k].of)
  /\ UNCHANGED <<turnedTo, armed, armTimer, noticed, atStation, lapsed, clicks, sent,
                 turns, notices>>

\* After the render a request ends with: an armable action stays armed only
\* with a confirmation of its own, and whatever is armed then is timed.
SettleLeavesTimer(k) ==   \* mutant: the timer is not set anew
  /\ Stands(k, "settle") /\ ActionOf(k) \in Armable
  /\ IF Matches(held, PhoneOf(k), ActionOf(k)) THEN UNCHANGED <<armed, armTimer>> ELSE Disarmed
  /\ At(k, "done", 0)
  /\ UNCHANGED <<turnedTo, held, noticed, atStation, lapsed, clicks, sent, turns, notices>>

SettleArmed(k) ==
  /\ Stands(k, "settle") /\ ActionOf(k) \in Armable
  /\ IF Matches(held, PhoneOf(k), ActionOf(k))
     THEN armTimer' = armed /\ UNCHANGED armed
     ELSE Disarmed
  /\ At(k, "done", 0)
  /\ UNCHANGED <<turnedTo, held, noticed, atStation, lapsed, clicks, sent, turns, notices>>

\* A single action goes on to confirm within the same click.
SettleSingle(k) ==
  /\ Stands(k, "settle") /\ ActionOf(k) \in Single
  /\ IF SameClickDispatch(held, handlers[k].of, PhoneOf(k), ActionOf(k))
     THEN Confirms(k, held)
     ELSE At(k, "done", 0) /\ UNCHANGED <<atStation, sent>>
  /\ UNCHANGED <<turnedTo, armed, armTimer, held, noticed, lapsed, clicks, turns, notices>>

\* The part of renderFlight() about arming.  It disarms without cancelling.
Paint ==
  /\ IF armed # 0 /\ clicks[armed].age < Stale THEN UNCHANGED <<armed, armTimer>> ELSE Disarmed
  /\ held' = Adopted(held, noticed)
  /\ UNCHANGED <<turnedTo, noticed, atStation, lapsed, clicks, handlers, sent, turns, notices>>

\* A snapshot, which shows the confirmation of the selected phone.
Notice ==
  /\ notices < MaxNotices /\ notices' = notices + 1
  /\ noticed' = atStation[turnedTo]
  /\ UNCHANGED <<turnedTo, armed, armTimer, held, atStation, lapsed, clicks, handlers, sent, turns>>

Turn(p) ==
  /\ p # turnedTo /\ turns < MaxTurns /\ turns' = turns + 1
  /\ turnedTo' = p
  /\ UNCHANGED <<armed, armTimer, held, noticed, atStation, lapsed, clicks, handlers, sent, notices>>

\* Time: a click grows older, an earlier one never younger than a later one.
Grows(k) ==
  /\ clicks[k].age < Stale
  /\ \A j \in 1..(k - 1) : clicks[j].age > clicks[k].age
  /\ clicks' = [clicks EXCEPT ![k].age = @ + 1]
  /\ UNCHANGED <<turnedTo, armed, armTimer, held, noticed, atStation, lapsed, handlers, sent,
                 turns, notices>>

\* removeExpired() at the station, and expiresAtMs at the page.
Lapse(p) ==
  /\ atStation[p] # 0
  /\ clicks[atStation[p]].age = Stale
  /\ lapsed' = lapsed \cup {atStation[p]}
  /\ atStation' = [atStation EXCEPT ![p] = 0]
  /\ UNCHANGED <<turnedTo, armed, armTimer, held, noticed, clicks, handlers, sent, turns, notices>>


ArmPanelNext ==
  \/ \E a \in Actions : ClickArm(a) \/ ClickConfirm(a) \/ ClickSingle(a)
  \/ TimerFires \/ TurnTab \/ Paint \/ Notice
  \/ \E k \in ClickOr0 : HearCancelled(k)
  \/ \E k \in Click : HearAsked(k) \/ HearConfirmed(k) \/ SettleArmed(k) \/ SettleSingle(k)
  \/ \E k \in 1..Len(clicks) : Grows(k)
  \/ \E p \in Phone : Turn(p) \/ Lapse(p)

Idle(k) == Stands(k, "done")

\* What goes out was clicked as such: the click that confirmed it and the click
\* that asked for it were on the same button with the same phone selected, two
\* clicks for an armable action, and no confirmation goes out twice
\* (action-arm, renderer/main.ts 2894-2984).
SentAsClicked ==
  \A s \in sent :
    /\ ActionOf(s.asked) = ActionOf(s.by) /\ PhoneOf(s.asked) = PhoneOf(s.by)
    /\ ActionOf(s.by) \in Armable => s.asked < s.by
    /\ \A t \in sent : t.asked = s.asked => t = s

\* Once every handler is through, a button still armed has its own five-second
\* timer, and an idle button has none (scheduleArmExpiry, clearArmTimer).
ArmedIsTimed == (\A k \in ClickOr0 : Idle(k)) => armTimer = armed

\* action-arm's contract: an armed action that was given up on, by five seconds,
\* a change of tab or another button, has its confirmation cancelled.  VIOLATED
AbandonedIsCancelled ==
  (armed = 0 /\ \A k \in ClickOr0 : Idle(k)) =>
    \A p \in Phone : atStation[p] # 0 => ActionOf(atStation[p]) \notin Armable
=============================================================================
