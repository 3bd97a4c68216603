------------------------------ MODULE RenderLoop ------------------------------
(***************************************************************************)
(* How the console's page follows the host: the background refresh         *)
(* (renderer/render-scheduler.ts, createBackgroundRefresh with fetchOnce of *)
(* main.ts), the reads some clicks do on their own (projectView), and the  *)
(* paint of what was read last.  A paint runs in one step: paintOnce does  *)
(* not await.                                                              *)
(***************************************************************************)
EXTENDS Naturals

CONSTANT MaxVersion     \* how often the host's state changes: a bound of the model

RenderAssumption == MaxVersion \in Nat

VARIABLES
  host,       \* external: the version of the state the host would answer with
  fetch,      \* the fetch under way: the calls it awaits, the snapshot answered
  pending,    \* a request came while a fetch was under way
  reading,    \* a click waits for its own state-snapshot
  last,       \* lastSnapshot
  painted     \* the version on the screen
renderVars == <<host, fetch, pending, reading, last, painted>>

Version == 0..MaxVersion
NoAnswer == MaxVersion + 1      \* undefined: unanswered, or the call failed
Calls == {"state-snapshot", "network-hint", "stream-refresh"}
NoFetch == [running |-> FALSE, awaits |-> {}, snapshot |-> NoAnswer]

RenderTypeOK ==
  /\ host \in Version
  /\ fetch \in [running : BOOLEAN, awaits : (SUBSET Calls) \cup {{"route-preview"}}, snapshot : Version \cup {NoAnswer}]
  /\ pending \in BOOLEAN
  /\ reading \in BOOLEAN
  /\ last \in Version
  /\ painted \in Version

RenderInit ==
  /\ host = 0
  /\ fetch = NoFetch
  /\ pending = FALSE
  /\ reading = FALSE
  /\ last = 0
  /\ painted = 0

-----------------------------------------------------------------------------

HostChanges ==
  /\ host < MaxVersion
  /\ host' = host + 1
  /\ UNCHANGED <<fetch, pending, reading, last, painted>>

\* fetchOnce up to its Promise.all: the three calls leave together.
RunFetch == [running |-> TRUE, awaits |-> Calls, snapshot |-> NoAnswer]

\* request(): one fetch at a time; what comes meanwhile is one more fetch.
Requested(f) == IF f.running THEN f ELSE RunFetch

\* The interval, every second.
Tick ==
  /\ fetch' = Requested(fetch)
  /\ pending' = fetch.running
  /\ UNCHANGED <<host, reading, last, painted>>

\* render() of a click: a paint, then a request.
Render ==
  /\ painted' = last
  /\ fetch' = Requested(fetch)
  /\ pending' = fetch.running
  /\ UNCHANGED <<host, reading, last>>

\* mutant: a fetch that is over stays the active one.
FinishedForGood == fetch' = [fetch EXCEPT !.awaits = {}] /\ pending' = FALSE
\* finish(): what was asked meanwhile runs at once.
Finished ==
  /\ fetch' = IF pending THEN RunFetch ELSE NoFetch
  /\ pending' = FALSE

\* One call is answered, or fails; the others are still awaited.
CallAnswered(call) ==
  /\ fetch.awaits \ {call} # {}
  /\ call \in fetch.awaits
  /\ \E ok \in BOOLEAN :
       fetch' = [fetch EXCEPT !.awaits = @ \ {call},
                              !.snapshot = IF call = "state-snapshot" /\ ok THEN host ELSE @]
  /\ UNCHANGED <<host, pending, reading, last, painted>>

\* All that was still awaited is answered: the snapshot counts, and onFetched paints -
\* after one more call on the page of the routes, for a preview that is not there yet.
FetchCompletes ==
  /\ fetch.awaits # {} /\ fetch.awaits \subseteq Calls
  /\ \E ok \in BOOLEAN :
       LET snapshot == IF "state-snapshot" \in fetch.awaits /\ ok THEN host ELSE fetch.snapshot IN
       last' = IF snapshot = NoAnswer THEN last ELSE snapshot
  /\ \/ painted' = last' /\ Finished
     \/ /\ fetch' = [running |-> TRUE, awaits |-> {"route-preview"}, snapshot |-> NoAnswer]
        /\ UNCHANGED <<painted, pending>>
  /\ UNCHANGED <<host, reading>>

\* The preview is answered, or fails: what was read last by now is painted.
PreviewAnswered ==
  /\ fetch.awaits = {"route-preview"}
  /\ painted' = last
  /\ Finished
  /\ UNCHANGED <<host, reading, last>>

\* The deadline of five seconds: the fetch is aborted.  It writes nothing any more;
\* a snapshot that counted before its preview hung stays, and is not painted.
DeadlinePasses ==
  /\ fetch.awaits # {}
  /\ Finished
  /\ UNCHANGED <<host, reading, last, painted>>

\* projectView() of a click (device-refresh, link-measure, route-import,
\* route-remove): it has no signal, and its snapshot counts at once.
ClickReads ==
  /\ ~reading
  /\ reading' = TRUE
  /\ UNCHANGED <<host, fetch, pending, last, painted>>

ClickAnswered ==
  /\ reading
  /\ reading' = FALSE
  /\ \E ok \in BOOLEAN : last' = IF ok THEN host ELSE last
  /\ UNCHANGED <<host, fetch, pending, painted>>

RenderNext ==
  \/ HostChanges \/ Tick \/ Render
  \/ \E call \in Calls : CallAnswered(call)
  \/ FetchCompletes \/ PreviewAnswered \/ DeadlinePasses
  \/ ClickReads \/ ClickAnswered

\* The interval and the deadline are timers.  That the host answers all calls of a
\* refresh, the preview's included, within the five seconds is assumed to happen
\* again and again.
RenderFairness ==
  /\ WF_renderVars(Tick)
  /\ WF_renderVars(DeadlinePasses)
  /\ SF_renderVars(FetchCompletes /\ last' = host)
  /\ SF_renderVars(PreviewAnswered)

-----------------------------------------------------------------------------

\* Once the host's state no longer changes the screen comes to show it and
\* keeps showing it: no order of ticks, clicks, deadlines and late answers stops
\* the refresh for good, and a fetch that began before a click's own read, and
\* puts the older snapshot back, is repaired by a later one.
ScreenCatchesUp == <>[](painted = host)

\* The contract of the console: "这些调用不得串成必须全部成功才画界面的链条，
\* 彼此失败互不影响；单个调用最多等待 5 秒，到期只丢弃该次结果" - the calls of a fetch
\* do not affect one another, and the deadline drops only what did not come: a
\* snapshot that was answered counts, also when another call hangs.
OneCallDoesNotBlockAnother ==
  [][fetch.running /\ fetch.snapshot # NoAnswer /\ ~fetch'.running => last' = fetch.snapshot]_renderVars

=============================================================================
