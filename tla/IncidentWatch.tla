----------------------------- MODULE IncidentWatch -----------------------------
(***************************************************************************)
(* What the journal's observer (watchApplication) writes of one handset as *)
(* the application's snapshots go by.  Link facts (SDK, remote controller, *)
(* aircraft...) are written once two snapshots in a row agree on them and  *)
(* never as "unknown"; mission and stream facts are written as they come;  *)
(* pairing, unpairing and waypoints as they change.  An interrupt of a     *)
(* wayline has two parts, told apart: one that lacks a part differs from   *)
(* what is retained, whatever that is, and is written every time.          *)
(*                                                                         *)
(* One link fact stands for the five, which the loop treats alike, and one *)
(* plain fact for the phases and the waypoint, written when they differ    *)
(* from what was last told.                                                *)
(***************************************************************************)
EXTENDS Naturals, Sequences

CONSTANTS
  LinkValue,      \* values of a link fact, "unknown" and "missing" (no such fact) included
  PlainValue,     \* values of a mission or stream phase, "missing" included
  InterruptCode, InterruptDescription,   \* the parts of an interrupt, "missing" (null) included
  MaxSnapshots    \* snapshots published in a behaviour

WatchAssumption ==
  /\ {"unknown", "missing"} \subseteq LinkValue /\ "missing" \in PlainValue
  /\ "missing" \in InterruptCode /\ "missing" \in InterruptDescription
  /\ MaxSnapshots \in Nat

VARIABLES
  seen,           \* the snapshots published so far, newest last
  paired,         \* previousDevices holds the handset
  logged,         \* previousFacts: what was last logged of it, per fact
  waiting,        \* pendingConnection: a link value seen once, or "missing"
  wayline,        \* the interrupt of previousWayline, part by part
  written         \* history: records of this handset, each with the snapshot it came from

watchVars == <<seen, paired, logged, waiting, wayline, written>>

Interrupt == [code : InterruptCode, description : InterruptDescription]
NoInterrupt == [code |-> "missing", description |-> "missing"]
Snapshot == [here : BOOLEAN, link : LinkValue, plain : PlainValue, interrupt : Interrupt]
Nothing == [link |-> "missing", plain |-> "missing"]

WatchTypeOK ==
  /\ seen \in Seq(Snapshot) /\ paired \in BOOLEAN
  /\ logged \in [link : LinkValue, plain : PlainValue] /\ waiting \in LinkValue \ {"unknown"}
  /\ wayline \in Interrupt
  /\ \A i \in DOMAIN written : written[i].what \in {"PAIRED", "UNPAIRED", "link", "plain", "INTERRUPT"}

WatchInit ==
  /\ seen = <<>> /\ paired = FALSE /\ logged = Nothing /\ waiting = "missing"
  /\ wayline = NoInterrupt /\ written = <<>>

Row(what, value) == [what |-> what, value |-> value, at |-> Len(seen) + 1]
Rows(condition, what, value) == IF condition THEN <<Row(what, value)>> ELSE <<>>

\* One link fact: unchanged, unknown, seen for the first time, or seen again.
WaitingStays(value) ==   \* mutant: a return to the logged value keeps what was waiting
  IF value \in {"missing", logged.link} THEN waiting
  ELSE IF value \in {"unknown", waiting} THEN "missing" ELSE value
WaitingAfter(value) ==
  IF value = "missing" THEN waiting
  ELSE IF value \in {logged.link, "unknown", waiting} THEN "missing" ELSE value
LinkIsWritten(value) == value \notin {"missing", "unknown", logged.link} /\ value = waiting
LinkLogged(value) == IF value = "unknown" \/ LinkIsWritten(value) THEN value ELSE logged.link

\* One part of an interrupt: null is neither undefined nor anything retained.
Differs(value, retained) == value = "missing" \/ value # retained
Retained(value, retained) == IF value = "missing" THEN retained ELSE value
InterruptByCode(interrupt) == interrupt.code \notin {"missing", wayline.code}   \* mutant: one part tells an interrupt from the last
InterruptIsWritten(interrupt) ==
  /\ interrupt # NoInterrupt
  /\ Differs(interrupt.code, wayline.code) \/ Differs(interrupt.description, wayline.description)

\* A snapshot that lists the handset.
Listed(snapshot) ==
  /\ snapshot.here /\ paired' = TRUE
  /\ waiting' = WaitingAfter(snapshot.link)
  /\ logged' = [link |-> LinkLogged(snapshot.link),
                plain |-> IF snapshot.plain = "missing" THEN logged.plain ELSE snapshot.plain]
  /\ wayline' = [code |-> Retained(snapshot.interrupt.code, wayline.code),
                 description |-> Retained(snapshot.interrupt.description, wayline.description)]
  /\ written' = written
       \o Rows(~paired, "PAIRED", "none")
       \o Rows(LinkIsWritten(snapshot.link), "link", snapshot.link)
       \o Rows(snapshot.plain \notin {"missing", logged.plain}, "plain", snapshot.plain)
       \o Rows(InterruptIsWritten(snapshot.interrupt), "INTERRUPT", snapshot.interrupt)

\* A snapshot without it: what was known of it is forgotten.
Unlisted(snapshot) ==
  /\ ~snapshot.here
  /\ written' = written \o Rows(paired, "UNPAIRED", "none")
  /\ paired' = FALSE
  /\ IF paired THEN logged' = Nothing /\ waiting' = "missing" /\ wayline' = NoInterrupt
     ELSE UNCHANGED <<logged, waiting, wayline>>

Publish == \E snapshot \in Snapshot :
  /\ Len(seen) < MaxSnapshots
  /\ ~snapshot.here => snapshot.link = "missing" /\ snapshot.plain = "missing" /\ snapshot.interrupt = NoInterrupt
  /\ seen' = Append(seen, snapshot)
  /\ Listed(snapshot) \/ Unlisted(snapshot)

WatchNext == Publish
WatchSpec == WatchInit /\ [][WatchNext]_watchVars

-----------------------------------------------------------------------------
(* Properties.                                                             *)

\* What the rows before the r-th say of the pairing.
TellsPaired(r) ==
  \E k \in 1..(r - 1) :
    written[k].what = "PAIRED" /\ \A l \in (k + 1)..(r - 1) : written[l].what # "UNPAIRED"

\* The snapshot before the i-th that told the link fact last told this value, in the same pairing.
ToldBefore(i, value) ==
  \E j \in 1..(i - 1) :
    /\ seen[j].link = value /\ value # "missing"
    /\ \A k \in (j + 1)..(i - 1) : seen[k].link = "missing"
    /\ \A k \in j..i : seen[k].here

Part(interrupt, part) == IF part = "code" THEN interrupt.code ELSE interrupt.description

\* Who reads the interrupts of the present pairing finds this value as the last of the part.
LastRead(part, value) ==
  \E r \in DOMAIN written :
    /\ written[r].what = "INTERRUPT" /\ Part(written[r].value, part) = value
    /\ \A l \in (r + 1)..Len(written) :
         /\ written[l].what \notin {"PAIRED", "UNPAIRED"}
         /\ written[l].what = "INTERRUPT" => Part(written[l].value, part) \in {"missing", value}

\* The journal read back tells what happened: PAIRED and UNPAIRED alternate and end on
\* how things are; a link fact is written only when the last two snapshots that carried
\* the fact agreed on it, in the same pairing, and one that has agreed for two
\* snapshots is the last written; a part of a wayline interrupt that is told is the last
\* read in its pairing, however often it was told before, and an interrupt told with both
\* parts is written once for as long as it lasts (one that lacks a part is not).
JournalTellsWhatHappened ==
  /\ \A r \in DOMAIN written :
       LET row == written[r] IN
       /\ row.what = "PAIRED" => ~TellsPaired(r)
       /\ row.what = "UNPAIRED" => TellsPaired(r)
       /\ row.what = "link" => ToldBefore(row.at, row.value)
       /\ row.what = "INTERRUPT" /\ row.at > 1 /\ seen[row.at - 1].interrupt = row.value
            => "missing" \in {row.value.code, row.value.description}
  /\ paired <=> TellsPaired(Len(written) + 1)
  /\ LET i == Len(seen) IN
     /\ i > 1 /\ seen[i].here /\ seen[i].link = seen[i - 1].link /\ seen[i].link # "missing"
          => logged.link = seen[i].link
     /\ \A part \in {"code", "description"} :
          i > 0 /\ Part(seen[i].interrupt, part) # "missing" => LastRead(part, Part(seen[i].interrupt, part))
=============================================================================
