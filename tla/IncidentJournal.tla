---------------------------- MODULE IncidentJournal ----------------------------
(***************************************************************************)
(* The incident journal (electron-host/incident-journal.ts): a bounded     *)
(* queue that prefers to drop INFO, one background writer that takes the   *)
(* whole queue as a batch and appends it to two files in turn, and the     *)
(* flush the host awaits before it quits.  Everything the host does is     *)
(* recorded through it: gateway calls, phone diagnostics, media events.    *)
(*                                                                         *)
(* An entry is its number, its level and the loss marker it carries        *)
(* ("dropped=n"); the text of an entry is left out.                        *)
(***************************************************************************)
EXTENDS Naturals, FiniteSets, Sequences
LOCAL INSTANCE SequencesExt

CONSTANTS
  MaxQueued,      \* MAX_QUEUED_RECORDS
  MaxRecords      \* records of a behaviour

JournalAssumption == MaxQueued \in Nat \ {0} /\ MaxRecords \in Nat

Levels == {"INFO", "WARN"}

VARIABLES
  queue,          \* pending
  batch,          \* what drain() took, <<>> when it is not running
  at,             \* where drain() stands: "off", "mkdir", "json", "log"
  dropped,        \* dropped
  json, log,      \* the two files
  recorded,       \* history: records so far
  lost,           \* history: records the queue dropped, each with the record it made room for
  failed,         \* history: numbers of the records of a batch that failed to be written
  flush           \* flush(): "no", "waiting" or "done"; with the records it was asked to see out

journalVars == <<queue, batch, at, dropped, json, log, recorded, lost, failed, flush>>

Entry == [id : 1..MaxRecords, level : Levels, marker : 0..MaxRecords]
Listed(entries) == {entries[i].id : i \in DOMAIN entries}

JournalTypeOK ==
  /\ queue \in Seq(Entry) /\ batch \in Seq(Entry) /\ json \in Seq(Entry) /\ log \in Seq(Entry)
  /\ at \in {"off", "mkdir", "json", "log"} /\ dropped \in 0..MaxRecords /\ recorded \in 0..MaxRecords
  /\ lost \subseteq [id : 1..MaxRecords, level : Levels, room : 1..MaxRecords] /\ failed \subseteq 1..MaxRecords
  /\ flush \in [state : {"no", "waiting", "done"}, upto : 0..MaxRecords]

JournalInit ==
  /\ queue = <<>> /\ batch = <<>> /\ at = "off" /\ dropped = 0 /\ json = <<>> /\ log = <<>>
  /\ recorded = 0 /\ lost = {} /\ failed = {} /\ flush = [state |-> "no", upto |-> 0]

Without(i) == [j \in 1..(Len(queue) - 1) |-> IF j < i THEN queue[j] ELSE queue[j + 1]]
Infos == {i \in DOMAIN queue : queue[i].level = "INFO"}
Earliest == CHOOSE i \in Infos : \A j \in Infos : i <= j
Full == Len(queue) >= MaxQueued

\* reserveQueueSlot(): the earliest INFO goes, or the earliest record of all.
VictimFirst ==   \* mutant: the earliest record goes, whatever its level
  1
Victim == IF Infos # {} THEN Earliest ELSE 1
Marked(level) == [id |-> recorded', level |-> level, marker |-> IF Full THEN dropped + 1 ELSE dropped]

\* scheduleDrain(): drain() runs at once as far as its first await.
DrainAlways(entries) ==   \* mutant: a drain is started over one that runs
  queue' = <<>> /\ batch' = entries /\ at' = "mkdir"
ScheduleDrain(entries) ==
  IF at = "off" /\ entries # <<>> THEN queue' = <<>> /\ batch' = entries /\ at' = "mkdir"
  ELSE queue' = entries /\ UNCHANGED <<batch, at>>

Lost(id, level) == [id |-> id, level |-> level, room |-> recorded']
Record(level) ==
  /\ recorded < MaxRecords /\ recorded' = recorded + 1
  /\ IF Full /\ level = "INFO"
     THEN dropped' = dropped + 1 /\ lost' = lost \cup {Lost(recorded', "INFO")} /\ UNCHANGED <<queue, batch, at>>
     ELSE /\ dropped' = 0
          /\ lost' = IF Full THEN lost \cup {Lost(queue[Victim].id, queue[Victim].level)} ELSE lost
          /\ ScheduleDrain(Append(IF Full THEN Without(Victim) ELSE queue, Marked(level)))
  /\ UNCHANGED <<json, log, failed, flush>>

-----------------------------------------------------------------------------
(* drain()                                                                 *)

MadeDirectory ==
  /\ at = "mkdir" /\ at' = "json"
  /\ UNCHANGED <<queue, batch, dropped, json, log, recorded, lost, failed, flush>>
WroteJson ==
  /\ at = "json" /\ at' = "log" /\ json' = json \o batch
  /\ UNCHANGED <<queue, batch, dropped, log, recorded, lost, failed, flush>>

\* The loop takes the next batch, or the drain ends; a flush that waits goes on then.
Flushed == IF flush.state = "waiting" THEN [flush EXCEPT !.state = "done"] ELSE flush
NextBatch ==
  IF queue # <<>>
  THEN queue' = <<>> /\ batch' = queue /\ at' = "mkdir" /\ UNCHANGED flush
  ELSE batch' = <<>> /\ at' = "off" /\ flush' = Flushed /\ UNCHANGED queue
WroteLog ==
  /\ at = "log" /\ log' = log \o batch
  /\ NextBatch
  /\ UNCHANGED <<dropped, json, recorded, lost, failed>>
WriteFails ==
  /\ at # "off"
  /\ failed' = failed \cup Listed(batch)
  /\ NextBatch
  /\ UNCHANGED <<dropped, json, log, recorded, lost>>

\* flush(): the writer is started if there is work, and awaited until it is off.
Flush ==
  /\ flush.state = "no"
  /\ flush' = [state |-> IF at = "off" /\ queue = <<>> THEN "done" ELSE "waiting", upto |-> recorded]
  /\ ScheduleDrain(queue)
  /\ UNCHANGED <<dropped, json, log, recorded, lost, failed>>

Writer == MadeDirectory \/ WroteJson \/ WroteLog \/ WriteFails
JournalNext == (\E level \in Levels : Record(level)) \/ Writer \/ Flush

\* File operations end.
JournalFairness == WF_journalVars(Writer)
JournalSpec == JournalInit /\ [][JournalNext]_journalVars /\ JournalFairness

-----------------------------------------------------------------------------
(* Properties.                                                             *)

Ascends(entries) == \A i, j \in DOMAIN entries : i < j => entries[i].id < entries[j].id

\* Both files list the records in the order they were made, whatever is dropped,
\* fails to be written or arrives while a batch is under way; every record is in the
\* log, was dropped, failed or still waits, and none is twice in a file.
JournalIsInOrder ==
  /\ Ascends(json) /\ Ascends(log) /\ Ascends(batch \o queue)
  /\ 1..recorded = Listed(log) \cup Listed(batch) \cup Listed(queue) \cup {entry.id : entry \in lost} \cup failed
  /\ Listed(log) \cap (Listed(batch) \cup Listed(queue)) = {}

\* The queue is bounded and never waits for a writer that is not running.  A WARN is
\* dropped only for another WARN, and only when every INFO recorded between the two
\* has been dropped as well.
WarningsOutlastInfos ==
  /\ Len(queue) <= MaxQueued
  /\ queue # <<>> => at # "off"
  /\ \A gone \in {entry \in lost : entry.level = "WARN"} :
       /\ gone.room # gone.id
       /\ \A i \in DOMAIN (log \o batch \o queue) : LET kept == (log \o batch \o queue)[i] IN
            kept.level = "INFO" => kept.id \notin gone.id..gone.room

\* Once a flush has returned, nothing recorded before it still waits.
FlushIsComplete == flush.state = "done" =>
  \A i \in DOMAIN (batch \o queue) : (batch \o queue)[i].id > flush.upto

\* A flush returns once nothing more is recorded.
FlushEnds == []<>(flush.state # "waiting")

\* electron-host/CONTRACT.md: what is dropped is counted in a later log entry.  The
\* markers of the entries kept and the count not yet written add up to the losses.
Counted(entries) == FoldSeq(LAMBDA entry, sum : entry.marker + sum, 0, entries)
EveryLossIsCounted ==
  failed = {} => Counted(log) + Counted(batch) + Counted(queue) + dropped = Cardinality(lost)
=============================================================================
