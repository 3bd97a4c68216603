------------------------------ MODULE PhoneUploads ------------------------------
(***************************************************************************)
(* What a phone sends without being asked: its photos                      *)
(* (src/modules/relay-link/media-intake, the sink of relay-link and the    *)
(* photo inbox on the disk) and its diagnostic reports (the queue of       *)
(* relay-link over node-diagnostic-store).                                 *)
(*                                                                         *)
(* A photo's bytes are the sequence of its chunks, and that sequence       *)
(* stands for its size and its digest.  Which frames a phone sends, and in *)
(* what order, is its own affair.  A report carries consecutive events,    *)
(* from the oldest one the phone holds no acknowledgement of.              *)
(***************************************************************************)
EXTENDS Naturals, Sequences, FiniteSets

CONSTANTS
  Phone,          \* phones that send photos, each over a connection
  Transfer,       \* identifiers of transfers
  Name,           \* names of photos
  Chunk,          \* chunks
  MaxChunks,      \* chunks of a photo
  MaxFrames,      \* media frames of a behaviour
  MaxEvents,      \* diagnostic events of the phone
  MaxQueue,       \* MAX_QUEUED_DIAGNOSTIC_REPORTS
  MaxKeys,        \* the limit of persistedDiagnosticKeys
  MaxSessions,    \* sessions of the phone that reports
  None

UploadsAssumption ==
  /\ MaxChunks \in Nat /\ MaxFrames \in Nat /\ MaxEvents \in Nat /\ MaxSessions \in Nat
  /\ MaxQueue \in Nat \ {0} /\ MaxKeys \in Nat \ {0}

-----------------------------------------------------------------------------
(* Photos.                                                                 *)

VARIABLES
  paired,         \* phones whose connection is in the registry
  active,         \* the transfer under way, by connection
  inbox,          \* PhotoInbox: photos listed, by device
  disk,           \* the files of the photo directory: <<device, name>> -> bytes
  told,           \* history: the media-results sent to a phone
  frames          \* media frames so far

photoVars == <<paired, active, inbox, disk, told, frames>>

Bytes == UNION {[1..n -> Chunk] : n \in 1..MaxChunks}
Declared == [id : Transfer, name : Name, bytes : Bytes]
Result(id, name, bytes, ok) == [id |-> id, name |-> name, bytes |-> bytes, ok |-> ok]

PhotosInit ==
  /\ paired = Phone /\ active = [p \in Phone |-> None] /\ inbox = [p \in Phone |-> {}]
  /\ disk = [f \in Phone \X Name |-> None] /\ told = [p \in Phone |-> {}] /\ frames = 0

Frame(p) == p \in paired /\ frames < MaxFrames /\ frames' = frames + 1
Refused(p, id) == told' = [told EXCEPT ![p] = @ \cup {Result(id, None, <<>>, FALSE)}]

Active(p, id) == active[p] # None /\ active[p].id = id

\* media-begin: the transfer under way goes on, gives way to another one, or there is none.
BeginAgain(p, t) ==
  /\ Frame(p) /\ Active(p, t.id)
  /\ Refused(p, t.id) /\ UNCHANGED <<paired, active, inbox, disk>>
Begin(p, t) ==
  /\ Frame(p) /\ ~Active(p, t.id)
  /\ IF active[p] = None THEN UNCHANGED told ELSE Refused(p, active[p].id)
  /\ active' = [active EXCEPT ![p] = [id |-> t.id, name |-> t.name, declared |-> t.bytes, got |-> <<>>]]
  /\ UNCHANGED <<paired, inbox, disk>>

NotActive(p, id) == Frame(p) /\ ~Active(p, id) /\ Refused(p, id) /\ UNCHANGED <<paired, active, inbox, disk>>

\* media-chunk: kept, or too large and the end of the transfer.
ChunkArrives(p, id, c) ==
  /\ Frame(p) /\ Active(p, id)
  /\ \/ /\ Len(active[p].got) < MaxChunks
        /\ active' = [active EXCEPT ![p].got = Append(@, c)] /\ UNCHANGED told
     \/ active' = [active EXCEPT ![p] = None] /\ Refused(p, id)
  /\ UNCHANGED <<paired, inbox, disk>>

\* PhotoInbox.accept(): a name or a digest that is listed is a duplicate; a photo is
\* listed once it is on the disk.
Duplicate(p, name, bytes) == \E f \in inbox[p] : f.name = name \/ f.bytes = bytes
Writes(p, name, bytes) == disk' = [disk EXCEPT ![<<p, name>>] = bytes]
ListedFirst(p, name, bytes) ==   \* mutant: a photo is listed whether it could be written or not
  /\ inbox' = [inbox EXCEPT ![p] = @ \cup {[name |-> name, bytes |-> bytes]}]
  /\ \/ Writes(p, name, bytes)
     \/ UNCHANGED disk
Listed(p, name, bytes) ==
  /\ inbox' = [inbox EXCEPT ![p] = @ \cup {[name |-> name, bytes |-> bytes]}]
  /\ Writes(p, name, bytes)

\* media-complete: what arrived is what was declared, and the inbox takes it or has it.
Complete(p, id) ==
  /\ Frame(p) /\ Active(p, id)
  /\ active' = [active EXCEPT ![p] = None]
  /\ LET name == active[p].name   got == active[p].got   whole == got = active[p].declared
         stored == told' = [told EXCEPT ![p] = @ \cup {Result(id, name, got, TRUE)}]
     IN  \/ whole /\ Duplicate(p, name, got) /\ stored /\ UNCHANGED <<inbox, disk>>
         \/ whole /\ ~Duplicate(p, name, got) /\ Listed(p, name, got) /\ stored
         \/ (whole => ~Duplicate(p, name, got)) /\ Refused(p, id) /\ UNCHANGED <<inbox, disk>>
  /\ UNCHANGED paired

\* cancelConnection(), and the phone pairs again: what it is told now, it did not hear before.
PhoneLeaves(p) ==
  /\ p \in paired /\ paired' = paired \ {p} /\ active' = [active EXCEPT ![p] = None]
  /\ UNCHANGED <<inbox, disk, told, frames>>
PhonePairs(p) == p \notin paired /\ paired' = paired \cup {p} /\ UNCHANGED <<active, inbox, disk, told, frames>>

PhotosNext ==
  \E p \in Phone :
    \/ (\E t \in Declared : BeginAgain(p, t) \/ Begin(p, t))
    \/ (\E id \in Transfer : NotActive(p, id) \/ Complete(p, id) \/ (\E c \in Chunk : ChunkArrives(p, id, c)))
    \/ PhoneLeaves(p) \/ PhonePairs(p)

\* A photo the phone was told is stored may be deleted there: the inbox of that very
\* phone holds its name or its bytes, and whatever an inbox lists is on the disk in full,
\* through interrupted, superseded and interleaved transfers and failing writes.
StoredPhotosAreKept ==
  /\ \A p \in Phone : \A r \in told[p] : r.ok => Duplicate(p, r.name, r.bytes)
  /\ \A p \in Phone : \A f \in inbox[p] : disk[<<p, f.name>>] = f.bytes

-----------------------------------------------------------------------------
(* Diagnostic reports.                                                     *)

VARIABLES
  session,        \* the session of the phone, 0 for none; sessions are numbered
  sessions,       \* sessions so far
  made,           \* events the phone has recorded: 1..made
  acked,          \* events it knows to be kept
  queue,          \* reports that wait in the session's queue
  identities,     \* the queue's identities: reports that wait or are being written
  writes,         \* the store's chain of writes
  keys,           \* persistedDiagnosticKeys
  file,           \* events in the file
  acks            \* acknowledgements on their way

reportVars == <<session, sessions, made, acked, queue, identities, writes, keys, file, acks>>

Events(report) == report.from..report.to
Report(from, to) == [from |-> from, to |-> to]

ReportsInit ==
  /\ session = 1 /\ sessions = 1 /\ made = 0 /\ acked = 0
  /\ queue = <<>> /\ identities = {} /\ writes = <<>> /\ keys = {} /\ file = {} /\ acks = {}

EventMade == made < MaxEvents /\ made' = made + 1 /\ UNCHANGED <<session, sessions, acked, queue, identities, writes, keys, file, acks>>

\* A report arrives: known already, under way or too many, or it waits.
ReportArrives(to) ==
  LET report == Report(acked + 1, to)
  IN  /\ session # 0 /\ to \in (acked + 1)..made
      /\ IF Events(report) \subseteq keys
         THEN acks' = acks \cup {to} /\ UNCHANGED <<queue, identities>>
         ELSE /\ report \notin identities /\ Len(queue) < MaxQueue
              /\ queue' = Append(queue, report) /\ identities' = identities \cup {report}
              /\ UNCHANGED acks
      /\ UNCHANGED <<session, sessions, made, acked, writes, keys, file>>

\* drainDiagnosticQueue() takes the next report when none of the session is being written.
Writing == \E i \in DOMAIN writes : writes[i].session = session
DrainNext ==
  /\ session # 0 /\ queue # <<>> /\ ~Writing /\ queue' = Tail(queue)
  /\ LET report == Head(queue)   pending == Events(report) \ keys
     IN  IF pending = {}
         THEN /\ acks' = acks \cup {report.to} /\ identities' = identities \ {report}
              /\ UNCHANGED writes
         ELSE /\ writes' = Append(writes, [session |-> session, report |-> report, events |-> pending])
              /\ UNCHANGED <<acks, identities>>
  /\ UNCHANGED <<session, sessions, made, acked, keys, file>>

\* rememberDiagnostic() of each event: of more keys than the limit the oldest go; which
\* those are is left open.
Remembered(events) ==
  LET all == keys \cup events
      limit == IF Cardinality(all) < MaxKeys THEN Cardinality(all) ELSE MaxKeys
  IN {kept \in SUBSET all : Cardinality(kept) = limit}

\* NodeDiagnosticStore: the first write of the chain is done, or has failed.  The session
\* that it was for is told, if it is still the phone's.
Wrote(w) == acks' = IF w.session = session THEN acks \cup {w.report.to} ELSE acks
WriteKeepsPlace(w) ==   \* mutant: a report that failed keeps its place among the identities
  UNCHANGED identities
WriteLeaves(w) == identities' = IF w.session = session THEN identities \ {w.report} ELSE identities
StoreWrites ==
  /\ writes # <<>> /\ writes' = Tail(writes)
  /\ LET w == Head(writes)
     IN  /\ file' = file \cup w.events /\ keys' \in Remembered(w.events) /\ Wrote(w) /\ WriteLeaves(w)
  /\ UNCHANGED <<session, sessions, made, acked, queue>>
FailureTold(w) ==   \* mutant: the session hears of the report however the write ended
  Wrote(w)
FailureSilent(w) == UNCHANGED acks
StoreFails ==
  /\ writes # <<>> /\ writes' = Tail(writes) /\ WriteLeaves(Head(writes)) /\ FailureSilent(Head(writes))
  /\ UNCHANGED <<session, sessions, made, acked, queue, keys, file>>

\* The phone takes an acknowledgement for everything up to its event.
AckArrives ==
  /\ \E n \in acks : acks' = acks \ {n} /\ acked' = IF n > acked THEN n ELSE acked
  /\ UNCHANGED <<session, sessions, made, queue, identities, writes, keys, file>>

SessionLost ==
  /\ session # 0 /\ sessions < MaxSessions /\ session' = 0
  /\ queue' = <<>> /\ identities' = {} /\ acks' = {}
  /\ UNCHANGED <<sessions, made, acked, writes, keys, file>>
SessionBegins ==
  /\ session = 0 /\ sessions' = sessions + 1 /\ session' = sessions'
  /\ UNCHANGED <<made, acked, queue, identities, writes, keys, file, acks>>

ReportsNext ==
  \/ EventMade \/ (\E to \in 1..MaxEvents : ReportArrives(to)) \/ DrainNext \/ StoreWrites \/ StoreFails
  \/ AckArrives \/ SessionLost \/ SessionBegins

\* The phone reports again until it is told, the drain goes on, the file system does not
\* fail for ever, and a phone that is lost comes back.
ReportsFairness ==
  /\ WF_reportVars(ReportArrives(made)) /\ WF_reportVars(DrainNext) /\ WF_reportVars(SessionBegins)
  /\ SF_reportVars(StoreWrites) /\ WF_reportVars(AckArrives)

\* The phone forgets only what is in the file, whatever is lost between a write, the
\* memory of it and its acknowledgement.
AckedIsPersisted == 1..acked \subseteq file

\* Every event is in the file in the end and the phone knows: a failed write, a lost
\* acknowledgement, a full queue or a new session delays it only.
ReportsArrive == []<>(acked = made)

UploadsTypeOK ==
  /\ paired \subseteq Phone /\ frames \in 0..MaxFrames
  /\ session \in 0..MaxSessions /\ made \in 0..MaxEvents /\ acked \in 0..made
  /\ file \subseteq 1..made /\ keys \subseteq file /\ Len(queue) <= MaxQueue
=============================================================================
