--------------------------- MODULE BackgroundProofs ---------------------------
(***************************************************************************)
(* Theorems about what goes on by itself while the operator works: players *)
(* and tiles of the page, the sockets, the journal and the uploads, for    *)
(* any bounds of a behaviour and any limits of the queues.                 *)
(***************************************************************************)
EXTENDS MCBackground, Integers, FiniteSets, Sequences, WellFoundedInduction, TLAPS

-----------------------------------------------------------------------------
(* The photos of phones *)

UnderWay == [id : Transfer, name : Name, declared : Uploads!Bytes, got : Seq(Chunk)]

Photos ==
  /\ DOMAIN disk = Phone \X Name
  /\ \A r \in Phone : active[r] # None => active[r] \in UnderWay
  /\ DOMAIN inbox = Phone /\ DOMAIN told = Phone /\ DOMAIN active = Phone
  /\ \A r \in Phone : \A f \in inbox[r] : f.name \in Name
  /\ Uploads!StoredPhotosAreKept

LEMMA PhotosBegin == Uploads!PhotosInit => Photos
BY DEF Uploads!PhotosInit, Photos, Uploads!StoredPhotosAreKept

\* What a refusal tells is never that a photo is stored.
LEMMA RefusalsTellNothing ==
  ASSUME Photos, NEW r \in Phone, NEW id, Uploads!Refused(r, id), UNCHANGED <<inbox, disk>>
  PROVE  DOMAIN told' = Phone /\ Uploads!StoredPhotosAreKept'
<1>1. \A s \in Phone : \A n \in told'[s] : n \in told[s] \/ n.ok = FALSE
  BY DEF Uploads!Refused, Uploads!Result, Photos
<1> QED
  BY <1>1 DEF Uploads!Refused, Photos, Uploads!StoredPhotosAreKept, Uploads!Duplicate

\* A transfer that begins, grows or ends is none of what an inbox lists.
LEMMA PhotosStep == ASSUME Photos, Uploads!PhotosNext PROVE Photos'
<1> SUFFICES ASSUME NEW r \in Phone,
      \/ \E t \in Uploads!Declared : Uploads!BeginAgain(r, t) \/ Uploads!Begin(r, t)
      \/ \E id \in Transfer : \/ Uploads!NotActive(r, id) \/ Uploads!Complete(r, id)
                              \/ \E c \in Chunk : Uploads!ChunkArrives(r, id, c)
      \/ Uploads!PhoneLeaves(r) \/ Uploads!PhonePairs(r)
      PROVE Photos'
  BY DEF Uploads!PhotosNext
<1>1. ASSUME NEW t \in Uploads!Declared, Uploads!BeginAgain(r, t) \/ Uploads!Begin(r, t)
      PROVE  Photos'
  <2>1. UNCHANGED <<inbox, disk>>
    BY <1>1 DEF Uploads!BeginAgain, Uploads!Begin
  <2>2. DOMAIN told' = Phone /\ Uploads!StoredPhotosAreKept'
    BY <1>1, <2>1, RefusalsTellNothing
       DEF Uploads!BeginAgain, Uploads!Begin, Photos, Uploads!StoredPhotosAreKept, Uploads!Duplicate
  <2>3. [id |-> t.id, name |-> t.name, declared |-> t.bytes, got |-> <<>>] \in UnderWay
    BY DEF Uploads!Declared, UnderWay
  <2>4. DOMAIN active' = Phone /\ \A s \in Phone : active'[s] # None => active'[s] \in UnderWay
    BY <1>1, <2>3 DEF Uploads!BeginAgain, Uploads!Begin, Photos
  <2> QED
    BY <2>1, <2>2, <2>4 DEF Photos
<1>2. ASSUME NEW id \in Transfer, NEW c \in Chunk,
             Uploads!ChunkArrives(r, id, c)
      PROVE  Photos'
  <2>1. UNCHANGED <<inbox, disk>>
    BY <1>2 DEF Uploads!ChunkArrives
  <2>2. DOMAIN told' = Phone /\ Uploads!StoredPhotosAreKept'
    BY <1>2, <2>1, RefusalsTellNothing
       DEF Uploads!ChunkArrives, Photos, Uploads!StoredPhotosAreKept, Uploads!Duplicate
  <2>3. DOMAIN active' = Phone /\ \A s \in Phone : active'[s] # None => active'[s] \in UnderWay
    <3>1. active[r] \in UnderWay
      BY <1>2 DEF Uploads!ChunkArrives, Uploads!Active, Photos
    <3>2. CASE active' = [active EXCEPT ![r].got = Append(@, c)]
      <4>1. [active[r] EXCEPT !.got = Append(@, c)] \in UnderWay
        <5>1. Append(active[r].got, c) \in Seq(Chunk)
          BY <3>1 DEF UnderWay
        <5> QED
          BY <3>1, <5>1 DEF UnderWay
      <4> QED
        BY <3>2, <4>1 DEF Photos
    <3>3. CASE active' = [active EXCEPT ![r] = None]
      BY <3>3 DEF Photos
    <3> QED
      BY <1>2, <3>2, <3>3 DEF Uploads!ChunkArrives
  <2> QED
    BY <2>1, <2>2, <2>3 DEF Photos
<1>3. ASSUME NEW id \in Transfer, Uploads!NotActive(r, id)
      PROVE  Photos'
  <2>1. UNCHANGED <<inbox, disk, active>>
    BY <1>3 DEF Uploads!NotActive
  <2> QED
    BY <1>3, <2>1, RefusalsTellNothing DEF Uploads!NotActive, Photos
<1>4. ASSUME NEW id \in Transfer, Uploads!Complete(r, id)
      PROVE  Photos'
  <2> DEFINE name == active[r].name
             got == active[r].got
             stored == told' = [told EXCEPT ![r] = @ \cup {Uploads!Result(id, name, got, TRUE)}]
  <2>1. name \in Name
    BY <1>4 DEF Uploads!Complete, Uploads!Active, Photos, UnderWay
  <2>2. DOMAIN active' = Phone /\ \A s \in Phone : active'[s] # None => active'[s] \in UnderWay
    BY <1>4 DEF Uploads!Complete, Photos
  <2>3. ASSUME Uploads!Duplicate(r, name, got), stored, UNCHANGED <<inbox, disk>>
        PROVE  Photos'
    <3>1. \A s \in Phone : \A n \in told'[s] : n \in told[s] \/ (s = r /\ n.name = name /\ n.bytes = got)
      BY <2>3 DEF Photos, Uploads!Result
    <3> QED
      BY <2>2, <2>3, <3>1 DEF Photos, Uploads!StoredPhotosAreKept, Uploads!Duplicate
  <2>4. ASSUME ~Uploads!Duplicate(r, name, got), Uploads!Listed(r, name, got), stored
        PROVE  Photos'
    <3> DEFINE photo == [name |-> name, bytes |-> got]
    <3>1. /\ DOMAIN inbox' = Phone /\ inbox'[r] = inbox[r] \cup {photo}
          /\ \A s \in Phone : s # r => inbox'[s] = inbox[s]
      BY <2>4 DEF Uploads!Listed, Photos
    <3>2. /\ DOMAIN disk' = Phone \X Name /\ disk'[<<r, name>>] = got
          /\ \A s \in Phone, n \in Name : s # r \/ n # name => disk'[<<s, n>>] = disk[<<s, n>>]
      BY <2>1, <2>4 DEF Uploads!Listed, Uploads!Writes, Photos
    <3>3. \A f \in inbox[r] : f.name # name
      BY <2>4 DEF Uploads!Duplicate
    <3>4. \A s \in Phone : \A f \in inbox'[s] : f.name \in Name /\ disk'[<<s, f.name>>] = f.bytes
      <4> SUFFICES ASSUME NEW s \in Phone, NEW f \in inbox'[s]
                   PROVE  f.name \in Name /\ disk'[<<s, f.name>>] = f.bytes
        OBVIOUS
      <4>1. CASE f \in inbox[s]
        <5>1. f.name \in Name /\ disk[<<s, f.name>>] = f.bytes
          BY <4>1 DEF Photos, Uploads!StoredPhotosAreKept
        <5>2. s # r \/ f.name # name
          BY <3>3, <4>1
        <5> QED
          BY <3>2, <5>1, <5>2
      <4>2. CASE s = r /\ f = photo
        BY <2>1, <3>2, <4>2
      <4> QED
        BY <3>1, <4>1, <4>2
    <3>5. \A s \in Phone : \A n \in told'[s] : n \in told[s] \/ (s = r /\ n.name = name /\ n.bytes = got)
      BY <2>4 DEF Photos, Uploads!Result
    <3>6. \A s \in Phone : \A n \in told'[s] :
            n.ok => \E f \in inbox'[s] : f.name = n.name \/ f.bytes = n.bytes
      <4> SUFFICES ASSUME NEW s \in Phone, NEW n \in told'[s], n.ok
                   PROVE  \E f \in inbox'[s] : f.name = n.name \/ f.bytes = n.bytes
        OBVIOUS
      <4>1. CASE n \in told[s]
        <5>1. PICK f \in inbox[s] : f.name = n.name \/ f.bytes = n.bytes
          BY <4>1 DEF Photos, Uploads!StoredPhotosAreKept, Uploads!Duplicate
        <5> QED
          BY <3>1, <5>1
      <4>2. CASE s = r /\ n.name = name /\ n.bytes = got
        <5>1. photo \in inbox'[s] /\ photo.name = n.name
          BY <3>1, <4>2
        <5> QED
          BY <5>1
      <4> QED
        BY <3>5, <4>1, <4>2
    <3>7. DOMAIN told' = Phone
      BY <2>4 DEF Photos
    <3> QED
      BY <2>2, <3>1, <3>2, <3>4, <3>6, <3>7 DEF Photos, Uploads!StoredPhotosAreKept, Uploads!Duplicate
  <2>5. ASSUME Uploads!Refused(r, id), UNCHANGED <<inbox, disk>>
        PROVE  Photos'
    BY <2>2, <2>5, RefusalsTellNothing DEF Photos
  <2> QED
    BY <1>4, <2>3, <2>4, <2>5 DEF Uploads!Complete
<1>5. ASSUME Uploads!PhoneLeaves(r) \/ Uploads!PhonePairs(r)
      PROVE  Photos'
  BY <1>5 DEF Uploads!PhoneLeaves, Uploads!PhonePairs, Photos, Uploads!StoredPhotosAreKept, Uploads!Duplicate
<1> QED
  BY <1>1, <1>2, <1>3, <1>4, <1>5

-----------------------------------------------------------------------------
(* The reports of a phone *)

Sending == [from : Nat, to : Nat]
Written == [session : Nat, report : Sending, events : SUBSET Nat]

\* A report whose earlier events are all in the file, and a write that completes one.
Follows(report, kept) == 1..(report.from - 1) \subseteq kept
Completes(write, kept) ==
  Follows(write.report, kept) /\ Uploads!Events(write.report) \subseteq write.events \cup kept

Reports ==
  /\ made \in Nat /\ acked \in Nat /\ session \in Nat /\ sessions \in Nat
  /\ Uploads!AckedIsPersisted
  /\ keys \subseteq file
  /\ acks \subseteq Nat /\ \A n \in acks : 1..n \subseteq file
  /\ waiting \in Seq(Sending) /\ \A i \in 1..Len(waiting) : Follows(waiting[i], file)
  /\ writes \in Seq(Written) /\ \A i \in 1..Len(writes) : Completes(writes[i], file)

LEMMA ReportsBegin == Uploads!ReportsInit => Reports
BY DEF Uploads!ReportsInit, Reports, Uploads!AckedIsPersisted

\* What followed goes on to follow, and a report that follows is whole once its own events are kept.
LEMMA FollowsOn ==
  ASSUME NEW report \in Sending, NEW kept, NEW more, kept \subseteq more, Follows(report, kept)
  PROVE  /\ Follows(report, more)
         /\ Uploads!Events(report) \subseteq more => 1..report.to \subseteq more
<1>1. \A n \in 1..report.to : n \in 1..(report.from - 1) \/ n \in report.from..report.to
  BY DEF Sending
<1> QED
  BY <1>1 DEF Follows, Uploads!Events

LEMMA CompletesOn ==
  ASSUME NEW write \in Written, NEW kept, NEW more, kept \subseteq more, Completes(write, kept)
  PROVE  Completes(write, more)
BY FollowsOn DEF Completes, Written

LEMMA Appended ==
  ASSUME NEW S, NEW seq \in Seq(S), NEW final \in S
  PROVE  /\ Append(seq, final) \in Seq(S) /\ Len(Append(seq, final)) = Len(seq) + 1
         /\ \A i \in 1..(Len(seq) + 1) :
              Append(seq, final)[i] = final \/ (i \in 1..Len(seq) /\ Append(seq, final)[i] = seq[i])
OBVIOUS

LEMMA Taken ==
  ASSUME NEW S, NEW seq \in Seq(S), seq # <<>>
  PROVE  /\ Head(seq) \in S /\ Head(seq) = seq[1] /\ 1 \in 1..Len(seq)
         /\ Tail(seq) \in Seq(S)
         /\ \A i \in 1..Len(Tail(seq)) : i + 1 \in 1..Len(seq) /\ Tail(seq)[i] = seq[i + 1]
OBVIOUS

\* What is written of a report is in the file, and what was known of it was there before.
LEMMA ReportsStep == ASSUME Reports, Uploads!ReportsNext PROVE Reports'
<1>1. CASE Uploads!EventMade
  <2>1. made' \in Nat
    BY <1>1 DEF Uploads!EventMade, Reports
  <2> QED
    BY <1>1, <2>1 DEF Uploads!EventMade, Reports, Uploads!AckedIsPersisted
<1>2. ASSUME NEW to \in 1..MaxEvents, Uploads!ReportArrives(to)
      PROVE  Reports'
  <2> DEFINE report == Uploads!Report(acked + 1, to)
  <2>1. report \in Sending /\ report.from = acked + 1 /\ report.to = to
    BY DEF Uploads!Report, Reports, Sending
  <2>2. Follows(report, file)
    BY <2>1 DEF Follows, Reports, Uploads!AckedIsPersisted
  <2> HIDE DEF report
  <2>3. UNCHANGED <<session, sessions, made, acked, writes, keys, file>>
    BY <1>2 DEF Uploads!ReportArrives
  <2>4. CASE acks' = acks \cup {to} /\ UNCHANGED waiting /\ Uploads!Events(report) \subseteq keys
    <3>1. 1..to \subseteq file
      BY <2>1, <2>2, <2>4, FollowsOn DEF Reports
    <3> QED
      BY <2>3, <2>4, <3>1 DEF Reports, Uploads!AckedIsPersisted
  <2>5. CASE waiting' = Append(waiting, report) /\ UNCHANGED acks
    <3>1. waiting' \in Seq(Sending) /\ \A i \in 1..Len(waiting') : Follows(waiting'[i], file)
      BY <2>1, <2>2, <2>5, Appended DEF Reports
    <3> QED
      BY <2>3, <2>5, <3>1 DEF Reports, Uploads!AckedIsPersisted
  <2> QED
    BY <1>2, <2>4, <2>5 DEF Uploads!ReportArrives, report
<1>3. CASE Uploads!DrainNext
  <2> DEFINE report == Head(waiting)
             missing == Uploads!Events(report) \ keys
             write == [session |-> session, report |-> report, events |-> missing]
  <2>1. /\ waiting # <<>> /\ waiting' = Tail(waiting)
        /\ UNCHANGED <<session, sessions, made, acked, keys, file>>
    BY <1>3 DEF Uploads!DrainNext
  <2>2. report \in Sending /\ Follows(report, file)
    BY <2>1, Taken DEF Reports
  <2>3. waiting' \in Seq(Sending) /\ \A i \in 1..Len(waiting') : Follows(waiting'[i], file)
    BY <2>1, Taken DEF Reports
  <2>4. missing \subseteq Nat /\ Uploads!Events(report) \subseteq missing \cup file
    BY <2>2 DEF Uploads!Events, Reports, Sending
  <2>5. CASE missing = {} /\ acks' = acks \cup {report.to} /\ UNCHANGED writes
    <3>1. 1..report.to \subseteq file /\ report.to \in Nat
      BY <2>2, <2>4, <2>5, FollowsOn DEF Sending
    <3> QED
      BY <2>1, <2>3, <2>5, <3>1 DEF Reports, Uploads!AckedIsPersisted
  <2>6. CASE writes' = Append(writes, write) /\ UNCHANGED acks
    <3>1. write \in Written /\ Completes(write, file)
      BY <2>2, <2>4 DEF Reports, Written, Completes
    <3> HIDE DEF write
    <3>2. writes' \in Seq(Written) /\ \A i \in 1..Len(writes') : Completes(writes'[i], file)
      BY <2>6, <3>1, Appended DEF Reports
    <3> QED
      BY <2>1, <2>3, <2>6, <3>2 DEF Reports, Uploads!AckedIsPersisted
  <2> QED
    BY <1>3, <2>5, <2>6 DEF Uploads!DrainNext
<1>4. ASSUME writes # <<>>, writes' = Tail(writes), file \subseteq file'
      PROVE  writes' \in Seq(Written) /\ \A i \in 1..Len(writes') : Completes(writes'[i], file')
  <2>1. \A i \in 1..Len(writes') : writes'[i] \in Written /\ Completes(writes'[i], file)
    BY <1>4, Taken DEF Reports
  <2> QED
    BY <1>4, <2>1, Taken, CompletesOn DEF Reports
<1>5. CASE Uploads!StoreWrites
  <2> DEFINE w == Head(writes)
  <2>1. /\ writes # <<>> /\ writes' = Tail(writes) /\ file' = file \cup w.events
        /\ keys' \in Uploads!Remembered(w.events) /\ acks' \subseteq acks \cup {w.report.to}
        /\ UNCHANGED <<session, sessions, made, acked, waiting>>
    BY <1>5 DEF Uploads!StoreWrites, Uploads!Wrote
  <2>2. w \in Written /\ Completes(w, file)
    BY <2>1, Taken DEF Reports
  <2>3. keys' \subseteq file'
    BY <2>1 DEF Uploads!Remembered, Reports
  <2>4. w.report.to \in Nat /\ 1..w.report.to \subseteq file'
    <3>1. w.report \in Sending /\ Follows(w.report, file)
      BY <2>2 DEF Completes, Written
    <3>2. Uploads!Events(w.report) \subseteq file'
      BY <2>1, <2>2 DEF Completes
    <3>3. file \subseteq file'
      BY <2>1
    <3>4. 1..w.report.to \subseteq file'
      BY <3>1, <3>2, <3>3, FollowsOn
    <3> QED
      BY <3>1, <3>4 DEF Sending
  <2>5. \A i \in 1..Len(waiting') : Follows(waiting'[i], file')
    <3>1. \A i \in 1..Len(waiting) : waiting[i] \in Sending /\ Follows(waiting[i], file)
      BY DEF Reports
    <3> QED
      BY <2>1, <3>1, FollowsOn
  <2>6. acks' \subseteq Nat /\ \A n \in acks' : 1..n \subseteq file'
    BY <2>1, <2>4 DEF Reports
  <2>7. Uploads!AckedIsPersisted'
    BY <2>1 DEF Reports, Uploads!AckedIsPersisted
  <2>8. writes' \in Seq(Written) /\ \A i \in 1..Len(writes') : Completes(writes'[i], file')
    BY <1>4, <2>1
  <2> QED
    BY <2>1, <2>3, <2>5, <2>6, <2>7, <2>8 DEF Reports
<1>6. CASE Uploads!StoreFails
  <2>1. /\ writes # <<>> /\ writes' = Tail(writes)
        /\ UNCHANGED <<session, sessions, made, acked, waiting, keys, file, acks>>
    BY <1>6 DEF Uploads!StoreFails, Uploads!FailureSilent
  <2>2. writes' \in Seq(Written) /\ \A i \in 1..Len(writes') : Completes(writes'[i], file')
    BY <1>4, <2>1
  <2> QED
    BY <2>1, <2>2 DEF Reports, Uploads!AckedIsPersisted
<1>7. CASE Uploads!AckArrives
  <2>1. PICK n \in acks : acks' = acks \ {n} /\ acked' = IF n > acked THEN n ELSE acked
    BY <1>7 DEF Uploads!AckArrives
  <2>2. acked' \in Nat /\ Uploads!AckedIsPersisted'
    BY <1>7, <2>1 DEF Uploads!AckArrives, Reports, Uploads!AckedIsPersisted
  <2> QED
    BY <1>7, <2>1, <2>2 DEF Uploads!AckArrives, Reports
<1>8. CASE Uploads!SessionLost
  BY <1>8 DEF Uploads!SessionLost, Reports, Uploads!AckedIsPersisted
<1>9. CASE Uploads!SessionBegins
  <2>1. session' \in Nat /\ sessions' \in Nat
    BY <1>9 DEF Uploads!SessionBegins, Reports
  <2> QED
    BY <1>9, <2>1 DEF Uploads!SessionBegins, Reports, Uploads!AckedIsPersisted
<1> QED
  BY <1>1, <1>2, <1>3, <1>5, <1>6, <1>7, <1>8, <1>9 DEF Uploads!ReportsNext

-----------------------------------------------------------------------------
(* The socket of a phone *)

Probe == 1..MaxProbes
Answer == [end : Socket!Ends \cup {"none", "pending"}, payload : Nat, pong : Nat, timer : 0..MaxProbes]

\* How a probe may end: by the pong of its payload, or by its own timer.
OwnEnd(answer, id) ==
  /\ answer.end = "measured" => answer.pong = answer.payload
  /\ answer.end = "timed-out" => answer.timer = id

ProbesKept ==
  /\ asked \in Nat /\ sequence \in Nat
  /\ probe \in [payload : Nat, id : 0..MaxProbes] /\ (probe.id = 0 => probe = Socket!Idle)
  /\ answers \in [Probe -> Answer]
  /\ Socket!ProbesAreTheirOwn
ClosedKept ==
  /\ closed \in BOOLEAN /\ notices = IF closed THEN 1 ELSE 0
  /\ closed => ticking = FALSE /\ probe = Socket!Idle

LEMMA SocketBegins ==
  ASSUME MaxProbes \in Nat, Socket!SocketInit
  PROVE  ProbesKept /\ ClosedKept
<1>1. Socket!Unasked \in Answer /\ Socket!Unasked.end = "none"
  BY DEF Socket!Unasked, Socket!Outcome, Answer
<1>2. answers \in [Probe -> Answer] /\ \A id \in Probe : answers[id].end = "none"
  BY <1>1 DEF Socket!SocketInit, Probe
<1>3. probe = Socket!Idle /\ probe.id = 0 /\ probe \in [payload : Nat, id : 0..MaxProbes]
  <2>1. 0 \in 0..MaxProbes
    OBVIOUS
  <2> QED
    BY <2>1 DEF Socket!SocketInit, Socket!Idle
<1>4. Socket!ProbesAreTheirOwn
  BY <1>2, <1>3 DEF Socket!ProbesAreTheirOwn, Probe
<1> QED
  BY <1>2, <1>3, <1>4 DEF Socket!SocketInit, ProbesKept, ClosedKept

LEMMA IdleIsNoProbe == MaxProbes \in Nat => Socket!Idle.id = 0 /\ Socket!Idle.id \notin Probe
BY DEF Socket!Idle, Probe

\* The probe under way, if there is one, is measured by the pong of its payload, or is lost
\* with the connection.
LEMMA ProbeFinishes ==
  ASSUME MaxProbes \in Nat, ProbesKept, NEW end \in {"measured", "unavailable"}, NEW pong \in Nat,
         end = "measured" => pong = probe.payload,
         Socket!FinishProbe(end, pong), asked' \in Nat, sequence' \in Nat
  PROVE  ProbesKept' /\ probe' = Socket!Idle
<1>1. CASE probe = Socket!Idle
  BY <1>1 DEF Socket!FinishProbe, ProbesKept, Socket!ProbesAreTheirOwn
<1>2. CASE probe # Socket!Idle
  <2> DEFINE mine == probe.id
  <2>1. mine \in Probe
    BY <1>2 DEF ProbesKept, Probe
  <2>2. /\ probe' = Socket!Idle
        /\ answers' = [answers EXCEPT ![mine].end = end, ![mine].pong = pong]
    BY <1>2 DEF Socket!FinishProbe
  <2>3. /\ answers'[mine].end = end /\ answers'[mine].payload = answers[mine].payload
        /\ answers'[mine].pong = pong
        /\ \A id \in Probe : id # mine => answers'[id] = answers[id]
        /\ answers' \in [Probe -> Answer]
    <3> DEFINE r == [answers[mine] EXCEPT !.end = end, !.pong = pong]
    <3>1. answers \in [Probe -> Answer] /\ answers[mine] \in Answer
      BY <2>1 DEF ProbesKept
    <3>2. r.end = end /\ r.payload = answers[mine].payload /\ r.pong = pong
      BY <3>1 DEF Answer
    <3>3. r \in Answer
      BY <3>1 DEF Answer, Socket!Ends
    <3>4. answers' = [answers EXCEPT ![mine] = r]
      BY <2>1, <2>2, <3>1
    <3> HIDE DEF r
    <3>5. /\ answers'[mine] = r
          /\ \A id \in Probe : id # mine => answers'[id] = answers[id]
          /\ answers' \in [Probe -> Answer]
      BY <2>1, <3>1, <3>3, <3>4
    <3> QED
      BY <3>2, <3>5
  <2>4. \A id \in Probe : answers'[id].end # "pending"
    BY <2>3 DEF ProbesKept, Socket!ProbesAreTheirOwn, Probe
  <2>5. \A id \in Probe : OwnEnd(answers'[id], id)
    <3>1. answers[mine].payload = probe.payload
      BY <1>2 DEF ProbesKept, Socket!ProbesAreTheirOwn
    <3> QED
      BY <2>3, <3>1 DEF ProbesKept, Socket!ProbesAreTheirOwn, OwnEnd, Probe
  <2>6. Socket!ProbesAreTheirOwn'
    BY <2>2, <2>4, <2>5, IdleIsNoProbe DEF Socket!ProbesAreTheirOwn, OwnEnd, Probe
  <2> QED
    BY <2>2, <2>3, <2>6 DEF ProbesKept, Socket!Idle
<1> QED
  BY <1>1, <1>2

LEMMA ProbesRest ==
  ASSUME ProbesKept, UNCHANGED <<probe, timers, answers>>, asked' \in Nat, sequence' \in Nat
  PROVE  ProbesKept'
BY DEF ProbesKept, Socket!ProbesAreTheirOwn

LEMMA ClosesOnce ==
  ASSUME MaxProbes \in Nat, ProbesKept, ClosedKept, NEW why, Socket!NotifyClose(why),
         asked' \in Nat, sequence' \in Nat
  PROVE  ProbesKept' /\ ClosedKept'
<1>1. CASE closed
  BY <1>1, ProbesRest DEF Socket!NotifyClose, ClosedKept
<1>2. CASE ~closed
  <2>1. Socket!FinishProbe("unavailable", 0) /\ closed' = TRUE /\ notices' = notices + 1
        /\ ticking' = FALSE
    BY <1>2 DEF Socket!NotifyClose
  <2>2. ProbesKept' /\ probe' = Socket!Idle
    BY <2>1, ProbeFinishes
  <2> QED
    BY <1>2, <2>1, <2>2 DEF ClosedKept
<1> QED
  BY <1>1, <1>2

LEMMA SocketStep ==
  ASSUME MaxProbes \in Nat, ProbesKept, ClosedKept, Socket!SocketNext
  PROVE  ProbesKept' /\ ClosedKept'
<1>0. asked \in Nat /\ sequence \in Nat
  BY DEF ProbesKept
<1>1. ASSUME NEW why, Socket!Shutdown(why), UNCHANGED <<asked, sequence>>
      PROVE  ProbesKept' /\ ClosedKept'
  BY <1>0, <1>1, ClosesOnce DEF Socket!Shutdown
<1>2. CASE Socket!FrameIsText \/ Socket!SocketFails \/ Socket!ListenerCloses
  BY <1>1, <1>2 DEF Socket!FrameIsText, Socket!SocketFails, Socket!ListenerCloses, Socket!Bad
<1>3. CASE Socket!PeerLeaves \/ Socket!PeerFallsSilent
  BY <1>0, <1>3, ProbesRest DEF Socket!PeerLeaves, Socket!PeerFallsSilent, ClosedKept
<1>4. CASE Socket!SocketCloses
  BY <1>0, <1>4, ClosesOnce DEF Socket!SocketCloses
<1>5. CASE Socket!Tick
  <2>1. asked' \in Nat /\ sequence' \in Nat
    <3>1. UNCHANGED asked /\ (UNCHANGED sequence \/ sequence' = sequence + 1)
      BY <1>5 DEF Socket!Tick
    <3> QED
      BY <1>0, <3>1
  <2>2. CASE \E why \in Socket!Reasons : Socket!Shutdown(why)
    BY <2>1, <2>2, ClosesOnce DEF Socket!Shutdown
  <2>3. CASE UNCHANGED <<closed, notices, ticking, probe, timers, answers>>
    BY <2>1, <2>3, ProbesRest DEF ClosedKept
  <2> QED
    BY <1>5, <2>2, <2>3 DEF Socket!Tick, Socket!Reasons
<1>6. CASE Socket!ProbeLink
  <2> DEFINE mine == asked + 1
  <2>1. /\ probe = Socket!Idle /\ asked' = mine /\ asked' \in Nat /\ sequence' \in Nat /\ mine \in Probe
        /\ UNCHANGED <<closed, notices, ticking>>
    BY <1>0, <1>6 DEF Socket!ProbeLink, Probe
  <2>2. \A id \in Probe : answers[id].end # "pending"
    BY <2>1 DEF ProbesKept, Socket!ProbesAreTheirOwn, Socket!Idle, Probe
  <2>3. ASSUME closed \/ ~open
        PROVE  ProbesKept' /\ ClosedKept'
    <3>1. /\ answers' = [answers EXCEPT ![mine] = Socket!Outcome("unavailable", 0)]
          /\ UNCHANGED <<probe, timers>>
      BY <1>6, <2>1, <2>3 DEF Socket!ProbeLink
    <3>2. answers' \in [Probe -> Answer]
      BY <2>1, <3>1 DEF ProbesKept, Answer, Socket!Outcome, Socket!Ends
    <3>3. \A id \in Probe : answers'[id].end # "pending" /\ OwnEnd(answers'[id], id)
      BY <2>1, <2>2, <3>1 DEF ProbesKept, Socket!ProbesAreTheirOwn, Socket!Outcome, OwnEnd, Probe
    <3>4. Socket!ProbesAreTheirOwn'
      BY <2>1, <3>1, <3>3 DEF Socket!ProbesAreTheirOwn, Socket!Idle, OwnEnd, Probe
    <3> QED
      BY <2>1, <3>1, <3>2, <3>4 DEF ProbesKept, ClosedKept
  <2>4. ASSUME ~closed, open
        PROVE  ProbesKept' /\ ClosedKept'
    <3>1. /\ answers' = [answers EXCEPT ![mine] = Socket!Outcome("pending", sequence')]
          /\ probe' = [payload |-> sequence', id |-> mine] /\ timers' = timers \cup {mine}
      BY <1>6, <2>1, <2>4 DEF Socket!ProbeLink
    <3>2. answers' \in [Probe -> Answer]
      BY <2>1, <3>1 DEF ProbesKept, Answer, Socket!Outcome, Socket!Ends
    <3>3. /\ answers'[mine].end = "pending" /\ answers'[mine].payload = sequence'
          /\ \A id \in Probe : id # mine => answers'[id] = answers[id]
      BY <2>1, <3>1 DEF ProbesKept, Socket!Outcome
    <3>4. \A id \in Probe : (answers'[id].end = "pending" <=> id = mine) /\ OwnEnd(answers'[id], id)
      BY <2>2, <3>3 DEF ProbesKept, Socket!ProbesAreTheirOwn, OwnEnd, Probe
    <3>5. Socket!ProbesAreTheirOwn'
      BY <2>1, <3>1, <3>3, <3>4 DEF Socket!ProbesAreTheirOwn, OwnEnd, Probe
    <3>6. probe' \in [payload : Nat, id : 0..MaxProbes] /\ probe'.id # 0
      BY <2>1, <3>1 DEF Probe
    <3> QED
      BY <2>1, <2>4, <3>2, <3>5, <3>6 DEF ProbesKept, ClosedKept
  <2> QED
    BY <2>3, <2>4 DEF ClosedKept
<1>7. ASSUME NEW mine \in Probe, Socket!ProbeTimesOut(mine)
      PROVE  ProbesKept' /\ ClosedKept'
  <2>1. /\ timers' = timers \ {mine}
        /\ UNCHANGED <<asked, sequence, closed, notices, ticking>>
    BY <1>7 DEF Socket!ProbeTimesOut
  <2>2. CASE probe.id = mine
    <3>1. /\ probe' = Socket!Idle
          /\ answers' = [answers EXCEPT ![mine].end = "timed-out", ![mine].timer = mine]
      BY <1>7, <2>2 DEF Socket!ProbeTimesOut
    <3>2. /\ answers' \in [Probe -> Answer]
          /\ answers'[mine].end = "timed-out" /\ answers'[mine].timer = mine
          /\ \A id \in Probe : id # mine => answers'[id] = answers[id]
      <4> DEFINE r == [answers[mine] EXCEPT !.end = "timed-out", !.timer = mine]
      <4>1. answers \in [Probe -> Answer] /\ answers[mine] \in Answer /\ mine \in 0..MaxProbes
        BY DEF ProbesKept, Probe
      <4>2. r.end = "timed-out" /\ r.timer = mine /\ r \in Answer
        BY <4>1 DEF Answer, Socket!Ends
      <4>3. answers' = [answers EXCEPT ![mine] = r]
        BY <3>1, <4>1
      <4> HIDE DEF r
      <4> QED
        BY <4>1, <4>2, <4>3
    <3>3. \A id \in Probe : answers'[id].end # "pending" /\ OwnEnd(answers'[id], id)
      BY <2>2, <3>2 DEF ProbesKept, Socket!ProbesAreTheirOwn, OwnEnd, Probe
    <3>4. Socket!ProbesAreTheirOwn'
      BY <3>1, <3>3, IdleIsNoProbe DEF Socket!ProbesAreTheirOwn, OwnEnd, Probe
    <3> QED
      BY <2>1, <3>1, <3>2, <3>4 DEF ProbesKept, ClosedKept, Socket!Idle
  <2>3. CASE probe.id # mine
    <3>1. UNCHANGED <<probe, answers>>
      BY <1>7, <2>3 DEF Socket!ProbeTimesOut
    <3>2. Socket!ProbesAreTheirOwn'
      BY <2>1, <2>3, <3>1 DEF ProbesKept, Socket!ProbesAreTheirOwn
    <3> QED
      BY <2>1, <3>1, <3>2 DEF ProbesKept, ClosedKept
  <2> QED
    BY <2>2, <2>3
<1>8. CASE Socket!PongArrives
  <2>1. UNCHANGED <<asked, sequence, closed, notices, ticking>>
    BY <1>8 DEF Socket!PongArrives
  <2>2. CASE ~closed /\ Socket!FinishProbe("measured", probe.payload)
    <3>1. probe.payload \in Nat
      BY DEF ProbesKept
    <3> QED
      BY <1>0, <2>1, <2>2, <3>1, ProbeFinishes DEF ClosedKept
  <2>3. CASE UNCHANGED <<probe, timers, answers>>
    BY <1>0, <2>1, <2>3, ProbesRest DEF ClosedKept
  <2> QED
    BY <1>8, <2>2, <2>3 DEF Socket!PongArrives, Socket!Pong
<1> QED
  BY <1>2, <1>3, <1>4, <1>5, <1>6, <1>7, <1>8 DEF Socket!SocketNext, Probe

-----------------------------------------------------------------------------
(* The players *)

\* The player of the flight page has no retry beside it.
Safe(f) ==
  /\ DOMAIN f = {"player", "timer", "streak", "identity", "selected"}
  /\ f.timer # None => f.player = None
Shown ==
  DOMAIN screen = {"workspace", "painted", "phone", "ready", "unavailable", "slots"}
OnTheirPage ==
  /\ DOMAIN monitors = {1}
  /\ screen.painted = "flight" => \A s \in {1} : monitors[s] = Players!NoMonitors[s]
PlayersKept == Safe(flight) /\ Shown /\ OnTheirPage

LEMMA PlayersBegin == Players!PlaybackInit => PlayersKept
BY DEF Players!PlaybackInit, PlayersKept, Safe, Shown, OnTheirPage, Players!NoMonitors

LEMMA PlayersTell == PlayersKept => Players!RetryHasNoRival /\ Players!MonitorsStayOnTheirPage
BY DEF PlayersKept, Safe, OnTheirPage, Players!NoMonitors, Players!RetryHasNoRival,
       Players!MonitorsStayOnTheirPage

\* Whatever is detached, attached or recovered leaves no retry beside a player.
LEMMA DetachedIsSafe ==
  ASSUME NEW f, Safe(f)
  PROVE  Safe(Players!Detached(f)) /\ Players!Detached(f).timer = None
         /\ Players!Detached(f).player = None
BY DEF Safe, Players!Detached

LEMMA AttachedIsSafe ==
  ASSUME NEW f, Safe(f), NEW url, NEW started
  PROVE  Safe(Players!Attached(f, url, started)) /\ Players!Attached(f, url, started).timer = None
BY DetachedIsSafe DEF Safe, Players!Attached

LEMMA RecoveredIsSafe ==
  ASSUME NEW f, Safe(f), NEW started
  PROVE  Safe(Players!Recovered(f, started))
<1> DEFINE struck == Players!Struck(f)
           later == IF screen.workspace = "monitor" THEN None ELSE f.player
<1>1. Safe(struck)
  BY DEF Safe, Players!Struck
<1> HIDE DEF struck
<1>2. Safe(Players!Attached(struck, f.player, TRUE))
  BY <1>1, AttachedIsSafe
<1>3. Safe([Players!Detached(struck) EXCEPT !.timer = later])
  BY <1>1, DetachedIsSafe DEF Safe
<1> QED
  BY <1>2, <1>3 DEF Players!Recovered, struck

LEMMA KeepsSafe ==
  ASSUME NEW f, Safe(f), NEW x
  PROVE  /\ Safe([f EXCEPT !.identity = x]) /\ Safe([f EXCEPT !.streak = x])
         /\ Safe([f EXCEPT !.selected = x, !.identity = x])
BY DEF Safe

\* A step of the flight page's player alone.
LEMMA FlightStep ==
  ASSUME PlayersKept,
         \/ Players!PictureStuck \/ Players!PlayerError \/ Players!PictureMoves \/ Players!ReattachTimer
         \/ Players!StreamStopPressed \/ Players!PlaybackAnswered \/ Players!SelectAnswered
  PROVE  PlayersKept'
<1>1. UNCHANGED <<screen, monitors>>
  BY DEF Players!PictureStuck, Players!PlayerError, Players!PictureMoves, Players!ReattachTimer,
         Players!StreamStopPressed, Players!PlaybackAnswered, Players!SelectAnswered
<1>2. Safe(flight)
  BY DEF PlayersKept
<1>3. CASE Players!PictureStuck \/ Players!PlayerError
  BY <1>2, <1>3, RecoveredIsSafe, <1>1 DEF Players!PictureStuck, Players!PlayerError, PlayersKept, Shown, OnTheirPage
<1>4. CASE Players!PictureMoves
  BY <1>1, <1>2, <1>4, KeepsSafe DEF Players!PictureMoves, PlayersKept, Shown, OnTheirPage
<1>5. CASE Players!ReattachTimer
  BY <1>1, <1>2, <1>5, AttachedIsSafe DEF Players!ReattachTimer, PlayersKept, Shown, OnTheirPage
<1>6. CASE Players!StreamStopPressed
  BY <1>1, <1>2, <1>6, DetachedIsSafe DEF Players!StreamStopPressed, PlayersKept, Shown, OnTheirPage
<1>7. CASE Players!PlaybackAnswered
  <2>1. ASSUME NEW f, Safe(f), flight' = f \/ flight' = [f EXCEPT !.identity = asking.phone]
        PROVE  PlayersKept'
    <3>1. Safe(flight')
      BY <2>1 DEF Safe
    <3> QED
      BY <1>1, <3>1 DEF PlayersKept, Shown, OnTheirPage
  <2>2. CASE screen.workspace = "monitor"
    BY <1>2, <1>7, <2>1, <2>2 DEF Players!PlaybackAnswered
  <2>3. CASE screen.workspace # "monitor"
    <3>1. PICK url, started \in BOOLEAN :
            LET f == IF ~url \/ flight.player = asking.phone THEN flight
                     ELSE Players!Attached(flight, asking.phone, started)
            IN flight' = IF url /\ f.player = asking.phone /\ f.selected = asking.phone
                         THEN [f EXCEPT !.identity = asking.phone] ELSE f
      BY <1>7, <2>3 DEF Players!PlaybackAnswered
    <3> DEFINE f == IF ~url \/ flight.player = asking.phone THEN flight
                    ELSE Players!Attached(flight, asking.phone, started)
    <3>2. Safe(f)
      BY <1>2, AttachedIsSafe
    <3>3. flight' = f \/ flight' = [f EXCEPT !.identity = asking.phone]
      BY <3>1
    <3> QED
      BY <2>1, <3>2, <3>3
  <2> QED
    BY <2>2, <2>3
<1>8. CASE Players!SelectAnswered
  <2>1. Safe(flight')
    BY <1>2, <1>8 DEF Players!SelectAnswered, Safe
  <2> QED
    BY <1>1, <2>1 DEF PlayersKept, Shown, OnTheirPage
<1> QED
  BY <1>3, <1>4, <1>5, <1>6, <1>7, <1>8

\* A paint of the flight page releases the monitors, one of the monitor page the flight player.
LEMMA PaintStep ==
  ASSUME PlayersKept, Players!PaintFlight \/ Players!PaintMonitor
  PROVE  PlayersKept'
<1> DEFINE f == Players!AfterRenderFlight
<1>1. Safe(flight) /\ Shown
  BY DEF PlayersKept
<1>2. Safe(f) /\ Safe(Players!Detached(f)) /\ Safe([f EXCEPT !.identity = None])
  BY <1>1, DetachedIsSafe, KeepsSafe DEF Players!AfterRenderFlight
<1>3. CASE Players!PaintFlight
  <2>1. Safe(flight')
    BY <1>2, <1>3 DEF Players!PaintFlight, Players!EnsurePlayback
  <2>2. Shown' /\ OnTheirPage'
    BY <1>1, <1>3 DEF Players!PaintFlight, Players!ReleasedMonitors, Players!NoMonitors, Shown, OnTheirPage
  <2> QED
    BY <2>1, <2>2 DEF PlayersKept
<1>4. CASE Players!PaintMonitor
  <2>1. Safe(flight')
    BY <1>2, <1>4 DEF Players!PaintMonitor
  <2>2. Shown' /\ screen'.painted = "monitor"
    BY <1>1, <1>4 DEF Players!PaintMonitor, Shown
  <2>3. DOMAIN monitors' = {1}
    BY <1>4 DEF Players!PaintMonitor
  <2> QED
    BY <2>1, <2>2, <2>3 DEF PlayersKept, OnTheirPage
<1> QED
  BY <1>3, <1>4

LEMMA PlayersStep == ASSUME PlayersKept, Players!PlaybackNext PROVE PlayersKept'
<1>1. CASE \/ Players!ProjectionChanges \/ \E page_ \in {"flight", "monitor"} : Players!ChooseWorkspace(page_)
  <2>1. UNCHANGED <<flight, monitors>> /\ screen'.painted = screen.painted /\ Shown'
    BY <1>1 DEF Players!ProjectionChanges, Players!ChooseWorkspace, PlayersKept, Shown
  <2> QED
    BY <2>1 DEF PlayersKept, OnTheirPage
<1>2. ASSUME NEW s \in {1},
             Players!MonitorAnswered(s) \/ Players!MonitorFails(s) \/ Players!CooledDown(s)
      PROVE  PlayersKept'
  <2>1. UNCHANGED <<screen, flight>> /\ DOMAIN monitors' = {1}
    BY <1>2 DEF Players!MonitorAnswered, Players!MonitorFails, Players!CooledDown, PlayersKept, OnTheirPage
  <2>2. screen.painted = "flight" => monitors' = monitors
    <3>1. SUFFICES ASSUME screen.painted = "flight" PROVE monitors' = monitors
      OBVIOUS
    <3>2. monitors[s].asked = None /\ monitors[s].player = None
      BY <3>1 DEF PlayersKept, OnTheirPage, Players!NoMonitors
    <3> QED
      BY <1>2, <3>2 DEF Players!MonitorAnswered, Players!MonitorFails, Players!CooledDown
  <2> QED
    BY <2>1, <2>2 DEF PlayersKept, OnTheirPage, Shown
<1> QED
  BY <1>1, <1>2, FlightStep, PaintStep DEF Players!PlaybackNext

-----------------------------------------------------------------------------
(* The run of a route *)

\* Where a run stands is what its steps say.
StepsFollow ==
  /\ DOMAIN plan = {"route", "rail", "button", "phone", "aircraft", "execute"}
  /\ runAt \in {"none", "release", "assign", "stage", "upload", "start"}
  /\ Run!Running <=> runAt # "none"
  /\ runAt \in {"release", "assign", "stage"} =>
       plan.phone = "running" /\ plan.aircraft = "pending" /\ plan.execute = "pending"
  /\ runAt = "upload" => /\ plan.phone = "done" /\ plan.aircraft = "running" /\ plan.execute = "pending"
                         /\ "stage" \in accepted
  /\ runAt = "start" => /\ plan.phone = "done" /\ plan.aircraft = "done" /\ plan.execute = "running"
                        /\ {"stage", "upload"} \subseteq accepted
  /\ runAt # "none" => "start" \notin accepted
  /\ plan.phone = "done" => "stage" \in accepted
  /\ plan.aircraft = "done" => "upload" \in accepted
  /\ plan.execute = "done" => {"stage", "upload", "start"} \subseteq accepted
  /\ Run!Failed => plan.execute # "done" /\ "start" \notin accepted

LEMMA StepsTell == StepsFollow => Run!StepsTellTheRun
BY DEF StepsFollow, Run!StepsTellTheRun

LEMMA RunBegins == Run!TilesInit => StepsFollow
BY DEF Run!TilesInit, StepsFollow, Run!Running, Run!Failed

\* The steps and the run are all the page tells of it.
LEMMA StepsRest ==
  ASSUME StepsFollow, UNCHANGED <<runAt, accepted>>,
         plan' = plan \/ (\E x : plan' = [plan EXCEPT !.rail = x])
           \/ (\E x, y : plan' = [plan EXCEPT !.rail = x, !.route = y])
  PROVE  StepsFollow'
<1>1. /\ DOMAIN plan' = DOMAIN plan
      /\ \A field \in {"button", "phone", "aircraft", "execute"} : plan'[field] = plan[field]
  BY DEF StepsFollow
<1> QED
  BY <1>1 DEF StepsFollow, Run!Running, Run!Failed

LEMMA CallsAre ==
  /\ Run!Calls[1] = "release" /\ Run!Calls[2] = "assign" /\ Run!Calls[3] = "stage"
  /\ Run!Calls[4] = "upload" /\ Run!Calls[5] = "start"
BY DEF Run!Calls

LEMMA RunStep ==
  ASSUME StepsFollow, Run!RunGoesOn \/ Run!RunFails
  PROVE  StepsFollow'
<1>1. PICK i \in 1..5 :
        /\ runAt = Run!Calls[i]
        /\ \/ /\ accepted' = accepted \cup {Run!Calls[i]}
              /\ runAt' = IF i = 5 THEN "none" ELSE Run!Calls[i + 1]
              /\ plan' = CASE i <= 2 -> plan
                           [] i = 3 -> [plan EXCEPT !.phone = "done", !.aircraft = "running"]
                           [] i = 4 -> [plan EXCEPT !.aircraft = "done", !.execute = "running"]
                           [] i = 5 -> [plan EXCEPT !.execute = "done", !.button = "choose"]
           \/ /\ plan' = Run!FailAt(Run!StepAt(i)) /\ runAt' = "none" /\ UNCHANGED accepted
  BY DEF Run!RunGoesOn, Run!RunFails, Run!CallAt
<1>2. CASE accepted' = accepted \cup {Run!Calls[i]} /\ runAt' # "none"
  <2>1. CASE i = 1 \/ i = 2
    <3>1. plan' = plan /\ runAt' \in {"assign", "stage"} /\ runAt \in {"release", "assign"}
          /\ accepted' = accepted \cup {runAt}
      BY <1>1, <1>2, <2>1, CallsAre
    <3> QED
      BY <3>1 DEF StepsFollow, Run!Running, Run!Failed
  <2>2. CASE i = 3
    <3>1. plan' = [plan EXCEPT !.phone = "done", !.aircraft = "running"] /\ runAt' = "upload"
          /\ runAt = "stage" /\ accepted' = accepted \cup {"stage"}
      BY <1>1, <1>2, <2>2, CallsAre
    <3> QED
      BY <3>1 DEF StepsFollow, Run!Running, Run!Failed
  <2>3. CASE i = 4
    <3>1. plan' = [plan EXCEPT !.aircraft = "done", !.execute = "running"] /\ runAt' = "start"
          /\ runAt = "upload" /\ accepted' = accepted \cup {"upload"}
      BY <1>1, <1>2, <2>3, CallsAre
    <3> QED
      BY <3>1 DEF StepsFollow, Run!Running, Run!Failed
  <2> QED
    BY <1>1, <1>2, <2>1, <2>2, <2>3
<1>3. CASE accepted' = accepted \cup {Run!Calls[i]} /\ i = 5 /\ runAt' = "none"
           /\ plan' = [plan EXCEPT !.execute = "done", !.button = "choose"]
  <2>1. runAt = "start" /\ accepted' = accepted \cup {"start"}
    BY <1>1, <1>3, CallsAre
  <2> QED
    BY <1>3, <2>1 DEF StepsFollow, Run!Running, Run!Failed
<1>4. CASE plan' = Run!FailAt(Run!StepAt(i)) /\ runAt' = "none" /\ UNCHANGED accepted
  <2>1. \/ runAt \in {"release", "assign", "stage"} /\ Run!StepAt(i) = "phone"
        \/ runAt = "upload" /\ Run!StepAt(i) = "aircraft"
        \/ runAt = "start" /\ Run!StepAt(i) = "execute"
    <3>1. CASE i \in 1..3
      <4>1. runAt \in {"release", "assign", "stage"}
        BY <1>1, <3>1, CallsAre
      <4> QED
        BY <3>1, <4>1 DEF Run!StepAt
    <3>2. CASE i = 4
      BY <1>1, <3>2, CallsAre DEF Run!StepAt
    <3>3. CASE i = 5
      BY <1>1, <3>3, CallsAre DEF Run!StepAt
    <3> QED
      BY <3>1, <3>2, <3>3
  <2> QED
    BY <1>4, <2>1 DEF StepsFollow, Run!Running, Run!Failed, Run!FailAt
<1> QED
  BY <1>1, <1>2, <1>3, <1>4, CallsAre

LEMMA StepsStep == ASSUME StepsFollow, Run!TilesNext PROVE StepsFollow'
<1>1. CASE Run!PaintRoute
  BY <1>1, StepsRest DEF Run!PaintRoute
<1>2. CASE Run!OpenPick \/ Run!LeavePick
  BY <1>2, StepsRest DEF Run!OpenPick, Run!LeavePick
<1>3. CASE Run!Execute
  <2>1. plan' = [plan EXCEPT !.button = "busy", !.rail = "status", !.phone = "running",
                             !.aircraft = "pending", !.execute = "pending"]
        /\ runAt' = "release" /\ accepted' = {}
    BY <1>3 DEF Run!Execute
  <2> QED
    BY <2>1 DEF StepsFollow, Run!Running, Run!Failed
<1>4. CASE Run!PickRoute
  <2>1. /\ UNCHANGED <<runAt, accepted>> /\ plan.button # "busy"
        /\ plan' = [plan EXCEPT !.route = ~plan.route, !.button = IF plan.route THEN "choose" ELSE "execute"]
    BY <1>4 DEF Run!PickRoute, Run!Running
  <2>2. /\ DOMAIN plan' = DOMAIN plan /\ plan'.button # "busy"
        /\ \A field \in {"phone", "aircraft", "execute"} : plan'[field] = plan[field]
    BY <2>1 DEF StepsFollow
  <2> QED
    BY <2>1, <2>2 DEF StepsFollow, Run!Running, Run!Failed
<1>5. CASE Run!RunGoesOn \/ Run!RunFails
  BY <1>5, RunStep
<1>6. CASE (\E kind \in Run!Kinds : Run!Click(kind) \/ Run!HandlerSteps(kind))
             \/ Run!NothingToHold \/ Run!OthersAsk \/ Run!ControlChanges
  <2>1. UNCHANGED <<plan, runAt, accepted>>
    BY <1>6 DEF Run!Click, Run!HandlerSteps, Run!Invoke, Run!CallEnds, Run!Confirm, Run!Finish,
                Run!NothingToHold, Run!OthersAsk, Run!ControlChanges
  <2> QED
    BY <2>1, StepsRest
<1> QED
  BY <1>1, <1>2, <1>3, <1>4, <1>5, <1>6 DEF Run!TilesNext

-----------------------------------------------------------------------------
(* The buttons beside the run, and those of a tile that runs no route: the *)
(* same argument for each of the two instances.                            *)

RunRowsFollow ==
  /\ DOMAIN busy = Run!Kinds /\ DOMAIN sent = Run!Kinds /\ DOMAIN rows = Run!RowNames
  /\ \A kind \in Run!Kinds : busy[kind] = "good" => sent[kind] = TRUE
  /\ \A name \in Run!RowNames : rows[name].title \in Run!Kinds \cup {Run!Nothing}
  /\ \A name \in Run!RowNames : rows[name].title # Run!Nothing => name = Run!RowOf(rows[name].title)
  /\ \A name \in Run!RowNames : rows[name].title # Run!Nothing =>
       /\ rows[name].state = "done" => sent[rows[name].title] = TRUE \/ busy[rows[name].title] # "free"
       /\ rows[name].state = "running" => busy[rows[name].title] # "free"

LEMMA RunRowsBegin == Run!TilesInit => RunRowsFollow
BY DEF Run!TilesInit, RunRowsFollow

LEMMA RunRowsTell == RunRowsFollow => Run!RowsTellTheTruth
BY DEF RunRowsFollow, Run!RowsTellTheTruth

LEMMA RunRowsRest ==
  ASSUME RunRowsFollow, UNCHANGED <<busy, sent, rows>>
  PROVE  RunRowsFollow'
BY DEF RunRowsFollow

\* A handler that goes on and is not done yet, or done with its command sent.
LEMMA RunRowsGoesOn ==
  ASSUME RunRowsFollow, NEW kind \in Run!Kinds, NEW step, step # "free", Run!Handler(kind, step),
         busy[kind] # "free", UNCHANGED rows,
         UNCHANGED sent \/ sent' = [sent EXCEPT ![kind] = TRUE],
         step = "good" => sent' = [sent EXCEPT ![kind] = TRUE]
  PROVE  RunRowsFollow'
<1>1. /\ DOMAIN busy' = Run!Kinds /\ busy'[kind] = step
      /\ \A k \in Run!Kinds : k # kind => busy'[k] = busy[k]
  BY DEF Run!Handler, RunRowsFollow
<1>2. /\ DOMAIN sent' = Run!Kinds
      /\ \A k \in Run!Kinds : sent[k] = TRUE => sent'[k] = TRUE
      /\ step = "good" => sent'[kind] = TRUE
  BY DEF RunRowsFollow
<1>3. \A k \in Run!Kinds : busy[k] # "free" => busy'[k] # "free"
  BY <1>1
<1>4. \A k \in Run!Kinds : busy'[k] = "good" => sent'[k] = TRUE
  BY <1>1, <1>2 DEF RunRowsFollow
<1> QED
  BY <1>1, <1>2, <1>3, <1>4 DEF RunRowsFollow

LEMMA RunRowsStep == ASSUME RunRowsFollow, Run!TilesNext PROVE RunRowsFollow'
<1>1. CASE \/ Run!PaintRoute \/ Run!OpenPick \/ Run!LeavePick \/ Run!Execute \/ Run!PickRoute
           \/ Run!RunGoesOn \/ Run!RunFails \/ Run!OthersAsk \/ Run!ControlChanges
  <2>1. UNCHANGED <<busy, sent, rows>>
    BY <1>1 DEF Run!PaintRoute, Run!OpenPick, Run!LeavePick, Run!Execute, Run!PickRoute,
                Run!RunGoesOn, Run!RunFails, Run!OthersAsk, Run!ControlChanges
  <2> QED
    BY <2>1, RunRowsRest
<1>2. ASSUME NEW kind \in Run!Kinds, Run!Click(kind)
      PROVE  RunRowsFollow'
  <2> DEFINE name == Run!RowOf(kind)
  <2>1. /\ busy' = [busy EXCEPT ![kind] = "painting"] /\ sent' = [sent EXCEPT ![kind] = FALSE]
        /\ rows' = [rows EXCEPT ![name] = [title |-> kind, state |-> "running"]]
        /\ busy[kind] = "free"
    BY <1>2 DEF Run!Click, Run!Handler, Run!Row
  <2>2. name \in Run!RowNames
    BY DEF Run!RowNames
  <2>3. /\ DOMAIN busy' = Run!Kinds /\ busy'[kind] = "painting"
        /\ \A k \in Run!Kinds : k # kind => busy'[k] = busy[k] /\ sent'[k] = sent[k]
        /\ DOMAIN sent' = Run!Kinds
    BY <2>1 DEF RunRowsFollow
  <2>4. /\ DOMAIN rows' = Run!RowNames /\ rows'[name].title = kind /\ rows'[name].state = "running"
        /\ \A n \in Run!RowNames : n # name => rows'[n] = rows[n]
    BY <2>1, <2>2 DEF RunRowsFollow
  <2>5. \A n \in Run!RowNames : n # name => rows[n].title # kind \/ rows[n].title = Run!Nothing
    BY DEF RunRowsFollow
  <2>6. \A k \in Run!Kinds : busy'[k] = "good" => sent'[k] = TRUE
    BY <2>3 DEF RunRowsFollow
  <2> HIDE DEF name
  <2>7. \A n \in Run!RowNames : /\ rows'[n].title \in Run!Kinds \cup {Run!Nothing}
                              /\ rows'[n].title # Run!Nothing => n = Run!RowOf(rows'[n].title)
    BY <2>4 DEF RunRowsFollow, name
  <2>8. ASSUME NEW n \in Run!RowNames, rows'[n].title # Run!Nothing
        PROVE  /\ rows'[n].state = "done" => sent'[rows'[n].title] = TRUE \/ busy'[rows'[n].title] # "free"
               /\ rows'[n].state = "running" => busy'[rows'[n].title] # "free"
    <3>1. CASE n = name
      BY <2>3, <2>4, <3>1
    <3>2. CASE n # name
      <4>1. rows'[n] = rows[n] /\ rows[n].title \in Run!Kinds /\ rows[n].title # kind
        BY <2>4, <2>5, <2>8, <3>2 DEF RunRowsFollow
      <4> QED
        BY <2>3, <2>8, <4>1 DEF RunRowsFollow
    <3> QED
      BY <3>1, <3>2
  <2> QED
    BY <2>3, <2>4, <2>6, <2>7, <2>8 DEF RunRowsFollow
<1>3. CASE Run!NothingToHold
  <2>1. /\ "hold" \in Run!Kinds /\ busy["hold"] = "free" /\ UNCHANGED busy
        /\ sent' = [sent EXCEPT !["hold"] = FALSE]
        /\ \E state : rows' = [rows EXCEPT !["hold"] = [title |-> Run!Nothing, state |-> state]]
    BY <1>3 DEF Run!NothingToHold, Run!Row
  <2>2. Run!RowOf("hold") = "hold" /\ "hold" \in Run!RowNames
    BY <2>1 DEF Run!RowOf, Run!RowNames
  <2>3. /\ DOMAIN sent' = Run!Kinds /\ DOMAIN rows' = Run!RowNames
        /\ \A k \in Run!Kinds : k # "hold" => sent'[k] = sent[k]
        /\ rows'["hold"].title = Run!Nothing
        /\ \A n \in Run!RowNames : n # "hold" => rows'[n] = rows[n]
    BY <2>1, <2>2 DEF RunRowsFollow
  <2>4. \A n \in Run!RowNames : n # "hold" => rows[n].title # "hold" \/ rows[n].title = Run!Nothing
    BY <2>2 DEF RunRowsFollow
  <2>5. ASSUME NEW n \in Run!RowNames, rows'[n].title # Run!Nothing
        PROVE  /\ n = Run!RowOf(rows'[n].title)
               /\ rows'[n].state = "done" => sent'[rows'[n].title] = TRUE \/ busy'[rows'[n].title] # "free"
               /\ rows'[n].state = "running" => busy'[rows'[n].title] # "free"
    <3>1. rows'[n] = rows[n] /\ rows[n].title \in Run!Kinds /\ sent'[rows[n].title] = sent[rows[n].title]
      BY <2>3, <2>4, <2>5 DEF RunRowsFollow
    <3> QED
      BY <2>1, <2>5, <3>1 DEF RunRowsFollow
  <2>6. \A k \in Run!Kinds : busy'[k] = "good" => sent'[k] = TRUE
    BY <2>1, <2>3 DEF RunRowsFollow
  <2>7. \A n \in Run!RowNames : rows'[n].title \in Run!Kinds \cup {Run!Nothing}
    BY <2>3 DEF RunRowsFollow
  <2> QED
    BY <2>1, <2>3, <2>5, <2>6, <2>7 DEF RunRowsFollow
<1>4. ASSUME NEW kind \in Run!Kinds, Run!Invoke(kind)
      PROVE  RunRowsFollow'
  <2>1. /\ busy[kind] # "free" /\ UNCHANGED <<rows, sent>>
        /\ \E step \in {"calling", "requested", "bad"} : Run!Handler(kind, step)
    BY <1>4 DEF Run!Invoke
  <2> QED
    BY <2>1, RunRowsGoesOn
<1>5. ASSUME NEW kind \in Run!Kinds, Run!CallEnds(kind) \/ Run!Confirm(kind)
      PROVE  RunRowsFollow'
  <2>1. /\ busy[kind] # "free" /\ UNCHANGED rows
        /\ \/ Run!Handler(kind, "good") /\ sent' = [sent EXCEPT ![kind] = TRUE]
           \/ Run!Handler(kind, "bad") /\ UNCHANGED sent
    BY <1>5 DEF Run!CallEnds, Run!Confirm
  <2> QED
    BY <2>1, RunRowsGoesOn
<1>6. ASSUME NEW kind \in Run!Kinds, Run!Finish(kind)
      PROVE  RunRowsFollow'
  <2> DEFINE name == Run!RowOf(kind)
             state == IF busy[kind] = "good" THEN "done" ELSE "failed"
  <2>1. /\ busy' = [busy EXCEPT ![kind] = "free"] /\ UNCHANGED sent
        /\ rows' = [rows EXCEPT ![name] = [title |-> kind, state |-> state]]
    BY <1>6 DEF Run!Finish, Run!Handler, Run!Row
  <2>2. name \in Run!RowNames
    BY DEF Run!RowNames
  <2>3. /\ DOMAIN busy' = Run!Kinds /\ busy'[kind] = "free"
        /\ \A k \in Run!Kinds : k # kind => busy'[k] = busy[k]
    BY <2>1 DEF RunRowsFollow
  <2>4. /\ DOMAIN rows' = Run!RowNames /\ rows'[name].title = kind /\ rows'[name].state = state
        /\ \A n \in Run!RowNames : n # name => rows'[n] = rows[n]
    BY <2>1, <2>2 DEF RunRowsFollow
  <2>5. \A n \in Run!RowNames : n # name => rows[n].title # kind \/ rows[n].title = Run!Nothing
    BY DEF RunRowsFollow
  <2>6. state = "done" => sent'[kind] = TRUE
    BY <2>1 DEF RunRowsFollow
  <2>7. state # "running"
    OBVIOUS
  <2> HIDE DEF name, state
  <2>8. \A n \in Run!RowNames : /\ rows'[n].title \in Run!Kinds \cup {Run!Nothing}
                              /\ rows'[n].title # Run!Nothing => n = Run!RowOf(rows'[n].title)
    BY <2>4 DEF RunRowsFollow, name
  <2>9. ASSUME NEW n \in Run!RowNames, rows'[n].title # Run!Nothing
        PROVE  /\ rows'[n].state = "done" => sent'[rows'[n].title] = TRUE \/ busy'[rows'[n].title] # "free"
               /\ rows'[n].state = "running" => busy'[rows'[n].title] # "free"
    <3>1. CASE n = name
      BY <2>4, <2>6, <2>7, <3>1
    <3>2. CASE n # name
      <4>1. rows'[n] = rows[n] /\ rows[n].title \in Run!Kinds /\ rows[n].title # kind
        BY <2>4, <2>5, <2>9, <3>2 DEF RunRowsFollow
      <4> QED
        BY <2>1, <2>3, <2>9, <4>1 DEF RunRowsFollow
    <3> QED
      BY <3>1, <3>2
  <2>10. \A k \in Run!Kinds : busy'[k] = "good" => sent'[k] = TRUE
    BY <2>1, <2>3 DEF RunRowsFollow
  <2> QED
    BY <2>1, <2>3, <2>4, <2>8, <2>9, <2>10 DEF RunRowsFollow
<1> QED
  BY <1>1, <1>2, <1>3, <1>4, <1>5, <1>6 DEF Run!TilesNext, Run!HandlerSteps

ButtonRowsFollow ==
  /\ DOMAIN busy = Buttons!Kinds /\ DOMAIN sent = Buttons!Kinds /\ DOMAIN rows = Buttons!RowNames
  /\ \A kind \in Buttons!Kinds : busy[kind] = "good" => sent[kind] = TRUE
  /\ \A name \in Buttons!RowNames : rows[name].title \in Buttons!Kinds \cup {Buttons!Nothing}
  /\ \A name \in Buttons!RowNames : rows[name].title # Buttons!Nothing => name = Buttons!RowOf(rows[name].title)
  /\ \A name \in Buttons!RowNames : rows[name].title # Buttons!Nothing =>
       /\ rows[name].state = "done" => sent[rows[name].title] = TRUE \/ busy[rows[name].title] # "free"
       /\ rows[name].state = "running" => busy[rows[name].title] # "free"

LEMMA ButtonRowsBegin == Buttons!TilesInit => ButtonRowsFollow
BY DEF Buttons!TilesInit, ButtonRowsFollow

LEMMA ButtonRowsTell == ButtonRowsFollow => Buttons!RowsTellTheTruth
BY DEF ButtonRowsFollow, Buttons!RowsTellTheTruth

LEMMA ButtonRowsRest ==
  ASSUME ButtonRowsFollow, UNCHANGED <<busy, sent, rows>>
  PROVE  ButtonRowsFollow'
BY DEF ButtonRowsFollow

\* A handler that goes on and is not done yet, or done with its command sent.
LEMMA ButtonRowsGoesOn ==
  ASSUME ButtonRowsFollow, NEW kind \in Buttons!Kinds, NEW step, step # "free", Buttons!Handler(kind, step),
         busy[kind] # "free", UNCHANGED rows,
         UNCHANGED sent \/ sent' = [sent EXCEPT ![kind] = TRUE],
         step = "good" => sent' = [sent EXCEPT ![kind] = TRUE]
  PROVE  ButtonRowsFollow'
<1>1. /\ DOMAIN busy' = Buttons!Kinds /\ busy'[kind] = step
      /\ \A k \in Buttons!Kinds : k # kind => busy'[k] = busy[k]
  BY DEF Buttons!Handler, ButtonRowsFollow
<1>2. /\ DOMAIN sent' = Buttons!Kinds
      /\ \A k \in Buttons!Kinds : sent[k] = TRUE => sent'[k] = TRUE
      /\ step = "good" => sent'[kind] = TRUE
  BY DEF ButtonRowsFollow
<1>3. \A k \in Buttons!Kinds : busy[k] # "free" => busy'[k] # "free"
  BY <1>1
<1>4. \A k \in Buttons!Kinds : busy'[k] = "good" => sent'[k] = TRUE
  BY <1>1, <1>2 DEF ButtonRowsFollow
<1> QED
  BY <1>1, <1>2, <1>3, <1>4 DEF ButtonRowsFollow

LEMMA ButtonRowsStep == ASSUME ButtonRowsFollow, Buttons!TilesNext PROVE ButtonRowsFollow'
<1>1. CASE \/ Buttons!PaintRoute \/ Buttons!OpenPick \/ Buttons!LeavePick \/ Buttons!Execute \/ Buttons!PickRoute
           \/ Buttons!RunGoesOn \/ Buttons!RunFails \/ Buttons!OthersAsk \/ Buttons!ControlChanges
  <2>1. UNCHANGED <<busy, sent, rows>>
    BY <1>1 DEF Buttons!PaintRoute, Buttons!OpenPick, Buttons!LeavePick, Buttons!Execute, Buttons!PickRoute,
                Buttons!RunGoesOn, Buttons!RunFails, Buttons!OthersAsk, Buttons!ControlChanges
  <2> QED
    BY <2>1, ButtonRowsRest
<1>2. ASSUME NEW kind \in Buttons!Kinds, Buttons!Click(kind)
      PROVE  ButtonRowsFollow'
  <2> DEFINE name == Buttons!RowOf(kind)
  <2>1. /\ busy' = [busy EXCEPT ![kind] = "painting"] /\ sent' = [sent EXCEPT ![kind] = FALSE]
        /\ rows' = [rows EXCEPT ![name] = [title |-> kind, state |-> "running"]]
        /\ busy[kind] = "free"
    BY <1>2 DEF Buttons!Click, Buttons!Handler, Buttons!Row
  <2>2. name \in Buttons!RowNames
    BY DEF Buttons!RowNames
  <2>3. /\ DOMAIN busy' = Buttons!Kinds /\ busy'[kind] = "painting"
        /\ \A k \in Buttons!Kinds : k # kind => busy'[k] = busy[k] /\ sent'[k] = sent[k]
        /\ DOMAIN sent' = Buttons!Kinds
    BY <2>1 DEF ButtonRowsFollow
  <2>4. /\ DOMAIN rows' = Buttons!RowNames /\ rows'[name].title = kind /\ rows'[name].state = "running"
        /\ \A n \in Buttons!RowNames : n # name => rows'[n] = rows[n]
    BY <2>1, <2>2 DEF ButtonRowsFollow
  <2>5. \A n \in Buttons!RowNames : n # name => rows[n].title # kind \/ rows[n].title = Buttons!Nothing
    BY DEF ButtonRowsFollow
  <2>6. \A k \in Buttons!Kinds : busy'[k] = "good" => sent'[k] = TRUE
    BY <2>3 DEF ButtonRowsFollow
  <2> HIDE DEF name
  <2>7. \A n \in Buttons!RowNames : /\ rows'[n].title \in Buttons!Kinds \cup {Buttons!Nothing}
                              /\ rows'[n].title # Buttons!Nothing => n = Buttons!RowOf(rows'[n].title)
    BY <2>4 DEF ButtonRowsFollow, name
  <2>8. ASSUME NEW n \in Buttons!RowNames, rows'[n].title # Buttons!Nothing
        PROVE  /\ rows'[n].state = "done" => sent'[rows'[n].title] = TRUE \/ busy'[rows'[n].title] # "free"
               /\ rows'[n].state = "running" => busy'[rows'[n].title] # "free"
    <3>1. CASE n = name
      BY <2>3, <2>4, <3>1
    <3>2. CASE n # name
      <4>1. rows'[n] = rows[n] /\ rows[n].title \in Buttons!Kinds /\ rows[n].title # kind
        BY <2>4, <2>5, <2>8, <3>2 DEF ButtonRowsFollow
      <4> QED
        BY <2>3, <2>8, <4>1 DEF ButtonRowsFollow
    <3> QED
      BY <3>1, <3>2
  <2> QED
    BY <2>3, <2>4, <2>6, <2>7, <2>8 DEF ButtonRowsFollow
<1>3. CASE Buttons!NothingToHold
  <2>1. /\ "hold" \in Buttons!Kinds /\ busy["hold"] = "free" /\ UNCHANGED busy
        /\ sent' = [sent EXCEPT !["hold"] = FALSE]
        /\ \E state : rows' = [rows EXCEPT !["hold"] = [title |-> Buttons!Nothing, state |-> state]]
    BY <1>3 DEF Buttons!NothingToHold, Buttons!Row
  <2>2. Buttons!RowOf("hold") = "hold" /\ "hold" \in Buttons!RowNames
    BY <2>1 DEF Buttons!RowOf, Buttons!RowNames
  <2>3. /\ DOMAIN sent' = Buttons!Kinds /\ DOMAIN rows' = Buttons!RowNames
        /\ \A k \in Buttons!Kinds : k # "hold" => sent'[k] = sent[k]
        /\ rows'["hold"].title = Buttons!Nothing
        /\ \A n \in Buttons!RowNames : n # "hold" => rows'[n] = rows[n]
    BY <2>1, <2>2 DEF ButtonRowsFollow
  <2>4. \A n \in Buttons!RowNames : n # "hold" => rows[n].title # "hold" \/ rows[n].title = Buttons!Nothing
    BY <2>2 DEF ButtonRowsFollow
  <2>5. ASSUME NEW n \in Buttons!RowNames, rows'[n].title # Buttons!Nothing
        PROVE  /\ n = Buttons!RowOf(rows'[n].title)
               /\ rows'[n].state = "done" => sent'[rows'[n].title] = TRUE \/ busy'[rows'[n].title] # "free"
               /\ rows'[n].state = "running" => busy'[rows'[n].title] # "free"
    <3>1. rows'[n] = rows[n] /\ rows[n].title \in Buttons!Kinds /\ sent'[rows[n].title] = sent[rows[n].title]
      BY <2>3, <2>4, <2>5 DEF ButtonRowsFollow
    <3> QED
      BY <2>1, <2>5, <3>1 DEF ButtonRowsFollow
  <2>6. \A k \in Buttons!Kinds : busy'[k] = "good" => sent'[k] = TRUE
    BY <2>1, <2>3 DEF ButtonRowsFollow
  <2>7. \A n \in Buttons!RowNames : rows'[n].title \in Buttons!Kinds \cup {Buttons!Nothing}
    BY <2>3 DEF ButtonRowsFollow
  <2> QED
    BY <2>1, <2>3, <2>5, <2>6, <2>7 DEF ButtonRowsFollow
<1>4. ASSUME NEW kind \in Buttons!Kinds, Buttons!Invoke(kind)
      PROVE  ButtonRowsFollow'
  <2>1. /\ busy[kind] # "free" /\ UNCHANGED <<rows, sent>>
        /\ \E step \in {"calling", "requested", "bad"} : Buttons!Handler(kind, step)
    BY <1>4 DEF Buttons!Invoke
  <2> QED
    BY <2>1, ButtonRowsGoesOn
<1>5. ASSUME NEW kind \in Buttons!Kinds, Buttons!CallEnds(kind) \/ Buttons!Confirm(kind)
      PROVE  ButtonRowsFollow'
  <2>1. /\ busy[kind] # "free" /\ UNCHANGED rows
        /\ \/ Buttons!Handler(kind, "good") /\ sent' = [sent EXCEPT ![kind] = TRUE]
           \/ Buttons!Handler(kind, "bad") /\ UNCHANGED sent
    BY <1>5 DEF Buttons!CallEnds, Buttons!Confirm
  <2> QED
    BY <2>1, ButtonRowsGoesOn
<1>6. ASSUME NEW kind \in Buttons!Kinds, Buttons!Finish(kind)
      PROVE  ButtonRowsFollow'
  <2> DEFINE name == Buttons!RowOf(kind)
             state == IF busy[kind] = "good" THEN "done" ELSE "failed"
  <2>1. /\ busy' = [busy EXCEPT ![kind] = "free"] /\ UNCHANGED sent
        /\ rows' = [rows EXCEPT ![name] = [title |-> kind, state |-> state]]
    BY <1>6 DEF Buttons!Finish, Buttons!Handler, Buttons!Row
  <2>2. name \in Buttons!RowNames
    BY DEF Buttons!RowNames
  <2>3. /\ DOMAIN busy' = Buttons!Kinds /\ busy'[kind] = "free"
        /\ \A k \in Buttons!Kinds : k # kind => busy'[k] = busy[k]
    BY <2>1 DEF ButtonRowsFollow
  <2>4. /\ DOMAIN rows' = Buttons!RowNames /\ rows'[name].title = kind /\ rows'[name].state = state
        /\ \A n \in Buttons!RowNames : n # name => rows'[n] = rows[n]
    BY <2>1, <2>2 DEF ButtonRowsFollow
  <2>5. \A n \in Buttons!RowNames : n # name => rows[n].title # kind \/ rows[n].title = Buttons!Nothing
    BY DEF ButtonRowsFollow
  <2>6. state = "done" => sent'[kind] = TRUE
    BY <2>1 DEF ButtonRowsFollow
  <2>7. state # "running"
    OBVIOUS
  <2> HIDE DEF name, state
  <2>8. \A n \in Buttons!RowNames : /\ rows'[n].title \in Buttons!Kinds \cup {Buttons!Nothing}
                              /\ rows'[n].title # Buttons!Nothing => n = Buttons!RowOf(rows'[n].title)
    BY <2>4 DEF ButtonRowsFollow, name
  <2>9. ASSUME NEW n \in Buttons!RowNames, rows'[n].title # Buttons!Nothing
        PROVE  /\ rows'[n].state = "done" => sent'[rows'[n].title] = TRUE \/ busy'[rows'[n].title] # "free"
               /\ rows'[n].state = "running" => busy'[rows'[n].title] # "free"
    <3>1. CASE n = name
      BY <2>4, <2>6, <2>7, <3>1
    <3>2. CASE n # name
      <4>1. rows'[n] = rows[n] /\ rows[n].title \in Buttons!Kinds /\ rows[n].title # kind
        BY <2>4, <2>5, <2>9, <3>2 DEF ButtonRowsFollow
      <4> QED
        BY <2>1, <2>3, <2>9, <4>1 DEF ButtonRowsFollow
    <3> QED
      BY <3>1, <3>2
  <2>10. \A k \in Buttons!Kinds : busy'[k] = "good" => sent'[k] = TRUE
    BY <2>1, <2>3 DEF ButtonRowsFollow
  <2> QED
    BY <2>1, <2>3, <2>4, <2>8, <2>9, <2>10 DEF ButtonRowsFollow
<1> QED
  BY <1>1, <1>2, <1>3, <1>4, <1>5, <1>6 DEF Buttons!TilesNext, Buttons!HandlerSteps

-----------------------------------------------------------------------------
(* The journal.  What its invariants say is said of the entries in the     *)
(* log, and of those that wait, in the batch or in the queue.              *)

Incident == [id : Nat, level : Journal!Levels, marker : Nat]
Kept(entries) == {entries[i] : i \in 1..Len(entries)}
Below(earlier, later) == \A x \in Kept(earlier), y \in Kept(later) : x.id < y.id
Ids(entries) == {x.id : x \in entries}

\* The files, the batch and the queue, and where the writer stands.
Lines(j, l, b, w, where) ==
  /\ j \in Seq(Incident) /\ l \in Seq(Incident) /\ b \in Seq(Incident) /\ w \in Seq(Incident)
  /\ where \in {"off", "mkdir", "json", "log"}
  /\ Journal!Ascends(j) /\ Journal!Ascends(l) /\ Journal!Ascends(b) /\ Journal!Ascends(w)
  /\ Below(b, w) /\ Below(l, b) /\ Below(l, w) /\ Below(j, w)
  /\ where \in {"mkdir", "json"} => Below(j, b)
  /\ where = "off" => b = <<>> /\ w = <<>>
  /\ Len(w) <= MaxQueued

\* Every record is in the log, waits, was lost or failed; none is ahead of the count.
Accounted(logged, awaited, gone, spoiled, count) ==
  1..count = Ids(logged) \cup Ids(awaited) \cup Ids(gone) \cup spoiled
UpTo(entries, count) == \A x \in entries : x.id <= count

\* A WARN that was lost took every INFO up to the record it made room for with it.
Outlasted(entries, gone) == \A x \in entries : x.level = "INFO" => x.id \notin gone.id..gone.room
Outlasting(entries, losses, count) ==
  \A gone \in losses :
    /\ gone.id \in Nat /\ gone.room \in Nat /\ gone.room <= count
    /\ gone.level = "WARN" => gone.id < gone.room /\ Outlasted(entries, gone)

SeenOut(awaited, out, count) ==
  /\ DOMAIN out = {"state", "upto"} /\ out.upto \in Nat /\ out.upto <= count
  /\ out.state = "done" => \A x \in awaited : x.id > out.upto

Awaited == Kept(batch) \cup Kept(queue)
JournalKept ==
  /\ recorded \in Nat /\ dropped \in Nat
  /\ Lines(json, log, batch, queue, at)
  /\ Accounted(Kept(log), Awaited, lost, failed, recorded)
  /\ UpTo(Kept(json) \cup Kept(log) \cup Awaited, recorded)
  /\ Outlasting(Kept(log) \cup Awaited, lost, recorded)
  /\ SeenOut(Awaited, flush, recorded)

LEMMA NothingKept == Kept(<<>>) = {} /\ <<>> \in Seq(Incident) /\ Len(<<>>) = 0 /\ Journal!Ascends(<<>>)
BY DEF Kept, Journal!Ascends

LEMMA KeptAre == ASSUME NEW xs \in Seq(Incident) PROVE Kept(xs) \subseteq Incident
BY DEF Kept

LEMMA JournalBegins ==
  ASSUME MaxQueued \in Nat \ {0}, Journal!JournalInit
  PROVE  JournalKept
<1>1. Lines(json, log, batch, queue, at)
  BY NothingKept DEF Journal!JournalInit, Lines, Below
<1>2. Kept(log) = {} /\ Awaited = {} /\ Kept(json) = {} /\ lost = {} /\ failed = {} /\ recorded = 0
  BY NothingKept DEF Journal!JournalInit, Awaited
<1> QED
  BY <1>1, <1>2 DEF Journal!JournalInit, JournalKept, Accounted, UpTo, Outlasting, SeenOut, Ids

LEMMA Joined ==
  ASSUME NEW xs \in Seq(Incident), NEW ys \in Seq(Incident)
  PROVE  /\ xs \o ys \in Seq(Incident) /\ Kept(xs \o ys) = Kept(xs) \cup Kept(ys)
         /\ Journal!Ascends(xs \o ys) <=> Journal!Ascends(xs) /\ Journal!Ascends(ys) /\ Below(xs, ys)
<1> DEFINE zs == xs \o ys
<1>1. /\ zs \in Seq(Incident) /\ Len(zs) = Len(xs) + Len(ys)
      /\ \A i \in 1..Len(xs) : i \in 1..Len(zs) /\ zs[i] = xs[i]
      /\ \A i \in 1..Len(ys) : Len(xs) + i \in 1..Len(zs) /\ zs[Len(xs) + i] = ys[i]
  OBVIOUS
<1>2. \A i \in 1..Len(zs) : i \in 1..Len(xs) \/ (i - Len(xs) \in 1..Len(ys) /\ Len(xs) + (i - Len(xs)) = i)
  BY <1>1
<1>3. /\ DOMAIN zs = 1..Len(zs) /\ DOMAIN xs = 1..Len(xs) /\ DOMAIN ys = 1..Len(ys)
      /\ Len(xs) \in Nat /\ Len(ys) \in Nat
  BY <1>1
<1> HIDE DEF zs
<1>4. Kept(zs) = Kept(xs) \cup Kept(ys)
  <2>1. Kept(zs) \subseteq Kept(xs) \cup Kept(ys)
    <3> SUFFICES ASSUME NEW i \in 1..Len(zs) PROVE zs[i] \in Kept(xs) \cup Kept(ys)
      BY DEF Kept
    <3>1. CASE i \in 1..Len(xs)
      BY <1>1, <3>1 DEF Kept
    <3>2. CASE i - Len(xs) \in 1..Len(ys) /\ Len(xs) + (i - Len(xs)) = i
      <4>1. zs[i] = ys[i - Len(xs)]
        BY <1>1, <3>2
      <4> QED
        BY <3>2, <4>1 DEF Kept
    <3> QED
      BY <1>2, <3>1, <3>2
  <2>2. Kept(xs) \subseteq Kept(zs) /\ Kept(ys) \subseteq Kept(zs)
    BY <1>1 DEF Kept
  <2> QED
    BY <2>1, <2>2
<1>5. ASSUME Journal!Ascends(zs)
      PROVE  Journal!Ascends(xs) /\ Journal!Ascends(ys) /\ Below(xs, ys)
  <2>1. Journal!Ascends(xs)
    BY <1>1, <1>3, <1>5 DEF Journal!Ascends
  <2>2. Journal!Ascends(ys)
    <3> SUFFICES ASSUME NEW i \in 1..Len(ys), NEW j \in 1..Len(ys), i < j PROVE ys[i].id < ys[j].id
      BY <1>3 DEF Journal!Ascends
    <3>1. Len(xs) + i < Len(xs) + j
      BY <1>3
    <3> QED
      BY <1>1, <1>3, <1>5, <3>1 DEF Journal!Ascends
  <2>3. Below(xs, ys)
    <3> SUFFICES ASSUME NEW i \in 1..Len(xs), NEW j \in 1..Len(ys) PROVE xs[i].id < ys[j].id
      BY DEF Below, Kept
    <3>1. i < Len(xs) + j
      BY <1>3
    <3> QED
      BY <1>1, <1>3, <1>5, <3>1 DEF Journal!Ascends
  <2> QED
    BY <2>1, <2>2, <2>3
<1>6. ASSUME Journal!Ascends(xs), Journal!Ascends(ys), Below(xs, ys)
      PROVE  Journal!Ascends(zs)
  <2> SUFFICES ASSUME NEW i \in 1..Len(zs), NEW j \in 1..Len(zs), i < j PROVE zs[i].id < zs[j].id
    BY <1>3 DEF Journal!Ascends
  <2>1. CASE i \in 1..Len(xs) /\ j \in 1..Len(xs)
    BY <1>1, <1>3, <1>6, <2>1 DEF Journal!Ascends
  <2>2. CASE i \in 1..Len(xs) /\ j - Len(xs) \in 1..Len(ys)
    <3>1. zs[i] \in Kept(xs) /\ zs[j] \in Kept(ys)
      <4>1. zs[j] = ys[j - Len(xs)]
        BY <1>1, <1>2, <1>3, <2>2
      <4> QED
        BY <1>1, <2>2, <4>1 DEF Kept
    <3> QED
      BY <1>6, <3>1 DEF Below
  <2>3. CASE i - Len(xs) \in 1..Len(ys) /\ j - Len(xs) \in 1..Len(ys)
    <3>1. zs[i] = ys[i - Len(xs)] /\ zs[j] = ys[j - Len(xs)] /\ i - Len(xs) < j - Len(xs)
      <4>1. i = Len(xs) + (i - Len(xs)) /\ j = Len(xs) + (j - Len(xs))
        BY <1>3
      <4>2. i - Len(xs) < j - Len(xs)
        BY <1>3
      <4>3. zs[Len(xs) + (i - Len(xs))] = ys[i - Len(xs)] /\ zs[Len(xs) + (j - Len(xs))] = ys[j - Len(xs)]
        BY <1>1, <2>3
      <4> QED
        BY <4>1, <4>2, <4>3
    <3> QED
      BY <1>3, <1>6, <2>3, <3>1 DEF Journal!Ascends
  <2> QED
    BY <1>2, <1>3, <2>1, <2>2, <2>3
<1> QED
  BY <1>1, <1>4, <1>5, <1>6 DEF zs

\* What JournalKept says of the entries is what the properties say of the files and lines.
LEMMA JournalTells ==
  ASSUME JournalKept
  PROVE  Journal!JournalIsInOrder /\ Journal!WarningsOutlastInfos /\ Journal!FlushIsComplete
<1>1. /\ json \in Seq(Incident) /\ log \in Seq(Incident) /\ batch \in Seq(Incident) /\ queue \in Seq(Incident)
  BY DEF JournalKept, Lines
<1>2. \A xs \in Seq(Incident) : Journal!Listed(xs) = Ids(Kept(xs)) /\ \A i \in DOMAIN xs : xs[i] \in Kept(xs)
  BY DEF Journal!Listed, Ids, Kept
<1>3. Journal!Ascends(batch \o queue)
  BY <1>1, Joined DEF JournalKept, Lines
<1>4. Ids(Kept(log)) \cap (Ids(Kept(batch)) \cup Ids(Kept(queue))) = {}
  <2> SUFFICES ASSUME NEW x \in Kept(log), NEW y \in Kept(batch) \cup Kept(queue) PROVE x.id # y.id
    BY DEF Ids
  <2>1. x.id < y.id
    BY DEF JournalKept, Lines, Below
  <2>2. x \in Incident /\ y \in Incident
    BY <1>1, KeptAre
  <2>3. x.id \in Nat /\ y.id \in Nat
    BY <2>2 DEF Incident
  <2> QED
    BY <2>1, <2>3
<1>5. 1..recorded = Journal!Listed(log) \cup Journal!Listed(batch) \cup Journal!Listed(queue)
                      \cup {entry.id : entry \in lost} \cup failed
  <2>1. Ids(Awaited) = Ids(Kept(batch)) \cup Ids(Kept(queue))
    BY DEF Ids, Awaited
  <2> QED
    BY <1>1, <1>2, <2>1 DEF JournalKept, Accounted, Ids
<1>6. Journal!JournalIsInOrder
  BY <1>1, <1>2, <1>3, <1>4, <1>5 DEF Journal!JournalIsInOrder, JournalKept, Lines
<1>7. Kept(log \o batch \o queue) = Kept(log) \cup Awaited /\ log \o batch \o queue \in Seq(Incident)
  <2>1. log \o batch \in Seq(Incident) /\ Kept(log \o batch) = Kept(log) \cup Kept(batch)
    BY <1>1, Joined
  <2> DEFINE written == log \o batch
  <2>2. written \in Seq(Incident) /\ Kept(written) = Kept(log) \cup Kept(batch)
    BY <2>1
  <2> HIDE DEF written
  <2>3. written \o queue \in Seq(Incident) /\ Kept(written \o queue) = Kept(written) \cup Kept(queue)
    BY <1>1, <2>2, Joined
  <2>4. written \o queue = log \o batch \o queue
    BY DEF written
  <2> QED
    BY <2>2, <2>3, <2>4 DEF Awaited
<1>8. Journal!WarningsOutlastInfos
  <2>1. Len(queue) <= MaxQueued /\ (queue # <<>> => at # "off")
    BY DEF JournalKept, Lines
  <2>2. ASSUME NEW gone \in lost, gone.level = "WARN"
        PROVE  /\ gone.room # gone.id
               /\ \A i \in DOMAIN (log \o batch \o queue) :
                    (log \o batch \o queue)[i].level = "INFO"
                      => (log \o batch \o queue)[i].id \notin gone.id..gone.room
    <3>1. gone.id \in Nat /\ gone.room \in Nat /\ gone.id < gone.room /\ Outlasted(Kept(log) \cup Awaited, gone)
      BY <2>2 DEF JournalKept, Outlasting
    <3>2. \A i \in DOMAIN (log \o batch \o queue) : (log \o batch \o queue)[i] \in Kept(log) \cup Awaited
      BY <1>2, <1>7
    <3> QED
      BY <3>1, <3>2 DEF Outlasted
  <2> QED
    BY <2>1, <2>2 DEF Journal!WarningsOutlastInfos
<1>9. Journal!FlushIsComplete
  <2>1. batch \o queue \in Seq(Incident) /\ Kept(batch \o queue) = Awaited
    BY <1>1, Joined DEF Awaited
  <2>2. \A i \in DOMAIN (batch \o queue) : (batch \o queue)[i] \in Awaited
    BY <1>2, <2>1
  <2> QED
    BY <2>2 DEF Journal!FlushIsComplete, JournalKept, SeenOut
<1> QED
  BY <1>6, <1>8, <1>9

LEMMA Least ==
  ASSUME NEW T \in SUBSET Nat, T # {}
  PROVE  \E m \in T : \A k \in T : m <= k
<1>1. PICK m \in T : \A k \in T : <<k, m>> \notin OpToRel(<, Nat)
  BY NatLessThanWellFounded, WFMin
<1>2. \A k \in T : ~(k < m)
  BY <1>1 DEF OpToRel
<1> QED
  BY <1>2

\* What gives way is an INFO as long as there is one.
LEMMA VictimIs ==
  ASSUME queue \in Seq(Incident), queue # <<>>
  PROVE  /\ Journal!Victim \in 1..Len(queue)
         /\ \/ queue[Journal!Victim].level = "INFO"
            \/ \A x \in Kept(queue) : x.level = "WARN"
<1>1. CASE Journal!Infos # {}
  <2>1. Journal!Infos \subseteq Nat /\ Journal!Infos \subseteq 1..Len(queue)
    BY DEF Journal!Infos
  <2>2. \E i \in Journal!Infos : \A j \in Journal!Infos : i <= j
    BY <1>1, <2>1, Least
  <2>3. Journal!Earliest \in Journal!Infos
    BY <2>2 DEF Journal!Earliest
  <2> QED
    BY <1>1, <2>1, <2>3 DEF Journal!Victim, Journal!Infos
<1>2. CASE Journal!Infos = {}
  <2>1. \A i \in 1..Len(queue) : queue[i].level # "INFO" /\ queue[i] \in Incident
    BY <1>2 DEF Journal!Infos
  <2>2. \A x \in Kept(queue) : x.level = "WARN"
    BY <2>1 DEF Kept, Incident, Journal!Levels
  <2> QED
    BY <1>2, <2>2 DEF Journal!Victim
<1> QED
  BY <1>1, <1>2

LEMMA WithoutOne ==
  ASSUME queue \in Seq(Incident), Journal!Ascends(queue), NEW v \in 1..Len(queue)
  PROVE  /\ Journal!Without(v) \in Seq(Incident) /\ Len(Journal!Without(v)) = Len(queue) - 1
         /\ Journal!Ascends(Journal!Without(v))
         /\ Kept(Journal!Without(v)) \subseteq Kept(queue)
         /\ Kept(queue) = Kept(Journal!Without(v)) \cup {queue[v]}
<1> DEFINE rest == Journal!Without(v)
<1>1. /\ rest = [j \in 1..(Len(queue) - 1) |-> IF j < v THEN queue[j] ELSE queue[j + 1]]
      /\ Len(queue) - 1 \in Nat
  BY DEF Journal!Without
<1>2. rest \in Seq(Incident) /\ Len(rest) = Len(queue) - 1
  <2>1. \A j \in 1..(Len(queue) - 1) : (IF j < v THEN queue[j] ELSE queue[j + 1]) \in Incident
    OBVIOUS
  <2> QED
    BY <1>1, <2>1
<1>3. \A j \in 1..Len(rest) : rest[j] = IF j < v THEN queue[j] ELSE queue[j + 1]
  BY <1>1, <1>2
<1>4. DOMAIN rest = 1..Len(rest) /\ DOMAIN queue = 1..Len(queue)
  BY <1>2
<1> HIDE DEF rest
<1>5. Journal!Ascends(rest)
  <2> SUFFICES ASSUME NEW i \in 1..Len(rest), NEW j \in 1..Len(rest), i < j PROVE rest[i].id < rest[j].id
    BY <1>4 DEF Journal!Ascends
  <2>1. PICK m, n \in 1..Len(queue) : m < n /\ rest[i] = queue[m] /\ rest[j] = queue[n]
    <3>1. CASE i < v /\ j < v
      <4>1. rest[i] = queue[i] /\ rest[j] = queue[j]
        BY <1>3, <3>1
      <4>2. i \in 1..Len(queue) /\ j \in 1..Len(queue)
        BY <1>2
      <4> QED
        BY <4>1, <4>2
    <3>2. CASE i < v /\ ~(j < v)
      <4>1. rest[i] = queue[i] /\ rest[j] = queue[j + 1]
        BY <1>3, <3>2
      <4>2. i \in 1..Len(queue) /\ j + 1 \in 1..Len(queue) /\ i < j + 1
        BY <1>2
      <4> QED
        BY <4>1, <4>2
    <3>3. CASE ~(i < v)
      <4>1. rest[i] = queue[i + 1] /\ rest[j] = queue[j + 1]
        BY <1>3, <3>3
      <4>2. i + 1 \in 1..Len(queue) /\ j + 1 \in 1..Len(queue) /\ i + 1 < j + 1
        BY <1>2
      <4> QED
        BY <4>1, <4>2
    <3> QED
      BY <3>1, <3>2, <3>3
  <2> QED
    BY <1>4, <2>1 DEF Journal!Ascends
<1>6. Kept(rest) \subseteq Kept(queue)
  BY <1>2, <1>3 DEF Kept
<1>7. Kept(queue) \subseteq Kept(rest) \cup {queue[v]}
  <2> SUFFICES ASSUME NEW i \in 1..Len(queue), i # v PROVE queue[i] \in Kept(rest)
    BY DEF Kept
  <2>1. CASE i < v
    BY <1>2, <1>3, <2>1 DEF Kept
  <2>2. CASE i > v
    <3>1. i - 1 \in 1..Len(rest) /\ ~(i - 1 < v) /\ (i - 1) + 1 = i
      BY <1>2, <2>2
    <3>2. rest[i - 1] = queue[i]
      BY <1>3, <3>1
    <3> QED
      BY <3>1, <3>2 DEF Kept
  <2> QED
    BY <2>1, <2>2
<1>8. queue[v] \in Kept(queue)
  BY DEF Kept
<1> QED
  BY <1>2, <1>5, <1>6, <1>7, <1>8 DEF rest

\* An entry later than all others goes to the end.
LEMMA OneMore ==
  ASSUME NEW xs \in Seq(Incident), NEW e \in Incident, Journal!Ascends(xs), \A x \in Kept(xs) : x.id < e.id
  PROVE  /\ Append(xs, e) \in Seq(Incident) /\ Len(Append(xs, e)) = Len(xs) + 1
         /\ Kept(Append(xs, e)) = Kept(xs) \cup {e}
         /\ Journal!Ascends(Append(xs, e))
<1> DEFINE more == Append(xs, e)
<1>1. /\ more \in Seq(Incident) /\ Len(more) = Len(xs) + 1 /\ DOMAIN more = 1..(Len(xs) + 1)
      /\ Len(xs) \in Nat /\ DOMAIN xs = 1..Len(xs)
      /\ \A i \in 1..Len(xs) : more[i] = xs[i]
      /\ more[Len(xs) + 1] = e
  OBVIOUS
<1>2. \A i \in 1..(Len(xs) + 1) : i \in 1..Len(xs) \/ i = Len(xs) + 1
  BY <1>1
<1> HIDE DEF more
<1>3. Kept(more) = Kept(xs) \cup {e}
  <2>1. Kept(more) \subseteq Kept(xs) \cup {e}
    BY <1>1, <1>2 DEF Kept
  <2>2. e \in Kept(more)
    BY <1>1 DEF Kept
  <2>3. Kept(xs) \subseteq Kept(more)
    BY <1>1 DEF Kept
  <2> QED
    BY <2>1, <2>2, <2>3
<1>4. Journal!Ascends(more)
  <2> SUFFICES ASSUME NEW i \in 1..(Len(xs) + 1), NEW j \in 1..(Len(xs) + 1), i < j
               PROVE  more[i].id < more[j].id
    BY <1>1 DEF Journal!Ascends
  <2>1. i \in 1..Len(xs)
    BY <1>1
  <2>2. CASE j \in 1..Len(xs)
    BY <1>1, <2>1, <2>2 DEF Journal!Ascends
  <2>3. CASE j = Len(xs) + 1
    BY <1>1, <2>1, <2>3 DEF Kept
  <2> QED
    BY <1>2, <2>2, <2>3
<1> QED
  BY <1>1, <1>3, <1>4 DEF more

\* Work to write goes to the batch of a writer that is off, or waits for the one that runs.
LEMMA DrainScheduled ==
  ASSUME MaxQueued \in Nat \ {0}, Lines(json, log, batch, queue, at), UNCHANGED <<json, log>>,
         NEW entries \in Seq(Incident), Journal!Ascends(entries), Len(entries) <= MaxQueued,
         Below(json, entries), Below(log, entries), Below(batch, entries),
         Journal!ScheduleDrain(entries)
  PROVE  /\ Lines(json, log, batch, queue, at)'
         /\ Awaited' = Kept(batch) \cup Kept(entries)
<1>1. CASE at = "off" /\ entries # <<>>
  <2>1. queue' = <<>> /\ batch' = entries /\ at' = "mkdir" /\ batch = <<>>
    BY <1>1 DEF Journal!ScheduleDrain, Lines
  <2>2. Lines(json, log, entries, <<>>, "mkdir")
    BY NothingKept DEF Lines, Below
  <2>3. Lines(json, log, batch, queue, at)'
    BY <2>1, <2>2
  <2>4. Awaited' = Kept(batch) \cup Kept(entries)
    BY <2>1, NothingKept DEF Awaited
  <2> QED
    BY <2>3, <2>4
<1>2. CASE ~(at = "off" /\ entries # <<>>)
  <2>1. queue' = entries /\ batch' = batch /\ at' = at
    BY <1>2 DEF Journal!ScheduleDrain
  <2>2. Lines(json, log, batch, entries, at)
    BY <1>2 DEF Lines
  <2>3. Lines(json, log, batch, queue, at)'
    BY <2>1, <2>2
  <2>4. Awaited' = Kept(batch) \cup Kept(entries)
    BY <2>1 DEF Awaited
  <2> QED
    BY <2>3, <2>4
<1> QED
  BY <1>1, <1>2

\* The writer takes the queue as its next batch, or it is off and a flush that waits goes on.
LEMMA NextBatchTaken ==
  ASSUME MaxQueued \in Nat \ {0}, Lines(json, log, batch, queue, at), UNCHANGED json, log' \in Seq(Incident),
         Journal!Ascends(log'), Below(log', queue), Journal!NextBatch,
         SeenOut(Awaited, flush, recorded), UNCHANGED recorded
  PROVE  /\ Lines(json, log, batch, queue, at)'
         /\ Awaited' = Kept(queue)
         /\ SeenOut(Awaited, flush, recorded)'
<1> DEFINE l == log'
<1>1. CASE queue # <<>>
  <2>1. queue' = <<>> /\ batch' = queue /\ at' = "mkdir" /\ flush' = flush
    BY <1>1 DEF Journal!NextBatch
  <2>2. Lines(json, l, queue, <<>>, "mkdir")
    BY NothingKept DEF Lines, Below
  <2>3. Lines(json, log, batch, queue, at)'
    BY <2>1, <2>2
  <2>4. Awaited' = Kept(queue)
    BY <2>1, NothingKept DEF Awaited
  <2>5. SeenOut(Awaited, flush, recorded)'
    BY <2>1, <2>4 DEF SeenOut, Awaited
  <2> QED
    BY <2>3, <2>4, <2>5
<1>2. CASE queue = <<>>
  <2>1. queue' = <<>> /\ batch' = <<>> /\ at' = "off" /\ flush' = Journal!Flushed
    BY <1>2 DEF Journal!NextBatch
  <2>2. Lines(json, l, <<>>, <<>>, "off")
    BY NothingKept DEF Lines, Below
  <2>3. Lines(json, log, batch, queue, at)'
    BY <2>1, <2>2
  <2>4. Awaited' = {} /\ Kept(queue) = {}
    BY <1>2, <2>1, NothingKept DEF Awaited
  <2>5. SeenOut(Awaited, flush, recorded)'
    <3>1. DOMAIN flush' = {"state", "upto"} /\ flush'.upto = flush.upto
      BY <2>1 DEF Journal!Flushed, SeenOut
    <3> QED
      BY <2>4, <3>1 DEF SeenOut
  <2> QED
    BY <2>3, <2>4, <2>5
<1> QED
  BY <1>1, <1>2

\* An incident is recorded: one may be lost, and all others stay where they are.
LEMMA RecordStep ==
  ASSUME MaxQueued \in Nat \ {0}, JournalKept, NEW level \in Journal!Levels, Journal!Record(level)
  PROVE  JournalKept'
<1> DEFINE count == recorded + 1
<1>1. recorded' = count /\ count \in Nat /\ recorded \in Nat /\ UNCHANGED <<json, log, failed, flush>>
  BY DEF JournalKept, Journal!Record
<1>2. 1..count = 1..recorded \cup {count}
  BY <1>1
<1>3. /\ json \in Seq(Incident) /\ log \in Seq(Incident) /\ batch \in Seq(Incident) /\ queue \in Seq(Incident)
  BY DEF JournalKept, Lines
<1>4. \A x \in Kept(json) \cup Kept(log) \cup Awaited : x \in Incident /\ x.id \in Nat /\ x.id < count
  <2>1. Kept(json) \cup Kept(log) \cup Awaited \subseteq Incident
    BY <1>3, KeptAre DEF Awaited
  <2> QED
    BY <1>1, <2>1 DEF JournalKept, UpTo, Incident
<1>5. SeenOut(Awaited, flush, count)
  BY <1>1 DEF JournalKept, SeenOut
<1>6. CASE Journal!Full /\ level = "INFO"
  <2> DEFINE gone == [id |-> count, level |-> "INFO", room |-> count]
  <2>1. dropped' = dropped + 1 /\ lost' = lost \cup {gone} /\ UNCHANGED <<queue, batch, at>>
    BY <1>1, <1>6 DEF Journal!Record, Journal!Lost
  <2>2. Awaited' = Awaited
    BY <2>1 DEF Awaited
  <2>3. Accounted(Kept(log), Awaited, lost', failed, count)
    <3>1. Ids(lost') = Ids(lost) \cup {count}
      <4>1. gone.id = count
        OBVIOUS
      <4> HIDE DEF gone
      <4> QED
        BY <2>1, <4>1 DEF Ids
    <3> QED
      BY <1>2, <3>1 DEF JournalKept, Accounted
  <2>4. UpTo(Kept(json) \cup Kept(log) \cup Awaited, count)
    BY <1>1, <1>4 DEF UpTo
  <2>5. Outlasting(Kept(log) \cup Awaited, lost', count)
    <3> SUFFICES ASSUME NEW g \in lost'
                 PROVE  /\ g.id \in Nat /\ g.room \in Nat /\ g.room <= count
                        /\ g.level = "WARN" => g.id < g.room /\ Outlasted(Kept(log) \cup Awaited, g)
      BY DEF Outlasting
    <3>1. CASE g \in lost
      <4>1. /\ g.id \in Nat /\ g.room \in Nat /\ g.room <= recorded
            /\ g.level = "WARN" => g.id < g.room /\ Outlasted(Kept(log) \cup Awaited, g)
        BY <3>1 DEF JournalKept, Outlasting
      <4> QED
        BY <1>1, <4>1
    <3>2. CASE g = gone
      BY <1>1, <3>2
    <3> QED
      BY <2>1, <3>1, <3>2
  <2>6. dropped' \in Nat /\ Lines(json, log, batch, queue, at)
    BY <2>1 DEF JournalKept
  <2> QED
    BY <1>1, <1>5, <2>1, <2>2, <2>3, <2>4, <2>5, <2>6 DEF JournalKept
<1>7. CASE ~(Journal!Full /\ level = "INFO")
  <2> DEFINE v == Journal!Victim
             e == Journal!Marked(level)
             rest == IF Journal!Full THEN Journal!Without(v) ELSE queue
             entries == Append(rest, e)
             gone == Journal!Lost(queue[v].id, queue[v].level)
  <2>1. /\ dropped' = 0 /\ Journal!ScheduleDrain(entries)
        /\ lost' = IF Journal!Full THEN lost \cup {gone} ELSE lost
    BY <1>7 DEF Journal!Record
  <2>2. e \in Incident /\ e.id = count /\ e.level = level
    BY <1>1 DEF Journal!Marked, Incident, JournalKept
  <2>3. Journal!Full => /\ level = "WARN" /\ v \in 1..Len(queue)
                        /\ queue[v].level = "INFO" \/ \A x \in Kept(queue) : x.level = "WARN"
    <3>1. ASSUME Journal!Full
          PROVE  queue # <<>> /\ level = "WARN"
      BY <1>3, <1>7, <3>1 DEF Journal!Full, Journal!Levels
    <3> QED
      BY <1>3, <3>1, VictimIs
  <2>4. /\ rest \in Seq(Incident) /\ Len(rest) < MaxQueued /\ Journal!Ascends(rest)
        /\ Kept(rest) \subseteq Kept(queue)
        /\ ~Journal!Full => rest = queue
        /\ Journal!Full => Kept(queue) = Kept(rest) \cup {queue[v]}
    <3>1. Journal!Ascends(queue) /\ Len(queue) <= MaxQueued
      BY DEF JournalKept, Lines
    <3>2. CASE Journal!Full
      <4>1. rest = Journal!Without(v)
        BY <3>2
      <4> QED
        BY <1>3, <2>3, <3>1, <3>2, <4>1, WithoutOne
    <3>3. CASE ~Journal!Full
      BY <1>3, <3>1, <3>3 DEF Journal!Full
    <3> QED
      BY <3>2, <3>3
  <2> HIDE DEF v, e, rest
  <2>5. \A x \in Kept(rest) : x.id < e.id
    BY <1>4, <2>2, <2>4 DEF Awaited
  <2>6. /\ entries \in Seq(Incident) /\ Len(entries) <= MaxQueued
        /\ Kept(entries) = Kept(rest) \cup {e} /\ Journal!Ascends(entries)
    BY <2>2, <2>4, <2>5, OneMore
  <2> HIDE DEF entries
  <2>7. Lines(json, log, batch, queue, at)
    BY DEF JournalKept
  <2>8. Below(json, entries) /\ Below(log, entries) /\ Below(batch, entries)
    <3>1. \A x \in Kept(json) \cup Kept(log) \cup Kept(batch) : x.id < e.id
      BY <1>4, <2>2 DEF Awaited
    <3>2. Below(json, queue) /\ Below(log, queue) /\ Below(batch, queue)
      BY <2>7 DEF Lines
    <3> QED
      BY <2>4, <2>6, <3>1, <3>2 DEF Below
  <2>9. /\ Lines(json, log, batch, queue, at)'
        /\ Awaited' = Kept(batch) \cup Kept(rest) \cup {e}
    BY <1>1, <2>1, <2>6, <2>7, <2>8, DrainScheduled
  <2>10. Awaited' \subseteq Awaited \cup {e}
    BY <2>4, <2>9 DEF Awaited
  <2>11. gone = [id |-> queue[v].id, level |-> queue[v].level, room |-> count]
    BY <1>1 DEF Journal!Lost
  <2> HIDE DEF gone
  <2>12. Accounted(Kept(log), Awaited, lost, failed, recorded)
    BY DEF JournalKept
  <2>13. Accounted(Kept(log), Awaited', lost', failed, count)
    <3>1. Ids(Awaited') = Ids(Kept(batch)) \cup Ids(Kept(rest)) \cup {count}
      BY <2>2, <2>9 DEF Ids
    <3>2. Ids(Awaited) = Ids(Kept(batch)) \cup Ids(Kept(queue))
      BY DEF Ids, Awaited
    <3>3. CASE Journal!Full
      <4>1. Ids(Kept(queue)) = Ids(Kept(rest)) \cup {queue[v].id}
        BY <2>4, <3>3 DEF Ids
      <4>2. Ids(lost') = Ids(lost) \cup {queue[v].id}
        BY <2>1, <2>11, <3>3 DEF Ids
      <4> QED
        BY <1>2, <2>12, <3>1, <3>2, <4>1, <4>2 DEF Accounted
    <3>4. CASE ~Journal!Full
      BY <1>2, <2>1, <2>4, <2>12, <3>1, <3>2, <3>4 DEF Accounted
    <3> QED
      BY <3>3, <3>4
  <2>14. UpTo(Kept(json) \cup Kept(log) \cup Awaited', count)
    BY <1>1, <1>4, <2>2, <2>10 DEF UpTo
  <2>15. Outlasting(Kept(log) \cup Awaited', lost', count)
    <3> SUFFICES ASSUME NEW g \in lost'
                 PROVE  /\ g.id \in Nat /\ g.room \in Nat /\ g.room <= count
                        /\ g.level = "WARN" => g.id < g.room /\ Outlasted(Kept(log) \cup Awaited', g)
      BY DEF Outlasting
    <3>1. CASE g \in lost
      <4>1. /\ g.id \in Nat /\ g.room \in Nat /\ g.room <= recorded
            /\ g.level = "WARN" => g.id < g.room /\ Outlasted(Kept(log) \cup Awaited, g)
        BY <3>1 DEF JournalKept, Outlasting
      <4>2. e.id \notin g.id..g.room
        BY <1>1, <2>2, <4>1
      <4>3. g.level = "WARN" => Outlasted(Kept(log) \cup Awaited', g)
        BY <2>10, <4>1, <4>2 DEF Outlasted
      <4> QED
        BY <1>1, <4>1, <4>3
    <3>2. CASE g = gone /\ Journal!Full
      <4>1. queue[v] \in Awaited /\ queue[v] \in Kept(queue)
        BY <2>3, <3>2 DEF Kept, Awaited
      <4>2. g.id = queue[v].id /\ g.level = queue[v].level /\ g.room = count /\ g.id \in Nat /\ g.id < count
        BY <1>4, <2>11, <3>2, <4>1
      <4>3. ASSUME g.level = "WARN"
            PROVE  Outlasted(Kept(log) \cup Awaited', g)
        <5>1. \A x \in Kept(queue) : x.level = "WARN"
          BY <2>3, <3>2, <4>2, <4>3
        <5>2. \A x \in Kept(log) \cup Kept(batch) : x.id < g.id /\ x.id \in Nat
          BY <1>4, <2>7, <4>1, <4>2 DEF Lines, Below, Awaited
        <5>3. \A x \in Kept(log) \cup Awaited' :
                x \in Kept(log) \cup Kept(batch) \/ x \in Kept(queue) \/ x = e
          BY <2>4, <2>9
        <5>4. e.level = "WARN"
          BY <2>2, <2>3, <3>2
        <5>5. \A x \in Kept(log) \cup Kept(batch) : x.id \notin g.id..g.room
          BY <4>2, <5>2
        <5> QED
          BY <5>1, <5>3, <5>4, <5>5 DEF Outlasted
      <4> QED
        BY <1>1, <4>2, <4>3
    <3> QED
      BY <2>1, <3>1, <3>2
  <2>16. SeenOut(Awaited', flush, count)
    BY <1>1, <1>5, <2>2, <2>10 DEF SeenOut, JournalKept
  <2>17. dropped' \in Nat
    BY <2>1
  <2> QED
    BY <1>1, <2>9, <2>13, <2>14, <2>15, <2>16, <2>17 DEF JournalKept
<1> QED
  BY <1>6, <1>7

\* Fewer entries that wait, and the rest in the log or failed, are accounted for as before.
LEMMA JournalStep ==
  ASSUME MaxQueued \in Nat \ {0}, JournalKept, Journal!JournalNext
  PROVE  JournalKept'
<1>1. /\ Lines(json, log, batch, queue, at) /\ recorded \in Nat /\ dropped \in Nat
      /\ json \in Seq(Incident) /\ log \in Seq(Incident) /\ batch \in Seq(Incident) /\ queue \in Seq(Incident)
      /\ SeenOut(Awaited, flush, recorded)
  BY DEF JournalKept, Lines
<1>2. ASSUME NEW level \in Journal!Levels, Journal!Record(level)
      PROVE  JournalKept'
  BY <1>2, RecordStep
<1>3. CASE Journal!MadeDirectory
  <2>1. at = "mkdir" /\ at' = "json"
        /\ UNCHANGED <<queue, batch, dropped, json, log, recorded, lost, failed, flush>>
    BY <1>3 DEF Journal!MadeDirectory
  <2>2. Lines(json, log, batch, queue, "json")
    BY <1>1, <2>1 DEF Lines
  <2>3. Awaited' = Awaited
    BY <2>1 DEF Awaited
  <2> QED
    BY <2>1, <2>2, <2>3 DEF JournalKept
<1>4. CASE Journal!WroteJson
  <2>1. at = "json" /\ at' = "log" /\ json' = json \o batch
        /\ UNCHANGED <<queue, batch, dropped, log, recorded, lost, failed, flush>>
    BY <1>4 DEF Journal!WroteJson
  <2>2. /\ json' \in Seq(Incident) /\ Kept(json') = Kept(json) \cup Kept(batch)
        /\ Journal!Ascends(json')
    BY <1>1, <2>1, Joined DEF Lines
  <2>3. Below(json', queue)
    BY <1>1, <2>2 DEF Lines, Below
  <2>4. \A j : j \in Seq(Incident) /\ Journal!Ascends(j) /\ Below(j, queue) => Lines(j, log, batch, queue, "log")
    BY <1>1, <2>1 DEF Lines
  <2>5. Lines(json, log, batch, queue, at)'
    BY <2>1, <2>2, <2>3, <2>4
  <2>6. Awaited' = Awaited /\ Kept(json') \subseteq Kept(json) \cup Awaited
    BY <2>1, <2>2 DEF Awaited
  <2>7. UpTo(Kept(json') \cup Kept(log) \cup Awaited, recorded)
    BY <2>6 DEF JournalKept, UpTo
  <2> QED
    BY <2>1, <2>5, <2>6, <2>7 DEF JournalKept
<1>5. ASSUME Journal!NextBatch, UNCHANGED <<dropped, json, recorded, lost>>, log' \in Seq(Incident),
             Journal!Ascends(log'), Below(log', queue), Kept(log') \subseteq Kept(log) \cup Kept(batch),
             Accounted(Kept(log'), Kept(queue), lost, failed', recorded)
      PROVE  JournalKept'
  <2>1. /\ Lines(json, log, batch, queue, at)' /\ Awaited' = Kept(queue)
        /\ SeenOut(Awaited, flush, recorded)'
    BY <1>1, <1>5, NextBatchTaken
  <2>2. Kept(log') \cup Awaited' \subseteq Kept(log) \cup Awaited
    BY <1>5, <2>1 DEF Awaited
  <2>3. UpTo(Kept(json) \cup Kept(log') \cup Awaited', recorded)
    BY <2>2 DEF JournalKept, UpTo
  <2>4. Outlasting(Kept(log') \cup Awaited', lost, recorded)
    BY <2>2 DEF JournalKept, Outlasting, Outlasted
  <2> QED
    BY <1>1, <1>5, <2>1, <2>3, <2>4 DEF JournalKept
<1>6. Accounted(Kept(log), Kept(batch) \cup Kept(queue), lost, failed, recorded)
  BY DEF JournalKept, Awaited
<1>7. Ids(Kept(batch) \cup Kept(queue)) = Ids(Kept(batch)) \cup Ids(Kept(queue))
  BY DEF Ids
<1>8. CASE Journal!WroteLog
  <2>1. at = "log" /\ log' = log \o batch /\ Journal!NextBatch
        /\ UNCHANGED <<dropped, json, recorded, lost, failed>>
    BY <1>8 DEF Journal!WroteLog
  <2>2. /\ log' \in Seq(Incident) /\ Kept(log') = Kept(log) \cup Kept(batch)
        /\ Journal!Ascends(log')
    BY <1>1, <2>1, Joined DEF Lines
  <2>3. Below(log', queue)
    BY <1>1, <2>2 DEF Lines, Below
  <2>4. Ids(Kept(log')) = Ids(Kept(log)) \cup Ids(Kept(batch))
    BY <2>2 DEF Ids
  <2>5. Accounted(Kept(log'), Kept(queue), lost, failed, recorded)
    BY <1>6, <1>7, <2>4 DEF Accounted
  <2> QED
    BY <1>5, <2>1, <2>2, <2>3, <2>5
<1>9. CASE Journal!WriteFails
  <2>1. failed' = failed \cup Journal!Listed(batch) /\ Journal!NextBatch
        /\ UNCHANGED <<dropped, json, log, recorded, lost>>
    BY <1>9 DEF Journal!WriteFails
  <2>2. Journal!Listed(batch) = Ids(Kept(batch))
    BY <1>1 DEF Journal!Listed, Ids, Kept
  <2>3. Accounted(Kept(log), Kept(queue), lost, failed', recorded)
    BY <1>6, <1>7, <2>1, <2>2 DEF Accounted
  <2>4. Journal!Ascends(log') /\ Below(log', queue)
    BY <1>1, <2>1 DEF Lines
  <2> QED
    BY <1>1, <1>5, <2>1, <2>3, <2>4
<1>10. CASE Journal!Flush
  <2>1. /\ flush.state = "no" /\ Journal!ScheduleDrain(queue)
        /\ flush' = [state |-> IF at = "off" /\ queue = <<>> THEN "done" ELSE "waiting", upto |-> recorded]
        /\ UNCHANGED <<dropped, json, log, recorded, lost, failed>>
    BY <1>10 DEF Journal!Flush
  <2>2. Lines(json, log, batch, queue, at)' /\ Awaited' = Awaited
    BY <1>1, <2>1, DrainScheduled DEF Lines, Awaited
  <2>3. flush'.state = "done" => Awaited = {}
    <3>1. ASSUME at = "off"
          PROVE  Awaited = {}
      BY <1>1, <3>1, NothingKept DEF Lines, Awaited
    <3> QED
      BY <2>1, <3>1
  <2>4. SeenOut(Awaited, flush', recorded)
    <3>1. DOMAIN flush' = {"state", "upto"} /\ flush'.upto = recorded
      BY <2>1
    <3> QED
      BY <1>1, <2>3, <3>1 DEF SeenOut
  <2> QED
    BY <2>1, <2>2, <2>4 DEF JournalKept
<1> QED
  BY <1>2, <1>3, <1>4, <1>8, <1>9, <1>10 DEF Journal!JournalNext, Journal!Writer

-----------------------------------------------------------------------------
(* Everything that goes on by itself                                       *)

\* Each part as it is while it moves; the others rest as they began.
PageKept ==
  /\ part = "run" => StepsFollow /\ RunRowsFollow
  /\ part = "buttons" => ButtonRowsFollow
  /\ part = "players" => PlayersKept
RecordsKept ==
  /\ part = "journal" => JournalKept
  /\ part = "photos" => Photos
  /\ part = "reports" => Reports
  /\ part = "socket" => ProbesKept /\ ClosedKept

LEMMA Bounds == MaxProbes \in Nat /\ MaxQueued \in Nat \ {0}
BY BackgroundAssumption DEF Socket!SocketAssumption, Journal!JournalAssumption

LEMMA BackgroundBegins == Init => PageKept /\ RecordsKept
BY Bounds, RunBegins, RunRowsBegin, ButtonRowsBegin, PlayersBegin, JournalBegins, PhotosBegin,
   ReportsBegin, SocketBegins
   DEF Init, PageKept, RecordsKept

\* A step of the players, the run or the buttons is one of their own; all others leave them.
LEMMA PageStep == ASSUME PageKept, [Next]_backgroundVars PROVE PageKept'
<1>1. UNCHANGED part
  BY DEF Next, backgroundVars
<1>2. ASSUME part = "run" PROVE StepsFollow' /\ RunRowsFollow'
  <2>1. CASE Run!TilesNext
    BY <1>2, <2>1, StepsStep, RunRowsStep DEF PageKept
  <2>2. CASE UNCHANGED tiles
    BY <1>2, <2>2, StepsRest, RunRowsRest DEF PageKept, tiles
  <2> QED
    BY <1>2, <2>1, <2>2 DEF Next, backgroundVars
<1>3. ASSUME part = "buttons" PROVE ButtonRowsFollow'
  <2>1. CASE Buttons!TilesNext
    BY <1>3, <2>1, ButtonRowsStep DEF PageKept
  <2>2. CASE UNCHANGED tiles
    BY <1>3, <2>2, ButtonRowsRest DEF PageKept, tiles
  <2> QED
    BY <1>3, <2>1, <2>2 DEF Next, backgroundVars
<1>4. ASSUME part = "players" PROVE PlayersKept'
  <2>1. CASE Players!PlaybackNext
    BY <1>4, <2>1, PlayersStep DEF PageKept
  <2>2. CASE UNCHANGED players
    BY <1>4, <2>2 DEF PageKept, players, PlayersKept, Shown, OnTheirPage
  <2> QED
    BY <1>4, <2>1, <2>2 DEF Next, backgroundVars
<1> QED
  BY <1>1, <1>2, <1>3, <1>4 DEF PageKept

LEMMA RecordsStep == ASSUME RecordsKept, [Next]_backgroundVars PROVE RecordsKept'
<1>1. UNCHANGED part
  BY DEF Next, backgroundVars
<1>2. ASSUME part = "journal" PROVE JournalKept'
  <2>1. CASE Journal!JournalNext
    BY <1>2, <2>1, Bounds, JournalStep DEF RecordsKept
  <2>2. CASE UNCHANGED journal
    <3>1. Awaited' = Awaited
      BY <2>2 DEF journal, Awaited
    <3> QED
      BY <1>2, <2>2, <3>1 DEF RecordsKept, journal, JournalKept
  <2> QED
    BY <1>2, <2>1, <2>2 DEF Next, backgroundVars
<1>3. ASSUME part = "photos" PROVE Photos'
  <2>1. CASE Uploads!PhotosNext
    BY <1>3, <2>1, PhotosStep DEF RecordsKept
  <2>2. CASE UNCHANGED photos
    BY <1>3, <2>2
       DEF RecordsKept, photos, Photos, Uploads!StoredPhotosAreKept, Uploads!Duplicate
  <2> QED
    BY <1>3, <2>1, <2>2 DEF Next, backgroundVars
<1>4. ASSUME part = "reports" PROVE Reports'
  <2>1. CASE Uploads!ReportsNext
    BY <1>4, <2>1, ReportsStep DEF RecordsKept
  <2>2. CASE UNCHANGED reports
    BY <1>4, <2>2 DEF RecordsKept, reports, Reports, Uploads!AckedIsPersisted
  <2> QED
    BY <1>4, <2>1, <2>2 DEF Next, backgroundVars
<1>5. ASSUME part = "socket" PROVE ProbesKept' /\ ClosedKept'
  <2>1. CASE Socket!SocketNext
    BY <1>5, <2>1, Bounds, SocketStep DEF RecordsKept
  <2>2. CASE UNCHANGED socket
    BY <1>5, <2>2 DEF RecordsKept, socket, ProbesKept, ClosedKept, Socket!ProbesAreTheirOwn
  <2> QED
    BY <1>5, <2>1, <2>2 DEF Next, backgroundVars
<1> QED
  BY <1>1, <1>2, <1>3, <1>4, <1>5 DEF RecordsKept

\* Whatever is clicked, answered late or fails meanwhile, the steps of a run and the rows of the
\* buttons say what went out, a retry of the flight page has no rival, and no monitor plays on
\* another page (renderer/main.ts).
THEOREM PageAlwaysTellsItsWork == Spec => []PageTellsItsWork
<1>1. PageKept => PageTellsItsWork
  BY StepsTell, RunRowsTell, ButtonRowsTell, PlayersTell DEF PageKept, PageTellsItsWork
<1> QED
  BY <1>1, BackgroundBegins, PageStep, PTL DEF Spec

\* Whatever is dropped, fails, is lost or comes late, the journal keeps its order and its worse
\* entries, a flush sees its records out, a phone forgets only what is kept, and a connection
\* ends once with its measurements its own (incident-journal.ts, media-intake, relay-link and
\* node-websocket-relay).
THEOREM RecordsAreAlwaysKept == Spec => []RecordsAreKept
<1>1. ClosedKept => Socket!ClosedOnce
  BY DEF ClosedKept, Socket!ClosedOnce
<1>2. RecordsKept => RecordsAreKept
  BY <1>1, JournalTells DEF RecordsKept, RecordsAreKept, Photos, Reports, ProbesKept
<1> QED
  BY <1>2, BackgroundBegins, RecordsStep, PTL DEF Spec
=============================================================================
