------------------------------ MODULE PhotoLane ------------------------------
(***************************************************************************)
(* The photos of a phone (src/modules/camera-photo-control): the photo     *)
(* dispatcher, and the inbox that the photos reach on their own way, before *)
(* or after the answer to the fetch that asked for them.                   *)
(***************************************************************************)
EXTENDS DeviceCalls

CONSTANTS FileName, Digest

VARIABLES
  photo,         \* sessions of the dispatcher, by device
  inbox          \* photos listed as stored, by device

photoVars == <<photo, inbox>>

Photo == [fileName : FileName, sha256 : Digest]
PhotoPhases == {"idle", "capturing", "captured", "fetching", "stored", "failed", "disconnected"}

\* waiting: storedWaiter is set, and its timer runs.
PhotoSession ==
  [busy : BOOLEAN, phase : PhotoPhases, generation : Nat, waiting : BOOLEAN,
   delivered : Photo \cup {None}, received : SUBSET Photo]

PhotoInit ==
  /\ photo = [d \in Device |->
       [busy |-> FALSE, phase |-> "idle", generation |-> 0, waiting |-> FALSE,
        delivered |-> None, received |-> {}]]
  /\ inbox = [d \in Device |-> {}]

\* release() and finish()
Release(p) == [p EXCEPT !.busy = FALSE, !.waiting = FALSE]
Finish(p, ok) == [p EXCEPT !.phase = IF ok THEN "stored" ELSE "failed"]
HasMatchingDelivery(p) == p.delivered # None /\ p.delivered \in p.received

\* dispatch(), up to its await.
Begun(p, phase) == [p EXCEPT !.busy = TRUE, !.generation = @ + 1, !.phase = phase]

Capture(d) ==
  /\ online[d]
  /\ ~photo[d].busy
  /\ "camera" \in links[d]
  /\ photo' = [photo EXCEPT ![d] = Begun(@, "capturing")]
  /\ Issue(d, "camera.photo.capture", photo[d].generation + 1, 0, calls)
  /\ UNCHANGED <<inbox, online, session, links>>

Fetch(d) ==
  /\ online[d]
  /\ ~photo[d].busy
  /\ "camera" \in links[d]
  /\ photo' = [photo EXCEPT ![d] =
       [Begun(@, "fetching") EXCEPT !.delivered = None, !.received = {}]]
  /\ Issue(d, "camera.photo.fetch", photo[d].generation + 1, 0, calls)
  /\ UNCHANGED <<inbox, online, session, links>>

\* The continuation of a call of the current generation: it fails, a capture
\* or a delivery is confirmed.
Captured(p) ==
  Release([p EXCEPT !.phase = "captured", !.delivered = None, !.received = {}])

DeliveredReleasing(p, file) ==  \* mutant: the lane is free while it waits
  LET q == [p EXCEPT !.delivered = file]
  IN  IF HasMatchingDelivery(q) THEN Release(Finish(q, TRUE))
      ELSE [q EXCEPT !.waiting = TRUE, !.busy = FALSE]

Delivered(p, file) ==
  LET q == [p EXCEPT !.delivered = file]
  IN  IF HasMatchingDelivery(q) THEN Release(Finish(q, TRUE))
      ELSE [q EXCEPT !.waiting = TRUE]

Answers(p, c) ==
  {Release(Finish(p, FALSE))}
    \cup IF c.late THEN {}
         ELSE IF c.command = "camera.photo.capture" THEN {Captured(p)}
         ELSE {Delivered(p, file) : file \in Photo}

AfterPhotoAwaitAnyGeneration(p, c) ==  \* mutant: an answer is always applied
  Answers(p, c)

\* The answer to a call of a former generation only releases the lane.
AfterPhotoAwait(p, c) == IF c.generation # p.generation THEN {Release(p)} ELSE Answers(p, c)

AnswerPhoto(c) ==
  /\ c.command \in PhotoCommands
  /\ \E p \in AfterPhotoAwait(photo[c.device], c) : photo' = [photo EXCEPT ![c.device] = p]
  /\ Ends(c)
  /\ UNCHANGED <<inbox, online, session, links>>

\* The timer of the waiter.
StoredTimeout(d) ==
  /\ photo[d].waiting
  /\ photo' = [photo EXCEPT ![d] = Release(Finish(@, FALSE))]
  /\ UNCHANGED <<inbox, callVars>>

\* recordStored()
Expected(p, file) ==
  /\ p.phase = "fetching" \/ p.waiting
  /\ p.delivered # None => p.delivered.fileName = file.fileName

Received(p, file) ==
  LET q == [p EXCEPT !.received =
              {r \in @ : r.fileName # file.fileName} \cup {file}]
  IN  IF ~HasMatchingDelivery(q) THEN q
      ELSE IF q.waiting THEN Release(Finish(q, TRUE))
      ELSE Finish(q, TRUE)

RecordStored(p, file) == IF Expected(p, file) THEN Received(p, file) ELSE p

\* accept(): a photo of a name or of a digest the inbox has is a duplicate and
\* not written.  One that cannot be written is rejected and changes nothing.
Duplicate(d, file) ==
  \E stored \in inbox[d] : stored.fileName = file.fileName \/ stored.sha256 = file.sha256

PhotoArrivesRejectedToo(d, file) ==  \* mutant: a rejected photo is recorded
  /\ online[d]
  /\ \/ UNCHANGED inbox
     \/ ~Duplicate(d, file) /\ inbox' = [inbox EXCEPT ![d] = @ \cup {file}]
  /\ photo' = [photo EXCEPT ![d] = RecordStored(@, file)]
  /\ UNCHANGED callVars

\* onPhoto(): the file is complete and its digest checked.
PhotoArrives(d, file) ==
  /\ online[d]
  /\ inbox' = [inbox EXCEPT ![d] = IF Duplicate(d, file) THEN @ ELSE @ \cup {file}]
  /\ photo' = [photo EXCEPT ![d] = RecordStored(@, file)]
  /\ UNCHANGED callVars

\* recordDisconnected()
PhotoDisconnected(p) == Release([p EXCEPT !.generation = @ + 1, !.phase = "disconnected"])
=============================================================================
