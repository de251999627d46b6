------------------------- MODULE DocumentScanProofs -------------------------
(* Proofs about DocumentScan, for any documents, any scanner's verdicts, any  *)
(* number of attempts and of deaths of the worker: no document is lost on its *)
(* way to the store, and the store holds whole and clean files only.          *)
EXTENDS DocumentScan, TLAPS

LEMMA InitInv == ASSUME Init PROVE StoreInv
BY DocumentScanAssumption DEF Init, StoreInv, TypeOK, WorkerKnows, TriesLeft, KeptUntilStored,
  StoredWhole, InfectedStaysOut, Idle, Files, Steps

-----------------------------------------------------------------------------
(* The upload touches only documents without a row.                           *)
LEMMA UploadInv == ASSUME StoreInv, NEW d \in Docs, UploadNext(d) PROVE StoreInv'
<1> USE DEF rows, files
<1>1. /\ status[d] = "NONE"
      /\ UNCHANGED <<attempts, lease, due, temporary, target, worker, crashes>>
      /\ \A e \in Docs \ {d} : status'[e] = status[e] /\ quarantine'[e] = quarantine[e]
      /\ status'[d] = "NONE" \/ (status'[d] = "QUARANTINED" /\ quarantine'[d] = "WHOLE")
  BY DEF UploadNext, StartUpload, ReceiveAll, CommitUpload, RejectUpload, Uploading,
    Received, StoreInv, TypeOK
<1>2. TypeOK'
  BY <1>1 DEF UploadNext, StartUpload, ReceiveAll, CommitUpload, RejectUpload, StoreInv,
    TypeOK, Files
<1>3. worker # Idle => worker.doc \in Docs \ {d}
  BY <1>1 DEF StoreInv, TypeOK, WorkerKnows, Idle
<1>4. WorkerKnows'
  BY <1>1, <1>3 DEF StoreInv, WorkerKnows
<1>5. TriesLeft' /\ KeptUntilStored' /\ StoredWhole' /\ InfectedStaysOut'
  BY <1>1, <1>3 DEF StoreInv, TriesLeft, KeptUntilStored, StoredWhole, InfectedStaysOut,
    Idle, TypeOK
<1>6. QED  BY <1>2, <1>4, <1>5 DEF StoreInv

-----------------------------------------------------------------------------
(* The worker.                                                                *)

LEMMA ClaimInv == ASSUME StoreInv, NEW d \in Docs, Claim(d) PROVE StoreInv'
<1> USE DocumentScanAssumption DEF StoreInv, Claim, files, Idle
<1>1. TypeOK'
  BY DEF TypeOK, TriesLeft, Steps
<1>2. WorkerKnows' /\ TriesLeft'
  BY DEF TypeOK, WorkerKnows, TriesLeft
<1>3. KeptUntilStored' /\ StoredWhole' /\ InfectedStaysOut'
  BY DEF KeptUntilStored, StoredWhole, InfectedStaysOut
<1>4. QED  BY <1>1, <1>2, <1>3

(* Steps between the claim and the last transaction write no row.             *)
LEMMA FileStepInv ==
  ASSUME StoreInv, NEW d \in Docs,
         Look(d) \/ StartCopy(d) \/ EndCopy(d) \/ DiscardCopy(d) \/ Fail(d)
  PROVE  StoreInv'
<1> USE DEF Goto, At, rows, files
<1>1. /\ worker.doc = d /\ worker # Idle /\ worker'.doc = d
      /\ UNCHANGED <<status, attempts, lease, due, quarantine, target, crashes>>
  BY DocumentScanAssumption DEF Look, StartCopy, EndCopy, DiscardCopy, Fail, Idle, StoreInv, TypeOK
<1>2. TypeOK'
  BY <1>1 DEF Look, StartCopy, EndCopy, DiscardCopy, Fail, StoreInv, TypeOK, Files, Steps, Idle
<1>3. WorkerKnows'
  BY <1>1 DEF Look, StartCopy, EndCopy, DiscardCopy, Fail, Found, StoreInv, TypeOK,
    WorkerKnows, StoredWhole, Files, Idle
<1>4. TriesLeft' /\ KeptUntilStored' /\ StoredWhole' /\ InfectedStaysOut'
  BY <1>1 DEF StoreInv, TriesLeft, KeptUntilStored, StoredWhole, InfectedStaysOut
<1>5. QED  BY <1>2, <1>3, <1>4 DEF StoreInv

(* Only a copy with the expected hash is moved.                               *)
LEMMA MoveInv == ASSUME StoreInv, NEW d \in Docs, Move(d) PROVE StoreInv'
<1> USE DEF Goto, At, rows, files
<1>1. /\ target' = [target EXCEPT ![d] = "WHOLE"] /\ worker' = [doc |-> d, at |-> "REMOVE"]
      /\ worker.doc = d /\ worker # Idle /\ d \notin Infected
      /\ UNCHANGED <<status, attempts, lease, due, quarantine, crashes>>
  BY DEF Move, HashMatches, StoreInv, WorkerKnows, Idle
<1>2. TypeOK'
  BY <1>1 DEF Move, StoreInv, TypeOK, Files, Steps
<1>3. WorkerKnows' /\ TriesLeft'
  BY <1>1 DEF StoreInv, TypeOK, WorkerKnows, TriesLeft
<1>4. KeptUntilStored' /\ StoredWhole' /\ InfectedStaysOut'
  BY <1>1 DEF StoreInv, TypeOK, KeptUntilStored, StoredWhole, InfectedStaysOut
<1>5. QED  BY <1>2, <1>3, <1>4 DEF StoreInv

(* The quarantine file goes once the file is in its place.                    *)
LEMMA RemoveInv == ASSUME StoreInv, NEW d \in Docs, RemoveQuarantined(d) PROVE StoreInv'
<1> USE DEF Goto, At, rows, files
<1>1. /\ quarantine' = [quarantine EXCEPT ![d] = "NONE"] /\ worker' = [doc |-> d, at |-> "FINISH"]
      /\ worker.doc = d /\ worker # Idle /\ target[d] = "WHOLE"
      /\ UNCHANGED <<status, attempts, lease, due, temporary, target, crashes>>
  BY DEF RemoveQuarantined, StoreInv, WorkerKnows, Idle
<1>2. TypeOK'
  BY <1>1 DEF StoreInv, TypeOK, Files, Steps
<1>3. WorkerKnows' /\ TriesLeft'
  BY <1>1 DEF StoreInv, TypeOK, WorkerKnows, TriesLeft, Idle
<1>4. KeptUntilStored' /\ StoredWhole' /\ InfectedStaysOut'
  BY <1>1 DEF StoreInv, TypeOK, KeptUntilStored, StoredWhole, InfectedStaysOut
<1>5. QED  BY <1>2, <1>3, <1>4 DEF StoreInv

(* The last transaction of an attempt.                                        *)
LEMMA LastStepInv ==
  ASSUME StoreInv, NEW d \in Docs, Finish(d) \/ GiveUp(d) \/ TryLater(d) PROVE StoreInv'
<1> USE DocumentScanAssumption DEF At, files, Idle
<1>1. /\ worker.doc = d /\ worker # Idle /\ worker' = Idle
      /\ UNCHANGED <<attempts, quarantine, temporary, target, crashes>>
      /\ \A e \in Docs \ {d} : status'[e] = status[e]
      /\ \/ status'[d] = "FAILED"
         \/ status'[d] = "AVAILABLE" /\ target[d] = "WHOLE"
         \/ status'[d] = "QUARANTINED" /\ status[d] = "QUARANTINED" /\ attempts[d] < MaxAttempts
  BY DEF Finish, GiveUp, TryLater, NoTryLeft, StoreInv, TypeOK, WorkerKnows
<1>2. TypeOK'
  <2>1. /\ status' \in [Docs -> {"NONE", "QUARANTINED", "AVAILABLE", "FAILED"}]
        /\ lease' \in [Docs -> {"NONE", "HELD", "EXPIRED"}]
        /\ due' \in [Docs -> BOOLEAN]
    BY DEF Finish, GiveUp, TryLater, StoreInv, TypeOK
  <2>2. QED  BY <1>1, <2>1 DEF StoreInv, TypeOK
<1>3. WorkerKnows' /\ TriesLeft'
  BY <1>1 DEF StoreInv, TypeOK, WorkerKnows, TriesLeft
<1>4. KeptUntilStored' /\ StoredWhole' /\ InfectedStaysOut'
  BY <1>1 DEF StoreInv, KeptUntilStored, StoredWhole, InfectedStaysOut
<1>5. QED  BY <1>2, <1>3, <1>4 DEF StoreInv

(* Deaths and the clock.                                                      *)
LEMMA CrashInv == ASSUME StoreInv, Crash PROVE StoreInv'
<1> USE DocumentScanAssumption DEF Crash, rows, files, Idle
<1>1. TypeOK'
  BY DEF StoreInv, TypeOK
<1>2. WorkerKnows' /\ TriesLeft'
  BY DEF StoreInv, TypeOK, WorkerKnows, TriesLeft
<1>3. KeptUntilStored' /\ StoredWhole' /\ InfectedStaysOut'
  BY DEF StoreInv, KeptUntilStored, StoredWhole, InfectedStaysOut
<1>4. QED  BY <1>1, <1>2, <1>3 DEF StoreInv

LEMMA ClockInv ==
  ASSUME StoreInv, NEW d \in Docs, LeaseExpires(d) \/ BackoffEnds(d) PROVE StoreInv'
<1>1. UNCHANGED <<status, attempts, quarantine, temporary, target, worker, crashes>>
  BY DEF LeaseExpires, BackoffEnds, files
<1>2. TypeOK'
  BY <1>1 DEF LeaseExpires, BackoffEnds, StoreInv, TypeOK
<1>3. WorkerKnows' /\ TriesLeft'
  BY <1>1 DEF StoreInv, WorkerKnows, TriesLeft
<1>4. KeptUntilStored' /\ StoredWhole' /\ InfectedStaysOut'
  BY <1>1 DEF StoreInv, KeptUntilStored, StoredWhole, InfectedStaysOut
<1>5. QED  BY <1>2, <1>3, <1>4 DEF StoreInv

LEMMA NextInv == StoreInv /\ [Next]_vars => StoreInv'
<1> SUFFICES ASSUME StoreInv, [Next]_vars PROVE StoreInv'
  OBVIOUS
<1>1. CASE UNCHANGED vars
  BY <1>1 DEF vars, rows, files, StoreInv, TypeOK, WorkerKnows, TriesLeft, KeptUntilStored,
    StoredWhole, InfectedStaysOut
<1>2. ASSUME NEW d \in Docs, Step(d) PROVE StoreInv'
  BY <1>2, FileStepInv, MoveInv, RemoveInv, LastStepInv DEF Step
<1>3. CASE Next
  BY <1>2, <1>3, UploadInv, ClaimInv, CrashInv, ClockInv DEF Next
<1>4. QED  BY <1>1, <1>3

-----------------------------------------------------------------------------
(* Progress.  A step is about one document, or none; the others are where     *)
(* they were, in nobody's hands.                                              *)

Touches(d) == UploadNext(d) \/ Claim(d) \/ Step(d) \/ LeaseExpires(d) \/ BackoffEnds(d)

LEMMA OthersStand ==
  ASSUME IInv, NEW e \in Docs, Touches(e), NEW d \in Docs \ {e}
  PROVE  /\ RowAndFiles(d)' = RowAndFiles(d) /\ Place(d)' = Place(d)
         /\ worker'.doc = d <=> worker.doc = d
<1> USE DEF IInv, StoreInv, TypeOK, rows, files
<1>1. worker'.doc = d <=> worker.doc = d
  BY DocumentScanAssumption DEF Touches, UploadNext, StartUpload, ReceiveAll, CommitUpload,
    RejectUpload, Claim, Step, Look, StartCopy, EndCopy, Move, DiscardCopy,
    RemoveQuarantined, Finish, Fail, GiveUp, TryLater, LeaseExpires, BackoffEnds, At, Goto, Idle
<1>2. worker.doc = d => worker' = worker
  BY DocumentScanAssumption DEF Touches, UploadNext, StartUpload, ReceiveAll, CommitUpload,
    RejectUpload, Claim, Step, Look, StartCopy, EndCopy, Move, DiscardCopy,
    RemoveQuarantined, Finish, Fail, GiveUp, TryLater, LeaseExpires, BackoffEnds, At, Idle
<1>3. Place(d)' = Place(d)
  BY <1>1, <1>2 DEF Place
<1>4. status'[d] = status[d] /\ attempts'[d] = attempts[d]
      /\ lease'[d] = lease[d] /\ due'[d] = due[d]
  BY DEF Touches, UploadNext, StartUpload, ReceiveAll, CommitUpload, RejectUpload, Claim,
    Step, Look, StartCopy, EndCopy, Move, DiscardCopy, RemoveQuarantined, Finish, Fail,
    GiveUp, TryLater, LeaseExpires, BackoffEnds
<1>5. quarantine'[d] = quarantine[d] /\ temporary'[d] = temporary[d] /\ target'[d] = target[d]
  BY DEF Touches, UploadNext, StartUpload, ReceiveAll, CommitUpload, RejectUpload, Claim,
    Step, Look, StartCopy, EndCopy, Move, DiscardCopy, RemoveQuarantined, Finish, Fail,
    GiveUp, TryLater, LeaseExpires, BackoffEnds
<1>6. QED  BY <1>1, <1>3, <1>4, <1>5 DEF RowAndFiles

(* What may happen to the document itself: only one without a row is being    *)
(* uploaded, and only one in quarantine is worked on.                         *)
Onward(d) ==
  \/ /\ status[d] = "NONE" /\ status'[d] \in {"NONE", "QUARANTINED"}
     /\ due'[d] = due[d] /\ worker'.doc # d
  \/ /\ status[d] = "QUARANTINED" /\ GoesOn(d)
     /\ ~due'[d] => status'[d] = "QUARANTINED" /\ worker'.doc # d
     /\ status'[d] \in Ended => lease'[d] = "NONE"

LEMMA OwnUpload ==
  ASSUME IInv, NEW d \in Docs, UploadNext(d) PROVE Onward(d)
<1>1. status[d] = "NONE" /\ UNCHANGED <<due, worker>>
  BY DEF UploadNext, StartUpload, ReceiveAll, CommitUpload, RejectUpload, Uploading, rows
<1>2. status'[d] \in {"NONE", "QUARANTINED"}
  BY <1>1 DEF UploadNext, StartUpload, ReceiveAll, CommitUpload, RejectUpload, rows,
    IInv, StoreInv, TypeOK
<1>3. worker.doc # d
  BY <1>1, DocumentScanAssumption DEF IInv, StoreInv, WorkerKnows, Idle
<1>4. QED  BY <1>1, <1>2, <1>3 DEF Onward

LEMMA OwnClaim == ASSUME IInv, NEW d \in Docs, Claim(d) PROVE Onward(d)
<1>1. attempts'[d] > attempts[d]
  BY DEF Claim, IInv, StoreInv, TypeOK
<1>2. status[d] = "QUARANTINED" /\ status'[d] = "QUARANTINED" /\ due'[d]
  BY DEF Claim, IInv, StoreInv, TypeOK
<1>3. QED  BY <1>1, <1>2 DEF Onward, GoesOn, Ended

(* Within an attempt the worker only moves on.                                *)
LEMMA OwnFileStep ==
  ASSUME IInv, NEW d \in Docs,
         \/ Look(d) \/ StartCopy(d) \/ EndCopy(d) \/ Move(d) \/ DiscardCopy(d)
         \/ RemoveQuarantined(d) \/ Fail(d)
  PROVE  Onward(d)
<1> USE DEF Goto, At, rows
<1>1. /\ worker.doc = d /\ worker'.doc = d
      /\ UNCHANGED <<status, attempts, lease, due>>
  BY DEF Look, StartCopy, EndCopy, Move, DiscardCopy, RemoveQuarantined, Fail, IInv, StoreInv,
    TypeOK, Idle
<1>2. status[d] = "QUARANTINED" /\ due[d]
  BY <1>1, DocumentScanAssumption DEF IInv, StoreInv, WorkerKnows, RowsAtRest, Idle
<1>3. Place(d)' > Place(d)
  BY <1>1 DEF Place, Look, StartCopy, EndCopy, Move, DiscardCopy, RemoveQuarantined, Fail,
    IInv, StoreInv, TypeOK, Idle
<1>4. QED  BY <1>1, <1>2, <1>3 DEF Onward, GoesOn, Ended

LEMMA OwnLastStep ==
  ASSUME IInv, NEW d \in Docs, Finish(d) \/ GiveUp(d) \/ TryLater(d) PROVE Onward(d)
<1> USE DEF At
<1>1. /\ worker.doc = d /\ worker'.doc # d /\ lease'[d] = "NONE"
      /\ UNCHANGED attempts
  BY DocumentScanAssumption DEF Finish, GiveUp, TryLater, IInv, StoreInv, TypeOK, Idle
<1>2. status[d] = "QUARANTINED" /\ due[d]
  BY <1>1, DocumentScanAssumption DEF IInv, StoreInv, WorkerKnows, RowsAtRest, Idle
<1>3. Place(d)' > Place(d)
  BY <1>1 DEF Place
<1>4. \/ status'[d] \in Ended /\ due'[d]
      \/ status'[d] = "QUARANTINED"
  BY <1>2 DEF Finish, GiveUp, TryLater, Ended, IInv, StoreInv, TypeOK
<1>5. QED  BY <1>1, <1>2, <1>3, <1>4 DEF Onward, GoesOn

LEMMA OwnClock ==
  ASSUME IInv, NEW d \in Docs, LeaseExpires(d) \/ BackoffEnds(d)
  PROVE  Onward(d)
<1>1. UNCHANGED <<status, attempts, worker>> /\ Place(d)' = Place(d)
  BY DEF LeaseExpires, BackoffEnds, Place
<1>2. CASE LeaseExpires(d)
  <2>1. lease[d] = "HELD" /\ lease'[d] = "EXPIRED" /\ due' = due
    BY <1>2 DEF LeaseExpires, IInv, StoreInv, TypeOK
  <2>2. status[d] \in {"NONE", "QUARANTINED"}
    BY <2>1 DEF IInv, StoreInv, TypeOK, RowsAtRest, Ended
  <2>3. status[d] = "NONE" => worker.doc # d
    BY DocumentScanAssumption DEF IInv, StoreInv, WorkerKnows, Idle
  <2>4. QED  BY <1>1, <2>1, <2>2, <2>3 DEF Onward, GoesOn, IInv, RowsAtRest, Ended
<1>3. CASE BackoffEnds(d)
  <2>1. ~due[d] /\ due'[d] /\ lease' = lease /\ status[d] = "QUARANTINED"
    BY <1>3 DEF BackoffEnds, IInv, StoreInv, TypeOK, RowsAtRest
  <2>2. QED  BY <1>1, <2>1 DEF Onward, GoesOn, Ended
<1>4. QED  BY <1>2, <1>3

(* A death lets go of a document that waits.                                  *)
LEMMA CrashStep ==
  ASSUME IInv, Crash, NEW d \in Docs
  PROVE  /\ RowAndFiles(d)' = RowAndFiles(d) /\ worker'.doc # d
         /\ Place(d)' # Place(d) => status[d] = "QUARANTINED" /\ Place(d)' > Place(d)
<1>1. UNCHANGED <<rows, files>> /\ worker'.doc # d
  BY DocumentScanAssumption DEF Crash, Idle
<1>2. RowAndFiles(d)' = RowAndFiles(d)
  BY <1>1 DEF rows, files, RowAndFiles
<1>3. worker.doc = d => status[d] = "QUARANTINED"
  BY DocumentScanAssumption DEF IInv, StoreInv, WorkerKnows, Idle
<1>4. QED  BY <1>1, <1>2, <1>3 DEF Place

LEMMA OwnStep == ASSUME IInv, NEW d \in Docs, Touches(d) PROVE Onward(d)
BY OwnUpload, OwnClaim, OwnFileStep, OwnLastStep, OwnClock DEF Touches, Step, Onward

LEMMA RestStep == ASSUME IInv, [Next]_vars PROVE RowsAtRest'
<1>1. CASE UNCHANGED vars
  BY <1>1 DEF vars, rows, IInv, RowsAtRest
<1>2. CASE Crash
  BY <1>2, CrashStep DEF Crash, rows, IInv, RowsAtRest
<1>3. ASSUME NEW e \in Docs, Touches(e) PROVE RowsAtRest'
  <2> SUFFICES ASSUME NEW d \in Docs
               PROVE  /\ ~due'[d] => status'[d] = "QUARANTINED" /\ worker'.doc # d
                      /\ status'[d] \in Ended => lease'[d] = "NONE"
    BY DEF RowsAtRest
  <2>1. CASE d = e
    BY <1>3, <2>1, OwnStep DEF Onward, IInv, RowsAtRest, Ended
  <2>2. CASE d # e
    BY <1>3, <2>2, OthersStand DEF RowAndFiles, IInv, RowsAtRest
  <2>3. QED  BY <2>1, <2>2
<1>4. QED  BY <1>1, <1>2, <1>3 DEF Next, Touches

THEOREM Invariance == Spec => []IInv
<1>1. Init => IInv
  BY InitInv DEF Init, IInv, RowsAtRest, Ended
<1>2. IInv /\ [Next]_vars => IInv'
  BY NextInv, RestStep DEF IInv
<1>3. QED  BY <1>1, <1>2, PTL DEF Spec

LEMMA StoreInvariance == Spec => []StoreInv
<1>1. IInv => StoreInv
  BY DEF IInv
<1>2. QED  BY <1>1, Invariance, PTL

(* Every step on a waiting document takes it forward, and an ended one stays  *)
(* as it is, file and row: with the bound on the attempts in TypeOK, only     *)
(* deaths without end could keep a document from its end.                     *)
THEOREM DocumentsComeForward == Spec => DocumentsGoForward
<1>1. ASSUME IInv, Next, NEW d \in Docs
      PROVE  /\ status[d] \in Ended => RowAndFiles(d)' = RowAndFiles(d)
             /\ /\ status[d] = "QUARANTINED"
                /\ <<RowAndFiles(d), Place(d)>>' # <<RowAndFiles(d), Place(d)>>
                => GoesOn(d)
  <2>1. CASE Crash
    <3>1. attempts'[d] = attempts[d]
      BY <2>1 DEF Crash, rows
    <3>2. /\ RowAndFiles(d)' = RowAndFiles(d)
          /\ Place(d)' # Place(d) => Place(d)' > Place(d)
      BY <1>1, <2>1, CrashStep
    <3>3. Place(d)' # Place(d) => GoesOn(d)
      BY <3>1, <3>2 DEF GoesOn
    <3>4. QED  BY <3>2, <3>3
  <2>2. ASSUME NEW e \in Docs, Touches(e), d # e
        PROVE  /\ RowAndFiles(d)' = RowAndFiles(d)
               /\ <<RowAndFiles(d), Place(d)>>' = <<RowAndFiles(d), Place(d)>>
    BY <1>1, <2>2, OthersStand
  <2>3. ASSUME Touches(d) PROVE status[d] \notin Ended /\ (status[d] = "QUARANTINED" => GoesOn(d))
    BY <1>1, <2>3, OwnStep DEF Onward, Ended
  <2>4. ASSUME NEW e \in Docs, Touches(e)
        PROVE  /\ status[d] \in Ended => RowAndFiles(d)' = RowAndFiles(d)
               /\ /\ status[d] = "QUARANTINED"
                  /\ <<RowAndFiles(d), Place(d)>>' # <<RowAndFiles(d), Place(d)>>
                  => GoesOn(d)
    BY <2>2, <2>3, <2>4
  <2>5. QED  BY <1>1, <2>1, <2>4 DEF Next, Touches
<1>2. IInv /\ [Next]_vars =>
        [\A d \in Docs :
           /\ status[d] \in Ended => RowAndFiles(d)' = RowAndFiles(d)
           /\ /\ status[d] = "QUARANTINED"
              /\ <<RowAndFiles(d), Place(d)>>' # <<RowAndFiles(d), Place(d)>>
              => GoesOn(d)]_vars
  BY <1>1
<1>3. QED  BY <1>2, Invariance, PTL DEF Spec, DocumentsGoForward

(* A document waiting for the scanner is never lost, wherever the worker died *)
(* (process_next_document removes the quarantine file after the move).        *)
THEOREM NoDocumentLost == Spec => []KeptUntilStored
<1>1. StoreInv => KeptUntilStored
  BY DEF StoreInv
<1>2. QED  BY <1>1, StoreInvariance, PTL

(* Readers of the store find whole files, one for each available document.    *)
THEOREM StoreIsWhole == Spec => []StoredWhole
<1>1. StoreInv => StoredWhole
  BY DEF StoreInv
<1>2. QED  BY <1>1, StoreInvariance, PTL

(* A file with malware is never stored.                                       *)
THEOREM StoreIsClean == Spec => []InfectedStaysOut
<1>1. StoreInv => InfectedStaysOut
  BY DEF StoreInv
<1>2. QED  BY <1>1, StoreInvariance, PTL

=============================================================================
