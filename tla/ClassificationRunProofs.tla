----------------------- MODULE ClassificationRunProofs -----------------------
(* Proofs about ClassificationRun, for any runs, documents and workers and    *)
(* any number of claims and of deaths: the invariant of the queue, the result *)
(* that fits the run's safe files, and the answers that come too late.        *)
EXTENDS ClassificationRun, TLAPS

LEMMA InitInv == ASSUME Init PROVE QueueInv
<1> USE ClassificationRunAssumption DEF Init, Idle, NewRun
<1>1. TypeOK
  BY DEF TypeOK, RunRows, Live, Ended
<1>2. LockedWhileProcessed /\ StagedExist /\ WorkerKnows
  BY DEF LockedWhileProcessed, StagedExist, WorkerKnows
<1>3. AnsweredIsScanned /\ TriesLeft /\ OutputFits
  BY DEF AnsweredIsScanned, TriesLeft, OutputFits
<1>4. QED  BY <1>1, <1>2, <1>3 DEF QueueInv

(* A row is a record of RunRows.                                              *)
LEMMA RowsTyped ==
  ASSUME QueueInv, NEW k \in Runs
  PROVE  /\ runs[k] \in RunRows /\ runs[k].attempts \in Nat
         /\ runs[k].staged \subseteq Docs
  BY DEF QueueInv, TypeOK, RunRows

-----------------------------------------------------------------------------
(* A step that changes one run and leaves it unlocked, brings it no result    *)
(* and no claim, and does not make an ended run wait again.                   *)
Unlocks(k) ==
  /\ UNCHANGED <<docs, work, lost>>
  /\ runs' \in [Runs -> RunRows]
  /\ \A j \in Runs \ {k} : runs'[j] = runs[j]
  /\ runs'[k].lockedBy = NoWorker /\ runs'[k].status # "PROCESSING"
  /\ runs'[k].attempts = runs[k].attempts /\ runs'[k].staged = runs[k].staged
  /\ runs'[k].status = "SUCCEEDED" =>
       runs[k].status = "SUCCEEDED" /\ runs'[k].output = runs[k].output
  /\ runs'[k].status \in {"NONE", "DRAFT", "QUEUED"} =>
       runs[k].status \in {"NONE", "DRAFT", "QUEUED"}
  /\ runs'[k].confirmed => runs'[k].status \in {"SUCCEEDED", "FAILED"}

LEMMA UnlocksInv ==
  ASSUME QueueInv, request' \in {"OPEN", "CLOSED"}, NEW k \in Runs, Unlocks(k) PROVE QueueInv'
<1> USE DEF Unlocks, QueueInv
<1>1. TypeOK'
  BY DEF TypeOK
<1>2. LockedWhileProcessed' /\ StagedExist'
  BY DEF LockedWhileProcessed, StagedExist
<1>3. WorkerKnows'
  BY DEF WorkerKnows, Owns, Scanned, Available, TypeOK
<1>4. AnsweredIsScanned' /\ OutputFits'
  BY DEF AnsweredIsScanned, OutputFits, Scanned, Available
<1>5. TriesLeft'
  BY DEF TriesLeft, LockedWhileProcessed, Owns, Live, TypeOK
<1>6. QED  BY <1>1, <1>2, <1>3, <1>4, <1>5

LEMMA ClientRunInv ==
  ASSUME QueueInv, NEW k \in Runs,
         Start(k) \/ CancelRun(k) \/ ManualRun(k) \/ Postpone(k)
           \/ (\E choice \in SUBSET runs[k].staged : Confirm(k, choice))
  PROVE  QueueInv'
<1>1. /\ runs \in [Runs -> RunRows] /\ runs[k] \in RunRows /\ runs[k].staged \subseteq Docs
      /\ request \in {"OPEN", "CLOSED"}
      /\ runs[k].lockedBy # NoWorker <=> runs[k].status = "PROCESSING"
      /\ runs[k].confirmed => runs[k].status \in {"SUCCEEDED", "FAILED"}
      /\ runs[k].status = "PROCESSING" => Scanned(k)
  BY RowsTyped DEF QueueInv, TypeOK, LockedWhileProcessed, AnsweredIsScanned
<1>2. /\ UNCHANGED <<request, docs, work, lost>>
      /\ \A j \in Runs \ {k} : runs'[j] = runs[j]
      /\ runs' = [runs EXCEPT ![k] = runs'[k]]
      /\ runs'[k] \in RunRows => runs' \in [Runs -> RunRows]
  BY <1>1 DEF Start, CancelRun, ManualRun, Postpone, Confirm
<1>3. CASE Start(k)
  <2>1. runs'[k] = [runs[k] EXCEPT !.status = "QUEUED", !.due = TRUE]
    BY <1>1, <1>3 DEF Start
  <2>2. runs'[k] \in RunRows
    BY <1>1, <2>1 DEF RunRows, Live
  <2>3. Unlocks(k)
    BY <1>1, <1>2, <1>3, <2>1, <2>2 DEF Unlocks, Start, RunRows
  <2>4. QED  BY <1>1, <1>2, <2>3, UnlocksInv
<1>4. CASE CancelRun(k)
  <2>1. runs'[k] = [runs[k] EXCEPT !.status = "CANCELLED", !.lockedBy = NoWorker,
                                   !.expired = FALSE]
    BY <1>1, <1>4 DEF CancelRun
  <2>2. runs'[k] \in RunRows
    BY <1>1, <2>1 DEF RunRows, Ended
  <2>3. Unlocks(k)
    BY <1>1, <1>2, <1>4, <2>1, <2>2 DEF Unlocks, CancelRun, RunRows
  <2>4. QED  BY <1>1, <1>2, <2>3, UnlocksInv
<1>5. CASE ManualRun(k)
  <2>1. runs'[k] = [runs[k] EXCEPT !.status = "FAILED", !.output = {},
                                   !.lockedBy = NoWorker, !.expired = FALSE]
    BY <1>1, <1>5 DEF ManualRun
  <2>2. runs'[k] \in RunRows
    BY <1>1, <2>1 DEF RunRows, Ended
  <2>3. Unlocks(k)
    BY <1>1, <1>2, <1>5, <2>1, <2>2 DEF Unlocks, ManualRun, RunRows
  <2>4. QED  BY <1>1, <1>2, <2>3, UnlocksInv
<1>6. CASE Postpone(k)
  <2>1. runs'[k] = [runs[k] EXCEPT !.due = FALSE] /\ runs[k].status = "QUEUED"
    BY <1>1, <1>6 DEF Postpone, Claimable, Live
  <2>2. runs'[k] \in RunRows
    BY <1>1, <2>1 DEF RunRows
  <2>3. Unlocks(k)
    BY <1>1, <1>2, <2>1, <2>2 DEF Unlocks, RunRows
  <2>4. QED  BY <1>1, <1>2, <2>3, UnlocksInv
<1>7. ASSUME NEW choice \in SUBSET runs[k].staged, Confirm(k, choice) PROVE QueueInv'
  <2>1. runs'[k] = [runs[k] EXCEPT !.confirmed = TRUE, !.chosen = choice]
    BY <1>1, <1>7 DEF Confirm
  <2>2. runs'[k] \in RunRows
    BY <1>1, <2>1 DEF RunRows
  <2>3. Unlocks(k)
    BY <1>1, <1>2, <1>7, <2>1, <2>2 DEF Unlocks, Confirm, RunRows
  <2>4. QED  BY <1>1, <1>2, <2>3, UnlocksInv
<1>8. QED  BY <1>3, <1>4, <1>5, <1>6, <1>7

(* A new row has no files and no claims.                                      *)
LEMMA CreateRunInv == ASSUME QueueInv, NEW k \in Runs, CreateRun(k) PROVE QueueInv'
<1> USE ClassificationRunAssumption DEF QueueInv
<1>1. /\ UNCHANGED <<request, docs, work, lost>>
      /\ runs' = [runs EXCEPT ![k] = NewRun("DRAFT")] /\ runs[k].status = "NONE"
  BY DEF CreateRun
<1>2. TypeOK'
  BY <1>1 DEF TypeOK, RunRows, NewRun
<1>3. LockedWhileProcessed' /\ StagedExist' /\ AnsweredIsScanned' /\ OutputFits'
  BY <1>1 DEF LockedWhileProcessed, StagedExist, AnsweredIsScanned, OutputFits, Scanned,
    Available, NewRun, TypeOK
<1>4. WorkerKnows'
  BY <1>1 DEF WorkerKnows, Owns, Scanned, Available, NewRun, TypeOK
<1>5. TriesLeft'
  BY <1>1 DEF TriesLeft, Owns, NewRun, TypeOK
<1>6. QED  BY <1>2, <1>3, <1>4, <1>5

(* A draft's files are nobody's concern yet, and a document that is added to  *)
(* it keeps its status if another run has it.                                 *)
LEMMA StageInv ==
  ASSUME QueueInv, NEW k \in Runs, NEW d \in Docs, Stage(k, d) PROVE QueueInv'
<1> USE DEF QueueInv
<1>1. /\ UNCHANGED <<request, work, lost>> /\ runs[k].status = "DRAFT"
      /\ runs' = [runs EXCEPT ![k].staged = @ \cup {d}]
      /\ \A e \in Docs : docs[e] # "ABSENT" => docs'[e] = docs[e]
      /\ docs'[d] # "ABSENT"
  BY DEF Stage, TakesFiles, TypeOK
<1>2. TypeOK'
  BY <1>1 DEF TypeOK, RunRows, Stage
<1>3. \A j \in Runs : /\ runs'[j].status = runs[j].status
                      /\ runs'[j].lockedBy = runs[j].lockedBy
                      /\ runs'[j].attempts = runs[j].attempts
                      /\ runs'[j].expired = runs[j].expired
                      /\ runs'[j].output = runs[j].output
                      /\ runs'[j].confirmed = runs[j].confirmed
                      /\ runs[j].status # "DRAFT" => runs'[j] = runs[j]
  BY <1>1 DEF TypeOK, RunRows
<1>4. \A j \in Runs : \A e \in runs[j].staged : e \in Docs /\ docs'[e] = docs[e]
  BY <1>1, RowsTyped DEF StagedExist
<1>5. LockedWhileProcessed' /\ TriesLeft'
  BY <1>1, <1>3 DEF LockedWhileProcessed, TriesLeft, Owns, TypeOK
<1>6. StagedExist'
  BY <1>1, <1>4, RowsTyped DEF StagedExist, TypeOK
<1>7. AnsweredIsScanned' /\ OutputFits'
  BY <1>3, <1>4 DEF AnsweredIsScanned, OutputFits, Scanned, Available
<1>8. WorkerKnows'
  BY <1>1, <1>3, <1>4 DEF WorkerKnows, Owns, Scanned, Available, TypeOK
<1>9. QED  BY <1>2, <1>5, <1>6, <1>7, <1>8

(* Moves of the request concern nobody's invariant.                           *)
LEMMA MoveRequestInv == ASSUME QueueInv, MoveRequest PROVE QueueInv'
<1>1. UNCHANGED <<docs, runs, work, lost>> /\ request' \in {"OPEN", "CLOSED"}
  BY DEF MoveRequest
<1>2. TypeOK' /\ LockedWhileProcessed' /\ StagedExist' /\ TriesLeft'
  BY <1>1 DEF QueueInv, TypeOK, LockedWhileProcessed, StagedExist, TriesLeft, Owns
<1>3. WorkerKnows' /\ AnsweredIsScanned' /\ OutputFits'
  BY <1>1 DEF QueueInv, WorkerKnows, AnsweredIsScanned, OutputFits, Owns, Scanned, Available
<1>4. QED  BY <1>2, <1>3 DEF QueueInv

-----------------------------------------------------------------------------
(* A document that is being scanned belongs to no run that has an owner or a  *)
(* result.                                                                    *)
LEMMA ScanInv == ASSUME QueueInv, NEW d \in Docs, Scan(d) PROVE QueueInv'
<1>1. /\ UNCHANGED <<request, runs, work, lost>> /\ docs[d] = "QUARANTINED"
      /\ docs' \in [Docs -> {"ABSENT", "QUARANTINED", "AVAILABLE", "FAILED"}]
      /\ docs'[d] \in {"AVAILABLE", "FAILED"}
      /\ \A e \in Docs \ {d} : docs'[e] = docs[e]
  BY DEF Scan, QueueInv, TypeOK
<1>2. TypeOK' /\ LockedWhileProcessed' /\ TriesLeft'
  BY <1>1 DEF QueueInv, TypeOK, LockedWhileProcessed, TriesLeft, Owns
<1>3. StagedExist'
  BY <1>1, RowsTyped DEF QueueInv, StagedExist
<1>4. ASSUME NEW k \in Runs, Scanned(k)
      PROVE  Scanned(k)' /\ Available(k)' = Available(k)
  <2>1. \A e \in runs[k].staged : e \in Docs \ {d}
    BY <1>1, <1>4, RowsTyped DEF Scanned
  <2>2. QED  BY <1>1, <1>4, <2>1 DEF Scanned, Available
<1>5. AnsweredIsScanned'
  BY <1>1, <1>4 DEF QueueInv, AnsweredIsScanned
<1>6. OutputFits'
  BY <1>1, <1>4 DEF QueueInv, OutputFits, AnsweredIsScanned
<1>7. WorkerKnows'
  <2>1. ASSUME NEW w \in Workers, work[w].run # NoRun, Owns(w)
        PROVE  Scanned(work[w].run)' /\ work[w].available = Available(work[w].run)'
    <3>1. /\ work[w].run \in Runs /\ Scanned(work[w].run)
          /\ work[w].available = Available(work[w].run)
      BY <2>1 DEF QueueInv, TypeOK, WorkerKnows
    <3>2. Scanned(work[w].run)' /\ Available(work[w].run)' = Available(work[w].run)
      BY <1>1, <1>4, <3>1
    <3>3. QED  BY <3>1, <3>2
  <2>2. \A w \in Workers : Owns(w)' <=> Owns(w)
    BY <1>1 DEF Owns
  <2>3. QED  BY <1>1, <2>1, <2>2 DEF QueueInv, WorkerKnows
<1>8. QED  BY <1>2, <1>3, <1>5, <1>6, <1>7 DEF QueueInv

(* A run is claimed when all its files are scanned, and while it is locked it *)
(* takes no more: the worker's list stays what the run has.                   *)
LEMMA ClaimInv ==
  ASSUME QueueInv, NEW w \in Workers, NEW k \in Runs, Claim(w, k) PROVE QueueInv'
<1>1. /\ UNCHANGED <<request, docs, lost>> /\ work[w].run = NoRun
      /\ runs[k].status \in {"QUEUED", "PROCESSING"} /\ Scanned(k)
      /\ runs[k].lockedBy = NoWorker \/ runs[k].expired
  BY DEF Claim, Claimable, Free, Idle, Live
<1>2. /\ runs \in [Runs -> RunRows] /\ runs[k] \in RunRows /\ lost \in Nat
      /\ work \in [Workers -> [run : Runs \cup {NoRun}, available : SUBSET Docs]]
      /\ Available(k) \subseteq Docs /\ runs[k].attempts \in Nat
  BY RowsTyped DEF QueueInv, TypeOK, Available
<1>3. /\ runs'[k] = [runs[k] EXCEPT !.status = "PROCESSING", !.lockedBy = w,
                                    !.expired = FALSE, !.attempts = @ + 1]
      /\ runs' \in [Runs -> RunRows]
  <2>1. runs' = [runs EXCEPT ![k] =
          [runs[k] EXCEPT !.status = "PROCESSING", !.lockedBy = w,
                          !.expired = FALSE, !.attempts = @ + 1]]
    BY <1>2 DEF Claim
  <2>2. [runs[k] EXCEPT !.status = "PROCESSING", !.lockedBy = w,
                        !.expired = FALSE, !.attempts = @ + 1] \in RunRows
    <3>1. runs[k] \in RunRows /\ runs[k].attempts + 1 \in Nat
      BY <1>2
    <3>2. QED  BY <3>1 DEF RunRows, Live
  <2>3. QED  BY <1>2, <2>1, <2>2
<1>4. /\ runs'[k].status = "PROCESSING" /\ runs'[k].lockedBy = w
      /\ runs'[k].attempts = runs[k].attempts + 1 /\ runs'[k].staged = runs[k].staged
  BY <1>2, <1>3 DEF RunRows
<1>5. ~runs'[k].expired /\ (runs'[k].confirmed => runs[k].confirmed)
  BY <1>2, <1>3 DEF RunRows
<1>6. \A j \in Runs \ {k} : runs'[j] = runs[j]
  BY <1>2 DEF Claim
<1>7. /\ work'[w].run = k /\ work'[w].available = Available(k)
      /\ \A v \in Workers \ {w} : work'[v] = work[v]
      /\ work' \in [Workers -> [run : Runs \cup {NoRun}, available : SUBSET Docs]]
  BY <1>2 DEF Claim
<1>8. runs[k].attempts < MaxAttempts + lost
  <2>1. ~(\E v \in Workers : work[v].run = k /\ Owns(v) /\ ~runs[k].expired)
    BY <1>1, ClassificationRunAssumption DEF Owns
  <2>2. QED  BY <1>1, <2>1 DEF QueueInv, TriesLeft, Live
<1>9. TypeOK'
  <2>1. \A j \in Runs : runs'[j].attempts <= MaxAttempts + lost'
    BY <1>1, <1>2, <1>4, <1>6, <1>8, ClassificationRunAssumption DEF QueueInv, TypeOK
  <2>2. QED  BY <1>1, <1>3, <1>7, <2>1 DEF QueueInv, TypeOK
<1>10. LockedWhileProcessed' /\ StagedExist'
  BY <1>1, <1>4, <1>6, ClassificationRunAssumption DEF QueueInv, LockedWhileProcessed, StagedExist
<1>11. /\ Scanned(k)' /\ Available(k)' = Available(k)
       /\ \A j \in Runs \ {k} : /\ Scanned(j)' = Scanned(j)
                                 /\ Available(j)' = Available(j)
  BY <1>1, <1>4, <1>6 DEF Scanned, Available
<1>12. OutputFits'
  BY <1>4, <1>6, <1>11 DEF QueueInv, OutputFits
<1>13. AnsweredIsScanned'
  <2>1. ~runs'[k].confirmed
    BY <1>1, <1>5 DEF QueueInv, AnsweredIsScanned
  <2>2. QED  BY <1>6, <1>11, <2>1 DEF QueueInv, AnsweredIsScanned
<1>14. WorkerKnows'
  <2>1. ASSUME NEW v \in Workers
        PROVE  /\ work'[v] = Idle \/ work'[v].run \in Runs
               /\ work'[v].run # NoRun /\ Owns(v)' =>
                    Scanned(work[v].run)' /\ work'[v].available = Available(work[v].run)'
    <3>1. CASE v = w
      BY <1>7, <1>11, <3>1
    <3>2. CASE v # w /\ work[v].run # k
      BY <1>6, <1>7, <1>11, <3>2 DEF QueueInv, WorkerKnows, Owns, Idle
    <3>3. CASE v # w /\ work[v].run = k
      BY <1>4, <1>7, <3>3 DEF Owns
    <3>4. QED  BY <3>1, <3>2, <3>3
  <2>2. QED  BY <2>1 DEF WorkerKnows
<1>15. TriesLeft'
  <2>1. Owns(w)' /\ work'[w].run = k /\ ~runs'[k].expired
    BY <1>4, <1>5, <1>7 DEF Owns
  <2>2. ASSUME NEW j \in Runs \ {k}, NEW v \in Workers,
               work[v].run = j, Owns(v), ~runs[j].expired
        PROVE  work'[v].run = j /\ Owns(v)' /\ ~runs'[j].expired
    <3>1. work'[v] = work[v] /\ runs'[j] = runs[j]
      BY <1>1, <1>6, <1>7, <2>2, ClassificationRunAssumption
    <3>2. QED  BY <2>2, <3>1 DEF Owns
  <2>3. SUFFICES ASSUME NEW j \in Runs \ {k}, runs'[j].status \in {"NONE", "DRAFT"} \cup Live,
                        ~(\E v \in Workers : work'[v].run = j /\ Owns(v)' /\ ~runs'[j].expired)
                 PROVE  runs'[j].attempts < MaxAttempts + lost'
    BY <2>1 DEF TriesLeft
  <2>4. QED  BY <1>1, <1>6, <2>2, <2>3 DEF QueueInv, TriesLeft
<1>16. QED  BY <1>9, <1>10, <1>12, <1>13, <1>14, <1>15 DEF QueueInv

-----------------------------------------------------------------------------
(* The owner's commit releases the run: with the list it has from the claim,  *)
(* which is what the run has; to be claimed again while claims are left; or   *)
(* for good.                                                                  *)
LEMMA CommitInv ==
  ASSUME QueueInv, NEW w \in Workers, Succeed(w) \/ TryLater(w) \/ GiveUp(w) PROVE QueueInv'
<1> DEFINE k == work[w].run
<1>1. /\ k \in Runs /\ Scanned(k) /\ work[w].available = Available(k)
      /\ runs[k].status = "PROCESSING" /\ runs[k].lockedBy = w
      /\ UNCHANGED <<request, docs, lost>>
  <2>1. Commit(w)
    BY DEF Succeed, TryLater, GiveUp
  <2>2. work[w].run \in Runs
    BY <2>1 DEF Commit, QueueInv, WorkerKnows
  <2>3. QED  BY <2>1, <2>2, ClassificationRunAssumption DEF Commit, Owns, QueueInv, WorkerKnows
<1>2. /\ runs \in [Runs -> RunRows] /\ runs[k] \in RunRows /\ runs[k].attempts \in Nat
      /\ work \in [Workers -> [run : Runs \cup {NoRun}, available : SUBSET Docs]]
      /\ work[w].available \in SUBSET Docs /\ lost \in Nat
  BY <1>1, RowsTyped DEF QueueInv, TypeOK
<1> HIDE DEF k
<1>3. \E row \in RunRows :
        /\ runs' = [runs EXCEPT ![k] = row]
        /\ row.lockedBy = NoWorker
        /\ row.attempts = runs[k].attempts /\ row.staged = runs[k].staged
        /\ row.confirmed = runs[k].confirmed
        /\ \/ row.status = "SUCCEEDED" /\ row.output = work[w].available
           \/ row.status = "QUEUED" /\ runs[k].attempts < MaxAttempts
           \/ row.status = "FAILED"
  <2>1. CASE Succeed(w)
    <3> DEFINE row == [runs[k] EXCEPT !.status = "SUCCEEDED", !.lockedBy = NoWorker,
                                      !.expired = FALSE, !.output = work[w].available]
    <3>1. runs' = [runs EXCEPT ![k] = row]
      BY <1>2, <2>1 DEF Succeed, k
    <3>2. row \in RunRows /\ row.lockedBy = NoWorker /\ row.status = "SUCCEEDED"
          /\ row.output = work[w].available /\ row.attempts = runs[k].attempts
          /\ row.staged = runs[k].staged /\ row.confirmed = runs[k].confirmed
      BY <1>2 DEF RunRows, Ended
    <3> HIDE DEF row
    <3>3. QED  BY <3>1, <3>2
  <2>2. CASE TryLater(w)
    <3> DEFINE row == [runs[k] EXCEPT !.status = "QUEUED", !.lockedBy = NoWorker,
                                      !.expired = FALSE, !.due = FALSE]
    <3>1. runs' = [runs EXCEPT ![k] = row] /\ ~NoTryLeft(k)
      BY <1>2, <2>2 DEF TryLater, k
    <3>2. row \in RunRows /\ row.lockedBy = NoWorker /\ row.status = "QUEUED"
          /\ row.attempts = runs[k].attempts
          /\ row.staged = runs[k].staged /\ row.confirmed = runs[k].confirmed
      BY <1>2 DEF RunRows, Live
    <3>3. runs[k].attempts < MaxAttempts
      BY <1>2, <3>1, ClassificationRunAssumption DEF NoTryLeft
    <3> HIDE DEF row
    <3>4. QED  BY <3>1, <3>2, <3>3
  <2>3. CASE GiveUp(w)
    <3> DEFINE row == [runs[k] EXCEPT !.status = "FAILED", !.lockedBy = NoWorker,
                                      !.expired = FALSE, !.due = FALSE]
    <3>1. runs' = [runs EXCEPT ![k] = row]
      BY <1>2, <2>3 DEF GiveUp, k
    <3>2. row \in RunRows /\ row.lockedBy = NoWorker /\ row.status = "FAILED"
          /\ row.attempts = runs[k].attempts
          /\ row.staged = runs[k].staged /\ row.confirmed = runs[k].confirmed
      BY <1>2 DEF RunRows, Ended
    <3> HIDE DEF row
    <3>3. QED  BY <3>1, <3>2
  <2>4. QED  BY <2>1, <2>2, <2>3
<1>4. PICK row \in RunRows :
        /\ runs' = [runs EXCEPT ![k] = row]
        /\ row.lockedBy = NoWorker
        /\ row.attempts = runs[k].attempts /\ row.staged = runs[k].staged
        /\ row.confirmed = runs[k].confirmed
        /\ \/ row.status = "SUCCEEDED" /\ row.output = work[w].available
           \/ row.status = "QUEUED" /\ runs[k].attempts < MaxAttempts
           \/ row.status = "FAILED"
  BY <1>3
<1>5. /\ runs' \in [Runs -> RunRows] /\ runs'[k] = row
      /\ \A j \in Runs \ {k} : runs'[j] = runs[j]
  BY <1>1, <1>2, <1>4 DEF k
<1>6. /\ work'[w].run = NoRun /\ work'[w] = Idle
      /\ \A v \in Workers \ {w} : work'[v] = work[v]
      /\ work' \in [Workers -> [run : Runs \cup {NoRun}, available : SUBSET Docs]]
  <2>1. work' = [work EXCEPT ![w] = Idle]
    BY DEF Succeed, TryLater, GiveUp, Commit
  <2>2. QED  BY <1>2, <2>1 DEF Idle
<1>7. k \in Runs /\ Scanned(k) /\ work[w].available = Available(k)
      /\ runs[k].status = "PROCESSING" /\ runs[k].lockedBy = w
  BY <1>1 DEF k
<1>8. TypeOK'
  <2>1. \A j \in Runs : runs'[j].attempts <= MaxAttempts + lost'
    BY <1>1, <1>4, <1>5, <1>7 DEF QueueInv, TypeOK
  <2>2. QED  BY <1>1, <1>5, <1>6, <2>1 DEF QueueInv, TypeOK
<1>9. LockedWhileProcessed' /\ StagedExist'
  BY <1>1, <1>4, <1>5 DEF QueueInv, LockedWhileProcessed, StagedExist
<1>10. \A j \in Runs : Scanned(j)' = Scanned(j) /\ Available(j)' = Available(j)
  BY <1>1, <1>4, <1>5 DEF Scanned, Available
<1>11. OutputFits'
  BY <1>4, <1>5, <1>7, <1>10 DEF QueueInv, OutputFits
<1>12. AnsweredIsScanned'
  <2>1. ~runs[k].confirmed
    BY <1>7 DEF QueueInv, AnsweredIsScanned
  <2>2. QED  BY <1>4, <1>5, <1>7, <1>10, <2>1 DEF QueueInv, AnsweredIsScanned
<1>13. WorkerKnows'
  <2>1. ASSUME NEW v \in Workers
        PROVE  /\ work'[v] = Idle \/ work'[v].run \in Runs
               /\ work'[v].run # NoRun /\ Owns(v)' =>
                    Scanned(work[v].run)' /\ work'[v].available = Available(work[v].run)'
    <3>1. CASE v = w
      BY <1>6, <3>1
    <3>2. CASE v # w /\ work[v].run # k
      BY <1>5, <1>6, <1>10, <3>2 DEF QueueInv, WorkerKnows, Owns, Idle
    <3>3. CASE v # w /\ work[v].run = k
      <4>1. runs'[work'[v].run].lockedBy = NoWorker /\ work'[v].run \in Runs
        BY <1>4, <1>5, <1>6, <1>7, <3>3
      <4>2. QED  BY <4>1, ClassificationRunAssumption DEF Owns
    <3>4. QED  BY <3>1, <3>2, <3>3
  <2>2. QED  BY <2>1 DEF WorkerKnows
<1>14. TriesLeft'
  <2>1. runs'[k].status = "QUEUED" => runs'[k].attempts < MaxAttempts + lost'
    BY <1>1, <1>2, <1>4, <1>5, <1>7, ClassificationRunAssumption
  <2>2. ASSUME NEW j \in Runs \ {k}, NEW v \in Workers,
               work[v].run = j, Owns(v), ~runs[j].expired
        PROVE  work'[v].run = j /\ Owns(v)' /\ ~runs'[j].expired
    <3>1. work'[v] = work[v] /\ runs'[j] = runs[j]
      BY <1>5, <1>6, <2>2 DEF k
    <3>2. QED  BY <2>2, <3>1 DEF Owns
  <2>3. SUFFICES ASSUME NEW j \in Runs \ {k}, runs'[j].status \in {"NONE", "DRAFT"} \cup Live,
                        ~(\E v \in Workers : work'[v].run = j /\ Owns(v)' /\ ~runs'[j].expired)
                 PROVE  runs'[j].attempts < MaxAttempts + lost'
    BY <1>4, <1>5, <2>1 DEF TriesLeft, Live
  <2>4. QED  BY <1>1, <1>5, <2>2, <2>3 DEF QueueInv, TriesLeft
<1>15. QED  BY <1>8, <1>9, <1>11, <1>12, <1>13, <1>14 DEF QueueInv

(* An answer that is dropped was no owner's.                                  *)
LEMMA DropAnswerInv == ASSUME QueueInv, NEW w \in Workers, DropAnswer(w) PROVE QueueInv'
<1>1. /\ UNCHANGED <<request, docs, runs, lost>> /\ ~Owns(w)
      /\ work' = [work EXCEPT ![w] = Idle]
  BY DEF DropAnswer
<1>2. TypeOK' /\ LockedWhileProcessed' /\ StagedExist'
  BY <1>1 DEF QueueInv, TypeOK, LockedWhileProcessed, StagedExist, Idle
<1>3. AnsweredIsScanned' /\ OutputFits'
  BY <1>1 DEF QueueInv, AnsweredIsScanned, OutputFits, Scanned, Available
<1>4. WorkerKnows'
  BY <1>1 DEF QueueInv, TypeOK, WorkerKnows, Owns, Scanned, Available, Idle
<1>5. TriesLeft'
  BY <1>1 DEF QueueInv, TypeOK, TriesLeft, Owns
<1>6. QED  BY <1>2, <1>3, <1>4, <1>5 DEF QueueInv

(* A death leaves one claim more to be made.                                  *)
LEMMA CrashInv == ASSUME QueueInv, NEW w \in Workers, Crash(w) PROVE QueueInv'
<1>1. /\ UNCHANGED <<request, docs, runs>> /\ lost' = lost + 1 /\ lost' \in 0..MaxLost
      /\ work' = [work EXCEPT ![w] = Idle] /\ lost \in Nat
  BY ClassificationRunAssumption DEF Crash, QueueInv, TypeOK
<1>2. \A k \in Runs : runs'[k].attempts < MaxAttempts + lost'
  BY <1>1, RowsTyped, ClassificationRunAssumption DEF QueueInv, TypeOK
<1>3. TypeOK'
  <2>1. \A k \in Runs : runs'[k].attempts <= MaxAttempts + lost'
    BY <1>1, <1>2, RowsTyped, ClassificationRunAssumption
  <2>2. QED  BY <1>1, <2>1 DEF QueueInv, TypeOK, Idle
<1>4. LockedWhileProcessed' /\ StagedExist' /\ TriesLeft'
  BY <1>1, <1>2 DEF QueueInv, LockedWhileProcessed, StagedExist, TriesLeft
<1>5. AnsweredIsScanned' /\ OutputFits'
  BY <1>1 DEF QueueInv, AnsweredIsScanned, OutputFits, Scanned, Available
<1>6. WorkerKnows'
  BY <1>1 DEF QueueInv, TypeOK, WorkerKnows, Owns, Scanned, Available, Idle
<1>7. QED  BY <1>3, <1>4, <1>5, <1>6 DEF QueueInv

(* So does a lease that its owner outlasts; the other clocks change no claim. *)
LEMMA ClockInv ==
  ASSUME QueueInv, NEW k \in Runs, LeaseExpires(k) \/ BackoffEnds(k) PROVE QueueInv'
<1>1. /\ UNCHANGED <<request, docs, work>> /\ runs' \in [Runs -> RunRows]
      /\ lost \in Nat /\ lost' \in 0..MaxLost
      /\ lost' = lost \/ lost' = lost + 1
  <2>1. lost \in 0..MaxLost /\ (lost' = lost \/ (lost < MaxLost /\ lost' = lost + 1))
        /\ UNCHANGED <<request, docs, work>>
    BY DEF LeaseExpires, BackoffEnds, QueueInv, TypeOK
  <2>2. runs' \in [Runs -> RunRows]
    <3>1. runs \in [Runs -> RunRows] /\ runs[k] \in RunRows
      BY DEF QueueInv, TypeOK
    <3>2. [runs[k] EXCEPT !.expired = TRUE] \in RunRows
          /\ [runs[k] EXCEPT !.due = TRUE] \in RunRows
      BY <3>1 DEF RunRows
    <3>3. \/ runs' = [runs EXCEPT ![k] = [runs[k] EXCEPT !.expired = TRUE]]
          \/ runs' = [runs EXCEPT ![k] = [runs[k] EXCEPT !.due = TRUE]]
      BY <3>1 DEF LeaseExpires, BackoffEnds
    <3>4. QED  BY <3>1, <3>2, <3>3
  <2>3. QED  BY <2>1, <2>2, ClassificationRunAssumption
<1>2. \A j \in Runs : /\ runs'[j].status = runs[j].status
                      /\ runs'[j].lockedBy = runs[j].lockedBy
                      /\ runs'[j].attempts = runs[j].attempts
                      /\ runs'[j].staged = runs[j].staged
                      /\ runs'[j].output = runs[j].output
                      /\ runs'[j].confirmed = runs[j].confirmed
  <2>1. runs \in [Runs -> RunRows]
    BY DEF QueueInv, TypeOK
  <2>2. QED  BY <2>1 DEF LeaseExpires, BackoffEnds, RunRows
<1>3. TypeOK'
  <2>1. \A j \in Runs : runs'[j].attempts <= MaxAttempts + lost'
    BY <1>1, <1>2, RowsTyped, ClassificationRunAssumption DEF QueueInv, TypeOK
  <2>2. QED  BY <1>1, <2>1 DEF QueueInv, TypeOK
<1>4. LockedWhileProcessed' /\ StagedExist'
  BY <1>1, <1>2 DEF QueueInv, LockedWhileProcessed, StagedExist
<1>5. \A j \in Runs : Scanned(j)' = Scanned(j) /\ Available(j)' = Available(j)
  BY <1>1, <1>2 DEF Scanned, Available
<1>6. AnsweredIsScanned' /\ OutputFits'
  BY <1>2, <1>5 DEF QueueInv, AnsweredIsScanned, OutputFits
<1>7. \A w \in Workers : work[w].run \in Runs => (Owns(w)' <=> Owns(w))
  BY <1>1, <1>2 DEF Owns
<1>8. WorkerKnows'
  <2>1. ASSUME NEW w \in Workers
        PROVE  /\ work'[w] = Idle \/ work'[w].run \in Runs
               /\ work'[w].run # NoRun /\ Owns(w)' =>
                    Scanned(work[w].run)' /\ work'[w].available = Available(work[w].run)'
    <3>1. CASE work[w].run = NoRun
      BY <1>1, <3>1 DEF QueueInv, WorkerKnows
    <3>2. CASE work[w].run \in Runs
      <4>1. Scanned(work[w].run)' = Scanned(work[w].run)
            /\ Available(work[w].run)' = Available(work[w].run)
        BY <1>1, <1>5, <3>2
      <4>2. QED  BY <1>1, <1>7, <3>2, <4>1 DEF QueueInv, WorkerKnows
    <3>3. QED  BY <3>1, <3>2 DEF QueueInv, TypeOK
  <2>2. QED  BY <2>1 DEF WorkerKnows
<1>9. TriesLeft'
  <2>1. CASE lost' = lost + 1
    BY <1>1, <1>2, <2>1, RowsTyped, ClassificationRunAssumption DEF QueueInv, TypeOK, TriesLeft
  <2>2. CASE lost' = lost
    <3>1. ASSUME NEW j \in Runs, NEW w \in Workers,
                 work[w].run = j, Owns(w), ~runs[j].expired
          PROVE  work'[w].run = j /\ Owns(w)' /\ ~runs'[j].expired
      <4>1. work'[w].run = j /\ Owns(w)'
        BY <1>1, <1>7, <3>1
      <4>2. ~runs'[j].expired
        <5>1. CASE LeaseExpires(k)
          <6>1. ~AtWork(k)
            BY <2>2, <5>1 DEF LeaseExpires, QueueInv, TypeOK
          <6>2. j # k
            BY <3>1, <6>1 DEF AtWork
          <6>3. QED  BY <3>1, <5>1, <6>2 DEF LeaseExpires, QueueInv, TypeOK
        <5>2. CASE BackoffEnds(k)
          BY <3>1, <5>2 DEF BackoffEnds, QueueInv, TypeOK, RunRows
        <5>3. QED  BY <5>1, <5>2
      <4>3. QED  BY <4>1, <4>2
    <3>2. QED  BY <1>2, <2>2, <3>1 DEF QueueInv, TriesLeft
  <2>3. QED  BY <1>1, <2>1, <2>2
<1>10. QED  BY <1>3, <1>4, <1>6, <1>8, <1>9 DEF QueueInv

LEMMA NextInv == QueueInv /\ [Next]_vars => QueueInv'
<1> SUFFICES ASSUME QueueInv, [Next]_vars PROVE QueueInv'
  OBVIOUS
<1>1. CASE UNCHANGED vars
  BY <1>1 DEF vars, QueueInv, TypeOK, LockedWhileProcessed, StagedExist, WorkerKnows,
    AnsweredIsScanned, TriesLeft, OutputFits, Owns, Scanned, Available
<1>2. CASE ClientNext
  BY <1>2, CreateRunInv, ClientRunInv, StageInv, MoveRequestInv DEF ClientNext
<1>3. CASE WorkerNext
  BY <1>3, ScanInv, ClientRunInv, ClaimInv, CommitInv, DropAnswerInv, CrashInv, ClockInv
    DEF WorkerNext, Finish
<1>4. QED  BY <1>1, <1>2, <1>3 DEF Next

(* Every step that pauses a run leaves it out of a worker's hands, and every   *)
(* step that puts it there takes one that is due.                              *)
LEMMA PauseInv == QueueInv /\ PausedIsLeft /\ [Next]_vars => PausedIsLeft'
<1> SUFFICES ASSUME QueueInv, PausedIsLeft, [Next]_vars, NEW k \in Runs,
                    ~runs'[k].due, runs'[k].status = "PROCESSING"
             PROVE  FALSE
  BY DEF PausedIsLeft
<1>1. runs[k] \in RunRows /\ runs \in [Runs -> RunRows]
  BY DEF QueueInv, TypeOK
<1>2. CASE runs'[k] = runs[k]
  BY <1>2 DEF PausedIsLeft
<1>3. CASE runs'[k] # runs[k]
  <2>1. Next /\ ~MoveRequest
    BY <1>3 DEF vars, MoveRequest
  <2>2. CASE ClientNext
    <3>1. CASE \E j \in Runs : CreateRun(j) \/ Start(j) \/ CancelRun(j) \/ ManualRun(j)
      BY <1>1, <1>3, <3>1 DEF CreateRun, Start, CancelRun, ManualRun, NewRun, RunRows
    <3>2. CASE \E j \in Runs, d \in Docs : Stage(j, d)
      BY <1>1, <1>3, <3>2 DEF Stage, TakesFiles, RunRows
    <3>3. CASE \E j \in Runs : \E choice \in SUBSET runs[j].staged : Confirm(j, choice)
      BY <1>1, <1>3, <3>3 DEF Confirm, RunRows
    <3>4. QED  BY <2>1, <2>2, <3>1, <3>2, <3>3 DEF ClientNext
  <2>3. CASE WorkerNext
    <3>1. CASE \E j \in Runs : Postpone(j)
      BY <1>1, <1>3, <3>1 DEF Postpone, RunRows, QueueInv, AnsweredIsScanned
    <3>2. CASE \E j \in Runs : LeaseExpires(j) \/ BackoffEnds(j)
      BY <1>1, <1>3, <3>2 DEF LeaseExpires, BackoffEnds, RunRows, PausedIsLeft, QueueInv,
        LockedWhileProcessed
    <3>3. CASE \E w \in Workers, j \in Runs : Claim(w, j)
      BY <1>1, <1>3, <3>3 DEF Claim, Claimable, RunRows
    <3>4. CASE \E w \in Workers : Finish(w)
      <4>1. PICK w \in Workers : Succeed(w) \/ TryLater(w) \/ GiveUp(w) \/ DropAnswer(w)
        BY <3>4 DEF Finish
      <4>2. CASE Succeed(w)
        BY <1>1, <1>3, <4>2 DEF Succeed, RunRows
      <4>3. CASE TryLater(w) \/ GiveUp(w)
        <5>1. work[w].run = k
          BY <1>1, <1>3, <4>3 DEF TryLater, GiveUp
        <5>2. runs'[k].status \in {"QUEUED", "FAILED"}
          BY <1>1, <4>3, <5>1 DEF TryLater, GiveUp, RunRows
        <5>3. QED  BY <5>2
      <4>4. QED  BY <1>3, <4>1, <4>2, <4>3 DEF DropAnswer
    <3>5. QED
      BY <1>3, <2>3, <3>1, <3>2, <3>3, <3>4 DEF WorkerNext, Scan, Crash
  <2>4. QED  BY <2>1, <2>2, <2>3 DEF Next
<1>4. QED  BY <1>2, <1>3

(* The queue of classifications keeps its invariant for any number of runs    *)
(* and workers; in particular claims beyond MaxAttempts are paid for by       *)
(* workers that died or outlasted their lease (process_classification).       *)
THEOREM Invariance == Spec => []IInv
<1>1. Init => PausedIsLeft
  BY DEF Init, PausedIsLeft, NewRun
<1>2. Init => IInv
  BY <1>1, InitInv DEF IInv
<1>3. IInv /\ [Next]_vars => IInv'
  BY NextInv, PauseInv DEF IInv
<1>4. QED  BY <1>2, <1>3, PTL DEF Spec

LEMMA QueueInvariance == Spec => []QueueInv
<1>1. IInv => QueueInv
  BY DEF IInv
<1>2. QED  BY <1>1, Invariance, PTL

(* A result offers exactly the safe files of its run, whatever was staged,    *)
(* scanned or claimed meanwhile (process_classification's check of the scan). *)
THEOREM ResultsFit == Spec => []OutputFits
<1>1. QueueInv => OutputFits
  BY DEF QueueInv
<1>2. QED  BY <1>1, QueueInvariance, PTL

-----------------------------------------------------------------------------
(* What may happen to a run that was confirmed, ended or cancelled.           *)
Stands(k) ==
  /\ runs[k].confirmed => runs'[k] = [runs[k] EXCEPT !.due = runs'[k].due]
  /\ runs[k].status \in Ended =>
       /\ runs'[k].status \in {runs[k].status, "FAILED", "CANCELLED"}
       /\ runs'[k].output \in {runs[k].output, {}}
  /\ runs[k].status = "CANCELLED" => runs'[k].status = "CANCELLED"

LEMMA SameRowStands ==
  ASSUME QueueInv, NEW k \in Runs, runs'[k] = runs[k] PROVE Stands(k)
<1>1. runs[k] \in RunRows
  BY DEF QueueInv, TypeOK
<1>2. runs[k] = [runs[k] EXCEPT !.due = runs[k].due]
  BY <1>1 DEF RunRows
<1>3. QED  BY <1>2 DEF Stands

LEMMA ClientStands ==
  ASSUME QueueInv, NEW k \in Runs, NEW j \in Runs,
         \/ CreateRun(j) \/ Start(j) \/ CancelRun(j) \/ ManualRun(j) \/ Postpone(j)
         \/ \E d \in Docs : Stage(j, d)
         \/ \E choice \in SUBSET runs[j].staged : Confirm(j, choice)
  PROVE  Stands(k)
<1>1. CASE j # k
  <2>1. runs'[k] = runs[k]
    BY <1>1 DEF CreateRun, Start, CancelRun, ManualRun, Postpone, Stage, Confirm, QueueInv, TypeOK
  <2>2. QED  BY <2>1, SameRowStands
<1>2. CASE j = k
  <2>1. /\ runs \in [Runs -> RunRows] /\ runs[k] \in RunRows
        /\ runs[k].confirmed => runs[k].status \in {"SUCCEEDED", "FAILED"}
    BY DEF QueueInv, TypeOK, AnsweredIsScanned
  <2>2. CASE CreateRun(k) \/ Start(k) \/ Postpone(k) \/ (\E d \in Docs : Stage(k, d))
    <3>1. runs[k].status \notin Ended /\ ~runs[k].confirmed
      BY <2>1, <2>2 DEF CreateRun, Start, Postpone, Claimable, Stage, TakesFiles, Live, Ended
    <3>2. QED  BY <3>1 DEF Stands, Ended
  <2>3. CASE CancelRun(k)
    <3>1. /\ ~runs[k].confirmed
          /\ runs'[k] = [runs[k] EXCEPT !.status = "CANCELLED", !.lockedBy = NoWorker,
                                        !.expired = FALSE]
      BY <2>1, <2>3 DEF CancelRun
    <3>2. QED  BY <2>1, <3>1 DEF Stands, RunRows
  <2>4. CASE ManualRun(k)
    <3>1. /\ ~runs[k].confirmed /\ runs[k].status # "CANCELLED"
          /\ runs'[k] = [runs[k] EXCEPT !.status = "FAILED", !.output = {},
                                        !.lockedBy = NoWorker, !.expired = FALSE]
      BY <2>1, <2>4 DEF ManualRun
    <3>2. QED  BY <2>1, <3>1 DEF Stands, RunRows
  <2>5. ASSUME NEW choice \in SUBSET runs[k].staged, Confirm(k, choice) PROVE Stands(k)
    <3>1. /\ ~runs[k].confirmed /\ runs[k].status # "CANCELLED"
          /\ runs'[k] = [runs[k] EXCEPT !.confirmed = TRUE, !.chosen = choice]
      BY <2>1, <2>5 DEF Confirm
    <3>2. QED  BY <2>1, <3>1 DEF Stands, RunRows
  <2>6. QED  BY <1>2, <2>2, <2>3, <2>4, <2>5
<1>3. QED  BY <1>1, <1>2

(* Only the owner of a run that is processed writes an answer.                *)
LEMMA AnswersStand ==
  ASSUME QueueInv, NEW k \in Runs, NEW w \in Workers, Finish(w) PROVE Stands(k)
<1>1. CASE DropAnswer(w) \/ work[w].run # k
  <2>1. runs'[k] = runs[k]
    BY <1>1 DEF Finish, Succeed, TryLater, GiveUp, DropAnswer, QueueInv, TypeOK
  <2>2. QED  BY <2>1, SameRowStands
<1>2. CASE Commit(w) /\ work[w].run = k
  <2>1. runs[k].status = "PROCESSING"
    BY <1>2 DEF Commit, Owns
  <2>2. ~runs[k].confirmed
    BY <2>1 DEF QueueInv, AnsweredIsScanned
  <2>3. QED  BY <2>1, <2>2 DEF Stands, Ended
<1>3. QED  BY <1>1, <1>2 DEF Finish, Succeed, TryLater, GiveUp

LEMMA ClaimsAndClocksStand ==
  ASSUME QueueInv, NEW k \in Runs, NEW j \in Runs,
         LeaseExpires(j) \/ BackoffEnds(j) \/ (\E w \in Workers : Claim(w, j))
  PROVE  Stands(k)
<1>1. CASE j # k
  <2>1. runs'[k] = runs[k]
    BY <1>1 DEF LeaseExpires, BackoffEnds, Claim, QueueInv, TypeOK
  <2>2. QED  BY <2>1, SameRowStands
<1>2. CASE BackoffEnds(k)
  <2>1. runs[k] \in RunRows /\ runs'[k] = [runs[k] EXCEPT !.due = TRUE]
    BY <1>2 DEF BackoffEnds, QueueInv, TypeOK
  <2>2. QED  BY <2>1 DEF Stands, RunRows
<1>3. CASE LeaseExpires(k) \/ (\E w \in Workers : Claim(w, k))
  <2>1. runs[k].status \in Live
    BY <1>3 DEF LeaseExpires, Claim, Claimable, QueueInv, LockedWhileProcessed, Live
  <2>2. ~runs[k].confirmed /\ runs[k].status \notin Ended
    BY <2>1 DEF QueueInv, AnsweredIsScanned, Live, Ended
  <2>3. QED  BY <2>2 DEF Stands, Ended
<1>4. QED  BY <1>1, <1>2, <1>3

(* An answer that comes after the client confirmed, cancelled or took over    *)
(* the run changes nothing of it (process_classification's check of the       *)
(* lease, against the locks that cancel_run and manual_run clear).            *)
THEOREM LateAnswersDrop == Spec => LateAnswersAreDropped
<1>1. ASSUME QueueInv, [Next]_vars, NEW k \in Runs PROVE Stands(k)
  <2>1. CASE UNCHANGED runs
    BY <1>1, <2>1, SameRowStands
  <2>2. CASE ClientNext
    <3>1. CASE MoveRequest
      BY <2>1, <3>1 DEF MoveRequest
    <3>2. QED  BY <1>1, <2>2, <3>1, ClientStands DEF ClientNext
  <2>3. CASE WorkerNext
    <3>1. CASE (\E d \in Docs : Scan(d)) \/ (\E w \in Workers : Crash(w))
      BY <2>1, <3>1 DEF Scan, Crash
    <3>2. QED
      BY <1>1, <2>3, <3>1, ClientStands, AnswersStand, ClaimsAndClocksStand DEF WorkerNext
  <2>4. QED  BY <1>1, <2>1, <2>2, <2>3 DEF Next, vars
<1>2. QueueInv /\ [Next]_vars =>
        [\A k \in Runs :
           /\ runs[k].confirmed => runs'[k] = [runs[k] EXCEPT !.due = runs'[k].due]
           /\ runs[k].status \in Ended =>
                /\ runs'[k].status \in {runs[k].status, "FAILED", "CANCELLED"}
                /\ runs'[k].output \in {runs[k].output, {}}
           /\ runs[k].status = "CANCELLED" => runs'[k].status = "CANCELLED"]_vars
  BY <1>1 DEF Stands
<1>3. QED  BY <1>2, QueueInvariance, PTL DEF Spec, LateAnswersAreDropped

-----------------------------------------------------------------------------
(* How the row of a started run is written.                                   *)
Held(k) == runs[k].status = "QUEUED" /\ ~Scanned(k)
           /\ runs'[k] = [runs[k] EXCEPT !.due = FALSE]

LEMMA ClientForward ==
  ASSUME QueueInv, NEW k \in Runs, runs[k].status \in Live, runs'[k] # runs[k], ClientNext
  PROVE  Forward(runs[k], runs'[k])
<1>1. runs \in [Runs -> RunRows] /\ ~runs[k].confirmed
  BY DEF QueueInv, TypeOK, AnsweredIsScanned, Live
<1>2. CASE \E j \in Runs : CreateRun(j) \/ Start(j) \/ CancelRun(j) \/ ManualRun(j)
  BY <1>1, <1>2 DEF CreateRun, Start, CancelRun, ManualRun, RunRows, Forward, Live, Ended
<1>3. CASE \E j \in Runs, d \in Docs : Stage(j, d)
  BY <1>1, <1>3 DEF Stage, TakesFiles, Live
<1>4. CASE \E j \in Runs : \E choice \in SUBSET runs[j].staged : Confirm(j, choice)
  BY <1>1, <1>4 DEF Confirm, Live
<1>5. QED  BY <1>2, <1>3, <1>4 DEF ClientNext, MoveRequest

LEMMA ClockForward ==
  ASSUME QueueInv, PausedIsLeft, NEW k \in Runs, runs[k].status \in Live,
         runs'[k] # runs[k],
         \E j \in Runs : Postpone(j) \/ LeaseExpires(j) \/ BackoffEnds(j)
  PROVE  Forward(runs[k], runs'[k]) \/ Held(k)
<1>1. runs \in [Runs -> RunRows] /\ runs[k] \in RunRows
  BY DEF QueueInv, TypeOK
<1>2. CASE Postpone(k)
  <2>1. runs[k].status # "PROCESSING"
    BY <1>2 DEF Postpone, QueueInv, AnsweredIsScanned
  <2>2. runs'[k] = [runs[k] EXCEPT !.due = FALSE]
    BY <1>1, <1>2 DEF Postpone
  <2>3. QED  BY <1>2, <2>1, <2>2 DEF Postpone, Held, Live
<1>3. CASE LeaseExpires(k)
  <2>1. runs[k].status = "PROCESSING" /\ ~runs[k].expired
    BY <1>3 DEF LeaseExpires, QueueInv, LockedWhileProcessed
  <2>2. runs'[k] = [runs[k] EXCEPT !.expired = TRUE]
    BY <1>1, <1>3 DEF LeaseExpires
  <2>3. QED  BY <1>1, <2>1, <2>2 DEF RunRows, Forward, Progress, Live
<1>4. CASE BackoffEnds(k)
  <2>1. runs[k].status # "PROCESSING" /\ ~runs[k].due
    BY <1>4 DEF BackoffEnds, PausedIsLeft
  <2>2. runs'[k] = [runs[k] EXCEPT !.due = TRUE]
    BY <1>1, <1>4 DEF BackoffEnds
  <2>3. QED  BY <1>1, <2>1, <2>2 DEF RunRows, Forward, Progress, Live
<1>5. QED  BY <1>1, <1>2, <1>3, <1>4 DEF Postpone, LeaseExpires, BackoffEnds

LEMMA WorkForward ==
  ASSUME QueueInv, NEW k \in Runs, runs[k].status \in Live, runs'[k] # runs[k],
         NEW w \in Workers, Finish(w) \/ (\E j \in Runs : Claim(w, j))
  PROVE  Forward(runs[k], runs'[k])
<1>1. /\ runs \in [Runs -> RunRows] /\ runs[k] \in RunRows /\ runs[k].attempts \in Nat
      /\ runs[k].due \in BOOLEAN
  BY DEF QueueInv, TypeOK, RunRows
<1>2. CASE Claim(w, k)
  <2>1. runs'[k] = [runs[k] EXCEPT !.status = "PROCESSING", !.lockedBy = w,
                                   !.expired = FALSE, !.attempts = runs[k].attempts + 1]
    BY <1>1, <1>2 DEF Claim
  <2>2. runs'[k].status = "PROCESSING" /\ runs'[k].attempts = runs[k].attempts + 1
    BY <1>1, <2>1 DEF RunRows
  <2>3. QED  BY <1>1, <2>2 DEF Forward, Live
<1>3. CASE Succeed(w) /\ work[w].run = k
  BY <1>1, <1>3 DEF Succeed, RunRows, Forward, Ended
<1>4. CASE GiveUp(w) /\ work[w].run = k
  BY <1>1, <1>4 DEF GiveUp, RunRows, Forward, Ended
<1>5. CASE TryLater(w) /\ work[w].run = k
  <2>1. runs[k].status = "PROCESSING"
    BY <1>5 DEF TryLater, Commit, Owns
  <2>2. runs'[k] = [runs[k] EXCEPT !.status = "QUEUED", !.lockedBy = NoWorker,
                                   !.expired = FALSE, !.due = FALSE]
    BY <1>1, <1>5 DEF TryLater
  <2>3. /\ runs'[k].status = "QUEUED" /\ ~runs'[k].due
        /\ runs'[k].attempts = runs[k].attempts
    BY <1>1, <2>2 DEF RunRows
  <2>4. Progress(runs'[k]) = 2 /\ Progress(runs[k]) \in {0, 1}
    BY <2>1, <2>3 DEF Progress
  <2>5. QED  BY <1>1, <2>3, <2>4 DEF Forward, Live
<1>6. CASE DropAnswer(w) \/ (\E j \in Runs \ {k} : Claim(w, j))
  BY <1>1, <1>6 DEF DropAnswer, Claim
<1>7. CASE work[w].run # k /\ (Succeed(w) \/ TryLater(w) \/ GiveUp(w))
  BY <1>1, <1>7 DEF Succeed, TryLater, GiveUp
<1>8. QED  BY <1>2, <1>3, <1>4, <1>5, <1>6, <1>7 DEF Finish

(* Only a file that is still being scanned holds a started run up: every      *)
(* other write to its row takes it forward, so with the bound on the attempts *)
(* a run whose files are scanned is written finitely often before it ends     *)
(* (process_classification).                                                  *)
THEOREM OnlyScansHold == Spec => OnlyScansHoldUp
<1>1. ASSUME QueueInv, PausedIsLeft, [Next]_vars, NEW k \in Runs,
             runs[k].status \in Live, runs'[k] # runs[k]
      PROVE  Forward(runs[k], runs'[k]) \/ Held(k)
  <2>1. Next
    BY <1>1 DEF vars
  <2>2. CASE ClientNext
    BY <1>1, <2>2, ClientForward
  <2>3. CASE WorkerNext
    <3>1. CASE (\E d \in Docs : Scan(d)) \/ (\E w \in Workers : Crash(w))
      BY <1>1, <3>1 DEF Scan, Crash
    <3>2. QED  BY <1>1, <2>3, <3>1, ClockForward, WorkForward DEF WorkerNext
  <2>4. QED  BY <2>1, <2>2, <2>3 DEF Next
<1>2. IInv /\ [Next]_vars =>
        [\A k \in Runs :
           runs[k].status \in Live /\ runs'[k] # runs[k] =>
             \/ Forward(runs[k], runs'[k])
             \/ /\ runs[k].status = "QUEUED" /\ ~Scanned(k)
                /\ runs'[k] = [runs[k] EXCEPT !.due = FALSE]]_vars
  BY <1>1 DEF IInv, Held
<1>3. QED  BY <1>2, Invariance, PTL DEF Spec, OnlyScansHoldUp
=============================================================================
