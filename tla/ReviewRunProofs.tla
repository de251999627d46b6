--------------------------- MODULE ReviewRunProofs ---------------------------
(* Proofs about ReviewRun, for any workers and any bounds: the queue keeps at *)
(* most one live run per round, answers reach the turn they were asked for,   *)
(* and the runs of each round carry out the one review of ReviewTask.         *)
EXTENDS ReviewRun, TLAPS

USE DEF Runs, Rounds, Live

-----------------------------------------------------------------------------
(* The last element of a set of numbers that has one.                         *)
LEMMA LastIs ==
  ASSUME NEW S \in SUBSET Nat, NEW m \in S, \A k \in S : k <= m
  PROVE  Last(S) = m
<1>1. /\ Last(S) \in S
      /\ \A k \in S : k <= Last(S)
  BY DEF Last
<1>2. Last(S) <= m /\ m <= Last(S)
  BY <1>1
<1>3. Last(S) \in Nat /\ m \in Nat
  BY <1>1
<1>4. QED  BY <1>2, <1>3

-----------------------------------------------------------------------------
(* A new run is a row of the queue.                                           *)
LEMMA NewRunTyped ==
  ASSUME NEW r \in Rounds, NEW status \in {"NONE"} \cup Live \cup Ended
  PROVE  NewRun(r, status) \in RunRows
<1>1. 0 \in 0..MaxTurn /\ 0 \in 0..MaxAttempts
  BY ReviewRunAssumption
<1>2. QED  BY <1>1 DEF NewRun, RunRows

(* The invariant holds of a queue with no run or one run.                     *)
LEMMA InitInv == ASSUME Init PROVE QueueInv
<1> USE ReviewRunAssumption
<1>1. PICK first \in {"NONE"} \cup EnqueuedStatus :
        /\ runs = [n \in Runs |-> NewRun(1, IF n = 1 THEN first ELSE "NONE")]
        /\ count = IF first = "NONE" THEN 0 ELSE 1
  <2>1. CASE count = 0
    <3>1. runs = [n \in Runs |-> NewRun(1, IF n = 1 THEN "NONE" ELSE "NONE")]
      BY <2>1 DEF Init
    <3>2. QED  BY <2>1, <3>1
  <2>2. CASE count = 1
    BY <2>2 DEF Init, EnqueuedStatus
  <2>3. QED  BY <2>1, <2>2 DEF Init
<1>2. /\ count \in 0..1 /\ count \in 0..MaxRuns /\ 1..count \subseteq Runs
      /\ \A n \in Runs : /\ runs[n] \in RunRows
                         /\ runs[n].round = 1
                         /\ runs[n].status # "NONE" <=> n <= count
                         /\ runs[n].lockedBy = NoWorker /\ runs[n].status # "PROCESSING"
  <2>1. /\ count \in 0..1 /\ count \in 0..MaxRuns /\ 1..count \subseteq Runs
    BY <1>1
  <2>2. ASSUME NEW n \in Runs
        PROVE  /\ runs[n] \in RunRows
               /\ runs[n].round = 1
               /\ runs[n].status # "NONE" <=> n <= count
               /\ runs[n].lockedBy = NoWorker /\ runs[n].status # "PROCESSING"
    <3> DEFINE status == IF n = 1 THEN first ELSE "NONE"
    <3>1. runs[n] = NewRun(1, status)
      BY <1>1
    <3>2. NewRun(1, status) \in RunRows
      BY NewRunTyped DEF EnqueuedStatus, Ended
    <3>3. status # "NONE" <=> n <= count
      BY <1>1 DEF EnqueuedStatus
    <3>4. status # "PROCESSING"
      BY DEF EnqueuedStatus
    <3> HIDE DEF status
    <3>5. QED  BY <3>1, <3>2, <3>3, <3>4 DEF NewRun
  <2>3. QED  BY <2>1, <2>2
<1>3. work = [w \in Workers |-> Idle] /\ request = "IN_REVIEW" /\ round = 1
  BY DEF Init
<1>4. TypeOK
  BY <1>1, <1>2, <1>3 DEF TypeOK, WorkRows, Idle
<1>5. RowsAreRuns /\ RoundsInOrder /\ LastIsLive /\ LockedWhileProcessed
  BY <1>2, <1>3 DEF RowsAreRuns, RoundsInOrder, LastIsLive, LockedWhileProcessed
<1>6. RoundsHaveLast
  BY <1>2 DEF RoundsHaveLast, RunsOf
<1>7. WorkersHoldRuns /\ OwnerIsCurrent
  BY <1>2, <1>3 DEF WorkersHoldRuns, OwnerIsCurrent, Idle
<1>8. QED  BY <1>4, <1>5, <1>6, <1>7 DEF QueueInv

-----------------------------------------------------------------------------
(* The numbers the steps below compare.                                       *)
LEMMA Numbers ==
  ASSUME QueueInv
  PROVE  /\ count \in 0..MaxRuns /\ round \in Rounds /\ MaxRuns \in Nat /\ MaxRounds \in Nat
         /\ \A m \in Runs : runs[m].round \in Nat
<1>1. count \in 0..MaxRuns /\ round \in Rounds /\ MaxRuns \in Nat /\ MaxRounds \in Nat
  BY ReviewRunAssumption DEF QueueInv, TypeOK
<1>2. ASSUME NEW m \in Runs PROVE runs[m].round \in Nat
  <2>1. runs[m] \in RunRows
    BY DEF QueueInv, TypeOK
  <2>2. QED  BY <2>1 DEF RunRows
<1>3. QED  BY <1>1, <1>2

(* A step that changes one run, and neither its round nor its place.          *)
RunStep(n) ==
  /\ UNCHANGED count
  /\ \A m \in Runs \ {n} : runs'[m] = runs[m]
  /\ runs'[n].round = runs[n].round
  /\ runs'[n].status # "NONE" <=> runs[n].status # "NONE"
  /\ runs'[n].status \in Live => runs[n].status \in Live
  /\ runs'[n].lockedBy # NoWorker <=> runs'[n].status = "PROCESSING"

LEMMA RunStepRows ==
  ASSUME QueueInv, NEW n \in Runs, RunStep(n), round <= round', round' \in Rounds
  PROVE  /\ RowsAreRuns' /\ RoundsInOrder' /\ LastIsLive' /\ LockedWhileProcessed'
         /\ RoundsHaveLast'
<1>1. /\ count \in 0..MaxRuns /\ round \in Rounds /\ MaxRuns \in Nat
      /\ \A m \in Runs : runs[m].round \in Nat
  BY Numbers
<1>2. \A m \in Runs : /\ runs'[m].round = runs[m].round
                      /\ runs'[m].status # "NONE" <=> runs[m].status # "NONE"
                      /\ runs'[m].status \in Live => runs[m].status \in Live
                      /\ runs'[m].lockedBy # NoWorker <=> runs'[m].status = "PROCESSING"
  BY DEF RunStep, QueueInv, LockedWhileProcessed
<1>3. RowsAreRuns' /\ LockedWhileProcessed'
  BY <1>2 DEF RunStep, QueueInv, RowsAreRuns, LockedWhileProcessed
<1>4. 1..count \subseteq Runs /\ count' = count
  BY <1>1 DEF RunStep
<1>5. RoundsInOrder' /\ LastIsLive'
  BY <1>1, <1>2, <1>4 DEF QueueInv, RoundsInOrder, LastIsLive
<1>6. \A r \in Rounds : RunsOf(r)' = RunsOf(r)
  BY <1>2, <1>4 DEF RunsOf
<1>7. RoundsHaveLast'
  BY <1>6 DEF QueueInv, RoundsHaveLast
<1>8. QED  BY <1>3, <1>5, <1>7

(* A new run of the newest round, when no run of that round is live.          *)
LEMMA EnqueueRows ==
  ASSUME QueueInv, NEW r \in Rounds, Enqueue(r), round' \in Rounds, r = round',
         round <= round',
         \A n \in 1..count : runs[n].round = r => runs[n].status \notin Live
  PROVE  /\ count' \in 0..MaxRuns /\ runs' \in [Runs -> RunRows]
         /\ RowsAreRuns' /\ RoundsInOrder' /\ LastIsLive' /\ LockedWhileProcessed'
         /\ RoundsHaveLast'
<1> DEFINE new == count + 1
<1>1. /\ count \in 0..MaxRuns /\ round \in Rounds /\ MaxRuns \in Nat /\ MaxRounds \in Nat
      /\ \A m \in Runs : runs[m].round \in Nat
      /\ new \in Runs /\ count' = new
  <2>1. new \in Runs /\ count' = new
    BY Numbers DEF Enqueue
  <2>2. QED  BY <2>1, Numbers
<1>2. PICK status \in EnqueuedStatus : runs' = [runs EXCEPT ![new] = NewRun(r, status)]
  BY DEF Enqueue
<1>3. NewRun(r, status) \in RunRows
  BY NewRunTyped DEF EnqueuedStatus, Ended
<1>4. runs' \in [Runs -> RunRows]
  BY <1>2, <1>3 DEF QueueInv, TypeOK
<1>5. \A m \in Runs \ {new} : runs'[m] = runs[m]
  BY <1>2 DEF QueueInv, TypeOK
<1>6. runs'[new] = NewRun(r, status)
  BY <1>1, <1>2 DEF QueueInv, TypeOK
<1>7. /\ runs'[new].round = r /\ runs'[new].status \in {"QUEUED", "FAILED"}
      /\ runs'[new].lockedBy = NoWorker
  BY <1>6 DEF NewRun, EnqueuedStatus
<1>8. 1..count \subseteq Runs \ {new} /\ 1..count' = (1..count) \cup {new}
  BY <1>1
<1>9. RowsAreRuns' /\ LockedWhileProcessed'
  BY <1>1, <1>5, <1>7, <1>8 DEF QueueInv, RowsAreRuns, LockedWhileProcessed
<1>10. RoundsInOrder'
  BY <1>1, <1>5, <1>7, <1>8 DEF QueueInv, RoundsInOrder
<1>11. LastIsLive'
  BY <1>1, <1>5, <1>7, <1>8 DEF QueueInv, LastIsLive
<1>12. \A q \in Rounds : q # r => RunsOf(q)' = RunsOf(q)
  BY <1>5, <1>7, <1>8 DEF RunsOf
<1>13. RunsOf(r)' = RunsOf(r) \cup {new}
  BY <1>5, <1>7, <1>8 DEF RunsOf
<1>14. RoundsHaveLast'
  <2> SUFFICES ASSUME NEW q \in Rounds, RunsOf(q)' # {}
               PROVE  \E m \in RunsOf(q)' : \A k \in RunsOf(q)' : k <= m
    BY DEF RoundsHaveLast
  <2>1. CASE q # r
    BY <1>12, <2>1 DEF QueueInv, RoundsHaveLast
  <2>2. CASE q = r
    BY <1>1, <1>13, <2>2 DEF RunsOf
  <2>3. QED  BY <2>1, <2>2
<1>15. QED  BY <1>1, <1>4, <1>9, <1>10, <1>11, <1>14

-----------------------------------------------------------------------------
(* People.                                                                    *)

(* A step that leaves the queue and the rounds alone.                         *)
LEMMA SameQueue ==
  ASSUME QueueInv, UNCHANGED <<count, runs>>, round <= round', round' \in Rounds
  PROVE  RowsAreRuns' /\ RoundsInOrder' /\ LastIsLive' /\ LockedWhileProcessed'
         /\ RoundsHaveLast'
<1>1. \A r \in Rounds : RunsOf(r)' = RunsOf(r)
  BY DEF RunsOf
<1>2. RoundsHaveLast'
  BY <1>1 DEF QueueInv, RoundsHaveLast
<1>3. count \in 0..MaxRuns /\ round \in Rounds /\ \A m \in 1..count : runs[m].round \in Nat
  BY ReviewRunAssumption DEF QueueInv, TypeOK, RunRows
<1>4. RoundsInOrder'
  BY <1>3, ReviewRunAssumption DEF QueueInv, RoundsInOrder
<1>5. QED  BY <1>2, <1>4 DEF QueueInv, RowsAreRuns, LastIsLive, LockedWhileProcessed

LEMMA MoveInv == ASSUME QueueInv, LeaveReview \/ Reopen \/ CancelReturned PROVE QueueInv'
<1>1. UNCHANGED <<round, count, runs, work>>
  BY DEF LeaveReview, Reopen, CancelReturned
<1>2. round \in Rounds /\ round <= round
  BY ReviewRunAssumption DEF QueueInv, TypeOK
<1>3. TypeOK'
  BY <1>1 DEF LeaveReview, Reopen, CancelReturned, QueueInv, TypeOK
<1>4. RowsAreRuns' /\ RoundsInOrder' /\ LastIsLive' /\ LockedWhileProcessed'
      /\ RoundsHaveLast'
  BY <1>1, <1>2, SameQueue
<1>5. WorkersHoldRuns' /\ OwnerIsCurrent'
  BY <1>1 DEF QueueInv, WorkersHoldRuns, OwnerIsCurrent, Owns
<1>6. QED  BY <1>3, <1>4, <1>5 DEF QueueInv

(* Workers' memory does not change, nor do the rows they hold.                *)
LEMMA EnqueueWork ==
  ASSUME QueueInv, NEW r \in Rounds, Enqueue(r), UNCHANGED work
  PROVE  WorkersHoldRuns' /\ OwnerIsCurrent'
<1>1. count \in Nat /\ count' = count + 1 /\ \A w \in Workers : work[w].run \in Nat
  BY ReviewRunAssumption DEF QueueInv, TypeOK, WorkRows, Enqueue
<1>2. \A w \in Workers : work[w].run # 0 => runs'[work[w].run] = runs[work[w].run]
  <2> SUFFICES ASSUME NEW w \in Workers, work[w].run # 0
               PROVE  runs'[work[w].run] = runs[work[w].run]
    OBVIOUS
  <2>1. work[w].run \in 1..count
    BY DEF QueueInv, WorkersHoldRuns, Idle
  <2>2. work[w].run \in Runs /\ work[w].run # count + 1
    BY <1>1, <2>1, ReviewRunAssumption DEF QueueInv, TypeOK
  <2>3. \A m \in Runs : m # count + 1 => runs'[m] = runs[m]
    BY DEF Enqueue, QueueInv, TypeOK
  <2>4. QED  BY <2>2, <2>3
<1>3. QED  BY <1>1, <1>2 DEF QueueInv, WorkersHoldRuns, OwnerIsCurrent, Owns

LEMMA SubmitInv == ASSUME QueueInv, Submit PROVE QueueInv'
<1>1. /\ round' = round + 1 /\ round' \in Rounds /\ round \in Nat /\ UNCHANGED work
      /\ request' = "IN_REVIEW"
  BY ReviewRunAssumption DEF Submit, QueueInv, TypeOK
<1>2. CASE UNCHANGED <<count, runs>>
  <2>1. TypeOK'
    BY <1>1, <1>2 DEF QueueInv, TypeOK
  <2>2. RowsAreRuns' /\ RoundsInOrder' /\ LastIsLive' /\ LockedWhileProcessed'
        /\ RoundsHaveLast'
    BY <1>1, <1>2, SameQueue
  <2>3. WorkersHoldRuns' /\ OwnerIsCurrent'
    BY <1>1, <1>2 DEF QueueInv, WorkersHoldRuns, OwnerIsCurrent, Owns
  <2>4. QED  BY <2>1, <2>2, <2>3 DEF QueueInv
<1>3. CASE Enqueue(round + 1)
  <2>1. \A n \in 1..count : runs[n].round # round'
    BY <1>1, ReviewRunAssumption DEF QueueInv, RoundsInOrder, TypeOK, RunRows
  <2>2. /\ count' \in 0..MaxRuns /\ runs' \in [Runs -> RunRows]
        /\ RowsAreRuns' /\ RoundsInOrder' /\ LastIsLive' /\ LockedWhileProcessed'
        /\ RoundsHaveLast'
    BY <1>1, <1>3, <2>1, EnqueueRows
  <2>3. WorkersHoldRuns' /\ OwnerIsCurrent'
    BY <1>1, <1>3, EnqueueWork
  <2>4. QED  BY <1>1, <2>2, <2>3 DEF QueueInv, TypeOK
<1>4. QED  BY <1>2, <1>3 DEF Submit

LEMMA RetryInv == ASSUME QueueInv, NEW n \in Runs, RetryReview(n) PROVE QueueInv'
<1>1. UNCHANGED <<request, round, work>> /\ Enqueue(round) /\ round \in Rounds
  BY DEF RetryReview, QueueInv, TypeOK
<1>2. \A m \in 1..count : runs[m].round = round => runs[m].status \notin Live
  <2>1. count \in Nat /\ n \in 1..count /\ n = count /\ runs[n].round = round
        /\ runs[n].status = "FAILED"
    BY ReviewRunAssumption DEF RetryReview, Retryable, QueueInv, TypeOK
  <2> SUFFICES ASSUME NEW m \in 1..count, runs[m].round = round, runs[m].status \in Live
               PROVE  FALSE
    OBVIOUS
  <2>2. n <= m
    BY <2>1 DEF QueueInv, LastIsLive
  <2>3. m = n
    BY <2>1, <2>2
  <2>4. QED  BY <2>1, <2>3
<1>3. /\ count' \in 0..MaxRuns /\ runs' \in [Runs -> RunRows]
      /\ RowsAreRuns' /\ RoundsInOrder' /\ LastIsLive' /\ LockedWhileProcessed'
      /\ RoundsHaveLast'
  BY <1>1, <1>2, EnqueueRows
<1>4. WorkersHoldRuns' /\ OwnerIsCurrent'
  BY <1>1, EnqueueWork
<1>5. QED  BY <1>1, <1>3, <1>4 DEF QueueInv, TypeOK

-----------------------------------------------------------------------------
(* Workers and the clock.                                                     *)

(* A step that lets go of a run, or keeps who holds it and the turn it is in. *)
KeepsOwner(n) ==
  /\ \A w \in Workers : work'[w] \in {work[w], Idle}
  /\ \/ runs'[n].lockedBy = NoWorker
     \/ /\ runs'[n].status = runs[n].status /\ runs'[n].lockedBy = runs[n].lockedBy
        /\ runs'[n].turn = runs[n].turn
        /\ runs'[n].turnAttempts = runs[n].turnAttempts

LEMMA KeepsOwnerInv ==
  ASSUME QueueInv, NEW n \in Runs, RunStep(n), KeepsOwner(n)
  PROVE  WorkersHoldRuns' /\ OwnerIsCurrent'
<1>1. WorkersHoldRuns'
  BY ReviewRunAssumption DEF QueueInv, TypeOK, WorkersHoldRuns, RunStep, KeepsOwner, Idle
<1>2. ASSUME NEW w \in Workers, work'[w].run # 0, Owns(w)'
      PROVE  /\ work'[w].turn = runs'[work'[w].run].turn
             /\ work'[w].turnAttempts = runs'[work'[w].run].turnAttempts
  <2>1. work'[w] = work[w]
    BY <1>2 DEF KeepsOwner, Idle
  <2>2. runs'[work[w].run].lockedBy = w /\ runs'[work[w].run].status = "PROCESSING"
        /\ work[w].run \in Runs
    BY <1>2, <2>1 DEF Owns, QueueInv, TypeOK, WorkRows
  <2>3. CASE work[w].run = n
    BY <1>2, <2>1, <2>2, <2>3, ReviewRunAssumption DEF KeepsOwner, QueueInv, OwnerIsCurrent, Owns
  <2>4. CASE work[w].run # n
    BY <1>2, <2>1, <2>2, <2>4 DEF RunStep, QueueInv, OwnerIsCurrent, Owns
  <2>5. QED  BY <2>3, <2>4
<1>3. QED  BY <1>1, <1>2 DEF OwnerIsCurrent

(* The whole invariant, for such a step.                                      *)
LEMMA WorkerStepInv ==
  ASSUME QueueInv, NEW n \in Runs, RunStep(n), KeepsOwner(n), UNCHANGED round, TypeOK'
  PROVE  QueueInv'
<1>1. round' \in Rounds /\ round <= round'
  BY ReviewRunAssumption DEF QueueInv, TypeOK
<1>2. QED  BY <1>1, RunStepRows, KeepsOwnerInv DEF QueueInv

LEMMA ClaimInv == ASSUME QueueInv, NEW w \in Workers, NEW n \in Runs, Claim(w, n) PROVE QueueInv'
<1> DEFINE attempts == runs[n].turnAttempts + 1
<1>1. /\ runs[n] \in RunRows /\ attempts \in 0..MaxAttempts
      /\ n \in 1..count /\ runs[n].turn \in 0..MaxTurn
      /\ UNCHANGED <<request, round, count>> /\ runs[n].status \in Live
  BY ReviewRunAssumption
  DEF QueueInv, TypeOK, RunRows, Claim, Claimable, Pending, AttemptsLeft
<1>2. /\ runs'[n] = [runs[n] EXCEPT !.status = "PROCESSING", !.lockedBy = w,
                                    !.expired = FALSE, !.turnAttempts = attempts]
      /\ \A m \in Runs \ {n} : runs'[m] = runs[m]
      /\ runs' = [m \in Runs |-> runs'[m]]
  BY DEF QueueInv, TypeOK, Claim, Counted
<1>3. /\ work'[w] = [run |-> n, turn |-> runs[n].turn, turnAttempts |-> attempts]
      /\ \A v \in Workers \ {w} : work'[v] = work[v]
      /\ work' = [v \in Workers |-> work'[v]]
  BY DEF QueueInv, TypeOK, Claim, Counted
<1> HIDE DEF attempts
<1>4. /\ runs'[n].status = "PROCESSING" /\ runs'[n].lockedBy = w
      /\ runs'[n].round = runs[n].round /\ runs'[n].turn = runs[n].turn
      /\ runs'[n].turnAttempts = attempts /\ runs'[n] \in RunRows
  BY <1>1, <1>2 DEF RunRows
<1>5. TypeOK'
  <2>1. work'[w] \in WorkRows
    BY <1>1, <1>3 DEF WorkRows
  <2>2. runs' \in [Runs -> RunRows] /\ work' \in [Workers -> WorkRows]
    BY <2>1, <1>2, <1>3, <1>4 DEF QueueInv, TypeOK
  <2>3. QED  BY <2>2, <1>1 DEF QueueInv, TypeOK
<1>6. RunStep(n) /\ UNCHANGED round
  BY <1>1, <1>2, <1>4, ReviewRunAssumption DEF RunStep
<1>7. RowsAreRuns' /\ RoundsInOrder' /\ LastIsLive' /\ LockedWhileProcessed'
      /\ RoundsHaveLast'
  <2>1. round' \in Rounds /\ round <= round'
    BY <1>6, ReviewRunAssumption DEF QueueInv, TypeOK
  <2>2. QED  BY <1>6, <2>1, RunStepRows
<1>8. WorkersHoldRuns'
  BY <1>1, <1>3 DEF QueueInv, WorkersHoldRuns
<1>9. OwnerIsCurrent'
  <2> SUFFICES ASSUME NEW v \in Workers, work'[v].run # 0, Owns(v)'
               PROVE  /\ work'[v].turn = runs'[work'[v].run].turn
                      /\ work'[v].turnAttempts = runs'[work'[v].run].turnAttempts
    BY DEF OwnerIsCurrent
  <2>1. CASE v = w
    BY <1>3, <1>4, <2>1
  <2>2. CASE v # w
    <3>1. work'[v] = work[v] /\ work[v].run \in Runs /\ work[v].run # n
      BY <1>3, <1>4, <2>2 DEF Owns, QueueInv, TypeOK, WorkRows
    <3>2. QED  BY <1>2, <3>1 DEF Owns, QueueInv, OwnerIsCurrent
  <2>3. QED  BY <2>1, <2>2
<1>10. QED  BY <1>5, <1>7, <1>8, <1>9 DEF QueueInv

(* A run is let go of with a status, a turn and a number of attempts.         *)
LetGo(n, status, turn, turnAttempts, due) ==
  /\ runs' = [runs EXCEPT ![n] =
                [runs[n] EXCEPT !.status = status, !.turn = turn,
                                !.turnAttempts = turnAttempts,
                                !.lockedBy = NoWorker, !.expired = FALSE, !.due = due]]
  /\ UNCHANGED <<round, count>>

LEMMA LetGoInv ==
  ASSUME QueueInv, NEW n \in Runs, runs[n].status \in Live,
         request' \in {"IN_REVIEW", "CHANGES_REQUESTED", "READY_FOR_BOOKKEEPING",
                       "CANCELLED"},
         NEW status \in {"QUEUED"} \cup Ended, NEW turn \in 0..MaxTurn,
         NEW turnAttempts \in 0..MaxAttempts, NEW due \in BOOLEAN,
         LetGo(n, status, turn, turnAttempts, due),
         work' \in [Workers -> WorkRows], \A w \in Workers : work'[w] \in {work[w], Idle}
  PROVE  QueueInv'
<1>1. runs[n] \in RunRows /\ runs \in [Runs -> RunRows]
  BY DEF QueueInv, TypeOK
<1>2. /\ runs'[n] \in RunRows
      /\ runs'[n].status = status /\ runs'[n].lockedBy = NoWorker
      /\ runs'[n].round = runs[n].round
  BY <1>1 DEF LetGo, RunRows, Ended
<1>3. /\ \A m \in Runs \ {n} : runs'[m] = runs[m]
      /\ runs' \in [Runs -> RunRows]
      /\ UNCHANGED <<round, count>>
  BY <1>1, <1>2 DEF LetGo
<1>4. TypeOK'
  BY <1>3 DEF QueueInv, TypeOK
<1>5. RunStep(n) /\ KeepsOwner(n)
  BY <1>2, <1>3 DEF RunStep, KeepsOwner, Ended
<1>6. QED  BY <1>3, <1>4, <1>5, WorkerStepInv

LEMMA ExhaustedInv ==
  ASSUME QueueInv, NEW w \in Workers, NEW n \in Runs, ClaimExhausted(w, n)
  PROVE  QueueInv'
<1>1. runs[n] \in RunRows /\ runs \in [Runs -> RunRows] /\ runs[n].status \in Live
  BY DEF QueueInv, TypeOK, ClaimExhausted, Claimable, Pending
<1>2. /\ runs[n].turn \in 0..MaxTurn /\ runs[n].turnAttempts \in 0..MaxAttempts
      /\ runs[n].due \in BOOLEAN
  BY <1>1 DEF RunRows
<1>3. LetGo(n, "FAILED", runs[n].turn, runs[n].turnAttempts, runs[n].due)
  BY <1>1 DEF ClaimExhausted, LetGo, RunRows
<1>4. /\ work' \in [Workers -> WorkRows] /\ \A v \in Workers : work'[v] \in {work[v], Idle}
      /\ request' = request
  BY DEF ClaimExhausted, QueueInv, TypeOK
<1>5. QED  BY <1>1, <1>2, <1>3, <1>4, LetGoInv DEF QueueInv, TypeOK, Ended

(* What every commit under the lease does.                                    *)
LEMMA CommitFrame ==
  ASSUME QueueInv, NEW w \in Workers, Commit(w)
  PROVE  /\ work[w].run \in Runs /\ runs[work[w].run].status \in Live
         /\ runs[work[w].run] \in RunRows /\ runs \in [Runs -> RunRows]
         /\ runs[work[w].run].turn \in 0..MaxTurn
         /\ runs[work[w].run].turnAttempts \in 0..MaxAttempts
         /\ runs[work[w].run].due \in BOOLEAN
         /\ work' \in [Workers -> WorkRows]
         /\ \A v \in Workers : work'[v] \in {work[v], Idle}
         /\ UNCHANGED <<round, count>>
<1>1. Idle \in WorkRows
  BY ReviewRunAssumption DEF Idle, WorkRows
<1>2. /\ work' \in [Workers -> WorkRows] /\ UNCHANGED <<round, count>>
      /\ \A v \in Workers : work'[v] \in {work[v], Idle}
  BY <1>1 DEF Commit, QueueInv, TypeOK
<1>3. work[w] \in WorkRows /\ runs \in [Runs -> RunRows]
  BY DEF QueueInv, TypeOK
<1>4. work[w].run \in Runs
  BY ReviewRunAssumption DEF Commit, QueueInv, TypeOK, WorkersHoldRuns
<1>5. runs[work[w].run] \in RunRows /\ runs[work[w].run].status = "PROCESSING"
  BY <1>3, <1>4 DEF Commit, Owns
<1>6. QED  BY <1>2, <1>3, <1>4, <1>5 DEF RunRows

LEMMA CommitInv ==
  ASSUME QueueInv, NEW w \in Workers, NEW answer \in Answers,
         \/ CommitSuperseded(w) \/ CommitFailed(w, answer) \/ CommitAgain(w, answer)
         \/ CommitSearch(w, answer) \/ CommitFindings(w, answer)
  PROVE  QueueInv'
<1> DEFINE n == work[w].run
<1>1. Commit(w)
  BY DEF CommitSuperseded, CommitFailed, CommitAgain, CommitSearch, CommitFindings
<1>2. /\ n \in Runs /\ runs[n].status \in Live
      /\ runs[n] \in RunRows /\ runs \in [Runs -> RunRows]
      /\ runs[n].turn \in 0..MaxTurn
      /\ runs[n].turnAttempts \in 0..MaxAttempts
      /\ runs[n].due \in BOOLEAN
      /\ work' \in [Workers -> WorkRows]
      /\ \A v \in Workers : work'[v] \in {work[v], Idle}
      /\ UNCHANGED <<round, count>>
  BY <1>1, CommitFrame
<1>3. work[w].turn \in 0..MaxTurn
  BY DEF QueueInv, TypeOK, WorkRows
<1>4. request' \in {"IN_REVIEW", "CHANGES_REQUESTED", "READY_FOR_BOOKKEEPING", "CANCELLED"}
  BY DEF CommitSuperseded, CommitFailed, CommitAgain, CommitSearch, CommitFindings,
    QueueInv, TypeOK
<1> HIDE DEF n
<1>5. ASSUME NEW status \in Ended, Release(n, status)
      PROVE  LetGo(n, status, runs[n].turn, runs[n].turnAttempts, runs[n].due)
  BY <1>2, <1>5 DEF Release, LetGo, RunRows
<1>6. CASE CommitSuperseded(w)
  <2>1. LetGo(n, "CANCELLED", runs[n].turn, runs[n].turnAttempts, runs[n].due)
    <3>1. Release(n, "CANCELLED")
      BY <1>6 DEF CommitSuperseded, n
    <3>2. QED  BY <1>5, <3>1 DEF Ended
  <2>2. QED  BY <1>2, <1>4, <2>1, LetGoInv DEF Ended
<1>7. CASE CommitFailed(w, answer)
  <2>1. LetGo(n, "FAILED", runs[n].turn, runs[n].turnAttempts, runs[n].due)
    <3>1. Release(n, "FAILED")
      BY <1>7 DEF CommitFailed, n
    <3>2. QED  BY <1>5, <3>1 DEF Ended
  <2>2. QED  BY <1>2, <1>4, <2>1, LetGoInv DEF Ended
<1>8. CASE CommitAgain(w, answer)
  <2>1. LetGo(n, "QUEUED", runs[n].turn, runs[n].turnAttempts, FALSE)
    <3>1. runs' = [runs EXCEPT ![n].status = "QUEUED", ![n].lockedBy = NoWorker,
                               ![n].expired = FALSE, ![n].due = FALSE]
      BY <1>8 DEF CommitAgain, n
    <3>2. QED  BY <1>2, <3>1 DEF LetGo, RunRows
  <2>2. QED  BY <1>2, <1>4, <2>1, LetGoInv
<1>9. CASE CommitSearch(w, answer)
  <2>1. LetGo(n, "QUEUED", work[w].turn + 1, 0, TRUE)
    <3> DEFINE turn == work[w].turn + 1
    <3>1. runs' = [runs EXCEPT ![n].status = "QUEUED", ![n].lockedBy = NoWorker,
                      ![n].expired = FALSE, ![n].due = TRUE,
                      ![n].turn = turn, ![n].turnAttempts = 0]
      BY <1>9 DEF CommitSearch, n
    <3> HIDE DEF turn
    <3>2. runs' = [runs EXCEPT ![n] =
                     [runs[n] EXCEPT !.status = "QUEUED", !.lockedBy = NoWorker,
                                     !.expired = FALSE, !.due = TRUE,
                                     !.turn = turn, !.turnAttempts = 0]]
      BY <1>2, <3>1
    <3>3. [runs[n] EXCEPT !.status = "QUEUED", !.lockedBy = NoWorker, !.expired = FALSE,
                          !.due = TRUE, !.turn = turn, !.turnAttempts = 0]
          = [runs[n] EXCEPT !.status = "QUEUED", !.turn = turn, !.turnAttempts = 0,
                            !.lockedBy = NoWorker, !.expired = FALSE, !.due = TRUE]
      BY <1>2 DEF RunRows
    <3>4. UNCHANGED <<round, count>>
      BY <1>2
    <3>5. QED  BY <3>2, <3>3, <3>4 DEF LetGo, turn
  <2>2. work[w].turn + 1 \in 0..MaxTurn /\ 0 \in 0..MaxAttempts
    <3>1. work[w].turn < MaxTurn
      BY <1>9 DEF CommitSearch
    <3>2. QED  BY <1>3, <3>1, ReviewRunAssumption
  <2>3. QED  BY <1>2, <1>4, <2>1, <2>2, LetGoInv
<1>10. CASE CommitFindings(w, answer)
  <2>1. LetGo(n, "SUCCEEDED", runs[n].turn, runs[n].turnAttempts, runs[n].due)
    <3>1. Release(n, "SUCCEEDED")
      BY <1>10 DEF CommitFindings, n
    <3>2. QED  BY <1>5, <3>1 DEF Ended
  <2>2. QED  BY <1>2, <1>4, <2>1, LetGoInv DEF Ended
<1>11. QED  BY <1>6, <1>7, <1>8, <1>9, <1>10

(* A worker that drops its answer, or dies.                                   *)
LEMMA LeaveInv ==
  ASSUME QueueInv, NEW w \in Workers, DropAnswer(w) \/ Crash(w)
  PROVE  QueueInv'
<1>1. /\ work' = [work EXCEPT ![w] = Idle]
      /\ UNCHANGED <<request, round, count, runs>>
  BY DEF DropAnswer, Crash
<1>2. Idle \in WorkRows
  BY ReviewRunAssumption DEF Idle, WorkRows
<1>3. TypeOK'
  BY <1>1, <1>2 DEF QueueInv, TypeOK
<1>4. RowsAreRuns' /\ RoundsInOrder' /\ LastIsLive' /\ LockedWhileProcessed'
      /\ RoundsHaveLast'
  <2>1. round' \in Rounds /\ round <= round'
    BY <1>1, ReviewRunAssumption DEF QueueInv, TypeOK
  <2>2. QED  BY <1>1, <2>1, SameQueue
<1>5. \A v \in Workers : work'[v] = work[v] \/ work'[v] = Idle
  BY <1>1 DEF QueueInv, TypeOK
<1>6. WorkersHoldRuns' /\ OwnerIsCurrent'
  BY <1>1, <1>5 DEF QueueInv, WorkersHoldRuns, OwnerIsCurrent, Owns, Idle
<1>7. QED  BY <1>3, <1>4, <1>6 DEF QueueInv

LEMMA ClockInv ==
  ASSUME QueueInv, NEW n \in Runs, LeaseExpires(n) \/ BackoffEnds(n)
  PROVE  QueueInv'
<1>1. runs[n] \in RunRows /\ runs \in [Runs -> RunRows]
  BY DEF QueueInv, TypeOK
<1>2. /\ runs'[n] = [runs[n] EXCEPT !.expired = TRUE]
         \/ runs'[n] = [runs[n] EXCEPT !.due = TRUE]
      /\ \A m \in Runs \ {n} : runs'[m] = runs[m]
      /\ runs' = [m \in Runs |-> runs'[m]]
      /\ UNCHANGED <<request, round, count, work>>
  BY <1>1 DEF LeaseExpires, BackoffEnds
<1>3. /\ runs'[n] \in RunRows
      /\ runs'[n].status = runs[n].status /\ runs'[n].lockedBy = runs[n].lockedBy
      /\ runs'[n].round = runs[n].round /\ runs'[n].turn = runs[n].turn
      /\ runs'[n].turnAttempts = runs[n].turnAttempts
  BY <1>1, <1>2 DEF RunRows
<1>4. TypeOK'
  BY <1>1, <1>2, <1>3 DEF QueueInv, TypeOK
<1>5. RunStep(n) /\ KeepsOwner(n)
  BY <1>2, <1>3 DEF RunStep, KeepsOwner, QueueInv, LockedWhileProcessed
<1>6. QED  BY <1>2, <1>4, <1>5, WorkerStepInv

LEMMA NextInv == ASSUME QueueInv, [Next]_vars PROVE QueueInv'
<1>1. CASE PeopleNext
  BY <1>1, MoveInv, SubmitInv, RetryInv DEF PeopleNext
<1>2. CASE WorkerNext
  BY <1>2, ClaimInv, ExhaustedInv, CommitInv, LeaveInv DEF WorkerNext, Finish, Answers
<1>3. CASE ClockNext
  BY <1>3, ClockInv DEF ClockNext
<1>4. CASE UNCHANGED vars
  BY <1>4 DEF vars, QueueInv, TypeOK, RowsAreRuns, RoundsInOrder, LastIsLive,
    LockedWhileProcessed, RoundsHaveLast, RunsOf, WorkersHoldRuns, OwnerIsCurrent, Owns
<1>5. QED  BY <1>1, <1>2, <1>3, <1>4 DEF Next

(* What a step makes of a row: a new one at the end, or one further on.       *)
RowForward(n) ==
  /\ Forward(runs[n], runs'[n])
  /\ runs'[n].due \/ runs'[n].status = "QUEUED"

LEMMA ClaimForward ==
  ASSUME IInv, NEW w \in Workers, NEW n \in Runs, Claim(w, n) \/ ClaimExhausted(w, n)
  PROVE  RowForward(n) /\ \A m \in Runs \ {n} : runs'[m] = runs[m]
<1>1. runs \in [Runs -> RunRows] /\ runs[n] \in RunRows
  BY DEF IInv, QueueInv, TypeOK
<1>2. /\ runs[n].status \in Live /\ runs[n].due
      /\ runs[n].turnAttempts \in Nat
  BY <1>1, ReviewRunAssumption DEF Claim, ClaimExhausted, Claimable, Pending, RunRows
<1>3. CASE Claim(w, n)
  <2> DEFINE attempts == runs[n].turnAttempts + 1
  <2>1. runs'[n] = [runs[n] EXCEPT !.status = "PROCESSING", !.lockedBy = w,
                      !.expired = FALSE, !.turnAttempts = attempts]
        /\ \A m \in Runs \ {n} : runs'[m] = runs[m]
    BY <1>1, <1>3 DEF Claim, Counted
  <2>2. attempts > runs[n].turnAttempts
    BY <1>2
  <2> HIDE DEF attempts
  <2>3. /\ runs'[n].status = "PROCESSING" /\ runs'[n].round = runs[n].round
        /\ runs'[n].turn = runs[n].turn /\ runs'[n].turnAttempts = attempts
        /\ runs'[n].due = runs[n].due
    BY <1>1, <2>1 DEF RunRows
  <2>4. QED  BY <1>2, <2>1, <2>2, <2>3 DEF RowForward, Forward
<1>4. CASE ClaimExhausted(w, n)
  <2>1. runs'[n] = [runs[n] EXCEPT !.status = "FAILED", !.lockedBy = NoWorker,
                      !.expired = FALSE]
        /\ \A m \in Runs \ {n} : runs'[m] = runs[m]
    BY <1>1, <1>4 DEF ClaimExhausted
  <2>2. /\ runs'[n].status = "FAILED" /\ runs'[n].round = runs[n].round
        /\ runs'[n].due = runs[n].due
    BY <1>1, <2>1 DEF RunRows
  <2>3. QED  BY <1>2, <2>1, <2>2 DEF RowForward, Forward, Ended
<1>5. QED  BY <1>3, <1>4

(* The worker holds the turn and the attempt that the row is in: a pause      *)
(* comes after it, and the turn it asks for is the next.                      *)
LEMMA CommitForward ==
  ASSUME IInv, NEW w \in Workers, NEW answer \in Answers,
         \/ CommitSuperseded(w) \/ CommitFailed(w, answer) \/ CommitAgain(w, answer)
         \/ CommitSearch(w, answer) \/ CommitFindings(w, answer)
  PROVE  /\ work[w].run \in Runs /\ RowForward(work[w].run)
         /\ \A m \in Runs \ {work[w].run} : runs'[m] = runs[m]
<1> DEFINE n == work[w].run
<1>1. Commit(w) /\ QueueInv
  BY DEF CommitSuperseded, CommitFailed, CommitAgain, CommitSearch, CommitFindings, IInv
<1>2. n \in Runs /\ runs \in [Runs -> RunRows] /\ runs[n] \in RunRows
  BY <1>1, CommitFrame
<1>3. runs[n].status = "PROCESSING" /\ runs[n].due
  BY <1>1, <1>2 DEF Commit, Owns, IInv, PausedIsQueued
<1>4. work[w].turn = runs[n].turn /\ runs[n].turn \in Nat
  <2>1. n # 0 /\ Owns(w)
    BY <1>1, <1>2 DEF Commit
  <2>2. work[w].turn = runs[n].turn
    BY <1>1, <2>1 DEF QueueInv, OwnerIsCurrent
  <2>3. runs[n].turn \in 0..MaxTurn
    BY <1>2 DEF RunRows
  <2>4. QED  BY <2>2, <2>3
<1> HIDE DEF n
<1>5. ASSUME NEW status \in Ended, Release(n, status)
      PROVE  RowForward(n) /\ \A m \in Runs \ {n} : runs'[m] = runs[m]
  <2>1. runs'[n] = [runs[n] EXCEPT !.status = status, !.lockedBy = NoWorker,
                                   !.expired = FALSE]
        /\ \A m \in Runs \ {n} : runs'[m] = runs[m]
    BY <1>2, <1>5 DEF Release
  <2>2. /\ runs'[n].status = status /\ runs'[n].round = runs[n].round
        /\ runs'[n].due = runs[n].due
    BY <1>2, <2>1 DEF RunRows
  <2>3. QED  BY <1>3, <2>1, <2>2 DEF RowForward, Forward
<1>6. CASE CommitSuperseded(w) \/ CommitFailed(w, answer) \/ CommitFindings(w, answer)
  <2>1. \E status \in Ended : Release(n, status)
    BY <1>6 DEF CommitSuperseded, CommitFailed, CommitFindings, Ended, n
  <2>2. QED  BY <1>2, <1>5, <2>1 DEF n
<1>7. CASE CommitAgain(w, answer)
  <2>1. runs' = [runs EXCEPT ![n].status = "QUEUED", ![n].lockedBy = NoWorker,
                             ![n].expired = FALSE, ![n].due = FALSE]
    BY <1>7 DEF CommitAgain, n
  <2>2. runs'[n] = [runs[n] EXCEPT !.status = "QUEUED", !.lockedBy = NoWorker,
                                   !.expired = FALSE, !.due = FALSE]
        /\ \A m \in Runs \ {n} : runs'[m] = runs[m]
    BY <1>2, <2>1
  <2>3. /\ runs'[n].status = "QUEUED" /\ runs'[n].round = runs[n].round
        /\ runs'[n].turn = runs[n].turn /\ runs'[n].due = FALSE
        /\ runs'[n].turnAttempts = runs[n].turnAttempts
    BY <1>2, <2>2 DEF RunRows
  <2>4. Stage(runs'[n]) = 2 /\ Stage(runs[n]) \in {0, 1}
    BY <1>3, <2>3 DEF Stage
  <2>5. QED  BY <1>2, <1>3, <2>2, <2>3, <2>4 DEF RowForward, Forward, n
<1>8. CASE CommitSearch(w, answer)
  <2> DEFINE turn == work[w].turn + 1
  <2>1. runs' = [runs EXCEPT ![n].status = "QUEUED", ![n].lockedBy = NoWorker,
                    ![n].expired = FALSE, ![n].due = TRUE,
                    ![n].turn = turn, ![n].turnAttempts = 0]
    BY <1>8 DEF CommitSearch, n
  <2>2. turn > runs[n].turn
    BY <1>4
  <2> HIDE DEF turn
  <2>3. runs'[n] = [runs[n] EXCEPT !.status = "QUEUED", !.lockedBy = NoWorker,
                      !.expired = FALSE, !.due = TRUE, !.turn = turn, !.turnAttempts = 0]
        /\ \A m \in Runs \ {n} : runs'[m] = runs[m]
    BY <1>2, <2>1
  <2>4. /\ runs'[n].status = "QUEUED" /\ runs'[n].round = runs[n].round
        /\ runs'[n].turn = turn
    BY <1>2, <2>3 DEF RunRows
  <2>5. QED  BY <1>2, <1>3, <2>2, <2>3, <2>4 DEF RowForward, Forward, n
<1>9. QED  BY <1>6, <1>7, <1>8

LEMMA ClockForward ==
  ASSUME IInv, NEW n \in Runs, LeaseExpires(n) \/ BackoffEnds(n)
  PROVE  RowForward(n) /\ \A m \in Runs \ {n} : runs'[m] = runs[m]
<1>1. runs \in [Runs -> RunRows] /\ runs[n] \in RunRows
  BY DEF IInv, QueueInv, TypeOK
<1>2. CASE LeaseExpires(n)
  <2>1. /\ runs[n].status = "PROCESSING" /\ ~runs[n].expired /\ runs[n].due
    BY <1>2 DEF LeaseExpires, IInv, QueueInv, LockedWhileProcessed, PausedIsQueued
  <2>2. runs'[n] = [runs[n] EXCEPT !.expired = TRUE]
        /\ \A m \in Runs \ {n} : runs'[m] = runs[m]
    BY <1>1, <1>2 DEF LeaseExpires
  <2>3. /\ runs'[n].status = "PROCESSING" /\ runs'[n].expired
        /\ runs'[n].round = runs[n].round /\ runs'[n].turn = runs[n].turn
        /\ runs'[n].turnAttempts = runs[n].turnAttempts /\ runs'[n].due = runs[n].due
    BY <1>1, <2>1, <2>2 DEF RunRows
  <2>4. Stage(runs'[n]) = 1 /\ Stage(runs[n]) = 0
    BY <2>1, <2>3 DEF Stage
  <2>5. QED  BY <2>1, <2>2, <2>3, <2>4 DEF RowForward, Forward
<1>3. CASE BackoffEnds(n)
  <2>1. runs[n].status = "QUEUED" /\ ~runs[n].due
    BY <1>3 DEF BackoffEnds, IInv, PausedIsQueued
  <2>2. runs'[n] = [runs[n] EXCEPT !.due = TRUE]
        /\ \A m \in Runs \ {n} : runs'[m] = runs[m]
    BY <1>1, <1>3 DEF BackoffEnds
  <2>3. /\ runs'[n].status = "QUEUED" /\ runs'[n].due
        /\ runs'[n].round = runs[n].round /\ runs'[n].turn = runs[n].turn
        /\ runs'[n].turnAttempts = runs[n].turnAttempts
    BY <1>1, <2>1, <2>2 DEF RunRows
  <2>4. Stage(runs'[n]) = 3 /\ Stage(runs[n]) = 2
    BY <2>1, <2>3 DEF Stage
  <2>5. QED  BY <2>1, <2>2, <2>3, <2>4 DEF RowForward, Forward
<1>4. QED  BY <1>2, <1>3

LEMMA RowStep ==
  ASSUME IInv, Next, NEW n \in Runs, runs'[n] # runs[n]
  PROVE  \/ /\ n = count' /\ count' = count + 1
            /\ runs'[n].due
         \/ RowForward(n)
<1>1. CASE PeopleNext
  <2>1. PICK r : Enqueue(r)
    BY <1>1 DEF PeopleNext, LeaveReview, Reopen, CancelReturned, Submit, RetryReview
  <2>2. PICK status \in EnqueuedStatus :
          count' = count + 1 /\ runs' = [runs EXCEPT ![count + 1] = NewRun(r, status)]
    BY <2>1 DEF Enqueue
  <2>3. n = count + 1
    BY <2>2 DEF IInv, QueueInv, TypeOK
  <2>4. runs'[n] = NewRun(r, status)
    BY <2>2, <2>3 DEF IInv, QueueInv, TypeOK
  <2>5. QED  BY <2>2, <2>3, <2>4 DEF NewRun
<1>2. CASE WorkerNext
  <2>1. ASSUME NEW w \in Workers, DropAnswer(w) \/ Crash(w) PROVE FALSE
    BY <2>1 DEF DropAnswer, Crash
  <2>2. QED
    BY <1>2, <2>1, ClaimForward, CommitForward DEF WorkerNext, Finish, Answers
<1>3. CASE ClockNext
  BY <1>3, ClockForward DEF ClockNext
<1>4. QED  BY <1>1, <1>2, <1>3 DEF Next

(* The queue and the workers are always well formed, and no turn is tried too *)
(* often, whatever crashes.                                                   *)
THEOREM Invariance == Spec => []IInv
<1>1. Init => IInv
  <2> SUFFICES ASSUME Init PROVE PausedIsQueued
    BY InitInv DEF IInv
  <2>1. ASSUME NEW n \in Runs PROVE runs[n].due
    <3>1. CASE count = 0
      BY <3>1 DEF Init, NewRun
    <3>2. CASE count # 0
      <4>1. PICK status : runs = [m \in Runs |-> NewRun(1, IF m = 1 THEN status ELSE "NONE")]
        BY <3>2 DEF Init
      <4>2. QED  BY <4>1 DEF NewRun
    <3>3. QED  BY <3>1, <3>2
  <2>2. QED  BY <2>1 DEF PausedIsQueued
<1>2. IInv /\ [Next]_vars => IInv'
  <2> SUFFICES ASSUME IInv, [Next]_vars PROVE PausedIsQueued'
    BY NextInv DEF IInv
  <2>1. CASE UNCHANGED vars
    BY <2>1 DEF vars, IInv, PausedIsQueued
  <2>2. CASE Next
    BY <2>2, RowStep DEF RowForward, IInv, PausedIsQueued
  <2>3. QED  BY <2>1, <2>2
<1>3. QED  BY <1>1, <1>2, PTL DEF Spec

LEMMA QueueInvariance == Spec => []QueueInv
<1>1. IInv => QueueInv
  BY DEF IInv
<1>2. QED  BY <1>1, Invariance, PTL

(* Every write to a run takes it forward, and none reaches a run that has     *)
(* ended.                                                                     *)
THEOREM QueueGoesForward == Spec => RunsGoForward
<1>1. ASSUME IInv, [Next]_vars
      PROVE  [\A n \in Runs :
                runs'[n] # runs[n] => \/ n = count' /\ count' = count + 1
                                     \/ Forward(runs[n], runs'[n])]_vars
  BY <1>1, RowStep DEF RowForward
<1>2. QED  BY <1>1, Invariance, PTL DEF Spec, RunsGoForward

(* A round never has two reviews going on (enqueue_review is only reached     *)
(* when the last run of the round has failed).                                *)
THEOREM OneReview == Spec => []OneLiveRunPerRound
<1>1. QueueInv => OneLiveRunPerRound
  <2> SUFFICES ASSUME QueueInv, NEW m \in Runs, NEW n \in Runs, runs[m].status \in Live,
                      runs[n].status \in Live, runs[m].round = runs[n].round
               PROVE  m = n
    BY DEF OneLiveRunPerRound
  <2>1. m \in 1..count /\ n \in 1..count
    BY ReviewRunAssumption DEF QueueInv, TypeOK, RowsAreRuns
  <2>2. m <= n /\ n <= m
    BY <2>1 DEF QueueInv, LastIsLive
  <2>3. QED  BY <2>1, <2>2
<1>2. QED  BY <1>1, QueueInvariance, PTL

(* An answer is written to the run, the turn and the attempt it was asked for *)
(* (the second transaction of process_review under the lease it checks).      *)
THEOREM AnswersFit == Spec => AnswersFitTheTurn
<1> DEFINE Fits ==
      \A n \in Runs :
        runs[n].status = "PROCESSING" /\ runs'[n].status \in {"SUCCEEDED", "QUEUED"} =>
          \E w \in Workers :
            /\ work[w].run = n /\ work'[w] = Idle
            /\ work[w].turn = runs[n].turn
            /\ work[w].turnAttempts = runs[n].turnAttempts
<1>1. ASSUME QueueInv, [Next]_vars PROVE [Fits]_vars
  <2> SUFFICES ASSUME NEW n \in Runs, runs[n].status = "PROCESSING",
                      runs'[n].status \in {"SUCCEEDED", "QUEUED"}
               PROVE  \E w \in Workers :
                        /\ work[w].run = n /\ work'[w] = Idle
                        /\ work[w].turn = runs[n].turn
                        /\ work[w].turnAttempts = runs[n].turnAttempts
    OBVIOUS
  <2>1. runs \in [Runs -> RunRows] /\ work \in [Workers -> WorkRows]
    BY <1>1 DEF QueueInv, TypeOK
  <2>2. ASSUME NEW w \in Workers, Commit(w), work[w].run = n
        PROVE  /\ work'[w] = Idle /\ work[w].turn = runs[n].turn
               /\ work[w].turnAttempts = runs[n].turnAttempts
    <3>1. work'[w] = Idle
      BY <2>1, <2>2 DEF Commit
    <3>2. work[w].run # 0 /\ Owns(w)
      BY <2>2, ReviewRunAssumption DEF Commit
    <3>3. QED  BY <1>1, <2>2, <3>1, <3>2 DEF QueueInv, OwnerIsCurrent
  <2>3. CASE PeopleNext
    <3>1. ASSUME NEW r \in Nat, Enqueue(r) PROVE runs'[n] = runs[n]
      <4>1. n <= count
        BY <1>1 DEF QueueInv, RowsAreRuns
      <4>2. n # count + 1
        BY <4>1, <1>1, ReviewRunAssumption DEF QueueInv, TypeOK
      <4>3. QED  BY <2>1, <3>1, <4>2 DEF Enqueue
    <3>2. round \in Nat
      BY <1>1 DEF QueueInv, TypeOK
    <3>3. runs'[n] = runs[n]
      BY <2>3, <3>1, <3>2 DEF PeopleNext, LeaveReview, Reopen, CancelReturned, Submit, RetryReview
    <3>4. QED  BY <3>3
  <2>4. CASE ClockNext
    <3>1. PICK m \in Runs : LeaseExpires(m) \/ BackoffEnds(m)
      BY <2>4 DEF ClockNext
    <3>2. runs[m] \in RunRows
      BY <2>1
    <3>3. runs'[m] = [runs[m] EXCEPT !.expired = TRUE]
          \/ runs'[m] = [runs[m] EXCEPT !.due = TRUE]
      BY <2>1, <3>1 DEF LeaseExpires, BackoffEnds
    <3>4. runs'[m].status = runs[m].status
      BY <3>2, <3>3 DEF RunRows
    <3>5. m # n => runs'[n] = runs[n]
      BY <2>1, <3>1 DEF LeaseExpires, BackoffEnds
    <3>6. QED  BY <3>4, <3>5
  <2>5. CASE WorkerNext
    <3>1. ASSUME NEW w \in Workers, NEW m \in Runs, Claim(w, m) \/ ClaimExhausted(w, m)
          PROVE  runs'[n].status \in {runs[n].status, "PROCESSING", "FAILED"}
      <4>1. runs[m] \in RunRows
        BY <2>1
      <4>2. m # n => runs'[n] = runs[n]
        BY <2>1, <3>1 DEF Claim, ClaimExhausted
      <4>3. ASSUME Claim(w, m) PROVE runs'[m].status = "PROCESSING"
        <5>1. runs'[m] = [runs[m] EXCEPT !.status = "PROCESSING", !.lockedBy = w,
                            !.expired = FALSE, !.turnAttempts = Counted(m)]
          BY <2>1, <4>3 DEF Claim
        <5>2. QED  BY <4>1, <5>1 DEF RunRows
      <4>4. ASSUME ClaimExhausted(w, m) PROVE runs'[m].status = "FAILED"
        <5>1. runs'[m] = [runs[m] EXCEPT !.status = "FAILED", !.lockedBy = NoWorker,
                            !.expired = FALSE]
          BY <2>1, <4>4 DEF ClaimExhausted
        <5>2. QED  BY <4>1, <5>1 DEF RunRows
      <4>5. QED  BY <3>1, <4>2, <4>3, <4>4
    <3>2. ASSUME NEW w \in Workers, DropAnswer(w) \/ Crash(w)
          PROVE  runs' = runs
      BY <3>2 DEF DropAnswer, Crash
    <3>3. ASSUME NEW w \in Workers, NEW answer \in Answers,
                 \/ CommitSuperseded(w) \/ CommitFailed(w, answer) \/ CommitAgain(w, answer)
                 \/ CommitSearch(w, answer) \/ CommitFindings(w, answer)
          PROVE  Commit(w) /\ work[w].run = n
      <4>1. Commit(w)
        BY <3>3 DEF CommitSuperseded, CommitFailed, CommitAgain, CommitSearch, CommitFindings
      <4>2. ASSUME work[w].run # n PROVE runs'[n] = runs[n]
        BY <2>1, <3>3, <4>2 DEF CommitSuperseded, CommitFailed, CommitAgain, CommitSearch,
          CommitFindings, Release
      <4>3. QED  BY <4>1, <4>2
    <3>4. QED  BY <2>2, <2>5, <3>1, <3>2, <3>3 DEF WorkerNext, Finish, Answers
  <2>6. CASE UNCHANGED vars
    BY <2>6 DEF vars
  <2>7. QED  BY <1>1, <2>3, <2>4, <2>5, <2>6 DEF Next
<1>2. QED  BY <1>1, QueueInvariance, PTL DEF Spec, AnswersFitTheTurn

-----------------------------------------------------------------------------
(* The runs of a round carry out its one review: a run is queued, claimed,    *)
(* tried and continued while the review is live, and ends it.                 *)

LEMMA TaskIs ==
  ASSUME QueueInv, NEW r \in Rounds
  PROVE  /\ RunsOf(r) = {} => TaskOf[r] = "NONE"
         /\ \A m \in RunsOf(r) : (\A k \in RunsOf(r) : k <= m) =>
              TaskOf[r] = TaskStatus(runs[m].status)
<1>1. RunsOf(r) \in SUBSET Nat
  BY DEF RunsOf
<1>2. ASSUME NEW m \in RunsOf(r), \A k \in RunsOf(r) : k <= m
      PROVE  TaskOf[r] = TaskStatus(runs[m].status)
  <2>1. Last(RunsOf(r)) = m
    BY <1>1, <1>2, LastIs
  <2>2. QED  BY <2>1 DEF TaskOf
<1>3. QED  BY <1>2 DEF TaskOf

LEMMA TaskIsNext ==
  ASSUME NEW r \in Rounds
  PROVE  /\ RunsOf(r)' = {} => TaskOf'[r] = "NONE"
         /\ \A m \in RunsOf(r)' : (\A k \in RunsOf(r)' : k <= m) =>
              TaskOf'[r] = TaskStatus(runs'[m].status)
<1>1. RunsOf(r)' \in SUBSET Nat
  BY DEF RunsOf
<1>2. ASSUME NEW m \in RunsOf(r)', \A k \in RunsOf(r)' : k <= m
      PROVE  TaskOf'[r] = TaskStatus(runs'[m].status)
  <2>1. Last(RunsOf(r)') = m
    BY <1>1, <1>2, LastIs
  <2>2. QED  BY <2>1 DEF TaskOf, TaskStatus
<1>3. QED  BY <1>2 DEF TaskOf

(* A step of one run changes at most the review of its round: not at all if   *)
(* the run's status stays, and as the run's status does if it was live.       *)
LEMMA RunStepTask ==
  ASSUME QueueInv, NEW n \in Runs, RunStep(n)
  PROVE  /\ runs[n].round \in Rounds
         /\ runs'[n].status = runs[n].status => TaskOf' = TaskOf
         /\ runs[n].status \in Live =>
              /\ TaskOf[runs[n].round] = "LIVE"
              /\ TaskOf' = [TaskOf EXCEPT ![runs[n].round] = TaskStatus(runs'[n].status)]
<1> DEFINE r == runs[n].round
<1>1. /\ 1..count \subseteq Runs /\ r \in Rounds /\ count \in Nat
      /\ runs[n].status # "NONE" => n \in 1..count
  BY ReviewRunAssumption DEF QueueInv, TypeOK, RunRows, RowsAreRuns
<1>2. \A q \in Rounds : RunsOf(q)' = RunsOf(q)
  BY <1>1 DEF RunsOf, RunStep
<1>3. ASSUME NEW q \in Rounds, \A m \in RunsOf(q) : runs'[m].status = runs[m].status
      PROVE  TaskOf'[q] = TaskOf[q]
  <2>1. CASE RunsOf(q) = {}
    BY <2>1, <1>2, TaskIs, TaskIsNext
  <2>2. CASE RunsOf(q) # {}
    <3>1. PICK m \in RunsOf(q) : \A k \in RunsOf(q) : k <= m
      BY <2>2 DEF QueueInv, RoundsHaveLast
    <3>2. TaskOf[q] = TaskStatus(runs[m].status) /\ TaskOf'[q] = TaskStatus(runs'[m].status)
      BY <3>1, <1>2, TaskIs, TaskIsNext
    <3>3. QED  BY <3>2, <1>3
  <2>3. QED  BY <2>1, <2>2
<1>4. TaskOf = [q \in Rounds |-> TaskOf[q]] /\ TaskOf' = [q \in Rounds |-> TaskOf'[q]]
  BY DEF TaskOf
<1>5. ASSUME runs'[n].status = runs[n].status PROVE TaskOf' = TaskOf
  <2>1. \A q \in Rounds : TaskOf'[q] = TaskOf[q]
    BY <1>1, <1>3, <1>5 DEF RunStep, RunsOf
  <2>2. QED  BY <2>1, <1>4
<1>6. ASSUME runs[n].status \in Live
      PROVE  /\ TaskOf[r] = "LIVE"
             /\ TaskOf' = [TaskOf EXCEPT ![r] = TaskStatus(runs'[n].status)]
  <2>1. n \in RunsOf(r) /\ \A k \in RunsOf(r) : k <= n
    BY <1>1, <1>6 DEF RunsOf, QueueInv, LastIsLive
  <2>2. TaskOf[r] = TaskStatus(runs[n].status) /\ TaskOf'[r] = TaskStatus(runs'[n].status)
    BY <1>1, <1>2, <2>1, TaskIs, TaskIsNext
  <2>3. ASSUME NEW q \in Rounds, q # r PROVE TaskOf'[q] = TaskOf[q]
    BY <1>1, <1>3, <2>3 DEF RunStep, RunsOf
  <2>4. TaskOf[r] = "LIVE"
    BY <1>6, <2>2 DEF TaskStatus
  <2> HIDE DEF r
  <2>5. QED  BY <1>1, <1>4, <2>2, <2>3, <2>4
<1>7. QED  BY <1>1, <1>5, <1>6

(* A new run starts the review of its round, or starts it again.              *)
LEMMA EnqueueTask ==
  ASSUME QueueInv, NEW r \in Rounds, Enqueue(r)
  PROVE  \E again \in {"LIVE", "FAILED"} : TaskOf' = [TaskOf EXCEPT ![r] = again]
<1> DEFINE new == count + 1
<1>1. /\ count \in Nat /\ new \in Runs /\ count' = new
      /\ 1..count \subseteq Runs \ {new} /\ 1..count' = (1..count) \cup {new}
  BY ReviewRunAssumption DEF QueueInv, TypeOK, Enqueue
<1>2. PICK status \in EnqueuedStatus : runs' = [runs EXCEPT ![new] = NewRun(r, status)]
  BY DEF Enqueue
<1>3. /\ \A m \in Runs \ {new} : runs'[m] = runs[m]
      /\ runs'[new].round = r /\ runs'[new].status = status
  BY <1>1, <1>2 DEF QueueInv, TypeOK, NewRun
<1>4. ASSUME NEW q \in Rounds, q # r PROVE TaskOf'[q] = TaskOf[q]
  <2>1. RunsOf(q)' = RunsOf(q) /\ \A m \in RunsOf(q) : runs'[m] = runs[m]
    BY <1>1, <1>3, <1>4 DEF RunsOf
  <2>2. CASE RunsOf(q) = {}
    BY <2>1, <2>2, TaskIs, TaskIsNext
  <2>3. CASE RunsOf(q) # {}
    <3>1. PICK m \in RunsOf(q) : \A k \in RunsOf(q) : k <= m
      BY <2>3 DEF QueueInv, RoundsHaveLast
    <3>2. TaskOf[q] = TaskStatus(runs[m].status) /\ TaskOf'[q] = TaskStatus(runs'[m].status)
      BY <3>1, <2>1, TaskIs, TaskIsNext
    <3>3. QED  BY <3>1, <3>2, <2>1
  <2>4. QED  BY <2>2, <2>3
<1>5. new \in RunsOf(r)' /\ \A k \in RunsOf(r)' : k <= new
  BY <1>1, <1>3 DEF RunsOf
<1>6. TaskOf'[r] = TaskStatus(status)
  BY <1>3, <1>5, TaskIsNext
<1>7. TaskOf = [q \in Rounds |-> TaskOf[q]] /\ TaskOf' = [q \in Rounds |-> TaskOf'[q]]
  BY DEF TaskOf
<1>8. TaskOf' = [TaskOf EXCEPT ![r] = TaskStatus(status)]
  BY <1>4, <1>6, <1>7
<1>9. QED  BY <1>8 DEF EnqueuedStatus, TaskStatus

(* A worker's step on a live run, in terms of the review of its round.        *)
LEMMA CommitTask ==
  ASSUME QueueInv, NEW w \in Workers, NEW answer \in Answers,
         \/ CommitSuperseded(w) \/ CommitFailed(w, answer) \/ CommitAgain(w, answer)
         \/ CommitSearch(w, answer) \/ CommitFindings(w, answer)
  PROVE  [Task!Next]_(Task!vars)
<1> DEFINE n == work[w].run
           r == runs[n].round
<1>1. Commit(w)
  BY DEF CommitSuperseded, CommitFailed, CommitAgain, CommitSearch, CommitFindings
<1>2. /\ n \in Runs /\ runs[n].status \in Live /\ runs[n] \in RunRows
      /\ runs \in [Runs -> RunRows] /\ UNCHANGED <<round, count>>
  BY <1>1, CommitFrame
<1> HIDE DEF n
<1>3. ASSUME NEW status \in {"QUEUED"} \cup Ended, runs'[n].status = status,
             runs'[n].round = runs[n].round, runs'[n].lockedBy = NoWorker,
             \A m \in Runs \ {n} : runs'[m] = runs[m]
      PROVE  /\ r \in Rounds /\ TaskOf[r] = "LIVE"
             /\ TaskOf' = [TaskOf EXCEPT ![r] = TaskStatus(status)]
  <2>1. RunStep(n)
    BY <1>2, <1>3 DEF RunStep, Ended
  <2>2. QED  BY <1>2, <1>3, <2>1, RunStepTask
<1>4. ASSUME NEW status \in Ended, Release(n, status)
      PROVE  /\ r \in Rounds /\ TaskOf[r] = "LIVE"
             /\ TaskOf' = [TaskOf EXCEPT ![r] = status]
  <2>1. runs'[n] = [runs[n] EXCEPT !.status = status, !.lockedBy = NoWorker,
                                   !.expired = FALSE]
    BY <1>2, <1>4 DEF Release
  <2>2. /\ runs'[n].status = status /\ runs'[n].round = runs[n].round
        /\ runs'[n].lockedBy = NoWorker
    BY <1>2, <2>1 DEF RunRows
  <2>3. \A m \in Runs \ {n} : runs'[m] = runs[m]
    BY <1>2, <1>4 DEF Release
  <2>4. TaskStatus(status) = status
    BY DEF Ended, TaskStatus
  <2>5. QED  BY <1>3, <2>2, <2>3, <2>4
<1>5. ASSUME CommitAgain(w, answer) \/ CommitSearch(w, answer) PROVE UNCHANGED Task!vars
  <2>1. /\ runs'[n].status = "QUEUED" /\ runs'[n].round = runs[n].round
        /\ runs'[n].lockedBy = NoWorker
        /\ \A m \in Runs \ {n} : runs'[m] = runs[m]
        /\ UNCHANGED request
    <3>1. CASE CommitAgain(w, answer)
      <4>1. /\ runs' = [runs EXCEPT ![n].status = "QUEUED", ![n].lockedBy = NoWorker,
                                    ![n].expired = FALSE, ![n].due = FALSE]
            /\ UNCHANGED request
        BY <3>1 DEF CommitAgain, n
      <4>2. QED  BY <1>2, <4>1 DEF RunRows
    <3>2. CASE CommitSearch(w, answer)
      <4> DEFINE turn == work[w].turn + 1
      <4>1. /\ runs' = [runs EXCEPT ![n].status = "QUEUED", ![n].lockedBy = NoWorker,
                                    ![n].expired = FALSE, ![n].due = TRUE,
                                    ![n].turn = turn, ![n].turnAttempts = 0]
            /\ UNCHANGED request
        BY <3>2 DEF CommitSearch, n
      <4> HIDE DEF turn
      <4>2. QED  BY <1>2, <4>1 DEF RunRows
    <3>3. QED  BY <1>5, <3>1, <3>2
  <2>2. /\ r \in Rounds /\ TaskOf[r] = "LIVE"
        /\ TaskOf' = [TaskOf EXCEPT ![r] = TaskStatus("QUEUED")]
    BY <1>3, <2>1
  <2>3. TaskStatus("QUEUED") = "LIVE" /\ TaskOf = [q \in Rounds |-> TaskOf[q]]
    BY DEF TaskStatus, TaskOf
  <2> HIDE DEF r
  <2>4. TaskOf' = TaskOf
    BY <2>2, <2>3
  <2>5. QED  BY <1>2, <2>1, <2>4 DEF Task!vars
<1>6. CASE CommitSuperseded(w)
  <2>1. Release(n, "CANCELLED") /\ UNCHANGED request /\ ~UnderReview(n)
    BY <1>6 DEF CommitSuperseded, n
  <2>2. Task!Supersede(r)
    BY <1>2, <1>4, <2>1 DEF Task!Supersede, UnderReview, Ended
  <2>3. QED  BY <1>4, <2>1, <2>2 DEF Task!Next, Task!Rounds, Ended
<1>7. CASE CommitFailed(w, answer)
  <2>1. Release(n, "FAILED") /\ UNCHANGED request
    BY <1>7 DEF CommitFailed, n
  <2>2. Task!Fail(r)
    BY <1>2, <1>4, <2>1 DEF Task!Fail, Ended
  <2>3. QED  BY <1>4, <2>1, <2>2 DEF Task!Next, Task!Rounds, Ended
<1>8. CASE CommitFindings(w, answer)
  <2>1. Release(n, "SUCCEEDED") /\ UnderReview(n)
        /\ request' \in {"IN_REVIEW", "CHANGES_REQUESTED"}
    BY <1>8 DEF CommitFindings, n
  <2>2. Task!Succeed
    BY <1>2, <1>4, <2>1 DEF Task!Succeed, UnderReview, Ended
  <2>3. QED  BY <2>2 DEF Task!Next
<1>9. QED  BY <1>5, <1>6, <1>7, <1>8

(* The steps of the queue that do not write an answer.                        *)
LEMMA QueueTask ==
  ASSUME QueueInv, NEW w \in Workers, NEW n \in Runs,
         \/ Claim(w, n) \/ ClaimExhausted(w, n)
         \/ DropAnswer(w) \/ Crash(w)
  PROVE  [Task!Next]_(Task!vars)
<1>1. runs \in [Runs -> RunRows] /\ runs[n] \in RunRows
  BY DEF QueueInv, TypeOK
<1>2. CASE Claim(w, n)
  <2>1. /\ runs'[n] = [runs[n] EXCEPT !.status = "PROCESSING", !.lockedBy = w,
                         !.expired = FALSE, !.turnAttempts = Counted(n)]
        /\ \A m \in Runs \ {n} : runs'[m] = runs[m]
        /\ UNCHANGED <<request, round, count>> /\ runs[n].status \in Live
    BY <1>1, <1>2 DEF Claim, Claimable, Pending
  <2>2. /\ runs'[n].status = "PROCESSING" /\ runs'[n].round = runs[n].round
        /\ runs'[n].lockedBy = w
    BY <1>1, <2>1 DEF RunRows
  <2>3. RunStep(n)
    BY <2>1, <2>2, ReviewRunAssumption DEF RunStep
  <2>4. /\ TaskOf[runs[n].round] = "LIVE"
        /\ TaskOf' = [TaskOf EXCEPT ![runs[n].round] = TaskStatus("PROCESSING")]
    BY <2>1, <2>2, <2>3, RunStepTask
  <2>5. TaskStatus("PROCESSING") = "LIVE" /\ TaskOf = [q \in Rounds |-> TaskOf[q]]
    BY DEF TaskStatus, TaskOf
  <2>6. TaskOf' = TaskOf
    BY <2>4, <2>5
  <2>7. QED  BY <2>1, <2>6 DEF Task!vars
<1>3. CASE ClaimExhausted(w, n)
  <2>1. /\ runs'[n] = [runs[n] EXCEPT !.status = "FAILED", !.lockedBy = NoWorker,
                         !.expired = FALSE]
        /\ \A m \in Runs \ {n} : runs'[m] = runs[m]
        /\ UNCHANGED <<request, round, count>> /\ runs[n].status \in Live
    BY <1>1, <1>3 DEF ClaimExhausted, Claimable, Pending
  <2>2. /\ runs'[n].status = "FAILED" /\ runs'[n].round = runs[n].round
        /\ runs'[n].lockedBy = NoWorker
    BY <1>1, <2>1 DEF RunRows
  <2>3. RunStep(n)
    BY <2>1, <2>2 DEF RunStep
  <2>4. /\ runs[n].round \in Rounds /\ TaskOf[runs[n].round] = "LIVE"
        /\ TaskOf' = [TaskOf EXCEPT ![runs[n].round] = TaskStatus("FAILED")]
    BY <2>1, <2>2, <2>3, RunStepTask
  <2>5. Task!Fail(runs[n].round)
    BY <2>1, <2>4 DEF Task!Fail, TaskStatus
  <2>6. QED  BY <2>4, <2>5 DEF Task!Next, Task!Rounds
<1>4. CASE DropAnswer(w) \/ Crash(w)
  <2>1. UNCHANGED <<request, round, count, runs>>
    BY <1>4 DEF DropAnswer, Crash
  <2>2. UNCHANGED TaskOf
    BY <2>1 DEF TaskOf, RunsOf
  <2>3. QED  BY <2>1, <2>2 DEF Task!vars
<1>5. QED  BY <1>2, <1>3, <1>4

LEMMA ClockTask ==
  ASSUME QueueInv, NEW n \in Runs, LeaseExpires(n) \/ BackoffEnds(n)
  PROVE  UNCHANGED Task!vars
<1>1. runs \in [Runs -> RunRows] /\ runs[n] \in RunRows
  BY DEF QueueInv, TypeOK
<1>2. /\ runs'[n] = [runs[n] EXCEPT !.expired = TRUE]
         \/ runs'[n] = [runs[n] EXCEPT !.due = TRUE]
      /\ \A m \in Runs \ {n} : runs'[m] = runs[m]
      /\ UNCHANGED <<request, round, count>>
  BY <1>1 DEF LeaseExpires, BackoffEnds
<1>3. /\ runs'[n].status = runs[n].status /\ runs'[n].round = runs[n].round
      /\ runs'[n].lockedBy = runs[n].lockedBy
  BY <1>1, <1>2 DEF RunRows
<1>4. RunStep(n)
  BY <1>2, <1>3 DEF RunStep, QueueInv, LockedWhileProcessed
<1>5. TaskOf' = TaskOf
  BY <1>3, <1>4, RunStepTask
<1>6. QED  BY <1>2, <1>5 DEF Task!vars

(* People, in terms of the reviews of the rounds.                             *)
LEMMA PeopleTask == ASSUME QueueInv, PeopleNext PROVE [Task!Next]_(Task!vars)
<1>1. CASE LeaveReview \/ Reopen \/ CancelReturned
  <2>1. UNCHANGED <<round, count, runs>>
    BY <1>1 DEF LeaveReview, Reopen, CancelReturned
  <2>2. UNCHANGED TaskOf
    BY <2>1 DEF TaskOf, RunsOf
  <2>3. Task!Move
    BY <1>1, <2>1, <2>2 DEF Task!Move, LeaveReview, Reopen, CancelReturned
  <2>4. QED  BY <2>3 DEF Task!Next
<1>2. CASE Submit
  <2>1. /\ request = "CHANGES_REQUESTED" /\ request' = "IN_REVIEW"
        /\ round < MaxRounds /\ round' = round + 1 /\ round + 1 \in Rounds
    BY <1>2, ReviewRunAssumption DEF Submit, QueueInv, TypeOK
  <2>2. \E first \in {"LIVE", "FAILED", "NONE"} :
          TaskOf' = [TaskOf EXCEPT ![round + 1] = first]
    <3>1. CASE Enqueue(round + 1)
      BY <2>1, <3>1, EnqueueTask
    <3>2. CASE UNCHANGED <<count, runs>>
      <4>1. UNCHANGED TaskOf
        BY <3>2 DEF TaskOf, RunsOf
      <4>2. RunsOf(round + 1) = {}
        <5>1. \A m \in 1..count : runs[m].round <= round
          BY DEF QueueInv, RoundsInOrder
        <5>2. round \in Nat /\ \A m \in 1..count : runs[m].round \in Nat
          BY ReviewRunAssumption DEF QueueInv, TypeOK, RunRows
        <5>3. \A m \in 1..count : runs[m].round # round + 1
          BY <5>1, <5>2
        <5>4. QED  BY <5>3 DEF RunsOf
      <4>3. TaskOf[round + 1] = "NONE"
        BY <2>1, <4>2 DEF TaskOf
      <4>4. TaskOf' = [TaskOf EXCEPT ![round + 1] = "NONE"]
        BY <4>1, <4>3 DEF TaskOf
      <4>5. QED  BY <4>4
    <3>3. QED  BY <1>2, <3>1, <3>2 DEF Submit
  <2>3. Task!Submit
    BY <2>1, <2>2 DEF Task!Submit, Task!Started
  <2>4. QED  BY <2>3 DEF Task!Next
<1>3. ASSUME NEW n \in Runs, RetryReview(n) PROVE Task!Retry
  <2>1. /\ request = "IN_REVIEW" /\ UNCHANGED <<request, round>>
        /\ Enqueue(round) /\ round \in Rounds
    BY <1>3 DEF RetryReview, QueueInv, TypeOK
  <2>2. \E again \in {"LIVE", "FAILED"} : TaskOf' = [TaskOf EXCEPT ![round] = again]
    BY <2>1, EnqueueTask
  <2>3. /\ n \in RunsOf(round) /\ \A k \in RunsOf(round) : k <= n
        /\ runs[n].status = "FAILED"
    BY <1>3, ReviewRunAssumption DEF RetryReview, Retryable, RunsOf, QueueInv, TypeOK
  <2>4. TaskOf[round] = "FAILED"
    BY <2>1, <2>3, TaskIs DEF TaskStatus
  <2>5. QED  BY <2>1, <2>2, <2>4 DEF Task!Retry, Task!Started
<1>4. QED  BY <1>1, <1>2, <1>3 DEF PeopleNext, Task!Next

LEMMA InitTask == ASSUME Init PROVE Task!Init
<1>1. QueueInv
  BY InitInv
<1>2. /\ request = "IN_REVIEW" /\ round = 1 /\ 1 \in Rounds
      /\ \A m \in 1..count : runs[m].round = 1
  BY <1>1, ReviewRunAssumption DEF Init, QueueInv, RoundsInOrder, TypeOK, RunRows
<1>3. \A q \in Rounds : q # 1 => TaskOf[q] = "NONE"
  BY <1>2 DEF TaskOf, RunsOf
<1>4. TaskOf[1] \in {"LIVE", "FAILED", "NONE"}
  <2>1. CASE count = 0
    BY <1>2, <2>1 DEF TaskOf, RunsOf
  <2>2. CASE count # 0
    <3>1. count = 1
      BY <2>2 DEF Init
    <3>2. 1 \in RunsOf(1) /\ \A k \in RunsOf(1) : k <= 1
      BY <1>2, <3>1 DEF RunsOf
    <3>3. TaskOf[1] = TaskStatus(runs[1].status)
      BY <1>1, <1>2, <3>2, TaskIs
    <3>4. PICK status \in EnqueuedStatus :
            runs = [n \in Runs |-> NewRun(1, IF n = 1 THEN status ELSE "NONE")]
      BY <3>1 DEF Init
    <3>5. runs[1].status = status
      BY <3>4, ReviewRunAssumption DEF NewRun
    <3>6. QED  BY <3>3, <3>5 DEF EnqueuedStatus, TaskStatus
  <2>3. QED  BY <2>1, <2>2
<1>5. TaskOf = [q \in Rounds |-> IF q = 1 THEN TaskOf[1] ELSE "NONE"]
  BY <1>3 DEF TaskOf
<1>6. QED  BY <1>2, <1>4, <1>5 DEF Task!Init, Task!Started, Task!Rounds

(* Seen from outside, the runs of a round are one review that is live until   *)
(* it ends once, and is started again only after it failed: the queue with    *)
(* its leases, crashes and repeated attempts implements ReviewTask.           *)
THEOREM QueueImplementsTask == Spec => TaskSpec
<1>1. Init => Task!Init
  BY InitTask
<1>2. QueueInv /\ [Next]_vars => [Task!Next]_(Task!vars)
  <2> SUFFICES ASSUME QueueInv, [Next]_vars PROVE [Task!Next]_(Task!vars)
    OBVIOUS
  <2>1. CASE PeopleNext
    BY <2>1, PeopleTask
  <2>2. CASE WorkerNext
    <3>1. PICK w \in Workers :
            \/ \E n \in Runs : Claim(w, n) \/ ClaimExhausted(w, n)
            \/ Finish(w) \/ Crash(w)
      BY <2>2 DEF WorkerNext
    <3>2. 1 \in Runs
      BY ReviewRunAssumption
    <3>3. CASE DropAnswer(w) \/ Crash(w)
      BY <3>2, <3>3, QueueTask
    <3>4. CASE \E n \in Runs : Claim(w, n) \/ ClaimExhausted(w, n)
      BY <3>4, QueueTask
    <3>5. CASE \E answer \in Answers :
                 \/ CommitSuperseded(w) \/ CommitFailed(w, answer) \/ CommitAgain(w, answer)
                 \/ CommitSearch(w, answer) \/ CommitFindings(w, answer)
      BY <3>5, CommitTask
    <3>6. QED  BY <3>1, <3>3, <3>4, <3>5 DEF Finish, Answers
  <2>3. CASE ClockNext
    BY <2>3, ClockTask DEF ClockNext
  <2>4. CASE UNCHANGED vars
    <3>1. UNCHANGED TaskOf
      BY <2>4 DEF vars, TaskOf, RunsOf
    <3>2. QED  BY <2>4, <3>1 DEF vars, Task!vars
  <2>5. QED  BY <2>1, <2>2, <2>3, <2>4 DEF Next
<1>3. QED  BY <1>1, <1>2, QueueInvariance, PTL DEF Spec, TaskSpec, Task!Spec
=============================================================================
