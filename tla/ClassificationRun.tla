-------------------------- MODULE ClassificationRun --------------------------
(* The classification of files that a client uploads in one go: the files are *)
(* staged in a run (app/api/portal.py), the run is started, cancelled, done   *)
(* by hand and confirmed (app/api/classification.py) while the document       *)
(* worker scans the files and a worker has the agent sort them                *)
(* (app/classification_worker.py).  People's requests lock the run and do not *)
(* wait for the call that is under way.                                       *)
EXTENDS Naturals

CONSTANTS
  Runs,         \* CLASSIFY runs of the request
  Docs,         \* documents
  Workers,      \* worker processes
  NoWorker,     \* locked_by of a run that nobody holds
  NoRun,        \* a worker without a run
  MaxAttempts,  \* claims after which a missing answer is final (3 in the code)
  MaxLost       \* bound: times a worker dies or outlasts its lease

ASSUME ClassificationRunAssumption ==
  /\ NoWorker \notin Workers
  /\ NoRun \notin Runs
  /\ MaxAttempts \in Nat \ {0} /\ MaxLost \in Nat

VARIABLES
  request,      \* OPEN while the client may change it (OPEN, CHANGES_REQUESTED)
  docs,         \* Document.status
  runs,         \* the ai_runs rows
  work,         \* what each worker has in memory
  lost          \* deaths and leases outlasted so far

vars == <<request, docs, runs, work, lost>>

Live == {"QUEUED", "PROCESSING"}
Ended == {"SUCCEEDED", "FAILED", "CANCELLED"}

(* output holds the documents to which the result gives a category other than *)
(* INVALID, chosen those the client added by confirming.                      *)
RunRows == [status : {"NONE", "DRAFT"} \cup Live \cup Ended,
            staged : SUBSET Docs,
            attempts : Nat,
            lockedBy : Workers \cup {NoWorker},
            expired : BOOLEAN,
            due : BOOLEAN,
            output : SUBSET Docs,
            confirmed : BOOLEAN,
            chosen : SUBSET Docs]

NewRun(status) ==
  [status |-> status, staged |-> {}, attempts |-> 0, lockedBy |-> NoWorker,
   expired |-> FALSE, due |-> TRUE, output |-> {}, confirmed |-> FALSE, chosen |-> {}]

Idle == [run |-> NoRun, available |-> {}]

Init ==
  /\ request = "OPEN"
  /\ docs = [d \in Docs |-> "ABSENT"]
  /\ runs = [k \in Runs |-> NewRun("NONE")]
  /\ work = [w \in Workers |-> Idle]
  /\ lost = 0

Available(k) == {d \in runs[k].staged : docs[d] = "AVAILABLE"}

-----------------------------------------------------------------------------
(* The client.                                                                *)

CreateRun(k) ==
  /\ request = "OPEN"
  /\ runs[k].status = "NONE"
  /\ runs' = [runs EXCEPT ![k] = NewRun("DRAFT")]
  /\ UNCHANGED <<request, docs, work, lost>>

(* upload_document into a run: a new file, or one that is known already.      *)
TakesFiles(k) == runs[k].status = "DRAFT"

Stage(k, d) ==
  /\ request = "OPEN"
  /\ TakesFiles(k)
  /\ docs[d] # "FAILED"
  /\ docs' = [docs EXCEPT ![d] = IF @ = "ABSENT" THEN "QUARANTINED" ELSE @]
  /\ runs' = [runs EXCEPT ![k].staged = @ \cup {d}]
  /\ UNCHANGED <<request, work, lost>>

Start(k) ==
  /\ request = "OPEN"
  /\ runs[k].status = "DRAFT"
  /\ runs[k].staged # {}
  /\ runs' = [runs EXCEPT ![k].status = "QUEUED", ![k].due = TRUE]
  /\ UNCHANGED <<request, docs, work, lost>>

(* A lock taken away makes the worker drop its answer.                        *)
CancelRun(k) ==
  /\ runs[k].status # "NONE"
  /\ ~runs[k].confirmed
  /\ runs' = [runs EXCEPT ![k].status = "CANCELLED", ![k].lockedBy = NoWorker,
                          ![k].expired = FALSE]
  /\ UNCHANGED <<request, docs, work, lost>>

ManualRun(k) ==
  /\ request = "OPEN"
  /\ ~runs[k].confirmed
  /\ runs[k].status \notin {"NONE", "DRAFT", "CANCELLED"}
  /\ \A d \in runs[k].staged : docs[d] # "QUARANTINED"
  /\ runs' = [runs EXCEPT ![k].status = "FAILED", ![k].output = {},
                          ![k].lockedBy = NoWorker, ![k].expired = FALSE]
  /\ UNCHANGED <<request, docs, work, lost>>

(* What it adds to the draft is in Collection; confirming again changes       *)
(* nothing.                                                                   *)
Confirm(k, choice) ==
  /\ request = "OPEN"
  /\ ~runs[k].confirmed
  /\ runs[k].status \in {"SUCCEEDED", "FAILED"}
  /\ choice \subseteq Available(k)
  /\ runs' = [runs EXCEPT ![k].confirmed = TRUE, ![k].chosen = choice]
  /\ UNCHANGED <<request, docs, work, lost>>

(* The request is submitted, approved, cancelled, or returned.                *)
MoveRequest ==
  /\ request' \in {"OPEN", "CLOSED"} \ {request}
  /\ UNCHANGED <<docs, runs, work, lost>>

-----------------------------------------------------------------------------
(* The workers.                                                               *)

Scan(d) ==
  /\ docs[d] = "QUARANTINED"
  /\ \E result \in {"AVAILABLE", "FAILED"} : docs' = [docs EXCEPT ![d] = result]
  /\ UNCHANGED <<request, runs, work, lost>>

Unlocked(k) == runs[k].lockedBy = NoWorker            \* mutant: leases never expire
Free(k) == runs[k].lockedBy = NoWorker \/ runs[k].expired

Claimable(k) == runs[k].status \in Live /\ runs[k].due /\ Free(k)

AnyFile(k) ==                                         \* mutant: waits for one file
  \E d \in runs[k].staged : docs[d] # "QUARANTINED"
Scanned(k) == \A d \in runs[k].staged : docs[d] # "QUARANTINED"

Postpone(k) ==
  /\ Claimable(k)
  /\ ~Scanned(k)
  /\ runs' = [runs EXCEPT ![k].due = FALSE]
  /\ UNCHANGED <<request, docs, work, lost>>

Claim(w, k) ==
  /\ work[w] = Idle
  /\ Claimable(k)
  /\ Scanned(k)
  /\ runs' = [runs EXCEPT ![k].status = "PROCESSING", ![k].lockedBy = w,
                          ![k].expired = FALSE, ![k].attempts = @ + 1]
  /\ work' = [work EXCEPT ![w] = [run |-> k, available |-> Available(k)]]
  /\ UNCHANGED <<request, docs, lost>>

StartedIt(w) == runs[work[w].run].status # "QUEUED"    \* mutant: lease not checked
Owns(w) ==
  /\ runs[work[w].run].status = "PROCESSING"
  /\ runs[work[w].run].lockedBy = w

Commit(w) ==
  /\ work[w] # Idle
  /\ Owns(w)
  /\ work' = [work EXCEPT ![w] = Idle]
  /\ UNCHANGED <<request, docs, lost>>

Succeed(w) ==
  LET k == work[w].run IN
  /\ Commit(w)
  /\ runs' = [runs EXCEPT ![k].status = "SUCCEEDED", ![k].lockedBy = NoWorker,
                          ![k].expired = FALSE, ![k].output = work[w].available]

(* No answer; without a file to sort there is no call.                        *)
IsLastTry(k) == runs[k].attempts = MaxAttempts         \* mutant: misses a lost claim
NoTryLeft(k) == runs[k].attempts >= MaxAttempts

TryLater(w) ==
  LET k == work[w].run IN
  /\ Commit(w)
  /\ work[w].available # {}
  /\ ~NoTryLeft(k)
  /\ runs' = [runs EXCEPT ![k].status = "QUEUED", ![k].lockedBy = NoWorker,
                          ![k].expired = FALSE, ![k].due = FALSE]

(* An answer that does not validate, or none for the last time.               *)
GiveUp(w) ==
  LET k == work[w].run IN
  /\ Commit(w)
  /\ work[w].available # {}
  /\ runs' = [runs EXCEPT ![k].status = "FAILED", ![k].lockedBy = NoWorker,
                          ![k].expired = FALSE, ![k].due = FALSE]

DropAnswer(w) ==
  /\ work[w] # Idle
  /\ ~Owns(w)
  /\ work' = [work EXCEPT ![w] = Idle]
  /\ UNCHANGED <<request, docs, runs, lost>>

Crash(w) ==
  /\ work[w] # Idle
  /\ lost < MaxLost
  /\ lost' = lost + 1
  /\ work' = [work EXCEPT ![w] = Idle]
  /\ UNCHANGED <<request, docs, runs>>

(* The lease is longer than one read of the answer, not than all of them.     *)
AtWork(k) == \E w \in Workers : work[w].run = k /\ Owns(w)

LeaseExpires(k) ==
  /\ runs[k].lockedBy # NoWorker
  /\ ~runs[k].expired
  /\ IF AtWork(k) THEN lost < MaxLost /\ lost' = lost + 1 ELSE UNCHANGED lost
  /\ runs' = [runs EXCEPT ![k].expired = TRUE]
  /\ UNCHANGED <<request, docs, work>>

BackoffEnds(k) ==
  /\ ~runs[k].due
  /\ runs' = [runs EXCEPT ![k].due = TRUE]
  /\ UNCHANGED <<request, docs, work, lost>>

-----------------------------------------------------------------------------

Finish(w) == Succeed(w) \/ TryLater(w) \/ GiveUp(w) \/ DropAnswer(w)

ClientNext ==
  \/ \E k \in Runs : CreateRun(k) \/ Start(k) \/ CancelRun(k) \/ ManualRun(k)
  \/ \E k \in Runs, d \in Docs : Stage(k, d)
  \/ \E k \in Runs : \E choice \in SUBSET runs[k].staged : Confirm(k, choice)
  \/ MoveRequest

WorkerNext ==
  \/ \E d \in Docs : Scan(d)
  \/ \E k \in Runs : Postpone(k) \/ LeaseExpires(k) \/ BackoffEnds(k)
  \/ \E w \in Workers, k \in Runs : Claim(w, k)
  \/ \E w \in Workers : Finish(w) \/ Crash(w)

Next == ClientNext \/ WorkerNext

(* Documents are scanned in the end (DocumentScan), the worker polls, calls   *)
(* return because their reads have a timeout, and time passes.                *)
Fairness ==
  /\ \A d \in Docs : WF_vars(Scan(d))
  /\ \A k \in Runs : WF_vars(LeaseExpires(k)) /\ WF_vars(BackoffEnds(k))
  /\ \A w \in Workers : WF_vars(Finish(w))
  /\ WF_vars(\E w \in Workers, k \in Runs : Claim(w, k))

Spec == Init /\ [][Next]_vars /\ Fairness

-----------------------------------------------------------------------------
(* Properties.                                                                *)

(* In particular a run is claimed more often than MaxAttempts only because a  *)
(* worker died or outlasted its lease.                                        *)
TypeOK ==
  /\ request \in {"OPEN", "CLOSED"}
  /\ docs \in [Docs -> {"ABSENT", "QUARANTINED", "AVAILABLE", "FAILED"}]
  /\ runs \in [Runs -> RunRows]
  /\ \A k \in Runs : runs[k].attempts <= MaxAttempts + lost
  /\ work \in [Workers -> [run : Runs \cup {NoRun}, available : SUBSET Docs]]
  /\ lost \in 0..MaxLost

(* The result offers the client exactly the safe files of the run: none that  *)
(* was still being scanned when the agent was asked, and none that was staged *)
(* since.                                                                     *)
OutputFits ==
  \A k \in Runs : runs[k].status = "SUCCEEDED" => runs[k].output = Available(k)

(* What the client confirmed or cancelled stands, and an ended run is never   *)
(* queued or answered again: an answer that comes late is discarded           *)
(* (process_classification's check of the lease; tests/test_portal.py,        *)
(* "discards late results").                                                  *)
LateAnswersAreDropped ==
  [][\A k \in Runs :
       /\ runs[k].confirmed =>
            runs'[k] = [runs[k] EXCEPT !.due = runs'[k].due]
       /\ runs[k].status \in Ended =>
            /\ runs'[k].status \in {runs[k].status, "FAILED", "CANCELLED"}
            /\ runs'[k].output \in {runs[k].output, {}}
       /\ runs[k].status = "CANCELLED" => runs'[k].status = "CANCELLED"]_vars

(* Every started run ends, by a result, an error, or the client.              *)
EveryClassificationEnds ==
  \A k \in Runs : runs[k].status \in Live ~> runs[k].status \in Ended

(* The inductive invariant: a started run takes no more files and is asked    *)
(* about when they are scanned, so what its worker holds is what it has; only *)
(* runs that are processed are locked; the claims a run has left.             *)
LockedWhileProcessed ==
  \A k \in Runs : runs[k].lockedBy # NoWorker <=> runs[k].status = "PROCESSING"

StagedExist ==
  \A k \in Runs : \A d \in runs[k].staged : docs[d] # "ABSENT"

WorkerKnows ==
  \A w \in Workers :
    /\ work[w] = Idle \/ work[w].run \in Runs
    /\ work[w].run # NoRun /\ Owns(w) =>
         Scanned(work[w].run) /\ work[w].available = Available(work[w].run)

AnsweredIsScanned ==
  \A k \in Runs : /\ runs[k].status \in {"PROCESSING", "SUCCEEDED"} => Scanned(k)
                  /\ runs[k].confirmed => runs[k].status \in {"SUCCEEDED", "FAILED"}

TriesLeft ==
  \A k \in Runs :
    runs[k].status \in {"NONE", "DRAFT"} \cup Live
      /\ ~(\E w \in Workers : work[w].run = k /\ Owns(w) /\ ~runs[k].expired) =>
        runs[k].attempts < MaxAttempts + lost

QueueInv == TypeOK /\ LockedWhileProcessed /\ StagedExist /\ WorkerKnows
            /\ AnsweredIsScanned /\ TriesLeft /\ OutputFits

(* A run that pauses is in nobody's hands.                                    *)
PausedIsLeft == \A k \in Runs : ~runs[k].due => runs[k].status # "PROCESSING"

IInv == QueueInv /\ PausedIsLeft

(* Only the scanner holds a started run up: each change of its row ends it,   *)
(* claims it once more, or takes it further in its attempt (in a worker's     *)
(* hands, abandoned, paused, waiting), but for the pause of a queued run with *)
(* a file that is still being scanned.                                        *)
Progress(row) ==
  CASE row.status = "PROCESSING" /\ ~row.expired -> 0
    [] row.status = "PROCESSING" /\ row.expired -> 1
    [] row.status # "PROCESSING" /\ ~row.due -> 2
    [] OTHER -> 3

Forward(old, new) ==
  \/ new.status \in Ended
  \/ new.status \in Live /\ new.attempts > old.attempts
  \/ new.status \in Live /\ new.attempts = old.attempts /\ Progress(new) > Progress(old)

OnlyScansHoldUp ==
  [][\A k \in Runs :
       runs[k].status \in Live /\ runs'[k] # runs[k] =>
         \/ Forward(runs[k], runs'[k])
         \/ /\ runs[k].status = "QUEUED" /\ ~Scanned(k)
            /\ runs'[k] = [runs[k] EXCEPT !.due = FALSE]]_vars

=============================================================================
