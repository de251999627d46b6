----------------------------- MODULE ReviewRun ------------------------------
(* The AI review of a request as the document worker processes carry it out   *)
(* (process_review in app/review_analysis.py): a run is claimed under a lease *)
(* in one transaction, the agent is called outside any transaction, and the   *)
(* answer is written in a second transaction that checks the lease again.     *)
(* Workers crash, leases and backoffs run out, the agent fails or asks for a  *)
(* search, and meanwhile people move the request on.                          *)
EXTENDS Naturals

CONSTANTS
  Workers,      \* worker processes
  NoWorker,     \* locked_by of a run that nobody holds
  MaxRuns,      \* bound: REVIEW runs of the request
  MaxRounds,    \* bound: submission rounds
  MaxTurn,      \* last search turn (3 in the code)
  MaxAttempts   \* claims per turn (3 in the code)

Runs == 1..MaxRuns
Rounds == 1..MaxRounds

ASSUME ReviewRunAssumption ==
  /\ NoWorker \notin Workers
  /\ MaxRuns \in Nat \ {0} /\ MaxRounds \in Nat \ {0}
  /\ MaxTurn \in Nat /\ MaxAttempts \in Nat \ {0}

VARIABLES
  request,   \* CollectionRequest.status, from the first submission on
  round,     \* number of SUBMITTED submissions
  count,     \* number of REVIEW runs: runs 1..count, in order of created_at
  runs,      \* the ai_runs rows
  work       \* what each worker has in memory

vars == <<request, round, count, runs, work>>

Live == {"QUEUED", "PROCESSING"}
Ended == {"SUCCEEDED", "FAILED", "CANCELLED"}

(* input_snapshot carries turn and turn_attempts; expired and due stand for   *)
(* locked_until and next_attempt_at compared with the clock.                  *)
RunRows == [status : {"NONE"} \cup Live \cup Ended,
            round : Rounds,
            turn : 0..MaxTurn,
            turnAttempts : 0..MaxAttempts,
            lockedBy : Workers \cup {NoWorker},
            expired : BOOLEAN,
            due : BOOLEAN]

NewRun(n, status) ==
  [status |-> status, round |-> n, turn |-> 0, turnAttempts |-> 0,
   lockedBy |-> NoWorker, expired |-> FALSE, due |-> TRUE]

(* A worker calling the agent holds the id and the snapshot of its run.       *)
Idle == [run |-> 0, turn |-> 0, turnAttempts |-> 0]
WorkRows == [run : 0..MaxRuns, turn : 0..MaxTurn, turnAttempts : 0..MaxAttempts]

(* How a call of the agent ends: findings, a search for more files, no answer *)
(* (or a server error), or an answer that does not validate.  Nothing sees    *)
(* the answer before the second transaction, so it is chosen there.           *)
Answers == {"FINDINGS", "SEARCH", "AGENT_UNAVAILABLE", "AGENT_INVALID_RESPONSE"}

(* enqueue_review: too many files make a failed run.                          *)
EnqueuedStatus == {"QUEUED", "FAILED"}

Init ==
  /\ request = "IN_REVIEW"
  /\ round = 1
  /\ work = [w \in Workers |-> Idle]
  /\ \/ /\ count = 1
        /\ \E status \in EnqueuedStatus :
             runs = [n \in Runs |-> NewRun(1, IF n = 1 THEN status ELSE "NONE")]
     \/ /\ count = 0
        /\ runs = [n \in Runs |-> NewRun(1, "NONE")]

-----------------------------------------------------------------------------
(* People: returning, approving, reopening and cancelling the request, and    *)
(* the client's next round.  Their other conditions are in Collection.        *)

LeaveReview ==
  /\ request = "IN_REVIEW"
  /\ request' \in {"CHANGES_REQUESTED", "READY_FOR_BOOKKEEPING", "CANCELLED"}
  /\ UNCHANGED <<round, count, runs, work>>

Reopen ==
  /\ request = "READY_FOR_BOOKKEEPING"
  /\ request' = "IN_REVIEW"
  /\ UNCHANGED <<round, count, runs, work>>

CancelReturned ==
  /\ request = "CHANGES_REQUESTED"
  /\ request' = "CANCELLED"
  /\ UNCHANGED <<round, count, runs, work>>

Enqueue(n) ==
  /\ count < MaxRuns
  /\ count' = count + 1
  /\ \E status \in EnqueuedStatus :
       runs' = [runs EXCEPT ![count + 1] = NewRun(n, status)]

(* A manual round has no run.                                                 *)
Submit ==
  /\ request = "CHANGES_REQUESTED"
  /\ round < MaxRounds
  /\ request' = "IN_REVIEW"
  /\ round' = round + 1
  /\ Enqueue(round + 1) \/ UNCHANGED <<count, runs>>
  /\ UNCHANGED work

(* Only the newest run of the round under review, and only a failed one.      *)
NotAnswered(n) == /\ n = count /\ runs[n].round = round      \* mutant: live runs
                  /\ runs[n].status # "SUCCEEDED"
Retryable(n) == /\ n = count /\ runs[n].round = round
                /\ runs[n].status = "FAILED"

RetryReview(n) ==
  /\ request = "IN_REVIEW"
  /\ n \in 1..count
  /\ Retryable(n)
  /\ Enqueue(round)
  /\ UNCHANGED <<request, round, work>>

-----------------------------------------------------------------------------
(* Workers.                                                                   *)

Pending(n) == runs[n].status \in Live

Claimable(n) ==
  /\ n \in 1..count
  /\ Pending(n)
  /\ runs[n].due
  /\ runs[n].lockedBy = NoWorker \/ runs[n].expired

OneMoreAttempt(n) == runs[n].turnAttempts <= MaxAttempts   \* mutant: off by one
AttemptsLeft(n) == runs[n].turnAttempts < MaxAttempts

CountedOnFailure(n) == runs[n].turnAttempts   \* mutant: a crash does not count
Counted(n) == runs[n].turnAttempts + 1

(* First transaction: the claim, which counts the attempt before the call.    *)
Claim(w, n) ==
  /\ work[w] = Idle
  /\ Claimable(n)
  /\ AttemptsLeft(n)
  /\ runs' = [runs EXCEPT ![n].status = "PROCESSING",
                          ![n].lockedBy = w,
                          ![n].expired = FALSE,
                          ![n].turnAttempts = Counted(n)]
  /\ work' = [work EXCEPT ![w] = [run |-> n, turn |-> runs[n].turn,
                                  turnAttempts |-> Counted(n)]]
  /\ UNCHANGED <<request, round, count>>

(* The run has used up its attempts: crashed calls count like failed ones.    *)
ClaimExhausted(w, n) ==
  /\ work[w] = Idle
  /\ Claimable(n)
  /\ ~AttemptsLeft(n)
  /\ runs' = [runs EXCEPT ![n].status = "FAILED", ![n].lockedBy = NoWorker,
                          ![n].expired = FALSE]
  /\ UNCHANGED <<request, round, count, work>>

StillProcessing(w) == runs[work[w].run].status = "PROCESSING"     \* mutant
Owns(w) ==
  /\ runs[work[w].run].status = "PROCESSING"
  /\ runs[work[w].run].lockedBy = w

Release(n, status) ==
  runs' = [runs EXCEPT ![n].status = status, ![n].lockedBy = NoWorker,
                       ![n].expired = FALSE]

(* Second transaction, after call_agent and validate_review.  A worker that   *)
(* lost its lease drops the answer.                                           *)
DropAnswer(w) ==
  /\ work[w] # Idle
  /\ ~Owns(w)
  /\ work' = [work EXCEPT ![w] = Idle]
  /\ UNCHANGED <<request, round, count, runs>>

(* The remaining cases hold the lease.                                        *)
Commit(w) ==
  /\ work[w] # Idle
  /\ Owns(w)
  /\ work' = [work EXCEPT ![w] = Idle]
  /\ UNCHANGED <<round, count>>

OnlyInReview(n) == request = "IN_REVIEW"               \* mutant: any round's run
UnderReview(n) == request = "IN_REVIEW" /\ runs[n].round = round

CommitSuperseded(w) ==
  LET n == work[w].run IN
  /\ Commit(w)
  /\ ~UnderReview(n)
  /\ Release(n, "CANCELLED")
  /\ UNCHANGED request

(* An answer in time, but no use: invalid, citing documents that are no       *)
(* longer evidence, asking for one search too many, or missing for the last   *)
(* time.                                                                      *)
CommitFailed(w, answer) ==
  LET n == work[w].run IN
  /\ Commit(w)
  /\ UnderReview(n)
  /\ answer = "AGENT_UNAVAILABLE" => work[w].turnAttempts >= MaxAttempts
  /\ Release(n, "FAILED")
  /\ UNCHANGED request

(* No answer: the same turn again after a pause.                              *)
CommitAgain(w, answer) ==
  LET n == work[w].run IN
  /\ Commit(w)
  /\ UnderReview(n)
  /\ answer = "AGENT_UNAVAILABLE"
  /\ work[w].turnAttempts < MaxAttempts
  /\ runs' = [runs EXCEPT ![n].status = "QUEUED", ![n].lockedBy = NoWorker,
                          ![n].expired = FALSE, ![n].due = FALSE]
  /\ UNCHANGED request

(* A search: its files are added and the next turn is queued at once.         *)
CommitSearch(w, answer) ==
  LET n == work[w].run IN
  /\ Commit(w)
  /\ UnderReview(n)
  /\ answer = "SEARCH"
  /\ work[w].turn < MaxTurn
  /\ runs' = [runs EXCEPT ![n].status = "QUEUED", ![n].lockedBy = NoWorker,
                          ![n].expired = FALSE, ![n].due = TRUE,
                          ![n].turn = work[w].turn + 1, ![n].turnAttempts = 0]
  /\ UNCHANGED request

(* The findings are written; some of them may return the request.             *)
CommitFindings(w, answer) ==
  LET n == work[w].run IN
  /\ Commit(w)
  /\ UnderReview(n)
  /\ answer = "FINDINGS"
  /\ Release(n, "SUCCEEDED")
  /\ request' \in {"IN_REVIEW", "CHANGES_REQUESTED"}

(* A process is killed (its container has 15 seconds to stop) or dies.        *)
Crash(w) ==
  /\ work[w] # Idle
  /\ work' = [work EXCEPT ![w] = Idle]
  /\ UNCHANGED <<request, round, count, runs>>

-----------------------------------------------------------------------------
(* The clock.  The lease is longer than the timeout of one read from the      *)
(* agent, not than that of a whole answer: it may run out during a call.      *)
LeaseExpires(n) ==
  /\ runs[n].lockedBy # NoWorker
  /\ ~runs[n].expired
  /\ runs' = [runs EXCEPT ![n].expired = TRUE]
  /\ UNCHANGED <<request, round, count, work>>

BackoffEnds(n) ==
  /\ ~runs[n].due
  /\ runs' = [runs EXCEPT ![n].due = TRUE]
  /\ UNCHANGED <<request, round, count, work>>

-----------------------------------------------------------------------------

Finish(w) ==
  \/ DropAnswer(w)
  \/ CommitSuperseded(w)
  \/ \E answer \in Answers : \/ CommitFailed(w, answer)
                             \/ CommitAgain(w, answer)
                             \/ CommitSearch(w, answer)
                             \/ CommitFindings(w, answer)

PeopleNext ==
  \/ LeaveReview
  \/ Reopen
  \/ CancelReturned
  \/ Submit
  \/ \E n \in Runs : RetryReview(n)

WorkerNext ==
  \/ \E w \in Workers, n \in Runs : Claim(w, n) \/ ClaimExhausted(w, n)
  \/ \E w \in Workers : Finish(w) \/ Crash(w)

ClockNext == \E n \in Runs : LeaseExpires(n) \/ BackoffEnds(n)

Next == PeopleNext \/ WorkerNext \/ ClockNext

(* Time passes, calls return (every read has a timeout), transactions end and *)
(* some process polls the queue.  Nothing is assumed of people, and crashes   *)
(* may come at any time.                                                      *)
Fairness ==
  /\ \A n \in Runs : WF_vars(LeaseExpires(n)) /\ WF_vars(BackoffEnds(n))
  /\ \A w \in Workers : WF_vars(Finish(w))
  /\ WF_vars(\E w \in Workers, n \in Runs : Claim(w, n) \/ ClaimExhausted(w, n))

Spec == Init /\ [][Next]_vars /\ Fairness

-----------------------------------------------------------------------------
(* Properties.                                                                *)

(* The rows and the workers' memory are well formed: in particular no turn is *)
(* tried more often than MaxAttempts and no run searches more than MaxTurn    *)
(* times, whatever crashes.                                                   *)
TypeOK ==
  /\ request \in {"IN_REVIEW", "CHANGES_REQUESTED", "READY_FOR_BOOKKEEPING",
                  "CANCELLED"}
  /\ round \in Rounds
  /\ count \in 0..MaxRuns
  /\ runs \in [Runs -> RunRows]
  /\ work \in [Workers -> WorkRows]

(* A request never has two live runs for its round: retries by several people *)
(* and late workers do not multiply the review.                               *)
OneLiveRunPerRound ==
  \A m, n \in Runs :
    runs[m].status \in Live /\ runs[n].status \in Live
      /\ runs[m].round = runs[n].round => m = n

(* The worker that holds a run works on the turn and the attempt the row is   *)
(* in: an answer is written only to the question it was given for.            *)
OwnerIsCurrent ==
  \A w \in Workers :
    work[w].run # 0 /\ Owns(w) =>
      /\ work[w].turn = runs[work[w].run].turn
      /\ work[w].turnAttempts = runs[work[w].run].turnAttempts

(* An answer ends a run, or moves it to its next turn, only in the hands of   *)
(* the worker whose lease it is: the turn a run moves on from, or ends with,  *)
(* is the one that was asked.                                                 *)
AnswersFitTheTurn ==
  [][\A n \in Runs :
       runs[n].status = "PROCESSING" /\ runs'[n].status \in {"SUCCEEDED", "QUEUED"} =>
         \E w \in Workers :
           /\ work[w].run = n /\ work'[w] = Idle
           /\ work[w].turn = runs[n].turn
           /\ work[w].turnAttempts = runs[n].turnAttempts]_vars

(* Every live run ends: it is answered, superseded or given up, under any     *)
(* crashes, lost leases and unanswered calls.                                 *)
EveryRunEnds ==
  \A n \in Runs : runs[n].status \in Live ~> runs[n].status \in Ended

(* The runs of a round add up to one review, whose state is its newest run's. *)
RunsOf(n) == {m \in 1..count : runs[m].round = n}
Last(S) == CHOOSE m \in S : \A k \in S : k <= m
TaskStatus(status) == IF status \in Live THEN "LIVE" ELSE status
TaskOf == [n \in Rounds |-> IF RunsOf(n) = {} THEN "NONE"
                            ELSE TaskStatus(runs[Last(RunsOf(n))].status)]

Task == INSTANCE ReviewTask WITH task <- TaskOf

TaskSpec == Task!Spec

(* The inductive invariant: the rows of the queue are the runs 1..count, in   *)
(* the order of their rounds; only the last run of a round may be live; a run *)
(* is locked exactly while it is processed.                                   *)
RowsAreRuns ==
  \A n \in Runs : runs[n].status # "NONE" <=> n <= count

RoundsInOrder ==
  /\ \A n \in 1..count : runs[n].round <= round
  /\ \A m, n \in 1..count : m <= n => runs[m].round <= runs[n].round

LastIsLive ==
  \A m, n \in 1..count :
    runs[m].round = runs[n].round /\ runs[m].status \in Live => n <= m

LockedWhileProcessed ==
  \A n \in Runs : runs[n].lockedBy # NoWorker <=> runs[n].status = "PROCESSING"

RoundsHaveLast ==
  \A n \in Rounds : RunsOf(n) # {} => \E m \in RunsOf(n) : \A k \in RunsOf(n) : k <= m

WorkersHoldRuns == \A w \in Workers : work[w] = Idle \/ work[w].run \in 1..count

QueueInv ==
  /\ TypeOK /\ RowsAreRuns /\ RoundsInOrder /\ LastIsLive /\ LockedWhileProcessed
  /\ RoundsHaveLast /\ WorkersHoldRuns /\ OwnerIsCurrent

(* A run only pauses in the queue.                                            *)
PausedIsQueued == \A n \in Runs : ~runs[n].due => runs[n].status = "QUEUED"

IInv == QueueInv /\ PausedIsQueued

(* A run that is written once is never written back: each change of its row   *)
(* takes it to its end, to a later turn, to a later attempt at its turn, or   *)
(* further on in its attempt (in a worker's hands, abandoned, paused, waiting *)
(* again), and a run that has ended is never touched again.  So no crash, no  *)
(* expired lease and no search makes the queue go round for ever.             *)
Stage(row) ==
  CASE row.status = "PROCESSING" /\ ~row.expired -> 0
    [] row.status = "PROCESSING" /\ row.expired -> 1
    [] row.status # "PROCESSING" /\ ~row.due -> 2
    [] OTHER -> 3

Forward(old, new) ==
  /\ old.status \in Live
  /\ new.round = old.round
  /\ \/ new.status \in Ended
     \/ /\ new.status \in Live
        /\ \/ new.turn > old.turn
           \/ /\ new.turn = old.turn
              /\ \/ new.turnAttempts > old.turnAttempts
                 \/ /\ new.turnAttempts = old.turnAttempts
                    /\ Stage(new) > Stage(old)

RunsGoForward ==
  [][\A n \in Runs :
       runs'[n] # runs[n] => \/ n = count' /\ count' = count + 1
                            \/ Forward(runs[n], runs'[n])]_vars

=============================================================================
