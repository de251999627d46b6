----------------------------- MODULE ReviewTask -----------------------------
(* What the rest of the system relies on about the AI review of a round: the  *)
(* review is live until it ends once, its answer counts only while its round  *)
(* is the one under review, and only a failed review is started again.        *)
(* Module ReviewRun, with its workers, leases and retries, implements this;   *)
(* module Collection uses a run in the same way.                              *)
EXTENDS Naturals

CONSTANT MaxRounds       \* bound: submission rounds explored

VARIABLES
  request,   \* status of the request, from its first submission on
  round,     \* rounds submitted so far
  task       \* task[n]: the review of round n

vars == <<request, round, task>>

Rounds == 1..MaxRounds

(* A new review is live, or has failed because it carries too much; OFF and   *)
(* manual rounds have none.                                                   *)
Started == {"LIVE", "FAILED"}

Init ==
  /\ request = "IN_REVIEW"
  /\ round = 1
  /\ \E first \in Started \cup {"NONE"} :
       task = [n \in Rounds |-> IF n = 1 THEN first ELSE "NONE"]

(* People and the answer move the request on; nothing happens to the reviews. *)
Move ==
  /\ \/ /\ request = "IN_REVIEW"
        /\ request' \in {"CHANGES_REQUESTED", "READY_FOR_BOOKKEEPING", "CANCELLED"}
     \/ request = "READY_FOR_BOOKKEEPING" /\ request' = "IN_REVIEW"
     \/ request = "CHANGES_REQUESTED" /\ request' = "CANCELLED"
  /\ UNCHANGED <<round, task>>

Submit ==
  /\ request = "CHANGES_REQUESTED"
  /\ round < MaxRounds
  /\ request' = "IN_REVIEW"
  /\ round' = round + 1
  /\ \E first \in Started \cup {"NONE"} : task' = [task EXCEPT ![round + 1] = first]

Retry ==
  /\ request = "IN_REVIEW"
  /\ task[round] = "FAILED"
  /\ \E again \in Started : task' = [task EXCEPT ![round] = again]
  /\ UNCHANGED <<request, round>>

Fail(n) ==
  /\ task[n] = "LIVE"
  /\ task' = [task EXCEPT ![n] = "FAILED"]
  /\ UNCHANGED <<request, round>>

Supersede(n) ==
  /\ task[n] = "LIVE"
  /\ request # "IN_REVIEW" \/ n # round
  /\ task' = [task EXCEPT ![n] = "CANCELLED"]
  /\ UNCHANGED <<request, round>>

Succeed ==
  /\ task[round] = "LIVE"
  /\ request = "IN_REVIEW"
  /\ task' = [task EXCEPT ![round] = "SUCCEEDED"]
  /\ request' \in {"IN_REVIEW", "CHANGES_REQUESTED"}
  /\ UNCHANGED round

Next == Move \/ Submit \/ Retry \/ Succeed
        \/ \E n \in Rounds : Fail(n) \/ Supersede(n)

Spec == Init /\ [][Next]_vars

=============================================================================
