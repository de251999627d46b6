-------------------------- MODULE RequestLifecycle --------------------------
(* What a collection request promises to the firm and to the client: the      *)
(* legal moves of its status, when a submission round is counted and when the *)
(* review may be considered settled.  How staff, clients and the two workers  *)
(* bring these moves about is the business of module Collection, which        *)
(* implements this specification.                                             *)
EXTENDS Naturals

CONSTANT MaxRounds       \* bound: submission rounds explored

VARIABLES
  status,    \* the request's workflow status
  round,     \* number of submitted rounds
  settled    \* TRUE iff every requirement is satisfied or waived

vars == <<status, round, settled>>

(* Statuses that the workflow uses (CLOSED is only kept for old rows).        *)
Statuses == {"DRAFT", "OPEN", "IN_REVIEW", "CHANGES_REQUESTED",
             "READY_FOR_BOOKKEEPING", "CANCELLED"}

(* The client may prepare and submit a round in these.                        *)
PortalStatuses == {"OPEN", "CHANGES_REQUESTED"}

CancellableStatuses == {"DRAFT", "IN_REVIEW"} \cup PortalStatuses

Init == status = "DRAFT" /\ round = 0 /\ settled = FALSE

(* The firm publishes a prepared request.                                     *)
Publish == /\ status = "DRAFT"
           /\ status' = "OPEN"
           /\ UNCHANGED <<round, settled>>

Cancel == /\ status \in CancellableStatuses
          /\ status' = "CANCELLED"
          /\ UNCHANGED <<round, settled>>

(* A submission opens a new round; it settles nothing by itself.              *)
Submit == /\ status \in PortalStatuses
          /\ round < MaxRounds
          /\ status' = "IN_REVIEW"
          /\ round' = round + 1
          /\ UNCHANGED settled

(* Only a review under way may change whether the requirements are settled.   *)
Review == /\ status = "IN_REVIEW"
          /\ settled' \in BOOLEAN
          /\ UNCHANGED <<status, round>>

(* A returned request has something left to do.                               *)
Return == /\ status = "IN_REVIEW"
          /\ status' = "CHANGES_REQUESTED"
          /\ settled' = FALSE
          /\ UNCHANGED round

Approve == /\ status = "IN_REVIEW"
           /\ settled
           /\ status' = "READY_FOR_BOOKKEEPING"
           /\ UNCHANGED <<round, settled>>

Reopen == /\ status = "READY_FOR_BOOKKEEPING"
          /\ status' = "IN_REVIEW"
          /\ UNCHANGED <<round, settled>>

Next == Publish \/ Cancel \/ Submit \/ Review \/ Return \/ Approve \/ Reopen

Spec == Init /\ [][Next]_vars

=============================================================================
