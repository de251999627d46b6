------------------------------- MODULE MCApi -------------------------------
(* Six parts of the API that share no variable, side by side: each behaviour  *)
(* is one of one part, the others stay as they start.                         *)
EXTENDS Sessions, Commands, Notices, UploadLoop, ReviewAnswer, Assignments

VARIABLE part

MCMaxVersions == <<6, 1>>
MCReceipts == <<"lunch", "taxi">>

IdleUploads == handler = [p \in Callers |-> "PLAIN"] /\ row = [p \in Callers |-> CHOOSE r \in Rows : TRUE]

IdleAnswer ==
  /\ superseded = TRUE
  /\ claimRead = [EARLIER |-> <<>>, LATER |-> <<>>]
  /\ receiptRead = [r \in ReceiptDocs |-> CHOOSE p \in Prices : TRUE]
  /\ finding = [target |-> "OTHER", cites |-> {}, relies |-> FALSE, sums |-> [c \in {"LATER"} |-> {}]]

Init ==
  /\ part \in {"SESSIONS", "COMMANDS", "NOTICES", "UPLOADS", "ANSWERS", "ASSIGNMENTS"}
  /\ SessionsInit
  /\ CommandsInit
  /\ part # "NOTICES" => assignee = CHOOSE u \in Staff : TRUE
  /\ NoticesInit
  /\ part # "UPLOADS" => IdleUploads
  /\ UploadInit
  /\ part # "ASSIGNMENTS" => assigned = {}
  /\ AssignmentsInit
  /\ part # "ANSWERS" => IdleAnswer
  /\ AnswerInit

Next ==
  \/ /\ part = "SESSIONS" /\ SessionsNext
     /\ UNCHANGED <<part, commandVars, noticeVars, uploadVars, answerVars, assignmentVars>>
  \/ /\ part = "COMMANDS" /\ CommandsNext
     /\ UNCHANGED <<part, sessionVars, noticeVars, uploadVars, answerVars, assignmentVars>>
  \/ /\ part = "NOTICES" /\ NoticesNext
     /\ UNCHANGED <<part, sessionVars, commandVars, uploadVars, answerVars, assignmentVars>>
  \/ /\ part = "UPLOADS" /\ UploadNext
     /\ UNCHANGED <<part, sessionVars, commandVars, noticeVars, answerVars, assignmentVars>>
  \/ /\ part = "ANSWERS" /\ Validate
     /\ UNCHANGED <<part, sessionVars, commandVars, noticeVars, uploadVars, assignmentVars>>
  \/ /\ part = "ASSIGNMENTS" /\ AssignmentsNext
     /\ UNCHANGED <<part, sessionVars, commandVars, noticeVars, uploadVars, answerVars>>

Spec ==
  /\ Init
  /\ [][Next]_<<part, sessionVars, commandVars, noticeVars, uploadVars, answerVars, assignmentVars>>
  /\ UploadFairness

(* The variables of every part have their types, and the inductive invariants *)
(* of the parts that are proved about hold.                                   *)
ApiInv ==
  /\ SessionsInv /\ CommandsInv /\ NoticesTypeOK /\ UploadInv /\ AnswerTypeOK
  /\ AssignmentsInv
=============================================================================
