----------------------------- MODULE Assignments -----------------------------
(* The accountants assigned to a client (replace_assignments in               *)
(* app/api/accounts.py).  A replacement takes no lock: it checks the new list,*)
(* deletes the rows it sees and inserts its own, and postgres lets            *)
(* replacements overlap as READ COMMITTED does.  A statement sees the rows    *)
(* committed when it starts; deleting a row waits for another transaction     *)
(* that has deleted it, and finds nothing when that one commits; inserting    *)
(* a key that is there fails.                                                 *)
EXTENDS FiniteSets

CONSTANTS
  People,         \* members of the firm
  Replacements    \* requests that replace the list

VARIABLES
  accountants,    \* active members whose role is ACCOUNTANT
  assigned,       \* ClientAssignment rows, by user
  list,           \* the users each replacement was given
  stage,          \* how far it is
  doomed,         \* the rows its DELETE has seen, and after it those it deleted
  overlap         \* rows committed by others since that statement started

assignmentVars == <<accountants, assigned, list, stage, doomed, overlap>>

Stages == {"NONE", "CHECKED", "DELETING", "DELETED", "COMMITTED", "FAILED"}
Open == {r \in Replacements : stage[r] \in {"DELETING", "DELETED"}}

AssignmentsInit ==
  /\ accountants = People
  /\ assigned \in SUBSET People
  /\ list = [r \in Replacements |-> {}]
  /\ stage = [r \in Replacements |-> "NONE"]
  /\ doomed = [r \in Replacements |-> {}]
  /\ overlap = [r \in Replacements |-> {}]

SetStage(r, s) == stage' = [stage EXCEPT ![r] = s]

(* Only active accountants of the firm may be assigned.                       *)
CheckAssignees(r, users) ==
  /\ stage[r] = "NONE"
  /\ users \subseteq accountants
  /\ list' = [list EXCEPT ![r] = users]
  /\ SetStage(r, "CHECKED")
  /\ UNCHANGED <<accountants, assigned, doomed, overlap>>

AccountantsOnly == assigned \cap accountants     \* mutant: joined with the members
RowsOfClient == assigned

StartDelete(r) ==
  /\ stage[r] = "CHECKED"
  /\ doomed' = [doomed EXCEPT ![r] = RowsOfClient]
  /\ SetStage(r, "DELETING")
  /\ UNCHANGED <<accountants, assigned, list, overlap>>

(* It has locked every row it saw.                                            *)
EndDelete(r) ==
  /\ stage[r] = "DELETING"
  /\ \A o \in Replacements \ {r} : stage[o] = "DELETED" => doomed[o] \cap doomed[r] = {}
  /\ SetStage(r, "DELETED")
  /\ UNCHANGED <<accountants, assigned, list, doomed, overlap>>

(* The inserts are flushed by the commit.  An insert waits for who has        *)
(* deleted its key, and fails if the key is there.                            *)
InsertAndCommit(r) ==
  /\ stage[r] = "DELETED"
  /\ list[r] \cap (assigned \ doomed[r]) = {}
  /\ assigned' = (assigned \ doomed[r]) \cup list[r]
  /\ doomed' = [o \in Replacements |-> IF o # r /\ stage[o] = "DELETING"
                                       THEN doomed[o] \ doomed[r] ELSE doomed[o]]
  /\ overlap' = [o \in Replacements |-> IF o \in Open \ {r}
                                        THEN overlap[o] \cup list[r] ELSE overlap[o]]
  /\ SetStage(r, "COMMITTED")
  /\ UNCHANGED <<accountants, list>>

(* A key that is there, a deadlock that postgres ends, or a lost connection.  *)
Fail(r) ==
  /\ stage[r] \in {"CHECKED", "DELETING", "DELETED"}
  /\ SetStage(r, "FAILED")
  /\ UNCHANGED <<accountants, assigned, list, doomed, overlap>>

(* update_user changes a member's role or status; his assignments stay.       *)
ChangeMember(u) ==
  /\ accountants' = IF u \in accountants THEN accountants \ {u} ELSE accountants \cup {u}
  /\ UNCHANGED <<assigned, list, stage, doomed, overlap>>

AssignmentsNext ==
  \/ \E r \in Replacements :
       \/ \E users \in SUBSET People : CheckAssignees(r, users)
       \/ StartDelete(r) \/ EndDelete(r) \/ InsertAndCommit(r) \/ Fail(r)
  \/ \E u \in People : ChangeMember(u)

AssignmentsSpec == AssignmentsInit /\ [][AssignmentsNext]_assignmentVars

-----------------------------------------------------------------------------
(* Properties.                                                                *)

AssignmentsTypeOK ==
  /\ accountants \subseteq People
  /\ assigned \subseteq People
  /\ list \in [Replacements -> SUBSET People]
  /\ stage \in [Replacements -> Stages]
  /\ doomed \in [Replacements -> SUBSET People]
  /\ overlap \in [Replacements -> SUBSET People]

(* A replacement that is answered has left its list, and besides it only      *)
(* users of replacements that were committed while it ran; alone it leaves    *)
(* exactly its list.  Two that overlap may leave the union of both, which     *)
(* neither was asked for.                                                     *)
ReplacementLeavesList ==
  [][\A r \in Replacements :
       stage[r] # "COMMITTED" /\ stage'[r] = "COMMITTED" =>
         list[r] \subseteq assigned' /\ assigned' \subseteq list[r] \cup overlap[r]]_assignmentVars

(* Behind it: what is assigned and not about to be deleted by a replacement   *)
(* was committed while it ran.                                                *)
DoomedOrOverlap ==
  \A r \in Open : assigned \subseteq doomed[r] \cup overlap[r]

AssignmentsInv == AssignmentsTypeOK /\ DoomedOrOverlap

=============================================================================
