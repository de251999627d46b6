------------------------------- MODULE Notices -------------------------------
(* Who is told what (app/notifications.py, app/api/notifications.py): every   *)
(* change of a collection request writes a workflow event in its transaction, *)
(* and a notification for each of its recipients, who read them one by one or *)
(* all at once.                                                               *)
EXTENDS Naturals

CONSTANTS
  ClientMembers,  \* users who are members of the client
  Admins,         \* administrators of the firm
  Accountants,    \* its accountants
  MaxEvents       \* bound: workflow events

Staff == Admins \cup Accountants
Users == ClientMembers \cup Staff

ASSUME NoticesAssumption == MaxEvents \in Nat /\ "SYSTEM" \notin Users

VARIABLES
  state,      \* CollectionRequest.status
  assignee,   \* CollectionRequest.assignee_id
  active,     \* users whose status is ACTIVE
  events,     \* number of WorkflowEvent rows
  latest,     \* the newest of them
  unread      \* <<user, event>> of notifications that are not read

noticeVars == <<state, assignee, active, events, latest, unread>>

(* The events, who causes them, and the status before and after.              *)
WorkflowEvent(type, by, from, to) == [type |-> type, by |-> by, from |-> from, to |-> to]
WorkflowEvents ==
  {WorkflowEvent("PUBLISHED", Staff, "DRAFT", "OPEN"),
   WorkflowEvent("FOLLOW_UP_ADDED", Staff, "IN_REVIEW", "CHANGES_REQUESTED"),
   WorkflowEvent("CHANGES_REQUESTED", Staff \cup {"SYSTEM"}, "IN_REVIEW", "CHANGES_REQUESTED"),
   WorkflowEvent("AI_REVIEW_COMPLETED", {"SYSTEM"}, "IN_REVIEW", "IN_REVIEW"),
   WorkflowEvent("APPROVED", Staff, "IN_REVIEW", "READY_FOR_BOOKKEEPING"),
   WorkflowEvent("APPROVAL_WITHDRAWN", Admins, "READY_FOR_BOOKKEEPING", "IN_REVIEW")}
  \cup {WorkflowEvent("SUBMITTED", ClientMembers, s, "IN_REVIEW") :
          s \in {"OPEN", "CHANGES_REQUESTED"}}
  \cup {WorkflowEvent("CANCELLED", Staff, s, "CANCELLED") :
          s \in {"DRAFT", "OPEN", "IN_REVIEW", "CHANGES_REQUESTED"}}

NoticesInit ==
  /\ state = "DRAFT"
  /\ assignee \in Staff
  /\ active = Users
  /\ events = 0
  /\ latest = [type |-> "CREATED", actor |-> "SYSTEM"]
  /\ unread = {}

-----------------------------------------------------------------------------
ReturnsUntold == {"PUBLISHED", "APPROVED", "APPROVAL_WITHDRAWN", "CLOSED", "CANCELLED"}   \* mutant
CLIENT_EVENTS == {"PUBLISHED", "CHANGES_REQUESTED", "APPROVED", "APPROVAL_WITHDRAWN", "CLOSED",
                  "CANCELLED"}
STAFF_EVENTS == {"SUBMITTED", "AI_REVIEW_COMPLETED"}

Recipients(type) ==
  IF type \in CLIENT_EVENTS THEN ClientMembers \cap active
  ELSE IF type \in STAFF_EVENTS THEN (Admins \cup {assignee}) \cap active
  ELSE {}

(* add_workflow_event; nobody is told of a draft that is cancelled, and       *)
(* nobody of what he did himself.                                             *)
AddWorkflowEvent(type, actor, notify) ==
  /\ events' = events + 1
  /\ latest' = [type |-> type, actor |-> actor]
  /\ unread' = IF notify
               THEN unread \cup {<<u, events + 1>> : u \in Recipients(type) \ {actor}}
               ELSE unread

Act(change, actor) ==
  /\ events < MaxEvents
  /\ actor \in change.by
  /\ actor \in active \cup {"SYSTEM"}
  /\ state = change.from
  /\ state' = change.to
  /\ AddWorkflowEvent(change.type, actor, change.from # "DRAFT" \/ change.to # "CANCELLED")
  /\ UNCHANGED <<assignee, active>>

(* mark_notification_read and mark_all_notifications_read: the second takes   *)
(* what has arrived since the list was shown with it.                         *)
MarkRead(u, e) ==
  /\ u \in active
  /\ <<u, e>> \in unread
  /\ unread' = unread \ {<<u, e>>}
  /\ UNCHANGED <<state, assignee, active, events, latest>>

MarkAllRead(u) ==
  /\ u \in active
  /\ unread' = {n \in unread : n[1] # u}
  /\ UNCHANGED <<state, assignee, active, events, latest>>

(* update_user disables or enables someone.                                   *)
SetActive(u) ==
  /\ active' = IF u \in active THEN active \ {u} ELSE active \cup {u}
  /\ UNCHANGED <<state, assignee, events, latest, unread>>

NoticesNext ==
  \/ \E change \in WorkflowEvents : \E actor \in change.by : Act(change, actor)
  \/ \E u \in Users : MarkAllRead(u) \/ SetActive(u) \/ \E e \in 1..MaxEvents : MarkRead(u, e)

NoticesSpec == NoticesInit /\ [][NoticesNext]_noticeVars

-----------------------------------------------------------------------------
(* Properties.                                                                *)

States == {"DRAFT", "OPEN", "IN_REVIEW", "CHANGES_REQUESTED", "READY_FOR_BOOKKEEPING",
           "CANCELLED"}

NoticesTypeOK ==
  /\ state \in States
  /\ assignee \in Staff
  /\ active \subseteq Users
  /\ events \in 0..MaxEvents
  /\ latest.actor \in Users \cup {"SYSTEM"}
  /\ unread \subseteq Users \X (1..events)

(* Whoever did not move the request himself: the client's members when the    *)
(* staff or the AI did, those who review it when the client did.              *)
OtherSide ==
  IF state \in {"OPEN", "CHANGES_REQUESTED"} /\ state' = "IN_REVIEW"
  THEN (Admins \cup {assignee}) \cap active
  ELSE ClientMembers \cap active

(* A request that moves leaves an unread notification with everyone active on *)
(* the other side, except the one who moved it.  The client is not told of a  *)
(* draft, nor (which the code leaves out) of a follow-up, although it returns *)
(* the request to him.                                                        *)
MovesAreTold ==
  [][state' # state /\ <<state, state'>> # <<"DRAFT", "CANCELLED">>
        /\ latest'.type # "FOLLOW_UP_ADDED"
     => \A u \in OtherSide \ {latest'.actor} : <<u, events'>> \in unread']_noticeVars

=============================================================================
