------------------------------ MODULE Commands ------------------------------
(* What the staff's commands promise to a caller who may lose the answer and  *)
(* call again (app/api/collections.py, the transitions of app/api/review.py): *)
(* an Idempotency-Key that is remembered for 24 hours, and the version of the *)
(* request that the caller has seen.  A command runs under the locks of the   *)
(* firm and of the request until it commits, as one step; the network may     *)
(* lose, delay, reorder and repeat the calls.                                 *)
EXTENDS Naturals, FiniteSets

CONSTANTS
  Keys,          \* idempotency keys of one member of staff
  MaxItems,      \* bound: requests
  MaxVersions,   \* bound: how far the version of each request may go
  MaxSent        \* bound: commands on their way at a time

Items == 1..MaxItems

ASSUME CommandsAssumption ==
  MaxItems \in Nat \ {0} /\ MaxVersions \in [Items -> Nat] /\ MaxSent \in Nat

(* The statuses a transition starts from, and the one it leads to.            *)
Sources == [PUBLISH |-> {"DRAFT"},
            CANCEL |-> {"DRAFT", "OPEN", "IN_REVIEW", "CHANGES_REQUESTED"},
            REQUEST_CHANGES |-> {"IN_REVIEW"},
            APPROVE |-> {"IN_REVIEW"},
            REOPEN |-> {"READY_FOR_BOOKKEEPING"}]
ClosedTarget == [PUBLISH |-> "OPEN", CANCEL |-> "CLOSED",          \* mutant
                 REQUEST_CHANGES |-> "CHANGES_REQUESTED",
                 APPROVE |-> "READY_FOR_BOOKKEEPING", REOPEN |-> "IN_REVIEW"]
Target == [PUBLISH |-> "OPEN", CANCEL |-> "CANCELLED",
           REQUEST_CHANGES |-> "CHANGES_REQUESTED",
           APPROVE |-> "READY_FOR_BOOKKEEPING", REOPEN |-> "IN_REVIEW"]
Transitions == DOMAIN Target
ItemStatuses == {"DRAFT", "OPEN", "IN_REVIEW", "CHANGES_REQUESTED",
                 "READY_FOR_BOOKKEEPING", "CANCELLED"}

(* A request: its own fields (TEXT stands for them), and its requirements,    *)
(* the initial ones and whether there are follow-ups.                         *)
Texts == {"TEXT", "TEXT2"}
Lists == {"LIST", "LIST2"}
Contents == [status : ItemStatuses, version : Nat, text : Texts, list : Lists,
             followUps : BOOLEAN]
Absent == [status |-> "ABSENT"]
NewItem(text, list) == [status |-> "DRAFT", version |-> 1, text |-> text, list |-> list,
                        followUps |-> FALSE]

(* A call is what _request_hash tells apart: the operation, the request and   *)
(* the version in the body.                                                   *)
Calls == [op : Transitions \cup {"CREATE", "COPY"}, item : 0..MaxItems, version : Nat]

VARIABLES
  items,     \* CollectionRequest rows and their requirements
  sent,      \* commands sent, with what the caller saw of the request
  records,   \* IdempotencyRecord rows: the call and the answer of a key
  recent,    \* what the calls of each key did in the last 24 hours
  done       \* what the transitions that are still on their way did, ever

commandVars == <<items, sent, records, recent, done>>

CommandsInit ==
  /\ items = [i \in Items |-> Absent]
  /\ sent = {} /\ records = {} /\ recent = {} /\ done = {}

Made == {i \in Items : items[i] # Absent}
Unused == Items \ Made
NextItem == CHOOSE i \in Unused : TRUE         \* a new uuid

-----------------------------------------------------------------------------
(* Writing a request.                                                         *)

(* A change of the row by the ORM counts the version up, and the bulk update  *)
(* of updated_at in _event leaves it.                                         *)
BumpedBulk(item) == item                          \* mutant: changed by a bulk update
Bumped(item) == [item EXCEPT !.version = @ + 1]

Other(x, set) == CHOOSE y \in set : y # x

MayChange(i, statuses) ==
  /\ items[i].status \in statuses
  /\ items[i].version < MaxVersions[i]

SetItem(i, item) ==
  /\ items' = [items EXCEPT ![i] = item]
  /\ UNCHANGED <<sent, records, recent, done>>

(* update_collection: the caller has seen the version it changes.  Values     *)
(* that are the same change nothing.                                          *)
UpdateCollection(i) ==
  /\ MayChange(i, {"DRAFT"})
  /\ SetItem(i, Bumped([items[i] EXCEPT !.text = Other(@, Texts)]))

(* A requirement of a draft added, changed or removed: only that row is       *)
(* written, and updated_at.                                                   *)
ChangeRequirements(i) ==
  /\ items[i].status = "DRAFT"
  /\ SetItem(i, [items[i] EXCEPT !.list = Other(@, Lists)])

(* add_requirement on a request in review.                                    *)
AddFollowUp(i) ==
  /\ MayChange(i, {"IN_REVIEW"})
  /\ SetItem(i, Bumped([items[i] EXCEPT !.status = "CHANGES_REQUESTED", !.followUps = TRUE]))

(* The client's submission.                                                   *)
SubmitRound(i) ==
  /\ MayChange(i, {"OPEN", "CHANGES_REQUESTED"})
  /\ SetItem(i, Bumped([items[i] EXCEPT !.status = "IN_REVIEW"]))

(* The AI review applies its findings: it writes updated_at by the ORM, and   *)
(* returns the request if it found something to act on.                       *)
AIReviews(i) ==
  /\ MayChange(i, {"IN_REVIEW"})
  /\ \E status \in {"IN_REVIEW", "CHANGES_REQUESTED"} :
       SetItem(i, Bumped([items[i] EXCEPT !.status = status]))

-----------------------------------------------------------------------------
(* Commands.                                                                  *)

(* What a caller has seen of a request: the requirements of a draft are not   *)
(* kept, nothing is said of them.                                             *)
Seen(item) == IF item.status = "DRAFT" THEN [item EXCEPT !.list = "LIST"] ELSE item

(* A caller sends a command for the request as he sees it now; a transition   *)
(* that its status does not allow would be refused as long as the version     *)
(* lasts.                                                                     *)
Send(k, op, i) ==
  /\ Cardinality(sent) < MaxSent
  /\ op \in Transitions /\ i \in Made => items[i].status \in Sources[op]
  /\ IF op = "CREATE" THEN i = 0 ELSE i \in Made
  /\ op \notin Transitions => Unused # {}
  /\ LET version == IF op \in Transitions THEN items[i].version ELSE 0
         saw == IF op \in Transitions THEN Seen(items[i]) ELSE Absent
     IN  sent' = sent \cup {[key |-> k, saw |-> saw,
                             call |-> [op |-> op, item |-> i, version |-> version]]}
  /\ UNCHANGED <<items, records, recent, done>>

(* A call that is not delivered any more.  What it did is no longer looked at *)
(* once no copy of it is on its way.                                          *)
Lose(m) ==
  /\ sent' = sent \ {m}
  /\ done' = {d \in done : \E n \in sent \ {m} : n.call = d.call}
  /\ UNCHANGED <<items, records, recent>>

(* _start_idempotent: a key in use answers the same call from its record and  *)
(* refuses any other (IDEMPOTENCY_KEY_REUSED), neither of which changes       *)
(* anything.  A command that fails leaves no record.                          *)
NeverRecorded(k) == FALSE                          \* mutant: replays are not looked up
Recorded(k) == \E r \in records : r.key = k

(* _complete_idempotent and what the ghosts keep.                             *)
Complete(m, answer) ==
  /\ records' = records \cup {[key |-> m.key, call |-> m.call, answer |-> answer]}
  /\ recent' = recent \cup {[key |-> m.key, call |-> m.call, answer |-> answer]}

AddItem(m, item) ==
  /\ Unused # {}
  /\ items' = [items EXCEPT ![NextItem] = item]
  /\ Complete(m, [item |-> NextItem, version |-> 1])
  /\ UNCHANGED <<sent, done>>

CreateCollection(m) ==
  /\ m.call.op = "CREATE"
  /\ ~Recorded(m.key)
  /\ AddItem(m, NewItem("TEXT", "LIST"))

(* The initial requirements of the source, as they are now.                   *)
CopyCollection(m) ==
  /\ m.call.op = "COPY"
  /\ ~Recorded(m.key)
  /\ LET source == items[m.call.item] IN AddItem(m, NewItem(source.text, source.list))

(* publish, cancel, request_changes, approve and reopen; whether the          *)
(* requirements allow request_changes and approve is left to module           *)
(* Collection: a refusal changes nothing.                                     *)
AnyVersion(m) == TRUE                              \* mutant: the version is not compared
SameVersion(m) == items[m.call.item].version = m.call.version

Transition(m) ==
  LET i == m.call.item
      item == Bumped([items[i] EXCEPT !.status = Target[m.call.op]])
      answer == [item |-> i, version |-> item.version]
  IN
  /\ m.call.op \in Transitions
  /\ ~Recorded(m.key)
  /\ SameVersion(m)
  /\ MayChange(i, Sources[m.call.op])
  /\ items' = [items EXCEPT ![i] = item]
  /\ Complete(m, answer)
  /\ done' = done \cup {[call |-> m.call, answer |-> answer]}
  /\ UNCHANGED sent

(* 24 hours later: the record is deleted by the next call with its key.       *)
ExpireKey(k) ==
  /\ Recorded(k)
  /\ records' = {r \in records : r.key # k}
  /\ recent' = {r \in recent : r.key # k}
  /\ UNCHANGED <<items, sent, done>>

CommandsNext ==
  \/ \E i \in Made : UpdateCollection(i) \/ ChangeRequirements(i) \/ AddFollowUp(i)
                     \/ SubmitRound(i) \/ AIReviews(i)
  \/ \E k \in Keys, op \in Transitions \cup {"CREATE", "COPY"}, i \in 0..MaxItems : Send(k, op, i)
  \/ \E m \in sent : CreateCollection(m) \/ CopyCollection(m) \/ Transition(m) \/ Lose(m)
  \/ \E k \in Keys : ExpireKey(k)

CommandsSpec == CommandsInit /\ [][CommandsNext]_commandVars

-----------------------------------------------------------------------------
(* Properties.                                                                *)

Effects == [key : Keys, call : Calls, answer : [item : Items, version : Nat]]

CommandsTypeOK ==
  /\ items \in [Items -> Contents \cup {Absent}]
  /\ sent \subseteq [key : Keys, call : Calls, saw : Contents \cup {Absent}]
  /\ records \subseteq Effects
  /\ recent \subseteq Effects
  /\ done \subseteq [call : Calls, answer : [item : Items, version : Nat]]

(* However often and late calls are delivered, and whichever keys they carry: *)
(* the calls of one key make at most one request or one transition in 24      *)
(* hours, and a transition that names a version takes effect at most once     *)
(* ever, also when its key has expired and the request has come back to the   *)
(* same status.                                                               *)
RepeatedCallsCountOnce ==
  /\ \A e, f \in recent : e.key = f.key => e = f
  /\ \A e, f \in done : e.call = f.call => e = f

(* A transition that names the version the caller saw does what he meant: as  *)
(* long as the request has that version, it has the status and the text he    *)
(* saw, and unless he saw a draft also the requirements.  Those of a draft    *)
(* may change under its version, so a request may be published with           *)
(* requirements nobody has seen (tests/test_collections.py publishes with a   *)
(* version read before a requirement was changed).  Decisions on requirements *)
(* leave the version too; approve and request_changes look at them anew.      *)
VersionFixesContent ==
  \A m \in sent :
    LET now == items[m.call.item] IN
    (m.call.op \in Transitions /\ now.version = m.saw.version) =>
      /\ now.status = m.saw.status
      /\ now.text = m.saw.text
      /\ m.saw.status # "DRAFT" => now.list = m.saw.list /\ now.followUps = m.saw.followUps

(* The inductive invariant.  A record says what its key did; a transition that *)
(* was done left its version behind, and versions only grow: what a caller saw *)
(* is an earlier version of the request, or this one.                         *)
RecordsAreRecent == records = recent

DoneIsPast ==
  \A d \in done : d.call.item \in Made /\ d.call.version < items[d.call.item].version

SentIsPast ==
  \A m \in sent :
    /\ m.call.op \in Transitions \cup {"COPY"} => m.call.item \in Made
    /\ m.call.op \in Transitions =>
         /\ m.saw \in Contents
         /\ m.call.version = m.saw.version
         /\ m.saw.version <= items[m.call.item].version

CommandsInv ==
  /\ CommandsTypeOK /\ RecordsAreRecent /\ DoneIsPast /\ SentIsPast
  /\ RepeatedCallsCountOnce /\ VersionFixesContent

=============================================================================
