----------------------------- MODULE Collection -----------------------------
(* One collection request, from the staff's draft to READY_FOR_BOOKKEEPING:   *)
(* the staff API (app/api/collections.py, app/api/review.py), the client      *)
(* portal (app/api/portal.py and the confirmation of a staged classification  *)
(* in app/api/classification.py), the document worker (app/worker.py) and the *)
(* AI review worker (app/review_analysis.py) work on the same rows.           *)
(*                                                                            *)
(* Every handler that starts with _load_request(lock=True) is one atomic step *)
(* (the row lock is held until its commit).  What the code reads outside that *)
(* lock and uses later is a step of its own: exclude_document reads the link  *)
(* and its submission first, and the document worker reads requirements that  *)
(* it writes back under an optimistic version check.                          *)
EXTENDS Naturals, FiniteSets

CONSTANTS
  Reqs,         \* requirements that may exist
  Required,     \* the ones a round cannot be submitted without
  Other,        \* target of a document that belongs to no requirement
  Docs,         \* document rows
  Attachable,   \* <<target, document>> pairs a client may choose: a bound
  MaxRounds,    \* bound: submission rounds
  MaxExcludes,  \* bound: exclude requests between their read and their lock
  ReviewLimit,  \* files a review may carry (100 in the code)
  AIMode        \* ai_mode of the request

Targets == Reqs \cup {Other}
Rounds == 1..MaxRounds

ASSUME CollectionAssumption ==
  /\ IsFiniteSet(Reqs) /\ IsFiniteSet(Docs)
  /\ Required \subseteq Reqs
  /\ Other \notin Reqs
  /\ Attachable \subseteq Targets \X Docs
  /\ MaxRounds \in Nat \ {0}
  /\ MaxExcludes \in Nat
  /\ ReviewLimit \in Nat
  /\ AIMode \in {"OFF", "SUGGEST", "AUTO_REVIEW"}

VARIABLES
  status,     \* CollectionRequest.status
  rstat,      \* Requirement.status, "ABSENT" while the row does not exist
  docs,       \* Document.status, "ABSENT" while the row does not exist
  round,      \* number of SUBMITTED submissions: rounds 1..round
  draft,      \* TRUE iff round round+1 exists as the DRAFT submission
  links,      \* links[n][t][d]: the requirement_documents rows of round n
  manual,     \* rounds with manual_review_requested
  run,        \* run[n]: newest REVIEW run of round n
  last,       \* last[r]: newest review decision on requirement r
  scans,      \* open _finish transactions of the document worker
  excludes    \* exclude requests that have read their link

vars == <<status, rstat, docs, round, draft, links, manual, run, last,
          scans, excludes>>

portal == <<round, draft, links, manual>>

RequestStatuses == {"DRAFT", "OPEN", "IN_REVIEW", "CHANGES_REQUESTED",
                    "READY_FOR_BOOKKEEPING", "CANCELLED"}
PortalStatuses == {"OPEN", "CHANGES_REQUESTED"}
Unreviewed == {"PENDING", "RECEIVED"}
Settled == {"SATISFIED", "WAIVED"}
Reviewed == Settled \cup {"NEEDS_ACTION"}
RequirementStatuses == Unreviewed \cup Reviewed \cup {"ABSENT"}
DocumentStatuses == {"ABSENT", "QUARANTINED", "AVAILABLE", "FAILED"}

(* Rows of one round, target and document.  At most one of them is active;    *)
(* created_at is the START of the transaction that inserted a row, so a row   *)
(* added after an exclusion may sort behind (READDED) or before (SHADOWED)    *)
(* the excluded row.                                                          *)
LinkStates == {"NONE", "ACTIVE", "EXCLUDED", "READDED", "SHADOWED"}
ActiveLink == {"ACTIVE", "READDED", "SHADOWED"}       \* some row not excluded
NewestActive == {"ACTIVE", "READDED"}                 \* newest row not excluded

(* QUEUED and PROCESSING are one state here; module ReviewRun tells them      *)
(* apart.                                                                     *)
RunStatuses == {"NONE", "LIVE", "SUCCEEDED", "FAILED", "CANCELLED"}

Decisions == {"SATISFY", "REQUEST_ACTION", "WAIVE"}
StatusOf == [SATISFY |-> "SATISFIED", REQUEST_ACTION |-> "NEEDS_ACTION",
             WAIVE |-> "WAIVED"]
NoDecision == [decision |-> "NONE", source |-> "NONE", round |-> 0]
DecisionRows == [decision : Decisions, source : {"HUMAN", "AI"}, round : Rounds]

ScanRows == [doc : Docs, pending : SUBSET Reqs]
ExcludeRows == [round : Rounds, target : Targets, doc : Docs, submitted : BOOLEAN]

Existing == {r \in Reqs : rstat[r] # "ABSENT"}
DraftRound == round + 1
NoLinks == [t \in Targets |-> [d \in Docs |-> "NONE"]]

Init ==                          \* create_collection
  /\ status = "DRAFT"
  /\ rstat \in [Reqs -> {"ABSENT", "PENDING"}]
  /\ Existing # {}
  /\ docs = [d \in Docs |-> "ABSENT"]
  /\ round = 0
  /\ draft = FALSE
  /\ links = [n \in Rounds |-> NoLinks]
  /\ manual = {}
  /\ run = [n \in Rounds |-> "NONE"]
  /\ last = [r \in Reqs |-> NoDecision]
  /\ scans = {}
  /\ excludes = {}

-----------------------------------------------------------------------------
(* Staff: preparing, publishing and cancelling the request.                   *)

(* A new requirement of a request in review is a follow-up: it returns the    *)
(* request to the client.                                                     *)
AddRequirement(r) ==
  /\ status \in {"DRAFT", "IN_REVIEW"}
  /\ rstat[r] = "ABSENT"
  /\ rstat' = [rstat EXCEPT ![r] = "PENDING"]
  /\ status' = IF status = "IN_REVIEW" THEN "CHANGES_REQUESTED" ELSE status
  /\ UNCHANGED <<portal, docs, run, last, scans, excludes>>

DeleteRequirement(r) ==
  /\ status = "DRAFT"
  /\ r \in Existing
  /\ Existing # {r}                       \* "Keep at least one requirement"
  /\ rstat' = [rstat EXCEPT ![r] = "ABSENT"]
  /\ UNCHANGED <<portal, status, docs, run, last, scans, excludes>>

Publish ==
  /\ status = "DRAFT"
  /\ Existing # {}
  /\ status' = "OPEN"
  /\ UNCHANGED <<portal, rstat, docs, run, last, scans, excludes>>

Cancel ==
  /\ status \in {"DRAFT", "OPEN", "IN_REVIEW", "CHANGES_REQUESTED"}
  /\ status' = "CANCELLED"
  /\ UNCHANGED <<portal, rstat, docs, run, last, scans, excludes>>

-----------------------------------------------------------------------------
(* Client portal: uploading, confirming a classification, removing, sending.  *)

EditableByRequest(t) == status \in PortalStatuses     \* mutant
Editable(t) ==
  \/ status = "OPEN"
  \/ /\ status = "CHANGES_REQUESTED"
     /\ t \in Reqs
     /\ rstat[t] \in Unreviewed \cup {"NEEDS_ACTION"}

(* The states an active row may give a pair whose rows are in state s.        *)
Attach(s) == CASE s = "NONE" -> {"ACTIVE"}
               [] s = "EXCLUDED" -> {"READDED", "SHADOWED"}
               [] OTHER -> {s}                     \* the active row is reused

(* The draft round is created by the first action that needs it.              *)
HasRoomForDraft == draft \/ round < MaxRounds

LinkTo(t, d) ==
  \E s \in Attach(links[DraftRound][t][d]) :
    links' = [links EXCEPT ![DraftRound][t][d] = s]

(* A new file, or one whose hash the client already has in QUARANTINED or     *)
(* AVAILABLE.                                                                 *)
Upload(t, d) ==
  /\ <<t, d>> \in Attachable
  /\ status \in PortalStatuses
  /\ t \in Existing \cup {Other}
  /\ Editable(t)
  /\ HasRoomForDraft
  /\ \/ docs[d] = "ABSENT" /\ docs' = [docs EXCEPT ![d] = "QUARANTINED"]
     \/ docs[d] \in {"QUARANTINED", "AVAILABLE"} /\ UNCHANGED docs
  /\ draft' = TRUE
  /\ LinkTo(t, d)
  /\ UNCHANGED <<status, rstat, round, manual, run, last, scans, excludes>>

(* A file staged in a classification run of this request, or uploaded for     *)
(* another request of the client: a document without a link here.             *)
StageDocument(d) ==
  /\ docs[d] = "ABSENT"
  /\ docs' = [docs EXCEPT ![d] = "QUARANTINED"]
  /\ UNCHANGED <<portal, status, rstat, run, last, scans, excludes>>

(* confirm_run: the client's choice of a target for each staged document that *)
(* is not INVALID; choice is a nonempty set of <<target, document>> pairs.    *)
ConfirmClassification(choice) ==
  /\ choice # {}
  /\ choice \subseteq Attachable
  /\ \A p, q \in choice : p[2] = q[2] => p = q
  /\ status \in PortalStatuses
  /\ \A p \in choice : /\ p[1] \in Existing \cup {Other}
                       /\ Editable(p[1])
                       /\ docs[p[2]] = "AVAILABLE"
  /\ HasRoomForDraft
  /\ draft' = TRUE
  /\ \E new \in [choice -> LinkStates] :
       /\ \A p \in choice : new[p] \in Attach(links[DraftRound][p[1]][p[2]])
       /\ links' = [links EXCEPT ![DraftRound] =
            [t \in Targets |-> [d \in Docs |->
               IF <<t, d>> \in choice THEN new[<<t, d>>]
               ELSE links[DraftRound][t][d]]]]
  /\ rstat' = [r \in Reqs |->
       IF rstat[r] = "PENDING" /\ \E p \in choice : p[1] = r
       THEN "RECEIVED" ELSE rstat[r]]
  /\ UNCHANGED <<status, docs, round, manual, run, last, scans, excludes>>

(* exclude_document, first part: _load_link reads the link, active or already *)
(* excluded, and its submission without a lock.                               *)
ExcludeRead(n, t, d) ==
  /\ Cardinality(excludes) < MaxExcludes
  /\ n \in 1..(IF draft THEN DraftRound ELSE round)
  /\ links[n][t][d] # "NONE"
  /\ excludes' = excludes \cup
       {[round |-> n, target |-> t, doc |-> d, submitted |-> n <= round]}
  /\ UNCHANGED <<portal, status, rstat, docs, run, last, scans>>

ExcludeAllowedAtRead(t) == status # "DRAFT"     \* mutant: checked too early
ExcludeAllowed(t) == status \in PortalStatuses /\ Editable(t)

(* The states an exclusion may leave behind; when an active and an excluded   *)
(* row exist, the row it finds may be the one already excluded.               *)
Exclude(s) == CASE s \in {"NONE", "ACTIVE", "EXCLUDED"} -> {"EXCLUDED"}
                [] OTHER -> {s, "EXCLUDED"}

(* Second part, under the request's lock.  The status of the submission is    *)
(* the one that was READ: DRAFT excludes the row in place, SUBMITTED leaves   *)
(* an excluded row in the draft round.                                        *)
ExcludeLock(e) ==
  /\ e \in excludes
  /\ excludes' = excludes \ {e}
  /\ \/ /\ ~ExcludeAllowed(e.target)
        /\ UNCHANGED <<links, draft>>
     \/ /\ ExcludeAllowed(e.target)
        /\ ~e.submitted
        /\ \E s \in Exclude(links[e.round][e.target][e.doc]) :
             links' = [links EXCEPT ![e.round][e.target][e.doc] = s]
        /\ UNCHANGED draft
     \/ /\ ExcludeAllowed(e.target)
        /\ e.submitted
        /\ HasRoomForDraft
        /\ draft' = TRUE
        /\ \E s \in Exclude(links[DraftRound][e.target][e.doc]) :
             links' = [links EXCEPT ![DraftRound][e.target][e.doc] = s]
  /\ UNCHANGED <<status, rstat, docs, round, manual, run, last, scans>>

(* The newest row of a target and document in rounds 1..m is not excluded.    *)
EffectivelyActive(m, t, d) ==
  \E n \in 1..m : /\ links[n][t][d] \in NewestActive
                  /\ \A k \in (n + 1)..m : links[k][t][d] = "NONE"

CarryStatuses(manually) ==
  Unreviewed \cup (IF manually THEN {"NEEDS_ACTION"} ELSE {})

Carried(manually, t, d) ==
  /\ status = "CHANGES_REQUESTED"
  /\ t \in Existing
  /\ rstat[t] \in CarryStatuses(manually)
  /\ docs[d] = "AVAILABLE"
  /\ links[DraftRound][t][d] = "NONE"
  /\ EffectivelyActive(round, t, d)

(* The draft's rows after _carry_unreviewed_documents.                        *)
CarriedLinks(manually) ==
  [t \in Targets |-> [d \in Docs |->
     IF Carried(manually, t, d) THEN "ACTIVE" ELSE links[DraftRound][t][d]]]

(* Documents the draft counts that the scanner still has.                     *)
ProcessingRequired(rows) ==                          \* mutant: required items only
  {d \in Docs : docs[d] = "QUARANTINED"
                /\ \E t \in Required : rows[t][d] \in ActiveLink}
Processing(rows) ==
  {d \in Docs : docs[d] = "QUARANTINED"
                /\ \E t \in Targets : rows[t][d] \in ActiveLink}

Uploaded(rows) ==                                    \* mutant: failed files count
  {t \in Targets : \E d \in Docs : rows[t][d] \in ActiveLink}
Present(rows) ==
  {t \in Targets : \E d \in Docs : rows[t][d] \in ActiveLink
                                   /\ docs[d] = "AVAILABLE"}

Missing(rows) ==
  {r \in Required \cap Existing : rstat[r] \notin Settled} \ Present(rows)

(* _manual_review_available: the AI returned the latest submitted round (such *)
(* a decision stays the newest one until the next round is submitted).        *)
ManualAvailable ==
  /\ status = "CHANGES_REQUESTED"
  /\ \E r \in Reqs : /\ last[r].round = round
                     /\ last[r].source = "AI"
                     /\ last[r].decision = "REQUEST_ACTION"

(* Files of the review snapshot of round m, given that round's rows.          *)
ReviewFiles(m, rows) ==
  {d \in Docs : /\ docs[d] = "AVAILABLE"
                /\ \E t \in Targets :
                     \/ rows[t][d] \in NewestActive
                     \/ rows[t][d] = "NONE" /\ EffectivelyActive(m - 1, t, d)}

(* enqueue_review: the status of the new run of round m, "NONE" for no run.   *)
EnqueuedRun(m, rows, manually) ==
  IF AIMode = "OFF" \/ manually THEN "NONE"
  ELSE IF Cardinality(ReviewFiles(m, rows)) > ReviewLimit THEN "FAILED"
  ELSE "LIVE"

Submit(manually) ==
  LET rows == CarriedLinks(manually) IN
  /\ status \in PortalStatuses
  /\ manually => ManualAvailable
  /\ draft \/ manually
  /\ round < MaxRounds
  /\ Processing(rows) = {}
  /\ Missing(rows) = {}
  /\ links' = [links EXCEPT ![DraftRound] = rows]
  /\ draft' = FALSE
  /\ round' = round + 1
  /\ manual' = IF manually THEN manual \cup {DraftRound} ELSE manual
  /\ rstat' = [r \in Reqs |->
       IF r \in Existing \cap Present(rows) /\ rstat[r] \notin Settled
       THEN "RECEIVED" ELSE rstat[r]]
  /\ status' = "IN_REVIEW"
  /\ run' = [run EXCEPT ![DraftRound] =
               EnqueuedRun(DraftRound, rows, manually)]
  /\ UNCHANGED <<docs, last, scans, excludes>>

-----------------------------------------------------------------------------
(* Document worker.  One scan per document at a time (the lease).             *)

ScanFailed(d) ==
  /\ docs[d] = "QUARANTINED"
  /\ \A s \in scans : s.doc # d
  /\ docs' = [docs EXCEPT ![d] = "FAILED"]
  /\ UNCHANGED <<portal, status, rstat, run, last, scans, excludes>>

(* _finish reads the document, its links and the requirements to move on.     *)
ScanRead(d) ==
  /\ docs[d] = "QUARANTINED"
  /\ \A s \in scans : s.doc # d
  /\ scans' = scans \cup
       {[doc |-> d,
         pending |-> {r \in Existing : /\ rstat[r] = "PENDING"
                                       /\ \E n \in Rounds :
                                            links[n][r][d] \in ActiveLink}]}
  /\ UNCHANGED <<portal, status, rstat, docs, run, last, excludes>>

(* The version check of Requirement: nobody wrote the rows since the read.    *)
UnchangedOrNot(pending) == TRUE                      \* mutant: no version check
Unchanged(pending) == \A r \in pending : rstat[r] = "PENDING"

(* Commit, or a StaleDataError that rolls back and leaves the document for    *)
(* another attempt (ScanRead) or the last failure (ScanFailed).               *)
ScanCommit(s) ==
  /\ s \in scans
  /\ scans' = scans \ {s}
  /\ \/ /\ Unchanged(s.pending)
        /\ docs' = [docs EXCEPT ![s.doc] = "AVAILABLE"]
        /\ rstat' = [r \in Reqs |->
             IF r \in s.pending THEN "RECEIVED" ELSE rstat[r]]
     \/ ~Unchanged(s.pending) /\ UNCHANGED <<docs, rstat>>
  /\ UNCHANGED <<portal, status, run, last, excludes>>

-----------------------------------------------------------------------------
(* AI review worker: what becomes of a live run (process_review).             *)

(* The run fails: attempts exhausted, an invalid answer, or INVALID_EVIDENCE. *)
ReviewFailed(n) ==
  /\ run[n] = "LIVE"
  /\ run' = [run EXCEPT ![n] = "FAILED"]
  /\ UNCHANGED <<portal, status, rstat, docs, last, scans, excludes>>

NotInReview(n) == status # "IN_REVIEW"               \* mutant: any round's run
SupersededByFirst(n) == status # "IN_REVIEW" \/ n # 1 \* mutant: oldest round
Superseded(n) == status # "IN_REVIEW" \/ n # round

ReviewSuperseded(n) ==
  /\ run[n] = "LIVE"
  /\ Superseded(n)
  /\ run' = [run EXCEPT ![n] = "CANCELLED"]
  /\ UNCHANGED <<portal, status, rstat, docs, last, scans, excludes>>

(* What the answer suggests for a requirement; MANUAL stands for NEEDS_REVIEW *)
(* and for a suggestion that the checks gave a manual reason.                 *)
Suggestions == {"SATISFY", "REQUEST_ACTION", "MANUAL"}

Suggested(finding, r) ==                             \* mutant: decided items too
  AIMode = "AUTO_REVIEW" /\ finding[r] # "MANUAL"
CanApply(finding, r) ==
  /\ AIMode = "AUTO_REVIEW"
  /\ finding[r] # "MANUAL"
  /\ rstat[r] \in Unreviewed

(* An accepted answer covers every requirement of the request.                *)
ReviewSucceeded(n, finding) ==
  LET applied == {r \in Existing : CanApply(finding, r)}
      returned == {r \in applied : finding[r] = "REQUEST_ACTION"} IN
  /\ run[n] = "LIVE"
  /\ ~Superseded(n)
  /\ run' = [run EXCEPT ![n] = "SUCCEEDED"]
  /\ rstat' = [r \in Reqs |->
       IF r \in applied THEN StatusOf[finding[r]] ELSE rstat[r]]
  /\ last' = [r \in Reqs |->
       IF r \in applied
       THEN [decision |-> finding[r], source |-> "AI", round |-> n]
       ELSE last[r]]
  /\ status' = IF returned # {} THEN "CHANGES_REQUESTED" ELSE status
  /\ UNCHANGED <<portal, docs, scans, excludes>>

-----------------------------------------------------------------------------
(* Staff: reviewing a submitted round.                                        *)

RetryReview(n) ==
  /\ status = "IN_REVIEW"
  /\ AIMode # "OFF"
  /\ n = round
  /\ run[n] = "FAILED"
  /\ run' = [run EXCEPT ![n] =
               EnqueuedRun(n, links[n], n \in manual)]
  /\ UNCHANGED <<portal, status, rstat, docs, last, scans, excludes>>

(* A decision may cite any submitted round n.                                 *)
ReviewRequirement(r, decision, n) ==
  /\ status = "IN_REVIEW"
  /\ r \in Existing
  /\ n \in 1..round
  /\ rstat' = [rstat EXCEPT ![r] = StatusOf[decision]]
  /\ last' = [last EXCEPT ![r] =
       [decision |-> decision, source |-> "HUMAN", round |-> n]]
  /\ UNCHANGED <<portal, status, docs, run, scans, excludes>>

UnreviewedRequirements == {r \in Existing : rstat[r] \notin Reviewed}

AnyRequirement == Existing                           \* mutant: nothing to do
ActionRequired == {r \in Existing : rstat[r] = "NEEDS_ACTION"}

RequestChanges ==
  /\ status = "IN_REVIEW"
  /\ UnreviewedRequirements = {}
  /\ ActionRequired # {}
  /\ status' = "CHANGES_REQUESTED"
  /\ UNCHANGED <<portal, rstat, docs, run, last, scans, excludes>>

IncompleteRequired ==                                \* mutant: required items only
  {r \in Required \cap Existing : rstat[r] \notin Settled}
Incomplete == {r \in Existing : rstat[r] \notin Settled}

Approve ==
  /\ status = "IN_REVIEW"
  /\ Incomplete = {}
  /\ status' = "READY_FOR_BOOKKEEPING"
  /\ UNCHANGED <<portal, rstat, docs, run, last, scans, excludes>>

Reopen ==
  /\ status = "READY_FOR_BOOKKEEPING"
  /\ status' = "IN_REVIEW"
  /\ UNCHANGED <<portal, rstat, docs, run, last, scans, excludes>>

-----------------------------------------------------------------------------

StaffNext ==
  \/ \E r \in Reqs : AddRequirement(r)
  \/ \E r \in Reqs : DeleteRequirement(r)
  \/ Publish
  \/ Cancel
  \/ \E n \in Rounds : RetryReview(n)
  \/ \E r \in Reqs, decision \in Decisions, n \in Rounds :
       ReviewRequirement(r, decision, n)
  \/ RequestChanges
  \/ Approve
  \/ Reopen

PortalNext ==
  \/ \E t \in Targets, d \in Docs : Upload(t, d)
  \/ \E d \in Docs : StageDocument(d)
  \/ \E choice \in SUBSET Attachable : ConfirmClassification(choice)
  \/ \E n \in Rounds, t \in Targets, d \in Docs : ExcludeRead(n, t, d)
  \/ \E e \in excludes : ExcludeLock(e)
  \/ \E manually \in BOOLEAN : Submit(manually)

WorkerNext ==
  \/ \E d \in Docs : ScanFailed(d)
  \/ \E d \in Docs : ScanRead(d)
  \/ \E s \in scans : ScanCommit(s)
  \/ \E n \in Rounds : ReviewFailed(n)
  \/ \E n \in Rounds : ReviewSuperseded(n)
  \/ \E n \in Rounds, finding \in [Reqs -> Suggestions] :
       ReviewSucceeded(n, finding)

Next == StaffNext \/ PortalNext \/ WorkerNext

Spec == Init /\ [][Next]_vars

-----------------------------------------------------------------------------
(* Properties.                                                                *)

(* Every variable keeps to the values the columns' check constraints allow.   *)
TypeOK ==
  /\ status \in RequestStatuses
  /\ rstat \in [Reqs -> RequirementStatuses]
  /\ docs \in [Docs -> DocumentStatuses]
  /\ round \in 0..MaxRounds
  /\ draft \in BOOLEAN
  /\ links \in [Rounds -> [Targets -> [Docs -> LinkStates]]]
  /\ manual \subseteq Rounds
  /\ run \in [Rounds -> RunStatuses]
  /\ last \in [Reqs -> DecisionRows \cup {NoDecision}]
  /\ scans \subseteq ScanRows
  /\ excludes \subseteq ExcludeRows

AllSettled == \A r \in Reqs : rstat[r] \in Settled \cup {"ABSENT"}

(* An approved request has no open requirement: no interleaving of follow-ups,*)
(* late AI answers, document scans and withdrawn approvals gets around the    *)
(* check of approve.                                                          *)
ReadyMeansSettled == status = "READY_FOR_BOOKKEEPING" => AllSettled

(* While a request is in review or approved, no draft round is open beside    *)
(* the submitted one: uploads and removals racing a submission never leave a  *)
(* draft that nobody can send.                                                *)
ReviewHasNoDraft ==
  status \in {"IN_REVIEW", "READY_FOR_BOOKKEEPING"} => ~draft /\ round > 0

(* A required item that staff or the AI still has to look at is backed by a   *)
(* scanned document of the round under review, however the round came about   *)
(* (new files, files carried forward, removals, re-added files).              *)
UnreviewedIsBacked ==
  status = "IN_REVIEW" =>
    \A r \in Required \cap Existing :
      rstat[r] \in Unreviewed =>
        \E d \in Docs : links[round][r][d] \in ActiveLink /\ docs[d] = "AVAILABLE"

(* No submitted round counts a document the scanner has not released or       *)
(* rejected.                                                                  *)
SubmittedIsScanned ==
  \A n \in 1..round, t \in Targets, d \in Docs :
    links[n][t][d] \in ActiveLink => docs[d] \in {"AVAILABLE", "FAILED"}

(* The status of a requirement is what its newest decision row says: a        *)
(* reviewed one shows that decision, and one shown as open was never accepted *)
(* or waived by it.  Staff, the AI, submissions and scans all write it.       *)
StatusFollowsDecision ==
  \A r \in Existing :
    IF rstat[r] \in Reviewed
    THEN last[r].decision \in Decisions /\ rstat[r] = StatusOf[last[r].decision]
    ELSE last[r].decision \in {"NONE", "REQUEST_ACTION"}

(* An accepted or waived requirement only changes by a new decision of a      *)
(* person, in a review, and to what it says: no scan result, AI answer or new *)
(* submission undoes it, not even one that a person accepted before.          *)
AcceptedStands ==
  [][\A r \in Reqs : rstat[r] \in Settled /\ rstat'[r] # rstat[r] =>
       /\ status = "IN_REVIEW"
       /\ last'[r] # last[r]
       /\ last'[r].source = "HUMAN"
       /\ rstat'[r] = StatusOf[last'[r].decision]]_vars

(* The AI decides on the round under review and on nothing a person, or an    *)
(* earlier AI answer, has decided since that round was submitted.             *)
AIDecidesCurrentRound ==
  [][\A r \in Reqs : last'[r] # last[r] /\ last'[r].source = "AI" =>
       /\ status = "IN_REVIEW"
       /\ last'[r].round = round
       /\ round \notin manual
       /\ rstat[r] \in Unreviewed]_vars

(* Documents of an accepted requirement are neither added nor removed: "This  *)
(* requirement cannot be changed".                                            *)
AcceptedEvidenceFrozen ==
  [][\A r \in Reqs : rstat[r] \in Settled =>
       \A n \in Rounds : links'[n][r] = links[n][r]]_vars

(* Documents only change while the client may edit, never in a review, and    *)
(* those of a submitted round in one way only: a removal that had read the    *)
(* round as a draft, and locks the request when it is back with the client,   *)
(* excludes its document.                                                     *)
SubmittedEvidenceFrozen ==
  [][\A n \in Rounds, t \in Targets, d \in Docs :
       links'[n][t][d] # links[n][t][d] =>
         /\ status \in PortalStatuses
         /\ n <= round =>
              /\ [round |-> n, target |-> t, doc |-> d, submitted |-> FALSE]
                   \in excludes \ excludes'
              /\ links'[n][t][d] = "EXCLUDED"]_vars

(* Every submitted round keeps its documents: "Submitted documents cannot be  *)
(* removed" (app/api/portal.py, exclude_document).                            *)
SubmittedRoundImmutable ==
  [][\A n \in 1..round : links'[n] = links[n]]_vars

(* A review shown as failed can be tried again (app/api/review.py,            *)
(* retry_review; collection_review_status shows FAILED and CANCELLED runs as  *)
(* AI_FAILED).                                                                *)
ReviewStatus ==
  IF status # "IN_REVIEW" THEN "NONE"
  ELSE CASE run[round] = "LIVE" -> "PROCESSING"
         [] run[round] = "SUCCEEDED" -> "AI_DONE"
         [] run[round] \in {"FAILED", "CANCELLED"} -> "AI_FAILED"
         [] OTHER -> "AWAITING_ACCOUNTANT"

FailedReviewCanBeRetried == ReviewStatus = "AI_FAILED" => run[round] = "FAILED"

(* Unreviewed material is carried forward: a scanned document of the latest   *)
(* round that the client has not removed since is part of the next round      *)
(* (tests/test_portal.py, "unreviewed material is ... carried forward").      *)
UnreviewedIsCarried ==
  [][round' # round /\ round > 0 =>
       \A r \in Existing, d \in Docs :
         /\ rstat[r] \in Unreviewed
         /\ docs[d] = "AVAILABLE"
         /\ links[round][r][d] \in ActiveLink
         /\ links[round + 1][r][d] = "NONE"
         => links'[round + 1][r][d] \in ActiveLink]_vars

(* What the next round loses of it is a re-added file whose removal sorts     *)
(* behind it, and nothing else, however the request came back to the client.  *)
OnlyShadowedIsLost ==
  [][round' # round /\ round > 0 =>
       \A r \in Existing, d \in Docs :
         /\ rstat[r] \in Unreviewed
         /\ docs[d] = "AVAILABLE"
         /\ links[round][r][d] \in ActiveLink
         /\ links[round + 1][r][d] = "NONE"
         /\ links'[round + 1][r][d] \notin ActiveLink
         => links[round][r][d] = "SHADOWED"]_vars

(* The only way to a review that is shown as failed and cannot be tried again *)
(* is a withdrawn approval.                                                   *)
Stranded == ReviewStatus = "AI_FAILED" /\ run[round] # "FAILED"

StrandedByReopen ==
  [][~Stranded /\ Stranded' => status = "READY_FOR_BOOKKEEPING"]_vars

(* The inductive invariant: the invariants above and what they rest on.  A    *)
(* request being prepared has no reviewed item, no document and nothing for a *)
(* scan to write; undecided items have no decision row; every active link has *)
(* its document; a draft round fits the bound; a round that asked for a       *)
(* person was submitted and has no run.                                       *)
DraftIsUntouched ==
  status = "DRAFT" =>
    /\ \A r \in Reqs : rstat[r] \in {"ABSENT", "PENDING"}
    /\ \A n \in Rounds : links[n] = NoLinks
    /\ \A s \in scans : s.pending = {}

OpenIsUnreviewed ==
  status = "OPEN" => \A r \in Reqs : rstat[r] \in Unreviewed \cup {"ABSENT"}

UndecidedHasNoDecision ==
  \A r \in Reqs : rstat[r] \in {"ABSENT", "PENDING"} => last[r] = NoDecision

LinkedDocumentExists ==
  \A n \in Rounds, t \in Targets, d \in Docs :
    links[n][t][d] \in ActiveLink => docs[d] # "ABSENT"

ManualRoundHasNoRun == \A n \in manual : n <= round /\ run[n] = "NONE"

DraftFits == draft => round < MaxRounds

IInv ==
  /\ TypeOK
  /\ Existing # {}
  /\ DraftFits
  /\ DraftIsUntouched
  /\ OpenIsUnreviewed
  /\ UndecidedHasNoDecision
  /\ LinkedDocumentExists
  /\ ManualRoundHasNoRun
  /\ ReadyMeansSettled
  /\ ReviewHasNoDraft
  /\ UnreviewedIsBacked
  /\ SubmittedIsScanned
  /\ StatusFollowsDecision

(* The request implements the lifecycle it promises.                          *)
Lifecycle == INSTANCE RequestLifecycle WITH
  status <- status, round <- round, settled <- AllSettled

LifecycleSpec == Lifecycle!Spec

=============================================================================
