-------------------------- MODULE CollectionProofs --------------------------
(* Proofs about Collection, for every set of requirements and documents, every *)
(* number of rounds and every ai_mode: the inductive invariant IInv, the safety*)
(* invariants and action properties that follow from it, and the refinement of *)
(* RequestLifecycle.                                                           *)
EXTENDS Collection, TLAPS

(* The small sets of statuses are always visible to the provers.              *)
USE DEF portal, Existing, Unreviewed, Settled, Reviewed

-----------------------------------------------------------------------------
(* A new request satisfies the invariant.                                     *)
LEMMA InitInv == ASSUME Init PROVE IInv
<1> USE CollectionAssumption DEF Init
<1>1. TypeOK
  <2>1. status \in RequestStatuses /\ round \in 0..MaxRounds
    BY DEF RequestStatuses
  <2>8. draft \in BOOLEAN
    BY Zenon
  <2>2. rstat \in [Reqs -> RequirementStatuses]
    BY DEF RequirementStatuses
  <2>3. docs \in [Docs -> DocumentStatuses]
    BY DEF DocumentStatuses
  <2>4. links \in [Rounds -> [Targets -> [Docs -> LinkStates]]]
    BY DEF LinkStates, NoLinks
  <2>5. run \in [Rounds -> RunStatuses]
    BY DEF RunStatuses
  <2>6. last \in [Reqs -> DecisionRows \cup {NoDecision}]
    OBVIOUS
  <2>7. QED  BY <2>1, <2>2, <2>3, <2>4, <2>5, <2>6, <2>8 DEF TypeOK
<1>2. UndecidedHasNoDecision /\ StatusFollowsDecision
  BY DEF UndecidedHasNoDecision, StatusFollowsDecision, NoDecision
<1>3. LinkedDocumentExists /\ SubmittedIsScanned
  BY DEF LinkedDocumentExists, SubmittedIsScanned, NoLinks, ActiveLink, Rounds
<1>4. DraftFits /\ DraftIsUntouched /\ OpenIsUnreviewed /\ ManualRoundHasNoRun
  BY DEF DraftFits, DraftIsUntouched, OpenIsUnreviewed, ManualRoundHasNoRun
<1>5. ReadyMeansSettled /\ ReviewHasNoDraft /\ UnreviewedIsBacked
  BY DEF ReadyMeansSettled, ReviewHasNoDraft, UnreviewedIsBacked
<1>6. QED  BY <1>1, <1>2, <1>3, <1>4, <1>5 DEF IInv

-----------------------------------------------------------------------------
(* Staff actions that only move the status.                                   *)
LEMMA PublishInv == ASSUME IInv, Publish PROVE IInv'
BY DEF IInv, Publish, TypeOK, RequestStatuses, DraftFits, DraftIsUntouched,
  OpenIsUnreviewed, UndecidedHasNoDecision, LinkedDocumentExists,
  ManualRoundHasNoRun, ReadyMeansSettled, ReviewHasNoDraft,
  UnreviewedIsBacked, SubmittedIsScanned, StatusFollowsDecision

LEMMA CancelInv == ASSUME IInv, Cancel PROVE IInv'
BY DEF IInv, Cancel, TypeOK, RequestStatuses, DraftFits,
  DraftIsUntouched, OpenIsUnreviewed, UndecidedHasNoDecision,
  LinkedDocumentExists, ManualRoundHasNoRun, ReadyMeansSettled,
  ReviewHasNoDraft, UnreviewedIsBacked, SubmittedIsScanned,
  StatusFollowsDecision

LEMMA RequestChangesInv == ASSUME IInv, RequestChanges PROVE IInv'
BY DEF IInv, RequestChanges, TypeOK, RequestStatuses, DraftFits,
  DraftIsUntouched, OpenIsUnreviewed, UndecidedHasNoDecision,
  LinkedDocumentExists, ManualRoundHasNoRun, ReadyMeansSettled,
  ReviewHasNoDraft, UnreviewedIsBacked, SubmittedIsScanned,
  StatusFollowsDecision

(* Approval is where the incomplete requirements are looked at.               *)
LEMMA ApproveInv == ASSUME IInv, Approve PROVE IInv'
BY DEF IInv, Approve, Incomplete, AllSettled, TypeOK, RequestStatuses,
  DraftFits, DraftIsUntouched, OpenIsUnreviewed, UndecidedHasNoDecision,
  LinkedDocumentExists, ManualRoundHasNoRun, ReadyMeansSettled,
  ReviewHasNoDraft, UnreviewedIsBacked, SubmittedIsScanned,
  StatusFollowsDecision

(* A reopened request has no unreviewed requirement: all were settled.        *)
LEMMA ReopenInv == ASSUME IInv, Reopen PROVE IInv'
BY DEF IInv, Reopen, AllSettled, TypeOK, RequestStatuses, DraftFits,
  DraftIsUntouched, OpenIsUnreviewed, UndecidedHasNoDecision,
  LinkedDocumentExists, ManualRoundHasNoRun, ReadyMeansSettled,
  ReviewHasNoDraft, UnreviewedIsBacked, SubmittedIsScanned,
  StatusFollowsDecision

-----------------------------------------------------------------------------
(* Staff actions on requirements.                                             *)
LEMMA AddRequirementInv ==
  ASSUME IInv, NEW r \in Reqs, AddRequirement(r) PROVE IInv'
<1> USE DEF IInv, AddRequirement, TypeOK
<1>1. TypeOK'
  BY DEF RequestStatuses, RequirementStatuses
<1>2. Existing' # {}
  OBVIOUS
<1>3. UndecidedHasNoDecision' /\ StatusFollowsDecision'
  BY DEF UndecidedHasNoDecision, StatusFollowsDecision, NoDecision
<1>4. DraftFits' /\ DraftIsUntouched' /\ OpenIsUnreviewed' /\ ManualRoundHasNoRun'
  BY DEF DraftFits, DraftIsUntouched, OpenIsUnreviewed, ManualRoundHasNoRun,
         RequestStatuses
<1>5. LinkedDocumentExists' /\ SubmittedIsScanned'
  BY DEF LinkedDocumentExists, SubmittedIsScanned
<1>6. ReadyMeansSettled' /\ ReviewHasNoDraft' /\ UnreviewedIsBacked'
  BY DEF ReadyMeansSettled, ReviewHasNoDraft, UnreviewedIsBacked
<1>7. QED  BY <1>1, <1>2, <1>3, <1>4, <1>5, <1>6

LEMMA DeleteRequirementInv ==
  ASSUME IInv, NEW r \in Reqs, DeleteRequirement(r) PROVE IInv'
<1> USE DEF IInv, DeleteRequirement, TypeOK
<1>1. TypeOK'
  BY DEF RequirementStatuses
<1>2. Existing' # {}
  OBVIOUS
<1>3. UndecidedHasNoDecision' /\ StatusFollowsDecision'
  BY DEF UndecidedHasNoDecision, StatusFollowsDecision, DraftIsUntouched
<1>4. DraftFits' /\ DraftIsUntouched' /\ OpenIsUnreviewed' /\ ManualRoundHasNoRun'
  BY DEF DraftFits, DraftIsUntouched, OpenIsUnreviewed, ManualRoundHasNoRun
<1>5. LinkedDocumentExists' /\ SubmittedIsScanned'
  BY DEF LinkedDocumentExists, SubmittedIsScanned
<1>6. ReadyMeansSettled' /\ ReviewHasNoDraft' /\ UnreviewedIsBacked'
  BY DEF ReadyMeansSettled, ReviewHasNoDraft, UnreviewedIsBacked
<1>7. QED  BY <1>1, <1>2, <1>3, <1>4, <1>5, <1>6

(* A person's decision: the status and the decision row are written together. *)
LEMMA ReviewRequirementInv ==
  ASSUME IInv, NEW r \in Reqs, NEW decision \in Decisions, NEW n \in Rounds,
         ReviewRequirement(r, decision, n)
  PROVE  IInv'
<1> USE DEF IInv, ReviewRequirement, TypeOK
<1>0. StatusOf[decision] \in Reviewed
  BY DEF StatusOf, Decisions
<1>1. TypeOK'
  BY <1>0 DEF RequirementStatuses, DecisionRows
<1>2. Existing' # {}
  BY <1>0
<1>3. UndecidedHasNoDecision' /\ StatusFollowsDecision'
  BY <1>0 DEF UndecidedHasNoDecision, StatusFollowsDecision
<1>4. DraftFits' /\ DraftIsUntouched' /\ OpenIsUnreviewed' /\ ManualRoundHasNoRun'
  BY DEF DraftFits, DraftIsUntouched, OpenIsUnreviewed, ManualRoundHasNoRun
<1>5. LinkedDocumentExists' /\ SubmittedIsScanned'
  BY DEF LinkedDocumentExists, SubmittedIsScanned
<1>6. ReadyMeansSettled' /\ ReviewHasNoDraft' /\ UnreviewedIsBacked'
  BY <1>0 DEF ReadyMeansSettled, ReviewHasNoDraft, UnreviewedIsBacked
<1>7. QED  BY <1>1, <1>2, <1>3, <1>4, <1>5, <1>6

(* A retry gives a run to a round that has a failed one, so not to a manual   *)
(* round.                                                                     *)
LEMMA RetryReviewInv == ASSUME IInv, NEW n \in Rounds, RetryReview(n) PROVE IInv'
<1> USE DEF IInv, RetryReview, TypeOK
<1>1. EnqueuedRun(n, links[n], n \in manual) \in RunStatuses
  BY DEF EnqueuedRun, RunStatuses
<1>2. TypeOK'
  BY <1>1
<1>3. ManualRoundHasNoRun'
  BY DEF ManualRoundHasNoRun
<1>4. QED
  BY <1>2, <1>3 DEF DraftFits, DraftIsUntouched, OpenIsUnreviewed,
    UndecidedHasNoDecision, LinkedDocumentExists, ReadyMeansSettled, AllSettled,
    ReviewHasNoDraft, UnreviewedIsBacked, SubmittedIsScanned,
    StatusFollowsDecision

-----------------------------------------------------------------------------
(* Client portal.                                                             *)
LEMMA StageDocumentInv ==
  ASSUME IInv, NEW d \in Docs, StageDocument(d) PROVE IInv'
<1> USE DEF IInv, StageDocument, TypeOK
<1>1. TypeOK'
  BY DEF DocumentStatuses
<1>2. LinkedDocumentExists' /\ SubmittedIsScanned'
  BY DEF LinkedDocumentExists, SubmittedIsScanned
<1>3. UnreviewedIsBacked'
  BY DEF UnreviewedIsBacked
<1>4. QED
  BY <1>1, <1>2, <1>3 DEF DraftFits, DraftIsUntouched, OpenIsUnreviewed,
    UndecidedHasNoDecision, ManualRoundHasNoRun, ReadyMeansSettled, AllSettled,
    ReviewHasNoDraft, StatusFollowsDecision

(* The draft round is a round, and no submitted one.                          *)
LEMMA DraftRoundIsNew ==
  ASSUME TypeOK, DraftFits, HasRoomForDraft
  PROVE  DraftRound \in Rounds /\ \A n \in 1..round : n # DraftRound
BY CollectionAssumption DEF TypeOK, DraftFits, HasRoomForDraft, DraftRound, Rounds

(* Attaching a document leaves one active row.                                *)
LEMMA AttachIsActive ==
  ASSUME NEW old \in LinkStates, NEW s \in Attach(old)
  PROVE  s \in LinkStates /\ s \in ActiveLink
BY DEF Attach, LinkStates, ActiveLink

(* Excluding makes no row active.                                             *)
LEMMA ExcludeIsNotActive ==
  ASSUME NEW old \in LinkStates, NEW s \in Exclude(old)
  PROVE  s \in LinkStates /\ (s \in ActiveLink => s = old)
BY DEF Exclude, LinkStates, ActiveLink

LEMMA UploadInv ==
  ASSUME IInv, NEW t \in Targets, NEW d \in Docs, Upload(t, d) PROVE IInv'
<1> USE DEF IInv, TypeOK
<1>1. DraftRound \in Rounds /\ \A n \in 1..round : n # DraftRound
  BY DraftRoundIsNew DEF Upload
<1>2. PICK s \in Attach(links[DraftRound][t][d]) :
        links' = [links EXCEPT ![DraftRound][t][d] = s]
  BY DEF Upload, LinkTo
<1>3. s \in LinkStates
  BY <1>1, <1>2, AttachIsActive
<1>4. docs' \in [Docs -> DocumentStatuses]
      /\ docs'[d] # "ABSENT"
      /\ \A e \in Docs : docs[e] # "ABSENT" => docs'[e] = docs[e]
  BY DEF Upload, DocumentStatuses
<1>5. status \in PortalStatuses
      /\ UNCHANGED <<status, rstat, round, manual, run, last, scans, excludes>>
      /\ draft' = TRUE /\ HasRoomForDraft
  BY DEF Upload
<1>6. TypeOK'
  BY <1>1, <1>2, <1>3, <1>4, <1>5
<1>7. LinkedDocumentExists'
  BY <1>1, <1>2, <1>4 DEF LinkedDocumentExists
<1>8. SubmittedIsScanned'
  <2> SUFFICES ASSUME NEW n \in 1..round, NEW u \in Targets, NEW e \in Docs,
                      links'[n][u][e] \in ActiveLink
               PROVE  docs'[e] \in {"AVAILABLE", "FAILED"}
    BY <1>5 DEF SubmittedIsScanned
  <2>1. n \in Rounds /\ links'[n] = links[n]
    BY <1>1, <1>2, CollectionAssumption DEF Rounds
  <2>2. QED  BY <2>1, <1>4 DEF SubmittedIsScanned
<1>9. DraftFits' /\ ReviewHasNoDraft' /\ UnreviewedIsBacked' /\ DraftIsUntouched'
      /\ ReadyMeansSettled'
  BY <1>5, <1>1 DEF DraftFits, ReviewHasNoDraft, UnreviewedIsBacked,
    DraftIsUntouched, PortalStatuses, DraftRound, Rounds, ReadyMeansSettled,
    HasRoomForDraft
<1>10. QED
  BY <1>5, <1>6, <1>7, <1>8, <1>9 DEF OpenIsUnreviewed, UndecidedHasNoDecision,
    ManualRoundHasNoRun, StatusFollowsDecision

LEMMA ConfirmClassificationInv ==
  ASSUME IInv, NEW choice \in SUBSET Attachable, ConfirmClassification(choice)
  PROVE  IInv'
<1> USE DEF IInv, TypeOK
<1>1. DraftRound \in Rounds /\ \A n \in 1..round : n # DraftRound
  BY DraftRoundIsNew DEF ConfirmClassification
<1>2. PICK new \in [choice -> LinkStates] :
        /\ \A p \in choice : new[p] \in Attach(links[DraftRound][p[1]][p[2]])
        /\ links' = [links EXCEPT ![DraftRound] =
             [t \in Targets |-> [d \in Docs |->
                IF <<t, d>> \in choice THEN new[<<t, d>>]
                ELSE links[DraftRound][t][d]]]]
  BY DEF ConfirmClassification
<1>3. /\ status \in PortalStatuses
      /\ UNCHANGED <<status, docs, round, manual, run, last, scans, excludes>>
      /\ draft' = TRUE /\ HasRoomForDraft
      /\ \A p \in choice : docs[p[2]] = "AVAILABLE"
  BY DEF ConfirmClassification
<1>4. /\ rstat' \in [Reqs -> RequirementStatuses]
      /\ \A r \in Reqs : \/ rstat'[r] = rstat[r]
                         \/ rstat[r] = "PENDING" /\ rstat'[r] = "RECEIVED"
  BY DEF ConfirmClassification, RequirementStatuses
<1>5. links' \in [Rounds -> [Targets -> [Docs -> LinkStates]]]
  BY <1>1, <1>2
<1>6. TypeOK'
  BY <1>3, <1>4, <1>5
<1>7. LinkedDocumentExists'
  <2> SUFFICES ASSUME NEW n \in Rounds, NEW t \in Targets, NEW d \in Docs,
                      links'[n][t][d] \in ActiveLink
               PROVE  docs'[d] # "ABSENT"
    BY DEF LinkedDocumentExists
  <2>1. CASE links'[n][t][d] = links[n][t][d]
    BY <2>1, <1>3 DEF LinkedDocumentExists
  <2>2. CASE links'[n][t][d] # links[n][t][d]
    <3>1. <<t, d>> \in choice
      BY <2>2, <1>1, <1>2
    <3>2. QED  BY <3>1, <1>3
  <2>3. QED  BY <2>1, <2>2
<1>8. SubmittedIsScanned'
  <2> SUFFICES ASSUME NEW n \in 1..round, NEW u \in Targets, NEW e \in Docs,
                      links'[n][u][e] \in ActiveLink
               PROVE  docs'[e] \in {"AVAILABLE", "FAILED"}
    BY <1>3 DEF SubmittedIsScanned
  <2>1. n \in Rounds /\ links'[n] = links[n]
    BY <1>1, <1>2, CollectionAssumption DEF Rounds
  <2>2. QED  BY <2>1, <1>3 DEF SubmittedIsScanned
<1>9. DraftFits' /\ ReviewHasNoDraft' /\ UnreviewedIsBacked' /\ DraftIsUntouched'
      /\ ReadyMeansSettled'
  BY <1>3, <1>1 DEF DraftFits, ReviewHasNoDraft, UnreviewedIsBacked,
    DraftIsUntouched, PortalStatuses, DraftRound, Rounds, ReadyMeansSettled,
    HasRoomForDraft
<1>10. UndecidedHasNoDecision' /\ StatusFollowsDecision'
  BY <1>3, <1>4 DEF UndecidedHasNoDecision, StatusFollowsDecision, NoDecision
<1>11. Existing' # {} /\ OpenIsUnreviewed'
  BY <1>3, <1>4 DEF OpenIsUnreviewed
<1>12. QED
  BY <1>3, <1>6, <1>7, <1>8, <1>9, <1>10, <1>11 DEF ManualRoundHasNoRun

LEMMA ExcludeReadInv ==
  ASSUME IInv, NEW n \in Rounds, NEW t \in Targets, NEW d \in Docs,
         ExcludeRead(n, t, d)
  PROVE  IInv'
<1> USE DEF IInv, ExcludeRead, TypeOK
<1>3. [round |-> n, target |-> t, doc |-> d, submitted |-> n <= round]
        \in ExcludeRows
  <2> DEFINE submitted == n <= round
  <2>1. submitted \in BOOLEAN
    OBVIOUS
  <2> HIDE DEF submitted
  <2>2. [round |-> n, target |-> t, doc |-> d, submitted |-> submitted]
          \in ExcludeRows
    BY <2>1 DEF ExcludeRows
  <2>3. QED  BY <2>2 DEF submitted
<1>1. TypeOK'
  BY <1>3
<1>2. QED
  BY <1>1 DEF DraftFits, DraftIsUntouched, OpenIsUnreviewed, AllSettled,
    UndecidedHasNoDecision, LinkedDocumentExists, ReadyMeansSettled,
    ReviewHasNoDraft, UnreviewedIsBacked, SubmittedIsScanned,
    StatusFollowsDecision, ManualRoundHasNoRun

(* Only rows of the request's own rounds change, and none becomes active.     *)
LEMMA ExcludeLockInv ==
  ASSUME IInv, NEW e \in excludes, ExcludeLock(e) PROVE IInv'
<1> USE DEF IInv, TypeOK
<1>0. e.round \in Rounds /\ e.target \in Targets /\ e.doc \in Docs
  BY DEF ExcludeRows
<1>1. UNCHANGED <<status, rstat, docs, round, manual, run, last, scans>>
      /\ excludes' \subseteq excludes
  BY DEF ExcludeLock
<1>2. CASE UNCHANGED <<links, draft>>
  BY <1>1, <1>2 DEF DraftFits, DraftIsUntouched, OpenIsUnreviewed, AllSettled,
    UndecidedHasNoDecision, LinkedDocumentExists, ReadyMeansSettled,
    ReviewHasNoDraft, UnreviewedIsBacked, SubmittedIsScanned,
    StatusFollowsDecision, ManualRoundHasNoRun
<1>3. CASE /\ ExcludeAllowed(e.target)
           /\ \E m \in Rounds :
                \E s \in Exclude(links[m][e.target][e.doc]) :
                  links' = [links EXCEPT ![m][e.target][e.doc] = s]
           /\ draft' = draft \/ (draft' = TRUE /\ HasRoomForDraft)
  <2>1. PICK m \in Rounds : \E s \in Exclude(links[m][e.target][e.doc]) :
              links' = [links EXCEPT ![m][e.target][e.doc] = s]
    BY <1>3
  <2>2. PICK s \in Exclude(links[m][e.target][e.doc]) :
              links' = [links EXCEPT ![m][e.target][e.doc] = s]
    BY <2>1
  <2>3. s \in LinkStates
        /\ (s \in ActiveLink => s = links[m][e.target][e.doc])
    BY <1>0, <2>2, ExcludeIsNotActive
  <2>4. links' \in [Rounds -> [Targets -> [Docs -> LinkStates]]]
    BY <1>0, <2>2, <2>3
  <2>5. \A n \in Rounds, u \in Targets, d \in Docs :
          links'[n][u][d] \in ActiveLink => links[n][u][d] \in ActiveLink
    BY <1>0, <2>2, <2>3
  <2>6. status \in PortalStatuses /\ draft' \in BOOLEAN
    BY <1>3 DEF ExcludeAllowed
  <2>7. TypeOK'
    BY <1>1, <2>4, <2>6
  <2>8. LinkedDocumentExists'
    BY <1>1, <2>5 DEF LinkedDocumentExists
  <2>9. SubmittedIsScanned'
    BY <1>1, <2>5, CollectionAssumption DEF SubmittedIsScanned, Rounds
  <2>10. DraftFits'
    BY <1>1, <1>3 DEF DraftFits, HasRoomForDraft
  <2>11. QED
    BY <1>1, <2>6, <2>7, <2>8, <2>9, <2>10 DEF DraftIsUntouched, PortalStatuses,
      OpenIsUnreviewed, UndecidedHasNoDecision, ReadyMeansSettled,
      ReviewHasNoDraft, UnreviewedIsBacked, StatusFollowsDecision,
      ManualRoundHasNoRun
<1>4. HasRoomForDraft => DraftRound \in Rounds
  BY DraftRoundIsNew
<1>5. QED
  BY <1>0, <1>2, <1>3, <1>4 DEF ExcludeLock

(* A submission: the new round counts scanned documents only, every required  *)
(* item that is not settled has one, and the draft is gone.                   *)
LEMMA SubmitInv ==
  ASSUME IInv, NEW manually \in BOOLEAN, Submit(manually) PROVE IInv'
<1> DEFINE rows == CarriedLinks(manually)
<1> USE DEF IInv, TypeOK
<1>1. /\ round < MaxRounds
      /\ Processing(rows) = {}
      /\ Missing(rows) = {}
      /\ links' = [links EXCEPT ![DraftRound] = rows]
      /\ draft' = FALSE
      /\ round' = round + 1
      /\ manual' = IF manually THEN manual \cup {DraftRound} ELSE manual
      /\ rstat' = [r \in Reqs |->
           IF r \in Existing \cap Present(rows) /\ rstat[r] \notin Settled
           THEN "RECEIVED" ELSE rstat[r]]
      /\ status' = "IN_REVIEW"
      /\ run' = [run EXCEPT ![DraftRound] = EnqueuedRun(DraftRound, rows, manually)]
      /\ UNCHANGED <<docs, last, scans, excludes>>
  BY DEF Submit
<1>2. DraftRound \in Rounds /\ \A n \in 1..round : n # DraftRound
  BY DraftRoundIsNew, <1>1, CollectionAssumption DEF HasRoomForDraft
<1>3. rows \in [Targets -> [Docs -> LinkStates]]
  BY <1>2 DEF CarriedLinks, LinkStates
<1>4. \A t \in Targets, d \in Docs :
        rows[t][d] \in ActiveLink => docs[d] \in {"AVAILABLE", "FAILED"}
  <2> SUFFICES ASSUME NEW t \in Targets, NEW d \in Docs, rows[t][d] \in ActiveLink
               PROVE  docs[d] \in {"AVAILABLE", "FAILED"}
    OBVIOUS
  <2>1. docs[d] # "QUARANTINED"
    BY <1>1 DEF Processing
  <2>2. docs[d] # "ABSENT"
    BY <1>2 DEF CarriedLinks, Carried, LinkedDocumentExists
  <2>3. QED  BY <2>1, <2>2 DEF DocumentStatuses
<1> HIDE DEF rows
<1>5. rstat' \in [Reqs -> RequirementStatuses]
      /\ \A r \in Reqs : \/ rstat'[r] = rstat[r]
                         \/ /\ rstat[r] \notin Settled \cup {"ABSENT"}
                            /\ rstat'[r] = "RECEIVED"
  BY <1>1 DEF RequirementStatuses
<1>6. EnqueuedRun(DraftRound, rows, manually) \in RunStatuses
      /\ (manually => EnqueuedRun(DraftRound, rows, manually) = "NONE")
  BY DEF EnqueuedRun, RunStatuses
<1>7. links' \in [Rounds -> [Targets -> [Docs -> LinkStates]]]
      /\ run' \in [Rounds -> RunStatuses]
  BY <1>1, <1>2, <1>3, <1>6
<1>8. TypeOK'
  <2>1. round' \in 0..MaxRounds /\ manual' \subseteq Rounds /\ status' \in RequestStatuses
    BY <1>1, <1>2, CollectionAssumption DEF RequestStatuses
  <2>2. draft' \in BOOLEAN
    BY <1>1, Zenon
  <2>3. QED  BY <1>1, <1>5, <1>7, <2>1, <2>2
<1>9. LinkedDocumentExists'
  BY <1>1, <1>2, <1>4 DEF LinkedDocumentExists
<1>10. SubmittedIsScanned'
  <2> SUFFICES ASSUME NEW n \in 1..(round + 1), NEW t \in Targets, NEW d \in Docs,
                      links'[n][t][d] \in ActiveLink
               PROVE  docs[d] \in {"AVAILABLE", "FAILED"}
    BY <1>1 DEF SubmittedIsScanned
  <2>1. CASE n = DraftRound
    BY <2>1, <1>1, <1>2, <1>4
  <2>2. CASE n \in 1..round
    BY <2>2, <1>1, <1>2, CollectionAssumption DEF SubmittedIsScanned, Rounds
  <2>3. QED  BY <2>1, <2>2 DEF DraftRound
<1>11. UnreviewedIsBacked'
  <2> SUFFICES ASSUME NEW r \in Required, r \in Reqs, rstat'[r] \in Unreviewed
               PROVE  \E d \in Docs : links'[round'][r][d] \in ActiveLink
                                      /\ docs'[d] = "AVAILABLE"
    BY DEF UnreviewedIsBacked
  <2>1. rstat[r] \notin Settled \cup {"ABSENT"}
    BY <1>5
  <2>2. r \in Present(rows)
    BY <2>1, <1>1 DEF Missing
  <2>3. QED  BY <2>2, <1>1, <1>2 DEF Present, DraftRound
<1>12. UndecidedHasNoDecision'
  BY <1>1, <1>5 DEF UndecidedHasNoDecision
<1>13. StatusFollowsDecision'
  <2> SUFFICES ASSUME NEW r \in Reqs, rstat[r] \in Unreviewed \cup {"NEEDS_ACTION"},
                      rstat'[r] = "RECEIVED"
               PROVE  last[r].decision \in {"NONE", "REQUEST_ACTION"}
    BY <1>1, <1>5 DEF StatusFollowsDecision, RequirementStatuses
  <2>1. QED  BY DEF StatusFollowsDecision, StatusOf, Decisions
<1>14. ManualRoundHasNoRun'
  <2> SUFFICES ASSUME NEW n \in manual' PROVE n <= round' /\ run'[n] = "NONE"
    BY DEF ManualRoundHasNoRun
  <2>1. CASE n = DraftRound
    <3>1. manually
      BY <2>1, <1>1, <1>2 DEF ManualRoundHasNoRun, DraftRound
    <3>2. run'[DraftRound] = "NONE"
      BY <3>1, <1>1, <1>2, <1>6
    <3>3. n <= round'
      BY <2>1, <1>1 DEF DraftRound
    <3>4. QED  BY <2>1, <3>2, <3>3
  <2>2. CASE n # DraftRound
    BY <2>2, <1>1 DEF ManualRoundHasNoRun, Rounds
  <2>3. QED  BY <2>1, <2>2
<1>15. DraftFits' /\ ReviewHasNoDraft'
  BY <1>1 DEF DraftFits, ReviewHasNoDraft
<1>16. Existing' # {} /\ DraftIsUntouched' /\ OpenIsUnreviewed' /\ ReadyMeansSettled'
  BY <1>1, <1>5 DEF DraftIsUntouched, OpenIsUnreviewed, ReadyMeansSettled
<1>17. QED
  BY <1>8, <1>9, <1>10, <1>11, <1>12, <1>13, <1>14, <1>15, <1>16

-----------------------------------------------------------------------------
(* Document worker.                                                           *)
LEMMA ScanFailedInv == ASSUME IInv, NEW d \in Docs, ScanFailed(d) PROVE IInv'
<1> USE DEF IInv, ScanFailed, TypeOK
<1>1. TypeOK'
  BY DEF DocumentStatuses
<1>2. LinkedDocumentExists' /\ SubmittedIsScanned'
  BY DEF LinkedDocumentExists, SubmittedIsScanned
<1>3. UnreviewedIsBacked'
  BY DEF UnreviewedIsBacked
<1>4. QED
  BY <1>1, <1>2, <1>3 DEF DraftFits, DraftIsUntouched, OpenIsUnreviewed,
    UndecidedHasNoDecision, ManualRoundHasNoRun, ReadyMeansSettled, AllSettled,
    ReviewHasNoDraft, StatusFollowsDecision

(* A document scanned while the request is prepared belongs to none of its    *)
(* requirements.                                                              *)
LEMMA ScanReadInv == ASSUME IInv, NEW d \in Docs, ScanRead(d) PROVE IInv'
<1> USE DEF IInv, ScanRead, TypeOK
<1>1. TypeOK'
  BY DEF ScanRows
<1>2. DraftIsUntouched'
  <2> SUFFICES ASSUME status = "DRAFT", NEW s \in scans' PROVE s.pending = {}
    BY DEF DraftIsUntouched
  <2>1. \A m \in Rounds, r \in Reqs : links[m][r][d] = "NONE"
    BY DEF DraftIsUntouched, NoLinks, Targets
  <2>2. QED  BY <2>1 DEF DraftIsUntouched, ActiveLink
<1>3. QED
  BY <1>1, <1>2 DEF DraftFits, OpenIsUnreviewed, AllSettled,
    UndecidedHasNoDecision, LinkedDocumentExists, ReadyMeansSettled,
    ReviewHasNoDraft, UnreviewedIsBacked, SubmittedIsScanned,
    StatusFollowsDecision, ManualRoundHasNoRun

(* The version check keeps a scan from undoing a decision.                    *)
LEMMA ScanCommitInv == ASSUME IInv, NEW s \in scans, ScanCommit(s) PROVE IInv'
<1> USE DEF IInv, TypeOK
<1>1. /\ UNCHANGED <<portal, status, run, last, excludes>>
      /\ scans' \subseteq scans
      /\ s.doc \in Docs /\ s.pending \subseteq Reqs
  BY DEF ScanCommit, ScanRows
<1>2. /\ docs' \in [Docs -> DocumentStatuses]
      /\ \A d \in Docs : docs'[d] = docs[d] \/ docs'[d] = "AVAILABLE"
  BY <1>1 DEF ScanCommit, DocumentStatuses
<1>3. /\ rstat' \in [Reqs -> RequirementStatuses]
      /\ \A r \in Reqs : \/ rstat'[r] = rstat[r]
                         \/ /\ rstat[r] = "PENDING" /\ rstat'[r] = "RECEIVED"
                            /\ s.pending # {}
  BY <1>1 DEF ScanCommit, Unchanged, RequirementStatuses
<1>4. TypeOK'
  BY <1>1, <1>2, <1>3
<1>5. Existing' # {} /\ DraftIsUntouched' /\ OpenIsUnreviewed'
  BY <1>1, <1>3 DEF DraftIsUntouched, OpenIsUnreviewed
<1>6. UndecidedHasNoDecision' /\ StatusFollowsDecision'
  BY <1>1, <1>3 DEF UndecidedHasNoDecision, StatusFollowsDecision, NoDecision
<1>7. LinkedDocumentExists' /\ SubmittedIsScanned'
  BY <1>1, <1>2 DEF LinkedDocumentExists, SubmittedIsScanned
<1>8. ReadyMeansSettled' /\ ReviewHasNoDraft' /\ DraftFits' /\ ManualRoundHasNoRun'
  BY <1>1, <1>3 DEF ReadyMeansSettled, AllSettled, ReviewHasNoDraft, DraftFits,
    ManualRoundHasNoRun
<1>9. UnreviewedIsBacked'
  BY <1>1, <1>2, <1>3 DEF UnreviewedIsBacked
<1>10. QED  BY <1>4, <1>5, <1>6, <1>7, <1>8, <1>9

-----------------------------------------------------------------------------
(* AI review worker.                                                          *)
LEMMA RunEndsInv ==
  ASSUME IInv, NEW n \in Rounds, ReviewFailed(n) \/ ReviewSuperseded(n)
  PROVE  IInv'
<1> USE DEF IInv, TypeOK
<1>1. /\ UNCHANGED <<portal, status, rstat, docs, last, scans, excludes>>
      /\ run[n] = "LIVE"
      /\ run' \in [Rounds -> RunStatuses]
      /\ \A m \in Rounds : m # n => run'[m] = run[m]
  BY DEF ReviewFailed, ReviewSuperseded, RunStatuses
<1>2. TypeOK' /\ ManualRoundHasNoRun'
  BY <1>1 DEF ManualRoundHasNoRun
<1>3. QED
  BY <1>1, <1>2 DEF DraftFits, DraftIsUntouched, OpenIsUnreviewed, AllSettled,
    UndecidedHasNoDecision, LinkedDocumentExists, ReadyMeansSettled,
    ReviewHasNoDraft, UnreviewedIsBacked, SubmittedIsScanned,
    StatusFollowsDecision

(* An answer that is applied decides open requirements of the round under     *)
(* review, and returns the request when it asks for something.                *)
LEMMA ReviewSucceededInv ==
  ASSUME IInv, NEW n \in Rounds, NEW finding \in [Reqs -> Suggestions],
         ReviewSucceeded(n, finding)
  PROVE  IInv'
<1> USE DEF IInv, TypeOK
<1> DEFINE applied == {r \in Existing : CanApply(finding, r)}
<1>1. /\ run[n] = "LIVE" /\ n = round /\ status = "IN_REVIEW"
      /\ run' = [run EXCEPT ![n] = "SUCCEEDED"]
      /\ rstat' = [r \in Reqs |->
           IF r \in applied THEN StatusOf[finding[r]] ELSE rstat[r]]
      /\ last' = [r \in Reqs |->
           IF r \in applied
           THEN [decision |-> finding[r], source |-> "AI", round |-> n]
           ELSE last[r]]
      /\ status' \in {"CHANGES_REQUESTED", "IN_REVIEW"}
      /\ UNCHANGED <<portal, docs, scans, excludes>>
  BY DEF ReviewSucceeded, Superseded
<1>2. \A r \in applied : finding[r] \in {"SATISFY", "REQUEST_ACTION"}
                         /\ rstat[r] \in Unreviewed
  BY DEF CanApply, Suggestions
<1> HIDE DEF applied
<1>3. \A r \in Reqs :
        \/ rstat'[r] = rstat[r] /\ last'[r] = last[r]
        \/ /\ rstat[r] \in Unreviewed
           /\ last'[r].decision \in {"SATISFY", "REQUEST_ACTION"}
           /\ last'[r] \in DecisionRows
           /\ rstat'[r] = StatusOf[last'[r].decision]
           /\ rstat'[r] \in {"SATISFIED", "NEEDS_ACTION"}
  BY <1>1, <1>2 DEF StatusOf, Decisions, DecisionRows
<1>4. TypeOK'
  BY <1>1, <1>3 DEF RequestStatuses, RequirementStatuses, RunStatuses
<1>5. UndecidedHasNoDecision'
  BY <1>3 DEF UndecidedHasNoDecision
<1>10. StatusFollowsDecision'
  <2> SUFFICES ASSUME NEW r \in Existing'
               PROVE  IF rstat'[r] \in Reviewed
                      THEN /\ last'[r].decision \in Decisions
                           /\ rstat'[r] = StatusOf[last'[r].decision]
                      ELSE last'[r].decision \in {"NONE", "REQUEST_ACTION"}
    BY DEF StatusFollowsDecision
  <2>1. CASE rstat'[r] = rstat[r] /\ last'[r] = last[r]
    BY <2>1 DEF StatusFollowsDecision
  <2>2. CASE ~(rstat'[r] = rstat[r] /\ last'[r] = last[r])
    BY <2>2, <1>3 DEF Decisions
  <2>3. QED  BY <2>1, <2>2
<1>6. Existing' # {}
  BY <1>3
<1>11. DraftIsUntouched' /\ OpenIsUnreviewed' /\ DraftFits' /\ ReadyMeansSettled'
  BY <1>1 DEF DraftIsUntouched, OpenIsUnreviewed, DraftFits, ReadyMeansSettled
<1>7. LinkedDocumentExists' /\ SubmittedIsScanned' /\ ManualRoundHasNoRun'
      /\ ReviewHasNoDraft'
  BY <1>1 DEF LinkedDocumentExists, SubmittedIsScanned, ManualRoundHasNoRun,
    ReviewHasNoDraft
<1>8. UnreviewedIsBacked'
  BY <1>1, <1>3 DEF UnreviewedIsBacked
<1>9. QED  BY <1>4, <1>5, <1>6, <1>7, <1>8, <1>10, <1>11

-----------------------------------------------------------------------------
(* Every step keeps the invariant, so every reachable state satisfies it.     *)
LEMMA NextInv == ASSUME IInv, [Next]_vars PROVE IInv'
<1>1. ASSUME StaffNext PROVE IInv'
  BY <1>1, AddRequirementInv, DeleteRequirementInv, PublishInv, CancelInv,
    RetryReviewInv, ReviewRequirementInv, RequestChangesInv, ApproveInv,
    ReopenInv DEF StaffNext
<1>2. ASSUME PortalNext PROVE IInv'
  BY <1>2, UploadInv, StageDocumentInv, ConfirmClassificationInv,
    ExcludeReadInv, ExcludeLockInv, SubmitInv DEF PortalNext
<1>3. ASSUME WorkerNext PROVE IInv'
  BY <1>3, ScanFailedInv, ScanReadInv, ScanCommitInv, RunEndsInv,
    ReviewSucceededInv DEF WorkerNext
<1>4. ASSUME UNCHANGED vars PROVE IInv'
  BY <1>4 DEF vars, IInv, TypeOK, DraftFits, DraftIsUntouched, OpenIsUnreviewed,
    UndecidedHasNoDecision, LinkedDocumentExists, ManualRoundHasNoRun,
    AllSettled, ReadyMeansSettled, ReviewHasNoDraft, UnreviewedIsBacked,
    SubmittedIsScanned, StatusFollowsDecision
<1>5. QED  BY <1>1, <1>2, <1>3, <1>4 DEF Next

THEOREM Invariance == Spec => []IInv
<1>1. Init => IInv
  BY InitInv
<1>2. IInv /\ [Next]_vars => IInv'
  BY NextInv
<1>3. QED  BY <1>1, <1>2, PTL DEF Spec

(* Every column keeps to the values its check constraint allows.              *)
THEOREM TypeCorrect == Spec => []TypeOK
<1>1. IInv => TypeOK
  BY DEF IInv
<1>2. QED  BY <1>1, Invariance, PTL

(* approve (app/api/review.py) cannot be got around: a request that is ready  *)
(* for bookkeeping has only satisfied and waived requirements.                *)
THEOREM ReadyIsSettled == Spec => []ReadyMeansSettled
<1>1. IInv => ReadyMeansSettled
  BY DEF IInv
<1>2. QED  BY <1>1, Invariance, PTL

(* No draft submission is left open beside a round under review.              *)
THEOREM NoDraftInReview == Spec => []ReviewHasNoDraft
<1>1. IInv => ReviewHasNoDraft
  BY DEF IInv
<1>2. QED  BY <1>1, Invariance, PTL

(* A required item under review that nobody looked at has a scanned document  *)
(* in the round under review: submit's check of missing items holds on.       *)
THEOREM UnreviewedHasDocument == Spec => []UnreviewedIsBacked
<1>1. IInv => UnreviewedIsBacked
  BY DEF IInv
<1>2. QED  BY <1>1, Invariance, PTL

(* A submitted round counts no document that the scanner still has.           *)
THEOREM SubmittedDocumentsAreScanned == Spec => []SubmittedIsScanned
<1>1. IInv => SubmittedIsScanned
  BY DEF IInv
<1>2. QED  BY <1>1, Invariance, PTL

(* The status shown for a requirement is the one its newest decision gave it. *)
THEOREM StatusIsDecision == Spec => []StatusFollowsDecision
<1>1. IInv => StatusFollowsDecision
  BY DEF IInv
<1>2. QED  BY <1>1, Invariance, PTL

-----------------------------------------------------------------------------
(* Action properties.                                                         *)

(* Which actions write a requirement's status, and how far an accepted one is *)
(* out of their reach: preparing is over, scans and submissions look at open  *)
(* items, the AI at unreviewed ones.                                          *)
LEMMA AcceptedStep ==
  ASSUME IInv, Next, NEW r \in Reqs, rstat[r] \in Settled, rstat'[r] # rstat[r]
  PROVE  \E decision \in Decisions, n \in Rounds : ReviewRequirement(r, decision, n)
<1> USE DEF IInv, TypeOK
<1>1. CASE StaffNext
  BY <1>1 DEF StaffNext, AddRequirement, DeleteRequirement, DraftIsUntouched,
    Publish, Cancel, RetryReview, ReviewRequirement, RequestChanges, Approve,
    Reopen
<1>2. CASE PortalNext
  BY <1>2 DEF PortalNext, Upload, StageDocument, ConfirmClassification,
    ExcludeRead, ExcludeLock, Submit
<1>3. CASE WorkerNext
  BY <1>3 DEF WorkerNext, ScanFailed, ScanRead, ScanCommit, Unchanged,
    ReviewFailed, ReviewSuperseded, ReviewSucceeded, CanApply
<1>4. QED  BY <1>1, <1>2, <1>3 DEF Next

(* An accepted requirement only changes by a new decision of a person in a    *)
(* review, to the status of that decision.  That the decision is a new one    *)
(* follows from StatusFollowsDecision: the status was that of the old one.    *)
THEOREM AcceptedIsKept == Spec => AcceptedStands
<1>1. ASSUME IInv, Next, NEW r \in Reqs, rstat[r] \in Settled, rstat'[r] # rstat[r]
      PROVE  /\ status = "IN_REVIEW" /\ last'[r] # last[r] /\ last'[r].source = "HUMAN"
             /\ rstat'[r] = StatusOf[last'[r].decision]
  <2>1. PICK decision \in Decisions, n \in Rounds : ReviewRequirement(r, decision, n)
    BY <1>1, AcceptedStep
  <2>2. /\ status = "IN_REVIEW" /\ last'[r].source = "HUMAN"
        /\ rstat'[r] = StatusOf[last'[r].decision]
    BY <1>1, <2>1 DEF ReviewRequirement, IInv, TypeOK
  <2>3. rstat[r] = StatusOf[last[r].decision]
    BY <1>1 DEF IInv, StatusFollowsDecision, Existing, Settled, Reviewed
  <2>4. QED  BY <1>1, <2>2, <2>3
<1>2. IInv /\ [Next]_vars =>
        [\A r \in Reqs : rstat[r] \in Settled /\ rstat'[r] # rstat[r] =>
           /\ status = "IN_REVIEW"
           /\ last'[r] # last[r]
           /\ last'[r].source = "HUMAN"
           /\ rstat'[r] = StatusOf[last'[r].decision]]_vars
  BY <1>1
<1>3. QED  BY <1>2, Invariance, PTL DEF Spec, AcceptedStands

(* Only an applied answer writes a decision of the AI.                        *)
LEMMA AIStep ==
  ASSUME IInv, Next, NEW r \in Reqs, last'[r] # last[r], last'[r].source = "AI"
  PROVE  /\ status = "IN_REVIEW"
         /\ last'[r].round = round
         /\ round \notin manual
         /\ rstat[r] \in Unreviewed
<1> USE DEF IInv, TypeOK
<1>1. CASE StaffNext
  BY <1>1 DEF StaffNext, AddRequirement, DeleteRequirement, Publish, Cancel,
    RetryReview, ReviewRequirement, RequestChanges, Approve, Reopen
<1>2. CASE PortalNext
  BY <1>2 DEF PortalNext, Upload, StageDocument, ConfirmClassification,
    ExcludeRead, ExcludeLock, Submit
<1>3. CASE WorkerNext
  BY <1>3 DEF WorkerNext, ScanFailed, ScanRead, ScanCommit, ReviewFailed,
    ReviewSuperseded, ReviewSucceeded, Superseded, CanApply, ManualRoundHasNoRun
<1>4. QED  BY <1>1, <1>2, <1>3 DEF Next

(* The AI decides unreviewed items of the round under review only, and never  *)
(* in a round for which the client asked for a person.                        *)
THEOREM AIDecidesOnlyCurrentRound == Spec => AIDecidesCurrentRound
<1>1. IInv /\ [Next]_vars =>
        [\A r \in Reqs : last'[r] # last[r] /\ last'[r].source = "AI" =>
           /\ status = "IN_REVIEW"
           /\ last'[r].round = round
           /\ round \notin manual
           /\ rstat[r] \in Unreviewed]_vars
  BY AIStep
<1>2. QED  BY <1>1, Invariance, PTL DEF Spec, AIDecidesCurrentRound

(* The four actions that write links, and the check each of them makes.       *)
LEMMA LinksStep ==
  ASSUME IInv, Next, links' # links
  PROVE  /\ status \in PortalStatuses
         /\ \A r \in Reqs, n \in Rounds :
              links'[n][r] # links[n][r] =>
                Editable(r) \/ rstat[r] \in Unreviewed \cup {"NEEDS_ACTION"}
<1> USE DEF IInv, TypeOK
<1>1. PortalNext
  BY DEF Next, StaffNext, AddRequirement, DeleteRequirement, Publish, Cancel,
    RetryReview, ReviewRequirement, RequestChanges, Approve, Reopen,
    WorkerNext, ScanFailed, ScanRead, ScanCommit, ReviewFailed,
    ReviewSuperseded, ReviewSucceeded
<1>2. CASE \E t \in Targets, d \in Docs : Upload(t, d)
  BY <1>2 DEF Upload, LinkTo, Targets
<1>3. CASE \E choice \in SUBSET Attachable : ConfirmClassification(choice)
  <2>1. PICK choice \in SUBSET Attachable : ConfirmClassification(choice)
    BY <1>3
  <2>2. PICK new \in [choice -> LinkStates] :
          links' = [links EXCEPT ![DraftRound] =
            [t \in Targets |-> [d \in Docs |->
               IF <<t, d>> \in choice THEN new[<<t, d>>]
               ELSE links[DraftRound][t][d]]]]
    BY <2>1 DEF ConfirmClassification
  <2>3. ASSUME NEW r \in Reqs, NEW n \in Rounds, links'[n][r] # links[n][r]
        PROVE  Editable(r)
    <3>1. n = DraftRound
      BY <2>2, <2>3
    <3>2. PICK d \in Docs : <<r, d>> \in choice
      BY <2>2, <2>3, <3>1 DEF Targets
    <3>3. QED  BY <2>1, <3>2 DEF ConfirmClassification
  <2>4. QED  BY <2>1, <2>3 DEF ConfirmClassification
<1>4. CASE \E e \in excludes : ExcludeLock(e)
  <2>1. PICK e \in excludes : ExcludeLock(e)
    BY <1>4
  <2>2. ExcludeAllowed(e.target)
    BY <2>1 DEF ExcludeLock
  <2>3. \E m, s : links' = [links EXCEPT ![m][e.target][e.doc] = s]
    BY <2>1 DEF ExcludeLock
  <2>4. \A r \in Reqs, n \in Rounds : links'[n][r] # links[n][r] => r = e.target
    BY <2>3 DEF Targets
  <2>5. QED  BY <2>2, <2>4 DEF ExcludeAllowed
<1>5. CASE \E manually \in BOOLEAN : Submit(manually)
  <2>1. PICK manually \in BOOLEAN : Submit(manually)
    BY <1>5
  <2>2. ASSUME NEW r \in Reqs, NEW n \in Rounds, links'[n][r] # links[n][r]
        PROVE  rstat[r] \in Unreviewed \cup {"NEEDS_ACTION"}
    <3>1. n = DraftRound /\ links'[n][r] = CarriedLinks(manually)[r]
      BY <2>1, <2>2 DEF Submit
    <3>2. PICK d \in Docs : Carried(manually, r, d)
      BY <2>2, <3>1 DEF CarriedLinks, Targets
    <3>3. QED  BY <3>2 DEF Carried, CarryStatuses
  <2>3. QED  BY <2>1, <2>2 DEF Submit
<1>6. QED
  BY <1>1, <1>2, <1>3, <1>4, <1>5 DEF PortalNext, StageDocument, ExcludeRead

(* Of the four, a removal is the only one that writes the rows of a submitted *)
(* round: the others write those of the draft.                                *)
LEMMA SubmittedLinksStep ==
  ASSUME IInv, Next, NEW n \in Rounds, NEW t \in Targets, NEW d \in Docs,
         links'[n][t][d] # links[n][t][d], n <= round
  PROVE  /\ [round |-> n, target |-> t, doc |-> d, submitted |-> FALSE]
              \in excludes \ excludes'
         /\ links'[n][t][d] = "EXCLUDED"
<1> USE DEF IInv, TypeOK
<1>1. PICK e \in excludes : ExcludeLock(e)
  <2>1. PortalNext
    BY DEF Next, StaffNext, AddRequirement, DeleteRequirement, Publish, Cancel,
      RetryReview, ReviewRequirement, RequestChanges, Approve, Reopen,
      WorkerNext, ScanFailed, ScanRead, ScanCommit, ReviewFailed,
      ReviewSuperseded, ReviewSucceeded
  <2>2. n # DraftRound
    BY DEF DraftRound, Rounds
  <2>3. ASSUME NEW u \in Targets, NEW f \in Docs, Upload(u, f) PROVE FALSE
    BY <2>2, <2>3 DEF Upload, LinkTo
  <2>4. ASSUME NEW choice \in SUBSET Attachable, ConfirmClassification(choice)
        PROVE  FALSE
    BY <2>2, <2>4 DEF ConfirmClassification
  <2>5. ASSUME NEW manually \in BOOLEAN, Submit(manually) PROVE FALSE
    BY <2>2, <2>5 DEF Submit
  <2>6. QED
    BY <2>1, <2>3, <2>4, <2>5 DEF PortalNext, StageDocument, ExcludeRead
<1>2. e.round \in Rounds /\ e.target \in Targets /\ e.doc \in Docs
  BY DEF ExcludeRows
<1>3. ~e.submitted
  <2>1. n # DraftRound
    BY DEF DraftRound, Rounds
  <2>2. QED  BY <1>1, <2>1 DEF ExcludeLock
<1>4. PICK s \in Exclude(links[e.round][e.target][e.doc]) :
        links' = [links EXCEPT ![e.round][e.target][e.doc] = s]
  BY <1>1, <1>3 DEF ExcludeLock
<1>5. e.round = n /\ e.target = t /\ e.doc = d /\ links'[n][t][d] = s
  BY <1>2, <1>4
<1>6. s = "EXCLUDED"
  BY <1>4, <1>5 DEF Exclude
<1>7. e = [round |-> n, target |-> t, doc |-> d, submitted |-> FALSE]
  BY <1>3, <1>5 DEF ExcludeRows
<1>8. QED  BY <1>1, <1>5, <1>6, <1>7 DEF ExcludeLock

(* No document is added to or removed from a round under review, and none of  *)
(* a submitted round but by a removal that read the round as a draft.         *)
THEOREM SubmittedEvidenceIsFrozen == Spec => SubmittedEvidenceFrozen
<1>1. IInv /\ [Next]_vars =>
        [\A n \in Rounds, t \in Targets, d \in Docs :
           links'[n][t][d] # links[n][t][d] =>
             /\ status \in PortalStatuses
             /\ n <= round =>
                  /\ [round |-> n, target |-> t, doc |-> d, submitted |-> FALSE]
                       \in excludes \ excludes'
                  /\ links'[n][t][d] = "EXCLUDED"]_vars
  BY LinksStep, SubmittedLinksStep
<1>2. QED  BY <1>1, Invariance, PTL DEF Spec, SubmittedEvidenceFrozen

(* A request that was never submitted is being prepared, open or cancelled,   *)
(* and one that was submitted is not taken back to these.                     *)
LEMMA FreshHasNoRound == Spec => [](status \in {"DRAFT", "OPEN"} => round = 0)
<1> DEFINE Fresh == status \in {"DRAFT", "OPEN"} => round = 0
<1>1. Init => Fresh
  BY DEF Init
<1>2. Fresh /\ [Next]_vars => Fresh'
  BY DEF Next, vars, StaffNext, AddRequirement, DeleteRequirement, Publish,
    Cancel, RetryReview, ReviewRequirement, RequestChanges, Approve, Reopen,
    PortalNext, Upload, StageDocument, ConfirmClassification, ExcludeRead,
    ExcludeLock, Submit, WorkerNext, ScanFailed, ScanRead, ScanCommit,
    ReviewFailed, ReviewSuperseded, ReviewSucceeded
<1>3. QED  BY <1>1, <1>2, PTL DEF Spec

(* _carry_unreviewed_documents loses nothing of the latest round but a file   *)
(* whose removal sorts behind its second upload (run carried shows that one). *)
THEOREM LostIsShadowed == Spec => OnlyShadowedIsLost
<1>1. ASSUME IInv, status \in {"DRAFT", "OPEN"} => round = 0, Next,
             round' # round, round > 0,
             NEW r \in Existing, NEW d \in Docs,
             rstat[r] \in Unreviewed, docs[d] = "AVAILABLE",
             links[round][r][d] \in ActiveLink, links[round + 1][r][d] = "NONE",
             links'[round + 1][r][d] \notin ActiveLink
      PROVE  links[round][r][d] = "SHADOWED"
  <2> USE <1>1 DEF IInv, TypeOK
  <2>1. PICK manually \in BOOLEAN : Submit(manually)
    BY DEF Next, StaffNext, AddRequirement, DeleteRequirement, Publish, Cancel,
      RetryReview, ReviewRequirement, RequestChanges, Approve, Reopen,
      PortalNext, Upload, StageDocument, ConfirmClassification, ExcludeRead,
      ExcludeLock, WorkerNext, ScanFailed, ScanRead, ScanCommit, ReviewFailed,
      ReviewSuperseded, ReviewSucceeded
  <2>2. status = "CHANGES_REQUESTED" /\ round < MaxRounds
    BY <2>1 DEF Submit, PortalStatuses
  <2>3. round + 1 \in Rounds /\ round \in 1..round /\ r \in Targets
    BY <2>2, CollectionAssumption DEF Rounds, Targets
  <2>4. links'[round + 1][r][d]
          = IF Carried(manually, r, d) THEN "ACTIVE" ELSE links[round + 1][r][d]
    BY <2>1, <2>3 DEF Submit, CarriedLinks, DraftRound
  <2>5. ~Carried(manually, r, d)
    BY <2>4 DEF ActiveLink
  <2>6. ~EffectivelyActive(round, r, d)
    BY <2>2, <2>3, <2>5 DEF Carried, CarryStatuses, DraftRound
  <2>7. links[round][r][d] \notin NewestActive
    <3>1. (round + 1)..round = {}
      OBVIOUS
    <3>2. QED  BY <2>3, <2>6, <3>1 DEF EffectivelyActive
  <2>8. QED  BY <2>7 DEF NewestActive, ActiveLink
<1>2. IInv /\ (status \in {"DRAFT", "OPEN"} => round = 0) /\ [Next]_vars =>
        [round' # round /\ round > 0 =>
           \A r \in Existing, d \in Docs :
             /\ rstat[r] \in Unreviewed
             /\ docs[d] = "AVAILABLE"
             /\ links[round][r][d] \in ActiveLink
             /\ links[round + 1][r][d] = "NONE"
             /\ links'[round + 1][r][d] \notin ActiveLink
             => links[round][r][d] = "SHADOWED"]_vars
  BY <1>1
<1>3. QED
  BY <1>2, Invariance, FreshHasNoRound, PTL DEF Spec, OnlyShadowedIsLost

(* A run of the round under review is only cancelled while the request is not *)
(* in review, and only a withdrawn approval brings the same round back: no    *)
(* other way leads to a review that is shown as failed and is refused a retry.*)
THEOREM StrandedOnlyByReopen == Spec => StrandedByReopen
<1>1. ASSUME IInv, Next, ~Stranded, Stranded'
      PROVE  status = "READY_FOR_BOOKKEEPING"
  <2> USE <1>1 DEF IInv, TypeOK, Stranded, ReviewStatus
  <2>1. status' = "IN_REVIEW" /\ run'[round'] = "CANCELLED"
    BY DEF RunStatuses
  <2>2. ~(status = "IN_REVIEW" /\ run[round] = "CANCELLED")
    BY DEF RunStatuses
  <2>3. CASE StaffNext
    <3>1. ASSUME NEW n \in Rounds, RetryReview(n) PROVE FALSE
      BY <2>1, <2>2, <3>1 DEF RetryReview, EnqueuedRun
    <3>2. QED
      BY <2>1, <2>2, <2>3, <3>1 DEF StaffNext, AddRequirement, DeleteRequirement,
        Publish, Cancel, ReviewRequirement, RequestChanges, Approve, Reopen
  <2>4. CASE PortalNext
    <3>1. ASSUME NEW manually \in BOOLEAN, Submit(manually) PROVE FALSE
      <4>1. DraftRound \in Rounds /\ round' = DraftRound
        BY <3>1, CollectionAssumption DEF Submit, DraftRound, Rounds
      <4>2. PICK rows : run' = [run EXCEPT ![DraftRound] =
                                  EnqueuedRun(DraftRound, rows, manually)]
        BY <3>1 DEF Submit
      <4>3. QED  BY <2>1, <4>1, <4>2 DEF EnqueuedRun
    <3>2. QED
      BY <2>1, <2>2, <2>4, <3>1 DEF PortalNext, Upload, StageDocument,
        ConfirmClassification, ExcludeRead, ExcludeLock
  <2>5. CASE WorkerNext
    <3>1. ASSUME NEW n \in Rounds, ReviewFailed(n) \/ ReviewSuperseded(n)
          PROVE  FALSE
      <4>1. /\ run[n] = "LIVE" /\ UNCHANGED <<status, round>>
            /\ run' \in {[run EXCEPT ![n] = "FAILED"], [run EXCEPT ![n] = "CANCELLED"]}
        BY <3>1 DEF ReviewFailed, ReviewSuperseded
      <4>2. round \in Rounds
        BY <2>1, <4>1 DEF ReviewHasNoDraft, Rounds
      <4>3. n = round /\ run'[n] = "CANCELLED" /\ ReviewSuperseded(n)
        BY <2>1, <2>2, <3>1, <4>1, <4>2 DEF ReviewFailed
      <4>4. QED  BY <2>1, <4>1, <4>3 DEF ReviewSuperseded, Superseded
    <3>2. ASSUME NEW n \in Rounds, NEW finding \in [Reqs -> Suggestions],
                 ReviewSucceeded(n, finding)
          PROVE  FALSE
      <4>1. status = "IN_REVIEW" /\ n = round /\ UNCHANGED round
            /\ run' = [run EXCEPT ![n] = "SUCCEEDED"]
        BY <3>2 DEF ReviewSucceeded, Superseded
      <4>2. QED  BY <2>1, <4>1
    <3>3. QED
      BY <2>1, <2>2, <2>5, <3>1, <3>2 DEF WorkerNext, ScanFailed, ScanRead, ScanCommit
  <2>6. QED  BY <2>3, <2>4, <2>5 DEF Next
<1>2. ASSUME IInv, UNCHANGED vars PROVE Stranded' = Stranded
  BY <1>2 DEF vars, Stranded, ReviewStatus
<1>3. IInv /\ [Next]_vars =>
        [~Stranded /\ Stranded' => status = "READY_FOR_BOOKKEEPING"]_vars
  BY <1>1, <1>2
<1>4. QED  BY <1>3, Invariance, PTL DEF Spec, StrandedByReopen

(* No document of an accepted requirement is added or removed.                *)
THEOREM AcceptedEvidenceIsFrozen == Spec => AcceptedEvidenceFrozen
<1>1. IInv /\ [Next]_vars =>
        [\A r \in Reqs : rstat[r] \in Settled =>
           \A n \in Rounds : links'[n][r] = links[n][r]]_vars
  BY LinksStep DEF Editable, IInv, OpenIsUnreviewed
<1>2. QED  BY <1>1, Invariance, PTL DEF Spec, AcceptedEvidenceFrozen

-----------------------------------------------------------------------------
(* Refinement: every action is a move of RequestLifecycle or leaves the       *)
(* status, the rounds and the settledness of the request alone.               *)
USE DEF Lifecycle!vars

LEMMA SettledUnchanged ==
  ASSUME \A r \in Reqs : \/ rstat'[r] = rstat[r]
                         \/ /\ rstat[r] \notin Settled \cup {"ABSENT"}
                            /\ rstat'[r] \notin Settled \cup {"ABSENT"}
  PROVE  AllSettled' = AllSettled
<1>1. AllSettled' <=> AllSettled
  BY DEF AllSettled
<1>2. QED  BY <1>1 DEF AllSettled

(* A request that is prepared or published for the first time has something   *)
(* to do.                                                                     *)
LEMMA FreshIsUnsettled ==
  ASSUME IInv, status \in {"DRAFT", "OPEN"} PROVE AllSettled = FALSE
<1>1. PICK r \in Reqs : rstat[r] # "ABSENT"
  BY DEF IInv
<1>2. rstat[r] \in Unreviewed
  BY <1>1 DEF IInv, DraftIsUntouched, OpenIsUnreviewed
<1>3. QED  BY <1>2 DEF AllSettled

LEMMA StaffRefines ==
  ASSUME IInv, IInv', StaffNext
  PROVE  Lifecycle!Next \/ UNCHANGED Lifecycle!vars
<1>1. ASSUME NEW r \in Reqs, AddRequirement(r)
      PROVE  Lifecycle!Next \/ UNCHANGED Lifecycle!vars
  <2>1. CASE status = "IN_REVIEW"
    <3>1. AllSettled' = FALSE
      BY <1>1 DEF AddRequirement, AllSettled, IInv, TypeOK
    <3>2. QED  BY <1>1, <2>1, <3>1 DEF AddRequirement, Lifecycle!Next, Lifecycle!Return
  <2>2. CASE status = "DRAFT"
    <3>1. AllSettled = FALSE /\ AllSettled' = FALSE
      BY <1>1, <2>2, FreshIsUnsettled DEF AddRequirement, AllSettled, IInv, TypeOK
    <3>2. QED  BY <1>1, <2>2, <3>1 DEF AddRequirement
  <2>3. QED  BY <1>1, <2>1, <2>2 DEF AddRequirement
<1>2. ASSUME NEW r \in Reqs, DeleteRequirement(r)
      PROVE  UNCHANGED Lifecycle!vars
  <2>1. AllSettled = FALSE
    BY <1>2, FreshIsUnsettled DEF DeleteRequirement
  <2>2. PICK q \in Reqs : rstat'[q] # "ABSENT"
    BY DEF IInv
  <2>3. rstat'[q] = "PENDING"
    BY <1>2, <2>2 DEF DeleteRequirement, IInv, TypeOK, DraftIsUntouched
  <2>4. AllSettled' = FALSE
    BY <2>3 DEF AllSettled
  <2>5. QED  BY <1>2, <2>1, <2>4 DEF DeleteRequirement
<1>3. ASSUME Publish \/ Cancel \/ (\E n \in Rounds : RetryReview(n)) \/ Reopen
      PROVE  Lifecycle!Next \/ UNCHANGED Lifecycle!vars
  <2>1. AllSettled' = AllSettled
    BY <1>3, SettledUnchanged DEF Publish, Cancel, RetryReview, Reopen
  <2>2. QED
    BY <1>3, <2>1 DEF Publish, Cancel, RetryReview, Reopen,
      Lifecycle!Next, Lifecycle!Publish, Lifecycle!Cancel, Lifecycle!Reopen,
      Lifecycle!CancellableStatuses, Lifecycle!PortalStatuses
<1>4. ASSUME NEW r \in Reqs, NEW decision \in Decisions, NEW n \in Rounds,
             ReviewRequirement(r, decision, n)
      PROVE  Lifecycle!Next
  BY <1>4 DEF ReviewRequirement, AllSettled, Lifecycle!Next, Lifecycle!Review
<1>5. ASSUME RequestChanges PROVE Lifecycle!Next
  <2>1. AllSettled' = FALSE
    BY <1>5 DEF RequestChanges, ActionRequired, AllSettled
  <2>2. QED  BY <1>5, <2>1 DEF RequestChanges, Lifecycle!Next, Lifecycle!Return
<1>6. ASSUME Approve PROVE Lifecycle!Next
  <2>1. AllSettled /\ AllSettled' = AllSettled
    BY <1>6, SettledUnchanged DEF Approve, Incomplete, AllSettled
  <2>2. QED  BY <1>6, <2>1 DEF Approve, Lifecycle!Next, Lifecycle!Approve
<1>7. QED  BY <1>1, <1>2, <1>3, <1>4, <1>5, <1>6 DEF StaffNext

LEMMA PortalRefines ==
  ASSUME IInv, PortalNext
  PROVE  Lifecycle!Next \/ UNCHANGED Lifecycle!vars
<1>1. AllSettled' = AllSettled
  BY SettledUnchanged DEF PortalNext, Upload, StageDocument, ExcludeRead,
    ConfirmClassification, ExcludeLock, Submit, IInv, TypeOK
<1>2. CASE \E manually \in BOOLEAN : Submit(manually)
  BY <1>1, <1>2 DEF Submit, PortalStatuses, Lifecycle!Next, Lifecycle!Submit,
    Lifecycle!PortalStatuses
<1>3. CASE ~ \E manually \in BOOLEAN : Submit(manually)
  BY <1>1, <1>3 DEF PortalNext, Upload, StageDocument, ExcludeRead,
    ConfirmClassification, ExcludeLock
<1>4. QED  BY <1>2, <1>3

LEMMA WorkerRefines ==
  ASSUME IInv, WorkerNext
  PROVE  Lifecycle!Next \/ UNCHANGED Lifecycle!vars
<1>1. ASSUME NEW n \in Rounds, NEW finding \in [Reqs -> Suggestions],
             ReviewSucceeded(n, finding)
      PROVE  Lifecycle!Next
  <2> DEFINE returned == {r \in Existing : CanApply(finding, r)
                                           /\ finding[r] = "REQUEST_ACTION"}
  <2>1. /\ status = "IN_REVIEW"
        /\ UNCHANGED round
        /\ rstat' = [r \in Reqs |->
             IF r \in Existing /\ CanApply(finding, r)
             THEN StatusOf[finding[r]] ELSE rstat[r]]
        /\ status' = IF returned # {} THEN "CHANGES_REQUESTED" ELSE status
    BY <1>1 DEF ReviewSucceeded, Superseded
  <2>2. CASE returned # {}
    <3>1. AllSettled' = FALSE
      BY <2>1, <2>2 DEF AllSettled, StatusOf, Decisions
    <3>2. QED  BY <2>1, <2>2, <3>1 DEF Lifecycle!Next, Lifecycle!Return
  <2>3. CASE returned = {}
    BY <2>1, <2>3 DEF AllSettled, Lifecycle!Next, Lifecycle!Review
  <2>4. QED  BY <2>2, <2>3
<1>2. CASE \/ \E d \in Docs : ScanFailed(d) \/ ScanRead(d)
           \/ \E s \in scans : ScanCommit(s)
           \/ \E n \in Rounds : ReviewFailed(n) \/ ReviewSuperseded(n)
  <2>1. AllSettled' = AllSettled
    BY <1>2, SettledUnchanged DEF ScanFailed, ScanRead, ScanCommit, Unchanged,
      ReviewFailed, ReviewSuperseded, IInv, TypeOK
  <2>2. QED
    BY <1>2, <2>1 DEF ScanFailed, ScanRead, ScanCommit, ReviewFailed,
      ReviewSuperseded
<1>3. QED  BY <1>1, <1>2 DEF WorkerNext

(* The request, with staff, clients and both workers at work on it, keeps the *)
(* lifecycle it promises.                                                     *)
THEOREM Refinement == Spec => LifecycleSpec
<1>1. Init => Lifecycle!Init
  BY InitInv, FreshIsUnsettled DEF Init, Lifecycle!Init
<1>2. IInv /\ IInv' /\ [Next]_vars => [Lifecycle!Next]_(Lifecycle!vars)
  <2> SUFFICES ASSUME IInv, IInv', [Next]_vars
               PROVE  Lifecycle!Next \/ UNCHANGED Lifecycle!vars
    OBVIOUS
  <2>1. CASE UNCHANGED vars
    BY <2>1, SettledUnchanged DEF vars
  <2>2. CASE Next
    BY <2>2, StaffRefines, PortalRefines, WorkerRefines DEF Next
  <2>3. QED  BY <2>1, <2>2
<1>3. QED  BY <1>1, <1>2, Invariance, PTL DEF Spec, LifecycleSpec, Lifecycle!Spec
=============================================================================
