------------------------------ MODULE ApiProofs ------------------------------
(* Proofs about Assignments, for any people and any number of replacements at *)
(* once, about Notices, for any users, about UploadLoop, for any number of    *)
(* HTTP requests, rows and chunks, about ReviewAnswer, for any receipts and   *)
(* lines, and about all parts of the API side by side.                        *)
EXTENDS MCApi, SessionsProofs, CommandsProofs

LEMMA AssignmentsInitInv == ASSUME AssignmentsInit PROVE AssignmentsInv
BY DEF AssignmentsInit, AssignmentsInv, AssignmentsTypeOK, DoomedOrOverlap, Stages, Open

(* A replacement moves on, and the rows stay as they are.                     *)
LEMMA StageInv ==
  ASSUME AssignmentsInv, NEW r \in Replacements, NEW s \in Stages, SetStage(r, s),
         s \in {"DELETING", "DELETED"} => assigned \subseteq doomed[r]' \cup overlap[r],
         doomed' \in [Replacements -> SUBSET People],
         list' \in [Replacements -> SUBSET People],
         \A o \in Replacements \ {r} : doomed'[o] = doomed[o],
         UNCHANGED <<accountants, assigned, overlap>>
  PROVE  AssignmentsInv'
<1>1. stage' = [stage EXCEPT ![r] = s]
  BY DEF SetStage
<1>2. AssignmentsTypeOK'
  BY <1>1 DEF AssignmentsInv, AssignmentsTypeOK
<1>3. DoomedOrOverlap'
  BY <1>1 DEF AssignmentsInv, AssignmentsTypeOK, DoomedOrOverlap, Open
<1>4. QED  BY <1>2, <1>3 DEF AssignmentsInv

LEMMA InsertInv ==
  ASSUME AssignmentsInv, NEW r \in Replacements, InsertAndCommit(r)
  PROVE  /\ AssignmentsInv'
         /\ list[r] \subseteq assigned' /\ assigned' \subseteq list[r] \cup overlap[r]
<1>1. AssignmentsTypeOK'
  BY DEF InsertAndCommit, SetStage, Stages, AssignmentsInv, AssignmentsTypeOK
<1>2. r \in Open
  BY DEF InsertAndCommit, Open
<1>3. list[r] \subseteq assigned' /\ assigned' \subseteq list[r] \cup overlap[r]
  BY <1>2 DEF InsertAndCommit, AssignmentsInv, DoomedOrOverlap
<1>4. Open' = Open \ {r}
  BY DEF InsertAndCommit, SetStage, Open, AssignmentsInv, AssignmentsTypeOK
<1>5. ASSUME NEW o \in Open', NEW u \in assigned'
      PROVE  u \in doomed'[o] \cup overlap'[o]
  <2>1. o \in Open /\ o # r /\ o \in Replacements
    BY <1>4, <1>5 DEF Open
  <2>2. overlap'[o] = overlap[o] \cup list[r]
    BY <2>1 DEF InsertAndCommit
  <2>3. doomed[o] \ doomed[r] \subseteq doomed'[o]
    BY <2>1 DEF InsertAndCommit
  <2>4. CASE u \in list[r]
    BY <2>2, <2>4
  <2>5. CASE u \in assigned \ doomed[r]
    BY <2>1, <2>2, <2>3, <2>5 DEF AssignmentsInv, DoomedOrOverlap
  <2>6. QED  BY <2>4, <2>5 DEF InsertAndCommit
<1>6. QED  BY <1>1, <1>3, <1>5 DEF AssignmentsInv, DoomedOrOverlap

LEMMA AssignmentsNextInv ==
  ASSUME AssignmentsInv, [AssignmentsNext]_assignmentVars PROVE AssignmentsInv'
<1>1. CASE UNCHANGED assignmentVars
  BY <1>1 DEF assignmentVars, AssignmentsInv, AssignmentsTypeOK, DoomedOrOverlap, Open
<1>2. ASSUME NEW r \in Replacements, NEW users \in SUBSET People, CheckAssignees(r, users)
      PROVE  AssignmentsInv'
  BY <1>2, StageInv DEF CheckAssignees, Stages, AssignmentsInv, AssignmentsTypeOK
<1>3. ASSUME NEW r \in Replacements, StartDelete(r) PROVE AssignmentsInv'
  BY <1>3, StageInv DEF StartDelete, RowsOfClient, Stages, AssignmentsInv, AssignmentsTypeOK
<1>4. ASSUME NEW r \in Replacements, EndDelete(r) PROVE AssignmentsInv'
  BY <1>4, StageInv DEF EndDelete, Stages, Open, AssignmentsInv, AssignmentsTypeOK,
    DoomedOrOverlap
<1>5. ASSUME NEW r \in Replacements, Fail(r) PROVE AssignmentsInv'
  BY <1>5, StageInv DEF Fail, Stages, AssignmentsInv, AssignmentsTypeOK
<1>6. ASSUME NEW u \in People, ChangeMember(u) PROVE AssignmentsInv'
  BY <1>6 DEF ChangeMember, AssignmentsInv, AssignmentsTypeOK, DoomedOrOverlap, Open
<1>7. QED
  BY <1>1, <1>2, <1>3, <1>4, <1>5, <1>6, InsertInv DEF AssignmentsNext

(* The inductive invariant of overlapping replacements.                       *)
THEOREM AssignmentsInvariance == AssignmentsSpec => []AssignmentsInv
BY AssignmentsInitInv, AssignmentsNextInv, PTL DEF AssignmentsSpec

(* Only the action that inserts commits a replacement.                        *)
LEMMA CommitIsInsert ==
  ASSUME AssignmentsInv, AssignmentsNext, NEW r \in Replacements,
         stage[r] # "COMMITTED", stage'[r] = "COMMITTED"
  PROVE  InsertAndCommit(r)
BY DEF AssignmentsNext, CheckAssignees, StartDelete, EndDelete, InsertAndCommit, Fail,
  ChangeMember, SetStage, AssignmentsInv, AssignmentsTypeOK

(* What a replacement leaves besides its list was committed while it ran.     *)
THEOREM ReplacementsLeaveLists == AssignmentsSpec => ReplacementLeavesList
<1>1. AssignmentsInv /\ [AssignmentsNext]_assignmentVars =>
        [\A r \in Replacements :
           stage[r] # "COMMITTED" /\ stage'[r] = "COMMITTED" =>
             list[r] \subseteq assigned' /\ assigned' \subseteq list[r] \cup overlap[r]]_assignmentVars
  BY CommitIsInsert, InsertInv
<1>2. QED  BY <1>1, AssignmentsInvariance, PTL DEF AssignmentsSpec, ReplacementLeavesList

-----------------------------------------------------------------------------
(* A change that moves the request, but for the ones the client is not told.  *)
LEMMA ChangeKinds ==
  ASSUME NEW c \in WorkflowEvents, c.from # c.to, <<c.from, c.to>> # <<"DRAFT", "CANCELLED">>,
         c.type # "FOLLOW_UP_ADDED"
  PROVE  \/ /\ c.type \in CLIENT_EVENTS
            /\ ~(c.from \in {"OPEN", "CHANGES_REQUESTED"} /\ c.to = "IN_REVIEW")
         \/ /\ c.type \in STAFF_EVENTS /\ c.type \notin CLIENT_EVENTS
            /\ c.from \in {"OPEN", "CHANGES_REQUESTED"} /\ c.to = "IN_REVIEW"
BY DEF WorkflowEvents, WorkflowEvent, CLIENT_EVENTS, STAFF_EVENTS

LEMMA ActTells ==
  ASSUME NEW c \in WorkflowEvents, NEW actor \in c.by, Act(c, actor),
         state' # state, <<state, state'>> # <<"DRAFT", "CANCELLED">>, latest'.type # "FOLLOW_UP_ADDED"
  PROVE  \A u \in OtherSide \ {latest'.actor} : <<u, events'>> \in unread'
<1>1. /\ state = c.from /\ state' = c.to
      /\ AddWorkflowEvent(c.type, actor, c.from # "DRAFT" \/ c.to # "CANCELLED")
  BY DEF Act
<1>2. c.from # "DRAFT" \/ c.to # "CANCELLED"
  BY <1>1
<1>3. /\ events' = events + 1
      /\ latest' = [type |-> c.type, actor |-> actor]
      /\ unread' = unread \cup {<<u, events + 1>> : u \in Recipients(c.type) \ {actor}}
  BY <1>1, <1>2 DEF AddWorkflowEvent
<1>4. latest'.actor = actor /\ c.type # "FOLLOW_UP_ADDED"
  BY <1>3
<1>5. OtherSide \subseteq Recipients(c.type)
  BY <1>1, <1>4, ChangeKinds DEF OtherSide, Recipients
<1>6. QED  BY <1>3, <1>4, <1>5

(* Whoever did not move the request himself is told that it moved.            *)
THEOREM OtherSideIsTold == NoticesSpec => MovesAreTold
<1>1. [NoticesNext]_noticeVars =>
        [state' # state /\ <<state, state'>> # <<"DRAFT", "CANCELLED">>
            /\ latest'.type # "FOLLOW_UP_ADDED"
         => \A u \in OtherSide \ {latest'.actor} : <<u, events'>> \in unread']_noticeVars
  BY ActTells DEF NoticesNext, MarkRead, MarkAllRead, SetActive
<1>2. QED  BY <1>1, PTL DEF NoticesSpec, MovesAreTold

-----------------------------------------------------------------------------
LEMMA UploadInitInv == ASSUME UploadInit PROVE UploadInv
BY UploadAssumption DEF UploadInit, UploadInv, UploadTypeOK, LoopIsUsed, HoldersAreOpen,
  ReadersAreSpooled, Phases, Handlers

LEMMA UploadNextInv ==
  ASSUME UploadInv, [UploadNext]_uploadVars PROVE UploadInv'
<1> USE UploadAssumption
    DEF UploadInv, UploadTypeOK, LoopIsUsed, HoldersAreOpen, ReadersAreSpooled, Coroutine, request
<1>1. CASE UNCHANGED uploadVars
  BY <1>1 DEF uploadVars
<1>2. ASSUME NEW p \in Callers, Call(p) PROVE UploadInv'
  BY <1>2 DEF Call, Enter, Phases
<1>3. ASSUME NEW p \in Callers, LockRow(p) PROVE UploadInv'
  BY <1>3 DEF LockRow, Enter, Phases
<1>4. ASSUME NEW p \in Callers, AwaitRead(p) PROVE UploadInv'
  BY <1>4 DEF AwaitRead, Enter, LeaveLoop, Phases
<1>5. ASSUME NEW p \in Callers, ChunkRead(p) PROVE UploadInv'
  <2>1. chunks[p] \in 0..MaxChunks /\ chunks[p] > 0 /\ chunks[p] - 1 \in 0..MaxChunks
    BY <1>5 DEF ChunkRead
  <2>2. UploadTypeOK' /\ LoopIsUsed' /\ HoldersAreOpen'
    BY <1>5, <2>1 DEF ChunkRead, Enter, Phases
  <2>3. ReadersAreSpooled'
    BY <1>5, <2>1 DEF ChunkRead, Enter
  <2>4. QED  BY <2>2, <2>3
<1>6. ASSUME NEW p \in Callers, Resume(p) PROVE UploadInv'
  BY <1>6 DEF Resume, Enter, Phases, Handlers
<1>7. ASSUME NEW p \in Callers, Commit(p) PROVE UploadInv'
  BY <1>7 DEF Commit, Enter, Release, LeaveLoop, Phases
<1>8. ASSUME NEW p \in Callers, Raise(p) PROVE UploadInv'
  BY <1>8 DEF Raise, Enter, LeaveLoop, Phases
<1>9. ASSUME NEW p \in Callers, Close(p) PROVE UploadInv'
  BY <1>9 DEF Close, Enter, Release, Phases
<1>10. QED
  BY <1>1, <1>2, <1>3, <1>4, <1>5, <1>6, <1>7, <1>8, <1>9 DEF UploadNext, UploadStep

LEMMA UploadInvariance == UploadSpec => []UploadInv
BY UploadInitInv, UploadNextInv, PTL DEF UploadSpec

(* If nobody can go on, the loop is kept by a coroutine that waits for a row,  *)
(* and whoever holds that row waits for the loop.                             *)
LEMMA SomeoneCanStep == ASSUME UploadInv PROVE OnlyStoppedBlocks
<1> SUFFICES ASSUME ~NoneUnderWay, \A p \in Callers : ~CanStep(p) PROVE Stopped
  BY DEF OnlyStoppedBlocks
<1>1. \A p \in Callers : phase[p] \notin {"HOLDING", "READING"}
  BY DEF CanStep
<1>2. \A p \in Callers : phase[p] = "LOCKING" =>
        /\ holder[row[p]] \in Callers
        /\ phase[holder[row[p]]] \in {"READ", "LEAVING"}
  BY <1>1 DEF CanStep, UploadInv, UploadTypeOK, HoldersAreOpen
<1>3. PICK p \in Callers : phase[p] \in {"LOCKING", "READ", "LEAVING"}
  BY <1>1 DEF NoneUnderWay, UploadInv, UploadTypeOK, Phases
<1>4. loop # Idle
  BY <1>2, <1>3 DEF CanStep
<1>5. loop \in Callers /\ Coroutine(loop) /\ phase[loop] = "LOCKING"
  BY <1>1, <1>4 DEF UploadInv, UploadTypeOK, LoopIsUsed
<1>6. QED
  BY <1>2, <1>5 DEF Stopped, Coroutine, UploadInv, ReadersAreSpooled

(* A circle of an upload that keeps the loop and of the holder of its row is  *)
(* the only way in which HTTP requests keep each other waiting: otherwise one *)
(* that is under way can take its next step.                                  *)
THEOREM NoOtherDeadlock == UploadSpec => []OnlyStoppedBlocks
BY UploadInvariance, SomeoneCanStep, PTL

(* Each step is one of finitely many that its request has to take.            *)
THEOREM UploadsGoForward == UploadSpec => WorkShrinks
<1>1. ASSUME UploadInv, UploadNext
      PROVE  \E p \in Callers : /\ Work(p)' < Work(p)
                                /\ \A q \in Callers \ {p} : Work(q)' = Work(q)
  <2>1. PICK p \in Callers : Call(p) \/ UploadStep(p)
    BY <1>1 DEF UploadNext
  <2>2. /\ \A q \in Callers : chunks[q] \in Nat
        /\ \A ph \in Phases : StepsLeft[ph] \in Nat
        /\ phase \in [Callers -> Phases]
    BY <1>1 DEF UploadInv, UploadTypeOK, Phases, StepsLeft
  <2>3. \A q \in Callers \ {p} : phase'[q] = phase[q] /\ chunks'[q] = chunks[q]
    BY <1>1, <2>1, <2>2 DEF UploadStep, Call, LockRow, AwaitRead, ChunkRead, Resume, Commit, Raise,
      Close, Enter, UploadInv, UploadTypeOK
  <2>4. \/ /\ chunks'[p] = chunks[p]
           /\ <<phase[p], phase'[p]>> \in
                {<<"ARRIVED", "LOCKING">>, <<"LOCKING", "HOLDING">>, <<"HOLDING", "READING">>,
                 <<"READ", "HOLDING">>, <<"HOLDING", "LEAVING">>, <<"LEAVING", "DONE">>}
        \/ chunks'[p] = chunks[p] - 1 /\ phase[p] = "READING" /\ phase'[p] = "READ"
    BY <1>1, <2>1, <2>2 DEF UploadStep, Call, LockRow, AwaitRead, ChunkRead, Resume, Commit, Raise,
      Close, Enter, UploadInv, UploadTypeOK
  <2>5. Work(p)' < Work(p)
    BY <2>2, <2>4 DEF Work, StepsLeft
  <2>6. QED  BY <2>3, <2>5 DEF Work
<1>2. UploadInv /\ [UploadNext]_uploadVars =>
        [\E p \in Callers : /\ Work(p)' < Work(p)
                            /\ \A q \in Callers \ {p} : Work(q)' = Work(q)]_uploadVars
  BY <1>1
<1>3. QED  BY <1>2, UploadInvariance, PTL DEF UploadSpec, WorkShrinks

(* The upload p waits for the row that q holds, and q for the loop.           *)
LEMMA StoppedStep ==
  ASSUME UploadInv, UploadNext, Stopped PROVE Stopped'
<1>1. PICK p \in Callers, q \in Callers :
        /\ loop = p /\ handler[p] # "PLAIN" /\ phase[p] = "LOCKING"
        /\ holder[row[p]] = q
        /\ \/ handler[q] = "SPOOLED_UPLOAD" /\ phase[q] \in {"READING", "READ"}
           \/ phase[q] = "LEAVING"
  BY DEF Stopped
<1>2. loop # Idle /\ holder[row[p]] # Free /\ row[p] \in Rows /\ p # q
  BY <1>1, UploadAssumption DEF UploadInv, UploadTypeOK
<1>3. PICK x \in Callers : Call(x) \/ UploadStep(x)
  BY DEF UploadNext
<1>4. \/ LockRow(x) /\ x # p
      \/ AwaitRead(x) \/ ChunkRead(x) \/ Commit(x) \/ Raise(x)
  BY <1>1, <1>2, <1>3 DEF Call, UploadStep, LockRow, Resume, Close
<1>5. handler' = handler /\ row' = row
  BY <1>4 DEF LockRow, AwaitRead, ChunkRead, Commit, Raise, request
<1>6. x # p /\ loop' = p /\ phase'[p] = "LOCKING"
  BY <1>1, <1>4 DEF LockRow, AwaitRead, ChunkRead, Commit, Raise, Enter, LeaveLoop,
    UploadInv, UploadTypeOK
<1>7. phase'[q] = phase[q] \/ (phase[q] = "READING" /\ phase'[q] = "READ")
  BY <1>1, <1>4 DEF LockRow, AwaitRead, ChunkRead, Commit, Raise, Enter, UploadInv, UploadTypeOK
<1>8. holder'[row[p]] = q
  <2>1. CASE LockRow(x)
    BY <1>1, <1>2, <2>1 DEF LockRow, UploadInv, UploadTypeOK
  <2>2. CASE Commit(x)
    <3>1. x # q
      BY <1>1, <2>2 DEF Commit
    <3>2. QED  BY <1>1, <1>2, <2>2, <3>1 DEF Commit, Release
  <2>3. CASE AwaitRead(x) \/ ChunkRead(x) \/ Raise(x)
    BY <1>1, <2>3 DEF AwaitRead, ChunkRead, Raise
  <2>4. QED  BY <1>4, <2>1, <2>2, <2>3
<1>9. QED  BY <1>1, <1>5, <1>6, <1>7, <1>8 DEF Stopped

(* A server that has stopped stays stopped: no handler, however many threads  *)
(* are left, can end what the upload and the holder of its row wait for.      *)
THEOREM StoppedForGood == UploadSpec => [](Stopped => []Stopped)
<1>1. UploadInv /\ Stopped /\ [UploadNext]_uploadVars => Stopped'
  BY StoppedStep DEF uploadVars, Stopped
<1>2. QED  BY <1>1, UploadInvariance, PTL DEF UploadSpec

-----------------------------------------------------------------------------
LEMMA LinesAreNumbered ==
  ASSUME AnswerTypeOK, NEW l \in ClaimLines
  PROVE  l[1] \in {"EARLIER", "LATER"} /\ l[2] \in Nat /\ l = <<l[1], l[2]>>
<1>1. PICK c \in Current : l \in {c} \X DOMAIN claimRead[c]
  BY DEF ClaimLines
<1>2. c \in {"EARLIER", "LATER"}
  BY DEF Current
<1>3. \E n \in Nat : claimRead[c] \in [1..n -> Prices]
  <2>1. claimRead["EARLIER"] \in Readings(1) /\ claimRead["LATER"] \in Readings(MaxLines)
    BY DEF AnswerTypeOK
  <2>2. \A n \in Nat : 0..n \subseteq Nat
    OBVIOUS
  <2>3. QED  BY <1>2, <2>1, <2>2, AnswerAssumption DEF Readings
<1>4. DOMAIN claimRead[c] \subseteq Nat
  BY <1>3
<1>5. QED  BY <1>1, <1>2, <1>4

(* The lines are matched in some order.                                       *)
LEMMA LinesAreOrdered ==
  ASSUME AnswerTypeOK, NEW l \in ClaimLines, NEW m \in ClaimLines
  PROVE  l # m <=> Before(l, m) \/ Before(m, l)
BY LinesAreNumbered DEF Before

(* Receipts taken in turn serve one line each.                                *)
LEMMA FirstsAreDistinct ==
  ASSUME AnswerTypeOK, NEW taken \in [ClaimLines -> ReceiptDocs],
         \A l \in ClaimLines : TakesFirst(taken, l)
  PROVE  /\ \A l, m \in ClaimLines : taken[l] = taken[m] => l = m
         /\ \A l \in ClaimLines : receiptRead[taken[l]] = Amount(l)
<1>1. \A l, m \in ClaimLines : Before(m, l) => taken[m] # taken[l]
  BY DEF TakesFirst, Fits
<1>2. \A l, m \in ClaimLines : taken[l] = taken[m] => l = m
  BY <1>1, LinesAreOrdered
<1>3. QED  BY <1>2 DEF TakesFirst, Fits

(* If no two receipts have the same amount, no line can take another one.     *)
LEMMA DistinctAreFirsts ==
  ASSUME AnswerTypeOK, DifferentAmounts, NEW given \in [ClaimLines -> ReceiptDocs],
         \A l, m \in ClaimLines : given[l] = given[m] => l = m,
         \A l \in ClaimLines : receiptRead[given[l]] = Amount(l)
  PROVE  \A l \in ClaimLines : TakesFirst(given, l)
<1> SUFFICES ASSUME NEW l \in ClaimLines PROVE TakesFirst(given, l)
  OBVIOUS
<1>1. PICK i \in DOMAIN Receipts : given[l] = Receipts[i]
  BY DEF ReceiptDocs
<1>2. \A m \in ClaimLines : Before(m, l) => given[m] # given[l]
  BY LinesAreOrdered
<1>3. i \in Fits(given, l)
  BY <1>1, <1>2 DEF Fits
<1>4. ASSUME NEW j \in Fits(given, l) PROVE j = i
  <2>1. /\ j \in DOMAIN Receipts /\ Receipts[j] \in ReceiptDocs
        /\ receiptRead[Receipts[j]] = receiptRead[Receipts[i]]
    BY <1>1 DEF Fits, ReceiptDocs
  <2>2. Receipts[j] = Receipts[i]
    BY <1>1, <2>1 DEF DifferentAmounts
  <2>3. QED  BY <2>1, <2>2, AnswerAssumption
<1>5. i \in Nat
  BY AnswerAssumption
<1>6. QED  BY <1>1, <1>3, <1>4, <1>5 DEF TakesFirst

(* The greedy choice of the code, compared with any choice of receipts.       *)
LEMMA AcceptedAnswers ==
  ASSUME AnswerTypeOK, Relevant
  PROVE  /\ ReceiptsAccepted => Backed
         /\ DifferentAmounts /\ Backed => ReceiptsAccepted
<1>1. finding.sums \in [Current -> SUBSET ReceiptDocs]
  BY DEF AnswerTypeOK, Findings
<1>2. ASSUME ReceiptsAccepted PROVE Backed
  <2>1. PICK taken \in [ClaimLines -> ReceiptDocs] :
         /\ \A l \in ClaimLines : TakesFirst(taken, l)
         /\ Current \cup {taken[l] : l \in ClaimLines} \subseteq finding.cites
         /\ finding.target = "EXPENSE_CLAIM" => finding.sums = [c \in Current |-> TakenBy(taken, c)]
    BY <1>2 DEF ReceiptsAccepted
  <2>2. /\ \A l, m \in ClaimLines : taken[l] = taken[m] => l = m
        /\ \A l \in ClaimLines : receiptRead[taken[l]] = Amount(l)
    BY <2>1, FirstsAreDistinct
  <2>3. finding.target = "EXPENSE_CLAIM" => \A c \in Current : finding.sums[c] = TakenBy(taken, c)
    BY <2>1
  <2>4. QED  BY <1>2, <2>1, <2>2, <2>3 DEF ReceiptsAccepted, Backed
<1>3. ASSUME DifferentAmounts, Backed PROVE ReceiptsAccepted
  <2>1. PICK given \in [ClaimLines -> ReceiptDocs] :
       /\ \A l, m \in ClaimLines : given[l] = given[m] => l = m
       /\ \A l \in ClaimLines : receiptRead[given[l]] = Amount(l)
       /\ Current \cup {given[l] : l \in ClaimLines} \subseteq finding.cites
       /\ finding.target = "EXPENSE_CLAIM" =>
            \A c \in Current : finding.sums[c] = TakenBy(given, c)
    BY <1>3 DEF Backed
  <2>2. \A l \in ClaimLines : TakesFirst(given, l)
    BY <1>3, <2>1, DistinctAreFirsts
  <2>3. finding.target = "EXPENSE_CLAIM" => finding.sums = [c \in Current |-> TakenBy(given, c)]
    BY <1>1, <2>1
  <2>4. QED  BY <1>3, <2>1, <2>2, <2>3 DEF ReceiptsAccepted, Backed
<1>4. QED  BY <1>2, <1>3

LEMMA AnswerInitInv == ASSUME AnswerInit PROVE AnswerTypeOK /\ AcceptedIsBacked
BY DEF AnswerInit, AnswerTypeOK, AcceptedIsBacked

LEMMA ReadStays ==
  ASSUME UNCHANGED <<superseded, claimRead, receiptRead, finding>>
  PROVE  Relevant' = Relevant /\ ValidAction' = ValidAction /\ Backed' = Backed
         /\ DifferentAmounts' = DifferentAmounts
BY DEF Relevant, ValidAction, Backed, DifferentAmounts, Current, ClaimLines, Amount, TakenBy

LEMMA AnswerNextInv ==
  ASSUME AnswerTypeOK, AcceptedIsBacked, [Validate]_answerVars
  PROVE  AnswerTypeOK' /\ AcceptedIsBacked'
<1>1. UNCHANGED <<superseded, claimRead, receiptRead, finding>>
  BY DEF Validate, answerVars
<1>2. CASE UNCHANGED answerVars
  BY <1>1, <1>2, ReadStays DEF answerVars, AnswerTypeOK, Findings, Current, AcceptedIsBacked
<1>3. CASE Validate
  <2>1. AnswerTypeOK'
    BY <1>3 DEF Validate, AnswerTypeOK, Findings, Current
  <2>2. Relevant /\ ValidAction =>
          /\ verdict' = "ACCEPTED" => Backed
          /\ verdict' = "REFUSED" /\ DifferentAmounts => ~Backed
    BY <1>3, AcceptedAnswers DEF Validate
  <2>3. QED  BY <1>1, <2>1, <2>2, ReadStays DEF AcceptedIsBacked
<1>4. QED  BY <1>2, <1>3

(* An answer that is accepted has receipts for every line of the claims, and  *)
(* one that has them is accepted if no two receipts have the same amount, for *)
(* any receipts and any lines.                                                *)
THEOREM AcceptedAnswersAreBacked == AnswerSpec => []AcceptedIsBacked
<1>1. AnswerInit => AnswerTypeOK /\ AcceptedIsBacked
  BY AnswerInitInv
<1>2. AnswerTypeOK /\ AcceptedIsBacked /\ [Validate]_answerVars => AnswerTypeOK' /\ AcceptedIsBacked'
  BY AnswerNextInv
<1>3. QED  BY <1>1, <1>2, PTL DEF AnswerSpec

-----------------------------------------------------------------------------
LEMMA NoticesInitInv == ASSUME NoticesInit PROVE NoticesTypeOK
BY NoticesAssumption DEF NoticesInit, NoticesTypeOK, States, Users

(* Notifications are of events that are there.                                *)
LEMMA NoticesNextInv ==
  ASSUME NoticesTypeOK, [NoticesNext]_noticeVars PROVE NoticesTypeOK'
<1>1. CASE UNCHANGED noticeVars
  BY <1>1 DEF noticeVars, NoticesTypeOK
<1>2. ASSUME NEW u \in Users, NEW e \in 1..MaxEvents, MarkAllRead(u) \/ SetActive(u) \/ MarkRead(u, e)
      PROVE  NoticesTypeOK'
  BY <1>2 DEF MarkAllRead, SetActive, MarkRead, NoticesTypeOK
<1>3. ASSUME NEW c \in WorkflowEvents, NEW actor \in c.by, Act(c, actor) PROVE NoticesTypeOK'
  <2>1. c.by \subseteq Users \cup {"SYSTEM"} /\ c.to \in States
    BY DEF WorkflowEvents, WorkflowEvent, Users, Staff, States
  <2>2. Recipients(c.type) \subseteq Users
    BY DEF Recipients, Users, NoticesTypeOK
  <2>3. events \in Nat /\ events + 1 \in 0..MaxEvents /\ 1..(events + 1) = 1..events \cup {events + 1}
    BY <1>3, NoticesAssumption DEF Act, NoticesTypeOK
  <2>4. unread' \subseteq Users \X (1..(events + 1))
    BY <1>3, <2>2, <2>3 DEF Act, AddWorkflowEvent, NoticesTypeOK
  <2>5. QED  BY <1>3, <2>1, <2>3, <2>4 DEF Act, AddWorkflowEvent, NoticesTypeOK
<1>4. ASSUME NEW u \in Users, MarkAllRead(u) \/ SetActive(u) PROVE NoticesTypeOK'
  BY <1>4 DEF MarkAllRead, SetActive, NoticesTypeOK
<1>5. QED  BY <1>1, <1>2, <1>3, <1>4 DEF NoticesNext

LEMMA AnswerStepType == ASSUME AnswerTypeOK, [Validate]_answerVars PROVE AnswerTypeOK'
BY DEF Validate, answerVars, AnswerTypeOK, Findings, Current

(* The parts side by side keep the invariant of each of them.                 *)
THEOREM ApiInvariance == Spec => []ApiInv
<1>1. Init => ApiInv
  BY SessionsInitInv, CommandsInitInv, NoticesInitInv, UploadInitInv, AnswerInitInv,
     AssignmentsInitInv DEF Init, ApiInv
<1>2. ASSUME ApiInv,
             [Next]_<<part, sessionVars, commandVars, noticeVars, uploadVars, answerVars,
                      assignmentVars>>
      PROVE  ApiInv'
  <2>1. /\ [SessionsNext]_sessionVars /\ [CommandsNext]_commandVars
        /\ [NoticesNext]_noticeVars /\ [UploadNext]_uploadVars
        /\ [Validate]_answerVars /\ [AssignmentsNext]_assignmentVars
    BY <1>2 DEF Next
  <2>2. SessionsInv' /\ CommandsInv' /\ NoticesTypeOK'
    BY <1>2, <2>1, SessionsNextInv, CommandsNextInv, NoticesNextInv DEF ApiInv
  <2>3. UploadInv' /\ AnswerTypeOK' /\ AssignmentsInv'
    BY <1>2, <2>1, UploadNextInv, AnswerStepType, AssignmentsNextInv DEF ApiInv
  <2>4. QED  BY <2>2, <2>3 DEF ApiInv
<1>3. QED  BY <1>1, <1>2, PTL DEF Spec

=============================================================================
