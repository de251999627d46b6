# acc-system-backend in TLA+

The backend collects bookkeeping documents from a firm's clients. Staff publish a
*collection request* with *requirements*, the client uploads documents and submits
them in *rounds*, a worker scans the documents, an agent (optionally) reviews each
round, and staff accept, waive or return each requirement until the request is
`READY_FOR_BOOKKEEPING`. This directory holds TLA+ models of the parts whose
interleavings decide whether that works, the TLC runs that check them, and proofs
that TLAPS checks.

All paths below are relative to `src/`.

## 1. Inventory

| part | code | state | operations |
|---|---|---|---|
| Staff API of requests | `app/api/collections.py` | `collection_requests`, `requirements`, `idempotency_records` | create, copy, update, publish, cancel, add/update/delete requirement |
| Client portal | `app/api/portal.py` | `submissions`, `requirement_documents`, `documents`, quarantine files | upload, stage, exclude, submit |
| Staff review | `app/api/review.py` | `review_decisions`, statuses, `ai_runs` | decide, request changes, approve, reopen, retry the AI review |
| AI review worker | `app/review_analysis.py` | `ai_runs`, `review_decisions`, findings | enqueue, claim, call the agent, commit an answer |
| Document worker | `app/worker.py` | `documents`, quarantine and store files | claim, scan, copy, store, release, retry |
| Classification | `app/api/classification.py`, `app/classification_worker.py` | `ai_runs`, drafts | enqueue, run, confirm |
| Accounts | `app/api/accounts.py` | `users`, `firm_members`, `client_members`, `clients`, `user_invites`, `client_assignments` | invite, revoke, resend, change roles, disable, assign |
| Sign-in | `app/auth.py`, `app/api/auth.py` | redis sessions, password hashes | login, refresh, logout, change or reset a password, accept invitation |
| Notifications | `app/notifications.py`, `app/api/notifications.py` | `workflow_events`, `notifications` | emit, list, mark read |
| Frame | `app/main.py`, `db.py`, `cli.py`, `config.py`, `models.py`, `migrations/`, `deploy/` | – | wiring, schema, bootstrap |

How they interact. API handlers run concurrently (threads of one process, and any
number of processes); they share the database, and most take the row lock of the
request (`_load_request(lock=True)`), of the firm (`lock_firm`) or of the client first.
`upload_document` is the one handler that is a coroutine and runs on the event loop.
The worker process polls the database for documents, then classifications, then
reviews; it takes no request lock while it calls ClamAV or the agent. There are no
messages: everything is a row that somebody reads later.

What is hard about it:

* **Reads before locks.** `exclude_document` reads its link before it locks the
  request; every handler reads its principal before it locks anything, and the
  SQLAlchemy session keeps the rows the principal holds as read; `_finish` reads requirements without
  a lock and writes them under a version check.
* **Long calls without transactions.** A review runs for minutes between two
  transactions; in the meantime people move the request on, the lease runs out, the
  worker dies.
* **Two stores.** A document is a row and a file, in quarantine or in the store, and
  no transaction covers both. Passwords are rows and sessions are redis keys, and a user's
  sessions are found through a redis set that is read and deleted in two steps.
* **Locks of different rows.** Accounts are disabled under the firm's lock, and a client's
  administrators are counted under the client's.
* **Locks on the event loop.** `upload_document` waits for a row lock in a blocking call
  on the event loop, and gives the loop away while it holds the lock.
* **Orders.** "Newest" is decided by `created_at`, which is the *start* of the
  inserting transaction.
* **Retries.** Documents, reviews and classifications are tried again, by leases,
  backoffs, and people; commands are sent again with an idempotency key, refresh tokens
  after a lost answer.
* **Versions.** A caller names the version he saw, and some changes do not count it up.

Correctness, per part: an approved request has nothing open, and accepted items stay
accepted; the documents of a round under review do not change; the AI decides only
what is open in the round under review; every review and every scan ends; no file is
lost or stored unscanned; a firm and a client keep an administrator; revoked sessions
end; a repeated command counts once; whoever has to act next is told; requests are answered.
`PROJECT.json` lists every hazard with its line and the properties aimed at it.

## 2. Modules

| module | models | composed with |
|---|---|---|
| `RequestLifecycle` | the abstract promise: status, round, "everything settled" | implemented by `Collection` |
| `Collection` | one request: staff, portal, document worker's and AI worker's writes | `INSTANCE RequestLifecycle` |
| `ReviewTask` | the abstract promise of the AI review of each round | implemented by `ReviewRun` |
| `ReviewRun` | the queue of reviews: leases, crashes, turns, attempts | `INSTANCE ReviewTask` |
| `DocumentScan` | files and rows of documents through upload, scan and store | – |
| `ClassificationRun` | the queue of classifications and what the client does to it | – |
| `Membership` | administrators, invitations, disabled accounts | – |
| `Sessions` | sign-in, refresh, revocation | `MCApi` |
| `Commands` | idempotency keys and versions | `MCApi` |
| `Notices` | workflow events and notifications | `MCApi` |
| `UploadLoop` | the event loop, threads and row locks | `MCApi` |
| `ReviewAnswer` | the receipts behind an AI answer | `MCApi` |
| `Assignments` | accountants of a client | `MCApi` |
| `MC*` | small instances for TLC | |
| `*Proofs` | theorems and their proofs | extend the module they are about |

### Collection

One variable per table the handlers share: `status` (the request), `rstat`
(requirements), `docs`, `round`/`draft` (submissions: rounds `1..round` are SUBMITTED,
`draft` says whether round `round+1` exists as DRAFT), `links`
(`requirement_documents`), `manual`, `run` (newest REVIEW run per round), `last` (newest
decision per requirement). Handlers that lock the request are one action each
(`Publish`, `Cancel`, `AddRequirement`, `Upload`, `ConfirmClassification`, `Submit`,
`ReviewRequirement`, `RequestChanges`, `Approve`, `Reopen`, `RetryReview`, ...). What is read
outside the lock is a step of its own, remembered in `excludes` (`ExcludeRead`,
`ExcludeLock`) and `scans` (`ScanRead`, `ScanCommit`).

* `links[n][t][d]` is the state of all rows of one round, target and document. A row
  added after an exclusion may sort after it (`READDED`) or before it (`SHADOWED`),
  because rows are ranked by the start of their transactions.
* A `StaleDataError` is a step without effect: the handler rolls back.
* `AIMode` is a constant, since `update_collection` changes it only in `DRAFT`.
* A run is `LIVE` or ended; `ReviewRun` refines that.
* One scan of a document is open at a time: the lease, with the one worker process of
  `deploy/compose.yml`.
* `Attachable` bounds which document a client may put where, `MaxRounds` the rounds,
  `MaxExcludes` the overlapping removals.
* Edited texts, copied requests, queries, events and idempotency records change none
  of these variables.

### ReviewRun

`runs` are the `ai_runs` rows in order of creation, `work` what each worker holds in
memory between its two transactions. `Claim`/`ClaimExhausted` are the first transaction,
`DropAnswer` and the `Commit...` actions the second; the answer is chosen in the second
because nothing sees it before. `LeaseExpires`, `BackoffEnds` and `Crash` may come at any
time. `expired` and `due` are the comparisons of `locked_until` and `next_attempt_at`
with the clock. The people's actions are those of `Collection`, reduced to the request's
status and round.

### DocumentScan

Every file is `NONE`, `PARTIAL` or `WHOLE` (the expected hash) at three places:
quarantine, the temporary copy, the store. Each step of `process_next_document` that
touches a file or a row is an action, and the worker may die between any two. `attempts`
is counted at the claim and checked only after an error, as in the code, so a death can
give a document one more attempt; `TypeOK` bounds it by `MaxAttempts + crashes`. What `_finish` does to
requirements is in `Collection`. The outcome of a commit is assumed to be known: the
upload's handler removes the file on any error, and an error from a commit that was
applied would leave a row without its file.

### ClassificationRun

`runs` are the `ai_runs` rows with purpose CLASSIFY; `staged` is the snapshot's list of
files, `output` the files to which the result gives a category other than INVALID, `chosen`
those the client added. `work` is what a worker read at the claim. As in `ReviewRun` the
two transactions of `process_classification` are `Claim` (or `Postpone`) and one of
`Succeed`, `TryLater`, `GiveUp`, `DropAnswer`. The client's requests lock the run and come
at any time between them; those that clear the lock (`CancelRun`, `ManualRun`) make the
answer one to be dropped. Attempts are counted at the claim and compared only when the
agent failed, so `TypeOK` bounds them by `MaxAttempts + lost`, `lost` counting workers
that died or outlasted their lease. Which requirement a file is put to is left to
`Collection`'s `ConfirmClassification`.

### Membership

A request is `Begin` (the principal is read) and a handler that ends it. Handlers read
the rows that the principal keeps, his user and his memberships of active clients, as they
were (`StatusRead`, `ClientRoleRead`), and all others, his own membership of the firm
among them, under the lock: `load_principal` keeps of that one only the role. So a role
checked at the door (`IsFirmAdmin`) may be out of date, and the role that `ChangeFirmRole`
changes is not.

Handlers that lock the firm are one action. `update_client_member` locks the client only,
and `update_user` may come between its check and its commit: it is `CheckMember`, which
puts the change into `held`, and `CommitMember` or `Rollback`. While a change is held, what
needs the client's row waits: other changes, invitations to the client and their
acceptance, `UpdateClient`. `others` in it is history: the other active administrators at
the check.

Only pending invitations are kept: an expired one is one that nobody accepts, resending a
revoked one is inviting again. There is one firm and one client; a user has one request
whose principal is loaded at a time, beside those that hold the client; `Assignments` has
the accountants.

### Sessions

A sign-in is `LoginVerify` (the password and the user's status are read), then
`CreateSession` (the redis transaction); `LoginFails` is an error between. `live` are the
session keys, `index` the members of the users' sets; a session in `outlasting` has a key
that expires after the set. A refresh is `RefreshRotate` (the script) and `RefreshLoad`
(the principal), or `RefreshReused` and `RefreshRefuse` for an older token;
`RefreshFails` is an error or a stop of the server between, after which the session
stays. `Admit`, `List`,
`RevokeListed`, `CommitRevocation` are the steps of `change_password`,
`confirm_password_reset` and the disabling in `update_user`; `AbortRevocation` may end
each. `outdated` and `overlapped` are history: what was verified with a replaced password,
and what overlapped a revocation's steps from `List` to its end. Rate limits, the encoding
of tokens and the access tokens' own lifetime are left out: every access looks the session
up, so one that is not live is not used.

### Commands

Calls are put into `sent` and stay there until they are lost, so they may arrive late,
twice and in any order. A command that commits is one step, because it takes the lock of
the firm first; a failed one leaves nothing. `records` are the `idempotency_records`;
`recent` and `done` are history (what a key did in 24 hours, what a call did ever). A
request is its status, version, text, list of requirements and whether it has follow-ups;
`Bumped` is the ORM's version count, which `_event`'s bulk update and a change of a
requirement's row leave alone. Whether the requirements allow a transition is
`Collection`'s matter.

### Notices

The status of a request, its events as they are written by the handlers of the other
modules, and the unread notifications per user. `WorkflowEvents` is the table of events
with who causes them and the statuses before and after.

### UploadLoop

Each HTTP request is a `Call`, then `LockRow`, for a spooled upload `AwaitRead`,
`ChunkRead`, `Resume` per chunk, then `Commit` or `Raise`, and `Close` (the end of
`get_db`, which needs the loop). `loop` is the coroutine that runs or blocks on the event
loop, `holder` who holds each row. A body of at most 1 MB is not spooled, and its reads
do not give the loop away. `Work` counts the steps that a request has left, and
`WorkShrinks` says that every step takes one request forward and none back.

### ReviewAnswer

Not a process but a function: an answer is chosen at the start and validated in one step,
and `Backed` is the reference definition (some assignment of receipts to lines) against
which `ReceiptsAccepted` is compared. The code goes through the lines and gives each the
first unused receipt of its amount; the module says so of the whole assignment: it is the
one in which every line takes the first receipt (`TakesFirst`) that no line before it took
(`Fits`), and the answer is refused if there is none. That keeps recursion out of the
module, so that the comparison can be proved and not only checked. Currency belongs to the amount; what else `validate_review` refuses (unknown or
missing findings) is left to `ReviewRun`, where a refused answer is one of the answers.

### Assignments

A replacement is `CheckAssignees`, `StartDelete` (what the statement sees), `EndDelete`
(it has locked those rows), `InsertAndCommit` or `Fail`, under READ COMMITTED. `overlap`
is history: what others committed since.

### MCApi

These six parts share no variable: what would couple them (a published request, a disabled
user) is in each part an input that may come at any time. `part` selects which of them
moves in a behaviour while the others stay as they start, so the instance has the sum and
not the product of their states; no property is about two of them.

## 3. Runs

| run | question | bounds | distinct states |
|---|---|---|---|
| `review` | do review decisions, AI answers, scans and submissions keep the promises? | 2 requirements (one required), 2 files, 2 rounds, AUTO_REVIEW, review limit 1 file | 439,962 |
| `removals` | do removals that read before they lock break a round, and scans that read before people decide undo it? | 2 requirements, a file each, 2 rounds, 1 open removal, AI off | 800,674 |
| `immutable` (violation) | can a document of a submitted round be removed? | 1 requirement, 1 file | |
| `retry` (violation) | can a review shown as failed always be retried? | 1 requirement, 1 file | |
| `carried` (violation) | is every active unreviewed file carried forward? | 2 requirements, a file each | |
| `review_run` | does the queue survive crashes, leases, retries? | 2 workers, 2 runs, 2 rounds, 1 search turn, 2 attempts | 43,828 |
| `document_scan` | does every file survive crashes and end? | 2 documents, one with malware, 3 attempts, 2 crashes | 11,894 |
| `membership` | do stale principals break roles and invitations? | 2 people, 2 pending invitations | 91,325 |
| `firm_admin` (violation) | does the firm keep an administrator? | the same | |
| `client_admin` (violation) | does the client keep an administrator? | the same | |
| `api` | do revocations end sessions, repeated commands count once, versions fix what was seen, moves reach who must act, uploads get answered, receipts back answers, lists replace lists? | per part, see below | 297,718 |
| `classification` | do late answers, cancellations and scans leave every classification whole and ended? | 1 run, 2 files, 2 workers, 2 claims, 2 deaths or outlasted leases | 4,458 |

Why the bounds are enough to meet the hard cases: two rounds are the least in which
something is returned, carried and submitted again, and in which an answer can be about
an earlier round; two files let one be carried and another be new, and exceed the
review limit of one; one removal between its read and its lock suffices for each stale
read, since removals do not see each other's reads; two workers are the least that can
both believe they own a run; two attempts and one search turn reach every branch of
`process_review`; two people can each change the other, and one of them has a request that
holds the client while he begins the next.

Those of `api`: one user with two sign-ins, a password change and a disabling (a session
made while the set is read, which no later revocation finds, needs one sign-in and two
revocations; a reused token one more refresh); one key, two requests, two calls on their
way and versions up to 6, the least at which a request has come back to `IN_REVIEW` by a
withdrawn approval while the first approval is still on its way (the second request is
only created or copied, never moved: `MCMaxVersions`); 4 events, so that a request is
published, submitted, returned and submitted again, with a user who is both member and
staff; 3 HTTP requests for one row and bodies of up to 2 chunks (an upload that waits for
one that reads, with a plain handler between); two claims of 1 and 2 lines, two receipts
and two amounts (equal receipts, different ones, and lines that compete); two
replacements with lists of two people.

The proofs do not depend on these bounds.

`CHECK_DEADLOCK FALSE` in `Collection` (a cancelled request with all rounds used is
over), `ReviewRun` (all runs ended and the request closed), `DocumentScan` (all documents
ended), `ClassificationRun` (a client who starts nothing leaves nothing to do),
`Membership` (nobody is left who may begin a request), and `MCApi` (everything is answered,
or the server has stopped).

### Fairness

Safety runs use none. Four properties are about the end of work:

* `EveryRunEnds` (`ReviewRun`): leases and backoffs run out because time passes;
  `urlopen` has a timeout, so the second transaction comes or the worker dies; the
  workers' loop polls, documents and classifications before reviews, whose backlog is
  finite. `Finish` is weakly fair per worker, the claim for all workers together.
  Crashes stay unrestricted, because an attempt is counted when it is claimed; nothing
  is assumed of people. A lease of 330 s is longer than one read of the agent
  (300 s) but not than every answer, so it may expire during a call.
* `EveryDocumentEnds` (`DocumentScan`): the same, with documents first in the loop.
  Deaths of the worker are finite (`MaxCrashes`): since attempts are checked only after
  an error, a document that kills the worker every time would be claimed forever, and
  nothing in the code excludes that.
* `EveryClassificationEnds` (`ClassificationRun`): scans end (the property above), leases and
  backoffs run out, answers return because their reads have a timeout, and the claim is
  weakly fair for all workers together. Deaths and outlasted leases are finite
  (`MaxLost`), for the same reason. Nothing is assumed of the client.
* `EveryCallEnds` (`UploadLoop`): the loop and the threads go on with what they have taken
  up, and postgres grants a free row (`UploadStep`); whether a request is taken up is not
  assumed. The property allows one exception, `<>[]Stopped`, in which no such step is left
  for those who wait.

### Mutants

Every property of a passing run has a mutant in `PROJECT.json`: the operator with the
comment *mutant* is the change, and the property must fail with it.

## 4. Proofs

Assumed are the `ASSUME`s of the modules only: sets finite where the code counts them,
bounds natural, special values outside their sets.

* `CollectionProofs`: `IInv` is inductive, and with it every invariant and action property
  of the two passing runs, and `LifecycleSpec`. The invariants alone are not
  inductive: `UnreviewedIsBacked` needs that active links have documents and that a
  scan writes requirements of linked documents only; `StatusFollowsDecision` needs that
  an undecided requirement has no decision row and that a draft request is untouched
  by scans (`DraftIsUntouched`), and gives `AcceptedStands` (an accepted item that changes
  has a new decision row, because the old one says what it was); `AIDecidesCurrentRound` needs that a manual round has no
  run. `ReviewHasNoDraft` follows because every handler that opens a draft checks the
  request's status under the lock. Beside each violated statement stands what holds in its
  place, proved: `SubmittedEvidenceFrozen` (for `SubmittedRoundImmutable`),
  `StrandedByReopen` (for `FailedReviewCanBeRetried`) and `OnlyShadowedIsLost` (for
  `UnreviewedIsCarried`, from the invariant that a request nobody submitted has no round,
  `FreshHasNoRound`; no run lists it, TLC found no violation of it on the instance of
  `removals`).
* `ReviewRunProofs`: `QueueInv` says that rows are the runs `1..count` in order of their
  rounds, that only the last run of a round may be live (`LastIsLive`), that a run is
  locked exactly while it is processed, and that the worker who holds it works on its
  turn and attempt (`OwnerIsCurrent`). From it: `OneLiveRunPerRound`,
  `AnswersFitTheTurn`, and `QueueImplementsTask` (`Spec => TaskSpec`): under the mapping
  `TaskOf` each claim, retry of a call and search turn is a stutter, and each end of a
  run is the step of `ReviewTask` with that end. `RoundsHaveLast` (a nonempty round has a
  last run) is carried in the invariant, since it would otherwise need induction.
  `IInv` adds that only queued runs pause (`PausedIsQueued`), from which `RunsGoForward`:
  every write to a run's row takes it forward in the order of turn, attempt and `Stage`.
* `DocumentScanProofs`: `WorkerKnows` ties where the worker stands to what is in the store
  (past the scan the document is clean and not yet stored, past the move it is stored
  whole), `TriesLeft` counts attempts. From `StoreInv`, which joins them: no document is
  lost, the store is whole and clean. `IInv` adds that nobody holds an ended document
  (`RowsAtRest`), from which `DocumentsGoForward`.
* `ClassificationRunProofs`: `WorkerKnows` (the owner of a run holds exactly its safe files,
  all of them scanned) makes `OutputFits` inductive: a started run takes no more files, and
  a scan touches none of a run that is processed. `TriesLeft` says that a run without an
  owner whose lease holds has a claim left; `LockedWhileProcessed` and
  `AnsweredIsScanned` give `LateAnswersAreDropped`, since only the owner of a processed,
  hence unconfirmed, run writes an answer. `IInv` adds that a paused run is in nobody's hands
  (`PausedIsLeft`), from which `OnlyScansHoldUp`.
* `MembershipProofs`: one pending invitation per email and scope (`OnePending`), and while a
  change of a member is held, the roles are as its check found them (`RolesAsChecked`);
  from it that invitations reach no member, that roles change by requests, and the ways in
  which each last administrator can go: `LastAdminDisabledByFormer` (for `FirmKeepsAdmin`)
  and `LastClientAdminGoes` (for `ClientKeepsAdmin`). The accounts are not part of
  `RolesAsChecked`, which is the first of the two ways.
* `SessionsProofs`: `SessionsInv` says that every live session outside `overlapped` is in
  its user's set and none outlasts that set (`IndexIsComplete`), because each creation and
  rotation renews both; and that a revocation past its reading has all other sessions of
  the user in hand, and past its deletion none is left (`RevocationSeesAll`). From it
  `OldSessionsOverlapped`.
* `CommandsProofs`: `CommandsInv` says that the records are what the keys did
  (`RecordsAreRecent`), that a transition that was done left the version it named behind
  (`DoneIsPast`), and that what a caller saw is an earlier version or the present one
  (`SentIsPast`). From it both promises.
* `ApiProofs`: `AssignmentsInv` (what is assigned is about to be deleted by an open
  replacement or was committed while it ran) gives `ReplacementLeavesList`; `MovesAreTold`
  follows step by step. `AcceptedAnswersAreBacked` compares the code's choice of receipts
  with the definition in both directions: the receipts taken are different, because of two
  lines one comes before the other and the later may not take what the earlier took; and
  when no two receipts have the same amount, any assignment that backs the answer *is*
  the one the code takes, so it refuses no right answer. Both hold for any number of lines
  and receipts and need no induction over the lines. `ApiInvariance` joins the invariants of the six parts. For `UploadLoop`
  `StoppedForGood` says that a stopped server stays stopped, so that the exception of
  `EveryCallEnds` is for good; `NoOtherDeadlock` that in every other state some
  call on its way can go on; `UploadsGoForward` that each step shrinks the work left.

Each temporal theorem combines "initially", "preserved" and "implies" by PTL.

Only model-checked are the four liveness properties: they rest on fairness, and fairness
on ENABLED, which are beyond the prover. What can be said of them without fairness is
proved for all values of the constants: the orders in which reviews
(`QueueGoesForward`), documents (`DocumentsComeForward`), classifications (`OnlyScansHold`)
and uploads (`UploadsGoForward`) only go forward, and for uploads that only a
stopped loop leaves nobody able to go on. So none of them can go round for ever; that the
next step is taken is what TLC checks under fairness. These orders are theorems without a
run of their own: TLC found no violation on the instances of section 3 when they were
stated.

The five violated statements are refuted by TLC, not proved.

## 5. Findings

* `immutable`: `exclude_document` decides by a submission status read before the lock. A
  removal that overlaps a submission and its return excludes a document of the submitted
  round, which the handler says cannot happen (`app/api/portal.py:563`).
* `retry`: a run superseded by an approval is `CANCELLED`; once the approval is withdrawn
  the request is shown as `AI_FAILED`, but only `FAILED` runs can be retried
  (`app/api/review.py:88`).
* `carried`: because `created_at` is the start of a transaction, a file removed and added
  again by overlapping requests can be active and yet not be carried forward
  (`app/api/portal.py:176`).
* `firm_admin`: disabling an account is not counted, and two administrators can disable
  each other in overlapping requests (`app/api/accounts.py:259`).
* `client_admin`: the principal's own membership of a client is read before the client is
  locked, so its last administrator can leave without the check
  (`app/api/accounts.py:436`); this is the trace that TLC finds. The client's lock does not
  hold the other administrators' accounts either: one whom the check saw can be disabled
  before the commit (`app/api/accounts.py:449`).

All five are disagreements between what the code says and does; what still holds is
proved beside them: `SubmittedEvidenceFrozen` (such a removal is the only way, and never
comes during a review), `StrandedByReopen` (withdrawing an approval is the only way),
`OnlyShadowedIsLost` (nothing else is lost), `LastAdminDisabledByFormer` (only one who
administered the firm when his request began, and no longer does, can disable the last
administrator; changes of roles cannot) and `LastClientAdminGoes` (only his own request,
which read him as a submitter, or a disabling between the check and the commit).

### Seen while modelling

No doc, comment or test says otherwise of these, so they are no findings; the properties
are stated with exactly these exceptions.

* Two uploads to one request, the first of more than 1 MB, can stop the server: the second
  blocks the event loop, which the next chunk of the first needs (`Stopped`). A handler
  that raised under the lock does the same until its session is closed.
* A session made between the reading and the deletion of the user's set is in no set
  afterwards, and later revocations do not find it until it is refreshed. A sign-in that
  verified the old password before a change outlives the change.
* Requirements of a draft can be changed under its version, so that a request is published
  with requirements its publisher has not seen.
* The client is not told of a follow-up, although it returns the request to him.
* A change of a client's member and an invitation to the client can deadlock in postgres,
  which fails one of them: the first holds the client and needs the firm for its audit row,
  the second locks them the other way round (`app/api/accounts.py:435`).
* A reused refresh token ends the session only if redis answers (`app/auth.py:229`).
* Two overlapping replacements of a client's accountants may leave the union of both lists.
* With two receipts of the same amount, a right answer that cites the second is refused.

## 6. Not modelled

* What is shown: `collection_review_status`, the queries and their filters. In particular
  that `AI_REVIEW_COMPLETED` and the displayed status count waived requirements
  differently (`app/review_analysis.py:320`).
* A commit whose outcome is unknown (`app/api/portal.py:475`): `DocumentScan` assumes that
  it is known.
* Who waits for whom for a row inside a handler, but for `UploadLoop` and the client's row in
  `Membership`; a handler that a deadlock fails is one that does nothing.
* The limits of a round (`app/review_analysis.py:87`) beyond the comparison with
  `ReviewLimit`.
* Several worker processes (`app/worker.py:135`): `deploy/compose.yml` runs one.
* The issue of reset tokens (`app/api/auth.py:301`): two overlapping requests leave two
  tokens that work. In `Sessions` a reset may come at any time.
* The sizes of the server's thread pool and of the database's connection pool;
  `UploadLoop` has a thread and a connection for everybody.
* The creation of clients and their bank accounts, the checks of an assignee and of a
  period: rows and refusals on which nothing else depends.

Left out for good: names, texts, queries and layouts; audit rows; logging; ClamAV, the
agent, redis and the disk beyond how the code uses them (an answer is one of a few
kinds, a scan finds malware or not, any call may fail); rate limits and the encoding of
tokens; the migrations, which run once; containers, nginx and certificates.
