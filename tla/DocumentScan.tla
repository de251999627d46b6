---------------------------- MODULE DocumentScan ----------------------------
(* A document's way from the upload to the document store: upload_document    *)
(* (app/api/portal.py) writes the quarantine file and then commits the row,   *)
(* the worker (process_next_document in app/worker.py) scans the file, copies *)
(* it beside its place in the store, moves it there, removes the quarantine   *)
(* file and only then marks the row.  The worker may die between any two of   *)
(* these steps; the deployment runs one worker process and restarts it.       *)
EXTENDS Naturals

CONSTANTS
  Docs,         \* documents being uploaded
  NoDoc,        \* the worker has no document
  Infected,     \* the documents in which the scanner finds malware
  MaxAttempts,  \* claims after which an error is final (3 in the code)
  MaxCrashes    \* bound: deaths of the worker

ASSUME DocumentScanAssumption ==
  /\ NoDoc \notin Docs
  /\ Infected \subseteq Docs
  /\ MaxAttempts \in Nat \ {0} /\ MaxCrashes \in Nat

VARIABLES
  status,       \* Document.status, NONE before the row is committed
  attempts,     \* Document.attempts
  lease,        \* locked_until: NONE, HELD or EXPIRED
  due,          \* next_attempt_at has come
  quarantine,   \* the file <id>.part in quarantine
  temporary,    \* the copy beside the target
  target,       \* the file under its storage key
  worker,       \* the document in the worker's hands and where it stands
  crashes       \* deaths so far

rows == <<status, attempts, lease, due>>
files == <<quarantine, temporary, target>>
vars == <<rows, files, worker, crashes>>

(* A file is absent, has some bytes of the upload, or has the expected hash.  *)
Files == {"NONE", "PARTIAL", "WHOLE"}
Steps == {"IDLE", "LOOK", "COPY", "COPYING", "HASH", "REMOVE", "FINISH", "MALWARE", "ERROR"}
Idle == [doc |-> NoDoc, at |-> "IDLE"]

Init ==
  /\ status = [d \in Docs |-> "NONE"]
  /\ attempts = [d \in Docs |-> 0]
  /\ lease = [d \in Docs |-> "NONE"]
  /\ due = [d \in Docs |-> TRUE]
  /\ quarantine = [d \in Docs |-> "NONE"]
  /\ temporary = [d \in Docs |-> "NONE"]
  /\ target = [d \in Docs |-> "NONE"]
  /\ worker = Idle
  /\ crashes = 0

-----------------------------------------------------------------------------
(* upload_document.                                                           *)

Uploading(d) == status[d] = "NONE" /\ quarantine[d] # "NONE"

StartUpload(d) ==
  /\ status[d] = "NONE" /\ quarantine[d] = "NONE"
  /\ quarantine' = [quarantine EXCEPT ![d] = "PARTIAL"]
  /\ UNCHANGED <<rows, temporary, target, worker, crashes>>

ReceiveAll(d) ==
  /\ Uploading(d) /\ quarantine[d] = "PARTIAL"
  /\ quarantine' = [quarantine EXCEPT ![d] = "WHOLE"]
  /\ UNCHANGED <<rows, temporary, target, worker, crashes>>

StartedToReceive(d) == quarantine[d] # "NONE"         \* mutant: row before the file
Received(d) == quarantine[d] = "WHOLE"
CommitUpload(d) ==
  /\ Uploading(d)
  /\ Received(d)
  /\ status' = [status EXCEPT ![d] = "QUARANTINED"]
  /\ UNCHANGED <<attempts, lease, due, files, worker, crashes>>

(* Too large, empty, of a wrong type, or a duplicate of a known document.     *)
RejectUpload(d) ==
  /\ Uploading(d)
  /\ quarantine' = [quarantine EXCEPT ![d] = "NONE"]
  /\ UNCHANGED <<rows, temporary, target, worker, crashes>>

-----------------------------------------------------------------------------
(* process_next_document.                                                     *)

Unlocked(d) == lease[d] = "NONE"                      \* mutant: no expiry
Available(d) == lease[d] # "HELD"

Claim(d) ==
  /\ worker = Idle
  /\ status[d] = "QUARANTINED" /\ due[d] /\ Available(d)
  /\ lease' = [lease EXCEPT ![d] = "HELD"]
  /\ attempts' = [attempts EXCEPT ![d] = @ + 1]
  /\ worker' = [doc |-> d, at |-> "LOOK"]
  /\ UNCHANGED <<status, due, files, crashes>>

At(d, step) == worker = [doc |-> d, at |-> step]
Goto(step) == worker' = [worker EXCEPT !.at = step]

FoundAtFirst(d) == d \in Infected /\ attempts[d] = 1    \* mutant: retry without scan
Found(d) == d \in Infected

(* A file that an earlier attempt moved to its place needs no second scan.    *)
Look(d) ==
  /\ At(d, "LOOK")
  /\ \/ /\ target[d] # "NONE"
        /\ Goto(IF target[d] = "WHOLE" THEN "REMOVE" ELSE "ERROR")
     \/ /\ target[d] = "NONE" /\ quarantine[d] # "NONE"
        /\ Goto(IF Found(d) THEN "MALWARE" ELSE "COPY")
     \/ /\ target[d] = "NONE" /\ quarantine[d] = "NONE"
        /\ Goto("ERROR")
  /\ UNCHANGED <<rows, files, crashes>>

StartCopy(d) ==
  /\ At(d, "COPY")
  /\ temporary' = [temporary EXCEPT ![d] = "PARTIAL"]
  /\ Goto("COPYING")
  /\ UNCHANGED <<rows, quarantine, target, crashes>>

(* The copy is what was read, or what a bad disk made of it.                  *)
EndCopy(d) ==
  /\ At(d, "COPYING")
  /\ \E copy \in {quarantine[d], "PARTIAL"} : temporary' = [temporary EXCEPT ![d] = copy]
  /\ Goto("HASH")
  /\ UNCHANGED <<rows, quarantine, target, crashes>>

AnyCopy(d) == temporary[d] # "NONE"                   \* mutant: hash not compared
HashMatches(d) == temporary[d] = "WHOLE"

Move(d) ==
  /\ At(d, "HASH")
  /\ HashMatches(d)
  /\ target' = [target EXCEPT ![d] = temporary[d]]
  /\ temporary' = [temporary EXCEPT ![d] = "NONE"]
  /\ Goto("REMOVE")
  /\ UNCHANGED <<rows, quarantine, crashes>>

DiscardCopy(d) ==
  /\ At(d, "HASH")
  /\ ~HashMatches(d)
  /\ temporary' = [temporary EXCEPT ![d] = "NONE"]
  /\ Goto("ERROR")
  /\ UNCHANGED <<rows, quarantine, target, crashes>>

RemoveQuarantined(d) ==
  /\ At(d, "REMOVE")
  /\ quarantine' = [quarantine EXCEPT ![d] = "NONE"]
  /\ Goto("FINISH")
  /\ UNCHANGED <<rows, temporary, target, crashes>>

(* _finish.  What it does to the requirements is in Collection.               *)
Finish(d) ==
  /\ \/ At(d, "FINISH") /\ status' = [status EXCEPT ![d] = "AVAILABLE"]
     \/ At(d, "MALWARE") /\ status' = [status EXCEPT ![d] = "FAILED"]
  /\ lease' = [lease EXCEPT ![d] = "NONE"]
  /\ worker' = Idle
  /\ UNCHANGED <<attempts, due, files, crashes>>

(* The scanner, the disk or the database fails.                               *)
Fail(d) ==
  /\ worker.doc = d
  /\ worker.at \in {"LOOK", "COPY", "COPYING", "HASH", "REMOVE", "FINISH"}
  /\ Goto("ERROR")
  /\ UNCHANGED <<rows, files, crashes>>

IsLastTry(d) == attempts[d] = MaxAttempts             \* mutant: crashes count too
NoTryLeft(d) == attempts[d] >= MaxAttempts

GiveUp(d) ==
  /\ At(d, "ERROR")
  /\ NoTryLeft(d)
  /\ status' = [status EXCEPT ![d] = "FAILED"]
  /\ lease' = [lease EXCEPT ![d] = "NONE"]
  /\ worker' = Idle
  /\ UNCHANGED <<attempts, due, files, crashes>>

TryLater(d) ==
  /\ At(d, "ERROR")
  /\ ~NoTryLeft(d)
  /\ lease' = [lease EXCEPT ![d] = "NONE"]
  /\ due' = [due EXCEPT ![d] = FALSE]
  /\ worker' = Idle
  /\ UNCHANGED <<status, attempts, files, crashes>>

(* The worker dies and is restarted: its lease and its files stay.            *)
Crash ==
  /\ worker # Idle
  /\ crashes < MaxCrashes
  /\ crashes' = crashes + 1
  /\ worker' = Idle
  /\ UNCHANGED <<rows, files>>

LeaseExpires(d) ==
  /\ lease[d] = "HELD"
  /\ lease' = [lease EXCEPT ![d] = "EXPIRED"]
  /\ UNCHANGED <<status, attempts, due, files, worker, crashes>>

BackoffEnds(d) ==
  /\ ~due[d]
  /\ due' = [due EXCEPT ![d] = TRUE]
  /\ UNCHANGED <<status, attempts, lease, files, worker, crashes>>

-----------------------------------------------------------------------------

Step(d) == \/ Look(d) \/ StartCopy(d) \/ EndCopy(d) \/ Move(d) \/ DiscardCopy(d)
           \/ RemoveQuarantined(d) \/ Finish(d) \/ Fail(d) \/ GiveUp(d) \/ TryLater(d)

UploadNext(d) == StartUpload(d) \/ ReceiveAll(d) \/ CommitUpload(d) \/ RejectUpload(d)

Next == Crash \/ \E d \in Docs : \/ UploadNext(d) \/ Claim(d) \/ Step(d)
                                 \/ LeaseExpires(d) \/ BackoffEnds(d)

(* The worker's calls return or raise (every socket has a timeout), it polls  *)
(* for documents before it does anything else, and time passes.  It dies      *)
(* finitely often.                                                            *)
Fairness ==
  /\ WF_vars(\E d \in Docs : Claim(d))
  /\ \A d \in Docs : WF_vars(Step(d)) /\ WF_vars(LeaseExpires(d)) /\ WF_vars(BackoffEnds(d))

Spec == Init /\ [][Next]_vars /\ Fairness

-----------------------------------------------------------------------------
(* Properties.                                                                *)

(* In particular only a death of the worker makes it try a document more than *)
(* MaxAttempts times.                                                         *)
TypeOK ==
  /\ status \in [Docs -> {"NONE", "QUARANTINED", "AVAILABLE", "FAILED"}]
  /\ attempts \in [Docs -> Nat]
  /\ \A d \in Docs : attempts[d] <= MaxAttempts + crashes
  /\ lease \in [Docs -> {"NONE", "HELD", "EXPIRED"}]
  /\ due \in [Docs -> BOOLEAN]
  /\ quarantine \in [Docs -> Files]
  /\ temporary \in [Docs -> Files]
  /\ target \in [Docs -> Files]
  /\ worker \in [doc : Docs, at : Steps \ {"IDLE"}] \cup {Idle}
  /\ crashes \in 0..MaxCrashes

(* A document that waits for the scanner is never lost: its whole file is in  *)
(* quarantine or already in its place, wherever the worker died.              *)
KeptUntilStored ==
  \A d \in Docs : status[d] = "QUARANTINED" =>
    quarantine[d] = "WHOLE" \/ target[d] = "WHOLE"

(* Readers of the store find whole files only, and one for every available    *)
(* document.                                                                  *)
StoredWhole ==
  \A d \in Docs : /\ target[d] \in {"NONE", "WHOLE"}
                  /\ status[d] = "AVAILABLE" => target[d] = "WHOLE"

(* A file with malware never comes to the store, however often it is retried. *)
InfectedStaysOut == \A d \in Infected : target[d] = "NONE"

(* The inductive invariant: what the worker knows where it stands, and how    *)
(* many claims a document has left.                                           *)
WorkerKnows ==
  /\ worker # Idle => status[worker.doc] = "QUARANTINED"
  /\ worker.at \in {"COPY", "COPYING", "HASH"} =>
       worker.doc \notin Infected /\ target[worker.doc] = "NONE"
  /\ worker.at \in {"REMOVE", "FINISH"} => target[worker.doc] = "WHOLE"

TriesLeft ==
  \A d \in Docs : d # worker.doc /\ status[d] \in {"NONE", "QUARANTINED"} =>
    attempts[d] < MaxAttempts + crashes

StoreInv == TypeOK /\ WorkerKnows /\ TriesLeft
            /\ KeptUntilStored /\ StoredWhole /\ InfectedStaysOut

(* A document only pauses while it waits for the worker, and nobody holds one *)
(* that has ended.                                                            *)
Ended == {"AVAILABLE", "FAILED"}

RowsAtRest ==
  \A d \in Docs : /\ ~due[d] => status[d] = "QUARANTINED" /\ worker.doc # d
                  /\ status[d] \in Ended => lease[d] = "NONE"

IInv == StoreInv /\ RowsAtRest

(* No document goes round for ever: each step on one that waits ends it, is   *)
(* its next attempt, comes later in its attempt (a crash or an error ends the *)
(* worker's part in it), or is the clock's, once for the lease and once for   *)
(* the pause.  Nothing touches the row or the files of one that has ended.    *)
Place(d) ==
  IF worker.doc # d THEN 9
  ELSE CASE worker.at = "LOOK" -> 1
         [] worker.at = "COPY" -> 2
         [] worker.at = "COPYING" -> 3
         [] worker.at = "HASH" -> 4
         [] worker.at = "REMOVE" -> 5
         [] worker.at = "FINISH" -> 6
         [] worker.at = "MALWARE" -> 7
         [] OTHER -> 8

RowAndFiles(d) ==
  <<status[d], attempts[d], lease[d], due[d], quarantine[d], temporary[d], target[d]>>

GoesOn(d) ==
  \/ status'[d] \in Ended
  \/ attempts'[d] > attempts[d]
  \/ attempts'[d] = attempts[d] /\ Place(d)' > Place(d)
  \/ /\ attempts'[d] = attempts[d] /\ Place(d)' = Place(d)
     /\ \/ lease[d] = "HELD" /\ lease'[d] = "EXPIRED" /\ due'[d] = due[d]
        \/ ~due[d] /\ due'[d] /\ lease'[d] = lease[d]

DocumentsGoForward ==
  [][\A d \in Docs :
       /\ status[d] \in Ended => RowAndFiles(d)' = RowAndFiles(d)
       /\ /\ status[d] = "QUARANTINED"
          /\ <<RowAndFiles(d), Place(d)>>' # <<RowAndFiles(d), Place(d)>>
          => GoesOn(d)]_vars

(* Every uploaded document is released or refused in the end, in spite of     *)
(* errors and deaths of the worker.                                           *)
EveryDocumentEnds ==
  \A d \in Docs : status[d] = "QUARANTINED" ~> status[d] \in {"AVAILABLE", "FAILED"}

=============================================================================
