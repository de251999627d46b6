----------------------------- MODULE UploadLoop -----------------------------
(* The threads of the API process around the row lock of a collection request *)
(* (upload_document in app/api/portal.py, get_db in app/db.py).  The process  *)
(* has one event loop.  A plain handler runs in a thread of the pool, but     *)
(* upload_document is a coroutine: its blocking calls, the lock among them,   *)
(* hold the loop, and it gives the loop away while it holds the lock whenever *)
(* it reads a body that was spooled to disk (more than 1 MB), which a thread  *)
(* does.  When a handler ends, the loop closes its session; a handler that    *)
(* raised has not committed and keeps the lock until then.                    *)
EXTENDS Naturals

CONSTANTS
  Callers,     \* HTTP requests in flight
  Rows,        \* collection requests
  MaxChunks    \* bound: chunks of a spooled body

(* A plain handler that locks the row, an upload read from memory, and one    *)
(* read from a spooled file.                                                  *)
Handlers == {"PLAIN", "SMALL_UPLOAD", "SPOOLED_UPLOAD"}

Idle == [row |-> "IDLE"]
Free == [row |-> "FREE"]

ASSUME UploadAssumption == MaxChunks \in Nat \ {0} /\ Idle \notin Callers /\ Free \notin Callers

VARIABLES
  handler,    \* what each HTTP request calls
  row,        \* the row it locks
  phase,      \* how far it is
  chunks,     \* chunks of its body still to be read
  loop,       \* the coroutine that holds the event loop, or Idle
  holder      \* who holds the lock of each row, or Free

uploadVars == <<handler, row, phase, chunks, loop, holder>>
request == <<handler, row>>

Phases == {"ARRIVED", "LOCKING", "HOLDING", "READING", "READ", "LEAVING", "DONE"}

UploadInit ==
  /\ handler \in [Callers -> Handlers]
  /\ row \in [Callers -> Rows]
  /\ phase = [p \in Callers |-> "ARRIVED"]
  /\ chunks \in [Callers -> 0..MaxChunks]
  /\ \A p \in Callers : chunks[p] > 0 <=> handler[p] = "SPOOLED_UPLOAD"
  /\ loop = Idle
  /\ holder = [r \in Rows |-> Free]

EveryCoroutine(p) == TRUE                    \* mutant: plain handlers are coroutines
Coroutine(p) == handler[p] # "PLAIN"

Enter(p, ph) == phase' = [phase EXCEPT ![p] = ph]
Release(p) == holder' = [r \in Rows |-> IF holder[r] = p THEN Free ELSE holder[r]]

-----------------------------------------------------------------------------
(* The loop calls the handler; a plain one goes to a thread of the pool.      *)
Call(p) ==
  /\ phase[p] = "ARRIVED"
  /\ loop = Idle
  /\ Enter(p, "LOCKING")
  /\ loop' = IF Coroutine(p) THEN p ELSE Idle
  /\ UNCHANGED <<request, chunks, holder>>

(* SELECT ... FOR UPDATE blocks the thread it runs in until the row is free.  *)
LockRow(p) ==
  /\ phase[p] = "LOCKING"
  /\ holder[row[p]] = Free
  /\ Enter(p, "HOLDING")
  /\ holder' = [holder EXCEPT ![row[p]] = p]
  /\ UNCHANGED <<request, chunks, loop>>

LeaveLoop(p) == loop' = IF loop = p THEN Idle ELSE loop

(* await file.read: a thread reads the next chunk, and the loop goes on with  *)
(* other work.                                                                *)
AwaitRead(p) ==
  /\ phase[p] = "HOLDING"
  /\ chunks[p] > 0
  /\ Enter(p, "READING")
  /\ LeaveLoop(p)
  /\ UNCHANGED <<request, chunks, holder>>

ChunkRead(p) ==
  /\ phase[p] = "READING"
  /\ Enter(p, "READ")
  /\ chunks' = [chunks EXCEPT ![p] = @ - 1]
  /\ UNCHANGED <<request, loop, holder>>

Resume(p) ==
  /\ phase[p] = "READ"
  /\ loop = Idle
  /\ Enter(p, "HOLDING")
  /\ loop' = p
  /\ UNCHANGED <<request, chunks, holder>>

Commit(p) ==
  /\ phase[p] = "HOLDING"
  /\ chunks[p] = 0
  /\ Enter(p, "LEAVING")
  /\ Release(p)
  /\ LeaveLoop(p)
  /\ UNCHANGED <<request, chunks>>

(* An APIError: the status, the file's type or size, whatever is checked      *)
(* under the lock.                                                            *)
Raise(p) ==
  /\ phase[p] = "HOLDING"
  /\ Enter(p, "LEAVING")
  /\ LeaveLoop(p)
  /\ UNCHANGED <<request, chunks, holder>>

(* The loop closes the session, which gives up the lock, and answers.         *)
Close(p) ==
  /\ phase[p] = "LEAVING"
  /\ loop = Idle
  /\ Enter(p, "DONE")
  /\ Release(p)
  /\ UNCHANGED <<request, chunks, loop>>

UploadStep(p) ==
  \/ LockRow(p) \/ AwaitRead(p) \/ ChunkRead(p) \/ Resume(p)
  \/ Commit(p) \/ Raise(p) \/ Close(p)

UploadNext == \E p \in Callers : Call(p) \/ UploadStep(p)

(* The loop and the threads run what they have taken up; the loop takes the   *)
(* callbacks in turn, and postgres the waiters of a row.                      *)
UploadFairness == WF_uploadVars(\E p \in Callers : UploadStep(p))

UploadSpec == UploadInit /\ [][UploadNext]_uploadVars /\ UploadFairness

-----------------------------------------------------------------------------
(* Properties.                                                                *)

UploadTypeOK ==
  /\ handler \in [Callers -> Handlers]
  /\ row \in [Callers -> Rows]
  /\ phase \in [Callers -> Phases]
  /\ chunks \in [Callers -> 0..MaxChunks]
  /\ loop \in Callers \cup {Idle}
  /\ holder \in [Rows -> Callers \cup {Free}]

(* The inductive invariant: the loop is with a coroutine that waits for its   *)
(* row or has it, and every row that is locked with a request that is past    *)
(* the lock and not closed; who reads a chunk has one left.                   *)
LoopIsUsed ==
  loop # Idle => Coroutine(loop) /\ phase[loop] \in {"LOCKING", "HOLDING"}

HoldersAreOpen ==
  \A r \in Rows : holder[r] # Free =>
    /\ row[holder[r]] = r
    /\ phase[holder[r]] \in {"HOLDING", "READING", "READ", "LEAVING"}

ReadersAreSpooled ==
  \A p \in Callers :
    /\ phase[p] \in {"READING", "READ"} \/ chunks[p] > 0 => handler[p] = "SPOOLED_UPLOAD"
    /\ phase[p] = "READING" => chunks[p] > 0

UploadInv == UploadTypeOK /\ LoopIsUsed /\ HoldersAreOpen /\ ReadersAreSpooled

(* The server stops: an upload keeps the loop while it waits for a row, and   *)
(* whoever holds the row needs the loop to give it up: an upload between two  *)
(* chunks, or a handler whose session is not closed.                          *)
Stopped ==
  \E p, q \in Callers :
    /\ loop = p /\ handler[p] # "PLAIN" /\ phase[p] = "LOCKING"
    /\ holder[row[p]] = q
    /\ \/ handler[q] = "SPOOLED_UPLOAD" /\ phase[q] \in {"READING", "READ"}
       \/ phase[q] = "LEAVING"

(* Every HTTP request that was taken up is answered, unless the server has    *)
(* stopped for good; and only an upload that meets such a holder stops it.    *)
(* Each of finitely many requests comes once, so all of those that were taken *)
(* up are answered when again and again none is under way.                    *)
NoneUnderWay == \A p \in Callers : phase[p] \in {"ARRIVED", "DONE"}
EveryCallEnds == []<>NoneUnderWay \/ <>[]Stopped

(* The safety half of that.  A handler that was taken up can go on: its row   *)
(* is free, or it has it, or the loop is there to take it back.               *)
CanStep(p) ==
  \/ phase[p] = "LOCKING" /\ holder[row[p]] = Free
  \/ phase[p] \in {"HOLDING", "READING"}
  \/ phase[p] \in {"READ", "LEAVING"} /\ loop = Idle

(* Only a server that has stopped keeps all that is under way waiting: no     *)
(* number of uploads, plain handlers and rows closes another circle.          *)
OnlyStoppedBlocks == NoneUnderWay \/ Stopped \/ \E p \in Callers : CanStep(p)

(* The steps a request still has to take.                                     *)
StepsLeft ==
  [DONE |-> 0, LEAVING |-> 1, READING |-> 1, HOLDING |-> 2, READ |-> 3, LOCKING |-> 3,
   ARRIVED |-> 4]
Work(p) == StepsLeft[phase[p]] + 3 * chunks[p]

(* Every step takes one request nearer to its end and none back.              *)
WorkShrinks ==
  [][\E p \in Callers : /\ Work(p)' < Work(p)
                        /\ \A q \in Callers \ {p} : Work(q)' = Work(q)]_uploadVars

=============================================================================
