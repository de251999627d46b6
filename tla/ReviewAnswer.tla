---------------------------- MODULE ReviewAnswer ----------------------------
(* What the backend believes of an AI answer about expense claims             *)
(* (app/analysis_schemas.py: _validate_expense_receipts, with which           *)
(* validate_review ends, and Finding.valid_action).  The snapshot has two     *)
(* expense claims, of an EARLIER and a LATER round, and receipts; the answer, *)
(* chosen at the start, reads them and has one finding; one step validates it.*)
EXTENDS Naturals, Sequences

CONSTANTS
  Receipts,     \* the receipts, in the order of the snapshot
  Prices,       \* amounts of receipts and of a claim's lines
  MaxLines      \* bound: lines of the claim LATER; EARLIER has one

ASSUME AnswerAssumption ==
  /\ DOMAIN Receipts \subseteq Nat
  /\ \A i, j \in DOMAIN Receipts : Receipts[i] = Receipts[j] => i = j
  /\ Prices \subseteq Nat \ {0} /\ MaxLines \in Nat \ {0}

ReceiptDocs == {Receipts[i] : i \in DOMAIN Receipts}
Documents == {"EARLIER", "LATER"} \cup ReceiptDocs

(* What the agent read of a claim: its lines, none if the claim has no amount *)
(* or currency or its lines do not add up to its total.                       *)
Readings(maxLines) == UNION {[1..n -> Prices] : n \in 0..maxLines}

VARIABLES
  superseded,   \* they answer the same requirement
  claimRead,    \* Extraction of each claim
  receiptRead,  \* amount of each receipt
  finding,      \* the finding of the answer
  verdict       \* what validate_review says of it

answerVars == <<superseded, claimRead, receiptRead, finding, verdict>>

Current == IF superseded THEN {"LATER"} ELSE {"EARLIER", "LATER"}

(* A finding that resolves a requirement cites documents, relies on a         *)
(* superseded claim or only mentions it, and, if it is the claims' own, adds  *)
(* receipts up to the total of each.  Other findings are not looked at.       *)
Findings ==
  {f \in [target : {"EXPENSE_CLAIM", "RECEIPT", "OTHER"},
          cites : SUBSET Documents,
          relies : BOOLEAN,
          sums : [Current -> SUBSET ReceiptDocs]] :
     /\ f.relies => superseded /\ "EARLIER" \in f.cites
     /\ f.target # "EXPENSE_CLAIM" => f.sums = [c \in Current |-> {}]}

-----------------------------------------------------------------------------
(* The finding is looked at when it resolves a requirement of claims or of    *)
(* receipts, or cites a current claim for another.                            *)
Relevant == finding.target # "OTHER" \/ finding.cites \cap Current # {}

(* The lines of the current claims, in the order in which they are matched.   *)
ClaimLines == UNION {{c} \X DOMAIN claimRead[c] : c \in Current}
Before(l, m) == IF l[1] = m[1] THEN l[2] < m[2] ELSE l[1] = "EARLIER"
Amount(l) == claimRead[l[1]][l[2]]

(* The receipts a line may take: those of its amount that no line before it   *)
(* took.  It takes the first of them, and has to find one.                    *)
FitsUsedOrNot(taken, l) ==                         \* mutant: a receipt serves twice
  {i \in DOMAIN Receipts : receiptRead[Receipts[i]] = Amount(l)}
Fits(taken, l) ==
  {i \in DOMAIN Receipts :
     /\ receiptRead[Receipts[i]] = Amount(l)
     /\ \A m \in ClaimLines : Before(m, l) => taken[m] # Receipts[i]}

TakesFirst(taken, l) ==
  \E i \in Fits(taken, l) :
    /\ taken[l] = Receipts[i]
    /\ \A j \in Fits(taken, l) : i <= j

TakenBy(taken, c) == {taken[l] : l \in {x \in ClaimLines : x[1] = c}}

(* _validate_expense_receipts.                                                *)
ReceiptsAccepted ==
  Relevant =>
    /\ ~finding.relies
    /\ \A c \in Current : claimRead[c] # <<>>
    /\ \E taken \in [ClaimLines -> ReceiptDocs] :
         /\ \A l \in ClaimLines : TakesFirst(taken, l)
         /\ Current \cup {taken[l] : l \in ClaimLines} \subseteq finding.cites
         /\ finding.target = "EXPENSE_CLAIM" => finding.sums = [c \in Current |-> TakenBy(taken, c)]

(* Finding.valid_action: a resolution has evidence, and amounts are of        *)
(* documents it cites.                                                        *)
ValidAction ==
  /\ finding.cites # {}
  /\ \A c \in Current : finding.sums[c] \subseteq finding.cites

AnswerInit ==
  /\ superseded \in BOOLEAN
  /\ claimRead \in [EARLIER : Readings(1), LATER : Readings(MaxLines)]
  /\ receiptRead \in [ReceiptDocs -> Prices]
  /\ finding \in Findings
  /\ verdict = "NONE"

(* validate_review.                                                           *)
Validate ==
  /\ verdict = "NONE"
  /\ verdict' = IF ValidAction /\ ReceiptsAccepted THEN "ACCEPTED" ELSE "REFUSED"
  /\ UNCHANGED <<superseded, claimRead, receiptRead, finding>>

AnswerSpec == AnswerInit /\ [][Validate]_answerVars

-----------------------------------------------------------------------------
(* Properties.                                                                *)

AnswerTypeOK ==
  /\ superseded \in BOOLEAN
  /\ claimRead \in [EARLIER : Readings(1), LATER : Readings(MaxLines)]
  /\ receiptRead \in [ReceiptDocs -> Prices]
  /\ finding \in Findings
  /\ verdict \in {"NONE", "ACCEPTED", "REFUSED"}

(* The definition: the current claims add up, and their lines can be given    *)
(* receipts of the same amount, each receipt to one line, such that the       *)
(* finding cites the claims and these receipts, relies on no superseded claim,*)
(* and when it accepts a claim adds up the receipts given to each.            *)
Backed ==
  /\ ~finding.relies
  /\ \A c \in Current : claimRead[c] # <<>>
  /\ \E given \in [ClaimLines -> ReceiptDocs] :
       /\ \A l, m \in ClaimLines : given[l] = given[m] => l = m
       /\ \A l \in ClaimLines : receiptRead[given[l]] = Amount(l)
       /\ Current \cup {given[l] : l \in ClaimLines} \subseteq finding.cites
       /\ finding.target = "EXPENSE_CLAIM" =>
            \A c \in Current : finding.sums[c] = TakenBy(given, c)

DifferentAmounts == \A r, s \in ReceiptDocs : receiptRead[r] = receiptRead[s] => r = s

(* An answer that resolves a requirement on the strength of expense claims is *)
(* accepted only if receipts back every line of them, and is accepted if they *)
(* do and no two receipts have the same amount.  With equal receipts the code *)
(* also refuses right answers: those that cite another of them than the first.*)
AcceptedIsBacked ==
  Relevant /\ ValidAction =>
    /\ verdict = "ACCEPTED" => Backed
    /\ verdict = "REFUSED" /\ DifferentAmounts => ~Backed

=============================================================================
