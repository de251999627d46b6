--------------------------- MODULE CommandsProofs ---------------------------
(* Proofs about Commands, for any keys, any number of requests and versions,  *)
(* and any number of calls on their way.                                      *)
EXTENDS Commands, TLAPS

LEMMA CommandsInitInv == ASSUME CommandsInit PROVE CommandsInv
BY DEF CommandsInit, CommandsInv, CommandsTypeOK, RecordsAreRecent, DoneIsPast, SentIsPast,
  RepeatedCallsCountOnce, VersionFixesContent

-----------------------------------------------------------------------------
(* Requests.                                                                  *)

(* A request has contents, or is not made yet.                                *)
LEMMA MadeHasContents ==
  ASSUME CommandsTypeOK
  PROVE  /\ \A i \in Made : items[i] \in Contents
         /\ \A i \in Items : items[i].status \in ItemStatuses => i \in Made
<1>1. Absent.status = "ABSENT" /\ "ABSENT" \notin ItemStatuses
  BY DEF Absent, ItemStatuses
<1>2. QED  BY <1>1 DEF CommandsTypeOK, Made

LEMMA StatusesOfTransitions ==
  ASSUME NEW op \in Transitions
  PROVE  Target[op] \in ItemStatuses /\ Sources[op] \subseteq ItemStatuses
BY DEF Transitions, Target, Sources, ItemStatuses

LEMMA OtherOfTwo ==
  /\ \A x \in Texts : Other(x, Texts) \in Texts
  /\ \A x \in Lists : Other(x, Lists) \in Lists
<1>1. ASSUME NEW x \in Texts PROVE Other(x, Texts) \in Texts
  <2>1. \E y \in Texts : y # x  BY DEF Texts
  <2>2. QED  BY <2>1 DEF Other
<1>2. ASSUME NEW x \in Lists PROVE Other(x, Lists) \in Lists
  <2>1. \E y \in Lists : y # x  BY DEF Lists
  <2>2. QED  BY <2>1 DEF Other
<1>3. QED  BY <1>1, <1>2

(* A request that changes, other than in the list of a draft, gets a version  *)
(* nobody has seen.                                                           *)
LEMMA ItemStep ==
  ASSUME CommandsInv, NEW i \in Made, NEW item \in Contents,
         items' = [items EXCEPT ![i] = item], sent' = sent,
         \/ item.version = items[i].version + 1
         \/ /\ items[i].status = "DRAFT" /\ item.status = "DRAFT"
            /\ item.version = items[i].version
            /\ item.text = items[i].text
  PROVE  /\ items' \in [Items -> Contents \cup {Absent}]
         /\ Made' = Made
         /\ \A j \in Made : /\ j \in Items
                            /\ items[j].version \in Nat /\ items'[j].version \in Nat
                            /\ items'[j].version >= items[j].version
         /\ items'[i] = item
         /\ SentIsPast' /\ VersionFixesContent'
<1>1. /\ items[i] \in Contents
      /\ items[i].version \in Nat /\ item.version \in Nat
      /\ item.version >= items[i].version
  BY MadeHasContents DEF CommandsInv, Contents
<1>2. i \in Items /\ item # Absent
  BY DEF Made, Contents, Absent, ItemStatuses
<1>3. items' \in [Items -> Contents \cup {Absent}]
  BY <1>2 DEF CommandsInv, CommandsTypeOK
<1>4. \A j \in Items : items'[j] = IF j = i THEN item ELSE items[j]
  BY <1>2 DEF CommandsInv, CommandsTypeOK
<1>5. Made' = Made
  BY <1>2, <1>4 DEF Made
<1>6. \A j \in Made : /\ j \in Items
                     /\ items[j].version \in Nat /\ items'[j].version \in Nat
                     /\ items'[j].version >= items[j].version
  BY <1>1, <1>4, MadeHasContents DEF CommandsInv, Made, Contents
<1>7. SentIsPast'
  <2>1. \A m \in sent : m.saw \in Contents => m.saw.version \in Nat
    BY DEF Contents
  <2>2. QED  BY <1>5, <1>6, <2>1 DEF CommandsInv, SentIsPast
<1>8. VersionFixesContent'
  <2> SUFFICES ASSUME NEW m \in sent, m.call.op \in Transitions,
                      items'[m.call.item].version = m.saw.version
               PROVE  LET now == items'[m.call.item] IN
                      /\ now.status = m.saw.status
                      /\ now.text = m.saw.text
                      /\ m.saw.status # "DRAFT" =>
                           now.list = m.saw.list /\ now.followUps = m.saw.followUps
    BY DEF VersionFixesContent
  <2>1. /\ m.call.item \in Made /\ m.saw.version \in Nat
        /\ m.saw.version <= items[m.call.item].version
    BY DEF CommandsInv, SentIsPast, Contents
  <2>2. CASE m.call.item # i
    BY <1>4, <1>6, <2>1, <2>2 DEF CommandsInv, VersionFixesContent
  <2>3. CASE m.call.item = i
    <3>1. items'[i] = item
      BY <1>2, <1>4
    <3>2. item.version = items[i].version
      BY <1>1, <2>1, <2>3, <3>1
    <3>3. /\ items[i].status = "DRAFT" /\ item.status = "DRAFT"
          /\ item.text = items[i].text
      BY <1>1, <3>2
    <3>4. items[i].status = m.saw.status /\ items[i].text = m.saw.text
      BY <2>3, <3>1, <3>2 DEF CommandsInv, VersionFixesContent
    <3>5. QED  BY <2>3, <3>1, <3>3, <3>4
  <2>4. QED  BY <2>2, <2>3
<1>9. QED  BY <1>2, <1>3, <1>4, <1>5, <1>6, <1>7, <1>8

(* What transitions did stays behind the versions.                            *)
LEMMA SetItemInv ==
  ASSUME CommandsInv, NEW i \in Made, NEW item \in Contents, SetItem(i, item),
         \/ item.version = items[i].version + 1
         \/ /\ items[i].status = "DRAFT" /\ item.status = "DRAFT"
            /\ item.version = items[i].version
            /\ item.text = items[i].text
  PROVE  CommandsInv'
<1>1. items' = [items EXCEPT ![i] = item] /\ UNCHANGED <<sent, records, recent, done>>
  BY DEF SetItem
<1>2. /\ items' \in [Items -> Contents \cup {Absent}]
      /\ Made' = Made
      /\ \A j \in Made : /\ items[j].version \in Nat /\ items'[j].version \in Nat
                         /\ items'[j].version >= items[j].version
      /\ SentIsPast' /\ VersionFixesContent'
  BY <1>1, ItemStep
<1>3. CommandsTypeOK'
  BY <1>1, <1>2 DEF CommandsInv, CommandsTypeOK
<1>4. DoneIsPast'
  <2>1. \A d \in done : d.call.version \in Nat
    BY DEF CommandsInv, CommandsTypeOK, Calls
  <2>2. QED  BY <1>1, <1>2, <2>1 DEF CommandsInv, DoneIsPast
<1>5. RecordsAreRecent' /\ RepeatedCallsCountOnce'
  BY <1>1 DEF CommandsInv, RecordsAreRecent, RepeatedCallsCountOnce
<1>6. QED  BY <1>2, <1>3, <1>4, <1>5 DEF CommandsInv

(* The next version of a request.                                             *)
LEMMA BumpedContents ==
  ASSUME NEW c \in Contents, NEW item,
         item \in {[c EXCEPT !.text = t] : t \in Texts}
           \cup {[c EXCEPT !.status = s] : s \in ItemStatuses}
           \cup {[c EXCEPT !.status = "CHANGES_REQUESTED", !.followUps = TRUE]}
  PROVE  Bumped(item) \in Contents /\ Bumped(item).version = c.version + 1
<1>1. item \in Contents /\ item.version = c.version
  BY DEF Contents, ItemStatuses
<1>2. QED  BY <1>1 DEF Bumped, Contents

LEMMA UpdateCollectionInv ==
  ASSUME CommandsInv, NEW i \in Made, UpdateCollection(i) PROVE CommandsInv'
<1> DEFINE changed == [items[i] EXCEPT !.text = Other(@, Texts)]
<1>1. items[i] \in Contents
  BY MadeHasContents DEF CommandsInv
<1>2. changed \in {[items[i] EXCEPT !.text = t] : t \in Texts}
  BY <1>1, OtherOfTwo DEF Contents
<1>3. Bumped(changed) \in Contents /\ Bumped(changed).version = items[i].version + 1
  BY <1>1, <1>2, BumpedContents
<1>4. SetItem(i, Bumped(changed))
  BY DEF UpdateCollection
<1>5. QED  BY <1>3, <1>4, SetItemInv

LEMMA ChangeRequirementsInv ==
  ASSUME CommandsInv, NEW i \in Made, ChangeRequirements(i) PROVE CommandsInv'
<1> DEFINE changed == [items[i] EXCEPT !.list = Other(@, Lists)]
<1>1. items[i] \in Contents
  BY MadeHasContents DEF CommandsInv
<1>2. /\ changed \in Contents /\ changed.version = items[i].version
      /\ changed.status = items[i].status /\ changed.text = items[i].text
  BY <1>1, OtherOfTwo DEF Contents
<1>3. items[i].status = "DRAFT" /\ SetItem(i, changed)
  BY DEF ChangeRequirements
<1>4. QED  BY <1>2, <1>3, SetItemInv

LEMMA AddFollowUpInv ==
  ASSUME CommandsInv, NEW i \in Made, AddFollowUp(i) PROVE CommandsInv'
<1> DEFINE changed == [items[i] EXCEPT !.status = "CHANGES_REQUESTED", !.followUps = TRUE]
<1>1. items[i] \in Contents
  BY MadeHasContents DEF CommandsInv
<1>2. Bumped(changed) \in Contents /\ Bumped(changed).version = items[i].version + 1
  BY <1>1, BumpedContents
<1>3. SetItem(i, Bumped(changed))
  BY DEF AddFollowUp
<1>4. QED  BY <1>2, <1>3, SetItemInv

(* A request that gets another status and nothing else.                       *)
LEMMA NewStatus ==
  ASSUME CommandsInv, NEW i \in Made, NEW s \in ItemStatuses
  PROVE  /\ Bumped([items[i] EXCEPT !.status = s]) \in Contents
         /\ Bumped([items[i] EXCEPT !.status = s]).version = items[i].version + 1
<1> DEFINE changed == [items[i] EXCEPT !.status = s]
<1>1. items[i] \in Contents
  BY MadeHasContents DEF CommandsInv
<1>2. Bumped(changed) \in Contents /\ Bumped(changed).version = items[i].version + 1
  BY <1>1, BumpedContents
<1>3. QED  BY <1>2

LEMMA SubmitRoundInv ==
  ASSUME CommandsInv, NEW i \in Made, SubmitRound(i) PROVE CommandsInv'
BY NewStatus, SetItemInv DEF SubmitRound, ItemStatuses

LEMMA AIReviewsInv ==
  ASSUME CommandsInv, NEW i \in Made, AIReviews(i) PROVE CommandsInv'
BY NewStatus, SetItemInv DEF AIReviews, ItemStatuses

-----------------------------------------------------------------------------
(* Calls.                                                                     *)

LEMMA SendInv ==
  ASSUME CommandsInv, NEW k \in Keys, NEW op \in Transitions \cup {"CREATE", "COPY"},
         NEW i \in 0..MaxItems, Send(k, op, i)
  PROVE  CommandsInv'
<1> DEFINE version == IF op \in Transitions THEN items[i].version ELSE 0
           saw == IF op \in Transitions THEN Seen(items[i]) ELSE Absent
           m == [key |-> k, saw |-> saw, call |-> [op |-> op, item |-> i, version |-> version]]
<1>1. sent' = sent \cup {m} /\ UNCHANGED <<items, records, recent, done>>
  BY DEF Send
<1>2. ASSUME op \in Transitions
      PROVE  /\ i \in Made /\ items[i] \in Contents /\ saw \in Contents
             /\ saw = Seen(items[i]) /\ version = items[i].version /\ version \in Nat
             /\ saw.version = version /\ saw.status = items[i].status
             /\ saw.text = items[i].text
             /\ items[i].status # "DRAFT" => saw = items[i]
  <2>1. op # "CREATE"
    BY <1>2 DEF Transitions, Target
  <2>2. i \in Made
    BY <2>1 DEF Send
  <2>3. items[i] \in Contents
    BY <2>2, MadeHasContents DEF CommandsInv
  <2>4. saw = IF items[i].status = "DRAFT" THEN [items[i] EXCEPT !.list = "LIST"] ELSE items[i]
    BY <1>2 DEF Seen
  <2>5. /\ saw \in Contents /\ saw.version = items[i].version
        /\ saw.status = items[i].status /\ saw.text = items[i].text
    BY <2>3, <2>4 DEF Contents, Lists
  <2>6. items[i].version \in Nat
    BY <2>3 DEF Contents
  <2>7. QED  BY <1>2, <2>2, <2>3, <2>4, <2>5, <2>6
<1>3. version \in Nat /\ saw \in Contents \cup {Absent}
  BY <1>2
<1>4. m \in [key : Keys, call : Calls, saw : Contents \cup {Absent}]
  BY <1>3 DEF Calls
<1>5. CommandsTypeOK' /\ Made' = Made
  BY <1>1, <1>4 DEF CommandsInv, CommandsTypeOK, Made
<1>6. m.call.op = op /\ m.call.item = i /\ m.call.version = version /\ m.saw = saw
  OBVIOUS
<1>7. SentIsPast'
  <2>1. op \in Transitions => version <= version
    BY <1>2
  <2>2. op \in Transitions \cup {"COPY"} => i \in Made
    BY DEF Send, Transitions, Target
  <2>3. QED  BY <1>1, <1>2, <1>5, <1>6, <2>1, <2>2 DEF CommandsInv, SentIsPast
<1>8. VersionFixesContent'
  BY <1>1, <1>2, <1>6 DEF CommandsInv, VersionFixesContent
<1>9. RecordsAreRecent' /\ DoneIsPast' /\ RepeatedCallsCountOnce'
  BY <1>1, <1>5 DEF CommandsInv, RecordsAreRecent, DoneIsPast, RepeatedCallsCountOnce
<1>10. QED  BY <1>5, <1>7, <1>8, <1>9 DEF CommandsInv

LEMMA LoseInv == ASSUME CommandsInv, NEW m \in sent, Lose(m) PROVE CommandsInv'
<1>1. sent' \subseteq sent /\ done' \subseteq done /\ UNCHANGED <<items, records, recent>>
  BY DEF Lose
<1>2. CommandsTypeOK' /\ Made' = Made
  BY <1>1 DEF CommandsInv, CommandsTypeOK, Made
<1>3. QED
  BY <1>1, <1>2 DEF CommandsInv, RecordsAreRecent, DoneIsPast, SentIsPast,
    RepeatedCallsCountOnce, VersionFixesContent

LEMMA ExpireKeyInv == ASSUME CommandsInv, NEW k \in Keys, ExpireKey(k) PROVE CommandsInv'
<1>1. /\ records' \subseteq records /\ recent' \subseteq recent
      /\ RecordsAreRecent'
      /\ UNCHANGED <<items, sent, done>>
  BY DEF ExpireKey, CommandsInv, RecordsAreRecent
<1>2. CommandsTypeOK' /\ Made' = Made
  BY <1>1 DEF CommandsInv, CommandsTypeOK, Made
<1>3. QED
  BY <1>1, <1>2 DEF CommandsInv, DoneIsPast, SentIsPast, RepeatedCallsCountOnce,
    VersionFixesContent

(* A key without a record has done nothing recently.                          *)
LEMMA CompleteStep ==
  ASSUME CommandsInv, NEW m \in sent, ~Recorded(m.key),
         NEW answer \in [item : Items, version : Nat], Complete(m, answer)
  PROVE  /\ records' \subseteq Effects /\ recent' \subseteq Effects
         /\ RecordsAreRecent'
         /\ \A e, f \in recent' : e.key = f.key => e = f
<1> DEFINE r == [key |-> m.key, call |-> m.call, answer |-> answer]
<1>1. m.key \in Keys /\ m.call \in Calls
  BY DEF CommandsInv, CommandsTypeOK
<1>2. r \in Effects /\ r.key = m.key
  BY <1>1 DEF Effects
<1>3. records' = records \cup {r} /\ recent' = recent \cup {r}
  BY DEF Complete
<1>4. \A e \in recent : e.key # m.key
  BY DEF Recorded, CommandsInv, RecordsAreRecent
<1>5. \A e, f \in recent : e.key = f.key => e = f
  BY DEF CommandsInv, RepeatedCallsCountOnce
<1>6. \A e, f \in recent' : e.key = f.key => e = f
  BY <1>2, <1>3, <1>4, <1>5
<1>7. QED
  BY <1>2, <1>3, <1>6 DEF CommandsInv, CommandsTypeOK, RecordsAreRecent

(* A new request leaves the others as they are.                               *)
LEMMA AddItemInv ==
  ASSUME CommandsInv, NEW m \in sent, ~Recorded(m.key),
         NEW item \in Contents, AddItem(m, item)
  PROVE  CommandsInv'
<1>1. NextItem \in Items /\ NextItem \notin Made
  BY DEF AddItem, NextItem, Unused
<1>2. item # Absent
  BY DEF Contents, Absent, ItemStatuses
<1>3. /\ items' = [items EXCEPT ![NextItem] = item]
      /\ Complete(m, [item |-> NextItem, version |-> 1])
      /\ UNCHANGED <<sent, done>>
  BY DEF AddItem
<1>4. items' \in [Items -> Contents \cup {Absent}]
  BY <1>1, <1>3 DEF CommandsInv, CommandsTypeOK
<1>5. \A j \in Made : j \in Made' /\ items'[j] = items[j]
  BY <1>1, <1>3 DEF CommandsInv, CommandsTypeOK, Made
<1>6. [item |-> NextItem, version |-> 1] \in [item : Items, version : Nat]
  BY <1>1
<1>7. /\ records' \subseteq Effects /\ recent' \subseteq Effects
      /\ RecordsAreRecent'
      /\ \A e, f \in recent' : e.key = f.key => e = f
  BY <1>3, <1>6, CompleteStep
<1>8. CommandsTypeOK'
  BY <1>3, <1>4, <1>7 DEF CommandsInv, CommandsTypeOK
<1>9. DoneIsPast' /\ SentIsPast'
  BY <1>3, <1>5 DEF CommandsInv, DoneIsPast, SentIsPast
<1>10. VersionFixesContent'
  BY <1>3, <1>5 DEF CommandsInv, SentIsPast, VersionFixesContent
<1>11. RepeatedCallsCountOnce'
  BY <1>3, <1>7 DEF CommandsInv, RepeatedCallsCountOnce
<1>12. QED  BY <1>7, <1>8, <1>9, <1>10, <1>11 DEF CommandsInv

LEMMA NewItemContents ==
  ASSUME NEW text \in Texts, NEW list \in Lists PROVE NewItem(text, list) \in Contents
BY DEF NewItem, Contents, ItemStatuses

LEMMA CreateCollectionInv ==
  ASSUME CommandsInv, NEW m \in sent, CreateCollection(m) PROVE CommandsInv'
BY AddItemInv, NewItemContents DEF CreateCollection, Texts, Lists

LEMMA CopyCollectionInv ==
  ASSUME CommandsInv, NEW m \in sent, CopyCollection(m) PROVE CommandsInv'
<1> DEFINE source == items[m.call.item]
<1>1. source \in Contents
  BY MadeHasContents DEF CopyCollection, CommandsInv, SentIsPast
<1>2. NewItem(source.text, source.list) \in Contents
  BY <1>1, NewItemContents DEF Contents
<1>3. ~Recorded(m.key) /\ AddItem(m, NewItem(source.text, source.list))
  BY DEF CopyCollection
<1>4. QED  BY <1>2, <1>3, AddItemInv

(* A transition leaves the version it was called with behind, so no call that *)
(* names it can have done a transition before, nor do one later.              *)
LEMMA TransitionInv ==
  ASSUME CommandsInv, NEW m \in sent, Transition(m) PROVE CommandsInv'
<1> DEFINE i == m.call.item
           item == Bumped([items[i] EXCEPT !.status = Target[m.call.op]])
           answer == [item |-> i, version |-> item.version]
           d == [call |-> m.call, answer |-> answer]
<1>1. /\ m.call.op \in Transitions /\ ~Recorded(m.key)
      /\ items[i].version = m.call.version
      /\ items' = [items EXCEPT ![i] = item]
      /\ Complete(m, answer)
      /\ done' = done \cup {d} /\ sent' = sent
  BY DEF Transition, SameVersion
<1>2. i \in Made /\ m.call \in Calls
  BY <1>1 DEF CommandsInv, SentIsPast, CommandsTypeOK
<1>3. i \in Items /\ items[i] \in Contents /\ items[i].version \in Nat
  BY <1>2, MadeHasContents DEF CommandsInv, Made, Contents
<1>4. item \in Contents /\ item.version = items[i].version + 1
  BY <1>1, <1>2, NewStatus, StatusesOfTransitions
<1>5. /\ items' \in [Items -> Contents \cup {Absent}]
      /\ Made' = Made
      /\ \A j \in Made : /\ items[j].version \in Nat /\ items'[j].version \in Nat
                         /\ items'[j].version >= items[j].version
      /\ items'[i] = item
      /\ SentIsPast' /\ VersionFixesContent'
  BY <1>1, <1>2, <1>4, ItemStep
<1>6. answer \in [item : Items, version : Nat]
  BY <1>3, <1>4
<1>7. /\ records' \subseteq Effects /\ recent' \subseteq Effects
      /\ RecordsAreRecent'
      /\ \A e, f \in recent' : e.key = f.key => e = f
  BY <1>1, <1>6, CompleteStep
<1>8. d \in [call : Calls, answer : [item : Items, version : Nat]] /\ d.call = m.call
  BY <1>2, <1>6
<1>9. CommandsTypeOK'
  BY <1>1, <1>5, <1>7, <1>8 DEF CommandsInv, CommandsTypeOK
<1>10. DoneIsPast'
  <2>1. \A e \in done : e.call.version \in Nat
    BY DEF CommandsInv, CommandsTypeOK, Calls
  <2>2. \A e \in done : e.call.item \in Made' /\ e.call.version < items'[e.call.item].version
    BY <1>5, <2>1 DEF CommandsInv, DoneIsPast
  <2>3. items'[i].version = m.call.version + 1 /\ m.call.version \in Nat
    BY <1>1, <1>3, <1>4, <1>5
  <2>4. m.call.version < items'[i].version
    BY <2>3
  <2>5. d.call.item \in Made' /\ d.call.version < items'[d.call.item].version
    BY <1>2, <1>5, <1>8, <2>4
  <2>6. QED  BY <1>1, <2>2, <2>5 DEF DoneIsPast
<1>11. \A e \in done : e.call # m.call
  <2>1. \A e \in done : e.call.version < items[e.call.item].version
    BY DEF CommandsInv, DoneIsPast
  <2>2. ~(m.call.version < items[i].version)
    BY <1>1, <1>3
  <2>3. QED  BY <2>1, <2>2
<1>12. \A e, f \in done' : e.call = f.call => e = f
  BY <1>1, <1>8, <1>11 DEF CommandsInv, RepeatedCallsCountOnce
<1>13. RepeatedCallsCountOnce'
  BY <1>7, <1>12 DEF RepeatedCallsCountOnce
<1>14. QED  BY <1>5, <1>7, <1>9, <1>10, <1>13 DEF CommandsInv

-----------------------------------------------------------------------------
LEMMA CommandsNextInv == ASSUME CommandsInv, [CommandsNext]_commandVars PROVE CommandsInv'
<1>1. CASE UNCHANGED commandVars
  BY <1>1 DEF commandVars, CommandsInv, CommandsTypeOK, RecordsAreRecent, DoneIsPast,
    SentIsPast, RepeatedCallsCountOnce, VersionFixesContent, Made
<1>2. CASE \E i \in Made : UpdateCollection(i) \/ ChangeRequirements(i) \/ AddFollowUp(i)
                           \/ SubmitRound(i) \/ AIReviews(i)
  BY <1>2, UpdateCollectionInv, ChangeRequirementsInv, AddFollowUpInv, SubmitRoundInv,
     AIReviewsInv
<1>3. CASE \E k \in Keys, op \in Transitions \cup {"CREATE", "COPY"}, i \in 0..MaxItems :
             Send(k, op, i)
  BY <1>3, SendInv
<1>4. CASE \E m \in sent : CreateCollection(m) \/ CopyCollection(m) \/ Transition(m) \/ Lose(m)
  BY <1>4, CreateCollectionInv, CopyCollectionInv, TransitionInv, LoseInv
<1>5. CASE \E k \in Keys : ExpireKey(k)
  BY <1>5, ExpireKeyInv
<1>6. QED  BY <1>1, <1>2, <1>3, <1>4, <1>5 DEF CommandsNext

(* The inductive invariant: records tell what their keys did, and versions    *)
(* that were left are never used again.                                       *)
THEOREM CommandsInvariance == CommandsSpec => []CommandsInv
BY CommandsInitInv, CommandsNextInv, PTL DEF CommandsSpec

(* However often and late a call is delivered, it takes effect once.          *)
THEOREM CallsCountOnce == CommandsSpec => []RepeatedCallsCountOnce
<1>1. CommandsInv => RepeatedCallsCountOnce
  BY DEF CommandsInv
<1>2. QED  BY <1>1, CommandsInvariance, PTL

(* A request that still has the version a caller saw is what he saw.          *)
THEOREM VersionTellsContent == CommandsSpec => []VersionFixesContent
<1>1. CommandsInv => VersionFixesContent
  BY DEF CommandsInv
<1>2. QED  BY <1>1, CommandsInvariance, PTL

=============================================================================
