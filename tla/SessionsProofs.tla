--------------------------- MODULE SessionsProofs ---------------------------
(* Proofs about Sessions, for any users, any number of sign-ins and any       *)
(* number of changes of password at once.                                     *)
EXTENDS Sessions, TLAPS

LEMMA SessionsInitInv == ASSUME SessionsInit PROVE SessionsInv
BY DEF SessionsInit, SessionsInv, SessionsTypeOK, Disjoint, IndexIsUsed, IndexIsComplete,
  FreshSignIns, RevocationSeesAll, OldSessionsOverlapped, Sids, SidsOf, Steps, Revocations

(* Every session is of a user.                                                *)
LEMMA UserOfSid == ASSUME NEW s \in Sids PROVE s[1] \in Accounts /\ s \in SidsOf(s[1])
BY DEF Sids, SidsOf

(* A revocation of the user of a session that is under way.                   *)
LEMMA UnderWay ==
  ASSUME NEW u \in Accounts, NEW k \in Kinds, step[<<u, k>>] \in {"LISTED", "REVOKED"}
  PROVE  UnderRevocation(u)
BY DEF UnderRevocation

-----------------------------------------------------------------------------
(* Sign-ins.                                                                  *)

LEMMA LoginVerifyInv ==
  ASSUME SessionsInv, NEW s \in Sids, LoginVerify(s) PROVE SessionsInv'
<1> USE DEF LoginVerify, redis
<1>1. SessionsTypeOK' /\ Disjoint' /\ IndexIsUsed' /\ IndexIsComplete'
  BY DEF SessionsInv, SessionsTypeOK, Disjoint, IndexIsUsed, IndexIsComplete
<1>2. s \notin live /\ s \notin outdated /\ s[1] \in enabled
  BY DEF SessionsInv, SessionsTypeOK
<1>3. overlapped \subseteq overlapped' /\ overlapped' \subseteq overlapped \cup {s}
  OBVIOUS
<1>4. FreshSignIns' /\ OldSessionsOverlapped'
  BY <1>2, <1>3 DEF SessionsInv, FreshSignIns, OldSessionsOverlapped
<1>5. ASSUME NEW u \in Accounts, NEW k \in Kinds, step[<<u, k>>] \in {"LISTED", "REVOKED"},
             s \in SidsOf(u)
      PROVE  s \in overlapped'
  BY <1>5, UnderWay DEF SidsOf
<1>6. RevocationSeesAll'
  BY <1>2, <1>3, <1>5 DEF SessionsInv, RevocationSeesAll
<1>7. QED  BY <1>1, <1>4, <1>6 DEF SessionsInv

LEMMA CreateSessionInv ==
  ASSUME SessionsInv, NEW s \in Sids, CreateSession(s) PROVE SessionsInv'
BY UserOfSid DEF CreateSession, Renew, SessionsInv, SessionsTypeOK, Disjoint,
  IndexIsUsed, IndexIsComplete,
  FreshSignIns, RevocationSeesAll, OldSessionsOverlapped, SidsOf

LEMMA LoginFailsInv ==
  ASSUME SessionsInv, NEW s \in Sids, LoginFails(s) PROVE SessionsInv'
BY DEF LoginFails, SessionsInv, SessionsTypeOK, Disjoint, IndexIsUsed, IndexIsComplete,
  FreshSignIns, RevocationSeesAll, OldSessionsOverlapped

LEMMA RefreshRotateInv ==
  ASSUME SessionsInv, NEW s \in Sids, RefreshRotate(s) PROVE SessionsInv'
BY UserOfSid DEF RefreshRotate, Renew, SessionsInv, SessionsTypeOK, Disjoint,
  IndexIsUsed, IndexIsComplete,
  FreshSignIns, RevocationSeesAll, OldSessionsOverlapped, SidsOf

LEMMA DeleteInv ==
  ASSUME SessionsInv, NEW s \in live \cup over, Delete({s}),
         index' = index \/ index' = index \ {s},
         refreshing' \subseteq refreshing,
         UNCHANGED <<signing, enabled, step, listed>>
  PROVE  SessionsInv'
<1> USE DEF Delete
<1>1. index' \subseteq index /\ \A x \in index : x # s => x \in index'
  OBVIOUS
<1>2. SessionsTypeOK'
  BY <1>1 DEF SessionsInv, SessionsTypeOK
<1>3. Disjoint'
  BY DEF SessionsInv, Disjoint
<1>4. IndexIsUsed' /\ IndexIsComplete'
  BY <1>1 DEF SessionsInv, IndexIsUsed, IndexIsComplete
<1>5. s \notin signing
  BY DEF SessionsInv, Disjoint
<1>6. FreshSignIns' /\ OldSessionsOverlapped'
  BY <1>5 DEF SessionsInv, FreshSignIns, OldSessionsOverlapped
<1>7. RevocationSeesAll'
  <2> SUFFICES ASSUME NEW u \in Accounts, NEW k \in Kinds
      PROVE  /\ step[<<u, k>>] \in {"LISTED", "REVOKED"} =>
                  signing \cap SidsOf(u) \subseteq overlapped \ {s}
             /\ step[<<u, k>>] = "LISTED" =>
                  ((live \ {s}) \cap SidsOf(u)) \ (overlapped \ {s}) \subseteq listed[<<u, k>>]
             /\ step[<<u, k>>] = "REVOKED" =>
                  (live \ {s}) \cap SidsOf(u) \subseteq overlapped \ {s}
             /\ listed[<<u, k>>] \subseteq live' \cup over'
    BY DEF RevocationSeesAll
  <2> QED  BY <1>5 DEF SessionsInv, RevocationSeesAll
<1>8. QED  BY <1>2, <1>3, <1>4, <1>6, <1>7 DEF SessionsInv

LEMMA RefreshReusedInv ==
  ASSUME SessionsInv, NEW s \in Sids, RefreshReused(s) PROVE SessionsInv'
BY DEF RefreshReused, redis, SessionsInv, SessionsTypeOK, Disjoint, IndexIsUsed,
  IndexIsComplete,
  FreshSignIns, RevocationSeesAll, OldSessionsOverlapped

LEMMA RefreshRefuseInv ==
  ASSUME SessionsInv, NEW s \in Sids, RefreshRefuse(s) PROVE SessionsInv'
<1>1. s \in live \cup over
  BY DEF RefreshRefuse, SessionsInv, IndexIsUsed
<1>2. QED  BY <1>1, DeleteInv DEF RefreshRefuse, RevokeSession

LEMMA RefreshLoadInv ==
  ASSUME SessionsInv, NEW s \in Sids, RefreshLoad(s) PROVE SessionsInv'
<1>1. s \in live \cup over
  BY DEF RefreshLoad, SessionsInv, IndexIsUsed
<1>2. CASE RevokeSession(s)
  BY <1>1, <1>2, DeleteInv DEF RefreshLoad, RevokeSession
<1>3. CASE UNCHANGED <<redis, outdated, overlapped>>
  BY <1>3 DEF RefreshLoad, redis, SessionsInv, SessionsTypeOK, Disjoint, IndexIsUsed,
    IndexIsComplete, FreshSignIns, RevocationSeesAll, OldSessionsOverlapped
<1>4. QED  BY <1>2, <1>3 DEF RefreshLoad

LEMMA RefreshFailsInv ==
  ASSUME SessionsInv, NEW s \in Sids, RefreshFails(s) PROVE SessionsInv'
BY DEF RefreshFails, redis, SessionsInv, SessionsTypeOK, Disjoint, IndexIsUsed,
  IndexIsComplete, FreshSignIns, RevocationSeesAll, OldSessionsOverlapped

LEMMA LogoutInv == ASSUME SessionsInv, NEW s \in Sids, Logout(s) PROVE SessionsInv'
BY DeleteInv DEF Logout, RevokeSession

LEMMA SessionExpiresInv ==
  ASSUME SessionsInv, NEW s \in Sids, SessionExpires(s) PROVE SessionsInv'
BY DeleteInv DEF SessionExpires

LEMMA IndexExpiresInv ==
  ASSUME SessionsInv, NEW u \in Accounts, IndexExpires(u) PROVE SessionsInv'
BY DEF IndexExpires, SessionsInv, SessionsTypeOK, Disjoint, IndexIsUsed, IndexIsComplete,
  FreshSignIns, RevocationSeesAll, OldSessionsOverlapped

LEMMA ListInv ==
  ASSUME SessionsInv, NEW u \in Accounts, NEW k \in Kinds, List(u, k) PROVE SessionsInv'
BY DEF List, redis, Revocations, Steps, SessionsInv, SessionsTypeOK, Disjoint,
  IndexIsUsed, IndexIsComplete,
  FreshSignIns, RevocationSeesAll, OldSessionsOverlapped, SidsOf

LEMMA RevokeListedInv ==
  ASSUME SessionsInv, NEW u \in Accounts, NEW k \in Kinds, RevokeListed(u, k)
  PROVE  SessionsInv'
<1> DEFINE gone == listed[<<u, k>>]
<1>1. <<u, k>> \in Revocations
  BY DEF Revocations
<1>2. /\ step[<<u, k>>] = "LISTED" /\ step' = [step EXCEPT ![<<u, k>>] = "REVOKED"]
      /\ Delete(gone) /\ index' = index \ SidsOf(u)
      /\ listed' = [listed EXCEPT ![<<u, k>>] = {}]
      /\ UNCHANGED <<signing, refreshing, enabled>>
  BY DEF RevokeListed
<1>3. gone \subseteq live \cup over /\ gone \cap signing = {}
  BY DEF SessionsInv, RevocationSeesAll, Disjoint
<1>4. (live \cap SidsOf(u)) \ overlapped \subseteq gone
  BY <1>2 DEF SessionsInv, RevocationSeesAll
<1>5. SessionsTypeOK'
  BY <1>1, <1>2, <1>3 DEF SessionsInv, SessionsTypeOK, Delete, Steps
<1>6. Disjoint' /\ IndexIsUsed' /\ IndexIsComplete'
  BY <1>2, <1>4 DEF SessionsInv, Disjoint, IndexIsUsed, IndexIsComplete, Delete
<1>7. FreshSignIns' /\ OldSessionsOverlapped'
  BY <1>2, <1>3 DEF SessionsInv, FreshSignIns, OldSessionsOverlapped, Delete
<1>8. RevocationSeesAll'
  <2> SUFFICES ASSUME NEW v \in Accounts, NEW j \in Kinds
      PROVE  /\ step'[<<v, j>>] \in {"LISTED", "REVOKED"} =>
                  signing \cap SidsOf(v) \subseteq overlapped'
             /\ step'[<<v, j>>] = "LISTED" =>
                  (live' \cap SidsOf(v)) \ overlapped' \subseteq listed'[<<v, j>>]
             /\ step'[<<v, j>>] = "REVOKED" => live' \cap SidsOf(v) \subseteq overlapped'
             /\ listed'[<<v, j>>] \subseteq live' \cup over'
    BY <1>2 DEF RevocationSeesAll
  <2>1. CASE v = u /\ j = k
    <3>1. step'[<<v, j>>] = "REVOKED" /\ listed'[<<v, j>>] = {}
      BY <1>1, <1>2, <2>1 DEF SessionsInv, SessionsTypeOK
    <3>2. signing \cap SidsOf(u) \subseteq overlapped
      BY <1>2 DEF SessionsInv, RevocationSeesAll
    <3>3. QED  BY <1>2, <1>3, <1>4, <2>1, <3>1, <3>2 DEF Delete
  <2>2. CASE <<v, j>> # <<u, k>>
    <3>1. step'[<<v, j>>] = step[<<v, j>>] /\ listed'[<<v, j>>] = listed[<<v, j>>]
      BY <1>1, <1>2, <2>2 DEF SessionsInv, SessionsTypeOK, Revocations
    <3>2. QED  BY <1>2, <1>3, <3>1 DEF SessionsInv, RevocationSeesAll, Delete
  <2>3. QED  BY <2>1, <2>2
<1>9. QED  BY <1>5, <1>6, <1>7, <1>8 DEF SessionsInv

LEMMA CommitRevocationInv ==
  ASSUME SessionsInv, NEW u \in Accounts, NEW k \in Kinds, CommitRevocation(u, k)
  PROVE  SessionsInv'
BY DEF CommitRevocation, redis, Revocations, Steps, SessionsInv, SessionsTypeOK,
  Disjoint, IndexIsUsed, IndexIsComplete,
  FreshSignIns, RevocationSeesAll, OldSessionsOverlapped, SidsOf

LEMMA AdmitInv ==
  ASSUME SessionsInv, NEW u \in Accounts, NEW k \in Kinds, Admit(u, k) PROVE SessionsInv'
BY DEF Admit, redis, Revocations, Steps, SessionsInv, SessionsTypeOK, Disjoint, IndexIsUsed,
  IndexIsComplete, FreshSignIns, RevocationSeesAll, OldSessionsOverlapped

LEMMA AbortRevocationInv ==
  ASSUME SessionsInv, NEW u \in Accounts, NEW k \in Kinds, AbortRevocation(u, k)
  PROVE  SessionsInv'
BY DEF AbortRevocation, redis, Revocations, Steps, SessionsInv, SessionsTypeOK, Disjoint,
  IndexIsUsed, IndexIsComplete, FreshSignIns, RevocationSeesAll, OldSessionsOverlapped

LEMMA EnableInv == ASSUME SessionsInv, NEW u \in Accounts, Enable(u) PROVE SessionsInv'
BY DEF Enable, redis, SessionsInv, SessionsTypeOK, Disjoint, IndexIsUsed, IndexIsComplete,
  FreshSignIns, RevocationSeesAll, OldSessionsOverlapped

-----------------------------------------------------------------------------
LEMMA StutterInv == ASSUME SessionsInv, UNCHANGED sessionVars PROVE SessionsInv'
BY DEF sessionVars, SessionsInv, SessionsTypeOK, Disjoint, IndexIsUsed, IndexIsComplete,
  FreshSignIns, RevocationSeesAll, OldSessionsOverlapped

LEMMA SessionsNextInv == ASSUME SessionsInv, [SessionsNext]_sessionVars PROVE SessionsInv'
<1>1. CASE UNCHANGED sessionVars
  BY <1>1, StutterInv
<1>2. CASE \E s \in Sids :
             \/ LoginVerify(s) \/ CreateSession(s) \/ LoginFails(s)
             \/ RefreshRotate(s) \/ RefreshReused(s) \/ RefreshLoad(s) \/ RefreshRefuse(s)
             \/ RefreshFails(s) \/ Logout(s) \/ SessionExpires(s)
  BY <1>2, LoginVerifyInv, CreateSessionInv, LoginFailsInv, RefreshRotateInv, RefreshReusedInv,
     RefreshLoadInv, RefreshRefuseInv, RefreshFailsInv, LogoutInv, SessionExpiresInv
<1>3. CASE \E u \in Accounts : IndexExpires(u) \/ Enable(u)
  BY <1>3, IndexExpiresInv, EnableInv
<1>4. CASE \E u \in Accounts, k \in Kinds :
             \/ Admit(u, k) \/ List(u, k) \/ RevokeListed(u, k)
             \/ CommitRevocation(u, k) \/ AbortRevocation(u, k)
  BY <1>4, AdmitInv, ListInv, RevokeListedInv, CommitRevocationInv, AbortRevocationInv
<1>5. QED  BY <1>1, <1>2, <1>3, <1>4 DEF SessionsNext

(* The inductive invariant: the redis set of a user knows every session that  *)
(* did not overlap a revocation.                                              *)
THEOREM SessionsInvariance == SessionsSpec => []SessionsInv
BY SessionsInitInv, SessionsNextInv, PTL DEF SessionsSpec

(* A session that outlives a change of its user's password, or his account,   *)
(* was signed in while that request ran.                                      *)
THEOREM RevocationEndsSessions == SessionsSpec => []OldSessionsOverlapped
<1>1. SessionsInv => OldSessionsOverlapped
  BY DEF SessionsInv
<1>2. QED  BY <1>1, SessionsInvariance, PTL

=============================================================================
