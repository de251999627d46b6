------------------------------ MODULE Sessions ------------------------------
(* Sign-in, refreshing and the revocation of sessions (app/auth.py,           *)
(* app/api/auth.py).  A session is a key in redis, and each user has a redis  *)
(* set of his sessions, from which all of them are revoked; passwords and     *)
(* users are rows of the database.  No lock and no transaction covers both:   *)
(* a sign-in reads the password before it makes the session, a change of      *)
(* password revokes the sessions before it commits the password.              *)
EXTENDS Naturals

CONSTANTS
  Accounts,     \* users
  Changes,      \* requests in flight that replace a user's password
  MaxSignIns    \* bound: sign-ins of each user

ASSUME SessionsAssumption == MaxSignIns \in Nat /\ "DISABLE" \notin Changes

Sids == Accounts \X (1..MaxSignIns)       \* a new uuid for each sign-in
SidsOf(u) == {s \in Sids : s[1] = u}

(* What revokes every session of a user: a change or a reset of his password, *)
(* several at once, and an administrator, one at a time under the firm's lock.*)
Kinds == Changes \cup {"DISABLE"}
Steps == {"NONE", "ADMITTED", "LISTED", "REVOKED"}
Revocations == Accounts \X Kinds

VARIABLES
  signing,      \* sign-ins whose password is verified, not yet a session
  live,         \* sessions in redis
  over,         \* ended sessions and failed sign-ins
  index,        \* the sessions listed in the redis set of their user
  outlasting,   \* sessions whose key expires after that set
  rotated,      \* sessions that have been refreshed: older tokens exist
  refreshing,   \* refreshes between the rotation and their end
  enabled,      \* users whose status is ACTIVE
  outdated,     \* sign-ins and sessions of a password that was replaced
  step,         \* how far each revocation is
  listed,       \* the sessions it read from the set
  overlapped    \* sign-ins and sessions that overlapped a revocation

redis == <<live, over, index, outlasting, rotated>>
sessionVars == <<signing, live, over, index, outlasting, rotated, refreshing, enabled,
                 outdated, step, listed, overlapped>>

SessionsInit ==
  /\ signing = {} /\ live = {} /\ over = {} /\ index = {} /\ outlasting = {}
  /\ rotated = {} /\ refreshing = {} /\ outdated = {} /\ overlapped = {}
  /\ enabled = Accounts
  /\ step = [r \in Revocations |-> "NONE"]
  /\ listed = [r \in Revocations |-> {}]

-----------------------------------------------------------------------------
(* Keys in redis.                                                             *)

(* Deleting the keys of the sessions S, which are no longer told apart.       *)
Delete(S) ==
  /\ live' = live \ S
  /\ over' = over \cup (live \cap S)
  /\ outlasting' = outlasting \ S
  /\ rotated' = rotated \ S
  /\ outdated' = outdated \ S
  /\ overlapped' = overlapped \ S

(* A session and then the set of its user get the full lifetime.              *)
RenewSessionOnly(s) == outlasting \cup {s}            \* mutant: the set is not renewed
Renew(s) == (outlasting \cup {s}) \ SidsOf(s[1])

(* revoke_session.                                                            *)
RevokeSession(s) == Delete({s}) /\ index' = index \ {s}

-----------------------------------------------------------------------------
(* Sign-in.                                                                   *)

UnderRevocation(u) == \E k \in Kinds : step[<<u, k>>] \in {"LISTED", "REVOKED"}

(* login verifies the password and that the user is active.                   *)
LoginVerify(s) ==
  /\ s \notin signing \cup live \cup over
  /\ s[2] > 1 => <<s[1], s[2] - 1>> \in signing \cup live \cup over
  /\ s[1] \in enabled
  /\ signing' = signing \cup {s}
  /\ overlapped' = IF UnderRevocation(s[1]) THEN overlapped \cup {s} ELSE overlapped
  /\ UNCHANGED <<redis, refreshing, enabled, outdated, step, listed>>

(* create_session, one transaction of redis.                                  *)
NotListed(s) ==                                    \* mutant: the set is not written
  /\ s \in signing
  /\ signing' = signing \ {s}
  /\ live' = live \cup {s}
  /\ outlasting' = Renew(s)
  /\ UNCHANGED <<over, index, rotated, refreshing, enabled, outdated, step, listed, overlapped>>

CreateSession(s) ==
  /\ s \in signing
  /\ signing' = signing \ {s}
  /\ live' = live \cup {s}
  /\ index' = index \cup {s}
  /\ outlasting' = Renew(s)
  /\ UNCHANGED <<over, rotated, refreshing, enabled, outdated, step, listed, overlapped>>

(* Redis fails, or the server stops.                                          *)
LoginFails(s) ==
  /\ s \in signing
  /\ signing' = signing \ {s}
  /\ over' = over \cup {s}
  /\ outdated' = outdated \ {s}
  /\ overlapped' = overlapped \ {s}
  /\ UNCHANGED <<live, index, outlasting, rotated, refreshing, enabled, step, listed>>

-----------------------------------------------------------------------------
(* Refreshing.  The script compares the token and replaces it in one step.    *)

RefreshRotate(s) ==
  /\ s \in live
  /\ rotated' = rotated \cup {s}
  /\ index' = index \cup {s}
  /\ outlasting' = Renew(s)
  /\ refreshing' = refreshing \cup {<<s, "LOAD">>}
  /\ UNCHANGED <<signing, live, over, enabled, outdated, step, listed, overlapped>>

(* An older token, sent again by who lost the answer or twice at once.        *)
RefreshReused(s) ==
  /\ s \in live \cap rotated
  /\ refreshing' = refreshing \cup {<<s, "REUSED">>}
  /\ UNCHANGED <<redis, signing, enabled, outdated, step, listed, overlapped>>

RefreshLoad(s) ==
  /\ <<s, "LOAD">> \in refreshing
  /\ refreshing' = refreshing \ {<<s, "LOAD">>}
  /\ IF s[1] \in enabled THEN UNCHANGED <<redis, outdated, overlapped>> ELSE RevokeSession(s)
  /\ UNCHANGED <<signing, enabled, step, listed>>

RefreshRefuse(s) ==
  /\ <<s, "REUSED">> \in refreshing
  /\ refreshing' = refreshing \ {<<s, "REUSED">>}
  /\ RevokeSession(s)
  /\ UNCHANGED <<signing, enabled, step, listed>>

(* Redis or the database fails, or the server stops, before the session is    *)
(* ended: it lives on, and an older token sent again is refused again.        *)
RefreshFails(s) ==
  /\ \E at \in {"LOAD", "REUSED"} :
       <<s, at>> \in refreshing /\ refreshing' = refreshing \ {<<s, at>>}
  /\ UNCHANGED <<redis, signing, enabled, outdated, step, listed, overlapped>>

(* Any token of the session will do.                                          *)
Logout(s) ==
  /\ s \in live
  /\ RevokeSession(s)
  /\ UNCHANGED <<signing, refreshing, enabled, step, listed>>

SessionExpires(s) ==
  /\ s \in live
  /\ Delete({s})
  /\ UNCHANGED <<signing, index, refreshing, enabled, step, listed>>

(* The set expires after the sessions of its user that do not outlast it.     *)
IndexExpires(u) ==
  /\ index \cap SidsOf(u) # {}
  /\ live \cap SidsOf(u) \subseteq outlasting
  /\ index' = index \ SidsOf(u)
  /\ UNCHANGED <<signing, live, over, outlasting, rotated, refreshing, enabled, outdated,
                 step, listed, overlapped>>

-----------------------------------------------------------------------------
(* Revoking all sessions of a user: change_password, confirm_password_reset   *)
(* and update_user, which disables him.                                       *)

(* A change of password needs a session and a reset a token sent by mail; all *)
(* need a user who is active when he is read.                                 *)
Admit(u, k) ==
  /\ step[<<u, k>>] = "NONE"
  /\ u \in enabled
  /\ step' = [step EXCEPT ![<<u, k>>] = "ADMITTED"]
  /\ UNCHANGED <<redis, signing, refreshing, enabled, outdated, listed, overlapped>>

(* revoke_user_sessions reads the set.                                        *)
List(u, k) ==
  /\ step[<<u, k>>] = "ADMITTED"
  /\ step' = [step EXCEPT ![<<u, k>>] = "LISTED"]
  /\ listed' = [listed EXCEPT ![<<u, k>>] = index \cap SidsOf(u)]
  /\ overlapped' = overlapped \cup (signing \cap SidsOf(u))
  /\ UNCHANGED <<redis, signing, refreshing, enabled, outdated>>

(* Then it deletes what it read, and the set.                                 *)
RevokeListed(u, k) ==
  /\ step[<<u, k>>] = "LISTED"
  /\ step' = [step EXCEPT ![<<u, k>>] = "REVOKED"]
  /\ Delete(listed[<<u, k>>])
  /\ index' = index \ SidsOf(u)
  /\ listed' = [listed EXCEPT ![<<u, k>>] = {}]
  /\ UNCHANGED <<signing, refreshing, enabled>>

CommitRevocation(u, k) ==
  /\ step[<<u, k>>] = "REVOKED"
  /\ step' = [step EXCEPT ![<<u, k>>] = "NONE"]
  /\ IF k = "DISABLE" THEN enabled' = enabled \ {u} /\ UNCHANGED outdated
     ELSE outdated' = outdated \cup ((signing \cup live) \cap SidsOf(u)) /\ UNCHANGED enabled
  /\ UNCHANGED <<redis, signing, refreshing, listed, overlapped>>

(* Redis or the database fails, or the server stops: nothing is committed.    *)
AbortRevocation(u, k) ==
  /\ step[<<u, k>>] # "NONE"
  /\ step' = [step EXCEPT ![<<u, k>>] = "NONE"]
  /\ listed' = [listed EXCEPT ![<<u, k>>] = {}]
  /\ UNCHANGED <<redis, signing, refreshing, enabled, outdated, overlapped>>

(* update_user, under the same lock as DISABLE.                               *)
Enable(u) ==
  /\ u \notin enabled
  /\ step[<<u, "DISABLE">>] = "NONE"
  /\ enabled' = enabled \cup {u}
  /\ UNCHANGED <<redis, signing, refreshing, outdated, step, listed, overlapped>>

SessionsNext ==
  \/ \E s \in Sids :
       \/ LoginVerify(s) \/ CreateSession(s) \/ LoginFails(s)
       \/ RefreshRotate(s) \/ RefreshReused(s) \/ RefreshLoad(s) \/ RefreshRefuse(s)
       \/ RefreshFails(s) \/ Logout(s) \/ SessionExpires(s)
  \/ \E u \in Accounts : IndexExpires(u) \/ Enable(u)
  \/ \E u \in Accounts, k \in Kinds :
       \/ Admit(u, k) \/ List(u, k) \/ RevokeListed(u, k)
       \/ CommitRevocation(u, k) \/ AbortRevocation(u, k)

SessionsSpec == SessionsInit /\ [][SessionsNext]_sessionVars

-----------------------------------------------------------------------------
(* Properties.                                                                *)

SessionsTypeOK ==
  /\ signing \subseteq Sids /\ live \subseteq Sids /\ over \subseteq Sids
  /\ index \subseteq Sids /\ outlasting \subseteq Sids
  /\ rotated \subseteq Sids
  /\ refreshing \subseteq Sids \X {"LOAD", "REUSED"}
  /\ enabled \subseteq Accounts
  /\ outdated \subseteq signing \cup live
  /\ overlapped \subseteq signing \cup live
  /\ step \in [Revocations -> Steps]
  /\ listed \in [Revocations -> SUBSET Sids]

(* Whoever changes or resets a password, or disables an account, ends every   *)
(* session opened before: a session that works with a replaced password, or   *)
(* of a disabled account, was signed in while the revocation ran, between     *)
(* its reading of the set and its commit.  These the code does not catch: a   *)
(* sign-in that had verified the old password, and a session made between the *)
(* reading and the deletion of the set, which later revocations do not find.  *)
OldSessionsOverlapped ==
  \A s \in live : s \in overlapped \/ (s \notin outdated /\ s[1] \in enabled)

(* The inductive invariant: the set knows every session that did not overlap  *)
(* a revocation, and a revocation that has read the set has them all.         *)
IndexIsComplete == outlasting = {} /\ live \ overlapped \subseteq index

Disjoint == signing \cap live = {} /\ signing \cap over = {} /\ live \cap over = {}
IndexIsUsed == index \subseteq live \cup over /\ \A r \in refreshing : r[1] \in live \cup over

FreshSignIns == \A s \in signing : s \in overlapped \/ (s \notin outdated /\ s[1] \in enabled)

RevocationSeesAll ==
  \A u \in Accounts, k \in Kinds :
    /\ step[<<u, k>>] \in {"LISTED", "REVOKED"} => signing \cap SidsOf(u) \subseteq overlapped
    /\ step[<<u, k>>] = "LISTED" =>
         (live \cap SidsOf(u)) \ overlapped \subseteq listed[<<u, k>>]
    /\ step[<<u, k>>] = "REVOKED" => live \cap SidsOf(u) \subseteq overlapped
    /\ listed[<<u, k>>] \subseteq live \cup over

SessionsInv ==
  /\ SessionsTypeOK /\ Disjoint /\ IndexIsUsed /\ IndexIsComplete
  /\ FreshSignIns /\ RevocationSeesAll /\ OldSessionsOverlapped

=============================================================================
