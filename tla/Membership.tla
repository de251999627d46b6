----------------------------- MODULE Membership -----------------------------
(* Who administers a firm and one of its clients: invitations, roles and      *)
(* disabled accounts (app/api/accounts.py, accept_invitation in               *)
(* app/api/auth.py).  A handler loads its principal before it takes the lock  *)
(* on the firm or the client, and the rows the principal keeps stay as they   *)
(* were read for the rest of the request: his user and his memberships of     *)
(* clients.  Of his membership of the firm it keeps the role only.  So a      *)
(* request is two steps, Begin, which reads the principal, and a handler.     *)
(* Handlers that lock the firm are atomic to each other.  That of a client's  *)
(* member locks the client only, and is two steps: its check and its commit.  *)
EXTENDS Naturals, FiniteSets

CONSTANTS
  Users,        \* people of the firm, by their email
  Bootstrap,    \* the first administrator
  MaxPending    \* bound: invitations pending at once

ASSUME MembershipAssumption ==
  /\ IsFiniteSet(Users)
  /\ Bootstrap \in Users
  /\ MaxPending \in Nat

VARIABLES
  status,       \* User.status, NONE for an email without a user
  firmRole,     \* FirmMember.role
  clientRole,   \* ClientMember.role
  client,       \* Client.status
  invites,      \* user_invites neither accepted nor revoked
  seen,         \* the principal of a user's request under way, as it was read
  held          \* the change of a member that holds the lock on the client

vars == <<status, firmRole, clientRole, client, invites, seen, held>>

FirmRoles == {"FIRM_ADMIN", "ACCOUNTANT"}
ClientRoles == {"CLIENT_ADMIN", "CLIENT_SUBMITTER"}
Statuses == {"ACTIVE", "DISABLED"}
Scopes == {"FIRM", "CLIENT"}
AnyRole(scope) == FirmRoles \cup ClientRoles      \* mutant: as the table allows
RolesOf(scope) == IF scope = "FIRM" THEN FirmRoles ELSE ClientRoles

(* An invitation that is accepted or revoked is done with (resending a        *)
(* revoked one is inviting again), and one that expires is one that nobody    *)
(* accepts: pending ones take the slots 1..MaxPending.                        *)
Slots == 1..MaxPending
NoInvite == [email |-> Bootstrap, scope |-> "NONE", role |-> "NONE"]
Invites == {NoInvite} \cup
           UNION {[email : Users, scope : {scope}, role : RolesOf(scope)] : scope \in Scopes}
Pending == {i \in Slots : invites[i] # NoInvite}

(* A principal has a role in the firm or in an active client.                 *)
NoRequest == [firm |-> "NONE", client |-> "NONE"]

Init ==
  /\ status = [u \in Users |-> IF u = Bootstrap THEN "ACTIVE" ELSE "NONE"]
  /\ firmRole = [u \in Users |-> IF u = Bootstrap THEN "FIRM_ADMIN" ELSE "NONE"]
  /\ clientRole = [u \in Users |-> "NONE"]
  /\ client = "ACTIVE"
  /\ invites = [i \in Slots |-> NoInvite]
  /\ seen = [u \in Users |-> NoRequest]
  /\ held = {}

-----------------------------------------------------------------------------
(* Requests.                                                                  *)

Principal(u) ==
  [firm |-> firmRole[u],
   client |-> IF client = "ACTIVE" THEN clientRole[u] ELSE "NONE"]

IsFirmAdmin(u) == seen[u].firm = "FIRM_ADMIN"
MayManageClient(u) == IsFirmAdmin(u) \/ seen[u].client = "CLIENT_ADMIN"

(* Only the requests that some handler below admits.                          *)
Begin(u) ==
  /\ seen[u] = NoRequest
  /\ status[u] = "ACTIVE"
  /\ firmRole[u] = "FIRM_ADMIN" \/ (client = "ACTIVE" /\ clientRole[u] = "CLIENT_ADMIN")
  /\ seen' = [seen EXCEPT ![u] = Principal(u)]
  /\ UNCHANGED <<status, firmRole, clientRole, client, invites, held>>

End(u) == seen' = [seen EXCEPT ![u] = NoRequest]

(* A request that is refused or changes nothing.                              *)
Refuse(u) ==
  /\ seen[u] # NoRequest
  /\ End(u)
  /\ UNCHANGED <<status, firmRole, clientRole, client, invites, held>>

(* What a handler reads of t: its own principal's rows are those of Begin.    *)
StatusRead(u, t) == IF t = u THEN "ACTIVE" ELSE status[t]
ClientRoleRead(u, t) ==
  IF t = u /\ seen[u].client # "NONE" THEN seen[u].client ELSE clientRole[t]

-----------------------------------------------------------------------------
(* Handlers.                                                                  *)

FirmAdmins == {u \in Users : firmRole[u] = "FIRM_ADMIN" /\ status[u] = "ACTIVE"}

(* update_user, under the lock on the firm.  A status equal to the one read   *)
(* is not written.                                                            *)
DisableOrEnable(u, t, new) ==
  /\ new = "DISABLED" => t # u
  /\ status' = IF new # StatusRead(u, t) THEN [status EXCEPT ![t] = new] ELSE status

NeedsAdmin(t, new) == firmRole[t] = "FIRM_ADMIN" /\ new # "FIRM_ADMIN"

(* The administrators are counted after the new status is flushed.            *)
NeverLast == FALSE                                      \* mutant: no count
LastAdmin == Cardinality({u \in Users : firmRole[u] = "FIRM_ADMIN" /\ status'[u] = "ACTIVE"}) = 1

ChangeFirmRole(u, t, new) ==
  /\ firmRole[t] # "NONE"
  /\ ~(/\ NeedsAdmin(t, new)
       /\ IF t = u THEN TRUE ELSE status'[t] = "ACTIVE"
       /\ LastAdmin)
  /\ firmRole' = [firmRole EXCEPT ![t] = new]

UpdateUser(u, t) ==
  /\ IsFirmAdmin(u)
  /\ status[t] # "NONE"
  /\ UNCHANGED status \/ \E new \in Statuses : DisableOrEnable(u, t, new)
  /\ UNCHANGED firmRole \/ \E new \in FirmRoles : ChangeFirmRole(u, t, new)
  /\ End(u)
  /\ UNCHANGED <<clientRole, client, invites, held>>

(* update_client takes no lock, but its commit waits for the client's row.    *)
UpdateClient(u, new) ==
  /\ IsFirmAdmin(u)
  /\ new = "ACTIVE" => seen[u].client = "NONE"
  /\ held = {}
  /\ client' = new
  /\ End(u)
  /\ UNCHANGED <<status, firmRole, clientRole, invites, held>>

(* update_client_member locks the client and checks.  NONE removes the member. *)
AnyOtherAdmin(t) == \E o \in Users \ {t} : clientRole[o] = "CLIENT_ADMIN"    \* mutant
OtherAdmin(t) ==
  \E o \in Users \ {t} : clientRole[o] = "CLIENT_ADMIN" /\ status[o] = "ACTIVE"

ClientAdmins == {u \in Users : clientRole[u] = "CLIENT_ADMIN" /\ status[u] = "ACTIVE"}

CheckMember(u, t, new) ==
  /\ MayManageClient(u)
  /\ held = {}
  /\ ClientRoleRead(u, t) # "NONE"
  /\ ClientRoleRead(u, t) = "CLIENT_ADMIN" /\ new # "CLIENT_ADMIN" => OtherAdmin(t)
  /\ held' = {[by |-> u, of |-> t, new |-> new, read |-> ClientRoleRead(u, t),
               others |-> ClientAdmins \ {t}]}
  /\ End(u)
  /\ UNCHANGED <<status, firmRole, clientRole, client, invites>>

(* Its commit: a role equal to the one read is not written, and a member whom *)
(* another request removed cannot be written.                                 *)
CommitMember ==
  \E c \in held :
    /\ clientRole[c.of] # "NONE"
    /\ clientRole' = IF c.new # c.read THEN [clientRole EXCEPT ![c.of] = c.new]
                     ELSE clientRole
    /\ held' = {}
    /\ UNCHANGED <<status, firmRole, client, invites, seen>>

(* It fails, or the server stops: the transaction ends and frees the client.  *)
Rollback ==
  /\ held # {}
  /\ held' = {}
  /\ UNCHANGED <<status, firmRole, clientRole, client, invites, seen>>

(* _create_invitation and the resending of an invitation, under the locks on  *)
(* the firm and the client: earlier invitations of this email to this scope   *)
(* are revoked.                                                               *)
IsMember(u, email, scope) ==
  IF scope = "FIRM" THEN firmRole[email] # "NONE" ELSE ClientRoleRead(u, email) # "NONE"

(* The lock on the client, when the invitation is to the client.              *)
GetsLock(scope) == scope = "CLIENT" => held = {}

NoReplacement(email, scope) == invites                    \* mutant: none revoked
Replaced(email, scope) ==
  [i \in Slots |-> IF invites[i].email = email /\ invites[i].scope = scope
                   THEN NoInvite ELSE invites[i]]

Invite(u, email, scope, role) ==
  /\ IF scope = "FIRM" THEN IsFirmAdmin(u) ELSE MayManageClient(u) /\ client = "ACTIVE"
  /\ GetsLock(scope)
  /\ StatusRead(u, email) # "DISABLED"
  /\ ~IsMember(u, email, scope)
  /\ \E i \in Slots :
       /\ Replaced(email, scope)[i] = NoInvite
       /\ invites' = [Replaced(email, scope) EXCEPT ![i] =
                        [email |-> email, scope |-> scope, role |-> role]]
  /\ End(u)
  /\ UNCHANGED <<status, firmRole, clientRole, client, held>>

(* _change_invitation without resending.                                      *)
RevokeInvite(u, i) ==
  /\ i \in Pending
  /\ IF invites[i].scope = "FIRM" THEN IsFirmAdmin(u) ELSE MayManageClient(u)
  /\ GetsLock(invites[i].scope)
  /\ invites' = [invites EXCEPT ![i] = NoInvite]
  /\ End(u)
  /\ UNCHANGED <<status, firmRole, clientRole, client, held>>

(* accept_invitation reads everything again under the locks.  It makes a user *)
(* of a new email, and gives a member the invited role.                       *)
AcceptInvite(i) ==
  LET email == invites[i].email IN
  /\ i \in Pending
  /\ GetsLock(invites[i].scope)
  /\ invites[i].scope = "CLIENT" => client = "ACTIVE"
  /\ status[email] # "DISABLED"
  /\ status' = [status EXCEPT ![email] = "ACTIVE"]
  /\ IF invites[i].scope = "FIRM"
     THEN firmRole' = [firmRole EXCEPT ![email] = invites[i].role] /\ UNCHANGED clientRole
     ELSE clientRole' = [clientRole EXCEPT ![email] = invites[i].role] /\ UNCHANGED firmRole
  /\ invites' = [invites EXCEPT ![i] = NoInvite]
  /\ UNCHANGED <<client, seen, held>>

Next ==
  \/ \E u \in Users : Begin(u) \/ Refuse(u)
  \/ \E u, t \in Users : UpdateUser(u, t)
  \/ \E u \in Users, new \in Statuses : UpdateClient(u, new)
  \/ \E u, t \in Users, new \in ClientRoles \cup {"NONE"} : CheckMember(u, t, new)
  \/ CommitMember \/ Rollback
  \/ \E u, email \in Users, scope \in Scopes :
       \E role \in RolesOf(scope) : Invite(u, email, scope, role)
  \/ \E u \in Users, i \in Slots : RevokeInvite(u, i)
  \/ \E i \in Slots : AcceptInvite(i)

Spec == Init /\ [][Next]_vars

-----------------------------------------------------------------------------
(* Properties.                                                                *)

(* The change under way; others, which only the properties read, are the      *)
(* other active administrators that its check could see.                      *)
Changes == [by : Users, of : Users, new : ClientRoles \cup {"NONE"}, read : ClientRoles,
            others : SUBSET Users]

TypeOK ==
  /\ status \in [Users -> Statuses \cup {"NONE"}]
  /\ firmRole \in [Users -> FirmRoles \cup {"NONE"}]
  /\ clientRole \in [Users -> ClientRoles \cup {"NONE"}]
  /\ client \in Statuses
  /\ invites \in [Slots -> Invites]
  /\ seen \in [Users -> [firm : FirmRoles \cup {"NONE"}, client : ClientRoles \cup {"NONE"}]]
  /\ held \subseteq Changes

(* An invitation can be accepted only by somebody who is not a member yet,    *)
(* however many are sent and resent: accepting never changes a member's role, *)
(* which accept_invitation would do without asking who else administers.      *)
InvitedAreNew ==
  \A i \in Pending :
    (IF invites[i].scope = "FIRM" THEN firmRole ELSE clientRole)[invites[i].email] = "NONE"

(* The inductive invariant behind it: one invitation at a time per email and  *)
(* scope; and, while a change of a member holds the lock on the client, its   *)
(* check of the roles stays true.                                             *)
OnePending ==
  \A i, j \in Pending :
    invites[i].email = invites[j].email /\ invites[i].scope = invites[j].scope => i = j

OneHolder == \A c, d \in held : c = d

RolesAsChecked ==
  \A c \in held :
    /\ c.read = clientRole[c.of] \/ c.by = c.of
    /\ c.read = "CLIENT_ADMIN" /\ c.new # "CLIENT_ADMIN" => c.others # {}
    /\ \A o \in c.others :
         o # c.of /\ clientRole[o] = "CLIENT_ADMIN" /\ status[o] # "NONE"

IInv == TypeOK /\ OnePending /\ OneHolder /\ RolesAsChecked /\ InvitedAreNew

(* A member's role changes only by a request: in the firm by one that began   *)
(* as an administrator's, in the client by the one that locks the client.     *)
RolesChangeByRequest ==
  [][\A t \in Users :
       /\ firmRole[t] # "NONE" /\ firmRole'[t] # firmRole[t]
            => \E u \in Users : seen[u].firm = "FIRM_ADMIN" /\ seen'[u] = NoRequest
       /\ clientRole[t] # "NONE" /\ clientRole'[t] # clientRole[t]
            => \E c \in held : c.of = t /\ held' = {}]_vars

(* The firm loses its last active administrator in one way only: he is        *)
(* disabled by somebody who administered the firm when his request began and, *)
(* when it gets the lock, does so no more.  No change of roles takes him      *)
(* (update_user, LAST_ADMIN_REQUIRED), whatever its requests read before.     *)
LastAdminDisabledByFormer ==
  [][FirmAdmins # {} /\ FirmAdmins' = {} =>
       \E u, t \in Users : /\ FirmAdmins = {t} /\ status'[t] = "DISABLED"
                           /\ seen[u].firm = "FIRM_ADMIN" /\ seen'[u] = NoRequest
                           /\ u \notin FirmAdmins]_vars

(* test_accounts.py:437 speaks of "the active-admin invariant", update_user   *)
(* of "The firm must keep at least one administrator": disabling does not     *)
(* count them, and is refused only to a principal who disables himself.       *)
FirmKeepsAdmin == FirmAdmins # {}

(* A client loses its last active administrator, other than by a disabled     *)
(* account, in two ways only.  All the others whom the check saw were         *)
(* disabled before the commit: update_user locks the firm, not the client.    *)
(* Or he removes himself by a request that began when he was a submitter: the *)
(* check takes him for the submitter he was.                                  *)
LastClientAdminGoes ==
  [][ClientAdmins # {} /\ ClientAdmins' = {} /\ status' = status =>
       \E c \in held :
         /\ held' = {} /\ ClientAdmins = {c.of}
         /\ \/ /\ c.others # {}
               /\ \A o \in c.others : clientRole[o] = "CLIENT_ADMIN" /\ status[o] = "DISABLED"
            \/ c.by = c.of /\ c.read = "CLIENT_SUBMITTER" /\ c.new = "NONE"]_vars

(* update_client_member locks the client "so concurrent requests cannot each  *)
(* see a different other administrator and remove the last two".  Neither the *)
(* others' accounts nor the principal's own role are held by that lock.       *)
ClientKeepsAdmin ==
  [][status' = status /\ ClientAdmins # {} => ClientAdmins' # {}]_vars

=============================================================================
