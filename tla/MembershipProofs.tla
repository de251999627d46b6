-------------------------- MODULE MembershipProofs --------------------------
(* Proofs about Membership, for any finite set of people: invitations never   *)
(* reach a member, no change of roles leaves the firm without an active       *)
(* administrator although principals are read before the lock, and a client   *)
(* loses its last one in two ways only.                                       *)
EXTENDS Membership, FiniteSetTheorems, TLAPS

LEMMA InitInv == ASSUME Init PROVE IInv
BY MembershipAssumption DEF Init, IInv, TypeOK, OnePending, OneHolder, RolesAsChecked,
  InvitedAreNew, Pending, Statuses, FirmRoles, ClientRoles, Invites, NoRequest

-----------------------------------------------------------------------------
(* What requests read.                                                        *)

(* A handler that finds no membership is right.                               *)
LEMMA NoMembership ==
  ASSUME IInv, NEW u \in Users, NEW email \in Users, NEW scope \in Scopes,
         ~IsMember(u, email, scope)
  PROVE  (IF scope = "FIRM" THEN firmRole ELSE clientRole)[email] = "NONE"
BY DEF IsMember, ClientRoleRead

-----------------------------------------------------------------------------
(* The requests keep the invariant.                                           *)

LEMMA BeginInv == ASSUME IInv, NEW u \in Users, Begin(u) PROVE IInv'
BY DEF IInv, Begin, Principal, TypeOK, OnePending, OneHolder, RolesAsChecked,
  InvitedAreNew, Pending

LEMMA RefuseInv == ASSUME IInv, NEW u \in Users, Refuse(u) PROVE IInv'
BY DEF IInv, Refuse, End, NoRequest, TypeOK, OnePending, OneHolder, RolesAsChecked,
  InvitedAreNew, Pending

LEMMA UpdateClientInv ==
  ASSUME IInv, NEW u \in Users, NEW new \in Statuses, UpdateClient(u, new) PROVE IInv'
BY DEF IInv, UpdateClient, End, NoRequest, TypeOK, OnePending, OneHolder,
  RolesAsChecked, InvitedAreNew, Pending

(* Roles in the client and accounts that exist: what a check relies on.       *)
LEMMA StillAsChecked ==
  ASSUME IInv, UNCHANGED <<clientRole, held>>,
         \A v \in Users : status[v] # "NONE" => status'[v] # "NONE"
  PROVE  OneHolder' /\ RolesAsChecked'
BY DEF IInv, TypeOK, Changes, OneHolder, RolesAsChecked

(* The only role a request changes is that of a member.                       *)
LEMMA UpdateUserStep ==
  ASSUME IInv, NEW u \in Users, NEW t \in Users, UpdateUser(u, t)
  PROVE  /\ status' \in [Users -> Statuses \cup {"NONE"}]
         /\ firmRole' \in [Users -> FirmRoles \cup {"NONE"}]
         /\ \A v \in Users : firmRole[v] = "NONE" <=> firmRole'[v] = "NONE"
         /\ \A v \in Users : status[v] # "NONE" => status'[v] # "NONE"
<1>1. /\ status' \in [Users -> Statuses \cup {"NONE"}]
      /\ \A v \in Users : status[v] # "NONE" => status'[v] # "NONE"
  BY DEF IInv, TypeOK, UpdateUser, DisableOrEnable, Statuses
<1>2. CASE UNCHANGED firmRole
  BY <1>1, <1>2 DEF IInv, TypeOK
<1>3. ASSUME NEW new \in FirmRoles, ChangeFirmRole(u, t, new)
      PROVE  /\ firmRole' \in [Users -> FirmRoles \cup {"NONE"}]
             /\ \A v \in Users : firmRole[v] = "NONE" <=> firmRole'[v] = "NONE"
  <2>1. firmRole[t] # "NONE" /\ new # "NONE"
    BY <1>3 DEF ChangeFirmRole, FirmRoles
  <2>2. firmRole' = [firmRole EXCEPT ![t] = new]
    BY <1>3 DEF ChangeFirmRole
  <2>3. QED  BY <2>1, <2>2 DEF IInv, TypeOK
<1>4. QED  BY <1>1, <1>2, <1>3 DEF UpdateUser

LEMMA UpdateUserInv ==
  ASSUME IInv, NEW u \in Users, NEW t \in Users, UpdateUser(u, t) PROVE IInv'
<1>1. UNCHANGED <<clientRole, client, invites, held>> /\ End(u)
  BY DEF UpdateUser
<1>2. TypeOK'
  BY <1>1, UpdateUserStep DEF IInv, TypeOK, End, NoRequest
<1>3. OnePending'
  BY <1>1 DEF IInv, OnePending, Pending
<1>4. OneHolder' /\ RolesAsChecked'
  BY <1>1, UpdateUserStep, StillAsChecked
<1>5. InvitedAreNew'
  <2> SUFFICES ASSUME NEW i \in Pending
               PROVE  (IF invites[i].scope = "FIRM" THEN firmRole' ELSE clientRole)
                         [invites[i].email] = "NONE"
    BY <1>1 DEF InvitedAreNew, Pending
  <2>1. invites[i].email \in Users
    BY DEF IInv, TypeOK, Pending, Invites
  <2>2. QED  BY <2>1, UpdateUserStep DEF IInv, InvitedAreNew
<1>6. QED  BY <1>2, <1>3, <1>4, <1>5 DEF IInv

(* The check leaves behind what it found.                                     *)
LEMMA CheckMemberInv ==
  ASSUME IInv, NEW u \in Users, NEW t \in Users, NEW new \in ClientRoles \cup {"NONE"},
         CheckMember(u, t, new)
  PROVE  IInv'
<1> DEFINE c == [by |-> u, of |-> t, new |-> new, read |-> ClientRoleRead(u, t),
                 others |-> ClientAdmins \ {t}]
<1>1. UNCHANGED <<status, firmRole, clientRole, client, invites>> /\ End(u) /\ held' = {c}
  BY DEF CheckMember
<1>2. c \in Changes
  BY DEF CheckMember, ClientRoleRead, ClientAdmins, Changes, IInv, TypeOK
<1>3. TypeOK' /\ OnePending' /\ OneHolder' /\ InvitedAreNew'
  BY <1>1, <1>2
  DEF IInv, TypeOK, OnePending, OneHolder, InvitedAreNew, End, NoRequest, Pending
<1>4. c.read = "CLIENT_ADMIN" /\ c.new # "CLIENT_ADMIN" => c.others # {}
  BY DEF CheckMember, OtherAdmin, ClientAdmins
<1>5. c.read = clientRole[c.of] \/ c.by = c.of
  BY DEF ClientRoleRead
<1>6. \A o \in c.others : o # c.of /\ clientRole[o] = "CLIENT_ADMIN" /\ status[o] # "NONE"
  BY DEF ClientAdmins
<1>7. RolesAsChecked'
  BY <1>1, <1>4, <1>5, <1>6 DEF RolesAsChecked
<1>8. QED  BY <1>3, <1>7 DEF IInv

LEMMA CommitMemberInv == ASSUME IInv, CommitMember PROVE IInv'
<1>1. PICK c \in held :
        /\ clientRole[c.of] # "NONE"
        /\ clientRole' = IF c.new # c.read THEN [clientRole EXCEPT ![c.of] = c.new]
                         ELSE clientRole
        /\ held' = {}
        /\ UNCHANGED <<status, firmRole, client, invites, seen>>
  BY DEF CommitMember
<1>2. c.of \in Users /\ c.new \in ClientRoles \cup {"NONE"}
  BY DEF IInv, TypeOK, Changes
<1>3. /\ clientRole' \in [Users -> ClientRoles \cup {"NONE"}]
      /\ \A v \in Users : clientRole[v] = "NONE" => clientRole'[v] = "NONE"
  BY <1>1, <1>2 DEF IInv, TypeOK
<1>4. TypeOK' /\ OnePending' /\ OneHolder' /\ RolesAsChecked'
  BY <1>1, <1>3 DEF IInv, TypeOK, OnePending, OneHolder, RolesAsChecked, Pending
<1>5. InvitedAreNew'
  <2> SUFFICES ASSUME NEW i \in Pending
               PROVE  (IF invites[i].scope = "FIRM" THEN firmRole ELSE clientRole')
                         [invites[i].email] = "NONE"
    BY <1>1 DEF InvitedAreNew, Pending
  <2>1. invites[i].email \in Users
    BY DEF IInv, TypeOK, Pending, Invites
  <2>2. QED  BY <1>3, <2>1 DEF IInv, InvitedAreNew
<1>6. QED  BY <1>4, <1>5 DEF IInv

LEMMA RollbackInv == ASSUME IInv, Rollback PROVE IInv'
BY DEF IInv, Rollback, TypeOK, OnePending, OneHolder, RolesAsChecked, InvitedAreNew,
  Pending

(* A new invitation replaces the one this email had, and finds no member.     *)
LEMMA InviteInv ==
  ASSUME IInv, NEW u \in Users, NEW email \in Users, NEW scope \in Scopes,
         NEW role \in RolesOf(scope), Invite(u, email, scope, role)
  PROVE  IInv'
<1> DEFINE new == [email |-> email, scope |-> scope, role |-> role]
           kept == Replaced(email, scope)
<1>1. PICK i \in Slots : kept[i] = NoInvite /\ invites' = [kept EXCEPT ![i] = new]
  BY DEF Invite
<1>2. UNCHANGED <<status, firmRole, clientRole, client, held>> /\ End(u)
  BY DEF Invite
<1>3. new \in Invites /\ new # NoInvite
  BY DEF Invites, NoInvite, Scopes
<1>4. kept \in [Slots -> Invites]
  BY DEF Replaced, IInv, TypeOK, Invites
<1>5. \A j \in Pending' : \/ j = i /\ invites'[j] = new
                          \/ /\ j # i /\ j \in Pending /\ invites'[j] = invites[j]
                             /\ ~(invites[j].email = email /\ invites[j].scope = scope)
  BY <1>1, <1>4 DEF Pending, Replaced
<1>6. invites' \in [Slots -> Invites]
  BY <1>1, <1>3, <1>4
<1>7. TypeOK'
  BY <1>2, <1>6 DEF IInv, TypeOK, End, NoRequest
<1>8. OnePending'
  BY <1>5 DEF IInv, OnePending
<1>9. OneHolder' /\ RolesAsChecked'
  BY <1>2, StillAsChecked
<1>10. (IF scope = "FIRM" THEN firmRole ELSE clientRole)[email] = "NONE"
  BY NoMembership DEF Invite
<1>11. InvitedAreNew'
  BY <1>2, <1>5, <1>10 DEF IInv, InvitedAreNew
<1>12. QED  BY <1>7, <1>8, <1>9, <1>11 DEF IInv

LEMMA RevokeInviteInv ==
  ASSUME IInv, NEW u \in Users, NEW i \in Slots, RevokeInvite(u, i) PROVE IInv'
<1>1. \A j \in Pending' : j \in Pending /\ invites'[j] = invites[j]
  BY DEF RevokeInvite, IInv, TypeOK, Pending
<1>2. UNCHANGED <<status, firmRole, clientRole, client, held>> /\ End(u)
  BY DEF RevokeInvite
<1>3. TypeOK'
  BY <1>2 DEF RevokeInvite, IInv, TypeOK, End, NoRequest, Invites
<1>4. OneHolder' /\ RolesAsChecked'
  BY <1>2, StillAsChecked
<1>5. OnePending' /\ InvitedAreNew'
  BY <1>1, <1>2 DEF IInv, OnePending, InvitedAreNew
<1>6. QED  BY <1>3, <1>4, <1>5 DEF IInv

(* The accepted invitation was the only one of this email to this scope.      *)
LEMMA AcceptInviteInv ==
  ASSUME IInv, NEW i \in Slots, AcceptInvite(i) PROVE IInv'
<1> DEFINE email == invites[i].email  role == invites[i].role
<1>1. i \in Pending /\ email \in Users
  BY DEF AcceptInvite, IInv, TypeOK, Pending, Invites
<1>2. \/ /\ invites[i].scope = "FIRM" /\ role \in FirmRoles
         /\ firmRole' = [firmRole EXCEPT ![email] = role] /\ UNCHANGED clientRole
      \/ /\ invites[i].scope = "CLIENT" /\ role \in ClientRoles
         /\ clientRole' = [clientRole EXCEPT ![email] = role] /\ UNCHANGED firmRole
  BY <1>1 DEF AcceptInvite, IInv, TypeOK, Pending, Invites, RolesOf, Scopes, NoInvite
<1>3. \A j \in Pending' : /\ j \in Pending /\ invites'[j] = invites[j]
                          /\ ~(invites[j].email = email /\ invites[j].scope = invites[i].scope)
  BY <1>1 DEF AcceptInvite, IInv, TypeOK, Pending, OnePending
<1>4. TypeOK'
  BY <1>1, <1>2 DEF AcceptInvite, IInv, TypeOK, Statuses, Invites
<1>5. OneHolder' /\ RolesAsChecked'
  <2>1. held' = held /\ \A v \in Users : status[v] # "NONE" => status'[v] # "NONE"
    BY <1>1 DEF AcceptInvite, IInv, TypeOK
  <2>2. CASE UNCHANGED clientRole
    BY <2>1, <2>2, StillAsChecked
  <2>3. CASE held = {}
    BY <2>1, <2>3 DEF OneHolder, RolesAsChecked
  <2>4. QED  BY <1>2, <2>2, <2>3 DEF AcceptInvite, GetsLock
<1>6. OnePending'
  BY <1>3 DEF IInv, OnePending
<1>7. InvitedAreNew'
  <2> SUFFICES ASSUME NEW j \in Pending'
               PROVE  (IF invites[j].scope = "FIRM" THEN firmRole' ELSE clientRole')
                         [invites[j].email] = "NONE"
    BY <1>3 DEF InvitedAreNew
  <2>1. invites[j].email \in Users /\ invites[j].scope \in Scopes
    BY <1>3 DEF IInv, TypeOK, Pending, Invites
  <2>2. QED  BY <1>2, <1>3, <2>1 DEF IInv, TypeOK, InvitedAreNew, Scopes
<1>8. QED  BY <1>4, <1>5, <1>6, <1>7 DEF IInv

LEMMA NextInv == IInv /\ [Next]_vars => IInv'
<1> SUFFICES ASSUME IInv, [Next]_vars PROVE IInv'
  OBVIOUS
<1>1. CASE UNCHANGED vars
  BY <1>1 DEF vars, IInv, TypeOK, OnePending, OneHolder, RolesAsChecked, InvitedAreNew,
    Pending
<1>2. CASE Next
  BY <1>2, BeginInv, RefuseInv, UpdateUserInv, UpdateClientInv,
    CheckMemberInv, CommitMemberInv, RollbackInv, InviteInv, RevokeInviteInv,
    AcceptInviteInv DEF Next
<1>3. QED  BY <1>1, <1>2

THEOREM Invariance == Spec => []IInv
<1>1. Init => IInv
  BY InitInv
<1>2. QED  BY <1>1, NextInv, PTL DEF Spec

(* Every pending invitation is for somebody who is not a member: accepting    *)
(* one (accept_invitation) never changes the role of a member.                *)
THEOREM InvitationsReachNoMember == Spec => []InvitedAreNew
<1>1. IInv => InvitedAreNew
  BY DEF IInv
<1>2. QED  BY <1>1, Invariance, PTL

-----------------------------------------------------------------------------
(* Steps.                                                                     *)

(* An accepted invitation changes nobody's role but gives him one.            *)
LEMMA AcceptGives ==
  ASSUME IInv, NEW i \in Slots, AcceptInvite(i), NEW t \in Users
  PROVE  /\ firmRole[t] # "NONE" => firmRole'[t] = firmRole[t]
         /\ clientRole[t] # "NONE" => clientRole'[t] = clientRole[t]
<1>1. /\ i \in Pending
      /\ invites[i].email \in Users
      /\ invites[i].scope = "FIRM" \/ invites[i].scope = "CLIENT"
  BY DEF AcceptInvite, IInv, TypeOK, Pending, Invites, Scopes, NoInvite
<1>2. QED  BY <1>1 DEF AcceptInvite, IInv, TypeOK, InvitedAreNew

(* Beside it one handler changes roles in the firm, and one in the client.    *)
LEMMA FirmRoleStep ==
  ASSUME IInv, Next, NEW t \in Users, firmRole[t] # "NONE", firmRole'[t] # firmRole[t]
  PROVE  \E u \in Users : /\ UpdateUser(u, t)
                          /\ seen[u].firm = "FIRM_ADMIN" /\ seen'[u] = NoRequest
<1>1. PICK u \in Users, v \in Users : UpdateUser(u, v)
  BY AcceptGives
  DEF Next, Begin, Refuse, UpdateClient, CheckMember, CommitMember, Rollback, Invite,
    RevokeInvite
<1>2. v = t
  BY <1>1 DEF UpdateUser, ChangeFirmRole, IInv, TypeOK
<1>3. QED  BY <1>1, <1>2 DEF UpdateUser, IsFirmAdmin, End, IInv, TypeOK

LEMMA ClientRoleStep ==
  ASSUME IInv, Next, NEW t \in Users, clientRole[t] # "NONE", clientRole'[t] # clientRole[t]
  PROVE  \E c \in held : /\ c.of = t /\ c.new # c.read /\ held' = {}
                         /\ clientRole' = [clientRole EXCEPT ![t] = c.new]
<1>1. CommitMember
  BY AcceptGives
  DEF Next, Begin, Refuse, UpdateUser, UpdateClient, CheckMember, Rollback, Invite,
    RevokeInvite
<1>2. QED  BY <1>1 DEF CommitMember, Changes, IInv, TypeOK

(* A member's role changes only by a request: in the firm by one that began   *)
(* as an administrator's, in the client by the one that locks the client.     *)
THEOREM MembersChangeByRequest == Spec => RolesChangeByRequest
<1>1. IInv /\ [Next]_vars =>
        [\A t \in Users :
           /\ firmRole[t] # "NONE" /\ firmRole'[t] # firmRole[t]
                => \E u \in Users : seen[u].firm = "FIRM_ADMIN" /\ seen'[u] = NoRequest
           /\ clientRole[t] # "NONE" /\ clientRole'[t] # clientRole[t]
                => \E c \in held : c.of = t /\ held' = {}]_vars
  BY FirmRoleStep, ClientRoleStep
<1>2. QED  BY <1>1, Invariance, PTL DEF Spec, RolesChangeByRequest

(* The one who counts as last administrator is not demoted: either somebody   *)
(* else administers, or the role stays.                                       *)
LEMMA AdminStep ==
  ASSUME IInv, Next, UNCHANGED status, FirmAdmins # {}
  PROVE  FirmAdmins' # {}
<1> SUFFICES ASSUME FirmAdmins' = {} PROVE FALSE
  OBVIOUS
<1>1. PICK t \in Users : firmRole[t] = "FIRM_ADMIN" /\ status[t] = "ACTIVE"
  BY DEF FirmAdmins
<1>2. firmRole'[t] # "FIRM_ADMIN"
  BY <1>1 DEF FirmAdmins
<1>3. PICK u \in Users : UpdateUser(u, t)
  BY <1>1, <1>2, FirmRoleStep
<1>4. PICK new \in FirmRoles : ChangeFirmRole(u, t, new) /\ firmRole' = [firmRole EXCEPT ![t] = new]
  BY <1>1, <1>2, <1>3 DEF UpdateUser, ChangeFirmRole
<1>5. new # "FIRM_ADMIN"
  BY <1>1, <1>2, <1>4 DEF IInv, TypeOK
<1>6. ~LastAdmin
  BY <1>1, <1>4, <1>5 DEF ChangeFirmRole, NeedsAdmin
<1>7. FirmAdmins = {u_1 \in Users : firmRole[u_1] = "FIRM_ADMIN" /\ status'[u_1] = "ACTIVE"}
  BY DEF FirmAdmins
<1>8. Cardinality(FirmAdmins) # 1
  BY <1>6, <1>7 DEF LastAdmin
<1>9. FirmAdmins # {t}
  BY <1>8, FS_Singleton
<1>10. PICK o \in Users : o # t /\ firmRole[o] = "FIRM_ADMIN" /\ status[o] = "ACTIVE"
  BY <1>1, <1>9 DEF FirmAdmins
<1>11. firmRole'[o] = "FIRM_ADMIN"
  BY <1>4, <1>10 DEF IInv, TypeOK
<1>12. QED  BY <1>10, <1>11 DEF FirmAdmins

(* A status changes by update_user, for one user, or when an email without a  *)
(* user accepts.                                                              *)
LEMMA StatusStep ==
  ASSUME IInv, Next, NEW t \in Users, status[t] = "ACTIVE", status'[t] # "ACTIVE"
  PROVE  \E u \in Users : UpdateUser(u, t) /\ t # u /\ status' = [status EXCEPT ![t] = "DISABLED"]
<1>1. ASSUME NEW i \in Slots, AcceptInvite(i) PROVE FALSE
  BY <1>1 DEF AcceptInvite, IInv, TypeOK
<1>2. ASSUME UNCHANGED status PROVE FALSE
  BY <1>2
<1>3. PICK u \in Users, v \in Users : UpdateUser(u, v)
  BY <1>1, <1>2
  DEF Next, Begin, Refuse, UpdateClient, CheckMember, CommitMember, Rollback, Invite,
    RevokeInvite
<1>4. PICK new \in Statuses : DisableOrEnable(u, v, new) /\ status' = [status EXCEPT ![v] = new]
  BY <1>2, <1>3 DEF UpdateUser, DisableOrEnable
<1>5. v = t /\ new = "DISABLED"
  BY <1>4 DEF IInv, TypeOK, Statuses
<1>6. QED  BY <1>3, <1>4, <1>5 DEF DisableOrEnable

(* The firm loses its last administrator only to a former one, who disables   *)
(* him (run firm_admin shows that this happens).                              *)
THEOREM LastAdminIsDisabledByFormer == Spec => LastAdminDisabledByFormer
<1>1. ASSUME IInv, [Next]_vars, FirmAdmins # {}, FirmAdmins' = {}
      PROVE  \E u, t \in Users : /\ FirmAdmins = {t} /\ status'[t] = "DISABLED"
                                 /\ seen[u].firm = "FIRM_ADMIN" /\ seen'[u] = NoRequest
                                 /\ u \notin FirmAdmins
  <2>1. Next
    BY <1>1 DEF vars, FirmAdmins
  <2>2. status' # status
    BY <1>1, <2>1, AdminStep
  <2>3. \A t \in FirmAdmins : status'[t] # "ACTIVE" \/ firmRole'[t] # "FIRM_ADMIN"
    BY <1>1 DEF FirmAdmins
  <2>4. ASSUME NEW i \in Slots, AcceptInvite(i) PROVE FALSE
    <3>1. PICK t \in Users : firmRole[t] = "FIRM_ADMIN" /\ status[t] = "ACTIVE"
      BY <1>1 DEF FirmAdmins
    <3>2. firmRole'[t] # "FIRM_ADMIN"
      BY <1>1, <2>3, <2>4, <3>1 DEF FirmAdmins, AcceptInvite, IInv, TypeOK
    <3>3. QED  BY <1>1, <2>4, <3>1, <3>2, AcceptGives
  <2>5. PICK u \in Users, t \in Users : UpdateUser(u, t)
    BY <2>1, <2>2, <2>4
    DEF Next, Begin, Refuse, UpdateClient, CheckMember, CommitMember, Rollback, Invite,
      RevokeInvite
  <2>6. \A o \in Users \ {t} : status'[o] = status[o] /\ firmRole'[o] = firmRole[o]
    BY <1>1, <2>5 DEF UpdateUser, DisableOrEnable, ChangeFirmRole, IInv, TypeOK
  <2>7. FirmAdmins = {t}
    BY <1>1, <2>3, <2>6 DEF FirmAdmins
  <2>8. status'[t] # "ACTIVE"
    <3>1. status[t] = "ACTIVE" /\ status'[t] # status[t]
      BY <1>1, <2>2, <2>5, <2>6, <2>7 DEF FirmAdmins, UpdateUser, DisableOrEnable, IInv, TypeOK
    <3>2. QED  BY <3>1
  <2>9. PICK v \in Users : /\ UpdateUser(v, t) /\ t # v
                          /\ status' = [status EXCEPT ![t] = "DISABLED"]
    BY <1>1, <2>1, <2>7, <2>8, StatusStep DEF FirmAdmins
  <2>10. seen[v].firm = "FIRM_ADMIN" /\ seen'[v] = NoRequest
    BY <1>1, <2>9 DEF UpdateUser, IsFirmAdmin, End, IInv, TypeOK
  <2>11. QED  BY <1>1, <2>7, <2>9, <2>10 DEF IInv, TypeOK
<1>2. IInv /\ [Next]_vars =>
        [FirmAdmins # {} /\ FirmAdmins' = {} =>
           \E u, t \in Users : /\ FirmAdmins = {t} /\ status'[t] = "DISABLED"
                               /\ seen[u].firm = "FIRM_ADMIN" /\ seen'[u] = NoRequest
                               /\ u \notin FirmAdmins]_vars
  BY <1>1
<1>3. QED  BY <1>2, Invariance, PTL DEF Spec, LastAdminDisabledByFormer

(* The last administrator of a client goes, other than by a disabled account, *)
(* in two ways only: the others whom the check saw were disabled before the   *)
(* commit, or he removes himself by a request that read him as a submitter.   *)
THEOREM ClientAdminGoes == Spec => LastClientAdminGoes
<1>1. ASSUME IInv, [Next]_vars, ClientAdmins # {}, ClientAdmins' = {}, status' = status
      PROVE  \E c \in held :
               /\ held' = {} /\ ClientAdmins = {c.of}
               /\ \/ /\ c.others # {}
                     /\ \A o \in c.others : clientRole[o] = "CLIENT_ADMIN" /\ status[o] = "DISABLED"
                  \/ c.by = c.of /\ c.read = "CLIENT_SUBMITTER" /\ c.new = "NONE"
  <2>1. PICK t \in Users : clientRole[t] = "CLIENT_ADMIN" /\ status[t] = "ACTIVE"
    BY <1>1 DEF ClientAdmins
  <2>2. clientRole'[t] # "CLIENT_ADMIN"
    BY <1>1, <2>1 DEF ClientAdmins
  <2>3. Next
    BY <1>1, <2>1, <2>2 DEF vars
  <2>4. PICK c \in held : /\ c.of = t /\ c.new # c.read /\ held' = {}
                          /\ clientRole' = [clientRole EXCEPT ![t] = c.new]
    BY <1>1, <2>1, <2>2, <2>3, ClientRoleStep
  <2>5. c \in Changes /\ c.new # "CLIENT_ADMIN"
    BY <1>1, <2>1, <2>2, <2>4 DEF IInv, TypeOK
  <2>6. \A o \in Users \ {t} : ~(clientRole[o] = "CLIENT_ADMIN" /\ status[o] = "ACTIVE")
    BY <1>1, <2>4 DEF ClientAdmins, IInv, TypeOK
  <2>7. ClientAdmins = {c.of}
    BY <2>1, <2>4, <2>6 DEF ClientAdmins
  <2>8. \A o \in c.others : clientRole[o] = "CLIENT_ADMIN" /\ status[o] = "DISABLED"
    <3> SUFFICES ASSUME NEW o \in c.others
                 PROVE  clientRole[o] = "CLIENT_ADMIN" /\ status[o] = "DISABLED"
      OBVIOUS
    <3>1. o \in Users /\ o # t /\ clientRole[o] = "CLIENT_ADMIN" /\ status[o] # "NONE"
      BY <1>1, <2>4, <2>5 DEF IInv, RolesAsChecked, Changes
    <3>2. status[o] \in Statuses \cup {"NONE"}
      BY <1>1, <3>1 DEF IInv, TypeOK
    <3>3. QED  BY <2>6, <3>1, <3>2 DEF Statuses
  <2>9. CASE c.read = "CLIENT_ADMIN"
    BY <1>1, <2>4, <2>5, <2>7, <2>8, <2>9 DEF IInv, RolesAsChecked
  <2>10. CASE c.read # "CLIENT_ADMIN"
    <3>1. c.read = "CLIENT_SUBMITTER" /\ c.new = "NONE"
      BY <2>4, <2>5, <2>10 DEF Changes, ClientRoles
    <3>2. c.by = c.of
      BY <1>1, <2>1, <2>4, <2>10 DEF IInv, RolesAsChecked
    <3>3. QED  BY <2>4, <2>7, <3>1, <3>2
  <2>11. QED  BY <2>9, <2>10
<1>2. IInv /\ [Next]_vars =>
        [ClientAdmins # {} /\ ClientAdmins' = {} /\ status' = status =>
           \E c \in held :
             /\ held' = {} /\ ClientAdmins = {c.of}
             /\ \/ /\ c.others # {}
                   /\ \A o \in c.others : clientRole[o] = "CLIENT_ADMIN" /\ status[o] = "DISABLED"
                \/ c.by = c.of /\ c.read = "CLIENT_SUBMITTER" /\ c.new = "NONE"]_vars
  BY <1>1
<1>3. QED  BY <1>2, Invariance, PTL DEF Spec, LastClientAdminGoes

=============================================================================
