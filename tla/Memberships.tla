------------------------------ MODULE Memberships ------------------------------
(***************************************************************************)
(* The members of one organization: inviteMember, acceptInvite,            *)
(* changeMemberRole and removeMember of                                    *)
(* modules/organizations/organizations.service.ts, behind TenantGuard and  *)
(* PermissionsGuard.                                                       *)
(*                                                                         *)
(* A request reads the caller's own membership (the guards), then the      *)
(* membership it is about, then perhaps counts the other owners, and at    *)
(* last updates one row by its id, without asking what that row, or the    *)
(* caller's, has become.                                                   *)
(***************************************************************************)
EXTENDS Naturals

CONSTANTS
  Users,       \* accounts, and placeholders for invited addresses
  Rows,        \* bound: the memberships that may ever be created
  Roles,       \* the roles members are given
  Workers,     \* concurrent requests
  Founder,     \* the user who created the organization
  FirstRow,    \* the founder's membership
  None         \* no user or membership

OWNER == "OWNER"

ROLE_RANK == [OWNER |-> 100, ADMIN |-> 80, COMPLIANCE_OFFICER |-> 60,
              MANAGER |-> 40, MEMBER |-> 20, AUDITOR |-> 10]

ASSUME FoundationAssumption == Founder \in Users /\ FirstRow \in Rows
ASSUME RolesAssumption == OWNER \in Roles /\ Roles \subseteq DOMAIN ROLE_RANK
ASSUME NoneAssumption == None \notin Users \cup Rows \cup Roles

VARIABLES
  user,       \* memberships.userId, None without a row
  role,       \* memberships.role
  status,     \* memberships.status
  req,        \* what each worker is doing and what it has read
  outdated,   \* history: workers since whose first read a membership changed
  staleWrite, \* history: whether an outdated worker has written
  acceptedBy, \* history: the users who accepted an invitation
  minters     \* history: the roles, as guarded, of those who made an OWNER

rows == <<user, role, status>>
vars == <<user, role, status, req, outdated, staleWrite, acceptedBy, minters>>

MembershipStatus == {"INVITED", "ACTIVE", "REMOVED"}

\* A request: its step, the caller's role and whether it is about the caller's
\* own membership, the membership it is about, and the role or user to set.
Request == [op : {"none", "invite", "accept", "changeRole", "remove"},
            at : {"idle", "guarded", "owner", "write"},
            self : BOOLEAN, actorRole : Roles \cup {None},
            target : Rows \cup {None}, desired : Roles \cup {None},
            u : Users \cup {None}]

Idle == [op |-> "none", at |-> "idle", self |-> FALSE, actorRole |-> None,
         target |-> None, desired |-> None, u |-> None]

TypeOK ==
  /\ user \in [Rows -> Users \cup {None}]
  /\ role \in [Rows -> Roles]
  /\ status \in [Rows -> MembershipStatus]
  /\ req \in [Workers -> Request]
  /\ outdated \in SUBSET Workers
  /\ staleWrite \in BOOLEAN
  /\ acceptedBy \in [Rows -> SUBSET Users]
  /\ minters \in SUBSET Roles

\* create: the organization with its founder's membership.
Init ==
  /\ user = [m \in Rows |-> IF m = FirstRow THEN Founder ELSE None]
  /\ role = [m \in Rows |-> OWNER]
  /\ status = [m \in Rows |-> IF m = FirstRow THEN "ACTIVE" ELSE "INVITED"]
  /\ req = [w \in Workers |-> Idle]
  /\ outdated = {}
  /\ staleWrite = FALSE
  /\ acceptedBy = [m \in Rows |-> {}]
  /\ minters = {}

-----------------------------------------------------------------------------

Exists(m) == user[m] # None
IsOwner(m) == Exists(m) /\ role[m] = OWNER /\ status[m] = "ACTIVE"

\* Planted bug: a role as high as the caller's own may be granted.
MutCanAssignRole(actorRole, current, desired) ==
  \/ actorRole = OWNER
  \/ ROLE_RANK[actorRole] > ROLE_RANK[current]

canAssignRole(actorRole, current, desired) ==
  \/ actorRole = OWNER
  \/ /\ desired # OWNER
     /\ ROLE_RANK[actorRole] > ROLE_RANK[current]
     /\ ROLE_RANK[actorRole] > ROLE_RANK[desired]

\* The roles with the permission members:manage.
MayManage(r) == r \in {OWNER, "ADMIN"}

\* TenantGuard and PermissionsGuard.
Guard(m) == Exists(m) /\ status[m] = "ACTIVE" /\ MayManage(role[m])

Goto(w, r) == req' = [req EXCEPT ![w] = r]

\* A write ends the request, and dates what the requests under way have read.
Commit(w) ==
  /\ Goto(w, Idle)
  /\ outdated' = {v \in Workers \ {w} : req[v] # Idle}
  /\ staleWrite' = (staleWrite \/ w \in outdated)

\* The write of a role by request r.
Minted(r) == minters' = IF r.desired = OWNER THEN minters \cup {r.actorRole}
                        ELSE minters

\* A request that is refused, or fails, ends without a write.
Finish(w) ==
  /\ Goto(w, Idle)
  /\ outdated' = outdated \ {w}
  /\ UNCHANGED <<staleWrite, rows, acceptedBy, minters>>

Proceed(w, r) ==
  /\ Goto(w, r)
  /\ UNCHANGED <<rows, outdated, staleWrite, acceptedBy, minters>>

-----------------------------------------------------------------------------
(* inviteMember and acceptInvite.                                          *)

StartInvite(w, a, u, desired) ==
  /\ req[w] = Idle
  /\ Guard(a)
  /\ canAssignRole(role[a], "MEMBER", desired)
  /\ Proceed(w, [Idle EXCEPT !.op = "invite", !.at = "write", !.u = u,
                             !.actorRole = role[a], !.desired = desired])

\* The unique index on (orgId, userId) refuses a second row of a user, one
\* of a removed member included.
CreateInvite(w) ==
  LET r == req[w]
  IN /\ r.op = "invite"
     /\ \A m \in Rows : user[m] # r.u
     /\ \E m \in Rows :
          /\ ~Exists(m)
          /\ user' = [user EXCEPT ![m] = r.u]
          /\ role' = [role EXCEPT ![m] = r.desired]
          /\ status' = [status EXCEPT ![m] = "INVITED"]
     /\ Minted(r)
     /\ Commit(w)
     /\ UNCHANGED acceptedBy

\* Planted bug: the token is looked up whatever the invitation's status.
MutStartAccept(w, m, u) ==
  /\ req[w] = Idle
  /\ Exists(m) /\ m # FirstRow
  /\ Proceed(w, [Idle EXCEPT !.op = "accept", !.at = "write", !.target = m, !.u = u])

\* Whoever has the token may accept the invitation that carries it.
StartAccept(w, m, u) ==
  /\ req[w] = Idle
  /\ Exists(m) /\ status[m] = "INVITED"
  /\ Proceed(w, [Idle EXCEPT !.op = "accept", !.at = "write", !.target = m, !.u = u])

Accept(w) ==
  LET r == req[w]
  IN /\ r.op = "accept"
     /\ \A m \in Rows \ {r.target} : user[m] # r.u
     /\ user' = [user EXCEPT ![r.target] = r.u]
     /\ status' = [status EXCEPT ![r.target] = "ACTIVE"]
     /\ acceptedBy' = [acceptedBy EXCEPT ![r.target] = @ \cup {r.u}]
     /\ Commit(w)
     /\ UNCHANGED <<role, minters>>

\* The user has a membership already: the unique index refuses the write.
RefuseSecondRow(w) ==
  LET r == req[w]
  IN /\ r.op \in {"invite", "accept"}
     /\ \E m \in Rows \ {r.target} : user[m] = r.u
     /\ Finish(w)

-----------------------------------------------------------------------------
(* changeMemberRole and removeMember.                                      *)

StartChange(w, op, a, m, desired) ==
  /\ req[w] = Idle
  /\ Guard(a)
  /\ Proceed(w, [Idle EXCEPT !.op = op, !.at = "guarded", !.self = (a = m),
                             !.actorRole = role[a], !.target = m,
                             !.desired = IF op = "remove" THEN None ELSE desired])

Allowed(r) ==
  \/ r.op = "changeRole" /\ canAssignRole(r.actorRole, role[r.target], r.desired)
  \/ r.op = "remove" /\ \/ canAssignRole(r.actorRole, role[r.target], role[r.target])
                        \/ r.self

\* Whether the change takes an OWNER's role or membership away.
TakesOwner(r) == role[r.target] = OWNER /\ r.desired # OWNER

\* The target is read and the caller's authority over it checked.
ReadTarget(w) ==
  LET r == req[w]
  IN /\ r.at = "guarded"
     /\ Exists(r.target) /\ Allowed(r)
     /\ Proceed(w, [r EXCEPT !.self = FALSE,
                             !.at = IF TakesOwner(r) THEN "owner" ELSE "write"])

RefuseTarget(w) ==
  /\ req[w].at = "guarded"
  /\ ~(Exists(req[w].target) /\ Allowed(req[w]))
  /\ Finish(w)

\* Planted bug: the count includes invited and removed owners.
MutOtherOwners(m) == {x \in Rows \ {m} : Exists(x) /\ role[x] = OWNER}

OtherOwners(m) == {x \in Rows \ {m} : IsOwner(x)}

\* assertNotLastOwner.
CountOwners(w) ==
  /\ req[w].at = "owner"
  /\ OtherOwners(req[w].target) # {}
  /\ Proceed(w, [req[w] EXCEPT !.at = "write"])

RefuseLastOwner(w) ==
  /\ req[w].at = "owner"
  /\ OtherOwners(req[w].target) = {}
  /\ Finish(w)

ChangeRole(w) ==
  LET r == req[w]
  IN /\ r.op = "changeRole" /\ r.at = "write"
     /\ role' = [role EXCEPT ![r.target] = r.desired]
     /\ Minted(r)
     /\ Commit(w)
     /\ UNCHANGED <<user, status, acceptedBy>>

Remove(w) ==
  LET r == req[w]
  IN /\ r.op = "remove" /\ r.at = "write"
     /\ status' = [status EXCEPT ![r.target] = "REMOVED"]
     /\ Commit(w)
     /\ UNCHANGED <<user, role, acceptedBy, minters>>

\* A call fails or the process dies before the write.
Fail(w) ==
  /\ req[w] # Idle
  /\ Finish(w)

-----------------------------------------------------------------------------

Continue(w) ==
  \/ CreateInvite(w)
  \/ Accept(w)
  \/ RefuseSecondRow(w)
  \/ ReadTarget(w)
  \/ RefuseTarget(w)
  \/ CountOwners(w)
  \/ RefuseLastOwner(w)
  \/ ChangeRole(w)
  \/ Remove(w)

Next ==
  \E w \in Workers :
    \/ \E a \in Rows, u \in Users, r \in Roles : StartInvite(w, a, u, r)
    \/ \E m \in Rows, u \in Users : StartAccept(w, m, u)
    \/ \E op \in {"changeRole", "remove"}, a, m \in Rows, r \in Roles :
         StartChange(w, op, a, m, r)
    \/ Continue(w)
    \/ Fail(w)

Spec == Init /\ [][Next]_vars
FairSpec == Spec /\ \A w \in Workers : WF_vars(Continue(w))

-----------------------------------------------------------------------------
(* What an organization relies on.                                         *)

\* "Never allow removing the last OWNER (would orphan the tenant)".
HasOwner == \E m \in Rows : IsOwner(m)

\* As long as no request writes after another has changed a membership since
\* its first read, requests may interleave at will and an owner remains.
OwnerRemains == ~staleWrite => HasOwner

\* "Nobody but an OWNER may create another OWNER": whoever gave that role, in
\* an invitation or later, had passed the guards as an OWNER.
OwnersMakeOwners == minters \subseteq {OWNER}

\* A member is who accepted the invitation, once, and has not been removed
\* since; again unless a request wrote on what it read before a change.
MembersAccepted ==
  ~staleWrite =>
    \A m \in Rows \ {FirstRow} :
      /\ Exists(m) /\ status[m] = "ACTIVE" => acceptedBy[m] = {user[m]}
      /\ status[m] = "INVITED" => acceptedBy[m] = {}

(***************************************************************************)
(* The inductive invariant: what a request that is not outdated remembers  *)
(* is still so.                                                            *)
(***************************************************************************)

\* A change about to be written leaves an owner besides its target, or does
\* not take one away.
SafeChange(r) ==
  r.at = "write" /\ r.op \in {"changeRole", "remove"} /\ TakesOwner(r) =>
    OtherOwners(r.target) # {}

FreshOK(r) ==
  /\ SafeChange(r)
  /\ r.op = "accept" => status[r.target] = "INVITED"

\* What any request knows, outdated or not.
MemoryOK(r) ==
  /\ r.op = "none" <=> r.at = "idle"
  /\ r.op \in {"invite", "accept"} => r.at = "write" /\ r.u \in Users
  /\ r.op \in {"invite", "changeRole"} => r.desired \in Roles
  /\ r.op \in {"accept", "changeRole", "remove"} => r.target \in Rows
  /\ r.op = "remove" => r.desired = None
  /\ r.op \in {"invite", "changeRole", "remove"} => r.actorRole \in Roles
  /\ r.op # "invite" /\ r.at \in {"owner", "write"} => Exists(r.target)
  /\ \/ r.op = "invite"
     \/ r.op = "changeRole" /\ r.at \in {"owner", "write"}
     => (r.desired = OWNER => r.actorRole = OWNER)

FreeRowsAreFresh == \A m \in Rows : Exists(m) \/ acceptedBy[m] = {}

IndInv ==
  /\ TypeOK
  /\ \A w \in Workers : MemoryOK(req[w])
  /\ \A w \in Workers \ outdated : FreshOK(req[w])
  /\ FreeRowsAreFresh
  /\ OwnerRemains
  /\ OwnersMakeOwners
  /\ MembersAccepted
=============================================================================
