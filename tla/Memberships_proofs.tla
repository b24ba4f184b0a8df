-------------------------- MODULE Memberships_proofs --------------------------
(***************************************************************************)
(* Proofs that an owner remains, that only owners make owners and that     *)
(* members have accepted, for any users, rows, roles and workers.          *)
(*                                                                         *)
(* A write leaves no other request under way that is not outdated.  So     *)
(* what IndInv says of fresh requests (FreshOK) has to hold when a request *)
(* reads, and no write has to keep it (CommitKeeps).                       *)
(***************************************************************************)
EXTENDS Memberships, TLAPS

RowTypes ==
  /\ user \in [Rows -> Users \cup {None}]
  /\ role \in [Rows -> Roles]
  /\ status \in [Rows -> MembershipStatus]
  /\ acceptedBy \in [Rows -> SUBSET Users]
  /\ minters \in SUBSET Roles

Promises ==
  /\ FreeRowsAreFresh
  /\ OwnerRemains
  /\ OwnersMakeOwners
  /\ MembersAccepted

\* No row is deleted.
Mono == \A m \in Rows : Exists(m) => Exists(m)'

LEMMA IdleOK == Idle \in Request /\ MemoryOK(Idle) /\ FreshOK(Idle)
BY DEF Idle, Request, MemoryOK, FreshOK, SafeChange

LEMMA GotoKeeps ==
  ASSUME TypeOK, NEW w \in Workers, NEW x \in Request, Goto(w, x)
  PROVE  /\ req' \in [Workers -> Request]
         /\ req'[w] = x
         /\ \A v \in Workers \ {w} : req'[v] = req[v]
BY DEF TypeOK, Goto

LEMMA RowsUntouched ==
  ASSUME IndInv, UNCHANGED <<staleWrite, rows, acceptedBy, minters>>
  PROVE  /\ Promises' /\ Mono
         /\ \A r : MemoryOK(r) => MemoryOK(r)'
         /\ \A r : FreshOK(r) => FreshOK(r)'
BY DEF IndInv, Promises, Mono, FreeRowsAreFresh, OwnerRemains, HasOwner, IsOwner,
   Exists, OwnersMakeOwners, MembersAccepted, MemoryOK, FreshOK, SafeChange,
   TakesOwner, OtherOwners, rows

\* A step that only reads: what its worker knows then is so.
LEMMA ProceedKeeps ==
  ASSUME IndInv, NEW w \in Workers, NEW x \in Request, Proceed(w, x),
         MemoryOK(x), FreshOK(x)
  PROVE  IndInv'
<1>1. /\ req' \in [Workers -> Request] /\ req'[w] = x
      /\ \A v \in Workers \ {w} : req'[v] = req[v]
  BY GotoKeeps DEF Proceed, IndInv
<1>2. UNCHANGED <<rows, outdated, staleWrite, acceptedBy, minters>>
  BY DEF Proceed
<1>3. /\ Promises'
      /\ \A r : MemoryOK(r) => MemoryOK(r)'
      /\ \A r : FreshOK(r) => FreshOK(r)'
  BY <1>2, RowsUntouched
<1>4. \A v \in Workers : MemoryOK(req'[v]) /\ (v \notin outdated => FreshOK(req'[v]))
  BY <1>1 DEF IndInv
<1>5. \A v \in Workers : MemoryOK(req[v])' /\ (v \notin outdated => FreshOK(req[v])')
  BY <1>2, <1>4 DEF MemoryOK, FreshOK, SafeChange, TakesOwner, OtherOwners,
     IsOwner, Exists, rows
<1>6. TypeOK'
  BY <1>1, <1>2 DEF IndInv, TypeOK, rows
<1>7. QED
  BY <1>2, <1>3, <1>5, <1>6 DEF IndInv, Promises

\* A request that ends without a write.
LEMMA FinishKeeps ==
  ASSUME IndInv, NEW w \in Workers, Finish(w)
  PROVE  IndInv'
<1>1. /\ req' \in [Workers -> Request] /\ req'[w] = Idle
      /\ \A v \in Workers \ {w} : req'[v] = req[v]
  BY GotoKeeps, IdleOK DEF Finish, IndInv
<1>2. UNCHANGED <<staleWrite, rows, acceptedBy, minters>> /\ outdated' = outdated \ {w}
  BY DEF Finish
<1>3. Promises'
  BY <1>2, RowsUntouched
<1>4. /\ \A v \in Workers : MemoryOK(req'[v])
      /\ \A v \in Workers \ outdated' : FreshOK(req'[v])
  BY <1>1, <1>2, IdleOK DEF IndInv
<1>5. /\ \A v \in Workers : MemoryOK(req[v])'
      /\ \A v \in Workers \ outdated' : FreshOK(req[v])'
  BY <1>2, <1>4 DEF MemoryOK, FreshOK, SafeChange, TakesOwner, OtherOwners,
     IsOwner, Exists, rows
<1>6. TypeOK'
  BY <1>1, <1>2 DEF IndInv, TypeOK, rows
<1>7. QED
  BY <1>3, <1>5, <1>6 DEF IndInv, Promises

\* A write: it leaves no fresh request, so only the promises must be kept.
LEMMA CommitKeeps ==
  ASSUME IndInv, NEW w \in Workers, Commit(w), Mono, RowTypes', Promises'
  PROVE  IndInv'
<1>1. /\ req' \in [Workers -> Request] /\ req'[w] = Idle
      /\ \A v \in Workers \ {w} : req'[v] = req[v]
  BY GotoKeeps, IdleOK DEF Commit, IndInv
<1>2. /\ outdated' = {v \in Workers \ {w} : req[v] # Idle}
      /\ staleWrite' \in BOOLEAN
  BY DEF Commit, IndInv, TypeOK
<1>3. TypeOK'
  BY <1>1, <1>2 DEF RowTypes, TypeOK
<1>4. \A v \in Workers : MemoryOK(req[v])'
  <2> SUFFICES ASSUME NEW v \in Workers
               PROVE  MemoryOK(req[v])'
    OBVIOUS
  <2>1. PICK y \in Request : y = req'[v] /\ MemoryOK(y)
    BY <1>1, IdleOK DEF IndInv
  <2>2. y.op # "invite" /\ y.at \in {"owner", "write"} => y.target \in Rows
    BY <2>1 DEF MemoryOK, Request
  <2>3. MemoryOK(y)'
    BY <2>1, <2>2 DEF MemoryOK, Mono
  <2>4. QED
    BY <2>1, <2>3 DEF MemoryOK, Exists
<1>5. \A v \in Workers \ outdated' : FreshOK(req[v])'
  <2> SUFFICES ASSUME NEW v \in Workers, v \notin outdated'
               PROVE  FreshOK(req[v])'
    OBVIOUS
  <2>1. req'[v] = Idle
    BY <1>1, <1>2
  <2>2. req'[v].op = "none"
    BY <2>1 DEF Idle
  <2>3. QED
    BY <2>2 DEF FreshOK, SafeChange
<1>6. QED
  BY <1>3, <1>4, <1>5 DEF IndInv, Promises

\* What is known of a worker before it moves, and that it is fresh if its
\* write leaves no stale write behind.
LEMMA Before ==
  ASSUME IndInv, NEW w \in Workers
  PROVE  /\ req[w] \in Request /\ MemoryOK(req[w])
         /\ Commit(w) /\ ~staleWrite' =>
              FreshOK(req[w]) /\ ~staleWrite /\ HasOwner
BY DEF IndInv, TypeOK, Commit, OwnerRemains

-----------------------------------------------------------------------------
(* The steps that read.                                                    *)

LEMMA StartInviteKeeps ==
  ASSUME IndInv, NEW w \in Workers, NEW a \in Rows, NEW u \in Users,
         NEW desired \in Roles, StartInvite(w, a, u, desired)
  PROVE  IndInv'
<1> DEFINE x == [Idle EXCEPT !.op = "invite", !.at = "write", !.u = u,
                             !.actorRole = role[a], !.desired = desired]
<1>1. role[a] \in Roles
  BY DEF IndInv, TypeOK
<1>2. x \in Request
  BY <1>1 DEF Idle, Request
<1>3. /\ x.op = "invite" /\ x.at = "write" /\ x.u = u
      /\ x.actorRole = role[a] /\ x.desired = desired
  BY DEF Idle
<1>4. desired = OWNER => role[a] = OWNER
  BY DEF StartInvite, canAssignRole
<1>5. MemoryOK(x) /\ FreshOK(x)
  BY <1>1, <1>3, <1>4 DEF MemoryOK, FreshOK, SafeChange
<1>6. QED
  BY <1>2, <1>5, ProceedKeeps DEF StartInvite

LEMMA StartAcceptKeeps ==
  ASSUME IndInv, NEW w \in Workers, NEW m \in Rows, NEW u \in Users,
         StartAccept(w, m, u)
  PROVE  IndInv'
<1> DEFINE x == [Idle EXCEPT !.op = "accept", !.at = "write", !.target = m, !.u = u]
<1>1. x \in Request
  BY DEF Idle, Request
<1>2. x.op = "accept" /\ x.at = "write" /\ x.target = m /\ x.u = u
  BY DEF Idle
<1>3. MemoryOK(x) /\ FreshOK(x)
  BY <1>2 DEF MemoryOK, FreshOK, SafeChange, StartAccept
<1>4. QED
  BY <1>1, <1>3, ProceedKeeps DEF StartAccept

LEMMA StartChangeKeeps ==
  ASSUME IndInv, NEW w \in Workers, NEW op \in {"changeRole", "remove"},
         NEW a \in Rows, NEW m \in Rows, NEW desired \in Roles,
         StartChange(w, op, a, m, desired)
  PROVE  IndInv'
<1> DEFINE x == [Idle EXCEPT !.op = op, !.at = "guarded", !.self = (a = m),
                             !.actorRole = role[a], !.target = m,
                             !.desired = IF op = "remove" THEN None ELSE desired]
<1>1. role[a] \in Roles
  BY DEF IndInv, TypeOK
<1>2. x \in Request
  BY <1>1 DEF Idle, Request
<1>3. /\ x.op = op /\ x.at = "guarded" /\ x.actorRole = role[a] /\ x.target = m
      /\ x.desired = IF op = "remove" THEN None ELSE desired
  BY DEF Idle
<1>4. MemoryOK(x) /\ FreshOK(x)
  BY <1>1, <1>3 DEF MemoryOK, FreshOK, SafeChange
<1>5. QED
  BY <1>2, <1>4, ProceedKeeps DEF StartChange

LEMMA ReadTargetKeeps ==
  ASSUME IndInv, NEW w \in Workers, ReadTarget(w)
  PROVE  IndInv'
<1> DEFINE r == req[w]
           x == [r EXCEPT !.self = FALSE,
                          !.at = IF TakesOwner(r) THEN "owner" ELSE "write"]
<1>1. r \in Request /\ MemoryOK(r) /\ r.at = "guarded"
  BY Before DEF ReadTarget
<1>2. Exists(r.target) /\ Allowed(r) /\ Proceed(w, x)
  BY DEF ReadTarget
<1>3. r.op \in {"changeRole", "remove"}
  BY <1>1 DEF MemoryOK, Request
<1>4. x \in Request
  BY <1>1 DEF Request
<1>5. /\ x.op = r.op /\ x.actorRole = r.actorRole /\ x.target = r.target
      /\ x.desired = r.desired /\ x.u = r.u
      /\ x.at = IF TakesOwner(r) THEN "owner" ELSE "write"
  BY <1>1 DEF Request
<1>6. r.op = "changeRole" /\ r.desired = OWNER => r.actorRole = OWNER
  BY <1>2 DEF Allowed, canAssignRole
<1>7. MemoryOK(x)
  BY <1>1, <1>2, <1>3, <1>5, <1>6 DEF MemoryOK
<1>8. FreshOK(x)
  BY <1>3, <1>5 DEF FreshOK, SafeChange, TakesOwner
<1> HIDE DEF x
<1>9. QED
  BY <1>2, <1>4, <1>7, <1>8, ProceedKeeps

LEMMA CountOwnersKeeps ==
  ASSUME IndInv, NEW w \in Workers, CountOwners(w)
  PROVE  IndInv'
<1> DEFINE r == req[w]
           x == [r EXCEPT !.at = "write"]
<1>1. r \in Request /\ MemoryOK(r) /\ r.at = "owner"
  BY Before DEF CountOwners
<1>2. OtherOwners(r.target) # {} /\ Proceed(w, x)
  BY DEF CountOwners
<1>3. r.op \in {"changeRole", "remove"}
  BY <1>1 DEF MemoryOK, Request
<1>4. x \in Request
  BY <1>1 DEF Request
<1>5. /\ x.op = r.op /\ x.actorRole = r.actorRole /\ x.target = r.target
      /\ x.desired = r.desired /\ x.u = r.u /\ x.at = "write"
  BY <1>1 DEF Request
<1>6. MemoryOK(x)
  BY <1>1, <1>3, <1>5 DEF MemoryOK
<1>7. FreshOK(x)
  BY <1>2, <1>3, <1>5 DEF FreshOK, SafeChange
<1> HIDE DEF x
<1>8. QED
  BY <1>2, <1>4, <1>6, <1>7, ProceedKeeps

-----------------------------------------------------------------------------
(* The steps that write.                                                   *)

LEMMA CreateInviteKeeps ==
  ASSUME IndInv, NEW w \in Workers, CreateInvite(w)
  PROVE  IndInv'
<1> DEFINE r == req[w]
<1>1. /\ r.op = "invite" /\ r.u \in Users /\ r.desired \in Roles
      /\ r.actorRole \in Roles /\ (r.desired = OWNER => r.actorRole = OWNER)
  BY Before DEF CreateInvite, MemoryOK
<1>2. PICK m \in Rows : /\ ~Exists(m)
                        /\ user' = [user EXCEPT ![m] = r.u]
                        /\ role' = [role EXCEPT ![m] = r.desired]
                        /\ status' = [status EXCEPT ![m] = "INVITED"]
  BY DEF CreateInvite
<1>3. Commit(w) /\ Minted(r) /\ acceptedBy' = acceptedBy
  BY DEF CreateInvite
<1>4. TypeOK /\ Promises
  BY DEF IndInv, Promises
<1>5. RowTypes'
  BY <1>1, <1>2, <1>3, <1>4 DEF RowTypes, TypeOK, MembershipStatus, Minted
<1>6. \A x \in Rows \ {m} : UNCHANGED <<user[x], role[x], status[x]>>
  BY <1>2, <1>4 DEF TypeOK
<1>7. Exists(m)' /\ status'[m] = "INVITED"
  BY <1>1, <1>2, <1>4, NoneAssumption DEF Exists, TypeOK
<1>8. Mono
  BY <1>6, <1>7 DEF Mono, Exists
<1>9. FreeRowsAreFresh'
  BY <1>3, <1>4, <1>6, <1>7 DEF Promises, FreeRowsAreFresh, Exists
<1>10. OwnersMakeOwners'
  BY <1>1, <1>3, <1>4 DEF Promises, OwnersMakeOwners, Minted
<1>11. OwnerRemains'
  <2> SUFFICES ASSUME ~staleWrite'
               PROVE  HasOwner'
    BY DEF OwnerRemains
  <2>1. PICK o \in Rows : IsOwner(o)
    BY <1>3, Before DEF HasOwner
  <2>2. o # m
    BY <1>2, <2>1 DEF IsOwner
  <2>3. IsOwner(o)'
    BY <1>6, <2>1, <2>2 DEF IsOwner, Exists
  <2>4. QED
    BY <2>3 DEF HasOwner
<1>12. MembersAccepted'
  <2> SUFFICES ASSUME ~staleWrite', NEW x \in Rows \ {FirstRow}
               PROVE  /\ Exists(x)' /\ status'[x] = "ACTIVE" =>
                           acceptedBy'[x] = {user'[x]}
                      /\ status'[x] = "INVITED" => acceptedBy'[x] = {}
    BY DEF MembersAccepted
  <2>1. CASE x = m
    BY <1>2, <1>3, <1>4, <1>7, <2>1 DEF Promises, FreeRowsAreFresh
  <2>2. CASE x # m
    BY <1>3, <1>4, <1>6, <2>2, Before DEF Promises, MembersAccepted, Exists
  <2>3. QED
    BY <2>1, <2>2
<1>13. QED
  BY <1>3, <1>5, <1>8, <1>9, <1>10, <1>11, <1>12, CommitKeeps DEF Promises

LEMMA AcceptKeeps ==
  ASSUME IndInv, NEW w \in Workers, Accept(w)
  PROVE  IndInv'
<1> DEFINE r == req[w]
<1> PICK m \in Rows : m = r.target
  BY Before DEF Accept, MemoryOK
<1>1. r.op = "accept" /\ r.u \in Users /\ Exists(m)
  BY Before DEF Accept, MemoryOK
<1>2. /\ user' = [user EXCEPT ![m] = r.u]
      /\ status' = [status EXCEPT ![m] = "ACTIVE"]
      /\ acceptedBy' = [acceptedBy EXCEPT ![m] = @ \cup {r.u}]
      /\ Commit(w) /\ UNCHANGED <<role, minters>>
  BY DEF Accept
<1>3. TypeOK /\ Promises
  BY DEF IndInv, Promises
<1>4. RowTypes'
  BY <1>1, <1>2, <1>3 DEF RowTypes, TypeOK, MembershipStatus
<1>5. /\ user'[m] = r.u /\ status'[m] = "ACTIVE"
      /\ acceptedBy'[m] = acceptedBy[m] \cup {r.u}
      /\ \A x \in Rows \ {m} : UNCHANGED <<user[x], status[x], acceptedBy[x]>>
  BY <1>1, <1>2, <1>3 DEF TypeOK
<1>6. Exists(m)'
  BY <1>1, <1>5, NoneAssumption DEF Exists
<1>7. Mono
  BY <1>5, <1>6 DEF Mono, Exists
<1>8. FreeRowsAreFresh' /\ OwnersMakeOwners'
  BY <1>2, <1>3, <1>5, <1>6 DEF Promises, FreeRowsAreFresh, Exists, OwnersMakeOwners
<1>9. OwnerRemains'
  <2> SUFFICES ASSUME ~staleWrite'
               PROVE  HasOwner'
    BY DEF OwnerRemains
  <2>1. PICK o \in Rows : IsOwner(o)
    BY <1>2, Before DEF HasOwner
  <2>2. IsOwner(o)'
    BY <1>2, <1>5, <1>6, <2>1 DEF IsOwner, Exists
  <2>3. QED
    BY <2>2 DEF HasOwner
<1>10. MembersAccepted'
  <2> SUFFICES ASSUME ~staleWrite', NEW x \in Rows \ {FirstRow}
               PROVE  /\ Exists(x)' /\ status'[x] = "ACTIVE" =>
                           acceptedBy'[x] = {user'[x]}
                      /\ status'[x] = "INVITED" => acceptedBy'[x] = {}
    BY DEF MembersAccepted
  <2>1. CASE x = m
    <3>1. status[m] = "INVITED" /\ ~staleWrite
      BY <1>1, <1>2, Before DEF FreshOK
    <3>2. acceptedBy[m] = {}
      BY <1>3, <2>1, <3>1 DEF Promises, MembersAccepted
    <3>3. QED
      BY <1>5, <2>1, <3>2
  <2>2. CASE x # m
    BY <1>2, <1>3, <1>5, <2>2, Before DEF Promises, MembersAccepted, Exists
  <2>3. QED
    BY <2>1, <2>2
<1>11. QED
  BY <1>2, <1>4, <1>7, <1>8, <1>9, <1>10, CommitKeeps DEF Promises

LEMMA ChangeRoleKeeps ==
  ASSUME IndInv, NEW w \in Workers, ChangeRole(w)
  PROVE  IndInv'
<1> DEFINE r == req[w]
           m == r.target
<1>1. /\ r.op = "changeRole" /\ r.at = "write" /\ m \in Rows /\ r.desired \in Roles
      /\ r.actorRole \in Roles /\ (r.desired = OWNER => r.actorRole = OWNER)
  BY Before DEF ChangeRole, MemoryOK
<1>2. /\ role' = [role EXCEPT ![m] = r.desired]
      /\ Minted(r) /\ Commit(w) /\ UNCHANGED <<user, status, acceptedBy>>
  BY DEF ChangeRole
<1>3. TypeOK /\ Promises
  BY DEF IndInv, Promises
<1>4. RowTypes'
  BY <1>1, <1>2, <1>3 DEF RowTypes, TypeOK, Minted
<1>5. role'[m] = r.desired /\ \A x \in Rows \ {m} : role'[x] = role[x]
  BY <1>1, <1>2, <1>3 DEF TypeOK
<1>6. Mono /\ FreeRowsAreFresh'
  BY <1>2, <1>3 DEF Mono, Exists, Promises, FreeRowsAreFresh
<1>7. OwnersMakeOwners'
  BY <1>1, <1>2, <1>3 DEF Promises, OwnersMakeOwners, Minted
<1>8. OwnerRemains'
  <2> SUFFICES ASSUME ~staleWrite'
               PROVE  HasOwner'
    BY DEF OwnerRemains
  <2>1. HasOwner /\ FreshOK(r)
    BY <1>2, Before
  <2>2. PICK o \in Rows : IsOwner(o) /\ (o = m => r.desired = OWNER)
    <3>1. CASE TakesOwner(r)
      BY <1>1, <2>1, <3>1 DEF FreshOK, SafeChange, OtherOwners
    <3>2. CASE ~TakesOwner(r)
      BY <2>1, <3>2 DEF HasOwner, TakesOwner, IsOwner
    <3>3. QED
      BY <3>1, <3>2
  <2>3. IsOwner(o)'
    BY <1>2, <1>5, <2>2 DEF IsOwner, Exists
  <2>4. QED
    BY <2>3 DEF HasOwner
<1>9. MembersAccepted'
  BY <1>2, <1>3, Before DEF Promises, MembersAccepted, Exists
<1>10. QED
  BY <1>2, <1>4, <1>6, <1>7, <1>8, <1>9, CommitKeeps DEF Promises

LEMMA RemoveKeeps ==
  ASSUME IndInv, NEW w \in Workers, Remove(w)
  PROVE  IndInv'
<1> DEFINE r == req[w]
           m == r.target
<1>1. r.op = "remove" /\ r.at = "write" /\ m \in Rows /\ r.desired = None
  BY Before DEF Remove, MemoryOK
<1>2. /\ status' = [status EXCEPT ![m] = "REMOVED"]
      /\ Commit(w) /\ UNCHANGED <<user, role, acceptedBy, minters>>
  BY DEF Remove
<1>3. TypeOK /\ Promises
  BY DEF IndInv, Promises
<1>4. RowTypes'
  BY <1>1, <1>2, <1>3 DEF RowTypes, TypeOK, MembershipStatus
<1>5. status'[m] = "REMOVED" /\ \A x \in Rows \ {m} : status'[x] = status[x]
  BY <1>1, <1>2, <1>3 DEF TypeOK
<1>6. Mono /\ FreeRowsAreFresh' /\ OwnersMakeOwners'
  BY <1>2, <1>3 DEF Mono, Exists, Promises, FreeRowsAreFresh, OwnersMakeOwners
<1>7. OwnerRemains'
  <2> SUFFICES ASSUME ~staleWrite'
               PROVE  HasOwner'
    BY DEF OwnerRemains
  <2>1. HasOwner /\ FreshOK(r)
    BY <1>2, Before
  <2>2. None # OWNER
    BY RolesAssumption, NoneAssumption
  <2>3. PICK o \in Rows : IsOwner(o) /\ o # m
    <3>1. CASE TakesOwner(r)
      BY <1>1, <2>1, <3>1 DEF FreshOK, SafeChange, OtherOwners
    <3>2. CASE ~TakesOwner(r)
      BY <1>1, <2>1, <2>2, <3>2 DEF HasOwner, TakesOwner, IsOwner
    <3>3. QED
      BY <3>1, <3>2
  <2>4. IsOwner(o)'
    BY <1>2, <1>5, <2>3 DEF IsOwner, Exists
  <2>5. QED
    BY <2>4 DEF HasOwner
<1>8. MembersAccepted'
  BY <1>1, <1>2, <1>3, <1>5, Before DEF Promises, MembersAccepted, Exists
<1>9. QED
  BY <1>2, <1>4, <1>6, <1>7, <1>8, CommitKeeps DEF Promises

-----------------------------------------------------------------------------
(* The theorems.                                                           *)

LEMMA InitInv ==
  ASSUME Init
  PROVE  IndInv
<1>1. TypeOK
  BY FoundationAssumption, RolesAssumption, IdleOK DEF Init, TypeOK, MembershipStatus
<1>2. \A w \in Workers : req[w] = Idle
  BY DEF Init
<1>3. \A w \in Workers : MemoryOK(req[w]) /\ FreshOK(req[w])
  BY <1>2, IdleOK
<1>4. IsOwner(FirstRow)
  BY FoundationAssumption, NoneAssumption DEF Init, IsOwner, Exists
<1>5. FreeRowsAreFresh /\ OwnerRemains /\ OwnersMakeOwners
  BY <1>4, FoundationAssumption
     DEF Init, FreeRowsAreFresh, OwnerRemains, HasOwner, OwnersMakeOwners
<1>6. MembersAccepted
  BY DEF Init, MembersAccepted
<1>7. QED
  BY <1>1, <1>3, <1>5, <1>6 DEF IndInv

LEMMA ContinueKeeps ==
  ASSUME IndInv, NEW w \in Workers, Continue(w)
  PROVE  IndInv'
BY CreateInviteKeeps, AcceptKeeps, ReadTargetKeeps, CountOwnersKeeps,
   ChangeRoleKeeps, RemoveKeeps, FinishKeeps
   DEF Continue, RefuseSecondRow, RefuseTarget, RefuseLastOwner

LEMMA StutterKeeps ==
  ASSUME IndInv, UNCHANGED vars
  PROVE  IndInv'
BY DEF IndInv, TypeOK, MemoryOK, FreshOK, SafeChange, TakesOwner, OtherOwners,
   IsOwner, Exists, FreeRowsAreFresh, OwnerRemains, HasOwner, OwnersMakeOwners,
   MembersAccepted, vars

\* An organization keeps its inductive invariant, whatever its members do.
THEOREM Invariance == Spec => []IndInv
<1>1. Init => IndInv
  BY InitInv
<1>2. IndInv /\ [Next]_vars => IndInv'
  <2> SUFFICES ASSUME IndInv, [Next]_vars
               PROVE  IndInv'
    OBVIOUS
  <2>1. ASSUME NEW w \in Workers, NEW a \in Rows, NEW u \in Users, NEW r \in Roles,
               StartInvite(w, a, u, r)
        PROVE  IndInv'
    BY <2>1, StartInviteKeeps
  <2>2. ASSUME NEW w \in Workers, NEW m \in Rows, NEW u \in Users,
               StartAccept(w, m, u)
        PROVE  IndInv'
    BY <2>2, StartAcceptKeeps
  <2>3. ASSUME NEW w \in Workers, NEW op \in {"changeRole", "remove"},
               NEW a \in Rows, NEW m \in Rows, NEW r \in Roles,
               StartChange(w, op, a, m, r)
        PROVE  IndInv'
    BY <2>3, StartChangeKeeps
  <2>4. ASSUME NEW w \in Workers, Continue(w) PROVE IndInv'
    BY <2>4, ContinueKeeps
  <2>5. ASSUME NEW w \in Workers, Fail(w) PROVE IndInv'
    BY <2>5, FinishKeeps DEF Fail
  <2>6. CASE UNCHANGED vars
    BY <2>6, StutterKeeps
  <2>7. QED
    BY <2>1, <2>2, <2>3, <2>4, <2>5, <2>6 DEF Next
<1>3. QED
  BY <1>1, <1>2, PTL DEF Spec

\* Every reachable state of the memberships and the requests is well typed.
THEOREM TypeCorrect == Spec => []TypeOK
<1>1. IndInv => TypeOK
  BY DEF IndInv
<1>2. QED
  BY <1>1, Invariance, PTL

\* As long as no request writes on an outdated read, an active OWNER remains.
THEOREM AnOwnerRemains == Spec => []OwnerRemains
<1>1. IndInv => OwnerRemains
  BY DEF IndInv
<1>2. QED
  BY <1>1, Invariance, PTL

\* Only those who passed the guards as an OWNER have made an OWNER.
THEOREM OnlyOwnersMakeOwners == Spec => []OwnersMakeOwners
<1>1. IndInv => OwnersMakeOwners
  BY DEF IndInv
<1>2. QED
  BY <1>1, Invariance, PTL

\* A member is the one who accepted the invitation, and nobody else has.
THEOREM MembersHaveAccepted == Spec => []MembersAccepted
<1>1. IndInv => MembersAccepted
  BY DEF IndInv
<1>2. QED
  BY <1>1, Invariance, PTL
=============================================================================
