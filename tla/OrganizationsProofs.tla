------------------------ MODULE OrganizationsProofs ------------------------
(***************************************************************************)
(* Proofs about Organizations, for any users, vaults, leavers, faults and  *)
(* any number of requests in hand.                                         *)
(***************************************************************************)
EXTENDS MCOrganizations, FiniteSetTheorems, TLAPS

(* The inductive invariant.                                                *)

\* A request that may still insert a membership inserts one below an owner's, and
\* one about to store an object knows the version it is of; a removal is a member's.
Fits(r) ==
  /\ r.pc \in {"add_lookup", "add_insert"} => r.as \in AddableRoles
  /\ r.pc = "put" => r.ver \in Versions
  /\ r.pc = "remove_target" => r.whom \in Users

\* Once a deletion has come to purging objects, no row points at a bare one.
PurgesDead(r) == r.pc = "delete_purge" => \A v \in Vaults : vault[v] # "v1"

\* Every request in hand fits the tables.
RequestsOK == \A u \in Users : Fits(req[u]) /\ PurgesDead(req[u])

\* An access list is that of a vault that exists.
AclOK == \A v \in acl : vault[v] # "none"

Inv == TypeOK /\ RequestsOK /\ AclOK /\ MembersExist

\* An idle request is one.
LEMMA IdleType == Idle \in Request /\ Idle.pc = "idle"
<1>1. "idle" \in PCs /\ "none" \in Roles
  BY DEF PCs, Roles
<1> QED BY <1>1 DEF Idle, Request

\* An organisation not created yet, or one with only its owner, satisfies the
\* invariant.
LEMMA InitInv == Init => Inv
<1> SUFFICES ASSUME Init PROVE Inv
  OBVIOUS
<1>1. \A u \in Users : req[u] = Idle
  BY DEF Init
<1>2. req \in [Users -> Request]
  BY IdleType DEF Init
<1>3. RequestsOK
  BY <1>1, IdleType DEF RequestsOK, Fits, PurgesDead
<1>4. PICK old \in SUBSET Vaults :
        /\ vault = [v \in Vaults |-> IF v \in old THEN "v1" ELSE "none"]
        /\ acl = old
        /\ object = old \X {"v1"}
        /\ \/ /\ org = "absent" /\ creator = Nobody /\ old = {}
              /\ role = [u \in Users |-> "none"]
           \/ /\ org = "live" /\ creator \in Users
              /\ role = [u \in Users |-> IF u = creator THEN "super_admin" ELSE "none"]
  BY DEF Init
<1>5. accounts = Users /\ share = {}
  BY DEF Init
<1>6. object \subseteq Vaults \X Versions
  BY <1>4 DEF Versions
<1>7. vault \in [Vaults -> Versions \union {"none"}]
  BY <1>4 DEF Versions
<1>8. role \in [Users -> Roles]
  BY <1>4 DEF Roles
<1>9. TypeOK
  BY <1>2, <1>4, <1>5, <1>6, <1>7, <1>8 DEF TypeOK
<1>10. MembersExist
  BY <1>4, <1>5 DEF MembersExist
<1>11. AclOK
  BY <1>4 DEF AclOK
<1> QED BY <1>3, <1>9, <1>10, <1>11 DEF Inv

-----------------------------------------------------------------------------
(* Steps of a request.                                                     *)

\* A user's request becomes one that fits, and no vault comes to point at a bare
\* object: the requests still fit the tables.
LEMMA RequestStep ==
  ASSUME TypeOK, RequestsOK,
         \A v \in Vaults : vault'[v] = "v1" => vault[v] = "v1",
         NEW u \in Users, NEW r \in Request, Become(u, r),
         Fits(r),
         r.pc = "delete_purge" => \A v \in Vaults : vault'[v] # "v1"
  PROVE  req' \in [Users -> Request] /\ RequestsOK'
<1>1. req' \in [Users -> Request] /\ req'[u] = r /\ \A o \in Users \ {u} : req'[o] = req[o]
  BY DEF Become, TypeOK
<1>2. ASSUME NEW o \in Users PROVE Fits(req'[o]) /\ PurgesDead(req[o])'
  <2>1. CASE o = u
    BY <2>1, <1>1 DEF Fits, PurgesDead
  <2>2. CASE o # u
    BY <2>2, <1>1 DEF RequestsOK, Fits, PurgesDead
  <2> QED BY <2>1, <2>2
<1> QED BY <1>1, <1>2 DEF RequestsOK, Fits, PurgesDead

\* A request that ends.
LEMMA DoneStep ==
  ASSUME TypeOK, RequestsOK, NEW u \in Users, Done(u),
         \A v \in Vaults : vault'[v] = "v1" => vault[v] = "v1"
  PROVE  req' \in [Users -> Request] /\ RequestsOK'
<1>1. Fits(Idle) /\ Idle.pc # "delete_purge"
  BY IdleType DEF Fits
<1> QED BY <1>1, IdleType, RequestStep DEF Done

\* A request that goes on to its next await, and is not an addition or a purge.
LEMMA GotoStep ==
  ASSUME TypeOK, RequestsOK, NEW u \in Users, NEW pc \in PCs, Goto(u, pc),
         \A v \in Vaults : vault'[v] = "v1" => vault[v] = "v1",
         pc \notin {"put", "remove_target"},
         pc \in {"add_lookup", "add_insert"} => req[u].as \in AddableRoles,
         pc = "delete_purge" => \A v \in Vaults : vault'[v] # "v1"
  PROVE  req' \in [Users -> Request] /\ RequestsOK'
<1> DEFINE r == [req[u] EXCEPT !.pc = pc]
<1>1. r \in Request /\ r.pc = pc /\ r.as = req[u].as
  BY DEF TypeOK, Request
<1>2. Fits(r)
  BY <1>1 DEF Fits
<1>3. Become(u, r)
  BY DEF Goto
<1> HIDE DEF r
<1> QED BY <1>1, <1>2, <1>3, RequestStep

\* When the tables are as they were, the invariant is about the requests.
LEMMA SameTables ==
  ASSUME Inv, UNCHANGED tables, req' \in [Users -> Request], RequestsOK'
  PROVE  Inv'
BY DEF Inv, TypeOK, AclOK, MembersExist, tables

-----------------------------------------------------------------------------
(* The actions.                                                            *)

\* What starts a request: a fresh record that fits, and tables left alone.
LEMMA StartInv ==
  ASSUME Inv, NEW u \in Users, NEW t \in Users, NEW v \in Vaults \union {Nobody},
         NEW a \in Assignable, NEW b \in AddableRoles,
         \/ UpdateMemberRole(u, t, a) \/ AddMember(u, t, b) \/ RemoveMember(u, t)
         \/ DeleteOrganization(u)
         \/ v \in Vaults /\ (CreateVault(u, v) \/ ShareVault(u, t, v) \/ SaveVault(u, v))
  PROVE  Inv'
<1> SUFFICES ASSUME NEW r \in Request, Become(u, r), UNCHANGED tables,
                    Fits(r), r.pc # "delete_purge"
             PROVE  Inv'
  <2>1. b \in Assignable
    BY DEF AddableRoles, Assignable
  <2>2. CASE UpdateMemberRole(u, t, a)
    <3>1. role[u] \in AdminRoles
      BY <2>2 DEF UpdateMemberRole, AdminRoles
    <3>2. [Idle EXCEPT !.pc = "role_target", !.whom = t, !.as = a, !.by = role[u]] \in Request
      BY <3>1, IdleType DEF Request, PCs
    <3> QED BY <2>2, <3>2, IdleType DEF UpdateMemberRole, Fits, Idle
  <2>3. CASE AddMember(u, t, b)
    <3>1. [Idle EXCEPT !.pc = "add_lookup", !.whom = t, !.as = b] \in Request
      BY <2>1, IdleType DEF Request, PCs
    <3> QED BY <2>3, <3>1 DEF AddMember, Fits, Idle
  <2>4. CASE RemoveMember(u, t)
    <3>1. [Idle EXCEPT !.pc = "remove_target", !.whom = t, !.by = role[u]] \in Request
      BY <2>4, IdleType DEF RemoveMember, Request, PCs
    <3> QED BY <2>4, <3>1 DEF RemoveMember, Fits, Idle
  <2>5. CASE DeleteOrganization(u)
    <3>1. [Idle EXCEPT !.pc = "delete_list"] \in Request
      BY IdleType DEF Request, PCs
    <3> QED BY <2>5, <3>1 DEF DeleteOrganization, Fits, Idle
  <2>6. CASE v \in Vaults /\ CreateVault(u, v)
    <3>1. [Idle EXCEPT !.pc = "vault_insert", !.on = {v}] \in Request
      BY <2>6, IdleType DEF Request, PCs
    <3> QED BY <2>6, <3>1 DEF CreateVault, Fits, Idle
  <2>7. CASE v \in Vaults /\ ShareVault(u, t, v)
    <3>1. [Idle EXCEPT !.pc = "share_batch", !.whom = t, !.on = {v}] \in Request
      BY <2>7, IdleType DEF Request, PCs
    <3> QED BY <2>7, <3>1 DEF ShareVault, Fits, Idle
  <2>8. CASE v \in Vaults /\ SaveVault(u, v)
    <3>1. vault[v] \in Versions
      BY <2>8 DEF SaveVault, Entitled, Inv, TypeOK, AclOK
    <3>2. [Idle EXCEPT !.pc = "put", !.on = {v}, !.ver = vault[v]] \in Request
      BY <2>8, <3>1, IdleType DEF Request, PCs
    <3> QED BY <2>8, <3>1, <3>2 DEF SaveVault, Fits, Idle
  <2> QED BY <2>2, <2>3, <2>4, <2>5, <2>6, <2>7, <2>8
<1>1. vault' = vault
  BY DEF tables
<1>2. req' \in [Users -> Request] /\ RequestsOK'
  BY <1>1, RequestStep DEF Inv
<1> QED BY <1>2, SameTables

\* Creating the organisation and seeding its owner.
LEMMA CreationInv ==
  ASSUME Inv, NEW u \in Users, CreateOrganization(u) \/ SeedOwner(u)
  PROVE  Inv'
<1>1. CASE CreateOrganization(u)
  <2> DEFINE r == [Idle EXCEPT !.pc = "org_member"]
  <2>1. r \in Request /\ r.pc = "org_member"
    BY IdleType DEF Request, PCs
  <2>2. Become(u, r) /\ vault' = vault
    BY <1>1 DEF CreateOrganization
  <2>3. Fits(r)
    BY <2>1 DEF Fits
  <2> HIDE DEF r
  <2>4. req' \in [Users -> Request] /\ RequestsOK'
    BY <2>1, <2>2, <2>3, RequestStep DEF Inv
  <2> QED BY <1>1, <2>4 DEF Inv, CreateOrganization, TypeOK, AclOK, MembersExist
<1>2. CASE SeedOwner(u)
  <2>1. req' \in [Users -> Request] /\ RequestsOK'
    BY <1>2, DoneStep DEF Inv, SeedOwner
  <2> QED BY <1>2, <2>1 DEF Inv, SeedOwner, MembershipAllowed, TypeOK, AclOK, MembersExist,
              Roles
<1> QED BY <1>1, <1>2

\* The reads that let a request go on or end it.
LEMMA LookupInv ==
  ASSUME Inv, NEW u \in Users, RoleTarget(u) \/ AddLookup(u) \/ RemoveTarget(u)
  PROVE  Inv'
<1>1. UNCHANGED tables /\ vault' = vault
  BY DEF RoleTarget, AddLookup, RemoveTarget, tables
<1>2. req' \in [Users -> Request] /\ RequestsOK'
  <2>1. CASE Done(u)
    BY <2>1, <1>1, DoneStep DEF Inv
  <2>2. CASE Goto(u, "role_write")
    <3>1. "role_write" \in PCs
      BY DEF PCs
    <3> QED BY <2>2, <3>1, <1>1, GotoStep DEF Inv
  <2>3. CASE /\ RemoveTarget(u)
             /\ Become(u, [req[u] EXCEPT !.pc = "remove_list", !.saw = role[req[u].whom]])
    <3> PICK r : r = [req[u] EXCEPT !.pc = "remove_list", !.saw = role[req[u].whom]]
      OBVIOUS
    <3>1. r.pc = "remove_list" /\ Fits(r) /\ Become(u, r)
      BY <2>3 DEF Inv, TypeOK, Request, Fits
    <3>2. role[req[u].whom] \in Roles
      BY <2>3 DEF RemoveTarget, Inv, TypeOK, RequestsOK, Fits
    <3>3. "remove_list" \in PCs /\ req[u] \in Request
      BY DEF Inv, TypeOK, PCs
    <3>4. r \in Request
      BY <3>2, <3>3 DEF Request
    <3> QED BY <1>1, <3>1, <3>4, RequestStep DEF Inv
  <2>4. CASE AddLookup(u) /\ Goto(u, "add_insert")
    <3>1. "add_insert" \in PCs
      BY DEF PCs
    <3>2. req[u].as \in AddableRoles
      BY <2>4 DEF AddLookup, Inv, RequestsOK, Fits
    <3> QED BY <2>4, <3>1, <3>2, <1>1, GotoStep DEF Inv
  <2> QED BY <2>1, <2>2, <2>3, <2>4 DEF RoleTarget, AddLookup, RemoveTarget
<1> QED BY <1>1, <1>2, SameTables

\* Writing one entry of the roles.
LEMMA RoleWritten ==
  ASSUME role \in [Users -> Roles], NEW t, NEW x \in Roles,
         role' = [role EXCEPT ![t] = x]
  PROVE  /\ role' \in [Users -> Roles]
         /\ \A o \in Users : role'[o] = IF o = t THEN x ELSE role[o]
OBVIOUS

\* The writes of membership rows: an update of a row that has gone and an insert
\* without its parents leave the table as it is.
LEMMA MembershipInv ==
  ASSUME Inv, NEW u \in Users, RoleWrite(u) \/ AddInsert(u) \/ RemoveBatch(u)
  PROVE  Inv'
<1>1. Done(u) /\ UNCHANGED <<accounts, org, creator, vault, acl, object>>
  BY DEF RoleWrite, AddInsert, RemoveBatch
<1>2. req' \in [Users -> Request] /\ RequestsOK'
  BY <1>1, DoneStep DEF Inv
<1>3. share' \subseteq Vaults \X Users
  BY DEF RoleWrite, AddInsert, RemoveBatch, Inv, TypeOK
<1>4. req[u].as \in Roles /\ "none" \in Roles /\ role \in [Users -> Roles]
  BY DEF Inv, TypeOK, Request, Assignable, Roles
<1>5. /\ role' \in [Users -> Roles]
      /\ \A t \in Users : role'[t] # "none" =>
           role[t] # "none" \/ (t \in accounts /\ org = "live")
  <2> DEFINE t == req[u].whom
  <2>1. CASE RoleWrite(u)
    <3>1. Updated(u) \in Roles /\ (role[t] = "none" => Updated(u) = "none")
      BY <1>4 DEF Updated
    <3>2. role' = [role EXCEPT ![t] = Updated(u)]
      BY <2>1 DEF RoleWrite
    <3> HIDE DEF t
    <3>3. \A o \in Users : role'[o] = IF o = t THEN Updated(u) ELSE role[o]
      BY <1>4, <3>1, <3>2, RoleWritten
    <3> QED BY <1>4, <3>1, <3>2, <3>3, RoleWritten
  <2>2. CASE AddInsert(u) /\ role' = role
    BY <2>2, <1>4
  <2>3. CASE AddInsert(u) /\ role' # role
    <3>1. t \in accounts /\ org = "live" /\ role' = [role EXCEPT ![t] = req[u].as]
      BY <2>3 DEF AddInsert, MembershipAllowed
    <3> HIDE DEF t
    <3> QED BY <1>4, <3>1, RoleWritten
  <2>4. CASE RemoveBatch(u)
    <3>1. role' = [role EXCEPT ![t] = "none"]
      BY <2>4 DEF RemoveBatch
    <3> HIDE DEF t
    <3> QED BY <1>4, <3>1, RoleWritten
  <2> QED BY <2>1, <2>2, <2>3, <2>4
<1>6. MembersExist'
  BY <1>1, <1>5 DEF Inv, MembersExist
<1> QED BY <1>1, <1>2, <1>3, <1>5, <1>6 DEF Inv, TypeOK, AclOK, Roles

\* The lists of the vaults a removal or a deletion is about.
LEMMA ListInv ==
  ASSUME Inv, NEW u \in Users, RemoveList(u) \/ DeleteList(u)
  PROVE  Inv'
<1>1. UNCHANGED tables /\ vault' = vault
  BY DEF RemoveList, DeleteList, tables
<1>2. PICK on \in SUBSET Vaults, pc \in {"remove_batch", "delete_batch"} :
        Become(u, [req[u] EXCEPT !.pc = pc, !.on = on])
  BY DEF RemoveList, DeleteList, AffectedVaults, Inv, TypeOK
<1> DEFINE r == [req[u] EXCEPT !.pc = pc, !.on = on]
<1>3. r \in Request /\ r.pc = pc
  <2>1. req[u] \in Request /\ pc \in PCs
    BY DEF Inv, TypeOK, PCs
  <2> QED BY <2>1 DEF Request
<1>4. Fits(r)
  BY <1>3 DEF Fits
<1> HIDE DEF r
<1>5. req' \in [Users -> Request] /\ RequestsOK'
  BY <1>1, <1>2, <1>3, <1>4, RequestStep DEF Inv, r
<1> QED BY <1>1, <1>5, SameTables

\* The batch that deletes the organisation: no vault is left for the purge to
\* harm, and no member.
LEMMA DeleteBatchInv ==
  ASSUME Inv, NEW u \in Users, DeleteBatch(u)
  PROVE  Inv'
<1>1. vault' \in [Vaults -> Versions \union {"none"}] /\ \A v \in Vaults : vault'[v] = "none"
  BY DEF DeleteBatch, VaultsDropped
<1>2. "delete_purge" \in PCs
  BY DEF PCs
<1>3. Goto(u, "delete_purge")
  BY DEF DeleteBatch
<1>4. req' \in [Users -> Request] /\ RequestsOK'
  BY <1>1, <1>2, <1>3, GotoStep DEF Inv
<1>5. /\ role' = [t \in Users |-> "none"] /\ org' = "deleted"
      /\ acl' = {} /\ share' = {} /\ UNCHANGED <<accounts, creator, object>>
  BY DEF DeleteBatch
<1> QED BY <1>1, <1>4, <1>5 DEF Inv, TypeOK, AclOK, MembersExist, Roles

\* A step of the purge.
LEMMA DeletePurgeInv ==
  ASSUME Inv, NEW u \in Users, DeletePurge(u)
  PROVE  Inv'
<1>1. /\ UNCHANGED <<accounts, org, creator, role, vault, acl, share>>
      /\ object' \subseteq object /\ req[u].pc = "delete_purge"
  BY DEF DeletePurge
<1>2. req' \in [Users -> Request] /\ RequestsOK'
  <2>1. CASE Done(u)
    BY <2>1, <1>1, DoneStep DEF Inv
  <2>2. CASE \E v \in req[u].on : Become(u, [req[u] EXCEPT !.on = req[u].on \ {v}])
    <3>1. PICK v \in req[u].on : Become(u, [req[u] EXCEPT !.on = req[u].on \ {v}])
      BY <2>2
    <3> DEFINE r == [req[u] EXCEPT !.on = req[u].on \ {v}]
    <3>2. r \in Request /\ r.pc = "delete_purge"
      BY <1>1 DEF Inv, TypeOK, Request
    <3>3. Fits(r) /\ \A w \in Vaults : vault'[w] # "v1"
      BY <3>2, <1>1 DEF Fits, Inv, RequestsOK, PurgesDead
    <3> HIDE DEF r
    <3> QED BY <3>1, <3>2, <3>3, <1>1, RequestStep DEF Inv, r
  <2> QED BY <2>1, <2>2 DEF DeletePurge
<1> QED BY <1>1, <1>2 DEF Inv, TypeOK, AclOK, MembersExist

\* The writes of vaults, access lists, shares and objects.
LEMMA VaultInv ==
  ASSUME Inv, NEW u \in Users,
         VaultInsert(u) \/ VaultAcl(u) \/ ShareBatch(u) \/ SavePut(u)
  PROVE  Inv'
<1> USE DEF Inv
<1>1. CASE VaultInsert(u)
  <2>1. /\ vault' \in [Vaults -> Versions \union {"none"}]
        /\ \A v \in Vaults : vault'[v] = "v1" => vault[v] = "v1"
    BY <1>1 DEF VaultInsert, TypeOK, Versions
  <2>2. "vault_acl" \in PCs
    BY DEF PCs
  <2>3. req' \in [Users -> Request] /\ RequestsOK'
    BY <1>1, <2>1, <2>2, GotoStep DEF VaultInsert
  <2> QED BY <1>1, <2>1, <2>3 DEF VaultInsert, TypeOK, AclOK, MembersExist
<1>2. CASE VaultAcl(u) \/ ShareBatch(u) \/ SavePut(u)
  <2>1. Done(u) /\ UNCHANGED <<accounts, org, creator, role, vault>>
    BY <1>2 DEF VaultAcl, ShareBatch, SavePut
  <2>2. req' \in [Users -> Request] /\ RequestsOK'
    BY <2>1, DoneStep
  <2>3. req[u].on \subseteq Vaults
    BY DEF TypeOK, Request
  <2>4. acl' \subseteq Vaults
    BY <1>2, <2>3 DEF VaultAcl, ShareBatch, SavePut, TypeOK
  <2>5. share' \subseteq Vaults \X Users
    <3>1. CASE ShareBatch(u)
      <4>1. ASSUME NEW v \in req[u].on, req[u].whom \in accounts
            PROVE  <<v, req[u].whom>> \in Vaults \X Users
        BY <4>1, <2>3 DEF TypeOK
      <4> QED BY <3>1, <4>1 DEF ShareBatch, TypeOK
    <3> QED BY <3>1, <1>2 DEF VaultAcl, SavePut, TypeOK
  <2>6. object' \subseteq Vaults \X Versions
    <3>1. CASE SavePut(u)
      <4>1. req[u].ver \in Versions
        BY <3>1 DEF SavePut, RequestsOK, Fits
      <4> QED BY <3>1, <4>1, <2>3 DEF SavePut, TypeOK
    <3> QED BY <3>1, <1>2 DEF VaultAcl, ShareBatch, TypeOK
  <2>7. MembersExist'
    BY <2>1 DEF MembersExist
  <2>8. AclOK'
    BY <1>2 DEF VaultAcl, ShareBatch, SavePut, AclOK
  <2> QED BY <2>1, <2>2, <2>4, <2>5, <2>6, <2>7, <2>8 DEF TypeOK
<1> QED BY <1>1, <1>2

\* An account that goes takes its memberships along, and those of the organisation
\* it created.
LEMMA DeleteAccountInv ==
  ASSUME Inv, NEW u \in Users, DeleteAccount(u)
  PROVE  Inv'
<1>1. UNCHANGED <<creator, vault, acl, object, req>>
  BY DEF DeleteAccount
<1>2. RequestsOK' /\ AclOK'
  BY <1>1 DEF Inv, RequestsOK, Fits, PurgesDead, AclOK
<1>3. /\ accounts' = accounts \ {u} /\ share' \subseteq share
      /\ org' \in {org, "deleted"}
  BY DEF DeleteAccount
<1>4. role \in [Users -> Roles] /\ "none" \in Roles
  BY DEF Inv, TypeOK, Roles
<1>5. role' \in [Users -> Roles] /\ MembersExist'
  <2>1. CASE role' = [t \in Users |-> "none"]
    BY <2>1, <1>4 DEF MembersExist
  <2>2. CASE role' = [role EXCEPT ![u] = "none"] /\ org' = org
    <3>1. /\ role' \in [Users -> Roles]
          /\ \A o \in Users : role'[o] = IF o = u THEN "none" ELSE role[o]
      BY <2>2, <1>4, RoleWritten
    <3> QED BY <2>2, <3>1, <1>3 DEF Inv, MembersExist
  <2> QED BY <2>1, <2>2 DEF DeleteAccount
<1> QED BY <1>1, <1>2, <1>3, <1>5 DEF Inv, TypeOK, Roles

\* A request that stops leaves the tables as they are.
LEMMA CrashInv ==
  ASSUME Inv, NEW u \in Users, Crash(u)
  PROVE  Inv'
<1>1. UNCHANGED tables /\ vault' = vault /\ Done(u)
  BY DEF Crash, tables
<1>2. req' \in [Users -> Request] /\ RequestsOK'
  BY <1>1, DoneStep DEF Inv
<1> QED BY <1>1, <1>2, SameTables

\* What a step is: a disjunct of Next, by some user.
LEMMA Steps ==
  ASSUME Next
  PROVE  \E u, t \in Users, v \in Vaults \union {Nobody}, a \in Assignable, b \in AddableRoles :
           \/ UpdateMemberRole(u, t, a) \/ AddMember(u, t, b) \/ RemoveMember(u, t)
           \/ DeleteOrganization(u)
           \/ v \in Vaults /\ (CreateVault(u, v) \/ ShareVault(u, t, v) \/ SaveVault(u, v))
           \/ CreateOrganization(u) \/ Continue(u) \/ DeleteAccount(u) \/ Crash(u)
<1>1. "member" \in Assignable /\ "member" \in AddableRoles
  BY DEF Assignable, AddableRoles
<1> QED BY <1>1 DEF Next

\* Every step preserves the invariant.
THEOREM NextInv == Inv /\ [Next]_vars => Inv'
<1> SUFFICES ASSUME Inv, [Next]_vars PROVE Inv'
  OBVIOUS
<1>1. CASE UNCHANGED vars
  <2>1. UNCHANGED tables /\ req' = req /\ vault' = vault
    BY <1>1 DEF vars, tables
  <2>2. req' \in [Users -> Request] /\ RequestsOK'
    BY <2>1 DEF Inv, TypeOK, RequestsOK, Fits, PurgesDead
  <2> QED BY <2>1, <2>2, SameTables
<1>2. CASE Next
  <2>1. PICK u \in Users, t \in Users, v \in Vaults \union {Nobody},
             a \in Assignable, b \in AddableRoles :
          \/ UpdateMemberRole(u, t, a) \/ AddMember(u, t, b) \/ RemoveMember(u, t)
          \/ DeleteOrganization(u)
          \/ v \in Vaults /\ (CreateVault(u, v) \/ ShareVault(u, t, v) \/ SaveVault(u, v))
          \/ CreateOrganization(u) \/ Continue(u) \/ DeleteAccount(u) \/ Crash(u)
    BY <1>2, Steps
  <2>2. CASE \/ UpdateMemberRole(u, t, a) \/ AddMember(u, t, b) \/ RemoveMember(u, t)
             \/ DeleteOrganization(u)
             \/ v \in Vaults /\ (CreateVault(u, v) \/ ShareVault(u, t, v) \/ SaveVault(u, v))
    BY <2>2, StartInv
  <2>3. CASE Continue(u)
    <3>1. CASE SeedOwner(u)
      BY <3>1, CreationInv
    <3>2. CASE RoleTarget(u) \/ AddLookup(u) \/ RemoveTarget(u)
      BY <3>2, LookupInv
    <3>3. CASE RoleWrite(u) \/ AddInsert(u) \/ RemoveBatch(u)
      BY <3>3, MembershipInv
    <3>4. CASE RemoveList(u) \/ DeleteList(u)
      BY <3>4, ListInv
    <3>5. CASE DeleteBatch(u)
      BY <3>5, DeleteBatchInv
    <3>6. CASE DeletePurge(u)
      BY <3>6, DeletePurgeInv
    <3>7. CASE VaultInsert(u) \/ VaultAcl(u) \/ ShareBatch(u) \/ SavePut(u)
      BY <3>7, VaultInv
    <3> QED BY <2>3, <3>1, <3>2, <3>3, <3>4, <3>5, <3>6, <3>7 DEF Continue
  <2>4. CASE CreateOrganization(u)
    BY <2>4, CreationInv
  <2>5. CASE DeleteAccount(u)
    BY <2>5, DeleteAccountInv
  <2>6. CASE Crash(u)
    BY <2>6, CrashInv
  <2> QED BY <2>1, <2>2, <2>3, <2>4, <2>5, <2>6
<1> QED BY <1>1, <1>2

-----------------------------------------------------------------------------
(* Who writes what.                                                        *)

\* Six actions write roles.
LEMMA RoleWriters ==
  ASSUME Next, role' # role
  PROVE  \E u \in Users : SeedOwner(u) \/ RoleWrite(u) \/ AddInsert(u) \/ RemoveBatch(u)
                          \/ DeleteBatch(u) \/ DeleteAccount(u)
<1>1. PICK u \in Users, t \in Users, v \in Vaults \union {Nobody},
           a \in Assignable, b \in AddableRoles :
        \/ UpdateMemberRole(u, t, a) \/ AddMember(u, t, b) \/ RemoveMember(u, t)
        \/ DeleteOrganization(u)
        \/ v \in Vaults /\ (CreateVault(u, v) \/ ShareVault(u, t, v) \/ SaveVault(u, v))
        \/ CreateOrganization(u) \/ Continue(u) \/ DeleteAccount(u) \/ Crash(u)
  BY Steps
<1>2. CASE \/ UpdateMemberRole(u, t, a) \/ AddMember(u, t, b) \/ RemoveMember(u, t)
           \/ DeleteOrganization(u) \/ Crash(u)
           \/ v \in Vaults /\ (CreateVault(u, v) \/ ShareVault(u, t, v) \/ SaveVault(u, v))
  <2>1. UNCHANGED tables
    BY <1>2 DEF UpdateMemberRole, AddMember, RemoveMember, DeleteOrganization, Crash,
       CreateVault, ShareVault, SaveVault
  <2> QED BY <2>1 DEF tables
<1>3. CASE Continue(u)
  <2>1. ~(RoleTarget(u) \/ AddLookup(u) \/ RemoveTarget(u) \/ RemoveList(u) \/ DeleteList(u))
    BY DEF RoleTarget, AddLookup, RemoveTarget, RemoveList, DeleteList, tables
  <2>2. ~(DeletePurge(u) \/ VaultInsert(u) \/ VaultAcl(u) \/ ShareBatch(u) \/ SavePut(u))
    BY DEF DeletePurge, VaultInsert, VaultAcl, ShareBatch, SavePut
  <2> QED BY <1>3, <2>1, <2>2, Zenon DEF Continue
<1>4. CASE CreateOrganization(u)
  BY <1>4 DEF CreateOrganization
<1> QED BY <1>1, <1>2, <1>3, <1>4

\* Only the purge takes an object away.
LEMMA ObjectWriters ==
  ASSUME Next
  PROVE  object \subseteq object' \/ \E u \in Users : DeletePurge(u)
<1>1. PICK u \in Users, t \in Users, v \in Vaults \union {Nobody},
           a \in Assignable, b \in AddableRoles :
        \/ UpdateMemberRole(u, t, a) \/ AddMember(u, t, b) \/ RemoveMember(u, t)
        \/ DeleteOrganization(u)
        \/ v \in Vaults /\ (CreateVault(u, v) \/ ShareVault(u, t, v) \/ SaveVault(u, v))
        \/ CreateOrganization(u) \/ Continue(u) \/ DeleteAccount(u) \/ Crash(u)
  BY Steps
<1>2. CASE \/ UpdateMemberRole(u, t, a) \/ AddMember(u, t, b) \/ RemoveMember(u, t)
           \/ DeleteOrganization(u) \/ Crash(u)
           \/ v \in Vaults /\ (CreateVault(u, v) \/ ShareVault(u, t, v) \/ SaveVault(u, v))
  <2>1. UNCHANGED tables
    BY <1>2 DEF UpdateMemberRole, AddMember, RemoveMember, DeleteOrganization, Crash,
       CreateVault, ShareVault, SaveVault
  <2> QED BY <2>1 DEF tables
<1>3. CASE Continue(u)
  <2>1. CASE RoleTarget(u) \/ AddLookup(u) \/ RemoveTarget(u) \/ RemoveList(u) \/ DeleteList(u)
    BY <2>1 DEF RoleTarget, AddLookup, RemoveTarget, RemoveList, DeleteList, tables
  <2>2. CASE SeedOwner(u) \/ RoleWrite(u) \/ AddInsert(u) \/ RemoveBatch(u)
    BY <2>2 DEF SeedOwner, RoleWrite, AddInsert, RemoveBatch
  <2>3. CASE DeleteBatch(u) \/ VaultInsert(u) \/ VaultAcl(u) \/ ShareBatch(u)
    BY <2>3 DEF DeleteBatch, VaultInsert, VaultAcl, ShareBatch
  <2>4. CASE SavePut(u)
    BY <2>4 DEF SavePut
  <2> QED BY <1>3, <2>1, <2>2, <2>3, <2>4, Zenon DEF Continue
<1>4. CASE CreateOrganization(u) \/ DeleteAccount(u)
  BY <1>4 DEF CreateOrganization, DeleteAccount
<1> QED BY <1>1, <1>2, <1>3, <1>4

-----------------------------------------------------------------------------
(* The theorems.                                                           *)

\* The invariant holds in every reachable state.
LEMMA Invariance == Spec => []Inv
<1> QED BY InitInv, NextInv, PTL DEF Spec

\* Every reachable state has the declared types.
THEOREM TypeCorrect == Spec => []TypeOK
<1>1. Inv => TypeOK
  BY DEF Inv
<1> QED BY Invariance, <1>1, PTL

\* Nobody is a member without an account or of an organisation that is gone,
\* whatever the account deletions race with.
THEOREM NoDanglingMembers == Spec => []MembersExist
<1>1. Inv => MembersExist
  BY DEF Inv
<1> QED BY Invariance, <1>1, PTL

\* Whoever comes in comes in below the owners.  Of the writes of roles, a seeding
\* is of the user's own request, an update leaves no row where there was none, and
\* an insert is below an owner's.
THEOREM NoOwnerFromOutside == Spec => ComesInBelow
<1> DEFINE A == \A u \in Users :
                  role[u] = "none" /\ role'[u] = "super_admin" => req[u].pc = "org_member"
<1>1. ASSUME Inv, [Next]_vars PROVE A
  <2> SUFFICES ASSUME NEW w \in Users, role[w] = "none", role'[w] = "super_admin"
               PROVE  req[w].pc = "org_member"
    OBVIOUS
  <2>1. role \in [Users -> Roles] /\ role' # role
    BY <1>1 DEF Inv, TypeOK, Roles
  <2>2. PICK u \in Users : SeedOwner(u) \/ RoleWrite(u) \/ AddInsert(u) \/ RemoveBatch(u)
                           \/ DeleteBatch(u) \/ DeleteAccount(u)
    <3>1. Next
      BY <1>1, <2>1 DEF vars, tables
    <3> QED BY <3>1, <2>1, RoleWriters
  <2>3. CASE SeedOwner(u)
    BY <2>1, <2>3 DEF SeedOwner
  <2>4. CASE RoleWrite(u)
    BY <2>1, <2>4 DEF RoleWrite, Updated
  <2>5. CASE AddInsert(u)
    <3>1. req[u].as # "super_admin"
      BY <1>1, <2>5 DEF AddInsert, Inv, RequestsOK, Fits, AddableRoles
    <3> QED BY <2>1, <2>5, <3>1 DEF AddInsert
  <2>6. CASE RemoveBatch(u) \/ DeleteBatch(u) \/ DeleteAccount(u)
    BY <2>1, <2>6 DEF RemoveBatch, DeleteBatch, DeleteAccount
  <2> QED BY <2>2, <2>3, <2>4, <2>5, <2>6
<1>2. Spec => [][A]_vars
  BY Invariance, <1>1, PTL DEF Spec
<1> QED BY <1>2 DEF ComesInBelow

\* A stored object goes only after the row that points at it: objects are deleted
\* by the purge alone, of the bare version alone, when no row points at one.
THEOREM ObjectsOutliveRows == Spec => RowsGoFirst
<1> DEFINE A == \A v \in Vaults :
                  vault'[v] # "none" /\ <<v, vault[v]>> \in object
                    => <<v, vault[v]>> \in object'
<1>1. ASSUME Inv, [Next]_vars PROVE A
  <2> SUFFICES ASSUME NEW v \in Vaults, <<v, vault[v]>> \in object
               PROVE  <<v, vault[v]>> \in object'
    OBVIOUS
  <2>1. CASE object \subseteq object'
    BY <2>1
  <2>2. CASE \E u \in Users : DeletePurge(u)
    <3>1. PICK u \in Users : DeletePurge(u)
      BY <2>2
    <3>2. vault[v] # "v1"
      BY <1>1, <3>1 DEF DeletePurge, Inv, RequestsOK, PurgesDead
    <3> QED BY <3>1, <3>2 DEF DeletePurge
  <2>3. object \subseteq object' \/ \E u \in Users : DeletePurge(u)
    <3>1. CASE UNCHANGED vars
      BY <3>1 DEF vars, tables
    <3>2. CASE Next
      BY <3>2, ObjectWriters
    <3> QED BY <1>1, <3>1, <3>2
  <2> QED BY <2>1, <2>2, <2>3
<1>2. Spec => [][A]_vars
  BY Invariance, <1>1, PTL DEF Spec
<1> QED BY <1>2 DEF RowsGoFirst

-----------------------------------------------------------------------------
(* The last owner.                                                         *)

\* A role change or a removal is about somebody else than who asked for it, and an
\* owner asked for a role change, and for the removal of whoever was seen to be one.
OtherPCs == {"role_target", "role_write", "remove_target", "remove_list", "remove_batch"}
Checked(u, r) ==
  /\ r.pc \in OtherPCs => r.whom # u
  /\ r.pc \in {"role_target", "role_write"} => r.by = "super_admin"
  /\ r.pc \in {"remove_list", "remove_batch"} /\ r.saw = "super_admin" =>
       r.by = "super_admin"
AllChecked == \A u \in Users : Checked(u, req[u])

\* One request changes and is still about somebody else.
LEMMA CheckStep ==
  ASSUME TypeOK, AllChecked, NEW u \in Users, NEW r, Become(u, r), Checked(u, r)
  PROVE  AllChecked'
<1>1. req'[u] = r /\ \A o \in Users \ {u} : req'[o] = req[o]
  BY DEF Become, TypeOK
<1> QED BY <1>1 DEF AllChecked, Checked

\* A request comes to another await.
LEMMA CheckGoto ==
  ASSUME TypeOK, AllChecked, NEW u \in Users, NEW pc, Goto(u, pc),
         pc \in OtherPCs => pc = "role_write" /\ req[u].pc = "role_target"
  PROVE  AllChecked'
<1> DEFINE r == [req[u] EXCEPT !.pc = pc]
<1>1. r.pc = pc /\ r.whom = req[u].whom /\ r.by = req[u].by /\ r.saw = req[u].saw
  BY DEF TypeOK, Request
<1>2. Checked(u, r)
  BY <1>1 DEF AllChecked, Checked, OtherPCs
<1>3. Become(u, r)
  BY DEF Goto
<1> HIDE DEF r
<1> QED BY <1>2, <1>3, CheckStep

\* A request that ends is about nobody.
LEMMA CheckDone ==
  ASSUME TypeOK, AllChecked, NEW u \in Users, Done(u)
  PROVE  AllChecked'
<1>1. Checked(u, Idle)
  BY DEF Checked, OtherPCs, Idle
<1> QED BY <1>1, CheckStep DEF Done

\* A request that begins.
LEMMA CheckStart ==
  ASSUME TypeOK, AllChecked, NEW u \in Users, NEW t \in Users, NEW v, NEW a, NEW b,
         \/ UpdateMemberRole(u, t, a) \/ AddMember(u, t, b) \/ RemoveMember(u, t)
         \/ DeleteOrganization(u) \/ CreateOrganization(u)
         \/ CreateVault(u, v) \/ ShareVault(u, t, v) \/ SaveVault(u, v)
  PROVE  AllChecked'
<1>1. CASE UpdateMemberRole(u, t, a)
  <2> PICK r : r = [Idle EXCEPT !.pc = "role_target", !.whom = t, !.as = a, !.by = role[u]]
    OBVIOUS
  <2>1. Become(u, r) /\ Checked(u, r)
    BY <1>1 DEF UpdateMemberRole, Checked, OtherPCs, Idle
  <2> QED BY <2>1, CheckStep
<1>2. CASE AddMember(u, t, b)
  <2> DEFINE r == [Idle EXCEPT !.pc = "add_lookup", !.whom = t, !.as = b]
  <2>1. Become(u, r) /\ Checked(u, r)
    BY <1>2 DEF AddMember, Checked, OtherPCs, Idle
  <2> HIDE DEF r
  <2> QED BY <2>1, CheckStep
<1>3. CASE RemoveMember(u, t)
  <2> DEFINE r == [Idle EXCEPT !.pc = "remove_target", !.whom = t, !.by = role[u]]
  <2>1. Become(u, r) /\ Checked(u, r)
    BY <1>3 DEF RemoveMember, Checked, OtherPCs, Idle
  <2> HIDE DEF r
  <2> QED BY <2>1, CheckStep
<1>4. CASE DeleteOrganization(u)
  <2> DEFINE r == [Idle EXCEPT !.pc = "delete_list"]
  <2>1. Become(u, r) /\ Checked(u, r)
    BY <1>4 DEF DeleteOrganization, Checked, OtherPCs, Idle
  <2> HIDE DEF r
  <2> QED BY <2>1, CheckStep
<1>5. CASE CreateOrganization(u)
  <2> DEFINE r == [Idle EXCEPT !.pc = "org_member"]
  <2>1. Become(u, r) /\ Checked(u, r)
    BY <1>5 DEF CreateOrganization, Checked, OtherPCs, Idle
  <2> HIDE DEF r
  <2> QED BY <2>1, CheckStep
<1>6. CASE CreateVault(u, v)
  <2> DEFINE r == [Idle EXCEPT !.pc = "vault_insert", !.on = {v}]
  <2>1. Become(u, r) /\ Checked(u, r)
    BY <1>6 DEF CreateVault, Checked, OtherPCs, Idle
  <2> HIDE DEF r
  <2> QED BY <2>1, CheckStep
<1>7. CASE ShareVault(u, t, v)
  <2> DEFINE r == [Idle EXCEPT !.pc = "share_batch", !.whom = t, !.on = {v}]
  <2>1. Become(u, r) /\ Checked(u, r)
    BY <1>7 DEF ShareVault, Checked, OtherPCs, Idle
  <2> HIDE DEF r
  <2> QED BY <2>1, CheckStep
<1>8. CASE SaveVault(u, v)
  <2> DEFINE r == [Idle EXCEPT !.pc = "put", !.on = {v}, !.ver = vault[v]]
  <2>1. Become(u, r) /\ Checked(u, r)
    BY <1>8 DEF SaveVault, Checked, OtherPCs, Idle
  <2> HIDE DEF r
  <2> QED BY <2>1, CheckStep
<1> QED BY <1>1, <1>2, <1>3, <1>4, <1>5, <1>6, <1>7, <1>8

\* A request that goes on.
LEMMA CheckContinue ==
  ASSUME TypeOK, AllChecked, NEW u \in Users, Continue(u)
  PROVE  AllChecked'
<1>1. CASE SeedOwner(u) \/ RoleWrite(u) \/ AddInsert(u) \/ RemoveBatch(u)
           \/ VaultAcl(u) \/ ShareBatch(u) \/ SavePut(u)
  BY <1>1, CheckDone DEF SeedOwner, RoleWrite, AddInsert, RemoveBatch, VaultAcl,
     ShareBatch, SavePut
<1>2. CASE RoleTarget(u)
  BY <1>2, CheckDone, CheckGoto DEF RoleTarget
<1>7. CASE RemoveTarget(u)
  <2>1. CASE Done(u)
    BY <2>1, CheckDone
  <2>2. CASE ~Done(u)
    <3> PICK r : r = [req[u] EXCEPT !.pc = "remove_list", !.saw = role[req[u].whom]]
      OBVIOUS
    <3>1. Become(u, r) /\ OutranksTarget(u) /\ req[u].pc = "remove_target"
      BY <1>7, <2>2 DEF RemoveTarget
    <3>2. /\ r.pc = "remove_list" /\ r.saw = role[req[u].whom]
          /\ r.whom = req[u].whom /\ r.by = req[u].by
      BY DEF TypeOK, Request
    <3>3. Checked(u, r)
      BY <3>1, <3>2 DEF AllChecked, Checked, OtherPCs, OutranksTarget
    <3> QED BY <3>1, <3>3, CheckStep
  <2> QED BY <2>1, <2>2
<1>3. CASE AddLookup(u) \/ DeleteBatch(u) \/ VaultInsert(u)
  BY <1>3, CheckDone, CheckGoto DEF AddLookup, DeleteBatch, VaultInsert, OtherPCs
<1>4. ASSUME NEW pc, NEW on, Become(u, [req[u] EXCEPT !.pc = pc, !.on = on]),
             pc \in OtherPCs => pc = "remove_batch" /\ req[u].pc = "remove_list"
      PROVE  AllChecked'
  <2> DEFINE r == [req[u] EXCEPT !.pc = pc, !.on = on]
  <2>1. r.pc = pc /\ r.whom = req[u].whom /\ r.by = req[u].by /\ r.saw = req[u].saw
    BY DEF TypeOK, Request
  <2>2. Become(u, r)
    BY <1>4
  <2> HIDE DEF r
  <2>3. Checked(u, r)
    BY <1>4, <2>1 DEF AllChecked, Checked, OtherPCs
  <2> QED BY <2>2, <2>3, CheckStep
<1>5. CASE RemoveList(u) \/ DeleteList(u)
  BY <1>4, <1>5 DEF RemoveList, DeleteList, OtherPCs
<1>6. CASE DeletePurge(u)
  <2>1. CASE Done(u)
    BY <2>1, CheckDone
  <2>2. CASE \E v \in req[u].on : Become(u, [req[u] EXCEPT !.on = req[u].on \ {v}])
    <3>1. PICK v \in req[u].on : Become(u, [req[u] EXCEPT !.on = req[u].on \ {v}])
      BY <2>2
    <3> DEFINE r == [req[u] EXCEPT !.on = req[u].on \ {v}]
    <3>2. r.pc = req[u].pc
      BY DEF TypeOK, Request
    <3>3. Checked(u, r)
      BY <1>6, <3>2 DEF DeletePurge, Checked, OtherPCs
    <3>4. Become(u, r)
      BY <3>1
    <3> HIDE DEF r
    <3> QED BY <3>3, <3>4, CheckStep
  <2> QED BY <1>6, <2>1, <2>2 DEF DeletePurge
<1> QED BY <1>1, <1>2, <1>3, <1>5, <1>6, <1>7 DEF Continue

\* In every reachable state, too.
LEMMA ChecksInvariant == Spec => []AllChecked
<1>1. Init => AllChecked
  BY DEF Init, AllChecked, Checked, OtherPCs, Idle
<1>2. ASSUME Inv, AllChecked, [Next]_vars PROVE AllChecked'
  <2>1. TypeOK
    BY <1>2 DEF Inv
  <2>2. CASE UNCHANGED vars
    BY <1>2, <2>2 DEF AllChecked, Checked, vars
  <2>3. CASE Next
    <3>1. PICK u \in Users, t \in Users, v \in Vaults \union {Nobody},
               a \in Assignable, b \in AddableRoles :
            \/ UpdateMemberRole(u, t, a) \/ AddMember(u, t, b) \/ RemoveMember(u, t)
            \/ DeleteOrganization(u)
            \/ v \in Vaults /\ (CreateVault(u, v) \/ ShareVault(u, t, v) \/ SaveVault(u, v))
            \/ CreateOrganization(u) \/ Continue(u) \/ DeleteAccount(u) \/ Crash(u)
      BY <2>3, Steps
    <3>2. CASE Continue(u)
      BY <1>2, <2>1, <3>2, CheckContinue
    <3>3. CASE DeleteAccount(u)
      BY <1>2, <3>3 DEF DeleteAccount, AllChecked, Checked
    <3>4. CASE Crash(u)
      BY <1>2, <2>1, <3>4, CheckDone DEF Crash
    <3> QED BY <1>2, <2>1, <3>1, <3>2, <3>3, <3>4, CheckStart
  <2> QED BY <1>2, <2>2, <2>3
<1> QED BY <1>1, <1>2, Invariance, PTL DEF Spec

\* An owner is demoted or removed by another or by a request that something has
\* overtaken: who asked for it was an owner at the check, or else saw that the member
\* to be removed was none.
LEMMA OwnersFallChecked ==
  ASSUME Inv, AllChecked, Next, NEW o \in Users,
         role[o] = "super_admin", role'[o] # "super_admin", org' = "live",
         accounts' = accounts
  PROVE  \E u \in Users : TakesFrom(u, o) /\ (u \in Owners \/ Overtaken(u))
<1>1. role \in [Users -> Roles] /\ role' # role
  BY DEF Inv, TypeOK
<1>2. PICK u \in Users : SeedOwner(u) \/ RoleWrite(u) \/ AddInsert(u) \/ RemoveBatch(u)
                         \/ DeleteBatch(u) \/ DeleteAccount(u)
  BY <1>1, RoleWriters
<1>3. ~SeedOwner(u) /\ ~AddInsert(u)
  BY <1>1 DEF SeedOwner, AddInsert
<1>4. ~DeleteBatch(u) /\ ~DeleteAccount(u)
  BY DEF DeleteBatch, DeleteAccount
<1>5. RoleWrite(u) \/ RemoveBatch(u)
  BY <1>2, <1>3, <1>4
<1>6. /\ req[u].pc \in {"role_write", "remove_batch"}
      /\ \A t \in Users : t # req[u].whom => role'[t] = role[t]
  BY <1>1, <1>5 DEF RoleWrite, RemoveBatch
<1>7. req[u].whom = o
  BY <1>1, <1>6
<1>8. TakesFrom(u, o)
  BY <1>6, <1>7 DEF AllChecked, Checked, OtherPCs, TakesFrom
<1>9. ASSUME role[u] # "super_admin" PROVE Overtaken(u)
  BY <1>6, <1>9 DEF AllChecked, Checked, Overtaken
<1> QED BY <1>8, <1>9 DEF Owners

\* However many requests are in hand, an owner is demoted or removed by another owner,
\* who remains, or by a request that was overtaken since its check: its caller has
\* fallen, or the member it removes has risen (organizations.ts:179-214, 243-302).
THEOREM LastOwnerStays == Spec => LastOwnerSafe
<1> DEFINE A == accounts' = accounts /\ org' = "live" =>
                  \A o \in Owners :
                    role'[o] # "super_admin" =>
                      \E u \in Users : TakesFrom(u, o) /\ (u \in Owners \/ Overtaken(u))
<1>1. ASSUME Inv, AllChecked, [Next]_vars PROVE A
  <2>1. CASE UNCHANGED vars
    BY <2>1 DEF vars, tables, Owners
  <2>2. CASE Next
    BY <1>1, <2>2, OwnersFallChecked DEF Owners
  <2> QED BY <1>1, <2>1, <2>2
<1>2. Spec => [][A]_vars
  BY Invariance, ChecksInvariant, <1>1, PTL DEF Spec
<1> QED BY <1>2 DEF LastOwnerSafe

-----------------------------------------------------------------------------
(* Requests in turn.                                                       *)

\* What the request r of user u has seen still is so: the caller has the role it
\* had, and outranks whom it removes; the vaults listed are those of the access
\* lists; who creates a vault has an organisation to own it; who is given a share
\* may open the vault.
Knows(u, r) ==
  /\ r.pc \in {"role_target", "role_write"} => r.as \in Assignable
  /\ r.pc \in {"role_target", "role_write"} => r.by = role[u]
  /\ r.pc \in {"remove_target", "remove_list", "remove_batch"} => r.by = role[u]
  /\ r.pc \in {"remove_list", "remove_batch"} => r.saw = role[r.whom]
  /\ r.pc = "remove_batch" => r.on = acl
  /\ r.pc \in {"vault_insert", "vault_acl"} => org = "live"
  /\ r.pc = "share_batch" => role[r.whom] # "none" /\ r.on \subseteq acl

OneInHand == \A u, o \in Busy : u = o
Known == \A u \in Users : Knows(u, req[u])

\* The inductive invariant of requests that follow one another, on top of Inv.
TurnInv ==
  /\ races \in Nat
  /\ InTurn => OneInHand /\ Known /\ SharesOfMembers /\ NoVaultOutlivesOrg

\* As long as no race is counted, whoever makes a request is the only one.
LEMMA OthersIdle ==
  ASSUME TypeOK, races \in Nat, OneInHand,
         races' = (IF Raced THEN races + 1 ELSE races), races' = 0,
         NEW u \in Users, NEW r, Become(u, r),
         req[u].pc # "idle" \/ r.pc # "idle"
  PROVE  \A o \in Users \ {u} : req[o].pc = "idle" /\ req'[o].pc = "idle"
<1>1. req'[u] = r /\ \A o \in Users \ {u} : req'[o] = req[o]
  BY DEF TypeOK, Become
<1>2. CASE req[u].pc # "idle"
  BY <1>1, <1>2 DEF OneInHand, Busy
<1>3. CASE req[u].pc = "idle"
  <2> SUFFICES ASSUME Busy # {} PROVE FALSE
    BY <1>1 DEF Busy
  <2>1. u \notin Busy /\ Busy' = Busy \union {u}
    BY <1>1, <1>3 DEF Busy
  <2>2. IsFiniteSet(Busy)
    <3>1. Busy \subseteq Users /\ IsFiniteSet(Users)
      BY OrganizationsAssumption DEF Busy
    <3> QED BY <3>1, FS_Subset
  <2>3. Cardinality(Busy) \in Nat /\ Cardinality(Busy') = Cardinality(Busy) + 1
    BY <2>1, <2>2, FS_CardinalityType, FS_AddElement
  <2>4. Raced
    BY <2>3 DEF Raced
  <2> QED BY <2>4
<1> QED BY <1>2, <1>3

\* Then the others know nothing, and it suffices to say what that one knows.
LEMMA TurnStep ==
  ASSUME TypeOK, races \in Nat, OneInHand,
         races' = (IF Raced THEN races + 1 ELSE races), races' = 0,
         NEW u \in Users, NEW r, Become(u, r),
         req[u].pc # "idle" \/ r.pc # "idle",
         Knows(u, r)'
  PROVE  OneInHand' /\ Known'
<1>1. req'[u] = r
  BY DEF TypeOK, Become
<1>2. \A o \in Users \ {u} : req'[o].pc = "idle"
  BY OthersIdle
<1>3. OneInHand'
  BY <1>2 DEF OneInHand, Busy
<1>4. ASSUME NEW o \in Users PROVE Knows(o, req[o])'
  <2>1. CASE o = u
    BY <1>1, <2>1 DEF Knows
  <2>2. CASE o # u
    BY <1>2, <2>2 DEF Knows
  <2> QED BY <2>1, <2>2
<1> QED BY <1>3, <1>4 DEF Known

\* A request that ends knows nothing.
LEMMA TurnDone ==
  ASSUME TypeOK, races \in Nat, OneInHand,
         races' = (IF Raced THEN races + 1 ELSE races), races' = 0,
         NEW u \in Users, Done(u), req[u].pc # "idle"
  PROVE  OneInHand' /\ Known'
<1>1. Knows(u, Idle)'
  BY DEF Knows, Idle
<1> QED BY <1>1, TurnStep DEF Done

\* The tables that InTurn is about.
LEMMA SharesStay ==
  ASSUME SharesOfMembers, NoVaultOutlivesOrg, UNCHANGED <<org, role, vault, acl, share>>
  PROVE  SharesOfMembers' /\ NoVaultOutlivesOrg'
BY DEF SharesOfMembers, NoVaultOutlivesOrg

\* A request that begins.
LEMMA TurnStart ==
  ASSUME Inv, OneInHand, SharesOfMembers, NoVaultOutlivesOrg, races \in Nat,
         races' = (IF Raced THEN races + 1 ELSE races), races' = 0,
         NEW u \in Users, NEW t \in Users, NEW v, NEW a \in Assignable, NEW b,
         \/ UpdateMemberRole(u, t, a) \/ AddMember(u, t, b) \/ RemoveMember(u, t)
         \/ DeleteOrganization(u)
         \/ CreateVault(u, v) \/ ShareVault(u, t, v) \/ SaveVault(u, v)
  PROVE  OneInHand' /\ Known' /\ SharesOfMembers' /\ NoVaultOutlivesOrg'
<1> SUFFICES ASSUME NEW r, Become(u, r), UNCHANGED tables, r.pc # "idle", Knows(u, r)
             PROVE  OneInHand' /\ Known' /\ SharesOfMembers' /\ NoVaultOutlivesOrg'
  <2>1. CASE UpdateMemberRole(u, t, a)
    BY <2>1 DEF UpdateMemberRole, Knows, Idle
  <2>2. CASE AddMember(u, t, b)
    BY <2>2 DEF AddMember, Knows, Idle
  <2>3. CASE RemoveMember(u, t)
    BY <2>3 DEF RemoveMember, Knows, Idle
  <2>4. CASE DeleteOrganization(u)
    BY <2>4 DEF DeleteOrganization, Knows, Idle
  <2>5. CASE CreateVault(u, v)
    <3>1. org = "live"
      BY <2>5 DEF CreateVault, AdminRoles, Inv, MembersExist
    <3> QED BY <2>5, <3>1 DEF CreateVault, Knows, Idle
  <2>6. CASE ShareVault(u, t, v)
    BY <2>6 DEF ShareVault, Entitled, Knows, Idle
  <2>7. CASE SaveVault(u, v)
    BY <2>7 DEF SaveVault, Knows, Idle
  <2> QED BY <2>1, <2>2, <2>3, <2>4, <2>5, <2>6, <2>7
<1>1. Knows(u, r)' /\ UNCHANGED <<org, role, vault, acl, share>>
  BY DEF Knows, tables
<1> QED BY <1>1, TurnStep, SharesStay DEF Inv

\* A request that goes on and leaves the tables alone.
LEMMA TurnRead ==
  ASSUME Inv, OneInHand, Known, SharesOfMembers, NoVaultOutlivesOrg, races \in Nat,
         races' = (IF Raced THEN races + 1 ELSE races), races' = 0,
         NEW u \in Users,
         \/ RoleTarget(u) \/ AddLookup(u) \/ RemoveTarget(u)
         \/ RemoveList(u) \/ DeleteList(u) \/ DeletePurge(u)
  PROVE  OneInHand' /\ Known' /\ SharesOfMembers' /\ NoVaultOutlivesOrg'
<1> DEFINE s == req[u]
<1>1. /\ UNCHANGED <<org, role, vault, acl, share>>
      /\ s.pc # "idle" /\ s \in Request /\ Knows(u, s)
  BY DEF RoleTarget, AddLookup, RemoveTarget, RemoveList, DeleteList, DeletePurge, tables,
     Inv, TypeOK, Known
<1>2. CASE Done(u)
  BY <1>1, <1>2, TurnDone, SharesStay DEF Inv
<1>3. CASE ~Done(u)
  <2> SUFFICES ASSUME NEW r, Become(u, r), Knows(u, r)
               PROVE  OneInHand' /\ Known' /\ SharesOfMembers' /\ NoVaultOutlivesOrg'
    <3>1. CASE RoleTarget(u)
      <4>1. [s EXCEPT !.pc = "role_write"].pc = "role_write"
        BY <1>1 DEF Request
      <4> QED BY <1>1, <1>3, <3>1 DEF RoleTarget, Goto, Knows, Request
    <3>2. CASE AddLookup(u)
      BY <1>1, <1>3, <3>2 DEF AddLookup, Goto, Knows, Request
    <3>3. CASE RemoveTarget(u)
      BY <1>1, <1>3, <3>3 DEF RemoveTarget, Goto, OutranksTarget, Knows, Request
    <3>4. CASE RemoveList(u)
      BY <1>1, <3>4 DEF RemoveList, AffectedVaults, Knows, Request
    <3>5. CASE DeleteList(u)
      BY <1>1, <3>5 DEF DeleteList, Knows, Request
    <3>6. CASE DeletePurge(u)
      BY <1>1, <1>3, <3>6 DEF DeletePurge, Knows, Request
    <3> QED BY <3>1, <3>2, <3>3, <3>4, <3>5, <3>6
  <2>1. Knows(u, r)'
    BY <1>1 DEF Knows
  <2> QED BY <1>1, <2>1, TurnStep, SharesStay DEF Inv
<1> QED BY <1>2, <1>3

\* The writes of memberships: a change of role leaves no member without one, and a
\* removal takes every share of the member's with it.
LEMMA TurnMembership ==
  ASSUME Inv, OneInHand, Known, SharesOfMembers, NoVaultOutlivesOrg, races \in Nat,
         races' = (IF Raced THEN races + 1 ELSE races), races' = 0,
         NEW u \in Users, SeedOwner(u) \/ RoleWrite(u) \/ AddInsert(u) \/ RemoveBatch(u)
  PROVE  OneInHand' /\ Known' /\ SharesOfMembers' /\ NoVaultOutlivesOrg'
<1> DEFINE s == req[u]
<1>1. /\ Done(u) /\ s.pc # "idle" /\ UNCHANGED <<org, vault, acl>>
      /\ role \in [Users -> Roles] /\ Knows(u, s)
  BY DEF SeedOwner, RoleWrite, AddInsert, RemoveBatch, Inv, TypeOK, Roles, Known
<1>2. OneInHand' /\ Known'
  BY <1>1, TurnDone DEF Inv
<1>3. NoVaultOutlivesOrg'
  BY <1>1 DEF NoVaultOutlivesOrg
<1>4. SharesOfMembers'
  <2>1. CASE RemoveBatch(u)
    <3>1. /\ s.on = acl /\ share' = share \ (acl \X {s.whom})
          /\ role' = [role EXCEPT ![s.whom] = "none"]
      BY <1>1, <2>1 DEF RemoveBatch, Knows
    <3>2. \A o \in Users : o # s.whom => role'[o] = role[o]
      BY <1>1, <3>1
    <3> HIDE DEF s
    <3> QED BY <1>1, <3>1, <3>2 DEF SharesOfMembers
  <2>2. CASE SeedOwner(u)
    <3>1. share' = share /\ \A o \in Users : role[o] # "none" => role'[o] # "none"
      BY <1>1, <2>2 DEF SeedOwner
    <3> QED BY <1>1, <3>1 DEF SharesOfMembers
  <2>3. CASE RoleWrite(u)
    <3>1. s.as # "none" /\ s.as \in Assignable
      BY <1>1, <2>3 DEF RoleWrite, Knows, Assignable
    <3>2. share' = share /\ role' = [role EXCEPT ![s.whom] = Updated(u)]
      BY <2>3 DEF RoleWrite
    <3>3. \A o \in Users : role[o] # "none" => role'[o] # "none"
      BY <1>1, <3>1, <3>2 DEF Updated
    <3> QED BY <1>1, <3>2, <3>3 DEF SharesOfMembers
  <2>4. CASE AddInsert(u)
    <3>1. share' = share /\ \A o \in Users : role[o] # "none" => role'[o] = role[o]
      BY <1>1, <2>4 DEF AddInsert
    <3> QED BY <1>1, <3>1 DEF SharesOfMembers
  <2> QED BY <2>1, <2>2, <2>3, <2>4
<1> QED BY <1>2, <1>3, <1>4

\* The writes of vaults, access lists, shares and objects, and the deletion.
LEMMA TurnVault ==
  ASSUME Inv, OneInHand, Known, SharesOfMembers, NoVaultOutlivesOrg, races \in Nat,
         races' = (IF Raced THEN races + 1 ELSE races), races' = 0,
         NEW u \in Users,
         VaultInsert(u) \/ VaultAcl(u) \/ ShareBatch(u) \/ SavePut(u) \/ DeleteBatch(u)
  PROVE  OneInHand' /\ Known' /\ SharesOfMembers' /\ NoVaultOutlivesOrg'
<1> DEFINE s == req[u]
<1>1. s.pc # "idle" /\ s \in Request /\ Knows(u, s)
  BY DEF VaultInsert, VaultAcl, ShareBatch, SavePut, DeleteBatch, Inv, TypeOK, Known
<1>2. OneInHand' /\ Known'
  <2>1. CASE Done(u)
    BY <1>1, <2>1, TurnDone DEF Inv
  <2>2. CASE VaultInsert(u) \/ DeleteBatch(u)
    <3>1. PICK pc \in {"vault_acl", "delete_purge"} :
            Goto(u, pc) /\ (pc = "vault_acl" => org' = "live")
      BY <1>1, <2>2 DEF VaultInsert, DeleteBatch, Knows
    <3> PICK r : r = [s EXCEPT !.pc = pc]
      OBVIOUS
    <3>2. r.pc = pc /\ Become(u, r)
      BY <1>1, <3>1 DEF Request, Goto
    <3>3. Knows(u, r)'
      BY <3>1, <3>2 DEF Knows
    <3> QED BY <1>1, <3>2, <3>3, TurnStep DEF Inv
  <2> QED BY <2>1, <2>2 DEF VaultAcl, ShareBatch, SavePut
<1>3. SharesOfMembers' /\ NoVaultOutlivesOrg'
  <2>1. CASE VaultInsert(u)
    BY <1>1, <2>1 DEF VaultInsert, Knows, SharesOfMembers, NoVaultOutlivesOrg
  <2>2. CASE VaultAcl(u)
    BY <1>1, <2>2 DEF VaultAcl, Knows, SharesOfMembers, NoVaultOutlivesOrg
  <2>3. CASE ShareBatch(u)
    <3>1. /\ UNCHANGED <<org, role, vault, acl>>
          /\ \A v, o : <<v, o>> \in share' =>
               <<v, o>> \in share \/ (v \in s.on /\ o = s.whom)
      BY <2>3 DEF ShareBatch
    <3>2. role[s.whom] # "none" /\ s.on \subseteq acl
      BY <1>1, <2>3 DEF ShareBatch, Knows
    <3> HIDE DEF s
    <3> QED BY <3>1, <3>2 DEF SharesOfMembers, NoVaultOutlivesOrg
  <2>4. CASE SavePut(u)
    BY <2>4, SharesStay DEF SavePut
  <2>5. CASE DeleteBatch(u)
    BY <2>5 DEF DeleteBatch, VaultsDropped, SharesOfMembers, NoVaultOutlivesOrg
  <2> QED BY <2>1, <2>2, <2>3, <2>4, <2>5
<1> QED BY <1>2, <1>3

\* Once requests have raced or an account is deleted, that stays so.
LEMMA InTurnBefore ==
  ASSUME TypeOK, races \in Nat, [MCNext]_mcVars, InTurn'
  PROVE  InTurn /\ \A u \in Users : ~DeleteAccount(u)
<1>1. races = 0
  BY DEF MCNext, mcVars, InTurn
<1>2. \A u \in Users : ~DeleteAccount(u)
  BY DEF DeleteAccount, InTurn
<1>3. accounts' = accounts
  <2>1. CASE UNCHANGED mcVars
    BY <2>1 DEF mcVars, vars, tables
  <2>2. CASE Next
    <3>1. PICK u \in Users, t \in Users, v \in Vaults \union {Nobody},
               a \in Assignable, b \in AddableRoles :
            \/ UpdateMemberRole(u, t, a) \/ AddMember(u, t, b) \/ RemoveMember(u, t)
            \/ DeleteOrganization(u)
            \/ v \in Vaults /\ (CreateVault(u, v) \/ ShareVault(u, t, v) \/ SaveVault(u, v))
            \/ CreateOrganization(u) \/ Continue(u) \/ DeleteAccount(u) \/ Crash(u)
      BY <2>2, Steps
    <3>2. CASE \/ UpdateMemberRole(u, t, a) \/ AddMember(u, t, b) \/ RemoveMember(u, t)
               \/ DeleteOrganization(u) \/ Crash(u)
               \/ v \in Vaults /\ (CreateVault(u, v) \/ ShareVault(u, t, v) \/ SaveVault(u, v))
      BY <3>2 DEF UpdateMemberRole, AddMember, RemoveMember, DeleteOrganization, Crash,
         CreateVault, ShareVault, SaveVault, tables
    <3>3. CASE Continue(u)
      <4>1. CASE \/ RoleTarget(u) \/ AddLookup(u) \/ RemoveTarget(u) \/ RemoveList(u)
                 \/ DeleteList(u)
        BY <4>1 DEF RoleTarget, AddLookup, RemoveTarget, RemoveList, DeleteList, tables
      <4>2. CASE SeedOwner(u) \/ RoleWrite(u) \/ AddInsert(u) \/ RemoveBatch(u)
        BY <4>2 DEF SeedOwner, RoleWrite, AddInsert, RemoveBatch
      <4>3. CASE \/ DeleteBatch(u) \/ DeletePurge(u) \/ VaultInsert(u) \/ VaultAcl(u)
                 \/ ShareBatch(u) \/ SavePut(u)
        BY <4>3 DEF DeleteBatch, DeletePurge, VaultInsert, VaultAcl, ShareBatch, SavePut
      <4> QED BY <3>3, <4>1, <4>2, <4>3, Zenon DEF Continue
    <3>4. CASE CreateOrganization(u)
      BY <3>4 DEF CreateOrganization
    <3> QED BY <1>2, <3>1, <3>2, <3>3, <3>4
  <2> QED BY <2>1, <2>2 DEF MCNext
<1> QED BY <1>1, <1>2, <1>3 DEF InTurn

\* Every step preserves the invariant of requests in turn.
LEMMA TurnInduction == Inv /\ TurnInv /\ [MCNext]_mcVars => TurnInv'
<1> SUFFICES ASSUME Inv, TurnInv, [MCNext]_mcVars PROVE TurnInv'
  OBVIOUS
<1>1. races' \in Nat
  BY DEF TurnInv, MCNext, mcVars
<1> SUFFICES ASSUME InTurn'
             PROVE  OneInHand' /\ Known' /\ SharesOfMembers' /\ NoVaultOutlivesOrg'
  BY <1>1 DEF TurnInv
<1>2. races \in Nat /\ InTurn /\ \A u \in Users : ~DeleteAccount(u)
  BY InTurnBefore DEF Inv, TurnInv
<1>3. OneInHand /\ Known /\ SharesOfMembers /\ NoVaultOutlivesOrg /\ races' = 0
  BY <1>2 DEF TurnInv, InTurn
<1>4. CASE UNCHANGED mcVars
  BY <1>3, <1>4 DEF mcVars, vars, tables, OneInHand, Busy, Known, Knows, SharesOfMembers,
     NoVaultOutlivesOrg
<1>5. CASE MCNext
  <2>1. Next /\ races' = (IF Raced THEN races + 1 ELSE races)
    BY <1>5 DEF MCNext
  <2>2. PICK u \in Users, t \in Users, v \in Vaults \union {Nobody},
             a \in Assignable, b \in AddableRoles :
          \/ UpdateMemberRole(u, t, a) \/ AddMember(u, t, b) \/ RemoveMember(u, t)
          \/ DeleteOrganization(u)
          \/ v \in Vaults /\ (CreateVault(u, v) \/ ShareVault(u, t, v) \/ SaveVault(u, v))
          \/ CreateOrganization(u) \/ Continue(u) \/ DeleteAccount(u) \/ Crash(u)
    BY <2>1, Steps
  <2>3. CASE \/ UpdateMemberRole(u, t, a) \/ AddMember(u, t, b) \/ RemoveMember(u, t)
             \/ DeleteOrganization(u)
             \/ v \in Vaults /\ (CreateVault(u, v) \/ ShareVault(u, t, v) \/ SaveVault(u, v))
    BY <1>2, <1>3, <2>1, <2>3, TurnStart
  <2>4. CASE CreateOrganization(u)
    <3> DEFINE r == [Idle EXCEPT !.pc = "org_member"]
    <3>1. Become(u, r) /\ r.pc = "org_member"
      BY <2>4 DEF CreateOrganization, Idle
    <3> HIDE DEF r
    <3>2. Knows(u, r)'
      BY <3>1 DEF Knows
    <3>3. OneInHand' /\ Known'
      BY <1>2, <1>3, <2>1, <3>1, <3>2, TurnStep DEF Inv
    <3> QED BY <1>3, <2>4, <3>3 DEF CreateOrganization, SharesOfMembers, NoVaultOutlivesOrg
  <2>5. CASE Continue(u)
    <3>1. CASE \/ RoleTarget(u) \/ AddLookup(u) \/ RemoveTarget(u)
               \/ RemoveList(u) \/ DeleteList(u) \/ DeletePurge(u)
      BY <1>2, <1>3, <2>1, <3>1, TurnRead
    <3>2. CASE SeedOwner(u) \/ RoleWrite(u) \/ AddInsert(u) \/ RemoveBatch(u)
      BY <1>2, <1>3, <2>1, <3>2, TurnMembership
    <3>3. CASE VaultInsert(u) \/ VaultAcl(u) \/ ShareBatch(u) \/ SavePut(u) \/ DeleteBatch(u)
      BY <1>2, <1>3, <2>1, <3>3, TurnVault
    <3> QED BY <2>5, <3>1, <3>2, <3>3, Zenon DEF Continue
  <2>6. CASE Crash(u)
    <3>1. UNCHANGED <<org, role, vault, acl, share>> /\ Done(u) /\ req[u].pc # "idle"
      BY <2>6 DEF Crash, tables
    <3> QED BY <1>2, <1>3, <2>1, <3>1, TurnDone, SharesStay DEF Inv
  <2> QED BY <1>2, <2>2, <2>3, <2>4, <2>5, <2>6
<1> QED BY <1>4, <1>5

\* Counting races restricts what happens and adds nothing to it.
LEMMA CountingRefines == MCSpec => Spec
<1>1. MCInit => Init
  BY DEF MCInit
<1>2. [MCNext]_mcVars => [Next]_vars
  BY DEF MCNext, mcVars
<1> QED BY <1>1, <1>2, PTL DEF MCSpec, Spec

\* The invariant of requests in turn holds in every reachable state.
LEMMA TurnInvariance == MCSpec => []TurnInv
<1>1. MCInit => TurnInv
  <2> SUFFICES ASSUME MCInit PROVE TurnInv
    OBVIOUS
  <2>1. races = 0 /\ share = {} /\ org # "deleted" /\ \A u \in Users : req[u].pc = "idle"
    BY DEF MCInit, Init, Idle
  <2> QED BY <2>1 DEF TurnInv, OneInHand, Busy, Known, Knows, SharesOfMembers,
       NoVaultOutlivesOrg
<1> QED BY <1>1, TurnInduction, CountingRefines, Invariance, PTL DEF MCSpec

\* As long as requests follow one another, wherever each may have stopped, removing
\* a member leaves none of the shares it held, and deleting the organisation none of
\* its vaults; no account has been deleted.
THEOREM NothingLeft == MCSpec => []NothingLeftInTurn
<1>1. TurnInv => NothingLeftInTurn
  BY DEF TurnInv, NothingLeftInTurn
<1> QED BY <1>1, TurnInvariance, PTL

\* And an owner is demoted or removed by another, who remains: nothing has overtaken
\* the request.
THEOREM OwnersFall == MCSpec => OwnersFallInTurn
<1> DEFINE A == InTurn /\ InTurn' => OwnersFallToOwners
<1>1. ASSUME Inv, AllChecked, TurnInv, [MCNext]_mcVars PROVE A
  <2> SUFFICES ASSUME InTurn, InTurn', NEW o \in Owners,
                      role'[o] # "super_admin", org' = "live"
               PROVE  \E u \in Owners : TakesFrom(u, o)
    BY DEF OwnersFallToOwners
  <2>1. o \in Users /\ role[o] = "super_admin" /\ accounts' = accounts
    BY DEF Owners, InTurn
  <2>2. Next
    BY <1>1, <2>1 DEF MCNext, mcVars, vars, tables
  <2>3. PICK u \in Users : TakesFrom(u, o) /\ (u \in Owners \/ Overtaken(u))
    BY <1>1, <2>1, <2>2, OwnersFallChecked
  <2>4. Knows(u, req[u])
    BY <1>1 DEF TurnInv, Known
  <2>5. ~Overtaken(u)
    BY <2>1, <2>3, <2>4 DEF TakesFrom, Overtaken, Knows, OtherPCs
  <2> QED BY <2>3, <2>5
<1>2. MCSpec => [][A]_mcVars
  BY <1>1, TurnInvariance, CountingRefines, Invariance, ChecksInvariant, PTL DEF MCSpec
<1> QED BY <1>2 DEF OwnersFallInTurn
=============================================================================
