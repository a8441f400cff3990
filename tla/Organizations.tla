--------------------------- MODULE Organizations ---------------------------
(***************************************************************************)
(* One organisation: its row, who belongs to it in which role, the vaults  *)
(* it owns, and the requests that change them.  A request runs one step    *)
(* per await, and each user has at most one in hand; req[u].pc names the   *)
(* await it stands at.  What a key share holds and how a vault is re-keyed *)
(* is the subject of VaultKeys; here a share is only there or not.         *)
(***************************************************************************)
EXTENDS Naturals, FiniteSets

CONSTANTS
  Users,     \* accounts
  Vaults,    \* vaults of the organisation
  Nobody,    \* the creator of an organisation not created yet
  Leavers,   \* the users who may delete their account
  Faults,    \* "crash": a request may stop at an await
  InHand     \* how many requests the worker has in hand at a time, at most

ASSUME OrganizationsAssumption ==
  /\ Nobody \notin Users
  /\ Leavers \subseteq Users
  /\ Faults \subseteq {"crash"}
  /\ IsFiniteSet(Users)
  /\ InHand \in Nat \ {0}

VARIABLES
  accounts,  \* users: the accounts that exist
  org,       \* organizations: whether the row exists
  creator,   \* organizations.created_by
  role,      \* user_organizations: each user's role, "none" without a row
  vault,     \* vaults: the key version of each row
  acl,       \* vault_access_controls: the vaults the organisation may open
  share,     \* vault_key_shares
  object,    \* R2: the objects stored, by vault and key version
  req        \* the request each user has in hand

tables == <<accounts, org, creator, role, vault, acl, share, object>>
vars == <<tables, req>>

Versions == {"v1", "v2"}

\* The roles handleUpdateMemberRole accepts.  Mutant: the name the interface
\* shows for the third one.
AssignableByLabel == {"member", "admin", "owner"}
Assignable == {"member", "admin", "super_admin"}
AddableRoles == {"member", "admin"}
AdminRoles == {"admin", "super_admin"}

\* The entries of user_organizations, with "none" for no row.
Roles == {"none", "member", "admin", "super_admin"}

PCs == {"idle", "org_member",
        "role_target", "role_write",
        "remove_target", "remove_list", "remove_batch",
        "add_lookup", "add_insert",
        "delete_list", "delete_batch", "delete_purge",
        "vault_insert", "vault_acl", "share_batch", "put"}

Request == [pc: PCs,
            whom: Users \union {Nobody},     \* the member the request is about
            as: Assignable \union {"none"},  \* the role it gives
            by: AdminRoles \union {"none"},  \* the caller's role, as read
            saw: Roles,                      \* the role of whom it removes, as read
            on: SUBSET Vaults,               \* the vaults it is about
            ver: Versions \union {"none"}]   \* the key version it writes

Idle == [pc |-> "idle", whom |-> Nobody, as |-> "none", by |-> "none",
         saw |-> "none", on |-> {}, ver |-> "none"]

\* The types of the tables, the objects and the clients.
TypeOK ==
  /\ accounts \subseteq Users
  /\ org \in {"absent", "live", "deleted"}
  /\ creator \in Users \union {Nobody}
  /\ role \in [Users -> Roles]
  /\ vault \in [Vaults -> Versions \union {"none"}]
  /\ acl \subseteq Vaults
  /\ share \subseteq Vaults \X Users
  /\ object \subseteq Vaults \X Versions
  /\ req \in [Users -> Request]

-----------------------------------------------------------------------------
(* Helpers.                                                                *)

Become(u, r) == req' = [req EXCEPT ![u] = r]
Goto(u, pc) == Become(u, [req[u] EXCEPT !.pc = pc])
Done(u) == Become(u, Idle)

Busy == {u \in Users : req[u].pc # "idle"}

\* A user with no request in hand makes one.
Starts(u) == req[u].pc = "idle" /\ Cardinality(Busy) < InHand

Owners == {u \in Users : role[u] = "super_admin"}

\* resolveVaultAccess for a vault of the organisation.
Entitled(u, v) == v \in acl /\ role[u] # "none"

\* Both parents of a membership row exist, or the insert breaks a foreign key.
\* Mutant: no foreign keys.
NoForeignKeys(u) == TRUE
MembershipAllowed(u) == u \in accounts /\ org = "live"

-----------------------------------------------------------------------------
(* Creating the organisation: the row, then its creator's membership.      *)

CreateOrganization(u) ==
  /\ Starts(u) /\ u \in accounts
  /\ org = "absent"
  /\ org' = "live" /\ creator' = u
  /\ Become(u, [Idle EXCEPT !.pc = "org_member"])
  /\ UNCHANGED <<accounts, role, vault, acl, share, object>>

SeedOwner(u) ==
  /\ req[u].pc = "org_member"
  /\ role' = IF MembershipAllowed(u) THEN [role EXCEPT ![u] = "super_admin"] ELSE role
  /\ Done(u)
  /\ UNCHANGED <<accounts, org, creator, vault, acl, share, object>>

-----------------------------------------------------------------------------
(* Changing a member's role.                                               *)

\* Nobody changes their own role, and only owners change anyone's.  Mutant:
\* without the first of these.
UpdateAnyRole(u, t, r) ==
  /\ Starts(u)
  /\ role[u] = "super_admin"
  /\ Become(u, [Idle EXCEPT !.pc = "role_target", !.whom = t, !.as = r, !.by = role[u]])
  /\ UNCHANGED tables

UpdateMemberRole(u, t, r) ==
  /\ Starts(u) /\ u # t
  /\ role[u] = "super_admin"
  /\ Become(u, [Idle EXCEPT !.pc = "role_target", !.whom = t, !.as = r, !.by = role[u]])
  /\ UNCHANGED tables

RoleTarget(u) ==
  /\ req[u].pc = "role_target"
  /\ IF role[req[u].whom] # "none" THEN Goto(u, "role_write") ELSE Done(u)
  /\ UNCHANGED tables

\* The role an UPDATE leaves: a row that has gone meanwhile stays gone.  Mutant:
\* an upsert.
Upserted(u) == req[u].as
Updated(u) == IF role[req[u].whom] = "none" THEN "none" ELSE req[u].as

RoleWrite(u) ==
  /\ req[u].pc = "role_write"
  /\ role' = [role EXCEPT ![req[u].whom] = Updated(u)]
  /\ Done(u)
  /\ UNCHANGED <<accounts, org, creator, vault, acl, share, object>>

-----------------------------------------------------------------------------
(* Adding and removing a member.                                           *)

AddMember(u, t, r) ==
  /\ Starts(u)
  /\ role[u] \in AdminRoles
  /\ Become(u, [Idle EXCEPT !.pc = "add_lookup", !.whom = t, !.as = r])
  /\ UNCHANGED tables

\* The new member has an account and is not a member yet.
AddLookup(u) ==
  /\ req[u].pc = "add_lookup"
  /\ IF req[u].whom \in accounts /\ role[req[u].whom] = "none"
     THEN Goto(u, "add_insert") ELSE Done(u)
  /\ UNCHANGED tables

\* An insert over a row added meanwhile breaks the primary key.
AddInsert(u) ==
  /\ req[u].pc = "add_insert"
  /\ role' = IF role[req[u].whom] = "none" /\ MembershipAllowed(req[u].whom)
             THEN [role EXCEPT ![req[u].whom] = req[u].as] ELSE role
  /\ Done(u)
  /\ UNCHANGED <<accounts, org, creator, vault, acl, share, object>>

RemoveMember(u, t) ==
  /\ Starts(u) /\ u # t
  /\ role[u] \in AdminRoles
  /\ Become(u, [Idle EXCEPT !.pc = "remove_target", !.whom = t, !.by = role[u]])
  /\ UNCHANGED tables

\* Only an owner removes an owner.  Mutant: any admin does.
AnyAdmin(u) == TRUE
OutranksTarget(u) == role[req[u].whom] = "super_admin" => req[u].by = "super_admin"

RemoveTarget(u) ==
  /\ req[u].pc = "remove_target"
  /\ IF role[req[u].whom] # "none" /\ OutranksTarget(u)
     THEN Become(u, [req[u] EXCEPT !.pc = "remove_list", !.saw = role[req[u].whom]])
     ELSE Done(u)
  /\ UNCHANGED tables

\* The vaults whose access list names 'org_7'.  Mutant: the tag is rendered as
\* 'org_7.0' and matches no row.
NoVaults == {}
AffectedVaults == acl

RemoveList(u) ==
  /\ req[u].pc = "remove_list"
  /\ Become(u, [req[u] EXCEPT !.pc = "remove_batch", !.on = AffectedVaults])
  /\ UNCHANGED tables

\* One batch: the membership, and the member's share of each vault listed.
RemoveBatch(u) ==
  /\ req[u].pc = "remove_batch"
  /\ role' = [role EXCEPT ![req[u].whom] = "none"]
  /\ share' = share \ (req[u].on \X {req[u].whom})
  /\ Done(u)
  /\ UNCHANGED <<accounts, org, creator, vault, acl, object>>

-----------------------------------------------------------------------------
(* Deleting the organisation.                                              *)

DeleteOrganization(u) ==
  /\ Starts(u)
  /\ role[u] = "super_admin"
  /\ Become(u, [Idle EXCEPT !.pc = "delete_list"])
  /\ UNCHANGED tables

\* The vaults the organisation owns.  Mutant: their objects are deleted at once.
DeleteListPurging(u) ==
  /\ req[u].pc = "delete_list"
  /\ Become(u, [req[u] EXCEPT !.pc = "delete_batch",
                  !.on = {v \in Vaults : vault[v] # "none"}])
  /\ object' = object \ (Vaults \X {"v1"})
  /\ UNCHANGED <<accounts, org, creator, role, vault, acl, share>>

DeleteList(u) ==
  /\ req[u].pc = "delete_list"
  /\ Become(u, [req[u] EXCEPT !.pc = "delete_batch",
                  !.on = {v \in Vaults : vault[v] # "none"}])
  /\ UNCHANGED tables

\* One batch: access lists, vaults (their shares by cascade), memberships, the
\* organisation.
VaultsDropped == [v \in Vaults |-> "none"]

DeleteBatch(u) ==
  /\ req[u].pc = "delete_batch"
  /\ vault' = VaultsDropped
  /\ acl' = {} /\ share' = {}
  /\ role' = [t \in Users |-> "none"]
  /\ org' = "deleted"
  /\ Goto(u, "delete_purge")
  /\ UNCHANGED <<accounts, creator, object>>

\* Then the objects, one after the other, under the bare key only.
DeletePurge(u) ==
  /\ req[u].pc = "delete_purge"
  /\ \/ \E v \in req[u].on :
          /\ object' = object \ {<<v, "v1">>}
          /\ Become(u, [req[u] EXCEPT !.on = req[u].on \ {v}])
     \/ /\ req[u].on = {}
        /\ Done(u) /\ UNCHANGED object
  /\ UNCHANGED <<accounts, org, creator, role, vault, acl, share>>

-----------------------------------------------------------------------------
(* The vaults of the organisation.                                         *)

\* An admin creates a vault: the row, which no foreign key ties to the
\* organisation, then its access list.  An id that nothing refers to stands for
\* a fresh one.
CreateVault(u, v) ==
  /\ Starts(u)
  /\ role[u] \in AdminRoles
  /\ vault[v] = "none" /\ \A t \in Users : v \notin req[t].on
  /\ ({v} \X Versions) \intersect object = {}
  /\ Become(u, [Idle EXCEPT !.pc = "vault_insert", !.on = {v}])
  /\ UNCHANGED tables

VaultInsert(u) ==
  /\ req[u].pc = "vault_insert"
  /\ vault' = [v \in Vaults |-> IF v \in req[u].on THEN "v2" ELSE vault[v]]
  /\ Goto(u, "vault_acl")
  /\ UNCHANGED <<accounts, org, creator, role, acl, share, object>>

VaultAcl(u) ==
  /\ req[u].pc = "vault_acl"
  /\ acl' = acl \union {v \in req[u].on : vault[v] # "none"}
  /\ Done(u)
  /\ UNCHANGED <<accounts, org, creator, role, vault, share, object>>

\* A member shares a vault's key with someone who may open the vault.
ShareVault(u, t, v) ==
  /\ Starts(u)
  /\ Entitled(u, v) /\ Entitled(t, v)
  /\ Become(u, [Idle EXCEPT !.pc = "share_batch", !.whom = t, !.on = {v}])
  /\ UNCHANGED tables

\* A share references its vault and its user.
ShareBatch(u) ==
  /\ req[u].pc = "share_batch"
  /\ share' = share \union {<<v, req[u].whom>> : v \in
                 {w \in req[u].on : vault[w] # "none" /\ req[u].whom \in accounts}}
  /\ Done(u)
  /\ UNCHANGED <<accounts, org, creator, role, vault, acl, object>>

\* A member saves a vault: the object of the version the row had when read.
SaveVault(u, v) ==
  /\ Starts(u)
  /\ Entitled(u, v)
  /\ Become(u, [Idle EXCEPT !.pc = "put", !.on = {v}, !.ver = vault[v]])
  /\ UNCHANGED tables

SavePut(u) ==
  /\ req[u].pc = "put"
  /\ object' = object \union (req[u].on \X {req[u].ver})
  /\ Done(u)
  /\ UNCHANGED <<accounts, org, creator, role, vault, acl, share>>

-----------------------------------------------------------------------------
(* Accounts that go away, and requests that stop.                          *)

\* Deleting a user drops the memberships and shares that reference it, and the
\* organisation it created, with every membership of that.  The vaults carry the
\* organisation as a text tag and stay.
DeleteAccount(u) ==
  /\ Starts(u) /\ u \in accounts \intersect Leavers
  /\ accounts' = accounts \ {u}
  /\ share' = share \ (Vaults \X {u})
  /\ IF creator = u /\ org = "live"
     THEN /\ org' = "deleted"
          /\ role' = [t \in Users |-> "none"]
     ELSE /\ role' = [role EXCEPT ![u] = "none"]
          /\ UNCHANGED org
  /\ UNCHANGED <<creator, vault, acl, object, req>>

\* The isolate dies, or the storage throws, before the next effect.
Crash(u) ==
  /\ "crash" \in Faults
  /\ req[u].pc # "idle"
  /\ Done(u)
  /\ UNCHANGED tables

-----------------------------------------------------------------------------

\* No organisation yet, or one with its owner and perhaps vaults from before the
\* key hierarchy.
Init ==
  /\ accounts = Users
  /\ req = [u \in Users |-> Idle]
  /\ share = {}
  /\ \E old \in SUBSET Vaults :
       /\ vault = [v \in Vaults |-> IF v \in old THEN "v1" ELSE "none"]
       /\ acl = old
       /\ object = old \X {"v1"}
       /\ \/ /\ org = "absent" /\ creator = Nobody /\ old = {}
             /\ role = [u \in Users |-> "none"]
          \/ /\ org = "live" /\ creator \in Users
             /\ role = [u \in Users |-> IF u = creator THEN "super_admin" ELSE "none"]

\* A step of the request a user has in hand.
Continue(u) ==
  \/ SeedOwner(u)
  \/ RoleTarget(u) \/ RoleWrite(u)
  \/ AddLookup(u) \/ AddInsert(u)
  \/ RemoveTarget(u) \/ RemoveList(u) \/ RemoveBatch(u)
  \/ DeleteList(u) \/ DeleteBatch(u) \/ DeletePurge(u)
  \/ VaultInsert(u) \/ VaultAcl(u) \/ ShareBatch(u) \/ SavePut(u)

Next ==
  \E u \in Users :
    \/ CreateOrganization(u) \/ DeleteOrganization(u)
    \/ \E t \in Users :
         \/ RemoveMember(u, t)
         \/ \E r \in Assignable : UpdateMemberRole(u, t, r)
         \/ \E r \in AddableRoles : AddMember(u, t, r)
         \/ \E v \in Vaults : ShareVault(u, t, v)
    \/ \E v \in Vaults : CreateVault(u, v) \/ SaveVault(u, v)
    \/ Continue(u)
    \/ DeleteAccount(u) \/ Crash(u)

Spec == Init /\ [][Next]_vars

-----------------------------------------------------------------------------
(* Properties.                                                             *)

\* A membership row belongs to an account and an organisation that exist, even
\* when the account or the organisation is deleted while a request that was
\* checked against it is about to insert the row.
MembersExist ==
  \A u \in Users : role[u] # "none" => u \in accounts /\ org = "live"

\* Whoever comes in comes in below the owners, whatever role changes, removals
\* and additions are in flight: a removed member is not brought back by a role
\* change, and only the creation of the organisation makes an outsider an owner.
ComesInBelow ==
  [][\A u \in Users :
       role[u] = "none" /\ role'[u] = "super_admin" => req[u].pc = "org_member"]_vars

\* A stored object is deleted only after the row that points at it: deleting an
\* organisation may leave objects behind, never a vault without its data.
RowsGoFirst ==
  [][\A v \in Vaults :
       vault'[v] # "none" /\ <<v, vault[v]>> \in object
         => <<v, vault[v]>> \in object']_vars

\* The write is about somebody else than its caller, whom it takes the role from.
TakesFrom(u, o) ==
  u # o /\ req[u].pc \in {"role_write", "remove_batch"} /\ req[u].whom = o

\* What the handler read before the write is no longer so: the caller was an owner
\* and is none, or the member to be removed was none and is one.
Overtaken(u) ==
  \/ req[u].by = "super_admin" /\ role[u] # "super_admin"
  \/ req[u].pc = "remove_batch" /\ req[u].saw # "super_admin"

\* An owner is demoted or removed by another owner, who remains: the role checks of
\* handleUpdateMemberRole and handleRemoveMember.
OwnersFallToOwners ==
  \A o \in Owners :
    role'[o] # "super_admin" /\ org' = "live" => \E u \in Owners : TakesFrom(u, o)

\* However requests overlap, an owner is demoted or removed by another, who remains,
\* or by a request that something has overtaken since its check.  So an organisation
\* loses its last owner, which organizations.ts:189-191 takes to be impossible, in
\* three ways: the caller was demoted or removed after its check, the member to be
\* removed was promoted after it, or the owner deletes its account.
LastOwnerSafe ==
  [][accounts' = accounts /\ org' = "live" =>
       \A o \in Owners :
         role'[o] # "super_admin" =>
           \E u \in Users : TakesFrom(u, o) /\ (u \in Owners \/ Overtaken(u))]_vars

\* Every share of an organisation's vault is a member's: removing a member takes
\* each of the shares it held with it.
SharesOfMembers ==
  \A v \in Vaults, u \in Users : <<v, u>> \in share => v \in acl /\ role[u] # "none"

\* No vault stays behind an organisation that its owner deleted.
NoVaultOutlivesOrg ==
  org = "deleted" => acl = {} /\ \A v \in Vaults : vault[v] = "none"
=============================================================================
